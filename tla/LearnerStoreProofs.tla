------------------------- MODULE LearnerStoreProofs -------------------------
(***************************************************************************)
(* Theorems about LearnerStore and EphemeralStore, for any number of       *)
(* handlers and requests.                                                  *)
(***************************************************************************)
EXTENDS EphemeralStore, SequenceTheorems, TLAPS

\* What an undisturbed handler knows: the dict it is about to save is the
\* current record with its own operation applied, and the row it loaded is the
\* current row.  A row that was loaded is still there.
Fresh(t) ==
    LET h == handler[t] IN
    /\ h.loaded # Absent => row # Absent
    /\ ~h.disturbed /\ h.pc \in {"load", "commit"} =>
         h.state = Modified(Head(h.todo), Current, h.id)
    /\ ~h.disturbed /\ h.pc = "commit" => h.loaded = row

FreshInv == \A t \in Threads : handler[t] # Absent => Fresh(t)

StoreInv == TypeInv /\ FreshInv

-----------------------------------------------------------------------------
(* Sequences of operations.                                                *)

LEMMA HeadIsOperation ==
    ASSUME NEW todo \in Seq(Operations) \ {<<>>}
    PROVE  /\ Head(todo) \in Operations /\ Len(todo) \in Nat \ {0}
           /\ Head(todo) = todo[1]
OBVIOUS

LEMMA TailIsOperations ==
    ASSUME NEW todo \in Seq(Operations) \ {<<>>}, Len(todo) # 1
    PROVE  /\ Tail(todo) \in Seq(Operations) \ {<<>>}
           /\ Len(Tail(todo)) = Len(todo) - 1
           /\ \A i \in 1..Len(Tail(todo)) : Tail(todo)[i] = todo[i + 1]
<1>1. /\ Tail(todo) \in Seq(Operations) /\ Len(Tail(todo)) = Len(todo) - 1
      /\ \A i \in 1..Len(Tail(todo)) : Tail(todo)[i] = todo[i + 1]
  BY HeadTailProperties
<1>2. Len(todo) \in Nat \ {0}  BY EmptySeq
<1>3. Len(Tail(todo)) # 0
  <2>1. Len(Tail(todo)) = Len(todo) - 1  BY <1>1
  <2> QED  BY <1>2, <2>1
<1>4. Tail(todo) # <<>>
  <2> SUFFICES ASSUME Tail(todo) = <<>>  PROVE FALSE
    OBVIOUS
  <2>1. Len(<<>>) = 0  OBVIOUS
  <2> QED  BY <1>3, <2>1, Zenon
<1> QED  BY <1>1, <1>4

\* An operation makes a learner state of a learner state.
LEMMA ModifiedType ==
    ASSUME NEW op \in Operations, NEW prev \in State, NEW id \in Nat
    PROVE  Modified(op, prev, id) \in State
<1>1. CASE op = "turn"
  <2>1. Modified(op, prev, id) = AfterTurn(prev, id)  BY <1>1 DEF Modified
  <2> QED  BY <2>1 DEF AfterTurn, State
<1>2. CASE op = "goals"
  <2>1. Modified(op, prev, id) = [prev EXCEPT !.goals = id]  BY <1>2 DEF Modified
  <2> QED  BY <2>1 DEF State
<1>3. CASE op = "clear"
  <2>1. Modified(op, prev, id) = [prev EXCEPT !.goals = 0]  BY <1>3 DEF Modified
  <2> QED  BY <2>1 DEF State
<1>4. CASE op = "reflection"
  <2>1. Modified(op, prev, id) = AfterReflection(prev, id)  BY <1>4 DEF Modified
  <2>2. [id |-> id, goals |-> prev.goals] \in Reflection  BY DEF State, Reflection
  <2>3. Append(prev.reflections, [id |-> id, goals |-> prev.goals]) \in Seq(Reflection)
    BY <2>2 DEF State
  <2> QED  BY <2>1, <2>3 DEF AfterReflection, State
<1>5. CASE op = "overlay"
  <2>1. Modified(op, prev, id) = [prev EXCEPT !.overlay = id]  BY <1>5 DEF Modified
  <2> QED  BY <2>1 DEF State
<1> QED  BY <1>1, <1>2, <1>3, <1>4, <1>5 DEF Operations

\* An operation changes its own columns only.
LEMMA ModifiedColumns ==
    ASSUME NEW op \in Operations, NEW prev \in State, NEW id \in Nat
    PROVE  LET s == Modified(op, prev, id) IN
           /\ s.learned = IF op = "turn" THEN prev.learned \cup {id} ELSE prev.learned
           /\ s.goals = IF op = "goals" THEN id ELSE IF op = "clear" THEN 0 ELSE prev.goals
           /\ s.reflections = IF op = "reflection"
                              THEN Append(prev.reflections, [id |-> id, goals |-> prev.goals])
                              ELSE prev.reflections
           /\ s.overlay = IF op = "overlay" THEN id ELSE prev.overlay
<1>1. CASE op = "turn"
  <2>1. Modified(op, prev, id) = AfterTurn(prev, id)  BY <1>1 DEF Modified
  <2> QED  BY <1>1, <2>1 DEF AfterTurn, State
<1>2. CASE op = "goals"
  <2>1. Modified(op, prev, id) = [prev EXCEPT !.goals = id]  BY <1>2 DEF Modified
  <2> QED  BY <1>2, <2>1 DEF State
<1>3. CASE op = "clear"
  <2>1. Modified(op, prev, id) = [prev EXCEPT !.goals = 0]  BY <1>3 DEF Modified
  <2> QED  BY <1>3, <2>1 DEF State
<1>4. CASE op = "reflection"
  <2>1. Modified(op, prev, id) = AfterReflection(prev, id)  BY <1>4 DEF Modified
  <2> QED  BY <1>4, <2>1 DEF AfterReflection, State
<1>5. CASE op = "overlay"
  <2>1. Modified(op, prev, id) = [prev EXCEPT !.overlay = id]  BY <1>5 DEF Modified
  <2> QED  BY <1>5, <2>1 DEF State
<1> QED  BY <1>1, <1>2, <1>3, <1>4, <1>5 DEF Operations

LEMMA CurrentType == ASSUME TypeInv  PROVE Current \in State
<1>1. Blank \in State  BY DEF Blank, State
<1> QED  BY <1>1 DEF Current, TypeInv

\* An UPDATE on the row it loaded leaves the saved state.
LEMMA UpdateOfLoaded ==
    ASSUME NEW now \in State, NEW state \in State  PROVE Updated(now, now, state) = state
BY DEF Updated, Column, State

LEMMA UpdatedType ==
    ASSUME NEW now \in State, NEW loaded \in State, NEW state \in State
    PROVE  Updated(now, loaded, state) \in State
BY DEF Updated, Column, State

-----------------------------------------------------------------------------
(* The invariant, action by action.                                        *)

\* Handlers other than t keep what they know when the row stays as it is.
LEMMA OthersStayFresh ==
    ASSUME StoreInv, NEW t \in Threads, row' = row,
           \A u \in Threads : u # t => handler'[u] = handler[u],
           handler'[t] # Absent => Fresh(t)'
    PROVE  FreshInv'
BY DEF StoreInv, FreshInv, Fresh, Current

LEMMA ArriveKeeps ==
    ASSUME StoreInv, NEW t \in Threads, Arrive(t)  PROVE StoreInv'
<1>1. PICK todo \in Requests :
        handler' = [handler EXCEPT ![t] =
            [pc |-> "read", id |-> issued + 1, todo |-> todo, state |-> Blank,
             loaded |-> Absent, disturbed |-> FALSE]]
  BY DEF Arrive
<1> DEFINE h == [pc |-> "read", id |-> issued + 1, todo |-> todo, state |-> Blank,
                 loaded |-> Absent, disturbed |-> FALSE]
<1>2. Blank \in State  BY DEF Blank, State
<1>3. todo \in Seq(Operations) \ {<<>>}  BY StoreAssumption
<1>4. h \in Handler  BY <1>2, <1>3 DEF Handler, StoreInv, TypeInv
<1>5. /\ handler' \in [Threads -> Handler \cup {Absent}] /\ handler'[t] = h
      /\ \A u \in Threads : u # t => handler'[u] = handler[u]
  BY <1>1, <1>4 DEF StoreInv, TypeInv
<1>6. TypeInv'  BY <1>5 DEF Arrive, StoreInv, TypeInv
<1>7. Fresh(t)'  BY <1>5 DEF Fresh
<1> QED  BY <1>5, <1>6, <1>7, OthersStayFresh DEF StoreInv, Arrive

LEMMA ReadKeeps ==
    ASSUME StoreInv, NEW t \in Threads, Read(t)  PROVE StoreInv'
<1> DEFINE h == handler[t]
           op == Head(h.todo)
           g == [h EXCEPT !.pc = "load", !.state = Modified(op, Current, h.id),
                          !.disturbed = FALSE]
<1>1. h \in Handler /\ h # Absent  BY DEF Read, At, StoreInv, TypeInv
<1>2. op \in Operations /\ h.id \in Nat  BY <1>1, HeadIsOperation DEF Handler
<1>3. Modified(op, Current, h.id) \in State
  BY <1>2, ModifiedType, CurrentType DEF StoreInv
<1>4. g \in Handler  BY <1>1, <1>3 DEF Handler
<1>5. /\ g.pc = "load" /\ g.state = Modified(op, Current, h.id)
      /\ g.todo = h.todo /\ g.id = h.id
      /\ g.loaded # Absent => row # Absent
  BY <1>1 DEF Handler, StoreInv, FreshInv, Fresh
<1>6. /\ handler' \in [Threads -> Handler \cup {Absent}] /\ handler'[t] = g
      /\ \A u \in Threads : u # t => handler'[u] = handler[u]
  BY <1>4 DEF Read, StoreInv, TypeInv
<1>7. TypeInv'  BY <1>6 DEF Read, StoreInv, TypeInv
<1>8. row' = row /\ Current' = Current  BY DEF Read, Current
<1>9. Fresh(t)'
  <2> HIDE DEF g
  <2> QED  BY <1>5, <1>6, <1>8 DEF Fresh
<1> QED  BY <1>6, <1>7, <1>8, <1>9, OthersStayFresh DEF StoreInv

LEMMA LoadKeeps ==
    ASSUME StoreInv, NEW t \in Threads, Load(t)  PROVE StoreInv'
<1> DEFINE h == handler[t]
           g == [h EXCEPT !.pc = "commit", !.loaded = row]
<1>1. h \in Handler /\ h # Absent /\ h.pc = "load"  BY DEF Load, At, StoreInv, TypeInv
<1>2. g \in Handler  BY <1>1 DEF Handler, StoreInv, TypeInv
<1>3. /\ g.pc = "commit" /\ g.loaded = row /\ g.state = h.state
      /\ g.todo = h.todo /\ g.id = h.id /\ g.disturbed = h.disturbed
  BY <1>1 DEF Handler
<1>4. /\ handler' \in [Threads -> Handler \cup {Absent}] /\ handler'[t] = g
      /\ \A u \in Threads : u # t => handler'[u] = handler[u]
  BY <1>2 DEF Load, StoreInv, TypeInv
<1>5. TypeInv'  BY <1>4 DEF Load, StoreInv, TypeInv
<1>6. row' = row /\ Current' = Current  BY DEF Load, Current
<1>7. Fresh(t)  BY <1>1 DEF StoreInv, FreshInv
<1>8. Fresh(t)'
  <2> HIDE DEF g
  <2> QED  BY <1>1, <1>3, <1>4, <1>6, <1>7 DEF Fresh
<1> QED  BY <1>4, <1>5, <1>6, <1>8, OthersStayFresh DEF StoreInv

\* What a commit leaves in the row.
LEMMA CommitRow ==
    ASSUME StoreInv, NEW t \in Threads, At(t, "commit"),
           row' \in Committed(row, handler[t].loaded, handler[t].state)
    PROVE  /\ row' \in State
           /\ ~handler[t].disturbed =>
                row' = Modified(Head(handler[t].todo), Current, handler[t].id)
<1> DEFINE h == handler[t]
<1>1. /\ h \in Handler /\ h.pc = "commit" /\ Fresh(t)
      /\ h.state \in State /\ h.loaded \in State \cup {Absent}
  BY DEF At, StoreInv, TypeInv, FreshInv, Handler
<1>2. CASE h.loaded = Absent
  <2>1. row' = h.state  BY <1>2 DEF Committed
  <2> QED  BY <1>1, <2>1 DEF Fresh
<1>3. CASE h.loaded # Absent /\ row # Absent
  <2>1. row \in State /\ row' = Updated(row, h.loaded, h.state)
    BY <1>3 DEF Committed, StoreInv, TypeInv
  <2>2. row' \in State  BY <1>1, <1>3, <2>1, UpdatedType
  <2>3. ~h.disturbed => row' = h.state  BY <1>1, <2>1, UpdateOfLoaded DEF Fresh
  <2> QED  BY <1>1, <2>2, <2>3 DEF Fresh
<1> QED  BY <1>1, <1>2, <1>3 DEF Fresh

\* The committing handler keeps what it knows, and disturbs the others.
LEMMA CommitKeeps ==
    ASSUME StoreInv, NEW t \in Threads, Commit(t)  PROVE StoreInv'
<1> DEFINE h == handler[t]
           g == [h EXCEPT !.pc = "emit"]
<1>1. h \in Handler /\ h # Absent /\ h.pc = "commit" /\ Fresh(t)
  BY DEF Commit, At, StoreInv, TypeInv, FreshInv
<1>2. Operation(h) \in Operations \X Nat /\ h.id \in Nat
  BY <1>1, HeadIsOperation DEF Operation, Handler
<1>3. CASE /\ row' \in Committed(row, h.loaded, h.state)
           /\ saved' = saved \cup {Operation(h)}
           /\ Disturb(t, g)
           /\ refused' = refused
  <2>1. row' \in State /\ row' # Absent
    BY <1>3, CommitRow, AbsentAssumption DEF Commit
  <2>2. g \in Handler /\ g.pc = "emit" /\ g.loaded = h.loaded  BY <1>1 DEF Handler
  <2>3. \A u \in Threads : handler[u] # Absent =>
          /\ [handler[u] EXCEPT !.disturbed = TRUE] \in Handler
          /\ [handler[u] EXCEPT !.disturbed = TRUE].disturbed
    BY DEF StoreInv, TypeInv, Handler
  <2>4. \A u \in Threads :
          /\ u = t => handler'[u] = g
          /\ u # t /\ handler[u] = Absent => handler'[u] = Absent
          /\ u # t /\ handler[u] # Absent => handler'[u] \in Handler /\ handler'[u].disturbed
    <3> HIDE DEF g
    <3> QED  BY <1>3, <2>3 DEF Disturb
  <2>5. handler' \in [Threads -> Handler \cup {Absent}]
    <3>1. handler' = [u \in Threads |-> handler'[u]]
      <4> HIDE DEF g
      <4> QED  BY <1>3 DEF Disturb
    <3> HIDE DEF g
    <3> QED  BY <2>2, <2>4, <3>1
  <2>6. TypeInv'
    BY <1>2, <1>3, <2>1, <2>5 DEF Commit, StoreInv, TypeInv
  <2>7. FreshInv'
    <3> SUFFICES ASSUME NEW u \in Threads, handler'[u] # Absent  PROVE Fresh(u)'
      BY DEF FreshInv
    <3> HIDE DEF g
    <3>1. CASE u = t  BY <2>1, <2>2, <2>4, <3>1 DEF Fresh
    <3>2. CASE u # t  BY <2>1, <2>4, <3>2 DEF Fresh
    <3> QED  BY <3>1, <3>2
  <2> QED  BY <2>6, <2>7 DEF StoreInv
<1>4. CASE /\ refused' = refused \cup {h.id}
           /\ handler' = [handler EXCEPT ![t] = Absent]
           /\ UNCHANGED <<row, saved>>
  <2>1. TypeInv'  BY <1>2, <1>4 DEF Commit, StoreInv, TypeInv
  <2>2. FreshInv'  BY <1>4, OthersStayFresh DEF StoreInv, TypeInv
  <2> QED  BY <2>1, <2>2 DEF StoreInv
<1> QED  BY <1>3, <1>4 DEF Commit

LEMMA EmitKeeps ==
    ASSUME StoreInv, NEW t \in Threads, Emit(t)  PROVE StoreInv'
<1> DEFINE h == handler[t]
           g == NextOperation(h)
<1>1. h \in Handler /\ h # Absent /\ Fresh(t) /\ h.id \in Nat
      /\ h.todo \in Seq(Operations) \ {<<>>}
  BY DEF Emit, At, StoreInv, TypeInv, FreshInv, Handler
<1>2. g \in Handler \cup {Absent} /\ (g # Absent => g.pc = "read" /\ g.loaded = h.loaded)
  <2>1. CASE Len(h.todo) = 1  BY <2>1 DEF NextOperation
  <2>2. CASE Len(h.todo) # 1
    <3>1. g = [h EXCEPT !.pc = "read", !.todo = Tail(h.todo)]  BY <2>2 DEF NextOperation
    <3>2. Tail(h.todo) \in Seq(Operations) \ {<<>>}  BY <1>1, <2>2, TailIsOperations
    <3> QED  BY <1>1, <3>1, <3>2 DEF Handler
  <2> QED  BY <2>1, <2>2
<1> HIDE DEF g
<1>3. /\ handler' \in [Threads -> Handler \cup {Absent}] /\ handler'[t] = g
      /\ \A u \in Threads : u # t => handler'[u] = handler[u]
  BY <1>2 DEF Emit, g, StoreInv, TypeInv
<1>4. Head(h.todo) \in Operations  BY <1>1, HeadIsOperation
<1>5. trace' \subseteq {EventType(op) : op \in Operations} \X Nat /\ answered' \subseteq Nat
  BY <1>1, <1>4 DEF Emit, StoreInv, TypeInv
<1>6. TypeInv'  BY <1>3, <1>5 DEF Emit, StoreInv, TypeInv
<1>7. row' = row  BY DEF Emit
<1>8. g # Absent => Fresh(t)'
  BY <1>1, <1>2, <1>3, <1>7 DEF Fresh
<1> QED  BY <1>3, <1>6, <1>7, <1>8, OthersStayFresh DEF StoreInv

LEMMA FaultKeeps ==
    ASSUME StoreInv, NEW t \in Threads, Fault(t)  PROVE StoreInv'
<1>1. TypeInv'  BY DEF Fault, StoreInv, TypeInv
<1>2. FreshInv'  BY OthersStayFresh DEF Fault, StoreInv, TypeInv
<1> QED  BY <1>1, <1>2 DEF StoreInv

\* StoreInv is inductive.
LEMMA Invariance == Spec => []StoreInv
<1>1. Init => StoreInv
  BY DEF Init, StoreInv, TypeInv, FreshInv
<1>2. StoreInv /\ [Next]_vars => StoreInv'
  <2> SUFFICES ASSUME StoreInv, [Next]_vars  PROVE StoreInv'
    OBVIOUS
  <2>1. ASSUME NEW t \in Threads,
               Arrive(t) \/ Read(t) \/ Load(t) \/ Commit(t) \/ Emit(t) \/ Fault(t)
        PROVE  StoreInv'
    BY <2>1, ArriveKeeps, ReadKeeps, LoadKeeps, CommitKeeps, EmitKeeps, FaultKeeps
  <2>2. CASE UNCHANGED vars
    BY <2>2 DEF vars, StoreInv, TypeInv, FreshInv, Fresh, Current
  <2> QED  BY <2>1, <2>2 DEF Next
<1> QED  BY <1>1, <1>2, PTL DEF Spec

-----------------------------------------------------------------------------
(* Types.                                                                  *)

\* Type correctness of the store.
THEOREM TypeCorrect == Spec => []TypeInv
<1>1. StoreInv => TypeInv  BY DEF StoreInv
<1> QED  BY <1>1, Invariance, PTL

-----------------------------------------------------------------------------
(* Requests have numbers of their own.                                     *)

IdInv ==
    \A t \in Threads : handler[t] # Absent =>
        /\ handler[t].id <= issued
        /\ \A u \in Threads : u # t /\ handler[u] # Absent => handler[u].id # handler[t].id

\* A step other than an arrival gives no handler another number.
KeepsIds ==
    /\ issued' = issued
    /\ \A t \in Threads : handler'[t] # Absent =>
         handler[t] # Absent /\ handler'[t].id = handler[t].id

LEMMA StepsKeepIds ==
    ASSUME StoreInv, NEW t \in Threads,
           Read(t) \/ Load(t) \/ Commit(t) \/ Emit(t) \/ Fault(t)
    PROVE  KeepsIds
<1>1. \A u \in Threads : handler[u] # Absent => handler[u] \in Handler
  BY DEF StoreInv, TypeInv
<1>2. CASE Read(t)  BY <1>1, <1>2 DEF Read, At, KeepsIds, StoreInv, TypeInv, Handler
<1>3. CASE Load(t)  BY <1>1, <1>3 DEF Load, At, KeepsIds, StoreInv, TypeInv, Handler
<1>4. CASE Commit(t)
  <2>1. CASE handler' = [handler EXCEPT ![t] = Absent]
    BY <1>4, <2>1 DEF Commit, KeepsIds, StoreInv, TypeInv
  <2>2. CASE Disturb(t, [handler[t] EXCEPT !.pc = "emit"])
    <3>1. handler[t] # Absent /\ [handler[t] EXCEPT !.pc = "emit"].id = handler[t].id
      BY <1>1, <1>4 DEF Commit, At, Handler
    <3>2. \A u \in Threads : handler[u] # Absent =>
            [handler[u] EXCEPT !.disturbed = TRUE].id = handler[u].id
      BY <1>1 DEF Handler
    <3> QED  BY <1>4, <2>2, <3>1, <3>2 DEF Disturb, Commit, KeepsIds
  <2> QED  BY <1>4, <2>1, <2>2 DEF Commit
<1>5. CASE Emit(t)
  <2>1. handler[t] # Absent /\ handler' = [handler EXCEPT ![t] = NextOperation(handler[t])]
    BY <1>5 DEF Emit, At
  <2>2. NextOperation(handler[t]) # Absent => NextOperation(handler[t]).id = handler[t].id
    BY <1>1, <2>1 DEF NextOperation, Handler
  <2> QED  BY <1>5, <2>1, <2>2 DEF Emit, KeepsIds, StoreInv, TypeInv
<1>6. CASE Fault(t)  BY <1>6 DEF Fault, KeepsIds, StoreInv, TypeInv
<1> QED  BY <1>2, <1>3, <1>4, <1>5, <1>6

LEMMA IdInvariance == Spec => []IdInv
<1>1. Init => IdInv  BY DEF Init, IdInv
<1>2. StoreInv /\ IdInv /\ [Next]_vars => IdInv'
  <2> SUFFICES ASSUME StoreInv, IdInv, [Next]_vars  PROVE IdInv'
    OBVIOUS
  <2>1. ASSUME KeepsIds  PROVE IdInv'
    BY <2>1 DEF KeepsIds, IdInv
  <2>2. ASSUME NEW t \in Threads, Arrive(t)  PROVE IdInv'
    <3>1. /\ issued \in Nat /\ issued' = issued + 1
          /\ handler'[t].id = issued + 1
          /\ \A u \in Threads : u # t => handler'[u] = handler[u]
          /\ \A u \in Threads : handler[u] # Absent => handler[u].id \in Nat
      BY <2>2 DEF Arrive, StoreInv, TypeInv, Handler
    <3> QED  BY <3>1 DEF IdInv
  <2>3. CASE UNCHANGED vars  BY <2>1, <2>3 DEF vars, KeepsIds
  <2> QED  BY <2>1, <2>2, <2>3, StepsKeepIds DEF Next
<1> QED  BY <1>1, <1>2, Invariance, PTL DEF Spec

-----------------------------------------------------------------------------
(* Saves.                                                                  *)

\* Only the handler that commits saves, and what it saves is its operation.
LEMMA SaveIsCommit ==
    ASSUME StoreInv, IdInv, [Next]_vars, NEW o \in saved' \ saved
    PROVE  \E t \in Threads : /\ Commit(t) /\ o = Operation(handler[t])
                              /\ row' \in Committed(row, handler[t].loaded, handler[t].state)
BY DEF Next, Arrive, Read, Load, Commit, Emit, Fault, vars

\* A save that no other save came between changes nothing but its own columns.
LEMMA UndisturbedIsLocal ==
    ASSUME StoreInv, IdInv, [Next]_vars, NEW t \in Threads, Saves(t), ~handler[t].disturbed
    PROVE  Untouched(Head(handler[t].todo))
<1> DEFINE h == handler[t]
           op == Head(h.todo)
<1>1. PICK u \in Threads : /\ Commit(u) /\ Operation(h) = Operation(handler[u])
                           /\ row' \in Committed(row, handler[u].loaded, handler[u].state)
  BY SaveIsCommit DEF Saves
<1>2. handler[t] # Absent /\ handler[u] # Absent /\ h \in Handler
  BY <1>1 DEF Saves, Commit, At, StoreInv, TypeInv
<1>3. u = t
  BY <1>1, <1>2 DEF Operation, IdInv
<1>4. op \in Operations /\ h.id \in Nat /\ Current \in State
  BY <1>2, HeadIsOperation, CurrentType DEF Handler, StoreInv
<1>5. row' = Modified(op, Current, h.id) /\ row' # Absent
  BY <1>1, <1>3, CommitRow, AbsentAssumption DEF Saves
<1>6. Current' = Modified(op, Current, h.id)  BY <1>5 DEF Current
<1> DEFINE now == Current
           next == Modified(op, now, h.id)
<1> HIDE DEF op, now
<1>7. /\ op # "turn" => next.learned = now.learned
      /\ op \notin {"goals", "clear"} => next.goals = now.goals
      /\ op # "reflection" => next.reflections = now.reflections
      /\ op # "overlay" => next.overlay = now.overlay
  <2>1. now \in State  BY <1>4 DEF now
  <2>2. op \in Operations /\ h.id \in Nat  BY <1>4
  <2> HIDE DEF h
  <2>3. /\ next.learned = IF op = "turn" THEN now.learned \cup {h.id} ELSE now.learned
        /\ next.goals = IF op = "goals" THEN h.id ELSE IF op = "clear" THEN 0 ELSE now.goals
        /\ next.reflections = IF op = "reflection"
              THEN Append(now.reflections, [id |-> h.id, goals |-> now.goals])
              ELSE now.reflections
        /\ next.overlay = IF op = "overlay" THEN h.id ELSE now.overlay
    BY <2>1, <2>2, ModifiedColumns
  <2> HIDE DEF next
  <2> QED  BY <2>3
<1> HIDE DEF next
<1>8. Current' = next  BY <1>6 DEF now, next
<1> QED  BY <1>7, <1>8 DEF Untouched, op, now

\* An operation that no other save came between changes its own part of the
\* record only (memory.py:47, goals.py:126, overlay.py:157), whatever the
\* interleaving, however many handlers there are.
THEOREM UndisturbedSavesAreLocal == Spec => UndisturbedCommitsAreLocal
<1>1. StoreInv /\ IdInv /\ [Next]_vars => [UndisturbedStep]_vars
  BY UndisturbedIsLocal DEF UndisturbedStep
<1> QED  BY <1>1, Invariance, IdInvariance, PTL DEF Spec, UndisturbedCommitsAreLocal

-----------------------------------------------------------------------------
(* What is left to do has not been done.                                   *)

\* A handler has yet to save exactly the operations that are left to it.
Pending(h) ==
    /\ \A i, j \in 1..Len(h.todo) : h.todo[i] = h.todo[j] => i = j
    /\ \A i \in 1..Len(h.todo) : (h.pc = "emit" => i # 1) => <<h.todo[i], h.id>> \notin saved

PendingInv ==
    /\ \A t \in Threads : handler[t] # Absent =>
         handler[t].id \in 1..issued /\ Pending(handler[t])
    /\ \A o \in saved : o[2] <= issued
    /\ issued <= MaxRequests

\* The step of one handler, which saves at most an operation of its own.
LEMMA OthersStayPending ==
    ASSUME PendingInv, IdInv, NEW t \in Threads, handler[t] # Absent, issued' = issued,
           \A o \in saved' : o \in saved \/ o[2] = handler[t].id,
           \A u \in Threads : u # t /\ handler'[u] # Absent =>
                /\ handler[u] # Absent /\ handler'[u].id = handler[u].id
                /\ handler'[u].todo = handler[u].todo /\ handler'[u].pc = handler[u].pc,
           handler'[t] # Absent => handler'[t].id = handler[t].id /\ Pending(handler[t])'
    PROVE  PendingInv'
<1>1. ASSUME NEW u \in Threads, u # t, handler'[u] # Absent
      PROVE  handler'[u].id \in 1..issued' /\ Pending(handler[u])'
  <2>1. handler[u].id # handler[t].id /\ handler[u].id \in 1..issued /\ Pending(handler[u])
    BY <1>1 DEF PendingInv, IdInv
  <2>2. \A op : <<op, handler[u].id>> \in saved' => <<op, handler[u].id>> \in saved
    BY <2>1
  <2> QED  BY <1>1, <2>1, <2>2 DEF Pending
<1>2. \A o \in saved' : o[2] <= issued'  BY DEF PendingInv
<1> QED  BY <1>1, <1>2 DEF PendingInv

LEMMA PendingArrive ==
    ASSUME StoreInv, PendingInv, NEW t \in Threads, Arrive(t)  PROVE PendingInv'
<1>1. PICK todo \in Requests :
        handler' = [handler EXCEPT ![t] =
            [pc |-> "read", id |-> issued + 1, todo |-> todo, state |-> Blank,
             loaded |-> Absent, disturbed |-> FALSE]]
  BY DEF Arrive
<1>2. /\ handler'[t].pc = "read" /\ handler'[t].id = issued + 1 /\ handler'[t].todo = todo
      /\ \A u \in Threads : u # t => handler'[u] = handler[u]
  BY <1>1 DEF StoreInv, TypeInv
<1>3. issued \in Nat /\ issued' = issued + 1 /\ saved' = saved
      /\ issued' <= MaxRequests /\ MaxRequests \in Nat
  BY StoreAssumption DEF Arrive, StoreInv, TypeInv
<1>4. \A o \in saved : o[2] \in Nat /\ o[2] <= issued  BY DEF StoreInv, TypeInv, PendingInv
<1>5. Pending(handler[t])'
  <2>1. \A op : <<op, issued + 1>> \notin saved  BY <1>3, <1>4
  <2>2. \A i, j \in 1..Len(todo) : todo[i] = todo[j] => i = j  BY StoreAssumption
  <2> QED  BY <1>2, <1>3, <2>1, <2>2 DEF Pending
<1>6. ASSUME NEW u \in Threads, u # t, handler'[u] # Absent
      PROVE  handler'[u].id \in 1..issued' /\ Pending(handler[u])'
  <2>1. handler'[u] = handler[u] /\ handler[u].id \in 1..issued /\ Pending(handler[u])
    BY <1>2, <1>6 DEF PendingInv
  <2>2. Pending(handler[u])'  BY <1>3, <2>1 DEF Pending
  <2> QED  BY <1>3, <2>1, <2>2
<1>7. \A o \in saved' : o[2] <= issued'  BY <1>3, <1>4
<1> QED  BY <1>2, <1>3, <1>5, <1>6, <1>7 DEF PendingInv

LEMMA PendingRead ==
    ASSUME StoreInv, IdInv, PendingInv, NEW t \in Threads, Read(t) \/ Load(t)
    PROVE  PendingInv'
<1> DEFINE h == handler[t]
<1>1. h \in Handler /\ h # Absent /\ h.pc # "emit" /\ Pending(h)
  BY DEF Read, Load, At, StoreInv, TypeInv, PendingInv
<1>2. /\ \A u \in Threads : u # t => handler'[u] = handler[u]
      /\ handler'[t].pc # "emit" /\ handler'[t].id = h.id /\ handler'[t].todo = h.todo
  <2>1. CASE Read(t)  BY <1>1, <2>1 DEF Read, StoreInv, TypeInv, Handler
  <2>2. CASE Load(t)  BY <1>1, <2>2 DEF Load, StoreInv, TypeInv, Handler
  <2> QED  BY <2>1, <2>2
<1>3. issued' = issued /\ saved' = saved  BY DEF Read, Load
<1>4. Pending(h)'  BY <1>1, <1>2, <1>3 DEF Pending
<1> QED  BY <1>1, <1>2, <1>3, <1>4, OthersStayPending

LEMMA PendingCommit ==
    ASSUME StoreInv, IdInv, PendingInv, NEW t \in Threads, Commit(t)  PROVE PendingInv'
<1> DEFINE h == handler[t]
           g == [h EXCEPT !.pc = "emit"]
<1>1. /\ h \in Handler /\ h # Absent /\ h.pc = "commit" /\ Pending(h)
      /\ h.todo \in Seq(Operations) \ {<<>>}
  BY DEF Commit, At, StoreInv, TypeInv, PendingInv, Handler
<1>2. issued' = issued  BY DEF Commit
<1>3. CASE /\ saved' = saved \cup {Operation(h)}
           /\ Disturb(t, g)
  <2>1. g.pc = "emit" /\ g.id = h.id /\ g.todo = h.todo  BY <1>1 DEF Handler
  <2> HIDE DEF g
  <2>2. handler'[t] = g  BY <1>3 DEF Disturb
  <2>3. \A u \in Threads : handler[u] # Absent =>
          LET d == [handler[u] EXCEPT !.disturbed = TRUE] IN
          d.id = handler[u].id /\ d.todo = handler[u].todo /\ d.pc = handler[u].pc
    BY DEF StoreInv, TypeInv, Handler
  <2>4. \A u \in Threads : u # t /\ handler'[u] # Absent =>
          /\ handler[u] # Absent /\ handler'[u].id = handler[u].id
          /\ handler'[u].todo = handler[u].todo /\ handler'[u].pc = handler[u].pc
    BY <1>3, <2>3 DEF Disturb
  <2>5. Head(h.todo) = h.todo[1] /\ Len(h.todo) \in Nat \ {0}  BY <1>1, HeadIsOperation
  <2>6. saved' = saved \cup {<<Head(h.todo), h.id>>}  BY <1>3 DEF Operation
  <2> HIDE DEF h
  <2>7. \A i \in 1..Len(h.todo) : i # 1 => <<h.todo[i], h.id>> \notin saved'
    <3>1. 1 \in 1..Len(h.todo)  BY <2>5
    <3> QED  BY <1>1, <2>5, <2>6, <3>1 DEF Pending
  <2>8. \A i, j \in 1..Len(h.todo) : h.todo[i] = h.todo[j] => i = j  BY <1>1 DEF Pending
  <2>9. Pending(handler[t])'  BY <2>1, <2>2, <2>7, <2>8 DEF Pending
  <2> QED  BY <1>1, <1>2, <2>1, <2>2, <2>4, <2>6, <2>9, OthersStayPending DEF h
<1>4. CASE handler' = [handler EXCEPT ![t] = Absent] /\ saved' = saved
  BY <1>1, <1>2, <1>4, OthersStayPending DEF StoreInv, TypeInv
<1> QED  BY <1>3, <1>4 DEF Commit

LEMMA PendingEmit ==
    ASSUME StoreInv, IdInv, PendingInv, NEW t \in Threads, Emit(t)  PROVE PendingInv'
<1> DEFINE h == handler[t]
           g == NextOperation(h)
<1>1. /\ h \in Handler /\ h # Absent /\ h.pc = "emit" /\ Pending(h)
      /\ h.todo \in Seq(Operations) \ {<<>>}
  BY DEF Emit, At, StoreInv, TypeInv, PendingInv, Handler
<1>2. /\ handler'[t] = g /\ \A u \in Threads : u # t => handler'[u] = handler[u]
      /\ issued' = issued /\ saved' = saved
  <2> HIDE DEF g
  <2>1. handler' = [handler EXCEPT ![t] = g]  BY DEF Emit, g
  <2> QED  BY <2>1 DEF Emit, StoreInv, TypeInv
<1>3. ASSUME g # Absent  PROVE g.id = h.id /\ Pending(handler[t])'
  <2>1. Len(h.todo) # 1 /\ g = [h EXCEPT !.pc = "read", !.todo = Tail(h.todo)]
    BY <1>3 DEF NextOperation
  <2>2. g.id = h.id /\ g.pc = "read" /\ g.todo = Tail(h.todo)
    BY <1>1, <2>1 DEF Handler
  <2>3. /\ Len(h.todo) \in Nat /\ Len(Tail(h.todo)) = Len(h.todo) - 1
        /\ \A i \in 1..Len(Tail(h.todo)) : Tail(h.todo)[i] = h.todo[i + 1]
    BY <1>1, <2>1, TailIsOperations, HeadIsOperation
  <2> DEFINE rest == Tail(h.todo)
  <2>4. \A i \in 1..Len(rest) :
          i + 1 \in 1..Len(h.todo) /\ i + 1 # 1 /\ rest[i] = h.todo[i + 1]
    BY <2>3
  <2>5. \A i \in 1..Len(rest) : <<rest[i], h.id>> \notin saved
    BY <1>1, <2>4 DEF Pending
  <2>6. \A i, j \in 1..Len(rest) : rest[i] = rest[j] => i = j
    <3> SUFFICES ASSUME NEW i \in 1..Len(rest), NEW j \in 1..Len(rest), rest[i] = rest[j]
                 PROVE  i = j
      OBVIOUS
    <3>1. i + 1 = j + 1  BY <1>1, <2>4 DEF Pending
    <3> QED  BY <3>1
  <2> HIDE DEF g, h, rest
  <2>7. handler'[t].todo = rest /\ handler'[t].id = h.id  BY <1>2, <2>2 DEF rest
  <2>8. Pending(handler[t])'  BY <1>2, <2>5, <2>6, <2>7 DEF Pending
  <2> QED  BY <2>2, <2>8
<1> HIDE DEF g
<1> QED  BY <1>1, <1>2, <1>3, OthersStayPending

LEMMA PendingInvariance == Spec => []PendingInv
<1>1. Init => PendingInv  BY StoreAssumption DEF Init, PendingInv
<1>2. StoreInv /\ IdInv /\ PendingInv /\ [Next]_vars => PendingInv'
  <2> SUFFICES ASSUME StoreInv, IdInv, PendingInv, [Next]_vars  PROVE PendingInv'
    OBVIOUS
  <2>1. ASSUME NEW t \in Threads, Fault(t)  PROVE PendingInv'
    BY <2>1, OthersStayPending DEF Fault, StoreInv, TypeInv
  <2>2. CASE UNCHANGED vars  BY <2>2 DEF vars, PendingInv, Pending
  <2> QED  BY <2>1, <2>2, PendingArrive, PendingRead, PendingCommit, PendingEmit DEF Next
<1> QED  BY <1>1, <1>2, Invariance, IdInvariance, PTL DEF Spec

-----------------------------------------------------------------------------
(* What the row holds has been saved.                                      *)

\* What a learner state shows is the work of operations that are done.
Accounted(s, done) ==
    /\ \A id \in s.learned : <<"turn", id>> \in done
    /\ s.goals # 0 => <<"goals", s.goals>> \in done
    /\ \A i \in 1..Len(s.reflections) : <<"reflection", s.reflections[i].id>> \in done
    /\ s.overlay # 0 => <<"overlay", s.overlay>> \in done

\* A handler about to save has made its dict of such a state.
Prepared(h) ==
    /\ h.loaded # Absent => Accounted(h.loaded, saved)
    /\ h.pc \in {"load", "commit"} =>
         \E prev \in State : Accounted(prev, saved) /\ h.state = Modified(Head(h.todo), prev, h.id)

AccountInv ==
    /\ row # Absent => Accounted(row, saved)
    /\ \A t \in Threads : handler[t] # Absent => Prepared(handler[t])

LEMMA CurrentAccounted == ASSUME AccountInv  PROVE Accounted(Current, saved)
BY DEF AccountInv, Current, Blank, Accounted

LEMMA ModifiedAccounted ==
    ASSUME NEW op \in Operations, NEW prev \in State, NEW id \in Nat, NEW done,
           Accounted(prev, done)
    PROVE  Accounted(Modified(op, prev, id), done \cup {<<op, id>>})
<1> DEFINE s == Modified(op, prev, id)
<1>1. /\ s.learned = IF op = "turn" THEN prev.learned \cup {id} ELSE prev.learned
      /\ s.goals = IF op = "goals" THEN id ELSE IF op = "clear" THEN 0 ELSE prev.goals
      /\ s.reflections = IF op = "reflection"
                         THEN Append(prev.reflections, [id |-> id, goals |-> prev.goals])
                         ELSE prev.reflections
      /\ s.overlay = IF op = "overlay" THEN id ELSE prev.overlay
  BY ModifiedColumns
<1>2. prev.reflections \in Seq(Reflection) /\ Len(prev.reflections) \in Nat
  BY DEF State
<1> HIDE DEF s
<1>3. CASE op = "reflection"
  <2> DEFINE r == [id |-> id, goals |-> prev.goals]
  <2>1. r \in Reflection /\ r.id = id  BY DEF State, Reflection
  <2> HIDE DEF r
  <2>2. /\ s.reflections = Append(prev.reflections, r)
        /\ Len(s.reflections) = Len(prev.reflections) + 1
        /\ s.reflections[Len(prev.reflections) + 1] = r
        /\ \A i \in 1..Len(prev.reflections) : s.reflections[i] = prev.reflections[i]
    BY <1>1, <1>2, <1>3, <2>1, AppendProperties DEF r
  <2>3. \A i \in 1..Len(s.reflections) :
          <<"reflection", s.reflections[i].id>> \in done \cup {<<op, id>>}
    <3> SUFFICES ASSUME NEW i \in 1..Len(s.reflections)
                 PROVE  <<"reflection", s.reflections[i].id>> \in done \cup {<<op, id>>}
      OBVIOUS
    <3>1. CASE i = Len(prev.reflections) + 1  BY <1>3, <2>1, <2>2, <3>1
    <3>2. CASE i # Len(prev.reflections) + 1
      <4>1. i \in 1..Len(prev.reflections)  BY <1>2, <2>2, <3>2
      <4> QED  BY <2>2, <4>1 DEF Accounted
    <3> QED  BY <3>1, <3>2
  <2> QED  BY <1>1, <1>3, <2>3 DEF Accounted, s
<1>4. CASE op # "reflection"
  BY <1>1, <1>4 DEF Accounted, s
<1> QED  BY <1>3, <1>4

\* A commit shows the operation, and leaves a row all of which has been saved.
\* Were the column's value the one loaded, the operation would have been saved
\* before.
LEMMA CommitShows ==
    ASSUME StoreInv, PendingInv, AccountInv, NEW t \in Threads, At(t, "commit"),
           row' \in Committed(row, handler[t].loaded, handler[t].state),
           NEW op, NEW id, op = Head(handler[t].todo), id = handler[t].id
    PROVE  /\ Shows(op, id)'
           /\ Accounted(row', saved \cup {<<op, id>>})
<1> DEFINE h == handler[t]
           done == saved \cup {<<op, id>>}
<1>1. /\ h # Absent /\ h \in Handler /\ h.pc = "commit" /\ Fresh(t) /\ Prepared(h)
      /\ Pending(h) /\ id \in 1..issued /\ issued \in Nat
      /\ h.loaded \in State \cup {Absent} /\ h.todo \in Seq(Operations) \ {<<>>}
  BY DEF At, StoreInv, TypeInv, FreshInv, PendingInv, AccountInv, Handler
<1>2. op \in Operations /\ id \in Nat \ {0} /\ <<op, id>> \notin saved
  <2>1. op \in Operations /\ op = h.todo[1] /\ 1 \in 1..Len(h.todo) /\ id = h.id
    BY <1>1, HeadIsOperation
  <2> HIDE DEF h
  <2> QED  BY <1>1, <2>1 DEF Pending
<1>3. PICK prev \in State : Accounted(prev, saved) /\ h.state = Modified(op, prev, id)
  BY <1>1 DEF Prepared
<1> DEFINE new == h.state
<1>4. /\ new.learned = IF op = "turn" THEN prev.learned \cup {id} ELSE prev.learned
      /\ new.goals = IF op = "goals" THEN id ELSE IF op = "clear" THEN 0 ELSE prev.goals
      /\ new.reflections = IF op = "reflection"
            THEN Append(prev.reflections, [id |-> id, goals |-> prev.goals])
            ELSE prev.reflections
      /\ new.overlay = IF op = "overlay" THEN id ELSE prev.overlay
  <2> HIDE DEF h
  <2> QED  BY <1>2, <1>3, ModifiedColumns
<1>5. new \in State /\ Accounted(new, done)
  BY <1>2, <1>3, ModifiedType, ModifiedAccounted
<1>6. op = "reflection" =>
        /\ Len(new.reflections) \in Nat \ {0} /\ new.reflections # <<>>
        /\ new.reflections[Len(new.reflections)].id = id
  <2> SUFFICES ASSUME op = "reflection"
               PROVE  /\ Len(new.reflections) \in Nat \ {0} /\ new.reflections # <<>>
                      /\ new.reflections[Len(new.reflections)].id = id
    OBVIOUS
  <2> DEFINE r == [id |-> id, goals |-> prev.goals]
  <2>1. r \in Reflection /\ r.id = id /\ prev.reflections \in Seq(Reflection)
    BY <1>2 DEF State, Reflection
  <2>2. new.reflections = Append(prev.reflections, r)  BY <1>4
  <2> HIDE DEF r, new
  <2>3. /\ Len(new.reflections) = Len(prev.reflections) + 1
        /\ new.reflections[Len(prev.reflections) + 1] = r
        /\ Len(prev.reflections) \in Nat
    BY <2>1, <2>2, AppendProperties
  <2>4. Len(new.reflections) # 0 /\ Len(<<>>) = 0  BY <2>3
  <2>5. new.reflections # <<>>  BY <2>4, Zenon
  <2> QED  BY <2>1, <2>3, <2>5
<1>7. row' # Absent
  BY CommitRow, AbsentAssumption
<1>8. Current' = row'  BY <1>7 DEF Current
<1> DEFINE now == row
           old == h.loaded
           res == row'
<1>9. CASE old = Absent
  <2>1. row' = new  BY <1>9 DEF Committed
  <2>2. Shows(op, id)'
    <3> HIDE DEF h, new
    <3> QED  BY <1>2, <1>4, <1>6, <1>8, <2>1 DEF Shows, Operations
  <2> QED  BY <1>5, <2>1, <2>2
<1>10. CASE old # Absent
  <2>1. old \in State /\ now \in State /\ Accounted(old, saved) /\ Accounted(now, saved)
    BY <1>1, <1>10 DEF Fresh, Prepared, AccountInv, StoreInv, TypeInv
  <2>2. res = Updated(now, old, new)  BY <1>10 DEF Committed
  <2>3. /\ res.learned = Column(now.learned, old.learned, new.learned)
        /\ res.goals = Column(now.goals, old.goals, new.goals)
        /\ res.reflections = Column(now.reflections, old.reflections, new.reflections)
        /\ res.overlay = Column(now.overlay, old.overlay, new.overlay)
    BY <2>2 DEF Updated
  <2> HIDE DEF h, now, old, new, res
  <2>4. Accounted(res, done)
    BY <1>5, <2>1, <2>3 DEF Accounted, Column, done
  <2>5. CASE op = "turn"
    <3>1. id \in new.learned /\ id \notin old.learned
      BY <1>2, <1>4, <2>1, <2>5 DEF Accounted
    <3>2. id \in res.learned  BY <2>3, <3>1 DEF Column
    <3> QED  BY <1>8, <2>4, <2>5, <3>2 DEF Shows, res, done
  <2>6. CASE op = "goals"
    <3>1. new.goals = id /\ old.goals # id
      BY <1>2, <1>4, <2>1, <2>6 DEF Accounted
    <3>2. res.goals = id  BY <2>3, <3>1 DEF Column
    <3> QED  BY <1>8, <2>4, <2>6, <3>2 DEF Shows, res, done
  <2>7. CASE op = "clear"
    BY <2>4, <2>7 DEF Shows, res, done
  <2>8. CASE op = "reflection"
    <3>1. new.reflections # old.reflections
      <4> SUFFICES ASSUME new.reflections = old.reflections  PROVE FALSE
        OBVIOUS
      <4>1. Len(new.reflections) \in 1..Len(old.reflections)  BY <1>6, <2>8
      <4>2. <<"reflection", id>> \in saved  BY <1>6, <2>1, <2>8, <4>1 DEF Accounted
      <4> QED  BY <1>2, <2>8, <4>2
    <3>2. res.reflections = new.reflections  BY <2>3, <3>1 DEF Column
    <3> QED  BY <1>6, <1>8, <2>4, <2>8, <3>2 DEF Shows, res, done
  <2>9. CASE op = "overlay"
    <3>1. new.overlay = id /\ old.overlay # id
      BY <1>2, <1>4, <2>1, <2>9 DEF Accounted
    <3>2. res.overlay = id  BY <2>3, <3>1 DEF Column
    <3> QED  BY <1>8, <2>4, <2>9, <3>2 DEF Shows, res, done
  <2> QED  BY <1>2, <2>5, <2>6, <2>7, <2>8, <2>9 DEF Operations
<1> QED  BY <1>9, <1>10

\* Handlers other than t keep what they hold while more and more is saved.
LEMMA OthersStayAccounted ==
    ASSUME AccountInv, NEW t \in Threads, saved \subseteq saved',
           row' # Absent => Accounted(row', saved'),
           \A u \in Threads : u # t /\ handler'[u] # Absent =>
                /\ handler[u] # Absent /\ handler'[u].loaded = handler[u].loaded
                /\ handler'[u].state = handler[u].state /\ handler'[u].pc = handler[u].pc
                /\ handler'[u].todo = handler[u].todo /\ handler'[u].id = handler[u].id,
           handler'[t] # Absent => Prepared(handler[t])'
    PROVE  AccountInv'
<1>1. ASSUME NEW u \in Threads, u # t, handler'[u] # Absent  PROVE Prepared(handler[u])'
  <2>1. Prepared(handler[u])  BY <1>1 DEF AccountInv
  <2>2. \A s : Accounted(s, saved) => Accounted(s, saved')  BY DEF Accounted
  <2> QED  BY <1>1, <2>1, <2>2 DEF Prepared
<1> QED  BY <1>1 DEF AccountInv

LEMMA StepsKeepAccount ==
    ASSUME StoreInv, PendingInv, AccountInv, NEW t \in Threads,
           Arrive(t) \/ Read(t) \/ Load(t) \/ Commit(t) \/ Emit(t) \/ Fault(t)
    PROVE  AccountInv'
<1> DEFINE h == handler[t]
<1>1. ASSUME row' = row, saved' = saved, \A u \in Threads : u # t => handler'[u] = handler[u],
             handler'[t] # Absent => Prepared(handler[t])'
      PROVE  AccountInv'
  BY <1>1, OthersStayAccounted DEF AccountInv
<1>2. h # Absent => h \in Handler /\ Prepared(h)
  BY DEF StoreInv, TypeInv, AccountInv
<1>3. CASE Arrive(t)
  <2>1. handler'[t].pc = "read" /\ handler'[t].loaded = Absent
        /\ \A u \in Threads : u # t => handler'[u] = handler[u]
    BY <1>3 DEF Arrive, StoreInv, TypeInv
  <2>2. Prepared(handler[t])'  BY <2>1 DEF Prepared
  <2> QED  BY <1>1, <1>3, <2>1, <2>2 DEF Arrive
<1>4. CASE Read(t)
  <2>1. h # Absent  BY <1>4 DEF Read, At
  <2>2. /\ handler'[t].pc = "load" /\ handler'[t].loaded = h.loaded
        /\ handler'[t].todo = h.todo /\ handler'[t].id = h.id
        /\ handler'[t].state = Modified(Head(h.todo), Current, h.id)
        /\ \A u \in Threads : u # t => handler'[u] = handler[u]
    BY <1>2, <1>4, <2>1 DEF Read, StoreInv, TypeInv, Handler
  <2>3. Current \in State /\ Accounted(Current, saved)
    BY CurrentType, CurrentAccounted DEF StoreInv
  <2>4. saved' = saved /\ row' = row  BY <1>4 DEF Read
  <2> HIDE DEF h
  <2>5. Prepared(handler[t])'
    BY <1>2, <2>1, <2>2, <2>3, <2>4 DEF Prepared
  <2> QED  BY <1>1, <2>2, <2>4, <2>5
<1>5. CASE Load(t)
  <2>1. h # Absent /\ h.pc = "load"  BY <1>5 DEF Load, At
  <2>2. /\ handler'[t].pc = "commit" /\ handler'[t].loaded = row
        /\ handler'[t].todo = h.todo /\ handler'[t].id = h.id /\ handler'[t].state = h.state
        /\ \A u \in Threads : u # t => handler'[u] = handler[u]
    BY <1>2, <1>5, <2>1 DEF Load, StoreInv, TypeInv, Handler
  <2>3. saved' = saved /\ row' = row  BY <1>5 DEF Load
  <2> HIDE DEF h
  <2>4. Prepared(handler[t])'
    BY <1>2, <2>1, <2>2, <2>3 DEF Prepared, AccountInv
  <2> QED  BY <1>1, <2>2, <2>3, <2>4
<1>6. CASE Commit(t)
  <2>1. h # Absent /\ h.pc = "commit"  BY <1>6 DEF Commit, At
  <2>2. CASE /\ row' \in Committed(row, h.loaded, h.state)
             /\ saved' = saved \cup {Operation(h)}
             /\ Disturb(t, [h EXCEPT !.pc = "emit"])
    <3>1. Accounted(row', saved')
      BY <1>6, <2>2, CommitShows DEF Commit, Operation
    <3>2. /\ [h EXCEPT !.pc = "emit"].pc = "emit"
          /\ [h EXCEPT !.pc = "emit"].loaded = h.loaded
      BY <1>2, <2>1 DEF Handler
    <3>3. handler'[t].pc = "emit" /\ handler'[t].loaded = h.loaded
      BY <2>2, <3>2 DEF Disturb
    <3>4. \A s : Accounted(s, saved) => Accounted(s, saved')  BY <2>2 DEF Accounted
    <3>5. Prepared(handler[t])'  BY <1>2, <2>1, <3>3, <3>4 DEF Prepared
    <3>6. \A u \in Threads : handler[u] # Absent =>
            LET d == [handler[u] EXCEPT !.disturbed = TRUE] IN
            /\ d.loaded = handler[u].loaded /\ d.state = handler[u].state
            /\ d.pc = handler[u].pc /\ d.todo = handler[u].todo /\ d.id = handler[u].id
      BY DEF StoreInv, TypeInv, Handler
    <3>7. \A u \in Threads : u # t /\ handler'[u] # Absent =>
            /\ handler[u] # Absent /\ handler'[u].loaded = handler[u].loaded
            /\ handler'[u].state = handler[u].state /\ handler'[u].pc = handler[u].pc
            /\ handler'[u].todo = handler[u].todo /\ handler'[u].id = handler[u].id
      BY <2>2, <3>6 DEF Disturb
    <3> QED  BY <2>2, <3>1, <3>5, <3>7, OthersStayAccounted
  <2>3. CASE handler' = [handler EXCEPT ![t] = Absent] /\ UNCHANGED <<row, saved>>
    BY <1>1, <2>3 DEF StoreInv, TypeInv
  <2> QED  BY <1>6, <2>2, <2>3 DEF Commit
<1>7. CASE Emit(t)
  <2> DEFINE g == NextOperation(h)
  <2>1. h # Absent  BY <1>7 DEF Emit, At
  <2>2. g # Absent => g.pc = "read" /\ g.loaded = h.loaded
    BY <1>2, <2>1 DEF NextOperation, Handler
  <2> HIDE DEF g
  <2>3. handler' = [handler EXCEPT ![t] = g] /\ row' = row /\ saved' = saved
    BY <1>7 DEF Emit, g
  <2>4. handler'[t] = g /\ \A u \in Threads : u # t => handler'[u] = handler[u]
    BY <2>3 DEF StoreInv, TypeInv
  <2>5. g # Absent => Prepared(handler[t])'
    BY <1>2, <2>1, <2>2, <2>3, <2>4 DEF Prepared
  <2> QED  BY <1>1, <2>3, <2>4, <2>5
<1>8. CASE Fault(t)
  BY <1>1, <1>8 DEF Fault, StoreInv, TypeInv
<1> QED  BY <1>3, <1>4, <1>5, <1>6, <1>7, <1>8

LEMMA AccountInvariance == Spec => []AccountInv
<1>1. Init => AccountInv  BY DEF Init, AccountInv
<1>2. StoreInv /\ PendingInv /\ AccountInv /\ [Next]_vars => AccountInv'
  <2>1. CASE UNCHANGED vars  BY <2>1 DEF vars, AccountInv, Prepared
  <2> QED  BY <2>1, StepsKeepAccount DEF Next
<1> QED  BY <1>1, <1>2, Invariance, PendingInvariance, PTL DEF Spec

\* What an operation was asked to save is in the row it commits, whoever else
\* committed meanwhile and whatever row it had loaded: the column-wise UPDATE
\* (SqlStore.save_learner_state) never skips the operation's own column.
THEOREM SavesLand == Spec => CommitsLand
<1>1. StoreInv /\ IdInv /\ PendingInv /\ AccountInv /\ [Next]_vars => [CommitLandsStep]_vars
  <2> SUFFICES ASSUME StoreInv, IdInv, PendingInv, AccountInv, [Next]_vars,
                      NEW o \in saved' \ saved
               PROVE  Shows(o[1], o[2])'
    BY DEF CommitLandsStep
  <2>1. PICK t \in Threads : /\ Commit(t) /\ o = Operation(handler[t])
                             /\ row' \in Committed(row, handler[t].loaded, handler[t].state)
    BY SaveIsCommit
  <2>2. At(t, "commit") /\ o[1] = Head(handler[t].todo) /\ o[2] = handler[t].id
    BY <2>1 DEF Commit, Operation
  <2> QED  BY <2>1, <2>2, CommitShows
<1> QED  BY <1>1, Invariance, IdInvariance, PendingInvariance, AccountInvariance, PTL
         DEF Spec, CommitsLand

-----------------------------------------------------------------------------
(* One request at a time.                                                  *)

SerialInv ==
    /\ \A t, u \in Threads : handler[t] # Absent /\ handler[u] # Absent => t = u
    /\ \A t \in Threads : handler[t] # Absent => ~handler[t].disturbed
    /\ refused = {}

\* The step of the only handler there is.
LEMMA SerialStep ==
    ASSUME SerialInv, NEW t \in Threads, handler[t] # Absent, refused' = refused,
           \A u \in Threads : u # t /\ handler[u] = Absent => handler'[u] = Absent,
           handler'[t] # Absent => ~handler'[t].disturbed
    PROVE  SerialInv'
BY DEF SerialInv

LEMMA PatientStays == ASSUME [Next]_vars  PROVE patient' = patient
BY DEF Next, Arrive, Read, Load, Commit, Emit, Fault, vars

LEMMA SerialArrive ==
    ASSUME patient, StoreInv, SerialInv, NEW t \in Threads, Arrive(t)  PROVE SerialInv'
<1>1. PICK todo \in Requests :
        handler' = [handler EXCEPT ![t] =
            [pc |-> "read", id |-> issued + 1, todo |-> todo, state |-> Blank,
             loaded |-> Absent, disturbed |-> FALSE]]
  BY DEF Arrive
<1>2. ~handler'[t].disturbed /\ \A u \in Threads : u # t => handler'[u] = Absent
  BY <1>1 DEF Arrive, StoreInv, TypeInv
<1> QED  BY <1>2 DEF SerialInv, Arrive

LEMMA SerialRead ==
    ASSUME StoreInv, SerialInv, NEW t \in Threads, Read(t) \/ Load(t)  PROVE SerialInv'
<1>1. handler[t] \in Handler /\ handler[t] # Absent /\ ~handler[t].disturbed
  BY DEF Read, Load, At, StoreInv, TypeInv, SerialInv
<1>2. ~handler'[t].disturbed /\ \A u \in Threads : u # t => handler'[u] = handler[u]
  <2>1. CASE Read(t)  BY <1>1, <2>1 DEF Read, StoreInv, TypeInv, Handler
  <2>2. CASE Load(t)  BY <1>1, <2>2 DEF Load, StoreInv, TypeInv, Handler
  <2> QED  BY <2>1, <2>2
<1> QED  BY <1>1, <1>2, SerialStep DEF Read, Load

\* The only handler's commit is never refused.
LEMMA SerialCommits ==
    ASSUME StoreInv, SerialInv, NEW t \in Threads, Commit(t)
    PROVE  /\ row' \in Committed(row, handler[t].loaded, handler[t].state)
           /\ saved' = saved \cup {Operation(handler[t])}
           /\ Disturb(t, [handler[t] EXCEPT !.pc = "emit"])
           /\ refused' = refused
<1>1. handler[t] # Absent /\ handler[t].pc = "commit" /\ Fresh(t) /\ ~handler[t].disturbed
  BY DEF Commit, At, StoreInv, FreshInv, SerialInv
<1>2. handler[t].loaded = row  BY <1>1 DEF Fresh
<1>3. Committed(row, handler[t].loaded, handler[t].state) # {}  BY <1>2 DEF Committed
<1> QED  BY <1>3 DEF Commit

LEMMA SerialCommit ==
    ASSUME StoreInv, SerialInv, NEW t \in Threads, Commit(t)  PROVE SerialInv'
<1> DEFINE g == [handler[t] EXCEPT !.pc = "emit"]
<1>1. handler[t] # Absent /\ ~g.disturbed
  BY DEF Commit, At, StoreInv, TypeInv, SerialInv, Handler
<1>2. Disturb(t, g)  BY SerialCommits
<1> HIDE DEF g
<1>3. handler'[t] = g /\ \A u \in Threads : u # t /\ handler[u] = Absent => handler'[u] = Absent
  BY <1>2 DEF Disturb
<1> QED  BY <1>1, <1>3, SerialCommits, SerialStep

LEMMA SerialEmit ==
    ASSUME StoreInv, SerialInv, NEW t \in Threads, Emit(t)  PROVE SerialInv'
<1> DEFINE g == NextOperation(handler[t])
<1>1. handler[t] # Absent /\ (g # Absent => ~g.disturbed)
  BY DEF Emit, At, NextOperation, StoreInv, TypeInv, SerialInv, Handler
<1> HIDE DEF g
<1>2. handler' = [handler EXCEPT ![t] = g] /\ refused' = refused  BY DEF Emit, g
<1>3. handler'[t] = g /\ \A u \in Threads : u # t => handler'[u] = handler[u]
  BY <1>2 DEF StoreInv, TypeInv
<1> QED  BY <1>1, <1>2, <1>3, SerialStep

LEMMA SerialInvariance == Spec => [](patient => SerialInv)
<1>1. Init => (patient => SerialInv)  BY DEF Init, SerialInv
<1>2. StoreInv /\ (patient => SerialInv) /\ [Next]_vars => (patient => SerialInv)'
  <2> SUFFICES ASSUME StoreInv, patient => SerialInv, [Next]_vars, patient'
               PROVE  SerialInv'
    OBVIOUS
  <2>0. patient /\ SerialInv  BY PatientStays
  <2>1. ASSUME NEW t \in Threads, Fault(t)  PROVE SerialInv'
    BY <2>0, <2>1, SerialStep DEF Fault, StoreInv, TypeInv
  <2>2. CASE UNCHANGED vars  BY <2>0, <2>2 DEF vars, SerialInv
  <2> QED  BY <2>0, <2>1, <2>2, SerialArrive, SerialRead, SerialCommit, SerialEmit DEF Next
<1> QED  BY <1>1, <1>2, Invariance, PTL DEF Spec

\* A client that waits for each answer never has a save refused.
THEOREM SerialSavesSucceed == Spec => []NoneRefused
<1>1. (patient => SerialInv) => NoneRefused  BY DEF SerialInv, NoneRefused
<1> QED  BY <1>1, SerialInvariance, PTL

\* The only handler's commit is one operation of LearnerRecord.
LEMMA CommitIsOperation ==
    ASSUME StoreInv, SerialInv, PendingInv, NEW t \in Threads, Commit(t)  PROVE Record!Next
<1> DEFINE h == handler[t]
           op == Head(h.todo)
           now == Current
           next == Modified(op, now, h.id)
<1>1. /\ h \in Handler /\ Pending(h) /\ h.pc = "commit" /\ ~h.disturbed /\ h # Absent
      /\ h.todo \in Seq(Operations) \ {<<>>} /\ h.id \in 1..issued /\ issued <= MaxRequests
      /\ issued \in Nat /\ MaxRequests \in Nat
  BY StoreAssumption DEF Commit, At, StoreInv, TypeInv, SerialInv, PendingInv, Handler
<1>2. op \in Operations /\ h.id \in Nat /\ h.id \in 1..MaxRequests /\ now \in State
  BY <1>1, HeadIsOperation, CurrentType DEF StoreInv
<1>3. <<op, h.id>> \notin saved
  BY <1>1, HeadIsOperation DEF Pending
<1>4. saved' = saved \cup {<<op, h.id>>}
  BY SerialCommits DEF Operation
<1>5. Current' = next
  <2>1. row' = next /\ row' # Absent
    BY <1>1, SerialCommits, CommitRow, AbsentAssumption DEF Commit
  <2> HIDE DEF next
  <2> QED  BY <2>1 DEF Current
<1> HIDE DEF op, now, next, h
<1>6. /\ next.learned = IF op = "turn" THEN now.learned \cup {h.id} ELSE now.learned
      /\ next.goals = IF op = "goals" THEN h.id ELSE IF op = "clear" THEN 0 ELSE now.goals
      /\ next.reflections = IF op = "reflection"
            THEN Append(now.reflections, [id |-> h.id, goals |-> now.goals])
            ELSE now.reflections
      /\ next.overlay = IF op = "overlay" THEN h.id ELSE now.overlay
  BY <1>2, ModifiedColumns DEF next
<1>7. now = Current  BY DEF now
<1>8. Record!Once(op, h.id)  BY <1>3, <1>4 DEF Record!Once
<1>9. CASE op = "turn"
  <2>1. Record!Turn(h.id)  BY <1>5, <1>6, <1>7, <1>8, <1>9 DEF Record!Turn
  <2> QED  BY <1>2, <2>1 DEF Record!Next
<1>10. CASE op = "goals"
  <2>1. Record!SetGoals(h.id)  BY <1>5, <1>6, <1>7, <1>8, <1>10 DEF Record!SetGoals
  <2> QED  BY <1>2, <2>1 DEF Record!Next
<1>11. CASE op = "clear"
  <2>1. Record!ClearGoals(h.id)
    BY <1>5, <1>6, <1>7, <1>8, <1>11 DEF Record!ClearGoals, Record!None
  <2> QED  BY <1>2, <2>1 DEF Record!Next
<1>12. CASE op = "reflection"
  <2>1. Record!AddReflection(h.id)  BY <1>5, <1>6, <1>7, <1>8, <1>12 DEF Record!AddReflection
  <2> QED  BY <1>2, <2>1 DEF Record!Next
<1>13. CASE op = "overlay"
  <2>1. Record!SetOverlay(h.id)  BY <1>5, <1>6, <1>7, <1>8, <1>13 DEF Record!SetOverlay
  <2> QED  BY <1>2, <2>1 DEF Record!Next
<1> QED  BY <1>2, <1>9, <1>10, <1>11, <1>12, <1>13 DEF Operations

\* To a client that waits for each answer, the store keeps the promise of
\* LearnerRecord: every saved operation is applied once, atomically, and the
\* rest of the record is left alone (goals.py:126-127, overlay.py:157-158,
\* memory.py:47-48), through faults and lost events.
THEOREM SerialStoreKeepsRecord == Spec => ImplementsRecord
<1>1. Init => Record!Init
  BY DEF Init, Record!Init, Record!None, Current, Blank
<1>2. StoreInv /\ PendingInv /\ (patient => SerialInv) /\ [Next]_vars
        => [patient => Record!Next]_<<Record!record, saved>>
  <2> SUFFICES ASSUME StoreInv, PendingInv, patient => SerialInv, [Next]_vars, patient
               PROVE  Record!Next \/ UNCHANGED <<Record!record, saved>>
    OBVIOUS
  <2>1. ASSUME row' = row, saved' = saved  PROVE UNCHANGED <<Record!record, saved>>
    BY <2>1 DEF Record!record, Current
  <2>2. ASSUME NEW t \in Threads, Arrive(t) \/ Read(t) \/ Load(t) \/ Emit(t) \/ Fault(t)
        PROVE  row' = row /\ saved' = saved
    BY <2>2 DEF Arrive, Read, Load, Emit, Fault
  <2>3. CASE UNCHANGED vars  BY <2>1, <2>3 DEF vars
  <2> QED  BY <2>1, <2>2, <2>3, CommitIsOperation DEF Next
<1> QED  BY <1>1, <1>2, Invariance, PendingInvariance, SerialInvariance, PTL DEF Spec, ImplementsRecord

-----------------------------------------------------------------------------
(* The in-memory store.                                                    *)

Busy(u) == worker[u] # Absent /\ worker[u].pc # "get"

\* A worker's request has a number that was given out, and the worker has read,
\* or has yet to read, every column it writes back.
Underway(w) ==
    /\ w.id \in 1..asked
    /\ w.pc # "get" => w.ref \in 1..Len(dicts) /\ w.seen \subseteq WritesBack(Task(w))
    /\ w.pc = "read" => w.reads # <<>> /\ Task(w) \in {"turn", "reflection"}
    /\ w.pc = "write" => Task(w) # "turn"
    /\ w.pc = "read" => \A c \in WritesBack(Task(w)) :
         c \in w.seen \/ \E i \in 1..Len(w.reads) : w.reads[i] = c
    /\ w.pc \in {"write", "save"} /\ Task(w) \in {"turn", "reflection"} =>
         WritesBack(Task(w)) \subseteq w.seen

\* No goals are named by a request still to come.
Named(s) == s.goals <= asked

\* An intake that has written to the dict it works on.
Written(w) == w.pc = "save" /\ Task(w) # "turn"

\* What a worker that is not late may rely on: the dict it works on is the
\* store's, or nobody has saved yet and it is a fresh one of its own; what it has
\* read to write back is what that dict still says.
Timely(w) ==
    /\ live # 0 => w.ref = live
    /\ ~Written(w) => \A c \in w.seen : w.copy[c] = dicts[w.ref][c]
    /\ live = 0 /\ Written(w) => dicts[w.ref] = Modified(Task(w), Blank, w.id)
    /\ live = 0 /\ ~Written(w) => dicts[w.ref] = Blank /\ w.copy = Blank

Orderly(w) ==
    /\ Underway(w) /\ Named(w.copy)
    /\ w.pc # "get" /\ ~w.stale => Timely(w)

WorkerInv ==
    /\ \A u \in Threads : worker[u] # Absent => Orderly(worker[u])
    /\ \A i \in 1..Len(dicts) : Named(dicts[i])
    /\ live = 0 => \A t, u \in Threads :
         Busy(t) /\ Busy(u) /\ t # u => worker[t].ref # worker[u].ref

DictsInv == EphemeralTypeInv /\ WorkerInv

LEMMA WorkerFields ==
    ASSUME NEW w \in Worker
    PROVE  /\ w.pc \in {"get", "read", "write", "save"} /\ w.id \in Nat
           /\ w.todo \in Seq(Operations) \ {<<>>} /\ Task(w) \in Operations
           /\ w.ref \in Nat /\ w.reads \in Seq(Columns) /\ w.copy \in State
           /\ w.seen \in SUBSET Columns /\ w.stale \in BOOLEAN
<1>1. w.todo \in Seq(Operations) \ {<<>>}  BY DEF Worker
<1>2. Task(w) \in Operations  BY <1>1, HeadIsOperation DEF Task
<1> QED  BY <1>1, <1>2 DEF Worker

LEMMA BlankType == Blank \in State /\ Blank.goals = 0
BY DEF Blank, State

LEMMA HeldType == ASSUME EphemeralTypeInv  PROVE Held \in State
BY BlankType DEF EphemeralTypeInv, Held

\* A worker that only turns late.
LEMMA StaleType ==
    ASSUME NEW w \in Worker
    PROVE  LET v == [w EXCEPT !.stale = TRUE] IN
           /\ v \in Worker /\ v.stale /\ v.pc = w.pc /\ v.id = w.id /\ v.todo = w.todo
           /\ v.ref = w.ref /\ v.reads = w.reads /\ v.copy = w.copy /\ v.seen = w.seen
BY DEF Worker

-----------------------------------------------------------------------------
(* The columns of a dict.                                                  *)

LEMMA SameState ==
    ASSUME NEW s \in State, NEW v \in State, \A c \in Columns : s[c] = v[c]  PROVE s = v
<1>1. s["learned"] = v["learned"] /\ s["goals"] = v["goals"]
      /\ s["reflections"] = v["reflections"] /\ s["overlay"] = v["overlay"]
  BY DEF Columns
<1> QED  BY <1>1 DEF State

LEMMA SetColumn ==
    ASSUME NEW s \in State, NEW v \in State, NEW c \in Columns
    PROVE  LET r == [s EXCEPT ![c] = v[c]] IN
           /\ r \in State
           /\ \A d \in Columns : r[d] = IF d = c THEN v[c] ELSE s[d]
<1>1. CASE c = "learned"  BY <1>1 DEF State, Columns
<1>2. CASE c = "goals"  BY <1>2 DEF State, Columns
<1>3. CASE c = "reflections"  BY <1>3 DEF State, Columns
<1>4. CASE c = "overlay"  BY <1>4 DEF State, Columns
<1> QED  BY <1>1, <1>2, <1>3, <1>4 DEF Columns

LEMMA ColumnOfOperation ==
    ASSUME NEW op \in Operations
    PROVE  /\ ColumnOf(op) \in Columns /\ WritesBack(op) \subseteq Columns
           /\ ColumnOf(op) \in WritesBack(op)
BY DEF Operations, ColumnOf, Columns, WritesBack

\* An intake's assignment makes of a dict what the operation would, but for the
\* goals a reflection is linked to, which were read before.
LEMMA WrittenColumn ==
    ASSUME NEW op \in Operations \ {"turn"}, NEW s \in State, NEW v \in State, NEW id \in Nat,
           op = "reflection" => v.reflections = s.reflections
    PROVE  LET c == ColumnOf(op)
               r == [s EXCEPT ![c] = Modified(op, v, id)[c]]
               new == Modified(op, s, id)
           IN /\ r \in State
              /\ op # "reflection" \/ v.goals = s.goals => r = new
              /\ op = "reflection" =>
                   r = [new EXCEPT !.reflections =
                            Append(s.reflections, [id |-> id, goals |-> v.goals])]
<1> DEFINE c == ColumnOf(op)
           m == Modified(op, v, id)
           r == [s EXCEPT ![c] = m[c]]
           new == Modified(op, s, id)
<1>1. m \in State /\ new \in State  BY ModifiedType
<1>2. /\ m.learned = v.learned
      /\ m.goals = IF op = "goals" THEN id ELSE IF op = "clear" THEN 0 ELSE v.goals
      /\ m.reflections = IF op = "reflection"
            THEN Append(v.reflections, [id |-> id, goals |-> v.goals]) ELSE v.reflections
      /\ m.overlay = IF op = "overlay" THEN id ELSE v.overlay
  BY ModifiedColumns
<1>3. /\ new.learned = s.learned
      /\ new.goals = IF op = "goals" THEN id ELSE IF op = "clear" THEN 0 ELSE s.goals
      /\ new.reflections = IF op = "reflection"
            THEN Append(s.reflections, [id |-> id, goals |-> s.goals]) ELSE s.reflections
      /\ new.overlay = IF op = "overlay" THEN id ELSE s.overlay
  BY ModifiedColumns
<1>4. c \in Columns  BY ColumnOfOperation DEF c
<1> HIDE DEF m, new
<1>5. r \in State /\ \A d \in Columns : r[d] = IF d = c THEN m[c] ELSE s[d]
  BY <1>1, <1>4, SetColumn
<1> HIDE DEF r
<1>6. ASSUME op # "reflection" \/ v.goals = s.goals  PROVE r = new
  <2>1. \A d \in Columns : r[d] = new[d]
    BY <1>2, <1>3, <1>5, <1>6 DEF c, ColumnOf, Operations, Columns
  <2> QED  BY <1>1, <1>5, <2>1, SameState
<1>7. ASSUME op = "reflection"
      PROVE  r = [new EXCEPT !.reflections =
                     Append(s.reflections, [id |-> id, goals |-> v.goals])]
  <2> DEFINE x == [id |-> id, goals |-> v.goals]
             n == [new EXCEPT !.reflections = Append(s.reflections, x)]
  <2>1. c = "reflections" /\ m.reflections = Append(s.reflections, x)
    BY <1>2, <1>7 DEF c, ColumnOf
  <2>2. n \in State
    <3>1. x \in Reflection  BY DEF State, Reflection
    <3> HIDE DEF x
    <3> DEFINE l == Append(s.reflections, x)
    <3>2. l \in Seq(Reflection)  BY <3>1 DEF State
    <3> HIDE DEF l
    <3>3. [new EXCEPT !.reflections = l] \in State  BY <1>1, <3>2 DEF State
    <3> QED  BY <3>3 DEF l
  <2> HIDE DEF x
  <2>3. /\ n.learned = new.learned /\ n.goals = new.goals /\ n.overlay = new.overlay
        /\ n.reflections = Append(s.reflections, x)
    BY <1>1 DEF State
  <2> HIDE DEF n
  <2>4. \A d \in Columns : r[d] = n[d]
    BY <1>3, <1>5, <1>7, <2>1, <2>3 DEF Columns
  <2>5. r = n  BY <1>5, <2>2, <2>4, SameState
  <2> QED  BY <2>5 DEF n, x
<1> QED  BY <1>5, <1>6, <1>7 DEF r, new, m

LEMMA WrittenSame ==
    ASSUME NEW op \in Operations \ {"turn"}, NEW s \in State, NEW id \in Nat
    PROVE  [s EXCEPT ![ColumnOf(op)] = Modified(op, s, id)[ColumnOf(op)]] = Modified(op, s, id)
<1> DEFINE c == ColumnOf(op)
           m == Modified(op, s, id)
           r == [s EXCEPT ![c] = m[c]]
<1>1. m \in State /\ c \in Columns  BY ModifiedType, ColumnOfOperation
<1>2. /\ m.learned = s.learned
      /\ m.goals = IF op = "goals" THEN id ELSE IF op = "clear" THEN 0 ELSE s.goals
      /\ m.reflections = IF op = "reflection"
            THEN Append(s.reflections, [id |-> id, goals |-> s.goals]) ELSE s.reflections
      /\ m.overlay = IF op = "overlay" THEN id ELSE s.overlay
  BY ModifiedColumns
<1> HIDE DEF m, c
<1>3. r \in State /\ \A d \in Columns : r[d] = IF d = c THEN m[c] ELSE s[d]
  BY <1>1, SetColumn
<1> HIDE DEF r
<1>4. \A d \in Columns : r[d] = m[d]
  BY <1>2, <1>3 DEF c, ColumnOf, Operations, Columns
<1>5. r = m  BY <1>1, <1>3, <1>4, SameState
<1> QED  BY <1>5 DEF r, m, c

-----------------------------------------------------------------------------
(* The in-memory store's invariant, action by action.                      *)

\* What t's step leaves to the other workers when it only adds a dict.
LEMMA OthersCarryOn ==
    ASSUME DictsInv, NEW u \in Threads, worker[u] # Absent, worker'[u] = worker[u],
           live' = live, asked' \in Nat, asked <= asked', Len(dicts) <= Len(dicts'),
           Len(dicts') \in Nat, \A i \in 1..Len(dicts) : dicts'[i] = dicts[i]
    PROVE  Orderly(worker[u])'
<1> DEFINE w == worker[u]
<1>1. w \in Worker /\ Orderly(w) /\ asked \in Nat /\ Len(dicts) \in Nat
  BY DEF DictsInv, EphemeralTypeInv, WorkerInv
<1>2. w.copy \in State /\ w.id \in Nat  BY <1>1, WorkerFields
<1>3. Underway(w)'
  BY <1>1, <1>2 DEF Orderly, Underway
<1>4. Named(w.copy)'
  <2>1. w.copy.goals \in Nat /\ w.copy.goals <= asked  BY <1>1, <1>2 DEF Orderly, Named, State
  <2> QED  BY <1>1, <2>1 DEF Named
<1>5. ASSUME w.pc # "get", ~w.stale  PROVE Timely(w)'
  <2>1. Timely(w) /\ w.ref \in 1..Len(dicts)  BY <1>1, <1>5 DEF Orderly, Underway
  <2>2. dicts'[w.ref] = dicts[w.ref]  BY <2>1
  <2> HIDE DEF w
  <2>3. worker'[u] = w  BY DEF w
  <2> QED  BY <2>1, <2>2, <2>3 DEF Timely, Written, w
<1> QED  BY <1>3, <1>4, <1>5 DEF Orderly

LEMMA AskKeeps ==
    ASSUME DictsInv, NEW t \in Threads, Ask(t), durable' = durable  PROVE DictsInv'
<1>1. PICK todo \in Requests :
        worker' = [worker EXCEPT ![t] =
            [pc |-> "get", id |-> asked + 1, todo |-> todo, ref |-> 0, reads |-> <<>>,
             copy |-> Blank, seen |-> {}, stale |-> FALSE]]
  BY DEF Ask
<1> DEFINE w == [pc |-> "get", id |-> asked + 1, todo |-> todo, ref |-> 0, reads |-> <<>>,
                 copy |-> Blank, seen |-> {}, stale |-> FALSE]
<1>2. asked \in Nat /\ asked' = asked + 1 /\ UNCHANGED <<dicts, live, kept>>
      /\ Len(dicts) \in Nat
  BY DEF Ask, DictsInv, EphemeralTypeInv
<1>3. w \in Worker
  <2>1. todo \in Seq(Operations) \ {<<>>} /\ <<>> \in Seq(Columns)  BY StoreAssumption
  <2> QED  BY <1>2, <2>1, BlankType DEF Worker
<1>4. /\ w.pc = "get" /\ w.id = asked + 1 /\ w.copy = Blank  OBVIOUS
<1> HIDE DEF w
<1>5. /\ worker' \in [Threads -> Worker \cup {Absent}]
      /\ worker'[t].pc = "get" /\ worker'[t].id = asked + 1 /\ worker'[t].copy = Blank
      /\ \A u \in Threads : u # t => worker'[u] = worker[u]
  BY <1>1, <1>3, <1>4 DEF DictsInv, EphemeralTypeInv, w
<1>6. EphemeralTypeInv'
  BY <1>2, <1>5 DEF DictsInv, EphemeralTypeInv, Ask
<1>7. Orderly(worker[t])'
  <2>1. Underway(worker[t])'  BY <1>2, <1>5 DEF Underway
  <2>2. Named(worker[t].copy)'  BY <1>2, <1>5, BlankType DEF Named
  <2> QED  BY <1>5, <2>1, <2>2 DEF Orderly
<1>8. \A i \in 1..Len(dicts') : Named(dicts[i])'
  <2> SUFFICES ASSUME NEW i \in 1..Len(dicts)  PROVE dicts[i].goals <= asked + 1
    BY <1>2 DEF Named
  <2>1. dicts[i] \in State /\ dicts[i].goals <= asked
    BY DEF DictsInv, EphemeralTypeInv, WorkerInv, Named
  <2> QED  BY <1>2, <2>1 DEF State
<1>9. \A u \in Threads : u # t /\ worker'[u] # Absent => Orderly(worker[u])'
  BY <1>2, <1>5, OthersCarryOn
<1>10. \A u \in Threads : Busy(u)' => u # t /\ Busy(u) /\ worker'[u] = worker[u]
  BY <1>5 DEF Busy
<1> QED  BY <1>2, <1>6, <1>7, <1>8, <1>9, <1>10 DEF DictsInv, WorkerInv

LEMMA AbandonKeeps ==
    ASSUME DictsInv, NEW t \in Threads, Abandon(t), durable' = durable  PROVE DictsInv'
<1>1. /\ worker' \in [Threads -> Worker \cup {Absent}] /\ worker'[t] = Absent
      /\ \A u \in Threads : u # t => worker'[u] = worker[u]
      /\ UNCHANGED <<dicts, live, asked, kept>> /\ asked \in Nat /\ Len(dicts) \in Nat
  BY DEF Abandon, DictsInv, EphemeralTypeInv
<1>2. EphemeralTypeInv'  BY <1>1 DEF DictsInv, EphemeralTypeInv
<1>3. \A u \in Threads : worker'[u] # Absent => Orderly(worker[u])'
  BY <1>1, OthersCarryOn
<1>4. \A i \in 1..Len(dicts') : Named(dicts[i])'
  BY <1>1 DEF DictsInv, WorkerInv, Named
<1>5. \A u \in Threads : Busy(u)' => Busy(u) /\ worker'[u] = worker[u]
  BY <1>1 DEF Busy
<1> QED  BY <1>1, <1>2, <1>3, <1>4, <1>5 DEF DictsInv, WorkerInv

\* An operation that begins has read nothing.
LEMMA StartIsOrderly ==
    ASSUME NEW w \in Worker, NEW ref \in Nat
    PROVE  LET v == Start(w, ref) IN
           /\ v \in Worker /\ v.pc \in {"read", "write"} /\ v.id = w.id /\ v.todo = w.todo
           /\ v.ref = ref /\ v.copy = Blank /\ v.seen = {} /\ ~v.stale /\ Task(v) = Task(w)
           /\ v.pc = "read" => v.reads # <<>> /\ Task(w) \in {"turn", "reflection"}
           /\ v.pc = "read" => \A c \in WritesBack(Task(w)) :
                                 \E i \in 1..Len(v.reads) : v.reads[i] = c
           /\ v.pc = "write" => Task(w) \notin {"turn", "reflection"}
<1> DEFINE v == Start(w, ref)
           all == <<"learned", "goals", "reflections", "overlay">>
           two == <<"goals", "reflections">>
<1>1. Task(w) \in Operations  BY WorkerFields
<1>2. /\ all \in Seq(Columns) /\ two \in Seq(Columns) /\ <<>> \in Seq(Columns)
      /\ all # <<>> /\ two # <<>>
      /\ Len(all) = 4 /\ Len(two) = 2
      /\ all[1] = "learned" /\ all[2] = "goals" /\ all[3] = "reflections" /\ all[4] = "overlay"
      /\ two[2] = "reflections"
  BY DEF Columns
<1> HIDE DEF all, two
<1>3. Reads(Task(w)) = IF Task(w) = "turn" THEN all
                       ELSE IF Task(w) = "reflection" THEN two ELSE <<>>
  BY <1>1 DEF Reads, all, two, Operations
<1> DEFINE l == Reads(Task(w))
<1>4. l \in Seq(Columns)  BY <1>2, <1>3
<1> HIDE DEF l
<1>5. v = [w EXCEPT !.pc = IF l = <<>> THEN "write" ELSE "read",
                    !.ref = ref, !.reads = l, !.copy = Blank, !.seen = {},
                    !.stale = FALSE]
  BY DEF Start, l
<1>6. /\ v \in Worker /\ v.pc = (IF l = <<>> THEN "write" ELSE "read") /\ v.id = w.id
      /\ v.todo = w.todo /\ v.ref = ref /\ v.reads = l /\ v.copy = Blank /\ v.seen = {}
      /\ ~v.stale
  BY <1>4, <1>5, BlankType DEF Worker
<1>7. Task(v) = Task(w)  BY <1>6 DEF Task
<1>8. l # <<>> <=> Task(w) \in {"turn", "reflection"}
  BY <1>2, <1>3 DEF l
<1>9. ASSUME l # <<>>, NEW c \in WritesBack(Task(w))
      PROVE  \E i \in 1..Len(l) : l[i] = c
  <2>1. CASE Task(w) = "turn"
    <3>1. l = all /\ c \in {"learned", "goals", "reflections", "overlay"}
      BY <1>3, <1>9, <2>1 DEF l, WritesBack, Columns
    <3>2. Len(l) = 4 /\ l[1] = "learned" /\ l[2] = "goals" /\ l[3] = "reflections"
          /\ l[4] = "overlay"
      BY <1>2, <3>1
    <3>3. 1 \in 1..Len(l) /\ 2 \in 1..Len(l) /\ 3 \in 1..Len(l) /\ 4 \in 1..Len(l)
      BY <3>2
    <3> QED  BY <3>1, <3>2, <3>3
  <2>2. CASE Task(w) = "reflection"
    <3>1. l = two /\ c = "reflections"
      BY <1>3, <1>9, <2>2 DEF l, WritesBack, ColumnOf
    <3>2. 2 \in 1..Len(l) /\ l[2] = c  BY <1>2, <3>1
    <3> QED  BY <3>2
  <2> QED  BY <1>8, <1>9, <2>1, <2>2
<1> HIDE DEF v
<1> QED  BY <1>6, <1>7, <1>8, <1>9 DEF v

LEMMA GetKeeps ==
    ASSUME DictsInv, NEW t \in Threads, Get(t), durable' = durable  PROVE DictsInv'
<1> DEFINE w == worker[t]
           ref == IF live # 0 THEN live ELSE Len(dicts) + 1
           v == Start(w, ref)
<1>1. /\ w \in Worker /\ w # Absent /\ Orderly(w) /\ Underway(w) /\ asked \in Nat
      /\ dicts \in Seq(State) /\ Len(dicts) \in Nat /\ live \in 0..Len(dicts)
  BY DEF Get, Doing, DictsInv, EphemeralTypeInv, WorkerInv, Orderly
<1>2. /\ dicts' = IF live # 0 THEN dicts ELSE Append(dicts, Blank)
      /\ UNCHANGED <<live, asked, kept>>
  BY DEF Get
<1>3. /\ dicts' \in Seq(State) /\ Len(dicts) <= Len(dicts') /\ Len(dicts') \in Nat
      /\ \A i \in 1..Len(dicts) : dicts'[i] = dicts[i]
      /\ live = 0 => Len(dicts') = Len(dicts) + 1 /\ dicts'[Len(dicts) + 1] = Blank
      /\ \A i \in 1..Len(dicts') : i \in 1..Len(dicts) \/ dicts'[i] = Blank
  <2>1. CASE live # 0  BY <1>1, <1>2, <2>1
  <2>2. CASE live = 0
    <3>1. dicts' = Append(dicts, Blank)  BY <1>2, <2>2
    <3>2. /\ dicts' \in Seq(State) /\ Len(dicts') = Len(dicts) + 1
          /\ dicts'[Len(dicts) + 1] = Blank /\ \A i \in 1..Len(dicts) : dicts'[i] = dicts[i]
      BY <1>1, <3>1, BlankType, AppendProperties
    <3> QED  BY <1>1, <3>2
  <2> QED  BY <2>1, <2>2
<1>4. worker' = [worker EXCEPT ![t] = v] /\ ref \in 1..Len(dicts')
  <2>1. CASE live # 0  BY <1>1, <1>3, <2>1 DEF Get
  <2>2. CASE live = 0
    <3>1. Len(dicts') = Len(dicts) + 1  BY <1>3, <2>2
    <3> QED  BY <1>1, <2>2, <3>1 DEF Get
  <2> QED  BY <2>1, <2>2
<1> HIDE DEF ref
<1>5. /\ v \in Worker /\ v.pc \in {"read", "write"} /\ v.id = w.id /\ v.todo = w.todo
      /\ v.ref = ref /\ v.copy = Blank /\ v.seen = {} /\ ~v.stale /\ Task(v) = Task(w)
      /\ v.pc = "read" => v.reads # <<>> /\ Task(w) \in {"turn", "reflection"}
      /\ v.pc = "read" => \A c \in WritesBack(Task(w)) :
                            \E i \in 1..Len(v.reads) : v.reads[i] = c
      /\ v.pc = "write" => Task(w) \notin {"turn", "reflection"}
  <2>1. ref \in Nat  BY <1>3, <1>4
  <2> HIDE DEF w
  <2> QED  BY <1>1, <2>1, StartIsOrderly
<1> HIDE DEF v
<1> DEFINE n == worker'[t]
<1>6. /\ worker' \in [Threads -> Worker \cup {Absent}] /\ n = v
      /\ \A u \in Threads : u # t => worker'[u] = worker[u]
  BY <1>4, <1>5 DEF DictsInv, EphemeralTypeInv
<1>7. EphemeralTypeInv'
  BY <1>1, <1>2, <1>3, <1>6 DEF DictsInv, EphemeralTypeInv
<1>8. Orderly(worker[t])'
  <2>1. /\ n.pc \in {"read", "write"} /\ n.id = w.id /\ n.ref = ref /\ n.copy = Blank
        /\ n.seen = {} /\ ~n.stale /\ Task(n) = Task(w)
        /\ n.pc = "read" => n.reads # <<>> /\ Task(n) \in {"turn", "reflection"}
        /\ n.pc = "read" => \A c \in WritesBack(Task(n)) :
                              \E i \in 1..Len(n.reads) : n.reads[i] = c
        /\ n.pc = "write" => Task(n) \notin {"turn", "reflection"}
    BY <1>5, <1>6
  <2>2. w.id \in 1..asked'  BY <1>1, <1>2 DEF Underway
  <2>3. Underway(worker[t])'  BY <1>4, <2>1, <2>2 DEF Underway
  <2>4. Named(worker[t].copy)'  BY <1>1, <1>2, <2>1, BlankType DEF Named
  <2>5. live' = 0 => dicts'[ref] = Blank  BY <1>2, <1>3 DEF ref
  <2>6. live' # 0 => ref = live'  BY <1>2 DEF ref
  <2>7. Timely(worker[t])'  BY <2>1, <2>5, <2>6 DEF Timely, Written
  <2> QED  BY <2>3, <2>4, <2>7 DEF Orderly
<1>9. \A u \in Threads : u # t /\ worker'[u] # Absent => Orderly(worker[u])'
  BY <1>1, <1>2, <1>3, <1>6, OthersCarryOn
<1>10. \A i \in 1..Len(dicts') : Named(dicts[i])'
  BY <1>1, <1>2, <1>3, BlankType DEF DictsInv, WorkerInv, Named
<1>11. ASSUME live' = 0, NEW u \in Threads, u # t, Busy(u)'
       PROVE  Busy(u) /\ worker'[u].ref = worker[u].ref /\ worker[u].ref # ref
  <2>1. worker'[u] = worker[u] /\ Busy(u)  BY <1>6, <1>11 DEF Busy
  <2>2. worker[u].ref \in 1..Len(dicts)
    BY <2>1 DEF Busy, DictsInv, WorkerInv, Orderly, Underway
  <2>3. ref = Len(dicts) + 1  BY <1>2, <1>11 DEF ref
  <2> QED  BY <1>1, <2>1, <2>2, <2>3
<1>12. live' = 0 => \A x, y \in Threads :
         Busy(x)' /\ Busy(y)' /\ x # y => worker'[x].ref # worker'[y].ref
  <2>1. worker'[t].ref = ref  BY <1>5, <1>6
  <2>2. live' = 0 => live = 0  BY <1>2
  <2> QED  BY <1>11, <2>1, <2>2 DEF DictsInv, WorkerInv
<1> QED  BY <1>7, <1>8, <1>9, <1>10, <1>12 DEF DictsInv, WorkerInv

LEMMA HeadIsColumn ==
    ASSUME NEW l \in Seq(Columns), l # <<>>
    PROVE  /\ Head(l) \in Columns /\ Head(l) = l[1] /\ Len(l) \in Nat \ {0}
           /\ Tail(l) \in Seq(Columns) /\ Len(Tail(l)) = Len(l) - 1
           /\ \A i \in 1..Len(l) - 1 : Tail(l)[i] = l[i + 1]
           /\ Len(l) > 1 => Tail(l) # <<>>
<1>1. /\ Head(l) \in Columns /\ Head(l) = l[1] /\ Len(l) \in Nat \ {0}
  OBVIOUS
<1>2. /\ Tail(l) \in Seq(Columns) /\ Len(Tail(l)) = Len(l) - 1
      /\ \A i \in 1..Len(Tail(l)) : Tail(l)[i] = l[i + 1]
  BY HeadTailProperties
<1>3. ASSUME Len(l) > 1  PROVE Tail(l) # <<>>
  <2>1. Len(Tail(l)) # 0 /\ Len(<<>>) = 0  BY <1>1, <1>2, <1>3
  <2> QED  BY <2>1, Zenon
<1> QED  BY <1>1, <1>2, <1>3

LEMMA ReadColumnKeeps ==
    ASSUME DictsInv, NEW t \in Threads, ReadColumn(t), durable' = durable  PROVE DictsInv'
<1> DEFINE w == worker[t]
           c == Head(w.reads)
           s == dicts[w.ref]
           copy == [w.copy EXCEPT ![c] = s[c]]
           seen == IF c \in WritesBack(Task(w)) THEN w.seen \cup {c} ELSE w.seen
           pc == IF Len(w.reads) > 1 THEN "read"
                 ELSE IF Task(w) = "turn" THEN "save" ELSE "write"
           n == worker'[t]
<1>1. /\ w \in Worker /\ w # Absent /\ w.pc = "read" /\ Underway(w) /\ Named(w.copy)
      /\ ~w.stale => Timely(w)
      /\ dicts \in Seq(State) /\ Len(dicts) \in Nat /\ asked \in Nat
      /\ UNCHANGED <<dicts, live, asked, kept>>
  BY DEF ReadColumn, Doing, DictsInv, EphemeralTypeInv, WorkerInv, Orderly
<1>2. /\ w.copy \in State /\ w.reads \in Seq(Columns) /\ w.seen \in SUBSET Columns
      /\ Task(w) \in Operations
  BY <1>1, WorkerFields
<1>3. /\ w.reads # <<>> /\ w.ref \in 1..Len(dicts) /\ s \in State
      /\ Task(w) \in {"turn", "reflection"} /\ w.seen \subseteq WritesBack(Task(w))
  BY <1>1 DEF Underway
<1>4. /\ c \in Columns /\ c = w.reads[1] /\ Len(w.reads) \in Nat \ {0}
      /\ Tail(w.reads) \in Seq(Columns) /\ Len(Tail(w.reads)) = Len(w.reads) - 1
      /\ \A i \in 1..Len(w.reads) - 1 : Tail(w.reads)[i] = w.reads[i + 1]
      /\ Len(w.reads) > 1 => Tail(w.reads) # <<>>
  <2> HIDE DEF w
  <2> QED  BY <1>2, <1>3, HeadIsColumn
<1>5. /\ copy \in State /\ \A d \in Columns : copy[d] = IF d = c THEN s[c] ELSE w.copy[d]
  <2>1. w.copy \in State /\ s \in State /\ c \in Columns  BY <1>2, <1>3, <1>4
  <2> HIDE DEF c, s, w
  <2> QED  BY <2>1, SetColumn
<1>6. seen \in SUBSET Columns  BY <1>2, <1>4
<1>7. worker' = [worker EXCEPT ![t] =
          [w EXCEPT !.copy = copy, !.seen = seen, !.reads = Tail(w.reads), !.pc = pc]]
  BY <1>1 DEF ReadColumn, Worker
<1> HIDE DEF copy, seen, pc, c, s
<1>8. pc \in {"read", "write", "save"}  BY DEF pc
<1> DEFINE v == [w EXCEPT !.copy = copy, !.seen = seen, !.reads = Tail(w.reads), !.pc = pc]
<1>9. /\ v \in Worker /\ v.pc = pc /\ v.copy = copy /\ v.seen = seen
      /\ v.reads = Tail(w.reads) /\ v.ref = w.ref /\ v.id = w.id /\ v.stale = w.stale
      /\ v.todo = w.todo
  BY <1>1, <1>4, <1>5, <1>6, <1>8 DEF Worker
<1> HIDE DEF v
<1>10. /\ worker' \in [Threads -> Worker \cup {Absent}] /\ n = v
       /\ \A u \in Threads : u # t => worker'[u] = worker[u]
  BY <1>7, <1>9 DEF DictsInv, EphemeralTypeInv, v
<1>11. EphemeralTypeInv'  BY <1>1, <1>10 DEF DictsInv, EphemeralTypeInv
<1>12. /\ n.pc = pc /\ n.copy = copy /\ n.seen = seen /\ n.reads = Tail(w.reads)
       /\ n.ref = w.ref /\ n.id = w.id /\ n.stale = w.stale /\ Task(n) = Task(w)
  BY <1>9, <1>10 DEF Task
<1>13. Underway(worker[t])'
  <2>1. w.id \in 1..asked  BY <1>1 DEF Underway
  <2>2. seen \subseteq WritesBack(Task(w))  BY <1>3 DEF seen
  <2>3. \A d \in WritesBack(Task(w)) :
          d \in seen \/ \E i \in 1..Len(w.reads) - 1 : Tail(w.reads)[i] = d
    <3> SUFFICES ASSUME NEW d \in WritesBack(Task(w)), d \notin seen
                 PROVE  \E i \in 1..Len(w.reads) - 1 : Tail(w.reads)[i] = d
      OBVIOUS
    <3>1. d # c /\ d \notin w.seen  BY DEF seen
    <3>2. PICK i \in 1..Len(w.reads) : w.reads[i] = d  BY <1>1, <3>1 DEF Underway
    <3>3. i # 1  BY <1>4, <3>1, <3>2
    <3>4. i - 1 \in 1..Len(w.reads) - 1 /\ (i - 1) + 1 = i  BY <1>4, <3>3
    <3>5. Tail(w.reads)[i - 1] = d  BY <1>4, <3>2, <3>4
    <3> QED  BY <3>4, <3>5
  <2>4. CASE Len(w.reads) > 1
    <3>1. n.pc = "read" /\ Len(n.reads) = Len(w.reads) - 1 /\ n.reads # <<>>
      BY <1>4, <1>12, <2>4 DEF pc
    <3> HIDE DEF n
    <3> QED  BY <1>1, <1>3, <1>12, <2>1, <2>2, <2>3, <3>1 DEF Underway, n
  <2>5. CASE ~(Len(w.reads) > 1)
    <3>1. Len(w.reads) - 1 = 0
      <4>1. \A k \in Nat \ {0} : k > 1 \/ k = 1  OBVIOUS
      <4>2. Len(w.reads) = 1  BY <1>4, <2>5, <4>1
      <4> QED  BY <4>2
    <3>2. WritesBack(Task(w)) \subseteq seen  BY <2>3, <3>1
    <3>3. n.pc \in {"write", "save"} /\ (n.pc = "write" => Task(w) # "turn")
      BY <1>12, <2>5 DEF pc
    <3> HIDE DEF n
    <3> QED  BY <1>1, <1>3, <1>12, <2>1, <2>2, <3>2, <3>3 DEF Underway, n
  <2> QED  BY <2>4, <2>5
<1>14. Named(worker[t].copy)'
  <2>1. w.copy["goals"] <= asked /\ s["goals"] <= asked
    BY <1>1, <1>3 DEF DictsInv, WorkerInv, Named, s
  <2>2. "goals" \in Columns  BY DEF Columns
  <2>3. copy["goals"] <= asked  BY <1>5, <2>1, <2>2
  <2> QED  BY <1>1, <1>12, <2>3 DEF Named
<1>15. ASSUME ~n.stale  PROVE Timely(worker[t])'
  <2>1. Timely(w) /\ ~Written(w)  BY <1>1, <1>12, <1>15 DEF Written
  <2>2. ~Written(n)  BY <1>12 DEF Written, pc
  <2>3. \A d \in seen : copy[d] = s[d]
    <3> SUFFICES ASSUME NEW d \in seen  PROVE copy[d] = s[d]
      OBVIOUS
    <3>1. d \in Columns  BY <1>6
    <3>2. d # c => d \in w.seen  BY DEF seen
    <3> QED  BY <1>5, <2>1, <3>1, <3>2 DEF Timely, s
  <2>4. live = 0 => s = Blank /\ copy = Blank
    <3> SUFFICES ASSUME live = 0  PROVE s = Blank /\ copy = Blank
      OBVIOUS
    <3>1. s = Blank /\ w.copy = Blank  BY <2>1 DEF Timely, s
    <3>2. \A d \in Columns : copy[d] = Blank[d]  BY <1>5, <3>1
    <3> QED  BY <1>5, <3>1, <3>2, BlankType, SameState
  <2>5. live # 0 => w.ref = live  BY <2>1 DEF Timely
  <2>6. dicts'[n.ref] = s  BY <1>1, <1>12 DEF s
  <2>7. Written(worker[t])' = Written(n)  BY DEF Written, Task
  <2> HIDE DEF n
  <2> QED  BY <1>1, <1>12, <2>2, <2>3, <2>4, <2>5, <2>6, <2>7 DEF Timely, n
<1>16. Orderly(worker[t])'  BY <1>13, <1>14, <1>15 DEF Orderly
<1>17. \A u \in Threads : u # t /\ worker'[u] # Absent => Orderly(worker[u])'
  BY <1>1, <1>10, OthersCarryOn
<1>18. \A i \in 1..Len(dicts') : Named(dicts[i])'
  BY <1>1 DEF DictsInv, WorkerInv, Named
<1>19. \A u \in Threads : Busy(u)' => Busy(u) /\ worker'[u].ref = worker[u].ref
  BY <1>1, <1>10, <1>12 DEF Busy
<1> QED  BY <1>1, <1>11, <1>16, <1>17, <1>18, <1>19 DEF DictsInv, WorkerInv

LEMMA WriteKeeps ==
    ASSUME DictsInv, NEW t \in Threads, Write(t), durable' = durable  PROVE DictsInv'
<1> DEFINE w == worker[t]
           op == Task(w)
           c == ColumnOf(op)
           m == Modified(op, w.copy, w.id)
           s == dicts[w.ref]
           r == [s EXCEPT ![c] = m[c]]
           n == worker'[t]
<1>1. /\ w \in Worker /\ w # Absent /\ w.pc = "write" /\ Underway(w) /\ Named(w.copy)
      /\ ~w.stale => Timely(w)
      /\ dicts \in Seq(State) /\ Len(dicts) \in Nat /\ asked \in Nat
      /\ live' = live /\ asked' = asked
  BY DEF Write, Doing, DictsInv, EphemeralTypeInv, WorkerInv, Orderly
<1>2. /\ w.copy \in State /\ w.id \in Nat /\ w.seen \in SUBSET Columns /\ op \in Operations
  BY <1>1, WorkerFields
<1>3. /\ w.ref \in 1..Len(dicts) /\ s \in State /\ op # "turn" /\ w.id \in 1..asked
      /\ w.seen \subseteq WritesBack(op)
      /\ op = "reflection" => WritesBack(op) \subseteq w.seen
  BY <1>1 DEF Underway
<1>4. c \in Columns /\ m \in State
  <2> HIDE DEF w, op
  <2> QED  BY <1>2, ColumnOfOperation, ModifiedType
<1>5. r \in State /\ \A d \in Columns : r[d] = IF d = c THEN m[c] ELSE s[d]
  <2> HIDE DEF c, s, m
  <2> QED  BY <1>3, <1>4, SetColumn
<1>6. /\ dicts' = [dicts EXCEPT ![w.ref] = r]
      /\ kept' \in {kept, kept \cup {<<op, w.id>>}}
  BY <1>1 DEF Write
<1> HIDE DEF r, m, s, c
<1>7. /\ dicts' \in Seq(State) /\ Len(dicts') = Len(dicts) /\ dicts'[w.ref] = r
      /\ \A i \in 1..Len(dicts) : i # w.ref => dicts'[i] = dicts[i]
  BY <1>1, <1>3, <1>5, <1>6
<1>8. /\ n = [w EXCEPT !.pc = "save"]
      /\ \A u \in Threads : u # t =>
           worker'[u] = IF worker[u] # Absent /\ worker[u].pc # "get"
                           /\ worker[u].ref = w.ref /\ c \in worker[u].seen
                        THEN [worker[u] EXCEPT !.stale = TRUE] ELSE worker[u]
      /\ worker' = [u \in Threads |-> worker'[u]]
  BY <1>1 DEF Write, Outdate, c
<1>9. /\ n \in Worker /\ n.pc = "save" /\ n.id = w.id /\ n.todo = w.todo /\ n.ref = w.ref
      /\ n.copy = w.copy /\ n.seen = w.seen /\ n.stale = w.stale /\ Task(n) = op
  <2>1. [w EXCEPT !.pc = "save"] \in Worker  BY <1>1 DEF Worker
  <2> QED  BY <1>1, <1>8, <2>1 DEF Worker, Task
<1>10. ASSUME NEW u \in Threads, u # t, worker[u] # Absent
       PROVE  /\ worker'[u] \in Worker /\ worker'[u].pc = worker[u].pc
              /\ worker'[u].id = worker[u].id /\ worker'[u].todo = worker[u].todo
              /\ worker'[u].ref = worker[u].ref /\ worker'[u].reads = worker[u].reads
              /\ worker'[u].copy = worker[u].copy /\ worker'[u].seen = worker[u].seen
              /\ ~worker'[u].stale /\ worker[u].pc # "get" =>
                   ~worker[u].stale /\ (worker[u].ref = w.ref => c \notin worker[u].seen)
  <2>1. worker[u] \in Worker  BY <1>10 DEF DictsInv, EphemeralTypeInv
  <2>2. worker'[u] = worker[u] \/ worker'[u] = [worker[u] EXCEPT !.stale = TRUE]
    BY <1>8, <1>10
  <2>3. LET v == [worker[u] EXCEPT !.stale = TRUE] IN
        /\ v \in Worker /\ v.stale /\ v.pc = worker[u].pc /\ v.id = worker[u].id
        /\ v.todo = worker[u].todo /\ v.ref = worker[u].ref /\ v.reads = worker[u].reads
        /\ v.copy = worker[u].copy /\ v.seen = worker[u].seen
    BY <2>1, StaleType
  <2>4. worker[u].pc # "get" /\ worker[u].ref = w.ref /\ c \in worker[u].seen =>
          worker'[u].stale
    BY <1>8, <1>10, <2>3
  <2> QED  BY <2>1, <2>2, <2>3, <2>4
<1>11. \A u \in Threads : u # t /\ worker[u] = Absent => worker'[u] = Absent  BY <1>8
<1>12. worker' \in [Threads -> Worker \cup {Absent}]  BY <1>8, <1>9, <1>10, <1>11
<1>13. EphemeralTypeInv'
  BY <1>1, <1>2, <1>6, <1>7, <1>12 DEF DictsInv, EphemeralTypeInv
<1>14. \A i \in 1..Len(dicts') : Named(dicts[i])'
  <2>1. "goals" \in Columns  BY DEF Columns
  <2>2. m["goals"] <= asked
    <3>1. m.goals = IF op = "goals" THEN w.id ELSE IF op = "clear" THEN 0 ELSE w.copy.goals
      <4> HIDE DEF w, op
      <4> QED  BY <1>2, ModifiedColumns DEF m
    <3> QED  BY <1>1, <1>3, <3>1 DEF Named
  <2>3. r["goals"] <= asked
    BY <1>1, <1>3, <1>5, <2>1, <2>2 DEF DictsInv, WorkerInv, Named, s
  <2> SUFFICES ASSUME NEW i \in 1..Len(dicts)  PROVE dicts'[i].goals <= asked
    BY <1>1, <1>7 DEF Named
  <2> QED  BY <1>7, <2>3 DEF DictsInv, WorkerInv, Named
<1>15. Orderly(worker[t])'
  <2>1. Underway(worker[t])'
    <3> HIDE DEF n
    <3> QED  BY <1>1, <1>3, <1>7, <1>9 DEF Underway, n
  <2>2. Named(worker[t].copy)'  BY <1>1, <1>9 DEF Named
  <2>3. ASSUME ~n.stale  PROVE Timely(worker[t])'
    <3>1. Timely(w) /\ ~Written(w)  BY <1>1, <1>9, <2>3 DEF Written
    <3>2. live = 0 => r = Modified(op, Blank, w.id)
      <4> SUFFICES ASSUME live = 0  PROVE r = Modified(op, Blank, w.id)
        OBVIOUS
      <4>1. s = Blank /\ w.copy = Blank  BY <3>1 DEF Timely, s
      <4>2. op \in Operations \ {"turn"}  BY <1>2, <1>3
      <4> HIDE DEF w, op
      <4>3. [Blank EXCEPT ![ColumnOf(op)] = Modified(op, Blank, w.id)[ColumnOf(op)]]
              = Modified(op, Blank, w.id)
        BY <1>2, <4>2, BlankType, WrittenSame
      <4> QED  BY <4>1, <4>3 DEF r, m, c
    <3>3. Written(worker[t])'  BY <1>3, <1>9 DEF Written, Task
    <3>4. live # 0 => w.ref = live  BY <3>1 DEF Timely
    <3>5. Task(worker'[t]) = op  BY <1>9
    <3> HIDE DEF n
    <3> QED  BY <1>1, <1>7, <1>9, <3>2, <3>3, <3>4, <3>5 DEF Timely, Task, n
  <2> QED  BY <2>1, <2>2, <2>3 DEF Orderly
<1>16. ASSUME NEW u \in Threads, u # t, worker'[u] # Absent
       PROVE  Orderly(worker[u])'
  <2> DEFINE x == worker[u]
             y == worker'[u]
  <2>1. x # Absent  BY <1>11, <1>16
  <2>2. /\ y.pc = x.pc /\ y.id = x.id /\ y.todo = x.todo /\ y.ref = x.ref
        /\ y.reads = x.reads /\ y.copy = x.copy /\ y.seen = x.seen
        /\ ~y.stale /\ x.pc # "get" => ~x.stale /\ (x.ref = w.ref => c \notin x.seen)
    BY <1>10, <1>16, <2>1
  <2>3. Orderly(x)  BY <2>1 DEF DictsInv, WorkerInv
  <2>4. Task(y) = Task(x)  BY <2>2 DEF Task
  <2>5. Underway(worker[u])'
    <3> HIDE DEF x, y
    <3>1. Underway(x)  BY <2>3 DEF Orderly
    <3> QED  BY <1>1, <1>7, <2>2, <2>4, <3>1 DEF Underway, y
  <2>6. Named(worker[u].copy)'  BY <1>1, <2>2, <2>3 DEF Orderly, Named
  <2>7. ASSUME ~y.stale, y.pc # "get"  PROVE Timely(worker[u])'
    <3>1. Timely(x) /\ x.ref \in 1..Len(dicts)
      BY <2>2, <2>3, <2>7 DEF Orderly, Underway
    <3>2. live = 0 => x.ref # w.ref
      BY <1>1, <1>16, <2>1, <2>2, <2>7 DEF DictsInv, WorkerInv, Busy
    <3>3. x.ref # w.ref => dicts'[x.ref] = dicts[x.ref]  BY <1>7, <3>1
    <3>4. \A d \in x.seen : dicts'[x.ref][d] = dicts[x.ref][d]
      <4> SUFFICES ASSUME NEW d \in x.seen, x.ref = w.ref
                   PROVE  dicts'[x.ref][d] = dicts[x.ref][d]
        BY <3>3
      <4>1. d # c  BY <2>2, <2>7
      <4>2. d \in Columns
        <5>1. x \in Worker  BY <2>1 DEF DictsInv, EphemeralTypeInv
        <5> QED  BY <5>1, WorkerFields
      <4>3. r[d] = s[d]  BY <1>5, <4>1, <4>2
      <4> QED  BY <1>7, <4>3 DEF s
    <3>5. Written(worker[u])' = Written(x)  BY <2>2, <2>4 DEF Written, Task
    <3> HIDE DEF x, y
    <3>6. Task(worker'[u]) = Task(x) /\ worker'[u] = y  BY <2>4 DEF y
    <3> QED  BY <1>1, <2>2, <3>1, <3>2, <3>3, <3>4, <3>5, <3>6 DEF Timely, Task, Written
  <2> QED  BY <2>5, <2>6, <2>7 DEF Orderly
<1>17. \A u \in Threads : Busy(u)' => Busy(u) /\ worker'[u].ref = worker[u].ref
  BY <1>1, <1>9, <1>10, <1>11 DEF Busy
<1> QED  BY <1>1, <1>13, <1>14, <1>15, <1>16, <1>17 DEF DictsInv, WorkerInv

LEMMA SaveKeeps ==
    ASSUME DictsInv, NEW t \in Threads, Save(t), durable' = durable  PROVE DictsInv'
<1> DEFINE w == worker[t]
           op == Task(w)
           m == Modified("turn", w.copy, w.id)
           ref == IF op = "turn" THEN Len(dicts) + 1 ELSE w.ref
           n == IF Len(w.todo) = 1 THEN Absent
                ELSE [w EXCEPT !.pc = "get", !.todo = Tail(w.todo)]
<1>1. /\ w \in Worker /\ w # Absent /\ w.pc = "save" /\ Underway(w) /\ Named(w.copy)
      /\ dicts \in Seq(State) /\ Len(dicts) \in Nat /\ asked \in Nat
      /\ asked' = asked
  BY DEF Save, Doing, DictsInv, EphemeralTypeInv, WorkerInv, Orderly
<1>2. /\ w.copy \in State /\ w.id \in Nat /\ op \in Operations
      /\ w.todo \in Seq(Operations) \ {<<>>}
  BY <1>1, WorkerFields
<1>3. /\ w.ref \in 1..Len(dicts) /\ w.id \in 1..asked
  BY <1>1 DEF Underway
<1>4. m \in State /\ m.goals = w.copy.goals
  <2>1. "turn" \in Operations  BY DEF Operations
  <2> HIDE DEF w
  <2> QED  BY <1>2, <2>1, ModifiedType, ModifiedColumns
<1>5. /\ dicts' = IF op = "turn" THEN Append(dicts, m) ELSE dicts
      /\ live' = ref /\ kept' = kept \cup {<<op, w.id>>}
  <2>1. CASE op = "turn"  BY <2>1 DEF Save, Saved
  <2>2. CASE op # "turn"  BY <2>2 DEF Save, Saved
  <2> QED  BY <2>1, <2>2
<1> HIDE DEF m
<1>6. /\ dicts' \in Seq(State) /\ Len(dicts) <= Len(dicts') /\ Len(dicts') \in Nat
      /\ \A i \in 1..Len(dicts) : dicts'[i] = dicts[i]
      /\ ref \in 1..Len(dicts') /\ ref # 0
      /\ \A i \in 1..Len(dicts') : i \in 1..Len(dicts) \/ dicts'[i] = m
  <2>1. CASE op = "turn"
    <3>1. dicts' = Append(dicts, m) /\ ref = Len(dicts) + 1  BY <1>5, <2>1
    <3> HIDE DEF w, op, ref
    <3> QED  BY <1>1, <1>4, <3>1
  <2>2. CASE op # "turn"
    <3>1. dicts' = dicts /\ ref = w.ref  BY <1>5, <2>2
    <3> HIDE DEF op, ref
    <3> QED  BY <1>1, <1>3, <3>1
  <2> QED  BY <2>1, <2>2
<1>7. /\ worker'[t] = n
      /\ \A u \in Threads : u # t =>
           worker'[u] = IF worker[u] # Absent /\ worker[u].pc # "get" /\ worker[u].ref # ref
                        THEN [worker[u] EXCEPT !.stale = TRUE] ELSE worker[u]
      /\ worker' = [u \in Threads |-> worker'[u]]
  <2>1. Saved(w).ref = ref  BY DEF Saved
  <2> HIDE DEF ref
  <2> QED  BY <2>1 DEF Save, Outdate
<1>8. ASSUME n # Absent
      PROVE  /\ n \in Worker /\ n.pc = "get" /\ n.id = w.id /\ n.copy = w.copy
  <2>1. n = [w EXCEPT !.pc = "get", !.todo = Tail(w.todo)] /\ Len(w.todo) # 1  BY <1>8
  <2>2. Tail(w.todo) \in Seq(Operations) \ {<<>>}  BY <1>2, <2>1, TailIsOperations
  <2> HIDE DEF n
  <2> QED  BY <1>1, <2>1, <2>2 DEF Worker
<1> HIDE DEF n, ref
<1>9. ASSUME NEW u \in Threads, u # t, worker[u] # Absent
      PROVE  /\ worker'[u] \in Worker /\ worker'[u].pc = worker[u].pc
             /\ worker'[u].id = worker[u].id /\ worker'[u].todo = worker[u].todo
             /\ worker'[u].ref = worker[u].ref /\ worker'[u].reads = worker[u].reads
             /\ worker'[u].copy = worker[u].copy /\ worker'[u].seen = worker[u].seen
             /\ ~worker'[u].stale /\ worker[u].pc # "get" =>
                  ~worker[u].stale /\ worker[u].ref = ref
  <2>1. worker[u] \in Worker  BY <1>9 DEF DictsInv, EphemeralTypeInv
  <2>2. worker'[u] = worker[u] \/ worker'[u] = [worker[u] EXCEPT !.stale = TRUE]
    BY <1>7, <1>9
  <2>3. LET v == [worker[u] EXCEPT !.stale = TRUE] IN
        /\ v \in Worker /\ v.stale /\ v.pc = worker[u].pc /\ v.id = worker[u].id
        /\ v.todo = worker[u].todo /\ v.ref = worker[u].ref /\ v.reads = worker[u].reads
        /\ v.copy = worker[u].copy /\ v.seen = worker[u].seen
    BY <2>1, StaleType
  <2>4. worker[u].pc # "get" /\ worker[u].ref # ref => worker'[u].stale
    BY <1>7, <1>9, <2>3
  <2> QED  BY <2>1, <2>2, <2>3, <2>4
<1>10. \A u \in Threads : u # t /\ worker[u] = Absent => worker'[u] = Absent  BY <1>7
<1>11. worker' \in [Threads -> Worker \cup {Absent}]  BY <1>7, <1>8, <1>9, <1>10
<1>12. EphemeralTypeInv'
  BY <1>1, <1>2, <1>5, <1>6, <1>11 DEF DictsInv, EphemeralTypeInv
<1>13. \A i \in 1..Len(dicts') : Named(dicts[i])'
  BY <1>1, <1>4, <1>6 DEF DictsInv, WorkerInv, Named
<1>14. worker'[t] # Absent => Orderly(worker[t])'
  <2> SUFFICES ASSUME n # Absent  PROVE Orderly(worker[t])'
    BY <1>7
  <2>1. Underway(worker[t])'  BY <1>1, <1>3, <1>7, <1>8 DEF Underway
  <2>2. Named(worker[t].copy)'  BY <1>1, <1>7, <1>8 DEF Named
  <2> QED  BY <1>7, <1>8, <2>1, <2>2 DEF Orderly
<1>15. ASSUME NEW u \in Threads, u # t, worker'[u] # Absent
       PROVE  Orderly(worker[u])'
  <2> DEFINE x == worker[u]
             y == worker'[u]
  <2>1. x # Absent  BY <1>10, <1>15
  <2>2. /\ y.pc = x.pc /\ y.id = x.id /\ y.todo = x.todo /\ y.ref = x.ref
        /\ y.reads = x.reads /\ y.copy = x.copy /\ y.seen = x.seen
        /\ ~y.stale /\ x.pc # "get" => ~x.stale /\ x.ref = ref
    BY <1>9, <1>15, <2>1
  <2>3. Orderly(x)  BY <2>1 DEF DictsInv, WorkerInv
  <2>4. Task(y) = Task(x)  BY <2>2 DEF Task
  <2>5. Underway(worker[u])'
    <3>1. Underway(x)  BY <2>3 DEF Orderly
    <3> HIDE DEF x, y
    <3> QED  BY <1>1, <1>6, <2>2, <2>4, <3>1 DEF Underway, y
  <2>6. Named(worker[u].copy)'  BY <1>1, <2>2, <2>3 DEF Orderly, Named
  <2>7. ASSUME ~y.stale, y.pc # "get"  PROVE Timely(worker[u])'
    <3>1. Timely(x) /\ x.ref \in 1..Len(dicts)
      BY <2>2, <2>3, <2>7 DEF Orderly, Underway
    <3>2. dicts'[x.ref] = dicts[x.ref]  BY <1>6, <3>1
    <3>3. Written(worker[u])' = Written(x)  BY <2>2, <2>4 DEF Written, Task
    <3>4. live' = x.ref /\ live' # 0  BY <1>5, <1>6, <2>2, <2>7
    <3> HIDE DEF x, y
    <3>5. worker'[u] = y  BY DEF y
    <3> QED  BY <2>2, <3>1, <3>2, <3>3, <3>4, <3>5 DEF Timely
  <2> QED  BY <2>5, <2>6, <2>7 DEF Orderly
<1> QED  BY <1>5, <1>6, <1>12, <1>13, <1>14, <1>15 DEF DictsInv, WorkerInv

LEMMA DictsInvariance == StoresSpec => []DictsInv
<1>1. StoresInit => DictsInv
  BY BlankType DEF StoresInit, EphemeralInit, DictsInv, EphemeralTypeInv, WorkerInv, Busy, State
<1>2. DictsInv /\ [StoresNext]_allVars => DictsInv'
  <2> SUFFICES ASSUME DictsInv, [StoresNext]_allVars  PROVE DictsInv'
    OBVIOUS
  <2>1. CASE UNCHANGED <<durable, shared>>
    BY <2>1 DEF shared, DictsInv, EphemeralTypeInv, WorkerInv, Orderly, Underway, Named,
               Timely, Written, Busy, Task
  <2>2. CASE EphemeralNext /\ durable' = durable
    BY <2>2, AskKeeps, GetKeeps, ReadColumnKeeps, WriteKeeps, SaveKeeps, AbandonKeeps
       DEF EphemeralNext
  <2> QED  BY <2>1, <2>2 DEF StoresNext, allVars
<1> QED  BY <1>1, <1>2, PTL DEF StoresSpec

\* What the worker of any learner's requests holds is a record and a set of
\* workers, whatever the requests and however they interleave
\* (store/repository.py:61-104, with the handlers of http/routes.py).
THEOREM EphemeralTypes == StoresSpec => []EphemeralTypeInv
BY DictsInvariance, PTL DEF DictsInv

-----------------------------------------------------------------------------
(* What the in-memory record comes to show.                                *)

LEMMA WorkerMoves ==
    ASSUME DictsInv, NEW t \in Threads, Write(t) \/ Save(t)
    PROVE  /\ worker[t] # Absent /\ worker[t].pc \in {"write", "save"}
           /\ worker'[t] # worker[t]
<1> DEFINE w == worker[t]
<1>1. w # Absent /\ w.pc \in {"write", "save"} /\ w \in Worker
  BY DEF Write, Save, Doing, DictsInv, EphemeralTypeInv
<1>2. CASE Write(t)
  <2>1. w.pc = "write" /\ worker'[t] = [w EXCEPT !.pc = "save"]
    BY <1>2 DEF Write, Doing, Outdate
  <2>2. worker'[t].pc = "save"  BY <1>1, <2>1 DEF Worker
  <2> QED  BY <1>1, <2>1, <2>2
<1>3. CASE Save(t)
  <2>1. /\ w.pc = "save"
        /\ worker'[t] = IF Len(w.todo) = 1 THEN Absent
                        ELSE [w EXCEPT !.pc = "get", !.todo = Tail(w.todo)]
    BY <1>3 DEF Save, Doing, Outdate
  <2>2. worker'[t] = Absent \/ worker'[t].pc = "get"  BY <1>1, <2>1 DEF Worker
  <2> QED  BY <1>1, <2>1, <2>2
<1> QED  BY <1>1, <1>2, <1>3

\* A timely intake that writes to the store's dict does what the operation does,
\* but for the goals a reflection is linked to.
LEMMA WriteShows ==
    ASSUME DictsInv, NEW t \in Threads, Write(t), ~worker[t].stale, live # 0
    PROVE  LET w == worker[t]
               op == Task(w)
               new == Modified(op, Held, w.id)
           IN /\ w.ref = live /\ Held = dicts[w.ref] /\ w.copy.goals \in 0..asked
              /\ op # "reflection" \/ w.copy.goals = Held.goals => Held' = new
              /\ op = "reflection" =>
                   Held' = [new EXCEPT !.reflections =
                       Append(Held.reflections, [id |-> w.id, goals |-> w.copy.goals])]
<1> DEFINE w == worker[t]
           op == Task(w)
           c == ColumnOf(op)
           s == dicts[w.ref]
           r == [s EXCEPT ![c] = Modified(op, w.copy, w.id)[c]]
           new == Modified(op, s, w.id)
<1>1. /\ w \in Worker /\ w # Absent /\ w.pc = "write" /\ Underway(w) /\ Named(w.copy)
      /\ Timely(w)
      /\ dicts \in Seq(State) /\ Len(dicts) \in Nat /\ live \in 0..Len(dicts)
      /\ asked \in Nat /\ live' = live
  BY DEF Write, Doing, DictsInv, EphemeralTypeInv, WorkerInv, Orderly
<1>2. /\ w.copy \in State /\ w.id \in Nat /\ op \in Operations
  BY <1>1, WorkerFields
<1>3. /\ w.ref \in 1..Len(dicts) /\ s \in State /\ op # "turn" /\ ~Written(w)
      /\ op = "reflection" => WritesBack(op) \subseteq w.seen
  BY <1>1 DEF Underway, Written
<1>4. dicts' = [dicts EXCEPT ![w.ref] = r]
  BY DEF Write
<1>5. w.ref = live  BY <1>1 DEF Timely
<1> HIDE DEF r
<1>6. Held = s /\ Held' = r  BY <1>1, <1>3, <1>4, <1>5 DEF Held
<1>7. op = "reflection" => w.copy.reflections = s.reflections
  <2> SUFFICES ASSUME op = "reflection"  PROVE w.copy["reflections"] = s["reflections"]
    OBVIOUS
  <2>1. "reflections" \in w.seen  BY <1>3 DEF WritesBack, ColumnOf
  <2> QED  BY <1>1, <1>3, <2>1 DEF Timely
<1>8. w.copy.goals \in 0..asked  BY <1>1, <1>2 DEF Named, State
<1>9. /\ op # "reflection" \/ w.copy.goals = s.goals => r = new
      /\ op = "reflection" =>
           r = [new EXCEPT !.reflections =
                    Append(s.reflections, [id |-> w.id, goals |-> w.copy.goals])]
  <2>1. op \in Operations \ {"turn"}  BY <1>2, <1>3
  <2> DEFINE v == w.copy
             id == w.id
  <2>2. v \in State /\ id \in Nat /\ (op = "reflection" => v.reflections = s.reflections)
    BY <1>2, <1>7
  <2> HIDE DEF w, op, s, v, id
  <2>3. LET col == ColumnOf(op)
            res == [s EXCEPT ![col] = Modified(op, v, id)[col]]
        IN /\ op # "reflection" \/ v.goals = s.goals => res = Modified(op, s, id)
           /\ op = "reflection" =>
                res = [Modified(op, s, id) EXCEPT !.reflections =
                           Append(s.reflections, [id |-> id, goals |-> v.goals])]
    BY <1>3, <2>1, <2>2, WrittenColumn
  <2> QED  BY <2>3 DEF r, v, id
<1> HIDE DEF w, s
<1> QED  BY <1>5, <1>6, <1>8, <1>9 DEF w, s

\* A timely save does what the operation does, unless the intake has written to
\* the store's dict already.
LEMMA SaveShows ==
    ASSUME DictsInv, NEW t \in Threads, Save(t), ~worker[t].stale
    PROVE  IF Written(worker[t]) /\ live # 0 THEN Held' = Held
           ELSE Held' = Modified(Task(worker[t]), Held, worker[t].id)
<1> DEFINE w == worker[t]
           op == Task(w)
<1>1. /\ w \in Worker /\ w # Absent /\ w.pc = "save" /\ Underway(w) /\ Timely(w)
      /\ dicts \in Seq(State) /\ Len(dicts) \in Nat /\ live \in 0..Len(dicts)
  BY DEF Save, Doing, DictsInv, EphemeralTypeInv, WorkerInv, Orderly
<1>2. /\ w.copy \in State /\ w.id \in Nat /\ op \in Operations /\ w.seen \in SUBSET Columns
  BY <1>1, WorkerFields
<1>3. w.ref \in 1..Len(dicts)  BY <1>1 DEF Underway
<1>4. CASE op = "turn"
  <2>1. dicts' = Append(dicts, Modified("turn", w.copy, w.id)) /\ live' = Len(dicts) + 1
    BY <1>4 DEF Save, Saved
  <2>2. Modified("turn", w.copy, w.id) \in State
    <3>1. "turn" \in Operations  BY DEF Operations
    <3> HIDE DEF w
    <3> QED  BY <1>2, <3>1, ModifiedType
  <2>3. Held' = Modified("turn", w.copy, w.id)
    <3> DEFINE m == Modified("turn", w.copy, w.id)
    <3>1. dicts' = Append(dicts, m) /\ m \in State  BY <2>1, <2>2
    <3> HIDE DEF m
    <3>2. dicts'[Len(dicts) + 1] = m /\ Len(dicts) + 1 # 0  BY <1>1, <3>1
    <3>3. Held' = m  BY <2>1, <3>2 DEF Held
    <3> QED  BY <3>3 DEF m
  <2>4. w.copy = Held
    <3>1. ~Written(w) /\ Columns \subseteq w.seen
      BY <1>1, <1>4 DEF Underway, Written, WritesBack
    <3>2. CASE live = 0  BY <1>1, <3>1, <3>2 DEF Timely, Held
    <3>3. CASE live # 0
      <4>1. w.ref = live /\ Held = dicts[w.ref] /\ Held \in State
        BY <1>1, <1>3, <3>3 DEF Timely, Held
      <4>2. \A c \in Columns : w.copy[c] = Held[c]  BY <1>1, <3>1, <4>1 DEF Timely
      <4> HIDE DEF w
      <4> QED  BY <1>2, <4>1, <4>2, SameState
    <3> QED  BY <3>2, <3>3
  <2> QED  BY <1>4, <2>3, <2>4 DEF Written
<1>5. CASE op # "turn"
  <2>1. dicts' = dicts /\ live' = w.ref /\ w.ref # 0  BY <1>1, <1>3, <1>5 DEF Save, Saved
  <2>2. Written(w)  BY <1>1, <1>5 DEF Written
  <2>3. CASE live # 0
    <3>1. w.ref = live  BY <1>1, <2>3 DEF Timely
    <3> QED  BY <2>1, <2>2, <2>3, <3>1 DEF Held
  <2>4. CASE live = 0
    <3>1. Held' = dicts[w.ref] /\ Held = Blank  BY <2>1, <2>4 DEF Held
    <3>2. dicts[w.ref] = Modified(op, Blank, w.id)  BY <1>1, <2>2, <2>4 DEF Timely
    <3> QED  BY <2>4, <3>1, <3>2
  <2> QED  BY <2>3, <2>4
<1> QED  BY <1>4, <1>5

\* Nothing but a write or a save changes the record.
LEMMA OthersLeaveHeld ==
    ASSUME NEW t \in Threads, Ask(t) \/ Get(t) \/ ReadColumn(t) \/ Abandon(t)
    PROVE  Held' = Held /\ kept' = kept
<1>1. CASE Get(t)
  <2>1. live' = live /\ kept' = kept /\ (live # 0 => dicts' = dicts)  BY <1>1 DEF Get
  <2> QED  BY <2>1 DEF Held
<1> QED  BY <1>1 DEF Ask, ReadColumn, Abandon, Held

LEMMA TimelySteps == DictsInv /\ [StoresNext]_allVars => TimelyStep
<1> SUFFICES ASSUME DictsInv, [StoresNext]_allVars, Held' # Held  PROVE TimelyStep
  BY DEF TimelyStep
<1>1. CASE UNCHANGED shared  BY <1>1 DEF shared, Held
<1>2. ASSUME NEW t \in Threads, Write(t) \/ Save(t)  PROVE TimelyStep
  <2> DEFINE w == worker[t]
             op == Task(w)
  <2>1. ASSUME ~w.stale  PROVE ShowsAs(op, w.id)
    <3>1. CASE Save(t)  BY <2>1, <3>1, SaveShows DEF ShowsAs
    <3>2. CASE Write(t)
      <4>1. live # 0
        BY <3>2 DEF Write, Held
      <4>2. /\ op # "reflection" => Held' = Modified(op, Held, w.id)
            /\ op = "reflection" => \E g \in 0..asked :
                 Held' = [Modified(op, Held, w.id) EXCEPT !.reflections =
                              Append(Held.reflections, [id |-> w.id, goals |-> g])]
        BY <2>1, <3>2, <4>1, WriteShows
      <4> HIDE DEF w, op
      <4> QED  BY <4>2 DEF ShowsAs
    <3> QED  BY <1>2, <3>1, <3>2
  <2> QED  BY <1>2, <2>1, WorkerMoves DEF TimelyStep
<1> QED  BY <1>1, <1>2, OthersLeaveHeld DEF StoresNext, EphemeralNext, allVars

\* Handing out the live dict is harmless in the absence of a late write back:
\* however the requests interleave, the record a reader finds changes only by an
\* operation of one of them, whole, unless that handler had read something since
\* superseded (repository.py:75; goals.py:126, overlay.py:157, memory.py:47).
THEOREM TimelyWork == StoresSpec => TimelyWorkIsLocal
BY DictsInvariance, TimelySteps, PTL DEF StoresSpec, TimelyWorkIsLocal

-----------------------------------------------------------------------------
(* The in-memory store, one request at a time.                             *)

\* What the only worker has left to do.  The record shows an intake from the
\* moment it has written to the store's dict; a reflection is linked to the goals
\* of the dict it is written to.
Left(w) ==
    /\ ~w.stale
    /\ \A i, j \in 1..Len(w.todo) : w.todo[i] = w.todo[j] => i = j
    /\ \A i \in 1..Len(w.todo) :
         <<w.todo[i], w.id>> \in kept <=> (i = 1 /\ Written(w) /\ live # 0)
    /\ w.pc \in {"read", "write"} /\ Task(w) = "reflection" =>
         \/ w.copy.goals = dicts[w.ref].goals
         \/ w.pc = "read" /\ \E i \in 1..Len(w.reads) : w.reads[i] = "goals"

SoloInv ==
    /\ \A t, u \in Threads : worker[t] # Absent /\ worker[u] # Absent => t = u
    /\ \A t \in Threads : worker[t] # Absent => Left(worker[t])
    /\ \A o \in kept : o[2] <= asked
    /\ asked <= MaxRequests

\* The step of the only worker there is.
LEMMA SoloStep ==
    ASSUME SoloInv, NEW t \in Threads, worker[t] # Absent, asked' = asked,
           \A u \in Threads : u # t /\ worker[u] = Absent => worker'[u] = Absent,
           \A o \in kept' : o \in kept \/ o[2] <= asked,
           worker'[t] # Absent => Left(worker[t])'
    PROVE  SoloInv'
BY DEF SoloInv

LEMMA SoloAsk ==
    ASSUME patient, DictsInv, SoloInv, NEW t \in Threads, Ask(t)  PROVE SoloInv'
<1>1. PICK todo \in Requests :
        worker' = [worker EXCEPT ![t] =
            [pc |-> "get", id |-> asked + 1, todo |-> todo, ref |-> 0, reads |-> <<>>,
             copy |-> Blank, seen |-> {}, stale |-> FALSE]]
  BY DEF Ask
<1>2. /\ worker'[t].pc = "get" /\ worker'[t].id = asked + 1 /\ worker'[t].todo = todo
      /\ ~worker'[t].stale /\ \A u \in Threads : u # t => worker'[u] = Absent
  BY <1>1 DEF Ask, DictsInv, EphemeralTypeInv
<1>3. asked \in Nat /\ asked' = asked + 1 /\ kept' = kept /\ kept \subseteq Operations \X Nat
      /\ asked' <= MaxRequests
  BY StoreAssumption DEF Ask, DictsInv, EphemeralTypeInv
<1>4. \A o \in kept : o[2] \in Nat /\ o[2] <= asked  BY <1>3 DEF SoloInv
<1>5. Left(worker[t])'
  <2>1. \A op : <<op, asked + 1>> \notin kept  BY <1>3, <1>4
  <2>2. \A i, j \in 1..Len(todo) : todo[i] = todo[j] => i = j  BY StoreAssumption
  <2> QED  BY <1>2, <1>3, <2>1, <2>2 DEF Left, Written
<1> QED  BY <1>2, <1>3, <1>4, <1>5 DEF SoloInv

LEMMA SoloGet ==
    ASSUME DictsInv, SoloInv, NEW t \in Threads, Get(t)  PROVE SoloInv'
<1> DEFINE w == worker[t]
           ref == IF live # 0 THEN live ELSE Len(dicts) + 1
           v == Start(w, ref)
<1>1. /\ w \in Worker /\ w # Absent /\ w.pc = "get" /\ Left(w)
      /\ dicts \in Seq(State) /\ Len(dicts) \in Nat /\ live \in 0..Len(dicts)
      /\ UNCHANGED <<live, asked, kept>>
  BY DEF Get, Doing, DictsInv, EphemeralTypeInv, SoloInv
<1>2. worker' = [worker EXCEPT ![t] = v]
  <2>1. CASE live # 0  BY <2>1 DEF Get
  <2>2. CASE live = 0
    <3>1. worker' = [worker EXCEPT ![t] = Start(w, Len(dicts'))]
          /\ dicts' = Append(dicts, Blank)
      BY <2>2 DEF Get
    <3>2. Len(dicts') = Len(dicts) + 1  BY <1>1, <3>1
    <3> QED  BY <2>2, <3>1, <3>2
  <2> QED  BY <2>1, <2>2
<1>3. ref \in Nat  BY <1>1
<1>4. /\ v.pc \in {"read", "write"} /\ v.id = w.id /\ v.todo = w.todo /\ ~v.stale
      /\ Task(v) = Task(w) /\ (v.pc = "write" => Task(w) \notin {"turn", "reflection"})
  <2> HIDE DEF w, ref
  <2> QED  BY <1>1, <1>3, StartIsOrderly
<1>5. Task(w) = "reflection" => \E i \in 1..Len(v.reads) : v.reads[i] = "goals"
  <2> SUFFICES ASSUME Task(w) = "reflection"
               PROVE  \E i \in 1..Len(v.reads) : v.reads[i] = "goals"
    OBVIOUS
  <2>1. v.reads = <<"goals", "reflections">>
    BY <1>1 DEF Start, Reads, Worker
  <2> HIDE DEF v
  <2>2. 1 \in 1..Len(v.reads) /\ v.reads[1] = "goals"  BY <2>1
  <2> QED  BY <2>2
<1> HIDE DEF v
<1>6. worker'[t] = v /\ \A u \in Threads : u # t => worker'[u] = worker[u]
  BY <1>2 DEF DictsInv, EphemeralTypeInv
<1>7. ~Written(v) /\ ~Written(w)  BY <1>1, <1>4 DEF Written
<1>8. Left(worker[t])'
  <2>1. Task(worker'[t]) = Task(w)  BY <1>4, <1>6
  <2>2. ~Written(worker[t])'  BY <1>6, <1>7 DEF Written, Task
  <2>3. v.pc = "read" \/ Task(w) # "reflection"  BY <1>4
  <2> HIDE DEF w
  <2> QED  BY <1>1, <1>4, <1>5, <1>6, <1>7, <2>1, <2>2, <2>3 DEF Left, Task
<1> QED  BY <1>1, <1>6, <1>8, SoloStep

LEMMA SoloReadColumn ==
    ASSUME DictsInv, SoloInv, NEW t \in Threads, ReadColumn(t)  PROVE SoloInv'
<1> DEFINE w == worker[t]
           c == Head(w.reads)
           s == dicts[w.ref]
           copy == [w.copy EXCEPT ![c] = s[c]]
           pc == IF Len(w.reads) > 1 THEN "read"
                 ELSE IF Task(w) = "turn" THEN "save" ELSE "write"
           n == worker'[t]
<1>1. /\ w \in Worker /\ w # Absent /\ w.pc = "read" /\ Underway(w) /\ Left(w)
      /\ dicts \in Seq(State) /\ UNCHANGED <<dicts, live, asked, kept>>
  BY DEF ReadColumn, Doing, DictsInv, EphemeralTypeInv, WorkerInv, Orderly, SoloInv
<1>2. w.copy \in State /\ w.reads \in Seq(Columns)  BY <1>1, WorkerFields
<1>3. /\ w.reads # <<>> /\ w.ref \in 1..Len(dicts) /\ s \in State
      /\ Task(w) \in {"turn", "reflection"}
  BY <1>1 DEF Underway
<1>4. /\ c \in Columns /\ c = w.reads[1] /\ Len(w.reads) \in Nat \ {0}
      /\ Len(Tail(w.reads)) = Len(w.reads) - 1
      /\ \A i \in 1..Len(w.reads) - 1 : Tail(w.reads)[i] = w.reads[i + 1]
  <2> HIDE DEF w
  <2> QED  BY <1>2, <1>3, HeadIsColumn
<1>5. copy \in State /\ \A d \in Columns : copy[d] = IF d = c THEN s[c] ELSE w.copy[d]
  <2>1. w.copy \in State /\ s \in State /\ c \in Columns  BY <1>2, <1>3, <1>4
  <2> HIDE DEF c, s, w
  <2> QED  BY <2>1, SetColumn
<1>6. /\ n.copy = copy /\ n.reads = Tail(w.reads) /\ n.pc = pc /\ n.ref = w.ref
      /\ n.id = w.id /\ n.todo = w.todo /\ n.stale = w.stale
      /\ \A u \in Threads : u # t => worker'[u] = worker[u]
  BY <1>1 DEF ReadColumn, Worker, DictsInv, EphemeralTypeInv
<1> HIDE DEF n, copy, s
<1>7. Task(n) = Task(w) /\ ~Written(w)  BY <1>1, <1>6 DEF Task, Written
<1>8. ~Written(n)  BY <1>6, <1>7 DEF Written
<1>9. ASSUME Task(w) = "reflection"
      PROVE  \/ copy.goals = s.goals
             \/ pc = "read" /\ \E i \in 1..Len(Tail(w.reads)) : Tail(w.reads)[i] = "goals"
  <2>1. "goals" \in Columns  BY DEF Columns
  <2>2. CASE w.copy["goals"] = s["goals"]  BY <1>5, <2>1, <2>2
  <2>3. CASE c = "goals"  BY <1>5, <2>1, <2>3
  <2>4. CASE c # "goals" /\ w.copy["goals"] # s["goals"]
    <3>1. PICK i \in 1..Len(w.reads) : w.reads[i] = "goals"
      BY <1>1, <1>9, <2>4 DEF Left, s
    <3>2. i # 1  BY <1>4, <2>4, <3>1
    <3>3. i - 1 \in 1..Len(w.reads) - 1 /\ (i - 1) + 1 = i /\ Len(w.reads) > 1
      BY <1>4, <3>2
    <3>4. Tail(w.reads)[i - 1] = "goals"  BY <1>4, <3>1, <3>3
    <3> QED  BY <1>4, <3>3, <3>4
  <2> QED  BY <2>2, <2>3, <2>4
<1>10. Left(worker[t])'
  <2>1. Task(worker'[t]) = Task(w) /\ ~Written(worker[t])'
    BY <1>7, <1>8 DEF n, Written, Task
  <2>2. dicts'[n.ref] = s  BY <1>1, <1>6 DEF s
  <2> HIDE DEF w, pc
  <2>3. worker'[t] = n  BY DEF n
  <2> QED  BY <1>1, <1>6, <1>7, <1>9, <2>1, <2>2, <2>3 DEF Left
<1> QED  BY <1>1, <1>6, <1>10, SoloStep

LEMMA SoloWrite ==
    ASSUME DictsInv, SoloInv, NEW t \in Threads, Write(t)  PROVE SoloInv'
<1> DEFINE w == worker[t]
           n == worker'[t]
<1>0. /\ w \in Worker /\ w # Absent /\ w.pc = "write" /\ Orderly(w) /\ Left(w)
      /\ UNCHANGED <<live, asked>> /\ Len(dicts) \in Nat
  BY DEF Write, Doing, DictsInv, EphemeralTypeInv, WorkerInv, SoloInv
<1>1. /\ w \in Worker /\ w # Absent /\ w.pc = "write" /\ Underway(w) /\ Left(w) /\ Timely(w)
      /\ UNCHANGED <<live, asked>> /\ Len(dicts) \in Nat
      /\ w.todo \in Seq(Operations) \ {<<>>}
  BY <1>0, WorkerFields DEF Orderly, Left
<1>2. /\ Task(w) # "turn" /\ w.id \in 1..asked /\ w.ref # 0 /\ ~Written(w)
      /\ live # 0 => w.ref = live
  BY <1>1 DEF Underway, Written, Timely
<1>3. kept' = IF live # 0 THEN kept \cup {<<Task(w), w.id>>} ELSE kept
  BY <1>1, <1>2 DEF Write
<1>4. /\ n = [w EXCEPT !.pc = "save"]
      /\ \A u \in Threads : u # t /\ worker[u] = Absent => worker'[u] = Absent
  BY DEF Write, Outdate
<1>5. n.pc = "save" /\ n.id = w.id /\ n.todo = w.todo /\ n.stale = w.stale /\ Task(n) = Task(w)
  BY <1>1, <1>4 DEF Worker, Task
<1> HIDE DEF n
<1>6. Written(worker[t])'  BY <1>2, <1>5 DEF Written, Task, n
<1>7. Task(w) = w.todo[1] /\ Len(w.todo) \in Nat \ {0} /\ 1 \in 1..Len(w.todo)
  BY <1>1, HeadIsOperation DEF Task
<1>8. \A i \in 1..Len(w.todo) : <<w.todo[i], w.id>> \in kept' <=> (i = 1 /\ live # 0)
  <2> SUFFICES ASSUME NEW i \in 1..Len(w.todo)
               PROVE  <<w.todo[i], w.id>> \in kept' <=> (i = 1 /\ live # 0)
    OBVIOUS
  <2>1. <<w.todo[i], w.id>> \notin kept  BY <1>1, <1>2 DEF Left
  <2>2. w.todo[i] = Task(w) <=> i = 1  BY <1>1, <1>7 DEF Left
  <2> HIDE DEF w
  <2> QED  BY <1>3, <2>1, <2>2
<1>9. Left(worker[t])'
  <2> HIDE DEF w
  <2>1. worker'[t] = n  BY DEF n
  <2> QED  BY <1>1, <1>5, <1>6, <1>8, <2>1 DEF Left
<1>10. \A o \in kept' : o \in kept \/ o[2] <= asked
  <2>1. w.id <= asked  BY <1>2
  <2> QED  BY <1>3, <2>1
<1> QED  BY <1>1, <1>4, <1>9, <1>10, SoloStep

LEMMA SoloSave ==
    ASSUME DictsInv, SoloInv, NEW t \in Threads, Save(t)  PROVE SoloInv'
<1> DEFINE w == worker[t]
           n == worker'[t]
<1>1. /\ w \in Worker /\ w # Absent /\ Underway(w) /\ Left(w)
      /\ asked' = asked /\ kept' = kept \cup {<<Task(w), w.id>>}
      /\ w.todo \in Seq(Operations) \ {<<>>}
  BY DEF Save, Doing, DictsInv, EphemeralTypeInv, WorkerInv, Orderly, SoloInv, Worker
<1>2. /\ n = IF Len(w.todo) = 1 THEN Absent
             ELSE [w EXCEPT !.pc = "get", !.todo = Tail(w.todo)]
      /\ \A u \in Threads : u # t /\ worker[u] = Absent => worker'[u] = Absent
  BY DEF Save, Outdate
<1> HIDE DEF n
<1>3. ASSUME n # Absent  PROVE Left(worker[t])'
  <2>1. Len(w.todo) # 1 /\ n = [w EXCEPT !.pc = "get", !.todo = Tail(w.todo)]
    BY <1>2, <1>3
  <2> DEFINE rest == Tail(w.todo)
  <2>2. n.pc = "get" /\ n.id = w.id /\ n.todo = rest /\ n.stale = w.stale
    BY <1>1, <2>1 DEF Worker
  <2>3. /\ Len(rest) = Len(w.todo) - 1 /\ Len(w.todo) \in Nat /\ Task(w) = w.todo[1]
        /\ \A i \in 1..Len(rest) : rest[i] = w.todo[i + 1]
    BY <1>1, <2>1, TailIsOperations, HeadIsOperation DEF Task
  <2> HIDE DEF rest
  <2>4. \A i \in 1..Len(rest) :
          i + 1 \in 1..Len(w.todo) /\ i + 1 # 1 /\ rest[i] = w.todo[i + 1]
    BY <2>3
  <2>5. \A i \in 1..Len(rest) : <<rest[i], w.id>> \notin kept'
    <3> SUFFICES ASSUME NEW i \in 1..Len(rest)  PROVE <<rest[i], w.id>> \notin kept'
      OBVIOUS
    <3>1. i + 1 \in 1..Len(w.todo) /\ i + 1 # 1 /\ rest[i] = w.todo[i + 1]  BY <2>4
    <3>2. <<rest[i], w.id>> \notin kept  BY <1>1, <3>1 DEF Left
    <3>3. 1 \in 1..Len(w.todo)  BY <2>3, <3>1
    <3>4. rest[i] # Task(w)  BY <1>1, <2>3, <3>1, <3>3 DEF Left
    <3> QED  BY <1>1, <3>2, <3>4
  <2>6. \A i, j \in 1..Len(rest) : rest[i] = rest[j] => i = j
    <3> SUFFICES ASSUME NEW i \in 1..Len(rest), NEW j \in 1..Len(rest), rest[i] = rest[j]
                 PROVE  i = j
      OBVIOUS
    <3>1. i + 1 = j + 1  BY <1>1, <2>4 DEF Left
    <3> QED  BY <3>1
  <2>7. ~Written(worker[t])'  BY <2>2 DEF Written, n
  <2> HIDE DEF w
  <2>8. worker'[t] = n  BY DEF n
  <2> QED  BY <1>1, <2>2, <2>5, <2>6, <2>7, <2>8 DEF Left
<1>4. \A o \in kept' : o \in kept \/ o[2] <= asked
  <2>1. w.id <= asked  BY <1>1 DEF Underway
  <2> QED  BY <1>1, <2>1
<1> QED  BY <1>1, <1>2, <1>3, <1>4, SoloStep DEF n

LEMMA PatientRemains == ASSUME [StoresNext]_allVars  PROVE patient' = patient
BY PatientStays DEF StoresNext, allVars, vars

LEMMA SoloInvariance == StoresSpec => [](patient => SoloInv)
<1>1. StoresInit => (patient => SoloInv)
  BY StoreAssumption DEF StoresInit, EphemeralInit, SoloInv
<1>2. DictsInv /\ (patient => SoloInv) /\ [StoresNext]_allVars => (patient => SoloInv)'
  <2> SUFFICES ASSUME DictsInv, patient => SoloInv, [StoresNext]_allVars, patient'
               PROVE  SoloInv'
    OBVIOUS
  <2>1. patient /\ SoloInv  BY PatientRemains
  <2>2. CASE UNCHANGED shared
    BY <2>1, <2>2 DEF shared, SoloInv, Left, Written, Task
  <2>3. ASSUME NEW t \in Threads, Abandon(t)  PROVE SoloInv'
    <3>1. /\ worker' = [worker EXCEPT ![t] = Absent] /\ worker[t] # Absent
          /\ asked' = asked /\ kept' = kept
      BY <2>3 DEF Abandon, Doing
    <3>2. worker'[t] = Absent /\ \A u \in Threads : u # t => worker'[u] = worker[u]
      BY <3>1 DEF DictsInv, EphemeralTypeInv
    <3> QED  BY <2>1, <3>1, <3>2, SoloStep
  <2> QED  BY <2>1, <2>2, <2>3, SoloAsk, SoloGet, SoloReadColumn, SoloWrite, SoloSave
           DEF StoresNext, EphemeralNext, allVars
<1> QED  BY <1>1, <1>2, DictsInvariance, PTL DEF StoresSpec

\* The record's columns come to show one operation more.
LEMMA KeptOperation ==
    ASSUME NEW op \in Operations, NEW id \in 1..MaxRequests, Held \in State,
           <<op, id>> \notin kept, kept' = kept \cup {<<op, id>>},
           Held' = Modified(op, Held, id)
    PROVE  Kept!Next
<1> DEFINE now == Held
           next == Modified(op, now, id)
<1>1. id \in Nat /\ now \in State  BY StoreAssumption
<1>2. Held' = next  OBVIOUS
<1> HIDE DEF now, next
<1>3. /\ next.learned = IF op = "turn" THEN now.learned \cup {id} ELSE now.learned
      /\ next.goals = IF op = "goals" THEN id ELSE IF op = "clear" THEN 0 ELSE now.goals
      /\ next.reflections = IF op = "reflection"
            THEN Append(now.reflections, [id |-> id, goals |-> now.goals])
            ELSE now.reflections
      /\ next.overlay = IF op = "overlay" THEN id ELSE now.overlay
  BY <1>1, ModifiedColumns DEF next
<1>4. now = Held  BY DEF now
<1>5. Kept!Once(op, id)  BY DEF Kept!Once
<1>6. CASE op = "turn"
  <2>1. Kept!Turn(id)  BY <1>2, <1>3, <1>4, <1>5, <1>6 DEF Kept!Turn
  <2> QED  BY <2>1 DEF Kept!Next
<1>7. CASE op = "goals"
  <2>1. Kept!SetGoals(id)  BY <1>2, <1>3, <1>4, <1>5, <1>7 DEF Kept!SetGoals
  <2> QED  BY <2>1 DEF Kept!Next
<1>8. CASE op = "clear"
  <2>1. Kept!ClearGoals(id)
    BY <1>2, <1>3, <1>4, <1>5, <1>8 DEF Kept!ClearGoals, Kept!None
  <2> QED  BY <2>1 DEF Kept!Next
<1>9. CASE op = "reflection"
  <2>1. Kept!AddReflection(id)  BY <1>2, <1>3, <1>4, <1>5, <1>9 DEF Kept!AddReflection
  <2> QED  BY <2>1 DEF Kept!Next
<1>10. CASE op = "overlay"
  <2>1. Kept!SetOverlay(id)  BY <1>2, <1>3, <1>4, <1>5, <1>10 DEF Kept!SetOverlay
  <2> QED  BY <2>1 DEF Kept!Next
<1> QED  BY <1>6, <1>7, <1>8, <1>9, <1>10 DEF Operations

LEMMA SoloSteps ==
    ASSUME DictsInv, SoloInv, NEW t \in Threads, Write(t) \/ Save(t)
    PROVE  Kept!Next \/ (Held' = Held /\ kept' = kept)
<1> DEFINE w == worker[t]
           op == Task(w)
<1>1. /\ w \in Worker /\ w # Absent /\ Underway(w) /\ Left(w)
      /\ live \in 0..Len(dicts) /\ Len(dicts) \in Nat /\ asked \in Nat
      /\ w.todo \in Seq(Operations) \ {<<>>}
  BY WorkerMoves DEF DictsInv, EphemeralTypeInv, WorkerInv, Orderly, SoloInv, Worker
<1>2. /\ op \in Operations /\ w.id \in 1..MaxRequests /\ Held \in State
  BY <1>1, WorkerFields, HeldType, StoreAssumption DEF Underway, DictsInv, SoloInv
<1>3. <<op, w.id>> \in kept <=> Written(w) /\ live # 0
  <2>1. 1 \in 1..Len(w.todo) /\ op = w.todo[1]  BY <1>1, HeadIsOperation DEF Task
  <2> HIDE DEF op
  <2> QED  BY <1>1, <2>1 DEF Left
<1>4. ~w.stale  BY <1>1 DEF Left
<1>5. CASE Write(t)
  <2>1. ~Written(w) /\ live' = live /\ w.pc = "write" /\ w.ref \in 1..Len(dicts)
    BY <1>1, <1>5 DEF Write, Doing, Written, Underway
  <2>2. CASE live = 0
    <3>1. kept' = kept  BY <1>1, <1>5, <2>1, <2>2 DEF Write
    <3> QED  BY <2>1, <2>2, <3>1 DEF Held
  <2>3. CASE live # 0
    <3>1. /\ w.ref = live /\ Held = dicts[w.ref]
          /\ op # "reflection" \/ w.copy.goals = Held.goals => Held' = Modified(op, Held, w.id)
      BY <1>4, <1>5, <2>3, WriteShows
    <3>2. op = "reflection" => w.copy.goals = Held.goals  BY <1>1, <2>1, <3>1 DEF Left
    <3>3. kept' = kept \cup {<<op, w.id>>}  BY <1>5, <3>1 DEF Write
    <3>4. Held' = Modified(op, Held, w.id)  BY <3>1, <3>2
    <3> DEFINE id == w.id
    <3>5. /\ id \in 1..MaxRequests /\ <<op, id>> \notin kept /\ kept' = kept \cup {<<op, id>>}
          /\ Held' = Modified(op, Held, id)
      BY <1>2, <1>3, <2>1, <3>3, <3>4
    <3> HIDE DEF id, op, w
    <3> QED  BY <1>2, <3>5, KeptOperation
  <2> QED  BY <2>2, <2>3
<1>6. CASE Save(t)
  <2>1. kept' = kept \cup {<<op, w.id>>}  BY <1>6 DEF Save
  <2>2. CASE Written(w) /\ live # 0
    <3>1. Held' = Held  BY <1>4, <1>6, <2>2, SaveShows
    <3> QED  BY <1>3, <2>1, <2>2, <3>1
  <2>3. CASE ~(Written(w) /\ live # 0)
    <3> DEFINE id == w.id
    <3>1. /\ id \in 1..MaxRequests /\ <<op, id>> \notin kept /\ kept' = kept \cup {<<op, id>>}
          /\ Held' = Modified(op, Held, id)
      BY <1>2, <1>3, <1>4, <1>6, <2>1, <2>3, SaveShows
    <3> HIDE DEF id, op, w
    <3> QED  BY <1>2, <3>1, KeptOperation
  <2> QED  BY <2>2, <2>3
<1> QED  BY <1>5, <1>6

\* To a client that waits for each answer, the in-memory store keeps the promise
\* of LearnerRecord too, although what it hands out is the very dict it holds
\* (repository.py:72-88).
THEOREM EphemeralKeeps == StoresSpec => EphemeralKeepsRecord
<1>1. StoresInit => Kept!Init
  BY DEF StoresInit, EphemeralInit, Kept!Init, Kept!None, Held, Blank
<1>2. DictsInv /\ (patient => SoloInv) /\ [StoresNext]_allVars
        => [patient => Kept!Next]_<<Kept!record, kept>>
  <2> SUFFICES ASSUME DictsInv, patient => SoloInv, [StoresNext]_allVars, patient
               PROVE  Kept!Next \/ (Held' = Held /\ kept' = kept)
    BY DEF Kept!record
  <2>1. CASE UNCHANGED shared  BY <2>1 DEF shared, Held
  <2> QED  BY <2>1, SoloSteps, OthersLeaveHeld DEF StoresNext, EphemeralNext, allVars
<1> QED  BY <1>1, <1>2, DictsInvariance, SoloInvariance, PTL
         DEF StoresSpec, EphemeralKeepsRecord

\* Seen from the database, serving some learners from the in-memory store changes
\* nothing: what is proved of Spec holds of the two stores together.
THEOREM StoresRunStore == StoresSpec => Spec
<1>1. StoresInit => Init  BY DEF StoresInit
<1>2. [StoresNext]_allVars => [Next]_vars  BY DEF StoresNext, allVars
<1> QED  BY <1>1, <1>2, PTL DEF StoresSpec, Spec
=============================================================================
