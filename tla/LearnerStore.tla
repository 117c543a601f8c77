---------------------------- MODULE LearnerStore ----------------------------
(***************************************************************************)
(* One consenting learner's row in the durable store, and the handlers     *)
(* that read, modify and write it: backend/app/store/repository.py         *)
(* (SqlStore) under agent/memory.py update, agent/goals.py set_goals and   *)
(* add_reflection, and agent/overlay.py set_overlay.  Each of the three    *)
(* sessions an operation opens (get_learner_state, save_learner_state,     *)
(* append_event) is a database transaction of its own, and nothing keeps   *)
(* two requests of a learner apart.                                        *)
(*                                                                         *)
(* The distress and wellbeing variants of an intake save another artifact  *)
(* through the same calls; artifacts are named by the request they come    *)
(* from.  A turn that carries an overlay sets the overlay first.           *)
(***************************************************************************)
EXTENDS Naturals, Sequences

CONSTANTS
    Threads,        \* handlers
    Requests,       \* the sequences of operations clients' requests ask for
    RejectedTypes,  \* event types the database's event_type column refuses
    MayFault,       \* whether the database may raise
    MaxRequests,    \* bound on the number of requests
    Absent          \* there is no row, or no handler

Operations == {"turn", "goals", "clear", "reflection", "overlay"}

ASSUME StoreAssumption ==
    /\ \A todo \in Requests :
        /\ todo \in Seq(Operations) \ {<<>>}
        /\ \A i, j \in 1..Len(todo) : todo[i] = todo[j] => i = j
    /\ "turn" \notin RejectedTypes
    /\ MayFault \in BOOLEAN /\ MaxRequests \in Nat

Reflection == [id: Nat, goals: Nat]

\* A learner-state dict, and a row of learner_state.  learned stands for
\* grasped, shaky and concepts, by the turns they take into account.
State == [learned: SUBSET Nat, goals: Nat, reflections: Seq(Reflection), overlay: Nat]

\* disturbed: whether another handler committed since this one read the row
\* (a history value; the code does not keep it).
Handler == [pc: {"read", "load", "commit", "emit"}, id: Nat, todo: Seq(Operations) \ {<<>>},
            state: State, loaded: State \cup {Absent}, disturbed: BOOLEAN]

ASSUME AbsentAssumption == Absent \notin State \cup Handler

VARIABLES
    patient,   \* whether the learner's client waits for an answer before it asks again
    row,       \* the learner's row
    handler,   \* per thread: the request it is serving, or Absent
    issued,    \* number of requests accepted
    saved,     \* the operations saved: <<operation, request>>
    refused,   \* the requests a lost insertion race has refused
    answered,  \* the requests answered without error
    trace      \* the events stored: <<event type, request>>

vars == <<patient, row, handler, issued, saved, refused, answered, trace>>

Blank == [learned |-> {}, goals |-> 0, reflections |-> <<>>, overlay |-> 0]

\* SqlStore.get_learner_state.
Current == IF row = Absent THEN Blank ELSE row

Init ==
    /\ patient \in BOOLEAN
    /\ row = Absent
    /\ handler = [t \in Threads |-> Absent]
    /\ issued = 0 /\ saved = {} /\ refused = {} /\ answered = {} /\ trace = {}

At(t, stage) == handler[t] # Absent /\ handler[t].pc = stage
Operation(h) == <<Head(h.todo), h.id>>

Arrive(t) ==
    /\ handler[t] = Absent /\ issued < MaxRequests
    /\ patient => \A u \in Threads : handler[u] = Absent
    /\ \E todo \in Requests :
        handler' = [handler EXCEPT ![t] =
            [pc |-> "read", id |-> issued + 1, todo |-> todo, state |-> Blank,
             loaded |-> Absent, disturbed |-> FALSE]]
    /\ issued' = issued + 1
    /\ UNCHANGED <<patient, row, saved, refused, answered, trace>>

\* The new dict forgets the overlay column.
BadAfterTurn(prev, id) ==
    [learned |-> prev.learned \cup {id}, goals |-> prev.goals,
     reflections |-> prev.reflections, overlay |-> 0]

\* memory.update: a new dict, with everything but the concepts carried over.
AfterTurn(prev, id) ==
    [learned |-> prev.learned \cup {id}, goals |-> prev.goals,
     reflections |-> prev.reflections, overlay |-> prev.overlay]

\* A reflection that is not linked to any goals.
BadAfterReflection(prev, id) ==
    [prev EXCEPT !.reflections = Append(prev.reflections, [id |-> id, goals |-> 0])]

\* add_reflection: the reflection is linked to the goals in force.
AfterReflection(prev, id) ==
    [prev EXCEPT !.reflections = Append(prev.reflections, [id |-> id, goals |-> prev.goals])]

\* The dict an operation hands to save_learner_state.
Modified(op, prev, id) ==
    CASE op = "turn" -> AfterTurn(prev, id)
      [] op = "goals" -> [prev EXCEPT !.goals = id]
      [] op = "clear" -> [prev EXCEPT !.goals = 0]
      [] op = "reflection" -> AfterReflection(prev, id)
      [] op = "overlay" -> [prev EXCEPT !.overlay = id]

\* get_learner_state, and what the operation makes of the dict it returns.
Read(t) ==
    /\ At(t, "read")
    /\ LET h == handler[t] IN
        handler' = [handler EXCEPT ![t] =
            [h EXCEPT !.pc = "load", !.state = Modified(Head(h.todo), Current, h.id),
                      !.disturbed = FALSE]]
    /\ UNCHANGED <<patient, row, issued, saved, refused, answered, trace>>

\* save_learner_state: s.get.
Load(t) ==
    /\ At(t, "load")
    /\ handler' = [handler EXCEPT ![t] = [handler[t] EXCEPT !.pc = "commit", !.loaded = row]]
    /\ UNCHANGED <<patient, row, issued, saved, refused, answered, trace>>

\* The column's value after the commit: an UPDATE sets the columns whose new
\* value differs from the one loaded.
Column(now, loaded, new) == IF new = loaded THEN now ELSE new

\* The reflection is appended to the list the row holds, in place: the ORM
\* compares the column with itself and sees no change.
BadUpdated(now, loaded, state) ==
    [learned |-> Column(now.learned, loaded.learned, state.learned),
     goals |-> Column(now.goals, loaded.goals, state.goals),
     reflections |-> now.reflections,
     overlay |-> Column(now.overlay, loaded.overlay, state.overlay)]

\* save_learner_state: s.commit on a row that was loaded.
Updated(now, loaded, state) ==
    [learned |-> Column(now.learned, loaded.learned, state.learned),
     goals |-> Column(now.goals, loaded.goals, state.goals),
     reflections |-> Column(now.reflections, loaded.reflections, state.reflections),
     overlay |-> Column(now.overlay, loaded.overlay, state.overlay)]

\* Every save inserts.
BadCommitted(now, loaded, state) == IF now = Absent THEN {state} ELSE {}

\* The rows s.commit may leave: no row is left by an INSERT that finds the
\* learner's row already there (the primary key is the learner's id).
Committed(now, loaded, state) ==
    IF loaded # Absent THEN {Updated(now, loaded, state)}
    ELSE IF now = Absent THEN {state} ELSE {}

\* The other handlers that have read the row now hold an old version of it.
Disturb(t, h) ==
    handler' = [u \in Threads |->
        IF u = t THEN h
        ELSE IF handler[u] = Absent THEN Absent
        ELSE [handler[u] EXCEPT !.disturbed = TRUE]]

Commit(t) ==
    /\ At(t, "commit")
    /\ LET h == handler[t]
           result == Committed(row, h.loaded, h.state)
       IN \/ /\ row' \in result
             /\ saved' = saved \cup {Operation(h)}
             /\ Disturb(t, [h EXCEPT !.pc = "emit"])
             /\ UNCHANGED refused
          \/ /\ result = {}
             /\ refused' = refused \cup {h.id}
             /\ handler' = [handler EXCEPT ![t] = Absent]
             /\ UNCHANGED <<row, saved>>
    /\ UNCHANGED <<patient, issued, answered, trace>>

EventType(op) ==
    CASE op = "turn" -> "turn"
      [] op \in {"goals", "clear"} -> "goal_set"
      [] op = "reflection" -> "reflection_recorded"
      [] op = "overlay" -> "overlay_set"

\* A handler goes on with the request's next operation, or has answered it.
NextOperation(h) ==
    IF Len(h.todo) = 1 THEN Absent ELSE [h EXCEPT !.pc = "read", !.todo = Tail(h.todo)]

\* append_event.  A refused or failed INSERT ends a turn with an error answer
\* (Fault); an intake's _emit swallows it.
Emit(t) ==
    /\ At(t, "emit")
    /\ LET h == handler[t]
           event == <<EventType(Head(h.todo)), h.id>>
       IN /\ \/ event[1] \notin RejectedTypes /\ trace' = trace \cup {event}
             \/ /\ event[1] \in RejectedTypes \/ MayFault
                /\ Head(h.todo) # "turn"
                /\ UNCHANGED trace
          /\ handler' = [handler EXCEPT ![t] = NextOperation(h)]
          /\ answered' = IF Len(h.todo) = 1 THEN answered \cup {h.id} ELSE answered
    /\ UNCHANGED <<patient, row, issued, saved, refused>>

\* The database raises, or the worker dies: the handler is gone, and what it
\* committed stays.
Fault(t) ==
    /\ MayFault /\ handler[t] # Absent
    /\ handler' = [handler EXCEPT ![t] = Absent]
    /\ UNCHANGED <<patient, row, issued, saved, refused, answered, trace>>

Next ==
    \E t \in Threads :
        Arrive(t) \/ Read(t) \/ Load(t) \/ Commit(t) \/ Emit(t) \/ Fault(t)

Spec == Init /\ [][Next]_vars

-----------------------------------------------------------------------------
(* Properties.                                                             *)

\* Type invariant.
TypeInv ==
    /\ patient \in BOOLEAN
    /\ row \in State \cup {Absent}
    /\ handler \in [Threads -> Handler \cup {Absent}]
    /\ issued \in Nat
    /\ saved \subseteq Operations \X Nat
    /\ refused \subseteq Nat /\ answered \subseteq Nat
    /\ trace \subseteq {EventType(op) : op \in Operations} \X Nat

\* The columns an operation is not about.
Untouched(op) ==
    /\ op # "turn" => Current'.learned = Current.learned
    /\ op \notin {"goals", "clear"} => Current'.goals = Current.goals
    /\ op # "reflection" => Current'.reflections = Current.reflections
    /\ op # "overlay" => Current'.overlay = Current.overlay

\* An operation that nobody else's commit came between changes its own part of
\* the record and nothing else: whatever was saved before is still there
\* (memory.py:47, goals.py:126, overlay.py:157).
Saves(t) == At(t, "commit") /\ Operation(handler[t]) \in saved' \ saved
UndisturbedStep ==
    \A t \in Threads :
        Saves(t) /\ ~handler[t].disturbed => Untouched(Head(handler[t].todo))
UndisturbedCommitsAreLocal == [][UndisturbedStep]_vars

\* What an operation was asked to save is in the row it commits, disturbed or
\* not: the UPDATE never skips the operation's own column (a clear that saw
\* nothing to clear has nothing to save).
Shows(op, id) ==
    CASE op = "turn" -> id \in Current.learned
      [] op = "goals" -> Current.goals = id
      [] op = "clear" -> TRUE
      [] op = "reflection" -> Current.reflections # <<>>
                              /\ Current.reflections[Len(Current.reflections)].id = id
      [] op = "overlay" -> Current.overlay = id
CommitLandsStep == \A o \in saved' \ saved : Shows(o[1], o[2])'
CommitsLand == [][CommitLandsStep]_vars

\* A client that waits for each answer never has a save refused.
NoneRefused == patient => refused = {}

\* To a client that waits for each answer, the store keeps LearnerRecord's
\* promise (every saved operation applied once, atomically, the rest of the
\* record left alone), whatever faults and lost events come between.
Record == INSTANCE LearnerRecord WITH
    Ids <- 1..MaxRequests, learned <- Current.learned, goals <- Current.goals,
    reflections <- Current.reflections, overlay <- Current.overlay
ImplementsRecord == Record!Init /\ [][patient => Record!Next]_<<Record!record, saved>>
=============================================================================
