--------------------------- MODULE EphemeralStore ---------------------------
(***************************************************************************)
(* The other store a learner's requests may be served from: the worker's   *)
(* InMemoryStore (backend/app/store/repository.py), which holds the record *)
(* of a learner who has not consented as a dict and hands out that very    *)
(* dict.  The operations are those of LearnerStore, over the same Store    *)
(* protocol; here they read and write a dict that other handlers may hold  *)
(* as well, one column at a time.  Which of the two stores serves the      *)
(* learner is settled beforehand (ConsentRouting).                         *)
(*                                                                         *)
(* Events are appended to a list nobody else reads: left out.              *)
(***************************************************************************)
EXTENDS LearnerStore

VARIABLES
    durable,   \* whether the learner's requests go to the database
    dicts,     \* the dicts made so far: a dict is known by its position
    live,      \* the dict the store holds for the learner, 0 if none
    worker,    \* per thread: the request it is serving, or Absent
    asked,     \* number of requests accepted
    kept       \* the operations the store's record shows: <<operation, request>>

shared == <<dicts, live, worker, asked, kept>>
allVars == <<vars, durable, shared>>

Columns == {"learned", "goals", "reflections", "overlay"}

\* ref: the dict the operation works on.  reads: the columns it has yet to
\* read.  copy: what it has read.  seen, stale: history values, for the columns
\* read to be written back, and whether such a value has been superseded.
Worker == [pc: {"get", "read", "write", "save"}, id: Nat, todo: Seq(Operations) \ {<<>>},
           ref: Nat, reads: Seq(Columns), copy: State, seen: SUBSET Columns, stale: BOOLEAN]

\* The learner's record, as a reader of the store finds it.
Held == IF live = 0 THEN Blank ELSE dicts[live]

EphemeralInit ==
    /\ dicts = <<>> /\ live = 0
    /\ worker = [t \in Threads |-> Absent]
    /\ asked = 0 /\ kept = {}

Doing(t, stage) == worker[t] # Absent /\ worker[t].pc = stage
Task(w) == Head(w.todo)

ColumnOf(op) ==
    CASE op = "turn" -> "learned"
      [] op \in {"goals", "clear"} -> "goals"
      [] op = "reflection" -> "reflections"
      [] op = "overlay" -> "overlay"

\* What each operation reads before it writes: memory.update carries every
\* column over, add_reflection links to the goals and copies the list.
Reads(op) ==
    CASE op = "turn" -> <<"learned", "goals", "reflections", "overlay">>
      [] op = "reflection" -> <<"goals", "reflections">>
      [] OTHER -> <<>>

WritesBack(op) == IF op = "turn" THEN Columns ELSE {ColumnOf(op)}

Ask(t) ==
    /\ worker[t] = Absent /\ asked < MaxRequests
    /\ patient => \A u \in Threads : worker[u] = Absent
    /\ \E todo \in Requests :
        worker' = [worker EXCEPT ![t] =
            [pc |-> "get", id |-> asked + 1, todo |-> todo, ref |-> 0, reads |-> <<>>,
             copy |-> Blank, seen |-> {}, stale |-> FALSE]]
    /\ asked' = asked + 1
    /\ UNCHANGED <<dicts, live, kept>>

Start(w, ref) ==
    [w EXCEPT !.pc = IF Reads(Task(w)) = <<>> THEN "write" ELSE "read",
              !.ref = ref, !.reads = Reads(Task(w)), !.copy = Blank, !.seen = {},
              !.stale = FALSE]

\* A default dict of the class, not one of the call's own.
BadGet(t) ==
    /\ Doing(t, "get")
    /\ worker' = [worker EXCEPT ![t] = Start(worker[t], IF live # 0 THEN live ELSE 1)]
    /\ dicts' = IF dicts = <<>> THEN <<Blank>> ELSE dicts
    /\ UNCHANGED <<live, asked, kept>>

\* get_learner_state: the live dict, or a fresh one the store does not keep.
Get(t) ==
    /\ Doing(t, "get")
    /\ \/ /\ live # 0
          /\ worker' = [worker EXCEPT ![t] = Start(worker[t], live)]
          /\ UNCHANGED dicts
       \/ /\ live = 0
          /\ dicts' = Append(dicts, Blank)
          /\ worker' = [worker EXCEPT ![t] = Start(worker[t], Len(dicts'))]
    /\ UNCHANGED <<live, asked, kept>>

ReadColumn(t) ==
    /\ Doing(t, "read")
    /\ LET w == worker[t]
           c == Head(w.reads)
       IN worker' = [worker EXCEPT ![t] =
            [w EXCEPT !.copy[c] = dicts[w.ref][c],
                      !.seen = IF c \in WritesBack(Task(w)) THEN @ \cup {c} ELSE @,
                      !.reads = Tail(@),
                      !.pc = IF Len(w.reads) > 1 THEN "read"
                             ELSE IF Task(w) = "turn" THEN "save" ELSE "write"]]
    /\ UNCHANGED <<dicts, live, asked, kept>>

\* The other handlers for which Late holds have read what is no longer so.
Outdate(t, w, Late(_)) ==
    worker' = [u \in Threads |->
        IF u = t THEN w
        ELSE IF worker[u] # Absent /\ worker[u].pc # "get" /\ Late(worker[u])
             THEN [worker[u] EXCEPT !.stale = TRUE]
             ELSE worker[u]]

\* An intake assigns one key of the dict it holds, which may be the live one.
Write(t) ==
    /\ Doing(t, "write")
    /\ LET w == worker[t]
           c == ColumnOf(Task(w))
           Late(other) == other.ref = w.ref /\ c \in other.seen
       IN /\ dicts' = [dicts EXCEPT ![w.ref][c] = Modified(Task(w), w.copy, w.id)[c]]
          /\ Outdate(t, [w EXCEPT !.pc = "save"], Late)
          /\ kept' = IF w.ref = live THEN kept \cup {<<Task(w), w.id>>} ELSE kept
    /\ UNCHANGED <<live, asked>>

\* The dict an operation hands to save_learner_state: memory.update makes one
\* of its own from what it has read, an intake has written to the one it holds.
Saved(w) ==
    IF Task(w) = "turn"
    THEN [ref |-> Len(dicts) + 1, dicts |-> Append(dicts, Modified("turn", w.copy, w.id))]
    ELSE [ref |-> w.ref, dicts |-> dicts]

\* save_learner_state: the store holds that dict from now on.  The handler goes
\* on with the request's next operation, or has answered it.
Save(t) ==
    /\ Doing(t, "save")
    /\ LET w == worker[t]
           s == Saved(w)
           Late(other) == other.ref # s.ref
           next == IF Len(w.todo) = 1 THEN Absent
                   ELSE [w EXCEPT !.pc = "get", !.todo = Tail(w.todo)]
       IN /\ live' = s.ref /\ dicts' = s.dicts
          /\ Outdate(t, next, Late)
          /\ kept' = kept \cup {<<Task(w), w.id>>}
    /\ UNCHANGED asked

\* A model or the grader raises before the turn reaches its memory update.
Abandon(t) ==
    /\ MayFault /\ Doing(t, "get") /\ Task(worker[t]) = "turn"
    /\ worker' = [worker EXCEPT ![t] = Absent]
    /\ UNCHANGED <<dicts, live, asked, kept>>

EphemeralNext ==
    \E t \in Threads :
        Ask(t) \/ Get(t) \/ ReadColumn(t) \/ Write(t) \/ Save(t) \/ Abandon(t)

\* The learner's requests, served by one store or the other.
StoresInit == Init /\ EphemeralInit /\ durable \in BOOLEAN
StoresNext ==
    \/ durable /\ Next /\ UNCHANGED <<durable, shared>>
    \/ ~durable /\ EphemeralNext /\ UNCHANGED <<durable, vars>>
StoresSpec == StoresInit /\ [][StoresNext]_allVars

-----------------------------------------------------------------------------
\* Type invariant.
EphemeralTypeInv ==
    /\ durable \in BOOLEAN
    /\ dicts \in Seq(State) /\ live \in 0..Len(dicts)
    /\ worker \in [Threads -> Worker \cup {Absent}]
    /\ asked \in Nat /\ kept \subseteq Operations \X Nat

\* Handing out the live dict is harmless as long as nothing an operation wrote
\* back had been superseded: what the other handlers hold or have written never
\* shows in the record but through an operation of its own, and each shows as
\* one (repository.py:75; goals.py:126, overlay.py:157, memory.py:47).
ShowsAs(op, id) ==
    LET new == Modified(op, Held, id) IN
    \/ Held' = new
    \/ /\ op = "reflection"
       /\ \E g \in 0..asked :   \* the goals may have been replaced since
            Held' = [new EXCEPT !.reflections = Append(Held.reflections, [id |-> id, goals |-> g])]
TimelyStep ==
    Held' # Held =>
        \E t \in Threads :
            /\ worker[t] # Absent /\ worker'[t] # worker[t]
            /\ worker[t].pc \in {"write", "save"}
            /\ worker[t].stale \/ ShowsAs(Task(worker[t]), worker[t].id)
TimelyWorkIsLocal == [][TimelyStep]_allVars

\* To a client that waits for each answer, the in-memory store keeps
\* LearnerRecord's promise as well.
Kept == INSTANCE LearnerRecord WITH
    Ids <- 1..MaxRequests, learned <- Held.learned, goals <- Held.goals,
    reflections <- Held.reflections, overlay <- Held.overlay, saved <- kept
EphemeralKeepsRecord == Kept!Init /\ [][patient => Kept!Next]_<<Kept!record, kept>>
=============================================================================
