--------------------------- MODULE LearnerRecord ---------------------------
(***************************************************************************)
(* What the learner state promises its clients: each request changes its   *)
(* own part of the record, once, and leaves the rest as it was             *)
(* (backend/app/agent/goals.py set_goals and add_reflection, overlay.py    *)
(* set_overlay, memory.py update: the read-modify-writes their docstrings  *)
(* describe).                                                              *)
(***************************************************************************)
EXTENDS Naturals, Sequences

CONSTANT Ids   \* requests, numbered from 1

\* Goals and overlays are named by the request that set them; 0 is none.
None == 0

VARIABLES
    learned,      \* the turns the concept entries take into account
    goals,        \* the goals in force
    reflections,  \* the reflections, in order, each with the goals it is linked to
    overlay,      \* the overlay in force
    saved         \* what has been saved: <<operation, request>>

record == <<learned, goals, reflections, overlay>>

Init ==
    /\ learned = {} /\ goals = None /\ reflections = <<>> /\ overlay = None
    /\ saved = {}

Once(op, id) ==
    /\ <<op, id>> \notin saved
    /\ saved' = saved \cup {<<op, id>>}

Turn(id) ==
    /\ Once("turn", id)
    /\ learned' = learned \cup {id}
    /\ UNCHANGED <<goals, reflections, overlay>>

SetGoals(id) ==
    /\ Once("goals", id)
    /\ goals' = id
    /\ UNCHANGED <<learned, reflections, overlay>>

ClearGoals(id) ==
    /\ Once("clear", id)
    /\ goals' = None
    /\ UNCHANGED <<learned, reflections, overlay>>

\* A reflection is linked to the goals in force.
AddReflection(id) ==
    /\ Once("reflection", id)
    /\ reflections' = Append(reflections, [id |-> id, goals |-> goals])
    /\ UNCHANGED <<learned, goals, overlay>>

SetOverlay(id) ==
    /\ Once("overlay", id)
    /\ overlay' = id
    /\ UNCHANGED <<learned, goals, reflections>>

Next ==
    \E id \in Ids :
        \/ Turn(id) \/ SetGoals(id) \/ ClearGoals(id) \/ AddReflection(id) \/ SetOverlay(id)

Spec == Init /\ [][Next]_<<record, saved>>
=============================================================================
