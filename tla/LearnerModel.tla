---------------------------- MODULE LearnerModel ----------------------------
(***************************************************************************)
(* One learner's persistent model, turn after turn: what memory.update     *)
(* (backend/app/agent/memory.py) does to the stored concept map and to the *)
(* free-text grasped / shaky tags.  Turns are sequential here; what        *)
(* concurrent requests do to the stored row is another component's matter. *)
(***************************************************************************)
EXTENDS ConceptRules

CONSTANTS
    Topics,     \* free-text concept tags the reasoner may propose
    MaxTurns    \* bound on the number of turns

ASSUME LearnerAssumption == MaxTurns \in Nat

VARIABLES
    concepts,   \* LearnerState.concepts
    tags,       \* LearnerState.grasped / .shaky
    signal,     \* what the latest turn observed: the arguments of update
    solves,     \* history: turns that solved an exercise owning the concept
    turns       \* history: number of turns taken

vars == <<concepts, tags, signal, solves, turns>>

Tags == [grasped: SUBSET Topics, shaky: SUBSET Topics]

Init ==
    /\ concepts = EmptyMap
    /\ tags = [grasped |-> {}, shaky |-> {}]
    /\ signal = None
    /\ solves = [c \in Concepts |-> 0]
    /\ turns = 0

\* memory.update: merge the tags, apply the rules, save the whole state.  The
\* planner asks for a revisit only of a due concept, and never on a turn whose
\* run met the goal or repeated an error (planner._rules_overlay).
Update(s, grasped, shaky) ==
    /\ turns < MaxTurns
    /\ s.revisit # None => /\ s.revisit \in DueReview(concepts, s.ex)
                           /\ ~s.met /\ ~s.repeated
    /\ concepts' = UpdateConcepts(concepts, s.ex, s.met, s.mid, s.repeated, s.revisit)
    /\ tags' = MergeMemory(tags, grasped, shaky)
    /\ signal' = s
    /\ solves' = [c \in Concepts |->
                    solves[c] + (IF s.met /\ OwnConcept[s.ex] = c THEN 1 ELSE 0)]
    /\ turns' = turns + 1

Next == \E s \in Signal, grasped \in SUBSET Topics, shaky \in SUBSET Topics :
            Update(s, grasped, shaky)

Spec == Init /\ [][Next]_vars

-----------------------------------------------------------------------------
TypeInv ==
    /\ concepts \in ConceptMap
    /\ tags \in Tags
    /\ signal \in Signal \cup {None}
    /\ solves \in [Concepts -> Nat]
    /\ turns \in Nat

IsGrasped(m, c) == m[c] # Absent /\ m[c].state = "grasped"
IsFirm(m, c) == m[c] # Absent /\ Firm(m[c])

\* Two independent solves make a concept firmly grasped, whatever misconceptions
\* and repeated errors come in between (learner_model.py, "two independent solves").
TwoSolvesFirm == \A c \in Concepts : solves[c] >= 2 => IsFirm(concepts, c)

\* The strengthening that makes TwoSolvesFirm inductive: every solve was counted
\* as evidence, and a concept with evidence has an entry.
SolvesAreEvidence ==
    \A c \in Concepts :
        solves[c] > 0 => concepts[c] # Absent /\ concepts[c].evidence >= solves[c]

\* "Grasped sticks": a firmly grasped concept stays firmly grasped (rules 3, 4).
FirmStaysStep == \A c \in Concepts : IsFirm(concepts, c) => IsFirm(concepts', c)
FirmStays == [][FirmStaysStep]_vars

\* A turn on a concept's own exercise never takes the concept back from grasped:
\* the touch of rule 1 has already raised its evidence to the threshold when the
\* guards of rules 3 and 4 read it, so rule 4 never demotes.
OwnExerciseKeepsGraspStep ==
    \A c \in Concepts :
        IsGrasped(concepts, c) /\ OwnConcept[signal'.ex] = c => IsGrasped(concepts', c)
OwnExerciseKeepsGrasp == [][OwnExerciseKeepsGraspStep]_vars

\* Spaced review: a concept revisited on an exercise is not due again there until
\* it has been revisited on another one, and a revisit alone settles nothing: the
\* concept is as shaky after it as before.
ReviewIsSpacedStep ==
    \A c \in Concepts :
        /\ signal'.revisit = c => /\ c \notin DueReview(concepts', signal'.ex)
                                  /\ ~IsGrasped(concepts', c)
        /\ \A ex \in Exercises :
            c \notin DueReview(concepts, ex) /\ c \in DueReview(concepts', ex) =>
                \/ IsGrasped(concepts, c) \/ concepts[c] = Absent
                \/ signal'.revisit = c /\ signal'.ex # ex
ReviewIsSpaced == [][ReviewIsSpacedStep]_vars
=============================================================================
