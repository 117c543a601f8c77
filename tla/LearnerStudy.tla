---------------------------- MODULE LearnerStudy ----------------------------
(***************************************************************************)
(* What a study reads off one learner's turns: the learner_model telemetry *)
(* each turn writes to the trace (backend/app/agent/orchestrator.py) and   *)
(* the longitudinal measures computed from it and from the final concept   *)
(* map (backend/app/analysis/measures.py, section 5e).  Control turns have *)
(* no such telemetry and take no step here.                                *)
(***************************************************************************)
EXTENDS LearnerModel

VARIABLES
    everShaky,   \* concepts in some turn's telemetry.learner_model.shaky_concepts
    revisited    \* concepts in some turn's telemetry.learner_model.revisit_concept

study == <<vars, everShaky, revisited>>

BadShakyConcepts(m) ==   \* a concept touched once does not count yet
    {c \in Concepts : m[c] # Absent /\ m[c].state = "shaky" /\ m[c].evidence > 1}

\* shaky_cids, read from the map memory.update returned.
ShakyConcepts(m) == {c \in Concepts : m[c] # Absent /\ m[c].state = "shaky"}

StudyInit == Init /\ everShaky = {} /\ revisited = {}

\* The turn event carries the telemetry of the updated map.
Telemetry ==
    /\ everShaky' = everShaky \cup ShakyConcepts(concepts')
    /\ revisited' = revisited \cup ({signal'.revisit} \ {None})

StudyNext == Next /\ Telemetry

StudySpec == StudyInit /\ [][StudyNext]_study

-----------------------------------------------------------------------------
(* compute_learner_model_measures, the three groups and who is resolved.   *)

GraspedEnd == {c \in Concepts : IsGrasped(concepts, c)}
Resolved(group) == group \cap GraspedEnd
RevisitedWhileShaky == revisited \cap everShaky
NeverRevisited == everShaky \ RevisitedWhileShaky

\* Section 5e contrasts revisited with never revisited concepts among those that
\* were ever shaky.  The contrast loses nothing: no revisit is of a concept the
\* trace never saw shaky, and a concept that is not resolved is shaky at the end
\* of the very turn that is read last, so none left the map or escaped telemetry.
ContrastIsComplete ==
    /\ RevisitedWhileShaky = revisited
    /\ everShaky \ Resolved(everShaky) =
          {c \in Concepts : concepts[c] # Absent /\ concepts[c].state # "grasped"}
=============================================================================
