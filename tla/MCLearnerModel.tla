--------------------------- MODULE MCLearnerModel ---------------------------
(***************************************************************************)
(* A small curriculum with the shape of the data-science pack: the second  *)
(* exercise builds on the first, one misconception sits on an exercise's   *)
(* own concept and one on a prerequisite concept that no exercise owns.    *)
(***************************************************************************)
EXTENDS LearnerStudy, TLC

CONSTANTS foundations, regression, grouping, linear, filtering, resetIndex, dropMissing

MCConcepts == {grouping, linear, filtering}
MCExercises == {foundations, regression}
MCMisconceptions == {resetIndex, dropMissing}
MCOwnConcept == (foundations :> grouping) @@ (regression :> linear)
MCMisconceptionOf == (resetIndex :> grouping) @@ (dropMissing :> filtering)
MCRelevant == (foundations :> {grouping, filtering}) @@ (regression :> {linear, grouping})
=============================================================================
