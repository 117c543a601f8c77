--------------------------- MODULE MCLearnerStore ---------------------------
(***************************************************************************)
(* Instances of LearnerStore.                                              *)
(***************************************************************************)
EXTENDS EphemeralStore, TLC

CONSTANTS t1, t2

MCRequests == {<<op>> : op \in Operations} \cup {<<"overlay", "turn">>}
Alike == Permutations(Threads)
=============================================================================
