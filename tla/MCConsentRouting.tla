-------------------------- MODULE MCConsentRouting --------------------------
(***************************************************************************)
(* Instances of ConsentRouting.                                            *)
(***************************************************************************)
EXTENDS ConsentRouting, TLC

CONSTANTS ana, ben, north, south, t1, t2, t3

\* Two threads of one worker and one of another.
TwoWorkers == (t1 :> north) @@ (t2 :> north) @@ (t3 :> south)
\* Two threads of one worker.
OneWorker == (t1 :> north) @@ (t2 :> north)

\* Nothing tells the two learners apart, nor the two threads of one worker.
Alike == Permutations({ana, ben}) \cup Permutations({t1, t2})
=============================================================================
