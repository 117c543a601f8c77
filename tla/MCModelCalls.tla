---------------------------- MODULE MCModelCalls ----------------------------
(***************************************************************************)
(* Instances of ModelCalls.                                                *)
(***************************************************************************)
EXTENDS ModelCalls

CONSTANTS w1, w2

MCTokens == {1}
=============================================================================
