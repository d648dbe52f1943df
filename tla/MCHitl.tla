------------------------------- MODULE MCHitl -------------------------------
(***************************************************************************)
(* Instances of Hitl for TLC.                                              *)
(***************************************************************************)
EXTENDS Hitl, TLC

CONSTANTS t1, t2, t3, alice, bob, merge, deploy

TokenSymmetry == Permutations(Tokens)
=============================================================================
