------------------------------ MODULE MCHairpin ------------------------------
(***************************************************************************)
(* Times of ctx for Hairpin: none, one that ends in the STUN phase, one    *)
(* that ends while listening, one that outlasts the call.                  *)
(***************************************************************************)
EXTENDS Hairpin

MCNever == -1
MCCtxTimes == {MCNever, 1, 3, 8}
=============================================================================
