------------------------------ MODULE MCWebmail ------------------------------
(***************************************************************************)
(* Instances of Webmail for TLC.                                           *)
(***************************************************************************)
EXTENDS Webmail, TLC

CONSTANTS r1, r2

RequestSymmetry == Permutations(Requests)
=============================================================================
