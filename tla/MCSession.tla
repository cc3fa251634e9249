------------------------------ MODULE MCSession ------------------------------
(***************************************************************************)
(* Session for TLC: a TTL of 12 units, so that TTL/3 and TTL/4 are exact   *)
(* and differ.                                                             *)
(***************************************************************************)
EXTENDS Session, TLC

CONSTANTS s1, s2

MCSymmetry == Permutations({s1, s2})
=============================================================================
