--------------------------- MODULE MCLeaseTracking ---------------------------
(* Constants for model-checking LeaseTracking. *)
EXTENDS LeaseTracking, TLC

CONSTANTS n1, n2, q1, q2, o1

Requests == Permutations({q1, q2})

MCSkew == n1 :> 0 @@ n2 :> 1
=============================================================================
