---------------------------- MODULE MCMembership ----------------------------
(***************************************************************************)
(* A small instance of Membership: n1 may come back under another gRPC     *)
(* address, n2 under another Raft address, or be given n1's.               *)
(***************************************************************************)
EXTENDS Membership, TLC

CONSTANTS n1, n2, r1, r2, r3, g1, g2, g3

MCNodes == {n1, n2}
MCAddresses == {g1, g2, g3}
MCFlags == n1 :> {[raft |-> r1, grpc |-> g1], [raft |-> r1, grpc |-> g3]}
           @@ n2 :> {[raft |-> r, grpc |-> g2] : r \in {r1, r2, r3}}
=============================================================================
