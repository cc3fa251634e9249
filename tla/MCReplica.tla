------------------------------ MODULE MCReplica ------------------------------
(***************************************************************************)
(* A small instance of Replica.                                            *)
(***************************************************************************)
EXTENDS Replica, TLC

CONSTANTS l1, o1, o2, r1, r2, n1, a1

Create(o, ttl, at) == [type |-> "CreateLease", owner |-> o, ttl |-> ttl, at |-> at]
Acquire(l, o, id) == [type |-> "AcquireLock", lock |-> l, owner |-> o, lease |-> id]
Release(l, id) == [type |-> "ReleaseLock", lock |-> l, lease |-> id]
Expire(id) == [type |-> "ExpireLease", lease |-> id]
Upsert(n, a) == [type |-> "UpsertEndpoint", node |-> n, addr |-> a]
Remove(n) == [type |-> "RemoveEndpoint", node |-> n]

MCOwners == {o1, o2}
MCNodes == {r1, r2}
MCSymmetry == Permutations(MCNodes)

(***************************************************************************)
(* Every command, with arguments that it takes and that it refuses: a TTL  *)
(* of 3 at time 4 is the last that fits MaxInt64 = 7.                      *)
(***************************************************************************)
MCInput ==
  {Create(o1, 3, 4), Create(o1, 4, 4), Create(o1, 0, 4),
   Acquire(l1, o1, 1), Acquire(l1, o2, 1), Release(l1, 1), Expire(1),
   Upsert(n1, a1), Upsert(n1, Empty), Remove(n1), Remove(Empty), [type |-> "RenewLease"]}
=============================================================================
