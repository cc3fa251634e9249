--------------------------- MODULE MCFencedWrites ---------------------------
(***************************************************************************)
(* One replica that crashes, and a lock that changes hands between two     *)
(* leases.                                                                 *)
(***************************************************************************)
EXTENDS FencedWrites

CONSTANTS l1, o1, r1

Create(o) == [type |-> "CreateLease", owner |-> o, ttl |-> 2, at |-> 3]
Acquire(l, o, id) == [type |-> "AcquireLock", lock |-> l, owner |-> o, lease |-> id]
Release(l, id) == [type |-> "ReleaseLock", lock |-> l, lease |-> id]
Expire(id) == [type |-> "ExpireLease", lease |-> id]

MCInput ==
  {Create(o1), Acquire(l1, o1, 1), Acquire(l1, o1, 2), Release(l1, 1), Expire(1)}
=============================================================================
