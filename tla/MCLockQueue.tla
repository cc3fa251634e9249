----------------------------- MODULE MCLockQueue -----------------------------
(* Constants for model-checking LockQueue. *)
EXTENDS LockQueue, TLC

CONSTANTS w1, w2, t1, t2, lk, o1

(* Two waiters and a call that does not wait, each with its own lease. *)
MCOwnLeases == w1 :> 1 @@ w2 :> 2 @@ t1 :> 3

(* The first waiter and the calls that do not wait share a client's lease. *)
MCSharedLease == w1 :> 1 @@ w2 :> 2 @@ t1 :> 1 @@ t2 :> 1
=============================================================================
