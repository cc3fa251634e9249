--------------------------------- MODULE FSM ---------------------------------
(***************************************************************************)
(* The deterministic state machine of internal/state/fsm.go and the        *)
(* snapshot codec of internal/state/raft_fsm.go, as operators on a state   *)
(* record.  Every replica applies the same commands in the same order with *)
(* these operators; time only enters through the timestamp a command       *)
(* carries.                                                                *)
(*                                                                         *)
(* Go maps are functions whose domain is the set of present keys.          *)
(***************************************************************************)
EXTENDS Integers, FiniteSets, Functions

CONSTANTS
  LockName,   \* lock names
  Owner,      \* client identities
  NodeID,     \* cluster node identities
  Address,    \* client-facing gRPC addresses
  Empty,      \* the empty string: no valid node id or address
  MaxInt64    \* the largest int64; TLC uses a small one to reach the overflow check

ASSUME FSMAssumption ==
  /\ Empty \notin NodeID
  /\ Empty \notin Address
  /\ MaxInt64 \in Nat \ {0}

EmptyMap == [k \in {} |-> k]
Put(m, k, v) == [x \in DOMAIN m \cup {k} |-> IF x = k THEN v ELSE m[x]]
Delete(m, S) == Restrict(m, DOMAIN m \ S)

Lock  == [owner: Owner, token: Nat, lease: Nat]
Lease == [owner: Owner, expiresAt: Int, ttl: Int]

(***************************************************************************)
(* The FSM struct, and NewFSM: lease ids start at 1, tokens at 1 (the      *)
(* counter is incremented before it is used).                              *)
(***************************************************************************)
NewFSM ==
  [locks          |-> EmptyMap,
   leases         |-> EmptyMap,
   endpoints      |-> EmptyMap,
   fencingCounter |-> 0,
   nextLeaseID    |-> 1]

(***************************************************************************)
(* What a handler does: the next state, the reply, and the lock names the  *)
(* lock-freed hook is called with.                                         *)
(***************************************************************************)
Fail(s, e) == [fsm |-> s, reply |-> [err |-> e], freed |-> {}]
Reply(s, r) == [fsm |-> s, reply |-> r, freed |-> {}]
Freed(s, names) == [fsm |-> s, reply |-> [err |-> "nil"], freed |-> names]
-----------------------------------------------------------------------------
(***************************************************************************)
(* Creation time plus TTL must be a representable int64.                   *)
(***************************************************************************)
LeaseExpiryFits(start, ttl) ==
  LET maxExpiryNanos == MaxInt64 - start
  IN  ttl > 0 /\ maxExpiryNanos > 0 /\ ttl <= maxExpiryNanos

(* mutant: the deadline may wrap around *)
CreateLeaseUnchecked(s, cmd) ==
  LET expiresAt == IF cmd.at + cmd.ttl > MaxInt64
                   THEN cmd.at + cmd.ttl - 2 * (MaxInt64 + 1) ELSE cmd.at + cmd.ttl
  IN  IF cmd.ttl <= 0 THEN Fail(s, "ErrInvalidLeaseTTL")
      ELSE IF cmd.at <= 0 THEN Fail(s, "ErrInvalidTimestamp")
      ELSE Reply([s EXCEPT
                    !.leases = Put(@, s.nextLeaseID,
                                   [owner |-> cmd.owner, expiresAt |-> expiresAt,
                                    ttl |-> cmd.ttl]),
                    !.nextLeaseID = @ + 1],
                 [err |-> "nil", lease |-> s.nextLeaseID])

ApplyCreateLease(s, cmd) ==
  IF cmd.ttl <= 0 THEN Fail(s, "ErrInvalidLeaseTTL")
  ELSE IF cmd.at <= 0 THEN Fail(s, "ErrInvalidTimestamp")
  ELSE IF ~LeaseExpiryFits(cmd.at, cmd.ttl) THEN Fail(s, "ErrInvalidLeaseTTL")
  ELSE Reply([s EXCEPT
                !.leases = Put(@, s.nextLeaseID,
                               [owner |-> cmd.owner, expiresAt |-> cmd.at + cmd.ttl,
                                ttl |-> cmd.ttl]),
                !.nextLeaseID = @ + 1],
             [err |-> "nil", lease |-> s.nextLeaseID])

(* mutant: a lock that is held is refused to its own lease as well *)
AcquireOnce(s, cmd) ==
  IF cmd.lease \notin DOMAIN s.leases THEN Fail(s, "ErrLeaseNotFound")
  ELSE IF s.leases[cmd.lease].owner # cmd.owner THEN Fail(s, "ErrNotLockOwner")
  ELSE IF cmd.lock \in DOMAIN s.locks THEN Fail(s, "ErrLockAlreadyHeld")
  ELSE Reply([s EXCEPT
                !.fencingCounter = @ + 1,
                !.locks = Put(@, cmd.lock,
                              [owner |-> cmd.owner, token |-> s.fencingCounter + 1,
                               lease |-> cmd.lease])],
             [err |-> "nil", token |-> s.fencingCounter + 1])

ApplyAcquireLock(s, cmd) ==
  IF cmd.lease \notin DOMAIN s.leases THEN Fail(s, "ErrLeaseNotFound")
  ELSE IF s.leases[cmd.lease].owner # cmd.owner THEN Fail(s, "ErrNotLockOwner")
  ELSE IF cmd.lock \in DOMAIN s.locks
    THEN IF s.locks[cmd.lock].lease = cmd.lease
         THEN Reply(s, [err |-> "nil", token |-> s.locks[cmd.lock].token])
         ELSE Fail(s, "ErrLockAlreadyHeld")
  ELSE Reply([s EXCEPT
                !.fencingCounter = @ + 1,
                !.locks = Put(@, cmd.lock,
                              [owner |-> cmd.owner, token |-> s.fencingCounter + 1,
                               lease |-> cmd.lease])],
             [err |-> "nil", token |-> s.fencingCounter + 1])

ApplyReleaseLock(s, cmd) ==
  IF cmd.lock \notin DOMAIN s.locks THEN Fail(s, "ErrLockNotFound")
  ELSE IF s.locks[cmd.lock].lease # cmd.lease THEN Fail(s, "ErrNotLockOwner")
  ELSE Freed([s EXCEPT !.locks = Delete(@, {cmd.lock})], {cmd.lock})

(* mutant: the locks of the lease's owner *)
LocksOfOwner(s, lease) == {n \in DOMAIN s.locks : s.locks[n].owner = s.leases[lease].owner}

LocksOf(s, lease) == {n \in DOMAIN s.locks : s.locks[n].lease = lease}

(* mutant: the expired lease keeps its locks *)
ExpireLeaseOnly(s, cmd) == Freed([s EXCEPT !.leases = Delete(@, {cmd.lease})], {})

ApplyExpireLease(s, cmd) ==
  IF cmd.lease \notin DOMAIN s.leases THEN Freed(s, {})
  ELSE Freed([s EXCEPT !.locks = Delete(@, LocksOf(s, cmd.lease)),
                       !.leases = Delete(@, {cmd.lease})],
             LocksOf(s, cmd.lease))

(* mutant: empty addresses are stored *)
UpsertAnyEndpoint(s, cmd) == Freed([s EXCEPT !.endpoints = Put(@, cmd.node, cmd.addr)], {})

ApplyUpsertEndpoint(s, cmd) ==
  IF cmd.node = Empty \/ cmd.addr = Empty THEN Fail(s, "ErrInvalidClusterNode")
  ELSE Freed([s EXCEPT !.endpoints = Put(@, cmd.node, cmd.addr)], {})

ApplyRemoveEndpoint(s, cmd) ==
  IF cmd.node = Empty THEN Fail(s, "ErrInvalidClusterNode")
  ELSE Freed([s EXCEPT !.endpoints = Delete(@, {cmd.node})], {})

(***************************************************************************)
(* The commands of command.proto, and FSM.Apply's dispatch.  RenewLease    *)
(* entries are left over from older versions and ignored.                  *)
(***************************************************************************)
Command ==
  [type: {"CreateLease"}, owner: Owner, ttl: Int, at: Int]
    \cup [type: {"AcquireLock"}, lock: LockName, owner: Owner, lease: Nat]
    \cup [type: {"ReleaseLock"}, lock: LockName, lease: Nat]
    \cup [type: {"ExpireLease"}, lease: Nat]
    \cup [type: {"UpsertEndpoint"}, node: NodeID \cup {Empty}, addr: Address \cup {Empty}]
    \cup [type: {"RemoveEndpoint"}, node: NodeID \cup {Empty}]
    \cup [type: {"RenewLease", "Unknown"}]

Apply(s, cmd) ==
  CASE cmd.type = "CreateLease"    -> ApplyCreateLease(s, cmd)
    [] cmd.type = "RenewLease"     -> Freed(s, {})
    [] cmd.type = "AcquireLock"    -> ApplyAcquireLock(s, cmd)
    [] cmd.type = "ReleaseLock"    -> ApplyReleaseLock(s, cmd)
    [] cmd.type = "ExpireLease"    -> ApplyExpireLease(s, cmd)
    [] cmd.type = "UpsertEndpoint" -> ApplyUpsertEndpoint(s, cmd)
    [] cmd.type = "RemoveEndpoint" -> ApplyRemoveEndpoint(s, cmd)
    [] OTHER                       -> Fail(s, "ErrUnknownCommand")
-----------------------------------------------------------------------------
(***************************************************************************)
(* Snapshots.  Snapshot copies the whole state; a snapshot written by a    *)
(* version that predates endpoint metadata lacks the endpoints field.      *)
(***************************************************************************)
Snapshot(s) ==
  [locks |-> s.locks, leases |-> s.leases, endpoints |-> s.endpoints,
   fencingCounter |-> s.fencingCounter, nextLeaseID |-> s.nextLeaseID]

LegacySnapshot(s) ==
  [locks |-> s.locks, leases |-> s.leases,
   fencingCounter |-> s.fencingCounter, nextLeaseID |-> s.nextLeaseID]

DecodedEndpoints(snap) ==
  IF "endpoints" \in DOMAIN snap THEN snap.endpoints ELSE EmptyMap

ValidSnapshot(snap) ==
  /\ \A id \in DOMAIN snap.leases :
        snap.leases[id].expiresAt > 0 /\ snap.leases[id].ttl > 0
  /\ \A n \in DOMAIN DecodedEndpoints(snap) :
        n # Empty /\ DecodedEndpoints(snap)[n] # Empty

(* mutant: the counters are recomputed from what is held *)
RestoreHeld(s, snap) ==
  [locks |-> snap.locks, leases |-> snap.leases, endpoints |-> DecodedEndpoints(snap),
   fencingCounter |-> Cardinality(DOMAIN snap.locks),
   nextLeaseID |-> Cardinality(DOMAIN snap.leases) + 1]

(***************************************************************************)
(* Restore leaves the FSM alone when the snapshot does not validate.       *)
(***************************************************************************)
Restore(s, snap) ==
  IF ValidSnapshot(snap)
  THEN [locks |-> snap.locks, leases |-> snap.leases,
        endpoints |-> DecodedEndpoints(snap),
        fencingCounter |-> snap.fencingCounter, nextLeaseID |-> snap.nextLeaseID]
  ELSE s
-----------------------------------------------------------------------------
(***************************************************************************)
(* Predicates on one state machine state.                                  *)
(***************************************************************************)
IsFSMState(s) ==
  /\ s = Snapshot(s)                      \* a record of exactly the five fields
  /\ DOMAIN s.locks \subseteq LockName
  /\ s.locks \in [DOMAIN s.locks -> Lock]
  /\ DOMAIN s.leases \subseteq Nat
  /\ s.leases \in [DOMAIN s.leases -> Lease]
  /\ DOMAIN s.endpoints \subseteq NodeID
  /\ s.endpoints \in [DOMAIN s.endpoints -> Address]
  /\ s.fencingCounter \in Nat
  /\ s.nextLeaseID \in Nat

LocksBacked(s) ==
  \A n \in DOMAIN s.locks :
    /\ s.locks[n].lease \in DOMAIN s.leases
    /\ s.leases[s.locks[n].lease].owner = s.locks[n].owner

TokensBounded(s) ==
  /\ \A n \in DOMAIN s.locks : s.locks[n].token \in 1..s.fencingCounter
  /\ \A n, m \in DOMAIN s.locks : s.locks[n].token = s.locks[m].token => n = m

LeaseIDsBounded(s) ==
  /\ s.nextLeaseID > 0
  /\ \A id \in DOMAIN s.leases : id \in 1..(s.nextLeaseID - 1)

DeadlinesFit(s) ==
  \A id \in DOMAIN s.leases :
    /\ s.leases[id].ttl > 0
    /\ s.leases[id].expiresAt \in 1..MaxInt64
=============================================================================
