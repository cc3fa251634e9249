------------------------------ MODULE FSMProofs ------------------------------
(***************************************************************************)
(* What one command does to one state machine: lemmas about FSM, for every *)
(* set of locks, owners and nodes and every command.                       *)
(***************************************************************************)
EXTENDS FSM, TLAPS

(***************************************************************************)
(* The states the FSM can be in: well typed, locks under leases of the     *)
(* same owner, counters ahead of everything they have named, deadlines     *)
(* that fit an int64.                                                      *)
(***************************************************************************)
GoodState(s) ==
  /\ IsFSMState(s)
  /\ LocksBacked(s)
  /\ TokensBounded(s)
  /\ LeaseIDsBounded(s)
  /\ DeadlinesFit(s)

(***************************************************************************)
(* FSM.Apply runs the handler of the command's type.                       *)
(***************************************************************************)
LEMMA ApplyDispatch ==
  ASSUME NEW s, NEW cmd
  PROVE  /\ cmd.type = "CreateLease" => Apply(s, cmd) = ApplyCreateLease(s, cmd)
         /\ cmd.type = "AcquireLock" => Apply(s, cmd) = ApplyAcquireLock(s, cmd)
         /\ cmd.type = "ReleaseLock" => Apply(s, cmd) = ApplyReleaseLock(s, cmd)
         /\ cmd.type = "ExpireLease" => Apply(s, cmd) = ApplyExpireLease(s, cmd)
         /\ cmd.type = "UpsertEndpoint" => Apply(s, cmd) = ApplyUpsertEndpoint(s, cmd)
         /\ cmd.type = "RemoveEndpoint" => Apply(s, cmd) = ApplyRemoveEndpoint(s, cmd)
         /\ cmd.type = "RenewLease" => Apply(s, cmd) = Freed(s, {})
         /\ cmd.type = "Unknown" => Apply(s, cmd) = Fail(s, "ErrUnknownCommand")
  BY DEF Apply

(***************************************************************************)
(* A new FSM is in a good state.                                           *)
(***************************************************************************)
LEMMA NewFSMGood == GoodState(NewFSM)
  BY FSMAssumption
  DEF GoodState, NewFSM, EmptyMap, IsFSMState, Snapshot, LocksBacked, TokensBounded,
      LeaseIDsBounded, DeadlinesFit

(***************************************************************************)
(* applyCreateLease keeps a state good: the id it assigns is new and the   *)
(* deadline it computes fits.                                              *)
(***************************************************************************)
LEMMA CreateLeaseGood ==
  ASSUME NEW s, GoodState(s),
         NEW cmd \in [type: {"CreateLease"}, owner: Owner, ttl: Int, at: Int]
  PROVE  GoodState(ApplyCreateLease(s, cmd).fsm)
  <1> DEFINE t == ApplyCreateLease(s, cmd).fsm
  <1>1. CASE t = s
    BY <1>1
  <1>2. CASE t # s
    <2>1. /\ cmd.ttl > 0 /\ cmd.at > 0 /\ LeaseExpiryFits(cmd.at, cmd.ttl)
          /\ t = [s EXCEPT
                    !.leases = Put(s.leases, s.nextLeaseID,
                                   [owner |-> cmd.owner, expiresAt |-> cmd.at + cmd.ttl,
                                    ttl |-> cmd.ttl]),
                    !.nextLeaseID = s.nextLeaseID + 1]
      BY <1>2 DEF ApplyCreateLease, Fail, Reply
    <2>2. s = Snapshot(s) /\ s.nextLeaseID \in Nat
      BY DEF GoodState, IsFSMState
    <2> DEFINE id == s.nextLeaseID
               new == [owner |-> cmd.owner, expiresAt |-> cmd.at + cmd.ttl, ttl |-> cmd.ttl]
    <2>3. /\ t.locks = s.locks
          /\ t.endpoints = s.endpoints
          /\ t.fencingCounter = s.fencingCounter
          /\ t.leases = Put(s.leases, id, new)
          /\ t.nextLeaseID = id + 1
          /\ t = Snapshot(t)
      BY ZenonT(60), <2>1, <2>2 DEF Snapshot
    <2>4. /\ DOMAIN t.leases = DOMAIN s.leases \cup {id}
          /\ t.leases[id] = new
          /\ \A k \in DOMAIN s.leases : k # id => t.leases[k] = s.leases[k]
      BY <2>3 DEF Put
    <2>5. id \notin DOMAIN s.leases
      BY <2>2 DEF GoodState, LeaseIDsBounded
    <2>6. new \in Lease /\ new.ttl > 0 /\ new.expiresAt \in 1..MaxInt64
      BY <2>1, FSMAssumption DEF Lease, LeaseExpiryFits
    <2>7. IsFSMState(t)
      <3>1. t.leases \in [DOMAIN t.leases -> Lease]
        BY <2>3, <2>4, <2>5, <2>6 DEF GoodState, IsFSMState, Put
      <3> QED
        BY <2>2, <2>3, <2>4, <3>1 DEF GoodState, IsFSMState
    <2>8. LocksBacked(t) /\ TokensBounded(t)
      BY <2>3, <2>4, <2>5 DEF GoodState, LocksBacked, TokensBounded
    <2>9. LeaseIDsBounded(t)
      BY <2>2, <2>3, <2>4 DEF GoodState, LeaseIDsBounded
    <2>10. DeadlinesFit(t)
      BY <2>4, <2>6 DEF GoodState, DeadlinesFit
    <2> QED
      BY <2>7, <2>8, <2>9, <2>10 DEF GoodState
  <1> QED
    BY <1>1, <1>2

(***************************************************************************)
(* applyAcquireLock keeps a state good: a new lock is bound to a lease of  *)
(* the same owner and its token is larger than any held one.               *)
(***************************************************************************)
LEMMA AcquireLockGood ==
  ASSUME NEW s, GoodState(s),
         NEW cmd \in [type: {"AcquireLock"}, lock: LockName, owner: Owner, lease: Nat]
  PROVE  GoodState(ApplyAcquireLock(s, cmd).fsm)
  <1> DEFINE t == ApplyAcquireLock(s, cmd).fsm
             new == [owner |-> cmd.owner, token |-> s.fencingCounter + 1,
                     lease |-> cmd.lease]
  <1>1. CASE t = s
    BY <1>1
  <1>2. CASE t # s
    <2>1. /\ cmd.lease \in DOMAIN s.leases
          /\ s.leases[cmd.lease].owner = cmd.owner
          /\ cmd.lock \notin DOMAIN s.locks
          /\ t = [s EXCEPT !.fencingCounter = s.fencingCounter + 1,
                           !.locks = Put(s.locks, cmd.lock, new)]
      BY <1>2 DEF ApplyAcquireLock, Fail, Reply
    <2>2. s = Snapshot(s) /\ s.fencingCounter \in Nat
      BY DEF GoodState, IsFSMState
    <2>3. /\ t.leases = s.leases
          /\ t.endpoints = s.endpoints
          /\ t.nextLeaseID = s.nextLeaseID
          /\ t.fencingCounter = s.fencingCounter + 1
          /\ t.locks = Put(s.locks, cmd.lock, new)
          /\ t = Snapshot(t)
      BY ZenonT(60), <2>1, <2>2 DEF Snapshot
    <2>4. /\ DOMAIN t.locks = DOMAIN s.locks \cup {cmd.lock}
          /\ t.locks[cmd.lock] = new
          /\ \A n \in DOMAIN s.locks : t.locks[n] = s.locks[n]
      BY <2>1, <2>3 DEF Put
    <2>5. new \in Lock
      BY <2>2 DEF Lock
    <2>6. IsFSMState(t)
      <3>1. t.locks \in [DOMAIN t.locks -> Lock]
        BY <2>3, <2>4, <2>5 DEF GoodState, IsFSMState, Put
      <3> QED
        BY <2>2, <2>3, <2>4, <3>1 DEF GoodState, IsFSMState
    <2>7. LocksBacked(t)
      BY <2>1, <2>3, <2>4 DEF GoodState, LocksBacked
    <2>8. TokensBounded(t)
      BY <2>2, <2>3, <2>4 DEF GoodState, TokensBounded
    <2>9. LeaseIDsBounded(t) /\ DeadlinesFit(t)
      BY <2>3 DEF GoodState, LeaseIDsBounded, DeadlinesFit
    <2> QED
      BY <2>6, <2>7, <2>8, <2>9 DEF GoodState
  <1> QED
    BY <1>1, <1>2

(***************************************************************************)
(* applyReleaseLock and applyExpireLease keep a state good: they only take *)
(* locks away, and expiry takes away every lock of the lease it removes.   *)
(***************************************************************************)
LEMMA DeleteGood ==
  ASSUME NEW s, GoodState(s), NEW L, NEW E, NEW t,
         \A n \in DOMAIN s.locks : s.locks[n].lease \in E => n \in L,
         t = [s EXCEPT !.locks = Delete(s.locks, L), !.leases = Delete(s.leases, E)]
  PROVE  GoodState(t)
  <1>1. s = Snapshot(s)
    BY DEF GoodState, IsFSMState
  <1>2. /\ t.locks = Delete(s.locks, L)
        /\ t.leases = Delete(s.leases, E)
        /\ t.endpoints = s.endpoints
        /\ t.nextLeaseID = s.nextLeaseID
        /\ t.fencingCounter = s.fencingCounter
        /\ t = Snapshot(t)
    BY ZenonT(60), <1>1 DEF Snapshot
  <1>3. /\ DOMAIN t.locks = DOMAIN s.locks \ L
        /\ DOMAIN t.leases = DOMAIN s.leases \ E
        /\ \A n \in DOMAIN t.locks : t.locks[n] = s.locks[n]
        /\ \A id \in DOMAIN t.leases : t.leases[id] = s.leases[id]
    BY <1>2 DEF Delete, Restrict
  <1>4. IsFSMState(t)
    <2>1. t.locks \in [DOMAIN t.locks -> Lock]
      BY <1>2, <1>3 DEF GoodState, IsFSMState, Delete, Restrict
    <2>2. t.leases \in [DOMAIN t.leases -> Lease]
      BY <1>2, <1>3 DEF GoodState, IsFSMState, Delete, Restrict
    <2> QED
      BY <1>2, <1>3, <2>1, <2>2 DEF GoodState, IsFSMState
  <1>5. LocksBacked(t)
    BY <1>3 DEF GoodState, LocksBacked
  <1>6. TokensBounded(t)
    BY <1>2, <1>3 DEF GoodState, TokensBounded
  <1>7. LeaseIDsBounded(t)
    BY <1>2, <1>3 DEF GoodState, LeaseIDsBounded
  <1>8. DeadlinesFit(t)
    BY <1>3 DEF GoodState, DeadlinesFit
  <1> QED
    BY <1>4, <1>5, <1>6, <1>7, <1>8 DEF GoodState

(***************************************************************************)
(* A release keeps a state good.                                           *)
(***************************************************************************)
LEMMA ReleaseLockGood ==
  ASSUME NEW s, GoodState(s), NEW cmd
  PROVE  GoodState(ApplyReleaseLock(s, cmd).fsm)
  <1> DEFINE t == ApplyReleaseLock(s, cmd).fsm
  <1>1. CASE t = s
    BY <1>1
  <1>2. CASE t # s
    <2>1. t = [s EXCEPT !.locks = Delete(s.locks, {cmd.lock})]
      BY <1>2 DEF ApplyReleaseLock, Fail, Freed
    <2>2. PICK none : none = {}
      BY ZenonT(60)
    <2>3. Delete(s.leases, none) = s.leases
      BY <2>2 DEF Delete, Restrict, GoodState, IsFSMState
    <2>4. t = [s EXCEPT !.locks = Delete(s.locks, {cmd.lock}),
                        !.leases = Delete(s.leases, none)]
      BY ZenonT(60), <2>1, <2>3 DEF GoodState, IsFSMState, Snapshot
    <2>5. \A n \in DOMAIN s.locks : s.locks[n].lease \in none => n \in {cmd.lock}
      BY <2>2
    <2> QED
      BY <2>4, <2>5, DeleteGood, Zenon
  <1> QED
    BY <1>1, <1>2

(***************************************************************************)
(* An expiry keeps a state good.                                           *)
(***************************************************************************)
LEMMA ExpireLeaseGood ==
  ASSUME NEW s, GoodState(s), NEW cmd
  PROVE  GoodState(ApplyExpireLease(s, cmd).fsm)
  <1> DEFINE t == ApplyExpireLease(s, cmd).fsm
  <1>1. CASE t = s
    BY <1>1
  <1>2. CASE t # s
    <2>1. t = [s EXCEPT !.locks = Delete(s.locks, LocksOf(s, cmd.lease)),
                        !.leases = Delete(s.leases, {cmd.lease})]
      BY <1>2 DEF ApplyExpireLease, Freed
    <2>2. \A n \in DOMAIN s.locks : s.locks[n].lease \in {cmd.lease} => n \in LocksOf(s, cmd.lease)
      BY DEF LocksOf
    <2> QED
      BY <2>1, <2>2, DeleteGood, Zenon
  <1> QED
    BY <1>1, <1>2

(***************************************************************************)
(* The endpoint handlers keep a state good: they store no empty string.    *)
(***************************************************************************)
LEMMA EndpointsGood ==
  ASSUME NEW s, GoodState(s), NEW t, NEW m,
         DOMAIN m \subseteq NodeID, m \in [DOMAIN m -> Address],
         t = [s EXCEPT !.endpoints = m]
  PROVE  GoodState(t)
  <1>1. s = Snapshot(s)
    BY DEF GoodState, IsFSMState
  <1>2. /\ t.locks = s.locks
        /\ t.leases = s.leases
        /\ t.endpoints = m
        /\ t.nextLeaseID = s.nextLeaseID
        /\ t.fencingCounter = s.fencingCounter
        /\ t = Snapshot(t)
    BY <1>1 DEF Snapshot
  <1> QED
    BY <1>2 DEF GoodState, IsFSMState, LocksBacked, TokensBounded, LeaseIDsBounded,
                DeadlinesFit

(***************************************************************************)
(* An endpoint that is stored has a name and an address.                   *)
(***************************************************************************)
LEMMA UpsertEndpointGood ==
  ASSUME NEW s, GoodState(s),
         NEW cmd \in [type: {"UpsertEndpoint"}, node: NodeID \cup {Empty},
                      addr: Address \cup {Empty}]
  PROVE  GoodState(ApplyUpsertEndpoint(s, cmd).fsm)
  <1> DEFINE t == ApplyUpsertEndpoint(s, cmd).fsm
             m == Put(s.endpoints, cmd.node, cmd.addr)
  <1>1. CASE t = s
    BY <1>1
  <1>2. CASE t # s
    <2>1. /\ cmd.node \in NodeID /\ cmd.addr \in Address
          /\ t = [s EXCEPT !.endpoints = m]
      BY <1>2 DEF ApplyUpsertEndpoint, Fail, Freed
    <2>2. DOMAIN m \subseteq NodeID /\ m \in [DOMAIN m -> Address]
      BY <2>1 DEF GoodState, IsFSMState, Put
    <2> HIDE DEF m, t
    <2>3. GoodState(t)
      BY <2>1, <2>2, EndpointsGood
    <2> QED
      BY <2>3 DEF t
  <1> QED
    BY <1>1, <1>2

(***************************************************************************)
(* Removing an endpoint keeps a state good.                                *)
(***************************************************************************)
LEMMA RemoveEndpointGood ==
  ASSUME NEW s, GoodState(s),
         NEW cmd \in [type: {"RemoveEndpoint"}, node: NodeID \cup {Empty}]
  PROVE  GoodState(ApplyRemoveEndpoint(s, cmd).fsm)
  <1> DEFINE t == ApplyRemoveEndpoint(s, cmd).fsm
             m == Delete(s.endpoints, {cmd.node})
  <1>1. CASE t = s
    BY <1>1
  <1>2. CASE t # s
    <2>1. t = [s EXCEPT !.endpoints = m]
      BY <1>2 DEF ApplyRemoveEndpoint, Fail, Freed
    <2>2. DOMAIN m \subseteq NodeID /\ m \in [DOMAIN m -> Address]
      BY DEF GoodState, IsFSMState, Delete, Restrict
    <2> HIDE DEF m, t
    <2>3. GoodState(t)
      BY <2>1, <2>2, EndpointsGood
    <2> QED
      BY <2>3 DEF t
  <1> QED
    BY <1>1, <1>2

(***************************************************************************)
(* Every command keeps a state good.                                       *)
(***************************************************************************)
LEMMA ApplyGood ==
  ASSUME NEW s, GoodState(s), NEW cmd \in Command
  PROVE  GoodState(Apply(s, cmd).fsm)
  <1>1. CASE cmd \in [type: {"CreateLease"}, owner: Owner, ttl: Int, at: Int]
    BY <1>1, ApplyDispatch, CreateLeaseGood
  <1>2. CASE cmd \in [type: {"AcquireLock"}, lock: LockName, owner: Owner, lease: Nat]
    BY <1>2, ApplyDispatch, AcquireLockGood
  <1>3. CASE cmd \in [type: {"ReleaseLock"}, lock: LockName, lease: Nat]
    BY <1>3, ApplyDispatch, ReleaseLockGood
  <1>4. CASE cmd \in [type: {"ExpireLease"}, lease: Nat]
    BY <1>4, ApplyDispatch, ExpireLeaseGood
  <1>5. CASE cmd \in [type: {"UpsertEndpoint"}, node: NodeID \cup {Empty},
                      addr: Address \cup {Empty}]
    BY <1>5, ApplyDispatch, UpsertEndpointGood
  <1>6. CASE cmd \in [type: {"RemoveEndpoint"}, node: NodeID \cup {Empty}]
    BY <1>6, ApplyDispatch, RemoveEndpointGood
  <1>7. CASE cmd \in [type: {"RenewLease", "Unknown"}]
    <2>1. cmd.type = "RenewLease" \/ cmd.type = "Unknown"
      BY <1>7
    <2>2. Apply(s, cmd).fsm = s
      BY <2>1, ApplyDispatch DEF Freed, Fail
    <2> QED
      BY <2>2
  <1> QED
    BY <1>1, <1>2, <1>3, <1>4, <1>5, <1>6, <1>7 DEF Command

(***************************************************************************)
(* What a command may change: counters only grow, a lock that is there     *)
(* before and after is the same acquisition, a new one carries the next    *)
(* token, and only the endpoint commands touch endpoints.                  *)
(***************************************************************************)
StepOK(s, t) ==
  /\ s.fencingCounter <= t.fencingCounter
  /\ s.nextLeaseID <= t.nextLeaseID
  /\ \A n \in DOMAIN t.locks :
        \/ n \in DOMAIN s.locks /\ t.locks[n] = s.locks[n]
        \/ n \notin DOMAIN s.locks /\ t.locks[n].token = s.fencingCounter + 1

(***************************************************************************)
(* Every command is such a step.                                           *)
(***************************************************************************)
LEMMA ApplyStep ==
  ASSUME NEW s, GoodState(s), NEW cmd \in Command
  PROVE  /\ StepOK(s, Apply(s, cmd).fsm)
         /\ cmd.type \notin {"UpsertEndpoint", "RemoveEndpoint"} =>
              Apply(s, cmd).fsm.endpoints = s.endpoints
  <1> DEFINE t == Apply(s, cmd).fsm
  <1>0. s = Snapshot(s) /\ s.fencingCounter \in Nat /\ s.nextLeaseID \in Nat
    BY DEF GoodState, IsFSMState
  <1>1. CASE t = s
    BY <1>0, <1>1 DEF StepOK
  <1>2. CASE cmd.type = "CreateLease" /\ t # s
    <2> DEFINE v == Put(s.leases, s.nextLeaseID,
                        [owner |-> cmd.owner, expiresAt |-> cmd.at + cmd.ttl,
                         ttl |-> cmd.ttl])
    <2>0. t = ApplyCreateLease(s, cmd).fsm
      BY <1>2, ApplyDispatch
    <2>1. t = [s EXCEPT !.leases = v, !.nextLeaseID = s.nextLeaseID + 1]
      BY <1>2, <2>0 DEF ApplyCreateLease, Fail, Reply
    <2>2. /\ t.locks = s.locks /\ t.endpoints = s.endpoints
          /\ t.fencingCounter = s.fencingCounter /\ t.nextLeaseID = s.nextLeaseID + 1
      BY <1>0, <2>1 DEF Snapshot
    <2> QED
      BY <1>0, <2>2 DEF StepOK
  <1>3. CASE cmd.type = "AcquireLock" /\ t # s
    <2> DEFINE new == [owner |-> cmd.owner, token |-> s.fencingCounter + 1,
                       lease |-> cmd.lease]
    <2>0. t = ApplyAcquireLock(s, cmd).fsm
      BY <1>3, ApplyDispatch
    <2>1. /\ cmd.lock \notin DOMAIN s.locks
          /\ t = [s EXCEPT !.fencingCounter = s.fencingCounter + 1,
                           !.locks = Put(s.locks, cmd.lock, new)]
      BY <1>3, <2>0 DEF ApplyAcquireLock, Fail, Reply
    <2>2. /\ t.locks = Put(s.locks, cmd.lock, new) /\ t.endpoints = s.endpoints
          /\ t.fencingCounter = s.fencingCounter + 1 /\ t.nextLeaseID = s.nextLeaseID
      BY <1>0, <2>1 DEF Snapshot
    <2>3. /\ DOMAIN t.locks = DOMAIN s.locks \cup {cmd.lock}
          /\ t.locks[cmd.lock] = new
          /\ \A n \in DOMAIN s.locks : t.locks[n] = s.locks[n]
      BY <2>1, <2>2 DEF Put
    <2> QED
      BY <1>0, <2>1, <2>2, <2>3 DEF StepOK
  <1>4. CASE cmd.type \in {"ReleaseLock", "ExpireLease"} /\ t # s
    <2>1. PICK L, v : t = [s EXCEPT !.locks = Delete(s.locks, L), !.leases = v]
      <3>1. CASE cmd.type = "ReleaseLock"
        <4>0. t = ApplyReleaseLock(s, cmd).fsm
          BY <3>1, ApplyDispatch
        <4>1. t = [s EXCEPT !.locks = Delete(s.locks, {cmd.lock})]
          BY <1>4, <4>0 DEF ApplyReleaseLock, Fail, Freed
        <4>2. t = [s EXCEPT !.locks = Delete(s.locks, {cmd.lock}), !.leases = s.leases]
          BY ZenonT(60), <1>0, <4>1 DEF Snapshot
        <4> QED
          BY ZenonT(60), <4>2
      <3>2. CASE cmd.type = "ExpireLease"
        <4>1. t = ApplyExpireLease(s, cmd).fsm
          BY <3>2, ApplyDispatch
        <4>2. t = [s EXCEPT !.locks = Delete(s.locks, LocksOf(s, cmd.lease)),
                            !.leases = Delete(s.leases, {cmd.lease})]
          BY <1>4, <4>1 DEF ApplyExpireLease, Freed
        <4> QED
          BY ZenonT(60), <4>2
      <3> QED
        BY ZenonT(60), <1>4, <3>1, <3>2
    <2>2. /\ t.locks = Delete(s.locks, L) /\ t.endpoints = s.endpoints
          /\ t.fencingCounter = s.fencingCounter /\ t.nextLeaseID = s.nextLeaseID
      BY <1>0, <2>1 DEF Snapshot
    <2>3. \A n \in DOMAIN t.locks : n \in DOMAIN s.locks /\ t.locks[n] = s.locks[n]
      BY <2>2 DEF Delete, Restrict
    <2> QED
      BY SMTT(30), <1>0, <2>2, <2>3 DEF StepOK
  <1>5. CASE cmd.type \in {"UpsertEndpoint", "RemoveEndpoint"} /\ t # s
    <2>1. PICK m : t = [s EXCEPT !.endpoints = m]
      <3>1. CASE cmd.type = "UpsertEndpoint"
        <4>1. t = ApplyUpsertEndpoint(s, cmd).fsm
          BY <3>1, ApplyDispatch
        <4>2. t = [s EXCEPT !.endpoints = Put(s.endpoints, cmd.node, cmd.addr)]
          BY <1>5, <4>1 DEF ApplyUpsertEndpoint, Fail, Freed
        <4> QED
          BY ZenonT(60), <4>2
      <3>2. CASE cmd.type = "RemoveEndpoint"
        <4>1. t = ApplyRemoveEndpoint(s, cmd).fsm
          BY <3>2, ApplyDispatch
        <4>2. t = [s EXCEPT !.endpoints = Delete(s.endpoints, {cmd.node})]
          BY <1>5, <4>1 DEF ApplyRemoveEndpoint, Fail, Freed
        <4> QED
          BY ZenonT(60), <4>2
      <3> QED
        BY ZenonT(60), <1>5, <3>1, <3>2
    <2>2. /\ t.locks = s.locks
          /\ t.fencingCounter = s.fencingCounter /\ t.nextLeaseID = s.nextLeaseID
      BY <1>0, <2>1 DEF Snapshot
    <2> QED
      BY <1>0, <1>5, <2>2 DEF StepOK
  <1>6. CASE cmd.type \in {"RenewLease", "Unknown"}
    <2>1. t = s
      BY <1>6, ApplyDispatch DEF Freed, Fail
    <2> QED
      BY <1>0, <2>1 DEF StepOK
  <1> QED
    BY <1>1, <1>2, <1>3, <1>4, <1>5, <1>6 DEF Command

(***************************************************************************)
(* What a successful reply says: an AcquireLock reply carries the token of *)
(* the lock as it then stands, held by the command's lease; a CreateLease  *)
(* reply carries the id that was next.                                     *)
(***************************************************************************)
LEMMA ReplyTrue ==
  ASSUME NEW s, GoodState(s), NEW cmd \in Command, Apply(s, cmd).reply.err = "nil"
  PROVE  /\ cmd.type = "AcquireLock" =>
              /\ cmd.lock \in DOMAIN Apply(s, cmd).fsm.locks
              /\ Apply(s, cmd).fsm.locks[cmd.lock].token = Apply(s, cmd).reply.token
              /\ Apply(s, cmd).fsm.locks[cmd.lock].lease = cmd.lease
         /\ cmd.type = "CreateLease" =>
              /\ Apply(s, cmd).reply.lease = s.nextLeaseID
              /\ Apply(s, cmd).fsm.nextLeaseID = s.nextLeaseID + 1
  <1>0. s = Snapshot(s)
    BY DEF GoodState, IsFSMState
  <1>1. ASSUME cmd.type = "AcquireLock"
        PROVE  /\ cmd.lock \in DOMAIN Apply(s, cmd).fsm.locks
               /\ Apply(s, cmd).fsm.locks[cmd.lock].token = Apply(s, cmd).reply.token
               /\ Apply(s, cmd).fsm.locks[cmd.lock].lease = cmd.lease
    <2>0. ApplyAcquireLock(s, cmd).reply.err = "nil"
      BY <1>1, ApplyDispatch
    <2> DEFINE a == ApplyAcquireLock(s, cmd)
               new == [owner |-> cmd.owner, token |-> s.fencingCounter + 1,
                       lease |-> cmd.lease]
    <2>1. Apply(s, cmd) = a
      BY <1>1, ApplyDispatch
    <2>2. \/ /\ cmd.lock \in DOMAIN s.locks /\ s.locks[cmd.lock].lease = cmd.lease
             /\ a.fsm = s /\ a.reply.token = s.locks[cmd.lock].token
          \/ /\ a.fsm = [s EXCEPT !.fencingCounter = s.fencingCounter + 1,
                                  !.locks = Put(s.locks, cmd.lock, new)]
             /\ a.reply.token = s.fencingCounter + 1
      BY <2>0 DEF ApplyAcquireLock, Fail, Reply
    <2> HIDE DEF a
    <2>3. CASE /\ cmd.lock \in DOMAIN s.locks /\ s.locks[cmd.lock].lease = cmd.lease
               /\ a.fsm = s /\ a.reply.token = s.locks[cmd.lock].token
      BY <2>1, <2>3
    <2>4. CASE /\ a.fsm = [s EXCEPT !.fencingCounter = s.fencingCounter + 1,
                                    !.locks = Put(s.locks, cmd.lock, new)]
               /\ a.reply.token = s.fencingCounter + 1
      <3>1. a.fsm.locks = Put(s.locks, cmd.lock, new)
        BY <1>0, <2>4 DEF Snapshot
      <3>2. cmd.lock \in DOMAIN a.fsm.locks /\ a.fsm.locks[cmd.lock] = new
        BY <3>1 DEF Put
      <3> QED
        BY <2>1, <2>4, <3>2
    <2> QED
      BY <2>2, <2>3, <2>4
  <1>2. ASSUME cmd.type = "CreateLease"
        PROVE  /\ Apply(s, cmd).reply.lease = s.nextLeaseID
               /\ Apply(s, cmd).fsm.nextLeaseID = s.nextLeaseID + 1
    <2> DEFINE a == ApplyCreateLease(s, cmd)
               v == Put(s.leases, s.nextLeaseID,
                        [owner |-> cmd.owner, expiresAt |-> cmd.at + cmd.ttl,
                         ttl |-> cmd.ttl])
    <2>0. ApplyCreateLease(s, cmd).reply.err = "nil"
      BY <1>2, ApplyDispatch
    <2>1. Apply(s, cmd) = a
      BY <1>2, ApplyDispatch
    <2>2. /\ a.fsm = [s EXCEPT !.leases = v, !.nextLeaseID = s.nextLeaseID + 1]
          /\ a.reply.lease = s.nextLeaseID
      BY <2>0 DEF ApplyCreateLease, Fail, Reply
    <2> HIDE DEF a, v
    <2>3. a.fsm.nextLeaseID = s.nextLeaseID + 1
      BY <1>0, <2>2 DEF Snapshot
    <2> QED
      BY <2>1, <2>2, <2>3
  <1> QED
    BY <1>1, <1>2

(***************************************************************************)
(* A good state comes back from its snapshot unchanged, and from one of    *)
(* the older format too as long as it has no endpoints.                    *)
(***************************************************************************)
LEMMA RestoreExact ==
  ASSUME NEW s, GoodState(s), NEW u, NEW data,
         \/ data = Snapshot(s)
         \/ data = LegacySnapshot(s) /\ s.endpoints = EmptyMap
  PROVE  ValidSnapshot(data) /\ Restore(u, data) = s
  <1>0. s = Snapshot(s)
    BY DEF GoodState, IsFSMState
  <1>1. /\ data.locks = s.locks /\ data.leases = s.leases
        /\ data.fencingCounter = s.fencingCounter /\ data.nextLeaseID = s.nextLeaseID
    BY DEF Snapshot, LegacySnapshot
  <1>2. DecodedEndpoints(data) = s.endpoints
    BY DEF DecodedEndpoints, Snapshot, LegacySnapshot
  <1>3. ValidSnapshot(data)
    <2>1. \A id \in DOMAIN data.leases :
            data.leases[id].expiresAt > 0 /\ data.leases[id].ttl > 0
      BY <1>1, FSMAssumption DEF GoodState, DeadlinesFit
    <2>2. \A n \in DOMAIN s.endpoints : n # Empty /\ s.endpoints[n] # Empty
      BY FSMAssumption DEF GoodState, IsFSMState
    <2> QED
      BY <1>2, <2>1, <2>2 DEF ValidSnapshot
  <1>4. Restore(u, data) = Snapshot(s)
    BY <1>1, <1>2, <1>3 DEF Restore, Snapshot
  <1> QED
    BY <1>0, <1>3, <1>4
=============================================================================
