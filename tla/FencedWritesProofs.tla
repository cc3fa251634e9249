------------------------- MODULE FencedWritesProofs -------------------------
(***************************************************************************)
(* Replica implements FencedLock, and the guarded row sees one writer per  *)
(* token: for every set of replicas, locks, owners and commands.           *)
(***************************************************************************)
EXTENDS FencedWrites, ReplicaProofs

-----------------------------------------------------------------------------
(***************************************************************************)
(* One command is one step of the abstract lock, or none.                  *)
(***************************************************************************)
SameLock(s, t) == HeldIn(t) = HeldIn(s) /\ HoldsIn(t) = HoldsIn(s)
                  /\ t.fencingCounter = s.fencingCounter
SameLeases(s, t) == OwnersIn(t) = OwnersIn(s) /\ t.nextLeaseID = s.nextLeaseID

Opens(s, t) ==
  /\ SameLock(s, t)
  /\ t.nextLeaseID = s.nextLeaseID + 1
  /\ \E o \in Owner : OwnersIn(t) = Abstract!With(OwnersIn(s), s.nextLeaseID, o)

Mints(s, t) ==
  /\ SameLeases(s, t)
  /\ t.fencingCounter = s.fencingCounter + 1
  /\ \E l \in LockName \ DOMAIN HeldIn(s), id \in DOMAIN OwnersIn(s) :
       /\ HeldIn(t) = Abstract!With(HeldIn(s), l,
                                    [session |-> id, token |-> s.fencingCounter + 1])
       /\ HoldsIn(t) = HoldsIn(s) \cup
            {[lock |-> l, session |-> id, token |-> s.fencingCounter + 1]}

Frees(s, t) ==
  /\ SameLeases(s, t)
  /\ t.fencingCounter = s.fencingCounter
  /\ HoldsIn(t) \subseteq HoldsIn(s)
  /\ \E l \in DOMAIN HeldIn(s) : HeldIn(t) = Abstract!Without(HeldIn(s), {l})

Ends(s, t) ==
  /\ t.nextLeaseID = s.nextLeaseID
  /\ t.fencingCounter = s.fencingCounter
  /\ HoldsIn(t) \subseteq HoldsIn(s)
  /\ \E id \in DOMAIN OwnersIn(s) :
       /\ OwnersIn(t) = Abstract!Without(OwnersIn(s), {id})
       /\ HeldIn(t) = Abstract!Without(HeldIn(s),
                        {l \in DOMAIN HeldIn(s) : HeldIn(s)[l].session = id})

(***************************************************************************)
(* applyCreateLease opens a session or does nothing.                       *)
(***************************************************************************)
LEMMA CreateOpens ==
  ASSUME NEW s, GoodState(s),
         NEW cmd \in [type: {"CreateLease"}, owner: Owner, ttl: Int, at: Int],
         NEW t, t = ApplyCreateLease(s, cmd).fsm, t # s
  PROVE  Opens(s, t)
  <1> DEFINE new == [owner |-> cmd.owner, expiresAt |-> cmd.at + cmd.ttl, ttl |-> cmd.ttl]
  <1>1. t = [s EXCEPT !.leases = Put(s.leases, s.nextLeaseID, new),
                      !.nextLeaseID = s.nextLeaseID + 1]
    BY DEF ApplyCreateLease, Fail, Reply
  <1>2. s = Snapshot(s)
    BY DEF GoodState, IsFSMState
  <1>3. /\ t.locks = s.locks /\ t.fencingCounter = s.fencingCounter
        /\ t.nextLeaseID = s.nextLeaseID + 1
        /\ t.leases = Put(s.leases, s.nextLeaseID, new)
    BY <1>1, <1>2 DEF Snapshot
  <1>4. OwnersIn(t) = Abstract!With(OwnersIn(s), s.nextLeaseID, cmd.owner)
    BY <1>3 DEF OwnersIn, Put, Abstract!With
  <1>5. SameLock(s, t)
    BY <1>3 DEF SameLock, HeldIn, HoldsIn
  <1> QED
    BY <1>3, <1>4, <1>5 DEF Opens

(***************************************************************************)
(* applyAcquireLock grants a free lock to an open session or changes       *)
(* nothing.                                                                *)
(***************************************************************************)
LEMMA AcquireGrants ==
  ASSUME NEW s, GoodState(s),
         NEW cmd \in [type: {"AcquireLock"}, lock: LockName, owner: Owner, lease: Nat],
         NEW t, t = ApplyAcquireLock(s, cmd).fsm, t # s
  PROVE  Mints(s, t)
  <1> DEFINE new == [owner |-> cmd.owner, token |-> s.fencingCounter + 1,
                     lease |-> cmd.lease]
  <1>1. /\ cmd.lease \in DOMAIN s.leases /\ cmd.lock \notin DOMAIN s.locks
        /\ t = [s EXCEPT !.fencingCounter = s.fencingCounter + 1,
                         !.locks = Put(s.locks, cmd.lock, new)]
    BY DEF ApplyAcquireLock, Fail, Reply
  <1>2. s = Snapshot(s)
    BY DEF GoodState, IsFSMState
  <1>3. /\ t.leases = s.leases /\ t.nextLeaseID = s.nextLeaseID
        /\ t.fencingCounter = s.fencingCounter + 1
        /\ t.locks = Put(s.locks, cmd.lock, new)
    BY <1>1, <1>2 DEF Snapshot
  <1>4. /\ DOMAIN t.locks = DOMAIN s.locks \cup {cmd.lock}
        /\ t.locks[cmd.lock] = new
        /\ \A l \in DOMAIN s.locks : t.locks[l] = s.locks[l]
    BY <1>1, <1>3 DEF Put
  <1>5. HeldIn(t) = Abstract!With(HeldIn(s), cmd.lock,
                      [session |-> cmd.lease, token |-> s.fencingCounter + 1])
    BY <1>1, <1>4 DEF HeldIn, Abstract!With
  <1>6. HoldsIn(t) = HoldsIn(s) \cup
          {[lock |-> cmd.lock, session |-> cmd.lease, token |-> s.fencingCounter + 1]}
    BY <1>1, <1>4 DEF HoldsIn
  <1>7. cmd.lock \in LockName \ DOMAIN HeldIn(s) /\ cmd.lease \in DOMAIN OwnersIn(s)
    BY <1>1 DEF HeldIn, OwnersIn
  <1>8. SameLeases(s, t)
    BY <1>3 DEF SameLeases, OwnersIn
  <1> QED
    BY ZenonT(60), <1>3, <1>5, <1>6, <1>7, <1>8 DEF Mints

(***************************************************************************)
(* applyReleaseLock frees one held lock or does nothing.                   *)
(***************************************************************************)
LEMMA ReleaseFrees ==
  ASSUME NEW s, GoodState(s), NEW cmd, NEW t, t = ApplyReleaseLock(s, cmd).fsm, t # s
  PROVE  Frees(s, t)
  <1>1. /\ cmd.lock \in DOMAIN s.locks
        /\ t = [s EXCEPT !.locks = Delete(s.locks, {cmd.lock})]
    BY DEF ApplyReleaseLock, Fail, Freed
  <1>2. s = Snapshot(s)
    BY DEF GoodState, IsFSMState
  <1>3. /\ t.leases = s.leases /\ t.nextLeaseID = s.nextLeaseID
        /\ t.fencingCounter = s.fencingCounter
        /\ t.locks = Delete(s.locks, {cmd.lock})
    BY <1>1, <1>2 DEF Snapshot
  <1>4. /\ DOMAIN t.locks = DOMAIN s.locks \ {cmd.lock}
        /\ \A l \in DOMAIN t.locks : t.locks[l] = s.locks[l]
    BY <1>3 DEF Delete, Restrict
  <1>5. HeldIn(t) = Abstract!Without(HeldIn(s), {cmd.lock})
    BY <1>4 DEF HeldIn, Abstract!Without
  <1>6. HoldsIn(t) \subseteq HoldsIn(s)
    BY <1>4 DEF HoldsIn
  <1>7. cmd.lock \in DOMAIN HeldIn(s) /\ SameLeases(s, t)
    BY <1>1, <1>3 DEF HeldIn, SameLeases, OwnersIn
  <1> QED
    BY <1>3, <1>5, <1>6, <1>7 DEF Frees

(***************************************************************************)
(* applyExpireLease ends one open session, with its locks, or does         *)
(* nothing.                                                                *)
(***************************************************************************)
LEMMA ExpireEnds ==
  ASSUME NEW s, GoodState(s), NEW cmd, NEW t, t = ApplyExpireLease(s, cmd).fsm, t # s
  PROVE  Ends(s, t)
  <1> DEFINE L == LocksOf(s, cmd.lease)
  <1>1. /\ cmd.lease \in DOMAIN s.leases
        /\ t = [s EXCEPT !.locks = Delete(s.locks, L),
                         !.leases = Delete(s.leases, {cmd.lease})]
    BY DEF ApplyExpireLease, Freed
  <1>2. s = Snapshot(s)
    BY DEF GoodState, IsFSMState
  <1>3. /\ t.nextLeaseID = s.nextLeaseID
        /\ t.fencingCounter = s.fencingCounter
        /\ t.locks = Delete(s.locks, L)
        /\ t.leases = Delete(s.leases, {cmd.lease})
    BY <1>1, <1>2 DEF Snapshot
  <1>4. /\ DOMAIN t.locks = DOMAIN s.locks \ L
        /\ \A l \in DOMAIN t.locks : t.locks[l] = s.locks[l]
        /\ DOMAIN t.leases = DOMAIN s.leases \ {cmd.lease}
        /\ \A id \in DOMAIN t.leases : t.leases[id] = s.leases[id]
    BY <1>3 DEF Delete, Restrict
  <1>5. L = {l \in DOMAIN HeldIn(s) : HeldIn(s)[l].session = cmd.lease}
    BY DEF LocksOf, HeldIn
  <1> HIDE DEF L
  <1>6. HeldIn(t) = Abstract!Without(HeldIn(s), L)
    BY <1>4 DEF HeldIn, Abstract!Without
  <1>7. OwnersIn(t) = Abstract!Without(OwnersIn(s), {cmd.lease})
    BY <1>4 DEF OwnersIn, Abstract!Without
  <1>8. HoldsIn(t) \subseteq HoldsIn(s)
    BY <1>4 DEF HoldsIn
  <1>9. cmd.lease \in DOMAIN OwnersIn(s)
    BY <1>1 DEF OwnersIn
  <1> QED
    BY ZenonT(60), <1>3, <1>5, <1>6, <1>7, <1>8, <1>9 DEF Ends

(***************************************************************************)
(* Every command is one abstract step or invisible.                        *)
(***************************************************************************)
LEMMA ApplyAbstract ==
  ASSUME NEW s, GoodState(s), NEW cmd \in Command, NEW t, t = Apply(s, cmd).fsm
  PROVE  \/ SameLock(s, t) /\ SameLeases(s, t)
         \/ Opens(s, t) \/ Mints(s, t) \/ Frees(s, t) \/ Ends(s, t)
  <1>1. CASE t = s
    BY <1>1 DEF SameLock, SameLeases
  <1>2. CASE t # s /\ cmd \in [type: {"CreateLease"}, owner: Owner, ttl: Int, at: Int]
    <2>1. t = ApplyCreateLease(s, cmd).fsm
      BY <1>2, ApplyDispatch
    <2> QED
      BY <1>2, <2>1, CreateOpens
  <1>3. CASE t # s /\ cmd \in [type: {"AcquireLock"}, lock: LockName, owner: Owner, lease: Nat]
    <2>1. t = ApplyAcquireLock(s, cmd).fsm
      BY <1>3, ApplyDispatch
    <2> QED
      BY <1>3, <2>1, AcquireGrants
  <1>4. CASE t # s /\ cmd \in [type: {"ReleaseLock"}, lock: LockName, lease: Nat]
    <2>1. t = ApplyReleaseLock(s, cmd).fsm
      BY <1>4, ApplyDispatch
    <2> QED
      BY <1>4, <2>1, ReleaseFrees
  <1>5. CASE t # s /\ cmd \in [type: {"ExpireLease"}, lease: Nat]
    <2>1. t = ApplyExpireLease(s, cmd).fsm
      BY <1>5, ApplyDispatch
    <2> QED
      BY <1>5, <2>1, ExpireEnds
  <1>6. CASE t # s /\ cmd.type \in {"UpsertEndpoint", "RemoveEndpoint"}
    <2>1. PICK m : t = [s EXCEPT !.endpoints = m]
      <3>1. CASE cmd.type = "UpsertEndpoint"
        <4>1. t = ApplyUpsertEndpoint(s, cmd).fsm
          BY <3>1, ApplyDispatch
        <4>2. t = [s EXCEPT !.endpoints = Put(s.endpoints, cmd.node, cmd.addr)]
          BY <1>6, <4>1 DEF ApplyUpsertEndpoint, Fail, Freed
        <4> QED
          BY ZenonT(60), <4>2
      <3>2. CASE cmd.type = "RemoveEndpoint"
        <4>1. t = ApplyRemoveEndpoint(s, cmd).fsm
          BY <3>2, ApplyDispatch
        <4>2. t = [s EXCEPT !.endpoints = Delete(s.endpoints, {cmd.node})]
          BY <1>6, <4>1 DEF ApplyRemoveEndpoint, Fail, Freed
        <4> QED
          BY ZenonT(60), <4>2
      <3> QED
        BY ZenonT(60), <1>6, <3>1, <3>2
    <2>2. s = Snapshot(s)
      BY DEF GoodState, IsFSMState
    <2>3. /\ t.locks = s.locks /\ t.leases = s.leases
          /\ t.fencingCounter = s.fencingCounter /\ t.nextLeaseID = s.nextLeaseID
      BY <2>1, <2>2 DEF Snapshot
    <2> QED
      BY <2>3 DEF SameLock, SameLeases, HeldIn, HoldsIn, OwnersIn
  <1>7. CASE cmd.type \in {"RenewLease", "Unknown"}
    <2>1. t = s
      BY <1>7, ApplyDispatch DEF Freed, Fail
    <2> QED
      BY <2>1 DEF SameLock, SameLeases
  <1> QED
    BY <1>1, <1>2, <1>3, <1>4, <1>5, <1>6, <1>7 DEF Command
-----------------------------------------------------------------------------
(***************************************************************************)
(* The first state is the abstract one.                                    *)
(***************************************************************************)
LEMMA InitAbstract == Init => Abstract!Init
  <1> SUFFICES ASSUME Init PROVE Abstract!Init
    OBVIOUS
  <1>1. Len(log) = 0 /\ Latest = NewFSM
    BY DEF Init, Latest
  <1>2. /\ NewFSM.locks = EmptyMap /\ NewFSM.leases = EmptyMap
        /\ NewFSM.fencingCounter = 0 /\ NewFSM.nextLeaseID = 1
    BY DEF NewFSM
  <1>3. DOMAIN EmptyMap = {}
    BY DEF EmptyMap
  <1>4. HeldIn(NewFSM) = Abstract!None /\ OwnersIn(NewFSM) = Abstract!None
    BY <1>2, <1>3 DEF HeldIn, OwnersIn, Abstract!None
  <1>5. Granted = {}
    <2>1. \A k \in 0..Len(log) : hist[k] = NewFSM
      BY <1>1 DEF Init
    <2>2. HoldsIn(NewFSM) = {}
      BY <1>2, <1>3 DEF HoldsIn
    <2> QED
      BY <2>1, <2>2 DEF Granted
  <1>6. Told = {}
    BY DEF Init, Told, Grants
  <1> QED
    BY <1>1, <1>2, <1>4, <1>5, <1>6 DEF Abstract!Init

(***************************************************************************)
(* A committed entry is one abstract step or none.                         *)
(***************************************************************************)
LEMMA CommitAbstract ==
  ASSUME IInv, NEW cmd \in Input, Commit(cmd)
  PROVE  [Abstract!Next]_(Abstract!vars)
  <1> DEFINE s == hist[Len(log)]
             t == Apply(s, cmd).fsm
  <1>1. /\ Len(log) \in Nat /\ Len(log') = Len(log) + 1
        /\ \A k \in 0..Len(log) : hist'[k] = hist[k]
        /\ hist'[Len(log) + 1] = t
    BY DEF Commit, IInv, TypeOK
  <1>2. Latest = s /\ Latest' = t
    BY <1>1 DEF Latest
  <1>3. Granted' = Granted \cup HoldsIn(t)
    <2>1. 0..Len(log') = 0..Len(log) \cup {Len(log) + 1}
      BY <1>1
    <2> QED
      BY <1>1, <2>1 DEF Granted
  <1>4. HoldsIn(s) \subseteq Granted
    BY <1>1 DEF Granted
  <1>5. Told' = Told
    BY DEF Commit, Told, Grants
  <1>6. GoodState(s) /\ cmd \in Command
    BY <1>1, ReplicaAssumption DEF IInv, HistInv
  <1>7. \/ SameLock(s, t) /\ SameLeases(s, t)
        \/ Opens(s, t) \/ Mints(s, t) \/ Frees(s, t) \/ Ends(s, t)
    BY <1>6, ApplyAbstract
  <1> HIDE DEF s, t
  <1>8. CASE SameLock(s, t) /\ SameLeases(s, t)
    BY <1>2, <1>3, <1>4, <1>5, <1>8 DEF SameLock, SameLeases, Abstract!vars
  <1>9. CASE Opens(s, t)
    <2>1. PICK o \in Owner : OwnersIn(t) = Abstract!With(OwnersIn(s), s.nextLeaseID, o)
      BY <1>9 DEF Opens
    <2>2. Abstract!Open(o)
      BY <1>2, <1>3, <1>4, <1>5, <1>9, <2>1 DEF Opens, SameLock, Abstract!Open
    <2> QED
      BY <2>2 DEF Abstract!Next
  <1>10. CASE Mints(s, t)
    <2>1. PICK l \in LockName \ DOMAIN HeldIn(s), id \in DOMAIN OwnersIn(s) :
            /\ HeldIn(t) = Abstract!With(HeldIn(s), l,
                             [session |-> id, token |-> s.fencingCounter + 1])
            /\ HoldsIn(t) = HoldsIn(s) \cup
                 {[lock |-> l, session |-> id, token |-> s.fencingCounter + 1]}
      BY <1>10 DEF Mints
    <2>2. Abstract!Grant(l, id)
      BY <1>2, <1>3, <1>4, <1>5, <1>10, <2>1 DEF Mints, SameLeases, Abstract!Grant
    <2> QED
      BY <1>2, <2>2 DEF Abstract!Next
  <1>11. CASE Frees(s, t)
    <2>1. PICK l \in DOMAIN HeldIn(s) : HeldIn(t) = Abstract!Without(HeldIn(s), {l})
      BY <1>11 DEF Frees
    <2>2. Abstract!Free(l)
      BY <1>2, <1>3, <1>4, <1>5, <1>11, <2>1 DEF Frees, SameLeases, Abstract!Free
    <2> QED
      BY <1>2, <2>2 DEF Abstract!Next
  <1>12. CASE Ends(s, t)
    <2>1. PICK id \in DOMAIN OwnersIn(s) :
            /\ OwnersIn(t) = Abstract!Without(OwnersIn(s), {id})
            /\ HeldIn(t) = Abstract!Without(HeldIn(s),
                             {l \in DOMAIN HeldIn(s) : HeldIn(s)[l].session = id})
      BY ZenonT(60), <1>12 DEF Ends
    <2>2. Abstract!End(id)
      BY <1>2, <1>3, <1>4, <1>5, <1>12, <2>1 DEF Ends, Abstract!End
    <2> QED
      BY <1>2, <2>2 DEF Abstract!Next
  <1> QED
    BY <1>7, <1>8, <1>9, <1>10, <1>11, <1>12

(***************************************************************************)
(* An answer of any node, at whatever point of the log it is, tells of a   *)
(* grant that was made.                                                    *)
(***************************************************************************)
LEMMA ApplyEntryAbstract ==
  ASSUME IInv, IInv', NEW n \in Node, ApplyEntry(n)
  PROVE  [Abstract!Next]_(Abstract!vars)
  <1>1. UNCHANGED <<log, hist>>
    BY DEF ApplyEntry
  <1>2. UNCHANGED <<Latest, Granted>>
    BY <1>1 DEF Latest, Granted
  <1>3. PICK r : issued' = issued \/ issued' = issued \cup {r}
    BY ZenonT(60) DEF ApplyEntry
  <1>4. CASE Grants' = Grants
    BY <1>2, <1>4 DEF Told, Abstract!vars
  <1>5. CASE Grants' # Grants
    <2> DEFINE g == [lock |-> r.cmd.lock, session |-> r.cmd.lease, token |-> r.reply.token]
    <2>1. Grants' = Grants \cup {r}
      BY <1>3, <1>5 DEF Grants
    <2>2. Told' = Told \cup {g}
      BY <2>1 DEF Told
    <2>3. /\ r.index \in 0..Len(log)
          /\ r.cmd.lock \in DOMAIN hist[r.index].locks
          /\ hist[r.index].locks[r.cmd.lock].token = r.reply.token
          /\ hist[r.index].locks[r.cmd.lock].lease = r.cmd.lease
      <3>1. /\ r.index \in 1..Len(log) /\ r.cmd = log[r.index]
            /\ r.reply = Apply(hist[r.index - 1], r.cmd).reply
            /\ r.reply.err = "nil" /\ r.cmd.type = "AcquireLock"
        BY <1>1, <2>1 DEF IInv, IssuedInv, Grants
      <3>2. r.index \in 0..Len(log) /\ r.index - 1 \in 0..Len(log)
        BY <3>1 DEF IInv, TypeOK
      <3>3. GoodState(hist[r.index - 1]) /\ r.cmd \in Command
        BY <3>1, <3>2, ReplicaAssumption DEF IInv, TypeOK, HistInv
      <3>4. hist[r.index] = Apply(hist[r.index - 1], r.cmd).fsm
        BY ZenonT(60), <3>1 DEF IInv, HistInv
      <3> DEFINE a == Apply(hist[r.index - 1], r.cmd)
      <3>5. a.reply.err = "nil"
        BY <3>1
      <3>6. /\ r.cmd.lock \in DOMAIN a.fsm.locks
            /\ a.fsm.locks[r.cmd.lock].token = a.reply.token
            /\ a.fsm.locks[r.cmd.lock].lease = r.cmd.lease
        BY <3>1, <3>3, <3>5, ReplyTrue
      <3> QED
        BY <3>1, <3>2, <3>4, <3>6
    <2>4. g \in HoldsIn(hist[r.index])
      BY ZenonT(60), <2>3 DEF HoldsIn
    <2>5. g \in Granted
      BY <2>3, <2>4 DEF Granted
    <2>6. Abstract!Tell(g)
      BY <1>2, <2>2 DEF Abstract!Tell
    <2> QED
      BY <2>5, <2>6 DEF Abstract!Next
  <1> QED
    BY <1>4, <1>5

(***************************************************************************)
(* Snapshots, restarts and installs do not show: every step of Replica is  *)
(* one of the abstract lock or none.                                       *)
(***************************************************************************)
LEMMA NextAbstract == IInv /\ IInv' /\ [Next]_vars => [Abstract!Next]_(Abstract!vars)
  <1> SUFFICES ASSUME IInv, IInv', [Next]_vars PROVE [Abstract!Next]_(Abstract!vars)
    OBVIOUS
  <1>1. ASSUME NEW cmd \in Input, Commit(cmd) PROVE [Abstract!Next]_(Abstract!vars)
    BY <1>1, CommitAbstract
  <1>2. ASSUME NEW n \in Node, ApplyEntry(n) PROVE [Abstract!Next]_(Abstract!vars)
    BY <1>2, ApplyEntryAbstract
  <1>3. CASE UNCHANGED <<log, hist, issued>>
    BY <1>3 DEF Latest, Granted, Told, Grants, Abstract!vars
  <1>4. ASSUME NEW n \in Node,
               TakeSnapshot(n) \/ Persist(n) \/ PersistLegacy(n) \/ Restart(n)
        PROVE  UNCHANGED <<log, hist, issued>>
    BY ZenonT(60), <1>4 DEF TakeSnapshot, Persist, PersistLegacy, Restart
  <1>5. ASSUME NEW n \in Node, NEW m \in Node, InstallSnapshot(n, m)
        PROVE  UNCHANGED <<log, hist, issued>>
    BY <1>5 DEF InstallSnapshot
  <1>6. CASE UNCHANGED vars
    BY <1>3, <1>6 DEF vars
  <1> QED
    BY <1>1, <1>2, <1>3, <1>4, <1>5, <1>6 DEF Next
-----------------------------------------------------------------------------
(***************************************************************************)
(* The row holds a token that was granted for the lock, with the lease it  *)
(* was granted to, or nothing yet.                                         *)
(***************************************************************************)
RowInv ==
  \/ row = [token |-> 0, writer |-> 0]
  \/ \E g \in Grants : row = [token |-> g.reply.token, writer |-> g.cmd.lease]

WritesInv == IInv /\ RowInv

(***************************************************************************)
(* The writers leave Replica alone.                                        *)
(***************************************************************************)
LEMMA WritesStep == [WritesNext]_writeVars => [Next]_vars
  BY DEF WritesNext, writeVars, Write, write, vars

(***************************************************************************)
(* So whatever is proved of Replica holds with the writers as well.        *)
(***************************************************************************)
LEMMA WritesImplementReplica == WritesSpec => Spec
  BY WritesStep, PTL DEF WritesSpec, WritesInit, Spec

(***************************************************************************)
(* Replies are never taken back.                                           *)
(***************************************************************************)
LEMMA GrantsGrow == [Next]_vars => Grants \subseteq Grants'
  <1>1. [Next]_vars => issued \subseteq issued'
    BY ZenonT(60) DEF Next, vars, Commit, ApplyEntry, TakeSnapshot, Persist, PersistLegacy, Restart,
           InstallSnapshot
  <1> QED
    BY <1>1 DEF Grants

(***************************************************************************)
(* The invariant of the system with its writers.                           *)
(***************************************************************************)
LEMMA WritesInvariance == WritesSpec => []WritesInv
  <1>1. WritesInit => WritesInv
    BY InitInv DEF WritesInit, WritesInv, RowInv
  <1>2. WritesInv /\ [WritesNext]_writeVars => WritesInv'
    <2> SUFFICES ASSUME WritesInv, [WritesNext]_writeVars PROVE WritesInv'
      OBVIOUS
    <2>1. IInv'
      BY WritesStep, NextInv DEF WritesInv
    <2>2. Grants \subseteq Grants'
      BY WritesStep, GrantsGrow
    <2>3. CASE UNCHANGED row
      BY <2>1, <2>2, <2>3 DEF WritesInv, RowInv
    <2>4. CASE Write
      <3>1. PICK g \in Grants : row' = row \/ row' = [token |-> g.reply.token, writer |-> g.cmd.lease]
        BY <2>4 DEF Write, write
      <3> QED
        BY <2>1, <2>2, <3>1 DEF WritesInv, RowInv
    <2> QED
      BY <2>3, <2>4 DEF WritesNext, writeVars
  <1> QED
    BY <1>1, <1>2, PTL DEF WritesSpec

(***************************************************************************)
(* Replica implements the fenced lock, for any number of replicas, locks,  *)
(* owners and commands: crashes, snapshots and replays do not show.        *)
(***************************************************************************)
THEOREM Refinement == WritesSpec => ImplementsFencedLock
  <1>1. WritesInit => Abstract!Init
    BY InitAbstract DEF WritesInit
  <1>2. WritesInv /\ WritesInv' /\ [WritesNext]_writeVars => [Abstract!Next]_(Abstract!vars)
    BY WritesStep, NextAbstract DEF WritesInv
  <1> QED
    BY <1>1, <1>2, WritesInvariance, PTL DEF WritesSpec, ImplementsFencedLock, Abstract!Spec

(***************************************************************************)
(* The row that checks tokens has one writer per token, and the tokens     *)
(* rise: the guarantee examples/failover.go prints.                        *)
(***************************************************************************)
THEOREM OneWriterPerToken == WritesSpec => TermsClimb
  <1>1. WritesInv /\ [WritesNext]_writeVars => [row' # row => row'.token > row.token]_writeVars
    <2> SUFFICES ASSUME WritesInv, Write, row' # row PROVE row'.token > row.token
      BY DEF WritesNext, writeVars
    <2>1. PICK g \in Grants :
            ~(g.reply.token < row.token) /\ row' = [token |-> g.reply.token, writer |-> g.cmd.lease]
      BY ZenonT(60) DEF Write, write
    <2>2. g.reply.token \in Nat /\ g.reply.token > 0
      <3>1. /\ g.reply.token = hist[g.index].locks[g.cmd.lock].token
            /\ g.cmd.lock \in DOMAIN hist[g.index].locks
            /\ g.index \in 0..Len(log)
            /\ hist[g.index].fencingCounter \in Nat
        BY ZenonT(60), GrantInHist DEF WritesInv
      <3>2. g.reply.token \in 1..hist[g.index].fencingCounter
        BY <3>1 DEF WritesInv, IInv, HistInv, GoodState, TokensBounded
      <3> QED
        BY <3>1, <3>2
    <2>3. CASE row = [token |-> 0, writer |-> 0]
      BY <2>1, <2>2, <2>3
    <2>4. CASE \E h \in Grants : row = [token |-> h.reply.token, writer |-> h.cmd.lease]
      <3>1. PICK h \in Grants : row = [token |-> h.reply.token, writer |-> h.cmd.lease]
        BY ZenonT(60), <2>4
      <3>2. /\ h.reply.token \in Nat /\ h.index \in 1..Len(log) /\ g.index \in 1..Len(log)
            /\ Len(log) \in Nat
        BY GrantInHist DEF WritesInv, IInv, TypeOK
      <3>3. g.reply.token = h.reply.token => g.cmd.lease = h.cmd.lease
        BY <3>2, TokensApart DEF WritesInv, TokensNeverReused
      <3> QED
        BY <2>1, <2>2, <3>1, <3>2, <3>3
    <2> QED
      BY <2>3, <2>4 DEF WritesInv, RowInv
  <1> QED
    BY <1>1, WritesInvariance, PTL DEF WritesSpec, TermsClimb
=============================================================================
