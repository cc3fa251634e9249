--------------------------- MODULE LockQueueProofs ---------------------------
(***************************************************************************)
(* Proofs about LockQueue, for every set of calls and waiters, of leases   *)
(* that they may share, and of leases that expire.                         *)
(***************************************************************************)
EXTENDS LockQueue, FSMProofs, FiniteSetTheorems, SequenceTheorems

Labels == {"new", "check", "loop", "acquire", "applying", "select", "leaving", "done"}

Cmds ==
  [type: {"AcquireLock"}, lock: {lockName}, owner: {owner}, lease: Leases]
    \cup [type: {"ReleaseLock"}, lock: {lockName}, lease: Leases]
    \cup [type: {"ExpireLease"}, lease: Mortal]
Entry == [call: SUBSET Call, cmd: Cmds]

Types ==
  /\ leads \in BOOLEAN
  /\ GoodState(fsm)
  /\ dying \subseteq Leases
  /\ queue \in Seq(Waits)
  /\ log \in Seq(Entry)
  /\ ready \in [Call -> BOOLEAN]
  /\ pc \in [Call -> Labels]
  /\ ahead \in [Call -> SUBSET Waits]

(***************************************************************************)
(* Who is in the queue, each once: the calls that wait, from their arrival *)
(* to their Leave.  The others are never where only a waiter can be.       *)
(***************************************************************************)
QueueInv ==
  /\ \A i, j \in 1..Len(queue) : queue[i] = queue[j] => i = j
  /\ \A c \in Waits : c \in Queued <=> pc[c] \notin {"new", "done"}
  /\ \A c \in Waits : pc[c] # "check"
  /\ \A c \in Call \ Waits : pc[c] \notin {"loop", "select", "leaving"}

(***************************************************************************)
(* A call that an entry answers waits for it, and for no other entry.      *)
(***************************************************************************)
LogInv ==
  /\ \A i \in 1..Len(log) : \A c \in log[i].call : pc[c] = "applying"
  /\ \A i, j \in 1..Len(log) : log[i].call \cap log[j].call # {} => i = j

(***************************************************************************)
(* A waiter that is about to acquire, or has asked to, is the head of the  *)
(* queue and remains it; and the queue is in the order of arrival.         *)
(***************************************************************************)
TurnInv ==
  /\ \A c, d \in Call : pc[c] = "new" => c \notin ahead[d]
  /\ \A c \in Waits : pc[c] \in {"acquire", "applying"} => queue[1] = c
  /\ \A j \in 1..Len(queue) : \A i \in j..Len(queue) : queue[i] \notin ahead[queue[j]]

(***************************************************************************)
(* While the lock is free, the head is on its way to look at it, or to     *)
(* leave, or has a signal waiting.                                         *)
(***************************************************************************)
WakeInv ==
  queue # <<>> /\ ~Held =>
    pc[queue[1]] \in {"loop", "acquire", "applying", "leaving"} \/ ready[queue[1]]

IInv == Types /\ QueueInv /\ LogInv /\ TurnInv /\ WakeInv
-----------------------------------------------------------------------------
(***************************************************************************)
(* slices.Delete: the sequence without its i-th element.                   *)
(***************************************************************************)
Deleted(q, i) == SubSeq(q, 1, i - 1) \o SubSeq(q, i + 1, Len(q))

LEMMA DeleteAt ==
  ASSUME NEW S, NEW q \in Seq(S), NEW i \in 1..Len(q)
  PROVE  /\ Deleted(q, i) \in Seq(S) /\ Len(Deleted(q, i)) = Len(q) - 1
         /\ \A j \in 1..(Len(q) - 1) : Deleted(q, i)[j] = IF j < i THEN q[j] ELSE q[j + 1]
  <1> DEFINE a == SubSeq(q, 1, i - 1)
             b == SubSeq(q, i + 1, Len(q))
  <1>1. /\ a \in Seq(S) /\ Len(a) = i - 1
        /\ \A j \in 1..(i - 1) : a[j] = q[j]
    OBVIOUS
  <1>2. /\ b \in Seq(S) /\ Len(b) = Len(q) - i
        /\ \A j \in 1..(Len(q) - i) : b[j] = q[i + j]
    OBVIOUS
  <1>3. Deleted(q, i) = a \o b
    BY DEF Deleted
  <1> HIDE DEF a, b
  <1>4. /\ a \o b \in Seq(S) /\ Len(a \o b) = Len(a) + Len(b)
        /\ \A j \in 1..(Len(a) + Len(b)) :
              (a \o b)[j] = IF j <= Len(a) THEN a[j] ELSE b[j - Len(a)]
    BY <1>1, <1>2, ConcatProperties, Zenon
  <1> DEFINE r == a \o b
  <1> HIDE DEF r
  <1>5. /\ r \in Seq(S) /\ Len(r) = Len(q) - 1
        /\ \A j \in 1..(Len(q) - 1) : r[j] = IF j <= i - 1 THEN a[j] ELSE b[j - (i - 1)]
    BY <1>1, <1>2, <1>4 DEF r
  <1>6. ASSUME NEW j \in 1..(Len(q) - 1)
        PROVE  r[j] = IF j < i THEN q[j] ELSE q[j + 1]
    BY <1>1, <1>2, <1>5
  <1> QED
    BY <1>3, <1>5, <1>6 DEF r

(***************************************************************************)
(* The leases the calls name are finitely many ids.                        *)
(***************************************************************************)
LEMMA LeasesAreIDs ==
  /\ Cardinality(Leases) \in Nat
  /\ Leases \subseteq Nat \ {0}
  /\ Mortal \subseteq Nat
  <1>1. LeaseOf \in Surjection(Call, Leases)
    BY LockQueueAssumption DEF Leases, Surjection
  <1>2. Cardinality(Leases) \in Nat
    BY <1>1, LockQueueAssumption, FS_Surjection, FS_CardinalityType
  <1>3. Leases \subseteq Nat \ {0}
    BY <1>2, LockQueueAssumption
  <1> QED
    BY <1>2, <1>3, LockQueueAssumption

(***************************************************************************)
(* What a command of the queue's log does: if it takes the lock away, the  *)
(* lock-freed hook is called for it, and the lock is not refused as held   *)
(* unless it is.                                                           *)
(***************************************************************************)
LEMMA ApplyLock ==
  ASSUME NEW s, GoodState(s), NEW cmd \in Cmds
  PROVE  /\ GoodState(Apply(s, cmd).fsm)
         /\ lockName \in DOMAIN s.locks /\ lockName \notin DOMAIN Apply(s, cmd).fsm.locks
              => lockName \in Apply(s, cmd).freed
         /\ Apply(s, cmd).reply.err = "ErrLockAlreadyHeld"
              => lockName \in DOMAIN Apply(s, cmd).fsm.locks
  <1> DEFINE o == Apply(s, cmd)
  <1>0. s = Snapshot(s)
    BY DEF GoodState, IsFSMState
  <1>2. cmd \in Command
    BY ZenonT(60), LeasesAreIDs, LockQueueAssumption DEF Cmds, Command
  <1>3. GoodState(o.fsm)
    BY <1>2, ApplyGood
  <1>4. CASE cmd.type = "AcquireLock"
    <2>1. o = ApplyAcquireLock(s, cmd) /\ cmd.lock = lockName
      BY <1>4, ApplyDispatch DEF Cmds
    <2>2. o.reply.err = "ErrLockAlreadyHeld" => o.fsm = s /\ lockName \in DOMAIN s.locks
      BY <2>1 DEF ApplyAcquireLock, Fail, Reply
    <2>3. lockName \in DOMAIN s.locks => o.fsm = s
      BY <2>1 DEF ApplyAcquireLock, Fail, Reply
    <2> QED
      BY <1>3, <2>2, <2>3
  <1>5. CASE cmd.type = "ReleaseLock"
    <2>1. o = ApplyReleaseLock(s, cmd) /\ cmd.lock = lockName
      BY <1>5, ApplyDispatch DEF Cmds
    <2>2. o.fsm = s \/ lockName \in o.freed
      BY <2>1 DEF ApplyReleaseLock, Fail, Freed
    <2>3. o.reply.err # "ErrLockAlreadyHeld"
      BY <2>1 DEF ApplyReleaseLock, Fail, Freed
    <2> QED
      BY <1>3, <2>2, <2>3
  <1>6. CASE cmd.type = "ExpireLease"
    <2>1. o = ApplyExpireLease(s, cmd)
      BY <1>6, ApplyDispatch
    <2>2. \/ o.fsm = s
          \/ /\ o.fsm = [s EXCEPT !.locks = Delete(s.locks, LocksOf(s, cmd.lease)),
                                  !.leases = Delete(s.leases, {cmd.lease})]
             /\ o.freed = LocksOf(s, cmd.lease)
      BY <2>1 DEF ApplyExpireLease, Freed
    <2>3. o.reply.err # "ErrLockAlreadyHeld"
      BY <2>1 DEF ApplyExpireLease, Freed
    <2>4. o.fsm # s => o.fsm.locks = Delete(s.locks, LocksOf(s, cmd.lease))
      BY ZenonT(60), <1>0, <2>2 DEF Snapshot
    <2>5. o.fsm # s => DOMAIN o.fsm.locks = DOMAIN s.locks \ o.freed
      BY <2>2, <2>4 DEF Delete, Restrict
    <2> QED
      BY <1>3, <2>3, <2>5
  <1> QED
    BY <1>4, <1>5, <1>6 DEF Cmds
-----------------------------------------------------------------------------
(***************************************************************************)
(* The invariant holds before the first call.                              *)
(***************************************************************************)
LEMMA InitInv == Init => IInv
  <1> SUFFICES ASSUME Init PROVE IInv
    OBVIOUS
  <1> DEFINE start == [l \in Leases |-> [owner |-> owner, expiresAt |-> 2, ttl |-> 1]]
  <1>1. fsm = [locks |-> EmptyMap, leases |-> start, endpoints |-> EmptyMap,
               fencingCounter |-> 0, nextLeaseID |-> Cardinality(Leases) + 1]
    BY ZenonT(60) DEF Init, NewFSM
  <1>2. /\ DOMAIN start = Leases /\ start \in [Leases -> Lease]
        /\ \A l \in Leases : start[l].ttl = 1 /\ start[l].expiresAt = 2
    BY LockQueueAssumption DEF Lease
  <1>3. EmptyMap = [x \in {} |-> EmptyMap[x]]
    BY DEF EmptyMap
  <1> HIDE DEF start
  <1>4. /\ fsm.locks = EmptyMap /\ fsm.leases = start /\ fsm.endpoints = EmptyMap
        /\ fsm.fencingCounter = 0 /\ fsm.nextLeaseID = Cardinality(Leases) + 1
        /\ fsm = Snapshot(fsm)
    BY <1>1 DEF Snapshot
  <1>5. DOMAIN EmptyMap = {} /\ \A S : EmptyMap \in [{} -> S]
    BY <1>3
  <1>6. IsFSMState(fsm)
    BY <1>2, <1>4, <1>5, LeasesAreIDs DEF IsFSMState
  <1>7. LocksBacked(fsm) /\ TokensBounded(fsm)
    BY <1>4, <1>5 DEF LocksBacked, TokensBounded
  <1>8. LeaseIDsBounded(fsm)
    BY <1>2, <1>4, LeasesAreIDs, LockQueueAssumption DEF LeaseIDsBounded
  <1>9. DeadlinesFit(fsm)
    BY <1>2, <1>4, LockQueueAssumption, FSMAssumption DEF DeadlinesFit
  <1>10. GoodState(fsm)
    BY <1>6, <1>7, <1>8, <1>9 DEF GoodState
  <1>11. Types
    BY <1>10 DEF Init, Types, Labels
  <1>12. QueueInv /\ LogInv /\ TurnInv /\ WakeInv
    BY LockQueueAssumption DEF Init, QueueInv, LogInv, TurnInv, WakeInv, Queued
  <1> QED
    BY <1>11, <1>12 DEF IInv

(***************************************************************************)
(* A call moves on, the queue and the lock stay: enough for everything but *)
(* what is in the log.                                                     *)
(***************************************************************************)
LEMMA MoveInv ==
  ASSUME IInv, NEW c \in Call, NEW l \in Labels \ {"new"},
         pc' = [pc EXCEPT ![c] = l],
         ready' \in [Call -> BOOLEAN], \A d \in Call \ {c} : ready'[d] = ready[d],
         UNCHANGED <<leads, fsm, dying, queue, ahead>>,
         pc[c] \notin {"new", "done"},
         c \in Waits => l \notin {"check", "done"},
         c \notin Waits => l \notin {"loop", "select", "leaving"},
         c \in Waits /\ l \in {"acquire", "applying"} => queue[1] = c,
         c \in Waits /\ l = "select" /\ queue[1] = c => Held \/ ready'[c]
  PROVE  /\ leads' \in BOOLEAN /\ GoodState(fsm') /\ dying' \subseteq Leases
         /\ queue' \in Seq(Waits) /\ ready' \in [Call -> BOOLEAN]
         /\ pc' \in [Call -> Labels] /\ ahead' \in [Call -> SUBSET Waits]
         /\ QueueInv' /\ TurnInv' /\ WakeInv'
  <1>1. Types
    BY DEF IInv
  <1>2. /\ pc \in [Call -> Labels] /\ pc' \in [Call -> Labels]
        /\ pc'[c] = l /\ \A d \in Call \ {c} : pc'[d] = pc[d]
    BY <1>1 DEF Types
  <1>3. Queued' = Queued /\ Held' = Held
    BY DEF Queued, Held
  <1>4. Waits \subseteq Call
    BY LockQueueAssumption
  <1>5. QueueInv'
    BY <1>2, <1>3, <1>4 DEF IInv, QueueInv
  <1>6. TurnInv'
    BY <1>2, <1>4 DEF IInv, TurnInv
  <1>7. WakeInv'
    <2> SUFFICES ASSUME queue # <<>>, ~Held
                 PROVE  pc'[queue[1]] \in {"loop", "acquire", "applying", "leaving"}
                          \/ ready'[queue[1]]
      BY <1>3 DEF WakeInv
    <2>1. queue[1] \in Waits
      BY <1>1 DEF Types
    <2>2. CASE queue[1] = c
      BY <1>2, <2>1, <2>2 DEF Labels
    <2>3. CASE queue[1] # c
      BY <1>2, <1>4, <2>1, <2>3 DEF IInv, WakeInv
    <2> QED
      BY <2>2, <2>3
  <1> QED
    BY ZenonT(60), <1>1, <1>2, <1>5, <1>6, <1>7 DEF Types

(***************************************************************************)
(* An entry carries a command and answers calls.                           *)
(***************************************************************************)
LEMMA Answers ==
  ASSUME Types
  PROVE  \A i \in 1..Len(log) : log[i].call \subseteq Call /\ log[i].cmd \in Cmds
  <1>1. \A e \in Entry : e.call \subseteq Call /\ e.cmd \in Cmds
    BY DEF Entry
  <1>2. \A i \in 1..Len(log) : log[i] \in Entry
    BY DEF Types
  <1> QED
    BY <1>1, <1>2

(***************************************************************************)
(* The log stays, and the call that moves waits for no entry of it.        *)
(***************************************************************************)
LEMMA LogKept ==
  ASSUME IInv, NEW c \in Call, NEW l \in Labels, pc' = [pc EXCEPT ![c] = l],
         pc[c] # "applying", UNCHANGED log
  PROVE  log' \in Seq(Entry) /\ LogInv'
  <1>1. /\ log \in Seq(Entry) /\ \A i \in 1..Len(log) : log[i].call \subseteq Call
        /\ \A d \in Call \ {c} : pc'[d] = pc[d]
    BY Answers DEF IInv, Types
  <1> QED
    BY <1>1 DEF IInv, LogInv

(***************************************************************************)
(* The looks at the lock and the select: one call moves.                   *)
(***************************************************************************)
LEMMA LookInv ==
  ASSUME IInv, NEW c \in Call,
         Check(c) \/ Look(c) \/ Signalled(c) \/ Recheck(c) \/ Timeout(c)
  PROVE  IInv'
  <1>0. /\ pc \in [Call -> Labels] /\ ready \in [Call -> BOOLEAN] /\ queue \in Seq(Waits)
        /\ c \in Waits <=> pc[c] # "check" /\ pc[c] \in {"loop", "select"}
        /\ c \in Waits => queue # <<>>
    <2>1. c \in Waits => c \in Queued
      BY DEF IInv, QueueInv, Check, Look, Signalled, Recheck, Timeout
    <2> QED
      BY <2>1 DEF IInv, Types, QueueInv, Queued, Check, Look, Signalled, Recheck, Timeout
  <1>1. CASE Check(c)
    <2> DEFINE l == IF queue # <<>> /\ ~HeldBy(LeaseOf[c]) THEN "done" ELSE "acquire"
    <2>1. l \in {"done", "acquire"} /\ pc[c] = "check" /\ c \notin Waits
      BY <1>0, <1>1 DEF Check
    <2>2. pc' = [pc EXCEPT ![c] = l] /\ UNCHANGED <<leads, log, fsm, dying, queue, ready, ahead>>
      BY <1>1 DEF Check, Goto
    <2> HIDE DEF l
    <2>3. log' \in Seq(Entry) /\ LogInv'
      BY ZenonT(60), <2>1, <2>2, LogKept DEF Labels
    <2> QED
      BY ZenonT(60), <1>0, <2>1, <2>2, <2>3, MoveInv DEF Labels, IInv, Types
  <1>2. CASE Look(c)
    <2> DEFINE l == IF Head(queue) = c /\ ~HeldByOther(LeaseOf[c]) THEN "acquire" ELSE "select"
    <2>1. l \in {"acquire", "select"} /\ pc[c] = "loop" /\ c \in Waits
      BY <1>0, <1>2 DEF Look
    <2>2. pc' = [pc EXCEPT ![c] = l] /\ UNCHANGED <<leads, log, fsm, dying, queue, ready, ahead>>
      BY <1>2 DEF Look, Goto
    <2>3. l = "acquire" => queue[1] = c
      BY <1>0, <2>1
    <2>4. l = "select" /\ queue[1] = c => Held
      BY <1>0, <2>1 DEF HeldByOther
    <2> HIDE DEF l
    <2>5. log' \in Seq(Entry) /\ LogInv'
      BY ZenonT(60), <2>1, <2>2, LogKept DEF Labels
    <2> QED
      BY ZenonT(60), <1>0, <2>1, <2>2, <2>3, <2>4, <2>5, MoveInv DEF Labels, IInv, Types
  <1>3. CASE Signalled(c)
    <2>1. /\ pc[c] = "select" /\ c \in Waits /\ pc' = [pc EXCEPT ![c] = "loop"]
          /\ ready' = [ready EXCEPT ![c] = FALSE]
          /\ UNCHANGED <<leads, log, fsm, dying, queue, ahead>>
      BY <1>0, <1>3 DEF Signalled, Goto
    <2>2. log' \in Seq(Entry) /\ LogInv'
      BY ZenonT(60), <2>1, LogKept DEF Labels
    <2>3. ready' \in [Call -> BOOLEAN] /\ \A d \in Call \ {c} : ready'[d] = ready[d]
      BY <1>0, <2>1
    <2> QED
      BY ZenonT(60), <2>1, <2>2, <2>3, MoveInv DEF Labels, IInv, Types
  <1>4. CASE Recheck(c) \/ Timeout(c)
    <2>1. PICK l \in {"loop", "leaving"} :
             /\ pc[c] = "select" /\ c \in Waits /\ pc' = [pc EXCEPT ![c] = l]
             /\ UNCHANGED <<leads, log, fsm, dying, queue, ready, ahead>>
      BY <1>0, <1>4 DEF Recheck, Timeout, Goto
    <2>2. log' \in Seq(Entry) /\ LogInv'
      BY ZenonT(60), <2>1, LogKept DEF Labels
    <2> QED
      BY ZenonT(60), <1>0, <2>1, <2>2, MoveInv DEF Labels, IInv, Types
  <1> QED
    BY ZenonT(60), <1>1, <1>2, <1>3, <1>4

(***************************************************************************)
(* acquire: the call fails, or its entry joins the log and it waits.       *)
(***************************************************************************)
LEMMA AcquireInv ==
  ASSUME IInv, NEW c \in Call, Acquire(c)
  PROVE  IInv'
  <1>0. /\ pc \in [Call -> Labels] /\ ready \in [Call -> BOOLEAN] /\ log \in Seq(Entry)
        /\ pc[c] = "acquire" /\ UNCHANGED <<leads, fsm, dying, queue, ready, ahead>>
        /\ c \in Waits => queue[1] = c
    BY DEF IInv, Types, TurnInv, Acquire
  <1>1. CASE pc' = [pc EXCEPT ![c] = Return(c)] /\ UNCHANGED log
    <2> DEFINE l == Return(c)
    <2>1. l \in {"leaving", "done"} /\ (l = "leaving" <=> c \in Waits)
      BY DEF Return
    <2>2. pc' = [pc EXCEPT ![c] = l]
      BY <1>1
    <2> HIDE DEF l
    <2>3. log' \in Seq(Entry) /\ LogInv'
      BY ZenonT(60), <1>0, <1>1, <2>1, <2>2, LogKept DEF Labels
    <2> QED
      BY ZenonT(60), <1>0, <2>1, <2>2, <2>3, MoveInv DEF Labels, IInv, Types
  <1>2. CASE pc' # [pc EXCEPT ![c] = Return(c)] \/ log' # log
    <2> DEFINE e == [call |-> {c},
                     cmd |-> [type |-> "AcquireLock", lock |-> lockName,
                              owner |-> owner, lease |-> LeaseOf[c]]]
    <2>1. log' = Append(log, e) /\ pc' = [pc EXCEPT ![c] = "applying"]
      BY <1>2 DEF Acquire, Goto
    <2>2. e \in Entry /\ e.call = {c}
      BY LockQueueAssumption DEF Entry, Cmds
    <2> HIDE DEF e
    <2>3. /\ log' \in Seq(Entry) /\ Len(log') = Len(log) + 1
          /\ \A i \in 1..Len(log) : log'[i] = log[i]
          /\ log'[Len(log) + 1] = e
      BY <1>0, <2>1, <2>2
    <2>4. /\ \A i \in 1..Len(log) : log[i].call \subseteq Call /\ c \notin log[i].call
          /\ pc'[c] = "applying" /\ \A d \in Call \ {c} : pc'[d] = pc[d]
      BY <1>0, <2>1, Answers DEF IInv, LogInv
    <2>5. LogInv'
      <3>1. ASSUME NEW i \in 1..Len(log'), NEW d \in log'[i].call
            PROVE  pc'[d] = "applying"
        BY <1>0, <2>2, <2>3, <2>4 DEF IInv, LogInv
      <3>2. ASSUME NEW i \in 1..Len(log'), NEW j \in 1..Len(log'),
                   log'[i].call \cap log'[j].call # {}
            PROVE  i = j
        BY <1>0, <2>2, <2>3, <2>4, <3>2 DEF IInv, LogInv
      <3> QED
        BY <3>1, <3>2 DEF LogInv
    <2> QED
      BY ZenonT(60), <1>0, <2>1, <2>3, <2>5, MoveInv DEF Labels, IInv, Types
  <1> QED
    BY <1>1, <1>2

(***************************************************************************)
(* An entry nobody waits for joins the log.                                *)
(***************************************************************************)
LEMMA SubmitInv ==
  ASSUME IInv, NEW cmd \in Cmds, log' = Append(log, [call |-> {}, cmd |-> cmd]),
         dying' \subseteq Leases, UNCHANGED <<leads, fsm, queue, ready, pc, ahead>>
  PROVE  IInv'
  <1> DEFINE e == [call |-> {}, cmd |-> cmd]
  <1>1. e \in Entry /\ e.call = {} /\ log \in Seq(Entry)
    BY DEF Entry, IInv, Types
  <1>2. log' = Append(log, e)
    OBVIOUS
  <1> HIDE DEF e
  <1>3. /\ log' \in Seq(Entry) /\ Len(log') = Len(log) + 1
        /\ \A i \in 1..Len(log) : log'[i] = log[i]
        /\ log'[Len(log) + 1] = e
    BY <1>1, <1>2
  <1>4. LogInv'
    BY <1>1, <1>3 DEF IInv, LogInv
  <1>5. QueueInv' /\ TurnInv' /\ WakeInv'
    BY DEF IInv, QueueInv, TurnInv, WakeInv, Queued, Held
  <1> QED
    BY ZenonT(60), <1>3, <1>4, <1>5 DEF IInv, Types

LEMMA ReleaseInv ==
  ASSUME IInv, NEW l \in Leases, Release(l)
  PROVE  IInv'
  <1>1. [type |-> "ReleaseLock", lock |-> lockName, lease |-> l] \in Cmds
    BY DEF Cmds
  <1> QED
    BY ZenonT(60), <1>1, SubmitInv DEF Release, IInv, Types

LEMMA ExpireInv ==
  ASSUME IInv, NEW l \in Mortal, Expire(l)
  PROVE  IInv'
  <1>1. [type |-> "ExpireLease", lease |-> l] \in Cmds
    BY DEF Cmds
  <1>2. dying' \subseteq Leases
    BY LockQueueAssumption DEF Expire, IInv, Types
  <1> QED
    BY <1>1, <1>2, SubmitInv DEF Expire

(***************************************************************************)
(* A call arrives, and a waiter becomes the last of the queue.             *)
(***************************************************************************)
LEMMA ArriveInv ==
  ASSUME IInv, NEW c \in Call, Arrive(c)
  PROVE  IInv'
  <1>0. /\ pc \in [Call -> Labels] /\ ahead \in [Call -> SUBSET Waits] /\ queue \in Seq(Waits)
        /\ pc[c] = "new" /\ ahead' = [ahead EXCEPT ![c] = Queued]
        /\ UNCHANGED <<leads, log, fsm, dying, ready>>
        /\ Waits \subseteq Call /\ Queued \subseteq Waits
    BY LockQueueAssumption DEF IInv, Types, Arrive, Queued
  <1>1. PICK l \in {"done", "loop", "check"} :
           /\ pc' = [pc EXCEPT ![c] = l]
           /\ IF l = "loop" THEN c \in Waits /\ queue' = Append(queue, c) ELSE queue' = queue
           /\ l = "check" => c \notin Waits
    BY DEF Arrive, Goto
  <1>2. /\ pc' \in [Call -> Labels] /\ pc'[c] = l
        /\ \A d \in Call \ {c} : pc'[d] = pc[d]
    BY ZenonT(60), <1>0, <1>1 DEF Labels
  <1>3. /\ ahead' \in [Call -> SUBSET Waits] /\ ahead'[c] = Queued
        /\ \A d \in Call \ {c} : ahead'[d] = ahead[d]
    BY ZenonT(60), <1>0
  <1>4. log' \in Seq(Entry) /\ LogInv'
    BY ZenonT(60), <1>0, <1>1, LogKept DEF Labels
  <1>5. /\ c \notin Queued
        /\ \A i \in 1..Len(queue) : queue[i] \in Queued
    BY <1>0 DEF IInv, QueueInv, Queued
  <1>6. Held' = Held
    BY <1>0 DEF Held
  <1>7. CASE l # "loop"
    <2>1. queue' = queue /\ Queued' = Queued
      BY ZenonT(60), <1>1, <1>7 DEF Queued
    <2>2. QueueInv'
      BY ZenonT(120), <1>0, <1>1, <1>2, <1>5, <1>7, <2>1 DEF IInv, QueueInv
    <2>3. TurnInv'
      <3>1. ASSUME NEW a \in Call, NEW d \in Call, pc'[a] = "new"
            PROVE  a \notin ahead'[d]
        <4>1. pc[a] = "new" /\ a \notin Queued
          BY ZenonT(60), <1>0, <1>1, <1>2, <3>1 DEF IInv, QueueInv
        <4> QED
          BY ZenonT(60), <1>3, <4>1 DEF IInv, TurnInv
      <3>2. ASSUME NEW a \in Waits, pc'[a] \in {"acquire", "applying"}
            PROVE  queue'[1] = a
        BY ZenonT(60), <1>0, <1>1, <1>2, <2>1, <3>2 DEF IInv, TurnInv
      <3>3. ASSUME NEW j \in 1..Len(queue'), NEW i \in j..Len(queue')
            PROVE  queue'[i] \notin ahead'[queue'[j]]
        BY <1>0, <1>3, <1>5, <2>1 DEF IInv, TurnInv
      <3> QED
        BY ZenonT(60), <3>1, <3>2, <3>3 DEF TurnInv
    <2>4. WakeInv'
      BY SMTT(30), <1>0, <1>2, <1>5, <1>6, <2>1 DEF IInv, WakeInv
    <2> QED
      BY <1>0, <1>2, <1>3, <1>4, <2>1, <2>2, <2>3, <2>4 DEF IInv, Types
  <1>8. CASE l = "loop"
    <2> DEFINE n == Len(queue)
    <2>1. c \in Waits /\ queue' = Append(queue, c)
      BY <1>1, <1>8
    <2>2. /\ queue' \in Seq(Waits) /\ Len(queue') = n + 1 /\ n \in Nat
          /\ \A i \in 1..n : queue'[i] = queue[i]
          /\ queue'[n + 1] = c
      BY <1>0, <2>1
    <2>3. Queued' = Queued \cup {c}
      <3>1. DOMAIN queue = 1..n /\ DOMAIN queue' = 1..(n + 1)
        BY <1>0, <2>2
      <3>2. \A x : x \in Queued' <=> \E i \in 1..(n + 1) : queue'[i] = x
        BY <3>1 DEF Queued
      <3>3. \A x : x \in Queued <=> \E i \in 1..n : queue[i] = x
        BY ZenonT(60), <3>1 DEF Queued
      <3> HIDE DEF n
      <3> QED
        BY <2>2, <3>2, <3>3
    <2> HIDE DEF n
    <2>4. QueueInv'
      <3>1. ASSUME NEW i \in 1..(n + 1), NEW j \in 1..(n + 1), queue'[i] = queue'[j]
            PROVE  i = j
        BY <1>5, <2>2, <3>1 DEF IInv, QueueInv, n
      <3> QED
        BY ZenonT(120), <1>0, <1>2, <1>8, <2>1, <2>2, <2>3, <3>1 DEF IInv, QueueInv
    <2>5. TurnInv'
      <3>1. ASSUME NEW a \in Call, NEW d \in Call, pc'[a] = "new"
            PROVE  a \notin ahead'[d]
        <4>1. pc[a] = "new" /\ a \notin Queued
          BY ZenonT(60), <1>0, <1>2, <1>8, <3>1 DEF IInv, QueueInv
        <4> QED
          BY <1>3, <4>1 DEF IInv, TurnInv
      <3>2. ASSUME NEW a \in Waits, pc'[a] \in {"acquire", "applying"}
            PROVE  queue'[1] = a
        <4>1. a # c /\ pc[a] = pc'[a]
          BY ZenonT(60), <1>0, <1>2, <1>8, <3>2
        <4>2. queue[1] = a /\ a \in Queued
          BY <3>2, <4>1 DEF IInv, TurnInv, QueueInv
        <4>3. n >= 1
          BY <1>0, <4>2 DEF Queued, n
        <4> QED
          BY <2>2, <4>2, <4>3
      <3>3. ASSUME NEW j \in 1..(n + 1), NEW i \in j..(n + 1)
            PROVE  queue'[i] \notin ahead'[queue'[j]]
        <4>1. CASE i = n + 1
          <5>1. queue'[i] = c /\ queue'[j] \in Call
            BY SMTT(30), <1>0, <2>2, <4>1
          <5> QED
            BY ZenonT(60), <1>0, <1>3, <1>5, <5>1 DEF IInv, TurnInv
        <4>2. CASE i # n + 1
          <5>1. i \in 1..n /\ j \in 1..n /\ i \in j..n
            BY <2>2, <4>2
          <5>2. queue'[i] = queue[i] /\ queue'[j] = queue[j] /\ queue[j] # c /\ queue[j] \in Call
            BY ZenonT(60), <1>0, <1>5, <2>2, <5>1 DEF n
          <5> QED
            BY ZenonT(60), <1>3, <5>1, <5>2 DEF IInv, TurnInv, n
        <4> QED
          BY ZenonT(60), <4>1, <4>2
      <3> QED
        BY ZenonT(60), <2>2, <3>1, <3>2, <3>3 DEF TurnInv
    <2>6. WakeInv'
      <3>1. CASE n = 0
        BY SMTT(30), <1>2, <1>8, <2>2, <3>1 DEF WakeInv
      <3>2. CASE n # 0
        <4>1. queue # <<>> /\ queue'[1] = queue[1] /\ queue[1] # c /\ queue[1] \in Call
          BY <1>0, <1>5, <2>2, <3>2 DEF n
        <4> QED
          BY ZenonT(60), <1>0, <1>2, <1>6, <4>1 DEF IInv, WakeInv
      <3> QED
        BY ZenonT(60), <3>1, <3>2
    <2> QED
      BY ZenonT(60), <1>0, <1>2, <1>3, <1>4, <2>2, <2>4, <2>5, <2>6 DEF IInv, Types
  <1> QED
    BY ZenonT(60), <1>7, <1>8

(***************************************************************************)
(* wakeHead: the head, if there is one, has a signal, and the others keep  *)
(* what they have.                                                         *)
(***************************************************************************)
LEMMA WakeHead ==
  ASSUME NEW q \in Seq(Waits), ready \in [Call -> BOOLEAN]
  PROVE  /\ Wake(q) \in [Call -> BOOLEAN]
         /\ q # <<>> => Wake(q)[q[1]] = TRUE
         /\ \A d \in Call : ready[d] => Wake(q)[d]
  <1>1. CASE q = <<>>
    BY <1>1 DEF Wake
  <1>2. CASE q # <<>>
    <2>1. Head(q) \in Call /\ Head(q) = q[1]
      BY <1>2, LockQueueAssumption
    <2>2. Wake(q) = [ready EXCEPT ![Head(q)] = TRUE]
      BY <1>2 DEF Wake
    <2> QED
      BY <1>2, <2>1, <2>2
  <1> QED
    BY ZenonT(60), <1>1, <1>2

(***************************************************************************)
(* A waiter leaves the queue: the others keep their order, and the one     *)
(* that is first now, if it was not before, has a signal.                  *)
(***************************************************************************)
LEMMA LeaveInv ==
  ASSUME IInv, NEW c \in Call, Leave(c)
  PROVE  IInv'
  <1>0. /\ pc \in [Call -> Labels] /\ ahead \in [Call -> SUBSET Waits] /\ queue \in Seq(Waits)
        /\ ready \in [Call -> BOOLEAN] /\ Waits \subseteq Call
        /\ pc[c] = "leaving" /\ c \in Waits /\ c \in Queued
        /\ pc' = [pc EXCEPT ![c] = "done"]
        /\ UNCHANGED <<leads, log, fsm, dying, ahead>>
    BY LockQueueAssumption DEF IInv, Types, QueueInv, Leave, Goto
  <1> DEFINE n == Len(queue)
             p == CHOOSE i \in DOMAIN queue : queue[i] = c
  <1>1. p \in 1..n /\ queue[p] = c /\ n \in Nat
    <2>1. DOMAIN queue = 1..n /\ n \in Nat
      BY <1>0
    <2>2. \E i \in DOMAIN queue : queue[i] = c
      BY <1>0 DEF Queued
    <2> QED
      BY ZenonT(60), <2>1, <2>2
  <1>2. queue' = Deleted(queue, p)
    BY DEF Leave, Without, Deleted
  <1> HIDE DEF p
  <1>3. /\ queue' \in Seq(Waits) /\ Len(queue') = n - 1
        /\ \A j \in 1..(n - 1) : queue'[j] = IF j < p THEN queue[j] ELSE queue[j + 1]
    BY ZenonT(60), <1>0, <1>1, <1>2, DeleteAt
  <1>4. /\ pc' \in [Call -> Labels] /\ pc'[c] = "done"
        /\ \A d \in Call \ {c} : pc'[d] = pc[d]
    BY <1>0 DEF Labels
  <1>5. log' \in Seq(Entry) /\ LogInv'
    BY ZenonT(60), <1>0, LogKept DEF Labels
  <1>6. Held' = Held
    BY <1>0 DEF Held
  <1>7. \A i, j \in 1..n : queue[i] = queue[j] => i = j
    BY DEF IInv, QueueInv
  <1>8. Queued' = Queued \ {c}
    <2>1. DOMAIN queue = 1..n /\ DOMAIN queue' = 1..(n - 1)
      BY <1>0, <1>3
    <2>2. \A x : x \in Queued' <=> \E i \in 1..(n - 1) : queue'[i] = x
      BY <2>1 DEF Queued
    <2>3. \A x : x \in Queued <=> \E i \in 1..n : queue[i] = x
      BY <2>1 DEF Queued
    <2> HIDE DEF n
    <2>4. ASSUME NEW x \in Queued' PROVE x \in Queued \ {c}
      <3>1. PICK i \in 1..(n - 1) : queue'[i] = x
        BY <2>2
      <3>2. CASE i < p
        <4>1. i \in 1..n /\ i # p /\ queue[i] = x
          BY <1>1, <1>3, <3>1, <3>2
        <4> QED
          BY ZenonT(60), <1>1, <1>7, <2>3, <4>1
      <3>3. CASE ~(i < p)
        <4>1. i + 1 \in 1..n /\ i + 1 # p
          BY <1>1, <3>3
        <4>2. queue[i + 1] = x
          BY ZenonT(60), <1>3, <3>1, <3>3
        <4> QED
          BY ZenonT(60), <1>1, <1>7, <2>3, <4>1, <4>2
      <3> QED
        BY <3>2, <3>3
    <2>5. ASSUME NEW x \in Queued, x # c PROVE x \in Queued'
      <3>1. PICK k \in 1..n : queue[k] = x
        BY <2>3
      <3>2. CASE k < p
        BY <1>1, <1>3, <2>2, <3>1, <3>2
      <3>3. CASE k > p
        <4>1. k - 1 \in 1..(n - 1) /\ ~(k - 1 < p) /\ k - 1 + 1 = k
          BY <1>1, <3>3
        <4> QED
          BY ZenonT(60), <1>3, <2>2, <3>1, <4>1
      <3> QED
        BY <1>1, <2>5, <3>1, <3>2, <3>3
    <2> QED
      BY <2>4, <2>5
  <1>9. /\ ready' \in [Call -> BOOLEAN]
        /\ \A d \in Call : ready[d] => ready'[d]
        /\ p = 1 /\ queue' # <<>> => ready'[queue'[1]]
    <2>1. Head(queue) = queue[1] /\ queue # <<>>
      BY <1>0, <1>1
    <2>2. CASE p = 1
      <3>1. ready' = Wake(queue')
        BY <1>1, <2>1, <2>2 DEF Leave
      <3> QED
        BY ZenonT(60), <1>0, <1>3, <3>1, WakeHead
    <2>3. CASE p # 1
      <3>1. Head(queue) # c
        BY <1>1, <1>7, <2>1, <2>3
      <3>2. ready' = ready
        BY ZenonT(60), <3>1 DEF Leave
      <3> QED
        BY <1>0, <2>3, <3>2
    <2> QED
      BY ZenonT(60), <2>2, <2>3
  <1> HIDE DEF n
  <1>10. QueueInv'
    <2>1. ASSUME NEW i \in 1..(n - 1), NEW j \in 1..(n - 1), queue'[i] = queue'[j]
          PROVE  i = j
      BY SMTT(30), <1>1, <1>3, <1>7, <2>1
    <2> QED
      BY ZenonT(60), <1>0, <1>3, <1>4, <1>8, <2>1 DEF IInv, QueueInv
  <1>11. TurnInv'
    <2>1. ASSUME NEW a \in Call, NEW d \in Call, pc'[a] = "new"
          PROVE  a \notin ahead'[d]
      BY ZenonT(60), <1>0, <1>4, <2>1 DEF IInv, TurnInv
    <2>2. ASSUME NEW a \in Waits, pc'[a] \in {"acquire", "applying"}
          PROVE  queue'[1] = a
      <3>1. a # c /\ pc[a] = pc'[a]
        BY ZenonT(60), <1>0, <1>4, <2>2
      <3>2. queue[1] = a /\ a \in Queued'
        BY ZenonT(60), <1>8, <2>2, <3>1 DEF IInv, TurnInv, QueueInv
      <3>3. p # 1 /\ n - 1 >= 1
        BY SMTT(30), <1>1, <3>1, <3>2
      <3> QED
        BY SMTT(30), <1>1, <1>3, <3>2, <3>3
    <2>3. ASSUME NEW j \in 1..(n - 1), NEW i \in j..(n - 1)
          PROVE  queue'[i] \notin ahead'[queue'[j]]
      <3>1. PICK k \in 1..n : queue'[j] = queue[k] /\ k = IF j < p THEN j ELSE j + 1
        BY <1>1, <1>3
      <3>2. PICK m \in k..n : queue'[i] = queue[m]
        BY <1>1, <1>3, <3>1
      <3> QED
        BY ZenonT(60), <1>0, <3>1, <3>2 DEF IInv, TurnInv, n
    <2> QED
      BY ZenonT(60), <1>3, <2>1, <2>2, <2>3 DEF TurnInv
  <1>12. WakeInv'
    <2> SUFFICES ASSUME queue' # <<>>, ~Held
                 PROVE  pc'[queue'[1]] \in {"loop", "acquire", "applying", "leaving"}
                          \/ ready'[queue'[1]]
      BY <1>6 DEF WakeInv
    <2>1. CASE p = 1
      BY ZenonT(60), <1>9, <2>1
    <2>2. CASE p # 1
      <3>1. n - 1 >= 1
        BY <1>3
      <3>2. queue'[1] = queue[1] /\ queue[1] # c /\ queue[1] \in Call /\ queue # <<>>
        BY SMTT(30), <1>0, <1>1, <1>3, <1>7, <2>2, <3>1 DEF n
      <3> QED
        BY ZenonT(60), <1>4, <1>9, <3>2 DEF IInv, WakeInv
    <2> QED
      BY <2>1, <2>2
  <1> QED
    BY ZenonT(60), <1>0, <1>3, <1>4, <1>5, <1>9, <1>10, <1>11, <1>12 DEF IInv, Types

(***************************************************************************)
(* Calls that wait for their entry get an answer, the queue stays: what    *)
(* ApplyNext and LoseLeadership do to the calls.                           *)
(***************************************************************************)
LEMMA AnswerInv ==
  ASSUME IInv, UNCHANGED <<queue, ahead>>, pc' \in [Call -> Labels],
         NEW C \in SUBSET Call, \A c \in C : pc[c] = "applying",
         \A c \in Call \ C : pc'[c] = pc[c],
         \A c \in C : pc'[c] \in IF c \in Waits THEN {"select", "leaving"} ELSE {"done"}
  PROVE  QueueInv' /\ TurnInv'
  <1>0. Waits \subseteq Call /\ Queued' = Queued
    BY LockQueueAssumption DEF Queued
  <1>1. QueueInv'
    <2>1. \A i, j \in 1..Len(queue') : queue'[i] = queue'[j] => i = j
      BY DEF IInv, QueueInv
    <2>2. ASSUME NEW c \in Waits
          PROVE  (c \in Queued' <=> pc'[c] \notin {"new", "done"}) /\ pc'[c] # "check"
      <3>1. CASE c \in C
        BY ZenonT(60), <1>0, <3>1 DEF IInv, QueueInv
      <3>2. CASE c \notin C
        BY <1>0, <3>2 DEF IInv, QueueInv
      <3> QED
        BY ZenonT(60), <3>1, <3>2
    <2>3. ASSUME NEW c \in Call \ Waits
          PROVE  pc'[c] \notin {"loop", "select", "leaving"}
      <3>1. CASE c \in C
        BY <3>1
      <3>2. CASE c \notin C
        BY ZenonT(60), <3>2 DEF IInv, QueueInv
      <3> QED
        BY <3>1, <3>2
    <2> QED
      BY ZenonT(60), <2>1, <2>2, <2>3 DEF QueueInv
  <1>2. TurnInv'
    <2>1. ASSUME NEW c \in Call, NEW d \in Call, pc'[c] = "new"
          PROVE  c \notin ahead'[d]
      <3>1. c \notin C
        BY <2>1
      <3> QED
        BY ZenonT(60), <2>1, <3>1 DEF IInv, TurnInv
    <2>2. ASSUME NEW c \in Waits, pc'[c] \in {"acquire", "applying"}
          PROVE  queue'[1] = c
      <3>1. c \notin C /\ c \in Call
        BY ZenonT(60), <1>0, <2>2
      <3> QED
        BY ZenonT(60), <2>2, <3>1 DEF IInv, TurnInv
    <2>3. \A j \in 1..Len(queue') : \A i \in j..Len(queue') : queue'[i] \notin ahead'[queue'[j]]
      BY ZenonT(60) DEF IInv, TurnInv
    <2> QED
      BY ZenonT(60), <2>1, <2>2, <2>3 DEF TurnInv
  <1> QED
    BY ZenonT(60), <1>1, <1>2

(***************************************************************************)
(* The next entry is applied: if it frees the lock the head is signalled,  *)
(* and a head that is refused and goes back to sleep finds the lock held.  *)
(***************************************************************************)
LEMMA ApplyNextInv ==
  ASSUME IInv, ApplyNext
  PROVE  IInv'
  <1> DEFINE e == Head(log)
             o == Apply(fsm, e.cmd)
  <1>0. /\ pc \in [Call -> Labels] /\ queue \in Seq(Waits) /\ ready \in [Call -> BOOLEAN]
        /\ log \in Seq(Entry) /\ GoodState(fsm) /\ Waits \subseteq Call
    BY ZenonT(60), LockQueueAssumption DEF IInv, Types
  <1>1. /\ log # <<>> /\ log' = Tail(log) /\ fsm' = o.fsm
        /\ ready' = IF lockName \in o.freed THEN Wake(queue) ELSE ready
        /\ UNCHANGED <<leads, dying, queue, ahead>>
    BY ZenonT(60) DEF ApplyNext
  <1>2. pc' = [c \in Call |->
                 IF c \notin e.call THEN pc[c]
                 ELSE IF c \in Waits /\ o.reply.err = "ErrLockAlreadyHeld" THEN "select"
                 ELSE Return(c)]
    BY DEF ApplyNext
  <1>3. e = log[1] /\ e.call \subseteq Call /\ e.cmd \in Cmds
    <2>1. Types /\ 1 \in 1..Len(log) /\ Head(log) = log[1]
      BY SMTT(30), <1>0, <1>1 DEF IInv
    <2> QED
      BY ZenonT(60), <2>1, Answers
  <1>4. /\ GoodState(fsm')
        /\ Held /\ ~Held' => lockName \in o.freed
        /\ o.reply.err = "ErrLockAlreadyHeld" => Held'
    BY ZenonT(60), <1>0, <1>1, <1>3, ApplyLock DEF Held
  <1> DEFINE C == e.call
  <1> HIDE DEF e, o
  <1>5. \A c \in C : pc[c] = "applying"
    BY <1>0, <1>1, <1>3 DEF IInv, LogInv
  <1>6. \A c \in Call \ C : pc'[c] = pc[c]
    BY <1>2
  <1>7. \A c \in C : /\ pc'[c] \in IF c \in Waits THEN {"select", "leaving"} ELSE {"done"}
                     /\ pc'[c] = "select" => Held'
    BY ZenonT(60), <1>2, <1>3, <1>4 DEF Return
  <1>8. pc' \in [Call -> Labels]
    BY ZenonT(60), <1>0, <1>2 DEF Return, Labels
  <1>9. QueueInv' /\ TurnInv'
    BY ZenonT(60), <1>1, <1>3, <1>5, <1>6, <1>7, <1>8, AnswerInv
  <1>10. /\ ready' \in [Call -> BOOLEAN]
         /\ \A d \in Call : ready[d] => ready'[d]
         /\ lockName \in o.freed /\ queue # <<>> => ready'[queue[1]]
    BY ZenonT(60), <1>0, <1>1, WakeHead
  <1>11. WakeInv'
    <2> SUFFICES ASSUME queue # <<>>, ~Held'
                 PROVE  pc'[queue[1]] \in {"loop", "acquire", "applying", "leaving"}
                          \/ ready'[queue[1]]
      BY <1>1 DEF WakeInv
    <2>1. queue[1] \in Waits /\ queue[1] \in Call
      BY <1>0
    <2>2. CASE Held
      BY ZenonT(60), <1>4, <1>10, <2>2
    <2>3. CASE ~Held /\ queue[1] \in C
      BY ZenonT(60), <1>7, <2>1, <2>3
    <2>4. CASE ~Held /\ queue[1] \notin C
      BY ZenonT(60), <1>6, <1>10, <2>1, <2>4 DEF IInv, WakeInv
    <2> QED
      BY <2>2, <2>3, <2>4
  <1>12. /\ log' \in Seq(Entry) /\ Len(log') = Len(log) - 1
         /\ \A i \in 1..Len(log') : log'[i] = log[i + 1]
    BY ZenonT(60), <1>0, <1>1, HeadTailProperties
  <1>13. LogInv'
    <2>1. \A i \in 1..Len(log') : i + 1 \in 1..Len(log) /\ 1 \in 1..Len(log) /\ i + 1 # 1
      BY <1>0, <1>1, <1>12
    <2>2. ASSUME NEW i \in 1..Len(log'), NEW c \in log'[i].call
          PROVE  pc'[c] = "applying"
      <3>1. c \in log[i + 1].call /\ pc[c] = "applying" /\ c \in Call
        BY ZenonT(60), <1>12, <2>1, Answers DEF IInv, LogInv
      <3>2. c \notin C
        BY <1>3, <2>1, <3>1 DEF IInv, LogInv
      <3> QED
        BY ZenonT(60), <1>6, <3>1, <3>2
    <2>3. ASSUME NEW i \in 1..Len(log'), NEW j \in 1..Len(log'),
                 log'[i].call \cap log'[j].call # {}
          PROVE  i = j
      <3>1. i + 1 = j + 1
        BY ZenonT(60), <1>12, <2>1, <2>3 DEF IInv, LogInv
      <3> QED
        BY <3>1
    <2> QED
      BY ZenonT(60), <2>2, <2>3 DEF LogInv
  <1> QED
    BY ZenonT(60), <1>1, <1>4, <1>8, <1>9, <1>10, <1>11, <1>12, <1>13 DEF IInv, Types

(***************************************************************************)
(* Leadership is lost: every call that waits for an entry fails.           *)
(***************************************************************************)
LEMMA LoseLeadershipInv ==
  ASSUME IInv, LoseLeadership
  PROVE  IInv'
  <1>0. /\ pc \in [Call -> Labels] /\ queue \in Seq(Waits) /\ ready \in [Call -> BOOLEAN]
        /\ log \in Seq(Entry) /\ Waits \subseteq Call
    BY LockQueueAssumption DEF IInv, Types
  <1>1. /\ leads' = FALSE /\ UNCHANGED <<fsm, dying, queue, ready, ahead>>
        /\ pc' = [c \in Call |-> IF pc[c] = "applying" THEN Return(c) ELSE pc[c]]
    BY DEF LoseLeadership
  <1>2. PICK k \in 0..Len(log) : log' = [i \in 1..k |-> [log[i] EXCEPT !.call = {}]]
    BY DEF LoseLeadership
  <1> DEFINE C == {c \in Call : pc[c] = "applying"}
  <1>3. /\ pc' \in [Call -> Labels]
        /\ \A c \in Call \ C : pc'[c] = pc[c]
        /\ \A c \in C : /\ pc[c] = "applying"
                        /\ pc'[c] = IF c \in Waits THEN "leaving" ELSE "done"
    BY <1>0, <1>1 DEF Return, Labels
  <1> HIDE DEF C
  <1>4. C \subseteq Call
    BY DEF C
  <1>5. QueueInv' /\ TurnInv'
    BY ZenonT(60), <1>1, <1>3, <1>4, AnswerInv
  <1>6. Held' = Held
    BY <1>1 DEF Held
  <1>7. WakeInv'
    <2> SUFFICES ASSUME queue # <<>>, ~Held
                 PROVE  pc'[queue[1]] \in {"loop", "acquire", "applying", "leaving"}
                          \/ ready'[queue[1]]
      BY <1>1, <1>6 DEF WakeInv
    <2>1. queue[1] \in Waits /\ queue[1] \in Call
      BY <1>0
    <2>2. CASE queue[1] \in C
      BY ZenonT(60), <1>3, <2>1, <2>2
    <2>3. CASE queue[1] \notin C
      BY ZenonT(60), <1>1, <1>3, <2>1, <2>3 DEF IInv, WakeInv
    <2> QED
      BY <2>2, <2>3
  <1>8. /\ log' \in Seq(Entry)
        /\ \A i \in 1..Len(log') : log'[i].call = {}
    <2>1. \A x \in Entry : [x EXCEPT !.call = {}] \in Entry /\ [x EXCEPT !.call = {}].call = {}
      BY DEF Entry
    <2>2. \A i \in 1..k : log[i] \in Entry
      BY <1>0
    <2>3. Len(log') = k /\ log' \in [1..k -> Entry]
      BY <1>2, <2>1, <2>2
    <2>4. log' \in Seq(Entry)
      BY <2>3
    <2>5. ASSUME NEW i \in 1..k PROVE log'[i].call = {}
      <3>1. log'[i] = [log[i] EXCEPT !.call = {}]
        BY <1>2
      <3> QED
        BY <2>1, <2>2, <3>1
    <2> QED
      BY <2>3, <2>4, <2>5
  <1>9. LogInv'
    BY <1>8 DEF LogInv
  <1> QED
    BY ZenonT(60), <1>1, <1>3, <1>5, <1>7, <1>8, <1>9 DEF IInv, Types
-----------------------------------------------------------------------------
(***************************************************************************)
(* Every step keeps the invariant.                                         *)
(***************************************************************************)
LEMMA NextInv == IInv /\ [Next]_vars => IInv'
  <1> SUFFICES ASSUME IInv, [Next]_vars PROVE IInv'
    OBVIOUS
  <1>1. ASSUME NEW c \in Call,
               \/ Arrive(c) \/ Check(c) \/ Look(c) \/ Acquire(c)
               \/ Signalled(c) \/ Recheck(c) \/ Timeout(c) \/ Leave(c)
        PROVE  IInv'
    BY ZenonT(60), <1>1, ArriveInv, LookInv, AcquireInv, LeaveInv
  <1>2. CASE ApplyNext
    BY <1>2, ApplyNextInv
  <1>3. ASSUME NEW l \in Leases, Release(l) PROVE IInv'
    BY <1>3, ReleaseInv
  <1>4. ASSUME NEW l \in Mortal, Expire(l) PROVE IInv'
    BY ZenonT(60), <1>4, ExpireInv
  <1>5. CASE LoseLeadership
    BY <1>5, LoseLeadershipInv
  <1>6. CASE UNCHANGED vars
    <2>1. Queued' = Queued /\ Held' = Held
      BY <1>6 DEF vars, Queued, Held
    <2>2. Types'
      BY <1>6 DEF vars, IInv, Types
    <2>3. QueueInv'
      BY ZenonT(60), <1>6, <2>1 DEF vars, IInv, QueueInv
    <2>4. LogInv'
      BY ZenonT(60), <1>6 DEF vars, IInv, LogInv
    <2>5. TurnInv' /\ WakeInv'
      BY <1>6, <2>1 DEF vars, IInv, TurnInv, WakeInv
    <2> QED
      BY ZenonT(60), <2>2, <2>3, <2>4, <2>5 DEF IInv
  <1> QED
    BY ZenonT(60), <1>1, <1>2, <1>3, <1>4, <1>5, <1>6 DEF Next

(***************************************************************************)
(* The inductive invariant holds throughout.                               *)
(***************************************************************************)
THEOREM Invariance == Spec => []IInv
  BY InitInv, NextInv, PTL DEF Spec

(***************************************************************************)
(* Waiters in the queue are distinct, so it is no longer than there are    *)
(* waiters.                                                                *)
(***************************************************************************)
LEMMA QueueBounded ==
  ASSUME Types, QueueInv
  PROVE  Len(queue) <= Cardinality(Waits)
  <1>1. queue \in Seq(Waits) /\ Len(queue) \in Nat /\ queue \in [1..Len(queue) -> Waits]
    BY DEF Types
  <1>2. queue \in Injection(1..Len(queue), Waits)
    BY <1>1 DEF QueueInv, Injection, IsInjective
  <1>3. IsFiniteSet(Waits)
    BY ZenonT(60), LockQueueAssumption, FS_Subset
  <1>4. Cardinality(1..Len(queue)) <= Cardinality(Waits)
    BY ZenonT(60), <1>2, <1>3, FS_Injection
  <1>5. Cardinality(1..Len(queue)) = Len(queue)
    BY SMTT(30), <1>1, FS_Interval
  <1> QED
    BY <1>4, <1>5

(***************************************************************************)
(* The queue of a lock holds exactly the calls that wait for it, whatever  *)
(* way an AcquireLock returns, and every reachable state of the FSM is     *)
(* well formed.                                                            *)
(***************************************************************************)
THEOREM TypeCorrect == Spec => []TypeOK
  <1>1. IInv => TypeOK
    <2> SUFFICES ASSUME IInv PROVE TypeOK
      OBVIOUS
    <2>1. Types /\ QueueInv
      BY DEF IInv
    <2>2. Queued \subseteq Waits
      BY <2>1 DEF Types, Queued
    <2>3. Len(queue) <= Cardinality(Waits)
      BY <2>1, QueueBounded
    <2>4. IsFSMState(fsm)
      BY ZenonT(60), <2>1 DEF Types, GoodState
    <2> QED
      BY ZenonT(60), <2>1, <2>2, <2>3, <2>4 DEF TypeOK, Types, QueueInv, Labels
  <1> QED
    BY <1>1, Invariance, PTL

(***************************************************************************)
(* No lost wakeup, however many calls wait and however releases, expiries, *)
(* refusals, timeouts and a lost leadership interleave with them: while    *)
(* the lock is free, the head of the queue does not sleep without a        *)
(* signal.                                                                 *)
(***************************************************************************)
THEOREM HeadIsWoken == Spec => []NoLostWakeup
  <1>1. IInv => NoLostWakeup
    <2> SUFFICES ASSUME IInv, queue # <<>>, ~Held, pc[Head(queue)] = "select"
                 PROVE  ready[Head(queue)]
      BY DEF NoLostWakeup
    <2>1. Head(queue) = queue[1]
      BY DEF IInv, Types
    <2> QED
      BY <2>1 DEF IInv, WakeInv
  <1> QED
    BY <1>1, Invariance, PTL

(***************************************************************************)
(* First come, first served among the waiters: the commit that gives the   *)
(* lock to a waiting call finds nobody still queued who arrived before it. *)
(***************************************************************************)
THEOREM ArrivalOrder == Spec => WaitersInOrder
  <1> DEFINE A == \A c \in Waits :
                    log # <<>> /\ c \in Head(log).call /\ ~Held /\ Held'
                      => ahead[c] \cap Queued = {}
  <1>1. IInv => A
    <2> SUFFICES ASSUME IInv, NEW c \in Waits, log # <<>>, c \in Head(log).call
                 PROVE  ahead[c] \cap Queued = {}
      OBVIOUS
    <2>1. queue \in Seq(Waits) /\ Head(log) = log[1] /\ 1 \in 1..Len(log)
      BY DEF IInv, Types
    <2>2. pc[c] = "applying"
      BY ZenonT(60), <2>1 DEF IInv, LogInv
    <2>3. queue[1] = c /\ c \in Queued
      BY ZenonT(60), <2>2 DEF IInv, TurnInv, QueueInv
    <2>4. 1 \in 1..Len(queue)
      BY SMTT(30), <2>1, <2>3 DEF Queued
    <2>5. \A i \in 1..Len(queue) : queue[i] \notin ahead[c]
      BY ZenonT(60), <2>3, <2>4 DEF IInv, TurnInv
    <2> QED
      BY <2>1, <2>5 DEF Queued
  <1>2. IInv /\ [Next]_vars => [A]_vars
    BY <1>1
  <1> QED
    BY <1>2, Invariance, PTL DEF Spec, WaitersInOrder
=============================================================================
