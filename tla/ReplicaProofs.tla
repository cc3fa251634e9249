----------------------------- MODULE ReplicaProofs -----------------------------
(***************************************************************************)
(* Proofs about Replica, for every set of nodes, locks, owners and         *)
(* commands and every log length.                                          *)
(***************************************************************************)
EXTENDS Replica, FSMProofs

-----------------------------------------------------------------------------
(***************************************************************************)
(* The inductive invariant.  Everything a node holds is tied to hist at an *)
(* index of the log, and everything the properties say follows from what   *)
(* hist looks like along the log.                                          *)
(***************************************************************************)

(***************************************************************************)
(* Of two states along the log, what the earlier fixes for the later: a    *)
(* lock the later holds under a token the earlier had already given out is *)
(* held in the earlier too, unchanged.                                     *)
(***************************************************************************)
Before(s, t) ==
  /\ s.fencingCounter <= t.fencingCounter
  /\ s.nextLeaseID <= t.nextLeaseID
  /\ \A m \in DOMAIN t.locks :
        t.locks[m].token <= s.fencingCounter => m \in DOMAIN s.locks /\ s.locks[m] = t.locks[m]

HistInv ==
  /\ \A k \in 0..Len(log) : GoodState(hist[k])
  /\ \A k \in 1..Len(log) : hist[k] = Apply(hist[k - 1], log[k]).fsm
  /\ \A i, j \in 0..Len(log) : i <= j => Before(hist[i], hist[j])
  /\ \A k \in 0..Len(log) :
        (\A i \in 1..k : log[i].type \notin {"UpsertEndpoint", "RemoveEndpoint"})
          => hist[k].endpoints = EmptyMap

RestoresTo(data, s) ==
  \/ data = Snapshot(s)
  \/ data = LegacySnapshot(s) /\ s.endpoints = EmptyMap

NodesInv ==
  \A n \in Node :
    /\ fsm[n] = hist[applied[n]]
    /\ RestoresTo(snap[n].data, hist[snap[n].index])
    /\ \A p \in pending[n] : p.data = Snapshot(hist[p.index])

IssuedInv ==
  \A r \in issued :
    /\ r.index \in 1..Len(log)
    /\ r.cmd = log[r.index]
    /\ r.reply = Apply(hist[r.index - 1], r.cmd).reply
    /\ r.reply.err = "nil"

IInv == TypeOK /\ HistInv /\ NodesInv /\ IssuedInv

(***************************************************************************)
(* Before is reflexive.                                                    *)
(***************************************************************************)
LEMMA BeforeRefl ==
  ASSUME NEW s, GoodState(s)
  PROVE  Before(s, s)
  BY DEF GoodState, IsFSMState, Before

(***************************************************************************)
(* A step of the log extends Before: a new lock's token is a new one.      *)
(***************************************************************************)
LEMMA BeforeStep ==
  ASSUME NEW s, NEW t, NEW u, GoodState(s), GoodState(t), GoodState(u),
         Before(s, t), StepOK(t, u)
  PROVE  Before(s, u)
  <1>1. /\ s.fencingCounter \in Nat /\ t.fencingCounter \in Nat /\ u.fencingCounter \in Nat
        /\ s.nextLeaseID \in Nat /\ t.nextLeaseID \in Nat /\ u.nextLeaseID \in Nat
    BY DEF GoodState, IsFSMState
  <1>2. s.fencingCounter <= u.fencingCounter /\ s.nextLeaseID <= u.nextLeaseID
    BY <1>1 DEF Before, StepOK
  <1>3. ASSUME NEW m \in DOMAIN u.locks, u.locks[m].token <= s.fencingCounter
        PROVE  m \in DOMAIN s.locks /\ s.locks[m] = u.locks[m]
    <2>1. CASE m \in DOMAIN t.locks /\ u.locks[m] = t.locks[m]
      BY <1>3, <2>1 DEF Before
    <2>2. CASE u.locks[m].token = t.fencingCounter + 1
      BY <1>1, <1>3, <2>2 DEF Before
    <2> QED
      BY <2>1, <2>2 DEF StepOK
  <1> QED
    BY <1>2, <1>3 DEF Before

(***************************************************************************)
(* The invariant holds initially.                                          *)
(***************************************************************************)
LEMMA InitInv == Init => IInv
  <1> SUFFICES ASSUME Init PROVE IInv
    OBVIOUS
  <1>1. log = <<>> /\ Len(log) = 0
    BY DEF Init
  <1>2. hist[0] = NewFSM /\ DOMAIN hist = {0}
    BY DEF Init
  <1>3. \A k \in 0..Len(log) : k = 0 /\ GoodState(hist[k])
    BY <1>1, <1>2, NewFSMGood
  <1>4. TypeOK
    BY <1>1, <1>2, <1>3, NewFSMGood DEF Init, TypeOK, GoodState
  <1>5. HistInv
    <2>1. \A i, j \in 0..Len(log) : i <= j => Before(hist[i], hist[j])
      BY <1>3, BeforeRefl
    <2>2. NewFSM.endpoints = EmptyMap
      BY DEF NewFSM
    <2> QED
      BY <1>1, <1>2, <1>3, <2>1, <2>2 DEF HistInv
  <1>6. NodesInv
    BY <1>2 DEF Init, NodesInv, RestoresTo
  <1>7. IssuedInv
    BY DEF Init, IssuedInv
  <1> QED
    BY <1>4, <1>5, <1>6, <1>7 DEF IInv

(***************************************************************************)
(* Committing an entry extends hist by a good state that comes after all   *)
(* the earlier ones; nothing else is touched.                              *)
(***************************************************************************)
LEMMA CommitInv ==
  ASSUME IInv, NEW cmd \in Input, Commit(cmd)
  PROVE  IInv'
  <1> DEFINE k == Len(log)
             u == Apply(hist[k], cmd).fsm
  <1>1. /\ k \in Nat /\ log' \in Seq(Input) /\ Len(log') = k + 1
        /\ log'[k + 1] = cmd
        /\ \A i \in 1..k : log'[i] = log[i]
    BY DEF IInv, TypeOK, Commit
  <1>2. /\ DOMAIN hist' = 0..(k + 1)
        /\ \A i \in 0..k : hist'[i] = hist[i]
        /\ hist'[k + 1] = u
    BY <1>1 DEF Commit
  <1>3. UNCHANGED <<fsm, applied, pending, snap, issued>>
    BY DEF Commit
  <1>4. GoodState(hist[k]) /\ cmd \in Command
    BY <1>1, ReplicaAssumption DEF IInv, HistInv
  <1>5. GoodState(u) /\ StepOK(hist[k], u)
    BY <1>4, ApplyGood, ApplyStep
  <1> HIDE DEF u, k
  <1>6. \A i \in 0..(k + 1) : GoodState(hist'[i])
    BY <1>1, <1>2, <1>5 DEF IInv, HistInv, k
  <1>7. TypeOK'
    <2>1. /\ applied \in [Node -> 0..k] /\ DOMAIN fsm = Node /\ DOMAIN snap = Node
          /\ DOMAIN pending = Node
          /\ \A n \in Node : IsFSMState(fsm[n]) /\ snap[n].index \in 0..k
          /\ \A n \in Node : \A p \in pending[n] : p.index \in 0..k
      BY DEF IInv, TypeOK, k
    <2>2. applied \in [Node -> 0..(k + 1)]
      BY <1>1, <2>1
    <2>3. \A i \in 0..k : i \in 0..(k + 1)
      BY <1>1
    <2>4. \A i \in 0..(k + 1) : IsFSMState(hist'[i])
      BY <1>6 DEF GoodState
    <2> QED
      BY <1>1, <1>2, <1>3, <2>1, <2>2, <2>3, <2>4 DEF TypeOK
  <1>8. HistInv'
    <2>1. \A i \in 1..(k + 1) : hist'[i] = Apply(hist'[i - 1], log'[i]).fsm
      <3> SUFFICES ASSUME NEW i \in 1..(k + 1)
                   PROVE  hist'[i] = Apply(hist'[i - 1], log'[i]).fsm
        OBVIOUS
      <3>1. CASE i = k + 1
        <4>1. i - 1 = k /\ k \in 0..k
          BY <1>1, <3>1
        <4> QED
          BY <1>1, <1>2, <3>1, <4>1 DEF u
      <3>2. CASE i # k + 1
        <4>1. i \in 1..k /\ i - 1 \in 0..k /\ i \in 0..k
          BY <1>1, <3>2
        <4> QED
          BY <1>1, <1>2, <4>1 DEF IInv, HistInv, k
      <3> QED
        BY <3>1, <3>2
    <2>2. \A i, j \in 0..(k + 1) : i <= j => Before(hist'[i], hist'[j])
      <3> SUFFICES ASSUME NEW i \in 0..(k + 1), NEW j \in 0..(k + 1), i <= j
                   PROVE  Before(hist'[i], hist'[j])
        OBVIOUS
      <3>1. CASE i = k + 1
        <4>1. j = k + 1
          BY <1>1, <3>1
        <4> QED
          BY <1>2, <1>5, <3>1, <4>1, BeforeRefl
      <3>2. CASE i # k + 1 /\ j # k + 1
        <4>1. i \in 0..k /\ j \in 0..k
          BY <1>1, <3>2
        <4> QED
          BY <1>2, <4>1 DEF IInv, HistInv, k
      <3>3. CASE i # k + 1 /\ j = k + 1
        <4>1. i \in 0..k /\ k \in 0..k /\ i <= k
          BY <1>1, <3>3
        <4>2. Before(hist[i], hist[k]) /\ GoodState(hist[i])
          BY <4>1 DEF IInv, HistInv, k
        <4> QED
          BY <1>2, <1>4, <1>5, <3>3, <4>1, <4>2, BeforeStep
      <3> QED
        BY <3>1, <3>2, <3>3
    <2>3. ASSUME NEW j \in 0..(k + 1),
                 \A i \in 1..j : log'[i].type \notin {"UpsertEndpoint", "RemoveEndpoint"}
          PROVE  hist'[j].endpoints = EmptyMap
      <3>1. CASE j \in 0..k
        BY <1>1, <1>2, <2>3, <3>1 DEF IInv, HistInv, k
      <3>2. CASE j = k + 1
        <4>1. /\ cmd.type \notin {"UpsertEndpoint", "RemoveEndpoint"}
              /\ \A i \in 1..k : log[i].type \notin {"UpsertEndpoint", "RemoveEndpoint"}
          BY <1>1, <2>3, <3>2
        <4>2. hist[k].endpoints = EmptyMap
          BY <1>1, <4>1 DEF IInv, HistInv, k
        <4>3. u.endpoints = hist[k].endpoints
          BY <1>4, <4>1, ApplyStep DEF u
        <4> QED
          BY <1>2, <3>2, <4>2, <4>3
      <3> QED
        BY <1>1, <3>1, <3>2
    <2> QED
      BY ZenonT(60), <1>1, <1>6, <2>1, <2>2, <2>3 DEF HistInv
  <1>9. NodesInv'
    <2>1. \A n \in Node : /\ applied[n] \in 0..k /\ snap[n].index \in 0..k
                          /\ \A p \in pending[n] : p.index \in 0..k
      BY DEF IInv, TypeOK, k
    <2> QED
      BY <1>2, <1>3, <2>1 DEF IInv, NodesInv
  <1>10. IssuedInv'
    <2> SUFFICES ASSUME NEW r \in issued
                 PROVE  /\ r.index \in 1..(k + 1)
                        /\ r.cmd = log'[r.index]
                        /\ r.reply = Apply(hist'[r.index - 1], r.cmd).reply
                        /\ r.reply.err = "nil"
      BY <1>1, <1>3 DEF IssuedInv
    <2>1. r.index \in 1..k /\ r.index - 1 \in 0..k
      BY <1>1 DEF IInv, IssuedInv, k
    <2> QED
      BY <1>1, <1>2, <2>1 DEF IInv, IssuedInv, k
  <1> QED
    BY <1>7, <1>8, <1>9, <1>10 DEF IInv

(***************************************************************************)
(* Applying the next entry moves a node one step along hist.               *)
(***************************************************************************)
LEMMA ApplyEntryInv ==
  ASSUME IInv, NEW n \in Node, ApplyEntry(n)
  PROVE  IInv'
  <1> DEFINE a == applied[n]
             cmd == log[a + 1]
             outcome == Apply(fsm[n], cmd)
  <1>1. /\ a \in 0..Len(log) /\ a < Len(log) /\ Len(log) \in Nat
        /\ a + 1 \in 1..Len(log) /\ a + 1 \in 0..Len(log) /\ (a + 1) - 1 = a
    BY DEF IInv, TypeOK, ApplyEntry
  <1>2. fsm[n] = hist[a] /\ hist[a + 1] = outcome.fsm
    BY <1>1 DEF IInv, NodesInv, HistInv
  <1>3. /\ fsm' = [fsm EXCEPT ![n] = hist[a + 1]]
        /\ applied' = [applied EXCEPT ![n] = a + 1]
        /\ UNCHANGED <<log, pending, snap, hist>>
    BY <1>2 DEF ApplyEntry
  <1>4. \/ issued' = issued
        \/ /\ issued' = issued \cup {[index |-> a + 1, cmd |-> cmd, reply |-> outcome.reply]}
           /\ outcome.reply.err = "nil"
    BY DEF ApplyEntry
  <1> HIDE DEF a, cmd, outcome
  <1>5. TypeOK'
    BY <1>1, <1>3 DEF IInv, TypeOK
  <1>6. HistInv'
    BY <1>3 DEF IInv, HistInv
  <1>7. NodesInv'
    BY <1>1, <1>3 DEF IInv, NodesInv, TypeOK
  <1>8. IssuedInv'
    <2>1. CASE issued' = issued
      BY <1>3, <2>1 DEF IInv, IssuedInv
    <2>2. CASE /\ issued' = issued \cup {[index |-> a + 1, cmd |-> cmd, reply |-> outcome.reply]}
               /\ outcome.reply.err = "nil"
      <3>1. outcome.reply = Apply(hist[(a + 1) - 1], cmd).reply
        BY <1>1, <1>2 DEF outcome
      <3>2. cmd = log[a + 1]
        BY DEF cmd
      <3>3. ASSUME NEW r \in issued'
            PROVE  /\ r.index \in 1..Len(log)
                   /\ r.cmd = log[r.index]
                   /\ r.reply = Apply(hist[r.index - 1], r.cmd).reply
                   /\ r.reply.err = "nil"
        <4>1. CASE r \in issued
          BY <4>1 DEF IInv, IssuedInv
        <4>2. CASE r = [index |-> a + 1, cmd |-> cmd, reply |-> outcome.reply]
          <5>1. r.index = a + 1 /\ r.cmd = cmd /\ r.reply = outcome.reply
            BY <4>2
          <5> QED
            BY <1>1, <2>2, <3>1, <3>2, <5>1
        <4> QED
          BY <2>2, <3>3, <4>1, <4>2
      <3> QED
        BY <1>3, <3>3 DEF IssuedInv
    <2> QED
      BY <1>4, <2>1, <2>2
  <1> QED
    BY <1>5, <1>6, <1>7, <1>8 DEF IInv

(***************************************************************************)
(* Taking, writing, restoring and installing snapshots: the copy and the   *)
(* index it is filed under stay together.                                  *)
(***************************************************************************)
LEMMA SnapshotStepsInv ==
  ASSUME IInv, NEW n \in Node, TakeSnapshot(n) \/ Persist(n) \/ PersistLegacy(n)
  PROVE  IInv'
  <1>1. UNCHANGED <<log, fsm, applied, hist, issued>>
    BY ZenonT(60) DEF TakeSnapshot, Persist, PersistLegacy
  <1>2. HistInv' /\ IssuedInv'
    BY <1>1 DEF IInv, HistInv, IssuedInv
  <1>3. applied[n] \in 0..Len(log) /\ fsm[n] = hist[applied[n]]
    BY DEF IInv, TypeOK, NodesInv
  <1>4. CASE TakeSnapshot(n)
    <2> DEFINE p == [index |-> applied[n], data |-> Snapshot(fsm[n])]
    <2>1. pending' = [pending EXCEPT ![n] = {p}] /\ snap' = snap
      BY <1>4 DEF TakeSnapshot
    <2>2. p.index \in 0..Len(log) /\ p.data = Snapshot(hist[p.index])
      BY <1>3
    <2> HIDE DEF p
    <2>3. TypeOK'
      BY <1>1, <2>1, <2>2 DEF IInv, TypeOK
    <2>4. NodesInv'
      BY <1>1, <2>1, <2>2 DEF IInv, NodesInv, TypeOK
    <2> QED
      BY <1>2, <2>3, <2>4 DEF IInv
  <1>5. CASE Persist(n) \/ PersistLegacy(n)
    <2>1. PICK q : /\ q.index \in 0..Len(log) /\ RestoresTo(q.data, hist[q.index])
                   /\ snap' = [snap EXCEPT ![n] = Newer(q, snap[n])] \/ snap' = snap
      <3>1. CASE Persist(n)
        <4>1. PICK p \in pending[n] : \/ snap' = [snap EXCEPT ![n] = Newer(p, snap[n])]
                                      \/ snap' = snap
          BY <3>1 DEF Persist
        <4>2. p.index \in 0..Len(log) /\ RestoresTo(p.data, hist[p.index])
          BY DEF IInv, TypeOK, NodesInv, RestoresTo
        <4> QED
          BY <4>1, <4>2
      <3>2. CASE PersistLegacy(n)
        <4>1. PICK p \in pending[n] :
                /\ \A i \in 1..p.index : log[i].type \notin {"UpsertEndpoint", "RemoveEndpoint"}
                /\ snap' = [snap EXCEPT
                              ![n] = Newer([index |-> p.index, data |-> LegacySnapshot(p.data)],
                                           snap[n])]
          BY ZenonT(60), <3>2 DEF PersistLegacy
        <4> DEFINE q == [index |-> p.index, data |-> LegacySnapshot(p.data)]
        <4>2. p.index \in 0..Len(log) /\ p.data = Snapshot(hist[p.index])
          BY DEF IInv, TypeOK, NodesInv
        <4>3. hist[p.index].endpoints = EmptyMap
          BY <4>1, <4>2 DEF IInv, HistInv
        <4>4. q.index = p.index /\ q.data = LegacySnapshot(hist[p.index])
          BY <4>2 DEF LegacySnapshot, Snapshot
        <4>5. q.index \in 0..Len(log) /\ RestoresTo(q.data, hist[q.index])
          BY <4>2, <4>3, <4>4 DEF RestoresTo
        <4> HIDE DEF q
        <4> QED
          BY ZenonT(60), <4>1, <4>5 DEF q
      <3> QED
        BY <1>5, <3>1, <3>2
    <2>2. pending' = [pending EXCEPT ![n] = {}]
      BY ZenonT(60), <1>5 DEF Persist, PersistLegacy
    <2>3. /\ DOMAIN snap' = Node
          /\ \A m \in Node : snap'[m].index \in 0..Len(log)
                            /\ RestoresTo(snap'[m].data, hist[snap'[m].index])
      BY <2>1 DEF IInv, TypeOK, NodesInv, Newer
    <2>4. TypeOK'
      BY <1>1, <2>2, <2>3 DEF IInv, TypeOK
    <2>5. NodesInv'
      BY <1>1, <2>2, <2>3 DEF IInv, NodesInv, TypeOK
    <2> QED
      BY <1>2, <2>4, <2>5 DEF IInv
  <1> QED
    BY <1>4, <1>5

(***************************************************************************)
(* A restart or an installed snapshot puts a node at a state of hist.      *)
(***************************************************************************)
LEMMA RestoreStepsInv ==
  ASSUME IInv, NEW n \in Node, NEW m \in Node, Restart(n) \/ InstallSnapshot(n, m)
  PROVE  IInv'
  <1>1. UNCHANGED <<log, hist, issued>>
    BY DEF Restart, InstallSnapshot
  <1>2. HistInv' /\ IssuedInv'
    BY <1>1 DEF IInv, HistInv, IssuedInv
  <1>3. ASSUME NEW q \in Node, NEW u
        PROVE  /\ snap[q].index \in 0..Len(log)
               /\ ValidSnapshot(snap[q].data)
               /\ Restore(u, snap[q].data) = hist[snap[q].index]
               /\ IsFSMState(hist[snap[q].index])
    <2>1. snap[q].index \in 0..Len(log) /\ RestoresTo(snap[q].data, hist[snap[q].index])
      BY ZenonT(60) DEF IInv, TypeOK, NodesInv
    <2>2. GoodState(hist[snap[q].index])
      BY <2>1 DEF IInv, HistInv
    <2> QED
      BY <2>1, <2>2, RestoreExact DEF RestoresTo, GoodState
  <1>4. PICK q \in Node :
          /\ fsm' = [fsm EXCEPT ![n] = hist[snap[q].index]]
          /\ applied' = [applied EXCEPT ![n] = snap[q].index]
          /\ snap' = snap \/ snap' = [snap EXCEPT ![n] = Newer(snap[q], snap[n])]
          /\ pending' = pending \/ pending' = [pending EXCEPT ![n] = {}]
    <2>1. CASE Restart(n)
      <3>1. fsm' = [fsm EXCEPT ![n] = hist[snap[n].index]]
        BY ZenonT(60), <1>3, <2>1 DEF Restart
      <3> QED
        BY ZenonT(60), <2>1, <3>1 DEF Restart
    <2>2. CASE InstallSnapshot(n, m)
      <3>1. fsm' = [fsm EXCEPT ![n] = hist[snap[m].index]]
        BY ZenonT(60), <1>3, <2>2 DEF InstallSnapshot
      <3>2. applied' = [applied EXCEPT ![n] = snap[m].index]
        BY ZenonT(60), <1>3, <2>2 DEF InstallSnapshot
      <3> QED
        BY ZenonT(60), <2>2, <3>1, <3>2 DEF InstallSnapshot
    <2> QED
      BY <2>1, <2>2
  <1>5. /\ DOMAIN snap' = Node
        /\ \A r \in Node : snap'[r].index \in 0..Len(log)
                          /\ RestoresTo(snap'[r].data, hist[snap'[r].index])
    BY <1>4 DEF IInv, TypeOK, NodesInv, Newer
  <1>6. /\ DOMAIN pending' = Node
        /\ \A r \in Node : pending'[r] = pending[r] \/ pending'[r] = {}
    BY <1>4 DEF IInv, TypeOK
  <1>7. TypeOK'
    BY ZenonT(60), <1>1, <1>3, <1>4, <1>5, <1>6 DEF IInv, TypeOK
  <1>8. NodesInv'
    BY ZenonT(60), <1>1, <1>3, <1>4, <1>5, <1>6 DEF IInv, NodesInv, TypeOK
  <1> QED
    BY <1>2, <1>7, <1>8 DEF IInv

(***************************************************************************)
(* The states of the history are good.                                     *)
(***************************************************************************)
LEMMA HistAt ==
  ASSUME IInv, NEW k \in 0..Len(log)
  PROVE  GoodState(hist[k])
  BY DEF IInv, HistInv

(***************************************************************************)
(* Every step preserves the invariant.                                     *)
(***************************************************************************)
LEMMA NextInv == IInv /\ [Next]_vars => IInv'
  <1> SUFFICES ASSUME IInv, [Next]_vars PROVE IInv'
    OBVIOUS
  <1>1. ASSUME NEW cmd \in Input, Commit(cmd) PROVE IInv'
    BY <1>1, CommitInv
  <1>2. ASSUME NEW n \in Node, ApplyEntry(n) PROVE IInv'
    BY <1>2, ApplyEntryInv
  <1>3. ASSUME NEW n \in Node, TakeSnapshot(n) \/ Persist(n) \/ PersistLegacy(n) PROVE IInv'
    BY <1>3, SnapshotStepsInv
  <1>4. ASSUME NEW n \in Node, NEW m \in Node, Restart(n) \/ InstallSnapshot(n, m) PROVE IInv'
    BY <1>4, RestoreStepsInv
  <1>5. CASE UNCHANGED vars
    BY <1>5 DEF vars, IInv, TypeOK, HistInv, NodesInv, IssuedInv
  <1> QED
    BY <1>1, <1>2, <1>3, <1>4, <1>5 DEF Next

(***************************************************************************)
(* The invariant holds in every reachable state.                           *)
(***************************************************************************)
THEOREM Invariance == Spec => []IInv
  BY NextInv, InitInv, PTL DEF Spec

(***************************************************************************)
(* Every state is well typed: no command, snapshot or restart takes a      *)
(* state machine out of its type.                                          *)
(***************************************************************************)
THEOREM TypeCorrect == Spec => []TypeOK
  <1>1. IInv => TypeOK
    BY DEF IInv
  <1> QED
    BY <1>1, Invariance, PTL

(***************************************************************************)
(* Nodes that have applied equally much are in equal states, through any   *)
(* pattern of crashes, snapshots and installs.                             *)
(***************************************************************************)
THEOREM Agreement == Spec => []ReplicasAgree
  <1>1. IInv => ReplicasAgree
    BY ZenonT(60) DEF IInv, NodesInv, ReplicasAgree
  <1> QED
    BY <1>1, Invariance, PTL

(***************************************************************************)
(* On every node, every held lock is backed by a live lease of its owner.  *)
(***************************************************************************)
THEOREM LocksHaveLeases == Spec => []LocksBackedByLeases
  <1>1. IInv => LocksBackedByLeases
    BY DEF IInv, TypeOK, HistInv, NodesInv, GoodState, LocksBackedByLeases
  <1> QED
    BY <1>1, Invariance, PTL

(***************************************************************************)
(* No node ever stores a snapshot that Restore would refuse.               *)
(***************************************************************************)
THEOREM SnapshotsAccepted == Spec => []SnapshotsRestorable
  <1>1. IInv => SnapshotsRestorable
    <2> SUFFICES ASSUME IInv, NEW n \in Node PROVE ValidSnapshot(snap[n].data)
      BY DEF SnapshotsRestorable
    <2>1. RestoresTo(snap[n].data, hist[snap[n].index])
      BY DEF IInv, NodesInv
    <2>2. snap[n].index \in 0..Len(log)
      BY DEF IInv, TypeOK
    <2>3. GoodState(hist[snap[n].index])
      BY ZenonT(60), <2>2, HistAt
    <2> QED
      BY <2>1, <2>3, RestoreExact DEF RestoresTo
  <1> QED
    BY <1>1, Invariance, PTL

(***************************************************************************)
(* A successful AcquireLock reply is the lock as hist has it at the        *)
(* reply's index.                                                          *)
(***************************************************************************)
LEMMA GrantInHist ==
  ASSUME IInv, NEW g \in Grants
  PROVE  /\ g.index \in 1..Len(log) /\ g.index \in 0..Len(log)
         /\ g.cmd.lock \in DOMAIN hist[g.index].locks
         /\ hist[g.index].locks[g.cmd.lock].token = g.reply.token
         /\ hist[g.index].locks[g.cmd.lock].lease = g.cmd.lease
         /\ g.reply.token \in Nat /\ g.reply.token <= hist[g.index].fencingCounter
         /\ hist[g.index].fencingCounter \in Nat
  <1>1. /\ g.index \in 1..Len(log) /\ g.cmd = log[g.index]
        /\ g.reply = Apply(hist[g.index - 1], g.cmd).reply
        /\ g.reply.err = "nil" /\ g.cmd.type = "AcquireLock"
    BY DEF IInv, IssuedInv, Grants
  <1>2. g.index \in 0..Len(log) /\ g.index - 1 \in 0..Len(log)
    BY <1>1 DEF IInv, TypeOK
  <1>3. /\ GoodState(hist[g.index - 1]) /\ GoodState(hist[g.index])
        /\ g.cmd \in Command
    BY <1>1, <1>2, ReplicaAssumption DEF IInv, TypeOK, HistInv
  <1>4. hist[g.index] = Apply(hist[g.index - 1], g.cmd).fsm
    BY ZenonT(60), <1>1 DEF IInv, HistInv
  <1>5. /\ g.cmd.lock \in DOMAIN hist[g.index].locks
        /\ hist[g.index].locks[g.cmd.lock].token = g.reply.token
        /\ hist[g.index].locks[g.cmd.lock].lease = g.cmd.lease
    <2> DEFINE a == Apply(hist[g.index - 1], g.cmd)
    <2>1. a.reply.err = "nil"
      BY <1>1
    <2>2. /\ g.cmd.lock \in DOMAIN a.fsm.locks
          /\ a.fsm.locks[g.cmd.lock].token = a.reply.token
          /\ a.fsm.locks[g.cmd.lock].lease = g.cmd.lease
      BY <1>1, <1>3, <2>1, ReplyTrue
    <2> QED
      BY <1>1, <1>4, <2>2
  <1>6. /\ g.reply.token \in Nat /\ g.reply.token <= hist[g.index].fencingCounter
        /\ hist[g.index].fencingCounter \in Nat
    <2>1. hist[g.index].fencingCounter \in Nat
      BY ZenonT(60), <1>3 DEF GoodState, IsFSMState
    <2>2. g.reply.token \in 1..hist[g.index].fencingCounter
      BY ZenonT(60), <1>3, <1>5 DEF GoodState, TokensBounded
    <2> QED
      BY <2>1, <2>2
  <1> QED
    BY ZenonT(60), <1>1, <1>2, <1>5, <1>6

(***************************************************************************)
(* A token that is still held at a later grant has been held ever since it *)
(* was given out.                                                          *)
(***************************************************************************)
LEMMA HeldSince ==
  ASSUME IInv, NEW g \in Grants, NEW h \in Grants, NEW k \in g.index..h.index,
         h.reply.token <= hist[g.index].fencingCounter
  PROVE  /\ h.cmd.lock \in DOMAIN hist[k].locks
         /\ hist[k].locks[h.cmd.lock] = hist[h.index].locks[h.cmd.lock]
  <1>1. /\ g.index \in 1..Len(log) /\ h.index \in 1..Len(log) /\ Len(log) \in Nat
        /\ g.index \in 0..Len(log) /\ h.index \in 0..Len(log)
    BY GrantInHist DEF IInv, TypeOK
  <1>2. k \in 0..Len(log) /\ g.index <= k /\ k <= h.index
    BY <1>1
  <1>3. Before(hist[g.index], hist[k]) /\ Before(hist[k], hist[h.index])
    BY ZenonT(60), <1>1, <1>2 DEF IInv, HistInv
  <1>4. /\ GoodState(hist[k]) /\ h.reply.token \in Nat
        /\ hist[g.index].fencingCounter \in Nat
        /\ h.cmd.lock \in DOMAIN hist[h.index].locks
        /\ hist[h.index].locks[h.cmd.lock].token = h.reply.token
    BY ZenonT(60), <1>2, GrantInHist DEF IInv, HistInv
  <1>5. h.reply.token <= hist[k].fencingCounter
    BY <1>3, <1>4 DEF Before, GoodState, IsFSMState
  <1> QED
    BY ZenonT(60), <1>3, <1>4, <1>5 DEF Before

(***************************************************************************)
(* Fencing works: a later grant of a lock to another lease always carries  *)
(* a larger token than an earlier grant of it.                             *)
(***************************************************************************)
THEOREM FencingTokensOrdered == Spec => []FencingOrder
  <1>1. IInv => FencingOrder
    <2> SUFFICES ASSUME IInv, NEW g \in Grants, NEW h \in Grants,
                        g.cmd.lock = h.cmd.lock, g.index <= h.index
                 PROVE  /\ g.reply.token <= h.reply.token
                        /\ g.reply.token = h.reply.token => g.cmd.lease = h.cmd.lease
      BY ZenonT(60) DEF FencingOrder
    <2>1. /\ hist[g.index].locks[g.cmd.lock].token = g.reply.token
          /\ hist[g.index].locks[g.cmd.lock].lease = g.cmd.lease
          /\ hist[h.index].locks[h.cmd.lock].token = h.reply.token
          /\ hist[h.index].locks[h.cmd.lock].lease = h.cmd.lease
          /\ g.reply.token \in Nat /\ h.reply.token \in Nat
          /\ g.reply.token <= hist[g.index].fencingCounter
          /\ hist[g.index].fencingCounter \in Nat
          /\ g.index \in 1..Len(log) /\ h.index \in 1..Len(log)
      BY ZenonT(60), GrantInHist
    <2>2. g.index \in g.index..h.index
      BY <2>1 DEF IInv, TypeOK
    <2>3. h.reply.token <= hist[g.index].fencingCounter =>
            hist[g.index].locks[h.cmd.lock] = hist[h.index].locks[h.cmd.lock]
      BY ZenonT(60), <2>2, HeldSince
    <2>4. CASE h.reply.token <= hist[g.index].fencingCounter
      <3>1. g.reply.token = h.reply.token /\ g.cmd.lease = h.cmd.lease
        BY ZenonT(60), <2>1, <2>3, <2>4
      <3>2. h.reply.token \in Nat
        BY ZenonT(60), <2>1
      <3>3. g.reply.token <= h.reply.token
        BY <3>1, <3>2
      <3> QED
        BY <3>1, <3>3
    <2>5. CASE ~(h.reply.token <= hist[g.index].fencingCounter)
      BY <2>1, <2>5
    <2> QED
      BY <2>4, <2>5
  <1> QED
    BY <1>1, Invariance, PTL

(***************************************************************************)
(* Two grants with one token are one uninterrupted hold.                   *)
(***************************************************************************)
LEMMA TokensApart == IInv => TokensNeverReused
  <1> SUFFICES ASSUME IInv, NEW g \in Grants, NEW h \in Grants,
                      g.reply.token = h.reply.token, g.index <= h.index
               PROVE  /\ g.cmd.lock = h.cmd.lock /\ g.cmd.lease = h.cmd.lease
                      /\ \A k \in g.index..h.index :
                           /\ g.cmd.lock \in DOMAIN hist[k].locks
                           /\ hist[k].locks[g.cmd.lock].token = g.reply.token
    BY ZenonT(60) DEF TokensNeverReused
  <1>1. /\ g.cmd.lock \in DOMAIN hist[g.index].locks
        /\ hist[g.index].locks[g.cmd.lock].token = g.reply.token
        /\ hist[g.index].locks[g.cmd.lock].lease = g.cmd.lease
        /\ hist[h.index].locks[h.cmd.lock].token = h.reply.token
        /\ hist[h.index].locks[h.cmd.lock].lease = h.cmd.lease
        /\ h.reply.token <= hist[g.index].fencingCounter
        /\ g.index \in 1..Len(log) /\ h.index \in 1..Len(log)
        /\ g.index \in 0..Len(log)
    BY ZenonT(60), GrantInHist
  <1>2. \A k \in g.index..h.index :
          /\ h.cmd.lock \in DOMAIN hist[k].locks
          /\ hist[k].locks[h.cmd.lock] = hist[h.index].locks[h.cmd.lock]
    BY ZenonT(60), <1>1, HeldSince
  <1>3. g.index \in g.index..h.index
    BY <1>1 DEF IInv, TypeOK
  <1>4. /\ h.cmd.lock \in DOMAIN hist[g.index].locks
        /\ hist[g.index].locks[h.cmd.lock] = hist[h.index].locks[h.cmd.lock]
    BY ZenonT(60), <1>2, <1>3
  <1>5. \A n, m \in DOMAIN hist[g.index].locks :
          hist[g.index].locks[n].token = hist[g.index].locks[m].token => n = m
    BY ZenonT(60), <1>1 DEF IInv, HistInv, GoodState, TokensBounded
  <1>6. g.cmd.lock = h.cmd.lock
    BY ZenonT(60), <1>1, <1>4, <1>5
  <1> QED
    BY ZenonT(60), <1>1, <1>2, <1>4, <1>6

(***************************************************************************)
(* No fencing token is ever handed out for two holds of a lock, nor for    *)
(* two locks.                                                              *)
(***************************************************************************)
THEOREM TokensUnique == Spec => []TokensNeverReused
  BY TokensApart, Invariance, PTL

(***************************************************************************)
(* No lease id is ever handed out twice.                                   *)
(***************************************************************************)
THEOREM LeaseIDsUnique == Spec => []LeaseIDsNeverReused
  <1>1. IInv => LeaseIDsNeverReused
    <2> SUFFICES ASSUME IInv PROVE LeaseIDsNeverReused
      BY ZenonT(60)
    <2>1. ASSUME NEW c \in Creations
          PROVE  /\ c.index \in 1..Len(log) /\ c.index - 1 \in 0..Len(log)
                 /\ c.index \in 0..Len(log)
                 /\ hist[c.index - 1].nextLeaseID \in Nat
                 /\ c.reply.lease = hist[c.index - 1].nextLeaseID
                 /\ hist[c.index].nextLeaseID = c.reply.lease + 1
      <3>1. /\ c.index \in 1..Len(log) /\ c.cmd = log[c.index]
            /\ c.reply = Apply(hist[c.index - 1], c.cmd).reply
            /\ c.reply.err = "nil" /\ c.cmd.type = "CreateLease"
        BY DEF IInv, IssuedInv, Creations
      <3>2. c.index \in 0..Len(log) /\ c.index - 1 \in 0..Len(log)
        BY <3>1 DEF IInv, TypeOK
      <3>3. GoodState(hist[c.index - 1]) /\ c.cmd \in Command
        BY <3>1, <3>2, ReplicaAssumption DEF IInv, TypeOK, HistInv
      <3>4. hist[c.index] = Apply(hist[c.index - 1], c.cmd).fsm
        BY ZenonT(60), <3>1 DEF IInv, HistInv
      <3>5. hist[c.index - 1].nextLeaseID \in Nat
        BY <3>3 DEF GoodState, IsFSMState
      <3> QED
        BY <3>1, <3>2, <3>3, <3>4, <3>5, ReplyTrue
    <2>2. ASSUME NEW c \in Creations, NEW d \in Creations, c.index < d.index
          PROVE  c.reply.lease # d.reply.lease
      <3>1. c.index <= d.index - 1 /\ c.index \in 0..Len(log) /\ d.index - 1 \in 0..Len(log)
        BY <2>1, <2>2
      <3>2. hist[c.index].nextLeaseID <= hist[d.index - 1].nextLeaseID
        BY <3>1 DEF IInv, HistInv, Before
      <3> QED
        BY <2>1, <3>2
    <2>3. \A c \in Creations : c.index \in Int
      BY <2>1
    <2> QED
      BY <2>2, <2>3 DEF LeaseIDsNeverReused
  <1> QED
    BY <1>1, Invariance, PTL
=============================================================================
