---------------------------- MODULE LeaseTracking ----------------------------
(***************************************************************************)
(* Who keeps a lease alive: internal/cluster/lease.go.  Renewals are not   *)
(* replicated; each node has an in-memory tracker that counts only while   *)
(* the node leads, an expiry loop that turns a passed deadline into a      *)
(* replicated ExpireLease, and RenewLease handlers that run concurrently   *)
(* with it.  The steps of the loop and of the handlers interleave with     *)
(* each other, with the log, with the clock, and with elections, stale     *)
(* leaders and crashes.                                                    *)
(*                                                                         *)
(* Raft is external.  clog is the committed log; tail[n] what node n's log *)
(* holds beyond it.  Only the leader of the newest elected term can        *)
(* commit; an older leader may believe it leads, and go on serving, until  *)
(* it steps down.  A candidate that wins has every committed entry and     *)
(* some prefix of what was left uncommitted, and appends a no-op.          *)
(*                                                                         *)
(* promised is a history variable: the (real) time until which the lease   *)
(* has to live, one TTL after a leader read its clock for the CreateLease  *)
(* or the renewal that was acknowledged.  The client counts from when it   *)
(* sent the request, which is no later.                                    *)
(***************************************************************************)
EXTENDS FSM, Sequences, FiniteSetsExt

CONSTANTS
  Node,        \* cluster nodes
  Request,     \* concurrent RenewLease calls
  TTL,         \* the leases' time to live, in ticks of the clock
  Skew,        \* Skew[n]: node n's clock minus real time
  Stalls,      \* what a goroutine may have read before a long sleep and use after it:
               \* "term" (or leadership, or claims made in it), "clock"
  MaxTime, MaxTerm, MaxLog, MaxLeases    \* bounds

ASSUME LeaseTrackingAssumption ==
  /\ TTL \in Nat \ {0}
  /\ Skew \in [Node -> Nat]
  /\ Stalls \subseteq {"term", "clock"}
  /\ MaxTime \in Nat /\ MaxTerm \in Nat /\ MaxLog \in Nat /\ MaxLeases \in Nat
  /\ Owner # {}
  /\ \A n \in Node : MaxTime + Skew[n] + TTL <= MaxInt64

LeaseID == 1..MaxLeases

VARIABLES
  now,          \* real time
  leads,        \* leads[n]: raft.State() is Leader
  curTerm,      \* curTerm[n]: raft.CurrentTerm()
  elected,      \* the newest term with a leader
  clog,         \* committed log
  cfsm,         \* the state after all of clog
  tail,         \* tail[n]: n's uncommitted entries
  applied, fsm, \* applied[n], fsm[n]: what n's FSM has applied, and its state
  tracker,      \* tracker[n]: leaseTracker
  barrierTerm,  \* barrierTerm[n]: the last term awaitTermApplied finished for
  loop,         \* loop[n]: leaseExpiryLoop
  req,          \* req[q]: a RenewLease call
  promised

raftVars == <<leads, curTerm, elected, clog, cfsm, tail>>
vars == <<now, leads, curTerm, elected, clog, cfsm, tail, applied, fsm, tracker,
          barrierTerm, loop, req, promised>>

IsLeader(n) == leads[n]
Now(n) == now + Skew[n]
Leases(n) == DOMAIN fsm[n].leases
LogLen(n) == Len(clog) + Len(tail[n])

Noop == [type |-> "Noop"]
ApplyLog(s, e) == IF e.cmd = Noop THEN s ELSE Apply(s, e.cmd).fsm
NewEntry(n, term, c) == [term |-> term, by |-> n, cmd |-> c]
NoRequest == [pc |-> "idle"]
IdleLoop == [pc |-> "idle"]
NewTracker == [term |-> 0, since |-> 0, renewedAt |-> [id \in LeaseID |-> 0], expiring |-> {}]

Init ==
  /\ now = 1
  /\ leads = [n \in Node |-> FALSE]
  /\ curTerm = [n \in Node |-> 0]
  /\ elected = 0
  /\ clog = <<>> /\ cfsm = NewFSM
  /\ tail = [n \in Node |-> <<>>]
  /\ applied = [n \in Node |-> 0]
  /\ fsm = [n \in Node |-> NewFSM]
  /\ tracker = [n \in Node |-> NewTracker]
  /\ barrierTerm = [n \in Node |-> 0]
  /\ loop = [n \in Node |-> IdleLoop]
  /\ req = [q \in Request |-> NoRequest]
  /\ promised = [id \in LeaseID |-> 0]
-----------------------------------------------------------------------------
(***************************************************************************)
(* leaseTracker.                                                           *)
(***************************************************************************)
SyncTerm(t, term, at) ==
  IF term = t.term THEN t ELSE [NewTracker EXCEPT !.term = term, !.since = at]

(* mutant: no grace period for a new leader *)
DeadlineWithoutGrace(t, id, lease) ==
  Max({lease.expiresAt} \cup {from + lease.ttl : from \in {t.renewedAt[id]} \ {0}})

Deadline(t, id, lease) ==
  Max({lease.expiresAt}
        \cup {from + lease.ttl : from \in {t.since, t.renewedAt[id]} \ {0}})

Dead(t, id, lease, at) == id \in t.expiring \/ at >= Deadline(t, id, lease)

Renew(t, id, at) == [t EXCEPT !.renewedAt[id] = at]

(* mutant: the expiry loop goes by the replicated deadline alone *)
ExpiredByRecord(t, leases, at) ==
  {id \in DOMAIN leases : id \notin t.expiring /\ at >= leases[id].expiresAt}

Expired(t, leases, at) ==
  {id \in DOMAIN leases : id \notin t.expiring /\ at >= Deadline(t, id, leases[id])}

(* mutant: a failed expiry stays claimed *)
FinishCommittedExpiry(t, id, committed) ==
  IF committed THEN [t EXCEPT !.expiring = @ \ {id}, !.renewedAt[id] = 0] ELSE t

FinishExpiry(t, id, committed) ==
  [t EXCEPT !.expiring = @ \ {id},
            !.renewedAt[id] = IF committed THEN 0 ELSE @]
-----------------------------------------------------------------------------
(***************************************************************************)
(* Raft, as this package uses it (external).  Calls in flight on a node    *)
(* that stops leading fail with ErrLeadershipLost.                         *)
(***************************************************************************)
Waiting == {"barrierWait", "verify"}    \* a RenewLease waiting on a Raft future

(***************************************************************************)
(* Without stalls no goroutine is between a look at the node's leadership  *)
(* or term and its use when the leadership changes (Prompt), nor between   *)
(* reading the clock and recording what it read when the clock moves on    *)
(* (Recorded).  Waiting for a Raft future, or for barrierMu behind one, is *)
(* no stall.                                                               *)
(***************************************************************************)
BarrierBusy(n) == \E q \in Request : req[q].pc = "barrierWait" /\ req[q].node = n

Prompt(n) ==
  \/ "term" \in Stalls
  \/ /\ loop[n].pc \in {"idle", "wait"}
     /\ \A q \in Request :
          req[q].pc # "idle" /\ req[q].node = n =>
            req[q].pc \in Waiting \/ (req[q].pc = "barrier" /\ BarrierBusy(n))

Recorded == "clock" \in Stalls \/ \A q \in Request : req[q].pc # "renew"

(***************************************************************************)
(* MaxTerm cuts behaviours off.  After the last election only the newest   *)
(* leader can commit or promise anything, so it stays (Staying), and a     *)
(* node that does not lead, which counts only as a later leader, rests     *)
(* (Resting).                                                              *)
(***************************************************************************)
Staying(n) == elected = MaxTerm /\ curTerm[n] = elected
Resting(n) == elected = MaxTerm /\ ~IsLeader(n)

Elect(n) ==
  /\ ~IsLeader(n)
  /\ elected < MaxTerm
  /\ Prompt(n)
  /\ elected' = elected + 1
  /\ leads' = [leads EXCEPT ![n] = TRUE]
  /\ curTerm' = [curTerm EXCEPT ![n] = elected + 1]
  /\ \E m \in Node : \E k \in 0..Len(tail[m]) :
       tail' = [tail EXCEPT ![n] = Append(SubSeq(tail[m], 1, k), NewEntry(n, elected + 1, Noop))]
  /\ UNCHANGED <<now, clog, cfsm, applied, fsm, tracker, barrierTerm, loop, req, promised>>

StepDown(n) ==
  /\ IsLeader(n) /\ ~Staying(n)
  /\ Prompt(n)
  /\ leads' = [leads EXCEPT ![n] = FALSE]
  /\ loop' = [loop EXCEPT ![n].pc = IF @ = "wait" THEN "lost" ELSE @]
  /\ req' = [q \in Request |->
               IF req[q].pc \in Waiting /\ req[q].node = n THEN NoRequest ELSE req[q]]
  /\ UNCHANGED <<now, curTerm, elected, clog, cfsm, tail, applied, fsm, tracker, barrierTerm,
                 promised>>

(***************************************************************************)
(* The process dies and comes back as a follower that replays its log.     *)
(***************************************************************************)
Crash(n) ==
  /\ ~Staying(n) /\ ~Resting(n)
  /\ leads' = [leads EXCEPT ![n] = FALSE]
  /\ applied' = [applied EXCEPT ![n] = 0]
  /\ fsm' = [fsm EXCEPT ![n] = NewFSM]
  /\ tracker' = [tracker EXCEPT ![n] = NewTracker]
  /\ barrierTerm' = [barrierTerm EXCEPT ![n] = 0]
  /\ loop' = [loop EXCEPT ![n] = IdleLoop]
  /\ req' = [q \in Request |->
               IF req[q].pc # "idle" /\ req[q].node = n THEN NoRequest ELSE req[q]]
  /\ UNCHANGED <<now, curTerm, elected, clog, cfsm, tail, promised>>

(***************************************************************************)
(* A deposed leader still takes entries.  Once its successor has committed *)
(* one, they conflict with it and are lost.                                *)
(***************************************************************************)
Behind(n) == \E i \in DOMAIN clog : clog[i].in > curTerm[n]

Propose(n, cmd) ==
  /\ LogLen(n) < MaxLog
  /\ tail' = IF Behind(n) THEN tail
             ELSE [tail EXCEPT ![n] = Append(@, NewEntry(n, curTerm[n], cmd))]

(***************************************************************************)
(* The leader's next entry reaches a quorum.  What other logs hold in its  *)
(* place, and after it, can never commit.                                  *)
(***************************************************************************)
Commit(n) ==
  LET e == Head(tail[n])
  IN  /\ IsLeader(n) /\ curTerm[n] = elected
      /\ tail[n] # <<>>
      /\ clog' = Append(clog, [in |-> elected, cmd |-> e.cmd])
      /\ cfsm' = ApplyLog(cfsm, e)
      /\ tail' = [m \in Node |-> IF tail[m] # <<>> /\ Head(tail[m]) = e
                                 THEN Tail(tail[m]) ELSE <<>>]
      /\ promised' = IF e.cmd.type = "CreateLease"
                     THEN [promised EXCEPT ![cfsm.nextLeaseID] = e.cmd.at - Skew[e.by] + TTL]
                     ELSE promised
      /\ UNCHANGED <<now, leads, curTerm, elected, applied, fsm, tracker, barrierTerm, loop, req>>

(***************************************************************************)
(* A node applies what it knows to be committed; of what a newer leader    *)
(* commits it hears as a follower.                                         *)
(***************************************************************************)
ApplyCommitted(n) ==
  /\ ~Resting(n)
  /\ applied[n] < Len(clog)
  /\ IsLeader(n) => clog[applied[n] + 1].in <= curTerm[n]
  /\ fsm' = [fsm EXCEPT ![n] = ApplyLog(@, clog[applied[n] + 1])]
  /\ applied' = [applied EXCEPT ![n] = @ + 1]
  /\ UNCHANGED <<now, leads, curTerm, elected, clog, cfsm, tail, tracker, barrierTerm, loop,
                 req, promised>>

Tick ==
  /\ elected > 0          \* nothing depends on the time before the first election
  /\ now < MaxTime
  /\ Recorded
  /\ now' = now + 1
  /\ UNCHANGED <<leads, curTerm, elected, clog, cfsm, tail, applied, fsm, tracker, barrierTerm,
                 loop, req, promised>>
-----------------------------------------------------------------------------
(***************************************************************************)
(* Service.CreateLease on a leader: the deadline comes from its own clock. *)
(***************************************************************************)
CreateLease(n) ==
  /\ IsLeader(n)
  /\ cfsm.nextLeaseID + Cardinality({i \in DOMAIN tail[n] : tail[n][i].cmd.type = "CreateLease"})
       <= MaxLeases
  /\ \E o \in Owner :
       Propose(n, [type |-> "CreateLease", owner |-> o, ttl |-> TTL, at |-> Now(n)])
  /\ UNCHANGED <<now, leads, curTerm, elected, clog, cfsm, applied, fsm, tracker, barrierTerm,
                 loop, req, promised>>

(***************************************************************************)
(* CheckLeaseAlive, from AcquireLock.  It checks no leadership of its own: *)
(* a waiter may get here up to one leaderRecheck (250 ms) after the node   *)
(* stopped leading.  The node cannot start a new term that early: it waits *)
(* out a heartbeat timeout of 1 s first.  The only effect is syncTerm.     *)
(***************************************************************************)
CheckLeaseAlive(n) ==
  /\ ~Resting(n)
  /\ Leases(n) # {}
  /\ tracker[n].term # curTerm[n]
  /\ tracker' = [tracker EXCEPT ![n] = SyncTerm(@, curTerm[n], Now(n))]
  /\ UNCHANGED <<now, raftVars, applied, fsm, barrierTerm, loop, req, promised>>
-----------------------------------------------------------------------------
(***************************************************************************)
(* leaseExpiryLoop: a tick on the leader claims what is past its deadline, *)
(* and expires the claimed leases one by one.  The clock is read just      *)
(* before claimExpired has t.mu; an older reading would claim less.        *)
(***************************************************************************)
NextExpiry(ids) == IF ids = {} THEN IdleLoop ELSE [pc |-> "submit", todo |-> ids]

LoopClaim(n) ==
  LET t       == SyncTerm(tracker[n], curTerm[n], Now(n))
      expired == Expired(t, fsm[n].leases, Now(n))
  IN  /\ loop[n].pc = "idle"
      /\ IsLeader(n)
      /\ tracker' = [tracker EXCEPT ![n] = [t EXCEPT !.expiring = @ \cup expired]]
      /\ loop' = [loop EXCEPT ![n] = NextExpiry(expired)]
      /\ UNCHANGED <<now, raftVars, applied, fsm, barrierTerm, req, promised>>

(***************************************************************************)
(* Apply(ExpireLease) enters the leader's log, or is refused.              *)
(***************************************************************************)
LoopSubmit(n) ==
  /\ loop[n].pc = "submit"
  /\ \E id \in loop[n].todo :
       \/ /\ IsLeader(n)
          /\ Propose(n, [type |-> "ExpireLease", lease |-> id])
          /\ loop' = [loop EXCEPT ![n] = [pc |-> "wait", id |-> id, pos |-> LogLen(n) + 1,
                                          todo |-> @.todo \ {id}]]
          /\ UNCHANGED tracker
       \/ /\ tracker' = [tracker EXCEPT ![n] = FinishExpiry(@, id, FALSE)]
          /\ loop' = [loop EXCEPT ![n] = NextExpiry(@.todo \ {id})]
          /\ UNCHANGED tail
  /\ UNCHANGED <<now, leads, curTerm, elected, clog, cfsm, applied, fsm, barrierTerm, req,
                 promised>>

(***************************************************************************)
(* The future resolves: the expiry is applied, or leadership was lost and  *)
(* the entry may or may not survive.                                       *)
(***************************************************************************)
LoopFinish(n) ==
  /\ \/ loop[n].pc = "wait" /\ applied[n] >= loop[n].pos
     \/ loop[n].pc = "lost"
  /\ tracker' = [tracker EXCEPT ![n] = FinishExpiry(@, loop[n].id, loop[n].pc = "wait")]
  /\ loop' = [loop EXCEPT ![n] = NextExpiry(@.todo)]
  /\ UNCHANGED <<now, raftVars, applied, fsm, barrierTerm, req, promised>>
-----------------------------------------------------------------------------
(***************************************************************************)
(* RenewLease, from its arrival on a leader to the acknowledgement.  A     *)
(* failure at any point ends the call.                                     *)
(***************************************************************************)
Done(q) == req' = [req EXCEPT ![q] = NoRequest]

RenewLease(q) ==
  /\ req[q].pc = "idle"
  /\ \E n \in Node, id \in LeaseID :
       /\ id < cfsm.nextLeaseID
       /\ IsLeader(n)
       /\ req' = [req EXCEPT ![q] = [pc |-> "barrier", node |-> n, id |-> id, term |-> curTerm[n],
                                     pos |-> 0, lease |-> {}, at |-> 0]]
  /\ UNCHANGED <<now, raftVars, applied, fsm, tracker, barrierTerm, loop, promised>>

Fails(q) ==
  /\ req[q].pc \in Waiting
  /\ Done(q)
  /\ UNCHANGED <<now, raftVars, applied, fsm, tracker, barrierTerm, loop, promised>>

AwaitTermApplied(q) ==
  LET n == req[q].node
  IN  /\ req[q].pc = "barrier"
      /\ ~BarrierBusy(n)
      /\ \/ barrierTerm[n] = req[q].term /\ req' = [req EXCEPT ![q].pc = "lookup"]
         \/ /\ barrierTerm[n] # req[q].term
            /\ IF IsLeader(n)
               THEN req' = [req EXCEPT ![q].pc = "barrierWait", ![q].pos = LogLen(n)]
               ELSE Done(q)
      /\ UNCHANGED <<now, raftVars, applied, fsm, tracker, barrierTerm, loop, promised>>

BarrierApplied(q) ==
  LET n == req[q].node
  IN  /\ req[q].pc = "barrierWait"
      /\ curTerm[n] = elected
      /\ applied[n] >= req[q].pos
      /\ barrierTerm' = [barrierTerm EXCEPT ![n] = req[q].term]
      /\ req' = [req EXCEPT ![q].pc = "lookup", ![q].pos = 0]
      /\ UNCHANGED <<now, raftVars, applied, fsm, tracker, loop, promised>>

GetLease(q) ==
  /\ req[q].pc = "lookup"
  /\ IF req[q].id \in Leases(req[q].node)
     THEN req' = [req EXCEPT ![q].pc = "clock",
                             ![q].lease = {fsm[req[q].node].leases[req[q].id]}]
     ELSE Done(q)
  /\ UNCHANGED <<now, raftVars, applied, fsm, tracker, barrierTerm, loop, promised>>

(***************************************************************************)
(* n.Now() is an argument of renew: it is read before renew has t.mu, and  *)
(* what is recorded, or found too late, is that reading.                   *)
(***************************************************************************)
ReadClock(q) ==
  /\ req[q].pc = "clock"
  /\ req' = [req EXCEPT ![q].pc = "renew", ![q].at = Now(req[q].node)]
  /\ UNCHANGED <<now, raftVars, applied, fsm, tracker, barrierTerm, loop, promised>>

RecordRenewal(q) ==
  LET n == req[q].node
      t == SyncTerm(tracker[n], req[q].term, req[q].at)
  IN  /\ req[q].pc = "renew"
      /\ \E lease \in req[q].lease :
           IF Dead(t, req[q].id, lease, req[q].at)
           THEN tracker' = [tracker EXCEPT ![n] = t] /\ Done(q)
           ELSE /\ tracker' = [tracker EXCEPT ![n] = Renew(t, req[q].id, req[q].at)]
                /\ req' = [req EXCEPT ![q].pc = "verify", ![q].lease = {}]
      /\ UNCHANGED <<now, raftVars, applied, fsm, barrierTerm, loop, promised>>

VerifyLeader(q) ==
  LET n == req[q].node
  IN  /\ req[q].pc = "verify"
      /\ IsLeader(n) /\ curTerm[n] = elected
      /\ promised' = [promised EXCEPT ![req[q].id] = Max({@, req[q].at - Skew[n] + TTL})]
      /\ Done(q)
      /\ UNCHANGED <<now, raftVars, applied, fsm, tracker, barrierTerm, loop>>

Next ==
  \/ Tick
  \/ \E n \in Node :
       \/ Elect(n) \/ StepDown(n) \/ Crash(n) \/ Commit(n) \/ ApplyCommitted(n)
       \/ CreateLease(n) \/ CheckLeaseAlive(n)
       \/ LoopClaim(n) \/ LoopSubmit(n) \/ LoopFinish(n)
  \/ \E q \in Request :
       \/ RenewLease(q) \/ Fails(q) \/ AwaitTermApplied(q) \/ BarrierApplied(q)
       \/ GetLease(q) \/ ReadClock(q) \/ RecordRenewal(q) \/ VerifyLeader(q)

Spec == Init /\ [][Next]_vars
-----------------------------------------------------------------------------
(***************************************************************************)
(* Types, and no leaked claim: a lease marked expiring is one the expiry   *)
(* loop is working on.  A claim left behind would make the lease neither   *)
(* renewable nor ever expired.                                             *)
(***************************************************************************)
Working(n) ==
  CASE loop[n].pc = "idle"   -> {}
    [] loop[n].pc = "submit" -> loop[n].todo
    [] OTHER                 -> {loop[n].id} \cup loop[n].todo

TypeOK ==
  /\ now \in 1..MaxTime
  /\ leads \in [Node -> BOOLEAN]
  /\ elected \in 0..MaxTerm
  /\ curTerm \in [Node -> 0..elected]
  /\ IsFSMState(cfsm)
  /\ \A n \in Node :
       /\ applied[n] \in 0..Len(clog)
       /\ IsFSMState(fsm[n])
       /\ tracker[n] \in [term: 0..elected, since: Nat, renewedAt: [LeaseID -> Nat],
                          expiring: SUBSET LeaseID]
       /\ tracker[n].expiring \subseteq Working(n)
  /\ barrierTerm \in [Node -> 0..elected]
  /\ promised \in [LeaseID -> Nat]

(***************************************************************************)
(* A lease somebody was told is alive is alive: until one TTL after the    *)
(* leader read its clock for the CreateLease or the acknowledged renewal,  *)
(* no ExpireLease for it commits, whoever leads, whatever is left in the   *)
(* logs, however far the nodes' clocks are apart and whichever renewals of *)
(* the lease overlap (RenewLease, leaseExpiryLoop).  That takes goroutines *)
(* that do not stall; with stalls it fails.                                *)
(***************************************************************************)
AcknowledgedLeaseLives ==
  \A id \in LeaseID : now < promised[id] => id \in DOMAIN cfsm.leases

(***************************************************************************)
(* The grace period covers what was promised before: for every lease the   *)
(* leader that can commit knows of, its own deadline (ExpiresAt, taking    *)
(* over or the last renewal it recorded, whichever is later) is not before *)
(* the time a client was promised, by this leader, on whichever of several *)
(* overlapping renewals, or by an earlier one.  Without stalls, as above.  *)
(***************************************************************************)
LeaderHonoursPromises ==
  \A n \in Node :
    IsLeader(n) /\ curTerm[n] = elected /\ tracker[n].term = elected =>
      \A id \in Leases(n) \cap DOMAIN cfsm.leases :
        promised[id] + Skew[n] <= Deadline(tracker[n], id, fsm[n].leases[id])
=============================================================================
