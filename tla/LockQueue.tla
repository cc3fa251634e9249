------------------------------ MODULE LockQueue ------------------------------
(***************************************************************************)
(* AcquireLock on the leader: service.AcquireLock, its queue of waiters    *)
(* (internal/cluster/lockqueue.go) and the FSM's lock-freed hook.  Every   *)
(* call is a goroutine; its steps interleave with the other calls', with   *)
(* the commits of acquisitions, releases and expiries, with the end of     *)
(* leases and with the loss of leadership.  Queues of different locks      *)
(* share nothing, so there is one lock.                                    *)
(***************************************************************************)
EXTENDS FSM, Sequences, FiniteSets

CONSTANTS
  Call,       \* AcquireLock calls
  LeaseOf,    \* LeaseOf[c]: the lease id call c names; calls may share one
  Waits,      \* the calls with wait = true
  Mortal,     \* the leases that may expire
  lockName, owner

Leases == {LeaseOf[c] : c \in Call}

ASSUME LockQueueAssumption ==
  /\ IsFiniteSet(Call)
  /\ LeaseOf \in [Call -> Leases] /\ Leases = 1..Cardinality(Leases)
  /\ Waits \subseteq Call /\ Mortal \subseteq Leases
  /\ lockName \in LockName /\ owner \in Owner
  /\ MaxInt64 >= 2

VARIABLES
  leads,     \* this node is the Raft leader
  log,       \* entries submitted and not yet applied, each with the calls it answers
  fsm,       \* this node's FSM
  dying,     \* leases the tracker has claimed for expiry
  queue,     \* lockQueues.queues[lockName]
  ready,     \* ready[c]: the waiter's channel holds a signal
  pc,        \* pc[c]: where call c is
  ahead      \* ahead[c]: who was queued when c arrived (history)

vars == <<leads, log, fsm, dying, queue, ready, pc, ahead>>

Queued == {queue[i] : i \in DOMAIN queue}
Held == lockName \in DOMAIN fsm.locks
Holder == fsm.locks[lockName].lease
HeldBy(lease) == Held /\ Holder = lease
HeldByOther(lease) == Held /\ Holder # lease

Goto(c, label) == pc' = [pc EXCEPT ![c] = label]

(* mutant: no deferred Leave *)
ReturnWithoutLeave(c) == "done"

(***************************************************************************)
(* The end of a call: a waiter still has its deferred Leave to run.        *)
(***************************************************************************)
Return(c) == IF c \in Waits THEN "leaving" ELSE "done"

(***************************************************************************)
(* Every caller holds a lease, as the SDK makes sure before it acquires.   *)
(***************************************************************************)
Init ==
  /\ leads = TRUE
  /\ log = <<>>
  /\ fsm = [NewFSM EXCEPT
              !.leases = [l \in Leases |-> [owner |-> owner, expiresAt |-> 2, ttl |-> 1]],
              !.nextLeaseID = Cardinality(Leases) + 1]
  /\ dying = {}
  /\ queue = <<>>
  /\ ready = [c \in Call |-> FALSE]
  /\ pc = [c \in Call |-> "new"]
  /\ ahead = [c \in Call |-> {}]
-----------------------------------------------------------------------------
(***************************************************************************)
(* AcquireLock up to its first look at the lock: redirected unless leader, *)
(* then in the queue if it waits.                                          *)
(***************************************************************************)
Arrive(c) ==
  /\ pc[c] = "new"
  /\ ahead' = [ahead EXCEPT ![c] = Queued]
  /\ IF ~leads THEN Goto(c, "done") /\ UNCHANGED queue
     ELSE IF c \in Waits THEN Goto(c, "loop") /\ queue' = Append(queue, c)
     ELSE Goto(c, "check") /\ UNCHANGED queue
  /\ UNCHANGED <<leads, log, fsm, dying, ready>>

(***************************************************************************)
(* Not waiting: LockHasWaiters and heldBy.                                 *)
(***************************************************************************)
Check(c) ==
  /\ pc[c] = "check"
  /\ Goto(c, IF queue # <<>> /\ ~HeldBy(LeaseOf[c]) THEN "done" ELSE "acquire")
  /\ UNCHANGED <<leads, log, fsm, dying, queue, ready, ahead>>

(* mutant: any waiter tries when the lock looks free *)
LookOutOfTurn(c) ==
  /\ pc[c] = "loop"
  /\ Goto(c, IF ~HeldByOther(LeaseOf[c]) THEN "acquire" ELSE "select")
  /\ UNCHANGED <<leads, log, fsm, dying, queue, ready, ahead>>

(***************************************************************************)
(* Waiting: only the head tries, and only when the lock looks free.  The   *)
(* two looks are one step: nobody but the head itself ends its being head. *)
(***************************************************************************)
Look(c) ==
  /\ pc[c] = "loop"
  /\ Goto(c, IF Head(queue) = c /\ ~HeldByOther(LeaseOf[c]) THEN "acquire" ELSE "select")
  /\ UNCHANGED <<leads, log, fsm, dying, queue, ready, ahead>>

(***************************************************************************)
(* acquire: CheckLeaseAlive, then Apply, which only a leader accepts.      *)
(***************************************************************************)
Acquire(c) ==
  /\ pc[c] = "acquire"
  /\ IF leads /\ LeaseOf[c] \in DOMAIN fsm.leases \ dying
     THEN /\ log' = Append(log, [call |-> {c},
                                 cmd |-> [type |-> "AcquireLock", lock |-> lockName,
                                          owner |-> owner, lease |-> LeaseOf[c]]])
          /\ Goto(c, "applying")
     ELSE Goto(c, Return(c)) /\ UNCHANGED log
  /\ UNCHANGED <<leads, fsm, dying, queue, ready, ahead>>

(***************************************************************************)
(* The waiter's select: a signal, or the recheck tick, or the end of its   *)
(* time or of its caller's.                                                *)
(***************************************************************************)
Signalled(c) ==
  /\ pc[c] = "select"
  /\ ready[c]
  /\ ready' = [ready EXCEPT ![c] = FALSE]
  /\ Goto(c, "loop")
  /\ UNCHANGED <<leads, log, fsm, dying, queue, ahead>>

(* mutant: the tick does not look at the leadership *)
RecheckLeaderless(c) ==
  /\ pc[c] = "select"
  /\ Goto(c, "loop")
  /\ UNCHANGED <<leads, log, fsm, dying, queue, ready, ahead>>

Recheck(c) ==
  /\ pc[c] = "select"
  /\ Goto(c, IF leads THEN "loop" ELSE "leaving")
  /\ UNCHANGED <<leads, log, fsm, dying, queue, ready, ahead>>

Timeout(c) ==
  /\ pc[c] = "select"
  /\ Goto(c, "leaving")
  /\ UNCHANGED <<leads, log, fsm, dying, queue, ready, ahead>>

(***************************************************************************)
(* Leave: out of the queue; if it was the head, the next one is woken.     *)
(***************************************************************************)
Without(c) ==
  LET i == CHOOSE i \in DOMAIN queue : queue[i] = c
  IN  SubSeq(queue, 1, i - 1) \o SubSeq(queue, i + 1, Len(queue))

Wake(q) == IF q = <<>> THEN ready ELSE [ready EXCEPT ![Head(q)] = TRUE]

(* mutant: the new head is not woken *)
LeaveSilently(c) ==
  /\ pc[c] = "leaving"
  /\ queue' = Without(c)
  /\ Goto(c, "done")
  /\ UNCHANGED <<leads, log, fsm, dying, ready, ahead>>

Leave(c) ==
  /\ pc[c] = "leaving"
  /\ queue' = Without(c)
  /\ ready' = IF Head(queue) = c THEN Wake(queue') ELSE ready
  /\ Goto(c, "done")
  /\ UNCHANGED <<leads, log, fsm, dying, ahead>>
-----------------------------------------------------------------------------
(***************************************************************************)
(* The next entry is applied.  Its call gets the reply, and the lock-freed *)
(* hook, wakeHead, runs if it freed the lock.                              *)
(***************************************************************************)
ApplyNext ==
  LET e       == Head(log)
      outcome == Apply(fsm, e.cmd)
  IN  /\ log # <<>>
      /\ log' = Tail(log)
      /\ fsm' = outcome.fsm
      /\ ready' = IF lockName \in outcome.freed THEN Wake(queue) ELSE ready
      /\ pc' = [c \in Call |->
                  IF c \notin e.call THEN pc[c]
                  ELSE IF c \in Waits /\ outcome.reply.err = "ErrLockAlreadyHeld" THEN "select"
                  ELSE Return(c)]
      /\ UNCHANGED <<leads, dying, queue, ahead>>

(***************************************************************************)
(* The ReleaseLock of a holder that has its answer, and the expiry loop on *)
(* a lease.                                                                *)
(***************************************************************************)
InLog(cmd) == \E i \in DOMAIN log : log[i].cmd = cmd

Release(l) ==
  LET cmd == [type |-> "ReleaseLock", lock |-> lockName, lease |-> l]
  IN  /\ leads
      /\ HeldBy(l)
      /\ \E c \in Call : LeaseOf[c] = l /\ pc[c] = "done"
      /\ ~InLog(cmd)
      /\ log' = Append(log, [call |-> {}, cmd |-> cmd])
      /\ UNCHANGED <<leads, fsm, dying, queue, ready, pc, ahead>>

Expire(l) ==
  /\ leads
  /\ l \notin dying
  /\ dying' = dying \cup {l}
  /\ log' = Append(log, [call |-> {}, cmd |-> [type |-> "ExpireLease", lease |-> l]])
  /\ UNCHANGED <<leads, fsm, queue, ready, pc, ahead>>

(***************************************************************************)
(* The node stops leading.  The calls waiting on Apply fail; of their      *)
(* entries a prefix survives into the next leader's log.                   *)
(***************************************************************************)
LoseLeadership ==
  /\ leads
  /\ leads' = FALSE
  /\ \E k \in 0..Len(log) :
       log' = [i \in 1..k |-> [log[i] EXCEPT !.call = {}]]
  /\ pc' = [c \in Call |-> IF pc[c] = "applying" THEN Return(c) ELSE pc[c]]
  /\ UNCHANGED <<fsm, dying, queue, ready, ahead>>

Step(c) ==
  \/ Check(c) \/ Look(c) \/ Acquire(c) \/ Signalled(c) \/ Leave(c)
  \/ ~leads /\ Recheck(c)

Next ==
  \/ \E c \in Call :
       \/ Arrive(c) \/ Check(c) \/ Look(c) \/ Acquire(c)
       \/ Signalled(c) \/ Recheck(c) \/ Timeout(c) \/ Leave(c)
  \/ ApplyNext
  \/ \E l \in Leases : Release(l)
  \/ \E l \in Mortal : Expire(l)
  \/ LoseLeadership

(***************************************************************************)
(* Goroutines run, Raft applies what it accepted, and whoever holds the    *)
(* lock releases it at some time.  Of the recheck ticker fairness is asked *)
(* only after the loss of leadership, and of the timeout never: while the  *)
(* node leads, the signals alone have to move the queue.                   *)
(***************************************************************************)
Fairness ==
  /\ \A c \in Call : WF_vars(Step(c))
  /\ WF_vars(ApplyNext)
  /\ \A l \in Leases : WF_vars(Release(l))

Spec == Init /\ [][Next]_vars /\ Fairness
-----------------------------------------------------------------------------
(***************************************************************************)
(* Types, and a call is in the queue exactly while it waits: no return     *)
(* path of AcquireLock leaves a dead waiter behind.                        *)
(***************************************************************************)
TypeOK ==
  /\ leads \in BOOLEAN
  /\ IsFSMState(fsm)
  /\ dying \subseteq Leases
  /\ Queued \subseteq Waits /\ Len(queue) <= Cardinality(Waits)
  /\ ready \in [Call -> BOOLEAN]
  /\ pc \in [Call -> {"new", "check", "loop", "acquire", "applying", "select", "leaving", "done"}]
  /\ \A c \in Waits : c \in Queued <=> pc[c] \notin {"new", "done"}

(***************************************************************************)
(* No lost wakeup: the head of the queue never sleeps without a signal     *)
(* while the lock is free (wakeHead, Leave, and the order in which         *)
(* AcquireLock looks at the lock and goes to sleep).                       *)
(***************************************************************************)
NoLostWakeup ==
  queue # <<>> /\ ~Held /\ pc[Head(queue)] = "select" => ready[Head(queue)]

(***************************************************************************)
(* Waiters get the lock in arrival order: a commit that gives the lock to  *)
(* a waiting call gives it to one that nobody still queued arrived before. *)
(* Arrival is that of one call: a client's WaitAcquire makes a new one,    *)
(* which queues at the back, whenever its window has run out.              *)
(***************************************************************************)
WaitersInOrder ==
  [][\A c \in Waits :
       log # <<>> /\ c \in Head(log).call /\ ~Held /\ Held' => ahead[c] \cap Queued = {}]_vars

(***************************************************************************)
(* "callers that are not waiting cannot take it ahead of them": a call     *)
(* with wait = false that gets a free lock passes nobody who was queued    *)
(* before it arrived.                                                      *)
(***************************************************************************)
Waiting == {c \in Queued : pc[c] # "leaving"}

NoBarging ==
  [][\A c \in Call \ Waits :
       log # <<>> /\ c \in Head(log).call /\ ~Held /\ Held' => ahead[c] \cap Waiting = {}]_vars

(***************************************************************************)
(* Every waiter is answered: it gets the lock, or learns that its lease is *)
(* gone or that the node no longer leads.                                  *)
(***************************************************************************)
EveryWaiterAnswered == \A c \in Waits : (c \in Queued) ~> (pc[c] = "done")
=============================================================================
