----------------------------- MODULE ClientCalls -----------------------------
(***************************************************************************)
(* One client of the Go SDK calling a cluster whose leader changes:        *)
(* callWithFailover and tryCandidates with the resolver they share with    *)
(* the heartbeat goroutine, the server's handlers, and the commands they   *)
(* commit (the operators of FSM).  Requests whose caller stopped waiting   *)
(* go on being handled.  Other clients are a rival lease whose commands    *)
(* reach the leader directly.                                              *)
(*                                                                         *)
(* A node's address is the node itself and Empty is the empty string.      *)
(* Raft is external: leader is the node that can commit, leading the nodes *)
(* that believe they lead, view[n] the leader whose address n can name.    *)
(***************************************************************************)
EXTENDS FSM, Sequences, SequencesExt, Bags

CONSTANTS
  Node,          \* the nodes, which are also their addresses
  Seeds,         \* the addresses NewClientWithSeeds was given, normalized
  Members,       \* the order in which Members() lists the nodes
  lock,          \* the lock
  me, rival,     \* the two owners
  First,         \* the nodes that may lead when the client's session has started
  MaxCalls,      \* bound on the client's calls
  MaxEvents      \* bound on what disturbs them: attempts given up, losses of leadership,
                 \* sessions that end, and rivals that ask for the lock

ASSUME ClientCallsAssumption ==
  /\ NodeID = Node /\ Address = Node
  /\ Seeds \in Seq(Node) /\ Seeds # <<>> /\ IsInjective(Seeds)
  /\ First \subseteq Node
  /\ lock \in LockName /\ {me, rival} \subseteq Owner /\ me # rival

VARIABLES
  fsm,        \* the committed state
  wal,        \* entries the leader has and has not committed yet
  leader, leading, view,
  waiters,    \* the nodes at which another client is queued for the lock
  req,        \* the attempt the client is waiting for
  late,       \* requests nobody waits for and their handlers: "sent" and not dealt with
              \* yet, a WaitAcquire that is "queued" for the lock, or whose entry is "logged"
  pc, op,     \* where callWithFailover is, and the call it makes
  queue, tries, currentAddr, seedAddrs,
  lease, session, handle,  \* the lease, whether the session is active, stopped or failed,
              \* and the token of the Lock in use
  seen,       \* history: since Acquire was called, another client had the lock or somebody was
              \* queued for it (contended); since the Lock was asked for, a Release of this
              \* client's took effect (freed, and lost once the Lock is in use); a Release
              \* with this lease returned an error and left one under way (unsure)
  spent       \* how much of each bound is used up

clusterVars == <<fsm, wal, leader, leading, view, waiters>>
resolverVars == <<currentAddr, seedAddrs>>
sessionVars == <<lease, session, handle>>
vars == <<clusterVars, req, late, pc, op, queue, tries, resolverVars, sessionVars,
          seen, spent>>

None == [at |-> Empty, stage |-> "none", code |-> "none", hint |-> Empty, val |-> 0]
Sent(n) == [None EXCEPT !.at = n, !.stage = "sent"]
Replied(n, c, h, v) == [at |-> n, stage |-> "replied", code |-> c, hint |-> h, val |-> v]
RivalLease == 1
CreateLeaseCmd(o) == [type |-> "CreateLease", owner |-> o, ttl |-> 1, at |-> 1]
AcquireLockCmd(o, id) == [type |-> "AcquireLock", lock |-> lock, owner |-> o, lease |-> id]
ReleaseLockCmd(id) == [type |-> "ReleaseLock", lock |-> lock, lease |-> id]
ExpireLeaseCmd(id) == [type |-> "ExpireLease", lease |-> id]

Holder == IF lock \in DOMAIN fsm.locks THEN fsm.locks[lock].lease ELSE 0
HeldBy(id) == id # 0 /\ Holder = id
HeldByOther(id) == Holder \notin {0, id}

(***************************************************************************)
(* Whoever is queued for the lock at node n: another client, or a          *)
(* WaitAcquire that this client has given up and the node has not.         *)
(***************************************************************************)
LockHasWaiters(n) ==
  n \in waiters \/ \E r \in BagToSet(late) : r.at = n /\ r.stage # "sent"

(***************************************************************************)
(* The cluster is up, the rival has its lease, and the client, created     *)
(* with NewClientWithSeeds, has started its session.                       *)
(***************************************************************************)
Init ==
  /\ fsm = Apply(Apply(NewFSM, CreateLeaseCmd(rival)).fsm, CreateLeaseCmd(me)).fsm
  /\ wal = <<>>
  /\ leader \in First /\ leading = {leader}
  /\ view = [n \in Node |-> IF n = leader THEN n ELSE Empty]
  /\ waiters = {}
  /\ req = None /\ late = EmptyBag
  /\ pc = "idle" /\ op = "none" /\ queue = <<>> /\ tries = [n \in Node |-> 0]
  /\ currentAddr = Head(Seeds) /\ seedAddrs = Seeds
  /\ lease = 2 /\ session = "active" /\ handle = 0
  /\ seen = [contended |-> FALSE, freed |-> FALSE, lost |-> FALSE, unsure |-> FALSE]
  /\ spent = [calls |-> 0, events |-> 0]
-----------------------------------------------------------------------------
(***************************************************************************)
(* The resolver.                                                           *)
(***************************************************************************)
candidateAddrs ==
  <<currentAddr>> \o SelectSeq(seedAddrs, LAMBDA a : a # currentAddr)

(* mutant: known addresses are added again *)
rememberEverySeed(seeds, addr) == IF addr = Empty THEN seeds ELSE Append(seeds, addr)

rememberSeedLocked(seeds, addr) ==
  IF addr = Empty \/ addr \in Range(seeds) THEN seeds ELSE Append(seeds, addr)

rememberAddr(addr) ==
  /\ currentAddr' = IF addr = Empty THEN currentAddr ELSE addr
  /\ seedAddrs' = rememberSeedLocked(seedAddrs, addr)

(***************************************************************************)
(* GetStatus on node n: a local read, which names the leader if n knows it *)
(* and its endpoint.                                                       *)
(***************************************************************************)
GetStatus(n) == [grpcAddress |-> n, members |-> Members, leaderAddress |-> view[n]]

(***************************************************************************)
(* Everybody the answer names is remembered, and the leader as the current *)
(* address, or else addr.                                                  *)
(***************************************************************************)
rememberStatus(resp, addr) ==
  /\ currentAddr' = IF resp.leaderAddress = Empty THEN addr ELSE resp.leaderAddress
  /\ seedAddrs' = FoldLeft(rememberSeedLocked, seedAddrs, <<resp.grpcAddress>> \o resp.members)

(***************************************************************************)
(* The heartbeat goroutine looks for the leader with discoverLeader while  *)
(* a call may be under way: n is the node whose answer ends the search, or *)
(* is the last one when none named a leader.                               *)
(***************************************************************************)
discoverLeader ==
  /\ session = "active"
  /\ \E n \in Range(candidateAddrs) : rememberStatus(GetStatus(n), currentAddr)
  /\ UNCHANGED <<clusterVars, req, late, pc, op, queue, tries, sessionVars, seen, spent>>

(***************************************************************************)
(* Status changes nothing but the resolver, in which callWithFailover has  *)
(* made the node that answers the current one.                             *)
(***************************************************************************)
Status ==
  /\ pc = "idle"
  /\ \E n \in Range(candidateAddrs) : rememberStatus(GetStatus(n), n)
  /\ UNCHANGED <<clusterVars, req, late, pc, op, queue, tries, sessionVars, seen, spent>>
-----------------------------------------------------------------------------
Disturbs == spent.events < MaxEvents /\ spent' = [spent EXCEPT !.events = @ + 1]

NoTries == [n \in Node |-> 0]

(***************************************************************************)
(* tryCandidates sends the request to the next address, at most twice to   *)
(* each per pass; an exhausted pass is retried after a backoff.            *)
(***************************************************************************)
TryNext(addrs, t) ==
  LET left == SelectSeq(addrs, LAMBDA a : t[a] < 2)
  IN  IF left = <<>>
      THEN pc' = "backoff" /\ req' = None /\ queue' = <<>> /\ tries' = NoTries
      ELSE /\ pc' = "attempt" /\ req' = Sent(Head(left)) /\ queue' = Tail(left)
           /\ tries' = [t EXCEPT ![Head(left)] = @ + 1]

NextPass ==
  /\ pc = "backoff"
  /\ TryNext(candidateAddrs, NoTries)
  /\ UNCHANGED <<clusterVars, late, op, resolverVars, sessionVars, seen, spent>>

(***************************************************************************)
(* The application calls the SDK.  activeLeaseID refuses a session that    *)
(* failed, not one that was stopped.  From the moment it calls Release the *)
(* application does not use its Lock any more.                             *)
(***************************************************************************)
NewCall(o, addrs) ==
  /\ pc = "idle" /\ spent.calls < MaxCalls
  /\ op' = o /\ TryNext(addrs, NoTries)
  /\ handle' = IF o \in {"Start", "Release"} THEN 0 ELSE handle
  /\ seen' = [seen EXCEPT !.contended = o = "Acquire" /\ (HeldByOther(lease)
                                             \/ \E n \in Node : LockHasWaiters(n)),
                          !.lost = @ /\ o \notin {"Start", "Release"},
                          !.unsure = @ /\ o # "Start"]
  /\ spent' = [spent EXCEPT !.calls = @ + 1]
  /\ UNCHANGED <<clusterVars, late, lease>>

Asks(o) ==
  /\ session # "failed" /\ NewCall(o, candidateAddrs)
  /\ UNCHANGED <<resolverVars, session>>

Acquire == Asks("Acquire")
WaitAcquire == Asks("WaitAcquire")
Release == Asks("Release")

(***************************************************************************)
(* A session that is over stays so, and the application starts again with  *)
(* a new client, which knows only the seeds and has no lease to use.       *)
(***************************************************************************)
Start ==
  /\ session # "active"
  /\ NewCall("Start", Seeds) /\ session' = "failed"
  /\ currentAddr' = Head(Seeds) /\ seedAddrs' = Seeds

(***************************************************************************)
(* The session ends, by Stop or because the heartbeats failed.  A worker   *)
(* that does not notice goes on using its Lock.                            *)
(***************************************************************************)
EndSession ==
  /\ session = "active" /\ session' \in {"stopped", "failed"}
  /\ Disturbs
  /\ UNCHANGED <<clusterVars, req, late, pc, op, queue, tries, resolverVars, lease, handle, seen>>

-----------------------------------------------------------------------------
(***************************************************************************)
(* The call returns to the application.                                    *)
(***************************************************************************)
Return ==
  /\ pc' = "idle" /\ op' = "none" /\ req' = None /\ queue' = <<>> /\ tries' = NoTries

AsksForLock == op \in {"Acquire", "WaitAcquire"}

StrayRelease ==
  \/ \E r \in BagToSet(late) : r.cmd = ReleaseLockCmd(lease)
  \/ \E i \in DOMAIN wal : wal[i].cmd = ReleaseLockCmd(lease)

Forget ==
  seen' = [seen EXCEPT !.contended = FALSE, !.freed = FALSE,
                       !.unsure = @ \/ (op = "Release" /\ StrayRelease')]

(***************************************************************************)
(* The rest of one iteration of tryCandidates, once the attempt is         *)
(* answered: success ends the call, a hint goes to the front of the queue, *)
(* an unavailable node is passed over, any other error is final.  Only     *)
(* WaitAcquire asks again, when the lock is held and the session has not   *)
(* failed.                                                                 *)
(***************************************************************************)
Succeed ==
  /\ req.code = "OK" /\ Return
  /\ rememberAddr(req.at)
  /\ lease' = IF op = "Start" THEN req.val ELSE lease
  /\ session' = IF op = "Start" THEN "active" ELSE session
  /\ handle' = IF AsksForLock THEN req.val ELSE handle
  /\ seen' = [seen EXCEPT !.contended = FALSE, !.freed = FALSE,
                          !.lost = IF AsksForLock THEN seen.freed ELSE @]

(* mutant: the hint is not followed *)
RedirectIgnored ==
  /\ req.code = "Unavailable"
  /\ TryNext(queue, tries)
  /\ UNCHANGED <<op, resolverVars, sessionVars, seen>>

Redirect ==
  /\ req.code = "Unavailable"
  /\ rememberAddr(req.hint)
  /\ TryNext(IF req.hint = Empty THEN queue ELSE <<req.hint>> \o queue, tries)
  /\ UNCHANGED <<op, sessionVars, seen>>

AskAgain ==
  /\ req.code = "AlreadyExists" /\ op = "WaitAcquire"
  /\ pc' = "again" /\ req' = None /\ queue' = <<>> /\ tries' = NoTries
  /\ UNCHANGED <<op, resolverVars, sessionVars, seen>>

GiveUp ==
  /\ req.code \notin {"OK", "Unavailable"}
  /\ req.code = "AlreadyExists" => op # "WaitAcquire"
  /\ UNCHANGED <<resolverVars, sessionVars>>
  /\ Return
  /\ Forget

HandleReply ==
  /\ pc = "attempt" /\ req.stage = "replied"
  /\ UNCHANGED <<clusterVars, late, spent>>
  /\ Succeed \/ Redirect \/ AskAgain \/ GiveUp

NextAsk ==
  /\ pc = "again"
  /\ \/ session # "failed" /\ TryNext(candidateAddrs, NoTries) /\ UNCHANGED <<op, seen>>
     \/ session = "failed" /\ Return /\ Forget
  /\ UNCHANGED <<clusterVars, late, resolverVars, sessionVars, spent>>

(***************************************************************************)
(* Nobody waits for the attempt any more.  Its request may still be on the *)
(* way or its entry in the log; a WaitAcquire keeps its place in the lock  *)
(* queue until its handler returns.                                        *)
(***************************************************************************)
Request ==
  [at |-> req.at, stage |-> req.stage, wait |-> op = "WaitAcquire",
   cmd |-> CASE op = "Start" -> CreateLeaseCmd(me)
             [] op = "Release" -> ReleaseLockCmd(lease)
             [] OTHER -> AcquireLockCmd(me, lease)]

Unattended(entries) == [i \in DOMAIN entries |-> [entries[i] EXCEPT !.by = "nobody"]]

Abandon ==
  /\ Disturbs
  /\ wal' = [i \in DOMAIN wal |->
               IF wal[i].by = "attempt"
               THEN [wal[i] EXCEPT !.by = IF op = "WaitAcquire" THEN "waiter" ELSE "nobody"]
               ELSE wal[i]]
  /\ late' = IF req.stage = "sent" \/ (req.stage = "logged" /\ op = "WaitAcquire")
             THEN late (+) SetToBag({Request}) ELSE late
  /\ UNCHANGED <<fsm, leader, leading, view, waiters>>

(***************************************************************************)
(* attemptTimeout, or a connection that fails: on to the next address.     *)
(***************************************************************************)
AttemptTimeout ==
  /\ pc = "attempt" /\ Abandon
  /\ TryNext(queue, tries)
  /\ UNCHANGED <<op, resolverVars, sessionVars, seen>>

(***************************************************************************)
(* The caller's context ends, or failoverBudget has passed.                *)
(***************************************************************************)
ContextDone ==
  /\ \/ pc = "attempt" /\ Abandon
     \/ pc \in {"backoff", "again"} /\ UNCHANGED <<clusterVars, late, spent>>
  /\ UNCHANGED <<resolverVars, sessionVars>>
  /\ Return
  /\ Forget
-----------------------------------------------------------------------------
(***************************************************************************)
(* toGRPCError for what FSM.Apply answers.                                 *)
(***************************************************************************)
Code(err) ==
  CASE err = "nil" -> "OK"
    [] err = "ErrLockAlreadyHeld" -> "AlreadyExists"
    [] err \in {"ErrLeaseNotFound", "ErrLockNotFound"} -> "NotFound"
    [] err = "ErrNotLockOwner" -> "PermissionDenied"
    [] OTHER -> "InvalidArgument"

(***************************************************************************)
(* The lease may be past its deadline, or about to be expired: a client    *)
(* that is active, or about to be, can count on its lease (Session shows   *)
(* why).                                                                   *)
(***************************************************************************)
Lapsed(id) ==
  id # RivalLease /\ IF op = "Start" THEN id = lease ELSE session = "active" => id # lease

(***************************************************************************)
(* The codes with which node n may refuse request r without asking Raft:   *)
(* ensureLeader, the waiting line, CheckLeaseAlive, and the end of a wait. *)
(* A deposed leader decides on what it last applied and may never have     *)
(* heard of the lease or of its renewals.                                  *)
(***************************************************************************)
Refusals(n, r) ==
  IF n \notin leading THEN {"Unavailable"}
  ELSE IF r.cmd.type # "AcquireLock" THEN {}
  ELSE {c \in {"AlreadyExists", "NotFound", "FailedPrecondition"} :
          CASE c = "AlreadyExists" ->
                 \/ LockHasWaiters(n) /\ (r.wait \/ n # leader \/ ~HeldBy(r.cmd.lease))
                 \/ r.wait /\ HeldByOther(r.cmd.lease)
            [] c = "NotFound" -> n # leader \/ r.cmd.lease \notin DOMAIN fsm.leases
            [] OTHER -> n # leader \/ Lapsed(r.cmd.lease)}

Submits(n, r) ==
  /\ n \in leading
  /\ r.cmd.type = "AcquireLock" /\ n = leader =>
       /\ r.cmd.lease \in DOMAIN fsm.leases
       /\ IF r.wait THEN ~HeldByOther(r.cmd.lease)
                    ELSE LockHasWaiters(n) => HeldBy(r.cmd.lease)

Log(n, cmd, by) ==
  wal' = IF n = leader THEN Append(wal, [cmd |-> cmd, by |-> by]) ELSE wal

(***************************************************************************)
(* CreateLease, AcquireLock and ReleaseLock on the node that the client    *)
(* waits for: refused or handed to Raft.                                   *)
(***************************************************************************)
Serve ==
  LET n == req.at IN
  /\ req.stage = "sent"
  /\ \/ /\ \E c \in Refusals(n, Request) :
             req' = Replied(n, c, IF c = "Unavailable" THEN view[n] ELSE Empty, 0)
        /\ UNCHANGED wal
     \/ /\ Submits(n, Request)
        /\ req' = [req EXCEPT !.stage = "logged"]
        /\ Log(n, Request.cmd, "attempt")
  /\ UNCHANGED <<fsm, leader, leading, view, waiters, late, pc, op, queue, tries, resolverVars,
                 sessionVars, seen, spent>>

(***************************************************************************)
(* The same for a request nobody waits for: it is submitted or comes to    *)
(* nothing, unless it is to wait in the lock's queue.                      *)
(***************************************************************************)
Moved(r, stage) == late (-) SetToBag({r}) (+) SetToBag({[r EXCEPT !.stage = stage]})

ServeLate(r) ==
  /\ r.stage = "sent"
  /\ \/ /\ ~r.wait /\ late' = late (-) SetToBag({r})
        /\ \/ Submits(r.at, r) /\ Log(r.at, r.cmd, "nobody")
           \/ Refusals(r.at, r) # {} /\ UNCHANGED wal
        /\ UNCHANGED seen
     \/ /\ r.wait /\ r.at \in leading /\ late' = Moved(r, "queued")
        /\ seen' = [seen EXCEPT !.contended = @ \/ op = "Acquire"]
        /\ UNCHANGED wal
     \/ /\ r.wait /\ r.at \notin leading /\ late' = late (-) SetToBag({r})
        /\ UNCHANGED <<wal, seen>>
  /\ UNCHANGED <<fsm, leader, leading, view, waiters, req, pc, op, queue, tries, resolverVars,
                 sessionVars, spent>>

(***************************************************************************)
(* A queued WaitAcquire that nobody waits for may try for the lock, still  *)
(* in the queue, and leaves when its context is seen to be done or         *)
(* maxLockWait has passed, when the node no longer leads or the lease is   *)
(* gone.  Who of several is at the head is left open.                      *)
(***************************************************************************)
TryLate(r) ==
  /\ r.stage = "queued" /\ Submits(r.at, r)
  /\ Log(r.at, r.cmd, "waiter") /\ late' = Moved(r, "logged")
  /\ UNCHANGED <<fsm, leader, leading, view, waiters, req, pc, op, queue, tries, resolverVars,
                 sessionVars, seen, spent>>

LeaveLate(r) ==
  /\ r.stage = "queued" /\ late' = late (-) SetToBag({r})
  /\ UNCHANGED <<clusterVars, req, pc, op, queue, tries, resolverVars, sessionVars, seen, spent>>
-----------------------------------------------------------------------------
(***************************************************************************)
(* Raft commits the oldest entry and the FSM applies it.  If the client    *)
(* still waits for it at a node that has led all the time, it is answered; *)
(* a waiter, attended or not, that finds the lock held goes on waiting.    *)
(***************************************************************************)
Commit ==
  LET e   == Head(wal)
      out == Apply(fsm, e.cmd)
      held == out.reply.err = "ErrLockAlreadyHeld"
      waiter == [at |-> leader, stage |-> "logged", wait |-> TRUE, cmd |-> e.cmd]
      mineFreed == e.cmd = ReleaseLockCmd(lease) /\ out.reply.err = "nil"
  IN  /\ leader # Empty /\ wal # <<>>
      /\ fsm' = out.fsm /\ wal' = Tail(wal)
      /\ late' = IF e.by # "waiter" THEN late
                 ELSE IF held THEN Moved(waiter, "queued") ELSE late (-) SetToBag({waiter})
      /\ req' = IF e.by # "attempt" THEN req
                ELSE IF op = "WaitAcquire" /\ held THEN Sent(req.at)
                ELSE Replied(req.at, Code(out.reply.err), Empty,
                             CASE out.reply.err = "nil" /\ op = "Start" -> out.reply.lease
                               [] out.reply.err = "nil" /\ op # "Release" -> out.reply.token
                               [] OTHER -> 0)
      /\ seen' = [seen EXCEPT !.contended = @ \/ (op = "Acquire" /\ Holder' \notin {0, lease}),
                              !.freed = @ \/ (AsksForLock /\ mineFreed),
                              !.lost = @ \/ (handle # 0 /\ mineFreed)]
      /\ UNCHANGED <<leader, leading, view, waiters, pc, op, queue, tries, resolverVars,
                     sessionVars, spent>>

(***************************************************************************)
(* The leader is cut off: it goes on believing that it leads until it      *)
(* steps down, which fails the calls that wait for its log.  Those queued  *)
(* for the lock notice by themselves, within leaderRecheck.                *)
(***************************************************************************)
LoseLeadership ==
  /\ leader # Empty /\ Disturbs
  /\ leader' = Empty /\ wal' = Unattended(wal)
  /\ UNCHANGED <<fsm, leading, view, waiters, req, late, pc, op, queue, tries, resolverVars,
                 sessionVars, seen>>

StepDown(n) ==
  /\ n \in leading /\ n # leader
  /\ leading' = leading \ {n}
  /\ late' = [r \in {r \in BagToSet(late) : ~(r.at = n /\ r.stage = "logged")} |-> late[r]]
  /\ view' = [view EXCEPT ![n] = Empty]
  /\ req' = IF req.at = n /\ req.stage = "logged"
            THEN Replied(n, "Unavailable", Empty, 0) ELSE req
  /\ UNCHANGED <<fsm, wal, leader, waiters, pc, op, queue, tries, resolverVars, sessionVars,
                 seen, spent>>

(***************************************************************************)
(* The new leader's log has some of the entries that were not committed,   *)
(* and will commit those before any of its own.                            *)
(***************************************************************************)
Elect(n) ==
  /\ leader = Empty /\ n \notin leading
  /\ leader' = n /\ leading' = leading \cup {n} /\ view' = [view EXCEPT ![n] = n]
  /\ \E k \in 0..Len(wal) : wal' = SubSeq(wal, 1, k)
  /\ UNCHANGED <<fsm, waiters, req, late, pc, op, queue, tries, resolverVars, sessionVars, seen,
                 spent>>

(***************************************************************************)
(* A follower hears from the leader and has the leader's endpoint.         *)
(***************************************************************************)
Learn(n) ==
  /\ leader # Empty /\ n \notin leading /\ view[n] # leader
  /\ view' = [view EXCEPT ![n] = leader]
  /\ UNCHANGED <<fsm, wal, leader, leading, waiters, req, late, pc, op, queue, tries,
                 resolverVars, sessionVars, seen, spent>>

(***************************************************************************)
(* The leader's expiry loop, for a lease that has lapsed.                  *)
(***************************************************************************)
Expire(id) ==
  /\ leader # Empty /\ id \in DOMAIN fsm.leases /\ Lapsed(id)
  /\ \A i \in DOMAIN wal : wal[i].cmd # ExpireLeaseCmd(id)
  /\ Log(leader, ExpireLeaseCmd(id), "nobody")
  /\ UNCHANGED <<fsm, leader, leading, view, waiters, req, late, pc, op, queue, tries,
                 resolverVars, sessionVars, seen, spent>>

(***************************************************************************)
(* The other clients: a rival that takes and releases the lock, and that   *)
(* may queue for it.                                                       *)
(***************************************************************************)
RivalSubmits ==
  /\ leader # Empty /\ Disturbs
  /\ \A i \in DOMAIN wal : wal[i].cmd # AcquireLockCmd(rival, RivalLease)
  /\ Log(leader, AcquireLockCmd(rival, RivalLease), "nobody")
  /\ waiters' = waiters \ {leader}
  /\ UNCHANGED <<fsm, leader, leading, view, req, late, pc, op, queue, tries, resolverVars,
                 sessionVars, seen>>

RivalReleases ==
  /\ leader # Empty /\ HeldBy(RivalLease)
  /\ \A i \in DOMAIN wal : wal[i].cmd # ReleaseLockCmd(RivalLease)
  /\ Log(leader, ReleaseLockCmd(RivalLease), "nobody")
  /\ UNCHANGED <<fsm, leader, leading, view, waiters, req, late, pc, op, queue, tries,
                 resolverVars, sessionVars, seen, spent>>

RivalQueues ==
  /\ leader # Empty /\ leader \notin waiters /\ Holder \notin {0, RivalLease}
  /\ Disturbs
  /\ waiters' = waiters \cup {leader}
  /\ seen' = [seen EXCEPT !.contended = @ \/ op = "Acquire"]
  /\ UNCHANGED <<fsm, wal, leader, leading, view, req, late, pc, op, queue, tries,
                 resolverVars, sessionVars>>

RivalLeaves ==
  \E n \in waiters :
    /\ waiters' = waiters \ {n}
    /\ UNCHANGED <<fsm, wal, leader, leading, view, req, late, pc, op, queue, tries,
                   resolverVars, sessionVars, seen, spent>>

Call == NextPass \/ NextAsk \/ HandleReply \/ Serve
Raft == Commit \/ \E n \in Node : StepDown(n) \/ Elect(n) \/ Learn(n)
Others ==
  \/ \E id \in DOMAIN fsm.leases : Expire(id)
  \/ RivalReleases \/ RivalLeaves \/ \E r \in BagToSet(late) : LeaveLate(r)

Next ==
  \/ Start \/ Acquire \/ WaitAcquire \/ Release \/ Status \/ EndSession
  \/ Call \/ AttemptTimeout \/ ContextDone \/ discoverLeader
  \/ \E r \in BagToSet(late) : ServeLate(r) \/ TryLate(r)
  \/ Raft \/ LoseLeadership
  \/ Others \/ RivalSubmits \/ RivalQueues

(***************************************************************************)
(* A call goes on, at the client or at the server; Raft elects a leader,   *)
(* commits and spreads the news; and, as Others, the leader expires        *)
(* leases, a rival does not keep the lock for ever, and nobody is queued   *)
(* for ever (maxLockWait).  A call is in one place at a time, and Raft and *)
(* Others each run out of things to do, so weak fairness of each group     *)
(* suffices.  Nothing makes a caller's context end.                        *)
(***************************************************************************)
Spec ==
  /\ Init /\ [][Next]_vars
  /\ WF_vars(Call) /\ WF_vars(Raft) /\ WF_vars(Others)
-----------------------------------------------------------------------------
(***************************************************************************)
(* Types; the resolver lists no address twice, and a pass never has more   *)
(* than two attempts at one, however the nodes redirect the client.        *)
(***************************************************************************)
TypeOK ==
  /\ IsFSMState(fsm)
  /\ wal \in Seq([cmd: Command, by: {"attempt", "waiter", "nobody"}])
  /\ leader \in Node \cup {Empty} /\ leading \in SUBSET Node /\ waiters \in SUBSET Node
  /\ view \in [Node -> Node \cup {Empty}]
  /\ req.at \in Node \cup {Empty} /\ req.stage \in {"none", "sent", "logged", "replied"}
  /\ pc = "attempt" <=> req # None
  /\ pc \in {"idle", "attempt", "backoff", "again"} /\ session \in {"active", "stopped", "failed"}
  /\ queue \in Seq(Node) /\ tries \in [Node -> 0..2]
  /\ currentAddr \in Range(seedAddrs) /\ Range(seedAddrs) \subseteq Node
  /\ Len(seedAddrs) = Cardinality(Range(seedAddrs))
  /\ Cardinality({i \in DOMAIN wal : wal[i].by = "attempt"}) =
       IF req.stage = "logged" /\ req.at = leader THEN 1 ELSE 0
  /\ \A r \in BagToSet(late) : /\ r.stage \in {"sent", "queued", "logged"}
                              /\ r.stage = "logged" => r.at \in leading

(***************************************************************************)
(* The Lock that Acquire or WaitAcquire returned stands for a lock that is *)
(* held, with that token, as long as the session is active, unless a       *)
(* Release of the client's own took it: not an answer that came to a       *)
(* repeated or redirected attempt, not a failover, a rival or an expiry.   *)
(* A Release may do so long after its call returned: see RepeatIsSafe.     *)
(***************************************************************************)
LostOnlyByRelease ==
  session = "active" /\ handle # 0 /\ ~seen.lost =>
    lock \in DOMAIN fsm.locks /\ fsm.locks[lock].lease = lease /\ fsm.locks[lock].token = handle

(***************************************************************************)
(* "Every Clavis call is safe to repeat on another node: acquire and       *)
(* release are idempotent": as long as no Release returned an error, so    *)
(* that the application has no reason to think one is still under way, the *)
(* Lock it goes on to acquire and use is held.                             *)
(***************************************************************************)
RepeatIsSafe ==
  session = "active" /\ handle # 0 /\ ~seen.unsure =>
    lock \in DOMAIN fsm.locks /\ fsm.locks[lock].lease = lease /\ fsm.locks[lock].token = handle

(***************************************************************************)
(* Acquire reports ErrLockHeld only if, while the call was under way,      *)
(* another lease held the lock or somebody was queued for it: another      *)
(* client, or a WaitAcquire of this client's that it had given up and the  *)
(* node had not.  The client's own lease is never taken for a competitor   *)
(* because an attempt whose answer was lost has taken the lock.            *)
(***************************************************************************)
BusyMeansContended ==
  op = "Acquire" /\ req.code = "AlreadyExists" => seen.contended

(***************************************************************************)
(* Every call returns, without the help of its context: once elections are *)
(* over the client finds the leader, also one that is not among its seeds, *)
(* and is answered.                                                        *)
(***************************************************************************)
CallsAnswered == pc # "idle" ~> pc = "idle"
=============================================================================
