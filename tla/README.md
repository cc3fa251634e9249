# TLA+ models and proofs of Clavis

Clavis is a lock service on Raft. Clients hold time-bounded leases; locks are
held under leases and carry fencing tokens. This directory models the
replicated state machine with its snapshots and the fenced lock it implements,
the leader's in-memory lease tracking, the queue of waiting lock calls, the
client's lease session and its calls across failovers, cluster membership, and a
node's start on its data directory.

## The system

| Part | Source | State | Operations | Talks to |
|---|---|---|---|---|
| Replicated state machine | `internal/state/fsm.go`, `internal/raftlog`, `internal/domain` | locks, leases, endpoints, fencing counter, next lease id | create, expire lease; acquire, release lock; upsert, remove endpoint | applied by Raft; calls the lock queue's hook when a lock is freed |
| Snapshots | `internal/state/raft_fsm.go` | snapshot files | Snapshot, Persist, Restore, validation | Raft's snapshot store |
| Lease tracking | `internal/cluster/lease.go` | term, start of leadership, renewals, claims; last barrier term | RenewLease, CheckLeaseAlive, expiry loop | FSM reads, Raft Apply, Barrier, VerifyLeader |
| Lock queue | `internal/cluster/lockqueue.go` | FIFO of waiters per lock, signal channels | join, leave, wake | service, FSM hook |
| Service | `internal/service` | none | one method per RPC | everything above |
| Raft wrapper | `internal/cluster/node.go` | clock base, stop channel | Apply, IsLeader, Now, start, stop | hashicorp/raft |
| Membership | `internal/cluster/member.go` | endpoint metadata (in the FSM) | add, remove member, metadata loop | Raft configuration, FSM |
| Storage | `internal/cluster/storage.go` | WAL, Bolt file | open, migrate | disk |
| Client | `pkg/client` | lease session, heartbeat stream, seeds and hints | start, acquire, release, heartbeat, failover | gRPC |
| Transport, identity, admin, runtime | `internal/transport`, `internal/app`, `cmd` | node id file | RPC handlers, error codes, `callLeader`, wiring | |
| Examples | `examples` | a row that checks tokens | write | client |

What makes it hard: Raft applies commands in one order, but renewals are not
commands. They live in one leader's memory, so an acknowledged renewal has to
survive a failover although nothing replicated records it; a deposed leader may
not know yet; entries of an older leader may still commit; clocks differ.
Waiters sleep and are woken by commits. Snapshots are written while the state
machine goes on. `PROJECT.json` lists the hazards with their lines.

## Modules

| Module | Models |
|---|---|
| `FSM` | `fsm.go` and `raft_fsm.go` as operators: each command's handler takes a state and gives the new state, the reply and the freed locks; `Snapshot`, `ValidSnapshot`, `Restore` |
| `Replica` | replicas that apply one committed log, take and persist snapshots in two steps, crash, restart and install snapshots |
| `FencedLock` | the abstract specification: sessions, locks, tokens, and what clients were told; no log, replica or crash |
| `FencedWrites` | `Replica` with clients that go on writing to a guarded row (`examples/fencing.go`, `examples/failover.go`), and the refinement mapping to `FencedLock` |
| `LeaseTracking` | several nodes with their trackers, expiry loops and renewals in flight, over Raft and time |
| `LockQueue` | `AcquireLock` on the leader with its queue, the hook, releases, expiries and loss of leadership |
| `Session` | the client's `Start`, heartbeat loop, reconnection, invalidation and `Stop`, in discrete time, against a server that keeps a lease one TTL after each renewal |
| `ClientCalls` | `callWithFailover`, `tryCandidates`, the resolver, `Acquire`, `WaitAcquire`, `Release`, `Status` and the server's handlers, over a cluster whose leader changes |
| `Membership` | `JoinNode`, `RemoveNode`, `callLeader`, `endpointMetadataLoop` and the lookup of the leader's address, over Raft's configuration changes |
| `DataDir` | `ResolveNodeID`, the migration from Bolt, opening the WAL and bootstrapping, one action per step that changes the directory, with a crash between any two |
| `FSMProofs`, `ReplicaProofs`, `FencedWritesProofs`, `LockQueueProofs`, `SessionProofs`, `DataDirProofs` | theorems |
| `MCReplica`, `MCFencedWrites`, `MCLeaseTracking`, `MCLockQueue`, `MCSession`, `MCClientCalls`, `MCMembership`, `MCDataDir` | constants for TLC |

`Replica`, `LeaseTracking`, `LockQueue`, `ClientCalls` and `Membership` apply
commands through `FSM`'s `Apply`, so a handler is translated once, and its
lemmas in `FSMProofs` serve several proofs.

**Raft is external** and modelled by what the code relies on. `Replica` has a
committed log and each replica's applied index. `LeaseTracking` adds terms: each
node has a tail of uncommitted entries, a newly elected leader keeps a prefix of
somebody's tail and appends a no-op, only the leader of the newest term commits,
and a deposed leader leads on until it steps down. Leaving leadership fails
pending futures, whose entries may still commit. `ClientCalls` and `Membership`
keep only the newest leader's log beyond what is committed, of which a successor
has some prefix. `Membership` adds configurations: they count from when they are
in the log, one change is in flight at a time, an address in use or an empty
configuration is refused, and a leader that removed itself shuts its Raft down.

**Time** in `LeaseTracking` is a global counter; each node reads it with a fixed
skew, as `Node.Now` advances by the monotonic clock. `promised` is a history
variable: the time until which some client was told that its lease is alive, one
TTL from the clock reading its renewal went by.

**Stalls.** `Node.RenewLease` and the expiry loop read the term and the clock, or
claim leases, and act on that later, under another lock or none; each such reading
is an action of its own. `Stalls` names where a goroutine may be stopped for long
in between: with `"term"` while its node's leadership changes, with `"clock"` while
time passes between `n.Now()` and the recording of the renewal. Waiting on a Raft
future is no stall. Without stalls (`Stalls = {}`) several renewals and the loop
still interleave at every step. A change of leadership takes an election timeout
of a second, and two lines apart in one goroutine are microseconds, so this is the
ordinary case.

**The session's timing.** The heartbeat loop runs as soon as a timer or an answer
wakes it. `StartDelay` bounds how long `Start` takes and `OpenDelay` how long
opening a stream blocks, because neither goes by the loop's own deadlines. A
stream breaks, a request or answer is late or lost, at any time; a request may
reach the server after its stream was cancelled. The server's promise, one TTL
from the receipt of a renewal, is what `LeaseTracking` checks of the cluster.

**The data directory.** `written` (what Raft stored last) and `ran` (the ids Raft
ran with) are history variables. A failing step ends the process as a crash
does. What a process wrote survives its crash; losing unsynced data with the
machine is not modelled. Any flags are passed on any start, a wrong `--node-id`
too. Older data without a node-id file take the id they are started with, because
`ResolveNodeID` cannot see the configuration; `misnamed` is the history of an
operator who named one that is not in it.

**Calls.** In `ClientCalls` a request whose caller timed out stays in `late` until
some handler deals with it, at any later time: one that waits joins the queue,
where it counts for `LockHasWaiters` and may submit its command when it is the
head, until it leaves. An entry in the log whose caller is gone still commits.
The other clients are one rival lease that takes,
releases and queues for the lock. An active session can count on its lease: that
is what `Session` and `LeaseTracking` show; leases of sessions that ended may
lapse at any time. `Stop` does not invalidate the session's lease id, so calls
after `Stop` go on with it, as in the code; a session that failed refuses them. A
new session takes a new client, which knows only the seeds. `seen` is history:
whether since `Acquire` was called another lease had the lock or somebody was
queued for it (an abandoned wait of the client's own included), whether a
`Release` of this client freed the lock it was given, and whether a `Release`
returned an error while one of its requests was still under way.

**Membership.** Both handlers write two entries, the configuration and the
endpoint map, and ignore their caller's context, so that one whose caller gave up
runs beside its repetition. `settled` is history: what was last acknowledged
about a node, unless another handler worked on that node at the same time or
since. Nodes may come back with other addresses.

## Runs

| Run | Bounds | Shows |
|---|---|---|
| `replica_commands` | 2 replicas, log of 3, all commands, arguments taken and refused, up to the overflow of the deadline; any order of snapshots, crashes and installs | `TypeOK`, `ReplicasAgree`, `LocksBackedByLeases`, `SnapshotsRestorable` |
| `fenced_writes` | 1 replica that crashes, log of 5, a lock that two leases take, release and lose, late writers | `FencingOrder`, `TokensNeverReused`, `LeaseIDsNeverReused`, `TermsClimb`, `ImplementsFencedLock` |
| `lease_prompt` | 2 nodes with skews 0 and 1, two renewals in flight, no stalls, TTL 2, time to 3, 2 terms, log of 4 | `TypeOK`, `AcknowledgedLeaseLives`, `LeaderHonoursPromises` |
| `lease_stall` | as `lease_prompt` with both stalls | a violation, below |
| `queue_waiters` | 2 waiters, 1 call that does not wait, two leases may expire | `NoLostWakeup`, `EveryWaiterAnswered`, `WaitersInOrder`, `TypeOK` |
| `queue_barging` | a waiter and two calls of one lease | a violation, below |
| `session_timely` | TTL 12, start within 2, opening within 1, time to 20, 2 streams | `TypeOK` (no leaked stream), `GivesUpInTime`, `LeaseOutlivesSession` |
| `session_blocked_open` | opening within 4 | a violation, below |
| `calls_failover` | 2 nodes of which 1 is a seed and the other leads first, 2 calls, 2 of: attempts given up, losses of leadership, ended sessions, rivals asking | `TypeOK` (no address twice, no more than two attempts at one per pass), `LostOnlyByRelease`, `BusyMeansContended`, `CallsAnswered` |
| `calls_release` | both nodes seeds, 3 calls, 1 event | a violation, below |
| `membership` | 2 nodes with 2 and 3 sets of addresses, 3 handlers, 2 attempts, 2 starts or removals, 1 crash, timeout or loss of leadership | `TypeOK`, `JoinedIsAdvertised`, `RemovedIsGone`, `LeaderBecomesKnown` |
| `datadir_restarts` | 2 ids, log of 2, 2 crashes, new and older directories | `TypeOK`, `NothingLost`, `OneIdentity`, `NoSecondCluster`, `ComesUp` |

The bounds are chosen so that the cases happen: two terms give a deposed leader,
its leftover entries and a successor; time to 3 with TTL 2 lets a lease expire,
be renewed past its first deadline, and be promised across a failover.
`lease_prompt` was also checked once with time to 4 (2,722,687 states) and once
with two leases, one renewal and a log of 5 (6,261,077 states), without error.
After the last election only its leader can commit or promise, so it stays and
nodes that do not lead rest: that cut is part of the bound `MaxTerm`. A log of 3
in `replica_commands` has no room for two leases at one lock, so that a lock
held or owned by another lease is left to `fenced_writes`; several locks, and
their common counter of tokens, are left to the theorems. Deadlock checking is
off where the model stops by design: when its log, time or terms run out, or all
calls are answered.

Time to 20 with TTL 12 holds a renewal, a failed one with all its retries, and
the end of the proof. Two crashes interrupt a migration and its repetition. Two
calls are enough for a lock taken by an attempt that was given up, for a late
`Release` that meets the next hold of the same lease, and for a new session
whose predecessor's lease is still to expire; the seed list leaves one node to
be discovered. `calls_failover` was also checked once with either node leading
first, with two calls (464,648 states) and with three (1,171,750), without
error. In `membership` two operations and their retries give a join beside a
removal of the same node, a node that returns under another address, and one
that asks for an address in use; with three attempts per call it was checked
once (447,979 states, no error). The properties of `queue_waiters` were also
checked once with three waiters and a call that does not wait, one lease mortal
(1,228,555 states, no error); it takes over six minutes and is not among the
runs.

**Fairness** is used by the queue runs, `datadir_restarts`, `calls_failover` and
`membership`. In the queue runs goroutines run, Raft applies what it accepted, and
a holder releases at some time. The recheck ticker is fair only
after leadership is lost, and the timeout never, so while the node leads
`EveryWaiterAnswered` rests on the signals alone. In `datadir_restarts` the
process goes on (weak fairness), and the operator, who may pass wrong flags any
number of times, passes the right ones in the end (strong fairness: each wrong
start disables the right one for a while). Crashes are finitely many. In
`calls_failover` goroutines and servers go on, Raft elects, commits and spreads
the news, the leader expires leases, and nobody keeps the lock, or waits, for ever;
in each of these three groups something happens as long as anything can. Neither
timeouts nor the caller's context are fair: `CallsAnswered` says that a call
returns because it is answered. In `membership` something goes on as long as
anything can (weak fairness of the disjunction), which a scheduler that runs
every goroutine gives.

## Four disagreements with the documentation

- `lease_stall`: the README promises that "no acknowledged renewal is ever cut
  short" (`README.md:61`), and that checking and recording a renewal under one lock
  "is what keeps a renewal from racing the expiry loop" (`lease.go:60`). But the
  clock is read before the lock is taken. A renewal that reads it just before the
  deadline, and gets the lock after the loop has claimed, expired and forgotten the
  lease, finds no claim and is acknowledged: the trace of the run. For the same
  reason the older of two overlapping renewals can be recorded last, and takes back
  what the newer was promised (`Stalls = {"clock"}` and `LeaderHonoursPromises`).
  With `Stalls = {"term"}` there is another way: a renewal is not tied to the term
  it read, nor an expiry to the term of its claim, so that a goroutine that sleeps
  while its node loses and regains leadership is acknowledged by a tracker that has
  forgotten the claim, before the committed expiry is applied. The first takes a
  pause of a Raft commit between two lines, the last one of about a second.
- `queue_barging`: "callers that are not waiting cannot take it ahead of them"
  (`README.md:63`). A call that does not wait is admitted because its own lease
  holds the lock; if that lease's release commits before the call's command, the
  command takes the freed lock ahead of the queue.
- `calls_release`: "Every Clavis call is safe to repeat on another node: acquire
  and release are idempotent" (`pkg/client/resolver.go:349`). A release names the
  lease and not the hold. A `Release` times out, is repeated and succeeds; the
  client acquires the lock again; then the first request, which was only delayed,
  frees it in the client's hands, with the session active and no call in error.
- `session_blocked_open`: the loop "gives up a quarter TTL before the last proof
  runs out" (`pkg/client/session.go:277`, `README.md:184`). `reconnectHeartbeat`
  opens the stream with the session's context, so a connection that hangs keeps
  the loop beyond its deadline. A slow `Start` breaks the same promise (with
  `StartDelay = 5` in `MCSession_timely.cfg`): the first proof counts from the
  sending of `CreateLease`, but the first renewal is sent TTL/3 after `Start` is
  done and may take TTL/3 to fail; only then is the time to give up looked at.

Behaviour the models show that contradicts no document:

- A node-id file that was created but not written (a crash inside
  `persistNodeID`) is refused by every later start; `ComesUp` excepts it.
- Data without a node-id file are started under any `--node-id`, also one that is
  not in their configuration, and keep it (`identity.go:57-75`): `OneIdentity` and
  `IdentityKept` promise one id, and the configuration's only if none was misnamed.
- A `Release` repeated after its answer was lost is answered `NotFound` or
  `PermissionDenied` although it took effect.
- An `Acquire` may report `ErrLockHeld` because of a `WaitAcquire` of the same
  client that gave up and whose handler is still queued: `BusyMeansContended` counts
  it among those who wait.
- A `WaitAcquire` queues again, at the back, after each window: `WaitersInOrder`
  is about single calls.
- A join overlapped by a removal of the same node may be acknowledged although
  the node is no voter any more, or leave a voter without an endpoint until it
  leads; `settled` excepts overlapping handlers.
- A leader that removes itself reports an error although it is removed, and its
  endpoint stays in the map (which its comment calls harmless).
- `callLeader` goes on asking the address a stale hint named, also when nobody
  answers there, until its attempts are used up.

## Proofs

`ReplicaProofs` proves, for any sets of replicas, names and owners and any
command sequence, `TypeCorrect`, `Agreement`, `LocksHaveLeases`,
`SnapshotsAccepted`, `FencingTokensOrdered`, `TokensUnique`, `LeaseIDsUnique`.
The assumptions are the ones `FSM` and `Replica` name for their constants.
`FSMProofs` holds what it needs of the handlers: each keeps a state well formed
(`ApplyGood`), never lowers a counter and takes a lock from nobody silently
(`ApplyStep`), and `Restore` of a snapshot gives the state back (`RestoreExact`).

The properties are not inductive: a replica's state says nothing about the log
it came from. The invariant `IInv` relates everything to `hist`, the sequence
of states that the committed log produces: each step of `hist` is `Apply` of its
entry; each replica's state is `hist` at its applied index; each snapshot, in
memory or on disk, is the snapshot of `hist` at the index it is filed under; and
every state of `hist` is well formed. Agreement and restorability follow.
Tokens and lease ids need that the counters never decrease along `hist` and
bound everything handed out, and, for a repeated token, that the lock was held
under it at every state in between (`HeldSince`).

`SessionProofs` proves `TypeCorrect`, `SessionEndsInTime` and
`LeaseHeldWhileActive`, the properties of `session_timely`, for every TTL,
backoff and delay that satisfy `Timely`: with `Slack` the larger of `StartDelay`
and `OpenDelay`, `Slack + 2 * Interval + OpenDelay < TTL` and
`GiveUp + MinAttempt + OpenDelay < TTL`. So `Timely` says how quick `Start` and
the opening of a stream must be; the disagreements above are what happens outside it.
`TimeInv` bounds, at each place of the loop, its timer and deadline by
`confirmedAt`; `StreamInv` says that at most one request or answer is on its way
on an open stream, and none outside an exchange; `ProofInv` says that a pending
answer, and `confirmedAt`, stand for a renewal the server received no earlier.
Hence a late answer is never taken for a later one.

`FencedWritesProofs` proves `Refinement`: `WritesSpec` implements `FencedLock`
under the mapping that reads the abstract state off the last state of `hist`. A
committed command opens a session, grants, frees, ends a session or changes
nothing (one lemma per handler); a replica that answers, also in a replay, tells
of a grant in `hist`, by `ReplicaProofs`' invariant; every other step stutters.
`OneWriterPerToken` adds `RowInv`, that the row's newest write is some grant of
the guarding lock: two grants with one token have one lease.

`LockQueueProofs` proves `TypeCorrect`, `HeadIsWoken` and `ArrivalOrder` for any
finite set of calls, any leases they share and any that expire. `NoLostWakeup`
alone is not inductive: a head that is awake may go to sleep. `WakeInv` says that
while the lock is free the head is on its way to look at it, on its way out, or
has a signal waiting; keeping it needs that the queue holds each waiting call once
(`QueueInv`), that an entry answers a call that waits for it (`LogInv`), and that
a waiter that acquires is the head and the queue is in arrival order (`TurnInv`).

`DataDirProofs` proves `TypeCorrect`, `MigrationKeepsAll`, `IdentityKept` and
`ClusterKept` for any ids, store sizes and number of crashes. `DiskInv` says that
each of `raft.db` and the WAL, where it exists, is what Raft stored last, and
which exist where; `CopyInv` how far the copy has come, with the keys not copied
yet missing; `IdentityInv` that a node-id file, once written, names the only id
Raft ran with, and the configuration's unless the directory was misnamed, and that
an id is generated only for a directory that holds no data.

Only model-checked: liveness (`EveryWaiterAnswered`, `ComesUp`, `CallsAnswered`,
`LeaderBecomesKnown`), which is out of the prover's reach, and all of
`LeaseTracking`, `ClientCalls` and `Membership`, whose invariants would have to
relate each step of several handlers to the logs of several terms.

## Not modelled

- JSON and protobuf encodings (a snapshot or command is the record it stands for),
  logging, TLS, gRPC itself, flag parsing and the derivation of advertised
  addresses from flags, generated code: no state.
- The client's pool of connections (`connFor`, `close`). A connection made while
  `Stop` drains the pool is never closed; nothing else depends on the pool.
- The graceful drain of `Runtime.Stop`: a stopped node is a crashed one.
- That an unattended lease expires at some time, and how late after a failover:
  `LeaseTracking` cuts time off, and leaves clocks and the loop's schedule free.
- The scripts of the examples, the benchmark and the Jepsen holder: load and test
  harnesses around the client.
