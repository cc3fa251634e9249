------------------------------- MODULE Replica -------------------------------
(***************************************************************************)
(* Every node of the cluster feeds the same committed Raft log to its own  *)
(* FSM, takes snapshots of it, and comes back from a crash, or catches up, *)
(* by restoring a snapshot and replaying the log after it.  Raft itself    *)
(* (hashicorp/raft) is external: it is the sequence of committed entries   *)
(* and the rules by which it calls RaftFSM.Apply, Snapshot, Persist and    *)
(* Restore.                                                                *)
(*                                                                         *)
(* hist and issued are history variables: hist[k] is the state that        *)
(* applying the first k entries to a new FSM gives, issued the successful  *)
(* CreateLease and AcquireLock replies that some node's Apply has produced *)
(* (each may have reached a client, if that node was the leader).          *)
(***************************************************************************)
EXTENDS FSM, Sequences

CONSTANTS
  Node,      \* the replicas
  Input,     \* the commands that clients and the expiry loop may commit
  MaxLog     \* bound on the length of the log

ASSUME ReplicaAssumption ==
  /\ Input \subseteq Command
  /\ MaxLog \in Nat

VARIABLES
  log,       \* committed entries, in order
  fsm,       \* fsm[n]: the live state machine of node n
  applied,   \* applied[n]: how many entries fsm[n] reflects
  pending,   \* pending[n]: snapshots Snapshot has returned and Persist has not written
  snap,      \* snap[n]: the newest snapshot in node n's snapshot store
  hist,
  issued

vars == <<log, fsm, applied, pending, snap, hist, issued>>

(***************************************************************************)
(* A node with an empty snapshot store starts from a new FSM at index 0.   *)
(***************************************************************************)
Init ==
  /\ log = <<>>
  /\ fsm = [n \in Node |-> NewFSM]
  /\ applied = [n \in Node |-> 0]
  /\ pending = [n \in Node |-> {}]
  /\ snap = [n \in Node |-> [index |-> 0, data |-> Snapshot(NewFSM)]]
  /\ hist = [k \in {0} |-> NewFSM]
  /\ issued = {}

(***************************************************************************)
(* Raft commits one more command.                                          *)
(***************************************************************************)
Commit(cmd) ==
  /\ Len(log) < MaxLog
  /\ log' = Append(log, cmd)
  /\ hist' = [k \in 0..(Len(log) + 1) |->
                IF k <= Len(log) THEN hist[k] ELSE Apply(hist[Len(log)], cmd).fsm]
  /\ UNCHANGED <<fsm, applied, pending, snap, issued>>

(***************************************************************************)
(* RaftFSM.Apply on the next committed entry.                              *)
(***************************************************************************)
ApplyEntry(n) ==
  LET cmd     == log[applied[n] + 1]
      outcome == Apply(fsm[n], cmd)
  IN  /\ applied[n] < Len(log)
      /\ fsm' = [fsm EXCEPT ![n] = outcome.fsm]
      /\ applied' = [applied EXCEPT ![n] = @ + 1]
      /\ issued' = IF cmd.type \in {"CreateLease", "AcquireLock"} /\ outcome.reply.err = "nil"
                   THEN issued \cup {[index |-> applied[n] + 1, cmd |-> cmd,
                                      reply |-> outcome.reply]}
                   ELSE issued
      /\ UNCHANGED <<log, pending, snap, hist>>

(***************************************************************************)
(* RaftFSM.Snapshot copies the state; the live FSM goes on changing while  *)
(* the copy waits to be written.  One snapshot is in flight at a time.     *)
(***************************************************************************)
TakeSnapshot(n) ==
  /\ pending[n] = {}
  /\ applied[n] > snap[n].index
  /\ pending' = [pending EXCEPT ![n] = {[index |-> applied[n], data |-> Snapshot(fsm[n])]}]
  /\ UNCHANGED <<log, fsm, applied, snap, hist, issued>>

(***************************************************************************)
(* The store keeps what Persist wrote; of two snapshots it offers the      *)
(* newer one.                                                              *)
(***************************************************************************)
Newer(p, q) == IF p.index > q.index THEN p ELSE q

(* mutant: the snapshot shares the live maps instead of copying them *)
PersistShared(n) ==
  \E p \in pending[n] :
    /\ snap' = [snap EXCEPT ![n] = Newer([index |-> p.index, data |-> Snapshot(fsm[n])], @)]
    /\ pending' = [pending EXCEPT ![n] = {}]
    /\ UNCHANGED <<log, fsm, applied, hist, issued>>

(***************************************************************************)
(* fsmSnapshot.Persist: encoded and closed, or cancelled, which leaves the *)
(* store as it was.                                                        *)
(***************************************************************************)
Persist(n) ==
  \E p \in pending[n] :
    /\ \/ snap' = [snap EXCEPT ![n] = Newer(p, @)]
       \/ UNCHANGED snap
    /\ pending' = [pending EXCEPT ![n] = {}]
    /\ UNCHANGED <<log, fsm, applied, hist, issued>>

(***************************************************************************)
(* The same by a node that still runs a version without endpoint metadata, *)
(* before any endpoint has been committed.                                 *)
(***************************************************************************)
PersistLegacy(n) ==
  \E p \in pending[n] :
    /\ \A i \in 1..p.index : log[i].type \notin {"UpsertEndpoint", "RemoveEndpoint"}
    /\ snap' = [snap EXCEPT
                  ![n] = Newer([index |-> p.index, data |-> LegacySnapshot(p.data)], @)]
    /\ pending' = [pending EXCEPT ![n] = {}]
    /\ UNCHANGED <<log, fsm, applied, hist, issued>>

(***************************************************************************)
(* The process dies, losing everything in memory, and starts again: Raft   *)
(* restores the newest snapshot into a new FSM (a node whose snapshot does *)
(* not validate does not start) and will replay the log after it.          *)
(***************************************************************************)
Restart(n) ==
  /\ ValidSnapshot(snap[n].data)
  /\ fsm' = [fsm EXCEPT ![n] = Restore(NewFSM, snap[n].data)]
  /\ applied' = [applied EXCEPT ![n] = snap[n].index]
  /\ pending' = [pending EXCEPT ![n] = {}]
  /\ UNCHANGED <<log, snap, hist, issued>>

(***************************************************************************)
(* A node that lags behind what m's compacted log still holds is sent m's  *)
(* snapshot.  It is stored, then restored into the running FSM; applied    *)
(* moves only when Restore succeeded.                                      *)
(***************************************************************************)
InstallSnapshot(n, m) ==
  /\ snap[m].index > applied[n]
  /\ snap' = [snap EXCEPT ![n] = Newer(snap[m], @)]
  /\ fsm' = [fsm EXCEPT ![n] = Restore(@, snap[m].data)]
  /\ applied' = [applied EXCEPT ![n] = IF ValidSnapshot(snap[m].data)
                                       THEN snap[m].index ELSE @]
  /\ UNCHANGED <<log, pending, hist, issued>>

Next ==
  \/ \E cmd \in Input : Commit(cmd)
  \/ \E n \in Node : \/ ApplyEntry(n)
                     \/ TakeSnapshot(n)
                     \/ Persist(n)
                     \/ PersistLegacy(n)
                     \/ Restart(n)
  \/ \E n, m \in Node : InstallSnapshot(n, m)

Spec == Init /\ [][Next]_vars
-----------------------------------------------------------------------------
(***************************************************************************)
(* Types.                                                                  *)
(***************************************************************************)
TypeOK ==
  /\ log \in Seq(Input)
  /\ applied \in [Node -> 0..Len(log)]
  /\ DOMAIN fsm = Node
  /\ \A n \in Node : IsFSMState(fsm[n])
  /\ DOMAIN hist = 0..Len(log)
  /\ \A k \in 0..Len(log) : IsFSMState(hist[k])
  /\ DOMAIN snap = Node
  /\ \A n \in Node : snap[n].index \in 0..Len(log)
  /\ DOMAIN pending = Node
  /\ \A n \in Node : \A p \in pending[n] : p.index \in 0..Len(log)

(***************************************************************************)
(* Two nodes that have applied the same number of entries are in the same  *)
(* state, whatever snapshots, restarts and installs brought them there:    *)
(* Snapshot, Persist and Restore lose nothing that later commands depend   *)
(* on, and the copy Persist writes belongs to the index it is filed under. *)
(***************************************************************************)
ReplicasAgree ==
  \A n, m \in Node : applied[n] = applied[m] => fsm[n] = fsm[m]

(***************************************************************************)
(* A lock is held only under a lease that exists and belongs to the lock's *)
(* owner: expiry takes the locks with the lease, a lease id never moves to *)
(* another owner, and no restore brings back a lock without its lease.     *)
(***************************************************************************)
LocksBackedByLeases == \A n \in Node : LocksBacked(fsm[n])

(***************************************************************************)
(* Any snapshot a node has stored passes validateSnapshot, so a restart or *)
(* an install never fails on it: the overflow check in leaseExpiryAt and   *)
(* the empty-string checks keep out every value Restore would refuse.      *)
(***************************************************************************)
SnapshotsRestorable == \A n \in Node : ValidSnapshot(snap[n].data)

Grants == {r \in issued : r.cmd.type = "AcquireLock"}
Creations == {r \in issued : r.cmd.type = "CreateLease"}

(***************************************************************************)
(* Fencing: of two AcquireLock replies for one lock, ever, on any node,    *)
(* the later in the log carries the larger token, and an equal token only  *)
(* when it went to the same lease (the idempotent re-acquisition).         *)
(***************************************************************************)
FencingOrder ==
  \A g, h \in Grants :
    g.cmd.lock = h.cmd.lock /\ g.index <= h.index =>
      /\ g.reply.token <= h.reply.token
      /\ g.reply.token = h.reply.token => g.cmd.lease = h.cmd.lease

(***************************************************************************)
(* A fencing token names one uninterrupted hold of one lock: two replies   *)
(* with the same token are for the same lock and lease, and the lock was   *)
(* held under that token all the time from the one to the other.  No       *)
(* release, expiry, restart or restored snapshot brings a token back.      *)
(***************************************************************************)
TokensNeverReused ==
  \A g, h \in Grants :
    g.reply.token = h.reply.token /\ g.index <= h.index =>
      /\ g.cmd.lock = h.cmd.lock /\ g.cmd.lease = h.cmd.lease
      /\ \A k \in g.index..h.index :
           /\ g.cmd.lock \in DOMAIN hist[k].locks
           /\ hist[k].locks[g.cmd.lock].token = g.reply.token

(***************************************************************************)
(* Two CreateLease entries never yield the same lease id, so a client that *)
(* kept the id of an expired lease can never act on someone else's.        *)
(***************************************************************************)
LeaseIDsNeverReused ==
  \A c, d \in Creations : c.reply.lease = d.reply.lease => c.index = d.index
=============================================================================
