----------------------------- MODULE Membership -----------------------------
(***************************************************************************)
(* Who is in the cluster and where its nodes can be reached: JoinNode and  *)
(* RemoveNode with the leader-chasing callLeader in front of them, and the *)
(* loop that keeps the leader's own endpoint in the replicated map (the    *)
(* operators of FSM).  Both handlers take two Raft entries, a change of    *)
(* the configuration and then one of the map; they do not look at their    *)
(* caller's context, so one whose caller gave up runs on beside the next.  *)
(*                                                                         *)
(* Raft is external: config is the committed configuration, wal what the   *)
(* leader's log holds beyond it, and at most one change of configuration   *)
(* is in flight.  A leader that is cut off commits nothing and knows       *)
(* nothing, so that it steps down at once takes away only errors.          *)
(***************************************************************************)
EXTENDS FSM, Sequences, FiniteSetsExt

CONSTANTS
  Flags,        \* Flags[n]: the addresses node n may be started with
  First,        \* the node that bootstraps the cluster
  Operator,     \* whoever runs clavis --remove-node
  Slot,         \* handlers that may be running at a time, an initial segment of Nat
  MaxAttempts,  \* attempts callLeader makes
  MaxOps,       \* bound on starts, with --join or not, and runs of --remove-node
  MaxEvents     \* bound on crashes, losses of leadership and timeouts

Node == NodeID
Member == UNION {Flags[n] : n \in Node}

ASSUME MembershipAssumption ==
  /\ DOMAIN Flags = Node
  /\ \A n \in Node : Flags[n] # {} /\ \A f \in Flags[n] : f.raft # Empty /\ f.grpc \in Address
  /\ First \in Node /\ Operator \notin Node
  /\ MaxAttempts \in Nat \ {0}

VARIABLES
  mode,      \* mode[n]: the process is down, up, or up with its Raft shut down ("off")
  self,      \* self[n]: SelfMember's addresses
  config,    \* config[id]: the Raft address of voter id
  fsm,       \* the committed state
  wal,       \* uncommitted entries and the handlers that wait for them (0: nobody)
  leader,    \* the leader, or Empty
  view,      \* view[n]: the leader's id as far as n knows
  local,     \* local[n]: the endpoints n has applied
  handler,   \* handler[s]: a running JoinNode or RemoveNode
  admin,     \* admin[a]: a callLeader loop, of a node's main or the operator
  settled,   \* history: settled[id]: what was last acknowledged about id, unless
             \* another handler was at work on it meanwhile or has been since
  spent

raftVars == <<config, fsm, wal, leader, view, local>>
vars == <<mode, self, config, fsm, wal, leader, view, local, handler, admin, settled, spent>>

Admin == Node \cup {Operator}
Idle == [pc |-> "idle"]
Free == [op |-> "none"]
Unsettled == [as |-> "none"]
NoMember == [raft |-> Empty, grpc |-> Empty]
Busy == {s \in Slot : handler[s] # Free}
Lookup(m, k) == IF k \in DOMAIN m THEN m[k] ELSE Empty
Operates == spent.ops < MaxOps /\ spent' = [spent EXCEPT !.ops = @ + 1]
Disturbs == spent.events < MaxEvents /\ spent' = [spent EXCEPT !.events = @ + 1]

(***************************************************************************)
(* The first node has bootstrapped and leads; the others have never run.   *)
(***************************************************************************)
Init ==
  /\ mode = [n \in Node |-> IF n = First THEN "up" ELSE "down"]
  /\ self = [n \in Node |-> CHOOSE f \in Flags[n] : TRUE]
  /\ config = [n \in {First} |-> self[n].raft] /\ leader = First
  /\ view = [n \in Node |-> IF n = First THEN n ELSE Empty]
  /\ fsm = NewFSM /\ wal = <<>>
  /\ local = [n \in Node |-> EmptyMap]
  /\ handler = [s \in Slot |-> Free]
  /\ admin = [a \in Admin |-> Idle]
  /\ settled = [n \in Node |-> Unsettled]
  /\ spent = [ops |-> 0, events |-> 0]
-----------------------------------------------------------------------------
(***************************************************************************)
(* Entries.  A configuration counts from when it is in the log.            *)
(***************************************************************************)
AddVoter(id, raft) == [type |-> "AddVoter", node |-> id, raft |-> raft]
RemoveServer(id) == [type |-> "RemoveServer", node |-> id]
UpsertEndpoint(id, grpc) == [type |-> "UpsertEndpoint", node |-> id, addr |-> grpc]
RemoveEndpoint(id) == [type |-> "RemoveEndpoint", node |-> id]
IsChange(cmd) == cmd.type \in {"AddVoter", "RemoveServer"}

Changed(c, cmd) ==
  CASE cmd.type = "AddVoter" -> Put(c, cmd.node, cmd.raft)
    [] cmd.type = "RemoveServer" -> Delete(c, {cmd.node})
    [] OTHER -> c

Changes(entries) == {i \in DOMAIN entries : IsChange(entries[i].cmd)}
ConfigurationIn(entries) ==
  IF Changes(entries) = {} THEN config
  ELSE Changed(config, entries[CHOOSE i \in Changes(entries) : TRUE].cmd)
InFlight == Changes(wal)
GetConfiguration == ConfigurationIn(wal)

(***************************************************************************)
(* raft.checkConfiguration: an address twice, or no voter, is refused.     *)
(***************************************************************************)
Sound(c) == DOMAIN c # {} /\ IsInjective(c)

Voters(c) == {n \in Node : mode[n] = "up" /\ Lookup(c, n) = self[n].raft}
HasQuorum(c) == 2 * Cardinality(Voters(c)) > Cardinality(DOMAIN c)
Reachable(n) == n \in Voters(GetConfiguration)

(***************************************************************************)
(* GetLeaderGRPCAddress on node n.                                         *)
(***************************************************************************)
GetLeaderGRPCAddress(n) ==
  IF view[n] = n THEN self[n].grpc ELSE Lookup(local[n], view[n])
-----------------------------------------------------------------------------
(***************************************************************************)
(* callLeader.  A failed attempt is followed by another, at the address    *)
(* the answer names or else at the same one, until all are used up; a node *)
(* that cannot join exits.                                                 *)
(***************************************************************************)
Failed(call, hint) ==
  IF call.attempt = MaxAttempts
  THEN IF call.op = "join" THEN [pc |-> "failed"] ELSE Idle
  ELSE [call EXCEPT !.pc = "retry", !.attempt = @ + 1,
                    !.target = IF hint = Empty THEN @ ELSE hint]

Call(op, id, m, addr) ==
  [pc |-> "retry", op |-> op, id |-> id, m |-> m, target |-> addr, attempt |-> 1]

Rivals(id) == {s \in Busy : handler[s].id = id}

Attempt(a) ==
  LET call == admin[a]
      servers == {n \in Node : mode[n] # "down" /\ self[n].grpc = call.target}
  IN  /\ call.pc = "retry"
      /\ \/ \E n \in servers :
              /\ Busy # Slot
              /\ handler' = [s \in Slot |->
                   CASE s = Min(Slot \ Busy) ->
                          [op |-> call.op, id |-> call.id, m |-> call.m, at |-> n,
                           stage |-> "begin", caller |-> a, alone |-> Rivals(call.id) = {}]
                     [] s \in Rivals(call.id) -> [handler[s] EXCEPT !.alone = FALSE]
                     [] OTHER -> handler[s]]
              /\ admin' = [admin EXCEPT ![a].pc = "wait"]
              /\ settled' = [settled EXCEPT ![call.id] = Unsettled]
         \/ /\ servers = {}
            /\ admin' = [admin EXCEPT ![a] = Failed(call, Empty)]
            /\ UNCHANGED <<handler, settled>>
      /\ UNCHANGED <<mode, self, raftVars, spent>>

(* mutant: a late answer still counts *)
StillCalled(h, a) == h

Abandoned(h, a) == IF h # Free /\ h.caller = a THEN [h EXCEPT !.caller = Empty] ELSE h

(***************************************************************************)
(* The attempt times out, or its answer is lost: the handler runs on.      *)
(***************************************************************************)
Timeout(a) ==
  /\ admin[a].pc = "wait" /\ Disturbs
  /\ admin' = [admin EXCEPT ![a] = Failed(admin[a], Empty)]
  /\ handler' = [s \in Slot |-> Abandoned(handler[s], a)]
  /\ UNCHANGED <<mode, self, raftVars, settled>>

(***************************************************************************)
(* The handlers S end with an error, and their callers see it.             *)
(***************************************************************************)
EndWithError(S, hint) ==
  /\ handler' = [s \in Slot |-> IF s \in S THEN Free ELSE handler[s]]
  /\ admin' = [a \in Admin |-> IF \E s \in S : handler[s].caller = a
                               THEN Failed(admin[a], hint) ELSE admin[a]]

Detach(entries, S) ==
  [i \in DOMAIN entries |-> [entries[i] EXCEPT !.by = IF @ \in S THEN 0 ELSE @]]

Submit(cmd, by) == wal' = Append(wal, [cmd |-> cmd, by |-> by])
SubmitFor(s, cmd, stage) ==
  /\ Submit(cmd, s)
  /\ handler' = [handler EXCEPT ![s].stage = stage]
  /\ UNCHANGED admin

(* mutant: the endpoint of a node that is a voter already is not stored *)
AddKnownMember(s) ==
  LET id == handler[s].id
      m == handler[s].m
  IN  IF Lookup(GetConfiguration, id) = m.raft
      THEN SubmitFor(s, [type |-> "RenewLease"], "metadata")
      ELSE IF Sound(Changed(GetConfiguration, AddVoter(id, m.raft)))
      THEN InFlight = {} /\ SubmitFor(s, AddVoter(id, m.raft), "change")
      ELSE EndWithError({s}, Empty) /\ UNCHANGED wal

(***************************************************************************)
(* AddClusterMember: a voter that is already there under this address only *)
(* has its endpoint stored; an address in use by another node is refused;  *)
(* Raft does one change of configuration after the other.                  *)
(***************************************************************************)
AddClusterMember(s) ==
  LET id == handler[s].id
      m == handler[s].m
      target == Changed(GetConfiguration, AddVoter(id, m.raft))
  IN  IF Lookup(GetConfiguration, id) = m.raft
      THEN SubmitFor(s, UpsertEndpoint(id, m.grpc), "metadata")
      ELSE IF Sound(target)
      THEN InFlight = {} /\ SubmitFor(s, AddVoter(id, m.raft), "change")
      ELSE EndWithError({s}, Empty) /\ UNCHANGED wal

(***************************************************************************)
(* RemoveClusterMember: an unknown node is reported; Raft refuses to       *)
(* remove the last voter.                                                  *)
(***************************************************************************)
RemoveClusterMember(s) ==
  LET id == handler[s].id
  IN  IF id \in DOMAIN GetConfiguration /\ Sound(Changed(GetConfiguration, RemoveServer(id)))
      THEN InFlight = {} /\ SubmitFor(s, RemoveServer(id), "change")
      ELSE EndWithError({s}, Empty) /\ UNCHANGED wal

(***************************************************************************)
(* ensureLeader, then the handler proper.                                  *)
(***************************************************************************)
Serve(s) ==
  LET n == handler[s].at
  IN  /\ handler[s] # Free /\ handler[s].stage = "begin"
      /\ IF n # leader
         THEN EndWithError({s}, GetLeaderGRPCAddress(n)) /\ UNCHANGED wal
         ELSE IF handler[s].op = "join" THEN AddClusterMember(s) ELSE RemoveClusterMember(s)
      /\ UNCHANGED <<mode, self, config, fsm, leader, view, local, settled, spent>>

(* mutant: RemoveClusterMember leaves the endpoint where it is *)
SubmitNoRemoval(s) ==
  IF handler[s].at # leader
  THEN EndWithError({s}, Empty) /\ UNCHANGED wal
  ELSE IF handler[s].op = "join"
  THEN SubmitFor(s, UpsertEndpoint(handler[s].id, handler[s].m.grpc), "metadata")
  ELSE SubmitFor(s, [type |-> "RenewLease"], "metadata")

(***************************************************************************)
(* The second entry, once the configuration has changed.                   *)
(***************************************************************************)
SubmitMetadata(s) ==
  IF handler[s].at # leader
  THEN EndWithError({s}, Empty) /\ UNCHANGED wal
  ELSE SubmitFor(s, IF handler[s].op = "join"
                    THEN UpsertEndpoint(handler[s].id, handler[s].m.grpc)
                    ELSE RemoveEndpoint(handler[s].id), "metadata")

GoOn(s) ==
  /\ handler[s] # Free /\ handler[s].stage = "changed"
  /\ SubmitMetadata(s)
  /\ UNCHANGED <<mode, self, config, fsm, leader, view, local, settled, spent>>

(* mutant: an endpoint is stored only if there is none *)
endpointOnce ==
  /\ leader # Empty
  /\ leader \notin DOMAIN local[leader]
  /\ \A i \in DOMAIN wal : wal[i].cmd # UpsertEndpoint(leader, self[leader].grpc)
  /\ Submit(UpsertEndpoint(leader, self[leader].grpc), 0)
  /\ UNCHANGED <<mode, self, config, fsm, leader, view, local, handler, admin, settled, spent>>

(***************************************************************************)
(* endpointMetadataLoop on the leader, which waits for its own entry.      *)
(***************************************************************************)
endpointMetadataLoop ==
  /\ leader # Empty
  /\ Lookup(local[leader], leader) # self[leader].grpc
  /\ \A i \in DOMAIN wal : wal[i].cmd # UpsertEndpoint(leader, self[leader].grpc)
  /\ Submit(UpsertEndpoint(leader, self[leader].grpc), 0)
  /\ UNCHANGED <<mode, self, config, fsm, leader, view, local, handler, admin, settled, spent>>
-----------------------------------------------------------------------------
(***************************************************************************)
(* Raft commits the oldest entry, the leader applies it, and the handler   *)
(* that waits for it goes on.  A leader that has removed itself shuts its  *)
(* Raft down, which fails every other handler that waits there.            *)
(***************************************************************************)
Settle(s) ==
  LET id == handler[s].id
  IN  settled' = [settled EXCEPT ![id] =
        IF handler[s].alone /\ handler[s].caller # Empty
        THEN [as |-> handler[s].op, m |-> handler[s].m]
        ELSE Unsettled]

Answer(s) ==
  IF s = 0 THEN UNCHANGED <<handler, admin, settled>>
  ELSE IF handler[s].stage = "change"
  THEN handler' = [handler EXCEPT ![s].stage = "changed"] /\ UNCHANGED <<admin, settled>>
  ELSE /\ handler' = [handler EXCEPT ![s] = Free]
       /\ admin' = [a \in Admin |-> IF a = handler[s].caller THEN Idle ELSE admin[a]]
       /\ Settle(s)

CommitEntry ==
  LET e == Head(wal)
  IN  /\ leader # Empty /\ wal # <<>> /\ HasQuorum(GetConfiguration)
      /\ e.cmd # RemoveServer(leader)
      /\ wal' = Tail(wal)
      /\ config' = Changed(config, e.cmd)
      /\ fsm' = IF IsChange(e.cmd) THEN fsm ELSE Apply(fsm, e.cmd).fsm
      /\ local' = [local EXCEPT ![leader] = fsm'.endpoints]
      /\ Answer(e.by)
      /\ UNCHANGED <<mode, self, leader, view, spent>>

Waiting(n) ==
  {s \in Busy : handler[s].at = n /\ handler[s].stage \in {"change", "metadata"}}

CommitOwnRemoval ==
  LET e == Head(wal)
      others == Waiting(leader) \ {e.by}
  IN  /\ leader # Empty /\ wal # <<>> /\ HasQuorum(GetConfiguration)
      /\ e.cmd = RemoveServer(leader)
      /\ wal' = Detach(Tail(wal), Slot)
      /\ config' = Changed(config, e.cmd)
      /\ leader' = Empty /\ view' = [view EXCEPT ![leader] = Empty]
      /\ mode' = [mode EXCEPT ![leader] = "off"]
      /\ handler' = [s \in Slot |-> CASE s = e.by -> [handler[s] EXCEPT !.stage = "changed"]
                                      [] s \in others -> Free
                                      [] OTHER -> handler[s]]
      /\ admin' = [a \in Admin |-> IF \E s \in others : handler[s].caller = a
                                   THEN Failed(admin[a], Empty) ELSE admin[a]]
      /\ UNCHANGED <<self, fsm, local, settled, spent>>

(***************************************************************************)
(* The leader steps down, for want of a quorum or because it is overtaken: *)
(* ErrLeadershipLost for all who wait.                                     *)
(***************************************************************************)
StepDown ==
  /\ leader # Empty
  /\ EndWithError(Waiting(leader), Empty)
  /\ wal' = Detach(wal, Slot)
  /\ leader' = Empty /\ view' = [view EXCEPT ![leader] = Empty]
  /\ UNCHANGED <<mode, self, config, fsm, local, settled>>

LoseLeadership == HasQuorum(GetConfiguration) /\ StepDown /\ Disturbs
LoseQuorum == ~HasQuorum(GetConfiguration) /\ StepDown /\ UNCHANGED spent

(***************************************************************************)
(* The new leader's log has some of the entries that were not committed.   *)
(***************************************************************************)
Elect(n) ==
  /\ leader = Empty
  /\ \E k \in 0..Len(wal) :
       LET c == ConfigurationIn(SubSeq(wal, 1, k))
       IN  n \in Voters(c) /\ HasQuorum(c) /\ wal' = SubSeq(wal, 1, k)
  /\ leader' = n /\ view' = [view EXCEPT ![n] = n]
  /\ UNCHANGED <<mode, self, config, fsm, local, handler, admin, settled, spent>>

(***************************************************************************)
(* A member hears from the leader, or is the leader and has committed its  *)
(* first entry, and applies what is committed.                             *)
(***************************************************************************)
Learn(n) ==
  /\ leader # Empty /\ Reachable(n)
  /\ view[n] # leader \/ local[n] # fsm.endpoints
  /\ view' = [view EXCEPT ![n] = leader]
  /\ local' = [local EXCEPT ![n] = fsm.endpoints]
  /\ UNCHANGED <<mode, self, config, fsm, wal, leader, handler, admin, settled, spent>>
-----------------------------------------------------------------------------
(***************************************************************************)
(* The process of node n ends, and with it the handlers it runs.           *)
(***************************************************************************)
Down(n) ==
  LET S == {s \in Busy : handler[s].at = n}
  IN  /\ mode' = [mode EXCEPT ![n] = "down"]
      /\ handler' = [s \in Slot |-> IF s \in S THEN Free ELSE Abandoned(handler[s], n)]
      /\ admin' = [a \in Admin |-> CASE a = n -> Idle
                                     [] a # n /\ \E s \in S : handler[s].caller = a ->
                                          Failed(admin[a], Empty)
                                     [] OTHER -> admin[a]]
      /\ leader' = IF leader = n THEN Empty ELSE leader
      /\ wal' = IF leader = n THEN Detach(wal, Slot) ELSE wal
      /\ view' = [view EXCEPT ![n] = Empty]
      /\ local' = [local EXCEPT ![n] = EmptyMap]
      /\ UNCHANGED <<self, config, fsm, settled>>

Crash(n) == mode[n] # "down" /\ Disturbs /\ Down(n)

(***************************************************************************)
(* callLeader has failed, and main of the node that wanted to join exits.  *)
(***************************************************************************)
Exit(n) == admin[n].pc = "failed" /\ Down(n) /\ UNCHANGED spent

StartWith(n, f) ==
  /\ mode[n] = "down" /\ f \in Flags[n]
  /\ mode' = [mode EXCEPT ![n] = "up"]
  /\ self' = [self EXCEPT ![n] = f]
  /\ settled' = IF f = self[n] THEN settled ELSE [settled EXCEPT ![n] = Unsettled]
  /\ UNCHANGED <<raftVars, handler>>

(***************************************************************************)
(* A member is started again; a node starts and joins through a node that  *)
(* runs; an operator asks such a node to remove another.                   *)
(***************************************************************************)
Start(n, f) == n \in DOMAIN config /\ StartWith(n, f) /\ Operates /\ UNCHANGED admin

StartAndJoin(n, f, seed) ==
  /\ n # seed /\ mode[seed] # "down" /\ Operates
  /\ StartWith(n, f)
  /\ admin' = [admin EXCEPT ![n] = Call("join", n, f, self[seed].grpc)]

RemoveNode(id, seed) ==
  /\ admin[Operator] = Idle /\ mode[seed] # "down" /\ Operates
  /\ admin' = [admin EXCEPT ![Operator] = Call("remove", id, NoMember, self[seed].grpc)]
  /\ UNCHANGED <<mode, self, raftVars, handler, settled>>

(***************************************************************************)
(* What goes on by itself.  Left alone, it comes to an end.                *)
(***************************************************************************)
Running ==
  \/ \E a \in Admin : Attempt(a)
  \/ \E s \in Slot : Serve(s) \/ GoOn(s)
  \/ endpointMetadataLoop \/ CommitEntry \/ CommitOwnRemoval \/ LoseQuorum
  \/ \E n \in Node : Elect(n) \/ Learn(n) \/ Exit(n)

Next ==
  \/ Running \/ LoseLeadership
  \/ \E a \in Admin : Timeout(a)
  \/ \E n \in Node : Crash(n)
  \/ \E n \in Node, f \in Member : Start(n, f)
  \/ \E n, m \in Node, f \in Member : StartAndJoin(n, f, m)
  \/ \E n, m \in Node : RemoveNode(n, m)

(***************************************************************************)
(* Goroutines and Raft run: as long as something can go on, something does *)
(***************************************************************************)
Spec == Init /\ [][Next]_vars /\ WF_vars(Running)
-----------------------------------------------------------------------------
(***************************************************************************)
(* Types; one voter per Raft address; every entry somebody waits for has   *)
(* exactly one handler and every waiting handler its entry.                *)
(***************************************************************************)
TypeOK ==
  /\ mode \in [Node -> {"down", "up", "off"}] /\ self \in [Node -> Member]
  /\ DOMAIN config \subseteq Node /\ Sound(config) /\ Sound(GetConfiguration)
  /\ IsFSMState(fsm)
  /\ leader \in Node \cup {Empty} /\ view \in [Node -> Node \cup {Empty}]
  /\ leader # Empty => mode[leader] = "up"
  /\ Cardinality(InFlight) <= 1
  /\ \A s \in Slot : Cardinality({i \in DOMAIN wal : wal[i].by = s}) =
       IF s \in Busy /\ handler[s].stage \in {"change", "metadata"} THEN 1 ELSE 0
  /\ \A a \in Admin : Cardinality({s \in Busy : handler[s].caller = a}) =
       IF admin[a].pc = "wait" THEN 1 ELSE 0

(***************************************************************************)
(* A node whose join was acknowledged, and about which nothing else is or  *)
(* was going on, is a voter under the address it gave and every node that  *)
(* has caught up can name its endpoint, "so all followers can discover the *)
(* leader after failover" (AddClusterMember): no half-done removal, entry  *)
(* left by a former leader, or late attempt takes either away again.       *)
(***************************************************************************)
JoinedIsAdvertised ==
  \A n \in Node : settled[n].as = "join" =>
    Lookup(config, n) = settled[n].m.raft /\ Lookup(fsm.endpoints, n) = settled[n].m.grpc

(***************************************************************************)
(* A node whose removal was acknowledged, and about which nothing else is  *)
(* or was going on, is neither a voter nor in the endpoint map: its own    *)
(* endpointMetadataLoop, of when it led, does not bring it back.           *)
(***************************************************************************)
RemovedIsGone ==
  \A n \in Node : settled[n].as = "remove" =>
    n \notin DOMAIN config /\ n \notin DOMAIN fsm.endpoints

(***************************************************************************)
(* What LocalCluster.agreedLeader waits for: every running member names    *)
(* the leader's present gRPC address.                                      *)
(***************************************************************************)
agreedLeader ==
  \A n \in Node : Reachable(n) => GetLeaderGRPCAddress(n) = self[leader].grpc

(***************************************************************************)
(* Once the cluster is left alone, a leader becomes known to every member  *)
(* under the address it has now, although its endpoint was never stored or *)
(* was stored when it ran under another address.                           *)
(***************************************************************************)
LeaderBecomesKnown == <>[](leader # Empty => agreedLeader)
=============================================================================
