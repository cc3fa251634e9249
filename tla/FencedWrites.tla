---------------------------- MODULE FencedWrites ----------------------------
(***************************************************************************)
(* Replica with what its tokens are for: clients that go on writing to a   *)
(* row with a token they were once given, whether or not they still hold   *)
(* the lock (examples/fencing.go, examples/failover.go), and the row that  *)
(* refuses a token older than the newest it has accepted.  Replica is      *)
(* shown to implement FencedLock.                                          *)
(***************************************************************************)
EXTENDS Replica

CONSTANT Guard   \* the lock that guards the row

ASSUME GuardAssumption == Guard \in LockName

VARIABLE row     \* the newest accepted write: its token and the lease of its writer

writeVars == <<log, fsm, applied, pending, snap, hist, issued, row>>

(* mutant: the row takes every write *)
writeUnchecked(lease, token) ==
  /\ row' = [token |-> token, writer |-> lease]
  /\ UNCHANGED vars

(***************************************************************************)
(* accountRow.write, controllerTable.write.                                *)
(***************************************************************************)
write(lease, token) ==
  /\ row' = IF token < row.token THEN row ELSE [token |-> token, writer |-> lease]
  /\ UNCHANGED vars

(***************************************************************************)
(* A worker, or the replica that leads, writes with the token of the lock  *)
(* it once acquired.                                                       *)
(***************************************************************************)
Write ==
  \E g \in Grants : g.cmd.lock = Guard /\ write(g.cmd.lease, g.reply.token)

WritesInit == Init /\ row = [token |-> 0, writer |-> 0]
WritesNext == \/ Next /\ UNCHANGED row
              \/ Write
WritesSpec == WritesInit /\ [][WritesNext]_writeVars
-----------------------------------------------------------------------------
(***************************************************************************)
(* The abstract lock, as the committed log makes it.                       *)
(***************************************************************************)
Latest == hist[Len(log)]
HeldIn(s) ==
  [l \in DOMAIN s.locks |-> [session |-> s.locks[l].lease, token |-> s.locks[l].token]]
OwnersIn(s) == [id \in DOMAIN s.leases |-> s.leases[id].owner]
HoldsIn(s) ==
  {[lock |-> l, session |-> s.locks[l].lease, token |-> s.locks[l].token] : l \in DOMAIN s.locks}
Granted == UNION {HoldsIn(hist[k]) : k \in 0..Len(log)}
Told == {[lock |-> g.cmd.lock, session |-> g.cmd.lease, token |-> g.reply.token] : g \in Grants}

Abstract == INSTANCE FencedLock WITH
  Lock <- LockName, Client <- Owner,
  live <- OwnersIn(Latest), opened <- Latest.nextLeaseID,
  held <- HeldIn(Latest), minted <- Latest.fencingCounter,
  granted <- Granted, told <- Told

(***************************************************************************)
(* The cluster behaves as one fenced lock: every committed command is one  *)
(* step of it or none, and whatever a node answers, also when it replays   *)
(* its log after a crash or starts from somebody else's snapshot, was      *)
(* granted to that session, of that lock, under that token.                *)
(***************************************************************************)
ImplementsFencedLock == Abstract!Spec

(***************************************************************************)
(* "Every term has exactly one writer and a strictly higher token than the *)
(* last" (controllerTable.summarize): when the row changes its writer, the *)
(* token rises, however late the writes come, whichever sessions have      *)
(* ended and whatever nodes have crashed in between.                       *)
(***************************************************************************)
TermsClimb == [][row' # row => row'.token > row.token]_writeVars
=============================================================================
