------------------------------- MODULE DataDir -------------------------------
(***************************************************************************)
(* A node's start on its data directory, and what a crash between any two  *)
(* steps of it leaves behind: ResolveNodeID (internal/app/identity.go),    *)
(* the migration from BoltDB (internal/cluster/storage.go) and NewNode.    *)
(* An error of a step ends the process just as a crash does.  What the     *)
(* process has written survives; losing the machine is not modelled.       *)
(***************************************************************************)
EXTENDS Naturals

CONSTANTS
  ID,                \* node ids
  None,              \* no id; a file or directory that is not there
  MaxLog, MaxValue,  \* bounds: entries of a log, values of a key
  MaxCrashes         \* bound: crashes

Key == {"CurrentTerm", "LastVoteTerm", "LastVoteCand"}

(***************************************************************************)
(* A log and stable store: how many entries; the keys, 0 if missing; whose *)
(* cluster configuration it holds.                                         *)
(***************************************************************************)
Store == [log : 0..MaxLog, stable : [Key -> 0..MaxValue], server : ID \cup {None}]
EmptyStore == [log |-> 0, stable |-> [k \in Key |-> 0], server |-> None]

ASSUME DataDirAssumption ==
  /\ None \notin ID /\ "torn" \notin ID /\ None # "torn" /\ None \notin Store
  /\ MaxLog \in Nat \ {0} /\ MaxValue \in Nat \ {0} /\ MaxCrashes \in Nat

VARIABLES
  nodeID,          \* the file node-id: None, "torn" (empty or cut short) or an id
  bolt,            \* raft.db
  scratch,         \* wal.migrating
  wal,             \* wal
  pc, id, flags,   \* the process: where it is, its identity, its command line
  written,         \* everything Raft has stored here (history)
  ran,             \* the ids this version has run Raft with here (history)
  misnamed,        \* the operator gave Raft data that had no node-id file an id that is not
                   \* the one in its configuration (history)
  crashes

disk == <<nodeID, bolt, scratch, wal>>
vars == <<disk, pc, id, flags, written, ran, misnamed, crashes>>

NoFlags == [id |-> None, bootstrap |-> FALSE]

(***************************************************************************)
(* A new directory, or one of an older version, with or without node-id.   *)
(***************************************************************************)
Init ==
  /\ \/ bolt = None /\ nodeID = None /\ written = EmptyStore
     \/ /\ bolt \in {s \in Store : s.server # None <=> s.log > 0}
        /\ nodeID \in {None, bolt.server}
        /\ written = bolt
  /\ scratch = None /\ wal = None
  /\ pc = "down" /\ id = None /\ flags = NoFlags
  /\ ran = {} /\ misnamed = FALSE /\ crashes = 0
-----------------------------------------------------------------------------
Goto(label) == pc' = label

Exit == pc' = "down" /\ id' = None /\ flags' = NoFlags

(***************************************************************************)
(* HasRaftData.                                                            *)
(***************************************************************************)
HasRaftData == wal # None \/ bolt # None

(***************************************************************************)
(* The operator starts the node, with whatever --node-id and --bootstrap.  *)
(***************************************************************************)
Start(requested, bootstrap) ==
  /\ pc = "down"
  /\ flags' = [id |-> requested, bootstrap |-> bootstrap]
  /\ Goto("resolve")
  /\ UNCHANGED <<disk, id, written, ran, misnamed, crashes>>

(* mutant: a requested id is not held against the one on file *)
ResolveTrusting ==
  /\ pc = "resolve"
  /\ IF nodeID \in ID
     THEN /\ id' = IF flags.id # None THEN flags.id ELSE nodeID
          /\ Goto("migrate") /\ UNCHANGED flags
     ELSE IF nodeID = "torn" \/ (flags.id = None /\ HasRaftData) THEN Exit
     ELSE /\ id' \in IF flags.id = None THEN ID \ ran ELSE {flags.id}
          /\ Goto("persist") /\ UNCHANGED flags
  /\ UNCHANGED <<disk, written, ran, misnamed, crashes>>

(***************************************************************************)
(* ResolveNodeID: the id on file, unless another one is requested; with    *)
(* none on file the requested one, whatever the Raft data say, or a new    *)
(* one if there are none.                                                  *)
(***************************************************************************)
ResolveNodeID ==
  /\ pc = "resolve"
  /\ IF nodeID \in ID /\ flags.id \in {None, nodeID}
     THEN id' = nodeID /\ Goto("migrate") /\ UNCHANGED flags
     ELSE IF nodeID # None \/ (flags.id = None /\ HasRaftData) THEN Exit
     ELSE /\ id' \in IF flags.id = None THEN ID \ ran ELSE {flags.id}
          /\ Goto("persist") /\ UNCHANGED flags
  /\ UNCHANGED <<disk, written, ran, misnamed, crashes>>

(***************************************************************************)
(* persistNodeID: the file is created, then written.                       *)
(***************************************************************************)
CreateNodeIDFile ==
  /\ pc = "persist"
  /\ nodeID' = "torn"
  /\ Goto("write")
  /\ UNCHANGED <<bolt, scratch, wal, id, flags, written, ran, misnamed, crashes>>

WriteNodeIDFile ==
  /\ pc = "write"
  /\ nodeID' = id
  /\ misnamed' = (flags.id # None /\ written.server \notin {None, flags.id})
  /\ Goto("migrate")
  /\ UNCHANGED <<bolt, scratch, wal, id, flags, written, ran, crashes>>

(***************************************************************************)
(* migrateFromBolt.                                                        *)
(***************************************************************************)
MigrateFromBolt ==
  /\ pc = "migrate"
  /\ Goto(IF bolt = None THEN "open" ELSE IF wal = None THEN "clear" ELSE "retire")
  /\ UNCHANGED <<disk, id, flags, written, ran, misnamed, crashes>>

(* mutant: a scratch directory left by an interrupted copy is used as it is *)
ReuseScratch ==
  /\ pc = "clear"
  /\ scratch' = IF scratch = None THEN EmptyStore ELSE scratch
  /\ Goto(IF scratch = None THEN "logs" ELSE "rename")
  /\ UNCHANGED <<nodeID, bolt, wal, id, flags, written, ran, misnamed, crashes>>

ClearScratch ==
  /\ pc = "clear"
  /\ scratch' = EmptyStore
  /\ Goto("logs")
  /\ UNCHANGED <<nodeID, bolt, wal, id, flags, written, ran, misnamed, crashes>>

(***************************************************************************)
(* copyLogs: batch by batch; the last one completes the configuration.     *)
(***************************************************************************)
CopyLogs ==
  /\ pc = "logs"
  /\ \E n \in scratch.log..bolt.log :
       /\ n > scratch.log \/ n = bolt.log
       /\ scratch' = [scratch EXCEPT !.log = n,
                                     !.server = IF n = bolt.log THEN bolt.server ELSE @]
       /\ Goto(IF n = bolt.log THEN "CurrentTerm" ELSE "logs")
  /\ UNCHANGED <<nodeID, bolt, wal, id, flags, written, ran, misnamed, crashes>>

(***************************************************************************)
(* copyStable: key by key, the missing ones skipped.                       *)
(***************************************************************************)
After == [CurrentTerm |-> "LastVoteTerm", LastVoteTerm |-> "LastVoteCand",
          LastVoteCand |-> "rename"]

(* mutant: a missing key is an error *)
CopyStableStrict ==
  /\ pc \in Key
  /\ IF bolt.stable[pc] = 0
     THEN Exit /\ UNCHANGED scratch
     ELSE /\ scratch' = [scratch EXCEPT !.stable[pc] = bolt.stable[pc]]
          /\ Goto(After[pc]) /\ UNCHANGED <<id, flags>>
  /\ UNCHANGED <<nodeID, bolt, wal, written, ran, misnamed, crashes>>

CopyStable ==
  /\ pc \in Key
  /\ scratch' = IF bolt.stable[pc] = 0 THEN scratch
                ELSE [scratch EXCEPT !.stable[pc] = bolt.stable[pc]]
  /\ Goto(After[pc])
  /\ UNCHANGED <<nodeID, bolt, wal, id, flags, written, ran, misnamed, crashes>>

(* mutant: the scratch directory is copied and stays *)
CopyScratch ==
  /\ pc = "rename"
  /\ wal' = scratch
  /\ Goto("retire")
  /\ UNCHANGED <<nodeID, bolt, scratch, id, flags, written, ran, misnamed, crashes>>

RenameScratch ==
  /\ pc = "rename"
  /\ wal' = scratch /\ scratch' = None
  /\ Goto("retire")
  /\ UNCHANGED <<nodeID, bolt, id, flags, written, ran, misnamed, crashes>>

RetireBolt ==
  /\ pc = "retire"
  /\ bolt' = None
  /\ Goto("open")
  /\ UNCHANGED <<nodeID, scratch, wal, id, flags, written, ran, misnamed, crashes>>

(***************************************************************************)
(* NewStorage's last part, and NewNode: the WAL is opened, created if it   *)
(* is not there; with --bootstrap, empty storage gets a configuration.     *)
(***************************************************************************)
OpenWAL ==
  /\ pc = "open"
  /\ wal' = IF wal = None THEN EmptyStore ELSE wal
  /\ Goto("boot")
  /\ UNCHANGED <<nodeID, bolt, scratch, id, flags, written, ran, misnamed, crashes>>

(***************************************************************************)
(* raft.BootstrapCluster (external): the first term, and an entry with a   *)
(* configuration of this node alone.                                       *)
(***************************************************************************)
BootstrapCluster ==
  [log |-> 1, stable |-> [k \in Key |-> IF k = "CurrentTerm" THEN 1 ELSE 0], server |-> id]

(* mutant: bootstraps whatever the storage holds, and is not refused *)
BootAlways ==
  /\ pc = "boot"
  /\ wal' = IF flags.bootstrap
            THEN BootstrapCluster ELSE wal
  /\ written' = wal'
  /\ ran' = ran \cup {id}
  /\ Goto("running")
  /\ UNCHANGED <<nodeID, bolt, scratch, id, flags, misnamed, crashes>>

HasExistingState == wal.log > 0 \/ wal.stable["CurrentTerm"] > 0

Boot ==
  LET bootstrap == flags.bootstrap /\ ~HasExistingState
  IN  /\ pc = "boot"
      /\ wal' = IF bootstrap
                THEN BootstrapCluster ELSE wal
      /\ written' = IF bootstrap THEN wal' ELSE written
      /\ ran' = ran \cup {id}
      /\ Goto("running")
      /\ UNCHANGED <<nodeID, bolt, scratch, id, flags, misnamed, crashes>>

(***************************************************************************)
(* Raft stores entries, its term and its votes (external).  A node that    *)
(* did not bootstrap gets its configuration from the leader.               *)
(***************************************************************************)
RaftStores ==
  /\ pc = "running"
  /\ \/ \E k \in Key :
          /\ wal.stable[k] < MaxValue
          /\ wal' = [wal EXCEPT !.stable[k] = @ + 1]
     \/ /\ wal.log < MaxLog
        /\ wal' = [wal EXCEPT !.log = @ + 1, !.server = IF @ = None THEN id ELSE @]
  /\ written' = wal'
  /\ UNCHANGED <<nodeID, bolt, scratch, pc, id, flags, ran, misnamed, crashes>>

Crash ==
  /\ pc # "down"
  /\ crashes < MaxCrashes
  /\ crashes' = crashes + 1
  /\ Exit
  /\ UNCHANGED <<disk, written, ran, misnamed>>

Step ==
  \/ ResolveNodeID \/ CreateNodeIDFile \/ WriteNodeIDFile
  \/ MigrateFromBolt \/ ClearScratch \/ CopyLogs \/ CopyStable \/ RenameScratch \/ RetireBolt
  \/ OpenWAL \/ Boot

Next ==
  \/ \E requested \in ID \cup {None}, bootstrap \in BOOLEAN : Start(requested, bootstrap)
  \/ Step \/ RaftStores \/ Crash

(***************************************************************************)
(* The process goes on, and the operator comes to start it without an id,  *)
(* or with one where it is asked for.                                      *)
(***************************************************************************)
RightStart ==
  \E requested \in ID \cup {None} :
    /\ requested # None <=> nodeID = None /\ HasRaftData
    /\ Start(requested, FALSE)

Spec == Init /\ [][Next]_vars /\ WF_vars(Step) /\ SF_vars(RightStart)
-----------------------------------------------------------------------------
(***************************************************************************)
(* Types; and a scratch directory is there only while there is a raft.db   *)
(* to migrate and no WAL (copyBoltToWAL).                                  *)
(***************************************************************************)
TypeOK ==
  /\ nodeID \in ID \cup {None, "torn"}
  /\ {bolt, scratch, wal} \subseteq Store \cup {None}
  /\ id \in ID \cup {None} /\ flags \in [id : ID \cup {None}, bootstrap : BOOLEAN]
  /\ written \in Store /\ ran \subseteq ID /\ misnamed \in BOOLEAN
  /\ crashes \in 0..MaxCrashes
  /\ scratch # None => bolt # None /\ wal = None

(***************************************************************************)
(* Interrupting the migration, or any start, at any point loses nothing    *)
(* and brings nothing old back: Raft runs on exactly what was stored last, *)
(* its log, term and vote included (migrateFromBolt, NewStorage, NewNode). *)
(***************************************************************************)
NothingLost == pc \in {"boot", "running"} => wal = written /\ bolt = None

(***************************************************************************)
(* One directory, one identity: whatever is on the command line, and       *)
(* wherever a start was interrupted, Raft never runs here with two ids;    *)
(* and it never runs with one that is not the configuration's              *)
(* (ResolveNodeID, "a restart cannot silently use a new ServerID against   *)
(* an existing configuration"), unless the operator, asked for the         *)
(* original identity of data that have none on file, named another, which  *)
(* nothing looks up in the configuration.                                  *)
(***************************************************************************)
OneIdentity ==
  /\ \A a, b \in ran : a = b
  /\ pc = "running" /\ ~misnamed => wal.server \in {None, id}

(***************************************************************************)
(* A restart does not form a new cluster: whatever the command line says,  *)
(* a directory with a cluster configuration keeps it, and its log (NewNode,*)
(* "bootstrap is skipped so restarts do not accidentally form a new        *)
(* cluster").                                                              *)
(***************************************************************************)
NoSecondCluster ==
  [][written.server # None =>
       written'.server = written.server /\ written'.log >= written.log]_vars

(***************************************************************************)
(* However often it is interrupted, the node comes up again: no directory  *)
(* is left in a state no start gets out of, but for a node-id file that    *)
(* was created and not written.                                            *)
(***************************************************************************)
ComesUp == []<>(pc = "running" \/ nodeID = "torn")
=============================================================================
