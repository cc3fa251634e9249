---------------------------- MODULE DataDirProofs ----------------------------
(***************************************************************************)
(* Proofs about DataDir, for every set of ids, size of the stores and      *)
(* number of crashes.                                                      *)
(***************************************************************************)
EXTENDS DataDir, TLAPS

Early == {"down", "resolve", "persist", "write"}
Copying == {"logs", "CurrentTerm", "LastVoteTerm", "LastVoteCand", "rename"}
Late == {"open", "boot", "running"}
Labels == Early \cup {"migrate", "clear", "retire"} \cup Copying \cup Late

(***************************************************************************)
(* What is on disk: raft.db and the WAL, where they exist, are what Raft   *)
(* stored last, so any of them may be kept when both are there; and where  *)
(* a start has come to says which of them exist.                           *)
(***************************************************************************)
DiskInv ==
  /\ bolt # None => bolt = written
  /\ wal # None => wal = written
  /\ bolt = None /\ wal = None => written = EmptyStore
  /\ written.log = 0 => written.server = None
  /\ pc \in {"clear"} \cup Copying => bolt # None /\ wal = None
  /\ pc \in Copying => scratch # None
  /\ pc = "retire" => bolt # None /\ wal # None
  /\ pc \in Late => bolt = None
  /\ pc \in {"boot", "running"} => wal # None

(***************************************************************************)
(* How far the copy of raft.db has come.  The keys that are not copied yet *)
(* are missing, so skipping a missing one leaves the copy exact.           *)
(***************************************************************************)
Copied(keys) ==
  \A k \in Key : scratch.stable[k] = IF k \in keys THEN bolt.stable[k] ELSE 0

CopyInv ==
  /\ pc = "logs" => Copied({}) /\ scratch.log <= bolt.log
  /\ pc \in Copying \ {"logs"} => scratch.log = bolt.log /\ scratch.server = bolt.server
  /\ pc = "CurrentTerm" => Copied({})
  /\ pc = "LastVoteTerm" => Copied({"CurrentTerm"})
  /\ pc = "LastVoteCand" => Copied({"CurrentTerm", "LastVoteTerm"})
  /\ pc = "rename" => Copied(Key)

(***************************************************************************)
(* Whose directory it is: the id on file is the only one Raft has run with *)
(* and, unless the operator misnamed it, the one in the configuration; a   *)
(* start that is about to put an id on file has it from the operator or    *)
(* found no Raft data; and one beyond ResolveNodeID goes by the file.      *)
(***************************************************************************)
IdentityInv ==
  /\ nodeID \in ID => /\ ran \subseteq {nodeID}
                      /\ misnamed \/ written.server \in {None, nodeID}
  /\ nodeID \notin ID => ran = {} /\ ~misnamed
  /\ pc \in {"persist", "write"} =>
       /\ id \in ID /\ nodeID \notin ID
       /\ IF flags.id = None THEN written.server = None ELSE id = flags.id
  /\ pc \in Labels \ Early => id \in ID /\ nodeID = id

IInv == TypeOK /\ pc \in Labels /\ DiskInv /\ CopyInv /\ IdentityInv
-----------------------------------------------------------------------------
(***************************************************************************)
(* What the invariant says of the types of what is on disk.                *)
(***************************************************************************)
LEMMA Types ==
  ASSUME IInv
  PROVE  /\ bolt \in Store \cup {None} /\ scratch \in Store \cup {None}
         /\ wal \in Store \cup {None} /\ written \in Store
         /\ pc \in Labels /\ id \in ID \cup {None} /\ ran \subseteq ID
         /\ nodeID \in ID \cup {None, "torn"}
         /\ scratch # None => bolt # None /\ wal = None
  BY DEF IInv, TypeOK

(***************************************************************************)
(* An empty store is a store.                                              *)
(***************************************************************************)
LEMMA EmptyStoreType ==
  /\ EmptyStore \in Store /\ EmptyStore # None
  /\ EmptyStore.log = 0 /\ EmptyStore.server = None
  /\ \A k \in Key : EmptyStore.stable[k] = 0
  BY DataDirAssumption DEF EmptyStore, Store

(***************************************************************************)
(* A directory as it is found satisfies the invariant.                     *)
(***************************************************************************)
LEMMA InitInv == Init => IInv
  <1> SUFFICES ASSUME Init PROVE IInv
    OBVIOUS
  <1>1. /\ scratch = None /\ wal = None /\ pc = "down" /\ id = None /\ flags = NoFlags
        /\ ran = {} /\ misnamed = FALSE /\ crashes = 0
    BY DEF Init
  <1>2. misnamed \in BOOLEAN /\ flags \in [id : ID \cup {None}, bootstrap : BOOLEAN]
    BY Zenon, <1>1 DEF NoFlags
  <1>3. CASE bolt = None /\ nodeID = None /\ written = EmptyStore
    <2>1. TypeOK
      BY <1>1, <1>2, <1>3, EmptyStoreType, DataDirAssumption DEF TypeOK
    <2>2. pc \in Labels /\ DiskInv /\ CopyInv
      BY <1>1, <1>3, EmptyStoreType DEF Labels, Early, Late, Copying, DiskInv, CopyInv
    <2>3. IdentityInv
      BY <1>1, <1>3, DataDirAssumption DEF IdentityInv, Labels, Early, Late, Copying
    <2> QED
      BY <2>1, <2>2, <2>3 DEF IInv
  <1>4. CASE /\ bolt \in {s \in Store : s.server # None <=> s.log > 0}
             /\ nodeID \in {None, bolt.server}
             /\ written = bolt
    <2>1. /\ bolt \in Store /\ bolt # None /\ bolt.server \in ID \cup {None}
          /\ bolt.log = 0 => bolt.server = None
      BY <1>4, DataDirAssumption DEF Store
    <2>2. TypeOK
      BY <1>1, <1>2, <1>4, <2>1, DataDirAssumption DEF TypeOK
    <2>3. pc \in Labels /\ DiskInv /\ CopyInv
      BY <1>1, <1>4, <2>1 DEF Labels, Early, Late, Copying, DiskInv, CopyInv
    <2>4. IdentityInv
      BY <1>1, <1>4, <2>1, DataDirAssumption DEF IdentityInv, Labels, Early, Late, Copying
    <2> QED
      BY <2>2, <2>3, <2>4 DEF IInv
  <1> QED
    BY <1>3, <1>4 DEF Init

(***************************************************************************)
(* The end of the process, wherever it comes, leaves a directory the next  *)
(* start can go on from.                                                   *)
(***************************************************************************)
LEMMA ExitInv ==
  ASSUME IInv, Exit, UNCHANGED <<disk, written, ran, misnamed>>, crashes' \in 0..MaxCrashes
  PROVE  IInv'
  <1>1. pc' = "down" /\ id' = None /\ flags' = NoFlags
    BY DEF Exit
  <1>2. UNCHANGED <<nodeID, bolt, scratch, wal, written, ran, misnamed>>
    BY DEF disk
  <1>3. TypeOK'
    BY <1>1, <1>2 DEF IInv, TypeOK, NoFlags
  <1>4. (pc \in Labels)' /\ DiskInv' /\ CopyInv'
    BY <1>1, <1>2 DEF IInv, Labels, Early, Late, Copying, DiskInv, CopyInv
  <1>5. IdentityInv'
    BY <1>1, <1>2 DEF IInv, IdentityInv, Labels, Early, Late, Copying
  <1> QED
    BY <1>3, <1>4, <1>5 DEF IInv

(***************************************************************************)
(* Starting, and settling on an identity.                                  *)
(***************************************************************************)
LEMMA StartInv ==
  ASSUME IInv, NEW requested \in ID \cup {None}, NEW bootstrap \in BOOLEAN,
         Start(requested, bootstrap)
  PROVE  IInv'
  <1>1. /\ pc' = "resolve" /\ flags' = [id |-> requested, bootstrap |-> bootstrap]
        /\ UNCHANGED <<nodeID, bolt, scratch, wal, id, written, ran, misnamed, crashes>>
    BY DEF Start, Goto, disk
  <1>2. TypeOK'
    BY <1>1 DEF IInv, TypeOK
  <1>3. (pc \in Labels)' /\ DiskInv' /\ CopyInv'
    BY <1>1 DEF IInv, Labels, Early, Late, Copying, DiskInv, CopyInv
  <1>4. IdentityInv'
    BY <1>1 DEF IInv, IdentityInv, Labels, Early, Late, Copying
  <1> QED
    BY <1>2, <1>3, <1>4 DEF IInv

(***************************************************************************)
(* ResolveNodeID keeps the id on file, or takes the operator's, and makes  *)
(* one up only for a directory without Raft data.                          *)
(***************************************************************************)
LEMMA ResolveInv ==
  ASSUME IInv, ResolveNodeID
  PROVE  IInv'
  <1>1. pc = "resolve" /\ UNCHANGED <<nodeID, bolt, scratch, wal, written, ran, misnamed, crashes>>
    BY DEF ResolveNodeID, disk
  <1>2. CASE nodeID \in ID /\ id' = nodeID /\ pc' = "migrate" /\ flags' = flags
    <2>1. TypeOK'
      BY <1>1, <1>2 DEF IInv, TypeOK
    <2>2. (pc \in Labels)' /\ DiskInv' /\ CopyInv'
      BY <1>1, <1>2 DEF IInv, Labels, Early, Late, Copying, DiskInv, CopyInv
    <2>3. IdentityInv'
      BY <1>1, <1>2 DEF IInv, IdentityInv, Labels, Early, Late, Copying
    <2> QED
      BY <2>1, <2>2, <2>3 DEF IInv
  <1>3. CASE Exit
    BY <1>1, <1>3, ExitInv DEF IInv, TypeOK, disk
  <1>4. CASE /\ nodeID = None /\ ~(flags.id = None /\ HasRaftData)
             /\ id' \in IF flags.id = None THEN ID \ ran ELSE {flags.id}
             /\ pc' = "persist" /\ flags' = flags
    <2>1. id' \in ID
      BY <1>4 DEF IInv, TypeOK
    <2>2. TypeOK'
      BY <1>1, <1>4, <2>1 DEF IInv, TypeOK
    <2>3. (pc \in Labels)' /\ DiskInv' /\ CopyInv'
      BY <1>1, <1>4 DEF IInv, Labels, Early, Late, Copying, DiskInv, CopyInv
    <2>4. IF flags.id = None THEN written.server = None ELSE id' = flags.id
      BY <1>4, EmptyStoreType DEF IInv, DiskInv, HasRaftData
    <2>5. nodeID \notin ID
      BY <1>4, DataDirAssumption
    <2>6. IdentityInv'
      BY <1>1, <1>4, <2>1, <2>4, <2>5 DEF IInv, IdentityInv, Labels, Early, Late, Copying
    <2> QED
      BY <2>2, <2>3, <2>6 DEF IInv
  <1> QED
    BY <1>2, <1>3, <1>4, DataDirAssumption DEF ResolveNodeID, Goto

(***************************************************************************)
(* A torn node-id file belongs to nobody, a written one to this start.     *)
(***************************************************************************)
LEMMA PersistInv ==
  ASSUME IInv, CreateNodeIDFile \/ WriteNodeIDFile
  PROVE  IInv'
  <1>1. /\ UNCHANGED <<bolt, scratch, wal, id, flags, written, ran, crashes>>
        /\ \/ pc = "persist" /\ nodeID' = "torn" /\ pc' = "write" /\ misnamed' = misnamed
           \/ /\ pc = "write" /\ nodeID' = id /\ pc' = "migrate"
              /\ misnamed' = (flags.id # None /\ written.server \notin {None, flags.id})
    BY DEF CreateNodeIDFile, WriteNodeIDFile, Goto
  <1>2. /\ id \in ID /\ nodeID \notin ID /\ ran = {} /\ misnamed = FALSE
        /\ IF flags.id = None THEN written.server = None ELSE id = flags.id
    BY <1>1 DEF IInv, IdentityInv, TypeOK
  <1>3. TypeOK'
    BY <1>1, <1>2 DEF IInv, TypeOK
  <1>4. (pc \in Labels)' /\ DiskInv' /\ CopyInv'
    BY <1>1 DEF IInv, Labels, Early, Late, Copying, DiskInv, CopyInv
  <1>5. misnamed' \/ written.server \in {None, id} \/ pc' = "write"
    BY <1>1, <1>2
  <1>6. IdentityInv'
    BY <1>1, <1>2, <1>5, DataDirAssumption DEF IdentityInv, Labels, Early, Late, Copying
  <1> QED
    BY <1>3, <1>4, <1>6 DEF IInv

(***************************************************************************)
(* The steps after ResolveNodeID keep to the identity.                     *)
(***************************************************************************)
LEMMA KeepIdentity ==
  ASSUME IInv, pc \in Labels \ Early, pc' \in Labels \ Early,
         UNCHANGED <<nodeID, id, written, ran, misnamed>>
  PROVE  IdentityInv'
  BY DEF IInv, IdentityInv, Labels, Early, Late, Copying

(***************************************************************************)
(* migrateFromBolt up to the first copied entry.                           *)
(***************************************************************************)
LEMMA MigrateInv ==
  ASSUME IInv, MigrateFromBolt \/ ClearScratch
  PROVE  IInv'
  <1>1. CASE MigrateFromBolt
    <2>1. /\ pc = "migrate"
          /\ pc' = IF bolt = None THEN "open" ELSE IF wal = None THEN "clear" ELSE "retire"
          /\ UNCHANGED <<nodeID, bolt, scratch, wal, id, flags, written, ran, misnamed, crashes>>
      BY <1>1 DEF MigrateFromBolt, Goto, disk
    <2>2. TypeOK'
      BY <2>1 DEF IInv, TypeOK
    <2>3. (pc \in Labels)' /\ DiskInv' /\ CopyInv'
      BY <2>1 DEF IInv, Labels, Early, Late, Copying, DiskInv, CopyInv
    <2>4. IdentityInv'
      BY <2>1, KeepIdentity DEF Labels, Early, Late, Copying
    <2> QED
      BY <2>2, <2>3, <2>4 DEF IInv
  <1>2. CASE ClearScratch
    <2>1. /\ pc = "clear" /\ pc' = "logs" /\ scratch' = EmptyStore
          /\ UNCHANGED <<nodeID, bolt, wal, id, flags, written, ran, misnamed, crashes>>
      BY <1>2 DEF ClearScratch, Goto
    <2>2. bolt \in Store /\ bolt # None /\ wal = None
      BY <2>1, Types DEF IInv, DiskInv
    <2>3. TypeOK'
      BY <2>1, <2>2, EmptyStoreType DEF IInv, TypeOK
    <2>4. (pc \in Labels)' /\ DiskInv'
      BY <2>1, <2>2, EmptyStoreType DEF IInv, Labels, Early, Late, Copying, DiskInv
    <2>5. CopyInv'
      <3>1. bolt'.log \in Nat
        BY <2>1, <2>2, DataDirAssumption DEF Store
      <3>2. Copied({})' /\ scratch'.log <= bolt'.log
        BY <2>1, <3>1, EmptyStoreType DEF Copied
      <3> QED
        BY <2>1, <3>2 DEF CopyInv, Copying
    <2>6. IdentityInv'
      BY <2>1, KeepIdentity DEF Labels, Early, Late, Copying
    <2> QED
      BY <2>3, <2>4, <2>5, <2>6 DEF IInv
  <1> QED
    BY <1>1, <1>2

(***************************************************************************)
(* copyLogs: the last batch brings the log and the configuration over.     *)
(***************************************************************************)
LEMMA CopyLogsInv ==
  ASSUME IInv, CopyLogs
  PROVE  IInv'
  <1>1. PICK n \in scratch.log..bolt.log :
          /\ scratch' = [scratch EXCEPT !.log = n,
                           !.server = IF n = bolt.log THEN bolt.server ELSE scratch.server]
          /\ pc' = IF n = bolt.log THEN "CurrentTerm" ELSE "logs"
    BY ZenonT(60) DEF CopyLogs, Goto
  <1>2. pc = "logs" /\ UNCHANGED <<nodeID, bolt, wal, id, flags, written, ran, misnamed, crashes>>
    BY DEF CopyLogs
  <1>3. bolt \in Store /\ scratch \in Store /\ bolt # None /\ scratch # None /\ wal = None
    BY <1>2, Types DEF IInv, DiskInv, Copying
  <1>4. /\ bolt.log \in 0..MaxLog /\ scratch.log \in 0..MaxLog /\ n \in 0..MaxLog
        /\ MaxLog \in Nat
    BY <1>3, DataDirAssumption DEF Store
  <1>5. /\ scratch' \in Store /\ scratch' # None
        /\ scratch'.log = n /\ scratch'.stable = scratch.stable
        /\ n = bolt.log => scratch'.server = bolt.server
    BY ZenonT(60), <1>1, <1>3, <1>4, DataDirAssumption DEF Store
  <1>6. TypeOK'
    BY <1>2, <1>3, <1>5 DEF IInv, TypeOK
  <1>7. (pc \in Labels)' /\ DiskInv'
    BY <1>1, <1>2, <1>3, <1>5 DEF IInv, Labels, Early, Late, Copying, DiskInv
  <1>8. CopyInv'
    <2>1. Copied({})
      BY <1>2 DEF IInv, CopyInv
    <2>2. Copied({})'
      BY <1>2, <1>5, <2>1 DEF Copied
    <2> QED
      BY <1>1, <1>2, <1>4, <1>5, <2>2 DEF CopyInv, Copying
  <1>9. IdentityInv'
    BY <1>1, <1>2, KeepIdentity DEF Labels, Early, Late, Copying
  <1> QED
    BY <1>6, <1>7, <1>8, <1>9 DEF IInv

(***************************************************************************)
(* copyStable: one more key is as in raft.db, also when it was skipped.    *)
(***************************************************************************)
LEMMA CopyStableInv ==
  ASSUME IInv, CopyStable
  PROVE  IInv'
  <1>1. /\ pc \in Key /\ pc' = After[pc]
        /\ scratch' = IF bolt.stable[pc] = 0 THEN scratch
                      ELSE [scratch EXCEPT !.stable[pc] = bolt.stable[pc]]
        /\ UNCHANGED <<nodeID, bolt, wal, id, flags, written, ran, misnamed, crashes>>
    BY DEF CopyStable, Goto
  <1>2. /\ pc = "CurrentTerm" => pc' = "LastVoteTerm"
        /\ pc = "LastVoteTerm" => pc' = "LastVoteCand"
        /\ pc = "LastVoteCand" => pc' = "rename"
        /\ pc \in {"CurrentTerm", "LastVoteTerm", "LastVoteCand"}
    BY <1>1 DEF After, Key
  <1>3. bolt \in Store /\ scratch \in Store /\ bolt # None /\ scratch # None /\ wal = None
    BY <1>2, Types DEF IInv, DiskInv, Copying
  <1>4. /\ scratch.stable \in [Key -> 0..MaxValue] /\ bolt.stable \in [Key -> 0..MaxValue]
    BY <1>3 DEF Store
  <1>5. Copied(IF pc = "CurrentTerm" THEN {} ELSE IF pc = "LastVoteTerm" THEN {"CurrentTerm"}
               ELSE {"CurrentTerm", "LastVoteTerm"})
    BY <1>2 DEF IInv, CopyInv
  <1>6. /\ scratch' \in Store /\ scratch' # None
        /\ scratch'.log = scratch.log /\ scratch'.server = scratch.server
    BY <1>1, <1>3, <1>4, DataDirAssumption DEF Store
  <1>7. scratch'.stable[pc] = bolt.stable[pc]
    BY <1>1, <1>2, <1>3, <1>4, <1>5 DEF Store, Copied
  <1>8. \A k \in Key \ {pc} : scratch'.stable[k] = scratch.stable[k]
    BY <1>1, <1>3, <1>4 DEF Store
  <1>9. TypeOK'
    BY <1>1, <1>3, <1>6 DEF IInv, TypeOK
  <1>10. (pc \in Labels)' /\ DiskInv'
    BY <1>1, <1>2, <1>3, <1>6 DEF IInv, Labels, Early, Late, Copying, DiskInv
  <1>11. CopyInv'
    <2>1. scratch.log = bolt.log /\ scratch.server = bolt.server
      BY <1>2 DEF IInv, CopyInv, Copying
    <2>2. CASE pc = "CurrentTerm"
      <3>1. Copied({"CurrentTerm"})'
        BY <1>1, <1>5, <1>7, <1>8, <2>2 DEF Copied, Key
      <3> QED
        BY <1>1, <1>2, <1>6, <2>1, <2>2, <3>1 DEF CopyInv, Copying
    <2>3. CASE pc = "LastVoteTerm"
      <3>1. Copied({"CurrentTerm", "LastVoteTerm"})'
        BY <1>1, <1>5, <1>7, <1>8, <2>3 DEF Copied, Key
      <3> QED
        BY <1>1, <1>2, <1>6, <2>1, <2>3, <3>1 DEF CopyInv, Copying
    <2>4. CASE pc = "LastVoteCand"
      <3>1. Copied(Key)'
        BY <1>1, <1>5, <1>7, <1>8, <2>4 DEF Copied, Key
      <3> QED
        BY <1>1, <1>2, <1>6, <2>1, <2>4, <3>1 DEF CopyInv, Copying
    <2> QED
      BY <1>2, <2>2, <2>3, <2>4
  <1>12. IdentityInv'
    BY <1>1, <1>2, KeepIdentity DEF Labels, Early, Late, Copying
  <1> QED
    BY <1>9, <1>10, <1>11, <1>12 DEF IInv

(***************************************************************************)
(* The copy is exact when it becomes the WAL.                              *)
(***************************************************************************)
LEMMA RenameInv ==
  ASSUME IInv, RenameScratch
  PROVE  IInv'
  <1>1. /\ pc = "rename" /\ pc' = "retire" /\ wal' = scratch /\ scratch' = None
        /\ UNCHANGED <<nodeID, bolt, id, flags, written, ran, misnamed, crashes>>
    BY DEF RenameScratch, Goto
  <1>2. /\ bolt \in Store /\ scratch \in Store /\ bolt # None /\ scratch # None
        /\ bolt = written
    BY <1>1, Types DEF IInv, DiskInv, Copying
  <1>3. /\ scratch.log = bolt.log /\ scratch.server = bolt.server
        /\ \A k \in Key : scratch.stable[k] = bolt.stable[k]
    BY <1>1 DEF IInv, CopyInv, Copied, Copying
  <1>4. scratch.stable = bolt.stable
    BY <1>2, <1>3 DEF Store
  <1>5. scratch = bolt
    BY <1>2, <1>3, <1>4 DEF Store
  <1>6. TypeOK'
    BY <1>1, <1>2 DEF IInv, TypeOK
  <1>7. (pc \in Labels)' /\ DiskInv' /\ CopyInv'
    BY <1>1, <1>2, <1>5 DEF IInv, Labels, Early, Late, Copying, DiskInv, CopyInv
  <1>8. IdentityInv'
    BY <1>1, KeepIdentity DEF Labels, Early, Late, Copying
  <1> QED
    BY <1>6, <1>7, <1>8 DEF IInv

(***************************************************************************)
(* raft.db goes only when the WAL is there; a WAL is created only where    *)
(* nothing was stored.                                                     *)
(***************************************************************************)
LEMMA OpenInv ==
  ASSUME IInv, RetireBolt \/ OpenWAL
  PROVE  IInv'
  <1>1. CASE RetireBolt
    <2>1. /\ pc = "retire" /\ pc' = "open" /\ bolt' = None
          /\ UNCHANGED <<nodeID, scratch, wal, id, flags, written, ran, misnamed, crashes>>
      BY <1>1 DEF RetireBolt, Goto
    <2>2. wal \in Store /\ wal # None /\ scratch = None
      BY <2>1, Types DEF IInv, DiskInv
    <2>3. TypeOK'
      BY <2>1, <2>2 DEF IInv, TypeOK
    <2>4. (pc \in Labels)' /\ DiskInv' /\ CopyInv'
      BY <2>1, <2>2 DEF IInv, Labels, Early, Late, Copying, DiskInv, CopyInv
    <2>5. IdentityInv'
      BY <2>1, KeepIdentity DEF Labels, Early, Late, Copying
    <2> QED
      BY <2>3, <2>4, <2>5 DEF IInv
  <1>2. CASE OpenWAL
    <2>1. /\ pc = "open" /\ pc' = "boot" /\ wal' = IF wal = None THEN EmptyStore ELSE wal
          /\ UNCHANGED <<nodeID, bolt, scratch, id, flags, written, ran, misnamed, crashes>>
      BY <1>2 DEF OpenWAL, Goto
    <2>2. /\ bolt = None /\ scratch = None /\ wal' \in Store /\ wal' # None
          /\ wal' = written
      BY <2>1, Types, EmptyStoreType DEF IInv, DiskInv, Late
    <2>3. TypeOK'
      BY <2>1, <2>2 DEF IInv, TypeOK
    <2>4. (pc \in Labels)' /\ DiskInv' /\ CopyInv'
      BY <2>1, <2>2 DEF IInv, Labels, Early, Late, Copying, DiskInv, CopyInv
    <2>5. IdentityInv'
      BY <2>1, KeepIdentity DEF Labels, Early, Late, Copying
    <2> QED
      BY <2>3, <2>4, <2>5 DEF IInv
  <1> QED
    BY <1>1, <1>2

(***************************************************************************)
(* What a running node may store: more of the log, for its own identity.   *)
(***************************************************************************)
Extends(old, new) ==
  /\ new \in Store /\ new # None
  /\ new.log >= old.log
  /\ old.server # None => new.server = old.server
  /\ new.server \in {old.server, id}
  /\ new.log = 0 => new.server = None

(***************************************************************************)
(* Bootstrapping, which only empty storage meets, and Raft's own writes    *)
(* extend what was stored.                                                 *)
(***************************************************************************)
LEMMA BootExtends ==
  ASSUME IInv, Boot
  PROVE  Extends(written, written') /\ wal' = written'
  <1>1. /\ pc = "boot"
        /\ wal' = IF flags.bootstrap /\ ~HasExistingState THEN BootstrapCluster ELSE wal
        /\ written' = IF flags.bootstrap /\ ~HasExistingState THEN wal' ELSE written
    BY DEF Boot
  <1>2. /\ wal = written /\ written \in Store /\ wal # None
        /\ written.log = 0 => written.server = None
        /\ written.log \in Nat
    BY <1>1, Types, DataDirAssumption DEF IInv, DiskInv, Store
  <1>3. CASE flags.bootstrap /\ ~HasExistingState
    <2>1. id \in ID
      BY <1>1 DEF IInv, IdentityInv, Labels, Early, Late
    <2>2. BootstrapCluster.log = 1 /\ BootstrapCluster.server = id /\ BootstrapCluster \in Store
      BY <2>1, DataDirAssumption DEF BootstrapCluster, Store, Key
    <2>3. written.log = 0
      BY <1>2, <1>3 DEF HasExistingState
    <2>4. BootstrapCluster # None
      BY <2>2, DataDirAssumption
    <2> QED
      BY <1>1, <1>2, <1>3, <2>1, <2>2, <2>3, <2>4 DEF Extends
  <1>4. CASE ~(flags.bootstrap /\ ~HasExistingState)
    BY <1>1, <1>2, <1>4 DEF Extends
  <1> QED
    BY <1>3, <1>4

(***************************************************************************)
(* The same for RaftStores.                                                *)
(***************************************************************************)
LEMMA StoreExtends ==
  ASSUME IInv, RaftStores
  PROVE  Extends(written, written') /\ wal' = written'
  <1>1. pc = "running" /\ written' = wal'
    BY DEF RaftStores
  <1>2. /\ wal = written /\ wal \in Store /\ wal # None
        /\ wal.log = 0 => wal.server = None
        /\ wal.log \in 0..MaxLog /\ wal.stable \in [Key -> 0..MaxValue]
        /\ wal.server \in ID \cup {None}
    BY <1>1, Types DEF IInv, DiskInv, Store
  <1>3. id \in ID /\ id # None
    BY <1>1, DataDirAssumption DEF IInv, IdentityInv, Labels, Early, Late
  <1>4. ASSUME NEW k \in Key, wal.stable[k] < MaxValue, wal' = [wal EXCEPT !.stable[k] = @ + 1]
        PROVE  Extends(wal, wal')
    <2>1. /\ wal'.log = wal.log /\ wal'.server = wal.server
          /\ wal'.stable = [wal.stable EXCEPT ![k] = wal.stable[k] + 1]
      BY <1>2, <1>4 DEF Store
    <2>2. wal.stable[k] + 1 \in 0..MaxValue
      BY <1>2, <1>4, DataDirAssumption
    <2>3. wal'.stable \in [Key -> 0..MaxValue]
      BY <1>2, <2>1, <2>2
    <2>4. wal' \in Store
      BY <1>2, <1>4, <2>1, <2>3 DEF Store
    <2> QED
      BY <1>2, <2>1, <2>4, DataDirAssumption DEF Extends
  <1>5. ASSUME wal.log < MaxLog,
               wal' = [wal EXCEPT !.log = @ + 1, !.server = IF @ = None THEN id ELSE @]
        PROVE  Extends(wal, wal')
    <2>1. /\ wal'.log = wal.log + 1
          /\ wal'.server = IF wal.server = None THEN id ELSE wal.server
          /\ wal' \in Store
      <3> DEFINE server == IF wal.server = None THEN id ELSE wal.server
      <3>1. wal = [log |-> wal.log, stable |-> wal.stable, server |-> wal.server]
        BY <1>2 DEF Store
      <3>2. wal' = [log |-> wal.log + 1, stable |-> wal.stable, server |-> server]
        BY ZenonT(60), <1>5, <3>1
      <3>3. server \in ID \cup {None}
        BY <1>2, <1>3
      <3> HIDE DEF server
      <3>4. wal.log + 1 \in 0..MaxLog
        BY <1>2, <1>5, DataDirAssumption
      <3>5. wal'.log = wal.log + 1 /\ wal'.server = server /\ wal' \in Store
        BY <1>2, <3>2, <3>3, <3>4 DEF Store
      <3> QED
        BY <3>5 DEF server
    <2> QED
      BY <1>2, <1>3, <2>1, DataDirAssumption DEF Extends
  <1> QED
    BY <1>1, <1>2, <1>4, <1>5 DEF RaftStores

(***************************************************************************)
(* A node whose storage is extended keeps the invariant.                   *)
(***************************************************************************)
LEMMA RunInv ==
  ASSUME IInv, Boot \/ RaftStores
  PROVE  IInv'
  <1>1. /\ pc \in {"boot", "running"} /\ pc' = "running"
        /\ ran' \in {ran, ran \cup {id}}
        /\ UNCHANGED <<nodeID, bolt, scratch, id, flags, misnamed, crashes>>
    BY DEF Boot, RaftStores, Goto
  <1>2. Extends(written, written') /\ wal' = written'
    BY BootExtends, StoreExtends
  <1>3. bolt = None /\ scratch = None /\ id \in ID /\ nodeID = id
    BY <1>1, Types DEF IInv, DiskInv, IdentityInv, Labels, Early, Late
  <1>4. wal' \in Store /\ written' \in Store /\ wal' # None
    BY <1>2 DEF Extends
  <1>5. TypeOK'
    BY <1>1, <1>3, <1>4 DEF IInv, TypeOK
  <1>6. (pc \in Labels)' /\ DiskInv' /\ CopyInv'
    BY <1>1, <1>2, <1>3, <1>4
    DEF IInv, Labels, Early, Late, Copying, DiskInv, CopyInv, Extends
  <1>7. ran' \subseteq {nodeID'} /\ (misnamed' \/ written'.server \in {None, nodeID'})
    <2>1. ran \subseteq {nodeID} /\ (misnamed \/ written.server \in {None, nodeID})
      BY <1>3 DEF IInv, IdentityInv
    <2> QED
      BY <1>1, <1>2, <1>3, <2>1 DEF Extends
  <1>8. IdentityInv'
    BY <1>1, <1>3, <1>7, DataDirAssumption DEF IdentityInv, Labels, Early, Late, Copying
  <1> QED
    BY <1>5, <1>6, <1>8 DEF IInv

(***************************************************************************)
(* Every step keeps the invariant.                                         *)
(***************************************************************************)
LEMMA NextInv == IInv /\ [Next]_vars => IInv'
  <1> SUFFICES ASSUME IInv, [Next]_vars PROVE IInv'
    OBVIOUS
  <1>1. ASSUME NEW requested \in ID \cup {None}, NEW bootstrap \in BOOLEAN,
               Start(requested, bootstrap)
        PROVE  IInv'
    BY <1>1, StartInv
  <1>2. CASE Step
    BY <1>2, ResolveInv, PersistInv, MigrateInv, CopyLogsInv, CopyStableInv, RenameInv,
       OpenInv, RunInv DEF Step
  <1>3. CASE RaftStores
    BY <1>3, RunInv
  <1>4. CASE Crash
    <2>1. crashes' \in 0..MaxCrashes
      BY <1>4, DataDirAssumption DEF Crash, IInv, TypeOK
    <2> QED
      BY <1>4, <2>1, ExitInv DEF Crash
  <1>5. CASE UNCHANGED vars
    BY <1>5 DEF vars, disk, IInv, TypeOK, DiskInv, CopyInv, Copied, IdentityInv
  <1> QED
    BY <1>1, <1>2, <1>3, <1>4, <1>5 DEF Next
-----------------------------------------------------------------------------
(***************************************************************************)
(* The invariant holds in every state of every start, crash and restart.   *)
(***************************************************************************)
THEOREM Invariance == Spec => []IInv
  BY InitInv, NextInv, PTL DEF Spec

(***************************************************************************)
(* Types, and the scratch directory exists only beside a raft.db that has  *)
(* no WAL yet.                                                             *)
(***************************************************************************)
THEOREM TypeCorrect == Spec => []TypeOK
  <1>1. IInv => TypeOK
    BY DEF IInv
  <1> QED
    BY <1>1, Invariance, PTL

(***************************************************************************)
(* The migration loses nothing and brings nothing back, wherever it is     *)
(* interrupted, however large the log and however often: Raft runs on what *)
(* was stored last (migrateFromBolt, NewStorage, NewNode).                 *)
(***************************************************************************)
THEOREM MigrationKeepsAll == Spec => []NothingLost
  <1>1. IInv => NothingLost
    BY DEF IInv, DiskInv, NothingLost, Late
  <1> QED
    BY <1>1, Invariance, PTL

(***************************************************************************)
(* Raft never runs with two ids on the same data, whatever is on the       *)
(* command line, nor with one that is not the configuration's, unless the  *)
(* operator gave it to data that had none on file (ResolveNodeID).         *)
(***************************************************************************)
THEOREM IdentityKept == Spec => []OneIdentity
  <1>1. IInv => OneIdentity
    <2> SUFFICES ASSUME IInv PROVE OneIdentity
      OBVIOUS
    <2>1. \A a, b \in ran : a = b
      BY DEF IInv, IdentityInv
    <2>2. pc = "running" /\ ~misnamed => wal.server \in {None, id}
      BY DEF IInv, IdentityInv, DiskInv, Labels, Early, Late
    <2> QED
      BY <2>1, <2>2 DEF OneIdentity
  <1> QED
    BY <1>1, Invariance, PTL

(***************************************************************************)
(* A directory with a cluster configuration keeps it and its log, whatever *)
(* the command line says (NewNode's bootstrap).                            *)
(***************************************************************************)
THEOREM ClusterKept == Spec => NoSecondCluster
  <1>1. IInv /\ [Next]_vars =>
          [written.server # None =>
             written'.server = written.server /\ written'.log >= written.log]_vars
    <2> SUFFICES ASSUME IInv, Next, written.server # None
                 PROVE  written'.server = written.server /\ written'.log >= written.log
      OBVIOUS
    <2>1. written.log \in Nat
      BY Types, DataDirAssumption DEF Store
    <2>2. CASE Boot \/ RaftStores
      BY <2>2, BootExtends, StoreExtends DEF Extends
    <2>3. CASE ~(Boot \/ RaftStores)
      <3>1. UNCHANGED written
        BY ZenonT(60), <2>3 DEF Next, Step, Start, Crash, ResolveNodeID, CreateNodeIDFile, WriteNodeIDFile,
                    MigrateFromBolt, ClearScratch, CopyLogs, CopyStable, RenameScratch,
                    RetireBolt, OpenWAL
      <3> QED
        BY SMTT(30), <2>1, <3>1
    <2> QED
      BY <2>2, <2>3
  <1> QED
    BY <1>1, Invariance, PTL DEF Spec, NoSecondCluster
=============================================================================
