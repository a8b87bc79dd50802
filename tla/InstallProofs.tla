---------------------------- MODULE InstallProofs ----------------------------
(***************************************************************************)
(* Proofs about Install, for any number of processes, hosts, paths,        *)
(* releases, edits, crashes and backups.                                   *)
(***************************************************************************)
EXTENDS Install, TLAPS

(***************************************************************************)
(* The classes, jobs and documents the operators of Install answer.        *)
(***************************************************************************)
LEMMA SyncClassType ==
  ASSUME NEW c, NEW r, NEW s
  PROVE  SyncClass(c, r, s) \in Classes
  BY DEF SyncClass, Classes

\* Every class that uninstall gives a path is one of Classes.
LEMMA UninstallClassType ==
  ASSUME NEW c, NEW r, NEW s, NEW force, NEW orphans
  PROVE  UninstallClass(c, r, s, force, orphans) \in Classes
  BY DEF UninstallClass, Classes

\* The state of a machine without state.json is a state file.
LEMMA EmptyStateType == EmptyState \in StateFiles
  BY InstallAssumption DEF EmptyState, StateFiles, HookStates

\* Dropping an emptied host leaves a state file.
LEMMA DropType ==
  ASSUME NEW s \in StateFiles, NEW h
  PROVE  DropIfEmpty(s, h) \in StateFiles
  BY DEF DropIfEmpty, StateFiles

\* The job of an idle process is a job.
LEMMA NoJobType == NoJob \in Jobs
  BY InstallAssumption DEF NoJob, Jobs, Versions

\* The plan and the readings of an idle process are typed.
LEMMA PlanTypes ==
  /\ NoPlan \in [Paths -> Classes]
  /\ NothingSeen \in [Paths -> FileValues]
  BY DEF NoPlan, Classes, NothingSeen, FileValues

\* A run writes back a document, never a torn file.
LEMMA NewDocType ==
  ASSUME TypeOK, NEW p \in Procs, seenSettings[p] # Torn
  PROVE  NewDoc(p) \in Docs
  BY InstallAssumption DEF TypeOK, PrivateTypes, NewDoc, SeenDoc, SettingsValues

\* Recording one file, the hook or the adoption of a host in a state.
LEMMA RecordTypes ==
  ASSUME NEW s \in StateFiles
  PROVE  /\ \A f \in Paths, d \in Digests \cup {None} :
              [s EXCEPT !.assets[f] = d] \in StateFiles
         /\ \A w \in HookStates : [s EXCEPT !.hook = w] \in StateFiles
         /\ \A b \in BOOLEAN : [s EXCEPT !.feature = b] \in StateFiles
         /\ \A h \in Hosts, v \in Versions :
              AdoptHost(s, h, v) \in StateFiles
  <1>1. \A f \in Paths, d \in Digests \cup {None} :
          [s EXCEPT !.assets[f] = d] \in StateFiles
    BY DEF StateFiles
  <1>2. \A w \in HookStates : [s EXCEPT !.hook = w] \in StateFiles
    BY DEF StateFiles
  <1>3. \A b \in BOOLEAN : [s EXCEPT !.feature = b] \in StateFiles
    BY DEF StateFiles
  <1>4. \A h \in Hosts, v \in Versions :
          AdoptHost(s, h, v) \in StateFiles
    <2> SUFFICES ASSUME NEW h \in Hosts, NEW v \in Versions
                 PROVE  AdoptHost(s, h, v) \in StateFiles
      OBVIOUS
    <2>1. v \in 0..MaxVersion
      BY InstallAssumption DEF Versions
    <2>2. s.hosts \cup {h} \in SUBSET Hosts
      BY DEF StateFiles
    <2> QED
      BY <2>1, <2>2 DEF AdoptHost, StateFiles
  <1> QED
    BY <1>1, <1>2, <1>3, <1>4

(***************************************************************************)
(* A process that ends forgets everything, and all it forgets is typed.    *)
(***************************************************************************)
LEMMA ExitType ==
  ASSUME TypeOK, NEW p \in Procs, Exit(p)
  PROVE  PrivateTypes'
  <1>1. Absent \in SettingsValues /\ "idle" \in Labels /\ 0 \in 0..MaxBackups
    BY InstallAssumption DEF SettingsValues, Labels
  <1> QED
    BY <1>1, PlanTypes, EmptyStateType, NoJobType DEF Exit, TypeOK, PrivateTypes

\* Initially every variable has its type and no manifest lists anything.
THEOREM TypeInit == Init => TypeOK
  <1> SUFFICES ASSUME Init PROVE TypeOK
    OBVIOUS
  <1>1. EmptyState \in StateFiles /\ NewBackup \in Backups /\ "idle" \in Labels
    BY EmptyStateType DEF NewBackup, Backups, Labels
  <1>2. version \in Versions /\ nbackups \in 0..MaxBackups /\ CountTypes
    BY InstallAssumption DEF Init, Versions, CountTypes
  <1>3. disk \in [Paths -> FileValues] /\ settings \in SettingsValues
    BY InstallAssumption DEF Init, FileValues, Contents
  <1>4. saved \in StateFiles
    <2>1. Claude \in Hosts => [EmptyState EXCEPT !.hook = "legacy", !.hosts = {Claude}]
                                \in StateFiles
      BY EmptyStateType DEF StateFiles, HookStates
    <2> QED
      BY <2>1, EmptyStateType DEF Init
  <1>5. backups \in [BackupIds -> Backups] /\ EntriesExist
    BY <1>1 DEF Init, EntriesExist, NewBackup
  <1>6. PrivateTypes
    BY <1>1, PlanTypes, NoJobType, InstallAssumption DEF Init, PrivateTypes, SettingsValues
  <1> QED
    BY <1>2, <1>3, <1>4, <1>5, <1>6 DEF TypeOK, SharedTypes

(***************************************************************************)
(* The steps that only a process sees keep the shared types.               *)
(***************************************************************************)
LEMMA SharedKept ==
  ASSUME TypeOK, UNCHANGED shared
  PROVE  SharedTypes' /\ EntriesExist'
  BY DEF TypeOK, SharedTypes, EntriesExist, shared

\* Starting any operation keeps the types.
LEMMA BeginType ==
  ASSUME TypeOK, NEW p \in Procs, Begin(p)
  PROVE  TypeOK'
  <1>0. job[p] \in Jobs /\ version \in Versions
    BY DEF TypeOK, PrivateTypes, SharedTypes
  <1>1. ASSUME NEW force \in BOOLEAN, NEW hs \in SUBSET Hosts, BeginSync(p, force, hs)
        PROVE  TypeOK'
    <2>1. [NoJob EXCEPT !.op = "sync", !.force = force, !.ver = version] \in Jobs
      BY <1>0, NoJobType DEF Jobs
    <2>2. PrivateTypes'
      BY <1>1, <2>1 DEF BeginSync, Go, TypeOK, PrivateTypes, Labels
    <2> QED
      BY <1>1, <2>2, SharedKept DEF BeginSync, TypeOK, CountTypes
  <1>2. ASSUME NEW force \in BOOLEAN, BeginRepair(p, force) PROVE TypeOK'
    <2>1. [NoJob EXCEPT !.op = IF HookProblem THEN "rewire" ELSE "sync",
                        !.force = force, !.repair = TRUE, !.ver = version] \in Jobs
      BY <1>0, NoJobType DEF Jobs
    <2>2. PrivateTypes'
      BY <1>2, <2>1 DEF BeginRepair, Go, TypeOK, PrivateTypes, Labels
    <2> QED
      BY <1>2, <2>2, SharedKept DEF BeginRepair, TypeOK, CountTypes
  <1>3. ASSUME NEW force \in BOOLEAN, NEW orphans \in BOOLEAN,
               BeginUninstall(p, force, orphans)
        PROVE  TypeOK'
    <2>1. [NoJob EXCEPT !.op = "uninstall", !.force = force,
                        !.orphans = orphans, !.ver = version] \in Jobs
      BY <1>0, NoJobType DEF Jobs
    <2>2. PrivateTypes'
      BY <1>3, <2>1 DEF BeginUninstall, Go, TypeOK, PrivateTypes, Labels
    <2> QED
      BY <1>3, <2>2, SharedKept DEF BeginUninstall, TypeOK, CountTypes
  <1>4. ASSUME NEW enabled \in BOOLEAN, BeginFeature(p, enabled) PROVE TypeOK'
    <2>1. [NoJob EXCEPT !.op = "feature"] \in Jobs
      BY NoJobType DEF Jobs
    <2>2. [saved EXCEPT !.feature = enabled] \in StateFiles
      BY RecordTypes DEF TypeOK, SharedTypes
    <2>3. PrivateTypes'
      BY <1>4, <2>1, <2>2 DEF BeginFeature, Go, TypeOK, PrivateTypes, Labels
    <2> QED
      BY <1>4, <2>3, SharedKept DEF BeginFeature, TypeOK, CountTypes
  <1>5. ASSUME NEW b \in BackupIds, BeginRestore(p, b) PROVE TypeOK'
    <2>1. [NoJob EXCEPT !.op = "restore"] \in Jobs
      BY NoJobType DEF Jobs
    <2>2. plan'[p] \in [Paths -> Classes]
      BY <1>5 DEF BeginRestore, TypeOK, PrivateTypes, Classes
    <2>3. backups[b] \in Backups
      BY DEF TypeOK, SharedTypes
    <2>4. \A f \in backups[b].entries : backups[b].files[f] \in FileValues
      BY <2>3 DEF TypeOK, EntriesExist, Backups, FileValues
    <2>5. seen'[p] \in [Paths -> FileValues]
      BY <1>5, <2>4 DEF BeginRestore, TypeOK, PrivateTypes, FileValues
    <2>6. PrivateTypes'
      BY <1>5, <2>1, <2>2, <2>5 DEF BeginRestore, Go, TypeOK, PrivateTypes, Labels
    <2> QED
      BY <1>5, <2>6, SharedKept DEF BeginRestore, TypeOK, CountTypes
  <1> QED
    BY <1>1, <1>2, <1>3, <1>4, <1>5 DEF Begin

\* Ending a process keeps the types.
LEMMA ExitsType ==
  ASSUME TypeOK, NEW p \in Procs, Exit(p), UNCHANGED shared, CountTypes'
  PROVE  TypeOK'
  BY ExitType, SharedKept DEF TypeOK

(***************************************************************************)
(* Planning: what the classes and the documents read are drawn from.       *)
(***************************************************************************)
LEMMA PlanningType ==
  ASSUME TypeOK, NEW p \in Procs
  PROVE  /\ Load(p) => TypeOK'
         /\ \A h \in Hosts : PlanHost(p, h) => TypeOK'
         /\ PlanUninstall(p) => TypeOK'
         /\ RefuseUninstall(p) => TypeOK'
         /\ RewireLoad(p) => TypeOK'
  <1>0. /\ disk \in [Paths -> FileValues] /\ settings \in SettingsValues
        /\ saved \in StateFiles /\ mem[p] \in StateFiles /\ job[p] \in Jobs
    BY DEF TypeOK, SharedTypes, PrivateTypes
  <1>1. ASSUME Load(p) PROVE TypeOK'
    <2>1. PrivateTypes'
      BY <1>0, <1>1 DEF Load, TypeOK, PrivateTypes, Labels
    <2> QED
      BY <1>1, <2>1, SharedKept DEF Load, TypeOK, CountTypes
  <1>2. ASSUME NEW h \in Hosts, PlanHost(p, h) PROVE TypeOK'
    <2>1. plan'[p] \in [Paths -> Classes]
      <3>1. "none" \in Classes
        BY DEF Classes
      <3> QED
        BY <1>2, <3>1, SyncClassType DEF PlanHost, TypeOK, PrivateTypes
    <2>2. mem'[p] \in StateFiles
      <3>1. job[p].ver \in Versions
        BY <1>0 DEF Jobs
      <3> QED
        BY <1>0, <1>2, <3>1, RecordTypes DEF PlanHost, TypeOK, PrivateTypes
    <2>3. seenSettings'[p] \in SettingsValues
      BY <1>0, <1>2 DEF PlanHost, TypeOK, PrivateTypes
    <2>4. PrivateTypes'
      BY <1>0, <1>2, <2>1, <2>2, <2>3 DEF PlanHost, Go, TypeOK, PrivateTypes, Labels
    <2> QED
      BY <1>2, <2>4, SharedKept DEF PlanHost, TypeOK, CountTypes
  <1>3. ASSUME PlanUninstall(p) PROVE TypeOK'
    <2>1. plan'[p] \in [Paths -> Classes]
      BY <1>3, UninstallClassType DEF PlanUninstall, TypeOK, PrivateTypes
    <2>2. PrivateTypes'
      BY <1>0, <1>3, <2>1 DEF PlanUninstall, Go, TypeOK, PrivateTypes, Labels
    <2> QED
      BY <1>3, <2>2, SharedKept DEF PlanUninstall, TypeOK, CountTypes
  <1>4. ASSUME RefuseUninstall(p) PROVE TypeOK'
    BY <1>4, ExitsType DEF RefuseUninstall, TypeOK, CountTypes
  <1>5. ASSUME RewireLoad(p) PROVE TypeOK'
    <2>1. PrivateTypes'
      BY <1>0, <1>5 DEF RewireLoad, Go, TypeOK, PrivateTypes, Labels
    <2> QED
      BY <1>5, <2>1, SharedKept DEF RewireLoad, TypeOK, CountTypes
  <1> QED
    BY <1>1, <1>2, <1>3, <1>4, <1>5

(***************************************************************************)
(* Steps on one file.  Custody is needed where the type of what is written *)
(* depends on how the item was planned.                                    *)
(***************************************************************************)
LEMMA DoneType ==
  ASSUME TypeOK, NEW p \in Procs, NEW f \in Paths, Done(p, f)
  PROVE  plan' \in [Procs -> [Paths -> Classes]]
  <1>1. "none" \in Classes
    BY DEF Classes
  <1> QED
    BY <1>1 DEF Done, TypeOK, PrivateTypes

\* What a planned path is written with is a digest.
LEMMA ShippedType ==
  ASSUME TypeOK, NEW p \in Procs, NEW f \in Paths
  PROVE  Shipped(p, f) \in Digests \cup {Absent}
  <1>1. job[p].ver \in Versions
    BY DEF TypeOK, PrivateTypes, Jobs
  <1> QED
    BY <1>1, InstallAssumption DEF Shipped

\* Recording, skipping, removing and writing one file keep the types.
LEMMA RecordStepsType ==
  ASSUME TypeOK, Custody, NEW p \in Procs, NEW f \in Paths
  PROVE  /\ RecordOK(p, f) => TypeOK'
         /\ SkipModified(p, f) => TypeOK'
         /\ SnapshotFails(p, f) => TypeOK'
         /\ RemoveFile(p, f) => TypeOK'
         /\ WriteFile(p, f) => TypeOK'
         /\ TruncateFile(p, f) => TypeOK'
  <1>0. mem[p] \in StateFiles /\ ItemSafe(p, f) /\ ProcessSafe(p)
    BY DEF TypeOK, PrivateTypes, Custody
  <1>1. ASSUME RecordOK(p, f) PROVE TypeOK'
    <2>1. Shipped(p, f) \in Digests
      BY <1>0, <1>1, ShippedType DEF RecordOK, ItemSafe
    <2>2. mem'[p] \in StateFiles
      BY <1>0, <1>1, <2>1, RecordTypes DEF RecordOK, TypeOK, PrivateTypes
    <2>3. PrivateTypes'
      BY <1>1, <2>2, DoneType DEF RecordOK, Go, TypeOK, PrivateTypes, Labels
    <2> QED
      BY <1>1, <2>3, SharedKept DEF RecordOK, TypeOK, CountTypes
  <1>2. ASSUME SkipModified(p, f) PROVE TypeOK'
    <2>1. PrivateTypes'
      BY <1>2, DoneType DEF SkipModified, Go, TypeOK, PrivateTypes, Labels
    <2> QED
      BY <1>2, <2>1, SharedKept DEF SkipModified, TypeOK, CountTypes
  <1>3. ASSUME SnapshotFails(p, f) PROVE TypeOK'
    BY <1>3, ExitsType DEF SnapshotFails, TypeOK, CountTypes
  <1>4. ASSUME RemoveFile(p, f) PROVE TypeOK'
    <2>1. mem'[p] \in StateFiles
      BY <1>0, <1>4, RecordTypes, DropType DEF RemoveFile, TypeOK, PrivateTypes
    <2>2. PrivateTypes'
      BY <1>4, <2>1, DoneType DEF RemoveFile, TypeOK, PrivateTypes, Labels
    <2>3. disk' \in [Paths -> FileValues]
      BY <1>4 DEF RemoveFile, TypeOK, SharedTypes, FileValues
    <2> QED
      BY <1>4, <2>2, <2>3 DEF RemoveFile, TypeOK, SharedTypes, CountTypes, EntriesExist
  <1>5. ASSUME WriteFile(p, f) PROVE TypeOK'
    <2>1. disk' \in [Paths -> FileValues]
      <3>1. Shipped(p, f) \in FileValues
        BY ShippedType DEF FileValues, Contents
      <3>2. seen[p][f] \in FileValues
        BY DEF TypeOK, PrivateTypes
      <3> QED
        BY <1>5, <3>1, <3>2 DEF WriteFile, TypeOK, SharedTypes
    <2>2. mem' \in [Procs -> StateFiles]
      <3>1. CASE job[p].op = "restore"
        BY <1>5, <3>1 DEF WriteFile, TypeOK, PrivateTypes
      <3>2. CASE job[p].op # "restore"
        <4>1. Shipped(p, f) \in Digests
          BY <1>0, <1>5, <3>2, ShippedType DEF WriteFile, Go, ItemSafe
        <4>2. [mem[p] EXCEPT !.assets[f] = Shipped(p, f)] \in StateFiles
          BY <1>0, <4>1, RecordTypes
        <4>3. mem' = [mem EXCEPT ![p] = [mem[p] EXCEPT !.assets[f] = Shipped(p, f)]]
          BY <1>5, <3>2 DEF WriteFile, TypeOK, PrivateTypes
        <4> QED
          BY <4>2, <4>3 DEF TypeOK, PrivateTypes
      <3> QED
        BY <3>1, <3>2
    <2>3. PrivateTypes'
      BY <1>5, <2>2, DoneType DEF WriteFile, Go, TypeOK, PrivateTypes, Labels
    <2>4. touched' \in SUBSET Paths
      BY <1>5 DEF WriteFile, TypeOK, CountTypes
    <2> QED
      BY <1>5, <2>1, <2>3, <2>4
      DEF WriteFile, TypeOK, SharedTypes, CountTypes, EntriesExist
  <1>6. ASSUME TruncateFile(p, f) PROVE TypeOK'
    <2>1. disk' \in [Paths -> FileValues]
      BY <1>6 DEF TruncateFile, TypeOK, SharedTypes, FileValues
    <2>2. PrivateTypes'
      BY <1>6 DEF TruncateFile, TypeOK, PrivateTypes, Labels
    <2> QED
      BY <1>6, <2>1, <2>2 DEF TruncateFile, TypeOK, SharedTypes, CountTypes, EntriesExist
  <1> QED
    BY <1>1, <1>2, <1>3, <1>4, <1>5, <1>6

\* Snapshots and writes keep the types and the entries they list.
LEMMA BackupStepsType ==
  ASSUME TypeOK, Custody, NEW p \in Procs
  PROVE  /\ \A f \in Paths : Snapshot(p, f) => TypeOK'
         /\ TruncateManifest(p) => TypeOK'
         /\ \A f \in Paths : WriteManifest(p, f) => TypeOK'
  <1>0. /\ backups \in [BackupIds -> Backups] /\ nbackups \in 0..MaxBackups
        /\ backup[p] \in 0..MaxBackups /\ MaxBackups \in Nat
    BY InstallAssumption DEF TypeOK, SharedTypes, PrivateTypes
  <1>1. ASSUME NEW f \in Paths, Snapshot(p, f) PROVE TypeOK'
    <2>1. BackupDir(p) \in BackupIds
      BY <1>0, <1>1 DEF Snapshot, BackupDir, BackupIds
    <2>2. disk[f] \in Contents \cup {Torn}
      BY <1>1 DEF Snapshot, TypeOK, SharedTypes, FileValues
    <2>3. [backups[BackupDir(p)] EXCEPT !.files[f] = disk[f]] \in Backups
      BY <1>0, <2>1, <2>2 DEF Backups
    <2>4. backups' = [backups EXCEPT ![BackupDir(p)] =
                        [backups[BackupDir(p)] EXCEPT !.files[f] = disk[f]]]
      BY <1>0, <1>1, <2>1 DEF Snapshot
    <2>5. SharedTypes'
      <3>1. nbackups' \in 0..MaxBackups
        BY <1>0, <1>1 DEF Snapshot
      <3> QED
        BY <1>0, <1>1, <2>3, <2>4, <3>1 DEF Snapshot, TypeOK, SharedTypes
    <2>6. EntriesExist'
      <3>1. disk[f] # None
        BY <2>2, InstallAssumption
      <3>2. \A b \in BackupIds : backups[b].entries \subseteq Paths
        BY <1>0 DEF Backups
      <3>3. \A b \in BackupIds : \A g \in Paths :
              backups'[b].files[g] = IF b = BackupDir(p) /\ g = f THEN disk[f]
                                     ELSE backups[b].files[g]
        BY <1>0, <2>1, <2>4 DEF Backups
      <3>4. \A b \in BackupIds : backups'[b].entries = backups[b].entries
        BY <1>0, <2>1, <2>4 DEF Backups
      <3> QED
        BY <3>1, <3>2, <3>3, <3>4 DEF EntriesExist, TypeOK
    <2>7. PrivateTypes'
      <3>1. backup'[p] \in 0..MaxBackups
        BY <1>0, <1>1, <2>1 DEF Snapshot, BackupIds, TypeOK, PrivateTypes
      <3>2. disk[f] \in FileValues
        BY <2>2 DEF FileValues
      <3> QED
        BY <1>1, <3>1, <3>2 DEF Snapshot, Go, TypeOK, PrivateTypes, Labels
    <2> QED
      BY <1>1, <2>5, <2>6, <2>7 DEF Snapshot, TypeOK, CountTypes
  <1>2. ASSUME TruncateManifest(p) PROVE TypeOK'
    <2>1. backups' \in [BackupIds -> Backups]
      BY <1>0, <1>2 DEF TruncateManifest, Backups
    <2>2. \A b \in BackupIds : /\ backups'[b].files = backups[b].files
                               /\ backups'[b].entries = backups[b].entries
      BY <1>0, <1>2 DEF TruncateManifest, Backups
    <2>3. EntriesExist'
      BY <2>2 DEF EntriesExist, TypeOK
    <2>4. PrivateTypes'
      BY <1>2 DEF TruncateManifest, Go, TypeOK, PrivateTypes, Labels
    <2> QED
      BY <1>2, <2>1, <2>3, <2>4 DEF TruncateManifest, TypeOK, SharedTypes, CountTypes
  <1>3. ASSUME NEW f \in Paths, WriteManifest(p, f) PROVE TypeOK'
    <2>1. backups' \in [BackupIds -> Backups]
      BY <1>0, <1>3 DEF WriteManifest, Backups
    <2>2. \A b \in BackupIds : backups'[b].files = backups[b].files
      BY <1>0, <1>3 DEF WriteManifest, Backups
    <2>3. \A b \in BackupIds :
            backups'[b].entries \subseteq backups[b].entries
                                          \cup (IF b = backup[p] THEN {f} ELSE {})
      BY <1>0, <1>3 DEF WriteManifest, Backups
    <2>4. backup[p] \in BackupIds => backups[backup[p]].files[f] # None
      <3>1. Held(p, f)
        BY <1>3 DEF WriteManifest, Go, Custody, ItemSafe
      <3>2. seen[p][f] # None
        BY InstallAssumption DEF TypeOK, PrivateTypes, FileValues
      <3> QED
        BY <3>1, <3>2 DEF Held
    <2>5. EntriesExist'
      BY <2>2, <2>3, <2>4 DEF EntriesExist, TypeOK
    <2>6. PrivateTypes'
      BY <1>3 DEF WriteManifest, Go, TypeOK, PrivateTypes, Labels
    <2> QED
      BY <1>3, <2>1, <2>5, <2>6 DEF WriteManifest, TypeOK, SharedTypes, CountTypes
  <1> QED
    BY <1>1, <1>2, <1>3

(***************************************************************************)
(* Steps on settings.json, and the ends of lists and runs.                 *)
(***************************************************************************)
LEMMA RecordHookType ==
  ASSUME TypeOK, NEW p \in Procs, RecordHook(p)
  PROVE  /\ mem' \in [Procs -> StateFiles]
         /\ dirty' \in [Procs -> BOOLEAN]
         /\ hookPlan' \in [Procs -> BOOLEAN]
  <1>0. mem[p] \in StateFiles
    BY DEF TypeOK, PrivateTypes
  <1>1. [mem[p] EXCEPT !.hook = "wired"] \in StateFiles
    BY <1>0, RecordTypes DEF HookStates
  <1>2. DropIfEmpty([mem[p] EXCEPT !.hook = "none"], Claude) \in StateFiles
    BY <1>0, RecordTypes, DropType DEF HookStates
  <1> QED
    BY <1>1, <1>2 DEF RecordHook, TypeOK, PrivateTypes

\* Steps on settings.json keep the types.
LEMMA HookStepsType ==
  ASSUME TypeOK, Custody, NEW p \in Procs
  PROVE  /\ KeepSettings(p) => TypeOK'
         /\ TruncateSettings(p) => TypeOK'
         /\ WriteSettings(p) => TypeOK'
  <1>1. ASSUME KeepSettings(p) PROVE TypeOK'
    <2>1. PrivateTypes'
      BY <1>1, RecordHookType DEF KeepSettings, Go, TypeOK, PrivateTypes, Labels
    <2> QED
      BY <1>1, <2>1, SharedKept DEF KeepSettings, TypeOK, CountTypes
  <1>2. ASSUME TruncateSettings(p) PROVE TypeOK'
    <2>1. PrivateTypes'
      BY <1>2 DEF TruncateSettings, Go, TypeOK, PrivateTypes, Labels
    <2> QED
      BY <1>2, <2>1
      DEF TruncateSettings, TypeOK, SharedTypes, SettingsValues, CountTypes, EntriesExist
  <1>3. ASSUME WriteSettings(p) PROVE TypeOK'
    <2>1. NewDoc(p) \in Docs
      BY <1>3, NewDocType DEF WriteSettings, Go, Custody, ProcessSafe
    <2>2. PrivateTypes'
      BY <1>3, RecordHookType DEF WriteSettings, Go, TypeOK, PrivateTypes, Labels
    <2> QED
      BY <1>3, <2>1, <2>2
      DEF WriteSettings, TypeOK, SharedTypes, SettingsValues, CountTypes, EntriesExist
  <1> QED
    BY <1>1, <1>2, <1>3

\* Ends of lists and runs, and the save, keep the types.
LEMMA EndsType ==
  ASSUME TypeOK, NEW p \in Procs
  PROVE  /\ FinishItems(p) => TypeOK'
         /\ FinishRewire(p) => TypeOK'
         /\ FinishRestore(p) => TypeOK'
         /\ Save(p) => TypeOK'
         /\ SettingsUnreadable(p) => TypeOK'
         /\ Crash(p) => TypeOK'
  <1>1. ASSUME FinishItems(p) PROVE TypeOK'
    <2>1. PrivateTypes'
      BY <1>1 DEF FinishItems, Go, TypeOK, PrivateTypes, Labels
    <2> QED
      BY <1>1, <2>1, SharedKept DEF FinishItems, TypeOK, CountTypes
  <1>2. ASSUME FinishRewire(p) PROVE TypeOK'
    <2>1. job' \in [Procs -> Jobs]
      BY <1>2 DEF FinishRewire, TypeOK, PrivateTypes, Jobs
    <2>2. PrivateTypes'
      BY <1>2, <2>1 DEF FinishRewire, Go, TypeOK, PrivateTypes, Labels
    <2> QED
      BY <1>2, <2>2, SharedKept DEF FinishRewire, TypeOK, CountTypes
  <1>3. ASSUME FinishRestore(p) PROVE TypeOK'
    BY <1>3, ExitsType DEF FinishRestore, TypeOK, CountTypes
  <1>4. ASSUME Save(p) PROVE TypeOK'
    <2>1. PrivateTypes'
      BY <1>4, ExitType DEF Save
    <2>2. saved' \in StateFiles /\ touched' = touched
      BY <1>4 DEF Save, TypeOK, SharedTypes, PrivateTypes
    <2> QED
      BY <1>4, <2>1, <2>2 DEF Save, TypeOK, SharedTypes, CountTypes, EntriesExist
  <1>5. ASSUME SettingsUnreadable(p) PROVE TypeOK'
    BY <1>5, ExitsType DEF SettingsUnreadable, TypeOK, CountTypes
  <1>6. ASSUME Crash(p) PROVE TypeOK'
    <2>1. CountTypes'
      BY <1>6, InstallAssumption DEF Crash, TypeOK, CountTypes
    <2> QED
      BY <1>6, <2>1, ExitsType DEF Crash
  <1> QED
    BY <1>1, <1>2, <1>3, <1>4, <1>5, <1>6

\* Edits and upgrades keep the types.
LEMMA UserType ==
  ASSUME TypeOK, User
  PROVE  TypeOK'
  <1>1. ASSUME NEW f \in Paths, NEW c \in UserContents \cup {Absent}, EditFile(f, c)
        PROVE  TypeOK'
    <2>1. PrivateTypes'
      BY <1>1 DEF EditFile, private, TypeOK, PrivateTypes
    <2>2. disk' \in [Paths -> FileValues]
      BY <1>1 DEF EditFile, TypeOK, SharedTypes, FileValues, Contents
    <2>3. CountTypes'
      BY <1>1, InstallAssumption DEF EditFile, MayEdit, TypeOK, CountTypes
    <2> QED
      BY <1>1, <2>1, <2>2, <2>3 DEF EditFile, TypeOK, SharedTypes, EntriesExist
  <1>2. ASSUME NEW s \in UserDocs, EditSettings(s) PROVE TypeOK'
    <2>1. PrivateTypes'
      BY <1>2 DEF EditSettings, private, TypeOK, PrivateTypes
    <2>2. settings' \in SettingsValues
      BY <1>2, InstallAssumption DEF EditSettings
    <2>3. CountTypes'
      BY <1>2, InstallAssumption DEF EditSettings, MayEdit, TypeOK, CountTypes
    <2> QED
      BY <1>2, <2>1, <2>2, <2>3 DEF EditSettings, TypeOK, SharedTypes, EntriesExist
  <1>3. ASSUME Upgrade PROVE TypeOK'
    <2>1. PrivateTypes'
      BY <1>3 DEF Upgrade, private, TypeOK, PrivateTypes
    <2>2. version' \in Versions
      BY <1>3, InstallAssumption DEF Upgrade, TypeOK, SharedTypes, Versions
    <2> QED
      BY <1>3, <2>1, <2>2 DEF Upgrade, TypeOK, SharedTypes, CountTypes, EntriesExist
  <1> QED
    BY <1>1, <1>2, <1>3 DEF User

\* Every step keeps the types; Custody says which digests are written.
THEOREM TypeStep == TypeOK /\ Custody /\ [Next]_vars => TypeOK'
  <1> SUFFICES ASSUME TypeOK, Custody, [Next]_vars PROVE TypeOK'
    OBVIOUS
  <1>1. ASSUME NEW p \in Procs, NEW f \in Paths, FileStep(p, f) PROVE TypeOK'
    BY <1>1, RecordStepsType, BackupStepsType DEF FileStep
  <1>2. ASSUME NEW p \in Procs, Step(p) PROVE TypeOK'
    BY <1>1, <1>2, PlanningType, BackupStepsType, HookStepsType, EndsType DEF Step
  <1>3. ASSUME NEW p \in Procs, Begin(p) PROVE TypeOK'
    BY <1>3, BeginType
  <1>4. ASSUME NEW p \in Procs, Crash(p) PROVE TypeOK'
    BY <1>4, EndsType
  <1>5. CASE UNCHANGED vars
    BY <1>5 DEF vars, shared, private, TypeOK, SharedTypes, PrivateTypes, CountTypes,
                EntriesExist
  <1> QED
    BY <1>2, <1>3, <1>4, <1>5, UserType DEF Next

-----------------------------------------------------------------------------
(***************************************************************************)
(* Custody is kept.  A step of p touches nobody else's memory and no       *)
(* backup directory of anybody else; p's own items are then looked at      *)
(* action by action.                                                       *)
(***************************************************************************)
PrivateSame(q) ==
  /\ pc'[q] = pc[q] /\ job'[q] = job[q] /\ plan'[q] = plan[q]
  /\ hookPlan'[q] = hookPlan[q] /\ seen'[q] = seen[q]
  /\ seenSettings'[q] = seenSettings[q] /\ backup'[q] = backup[q]

\* An item whose process and backups did not change stays safe.
LEMMA ItemKept ==
  ASSUME NEW q \in Procs, NEW f \in Paths, ItemSafe(q, f), PrivateSame(q),
         backup[q] # 0 => backups'[backup[q]] = backups[backup[q]]
  PROVE  ItemSafe(q, f)'
  BY DEF ItemSafe, PrivateSame, Held, Listed, Turn, HookTurn, Shipped

\* A list of items that only shrinks, outside of a write, stays safe.
LEMMA ShrunkPlanSafe ==
  ASSUME NEW p \in Procs, NEW f \in Paths, ItemSafe(p, f),
         job'[p] = job[p], seen'[p][f] = seen[p][f],
         plan'[p][f] \in {"none", plan[p][f]},
         pc'[p] \notin {"archive", "manifest", "ready", "torn"}
  PROVE  ItemSafe(p, f)'
  BY DEF ItemSafe, Shipped

\* A process with nothing planned is safe.
LEMMA NoPlanSafe ==
  ASSUME NEW p \in Procs, NEW f \in Paths, plan'[p] = NoPlan
  PROVE  ItemSafe(p, f)'
  <1>1. plan'[p][f] = "none"
    BY DEF NoPlan
  <1> QED
    BY <1>1 DEF ItemSafe, Turn

\* How a step of p may move p's backup directory.
BackupMoves(p) ==
  \/ backup'[p] \in {backup[p], 0} /\ nbackups' = nbackups
  \/ backup'[p] = nbackups + 1 /\ nbackups' = nbackups + 1

\* What a step of p leaves of another process.
OthersKept(p) ==
  /\ BackupMoves(p)
  /\ \A q \in Procs \ {p} :
       /\ PrivateSame(q)
       /\ backup[q] # 0 => backups'[backup[q]] = backups[backup[q]]

\* What is left to show of p itself.
OwnSafe(p) ==
  /\ pc'[p] = "idle" => plan'[p] = NoPlan
  /\ hookPlan'[p] \/ pc'[p] = "hookTorn" => seenSettings'[p] # Torn
  /\ \A f \in Paths : ItemSafe(p, f)'

\* Custody of all follows from the process that moved and the others.
LEMMA CustodyFromParts ==
  ASSUME TypeOK, Custody, NEW p \in Procs, OthersKept(p), OwnSafe(p)
  PROVE  Custody'
  <1>0. /\ nbackups \in Nat
        /\ \A q \in Procs : backup[q] \in Nat /\ backup[q] <= nbackups
    BY InstallAssumption DEF TypeOK, SharedTypes, PrivateTypes, Custody, ProcessSafe
  <1>1. ASSUME NEW q \in Procs, NEW f \in Paths PROVE ItemSafe(q, f)'
    BY ItemKept DEF Custody, OthersKept, OwnSafe
  <1>2. ASSUME NEW q \in Procs PROVE backup'[q] <= nbackups'
    BY <1>0 DEF OthersKept, BackupMoves, PrivateSame
  <1>3. ASSUME NEW q \in Procs, NEW r \in Procs \ {q}, backup'[q] # 0
        PROVE  backup'[r] # backup'[q]
    <2>1. backup[q] # 0 => backup[r] # backup[q]
      BY DEF Custody, ProcessSafe
    <2>2. backup[r] # 0 => backup[q] # backup[r]
      BY DEF Custody, ProcessSafe
    <2> QED
      BY <1>0, <1>3, <2>1, <2>2 DEF OthersKept, BackupMoves, PrivateSame
  <1>4. ASSUME NEW q \in Procs
        PROVE  /\ pc'[q] = "idle" => plan'[q] = NoPlan
               /\ hookPlan'[q] \/ pc'[q] = "hookTorn" => seenSettings'[q] # Torn
    BY DEF Custody, ProcessSafe, OthersKept, OwnSafe, PrivateSame
  <1>5. NoPlan' = NoPlan
    BY DEF NoPlan
  <1> QED
    BY <1>1, <1>2, <1>3, <1>4, <1>5 DEF Custody, ProcessSafe

\* A process that ends keeps custody: it has no plan and no backup left.
LEMMA ExitCustody ==
  ASSUME TypeOK, Custody, NEW p \in Procs, Exit(p), UNCHANGED <<backups, nbackups>>
  PROVE  Custody'
  <1>1. OthersKept(p)
    BY DEF Exit, OthersKept, BackupMoves, PrivateSame, TypeOK, PrivateTypes
  <1>2. plan'[p] = NoPlan /\ ~hookPlan'[p] /\ pc'[p] = "idle"
    BY DEF Exit, TypeOK, PrivateTypes
  <1>3. OwnSafe(p)
    BY <1>2, NoPlanSafe DEF OwnSafe
  <1> QED
    BY <1>1, <1>3, CustodyFromParts

\* Starting any operation keeps custody.
LEMMA BeginCustody ==
  ASSUME TypeOK, Custody, NEW p \in Procs, Begin(p)
  PROVE  Custody'
  <1>0. ProcessSafe(p)
    BY DEF Custody
  <1>1. ASSUME \/ \E force \in BOOLEAN, hs \in SUBSET Hosts : BeginSync(p, force, hs)
               \/ \E force \in BOOLEAN : BeginRepair(p, force)
               \/ \E force, orphans \in BOOLEAN : BeginUninstall(p, force, orphans)
               \/ \E enabled \in BOOLEAN : BeginFeature(p, enabled)
        PROVE  Custody'
    <2>1. OthersKept(p)
      BY <1>1 DEF BeginSync, BeginRepair, BeginUninstall, BeginFeature, Go, shared,
                  OthersKept, BackupMoves, PrivateSame, TypeOK, PrivateTypes
    <2>2. /\ plan'[p] = NoPlan /\ hookPlan' = hookPlan /\ seenSettings' = seenSettings
          /\ pc'[p] # "hookTorn"
      BY <1>0, <1>1 DEF BeginSync, BeginRepair, BeginUninstall, BeginFeature, Go,
                        ProcessSafe, TypeOK, PrivateTypes
    <2>3. OwnSafe(p)
      BY <1>0, <2>2, NoPlanSafe DEF OwnSafe, ProcessSafe
    <2> QED
      BY <2>1, <2>3, CustodyFromParts
  <1>2. ASSUME NEW b \in BackupIds, BeginRestore(p, b) PROVE Custody'
    <2>1. OthersKept(p)
      BY <1>2 DEF BeginRestore, Go, shared, OthersKept, BackupMoves, PrivateSame,
                  TypeOK, PrivateTypes
    <2>2. /\ pc'[p] = "act" /\ job'[p].op = "restore"
          /\ \A f \in Paths : plan'[p][f] \in {"restore", "none"}
          /\ hookPlan' = hookPlan /\ seenSettings' = seenSettings
      BY <1>2, NoJobType DEF BeginRestore, Go, TypeOK, PrivateTypes, Jobs
    <2>3. OwnSafe(p)
      BY <1>0, <2>2 DEF OwnSafe, ProcessSafe, ItemSafe
    <2> QED
      BY <2>1, <2>3, CustodyFromParts
  <1> QED
    BY <1>1, <1>2 DEF Begin

\* Planning classifies each path by what is read in the same step.
LEMMA PlanningCustody ==
  ASSUME TypeOK, Custody, NEW p \in Procs
  PROVE  /\ Load(p) => Custody'
         /\ \A h \in Hosts : PlanHost(p, h) => Custody'
         /\ PlanUninstall(p) => Custody'
         /\ RefuseUninstall(p) => Custody'
         /\ RewireLoad(p) => Custody'
  <1>0. ProcessSafe(p) /\ \A f \in Paths : ItemSafe(p, f)
    BY DEF Custody
  <1>1. ASSUME Load(p) PROVE Custody'
    <2>1. OthersKept(p)
      BY <1>1 DEF Load, shared, OthersKept, BackupMoves, PrivateSame, TypeOK, PrivateTypes
    <2>2. /\ pc'[p] \in {"classify", "host"}
          /\ UNCHANGED <<job, plan, hookPlan, seen, seenSettings>>
      BY <1>1 DEF Load, TypeOK, PrivateTypes
    <2>3. OwnSafe(p)
      BY <1>0, <2>2, ShrunkPlanSafe DEF OwnSafe, ProcessSafe
    <2> QED
      BY <2>1, <2>3, CustodyFromParts
  <1>2. ASSUME NEW h \in Hosts, PlanHost(p, h) PROVE Custody'
    <2>1. OthersKept(p)
      BY <1>2 DEF PlanHost, Go, shared, OthersKept, BackupMoves, PrivateSame,
                  TypeOK, PrivateTypes
    <2>2. pc'[p] = "act" /\ job' = job /\ seen'[p] = disk
      BY <1>2 DEF PlanHost, Go, TypeOK, PrivateTypes
    <2>3. hookPlan'[p] => seenSettings'[p] # Torn
      BY <1>2 DEF PlanHost, TypeOK, PrivateTypes
    <2>4. ASSUME NEW f \in Paths PROVE ItemSafe(p, f)'
      <3>1. plan'[p][f] \in {"none", SyncClass(disk[f], mem[p].assets[f], Shipped(p, f))}
        BY <1>2 DEF PlanHost, TypeOK, PrivateTypes
      <3>2. /\ plan'[p][f] \notin {"restore", "remove"}
            /\ plan'[p][f] # "none" => Shipped(p, f) # Absent
            /\ plan'[p][f] = "create" => disk[f] = Absent
        BY <3>1 DEF SyncClass
      <3> QED
        BY <2>2, <3>2 DEF ItemSafe, Shipped
    <2> QED
      BY <2>1, <2>2, <2>3, <2>4, CustodyFromParts DEF OwnSafe
  <1>3. ASSUME PlanUninstall(p) PROVE Custody'
    <2>1. OthersKept(p)
      BY <1>3 DEF PlanUninstall, Go, shared, OthersKept, BackupMoves, PrivateSame,
                  TypeOK, PrivateTypes
    <2>2. /\ pc'[p] = "act" /\ seen'[p] = disk
          /\ hookPlan'[p] => seenSettings'[p] # Torn
      BY <1>3 DEF PlanUninstall, Go, TypeOK, PrivateTypes
    <2>3. ASSUME NEW f \in Paths PROVE ItemSafe(p, f)'
      <3>1. mem[p].assets[f] \in Digests \cup {None}
        BY DEF TypeOK, PrivateTypes, StateFiles
      <3>2. plan'[p][f] = UninstallClass(disk[f], mem[p].assets[f], Shipped(p, f),
                                         job[p].force, job[p].orphans)
        BY <1>3 DEF PlanUninstall, TypeOK, PrivateTypes
      <3>3. plan'[p][f] # "modified"
        BY <1>3, <3>2 DEF PlanUninstall
      <3>4. /\ plan'[p][f] \in {"none", "remove", "backup"}
            /\ plan'[p][f] = "remove" => disk[f] \in Digests \cup {Absent}
        BY <3>1, <3>2, <3>3 DEF UninstallClass
      <3> QED
        BY <2>2, <3>4 DEF ItemSafe
    <2> QED
      BY <2>1, <2>2, <2>3, CustodyFromParts DEF OwnSafe
  <1>4. ASSUME RefuseUninstall(p) PROVE Custody'
    BY <1>4, ExitCustody DEF RefuseUninstall, shared
  <1>5. ASSUME RewireLoad(p) PROVE Custody'
    <2>1. OthersKept(p)
      BY <1>5 DEF RewireLoad, Go, shared, OthersKept, BackupMoves, PrivateSame,
                  TypeOK, PrivateTypes
    <2>2. /\ pc'[p] = "act" /\ UNCHANGED <<job, plan, seen>>
          /\ seenSettings'[p] # Torn
      BY <1>5 DEF RewireLoad, Go, TypeOK, PrivateTypes
    <2>3. OwnSafe(p)
      BY <1>0, <2>2, ShrunkPlanSafe DEF OwnSafe
    <2> QED
      BY <2>1, <2>3, CustodyFromParts
  <1> QED
    BY <1>1, <1>2, <1>3, <1>4, <1>5

\* Steps that finish an item, without a write or with its last step.
LEMMA ItemDoneCustody ==
  ASSUME TypeOK, Custody, NEW p \in Procs, NEW f \in Paths
  PROVE  /\ RecordOK(p, f) => Custody'
         /\ SkipModified(p, f) => Custody'
         /\ RemoveFile(p, f) => Custody'
         /\ WriteFile(p, f) => Custody'
         /\ SnapshotFails(p, f) => Custody'
  <1>0. ProcessSafe(p) /\ \A g \in Paths : ItemSafe(p, g)
    BY DEF Custody
  <1>1. ASSUME RecordOK(p, f) \/ SkipModified(p, f) \/ RemoveFile(p, f) \/ WriteFile(p, f)
        PROVE  Custody'
    <2>1. OthersKept(p)
      BY <1>1 DEF RecordOK, SkipModified, RemoveFile, WriteFile, Go, Done, shared,
                  OthersKept, BackupMoves, PrivateSame, TypeOK, PrivateTypes
    <2>2. pc'[p] = "act" /\ UNCHANGED <<job, hookPlan, seen, seenSettings>>
      BY <1>1 DEF RecordOK, SkipModified, RemoveFile, WriteFile, Go, TypeOK, PrivateTypes
    <2>3. \A g \in Paths : plan'[p][g] \in {"none", plan[p][g]}
      BY <1>1 DEF RecordOK, SkipModified, RemoveFile, WriteFile, Done, TypeOK, PrivateTypes
    <2>4. OwnSafe(p)
      BY <1>0, <2>2, <2>3, ShrunkPlanSafe DEF OwnSafe, ProcessSafe
    <2> QED
      BY <2>1, <2>4, CustodyFromParts
  <1>2. ASSUME SnapshotFails(p, f) PROVE Custody'
    BY <1>2, ExitCustody DEF SnapshotFails, shared
  <1> QED
    BY <1>1, <1>2

\* Steps on settings.json and at the end of a list or a run.
LEMMA HookAndEndCustody ==
  ASSUME TypeOK, Custody, NEW p \in Procs
  PROVE  /\ KeepSettings(p) \/ TruncateSettings(p) \/ WriteSettings(p) => Custody'
         /\ FinishItems(p) \/ FinishRewire(p) => Custody'
         /\ FinishRestore(p) \/ Save(p) \/ SettingsUnreadable(p) \/ Crash(p) => Custody'
  <1>0. ProcessSafe(p) /\ \A g \in Paths : ItemSafe(p, g)
    BY DEF Custody
  <1>1. ASSUME KeepSettings(p) \/ TruncateSettings(p) \/ WriteSettings(p) PROVE Custody'
    <2>1. OthersKept(p)
      BY <1>1 DEF KeepSettings, TruncateSettings, WriteSettings, RecordHook, Go, shared,
                  OthersKept, BackupMoves, PrivateSame, TypeOK, PrivateTypes
    <2>2. pc'[p] \in {"act", "hookTorn"} /\ UNCHANGED <<job, plan, seen, seenSettings>>
      BY <1>1 DEF KeepSettings, TruncateSettings, WriteSettings, Go, TypeOK, PrivateTypes
    <2>3. seenSettings[p] # Torn
      BY <1>0, <1>1 DEF KeepSettings, TruncateSettings, WriteSettings, HookTurn, Go,
                        ProcessSafe
    <2>4. OwnSafe(p)
      BY <1>0, <2>2, <2>3, ShrunkPlanSafe DEF OwnSafe
    <2> QED
      BY <2>1, <2>4, CustodyFromParts
  <1>2. ASSUME FinishItems(p) \/ FinishRewire(p) PROVE Custody'
    <2>1. OthersKept(p)
      BY <1>2 DEF FinishItems, FinishRewire, Go, shared, OthersKept, BackupMoves,
                  PrivateSame, TypeOK, PrivateTypes
    <2>2. /\ plan'[p] = NoPlan /\ ~hookPlan'[p]
          /\ pc'[p] \in {"save", "host", "load"}
      BY <1>2 DEF FinishItems, FinishRewire, NothingPlanned, Go, TypeOK, PrivateTypes
    <2>3. OwnSafe(p)
      BY <2>2, NoPlanSafe DEF OwnSafe
    <2> QED
      BY <2>1, <2>3, CustodyFromParts
  <1>3. ASSUME FinishRestore(p) \/ Save(p) \/ SettingsUnreadable(p) \/ Crash(p)
        PROVE  Custody'
    BY <1>3, ExitCustody DEF FinishRestore, Save, SettingsUnreadable, Crash, shared
  <1> QED
    BY <1>1, <1>2, <1>3

(***************************************************************************)
(* The steps that lead to a write: one item is at work, the least planned. *)
(***************************************************************************)
LEMMA OneTurn ==
  ASSUME NEW p \in Procs, NEW f \in Paths, NEW g \in Paths, Turn(p, f), Turn(p, g)
  PROVE  f = g
  <1>1. f <= g /\ g <= f /\ f \in Nat /\ g \in Nat
    BY InstallAssumption DEF Turn
  <1> QED
    BY <1>1

\* The item at work stays the same while the plan does.
LEMMA TurnKept ==
  ASSUME NEW p \in Procs, NEW f \in Paths, UNCHANGED <<job, plan, hookPlan>>
  PROVE  Turn(p, f)' <=> Turn(p, f)
  BY DEF Turn, HookTurn

\* Snapshot, manifest and write steps keep custody.
LEMMA WritingCustody ==
  ASSUME TypeOK, Custody, NEW p \in Procs
  PROVE  /\ \A f \in Paths : Snapshot(p, f) => Custody'
         /\ TruncateManifest(p) => Custody'
         /\ \A f \in Paths : WriteManifest(p, f) => Custody'
         /\ \A f \in Paths : TruncateFile(p, f) => Custody'
  <1>0. /\ ProcessSafe(p) /\ \A g \in Paths : ItemSafe(p, g)
        /\ backups \in [BackupIds -> Backups] /\ nbackups \in 0..MaxBackups
        /\ MaxBackups \in Nat /\ seen[p] \in [Paths -> FileValues]
        /\ \A q \in Procs : backup[q] \in Nat /\ backup[q] <= nbackups
        /\ \A q \in Procs \ {p} : backup[q] # 0 => backup[q] # backup[p]
    BY InstallAssumption DEF Custody, ProcessSafe, TypeOK, SharedTypes, PrivateTypes
  <1>1. ASSUME NEW f \in Paths, Snapshot(p, f) PROVE Custody'
    <2>1. BackupDir(p) \in BackupIds
      BY <1>0, <1>1 DEF Snapshot, BackupDir, BackupIds
    <2>2. /\ Turn(p, f) /\ NeedsSnapshot(p, f)
          /\ pc'[p] = "archive" /\ UNCHANGED <<job, plan, hookPlan, seenSettings>>
          /\ backup'[p] = BackupDir(p) /\ backup'[p] # 0
          /\ seen'[p] = [seen[p] EXCEPT ![f] = disk[f]]
          /\ backups'[BackupDir(p)].files[f] = disk[f]
          /\ disk[f] # Absent
      BY <1>0, <1>1, <2>1
      DEF Snapshot, Go, BackupDir, BackupIds, Backups, TypeOK, PrivateTypes
    <2>3. OthersKept(p)
      <3>1. BackupMoves(p)
        BY <1>1, <2>2 DEF Snapshot, BackupMoves, BackupDir
      <3>2. ASSUME NEW q \in Procs \ {p} PROVE PrivateSame(q)
        BY <1>1 DEF Snapshot, Go, PrivateSame, TypeOK, PrivateTypes
      <3>3. ASSUME NEW q \in Procs \ {p}, backup[q] # 0
            PROVE  backups'[backup[q]] = backups[backup[q]]
        <4>1. backup[q] # BackupDir(p) /\ backup[q] \in BackupIds
          BY <1>0, <3>3 DEF BackupDir, BackupIds
        <4> QED
          BY <1>0, <1>1, <4>1 DEF Snapshot
      <3> QED
        BY <3>1, <3>2, <3>3 DEF OthersKept
    <2>4. ASSUME NEW g \in Paths PROVE ItemSafe(p, g)'
      <3>1. CASE g = f
        <4>1. plan'[p][g] \in {"update", "modified", "backup"}
          BY <2>2, <3>1 DEF NeedsSnapshot
        <4>2. Held(p, g)'
          BY <1>0, <2>2, <3>1 DEF Held
        <4>3. Shipped(p, g)' = Shipped(p, g)
          BY <2>2 DEF Shipped
        <4> QED
          BY <1>0, <2>2, <4>1, <4>2, <4>3 DEF ItemSafe
      <3>2. CASE g # f
        <4>1. ~Turn(p, g)'
          BY <2>2, <3>2, OneTurn, TurnKept
        <4>2. seen'[p][g] = seen[p][g] /\ Shipped(p, g)' = Shipped(p, g)
          BY <1>0, <2>2, <3>2 DEF Shipped
        <4> QED
          BY <1>0, <2>2, <4>1, <4>2 DEF ItemSafe
      <3> QED
        BY <3>1, <3>2
    <2> QED
      BY <1>0, <2>2, <2>3, <2>4, CustodyFromParts DEF OwnSafe, ProcessSafe
  <1>2. ASSUME TruncateManifest(p) PROVE Custody'
    <2>1. /\ pc[p] = "archive" /\ pc'[p] = "manifest"
          /\ UNCHANGED <<job, plan, hookPlan, seen, seenSettings, backup, nbackups>>
      BY <1>2 DEF TruncateManifest, Go, TypeOK, PrivateTypes
    <2>2. OthersKept(p)
      BY <1>0, <1>2, <2>1
      DEF TruncateManifest, Go, OthersKept, BackupMoves, PrivateSame, TypeOK, PrivateTypes
    <2>3. \A b \in BackupIds : backups'[b].files = backups[b].files
      BY <1>0, <1>2 DEF TruncateManifest, Backups
    <2>4. backup[p] # 0 => backup[p] \in BackupIds
      BY <1>0 DEF BackupIds
    <2>5. ASSUME NEW g \in Paths PROVE ItemSafe(p, g)'
      <3>1. Turn(p, g)' => Held(p, g)'
        BY <1>0, <2>1, <2>3, <2>4, TurnKept DEF ItemSafe, Held
      <3>2. Shipped(p, g)' = Shipped(p, g)
        BY <2>1 DEF Shipped
      <3> QED
        BY <1>0, <2>1, <3>1, <3>2, TurnKept DEF ItemSafe
    <2> QED
      BY <1>0, <2>1, <2>2, <2>5, CustodyFromParts DEF OwnSafe, ProcessSafe
  <1>3. ASSUME NEW f \in Paths, WriteManifest(p, f) PROVE Custody'
    <2>1. /\ pc[p] = "manifest" /\ pc'[p] = "ready" /\ Turn(p, f)
          /\ UNCHANGED <<job, plan, hookPlan, seen, seenSettings, backup, nbackups>>
      BY <1>3 DEF WriteManifest, Go, TypeOK, PrivateTypes
    <2>2. OthersKept(p)
      <3>1. BackupMoves(p) /\ \A q \in Procs \ {p} : PrivateSame(q)
        BY <1>3, <2>1 DEF WriteManifest, Go, BackupMoves, PrivateSame, TypeOK, PrivateTypes
      <3>2. ASSUME NEW q \in Procs \ {p}, backup[q] # 0
            PROVE  backups'[backup[q]] = backups[backup[q]]
        <4>1. backup[q] # backup[p] /\ backup[q] \in BackupIds
          BY <1>0, <3>2 DEF BackupIds
        <4> QED
          BY <1>0, <1>3, <4>1 DEF WriteManifest
      <3> QED
        BY <3>1, <3>2 DEF OthersKept
    <2>3. Held(p, f) /\ backup[p] \in BackupIds
      BY <1>0, <2>1 DEF ItemSafe, Held, BackupIds
    <2>4. Held(p, f)' /\ Listed(p, f)'
      BY <1>0, <1>3, <2>1, <2>3 DEF WriteManifest, Held, Listed, Backups
    <2>5. ASSUME NEW g \in Paths PROVE ItemSafe(p, g)'
      <3>1. Turn(p, g)' => g = f
        BY <2>1, OneTurn, TurnKept
      <3>2. Shipped(p, g)' = Shipped(p, g)
        BY <2>1 DEF Shipped
      <3> QED
        BY <1>0, <2>1, <2>4, <3>1, <3>2, TurnKept DEF ItemSafe
    <2> QED
      BY <1>0, <2>1, <2>2, <2>5, CustodyFromParts DEF OwnSafe, ProcessSafe
  <1>4. ASSUME NEW f \in Paths, TruncateFile(p, f) PROVE Custody'
    <2>1. /\ Turn(p, f) /\ pc'[p] = "torn"
          /\ \/ plan[p][f] \in {"create", "restore"}
             \/ pc[p] = "ready" /\ plan[p][f] \in {"update", "modified"}
          /\ UNCHANGED <<job, plan, hookPlan, seen, seenSettings, backup, nbackups, backups>>
      BY <1>4 DEF TruncateFile, TypeOK, PrivateTypes
    <2>2. OthersKept(p)
      BY <1>4, <2>1 DEF TruncateFile, OthersKept, BackupMoves, PrivateSame,
                        TypeOK, PrivateTypes
    <2>3. ASSUME NEW g \in Paths PROVE ItemSafe(p, g)'
      <3>1. Turn(p, g)' => g = f
        BY <2>1, OneTurn, TurnKept
      <3>2. /\ Shipped(p, g)' = Shipped(p, g)
            /\ Held(p, g)' = Held(p, g) /\ Listed(p, g)' = Listed(p, g)
        BY <2>1 DEF Shipped, Held, Listed
      <3> QED
        BY <1>0, <2>1, <3>1, <3>2 DEF ItemSafe
    <2> QED
      BY <1>0, <2>1, <2>2, <2>3, CustodyFromParts DEF OwnSafe, ProcessSafe
  <1> QED
    BY <1>1, <1>2, <1>3, <1>4

\* Edits and upgrades keep custody.
LEMMA IdleWorldCustody ==
  ASSUME TypeOK, Custody, UNCHANGED <<private, backups, nbackups>>
  PROVE  Custody'
  BY DEF private, Custody, ProcessSafe, ItemSafe, Held, Listed, Turn, HookTurn, Shipped, NoPlan

\* Initially no process has planned anything or holds a backup.
THEOREM CustodyInit == Init => Custody
  <1> SUFFICES ASSUME Init PROVE Custody
    OBVIOUS
  <1>1. ASSUME NEW p \in Procs PROVE ProcessSafe(p)
    BY DEF Init, ProcessSafe
  <1>2. ASSUME NEW p \in Procs, NEW f \in Paths PROVE ItemSafe(p, f)
    BY DEF Init, NoPlan, ItemSafe
  <1> QED
    BY <1>1, <1>2 DEF Custody

\* Every step keeps custody.
THEOREM CustodyStep == TypeOK /\ Custody /\ [Next]_vars => Custody'
  <1> SUFFICES ASSUME TypeOK, Custody, [Next]_vars PROVE Custody'
    OBVIOUS
  <1>1. ASSUME NEW p \in Procs, NEW f \in Paths, FileStep(p, f) PROVE Custody'
    BY <1>1, ItemDoneCustody, WritingCustody DEF FileStep
  <1>2. ASSUME NEW p \in Procs, Step(p) PROVE Custody'
    BY <1>1, <1>2, PlanningCustody, WritingCustody, HookAndEndCustody DEF Step
  <1>3. ASSUME NEW p \in Procs, Begin(p) PROVE Custody'
    BY <1>3, BeginCustody
  <1>4. ASSUME NEW p \in Procs, Crash(p) PROVE Custody'
    BY <1>4, HookAndEndCustody
  <1>5. CASE User
    BY <1>5, IdleWorldCustody DEF User, EditFile, EditSettings, Upgrade
  <1>6. CASE UNCHANGED vars
    BY <1>6, IdleWorldCustody DEF vars, shared
  <1> QED
    BY <1>2, <1>3, <1>4, <1>5, <1>6 DEF Next

(***************************************************************************)
(* TypeOK holds in every reachable state.                                  *)
(***************************************************************************)
THEOREM TypeCorrect == Spec => []TypeOK
  <1>1. Init => TypeOK /\ Custody
    BY TypeInit, CustodyInit
  <1>2. TypeOK /\ Custody /\ [Next]_vars => (TypeOK /\ Custody)'
    BY TypeStep, CustodyStep
  <1> QED
    BY <1>1, <1>2, PTL DEF Spec

(***************************************************************************)
(* Custody holds in every reachable state: whatever any number of          *)
(* processes, users, crashes and releases do, a process is only ever about *)
(* to overwrite what it found absent, what tpp shipped, or what lies in a  *)
(* listed snapshot of its own.                                             *)
(***************************************************************************)
THEOREM CustodyCorrect == Spec => []Custody
  <1>1. Init => TypeOK /\ Custody
    BY TypeInit, CustodyInit
  <1>2. TypeOK /\ Custody /\ [Next]_vars => (TypeOK /\ Custody)'
    BY TypeStep, CustodyStep
  <1> QED
    BY <1>1, <1>2, PTL DEF Spec

(***************************************************************************)
(* OverwritesAreSnapshotted follows: only three steps of a process change  *)
(* a file, and Custody says of each how its item was planned.              *)
(***************************************************************************)
LEMMA WriteIsSafe ==
  ASSUME TypeOK, Custody, NEW q \in Procs, NEW g \in Paths,
         TruncateFile(q, g) \/ WriteFile(q, g) \/ RemoveFile(q, g),
         NEW p \in Procs, NEW f \in Paths
  PROVE  SafeOverwrite(p, f)
  <1> SUFFICES ASSUME Acts(p), job[p].op # "restore",
                      disk[f] \in UserContents, disk'[f] # disk[f]
               PROVE  seen[p][f] # disk[f] \/ (Held(p, f) /\ Listed(p, f))
    BY DEF SafeOverwrite
  <1>1. p = q
    BY DEF Acts, TruncateFile, WriteFile, RemoveFile, Go, Done, TypeOK, PrivateTypes
  <1>2. f = g
    BY DEF TruncateFile, WriteFile, RemoveFile, TypeOK, SharedTypes
  <1>3. ItemSafe(p, f) /\ Turn(p, f)
    BY <1>1, <1>2 DEF Custody, TruncateFile, WriteFile, RemoveFile
  <1>4. disk[f] \notin Digests \cup {Absent}
    BY InstallAssumption DEF Contents
  <1>5. CASE TruncateFile(q, g)
    BY <1>1, <1>2, <1>3, <1>4, <1>5 DEF TruncateFile, ItemSafe
  <1>6. CASE WriteFile(q, g)
    BY <1>1, <1>2, <1>3, <1>4, <1>6 DEF WriteFile, Go, ItemSafe
  <1>7. CASE RemoveFile(q, g)
    BY <1>1, <1>2, <1>3, <1>4, <1>7 DEF RemoveFile, ItemSafe
  <1> QED
    BY <1>5, <1>6, <1>7

\* Every other step of a process leaves the managed files alone.
LEMMA OtherStepsKeepFiles ==
  ASSUME TypeOK, [Next]_vars, NEW p \in Procs, Acts(p),
         ~ \E q \in Procs, g \in Paths :
             TruncateFile(q, g) \/ WriteFile(q, g) \/ RemoveFile(q, g)
  PROVE  disk' = disk
  <1>1. ASSUME NEW q \in Procs, Begin(q) PROVE disk' = disk
    BY <1>1 DEF Begin, BeginSync, BeginRepair, BeginUninstall, BeginFeature,
                BeginRestore, shared
  <1>2. ASSUME NEW q \in Procs, NEW g \in Paths, FileStep(q, g) PROVE disk' = disk
    BY <1>2 DEF FileStep, RecordOK, SkipModified, Snapshot, WriteManifest,
                SnapshotFails, shared
  <1>3. ASSUME NEW q \in Procs, Step(q) PROVE disk' = disk
    BY <1>2, <1>3 DEF Step, Load, PlanHost, PlanUninstall, RefuseUninstall,
                      TruncateManifest, RewireLoad, KeepSettings, TruncateSettings,
                      WriteSettings, SettingsUnreadable, FinishItems, FinishRewire,
                      FinishRestore, Save, shared
  <1>4. ASSUME NEW q \in Procs, Crash(q) PROVE disk' = disk
    BY <1>4 DEF Crash, shared
  <1>5. ~User /\ ~UNCHANGED vars
    BY DEF Acts, User, EditFile, EditSettings, Upgrade, vars, private
  <1> QED
    BY <1>1, <1>3, <1>4, <1>5 DEF Next

(***************************************************************************)
(* No run of sync, repair or uninstall ever destroys a content of a user's *)
(* that it saw and did not put into a listed snapshot first.               *)
(***************************************************************************)
THEOREM OverwritesSnapshotted == Spec => OverwritesAreSnapshotted
  <1>1. Spec => [](TypeOK /\ Custody)
    BY TypeCorrect, CustodyCorrect, PTL
  <1>2. TypeOK /\ Custody /\ [Next]_vars
        => [\A p \in Procs, f \in Paths : SafeOverwrite(p, f)]_vars
    <2> SUFFICES ASSUME TypeOK, Custody, [Next]_vars,
                        NEW p \in Procs, NEW f \in Paths
                 PROVE  SafeOverwrite(p, f)
      OBVIOUS
    <2>1. CASE \E q \in Procs, g \in Paths :
                 TruncateFile(q, g) \/ WriteFile(q, g) \/ RemoveFile(q, g)
      BY <2>1, WriteIsSafe
    <2>2. CASE ~ \E q \in Procs, g \in Paths :
                   TruncateFile(q, g) \/ WriteFile(q, g) \/ RemoveFile(q, g)
      BY <2>2, OtherStepsKeepFiles DEF SafeOverwrite
    <2> QED
      BY <2>1, <2>2
  <1> QED
    BY <1>1, <1>2, PTL DEF Spec, OverwritesAreSnapshotted
-----------------------------------------------------------------------------
(***************************************************************************)
(* Snapshots are kept.  A run plans each host once and a path is listed    *)
(* when it is about to be replaced, so that a run is never again at work   *)
(* on a path that its backup lists.                                        *)
(***************************************************************************)
\* What a run has listed is behind it, or is the file it is about to replace.
Behind(p) ==
  backup[p] # 0 => \A f \in backups[backup[p]].entries :
    /\ HostOf[f] \notin left[p]
    /\ plan[p][f] # "none" => pc[p] \in {"ready", "torn"} /\ Turn(p, f)

\* A run takes its backup directory while it works on items, and plans each host once.
Ordered(p) ==
  /\ pc[p] \in {"idle", "load", "rewire", "classify"} \/ job[p].op = "rewire" => backup[p] = 0
  /\ job[p].op = "rewire" => plan[p] = NoPlan
  /\ pc[p] \in {"load", "host"} => job[p].op # "rewire"
  /\ pc[p] = "classify" => job[p].op = "uninstall"
  /\ pc[p] = "idle" \/ job[p].op = "uninstall" => left[p] = {}
  /\ \A f \in Paths : plan[p][f] # "none" => HostOf[f] \notin left[p]

\* Directories not yet created list nothing.
Unused == \A b \in BackupIds : b > nbackups => backups[b].entries = {}

Shelved == Unused /\ \A p \in Procs : Ordered(p) /\ Behind(p)

\* What a step of p leaves of another process, but for its backup.
OthersSame(p) == \A q \in Procs \ {p} : PrivateSame(q) /\ left'[q] = left[q]

\* A process that did not move and whose backup lists the same is as before.
LEMMA OthersShelved ==
  ASSUME Shelved, NEW p \in Procs, OthersSame(p),
         \A q \in Procs \ {p} :
           backup[q] # 0 => backups'[backup[q]].entries = backups[backup[q]].entries
  PROVE  \A q \in Procs \ {p} : Ordered(q)' /\ Behind(q)'
  <1> SUFFICES ASSUME NEW q \in Procs \ {p} PROVE Ordered(q)' /\ Behind(q)'
    OBVIOUS
  <1>1. /\ PrivateSame(q) /\ left'[q] = left[q] /\ Ordered(q) /\ Behind(q)
        /\ backup[q] # 0 => backups'[backup[q]].entries = backups[backup[q]].entries
    BY DEF OthersSame, Shelved
  <1>2. Ordered(q)'
    BY <1>1 DEF Ordered, PrivateSame, NoPlan
  <1>3. \A f \in Paths : Turn(q, f)' <=> Turn(q, f)
    BY <1>1 DEF PrivateSame, Turn, HookTurn
  <1>4. Behind(q)'
    <2>1. ASSUME backup[q] # 0, NEW f \in backups[backup[q]].entries
          PROVE  /\ HostOf[f] \notin left'[q]
                 /\ plan'[q][f] # "none" => pc'[q] \in {"ready", "torn"} /\ Turn(q, f)'
      <3>1. Turn(q, f) => Turn(q, f)'
        BY <1>1 DEF PrivateSame, Turn, HookTurn
      <3> QED
        BY <1>1, <2>1, <3>1 DEF Behind, PrivateSame
    <2> QED
      BY <1>1, <2>1 DEF Behind, PrivateSame
  <1> QED
    BY <1>2, <1>4

\* A step of p that touches no backup leaves p to be looked at.
LEMMA QuietShelved ==
  ASSUME Shelved, NEW p \in Procs, OthersSame(p), UNCHANGED <<backups, nbackups>>,
         Ordered(p)', Behind(p)'
  PROVE  Shelved'
  <1>1. \A q \in Procs \ {p} : Ordered(q)' /\ Behind(q)'
    BY OthersShelved
  <1>2. Unused'
    BY DEF Shelved, Unused
  <1> QED
    BY <1>1, <1>2 DEF Shelved

\* A run that holds no backup has listed nothing.
LEMMA NoBackupBehind == ASSUME NEW p \in Procs, backup'[p] = 0 PROVE Behind(p)'
  BY DEF Behind

\* A run that goes on with fewer items, outside of a write, stays behind them ...
LEMMA FewerBehind ==
  ASSUME NEW p \in Procs, Behind(p), pc[p] \notin {"ready", "torn"},
         backup'[p] = backup[p], backups' = backups, left'[p] \subseteq left[p],
         \A f \in backups[backup[p]].entries : plan'[p][f] \in {"none", plan[p][f]}
  PROVE  Behind(p)'
  BY DEF Behind

\* ... and in order.
LEMMA FewerOrdered ==
  ASSUME TypeOK, TypeOK', NEW p \in Procs, Ordered(p),
         pc'[p] \notin {"idle", "load", "rewire", "classify"},
         pc'[p] = "host" => job[p].op # "rewire",
         job'[p] = job[p], backup'[p] = backup[p], left'[p] = left[p],
         \A f \in Paths : plan'[p][f] \in {"none", plan[p][f]}
  PROVE  Ordered(p)'
  <1>1. ASSUME job[p].op = "rewire" PROVE plan'[p] = NoPlan
    <2>1. \A f \in Paths : plan'[p][f] = "none"
      BY <1>1 DEF Ordered, NoPlan
    <2>2. plan'[p] \in [Paths -> Classes]
      BY DEF TypeOK, PrivateTypes
    <2> QED
      BY <2>1, <2>2 DEF NoPlan
  <1>2. NoPlan' = NoPlan
    BY DEF NoPlan
  <1> QED
    BY <1>1, <1>2 DEF Ordered

\* However a process ends.
LEMMA ExitShelved ==
  ASSUME TypeOK, Shelved, NEW p \in Procs, Exit(p), UNCHANGED <<backups, nbackups>>
  PROVE  Shelved'
  <1>1. OthersSame(p)
    BY DEF Exit, OthersSame, PrivateSame, TypeOK, PrivateTypes
  <1>2. /\ pc'[p] = "idle" /\ job'[p] = NoJob /\ left'[p] = {} /\ plan'[p] = NoPlan
        /\ backup'[p] = 0
    BY DEF Exit, TypeOK, PrivateTypes
  <1>3. NoJob.op = "none" /\ NoPlan' = NoPlan
    BY DEF NoJob, NoPlan
  <1>4. Ordered(p)'
    BY <1>2, <1>3 DEF Ordered
  <1> QED
    BY <1>1, <1>2, <1>4, NoBackupBehind, QuietShelved

\* Starting any operation.
LEMMA BeginShelved ==
  ASSUME TypeOK, Custody, Shelved, NEW p \in Procs, Begin(p)
  PROVE  Shelved'
  <1>0. /\ pc[p] = "idle" /\ plan[p] = NoPlan /\ left[p] = {} /\ backup[p] = 0
        /\ \A f \in Paths : NoPlan[f] = "none"
        /\ NoPlan' = NoPlan
    BY DEF Begin, BeginSync, BeginRepair, BeginUninstall, BeginFeature, BeginRestore, Go,
           Custody, ProcessSafe, Shelved, Ordered, NoPlan
  <1>1. ASSUME NEW force \in BOOLEAN, NEW hs \in SUBSET Hosts, BeginSync(p, force, hs)
        PROVE  Shelved'
    <2>1. OthersSame(p) /\ UNCHANGED <<backups, nbackups>>
      BY <1>1 DEF BeginSync, Go, shared, OthersSame, PrivateSame, TypeOK, PrivateTypes
    <2>2. pc'[p] = "load" /\ job'[p].op = "sync" /\ plan' = plan /\ backup' = backup
      BY <1>1 DEF BeginSync, Go, NoJob, TypeOK, PrivateTypes
    <2>3. Ordered(p)'
      BY <1>0, <2>2 DEF Ordered
    <2> QED
      BY <1>0, <2>1, <2>2, <2>3, NoBackupBehind, QuietShelved
  <1>2. ASSUME NEW force \in BOOLEAN, BeginRepair(p, force) PROVE Shelved'
    <2>1. OthersSame(p) /\ UNCHANGED <<backups, nbackups>>
      BY <1>2 DEF BeginRepair, Go, shared, OthersSame, PrivateSame, TypeOK, PrivateTypes
    <2>2. /\ \/ pc'[p] = "rewire" /\ job'[p].op = "rewire"
             \/ pc'[p] = "load" /\ job'[p].op = "sync"
          /\ plan' = plan /\ backup' = backup
      BY <1>2 DEF BeginRepair, Go, NoJob, TypeOK, PrivateTypes
    <2>3. Ordered(p)'
      BY <1>0, <2>2 DEF Ordered
    <2> QED
      BY <1>0, <2>1, <2>2, <2>3, NoBackupBehind, QuietShelved
  <1>3. ASSUME NEW force \in BOOLEAN, NEW orphans \in BOOLEAN,
               BeginUninstall(p, force, orphans)
        PROVE  Shelved'
    <2>1. OthersSame(p) /\ UNCHANGED <<backups, nbackups>>
      BY <1>3 DEF BeginUninstall, Go, shared, OthersSame, PrivateSame, TypeOK, PrivateTypes
    <2>2. /\ pc'[p] = "load" /\ job'[p].op = "uninstall" /\ plan' = plan
          /\ backup' = backup /\ left' = left
      BY <1>3 DEF BeginUninstall, Go, NoJob, TypeOK, PrivateTypes
    <2>3. Ordered(p)'
      BY <1>0, <2>2 DEF Ordered
    <2> QED
      BY <1>0, <2>1, <2>2, <2>3, NoBackupBehind, QuietShelved
  <1>4. ASSUME NEW enabled \in BOOLEAN, BeginFeature(p, enabled) PROVE Shelved'
    <2>1. OthersSame(p) /\ UNCHANGED <<backups, nbackups>>
      BY <1>4 DEF BeginFeature, Go, shared, OthersSame, PrivateSame, TypeOK, PrivateTypes
    <2>2. /\ pc'[p] = "save" /\ job'[p].op = "feature" /\ plan' = plan
          /\ backup' = backup /\ left' = left
      BY <1>4 DEF BeginFeature, Go, NoJob, TypeOK, PrivateTypes
    <2>3. Ordered(p)'
      BY <1>0, <2>2 DEF Ordered
    <2> QED
      BY <1>0, <2>1, <2>2, <2>3, NoBackupBehind, QuietShelved
  <1>5. ASSUME NEW b \in BackupIds, BeginRestore(p, b) PROVE Shelved'
    <2>1. OthersSame(p) /\ UNCHANGED <<backups, nbackups>>
      BY <1>5 DEF BeginRestore, Go, shared, OthersSame, PrivateSame, TypeOK, PrivateTypes
    <2>2. /\ pc'[p] = "act" /\ job'[p].op = "restore"
          /\ backup' = backup /\ left' = left
      BY <1>5 DEF BeginRestore, Go, NoJob, TypeOK, PrivateTypes
    <2>3. Ordered(p)'
      BY <1>0, <2>2 DEF Ordered
    <2> QED
      BY <1>0, <2>1, <2>2, <2>3, NoBackupBehind, QuietShelved
  <1> QED
    BY <1>1, <1>2, <1>3, <1>4, <1>5 DEF Begin

\* Planning: a run that plans a host has listed paths of other hosts only, and
\* one that plans an uninstall has listed nothing.
LEMMA PlanningShelved ==
  ASSUME TypeOK, TypeOK', Custody, Shelved, NEW p \in Procs
  PROVE  /\ Load(p) => Shelved'
         /\ \A h \in Hosts : PlanHost(p, h) => Shelved'
         /\ PlanUninstall(p) => Shelved'
         /\ RefuseUninstall(p) => Shelved'
         /\ RewireLoad(p) => Shelved'
  <1>0. Ordered(p) /\ Behind(p) /\ NoPlan' = NoPlan
    BY DEF Shelved, NoPlan
  <1>1. ASSUME Load(p) PROVE Shelved'
    <2>1. OthersSame(p) /\ UNCHANGED <<backups, nbackups>>
      BY <1>1 DEF Load, shared, OthersSame, PrivateSame, TypeOK, PrivateTypes
    <2>2. /\ pc'[p] = IF job[p].op = "uninstall" THEN "classify" ELSE "host"
          /\ pc[p] = "load"
          /\ UNCHANGED <<job, left, plan, backup>>
      BY <1>1 DEF Load, TypeOK, PrivateTypes
    <2>3. backup[p] = 0
      BY <1>0, <2>2 DEF Ordered
    <2>4. Ordered(p)'
      BY <1>0, <2>2, <2>3 DEF Ordered
    <2> QED
      BY <2>1, <2>2, <2>3, <2>4, NoBackupBehind, QuietShelved
  <1>2. ASSUME NEW h \in Hosts, PlanHost(p, h) PROVE Shelved'
    <2>1. OthersSame(p) /\ UNCHANGED <<backups, nbackups>>
      BY <1>2 DEF PlanHost, Go, shared, OthersSame, PrivateSame, TypeOK, PrivateTypes
    <2>2. /\ pc[p] = "host" /\ pc'[p] = "act" /\ h \in left[p] /\ left'[p] = left[p] \ {h}
          /\ UNCHANGED <<job, backup>>
          /\ \A f \in Paths : HostOf[f] # h => plan'[p][f] = "none"
      BY <1>2 DEF PlanHost, Go, TypeOK, PrivateTypes
    <2>3. Ordered(p)'
      BY <1>0, <2>2 DEF Ordered
    <2>4. Behind(p)'
      <3> SUFFICES ASSUME backup[p] # 0, NEW f \in backups[backup[p]].entries
                   PROVE  HostOf[f] \notin left'[p] /\ plan'[p][f] = "none"
        BY <2>1, <2>2 DEF Behind
      <3>1. HostOf[f] \notin left[p]
        BY <1>0 DEF Behind
      <3>2. f \in Paths
        BY InstallAssumption DEF TypeOK, SharedTypes, PrivateTypes, Backups, BackupIds
      <3> QED
        BY <2>2, <3>1, <3>2
    <2> QED
      BY <2>1, <2>3, <2>4, QuietShelved
  <1>3. ASSUME PlanUninstall(p) PROVE Shelved'
    <2>1. OthersSame(p) /\ UNCHANGED <<backups, nbackups>>
      BY <1>3 DEF PlanUninstall, Go, shared, OthersSame, PrivateSame, TypeOK, PrivateTypes
    <2>2. /\ pc[p] = "classify" /\ pc'[p] = "act" /\ UNCHANGED <<job, left, backup>>
      BY <1>3 DEF PlanUninstall, Go, TypeOK, PrivateTypes
    <2>3. job[p].op = "uninstall" /\ left[p] = {} /\ backup[p] = 0
      BY <1>0, <2>2 DEF Ordered
    <2>4. Ordered(p)'
      BY <2>2, <2>3 DEF Ordered
    <2> QED
      BY <2>1, <2>2, <2>3, <2>4, NoBackupBehind, QuietShelved
  <1>4. ASSUME RefuseUninstall(p) PROVE Shelved'
    BY <1>4, ExitShelved DEF RefuseUninstall, shared
  <1>5. ASSUME RewireLoad(p) PROVE Shelved'
    <2>1. OthersSame(p) /\ UNCHANGED <<backups, nbackups>>
      BY <1>5 DEF RewireLoad, Go, shared, OthersSame, PrivateSame, TypeOK, PrivateTypes
    <2>2. /\ pc[p] = "rewire" /\ pc'[p] = "act" /\ UNCHANGED <<job, left, plan, backup>>
      BY <1>5 DEF RewireLoad, Go, TypeOK, PrivateTypes
    <2>3. Ordered(p)' /\ backup[p] = 0
      BY <1>0, <2>2, FewerOrdered DEF Ordered
    <2> QED
      BY <2>1, <2>2, <2>3, NoBackupBehind, QuietShelved
  <1> QED
    BY <1>1, <1>2, <1>3, <1>4, <1>5

\* Steps on one file that touch no backup.
LEMMA FilesShelved ==
  ASSUME TypeOK, TypeOK', Custody, Shelved, NEW p \in Procs, NEW f \in Paths
  PROVE  /\ RecordOK(p, f) \/ SkipModified(p, f) => Shelved'
         /\ WriteFile(p, f) \/ RemoveFile(p, f) => Shelved'
         /\ TruncateFile(p, f) => Shelved'
         /\ SnapshotFails(p, f) => Shelved'
  <1>0. Ordered(p) /\ Behind(p)
    BY DEF Shelved
  <1>e. backup[p] # 0 => backups[backup[p]].entries \subseteq Paths
    BY InstallAssumption DEF TypeOK, SharedTypes, PrivateTypes, Backups, BackupIds
  <1>1. ASSUME RecordOK(p, f) \/ SkipModified(p, f) \/ WriteFile(p, f) \/ RemoveFile(p, f)
        PROVE  Shelved'
    <2>1. OthersSame(p) /\ UNCHANGED <<backups, nbackups>>
      BY <1>1 DEF RecordOK, SkipModified, WriteFile, RemoveFile, Go, Done, shared, OthersSame,
                  PrivateSame, TypeOK, PrivateTypes
    <2>2. /\ pc'[p] = "act" /\ UNCHANGED <<job, left, backup>> /\ Turn(p, f)
          /\ plan'[p] = [plan[p] EXCEPT ![f] = "none"]
      BY <1>1 DEF RecordOK, SkipModified, WriteFile, RemoveFile, Go, Done, TypeOK, PrivateTypes
    <2>3. \A g \in Paths : plan'[p][g] = IF g = f THEN "none" ELSE plan[p][g]
      BY <2>2 DEF TypeOK, PrivateTypes
    <2>4. Ordered(p)'
      BY <1>0, <2>2, <2>3, FewerOrdered
    <2>5. Behind(p)'
      <3> SUFFICES ASSUME backup[p] # 0, NEW g \in backups[backup[p]].entries
                   PROVE  HostOf[g] \notin left[p] /\ plan'[p][g] = "none"
        BY <2>1, <2>2 DEF Behind
      <3>1. g \in Paths /\ HostOf[g] \notin left[p] /\ (plan[p][g] # "none" => Turn(p, g))
        BY <1>0, <1>e DEF Behind
      <3>2. plan[p][g] # "none" => g = f
        BY <2>2, <3>1, OneTurn
      <3> QED
        BY <2>3, <3>1, <3>2
    <2> QED
      BY <2>1, <2>4, <2>5, QuietShelved
  <1>2. ASSUME TruncateFile(p, f) PROVE Shelved'
    <2>1. OthersSame(p) /\ UNCHANGED <<backups, nbackups>>
      BY <1>2 DEF TruncateFile, OthersSame, PrivateSame, TypeOK, PrivateTypes
    <2>2. pc'[p] = "torn" /\ UNCHANGED <<job, left, backup, plan, hookPlan>>
      BY <1>2 DEF TruncateFile, TypeOK, PrivateTypes
    <2>3. Ordered(p)'
      BY <1>0, <2>2, FewerOrdered
    <2>4. Behind(p)'
      <3> SUFFICES ASSUME backup[p] # 0, NEW g \in backups[backup[p]].entries
                   PROVE  HostOf[g] \notin left[p] /\ (plan[p][g] # "none" => Turn(p, g)')
        BY <2>1, <2>2 DEF Behind
      <3>1. g \in Paths /\ HostOf[g] \notin left[p] /\ (plan[p][g] # "none" => Turn(p, g))
        BY <1>0, <1>e DEF Behind
      <3> QED
        BY <2>2, <3>1, TurnKept
    <2> QED
      BY <2>1, <2>3, <2>4, QuietShelved
  <1>3. ASSUME SnapshotFails(p, f) PROVE Shelved'
    BY <1>3, ExitShelved DEF SnapshotFails, shared
  <1> QED
    BY <1>1, <1>2, <1>3

\* Steps on settings.json, and the ends of lists and runs.
LEMMA HookAndEndShelved ==
  ASSUME TypeOK, TypeOK', Custody, Shelved, NEW p \in Procs
  PROVE  /\ KeepSettings(p) \/ TruncateSettings(p) \/ WriteSettings(p) => Shelved'
         /\ FinishItems(p) => Shelved'
         /\ FinishRewire(p) => Shelved'
         /\ FinishRestore(p) \/ Save(p) \/ SettingsUnreadable(p) \/ Crash(p) => Shelved'
  <1>0. Ordered(p) /\ Behind(p) /\ NoPlan' = NoPlan
    BY DEF Shelved, NoPlan
  <1>1. ASSUME KeepSettings(p) \/ TruncateSettings(p) \/ WriteSettings(p) PROVE Shelved'
    <2>1. OthersSame(p) /\ UNCHANGED <<backups, nbackups>>
      BY <1>1 DEF KeepSettings, TruncateSettings, WriteSettings, RecordHook, Go, shared,
                  OthersSame, PrivateSame, TypeOK, PrivateTypes
    <2>2. /\ pc[p] \in {"act", "hookTorn"} /\ pc'[p] \in {"act", "hookTorn"}
          /\ UNCHANGED <<job, left, plan, backup>>
      BY <1>1 DEF KeepSettings, TruncateSettings, WriteSettings, Go, TypeOK, PrivateTypes
    <2>3. Ordered(p)' /\ Behind(p)'
      BY <1>0, <2>1, <2>2, FewerOrdered, FewerBehind
    <2> QED
      BY <2>1, <2>3, QuietShelved
  <1>2. ASSUME FinishItems(p) PROVE Shelved'
    <2>1. OthersSame(p) /\ UNCHANGED <<backups, nbackups>>
      BY <1>2 DEF FinishItems, Go, shared, OthersSame, PrivateSame, TypeOK, PrivateTypes
    <2>2. /\ pc[p] = "act" /\ pc'[p] \in {"save", "host"} /\ job[p].op # "rewire"
          /\ UNCHANGED <<job, left, plan, backup>>
      BY <1>2 DEF FinishItems, Go, TypeOK, PrivateTypes
    <2>3. Ordered(p)' /\ Behind(p)'
      BY <1>0, <2>1, <2>2, FewerOrdered, FewerBehind
    <2> QED
      BY <2>1, <2>3, QuietShelved
  <1>3. ASSUME FinishRewire(p) PROVE Shelved'
    <2>1. OthersSame(p) /\ UNCHANGED <<backups, nbackups>>
      BY <1>3 DEF FinishRewire, Go, shared, OthersSame, PrivateSame, TypeOK, PrivateTypes
    <2>2. /\ job[p].op = "rewire" /\ pc'[p] = "load" /\ job'[p].op = "sync"
          /\ UNCHANGED <<left, plan, backup>>
      BY <1>3 DEF FinishRewire, Go, TypeOK, PrivateTypes, Jobs
    <2>3. Ordered(p)' /\ backup[p] = 0
      BY <1>0, <2>2 DEF Ordered
    <2> QED
      BY <2>1, <2>2, <2>3, NoBackupBehind, QuietShelved
  <1>4. ASSUME FinishRestore(p) \/ Save(p) \/ SettingsUnreadable(p) \/ Crash(p)
        PROVE  Shelved'
    BY <1>4, ExitShelved DEF FinishRestore, Save, SettingsUnreadable, Crash, shared
  <1> QED
    BY <1>1, <1>2, <1>3, <1>4

\* The three steps of a snapshot.
LEMMA BackupShelved ==
  ASSUME TypeOK, TypeOK', Custody, Shelved, NEW p \in Procs
  PROVE  /\ \A f \in Paths : Snapshot(p, f) => Shelved'
         /\ TruncateManifest(p) => Shelved'
         /\ \A f \in Paths : WriteManifest(p, f) => Shelved'
  <1>0. /\ Ordered(p) /\ Behind(p) /\ Unused
        /\ backups \in [BackupIds -> Backups] /\ nbackups \in Nat /\ MaxBackups \in Nat
        /\ \A q \in Procs : backup[q] \in 0..MaxBackups /\ backup[q] <= nbackups
        /\ \A q \in Procs \ {p} : backup[q] # 0 => backup[q] # backup[p]
    BY InstallAssumption DEF Shelved, Custody, ProcessSafe, TypeOK, SharedTypes, PrivateTypes
  <1>b. \A q \in Procs : backup[q] # 0 => backup[q] \in BackupIds
    BY <1>0 DEF BackupIds
  <1>1. ASSUME NEW f \in Paths, Snapshot(p, f) PROVE Shelved'
    <2>1. OthersSame(p)
      BY <1>1 DEF Snapshot, Go, OthersSame, PrivateSame, TypeOK, PrivateTypes
    <2>2. /\ pc[p] = "act" /\ pc'[p] = "archive" /\ UNCHANGED <<job, left, plan>>
          /\ backup'[p] = BackupDir(p) /\ nbackups' = IF backup[p] = 0 THEN nbackups + 1 ELSE nbackups
          /\ Turn(p, f) /\ NeedsSnapshot(p, f)
      BY <1>1 DEF Snapshot, Go, TypeOK, PrivateTypes
    <2>3. \A b \in BackupIds : backups'[b].entries = backups[b].entries
      BY <1>0, <1>1 DEF Snapshot, Backups
    <2>4. \A q \in Procs \ {p} : Ordered(q)' /\ Behind(q)'
      BY <1>b, <2>1, <2>3, OthersShelved
    <2>5. Unused'
      <3>1. nbackups' = nbackups \/ nbackups' = nbackups + 1
        BY <2>2
      <3>2. \A b \in BackupIds : b > nbackups' => b > nbackups
        BY <1>0, <3>1 DEF BackupIds
      <3> QED
        BY <1>0, <2>3, <3>2 DEF Unused
    <2>6. job[p].op # "rewire"
      BY <1>0, <2>2 DEF Ordered, Turn, NoPlan
    <2>7. Ordered(p)'
      BY <1>0, <2>2, <2>6 DEF Ordered
    <2>8. Behind(p)'
      <3> SUFFICES ASSUME BackupDir(p) # 0, NEW g \in backups'[BackupDir(p)].entries
                   PROVE  HostOf[g] \notin left[p] /\ plan[p][g] = "none"
        BY <2>2 DEF Behind
      <3>1. CASE backup[p] = 0
        <4>1. nbackups + 1 \in BackupIds /\ nbackups + 1 > nbackups
          BY <1>0, <1>1, <3>1 DEF Snapshot, BackupIds, TypeOK, SharedTypes
        <4>2. backups'[nbackups + 1].entries = {}
          BY <1>0, <2>3, <4>1 DEF Unused
        <4> QED
          BY <3>1, <4>2 DEF BackupDir
      <3>2. CASE backup[p] # 0
        <4>1. g \in backups[backup[p]].entries
          BY <1>b, <2>3, <3>2 DEF BackupDir
        <4> QED
          BY <1>0, <2>2, <3>2, <4>1 DEF Behind
      <3> QED
        BY <3>1, <3>2
    <2> QED
      BY <2>4, <2>5, <2>7, <2>8 DEF Shelved
  <1>2. ASSUME TruncateManifest(p) PROVE Shelved'
    <2>1. OthersSame(p)
      BY <1>2 DEF TruncateManifest, Go, OthersSame, PrivateSame, TypeOK, PrivateTypes
    <2>2. /\ pc[p] = "archive" /\ pc'[p] = "manifest"
          /\ UNCHANGED <<job, left, plan, backup, nbackups>>
      BY <1>2 DEF TruncateManifest, Go, TypeOK, PrivateTypes
    <2>3. \A b \in BackupIds : backups'[b].entries = backups[b].entries
      BY <1>0, <1>2 DEF TruncateManifest, Backups
    <2>4. \A q \in Procs \ {p} : Ordered(q)' /\ Behind(q)'
      BY <1>b, <2>1, <2>3, OthersShelved
    <2>5. Unused'
      BY <1>0, <2>2, <2>3 DEF Unused
    <2>6. Ordered(p)'
      BY <1>0, <2>2, FewerOrdered
    <2>7. Behind(p)'
      BY <1>0, <1>b, <2>2, <2>3 DEF Behind
    <2> QED
      BY <2>4, <2>5, <2>6, <2>7 DEF Shelved
  <1>3. ASSUME NEW f \in Paths, WriteManifest(p, f) PROVE Shelved'
    <2>1. OthersSame(p)
      BY <1>3 DEF WriteManifest, Go, OthersSame, PrivateSame, TypeOK, PrivateTypes
    <2>2. /\ pc[p] = "manifest" /\ pc'[p] = "ready" /\ Turn(p, f)
          /\ UNCHANGED <<job, left, plan, hookPlan, backup, nbackups>>
      BY <1>3 DEF WriteManifest, Go, TypeOK, PrivateTypes
    <2>3. /\ \A b \in BackupIds \ {backup[p]} : backups'[b].entries = backups[b].entries
          /\ backup[p] # 0 => backups'[backup[p]].entries = backups[backup[p]].entries \cup {f}
      BY <1>0, <1>b, <1>3 DEF WriteManifest, Backups
    <2>4. \A q \in Procs \ {p} : Ordered(q)' /\ Behind(q)'
      BY <1>0, <1>b, <2>1, <2>3, OthersShelved
    <2>5. Unused'
      <3>1. \A b \in BackupIds : b > nbackups => b # backup[p]
        BY <1>0 DEF BackupIds
      <3> QED
        BY <1>0, <2>2, <2>3, <3>1 DEF Unused
    <2>6. Ordered(p)'
      BY <1>0, <2>2, FewerOrdered
    <2>7. Behind(p)'
      <3> SUFFICES ASSUME backup[p] # 0, NEW g \in backups'[backup[p]].entries
                   PROVE  HostOf[g] \notin left[p] /\ (plan[p][g] # "none" => Turn(p, g)')
        BY <2>2 DEF Behind
      <3>1. CASE g = f
        BY <1>0, <2>2, <3>1, TurnKept DEF Ordered, Turn
      <3>2. CASE g # f
        BY <1>0, <2>2, <2>3, <3>2 DEF Behind
      <3> QED
        BY <3>1, <3>2
    <2> QED
      BY <2>4, <2>5, <2>6, <2>7 DEF Shelved
  <1> QED
    BY <1>1, <1>2, <1>3

\* Steps of users and releases, and no step at all.
LEMMA IdleWorldShelved ==
  ASSUME Shelved, UNCHANGED <<private, backups, nbackups>>
  PROVE  Shelved'
  <1>1. ASSUME NEW q \in Procs PROVE Ordered(q)' /\ Behind(q)'
    BY DEF private, Shelved, Ordered, Behind, NoPlan, Turn, HookTurn
  <1> QED
    BY <1>1 DEF Shelved, Unused

LEMMA ShelvedInit == ASSUME Init PROVE Shelved
  <1>1. \A b \in BackupIds : backups[b].entries = {}
    BY DEF Init, NewBackup
  <1>2. ASSUME NEW p \in Procs PROVE Ordered(p) /\ Behind(p)
    BY DEF Init, Ordered, Behind, NoJob, NoPlan
  <1> QED
    BY <1>1, <1>2 DEF Shelved, Unused

\* Every step keeps what is listed behind the run that listed it.
LEMMA ShelvedStep ==
  ASSUME TypeOK, TypeOK', Custody, Shelved, [Next]_vars
  PROVE  Shelved'
  <1>1. ASSUME NEW p \in Procs, NEW f \in Paths, FileStep(p, f) PROVE Shelved'
    BY <1>1, FilesShelved, BackupShelved DEF FileStep
  <1>2. ASSUME NEW p \in Procs, Step(p) PROVE Shelved'
    BY <1>1, <1>2, PlanningShelved, BackupShelved, HookAndEndShelved DEF Step
  <1>3. ASSUME NEW p \in Procs, Begin(p) PROVE Shelved'
    BY <1>3, BeginShelved
  <1>4. ASSUME NEW p \in Procs, Crash(p) PROVE Shelved'
    BY <1>4, HookAndEndShelved
  <1>5. CASE User
    BY <1>5, IdleWorldShelved DEF User, EditFile, EditSettings, Upgrade
  <1>6. CASE UNCHANGED vars
    BY <1>6, IdleWorldShelved DEF vars, shared
  <1> QED
    BY <1>2, <1>3, <1>4, <1>5, <1>6 DEF Next

\* Only the three steps of a snapshot touch a backup.
LEMMA OtherStepsKeepBackups ==
  ASSUME [Next]_vars,
         ~ \E p \in Procs : \/ \E f \in Paths : Snapshot(p, f) \/ WriteManifest(p, f)
                            \/ TruncateManifest(p)
  PROVE  backups' = backups
  <1>1. ASSUME NEW q \in Procs, Begin(q) PROVE backups' = backups
    BY <1>1 DEF Begin, BeginSync, BeginRepair, BeginUninstall, BeginFeature,
                BeginRestore, shared
  <1>2. ASSUME NEW q \in Procs, NEW g \in Paths, FileStep(q, g) PROVE backups' = backups
    BY <1>2 DEF FileStep, RecordOK, SkipModified, TruncateFile, WriteFile, RemoveFile,
                SnapshotFails, shared
  <1>3. ASSUME NEW q \in Procs, Step(q) PROVE backups' = backups
    BY <1>2, <1>3 DEF Step, Load, PlanHost, PlanUninstall, RefuseUninstall,
                      RewireLoad, KeepSettings, TruncateSettings,
                      WriteSettings, SettingsUnreadable, FinishItems, FinishRewire,
                      FinishRestore, Save, shared
  <1>4. ASSUME NEW q \in Procs, Crash(q) PROVE backups' = backups
    BY <1>4 DEF Crash, shared
  <1>5. User => backups' = backups
    BY DEF User, EditFile, EditSettings, Upgrade
  <1>6. UNCHANGED vars => backups' = backups
    BY DEF vars, shared
  <1> QED
    BY <1>1, <1>3, <1>4, <1>5, <1>6 DEF Next

\* What a step leaves of a snapshot that is listed.
LEMMA SnapshotsStay ==
  ASSUME TypeOK, Custody, Shelved, [Next]_vars, NEW b \in BackupIds, NEW f \in backups[b].entries
  PROVE  f \in backups'[b].entries /\ backups'[b].files[f] = backups[b].files[f]
  <1>0. /\ backups \in [BackupIds -> Backups] /\ nbackups \in Nat
        /\ f \in Paths
    BY InstallAssumption DEF TypeOK, SharedTypes, Backups
  <1>1. ASSUME NEW p \in Procs, NEW g \in Paths, Snapshot(p, g)
        PROVE  f \in backups'[b].entries /\ backups'[b].files[f] = backups[b].files[f]
    <2>1. ~(b = BackupDir(p) /\ f = g)
      <3>1. Behind(p) /\ Unused /\ pc[p] = "act" /\ plan[p][g] # "none"
        BY <1>1 DEF Shelved, Snapshot, Go, Turn
      <3>2. CASE backup[p] = 0
        <4>1. b = BackupDir(p) => b > nbackups
          BY <1>0, <3>2 DEF BackupDir
        <4> QED
          BY <3>1, <4>1 DEF Unused
      <3>3. CASE backup[p] # 0
        BY <3>1, <3>3 DEF Behind, BackupDir
      <3> QED
        BY <3>2, <3>3
    <2>2. backups' = [backups EXCEPT ![BackupDir(p)].files[g] = disk[g]]
      BY <1>1 DEF Snapshot
    <2> QED
      BY <1>0, <2>1, <2>2 DEF Backups
  <1>2. ASSUME NEW p \in Procs, TruncateManifest(p)
        PROVE  f \in backups'[b].entries /\ backups'[b].files[f] = backups[b].files[f]
    BY <1>0, <1>2 DEF TruncateManifest, Backups
  <1>3. ASSUME NEW p \in Procs, NEW g \in Paths, WriteManifest(p, g)
        PROVE  f \in backups'[b].entries /\ backups'[b].files[f] = backups[b].files[f]
    BY <1>0, <1>3 DEF WriteManifest, Backups
  <1> QED
    BY <1>1, <1>2, <1>3, OtherStepsKeepBackups

(***************************************************************************)
(* However many runs work side by side, crash and start again: a snapshot  *)
(* that a manifest lists stays listed, with the content it was taken with  *)
(* (backupStore.ensure, Snapshot).                                         *)
(***************************************************************************)
THEOREM ListedSnapshotsStay == Spec => SnapshotsAreKept
  <1>1. Init => TypeOK /\ Custody /\ Shelved
    BY TypeInit, CustodyInit, ShelvedInit
  <1>2. TypeOK /\ Custody /\ Shelved /\ [Next]_vars => (TypeOK /\ Custody /\ Shelved)'
    BY TypeStep, CustodyStep, ShelvedStep
  <1>3. TypeOK /\ Custody /\ Shelved /\ [Next]_vars
        => [\A b \in BackupIds : \A f \in backups[b].entries :
              /\ f \in backups'[b].entries
              /\ backups'[b].files[f] = backups[b].files[f]]_vars
    BY SnapshotsStay
  <1> QED
    BY <1>1, <1>2, <1>3, PTL DEF Spec, SnapshotsAreKept
-----------------------------------------------------------------------------
(***************************************************************************)
(* One run after another.  The code keeps no two runs apart, and a user    *)
(* may edit at any time; the theorems of this part are about those who     *)
(* wait: no two processes at once (OneAtATime), and no edit while one runs *)
(* (Undisturbed).  Crashes may happen unless a theorem says otherwise.     *)
(***************************************************************************)
OneAtATime == \A p, q \in Procs : pc[p] # "idle" /\ pc[q] # "idle" => p = q
Undisturbed == OneAtATime /\ ~EditWhileRunning

\* What the operation of a process says about its labels, its plan and the
\* hosts it has left; for any number of processes.
Phases(p) ==
  /\ pc[p] = "idle" => job[p].op = "none" /\ ~hookPlan[p]
  /\ pc[p] = "load" => job[p].op \in {"sync", "uninstall"}
  /\ pc[p] = "rewire" => job[p].op = "rewire"
  /\ pc[p] = "host" => job[p].op = "sync"
  /\ pc[p] = "classify" => job[p].op = "uninstall"
  /\ pc[p] = "save" => job[p].op \in {"sync", "uninstall", "feature"} /\ ~hookPlan[p]
  /\ job[p].op = "feature" => pc[p] = "save"
  /\ pc[p] \in {"idle", "load", "rewire", "classify"} \/ job[p].op = "rewire" => ~dirty[p]
  /\ pc[p] \in {"load", "rewire", "host", "classify", "save"} => plan[p] = NoPlan
  /\ job[p].op = "sync" /\ pc[p] \notin {"load", "host"} => Claude \notin left[p]

\* The classes each operation plans.
Fits(p) ==
  \A f \in Paths : plan[p][f] # "none" =>
    \/ job[p].op = "sync" /\ plan[p][f] \in {"create", "update", "ok", "modified"}
    \/ job[p].op = "uninstall" /\ plan[p][f] \in {"remove", "backup"}
    \/ job[p].op = "restore" /\ plan[p][f] = "restore"

\* p holds the state it will save.
Loaded(p) == job[p].op \in {"sync", "uninstall"} /\ pc[p] \notin {"idle", "load"}

FeatureKept(p) == Loaded(p) => mem[p].feature = saved.feature

\* p has truncated f and not yet written it.
AtWork(p, f) == pc[p] = "torn" /\ Turn(p, f)

\* The file of a planned item is as it was when the item was planned.
AsPlanned(p) ==
  \A f \in Paths : job[p].op \in {"sync", "uninstall"} /\ plan[p][f] # "none" /\ ~AtWork(p, f) =>
    /\ plan[p][f] = "create" => disk[f] = Absent
    /\ plan[p][f] = "ok" => disk[f] = Shipped(p, f)
    /\ plan[p][f] = "update" => mem[p].assets[f] \in {None, disk[f]}
    /\ plan[p][f] = "remove" => disk[f] \in {Absent, mem[p].assets[f]}
    /\ plan[p][f] \in {"update", "modified", "backup"} => disk[f] # Absent
    /\ plan[p][f] = "backup" => job[p].force
    /\ plan[p][f] = "modified" /\ pc[p] \in {"archive", "manifest", "ready"} /\ Turn(p, f)
       => job[p].force

\* ... and so is settings.json.
SettingsAsSeen(p) == hookPlan[p] /\ pc[p] # "hookTorn" => settings = seenSettings[p]

\* Unwiring leaves no gate behind, whatever the document (see StopHook).
UnwireDropsGate == \A d \in Docs : ~HasGate(Unwire(d))

\* What an uninstall no longer plans is done, or is what it keeps.
Removing(p) ==
  job[p].op = "uninstall" /\ pc[p] \notin {"idle", "load"} =>
    /\ pc[p] = "classify" => mem[p] = saved
    /\ pc[p] # "classify" =>
         /\ \A f \in Paths : saved.assets[f] # None =>
              \/ plan[p][f] # "none"
              \/ mem[p].assets[f] = None /\ disk[f] = Absent /\ dirty[p]
              \/ mem[p].assets[f] = saved.assets[f] /\ Shipped(p, f) = Absent
         /\ \/ hookPlan[p]
            \/ /\ mem[p].hook = "none"
               /\ saved.hook # "none" => /\ dirty[p]
                                         /\ settings \in Docs /\ UnwireDropsGate => ~HasGate(settings)

\* What an undisturbed run may rely on between its steps.
Steady(p) == AsPlanned(p) /\ SettingsAsSeen(p) /\ Removing(p)

\* p may have changed what state.json still records as it was.
Changing(p) ==
  Loaded(p) /\ pc[p] # "classify" /\ ~(pc[p] = "host" /\ Claude \in left[p])

\* What p holds is what is on disk, and until p changes a record it holds those
\* of state.json.
MemMatches(p) ==
  /\ Loaded(p) => \A f \in Paths \ touched :
       mem[p].assets[f] # None /\ ~AtWork(p, f) => disk[f] = mem[p].assets[f]
  /\ (Loaded(p) /\ ~dirty[p]) \/ job[p].op = "feature" => mem[p].assets = saved.assets

\* Until p changes a file, what state.json records is on disk.
SavedMatches(p) ==
  ~Changing(p) => \A f \in Paths \ touched :
    saved.assets[f] # None /\ ~AtWork(p, f) => disk[f] = saved.assets[f]

\* A run that may snapshot has its backup directory, or one is left to take.
HasRoom(p) ==
  /\ pc[p] # "idle" /\ backup[p] = 0
  /\ job[p].op \in {"sync", "rewire"} \/ (job[p].op = "uninstall" /\ job[p].force)
  => nbackups < MaxBackups

Matched(p) == MemMatches(p) /\ SavedMatches(p) /\ HasRoom(p)

\* A step of p keeps what is said of p.
Advances(p) ==
  /\ Phases(p)' /\ Fits(p)'
  /\ FeatureKept(p) => FeatureKept(p)'
  /\ Steady(p) => Steady(p)'
  /\ Steady(p) /\ Matched(p) => Matched(p)'

\* Who waits stays where it is.
OthersStay(p) ==
  \A q \in Procs \ {p} :
    PrivateSame(q) /\ mem'[q] = mem[q] /\ dirty'[q] = dirty[q] /\ left'[q] = left[q]

\* Starting any operation.
LEMMA BeginAdvances ==
  ASSUME TypeOK, TypeOK', Custody, NEW p \in Procs, Ordered(p), Phases(p), Begin(p)
  PROVE  Advances(p)
  <1>0. /\ pc[p] = "idle" /\ plan[p] = NoPlan /\ ~hookPlan[p] /\ ~dirty[p] /\ backup[p] = 0
        /\ ~Changing(p) /\ \A f \in Paths : NoPlan[f] = "none" /\ ~AtWork(p, f)
        /\ NoPlan' = NoPlan
    BY DEF Begin, BeginSync, BeginRepair, BeginUninstall, BeginFeature, BeginRestore, Go,
           Custody, ProcessSafe, Phases, Ordered, NoPlan, Changing, Loaded, AtWork
  <1>1. /\ UNCHANGED <<shared, hookPlan, seenSettings, backup, touched>>
        /\ \/ /\ pc'[p] = "load" /\ job'[p].op = "sync" /\ nbackups < MaxBackups
              /\ UNCHANGED <<mem, dirty, plan>>
           \/ /\ pc'[p] = "load" /\ job'[p].op = "uninstall"
              /\ job'[p].force => nbackups < MaxBackups
              /\ UNCHANGED <<mem, dirty, plan>>
           \/ /\ pc'[p] = "rewire" /\ job'[p].op = "rewire" /\ nbackups < MaxBackups
              /\ UNCHANGED <<mem, dirty, plan>>
           \/ /\ pc'[p] = "save" /\ job'[p].op = "feature" /\ mem'[p].assets = saved.assets
              /\ UNCHANGED plan
           \/ /\ pc'[p] = "act" /\ job'[p].op = "restore" /\ UNCHANGED dirty
              /\ \A f \in Paths : plan'[p][f] \in {"none", "restore"}
    <2>1. ASSUME NEW force \in BOOLEAN, NEW hs \in SUBSET Hosts, BeginSync(p, force, hs)
          PROVE  /\ UNCHANGED <<shared, hookPlan, seenSettings, backup, touched>>
                 /\ pc'[p] = "load" /\ job'[p].op = "sync" /\ nbackups < MaxBackups
                 /\ UNCHANGED <<mem, dirty, plan>>
      BY <2>1 DEF BeginSync, Go, NoJob, RoomForBackup, TypeOK, PrivateTypes
    <2>2. ASSUME NEW force \in BOOLEAN, BeginRepair(p, force)
          PROVE  /\ UNCHANGED <<shared, hookPlan, seenSettings, backup, touched>>
                 /\ nbackups < MaxBackups /\ UNCHANGED <<mem, dirty, plan>>
                 /\ \/ pc'[p] = "load" /\ job'[p].op = "sync"
                    \/ pc'[p] = "rewire" /\ job'[p].op = "rewire"
      BY <2>2 DEF BeginRepair, Go, NoJob, RoomForBackup, TypeOK, PrivateTypes
    <2>3. ASSUME NEW force \in BOOLEAN, NEW orphans \in BOOLEAN,
                 BeginUninstall(p, force, orphans)
          PROVE  /\ UNCHANGED <<shared, hookPlan, seenSettings, backup, touched>>
                 /\ pc'[p] = "load" /\ job'[p].op = "uninstall"
                 /\ job'[p].force => nbackups < MaxBackups
                 /\ UNCHANGED <<mem, dirty, plan>>
      BY <2>3 DEF BeginUninstall, Go, NoJob, RoomForBackup, TypeOK, PrivateTypes
    <2>4. ASSUME NEW enabled \in BOOLEAN, BeginFeature(p, enabled)
          PROVE  /\ UNCHANGED <<shared, hookPlan, seenSettings, backup, touched>>
                 /\ pc'[p] = "save" /\ job'[p].op = "feature" /\ mem'[p].assets = saved.assets
                 /\ UNCHANGED plan
      BY <2>4 DEF BeginFeature, Go, NoJob, TypeOK, PrivateTypes, SharedTypes, StateFiles
    <2>5. ASSUME NEW b \in BackupIds, BeginRestore(p, b)
          PROVE  /\ UNCHANGED <<shared, hookPlan, seenSettings, backup, touched>>
                 /\ pc'[p] = "act" /\ job'[p].op = "restore" /\ UNCHANGED dirty
                 /\ \A f \in Paths : plan'[p][f] \in {"none", "restore"}
      BY <2>5 DEF BeginRestore, Go, NoJob, TypeOK, PrivateTypes
    <2> QED
      BY <2>1, <2>2, <2>3, <2>4, <2>5 DEF Begin
  <1>2. Phases(p)' /\ Fits(p)'
    BY <1>0, <1>1 DEF Phases, Fits
  <1>3. FeatureKept(p)' /\ Steady(p)'
    BY <1>0, <1>1 DEF FeatureKept, Loaded, Steady, AsPlanned, SettingsAsSeen, Removing
  <1>4. ASSUME Matched(p) PROVE Matched(p)'
    <2>1. \A f \in Paths : ~AtWork(p, f)'
      BY <1>1 DEF AtWork
    <2>2. MemMatches(p)' /\ HasRoom(p)'
      BY <1>1 DEF MemMatches, HasRoom, Loaded, shared
    <2>3. SavedMatches(p)'
      BY <1>0, <1>1, <1>4, <2>1 DEF Matched, SavedMatches, shared
    <2> QED
      BY <2>2, <2>3 DEF Matched
  <1> QED
    BY <1>2, <1>3, <1>4 DEF Advances

\* Loading the state, planning and the look at settings.json.
LEMMA PlanningAdvances ==
  ASSUME TypeOK, TypeOK', Custody, NEW p \in Procs, Ordered(p), Phases(p), Fits(p)
  PROVE  /\ Load(p) => Advances(p)
         /\ \A h \in Hosts : PlanHost(p, h) => Advances(p)
         /\ PlanUninstall(p) => Advances(p)
         /\ RewireLoad(p) => Advances(p)
  <1>0. NoPlan' = NoPlan /\ \A f \in Paths : NoPlan[f] = "none"
    BY DEF NoPlan
  <1>1. ASSUME Load(p) PROVE Advances(p)
    <2>1. /\ pc[p] = "load" /\ mem'[p] = saved
          /\ pc'[p] = IF job[p].op = "uninstall" THEN "classify" ELSE "host"
          /\ UNCHANGED <<shared, job, dirty, left, plan, hookPlan, seenSettings, backup, touched>>
      BY <1>1 DEF Load, TypeOK, PrivateTypes
    <2>2. /\ job[p].op \in {"sync", "uninstall"} /\ ~dirty[p] /\ plan[p] = NoPlan
          /\ pc'[p] \in {"classify", "host"} /\ pc'[p] = "host" => job[p].op = "sync"
          /\ \A f \in Paths : ~AtWork(p, f) /\ ~AtWork(p, f)'
      BY <2>1 DEF Phases, AtWork
    <2>3. Phases(p)' /\ Fits(p)'
      BY <1>0, <2>1, <2>2 DEF Phases, Fits
    <2>4. FeatureKept(p)'
      BY <2>1 DEF FeatureKept, shared
    <2>5. ASSUME Steady(p) PROVE Steady(p)'
      BY <1>0, <2>1, <2>2, <2>5 DEF Steady, AsPlanned, SettingsAsSeen, Removing, shared
    <2>6. ASSUME Matched(p) PROVE Matched(p)'
      <3>1. ~Changing(p)
        BY <2>1 DEF Changing, Loaded
      <3>2. MemMatches(p)'
        BY <2>1, <2>2, <2>6, <3>1 DEF Matched, MemMatches, SavedMatches, shared
      <3>3. SavedMatches(p)' /\ HasRoom(p)'
        BY <2>1, <2>2, <2>6, <3>1 DEF Matched, SavedMatches, HasRoom, shared
      <3> QED
        BY <3>2, <3>3 DEF Matched
    <2> QED
      BY <2>3, <2>4, <2>5, <2>6 DEF Advances
  <1>2. ASSUME NEW h \in Hosts, PlanHost(p, h) PROVE Advances(p)
    <2>1. /\ pc[p] = "host" /\ pc'[p] = "act"
          /\ h \in left[p] /\ \A g \in left[p] : h <= g
          /\ left'[p] = left[p] \ {h}
          /\ \A f \in Paths :
               plan'[p][f] = IF HostOf[f] = h
                             THEN SyncClass(disk[f], mem[p].assets[f], Shipped(p, f))
                             ELSE "none"
          /\ UNCHANGED <<shared, job, backup, touched>>
      BY <1>2 DEF PlanHost, Go, TypeOK, PrivateTypes
    <2>m. mem'[p].assets = mem[p].assets /\ mem'[p].feature = mem[p].feature
      BY <1>2 DEF PlanHost, AdoptHost, TypeOK, PrivateTypes, StateFiles
    <2>h. hookPlan'[p] => seenSettings'[p] = settings
      BY <1>2 DEF PlanHost, TypeOK, PrivateTypes
    <2>d. dirty[p] => dirty'[p]
      BY <1>2 DEF PlanHost, TypeOK, PrivateTypes
    <2>2. job[p].op = "sync" /\ plan[p] = NoPlan
      BY <2>1 DEF Phases
    <2>3. Claude \notin left'[p]
      <3>1. h \in Nat /\ Claude \in Nat /\ Claude <= h
        BY InstallAssumption
      <3>2. Claude \in left[p] => h <= Claude
        BY <2>1
      <3> QED
        BY <2>1, <3>1, <3>2
    <2>4. Phases(p)'
      BY <2>1, <2>2, <2>3 DEF Phases
    <2>5. Fits(p)'
      BY <2>1, <2>2 DEF Fits, SyncClass
    <2>6. ASSUME FeatureKept(p) PROVE FeatureKept(p)'
      BY <2>1, <2>m, <2>2, <2>6 DEF FeatureKept, Loaded, shared
    <2>7. Steady(p)'
      <3>1. AsPlanned(p)'
        BY <2>1, <2>m DEF AsPlanned, SyncClass, Shipped, shared
      <3>2. SettingsAsSeen(p)' /\ Removing(p)'
        BY <2>1, <2>h, <2>2 DEF SettingsAsSeen, Removing, shared
      <3> QED
        BY <3>1, <3>2 DEF Steady
    <2>8. ASSUME Matched(p) PROVE Matched(p)'
      <3>1. \A f \in Paths : ~AtWork(p, f) /\ ~AtWork(p, f)'
        BY <2>1 DEF AtWork
      <3>2. MemMatches(p)'
        BY <2>1, <2>m, <2>d, <2>2, <2>8, <3>1 DEF Matched, MemMatches, Loaded, shared
      <3>3. SavedMatches(p)' /\ HasRoom(p)'
        BY <2>1, <2>2, <2>3, <2>8 DEF Matched, SavedMatches, Changing, Loaded, HasRoom, shared
      <3> QED
        BY <3>2, <3>3 DEF Matched
    <2> QED
      BY <2>4, <2>5, <2>6, <2>7, <2>8 DEF Advances
  <1>3. ASSUME PlanUninstall(p) PROVE Advances(p)
    <2>1. /\ pc[p] = "classify" /\ pc'[p] = "act"
          /\ \A f \in Paths :
               /\ plan'[p][f] = UninstallClass(disk[f], mem[p].assets[f], Shipped(p, f),
                                               job[p].force, job[p].orphans)
               /\ plan'[p][f] # "modified"
          /\ hookPlan'[p] = (mem[p].hook # "none") /\ seenSettings'[p] = settings
          /\ UNCHANGED <<shared, job, mem, dirty, left, backup, touched>>
      BY <1>3 DEF PlanUninstall, Go, TypeOK, PrivateTypes
    <2>2. job[p].op = "uninstall"
      BY <2>1 DEF Phases
    <2>3. Phases(p)'
      BY <2>1, <2>2 DEF Phases
    <2>4. Fits(p)'
      BY <2>1, <2>2 DEF Fits, UninstallClass
    <2>5. ASSUME FeatureKept(p) PROVE FeatureKept(p)'
      BY <2>1, <2>2, <2>5 DEF FeatureKept, Loaded, shared
    <2>6. ASSUME Steady(p) PROVE Steady(p)'
      <3>1. AsPlanned(p)'
        BY <2>1 DEF AsPlanned, UninstallClass, shared
      <3>2. SettingsAsSeen(p)'
        BY <2>1 DEF SettingsAsSeen, shared
      <3>3. mem[p] = saved
        BY <2>1, <2>2, <2>6 DEF Steady, Removing
      <3>4. Removing(p)'
        BY <2>1, <2>2, <3>3 DEF Removing, UninstallClass, Shipped, shared
      <3> QED
        BY <3>1, <3>2, <3>4 DEF Steady
    <2>7. ASSUME Matched(p) PROVE Matched(p)'
      <3>1. \A f \in Paths : ~AtWork(p, f) /\ ~AtWork(p, f)'
        BY <2>1 DEF AtWork
      <3>2. MemMatches(p)'
        BY <2>1, <2>2, <2>7, <3>1 DEF Matched, MemMatches, Loaded, shared
      <3>3. SavedMatches(p)' /\ HasRoom(p)'
        BY <2>1, <2>2, <2>7 DEF Matched, SavedMatches, Changing, Loaded, HasRoom, shared
      <3> QED
        BY <3>2, <3>3 DEF Matched
    <2> QED
      BY <2>3, <2>4, <2>5, <2>6, <2>7 DEF Advances
  <1>4. ASSUME RewireLoad(p) PROVE Advances(p)
    <2>1. /\ pc[p] = "rewire" /\ pc'[p] = "act" /\ seenSettings'[p] = settings
          /\ UNCHANGED <<shared, job, mem, dirty, left, plan, backup, touched>>
      BY <1>4 DEF RewireLoad, Go, TypeOK, PrivateTypes
    <2>2. job[p].op = "rewire" /\ plan[p] = NoPlan /\ ~dirty[p]
      BY <2>1 DEF Phases
    <2>3. Phases(p)' /\ Fits(p)'
      BY <1>0, <2>1, <2>2 DEF Phases, Fits
    <2>4. FeatureKept(p)' /\ Steady(p)'
      BY <2>1, <2>2 DEF FeatureKept, Loaded, Steady, AsPlanned, SettingsAsSeen, Removing, shared
    <2>5. ASSUME Matched(p) PROVE Matched(p)'
      <3>1. \A f \in Paths : ~AtWork(p, f) /\ ~AtWork(p, f)'
        BY <2>1 DEF AtWork
      <3> QED
        BY <2>1, <2>2, <2>5, <3>1
        DEF Matched, MemMatches, SavedMatches, Changing, Loaded, HasRoom, shared
    <2> QED
      BY <2>3, <2>4, <2>5 DEF Advances
  <1> QED
    BY <1>1, <1>2, <1>3, <1>4

\* Steps on one file that write nothing to it.
LEMMA LookingAdvances ==
  ASSUME TypeOK, TypeOK', Custody, NEW p \in Procs, Ordered(p), Phases(p), Fits(p)
  PROVE  /\ \A f \in Paths : RecordOK(p, f) \/ SkipModified(p, f) => Advances(p)
         /\ \A f \in Paths : Snapshot(p, f) => Advances(p)
         /\ TruncateManifest(p) => Advances(p)
         /\ \A f \in Paths : WriteManifest(p, f) => Advances(p)
  <1>1. ASSUME NEW f \in Paths, RecordOK(p, f) \/ SkipModified(p, f) PROVE Advances(p)
    <2>1. /\ pc[p] = "act" /\ pc'[p] = "act" /\ plan[p][f] \in {"ok", "modified"}
          /\ \A g \in Paths : plan'[p][g] = IF g = f THEN "none" ELSE plan[p][g]
          /\ UNCHANGED <<shared, job, left, hookPlan, seenSettings, backup, touched>>
      BY <1>1 DEF RecordOK, SkipModified, Go, Done, TypeOK, PrivateTypes
    <2>2. /\ mem'[p].feature = mem[p].feature
          /\ \A g \in Paths \ {f} : mem'[p].assets[g] = mem[p].assets[g]
          /\ \/ mem'[p].assets[f] = mem[p].assets[f]
             \/ plan[p][f] = "ok" /\ mem'[p].assets[f] = Shipped(p, f)
      BY <1>1 DEF RecordOK, SkipModified, TypeOK, PrivateTypes, StateFiles
    <2>3. ASSUME ~dirty'[p] PROVE ~dirty[p] /\ mem'[p].assets = mem[p].assets
      <3>1. CASE RecordOK(p, f)
        <4>1. ~dirty[p] /\ mem[p].assets[f] = Shipped(p, f)
          BY <2>3, <3>1 DEF RecordOK, TypeOK, PrivateTypes
        <4>2. mem'[p].assets = [mem[p].assets EXCEPT ![f] = Shipped(p, f)]
          BY <3>1 DEF RecordOK, TypeOK, PrivateTypes, StateFiles
        <4> QED
          BY <4>1, <4>2 DEF TypeOK, PrivateTypes, StateFiles
      <3>2. CASE SkipModified(p, f)
        BY <2>3, <3>2 DEF SkipModified
      <3> QED
        BY <1>1, <3>1, <3>2
    <2>4. job[p].op = "sync"
      BY <2>1 DEF Fits
    <2>5. Phases(p)'
      BY <2>1, <2>4 DEF Phases
    <2>6. Fits(p)'
      BY <2>1 DEF Fits
    <2>7. ASSUME FeatureKept(p) PROVE FeatureKept(p)'
      BY <2>1, <2>2, <2>4, <2>7 DEF FeatureKept, Loaded, shared
    <2>8. ASSUME Steady(p) PROVE Steady(p)'
      <3>1. AsPlanned(p)'
        BY <2>1, <2>2, <2>8 DEF Steady, AsPlanned, AtWork, Shipped, shared
      <3>2. SettingsAsSeen(p)' /\ Removing(p)'
        BY <2>1, <2>4, <2>8 DEF Steady, SettingsAsSeen, Removing, shared
      <3> QED
        BY <3>1, <3>2 DEF Steady
    <2>9. ASSUME Steady(p), Matched(p) PROVE Matched(p)'
      <3>1. \A g \in Paths : ~AtWork(p, g) /\ ~AtWork(p, g)'
        BY <2>1 DEF AtWork
      <3>2. plan[p][f] = "ok" => disk[f] = Shipped(p, f)
        BY <2>1, <2>4, <2>9, <3>1 DEF Steady, AsPlanned
      <3>3. Loaded(p) /\ \A g \in Paths \ touched :
                           mem[p].assets[g] # None => disk[g] = mem[p].assets[g]
        BY <2>1, <2>4, <2>9, <3>1 DEF Matched, MemMatches, Loaded
      <3>4. \A g \in Paths \ touched :
              mem'[p].assets[g] # None => disk[g] = mem'[p].assets[g]
        BY <2>2, <3>2, <3>3
      <3>5. ~dirty'[p] => mem'[p].assets = saved.assets
        BY <2>3, <2>9, <3>3 DEF Matched, MemMatches
      <3>6. MemMatches(p)'
        BY <2>1, <2>4, <3>4, <3>5 DEF MemMatches, shared
      <3>7. SavedMatches(p)' /\ HasRoom(p)'
        BY <2>1, <2>4, <2>9 DEF Matched, SavedMatches, Changing, Loaded, HasRoom, shared
      <3> QED
        BY <3>6, <3>7 DEF Matched
    <2> QED
      BY <2>5, <2>6, <2>7, <2>8, <2>9 DEF Advances
  <1>2. ASSUME NEW f \in Paths, Snapshot(p, f) PROVE Advances(p)
    <2>1. /\ pc[p] = "act" /\ pc'[p] = "archive" /\ Turn(p, f) /\ NeedsSnapshot(p, f)
          /\ UNCHANGED <<disk, settings, saved, job, mem, dirty, left, plan, hookPlan,
                         seenSettings, touched>>
      BY <1>2 DEF Snapshot, Go, TypeOK, PrivateTypes
    <2>2. backup'[p] # 0
      BY <1>2, InstallAssumption DEF Snapshot, BackupDir, TypeOK, PrivateTypes, SharedTypes
    <2>3. job[p].op \in {"sync", "uninstall"}
      BY <2>1 DEF Turn, NeedsSnapshot, Fits
    <2>4. Phases(p)' /\ Fits(p)'
      BY <2>1, <2>3 DEF Phases, Fits
    <2>5. ASSUME FeatureKept(p) PROVE FeatureKept(p)'
      BY <2>1, <2>3, <2>5 DEF FeatureKept, Loaded
    <2>6. ASSUME Steady(p) PROVE Steady(p)'
      <3>1. \A g \in Paths : plan[p][g] = "modified" /\ Turn(p, g) => job[p].force
        BY <2>1, OneTurn DEF NeedsSnapshot
      <3>2. \A g \in Paths : ~AtWork(p, g) /\ (Turn(p, g)' <=> Turn(p, g))
        BY <2>1, TurnKept DEF AtWork
      <3>3. AsPlanned(p)'
        BY <2>1, <2>3, <2>6, <3>1, <3>2 DEF Steady, AsPlanned, Shipped
      <3>4. SettingsAsSeen(p)' /\ Removing(p)'
        BY <2>1, <2>6 DEF Steady, SettingsAsSeen, Removing, Shipped
      <3> QED
        BY <3>3, <3>4 DEF Steady
    <2>7. ASSUME Matched(p) PROVE Matched(p)'
      <3>1. \A g \in Paths : ~AtWork(p, g) /\ ~AtWork(p, g)'
        BY <2>1 DEF AtWork
      <3>2. MemMatches(p)'
        BY <2>1, <2>3, <2>7, <3>1 DEF Matched, MemMatches, Loaded
      <3>3. SavedMatches(p)' /\ HasRoom(p)'
        BY <2>1, <2>2, <2>3 DEF SavedMatches, Changing, Loaded, HasRoom
      <3> QED
        BY <3>2, <3>3 DEF Matched
    <2> QED
      BY <2>4, <2>5, <2>6, <2>7 DEF Advances
  <1>3. ASSUME TruncateManifest(p) \/ \E f \in Paths : WriteManifest(p, f)
        PROVE  Advances(p)
    <2>1. /\ pc[p] \in {"archive", "manifest"} /\ pc'[p] \in {"manifest", "ready"}
          /\ UNCHANGED <<disk, settings, saved, nbackups, job, mem, dirty, left, plan,
                         hookPlan, seenSettings, backup, touched>>
      BY <1>3 DEF TruncateManifest, WriteManifest, Go, TypeOK, PrivateTypes
    <2>2. \A g \in Paths :
            ~AtWork(p, g) /\ ~AtWork(p, g)' /\ (Turn(p, g)' <=> Turn(p, g))
      BY <2>1, TurnKept DEF AtWork
    <2>3. Phases(p)' /\ Fits(p)'
      BY <2>1 DEF Phases, Fits
    <2>4. ASSUME FeatureKept(p) PROVE FeatureKept(p)'
      BY <2>1, <2>4 DEF FeatureKept, Loaded
    <2>5. ASSUME Steady(p) PROVE Steady(p)'
      <3>1. AsPlanned(p)'
        BY <2>1, <2>2, <2>5 DEF Steady, AsPlanned, Shipped
      <3>2. SettingsAsSeen(p)' /\ Removing(p)'
        BY <2>1, <2>5 DEF Steady, SettingsAsSeen, Removing, Shipped
      <3> QED
        BY <3>1, <3>2 DEF Steady
    <2>6. ASSUME Matched(p) PROVE Matched(p)'
      <3>1. MemMatches(p)'
        BY <2>1, <2>2, <2>6 DEF Matched, MemMatches, Loaded
      <3>2. SavedMatches(p)' /\ HasRoom(p)'
        BY <2>1, <2>2, <2>6 DEF Matched, SavedMatches, Changing, Loaded, HasRoom
      <3> QED
        BY <3>1, <3>2 DEF Matched
    <2> QED
      BY <2>3, <2>4, <2>5, <2>6 DEF Advances
  <1> QED
    BY <1>1, <1>2, <1>3

\* Steps that write a file or remove it.
LEMMA FilesAdvance ==
  ASSUME TypeOK, TypeOK', Custody, NEW p \in Procs, Ordered(p), Phases(p), Fits(p),
         NEW f \in Paths
  PROVE  /\ TruncateFile(p, f) => Advances(p)
         /\ WriteFile(p, f) => Advances(p)
         /\ RemoveFile(p, f) => Advances(p)
  <1>1. ASSUME TruncateFile(p, f) PROVE Advances(p)
    <2>1. /\ pc[p] \in {"act", "ready"} /\ pc'[p] = "torn" /\ Turn(p, f)
          /\ plan[p][f] # "none"
          /\ \A g \in Paths \ {f} : disk'[g] = disk[g]
          /\ UNCHANGED <<settings, saved, nbackups, job, mem, dirty, left, plan,
                         hookPlan, seenSettings, backup, touched>>
      BY <1>1 DEF TruncateFile, Turn, TypeOK, PrivateTypes, SharedTypes
    <2>2. \A g \in Paths : ~AtWork(p, g) /\ (AtWork(p, g)' <=> g = f)
      BY <2>1, OneTurn, TurnKept DEF AtWork
    <2>3. Phases(p)' /\ Fits(p)'
      BY <2>1 DEF Phases, Fits
    <2>4. ASSUME FeatureKept(p) PROVE FeatureKept(p)'
      BY <2>1, <2>4 DEF FeatureKept, Loaded
    <2>5. ASSUME Steady(p) PROVE Steady(p)'
      <3>1. AsPlanned(p)'
        BY <2>1, <2>2, <2>5 DEF Steady, AsPlanned, Shipped
      <3>2. SettingsAsSeen(p)' /\ Removing(p)'
        BY <2>1, <2>5 DEF Steady, SettingsAsSeen, Removing, Shipped
      <3> QED
        BY <3>1, <3>2 DEF Steady
    <2>6. ASSUME Matched(p) PROVE Matched(p)'
      <3>1. MemMatches(p)'
        BY <2>1, <2>2, <2>6 DEF Matched, MemMatches, Loaded
      <3>2. SavedMatches(p)' /\ HasRoom(p)'
        BY <2>1, <2>2, <2>6 DEF Matched, SavedMatches, Changing, Loaded, HasRoom
      <3> QED
        BY <3>1, <3>2 DEF Matched
    <2> QED
      BY <2>3, <2>4, <2>5, <2>6 DEF Advances
  <1>2. ASSUME WriteFile(p, f) PROVE Advances(p)
    <2>1. /\ pc[p] = "torn" /\ pc'[p] = "act" /\ Turn(p, f) /\ plan[p][f] # "none"
          /\ \A g \in Paths : plan'[p][g] = IF g = f THEN "none" ELSE plan[p][g]
          /\ \A g \in Paths \ {f} : disk'[g] = disk[g]
          /\ UNCHANGED <<settings, saved, nbackups, job, left, hookPlan, seenSettings, backup>>
      BY <1>2 DEF WriteFile, Go, Done, Turn, TypeOK, PrivateTypes, SharedTypes
    <2>2. \A g \in Paths : (AtWork(p, g) <=> g = f) /\ ~AtWork(p, g)'
      BY <2>1, OneTurn DEF AtWork
    <2>3. job[p].op \in {"restore", "sync"}
      BY <2>1, InstallAssumption DEF Custody, ItemSafe, Fits
    <2>4. Phases(p)' /\ Fits(p)'
      BY <2>1, <2>3 DEF Phases, Fits
    <2>5. CASE job[p].op = "restore"
      <3>1. touched' = touched \cup {f} /\ UNCHANGED <<mem, dirty>>
        BY <1>2, <2>5 DEF WriteFile
      <3>2. FeatureKept(p)'
        BY <2>1, <2>5 DEF FeatureKept, Loaded
      <3>3. ASSUME Steady(p) PROVE Steady(p)'
        BY <2>1, <2>5, <3>3 DEF Steady, AsPlanned, SettingsAsSeen, Removing
      <3>4. ASSUME Matched(p) PROVE Matched(p)'
        BY <2>1, <2>2, <2>5, <3>1, <3>4
        DEF Matched, MemMatches, SavedMatches, Changing, Loaded, HasRoom
      <3> QED
        BY <2>4, <3>2, <3>3, <3>4 DEF Advances
    <2>6. CASE job[p].op = "sync"
      <3>1. /\ disk'[f] = Shipped(p, f) /\ touched' = touched \ {f} /\ dirty'[p]
            /\ mem'[p].feature = mem[p].feature
            /\ \A g \in Paths : mem'[p].assets[g] = IF g = f THEN Shipped(p, f)
                                                    ELSE mem[p].assets[g]
        BY <1>2, <2>6 DEF WriteFile, TypeOK, PrivateTypes, SharedTypes, StateFiles
      <3>2. ASSUME FeatureKept(p) PROVE FeatureKept(p)'
        BY <2>1, <2>6, <3>1, <3>2 DEF FeatureKept, Loaded
      <3>3. ASSUME Steady(p) PROVE Steady(p)'
        <4>1. AsPlanned(p)'
          BY <2>1, <2>2, <2>6, <3>1, <3>3 DEF Steady, AsPlanned, Shipped
        <4>2. SettingsAsSeen(p)' /\ Removing(p)'
          BY <2>1, <2>6, <3>3 DEF Steady, SettingsAsSeen, Removing
        <4> QED
          BY <4>1, <4>2 DEF Steady
      <3>4. ASSUME Matched(p) PROVE Matched(p)'
        <4>1. MemMatches(p)'
          BY <2>1, <2>2, <2>6, <3>1, <3>4 DEF Matched, MemMatches, Loaded
        <4>2. SavedMatches(p)' /\ HasRoom(p)'
          BY <2>1, <2>6, <3>4 DEF Matched, SavedMatches, Changing, Loaded, HasRoom
        <4> QED
          BY <4>1, <4>2 DEF Matched
      <3> QED
        BY <2>4, <3>2, <3>3, <3>4 DEF Advances
    <2> QED
      BY <2>3, <2>5, <2>6
  <1>3. ASSUME RemoveFile(p, f) PROVE Advances(p)
    <2>1. /\ pc[p] \in {"act", "ready"} /\ pc'[p] = "act"
          /\ plan[p][f] \in {"remove", "backup"}
          /\ \A g \in Paths : plan'[p][g] = IF g = f THEN "none" ELSE plan[p][g]
          /\ \A g \in Paths : disk'[g] = IF g = f THEN Absent ELSE disk[g]
          /\ dirty'[p] /\ touched' = touched \ {f}
          /\ UNCHANGED <<settings, saved, nbackups, job, left, hookPlan, seenSettings, backup>>
      BY <1>3 DEF RemoveFile, Done, TypeOK, PrivateTypes, SharedTypes
    <2>2. /\ mem'[p].feature = mem[p].feature /\ mem'[p].hook = mem[p].hook
          /\ \A g \in Paths : mem'[p].assets[g] = IF g = f THEN None ELSE mem[p].assets[g]
      BY <1>3 DEF RemoveFile, DropIfEmpty, TypeOK, PrivateTypes, StateFiles
    <2>3. job[p].op = "uninstall"
      BY <2>1 DEF Fits
    <2>4. \A g \in Paths : ~AtWork(p, g) /\ ~AtWork(p, g)'
      BY <2>1 DEF AtWork
    <2>5. Phases(p)' /\ Fits(p)'
      BY <2>1, <2>3 DEF Phases, Fits
    <2>6. ASSUME FeatureKept(p) PROVE FeatureKept(p)'
      BY <2>1, <2>2, <2>3, <2>6 DEF FeatureKept, Loaded
    <2>7. ASSUME Steady(p) PROVE Steady(p)'
      <3>1. AsPlanned(p)'
        BY <2>1, <2>2, <2>4, <2>7 DEF Steady, AsPlanned, Shipped
      <3>2. SettingsAsSeen(p)'
        BY <2>1, <2>7 DEF Steady, SettingsAsSeen
      <3>3. Removing(p)'
        BY <2>1, <2>2, <2>3, <2>7 DEF Steady, Removing, Shipped
      <3> QED
        BY <3>1, <3>2, <3>3 DEF Steady
    <2>8. ASSUME Matched(p) PROVE Matched(p)'
      <3>1. MemMatches(p)'
        BY <2>1, <2>2, <2>3, <2>4, <2>8 DEF Matched, MemMatches, Loaded
      <3>2. SavedMatches(p)' /\ HasRoom(p)'
        BY <2>1, <2>3, <2>8 DEF Matched, SavedMatches, Changing, Loaded, HasRoom
      <3> QED
        BY <3>1, <3>2 DEF Matched
    <2> QED
      BY <2>5, <2>6, <2>7, <2>8 DEF Advances
  <1> QED
    BY <1>1, <1>2, <1>3

\* Steps on settings.json.
LEMMA HookAdvances ==
  ASSUME TypeOK, TypeOK', Custody, NEW p \in Procs, Ordered(p), Phases(p), Fits(p)
  PROVE  /\ KeepSettings(p) => Advances(p)
         /\ TruncateSettings(p) => Advances(p)
         /\ WriteSettings(p) => Advances(p)
  <1>1. ASSUME KeepSettings(p) \/ WriteSettings(p) PROVE Advances(p)
    <2>1. /\ pc[p] \in {"act", "hookTorn"} /\ pc'[p] = "act" /\ ~hookPlan'[p]
          /\ UNCHANGED <<disk, saved, nbackups, job, left, plan, seenSettings, backup, touched>>
      BY <1>1 DEF KeepSettings, WriteSettings, RecordHook, Go, shared, TypeOK, PrivateTypes
    <2>2. /\ job[p].op \in {"sync", "uninstall", "rewire"}
          /\ mem'[p].assets = mem[p].assets /\ mem'[p].feature = mem[p].feature
          /\ job[p].op = "uninstall" => mem'[p].hook = "none" /\ dirty'[p]
          /\ job[p].op = "rewire" => dirty' = dirty
          /\ dirty[p] => dirty'[p]
      <3>1. RecordHook(p)
        BY <1>1 DEF KeepSettings, WriteSettings
      <3>2. CASE job[p].op = "sync"
        <4>1. mem'[p] = [mem[p] EXCEPT !.hook = "wired"] /\ dirty'[p]
          BY <3>1, <3>2 DEF RecordHook, TypeOK, PrivateTypes
        <4>2. mem'[p].assets = mem[p].assets /\ mem'[p].feature = mem[p].feature
          BY <4>1 DEF TypeOK, PrivateTypes, StateFiles
        <4> QED
          BY <3>2, <4>1, <4>2
      <3>3. CASE job[p].op = "uninstall"
        <4>1. mem'[p] = DropIfEmpty([mem[p] EXCEPT !.hook = "none"], Claude) /\ dirty'[p]
          BY <3>1, <3>3 DEF RecordHook, TypeOK, PrivateTypes
        <4>2. /\ mem'[p].assets = mem[p].assets /\ mem'[p].feature = mem[p].feature
              /\ mem'[p].hook = "none"
          BY <4>1 DEF DropIfEmpty, TypeOK, PrivateTypes, StateFiles
        <4> QED
          BY <3>3, <4>1, <4>2
      <3>4. CASE job[p].op = "rewire"
        BY <3>1, <3>4 DEF RecordHook
      <3> QED
        BY <3>1, <3>2, <3>3, <3>4 DEF RecordHook
    <2>3. \A g \in Paths : ~AtWork(p, g) /\ ~AtWork(p, g)'
      BY <2>1 DEF AtWork
    <2>4. Phases(p)'
      BY <2>1, <2>2 DEF Phases
    <2>5. Fits(p)'
      BY <2>1 DEF Fits
    <2>6. ASSUME FeatureKept(p) PROVE FeatureKept(p)'
      BY <2>1, <2>2, <2>6 DEF FeatureKept, Loaded
    <2>7. ASSUME Steady(p) PROVE Steady(p)'
      <3>1. AsPlanned(p)'
        BY <2>1, <2>2, <2>3, <2>7 DEF Steady, AsPlanned, Shipped
      <3>2. SettingsAsSeen(p)'
        BY <2>1 DEF SettingsAsSeen
      <3>3. ASSUME job[p].op = "uninstall", settings' \in Docs, UnwireDropsGate
            PROVE  ~HasGate(settings')
        <4>1. seenSettings[p] \in Docs => ~HasGate(Unwire(seenSettings[p]))
          BY <3>3 DEF UnwireDropsGate
        <4>2. ~HasGate(Unwire(EmptyDoc))
          BY <3>3, InstallAssumption DEF UnwireDropsGate
        <4>3. CASE KeepSettings(p)
          <5>1. settings' = settings /\ settings = seenSettings[p]
            BY <2>7, <4>3 DEF KeepSettings, Go, HookTurn, shared, Steady, SettingsAsSeen
          <5>2. Unwire(settings) = settings
            BY <3>3, <4>3, <5>1, InstallAssumption DEF KeepSettings, NewDoc, SeenDoc
          <5> QED
            BY <3>3, <4>1, <5>1, <5>2
        <4>4. CASE WriteSettings(p)
          <5>1. settings' = Unwire(SeenDoc(p))
            BY <3>3, <4>4 DEF WriteSettings, NewDoc
          <5>2. seenSettings[p] \in Docs \cup {Absent}
            <6>1. seenSettings[p] # Torn
              BY <4>4 DEF WriteSettings, Go, Custody, ProcessSafe
            <6> QED
              BY <6>1 DEF TypeOK, PrivateTypes, SettingsValues
          <5> QED
            BY <4>1, <4>2, <5>1, <5>2 DEF SeenDoc
        <4> QED
          BY <1>1, <4>3, <4>4
      <3>4. Removing(p)'
        BY <2>1, <2>2, <2>7, <3>3 DEF Steady, Removing, Shipped
      <3> QED
        BY <3>1, <3>2, <3>4 DEF Steady
    <2>8. ASSUME Matched(p) PROVE Matched(p)'
      <3>1. MemMatches(p)'
        BY <2>1, <2>2, <2>3, <2>8 DEF Matched, MemMatches, Loaded
      <3>2. SavedMatches(p)' /\ HasRoom(p)'
        BY <2>1, <2>2, <2>3, <2>8 DEF Matched, SavedMatches, Changing, Loaded, HasRoom
      <3> QED
        BY <3>1, <3>2 DEF Matched
    <2> QED
      BY <2>4, <2>5, <2>6, <2>7, <2>8 DEF Advances
  <1>2. ASSUME TruncateSettings(p) PROVE Advances(p)
    <2>1. /\ pc[p] = "act" /\ pc'[p] = "hookTorn" /\ hookPlan[p]
          /\ UNCHANGED <<disk, saved, nbackups, job, mem, dirty, left, plan, hookPlan,
                         seenSettings, backup, touched>>
      BY <1>2 DEF TruncateSettings, HookTurn, Go, TypeOK, PrivateTypes
    <2>2. \A g \in Paths : ~AtWork(p, g) /\ ~AtWork(p, g)'
      BY <2>1 DEF AtWork
    <2>3. Phases(p)' /\ Fits(p)'
      BY <2>1 DEF Phases, Fits
    <2>4. ASSUME FeatureKept(p) PROVE FeatureKept(p)'
      BY <2>1, <2>4 DEF FeatureKept, Loaded
    <2>5. ASSUME Steady(p) PROVE Steady(p)'
      <3>1. AsPlanned(p)'
        BY <2>1, <2>2, <2>5 DEF Steady, AsPlanned, Shipped
      <3>2. SettingsAsSeen(p)' /\ Removing(p)'
        BY <2>1, <2>5 DEF Steady, SettingsAsSeen, Removing, Shipped
      <3> QED
        BY <3>1, <3>2 DEF Steady
    <2>6. ASSUME Matched(p) PROVE Matched(p)'
      <3>1. MemMatches(p)'
        BY <2>1, <2>2, <2>6 DEF Matched, MemMatches, Loaded
      <3>2. SavedMatches(p)' /\ HasRoom(p)'
        BY <2>1, <2>2, <2>6 DEF Matched, SavedMatches, Changing, Loaded, HasRoom
      <3> QED
        BY <3>1, <3>2 DEF Matched
    <2> QED
      BY <2>3, <2>4, <2>5, <2>6 DEF Advances
  <1> QED
    BY <1>1, <1>2

\* The end of a list of items.
LEMMA ListEndAdvances ==
  ASSUME TypeOK, TypeOK', Custody, NEW p \in Procs, Ordered(p), Phases(p), Fits(p)
  PROVE  /\ FinishItems(p) => Advances(p)
         /\ FinishRewire(p) => Advances(p)
  <1>0. NoPlan' = NoPlan /\ \A f \in Paths : NoPlan[f] = "none"
    BY DEF NoPlan
  <1>1. ASSUME FinishItems(p) PROVE Advances(p)
    <2>1. /\ pc[p] = "act" /\ job[p].op \in {"sync", "uninstall"}
          /\ pc'[p] = IF left[p] = {} THEN "save" ELSE "host"
          /\ plan[p] = NoPlan /\ ~hookPlan[p]
          /\ UNCHANGED <<shared, job, mem, dirty, left, plan, hookPlan, seenSettings,
                         backup, touched>>
      BY <1>1 DEF FinishItems, NothingPlanned, Go, TypeOK, PrivateTypes
    <2>2. /\ pc'[p] \in {"save", "host"} /\ pc'[p] = "host" => job[p].op = "sync"
          /\ job[p].op = "sync" => Claude \notin left[p]
      BY <2>1 DEF Phases, Ordered
    <2>3. \A g \in Paths : ~AtWork(p, g) /\ ~AtWork(p, g)'
      BY <2>1, <2>2 DEF AtWork
    <2>4. Phases(p)' /\ Fits(p)'
      BY <1>0, <2>1, <2>2 DEF Phases, Fits
    <2>5. ASSUME FeatureKept(p) PROVE FeatureKept(p)'
      BY <2>1, <2>2, <2>5 DEF FeatureKept, Loaded, shared
    <2>6. ASSUME Steady(p) PROVE Steady(p)'
      <3>1. AsPlanned(p)'
        BY <1>0, <2>1 DEF AsPlanned
      <3>2. SettingsAsSeen(p)' /\ Removing(p)'
        BY <2>1, <2>2, <2>6 DEF Steady, SettingsAsSeen, Removing, Shipped, shared
      <3> QED
        BY <3>1, <3>2 DEF Steady
    <2>7. ASSUME Matched(p) PROVE Matched(p)'
      <3>1. MemMatches(p)'
        BY <2>1, <2>2, <2>3, <2>7 DEF Matched, MemMatches, Loaded, shared
      <3>2. SavedMatches(p)' /\ HasRoom(p)'
        BY <2>1, <2>2, <2>7 DEF Matched, SavedMatches, Changing, Loaded, HasRoom, shared
      <3> QED
        BY <3>1, <3>2 DEF Matched
    <2> QED
      BY <2>4, <2>5, <2>6, <2>7 DEF Advances
  <1>2. ASSUME FinishRewire(p) PROVE Advances(p)
    <2>1. /\ pc[p] = "act" /\ job[p].op = "rewire" /\ pc'[p] = "load" /\ job'[p].op = "sync"
          /\ plan[p] = NoPlan /\ ~hookPlan[p]
          /\ UNCHANGED <<shared, mem, dirty, left, plan, hookPlan, seenSettings,
                         backup, touched>>
      BY <1>2 DEF FinishRewire, NothingPlanned, Go, TypeOK, PrivateTypes, Jobs
    <2>2. ~dirty[p]
      BY <2>1 DEF Phases
    <2>3. \A g \in Paths : ~AtWork(p, g) /\ ~AtWork(p, g)'
      BY <2>1 DEF AtWork
    <2>4. Phases(p)' /\ Fits(p)'
      BY <1>0, <2>1, <2>2 DEF Phases, Fits
    <2>5. FeatureKept(p)' /\ Steady(p)'
      BY <1>0, <2>1 DEF FeatureKept, Loaded, Steady, AsPlanned, SettingsAsSeen, Removing
    <2>6. ASSUME Matched(p) PROVE Matched(p)'
      <3>1. MemMatches(p)' /\ HasRoom(p)'
        BY <2>1, <2>6 DEF Matched, MemMatches, Loaded, HasRoom, shared
      <3>2. SavedMatches(p)'
        BY <2>1, <2>3, <2>6 DEF Matched, SavedMatches, Changing, Loaded, shared
      <3> QED
        BY <3>1, <3>2 DEF Matched
    <2> QED
      BY <2>4, <2>5, <2>6 DEF Advances
  <1> QED
    BY <1>1, <1>2

\* A process that does nothing: whatever the others do, there is nothing to say of it.
LEMMA RestSteady ==
  ASSUME NEW p \in Procs, Custody', Phases(p)', pc'[p] = "idle"
  PROVE  Fits(p)' /\ FeatureKept(p)' /\ Steady(p)' /\ MemMatches(p)' /\ HasRoom(p)'
  <1>1. plan'[p] = NoPlan /\ job'[p].op = "none" /\ ~hookPlan'[p]
    <2>1. NoPlan' = NoPlan
      BY DEF NoPlan
    <2> QED
      BY <2>1 DEF Custody, ProcessSafe, Phases
  <1>2. \A f \in Paths : plan'[p][f] = "none"
    BY <1>1 DEF NoPlan
  <1>3. Fits(p)' /\ FeatureKept(p)'
    BY <1>1, <1>2 DEF Fits, FeatureKept, Loaded
  <1>4. Steady(p)'
    BY <1>1 DEF Steady, AsPlanned, SettingsAsSeen, Removing
  <1>5. MemMatches(p)' /\ HasRoom(p)'
    BY <1>1 DEF MemMatches, Loaded, HasRoom
  <1> QED
    BY <1>3, <1>4, <1>5

\* However a process ends, but for a crash, and what a crash leaves.
LEMMA EndAdvances ==
  ASSUME TypeOK, TypeOK', Custody, Custody', NEW p \in Procs, Ordered(p), Phases(p), Fits(p)
  PROVE  /\ RefuseUninstall(p) \/ FinishRestore(p) \/ Save(p) \/ SettingsUnreadable(p)
            => Advances(p)
         /\ \A f \in Paths : SnapshotFails(p, f) => Advances(p)
         /\ Crash(p) => Phases(p)' /\ Fits(p)' /\ FeatureKept(p)' /\ Steady(p)'
  <1>1. ASSUME Exit(p)
        PROVE  /\ pc'[p] = "idle" /\ Phases(p)' /\ Fits(p)' /\ FeatureKept(p)' /\ Steady(p)'
               /\ MemMatches(p)' /\ HasRoom(p)'
    <2>1. pc'[p] = "idle" /\ job'[p] = NoJob /\ ~hookPlan'[p] /\ ~dirty'[p]
      BY <1>1 DEF Exit, TypeOK, PrivateTypes
    <2>2. Phases(p)'
      BY <2>1 DEF Phases, NoJob
    <2> QED
      BY <2>1, <2>2, RestSteady
  <1>2. ASSUME Exit(p), Matched(p), ~Changing(p),
               pc[p] # "torn", UNCHANGED <<disk, saved, touched>>
        PROVE  SavedMatches(p)'
    <2>1. \A f \in Paths : ~AtWork(p, f)
      BY <1>2 DEF AtWork
    <2> QED
      BY <1>2, <2>1 DEF Matched, SavedMatches
  <1>3. ASSUME RefuseUninstall(p) \/ FinishRestore(p) \/ SettingsUnreadable(p)
        PROVE  Advances(p)
    <2>1. Exit(p) /\ UNCHANGED <<disk, saved, touched>>
      BY <1>3 DEF RefuseUninstall, FinishRestore, SettingsUnreadable, shared
    <2>2. pc[p] # "torn" /\ ~Changing(p)
      BY <1>3 DEF RefuseUninstall, FinishRestore, SettingsUnreadable, Phases, Changing, Loaded
    <2>3. Matched(p) => SavedMatches(p)'
      BY <1>2, <2>1, <2>2
    <2> QED
      BY <1>1, <2>1, <2>3 DEF Advances, Matched
  <1>4. ASSUME Save(p) PROVE Advances(p)
    <2>1. /\ Exit(p) /\ pc[p] = "save" /\ UNCHANGED <<disk, touched>>
          /\ saved' = IF dirty[p] THEN mem[p] ELSE saved
      BY <1>4 DEF Save
    <2>2. \A f \in Paths : ~AtWork(p, f)
      BY <2>1 DEF AtWork
    <2>3. ASSUME Matched(p) PROVE SavedMatches(p)'
      <3>1. CASE job[p].op = "feature"
        <4>1. saved'.assets = saved.assets /\ ~Changing(p)
          BY <2>1, <2>3, <3>1 DEF Matched, MemMatches, Changing, Loaded
        <4> QED
          BY <2>1, <2>2, <2>3, <4>1 DEF Matched, SavedMatches
      <3>2. CASE job[p].op # "feature"
        <4>1. Loaded(p)
          BY <2>1, <3>2 DEF Phases, Loaded
        <4>2. saved'.assets = mem[p].assets
          BY <2>1, <2>3, <4>1 DEF Matched, MemMatches
        <4> QED
          BY <2>1, <2>2, <2>3, <4>1, <4>2 DEF Matched, MemMatches, SavedMatches
      <3> QED
        BY <3>1, <3>2
    <2> QED
      BY <1>1, <2>1, <2>3 DEF Advances, Matched
  <1>5. ASSUME NEW f \in Paths, SnapshotFails(p, f) PROVE Advances(p)
    <2>1. /\ pc[p] = "act" /\ Turn(p, f) /\ NeedsSnapshot(p, f) /\ Exit(p)
          /\ disk[f] = Absent \/ (backup[p] = 0 /\ nbackups = MaxBackups)
      BY <1>5 DEF SnapshotFails
    <2>2. ~(Steady(p) /\ Matched(p))
      <3> SUFFICES ASSUME Steady(p), Matched(p) PROVE FALSE
        OBVIOUS
      <3>1. /\ job[p].op \in {"sync", "uninstall"} /\ plan[p][f] # "none"
            /\ plan[p][f] \in {"update", "modified", "backup"}
            /\ job[p].op = "uninstall" => plan[p][f] = "backup"
        BY <2>1 DEF Turn, NeedsSnapshot, Fits
      <3>2. disk[f] # Absent /\ (plan[p][f] = "backup" => job[p].force)
        BY <2>1, <3>1 DEF Steady, AsPlanned, AtWork
      <3>3. backup[p] = 0 => nbackups < MaxBackups
        BY <2>1, <3>1, <3>2 DEF Matched, HasRoom
      <3>4. nbackups \in Nat
        BY InstallAssumption DEF TypeOK, SharedTypes
      <3> QED
        BY <2>1, <3>2, <3>3, <3>4
    <2> QED
      BY <1>1, <2>1, <2>2 DEF Advances
  <1>6. ASSUME Crash(p) PROVE Phases(p)' /\ Fits(p)' /\ FeatureKept(p)' /\ Steady(p)'
    BY <1>1, <1>6 DEF Crash
  <1> QED
    BY <1>3, <1>4, <1>5, <1>6

\* A step of p is p's alone.
LEMMA OneMoves ==
  ASSUME TypeOK, TypeOK', NEW p \in Procs, Begin(p) \/ Step(p) \/ Crash(p)
  PROVE  /\ OthersStay(p)
         /\ Begin(p) => pc[p] = "idle" /\ pc'[p] # "idle"
         /\ ~Begin(p) => pc[p] # "idle"
  <1>1. ASSUME Begin(p) PROVE OthersStay(p) /\ pc[p] = "idle" /\ pc'[p] # "idle"
    <2>1. ASSUME NEW force \in BOOLEAN, NEW hs \in SUBSET Hosts, BeginSync(p, force, hs)
          PROVE  OthersStay(p) /\ pc[p] = "idle" /\ pc'[p] # "idle"
      BY <2>1 DEF BeginSync, Go, OthersStay, PrivateSame, TypeOK, PrivateTypes
    <2>2. ASSUME NEW force \in BOOLEAN, BeginRepair(p, force)
          PROVE  OthersStay(p) /\ pc[p] = "idle" /\ pc'[p] # "idle"
      <3>1. pc'[p] \in {"rewire", "load"}
        BY <2>2 DEF BeginRepair, Go, TypeOK, PrivateTypes
      <3> QED
        BY <2>2, <3>1 DEF BeginRepair, Go, OthersStay, PrivateSame, TypeOK, PrivateTypes
    <2>3. ASSUME NEW force \in BOOLEAN, NEW orphans \in BOOLEAN,
                 BeginUninstall(p, force, orphans)
          PROVE  OthersStay(p) /\ pc[p] = "idle" /\ pc'[p] # "idle"
      BY <2>3 DEF BeginUninstall, Go, OthersStay, PrivateSame, TypeOK, PrivateTypes
    <2>4. ASSUME NEW enabled \in BOOLEAN, BeginFeature(p, enabled)
          PROVE  OthersStay(p) /\ pc[p] = "idle" /\ pc'[p] # "idle"
      BY <2>4 DEF BeginFeature, Go, OthersStay, PrivateSame, TypeOK, PrivateTypes
    <2>5. ASSUME NEW b \in BackupIds, BeginRestore(p, b)
          PROVE  OthersStay(p) /\ pc[p] = "idle" /\ pc'[p] # "idle"
      BY <2>5 DEF BeginRestore, Go, OthersStay, PrivateSame, TypeOK, PrivateTypes
    <2> QED
      BY <1>1, <2>1, <2>2, <2>3, <2>4, <2>5 DEF Begin
  <1>2. ASSUME Exit(p) PROVE OthersStay(p)
    BY <1>2 DEF Exit, OthersStay, PrivateSame, TypeOK, PrivateTypes
  <1>3. Crash(p) => OthersStay(p) /\ pc[p] # "idle"
    BY <1>2 DEF Crash
  <1>4. ASSUME \/ Load(p) \/ (\E h \in Hosts : PlanHost(p, h)) \/ PlanUninstall(p)
               \/ TruncateManifest(p) \/ RewireLoad(p) \/ TruncateSettings(p)
               \/ FinishItems(p) \/ FinishRewire(p)
        PROVE  OthersStay(p) /\ pc[p] # "idle"
    BY <1>4 DEF Load, PlanHost, PlanUninstall, TruncateManifest, RewireLoad, TruncateSettings,
                FinishItems, FinishRewire, Go, OthersStay, PrivateSame, TypeOK, PrivateTypes
  <1>5. ASSUME KeepSettings(p) \/ WriteSettings(p) PROVE OthersStay(p) /\ pc[p] # "idle"
    BY <1>5 DEF KeepSettings, WriteSettings, RecordHook, Go, OthersStay, PrivateSame,
                TypeOK, PrivateTypes
  <1>6. RefuseUninstall(p) \/ SettingsUnreadable(p) \/ FinishRestore(p) \/ Save(p)
        => OthersStay(p) /\ pc[p] # "idle"
    BY <1>2 DEF RefuseUninstall, SettingsUnreadable, FinishRestore, Save
  <1>7. ASSUME NEW f \in Paths, FileStep(p, f) PROVE OthersStay(p) /\ pc[p] # "idle"
    <2>1. CASE RecordOK(p, f) \/ SkipModified(p, f)
      BY <2>1 DEF RecordOK, SkipModified, Go, Done, OthersStay, PrivateSame,
                  TypeOK, PrivateTypes
    <2>2. CASE Snapshot(p, f) \/ WriteManifest(p, f) \/ TruncateFile(p, f)
      BY <2>2 DEF Snapshot, WriteManifest, TruncateFile, Go, OthersStay, PrivateSame,
                  TypeOK, PrivateTypes
    <2>3. CASE WriteFile(p, f) \/ RemoveFile(p, f)
      BY <2>3 DEF WriteFile, RemoveFile, Go, Done, OthersStay, PrivateSame,
                  TypeOK, PrivateTypes
    <2>4. CASE SnapshotFails(p, f)
      BY <1>2, <2>4 DEF SnapshotFails
    <2> QED
      BY <1>7, <2>1, <2>2, <2>3, <2>4 DEF FileStep
  <1>8. Step(p) => OthersStay(p) /\ pc[p] # "idle"
    BY <1>4, <1>5, <1>6, <1>7 DEF Step
  <1> QED
    BY <1>1, <1>3, <1>8

\* A step of p, other than a crash, advances p.
LEMMA StepAdvances ==
  ASSUME TypeOK, TypeOK', Custody, Custody',
         NEW p \in Procs, Ordered(p), Phases(p), Fits(p), Begin(p) \/ Step(p)
  PROVE  Advances(p)
  <1>1. ASSUME NEW f \in Paths, FileStep(p, f) PROVE Advances(p)
    BY <1>1, LookingAdvances, FilesAdvance, EndAdvances DEF FileStep
  <1> QED
    BY <1>1, BeginAdvances, PlanningAdvances, LookingAdvances, HookAdvances,
       ListEndAdvances, EndAdvances DEF Step

\* What every run relies on, however many there are.
Regular ==
  TypeOK /\ Custody /\ Shelved /\ \A p \in Procs : Phases(p) /\ Fits(p)

\* It holds at first ...
LEMMA RegularInit == ASSUME Init PROVE Regular
  <1>1. TypeOK /\ Custody /\ Shelved
    BY TypeInit, CustodyInit, ShelvedInit
  <1>2. ASSUME NEW p \in Procs PROVE Phases(p) /\ Fits(p)
    BY DEF Init, Phases, Fits, NoJob, NoPlan
  <1> QED
    BY <1>1, <1>2 DEF Regular

\* Steps of users and releases leave every process as it is.
LEMMA UserLeavesProcesses == ASSUME User \/ UNCHANGED vars PROVE UNCHANGED <<private, saved>>
  BY DEF User, EditFile, EditSettings, Upgrade, vars, shared

\* ... and every step keeps it.
LEMMA RegularStep == ASSUME Regular, [Next]_vars PROVE Regular'
  <1>1. TypeOK' /\ Custody' /\ Shelved'
    BY TypeStep, CustodyStep, ShelvedStep DEF Regular
  <1>2. ASSUME NEW p \in Procs, Begin(p) \/ Step(p) \/ Crash(p), NEW q \in Procs
        PROVE  Phases(q)' /\ Fits(q)'
    <2>1. CASE q = p
      BY <1>1, <1>2, <2>1, StepAdvances, EndAdvances DEF Regular, Shelved, Advances
    <2>2. CASE q # p
      <3>1. PrivateSame(q) /\ dirty'[q] = dirty[q] /\ left'[q] = left[q]
        BY <1>1, <1>2, <2>2, OneMoves DEF Regular, OthersStay
      <3>2. Phases(q) /\ Fits(q) /\ NoPlan' = NoPlan
        BY DEF Regular, NoPlan
      <3> QED
        BY <3>1, <3>2 DEF Phases, Fits, PrivateSame
    <2> QED
      BY <2>1, <2>2
  <1>3. ASSUME User \/ UNCHANGED vars, NEW q \in Procs PROVE Phases(q)' /\ Fits(q)'
    <2>1. UNCHANGED private /\ Phases(q) /\ Fits(q) /\ NoPlan' = NoPlan
      BY <1>3, UserLeavesProcesses DEF Regular, NoPlan
    <2> QED
      BY <2>1 DEF Phases, Fits, private
  <1> QED
    BY <1>1, <1>2, <1>3 DEF Regular, Next

\* Where runs do not overlap, the others rest while one begins, steps or ends.
LEMMA OthersRest ==
  ASSUME Regular, Regular', OneAtATime, OneAtATime', NEW p \in Procs,
         Begin(p) \/ Step(p) \/ Crash(p), NEW q \in Procs \ {p}
  PROVE  pc[q] = "idle" /\ pc'[q] = "idle"
  <1>1. pc[p] # "idle" \/ pc'[p] # "idle"
    BY OneMoves DEF Regular
  <1>2. pc'[q] = pc[q]
    BY OneMoves DEF Regular, OthersStay, PrivateSame
  <1> QED
    BY <1>1, <1>2 DEF OneAtATime

\* state.json is written by a save, and by nothing else.
LEMMA OnlySaveSaves ==
  ASSUME [Next]_vars, saved' # saved
  PROVE  \E p \in Procs : Save(p)
  <1>1. ASSUME NEW p \in Procs, Begin(p) PROVE saved' = saved
    BY <1>1 DEF Begin, BeginSync, BeginRepair, BeginUninstall, BeginFeature, BeginRestore, shared
  <1>2. ASSUME NEW p \in Procs, NEW f \in Paths, FileStep(p, f) PROVE saved' = saved
    BY <1>2 DEF FileStep, RecordOK, SkipModified, Snapshot, WriteManifest, TruncateFile,
                WriteFile, RemoveFile, SnapshotFails, shared
  <1>3. ASSUME NEW p \in Procs, Step(p), ~Save(p) PROVE saved' = saved
    BY <1>2, <1>3
    DEF Step, Load, PlanHost, PlanUninstall, RefuseUninstall, TruncateManifest, RewireLoad,
        KeepSettings, TruncateSettings, WriteSettings, SettingsUnreadable, FinishItems,
        FinishRewire, FinishRestore, shared
  <1>4. ASSUME NEW p \in Procs, Crash(p) PROVE saved' = saved
    BY <1>4 DEF Crash, shared
  <1> QED
    BY <1>1, <1>3, <1>4, UserLeavesProcesses DEF Next

\* A loaded toggle stays the recorded one.
LEMMA FeatureStep ==
  ASSUME Regular, Regular', OneAtATime, OneAtATime', [Next]_vars,
         \A p \in Procs : FeatureKept(p)
  PROVE  \A p \in Procs : FeatureKept(p)'
  <1>1. ASSUME NEW p \in Procs, Begin(p) \/ Step(p) \/ Crash(p), NEW q \in Procs
        PROVE  FeatureKept(q)'
    <2>1. CASE q = p
      BY <1>1, <2>1, StepAdvances, EndAdvances DEF Regular, Shelved, Advances
    <2>2. CASE q # p
      BY <1>1, <2>2, OthersRest, RestSteady DEF Regular
    <2> QED
      BY <2>1, <2>2
  <1>2. ASSUME User \/ UNCHANGED vars, NEW q \in Procs PROVE FeatureKept(q)'
    BY <1>2, UserLeavesProcesses DEF FeatureKept, Loaded, private
  <1> QED
    BY <1>1, <1>2 DEF Next

(***************************************************************************)
(* As long as no two runs overlap, whatever fails and whoever edits, a     *)
(* feature toggle changes only by `feedback enable` or `disable` (package  *)
(* state): sync and uninstall save the toggle that they loaded.            *)
(***************************************************************************)
THEOREM FeaturesSurvive == Spec /\ []OneAtATime => FeatureSurvives
  <1>1. Init => Regular /\ \A p \in Procs : FeatureKept(p)
    BY RegularInit DEF Init, FeatureKept, Loaded, NoJob
  <1>2. /\ Regular /\ (\A p \in Procs : FeatureKept(p)) /\ [Next]_vars
        /\ OneAtATime /\ OneAtATime'
        => (Regular /\ \A p \in Procs : FeatureKept(p))'
    BY RegularStep, FeatureStep
  <1>3. Regular /\ (\A p \in Procs : FeatureKept(p)) /\ [Next]_vars
        => [saved'.feature # saved.feature
              => \E p \in Procs : pc[p] = "save" /\ pc'[p] = "idle" /\ job[p].op = "feature"]_vars
    <2> SUFFICES ASSUME Regular, \A p \in Procs : FeatureKept(p), [Next]_vars,
                        saved'.feature # saved.feature
                 PROVE  \E p \in Procs : /\ pc[p] = "save" /\ pc'[p] = "idle"
                                         /\ job[p].op = "feature"
      OBVIOUS
    <2>1. PICK p \in Procs : Save(p)
      BY OnlySaveSaves
    <2>2. pc[p] = "save" /\ pc'[p] = "idle" /\ saved'.feature = mem[p].feature
      BY <2>1 DEF Save, Exit, Regular, TypeOK, PrivateTypes
    <2>3. job[p].op = "feature"
      BY <2>2 DEF Regular, Phases, FeatureKept, Loaded
    <2> QED
      BY <2>2, <2>3
  <1> QED
    BY <1>1, <1>2, <1>3, PTL DEF Spec, FeatureSurvives

-----------------------------------------------------------------------------
\* Nobody edits while a run works.
LEMMA EditsWait ==
  ASSUME ~EditWhileRunning, User, NEW p \in Procs, pc[p] # "idle"
  PROVE  UNCHANGED <<disk, settings, touched>>
  BY DEF User, EditFile, EditSettings, Upgrade, MayEdit

\* Every step keeps a run steady, its own and those of users.
LEMMA SteadyStep ==
  ASSUME Regular, Regular', Undisturbed, Undisturbed', [Next]_vars,
         \A p \in Procs : Steady(p)
  PROVE  \A p \in Procs : Steady(p)'
  <1>1. ASSUME NEW p \in Procs, Begin(p) \/ Step(p) \/ Crash(p), NEW q \in Procs
        PROVE  Steady(q)'
    <2>1. CASE q = p
      BY <1>1, <2>1, StepAdvances, EndAdvances DEF Regular, Shelved, Advances
    <2>2. CASE q # p
      BY <1>1, <2>2, OthersRest, RestSteady DEF Regular, Undisturbed
    <2> QED
      BY <2>1, <2>2
  <1>2. ASSUME User \/ UNCHANGED vars, NEW q \in Procs PROVE Steady(q)'
    <2>1. CASE pc[q] = "idle"
      <3>1. pc'[q] = "idle"
        BY <1>2, <2>1, UserLeavesProcesses DEF private
      <3> QED
        BY <3>1, RestSteady DEF Regular
    <2>2. CASE pc[q] # "idle"
      <3>1. UNCHANGED <<private, saved, disk, settings>>
        BY <1>2, <2>2, UserLeavesProcesses, EditsWait DEF Undisturbed, vars, shared
      <3> QED
        BY <3>1 DEF Steady, AsPlanned, AtWork, Turn, HookTurn, Shipped, SettingsAsSeen,
                    Removing, private
    <2> QED
      BY <2>1, <2>2
  <1> QED
    BY <1>1, <1>2 DEF Next

\* The two together, for any behaviour that is not disturbed.
LEMMA RunsAreSteady == Spec /\ []Undisturbed => [](Regular /\ \A p \in Procs : Steady(p))
  <1>1. Init => Regular /\ \A p \in Procs : Steady(p)
    <2> SUFFICES ASSUME Init, NEW p \in Procs PROVE Steady(p)
      BY RegularInit
    <2>1. job[p].op = "none" /\ ~hookPlan[p]
      BY DEF Init, NoJob
    <2> QED
      BY <2>1 DEF Steady, AsPlanned, SettingsAsSeen, Removing
  <1>2. /\ Regular /\ (\A p \in Procs : Steady(p)) /\ [Next]_vars
        /\ Undisturbed /\ Undisturbed'
        => (Regular /\ \A p \in Procs : Steady(p))'
    BY RegularStep, SteadyStep
  <1> QED
    BY <1>1, <1>2, PTL DEF Spec

\* Only p's own steps change what p remembers.
LEMMA OwnSteps ==
  ASSUME Regular, Regular', [Next]_vars, NEW p \in Procs, Acts(p)
  PROVE  Begin(p) \/ Step(p) \/ Crash(p)
  <1>1. ASSUME NEW q \in Procs \ {p}, Begin(q) \/ Step(q) \/ Crash(q) PROVE FALSE
    BY <1>1, OneMoves DEF Regular, OthersStay, PrivateSame, Acts
  <1>2. ~(User \/ UNCHANGED vars)
    BY UserLeavesProcesses DEF private, Acts
  <1> QED
    BY <1>1, <1>2 DEF Next

(***************************************************************************)
(* As long as no two runs overlap and nobody edits while one works: a sync *)
(* or an uninstall without --force changes a recorded file only where the  *)
(* content is the recorded one (executeAction, classifyUninstallAsset).    *)
(***************************************************************************)
THEOREM UnforcedRunsKeepModified == Spec /\ []Undisturbed => UnforcedKeepsModified
  <1>1. Regular /\ Regular' /\ (\A p \in Procs : Steady(p)) /\ [Next]_vars
        => [\A p \in Procs, f \in Paths :
              /\ Acts(p)
              /\ job[p].op \in {"sync", "uninstall"} /\ ~job[p].force
              /\ pc[p] # "torn"
              /\ disk'[f] # disk[f]
              => mem[p].assets[f] = None \/ disk[f] \in {Absent, mem[p].assets[f]}]_vars
    <2> SUFFICES ASSUME Regular, Regular', \A p \in Procs : Steady(p), [Next]_vars,
                        NEW p \in Procs, NEW f \in Paths,
                        Acts(p), job[p].op \in {"sync", "uninstall"}, ~job[p].force,
                        pc[p] # "torn", disk'[f] # disk[f]
                 PROVE  mem[p].assets[f] = None \/ disk[f] \in {Absent, mem[p].assets[f]}
      OBVIOUS
    <2>1. PICK q \in Procs, g \in Paths :
            TruncateFile(q, g) \/ WriteFile(q, g) \/ RemoveFile(q, g)
      BY OtherStepsKeepFiles DEF Regular
    <2>2. q = p
      <3>1. Step(q)
        BY <2>1 DEF Step, FileStep
      <3> QED
        BY <3>1, OneMoves DEF Regular, OthersStay, PrivateSame, Acts
    <2>3. g = f /\ Turn(p, f)
      BY <2>1, <2>2 DEF TruncateFile, WriteFile, RemoveFile, Regular, TypeOK, SharedTypes
    <2>4. ~AtWork(p, f) /\ plan[p][f] # "none" /\ Steady(p)
      BY <2>3 DEF AtWork, Turn
    <2>5. CASE TruncateFile(p, f)
      <3>1. plan[p][f] \in {"create", "update"} \/ (pc[p] = "ready" /\ plan[p][f] = "modified")
        BY <2>5, <2>4 DEF TruncateFile, Regular, Fits
      <3> QED
        BY <2>3, <2>4, <3>1 DEF Steady, AsPlanned
    <2>6. CASE RemoveFile(p, f)
      BY <2>4, <2>6 DEF RemoveFile, Steady, AsPlanned
    <2> QED
      BY <2>1, <2>2, <2>3, <2>5, <2>6 DEF WriteFile, Go
  <1> QED
    BY <1>1, RunsAreSteady, PTL DEF Spec, UnforcedKeepsModified

\* Wiring and unwiring keep what is not tpp's, whatever the document (see StopHook).
HookKeepsOwn == \A d \in Docs : Own(Wire(d)) = Own(d) /\ Own(Unwire(d)) = Own(d)

\* settings.json is torn by one step.
LEMMA OnlyTruncateTears ==
  ASSUME Regular, Regular', [Next]_vars, NEW p \in Procs,
         pc[p] = "act", pc'[p] = "hookTorn"
  PROVE  hookPlan[p]
  <1>1. Begin(p) \/ Step(p) \/ Crash(p)
    BY OwnSteps DEF Acts
  <1>2. pc \in [Procs -> Labels]
    BY DEF Regular, TypeOK, PrivateTypes
  <1>3. ~Begin(p) /\ ~Exit(p)
    BY <1>2, OneMoves DEF Exit, Regular
  <1>4. ASSUME NEW f \in Paths PROVE ~FileStep(p, f)
    BY <1>2, <1>3 DEF FileStep, RecordOK, SkipModified, Snapshot, WriteManifest, TruncateFile,
                      WriteFile, RemoveFile, SnapshotFails, Go
  <1>5. TruncateSettings(p)
    BY <1>1, <1>2, <1>3, <1>4
    DEF Step, Crash, Load, PlanHost, PlanUninstall, RefuseUninstall, TruncateManifest,
        RewireLoad, KeepSettings, WriteSettings, SettingsUnreadable, FinishItems,
        FinishRewire, FinishRestore, Save, Go
  <1> QED
    BY <1>5 DEF TruncateSettings, HookTurn

(***************************************************************************)
(* As long as no two runs overlap and nobody edits while one works, and    *)
(* wiring keeps what is not tpp's: so does every run that rewrites         *)
(* settings.json, since the document it read is the one it replaces.       *)
(***************************************************************************)
THEOREM OwnSettingsAreKept ==
  ASSUME HookKeepsOwn
  PROVE  Spec /\ []Undisturbed => OwnSettingsKept
  <1>1. Regular /\ Regular' /\ (\A p \in Procs : Steady(p)) /\ [Next]_vars
        => [\A p \in Procs :
              pc[p] = "act" /\ pc'[p] = "hookTorn" /\ settings \in Docs
              => Own(NewDoc(p)) = Own(settings)]_vars
    <2> SUFFICES ASSUME Regular, Regular', \A p \in Procs : Steady(p), [Next]_vars,
                        NEW p \in Procs,
                        pc[p] = "act", pc'[p] = "hookTorn", settings \in Docs
                 PROVE  Own(NewDoc(p)) = Own(settings)
      OBVIOUS
    <2>1. settings = seenSettings[p]
      BY OnlyTruncateTears DEF Steady, SettingsAsSeen
    <2>2. SeenDoc(p) = settings
      BY <2>1, InstallAssumption DEF SeenDoc
    <2>3. NewDoc(p) = Wire(settings) \/ NewDoc(p) = Unwire(settings)
      BY <2>2 DEF NewDoc
    <2> QED
      BY <2>3 DEF HookKeepsOwn
  <1> QED
    BY <1>1, RunsAreSteady, PTL DEF Spec, OwnSettingsKept

\* A run that saves returns by its save, or crashes before it.
LEMMA OnlySaveReturns ==
  ASSUME Regular, Regular', [Next]_vars, NEW p \in Procs, Returns(p, "save")
  PROVE  Save(p)
  <1>1. Begin(p) \/ Step(p) \/ Crash(p)
    BY OwnSteps DEF Acts, Returns
  <1>2. pc[p] = "save" /\ ~Begin(p)
    BY OneMoves DEF Returns, Regular
  <1>3. ~Crash(p)
    BY DEF Returns, Crash, Regular, TypeOK, CountTypes
  <1>4. ASSUME NEW f \in Paths PROVE ~FileStep(p, f)
    BY <1>2 DEF FileStep, RecordOK, SkipModified, Snapshot, WriteManifest, TruncateFile,
                WriteFile, RemoveFile, SnapshotFails, Go
  <1> QED
    BY <1>1, <1>2, <1>3, <1>4
    DEF Step, Load, PlanHost, PlanUninstall, RefuseUninstall, TruncateManifest, RewireLoad,
        KeepSettings, TruncateSettings, WriteSettings, SettingsUnreadable, FinishItems,
        FinishRewire, FinishRestore, Go

(***************************************************************************)
(* As long as no two runs overlap and nobody edits while one works, and    *)
(* unwiring drops every gate: an uninstall that returns after its save has *)
(* removed all that it dropped from the record and left no gate, whatever  *)
(* crashed runs left behind before it (Uninstall).                         *)
(***************************************************************************)
THEOREM UninstallsAreComplete ==
  ASSUME UnwireDropsGate
  PROVE  Spec /\ []Undisturbed => UninstallIsComplete
  <1>1. Regular /\ Regular' /\ (\A p \in Procs : Steady(p)) /\ [Next]_vars
        => [\A p \in Procs :
              Returns(p, "save") /\ job[p].op = "uninstall"
              => /\ \A f \in Paths : saved.assets[f] # None =>
                      \/ saved'.assets[f] = None /\ disk[f] = Absent
                      \/ saved'.assets[f] = saved.assets[f] /\ Shipped(p, f) = Absent
                 /\ saved'.hook = "none"
                 /\ saved.hook # "none" /\ settings \in Docs => ~HasGate(settings)]_vars
    <2> SUFFICES ASSUME Regular, Regular', \A p \in Procs : Steady(p), [Next]_vars,
                        NEW p \in Procs, Returns(p, "save"), job[p].op = "uninstall"
                 PROVE  /\ \A f \in Paths : saved.assets[f] # None =>
                             \/ saved'.assets[f] = None /\ disk[f] = Absent
                             \/ /\ saved'.assets[f] = saved.assets[f]
                                /\ Shipped(p, f) = Absent
                        /\ saved'.hook = "none"
                        /\ saved.hook # "none" /\ settings \in Docs => ~HasGate(settings)
      OBVIOUS
    <2>1. pc[p] = "save" /\ saved' = IF dirty[p] THEN mem[p] ELSE saved
      BY OnlySaveReturns DEF Save
    <2>2. /\ Removing(p) /\ ~hookPlan[p]
          /\ \A f \in Paths : plan[p][f] = "none"
      BY <2>1 DEF Steady, Regular, Phases, NoPlan
    <2>3. /\ mem[p].hook = "none"
          /\ saved.hook # "none" => /\ dirty[p]
                                    /\ settings \in Docs => ~HasGate(settings)
      BY <2>1, <2>2 DEF Removing
    <2>4. \A f \in Paths : saved.assets[f] # None =>
            \/ mem[p].assets[f] = None /\ disk[f] = Absent /\ dirty[p]
            \/ mem[p].assets[f] = saved.assets[f] /\ Shipped(p, f) = Absent
      BY <2>1, <2>2 DEF Removing
    <2> QED
      BY <2>1, <2>3, <2>4
  <1> QED
    BY <1>1, RunsAreSteady, PTL DEF Spec, UninstallIsComplete

-----------------------------------------------------------------------------
(***************************************************************************)
(* The record matches the disk.  That is no invariant: while a run works   *)
(* the files follow what it holds in memory (Matched), and between runs    *)
(* what it saved.                                                          *)
(***************************************************************************)
\* No process has been killed, and no call has failed.
Uncrashed == crashes = 0

Matching == RecordsMatchDisk /\ \A p \in Procs : pc[p] # "idle" => Matched(p)

\* Every step keeps the match, where no process is killed.
LEMMA MatchingStep ==
  ASSUME Regular, Regular', Undisturbed, Undisturbed', Uncrashed', [Next]_vars,
         \A p \in Procs : Steady(p), Matching
  PROVE  Matching'
  <1>1. ASSUME NEW p \in Procs, Begin(p) \/ Step(p) PROVE Matching'
    <2>1. \A q \in Procs \ {p} : pc[q] = "idle" /\ pc'[q] = "idle"
      BY <1>1, OthersRest DEF Undisturbed
    <2>2. Matched(p)
      <3>1. CASE pc[p] = "idle"
        <4>1. MemMatches(p) /\ HasRoom(p)
          BY <3>1 DEF Regular, Phases, MemMatches, Loaded, HasRoom
        <4>2. SavedMatches(p)
          BY <2>1, <3>1 DEF Matching, RecordsMatchDisk, Idle, SavedMatches
        <4> QED
          BY <4>1, <4>2 DEF Matched
      <3>2. CASE pc[p] # "idle"
        BY <3>2 DEF Matching
      <3> QED
        BY <3>1, <3>2
    <2>3. Matched(p)'
      BY <1>1, <2>2, StepAdvances DEF Regular, Shelved, Advances
    <2>4. RecordsMatchDisk'
      <3> SUFFICES ASSUME Idle', NEW f \in Paths, saved'.assets[f] # None, f \notin touched'
                   PROVE  disk'[f] = saved'.assets[f]
        BY DEF RecordsMatchDisk
      <3>1. pc'[p] = "idle"
        BY DEF Idle
      <3> QED
        BY <2>3, <3>1 DEF Matched, SavedMatches, Changing, Loaded, AtWork
    <2> QED
      BY <2>1, <2>3, <2>4 DEF Matching
  <1>2. ASSUME NEW p \in Procs PROVE ~Crash(p)
    BY DEF Crash, Uncrashed, Regular, TypeOK, CountTypes
  <1>3. ASSUME User \/ UNCHANGED vars PROVE Matching'
    <2>1. UNCHANGED <<private, saved, nbackups>>
      BY <1>3, UserLeavesProcesses DEF User, EditFile, EditSettings, Upgrade, vars, shared
    <2>2. ASSUME NEW p \in Procs, pc'[p] # "idle" PROVE Matched(p)'
      <3>1. pc[p] # "idle" /\ Matched(p)
        BY <2>1, <2>2 DEF Matching, private
      <3>2. UNCHANGED <<disk, touched>>
        BY <1>3, <3>1, EditsWait DEF Undisturbed, vars, shared
      <3> QED
        BY <2>1, <3>1, <3>2
        DEF Matched, MemMatches, SavedMatches, HasRoom, Changing, Loaded, AtWork, Turn,
            HookTurn, private
    <2>3. \A f \in Paths \ touched' : disk'[f] = disk[f] /\ f \notin touched
      BY <1>3 DEF User, EditFile, EditSettings, Upgrade, vars, shared, Regular, TypeOK,
                  SharedTypes
    <2>4. RecordsMatchDisk'
      BY <2>1, <2>3 DEF Matching, RecordsMatchDisk, Idle, private
    <2> QED
      BY <2>2, <2>4 DEF Matching
  <1> QED
    BY <1>1, <1>2, <1>3 DEF Next

(***************************************************************************)
(* As long as no two runs overlap, nobody edits while one works and none   *)
(* is killed: between runs a recorded file that nobody touched has the     *)
(* content that state.json records.  A run that ends in an error has       *)
(* changed no file, or none that was recorded (package state).             *)
(***************************************************************************)
THEOREM RecordsMatch ==
  Spec /\ []Undisturbed /\ []Uncrashed => []RecordsMatchDisk
  <1>1. Init => Matching
    <2> SUFFICES ASSUME Init PROVE Matching
      OBVIOUS
    <2>1. saved.assets = EmptyState.assets /\ \A p \in Procs : pc[p] = "idle"
      BY DEF Init, EmptyState
    <2>2. \A f \in Paths : saved.assets[f] = None
      BY <2>1 DEF EmptyState
    <2> QED
      BY <2>1, <2>2 DEF Matching, RecordsMatchDisk
  <1>2. /\ Regular /\ Regular' /\ (\A p \in Procs : Steady(p)) /\ Undisturbed /\ Undisturbed'
        /\ Uncrashed' /\ [Next]_vars /\ Matching
        => Matching'
    BY MatchingStep
  <1>3. Matching => RecordsMatchDisk
    BY DEF Matching
  <1> QED
    BY <1>1, <1>2, <1>3, RunsAreSteady, PTL DEF Spec
=============================================================================
