------------------------------- MODULE Install -------------------------------
(***************************************************************************)
(* The installation side of tpp: `sync`, `uninstall`, `restore`, `repair`  *)
(* and `feedback enable/disable` (internal/sync, internal/repair,          *)
(* internal/feature), the files they manage in the hosts' directories,     *)
(* Claude's settings.json, the record of the installation in state.json    *)
(* (internal/state) and the backup store.                                  *)
(*                                                                         *)
(* Any number of tpp processes run at once: nothing in the code keeps two  *)
(* of them apart.  A user edits the files between any two of their steps.  *)
(* A process dies between any two of its steps; an operation that returns  *)
(* an error leaves exactly what a crash at that point leaves, so the two   *)
(* are one action.                                                         *)
(*                                                                         *)
(* os.WriteFile truncates the file and then writes it: two steps, with the *)
(* file Torn in between.  state.json is written to a temporary file that   *)
(* is renamed over it: one step.                                           *)
(***************************************************************************)
EXTENDS Naturals

CONSTANTS
  Procs,            \* tpp processes
  Hosts,            \* discovered hosts, in the order sync visits them
  Claude,           \* the host whose settings.json carries the Stop hook
  Paths,            \* destinations of managed files, in path order
  HostOf,           \* [Paths -> Hosts]
  MaxVersion,       \* bound: number of released versions of the binary
  Digests,          \* contents the released manifests ship
  Ship,             \* [1..MaxVersion -> [Paths -> Digests \cup {Absent}]]
  UserContents,     \* contents users write; none of them is shipped
  Docs,             \* settings.json documents that parse as a JSON object
  EmptyDoc,         \* the document an absent settings.json stands for
  Wire(_),          \* wireHook on a document    (see StopHook)
  Unwire(_),        \* unwireHook on a document  (see StopHook)
  HookHealthy(_),   \* doctor reads the running binary's gate in the document
  HasGate(_),       \* some Stop command of the document is a gate of tpp's
  Own(_),           \* what in a document is not tpp's
  UserDocs,         \* settings.json contents users write; may include Torn
  InitialDisks,     \* what may be at the managed paths before the first run
  Ops,              \* operations this instance starts
  Absent, Torn, None,
  MaxEdits,         \* bound: user edits
  MaxCrashes,       \* bound: crashes and failed system calls
  MaxBackups,       \* bound: backup directories
  EditWhileRunning  \* FALSE: users edit only while no process runs

Versions == 1..MaxVersion
Contents == Digests \cup UserContents
FileValues == Contents \cup {Absent, Torn}
SettingsValues == Docs \cup {Absent, Torn}
BackupIds == 1..MaxBackups

ASSUME InstallAssumption ==
  /\ Hosts \subseteq Nat /\ Claude \in Nat /\ \A h \in Hosts : Claude <= h
  /\ Paths \subseteq Nat
  /\ HostOf \in [Paths -> Hosts]
  /\ MaxVersion \in Nat \ {0} /\ MaxEdits \in Nat /\ MaxCrashes \in Nat
  /\ MaxBackups \in Nat
  /\ Absent # Torn
  /\ {Absent, Torn, None} \cap (Contents \cup Docs) = {} /\ None \notin {Absent, Torn}
  /\ Digests \cap UserContents = {}
  /\ Ship \in [Versions -> [Paths -> Digests \cup {Absent}]]
  /\ EmptyDoc \in Docs
  /\ UserDocs \subseteq SettingsValues
  /\ InitialDisks \subseteq [Paths -> UserContents \cup {Absent}]
  /\ EditWhileRunning \in BOOLEAN
  /\ \A d \in Docs : Wire(d) \in Docs /\ Unwire(d) \in Docs

(***************************************************************************)
(* state.json: per host the digest recorded for each path, the Stop hook,  *)
(* the hosts adopted, the version that wrote it and one feature toggle.    *)
(***************************************************************************)
HookStates == {"none", "legacy", "wired"}

StateFiles ==
  [assets  : [Paths -> Digests \cup {None}],
   hook    : HookStates,
   hosts   : SUBSET Hosts,
   version : 0..MaxVersion,
   feature : BOOLEAN]

EmptyState ==
  [assets  |-> [f \in Paths |-> None],
   hook    |-> "none",
   hosts   |-> {},
   version |-> 0,
   feature |-> FALSE]

(***************************************************************************)
(* One directory of the backup store: the snapshot files, whether its      *)
(* manifest.json is there and whole, and the entries written to it so far. *)
(***************************************************************************)
Backups ==
  [files    : [Paths -> Contents \cup {Torn, None}],
   entries  : SUBSET Paths,
   manifest : {"none", "torn", "ok"}]

NewBackup ==
  [files |-> [f \in Paths |-> None], entries |-> {}, manifest |-> "none"]

(***************************************************************************)
(* The classes of a planned item.  "todo" of uninstall: "remove", and      *)
(* "backup" for a removal that snapshots the modified file first.          *)
(***************************************************************************)
Classes == {"none", "create", "update", "ok", "modified",
            "remove", "backup", "restore"}

Jobs ==
  [op : {"none", "sync", "rewire", "uninstall", "restore", "feature"},
   force : BOOLEAN, orphans : BOOLEAN, repair : BOOLEAN, ver : Versions]

NoJob == [op |-> "none", force |-> FALSE, orphans |-> FALSE,
          repair |-> FALSE, ver |-> 1]

Labels == {"idle", "load", "rewire", "host", "classify", "act",
           "archive", "manifest", "ready", "torn", "hookTorn", "save"}

VARIABLES
  version,       \* version of the installed binary
  disk,          \* [Paths -> FileValues]
  settings,      \* settings.json
  saved,         \* state.json
  backups,       \* [BackupIds -> Backups]
  nbackups,      \* number of backup directories created
  pc, job,       \* per process: where it is, and what it was asked to do
  mem,           \* per process: the state it loaded and is changing
  dirty,         \* per process: sync's stateDirty, uninstall's stateDirty
  left,          \* per process: hosts sync has still to visit
  plan,          \* per process: the items still to execute
  hookPlan,      \* per process: the Stop hook is still to be executed
  seen,          \* per process: what it last read (or restores) at each path
  seenSettings,  \* per process: the settings it read
  backup,        \* per process: its backup directory, 0 before the first
  edits, crashes,
  touched        \* history: paths whose content tpp did not install last

shared == <<version, disk, settings, saved, backups, nbackups>>
private == <<pc, job, mem, dirty, left, plan, hookPlan, seen, seenSettings, backup>>
vars == <<shared, private, edits, crashes, touched>>
-----------------------------------------------------------------------------
(***************************************************************************)
(* What a run decides about one path, from the content on disk, the        *)
(* digest state.json records and the digest the manifest ships.            *)
(***************************************************************************)

\* Mutations of SyncClass: an orphan is updated; a file without a record is
\* overwritten as if it were absent; the record is asked before the manifest;
\* the record is not asked at all.
UpdatesOrphans(content, record, shipped) ==
  IF content = Absent THEN "create"
  ELSE IF content = shipped THEN "ok"
  ELSE IF record \in {None, content} THEN "update"
  ELSE "modified"

CreatesOverUnknown(content, record, shipped) ==
  IF shipped = Absent THEN "none"
  ELSE IF content = Absent \/ record = None THEN "create"
  ELSE IF content = shipped THEN "ok"
  ELSE IF record = content THEN "update"
  ELSE "modified"

TrustsRecord(content, record, shipped) ==
  IF shipped = Absent THEN "none"
  ELSE IF content = Absent THEN "create"
  ELSE IF content \in {shipped, record} THEN "ok"
  ELSE IF record = None THEN "update"
  ELSE "modified"

ForgetsRecord(content, record, shipped) ==
  IF shipped = Absent THEN "none"
  ELSE IF content = Absent THEN "create"
  ELSE IF content = shipped THEN "ok"
  ELSE "update"

\* planAsset.  A path the manifest does not ship is an orphan or a foreign
\* file: sync reports it and plans nothing.
SyncClass(content, record, shipped) ==
  IF shipped = Absent THEN "none"
  ELSE IF content = Absent THEN "create"
  ELSE IF content = shipped THEN "ok"
  ELSE IF record \in {None, content} THEN "update"
  ELSE "modified"

\* A mutation of UninstallClass: --force removes without a backup.
ForcedRemoval(content, record, shipped, force, orphans) ==
  IF record = None \/ (shipped = Absent /\ ~orphans) THEN "none"
  ELSE IF content \in {Absent, record} \/ force THEN "remove"
  ELSE "modified"

\* classifyUninstallAsset.  "none": not recorded, or an orphan that is kept.
UninstallClass(content, record, shipped, force, orphans) ==
  IF record = None \/ (shipped = Absent /\ ~orphans) THEN "none"
  ELSE IF content \in {Absent, record} THEN "remove"
  ELSE IF force THEN "backup"
  ELSE "modified"

Shipped(p, f) == Ship[job[p].ver][f]

NoPlan == [f \in Paths |-> "none"]
NothingSeen == [f \in Paths |-> Absent]

Init ==
  /\ version = 1
  /\ disk \in InitialDisks
  /\ settings \in UserDocs
  /\ \/ saved = EmptyState
     \/ /\ Claude \in Hosts      \* an installation made before the rename
        /\ saved = [EmptyState EXCEPT !.hook = "legacy", !.hosts = {Claude}]
  /\ backups = [b \in BackupIds |-> NewBackup]
  /\ nbackups = 0
  /\ pc = [p \in Procs |-> "idle"]
  /\ job = [p \in Procs |-> NoJob]
  /\ mem = [p \in Procs |-> EmptyState]
  /\ dirty = [p \in Procs |-> FALSE]
  /\ left = [p \in Procs |-> {}]
  /\ plan = [p \in Procs |-> NoPlan]
  /\ hookPlan = [p \in Procs |-> FALSE]
  /\ seen = [p \in Procs |-> NothingSeen]
  /\ seenSettings = [p \in Procs |-> Absent]
  /\ backup = [p \in Procs |-> 0]
  /\ edits = 0 /\ crashes = 0
  /\ touched = {f \in Paths : disk[f] # Absent}

\* A process that ends, however it ends, loses what it had in memory.
Exit(p) ==
  /\ pc' = [pc EXCEPT ![p] = "idle"]
  /\ job' = [job EXCEPT ![p] = NoJob]
  /\ mem' = [mem EXCEPT ![p] = EmptyState]
  /\ dirty' = [dirty EXCEPT ![p] = FALSE]
  /\ left' = [left EXCEPT ![p] = {}]
  /\ plan' = [plan EXCEPT ![p] = NoPlan]
  /\ hookPlan' = [hookPlan EXCEPT ![p] = FALSE]
  /\ seen' = [seen EXCEPT ![p] = NothingSeen]
  /\ seenSettings' = [seenSettings EXCEPT ![p] = Absent]
  /\ backup' = [backup EXCEPT ![p] = 0]

Go(p, from, to) == pc[p] = from /\ pc' = [pc EXCEPT ![p] = to]

-----------------------------------------------------------------------------
(***************************************************************************)
(* Starting an operation.  One that may need a backup directory does not   *)
(* start once MaxBackups of them exist.                                    *)
(***************************************************************************)
RoomForBackup == nbackups < MaxBackups

BeginSync(p, force, hs) ==
  /\ "sync" \in Ops
  /\ hs # {} /\ RoomForBackup
  /\ Go(p, "idle", "load")
  /\ job' = [job EXCEPT ![p] = [NoJob EXCEPT !.op = "sync", !.force = force,
                                             !.ver = version]]
  /\ left' = [left EXCEPT ![p] = hs]
  /\ UNCHANGED <<shared, mem, dirty, plan, hookPlan, seen, seenSettings, backup,
                 edits, crashes, touched>>

\* What doctor finds wrong and repair can fix: a missing or drifted skill ...
SkillProblem ==
  \E f \in Paths : /\ HostOf[f] = Claude
                   /\ Ship[version][f] \notin {Absent, disk[f]}

\* ... and a Stop hook that is not the running binary's gate.
HookProblem == ~(settings \in Docs /\ HookHealthy(settings))

BeginRepair(p, force) ==
  /\ "repair" \in Ops
  /\ Claude \in Hosts /\ RoomForBackup
  /\ SkillProblem \/ HookProblem          \* otherwise: already healthy
  /\ Go(p, "idle", IF HookProblem THEN "rewire" ELSE "load")
  /\ job' = [job EXCEPT ![p] =
               [NoJob EXCEPT !.op = IF HookProblem THEN "rewire" ELSE "sync",
                             !.force = force, !.repair = TRUE, !.ver = version]]
  /\ left' = [left EXCEPT ![p] = {Claude}]
  /\ UNCHANGED <<shared, mem, dirty, plan, hookPlan, seen, seenSettings, backup,
                 edits, crashes, touched>>

BeginUninstall(p, force, orphans) ==
  /\ "uninstall" \in Ops
  /\ force => RoomForBackup
  /\ Go(p, "idle", "load")
  /\ job' = [job EXCEPT ![p] = [NoJob EXCEPT !.op = "uninstall", !.force = force,
                                             !.orphans = orphans, !.ver = version]]
  /\ UNCHANGED <<shared, mem, dirty, left, plan, hookPlan, seen, seenSettings,
                 backup, edits, crashes, touched>>

\* feature.Set: state.Load, then state.Save with the toggle set.
BeginFeature(p, enabled) ==
  /\ "feature" \in Ops
  /\ Go(p, "idle", "save")
  /\ job' = [job EXCEPT ![p] = [NoJob EXCEPT !.op = "feature"]]
  /\ mem' = [mem EXCEPT ![p] = [saved EXCEPT !.feature = enabled]]
  /\ dirty' = [dirty EXCEPT ![p] = TRUE]
  /\ UNCHANGED <<shared, left, plan, hookPlan, seen, seenSettings, backup,
                 edits, crashes, touched>>

\* Restore lists the whole store, and one unreadable manifest fails the
\* listing; then it reads every snapshot of the selected backup.
BeginRestore(p, b) ==
  /\ "restore" \in Ops
  /\ \A c \in BackupIds : backups[c].manifest # "torn"
  /\ backups[b].manifest = "ok"
  /\ Go(p, "idle", "act")
  /\ job' = [job EXCEPT ![p] = [NoJob EXCEPT !.op = "restore"]]
  /\ plan' = [plan EXCEPT ![p] = [f \in Paths |-> IF f \in backups[b].entries
                                                  THEN "restore" ELSE "none"]]
  /\ seen' = [seen EXCEPT ![p] = [f \in Paths |-> IF f \in backups[b].entries
                                                  THEN backups[b].files[f] ELSE Absent]]
  /\ UNCHANGED <<shared, mem, dirty, left, hookPlan, seenSettings, backup,
                 edits, crashes, touched>>

-----------------------------------------------------------------------------
(***************************************************************************)
(* sync (and the second half of repair): state.Load, then host by host     *)
(* plan and execute, then state.Save.                                      *)
(***************************************************************************)
Load(p) ==
  /\ pc[p] = "load"
  /\ mem' = [mem EXCEPT ![p] = saved]
  /\ pc' = [pc EXCEPT ![p] = IF job[p].op = "uninstall" THEN "classify" ELSE "host"]
  /\ UNCHANGED <<shared, job, dirty, left, plan, hookPlan, seen, seenSettings,
                 backup, edits, crashes, touched>>

NoneRecorded(state, h) ==
  \A f \in Paths : HostOf[f] = h => state.assets[f] = None

AdoptHost(state, h, ver) ==
  [state EXCEPT !.hosts = state.hosts \cup {h}, !.version = ver]

\* syncHost up to its loop: for Claude, read settings.json (one that does not
\* parse is an error); plan every path of the host; adopt the host (a host
\* without records loses its empty map in state.json and is adopted again).
PlanHost(p, h) ==
  /\ Go(p, "host", "act")
  /\ h \in left[p] /\ \A g \in left[p] : h <= g
  /\ h = Claude => settings # Torn
  /\ left' = [left EXCEPT ![p] = @ \ {h}]
  /\ plan' = [plan EXCEPT ![p] =
       [f \in Paths |-> IF HostOf[f] = h
                        THEN SyncClass(disk[f], mem[p].assets[f], Shipped(p, f))
                        ELSE "none"]]
  /\ seen' = [seen EXCEPT ![p] = disk]
  /\ seenSettings' = [seenSettings EXCEPT ![p] = IF h = Claude THEN settings ELSE @]
  /\ hookPlan' = [hookPlan EXCEPT ![p] = h = Claude /\ mem[p].hook # "wired"]
  /\ mem' = [mem EXCEPT ![p] = AdoptHost(mem[p], h, job[p].ver)]
  /\ dirty' = [dirty EXCEPT ![p] = \/ @
                                   \/ h \notin mem[p].hosts
                                   \/ NoneRecorded(mem[p], h)
                                   \/ mem[p].version # job[p].ver]
  /\ UNCHANGED <<shared, job, backup, edits, crashes, touched>>

(***************************************************************************)
(* Items are executed in path order.  The hook's item has no path: sync    *)
(* executes it before the host's files, uninstall after the files of       *)
(* Claude's host and before those of the other hosts.                      *)
(***************************************************************************)
HookTurn(p) ==
  /\ hookPlan[p]
  /\ job[p].op = "uninstall" => \A f \in Paths : plan[p][f] # "none" => HostOf[f] # Claude

Turn(p, f) ==
  /\ plan[p][f] # "none"
  /\ \A g \in Paths : plan[p][g] # "none" => f <= g
  /\ ~HookTurn(p)

Done(p, f) == plan' = [plan EXCEPT ![p][f] = "none"]

\* A mutation of RecordOK: a file that is in order is not recorded.
OKUnrecorded(p, f) ==
  /\ Go(p, "act", "act")
  /\ Turn(p, f) /\ plan[p][f] = "ok"
  /\ Done(p, f)
  /\ UNCHANGED <<shared, job, mem, dirty, left, hookPlan, seen, seenSettings,
                 backup, edits, crashes, touched>>

\* ActionOK: only the record is brought up to date.  The record also holds
\* the mode and version, so it can differ when the digest does not.
RecordOK(p, f) ==
  /\ Go(p, "act", "act")
  /\ Turn(p, f) /\ plan[p][f] = "ok"
  /\ Done(p, f)
  /\ mem' = [mem EXCEPT ![p].assets[f] = Shipped(p, f)]
  /\ \E other \in BOOLEAN :
       dirty' = [dirty EXCEPT ![p] = @ \/ other \/ mem[p].assets[f] # Shipped(p, f)]
  /\ UNCHANGED <<shared, job, left, hookPlan, seen, seenSettings, backup,
                 edits, crashes, touched>>

\* ActionModified without --force: a warning.
SkipModified(p, f) ==
  /\ Go(p, "act", "act")
  /\ Turn(p, f) /\ plan[p][f] = "modified" /\ ~job[p].force
  /\ Done(p, f)
  /\ UNCHANGED <<shared, job, mem, dirty, left, hookPlan, seen, seenSettings,
                 backup, edits, crashes, touched>>

NeedsSnapshot(p, f) ==
  \/ plan[p][f] \in {"update", "backup"}
  \/ plan[p][f] = "modified" /\ job[p].force

\* A mutation of BackupDir: ensure does not mind that the directory exists.
SharedBackupDir(p) == 1

\* backupStore.ensure: the directory of this run, a new one at first.
BackupDir(p) == IF backup[p] = 0 THEN nbackups + 1 ELSE backup[p]

(***************************************************************************)
(* backupStore.Snapshot: read the file, create the run's backup directory  *)
(* at the first snapshot, write the snapshot file, and rewrite             *)
(* manifest.json (truncate, then write).                                   *)
(***************************************************************************)
Snapshot(p, f) ==
  /\ Go(p, "act", "archive")
  /\ Turn(p, f) /\ NeedsSnapshot(p, f)
  /\ disk[f] # Absent
  /\ backup[p] = 0 => nbackups < MaxBackups
  /\ backup' = [backup EXCEPT ![p] = BackupDir(p)]
  /\ nbackups' = IF backup[p] = 0 THEN nbackups + 1 ELSE nbackups
  /\ backups' = [backups EXCEPT ![BackupDir(p)].files[f] = disk[f]]
  /\ seen' = [seen EXCEPT ![p][f] = disk[f]]
  /\ UNCHANGED <<version, disk, settings, saved, job, mem, dirty, left, plan,
                 hookPlan, seenSettings, edits, crashes, touched>>

TruncateManifest(p) ==
  /\ Go(p, "archive", "manifest")
  /\ backups' = [backups EXCEPT ![backup[p]].manifest = "torn"]
  /\ UNCHANGED <<version, disk, settings, saved, nbackups, job, mem, dirty, left, plan,
                 hookPlan, seen, seenSettings, backup, edits, crashes, touched>>

WriteManifest(p, f) ==
  /\ Go(p, "manifest", "ready")
  /\ Turn(p, f)
  /\ backups' = [backups EXCEPT ![backup[p]].manifest = "ok",
                                ![backup[p]].entries = @ \cup {f}]
  /\ UNCHANGED <<version, disk, settings, saved, nbackups, job, mem, dirty, left, plan,
                 hookPlan, seen, seenSettings, backup, edits, crashes, touched>>

(***************************************************************************)
(* writeSkillFile and applyRestore: os.WriteFile on the destination.       *)
(***************************************************************************)
TruncateFile(p, f) ==
  /\ Turn(p, f)
  /\ \/ pc[p] = "act" /\ plan[p][f] \in {"create", "restore"}
     \/ pc[p] = "ready" /\ plan[p][f] \in {"update", "modified"}
  /\ pc' = [pc EXCEPT ![p] = "torn"]
  /\ disk' = [disk EXCEPT ![f] = Torn]
  /\ UNCHANGED <<version, settings, saved, backups, nbackups, job, mem, dirty, left,
                 plan, hookPlan, seen, seenSettings, backup, edits, crashes, touched>>

WriteFile(p, f) ==
  /\ Go(p, "torn", "act")
  /\ Turn(p, f)
  /\ Done(p, f)
  /\ IF job[p].op = "restore"
     THEN /\ disk' = [disk EXCEPT ![f] = seen[p][f]]
          /\ touched' = touched \cup {f}
          /\ UNCHANGED <<mem, dirty>>
     ELSE /\ disk' = [disk EXCEPT ![f] = Shipped(p, f)]
          /\ touched' = touched \ {f}
          /\ mem' = [mem EXCEPT ![p].assets[f] = Shipped(p, f)]
          /\ dirty' = [dirty EXCEPT ![p] = TRUE]
  /\ UNCHANGED <<version, settings, saved, backups, nbackups, job, left,
                 hookPlan, seen, seenSettings, backup, edits, crashes>>

(***************************************************************************)
(* Uninstall.  Everything is classified before anything is removed; one    *)
(* modified path without --force, or settings that do not parse, end the   *)
(* run with nothing done.                                                  *)
(***************************************************************************)
PlanUninstall(p) ==
  LET class(f) == UninstallClass(disk[f], mem[p].assets[f], Shipped(p, f),
                                 job[p].force, job[p].orphans)
  IN
  /\ Go(p, "classify", "act")
  /\ \A f \in Paths : class(f) # "modified"
  /\ mem[p].hook # "none" => settings # Torn
  /\ plan' = [plan EXCEPT ![p] = [f \in Paths |-> class(f)]]
  /\ seen' = [seen EXCEPT ![p] = disk]
  /\ hookPlan' = [hookPlan EXCEPT ![p] = mem[p].hook # "none"]
  /\ seenSettings' = [seenSettings EXCEPT ![p] = settings]
  /\ UNCHANGED <<shared, job, mem, dirty, left, backup, edits, crashes, touched>>

RefuseUninstall(p) ==
  /\ pc[p] = "classify"
  /\ \/ \E f \in Paths :
          UninstallClass(disk[f], mem[p].assets[f], Shipped(p, f),
                         job[p].force, job[p].orphans) = "modified"
     \/ mem[p].hook # "none" /\ settings = Torn
  /\ Exit(p)
  /\ UNCHANGED <<shared, edits, crashes, touched>>

\* A mutation of DropIfEmpty: the last file of a host resets the state.
ResetIfEmpty(state, h) ==
  IF ~NoneRecorded(state, h) \/ (h = Claude /\ state.hook # "none")
  THEN state
  ELSE EmptyState

\* A host with no recorded file and no hook left is dropped from the state.
DropIfEmpty(state, h) ==
  IF ~NoneRecorded(state, h) \/ (h = Claude /\ state.hook # "none")
  THEN state
  ELSE [state EXCEPT !.hosts = @ \ {h}]

RemoveFile(p, f) ==
  /\ Turn(p, f)
  /\ \/ pc[p] = "act" /\ plan[p][f] = "remove"
     \/ pc[p] = "ready" /\ plan[p][f] = "backup"
  /\ pc' = [pc EXCEPT ![p] = "act"]
  /\ Done(p, f)
  /\ disk' = [disk EXCEPT ![f] = Absent]
  /\ mem' = [mem EXCEPT ![p] = DropIfEmpty([@ EXCEPT !.assets[f] = None], HostOf[f])]
  /\ dirty' = [dirty EXCEPT ![p] = TRUE]
  /\ touched' = touched \ {f}
  /\ UNCHANGED <<version, settings, saved, backups, nbackups, job, left, hookPlan,
                 seen, seenSettings, backup, edits, crashes>>

(***************************************************************************)
(* The Stop hook: settings.json as this run read it, rewired or unwired,   *)
(* is written back only when the bytes differ.  A document can differ from *)
(* what is on disk in layout alone, so wiring may write an equal document. *)
(***************************************************************************)
RewireLoad(p) ==
  /\ Go(p, "rewire", "act")
  /\ settings # Torn
  /\ seenSettings' = [seenSettings EXCEPT ![p] = settings]
  /\ hookPlan' = [hookPlan EXCEPT ![p] = TRUE]
  /\ UNCHANGED <<shared, job, mem, dirty, left, plan, seen, backup,
                 edits, crashes, touched>>

SeenDoc(p) == IF seenSettings[p] = Absent THEN EmptyDoc ELSE seenSettings[p]

NewDoc(p) == IF job[p].op = "uninstall" THEN Unwire(SeenDoc(p)) ELSE Wire(SeenDoc(p))

\* recordHook, or the end of uninstall: the hook in the state this run saves.
\* A rewire has not loaded the state yet.
RecordHook(p) ==
  /\ hookPlan' = [hookPlan EXCEPT ![p] = FALSE]
  /\ \/ /\ job[p].op = "sync"
        /\ mem' = [mem EXCEPT ![p].hook = "wired"]
        /\ dirty' = [dirty EXCEPT ![p] = TRUE]
     \/ /\ job[p].op = "uninstall"
        /\ mem' = [mem EXCEPT ![p] = DropIfEmpty([@ EXCEPT !.hook = "none"], Claude)]
        /\ dirty' = [dirty EXCEPT ![p] = TRUE]
     \/ /\ job[p].op = "rewire"
        /\ UNCHANGED <<mem, dirty>>

KeepSettings(p) ==
  /\ Go(p, "act", "act")
  /\ HookTurn(p)
  /\ NewDoc(p) = IF job[p].op = "uninstall" THEN SeenDoc(p) ELSE seenSettings[p]
  /\ RecordHook(p)
  /\ UNCHANGED <<shared, job, left, plan, seen, seenSettings, backup,
                 edits, crashes, touched>>

TruncateSettings(p) ==
  /\ Go(p, "act", "hookTorn")
  /\ HookTurn(p)
  /\ job[p].op = "uninstall" => NewDoc(p) # SeenDoc(p)
  /\ settings' = Torn
  /\ UNCHANGED <<version, disk, saved, backups, nbackups, job, mem, dirty, left, plan,
                 hookPlan, seen, seenSettings, backup, edits, crashes, touched>>

WriteSettings(p) ==
  /\ Go(p, "hookTorn", "act")
  /\ settings' = NewDoc(p)
  /\ RecordHook(p)
  /\ UNCHANGED <<version, disk, saved, backups, nbackups, job, left, plan, seen,
                 seenSettings, backup, edits, crashes, touched>>

-----------------------------------------------------------------------------
(***************************************************************************)
(* The end of a list of items, of a run, or of a process.                  *)
(***************************************************************************)
NothingPlanned(p) == plan[p] = NoPlan /\ ~hookPlan[p]

FinishItems(p) ==
  /\ job[p].op \in {"sync", "uninstall"}
  /\ NothingPlanned(p)
  /\ Go(p, "act", IF left[p] = {} THEN "save" ELSE "host")
  /\ UNCHANGED <<shared, job, mem, dirty, left, plan, hookPlan, seen, seenSettings,
                 backup, edits, crashes, touched>>

\* repair goes on with a sync of Claude's host.
FinishRewire(p) ==
  /\ job[p].op = "rewire"
  /\ NothingPlanned(p)
  /\ Go(p, "act", "load")
  /\ job' = [job EXCEPT ![p].op = "sync"]
  /\ UNCHANGED <<shared, mem, dirty, left, plan, hookPlan, seen, seenSettings,
                 backup, edits, crashes, touched>>

FinishRestore(p) ==
  /\ job[p].op = "restore"
  /\ pc[p] = "act" /\ NothingPlanned(p)
  /\ Exit(p)
  /\ UNCHANGED <<shared, edits, crashes, touched>>

\* State.Save: nothing is written unless something changed.
Save(p) ==
  /\ pc[p] = "save"
  /\ saved' = IF dirty[p] THEN mem[p] ELSE saved
  /\ Exit(p)
  /\ UNCHANGED <<version, disk, settings, backups, nbackups, edits, crashes, touched>>

\* settings.json does not parse: the error ends the run, nothing is saved.
SettingsUnreadable(p) ==
  /\ settings = Torn
  /\ \/ pc[p] = "host" /\ Claude \in left[p]
     \/ pc[p] = "rewire"
  /\ Exit(p)
  /\ UNCHANGED <<shared, edits, crashes, touched>>

\* Snapshot fails before it wrote anything: the file is gone, or another
\* process took the last backup directory the bound allows.
SnapshotFails(p, f) ==
  /\ pc[p] = "act" /\ Turn(p, f) /\ NeedsSnapshot(p, f)
  /\ disk[f] = Absent \/ (backup[p] = 0 /\ nbackups = MaxBackups)
  /\ Exit(p)
  /\ UNCHANGED <<shared, edits, crashes, touched>>

Crash(p) ==
  /\ pc[p] # "idle"
  /\ crashes < MaxCrashes
  /\ crashes' = crashes + 1
  /\ Exit(p)
  /\ UNCHANGED <<shared, edits, touched>>

-----------------------------------------------------------------------------
(***************************************************************************)
(* The user, and the host application that owns settings.json.             *)
(***************************************************************************)
MayEdit ==
  /\ edits < MaxEdits
  /\ EditWhileRunning \/ \A p \in Procs : pc[p] = "idle"

EditFile(f, c) ==
  /\ MayEdit
  /\ c # disk[f]
  /\ disk' = [disk EXCEPT ![f] = c]
  /\ touched' = touched \cup {f}
  /\ edits' = edits + 1
  /\ UNCHANGED <<version, settings, saved, backups, nbackups, private, crashes>>

EditSettings(s) ==
  /\ MayEdit
  /\ s # settings
  /\ settings' = s
  /\ edits' = edits + 1
  /\ UNCHANGED <<version, disk, saved, backups, nbackups, private, crashes, touched>>

\* A newer binary is put in place; processes that run keep the old one.
Upgrade ==
  /\ version < MaxVersion
  /\ version' = version + 1
  /\ UNCHANGED <<disk, settings, saved, backups, nbackups, private, edits, crashes, touched>>

-----------------------------------------------------------------------------
Begin(p) ==
  \/ \E force \in BOOLEAN, hs \in SUBSET Hosts : BeginSync(p, force, hs)
  \/ \E force \in BOOLEAN : BeginRepair(p, force)
  \/ \E force, orphans \in BOOLEAN : BeginUninstall(p, force, orphans)
  \/ \E enabled \in BOOLEAN : BeginFeature(p, enabled)
  \/ \E b \in BackupIds : BeginRestore(p, b)

FileStep(p, f) ==
  \/ RecordOK(p, f) \/ SkipModified(p, f)
  \/ Snapshot(p, f) \/ WriteManifest(p, f)
  \/ TruncateFile(p, f) \/ WriteFile(p, f) \/ RemoveFile(p, f)
  \/ SnapshotFails(p, f)

Step(p) ==
  \/ Load(p)
  \/ \E h \in Hosts : PlanHost(p, h)
  \/ PlanUninstall(p) \/ RefuseUninstall(p)
  \/ \E f \in Paths : FileStep(p, f)
  \/ TruncateManifest(p)
  \/ RewireLoad(p) \/ KeepSettings(p) \/ TruncateSettings(p) \/ WriteSettings(p)
  \/ SettingsUnreadable(p)
  \/ FinishItems(p) \/ FinishRewire(p) \/ FinishRestore(p) \/ Save(p)

User ==
  \/ \E f \in Paths, c \in UserContents \cup {Absent} : EditFile(f, c)
  \/ \E s \in UserDocs : EditSettings(s)
  \/ Upgrade

Next ==
  \/ \E p \in Procs : Begin(p) \/ Step(p) \/ Crash(p)
  \/ User

Spec == Init /\ [][Next]_vars

-----------------------------------------------------------------------------
(***************************************************************************)
(* Properties.                                                             *)
(***************************************************************************)

SharedTypes ==
  /\ version \in Versions
  /\ disk \in [Paths -> FileValues]
  /\ settings \in SettingsValues
  /\ saved \in StateFiles
  /\ backups \in [BackupIds -> Backups]
  /\ nbackups \in 0..MaxBackups

PrivateTypes ==
  /\ pc \in [Procs -> Labels]
  /\ job \in [Procs -> Jobs]
  /\ mem \in [Procs -> StateFiles]
  /\ dirty \in [Procs -> BOOLEAN]
  /\ left \in [Procs -> SUBSET Hosts]
  /\ plan \in [Procs -> [Paths -> Classes]]
  /\ hookPlan \in [Procs -> BOOLEAN]
  /\ seen \in [Procs -> [Paths -> FileValues]]
  /\ seenSettings \in [Procs -> SettingsValues]
  /\ backup \in [Procs -> 0..MaxBackups]

CountTypes ==
  /\ edits \in 0..MaxEdits /\ crashes \in 0..MaxCrashes
  /\ touched \in SUBSET Paths

EntriesExist ==
  \A b \in BackupIds : \A f \in backups[b].entries : backups[b].files[f] # None

\* The types, and: the entries of a manifest name snapshots that exist.
TypeOK == SharedTypes /\ PrivateTypes /\ CountTypes /\ EntriesExist

Idle == \A p \in Procs : pc[p] = "idle"

Acts(p) == pc'[p] # pc[p] \/ plan'[p] # plan[p]

\* The run returned, by its own doing.
Returns(p, from) == pc[p] = from /\ pc'[p] = "idle" /\ crashes' = crashes

\* The content read at f is in the run's backup, and the manifest lists it.
Held(p, f) ==
  /\ backup[p] # 0
  /\ backups[backup[p]].files[f] = seen[p][f]
  /\ seen[p][f] # Absent

Listed(p, f) ==
  /\ backups[backup[p]].manifest = "ok"
  /\ f \in backups[backup[p]].entries

ItemSafe(p, f) ==
  /\ plan[p][f] = "restore" => job[p].op = "restore"
  /\ plan[p][f] \in {"create", "ok", "update", "modified"} => Shipped(p, f) # Absent
  /\ plan[p][f] = "create" => seen[p][f] = Absent
  /\ plan[p][f] = "remove" => seen[p][f] \in Digests \cup {Absent}
  /\ Turn(p, f) /\ pc[p] \in {"archive", "manifest"}
     => plan[p][f] \in {"update", "modified", "backup"} /\ Held(p, f)
  /\ Turn(p, f) /\ pc[p] = "ready"
     => plan[p][f] \in {"update", "modified", "backup"} /\ Held(p, f) /\ Listed(p, f)
  /\ Turn(p, f) /\ pc[p] = "torn"
     => \/ plan[p][f] \in {"create", "restore"}
        \/ plan[p][f] \in {"update", "modified"} /\ Held(p, f) /\ Listed(p, f)

ProcessSafe(p) ==
  /\ backup[p] <= nbackups
  /\ \A q \in Procs \ {p} : backup[p] # 0 => backup[q] # backup[p]
  /\ pc[p] = "idle" => plan[p] = NoPlan
  /\ hookPlan[p] \/ pc[p] = "hookTorn" => seenSettings[p] # Torn

(***************************************************************************)
(* What keeps a user's content safe while a process works on its items:    *)
(* no two processes share a backup directory; "create" and "remove" are    *)
(* planned only on a file that was absent or tpp's own; every other write  *)
(* goes through a snapshot of what was read, listed before the write.      *)
(***************************************************************************)
Custody == \A p \in Procs : ProcessSafe(p) /\ \A f \in Paths : ItemSafe(p, f)

\* p changes a user's file: it is not the file p saw, or a listed snapshot has it.
SafeOverwrite(p, f) ==
  /\ Acts(p) /\ job[p].op # "restore"
  /\ disk[f] \in UserContents /\ disk'[f] # disk[f]
  => seen[p][f] # disk[f] \/ (Held(p, f) /\ Listed(p, f))

(***************************************************************************)
(* sync, repair and uninstall never destroy a content a user wrote unless  *)
(* this run has already put it in a backup that `restore` can list - or    *)
(* the user wrote it after the run's last look at the file.  restore is    *)
(* the code's declared exception (the package comment of internal/sync).   *)
(***************************************************************************)
OverwritesAreSnapshotted == [][\A p \in Procs, f \in Paths : SafeOverwrite(p, f)]_vars

(***************************************************************************)
(* A snapshot that was entered in a manifest is there for good, with the   *)
(* content it was taken with: no later run, and no run beside this one,    *)
(* writes into the backup of another (backupStore.ensure).                 *)
(***************************************************************************)
SnapshotsAreKept ==
  [][\A b \in BackupIds : \A f \in backups[b].entries :
       /\ f \in backups'[b].entries
       /\ backups'[b].files[f] = backups[b].files[f]]_vars

(***************************************************************************)
(* Without --force sync, repair and uninstall leave alone every recorded   *)
(* file whose content is not the recorded one (executeAction's modified    *)
(* case, classifyUninstallAsset), as long as nobody edits while they run.  *)
(***************************************************************************)
UnforcedKeepsModified ==
  [][\A p \in Procs, f \in Paths :
       /\ Acts(p)
       /\ job[p].op \in {"sync", "uninstall"} /\ ~job[p].force
       /\ pc[p] # "torn"
       /\ disk'[f] # disk[f]
       => mem[p].assets[f] = None \/ disk[f] \in {Absent, mem[p].assets[f]}]_vars

(***************************************************************************)
(* Between runs, a recorded file nobody touched has the content that       *)
(* state.json records (package state: "with the digest it wrote").         *)
(***************************************************************************)
RecordsMatchDisk ==
  Idle => \A f \in Paths :
            saved.assets[f] # None /\ f \notin touched => disk[f] = saved.assets[f]

(***************************************************************************)
(* A path planned as modified was modified by somebody else than tpp: "our *)
(* record says we wrote it, the disk says someone changed it" (plan.go).   *)
(***************************************************************************)
ModifiedIsSomeoneElses ==
  \A p \in Procs, f \in Paths : plan[p][f] = "modified" => f \in touched

(***************************************************************************)
(* A run that rewrites settings.json keeps all that is not tpp's in the    *)
(* document it replaces ("merging into settings.json without touching      *)
(* anything it does not own"), as long as nobody edits while it runs.      *)
(***************************************************************************)
OwnSettingsKept ==
  [][\A p \in Procs :
       pc[p] = "act" /\ pc'[p] = "hookTorn" /\ settings \in Docs
       => Own(NewDoc(p)) = Own(settings)]_vars

(***************************************************************************)
(* An uninstall that returns after its last save leaves none of the files  *)
(* it dropped from state.json and, when the hook was recorded, no gate.    *)
(***************************************************************************)
UninstallIsComplete ==
  [][\A p \in Procs :
       Returns(p, "save") /\ job[p].op = "uninstall"
       => /\ \A f \in Paths : saved.assets[f] # None =>
               \/ saved'.assets[f] = None /\ disk[f] = Absent
               \/ saved'.assets[f] = saved.assets[f] /\ Shipped(p, f) = Absent
          /\ saved'.hook = "none"
          /\ saved.hook # "none" /\ settings \in Docs => ~HasGate(settings)]_vars

(***************************************************************************)
(* A feature toggle changes only by `feedback enable` or `disable`: it     *)
(* survives every sync, update, uninstall and crash (package state).       *)
(***************************************************************************)
FeatureSurvives ==
  [][saved'.feature # saved.feature
     => \E p \in Procs : pc[p] = "save" /\ pc'[p] = "idle" /\ job[p].op = "feature"]_vars

\* The operator who syncs again and again; a started run goes on.
LiveSpec ==
  /\ Spec
  /\ \A p \in Procs : WF_vars(Step(p)) /\ SF_vars(BeginSync(p, TRUE, Hosts))

Installed ==
  \A f \in Paths : Ship[version][f] # Absent =>
    disk[f] = Ship[version][f] /\ saved.assets[f] = Ship[version][f]

(***************************************************************************)
(* Whatever state crashes, failed calls and users left behind, an operator *)
(* who runs `sync --force` on every host again and again ends with every   *)
(* shipped file installed and recorded, unless settings.json stays         *)
(* unreadable: sync refuses that one and leaves it to the user.            *)
(***************************************************************************)
Converges == <>[](settings # Torn) => <>[]Installed

(***************************************************************************)
(* A repair that ran to its end leaves a hook that doctor finds healthy    *)
(* ("brings a broken installation back to what doctor reports healthy").   *)
(***************************************************************************)
RepairHeals ==
  [][\A p \in Procs : Returns(p, "save") /\ job[p].repair => ~HookProblem]_vars
=============================================================================
