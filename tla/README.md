# tpp in TLA+

`tpp` is a command-line tool written in Go. It installs a set of skills (files)
into the configuration directories of coding agents ("hosts"), wires a Stop hook
into Claude's `settings.json`, and keeps a test plan in Markdown whose rows are
evidence and findings. A gate looks at the plan when an agent stops, evidence is
admitted by running it, runs are reported to a local telemetry directory, and a
benchmark measures agents against fixtures with known defects. This directory
holds a formal model of it: TLA+ modules translated from the source, the
instances TLC checks, and proofs that the TLA+ proof system checks.

Paths below are relative to `src/`.

## Inventory

| Part | State it keeps | Operations | What is hard | What makes it correct |
|---|---|---|---|---|
| `internal/sync` (sync, plan) | managed files of every host | plan a host, execute its items, record | crashes anywhere, user edits at any moment, other runs, no lock | a user's content is never lost; the record agrees with the disk; running again repairs everything |
| `internal/sync/uninstall` | the same files, settings.json, state.json | classify all, refuse or apply, save | partial failure, a file that changes after it was classified | complete when it succeeds, nothing done when it refuses |
| `internal/sync/backup`, `restore` | `backups/<id>/` with snapshots and a manifest | snapshot, rewrite the manifest, list, restore | torn manifests, two runs in one instant | a listed snapshot stays and stays the same |
| Stop hook (`wireHook`, `unwireHook`, `hookcmd`, `doctor.hookWired`) | the Stop entries of settings.json | wire, unwire, recognise | settings are shared with the host application and with the user | everything that is not tpp's survives |
| `internal/state`, `internal/feature` | `state.json` | load, save by rename, toggle | lost updates between runs, move of the pre-rename directory | toggles survive, records describe what was written |
| `internal/repair`, `internal/doctor` | none of their own | inspect, rewire, sync | two readers of one document with different rules | after a repair doctor is satisfied |
| `internal/plan` (add-finding, upgrade, lock, init), `internal/admit` | the plan file, a lock file per plan | read, check, replace under a lock | several writers, slow rows between read and write, a bounded wait for the lock | no row is lost, no observation is recorded for a plan it was not made on |
| `internal/evidence`, `internal/admit/replay` | none (a staged copy of the tree) | run a row twice, compare digests, replay edits | timeouts, partial failures, order of refusals | an admitted row was reproducible and falsifiable |
| `internal/gate`, `internal/check` | the gate's log | decide one Stop | unreadable inputs, budgets | the gate never blocks on its own failure and never passes what it judged untested |
| `internal/plan` (check, gaps) | none | scan tables, count rows | cut tables, vocabulary | what is owed is counted once |
| `internal/feedback`, `internal/sanitize` | salt, pseudonym map, ledger, Markdown | record, summarise | several processes publish one salt; three appends | pseudonyms stay stable, every ledger row is resolvable |
| `internal/update` | a cache entry | check, save | failed checks | a known version is not forgotten |
| `internal/tui` | screen state | read keys, redraw | reader goroutine, escape timer | no key is lost, the frame fits |
| `internal/bench` | results, history | schedule units, charge a budget, retry | concurrency, a shared ceiling, calls that outlive their deadline | no unit is charged twice, lost, or held up by one that hangs |
| `cmd/tpp` | none | flags, dispatch | - | - |

The parts meet in files, not in calls: `sync`, `uninstall`, `repair` and
`feedback enable` all load and save `state.json`; `sync`, `repair` and
`uninstall` write `settings.json`, which the host application owns; `restore`
reads what `sync` and `uninstall` snapshot; `doctor` reads what they all wrote.
Nothing keeps two runs of the installation side apart, so every shared file is
a place where two runs, a run and a user, or a run and its own crash meet. Only
the plan file has a lock. `gate` and `check` read the plan that the plan commands
and `admit` write, and answer the same question by different rules. The
telemetry directory is shared by every process that reports. Only the benchmark
and the terminal interface run goroutines side by side within one process.

## Modules

| Module | Models |
|---|---|
| `Install` | the installation side: sync, uninstall, restore, repair and the feature toggle, as processes that take one step at a time over the managed files, settings.json, state.json and the backup store |
| `StopHook` | what wiring and unwiring do to a settings document, and what doctor reads in it; pure operators |
| `MCInstall` | finite instances of `Install`, with its settings documents interpreted by `StopHook` |
| `InstallProofs` | theorems about `Install` for all values of its constants, for overlapping runs and for runs one after another |
| `PlanLog` | what the plan file promises the commands that share it: a log to which each command makes one change |
| `PlanStore` | the commands that write the plan file, step by step, with the lock; implements `PlanLog` |
| `MCPlan` | finite instances of `PlanStore` |
| `PlanStoreProofs` | theorems about `PlanStore`, among them that it implements `PlanLog` and that its writes are reached |
| `PlanDoc` | how a plan is read: sections, fences, tables, the gap counts, the rules of `plan check`; pure operators, and a draft written line by line |
| `Session` | a working session: the agent, the Stop gate, `tpp check`; reads its plans through `PlanDoc` |
| `Evidence` | admission of ledger rows: two runs, replay of edits, pins |
| `EvidenceProofs` | what an admission is worth, and that pins are honest, for any ledger and tree |
| `StateRoot` | the installation root: adoption of the pre-rename directory, state.json, the update cache, the update itself |
| `StateRootProofs` | one record, truthful status, no step back: for any commands, crashes and versions |
| `Telemetry` | one telemetry directory under several processes |
| `TelemetryProofs` | stable pseudonyms, exact counts and a map of rows only, for any processes and reports |
| `Terminal` | the reader goroutine, the key decoder with its timeout, the views and their viewport |
| `ReadingProofs` | what is read and shown: keys and screen, plan documents, the answers of the gate and the check, for any presses, documents and sessions |
| `MCParts` | one finite instance of the six parts above, which share no variable |
| `MCFence` | drafts with fenced examples, over `PlanDoc` |
| `BenchScore` | scoring, discrimination, adjudication and aggregation; pure operators |
| `Bench` | a benchmark run from its cases to its records, the deciders and the rescore after it; implements `Pool` |
| `Pool` | what the pool of workers promises: slots, one shared budget, each unit at most once |
| `PoolProofs` | theorems about `Pool` |
| `BenchProofs` | theorems about `Bench`, among them that it implements `Pool` |
| `MCBench` | a finite instance of `Bench`: fixtures, workspaces, invocations |

### Install: state and actions

Shared state: `version` (the installed binary), `disk` (content at every managed
path), `settings`, `saved` (state.json), `backups` and `nbackups` (the store).
Per process: `pc`, `job` (what it was asked), `mem` (the state it loaded and
changes), `dirty`, `left` (hosts still to visit), `plan` and `hookPlan` (items
still to execute), `seen` and `seenSettings` (what it last read), `backup` (its
backup directory). `touched` is a history variable: the paths whose content tpp
was not the last to install.

A content is a model value; equality of digests is equality of contents.
`Absent` is no file, `Torn` a file that `os.WriteFile` truncated and has not
finished.

| Action | Code |
|---|---|
| `BeginSync`, `BeginUninstall`, `BeginRestore`, `BeginRepair`, `BeginFeature` | the commands in `cmd/tpp/main.go`, `Restore` up to its first write, `repair.Run` up to the rewire, `feature.Set` |
| `Load` | `state.Load` |
| `PlanHost` | `syncHost` up to its loop: settings, `buildHostPlan` with `planAsset` (`SyncClass`), `adoptHost` |
| `PlanUninstall`, `RefuseUninstall` | `planUninstall` with `classifyUninstallAsset` (`UninstallClass`), and the two refusals |
| `RecordOK`, `SkipModified` | the cases of `executeAction` that write no file |
| `Snapshot`, `TruncateManifest`, `WriteManifest` | `backupStore.Snapshot` with `ensure` and `writeManifest` |
| `TruncateFile`, `WriteFile` | `writeSkillFile` and `applyRestore`, then the record in memory |
| `RemoveFile` | `applyUninstall` for one asset, with the part of its cleanup that concerns it |
| `RewireLoad` | `RewireStopHook` up to the write |
| `KeepSettings`, `TruncateSettings`, `WriteSettings` | `persistWiredHook` and uninstall's hook case |
| `FinishItems`, `FinishRewire`, `FinishRestore`, `Save` | ends of loops, `state.Save` |
| `SettingsUnreadable`, `SnapshotFails` | the errors that depend on the state |
| `Crash` | the process dies, or any other system call fails |
| `EditFile`, `EditSettings`, `Upgrade` | the user, the host application, a newer binary (outside the repository) |

`os.WriteFile` truncates and then writes, so it is two steps with a torn file in
between. `state.json` is replaced by a rename: one step. An error that ends a
run leaves on disk what a crash at that point leaves, and the next run cannot
tell the two apart; so every failing system call is `Crash`.

The settings documents are opaque in `Install` (constants `Wire`, `Unwire`,
`HookHealthy`, `HasGate`, `Own`); `MCInstall` gives them `StopHook`'s meaning: a
document is its sequence of Stop entries, each a sequence of commands, and the
rest of the file.

### PlanStore: state and actions

Shared: `file` (the plan at its own name `Real`, and symlinks to it), `lock` (one
per canonical path). Per process: `pc`, `job` (the invocation), `target` (the
path it reads and replaces), `key` (the path its lock is named after), `raw` (the
plan it read). `replaced` is a history variable: `plan init` has truncated a
plan. A document is who judged each finding, the ledger's rows with the command
and the recorded digest of each, and whether the tables have a Run column; a
digest stands for the command it is an observation of.

| Action | Code |
|---|---|
| `BeginWriter` | `AddFinding`, `Upgrade` up to the lock: the path is canonicalised |
| `BeginAdmit`, `RunRows` | `admit.Run` up to the write: the plan is read without a lock, the rows run, those admitted are recorded in memory |
| `OpenLock`, `Lock` | `LockPlan`, `lockFile` |
| `TakeOver`, `Timeout`, `LateLock`, `Exit` | `lockPlanWithBound`: the goroutine hands the lock over, or the timer fires first and a late grant is given back |
| `ReadPlan`, `CompareWithRead` | `addFinding` and `upgrade` read under the lock; `writeRecorded` compares with what it read before |
| `Rename`, `Unlock` | `writePlan`, `writeRecordedAtomically`; the deferred `UnlockPlan` |
| `Refuse` | every return before the rename |
| `BeginInit`, `InitTruncate`, `InitFill` | `initFrom`: stat, truncate, write, without a lock |
| `Crash`, `EditPlan` | the process dies; the user enters a row (outside the repository) |

### PlanDoc and Session: state and actions

A document is a sequence of lines: headings, table rows with their cells, fences,
declarations, prose. `OpenFence`, `SectionRegion`, `ScanTable`, `Interrupted`
follow the scanner in `internal/plan/plan.go`; `CheckDocument` is the rules of
`plan check`, as the set of broken rules with their lines; `GapsForRun` and
`MicroActivated` are `internal/plan/gaps.go`. `draft` grows by one line per
`WriteLine`, so TLC meets every document up to a length.

`Session` keeps what git says of each file, which files the session touched, the
plan at each place, the declaration, the opt-out, what the transcript shows, and
what the operator last heard.

| Action | Code |
|---|---|
| `Edit`, `Rearrange`, `Commit`, `LoadSkill`, `WritePlan`, `Configure` | the agent and the operator (outside the repository) |
| `AskToStop`, `NewSession` | the host (outside the repository) |
| `RunStopHook` with `Decide`, `Judge`, `ChangedSources`, `DisciplineRan`, `Audit`, `AuditLine` | `gate.Run`, `gate.Decide` and what they call, in their order |
| `StopUnread` | the payload that does not parse |
| `CheckRun` | `check.Run`: an exit code, a function of the state |

### Evidence: state and actions

Shared: `tree` (the working tree the rows run in), `rows` and `pins` (the ledger
and its Digest and Mode columns), `hasMode`. `admission` is the invocation: the
row at hand, where it is, what its runs gave so far. A run's outcome is drawn
from what its command can do: steady, moving output, silent, flaky, red, or one
that writes into the tree; any run may end by its deadline or fail to start.

| Action | Code |
|---|---|
| `BeginAdmission` | `admit.Run` up to the rows |
| `Screen` | `Admit` for one row: every refusal before a run, in the order of the code |
| `FirstRun`, `SecondRun` | the two runs and `admitRow`'s comparisons, also with the pin |
| `Stage`, `MutatedRun`, `RestoredRun` | `replay.go`: the staged copy, each edit applied and undone |
| `Record` | the digests and modes of the rows to record (their write is `PlanStore`'s) |
| `Interrupt`, `EditTree` | a signal; the user changes the tree between admissions |

### StateRoot: state and actions

Shared: `place` (what each of the two paths is), `record` and `cache` (the files
of each directory), `binary`. Per process: one `job`. A binary from before the
rename (`old`) keeps using the old path.

| Action | Code |
|---|---|
| `Change`, `Status`, `Update` | `feature.Set` and a sync's record; the status commands; `tpp update` |
| `Lstat`, `Stat`, `Rename`, `Symlink` | `resolveRoot` and `adoptLegacyRoot`, again for every file a command opens |
| `Load`, `OpenState`, `ReplaceState` | `state.Load`, `state.Save` with its rename |
| `Check`, `OpenCache`, `WriteCache`, `ReadCache` | the proxy's answer, `SaveCache` (truncate, write), `LoadCache` |
| `Finish` | `Compare` and the install |
| `Crash`, `Corrupt` | the process dies or a call fails; the user saves a file that is no record |

### Telemetry: state and actions

Shared: `salt`, `map`, `ledger`, `markdown`, `gatelog`; `links` says whether the
file system has hard links. Per writer: the report at hand, the key it read, the
names still to remember. An append may fail, or leave a cut line that the next
append completes; `torn` remembers which files that happened to.

| Action | Code |
|---|---|
| `Submit` | `feedback.Record` and `appendEntry` with what they were given |
| `ReadSalt`, `CreateSalt`, `NoKey` | `LoadKeyIn`, `createSalt` by link or by rename, its errors |
| `Sanitize` | `Field`, `Verify` |
| `Remember` | one line of the pseudonym map |
| `AppendRow`, `Markdown`, `AppendEntry` | the ledger, the rendering with its header, the gate's log |
| `Die` | the process dies |

### Terminal: state and actions

`wire` (bytes typed and not read), `chunk` (what the reader handed over),
`pending` (bytes the decoder holds), `keys`, and the screen: view, selection,
`scroll`, `frame`, `page`, and what was last `drawn` on how many rows. `mode` says
whether the loop runs, is blocked by a dry run, or how it ended.

| Action | Code |
|---|---|
| `Press`, `Close`, `Resize` | the user (outside the repository) |
| `ReadLoop`, `TakeChunk`, `Flush` | the goroutine of `tui.Run`, the channel's receive with `Decode`, the timer |
| `Quit`, `HandleMenu`, `Leave`, `HandleFeatures`, `HandleScroll` | `handle` and the views' key handlers, each with its redraw, whose failing write ends the loop; the plan's menu item writes its three-line `Acknowledgement` past the viewport and blocks |
| `Planned` | `SyncPlan` returns to `handleMenu`, and its view is drawn |

### Bench: state and actions

`unit` (each case and repetition: where it is, its tries, its result), `dir` (its
directory of results: the workspace, the copied plan, the result, the
adjudication), `spent`, `agg`, `code`, `files`; per decider, what it has read.

| Action | Code |
|---|---|
| `Prepare` | `Run` up to the pool |
| `Acquire`, `Start` | the semaphore and `schedule`'s look at the ceiling |
| `Scaffold`, `Attempt`, `ScoreUnit`, `Finish`, `Pay` | `runUnit` from the scaffold to the record, with the retries; the charge when it is over |
| `Panic` | the recovered panic of a unit |
| `Hang` | a call in the scaffold, the attempt or the scoring that never returns (`claudeAgent`, `piAgent`, `RunSuite`, `runCapture`, `gitRun`) |
| `Tally`, `WriteAggregate`, `WriteSummary`, `AppendHistory` | the end of `Run`, with the exit code |
| `Read`, `Record` | `bench adjudicate`, whose read and rename are apart |
| `Reword` | somebody edits a kept plan (outside the repository) |
| `Rescore` | `bench rescore` |

`Pool` says of the same units only: waiting, held, running, ran, skipped, and what
was spent.

### What is abstracted

In `PlanDoc` and `Session`: a cell is a word, so column widths, escapes and the
shape of slugs are left out; which cells cite a `path:line` is the constant
`Cited`. What a message says is the claim it makes. The gate's window is the
session, or eight hours that cover every file. `MaxStatusEntries` is 20000 in
the source.

In `Evidence`: the markup of a row and the grammar of its command are the
`defects` it comes with; a digest is the output it is of; the sandbox is that a
row runs on a copy. The deadline of a run and a shell that cannot start are runs
that end red with a reason.

In `StateRoot`: the record has as many parts as `Fields`; a write into the cache
is truncated first and then whole, and two at once may mix. The module proxy
answers any release.

In `Telemetry`: which text is redacted or refused is given with the report. A
pseudonym is its salt and its name, which is what a keyed digest tells apart. `key.ID`
also puts the role of a name in front (`internal/sanitize/sanitize.go:117-125`), so that
one string used as a repository and as a plan has two pseudonyms: names are given by
role (`Repos`, `Plans`), and no name has two.
Lines are sets, since no reader depends on their order.

In `Terminal`: presses are the keys that the decoder tells apart, as bytes; what a
frame says is its number of lines, which handlers choose from `Frames`. Columns are
left out, but for the source's own claim that `clip` keeps a line from wrapping.

In `Bench`: a workspace is its plan and, per test, the outcomes it can show on the
correct code and on each defect alone, so that a flaky test is one with two. Results
are a function of the units that ran, since no count depends on their order. The
agent is any choice of workspace, cost and failure. Runs of tests, environments
and streams of agents are such choices as well.

In `PlanStore`:

- Markdown scanning is whether a row is there. Whatever else the checks refuse is
  `Refuse`, which is possible at any plan.
- Paths differ only in being the plan or a symlink to it; relative spellings and
  symlinked directories resolve to one of these.
- A digest's Mode column follows the digest and is left out, as is the run that
  `upgrade` stamps.
- The user's editor takes no lock. `EditPlan` is a user who does not save while
  a command holds the plan's lock; other edits are lost, as with any advisory
  lock.
- A timer that fires before the lock file is open is one that fires while
  waiting.

In `Install`:

- Hosts' directories are fixed. A changed configuration directory and
  `uninstall --config-dir` are left out.
- A record is a digest; its mode and version only matter to whether the record
  changed, which `RecordOK` leaves open.
- A plan reads all files of a host in one step. The properties relate a path
  only to itself, and each path may still change at any moment after the read.
- The read of a file by `Snapshot`, the creation of the backup directory and the
  write of the snapshot file are one step: before the manifest lists the entry
  nobody can see it.
- A user never writes a content that some release ships. That content would be
  tpp's own by every rule of the code.
- Paths are numbers in path order; a dry run writes nothing and is left out.
- Entries of settings.json that are not objects are left out.

## Runs

| Run | Instance | Question |
|---|---|---|
| `install_faults` | 1 process, 2 files, 2 releases, sync/uninstall/restore/repair, one edit and one crash anywhere, 2 backups | does any step destroy a content the run has seen without a listed snapshot? |
| `install_quiet` | 1 process, 2 hosts, 3 files, 2 releases, all operations, edits only between runs | record, unforced runs, settings merge, uninstall, toggles |
| `install_race` | 2 processes, 1 file, one edit at any moment, 2 backups | custody and backups without a lock |
| `install_converges` | 1 process, 2 files, 2 releases, one crash, one edit, 5 backups | does sync --force always get everything installed? |
| `install_blame` | as `install_faults` with 3 releases | is a path called modified always someone else's doing? (no) |
| `install_heal` | another tool's `gate` command in settings.json | does a completed repair satisfy doctor? (no) |
| `plan_store` | 2 processes, a plan and a symlink to it, one finding, one row, 2 commands, every writer, `plan init --force` | does the file implement the log, do writes land where every spelling leads, does every command return? |
| `plan_link` | the same, a recording admit through the symlink | does its digest reach the plan? (no) |
| `plan_init` | no plan, two `plan init` without `--force` | is an existing plan kept? (no) |
| `bench` | 2 workers, 1 retry, up to 4 units, 6 invocations (dry, with and without ceiling, with history, with two readers), 2 faults, each a failure, a panic or a call that never returns | do exit code, budget, records, decisions and rescore tell one story, does the pool implement its abstraction, and whom does a hung call hold up? |
| `parts` | one of six components per behaviour: 2 processes on the root, 2 writers with 2 reports, up to 2 presses, or 3 to 4 typed ahead, on terminals of 1, 2 and 3 rows, drafts of 7 lines, 2 sessions of 3 steps over 8 plans, 2 admissions over 13 ledgers | the properties of `StateRoot`, `Telemetry`, `Terminal`, `PlanDoc`, `Session` and `Evidence` below |
| `fence` | drafts of up to 6 lines with fences | is a table inside a code fence ever read as one? (yes) |

Bounds. Two files are enough to have one in order while the other is at work,
one of them an orphan of the next release; the third file gives a second host.
Two releases give update and orphan, the third gives the upgrade after a crash
during an upgrade. One edit and one crash make the smallest trace of each
hazard; a second of either meets a state like the first. Two backups let a run
read the backup of another; `install_converges` has five, so that the bound on
backups never stops the operator who syncs again. Symmetry of the two processes
is sound in `install_race`: no constant tells them apart and it checks safety
only. Deadlock is checked in the runs of `Install` and `PlanStore`: an idle process
can always begin an operation that needs no backup.

In `bench` two workers are the least that share a budget; four units (a case three
times and one whose key does not load) let units finish, be skipped, crash and be
invalid in the same run, and two faults let a retry and a failing write meet, or one
call hang on each of the two workers. Its run ends, or stops when every worker hangs, as
does a draft of `fence`, so deadlock is not checked there; that it ends is `RunEnds`.

`parts` runs one component per behaviour and leaves the others as they start: they
share no variable, so nothing is lost, and each property is checked on all
behaviours of its own component. Two processes and two commands are enough for
each race of the root, since every property speaks of a command and what changed
under it; one fault or crash gives each half-done state. Two reports with one cut
append give a cut line and the append that meets it. Two presses are an escape sequence
and an Esc or a key beside it, in any cuts; the rows of presses that are typed ahead lead
into each view and scroll there, down and back up, while the terminal changes its size.
One, two and three rows are a page of one line, twice, and one of two; the body has
four lines, so that each of these pages has to be clamped. Seven lines, begun in one of six ways,
are a heading, a header, a separator and four more, which is a cut, a resumption and a
fence, or an example that ends the section inside its fence. The
ledgers have one row for each way a row can go. The terminal, a session and an
admission may come to rest for good, so deadlock is not checked; what must go on
is `NobodyHangs`.

### Properties

- `OverwritesAreSnapshotted` - sync, repair and uninstall never destroy a
  content a user wrote unless this run put it in a backup that restore can list,
  or the user wrote it after the run's last look at the file. That exception is
  real: between the snapshot and the write, and between classification and
  removal, the code does not look again.
- `Custody` - why that holds; the inductive invariant of the proof.
- `SnapshotsAreKept` - a snapshot entered in a manifest is never changed again,
  by any run.
- `RecordsMatchDisk` - between runs a recorded file nobody touched is what the
  record says. It holds without crashes only; `install_blame` shows why.
- `UnforcedKeepsModified` - an unforced run changes no recorded file whose
  content is not the recorded one.
- `OwnSettingsKept` - a rewrite of settings.json keeps, in order, all commands
  that are not tpp's and the rest of the document as they were when the run began. What
  the host application writes during the run is lost in the code, and not promised.
- `UninstallIsComplete` - an uninstall that returns after its save removed every
  file it dropped from the record, and every gate when the hook was recorded.
- `FeatureSurvives` - only `enable` and `disable` change a toggle.
- `Converges` - liveness, below.

Of the plan store:

- `ImplementsPlanLog` - refinement: every step of any command is a step of
  `PlanLog` or changes nothing in it. A verdict keeps its author, a digest is
  recorded only beside the command it was observed of, rows stay. The promise
  ends when `plan init` replaces the plan.
- `ReadCurrent` - a writer about to rename has read the plan as it stands.
- `WrittenIsReached` - after its rename the plan file, where every spelling
  leads, is what the command wrote. It needs a plan that was there when the
  command began: a command started on a dangling symlink that `plan init` fills
  meanwhile renames over the link.
- `AdmitReturns`, `WritersReturn` - liveness, below.

Of plans, the gate and the check:

- `OwedRowsAreReported` - whatever lines a plan has, a row that a reader of the
  rendered tables sees as owed is counted as owed, or the table is reported as cut.
- `OwesNothingIsTrue` - "owes nothing" is said only of a plan whose owed rows, as a
  reader sees them, are all swept; of a micro plan only when no rule is broken.
- `GateAndCheckAgree` - for a tested change in the session's window, `tpp check`
  exits 0 exactly when the gate's audit finds nothing owed.

Of evidence:

- `AdmittedIsObserved` - an admitted row ran as expected with one output at both
  ends, and each of its edits was noticed, or is declared equivalent, and undone. A
  mutated run that ends by its deadline counts as noticed.
- `PinsHold` - a row is told that its pin no longer holds only when the tree, the
  mode or the output really changed since the pin was taken. Rows that share an id are
  left out: the first of them has the pin.

Of the root and the update:

- `RecordIsOne` - only a command that saves changes what the next command finds,
  and it changes its own part only, unless another command saved meanwhile or the
  two paths came apart. Those two losses are the code's, and no property excludes
  them: no command takes a lock, and two first runs can each end on a root of their own.
- `StatusTellsTheLastCheck` - a status shows what the last check learnt, nothing
  when it failed, wherever the root has moved since.
- `OnlyForward` - an update never moves the binary back.

Of telemetry:

- `OnePseudonym` - where hard links work a name has one pseudonym everywhere. Where they
  do not, the code gives it two when two processes publish a salt at once.
- `SummaryCountsReports` - if neither the map nor the ledger was cut, the readback
  counts every repository's reports, exactly.
- `MapIsForRows` - without failures a name is in the map only for a row.

Of the terminal:

- `KeysInOrder` - however the bytes are cut into reads, no press is lost, doubled
  or read as others, unless the timeout or the end of the input falls inside a press.
- `ScreenFits` - what is on the screen while the loop waits for a key fits the rows it
  was drawn for, from two rows on; one row gets two lines, the first of the body and the
  help, against the comment at `internal/tui/run.go:313` (`viewport` "keeps a frame
  within rows"). The acknowledgement of a dry run is three lines, written past the
  viewport (`run.go:231`): on two rows it overflows, until the dry run is back. The
  offset stays within the body.
- `NoLineIsSkipped` - a scrolling key shows lines that touch those shown before, across
  every resize, so that a report can be read to its end. A page up goes by the page of
  the last redraw and may pass over lines when the screen has become smaller since.

Of the benchmark:

- `PoolSpec` - the refinement: every unit ends at most once, workers and budget as in
  `Pool`; a hung unit keeps its slot.
- `ExitCodeTellsTheTruth` - 0 only when every unit ran, was valid and everything is
  on disk; a skipped unit always shows in the code.
- `OverspendIsInFlight` - a run passes its ceiling only by what its last units in
  flight cost. The cost of a unit that crashed is forgotten, and not counted here.
- `MissKeepsItsWorkspace` - a run that missed a defect or failed can be looked at.
- `CaughtIsProof` - a test credited with a defect can pass on the correct code and
  fail where only that defect is. A test that is flaky on the correct code can still be
  credited, by the code as by the model.
- `RescoreAgrees` - a rescore reads a run as the run read itself, unless a copy was
  lost.
- `DecisionsStand` - a recorded decision stands or is kept as superseded, unless two
  people decided the same run at once; and it counts only for the text it was about.
  The update that two readers at once lose is the code's, and left out here.
- `RunEnds` - liveness, below.

### Fairness

`LiveSpec` assumes weak fairness of every process's own steps: a started
command keeps running, which is what an operating system gives a process that
is not killed (`Crash` stays possible, and unfair). It assumes strong fairness
of an operator who starts `sync --force` on all hosts: a person, not the code.
Strong, because other operations may occupy the process now and then. `Converges` is
conditional on settings.json not staying unreadable: sync refuses a document it
cannot parse and leaves it to the user, as the code says it does.

`FairSpec` of `PlanStore` assumes weak fairness only of recording admits: rows
have a timeout each, the timer fires, the process exits. Of the other commands
nothing is assumed, so that the holder of the lock may hang; `AdmitReturns`
holds all the same. `WritersReturn` states its own assumption: commands that
were started run on, and a command that waits while the lock is free again and
again gets it (strong fairness of `Lock`), as a blocking `flock` gives it. Without
the timeout or without one deferred unlock these fail.

`Bench` assumes weak fairness of the main goroutine and of the units as a whole:
goroutines are scheduled, and a call that does not hang returns. It does not assume that
every call ends by its deadline. The agent (`internal/bench/run.go:794-800`,
`pi_agent.go:25-32`), the suites (`scaffold.go:83-87`, `pertest.go:42-46`) and git
(`scaffold.go:126-128`) are started with a deadline that kills the process, with their
output in a buffer, and without a `WaitDelay` or a process group: a descendant that keeps
the output open keeps the call beyond the deadline. That is `Hang`, from which nothing
leads on. `RunEnds` says what is left: as long as fewer units hang than there are
workers, every other unit is run to its end or skipped, since a unit that waits for a
slot gets one; and if none hangs, the run ends. One hung call keeps the run from its
tally, its records and its exit code. Nobody has to decide or to rescore, and panics stay
possible. The rows of an admission are started with a `WaitDelay` and in a group of their
own (`cmd/tpp/main.go:1074-1089`), so there a deadline is an end; the git calls of the
gate (`internal/gate/run.go:46-54`) and of a replay (`internal/admit/replay.go:80-84`)
are taken to end with the process that is killed.

`TerminalFairness` is that of the reader goroutine and of the loop, whose timer
fires and whose dry run, a walk over the managed files, comes back; `SessionFairness` is that the agent ends its turns and that the host runs
the hook it has wired with a payload it can read. The user presses what and
when they like. `NobodyHangs` says that the loop keeps catching up with the user
and that a session that stops comes to its end: a stop that the gate continued
is not continued again.

### What the violations show

`install_blame`: the record is saved once, at the end. A crash after a file is
written leaves the record one release behind; after the next upgrade the file is
neither shipped nor recorded, so the plan calls it modified - "the disk says
someone changed it" (`internal/sync/plan.go:26`) - and plain sync skips it.
`sync --force` recovers (`Converges`).

`install_heal`: doctor takes the first command whose second word is `gate` for
the hook; the rewire drops only gates of tpp's and appends its own. With another
tool's gate in front, a completed repair leaves a hook doctor still reports.

`plan_link`: `writeRecorded` takes the lock of the canonical path but renames
onto the path it was given. Given a symlink, the rename replaces the link and the
plan stays as it was, while the command prints RECORDED - what the comment on
`AddFinding` describes as repaired there.

`plan_init`: the stat and the write of `initFrom` are two steps and no lock is
taken, so an unforced `plan init` truncates a plan created in between.

`fence`: `sectionRegion` looks for the section's heading without regard to code
fences and the scan starts behind it, inside the fence. Four lines are enough: an
example section shown in a fence becomes the section, and its table is read as the
layer matrix, against the comment at `internal/plan/plan.go:983`. `OwesNothingIsTrue`
therefore leaves out plans in which an example hides rows of the real section
(`ExampleHides`). An example has a second way to do that: a level-2 heading in a fence
also ends the section, and where the scan has stopped before the fence, at a
subheading, nothing tells of the rows behind it. Seven lines show it; it came to light
when the proof of `OwedRowsAreReported` did not go through.

## Proofs

`InstallProofs` proves, for any number of processes, hosts, files, releases,
edits, crashes and backups, and for any settings documents:

- `TypeCorrect`: `Spec => []TypeOK`
- `CustodyCorrect`: `Spec => []Custody`
- `OverwritesSnapshotted`: `Spec => OverwritesAreSnapshotted`
- `ListedSnapshotsStay`: `Spec => SnapshotsAreKept`

from `InstallAssumption` alone (the sentinels are not contents, shipped contents
are not users' contents, Claude's host comes first, rewiring a document gives a
document).

`TypeOK` is not inductive: that a written content is shipped, and that a restored
one exists, depends on how the item was planned. `Custody` is not inductive
without the types. The inductive invariant is their conjunction. `Custody` says
of every process and path: backups are not shared; an idle process has no plan;
a planned create saw no file, a planned removal without backup saw tpp's own
content or none; and while an item is at work, the label says which part of its
snapshot exists - held after `Snapshot`, listed after `WriteManifest`, both until
the write. `TypeStep` and `CustodyStep` have one step per action or group of
actions; `CustodyFromParts` reduces a step of one process to what that process
changes, since no other process's backup is written. `OverwritesSnapshotted`
then looks only at the three actions that change a file. `ListedSnapshotsStay` adds
`Shelved`: a run takes its backup directory before it works on items, it plans each
host once, so that what it has listed is behind it or is the file it is about to
replace, and a directory that is not created yet lists nothing.

Five more theorems are about runs one after another:

- `FeaturesSurvive`: `Spec /\ []OneAtATime => FeatureSurvives`
- `UnforcedRunsKeepModified`: `Spec /\ []Undisturbed => UnforcedKeepsModified`
- `OwnSettingsAreKept`: `Spec /\ []Undisturbed => OwnSettingsKept`
- `UninstallsAreComplete`: `Spec /\ []Undisturbed => UninstallIsComplete`
- `RecordsMatch`: `Spec /\ []Undisturbed /\ []Uncrashed => []RecordsMatchDisk`

Their hypotheses say of a behaviour what the code cannot enforce without a lock:
`OneAtATime`, that no two processes are at work together; `Undisturbed`, that also
users edit only between runs (`EditWhileRunning` is FALSE); `Uncrashed`, that no run
stopped before it saved. Crashes are allowed everywhere but in the last, and
`install_blame` shows why not there.
`OwnSettingsAreKept` also assumes that wiring and unwiring keep the user's part of every
document (`HookKeepsOwn`), `UninstallsAreComplete` that unwiring drops every gate
(`UnwireDropsGate`): they speak of the constants that `StopHook` gives their meaning,
where TLC finds them true of every document of its instance. The invariants say what
the one process at work still knows: the files are as it planned them or as it has made
them since (`AsPlanned`), the settings are those it has seen, what is still to be
removed is still there to remove (`Removing`), and its memory matches the disk but for
the files to come (`Matching`). `Advances` separates each action into what it does to
its process and the rest of the others.

`PlanStoreProofs` proves, for any number of processes, spellings, findings, rows,
commands and invocations, from `PlanStoreAssumption` (the sentinels are apart
from the values, the invocations are well formed):

- `PlanTypeCorrect`: `Spec => []TypeOK`
- `ReadCurrentCorrect`: `Spec => []ReadCurrent`
- `PlanLogImplemented`: `Spec => ImplementsPlanLog`
- `WritesStand`: `Spec => []WriteStands`
- `WritesAreReached`: `Spec => []WrittenIsReached`, if the plan exists before the first
  command and no admission is recorded through a symlink

`ReadCurrent` is not inductive: it needs that a writer holds the lock it asked
for and, when it will replace the plan, that this is the plan's own lock
(`LockHeld`). The types need that the rows to be recorded are in the plan that
was read (`Checked`), or a digest would be put where no row is. `PlanInv` is the
conjunction of the four. Given it, `RenameIsLogged` shows that a rename over the
plan is one judgement, one Run column or one recording, and `LogStep` that any
other step is a creation, an entry, a replacement or nothing. The theorem covers
recording through symlinks and dangling links too: such a command may miss the
plan, but it never damages it. `WriteStands` is `WrittenIsReached` for the writers that
rename at the plan's own path: from the rename to the unlock nobody else holds the
lock, and the model's user saves only while nobody does. That every writer does
rename there needs the two hypotheses (`Straight`: the plan is there
and every path that is read leads to it); `plan_link` shows the second is needed, and a
command that starts on a dangling link the first.

`EvidenceProofs` proves `AdmissionIsEarned`: `EvidenceSpec => []AdmittedIsObserved`,
for any ledgers, trees and numbers of edits, from `EvidenceAssumption` (ledgers are
not empty, a row whose edits do not parse is marked so, a row that expects to fail
and has edits is too, and "no pin" is no output). `AdmittedIsObserved` speaks of a
row that is done; `ProgressInv` says how far the row at hand has come: which
refusals it has passed, how many outcomes it has seen, and that the edits behind it
were `Replayed`. `DecidedKeeps` and `SurvivorsAreTold` carry it to the verdict.
`PinsAreHonest`: `EvidenceSpec => []PinsHold`, for the same constants. `PinsInv` says
that a pin is what its row printed on the tree and in the mode that the history of pins
tells, that a command compares with the pins as they are, and that a row that runs has
no pin of another mode.

`TelemetryProofs` proves, for any number of processes, names, reports and failures,
from `TelemetryAssumption` (a cut line is not a line):

- `PseudonymsAreStable`: `TelemetrySpec => []OnePseudonym`
- `SummaryIsExact`: `TelemetrySpec => []SummaryCountsReports`
- `NamesAreForRows`: `TelemetrySpec => []MapIsForRows`

The inductive invariant adds to the types what a report in progress holds
(`ShapeInv`), that with hard links every key in use is the salt (`SaltInv`), that
every line of the map is right (`MapInv`), that files nobody cut have no cut line
(`UntornInv`), that the map runs ahead of the rows (`AheadInv`: the first name of a
report is mapped before the row is written), and that a section is rendered after
its row (`SectionInv`). For `NamesAreForRows` it says further that, without
failures, a line of the map is followed by its row or by a report that still has to
write it (`FollowInv`, `TraceInv`).

`ReadingProofs` proves, for any heights, frames, presses and toggles:

- `ScreenAlwaysFits`: `TerminalSpec => []ScreenFits`
- `NoLineIsLost`: `TerminalSpec => NoLineIsSkipped`
- `KeysStayInOrder`: `TerminalSpec => []KeysInOrder`

`ScreenFits` is inductive once the screen's numbers are typed (`ScreenInv`); the work is
the viewport's arithmetic (`ViewportFits`), that every handler but the dry run's redraws
through it (`RedrawKeeps`), and that the dry run's redraws when it is back. For
`NoLineIsLost` the invariant adds that the page is the one of the rows last drawn on:
`ScrollsBy` says how far each key moves the offset before it is clamped, and
`NextScreenTouches` that the clamped offset on the new screen leaves no gap.

`KeysStayInOrder` is about the decoder, for any sequences of the presses the model knows
(`KnownPresses`: every key the loop answers to, a sequence and a byte it does not) and
any cut of their bytes into reads. `Decode` and `Sent` are recursive functions over a
sequence; each is a walk that moves onward (`WalkOf`), for which existence and unfolding
are proved once. The bytes of a row of presses decode to their keys (`DecodeSent`), and
any part of them decodes to the first of the presses and a held rest that begins the
next (`DecodeOfPart`). `KeysInv` says that what is decoded, handled
or waiting, is what the first presses mean, and that what is held, read and on the wire
is what the others send; `KeysStep` takes it through every action. Two changes of the
model came of it: the arms of `DecodeEscape` overlapped, where the code tries them in
order, and `KeysInOrder` need not make an exception of a loop that failed.

`ReadingProofs` also proves of plan documents, and of sessions with any files, plans, limits and stops:

- `OwedRowsAreTold`: `DocSpec => []OwedRowsAreReported`
- `AnswersAlwaysAgree`: `SessionSpec => []GateAndCheckAgree`
- `OwesNothingIsNotALie`: `SessionSpec => []OwesNothingIsTrue`

from `PlanDocAssumption` and `SessionAssumption`: a document is a sequence of lines, and
the words of its cells are words (`PlainWords`). The invariants are almost inductive;
what is proved is what the scan computes for every document. `OpenFence` is a recursive
function, which is shown to exist and to unfold by a least counterexample (`FencesExist`,
`FenceSteps`). A region that starts below a line outside every fence knows the fences of
the region around it (`SameFences`), so the scan and a reader of the whole document see
the same lines; `SameSection` says that they agree on where a section ends, unless an
example hides it or the region ends in a fence left open, which the scan reports.
`OwedIsFound` follows a row that a reader sees as owed through every way the scan can go:
the table was cut above it, resumed, interrupted, or the row is among those scanned.
`OwedIsTold` makes a count of it. For the gate it remains that "owes nothing" is said
only by an audit, of the plan it has counted (`DecideSays`), and that the audit line and
the exit code read the same counts (`AuditSays`, `WholeGaps`).

`PoolProofs` proves of `Pool`, for any units, workers, ceilings and costs: the types,
that at most `Workers` units hold a slot (`SlotsAreRespected`), that a skip is
explained by what was spent (`SkipsAreExplained`), and that nothing is launched
once a unit was skipped (`NoLaunchesAfterSkip`). `BenchProofs` proves that `Bench`
implements `Pool`, so these hold of every run of the benchmark.

`StateRootProofs` proves, for any number of commands, fields, values, versions,
crashes and corrupted files, from `StateRootAssumption` (the marks for no file and
for an unreadable one are not records or directories, a version is a sequence of
numbers):

- `RecordStaysOne`: `RootSpec => RecordIsOne`
- `StatusIsTheLastCheck`: `RootSpec => []StatusTellsTheLastCheck`
- `NewerIsAnOrder` and `UpdatesMoveForward`: `RootSpec => OnlyForward`

The invariant `RootInv` justifies what a command remembers: a path it resolved still
leads where the record is, unless the two paths came apart (`ResolvedInv`,
`OneInv`); the record it is about to write differs from the one it loaded in its own
part, and that one is still there unless the command is marked stale (`RecordInv`);
a cache entry is torn only under an overlapping write, and the directory opened for
it is the one in use (`WriteInv`); a version to install was compared with the
binary that is installed (`VersionInv`). `NewerIsAnOrder` is the order of `Compare`:
irreflexive and transitive over versions of any length, padded with zeros.

`BenchProofs` proves, for any cases, keys, workspaces, agents, invocations, workers,
retries, faults and readers, from `BenchAssumption` (workers, retries and bounds are
numbers and costs have a maximum; "nothing" is no workspace; a plan left behind is a
plan, and rewording a plan gives one; an invocation has at most `MaxUnits` units) and
`RecordAssumption` ("nothing" is no record of decisions):

- `BenchIsInvariant`: `Spec => []BenchInv`
- `BenchImplementsPool`: `Spec => PoolSpec`
- `OverspendIsBounded`: `Spec => []OverspendIsInFlight`
- `ExitCodeIsTrue`: `Spec => []ExitCodeTellsTheTruth`
- `MissesCanBeClassified`: `Spec => []MissKeepsItsWorkspace`
- `CreditIsProof`: `Spec => []CaughtIsProof`
- `RescoreReadsTheRun`: `Spec => []RescoreAgrees`
- `RecordedDecisionsStand`: `Spec => DecisionsStand`

A sum over the units is `SumFunctionOnSet`, which is recursive. What is needed of it
(`SumUnfolds`, `SumSplits`, `SumOfPart`, `SumsAgree`) is proved by a least counter-
example among numbers (`NatSets`) and among subsets (`SubsetInduction`), since the
library's induction theorems cannot be instantiated. `BenchInv` has a part per
question: the slots held are the units at work, the money spent is what the units
that ended cost, the units launched last account for the overspend, a unit that can
be looked at has its workspace, a credited test was checked against each defect.
`PhaseInv` adds how far the run has come and is what the exit code is a summary of.
`ScoreInv` says that a measured run has the score of the plan it delivered, and that
what is kept of the plan, as it was or reworded, scores the same; from it a rescore
sums what the run summed (`AggregateOfSameRuns`). `JudgedInv` says that records hold
only decisions that someone took, and `AloneInv` that who has read a record while
nobody else has it has read it as it is; together they give that a write replaces
nothing unseen, and counting them (`DecisionsAreCounted`, one decision per row) that
a rescore counts no decision twice.

Only model-checked:

- Liveness, which is out of the prover's reach, as is ENABLED: `Converges`,
  `AdmitReturns`, `WritersReturn`, `RunEnds`, `NobodyHangs`.
- `StopHook`'s sequences, that is, that its operators satisfy `HookKeepsOwn` and
  `UnwireDropsGate` for documents of any length.

## Not modelled

Each component's note in `PROJECT.json` says what of it is left out.

- Rendering: plan export, reports, the text of frames and messages. It changes no
  state that another part reads.
- Rules over text: redaction, the shell grammar of a command, Markdown escapes,
  flag parsing, the parsing of test output and agent streams. Where such a rule
  decides something stateful its result is an input of the model, chosen freely.
- Probes: which hosts are installed, which binaries are in PATH, the embedded
  files. They are constants.
- The benchmark's provenance, comparison of runs, environments and the adapters of
  the agents: reports and process plumbing around the run that is modelled.
- The guided setup: a dialogue that ends in the commands modelled here.
- The repository's mutation tool: a script that runs one command after another.

## Plan

Done, in this order: `Install` with `StopHook`; `PlanStore` and `PlanLog`, with the
refinement proved; `Bench` with `BenchScore` and `Pool`; `StateRoot`; `Telemetry`,
proved; `Terminal`, `PlanDoc`, `Session` and `Evidence`; `StateRoot` and `Bench`,
proved, with the refinement of `Pool`; `Install` for runs one after another; the
`Terminal`'s decoder, `PlanDoc` and `Session`, proved.

Left:

1. A changed configuration directory and `uninstall --config-dir` in `Install`.
2. Proofs that `StopHook`'s operators satisfy `HookKeepsOwn` and `UnwireDropsGate` for
   documents of any length.
