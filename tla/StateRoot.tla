------------------------------ MODULE StateRoot ------------------------------
(***************************************************************************)
(* The installation root: where state.json and the update cache live, how   *)
(* the root of the rdd-plus days is adopted, and the commands that read     *)
(* and write both files (src/internal/state/state.go,                       *)
(* src/internal/feature/feature.go, src/internal/update/update.go and       *)
(* their commands in src/cmd/tpp/main.go).  No command takes a lock, every  *)
(* command resolves the root again for every file it opens, and a binary    *)
(* from before the rename still uses the old path.                          *)
(***************************************************************************)
EXTENDS Naturals, Sequences, FiniteSets

CONSTANTS Procs,       \* processes that run commands
          Fields,      \* parts of the record: a feature's toggle, the hosts a sync records
          Values,      \* what a command can write into one of them
          Versions,    \* releases: sequences of numbers, <<>> is a version nobody can compare
          MaxRuns,     \* commands started in one behaviour
          MaxFaults,   \* failed calls, crashes and hand edits in one behaviour
          Nothing,     \* no such file, directory, field or value
          Garbage,     \* a file that does not parse
          Failed,      \* a check that learnt no version
          Muddled      \* a cache that was cut short or written by two at once

VARIABLES place,    \* what each of the two paths is: nothing, a directory, or "link"
          record,   \* directory -> its state.json
          cache,    \* directory -> its update cache
          binary,   \* the version of the installed binary
          job,      \* process -> its command: what it is, where it is, what it read
          runs, failures,
          told,     \* history: what the last check wrote, or Muddled
          exposed   \* history: the paths came apart, see Apart

RootVars == <<place, record, cache, binary, job, runs, failures, told, exposed>>

Paths == {"legacy", "current"}
Dirs == {"first", "second"}
Blank == [f \in Fields |-> Nothing]
Resting == [what |-> "none", at |-> "idle", goal |-> "none", old |-> FALSE,
            root |-> "current", dir |-> Nothing, record |-> Blank,
            field |-> Nothing, value |-> Nothing, learnt |-> Nothing, version |-> <<>>,
            stale |-> FALSE, mixed |-> FALSE, passed |-> FALSE]

Records == [Fields -> Values \union {Nothing}]
States == Records \union {Nothing, Garbage}

ASSUME StateRootAssumption ==
  /\ Nothing \notin Dirs \union {"link"} \union Records
  /\ Garbage \notin Records \union {Nothing}
  /\ Versions \subseteq Seq(Nat)

\* A record with one part set.
Written == {[Blank EXCEPT ![f] = v] : f \in Fields, v \in Values}

RootInit ==
  /\ place \in {[legacy |-> "first", current |-> Nothing], [legacy |-> Nothing, current |-> Nothing],
                [legacy |-> "link", current |-> "first"]}
  /\ record \in [Dirs -> {Nothing} \union Written]
  /\ record["second"] = Nothing
  /\ record["first"] # Nothing => \E path \in Paths : place[path] = "first"
  /\ cache = [d \in Dirs |-> Nothing]
  /\ binary \in Versions
  /\ job = [p \in Procs |-> Resting]
  /\ runs = 0 /\ failures = 0 /\ told = Nothing /\ exposed = FALSE

-----------------------------------------------------------------------------
(* The two paths. *)

\* What a path leads to: a link at the old one leads to the new one.
Follow(path) == IF place[path] = "link" THEN place["current"] ELSE place[path]

Other(path) == IF path = "legacy" THEN "current" ELSE "legacy"

\* What a command finds that resolves the root now.
TheDir == IF place["current"] # Nothing THEN place["current"] ELSE Follow("legacy")
TheRecord == IF TheDir = Nothing \/ record[TheDir] = Nothing THEN Blank ELSE record[TheDir]

\* p is about to use a path where nothing is while the other one is there: the
\* old path between the move and the link (or without the link), or a path it
\* resolved before another process made the other directory.
Apart(p) == /\ Follow(job[p].root) = Nothing
            /\ Follow(Other(job[p].root)) # Nothing
            /\ job[p].root = "legacy" \/ job[p].stale

Move(p, at) == job' = [job EXCEPT ![p].at = at]
End(p) == job' = [job EXCEPT ![p] = Resting]
Resolved(p, path) == job' = [job EXCEPT ![p].root = path, ![p].at = job[p].goal]

Fault == failures < MaxFaults /\ failures' = failures + 1
Files == <<record, cache>>
History == <<told, exposed>>

-----------------------------------------------------------------------------
(* Commands: a change of the record (a feature toggle or a sync), a status,  *)
(* an update.                                                                *)

Starts(p, fields) ==
  /\ job[p].at = "idle" /\ runs < MaxRuns
  /\ runs' = runs + 1
  /\ job' = [job EXCEPT ![p] = [Resting EXCEPT !.version = fields.version, !.what = fields.what,
                                !.at = fields.at, !.goal = "load", !.old = fields.old,
                                !.field = fields.field, !.value = fields.value]]
  /\ UNCHANGED <<place, Files, binary, failures, History>>

Change(p) == \E f \in Fields, v \in Values, old \in BOOLEAN :
  Starts(p, [what |-> "change", at |-> "lstat", old |-> old, field |-> f, value |-> v,
             version |-> <<>>])

Status(p) ==
  Starts(p, [what |-> "status", at |-> "lstat", old |-> FALSE, field |-> Nothing, value |-> Nothing,
             version |-> <<>>])

Update(p) ==
  Starts(p, [what |-> "update", at |-> "check", old |-> FALSE, field |-> Nothing, value |-> Nothing,
             version |-> binary])

-----------------------------------------------------------------------------
(* resolveRoot and adoptLegacyRoot. *)

Lstat(p) ==
  /\ job[p].at = "lstat"
  /\ IF job[p].old THEN Resolved(p, "legacy")
     ELSE IF place["current"] # Nothing THEN Resolved(p, "current")
     ELSE Move(p, "stat")
  /\ UNCHANGED <<place, Files, binary, runs, failures, History>>

Stat(p) ==
  /\ job[p].at = "stat"
  /\ IF Follow("legacy") = Nothing THEN Resolved(p, "current") ELSE Move(p, "rename")
  /\ UNCHANGED <<place, Files, binary, runs, failures, History>>

\* Mutant of Rename: the new path is used although the move failed.
RenameOptimistic(p) ==
  /\ job[p].at = "rename"
  /\ \/ /\ place["legacy"] \in Dirs /\ place["current"] = Nothing
        /\ place' = [legacy |-> Nothing, current |-> place["legacy"]]
        /\ Move(p, "link") /\ UNCHANGED failures
     \/ /\ \/ (place["legacy"] \notin Dirs \/ place["current"] # Nothing) /\ UNCHANGED failures
           \/ Fault
        /\ Resolved(p, "current") /\ UNCHANGED place
  /\ UNCHANGED <<Files, binary, runs, History>>

Rename(p) ==
  /\ job[p].at = "rename"
  /\ \/ /\ place["legacy"] \in Dirs /\ place["current"] = Nothing
        /\ place' = [legacy |-> Nothing, current |-> place["legacy"]]
        /\ Move(p, "link") /\ UNCHANGED failures
     \/ /\ \/ (place["legacy"] \notin Dirs \/ place["current"] # Nothing) /\ UNCHANGED failures
           \/ Fault
        /\ Resolved(p, "legacy") /\ UNCHANGED place
  /\ UNCHANGED <<Files, binary, runs, History>>

\* A failed link is ignored.
Symlink(p) ==
  /\ job[p].at = "link"
  /\ \/ /\ place["legacy"] = Nothing
        /\ place' = [place EXCEPT !["legacy"] = "link"] /\ UNCHANGED failures
     \/ /\ UNCHANGED place
        /\ \/ place["legacy"] # Nothing /\ UNCHANGED failures
           \/ Fault
  /\ Resolved(p, "current")
  /\ UNCHANGED <<Files, binary, runs, History>>

-----------------------------------------------------------------------------
(* state.json. *)

Uses(p) == exposed' = (exposed \/ Apart(p))

\* MkdirAll: the directory p works in, made when the path leads nowhere.
Made(p) == IF Follow(job[p].root) # Nothing THEN Follow(job[p].root)
           ELSE CHOOSE d \in Dirs : \A path \in Paths : place[path] # d
Makes(p) == place' = IF Follow(job[p].root) # Nothing THEN place
                     ELSE [place EXCEPT ![job[p].root] = Made(p)]

\* Everyone else is told that p wrote the record or made a directory.
Outdate(p, jobs) == [q \in Procs |-> [jobs[q] EXCEPT !.stale = @ \/ q # p]]

\* Load: no file is an empty record, a corrupt one an error.
Load(p) ==
  /\ job[p].at = "load"
  /\ LET d == Follow(job[p].root)
         found == IF d = Nothing \/ record[d] = Nothing THEN Blank ELSE record[d] IN
     IF found = Garbage THEN End(p)
     ELSE job' = [job EXCEPT ![p].at = "lstat",
                             ![p].goal = IF job[p].what = "status" THEN "cached" ELSE "open",
                             ![p].record = IF job[p].what = "status" THEN found
                                           ELSE [found EXCEPT ![job[p].field] = job[p].value]]
  /\ Uses(p)
  /\ UNCHANGED <<place, Files, binary, runs, failures, told>>

\* Save up to the write: a corrupt file is never replaced, an equal one is left.
OpenState(p) ==
  /\ job[p].at = "open"
  /\ Makes(p)
  /\ LET there == record[Made(p)]
         next == IF there \in {Garbage, job[p].record} THEN Resting
                 ELSE [job[p] EXCEPT !.at = "replace"]
         jobs == [job EXCEPT ![p] = next] IN
     job' = IF place' = place THEN jobs ELSE Outdate(p, jobs)
  /\ Uses(p)
  /\ UNCHANGED <<Files, binary, runs, failures, told>>

\* writeAtomic: one rename, into the directory the path leads to by then.
ReplaceState(p) ==
  /\ job[p].at = "replace"
  /\ LET d == Follow(job[p].root) IN
     \/ /\ d # Nothing
        /\ record' = [record EXCEPT ![d] = job[p].record]
        /\ job' = Outdate(p, [job EXCEPT ![p] = Resting])
        /\ UNCHANGED failures
     \/ /\ End(p) /\ UNCHANGED record
        /\ IF d = Nothing THEN UNCHANGED failures ELSE Fault
  /\ Uses(p)
  /\ UNCHANGED <<place, cache, binary, runs, told>>

-----------------------------------------------------------------------------
(* The update check, its cache and the install.  The proxy answers any        *)
(* release: tags are made, and a bad one is taken back.                      *)

Check(p) ==
  /\ job[p].at = "check"
  /\ \/ \E v \in Versions : job' = [job EXCEPT ![p].learnt = v, ![p].at = "lstat",
                                             ![p].goal = "recheck"]
        /\ UNCHANGED failures
     \/ job' = [job EXCEPT ![p].learnt = Failed, ![p].at = "lstat", ![p].goal = "recheck"]
        /\ Fault
  /\ UNCHANGED <<place, Files, binary, runs, History>>

\* Others who are in the middle of their own write: neither knows what is left.
Writing(p) == {q \in Procs \ {p} : job[q].at = "rewrite"}
Mix(p, jobs) == [q \in Procs |-> [jobs[q] EXCEPT !.mixed = @ \/ q \in Writing(p)]]

\* Mutant of OpenCache: only a check that learnt a version is recorded.
OpenCacheLearnt(p) ==
  /\ job[p].at = "recheck"
  /\ Makes(p) /\ Uses(p)
  /\ LET d == Made(p)
         made == IF place' = place THEN job ELSE Outdate(p, job) IN
     \/ /\ job[p].learnt \in {cache[d], Failed}
        /\ told' = IF Writing(p) = {} THEN job[p].learnt ELSE told
        /\ job' = [made EXCEPT ![p].at = "compare"]
        /\ UNCHANGED cache
     \/ /\ job[p].learnt # Failed
        /\ cache' = [cache EXCEPT ![d] = Garbage]
        /\ told' = Muddled
        /\ job' = Mix(p, [made EXCEPT ![p].at = "rewrite", ![p].dir = d,
                                      ![p].mixed = Writing(p) # {}])
  /\ UNCHANGED <<record, binary, runs, failures>>

\* SaveCache: an equal file is left, any other is truncated first.
OpenCache(p) ==
  /\ job[p].at = "recheck"
  /\ Makes(p) /\ Uses(p)
  /\ LET d == Made(p)
         made == IF place' = place THEN job ELSE Outdate(p, job) IN
     \/ /\ cache[d] = job[p].learnt
        /\ told' = IF Writing(p) = {} THEN job[p].learnt ELSE told
        /\ job' = [made EXCEPT ![p].at = "compare"]
        /\ UNCHANGED cache
     \/ /\ cache' = [cache EXCEPT ![d] = Garbage]
        /\ told' = Muddled
        /\ job' = Mix(p, [made EXCEPT ![p].at = "rewrite", ![p].dir = d,
                                      ![p].mixed = Writing(p) # {}])
  /\ UNCHANGED <<record, binary, runs, failures>>

\* Two writes at once can leave the end of the longer one behind the shorter.
WriteCache(p) ==
  /\ job[p].at = "rewrite"
  /\ \E left \in {job[p].learnt} \union (IF job[p].mixed THEN {Garbage} ELSE {}) :
       cache' = [cache EXCEPT ![job[p].dir] = left]
  /\ told' = IF job[p].mixed THEN Muddled ELSE job[p].learnt
  /\ job' = Mix(p, [job EXCEPT ![p].at = "compare"])
  /\ UNCHANGED <<place, record, binary, runs, failures, exposed>>

\* LoadCache for a status: what it shows.
Available(d) == IF d = Nothing \/ cache[d] \notin Versions THEN Nothing ELSE cache[d]

ReadCache(p) ==
  /\ job[p].at = "cached"
  /\ End(p) /\ Uses(p)
  /\ UNCHANGED <<place, Files, binary, runs, failures, told>>

Part(v, i) == IF i <= Len(v) THEN v[i] ELSE 0

\* Mutant of Behind: a larger leading part does not settle the order.
BehindAnywhere(installed, latest) ==
  /\ installed # <<>> /\ latest # <<>>
  /\ \E i \in 1..2 : Part(latest, i) > Part(installed, i)

\* Compare(installed, latest) = Behind: the first part that differs decides,
\* missing parts are zero, and a version that is no number is never behind.
Behind(installed, latest) ==
  /\ installed # <<>> /\ latest # <<>>
  /\ LET differ == {i \in 1..(Len(installed) + Len(latest)) :
                      Part(installed, i) # Part(latest, i)} IN
     \E i \in differ : (\A j \in differ : i <= j) /\ Part(latest, i) > Part(installed, i)

\* A binary that cannot be replaced, no go, --check, a failed install: no change.
Finish(p) ==
  /\ job[p].at = "compare"
  /\ \/ /\ job[p].learnt \in Versions
        /\ Behind(job[p].version, job[p].learnt)
        /\ binary' = job[p].learnt
        /\ job' = [q \in Procs |-> IF q = p THEN Resting ELSE [job[q] EXCEPT !.passed = TRUE]]
     \/ End(p) /\ UNCHANGED binary
  /\ UNCHANGED <<place, Files, runs, failures, History>>

-----------------------------------------------------------------------------
(* The world. *)

Crash(p) ==
  /\ job[p].at # "idle" /\ Fault
  /\ End(p)
  /\ UNCHANGED <<place, Files, binary, runs, History>>

\* The user saves something that is no record.
Corrupt(d) ==
  /\ record[d] # Nothing /\ Fault
  /\ record' = [record EXCEPT ![d] = Garbage]
  /\ job' = [q \in Procs |-> [job[q] EXCEPT !.stale = @ \/ job[q].at = "replace"]]
  /\ UNCHANGED <<place, cache, binary, runs, History>>

RootStep(p) ==
  \/ Change(p) \/ Status(p) \/ Update(p)
  \/ Lstat(p) \/ Stat(p) \/ Rename(p) \/ Symlink(p)
  \/ Load(p) \/ OpenState(p) \/ ReplaceState(p)
  \/ Check(p) \/ OpenCache(p) \/ WriteCache(p) \/ ReadCache(p) \/ Finish(p)
  \/ Crash(p)

RootNext == (\E p \in Procs : RootStep(p)) \/ (\E d \in Dirs : Corrupt(d))

RootSpec == RootInit /\ [][RootNext]_RootVars

-----------------------------------------------------------------------------
(* Properties. *)

\* The record is one: nothing but a hand edit changes what the next command
\* finds, except a command that saves, and that one changes the part it was
\* asked to change and keeps the rest, unless another command saved or made a
\* directory while it ran (the record has no lock), or the paths came apart.
\* state.go says the installation is never split across two places: this is
\* the part of it that holds.
Saved(p) == job[p].at = "replace" /\ job'[p].at = "idle" /\ record' # record
RecordIsOne ==
  [][ ~exposed' =>
        /\ (\A p \in Procs : ~Saved(p)) => TheRecord' \in {TheRecord, Garbage}
        /\ \A p \in Procs : Saved(p) /\ ~job[p].stale =>
             /\ TheRecord # Garbage
             /\ TheRecord' = [TheRecord EXCEPT ![job[p].field] = job[p].value] ]_RootVars

\* After a check whose write met no other, a status shows what that check
\* learnt, and "unknown" when it failed, wherever the root has moved since;
\* a file a crash cut in two never shows as a version.
StatusTellsTheLastCheck ==
  told # Muddled /\ ~exposed =>
    Available(TheDir) = IF told \in Versions THEN told ELSE Nothing

\* The order of releases: the first part in which two differ decides.
Newer(v, w) == \E n \in 1..Len(v) : /\ Part(v, n) > Part(w, n)
                                   /\ \A i \in 1..(n - 1) : Part(v, i) = Part(w, i)

\* An update only moves the binary forward, from a version that can be compared,
\* unless another update replaced the binary while it ran.
OnlyForward ==
  [][ \A p \in Procs : binary' # binary /\ job[p].at = "compare" /\ job'[p].at = "idle" =>
        job[p].passed \/ (binary # <<>> /\ Newer(binary', binary)) ]_RootVars

=============================================================================
