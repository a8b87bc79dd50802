--------------------------- MODULE StateRootProofs ---------------------------
(***************************************************************************)
(* The installation root for any number of processes, parts of the record, *)
(* values, releases, commands and failures: the record is one, a status    *)
(* tells what the last check learnt, and an update moves forward.          *)
(***************************************************************************)
EXTENDS StateRoot, TLAPS

Stages == {"idle", "lstat", "stat", "rename", "link", "load", "open", "replace", "check",
           "recheck", "rewrite", "compare", "cached"}
Goals == {"load", "open", "recheck", "cached"}
Caches == Versions \union {Nothing, Failed, Garbage}
Jobs == [what : {"none", "change", "status", "update"}, at : Stages, goal : Goals \union {"none"},
         old : BOOLEAN, root : Paths, dir : Dirs \union {Nothing}, record : Records,
         field : Fields \union {Nothing}, value : Values \union {Nothing},
         learnt : Versions \union {Nothing, Failed}, version : Versions \union {<<>>},
         stale : BOOLEAN, mixed : BOOLEAN, passed : BOOLEAN]

RootTypeOK ==
  /\ place \in [Paths -> Dirs \union {Nothing, "link"}]
  /\ record \in [Dirs -> States]
  /\ cache \in [Dirs -> Caches]
  /\ binary \in Versions
  /\ job \in [Procs -> Jobs]
  /\ runs \in Nat /\ failures \in Nat
  /\ exposed \in BOOLEAN

\* Between two files a command resolves the root.
Resolving == {"lstat", "stat", "rename", "link"}

\* It has resolved the root for the file it opens.
Using == {"load", "open", "replace", "recheck", "cached"}

\* A command that is resolving knows what for; whoever links has moved.
GoalInv == \A p \in Procs :
  /\ job[p].at \in Resolving => job[p].goal \in Goals
  /\ job[p].at = "link" => place["current"] # Nothing

Placed(d) == \E path \in Paths : place[path] = d

\* Only the old path is ever a link, and then the new one is there; a
\* directory is at one path, and one that is at none was never used.
PlaceInv ==
  /\ place["current"] # "link"
  /\ place["legacy"] = "link" => place["current"] # Nothing
  /\ place["legacy"] = place["current"] => place["legacy"] = Nothing
  /\ \A d \in Dirs : ~Placed(d) => cache[d] = Nothing /\ record[d] = Nothing
  /\ \A p \in Procs : job[p].at = "rewrite" => job[p].dir \in Dirs /\ Placed(job[p].dir)

\* Until the paths came apart there is one directory.
OneInv == ~exposed => place["legacy"] \notin Dirs \/ place["current"] \notin Dirs

\* A command took the new path because it was there, or because nothing was at
\* the old one; that changes only when somebody makes a directory.
Justified(j) == j.at \in Using /\ j.root = "current" /\ ~j.stale =>
                  place["current"] # Nothing \/ Follow("legacy") = Nothing
ResolvedInv == \A p \in Procs : Justified(job[p])

\* Writes of the cache that overlap know of each other, and so does history.
WriteInv ==
  /\ \A p \in Procs : job[p].at = "rewrite" => told = Muddled
  /\ \A p, q \in Procs : p # q /\ job[p].at = "rewrite" /\ job[q].at = "rewrite" => job[p].mixed

\* What a command is about to save is the record as it stands with one part changed.
Changed(j) == j.record = [TheRecord EXCEPT ![j.field] = j.value]
Prepared(j) == j.at = "open" \/ (j.at \in Resolving /\ j.goal = "open")
Current(j) == /\ Prepared(j) => TheRecord = Garbage \/ Changed(j)
              /\ j.at = "replace" => TheRecord # Garbage /\ Changed(j)
RecordInv == ~exposed => \A p \in Procs : ~job[p].stale => Current(job[p])

\* An update compares the installed version, unless another one replaced it.
Updating(j) == \/ j.at \in {"check", "recheck", "rewrite", "compare"}
               \/ j.at \in Resolving /\ j.goal = "recheck"
VersionInv == \A p \in Procs : Updating(job[p]) /\ ~job[p].passed => job[p].version = binary

RootInv == /\ RootTypeOK /\ GoalInv /\ PlaceInv /\ OneInv /\ ResolvedInv /\ WriteInv
           /\ StatusTellsTheLastCheck /\ RecordInv /\ VersionInv

-----------------------------------------------------------------------------
(* Types. *)

LEMMA RestingTyped == Resting \in Jobs
<1>1. Blank \in Records
  BY DEF Blank, Records
<1>2. QED  BY <1>1 DEF Resting, Jobs, Stages, Goals, Paths

LEMMA SentinelsApart == /\ Nothing \notin Dirs /\ Nothing # "link" /\ "link" \notin Dirs
                /\ Nothing \notin Records /\ Garbage \notin Records /\ Garbage # Nothing
                /\ Blank \in Records
  BY StateRootAssumption DEF Dirs, Blank, Records

\* What a path leads to is a directory or nothing.
LEMMA Leads ==
  ASSUME RootTypeOK, PlaceInv, NEW path \in Paths
  PROVE  /\ Follow(path) \in Dirs \union {Nothing}
         /\ Follow(path) # Nothing => Placed(Follow(path))
         /\ TheDir \in Dirs \union {Nothing}
         /\ TheDir # Nothing => Placed(TheDir)
  BY SentinelsApart DEF RootTypeOK, PlaceInv, Follow, Placed, TheDir, Paths

\* A directory that is made is one that was never used.
LEMMA MadeIsUnused ==
  ASSUME RootTypeOK, PlaceInv, NEW p \in Procs
  PROVE  /\ Made(p) \in Dirs
         /\ Follow(job[p].root) = Nothing => ~Placed(Made(p)) /\ place[job[p].root] = Nothing
         /\ Follow(job[p].root) # Nothing => Made(p) = Follow(job[p].root)
<1>1. job[p].root \in Paths
  BY DEF RootTypeOK, Jobs
<1>2. CASE Follow(job[p].root) # Nothing
  BY <1>1, <1>2, Leads DEF Made
<1>3. CASE Follow(job[p].root) = Nothing
  <2>1. place[job[p].root] = Nothing
    BY <1>1, <1>3, SentinelsApart DEF Follow, RootTypeOK, PlaceInv, Paths
  <2>2. \E d \in Dirs : \A path \in Paths : place[path] # d
    BY <1>1, <2>1, SentinelsApart DEF Paths, Dirs
  <2>3. QED  BY <1>3, <2>1, <2>2 DEF Made, Placed
<1>4. QED  BY <1>2, <1>3

LEMMA RootInitTyped == ASSUME RootInit PROVE RootInv
<1>1. RootTypeOK
  <2>1. Written \subseteq Records
    BY SentinelsApart DEF Written, Records, Blank
  <2>2. record \in [Dirs -> States]
    BY <2>1 DEF RootInit, States
  <2>3. place \in [Paths -> Dirs \union {Nothing, "link"}]
    BY DEF RootInit, Paths, Dirs
  <2>4. QED  BY <2>2, <2>3, RestingTyped DEF RootInit, RootTypeOK, Caches
<1>2. \A p \in Procs : job[p] = Resting
  BY DEF RootInit
<1>3. GoalInv /\ ResolvedInv /\ RecordInv /\ VersionInv /\ WriteInv
  BY <1>2 DEF GoalInv, ResolvedInv, Justified, RecordInv, Current, Prepared, VersionInv, Updating,
              WriteInv, Resting, Resolving, Using
<1>4. PlaceInv /\ OneInv
  BY <1>2, SentinelsApart DEF RootInit, PlaceInv, OneInv, Placed, Paths, Dirs, Resting
<1>5. StatusTellsTheLastCheck
  <2>1. TheDir \in Dirs \union {Nothing}
    BY <1>1, <1>4, Leads DEF Paths
  <2>2. QED  BY <2>1 DEF RootInit, StatusTellsTheLastCheck, Available
<1>6. QED  BY <1>1, <1>3, <1>4, <1>5 DEF RootInv

\* Outdate and Mix change one mark of some commands and nothing else.
LEMMA MarkTyped ==
  ASSUME NEW j \in Jobs, NEW b \in BOOLEAN
  PROVE  /\ [j EXCEPT !.stale = b] \in Jobs /\ [j EXCEPT !.mixed = b] \in Jobs
         /\ [j EXCEPT !.passed = b] \in Jobs
         /\ [j EXCEPT !.stale = j.stale] = j /\ [j EXCEPT !.mixed = j.mixed] = j
         /\ j.stale \in BOOLEAN /\ j.mixed \in BOOLEAN
  BY DEF Jobs

\* What commands do to their own entry.
LEMMA Goes ==
  ASSUME NEW jobs \in [Procs -> Jobs], NEW p \in Procs, NEW at \in Stages
  PROVE  /\ [jobs EXCEPT ![p].at = at] =
              [jobs EXCEPT ![p] = [jobs[p] EXCEPT !.at = at]]
         /\ [jobs EXCEPT ![p].at = at] \in [Procs -> Jobs]
<1> DEFINE j == jobs[p]
<1>1. j \in Jobs
  OBVIOUS
<1>2. [j EXCEPT !.at = at] \in Jobs
  BY <1>1 DEF Jobs
<1>3. [jobs EXCEPT ![p].at = at] =
        [jobs EXCEPT ![p] = [j EXCEPT !.at = at]]
  OBVIOUS
<1>4. QED  BY <1>2, <1>3

LEMMA GoesBy ==
  ASSUME NEW jobs \in [Procs -> Jobs], NEW p \in Procs, NEW at \in Stages, NEW root \in Paths
  PROVE  /\ [jobs EXCEPT ![p].root = root, ![p].at = at] =
              [jobs EXCEPT ![p] = [jobs[p] EXCEPT !.root = root, !.at = at]]
         /\ [jobs EXCEPT ![p].root = root, ![p].at = at] \in [Procs -> Jobs]
<1> DEFINE j == jobs[p]
<1>1. j \in Jobs
  OBVIOUS
<1>2. [j EXCEPT !.root = root, !.at = at] \in Jobs
  BY <1>1 DEF Jobs
<1>3. [jobs EXCEPT ![p].root = root, ![p].at = at] =
        [jobs EXCEPT ![p] = [j EXCEPT !.root = root, !.at = at]]
  OBVIOUS
<1>4. QED  BY <1>2, <1>3

LEMMA GoesOn ==
  ASSUME NEW jobs \in [Procs -> Jobs], NEW p \in Procs, NEW at \in Stages, NEW goal \in Goals, NEW r \in Records
  PROVE  /\ [jobs EXCEPT ![p].at = at, ![p].goal = goal, ![p].record = r] =
              [jobs EXCEPT ![p] = [jobs[p] EXCEPT !.at = at, !.goal = goal, !.record = r]]
         /\ [jobs EXCEPT ![p].at = at, ![p].goal = goal, ![p].record = r] \in [Procs -> Jobs]
<1> DEFINE j == jobs[p]
<1>1. j \in Jobs
  OBVIOUS
<1>2. [j EXCEPT !.at = at, !.goal = goal, !.record = r] \in Jobs
  BY <1>1 DEF Jobs
<1>3. [jobs EXCEPT ![p].at = at, ![p].goal = goal, ![p].record = r] =
        [jobs EXCEPT ![p] = [j EXCEPT !.at = at, !.goal = goal, !.record = r]]
  OBVIOUS
<1>4. QED  BY <1>2, <1>3

LEMMA GoesWith ==
  ASSUME NEW jobs \in [Procs -> Jobs], NEW p \in Procs, NEW at \in Stages, NEW goal \in Goals, NEW learnt \in Versions \union {Failed}
  PROVE  /\ [jobs EXCEPT ![p].learnt = learnt, ![p].at = at, ![p].goal = goal] =
              [jobs EXCEPT ![p] = [jobs[p] EXCEPT !.learnt = learnt, !.at = at, !.goal = goal]]
         /\ [jobs EXCEPT ![p].learnt = learnt, ![p].at = at, ![p].goal = goal] \in [Procs -> Jobs]
<1> DEFINE j == jobs[p]
<1>1. j \in Jobs
  OBVIOUS
<1>2. [j EXCEPT !.learnt = learnt, !.at = at, !.goal = goal] \in Jobs
  BY <1>1 DEF Jobs
<1>3. [jobs EXCEPT ![p].learnt = learnt, ![p].at = at, ![p].goal = goal] =
        [jobs EXCEPT ![p] = [j EXCEPT !.learnt = learnt, !.at = at, !.goal = goal]]
  OBVIOUS
<1>4. QED  BY <1>2, <1>3

LEMMA GoesTo ==
  ASSUME NEW jobs \in [Procs -> Jobs], NEW p \in Procs, NEW at \in Stages, NEW dir \in Dirs, NEW b \in BOOLEAN
  PROVE  /\ [jobs EXCEPT ![p].at = at, ![p].dir = dir, ![p].mixed = b] =
              [jobs EXCEPT ![p] = [jobs[p] EXCEPT !.at = at, !.dir = dir, !.mixed = b]]
         /\ [jobs EXCEPT ![p].at = at, ![p].dir = dir, ![p].mixed = b] \in [Procs -> Jobs]
<1> DEFINE j == jobs[p]
<1>1. j \in Jobs
  OBVIOUS
<1>2. [j EXCEPT !.at = at, !.dir = dir, !.mixed = b] \in Jobs
  BY <1>1 DEF Jobs
<1>3. [jobs EXCEPT ![p].at = at, ![p].dir = dir, ![p].mixed = b] =
        [jobs EXCEPT ![p] = [j EXCEPT !.at = at, !.dir = dir, !.mixed = b]]
  OBVIOUS
<1>4. QED  BY <1>2, <1>3

LEMMA OutdateMarks ==
  ASSUME NEW jobs \in [Procs -> Jobs], NEW p \in Procs
  PROVE  /\ Outdate(p, jobs) \in [Procs -> Jobs]
         /\ Outdate(p, jobs)[p] = jobs[p]
         /\ \A q \in Procs \ {p} : Outdate(p, jobs)[q] = [jobs[q] EXCEPT !.stale = TRUE]
<1> DEFINE Mark(q) == jobs[q].stale \/ q # p
<1>1. \A q \in Procs : Outdate(p, jobs)[q] = [jobs[q] EXCEPT !.stale = Mark(q)]
  BY DEF Outdate
<1>2. \A q \in Procs : Mark(q) \in BOOLEAN
  BY Zenon
<1>3. Mark(p) = jobs[p].stale
  BY MarkTyped, Zenon
<1>4. \A q \in Procs \ {p} : Mark(q) = TRUE
  BY Zenon
<1> HIDE DEF Mark
<1>5. ASSUME NEW q \in Procs PROVE Outdate(p, jobs)[q] \in Jobs
  <2>1. jobs[q] \in Jobs /\ Mark(q) \in BOOLEAN
    BY <1>2
  <2>2. [jobs[q] EXCEPT !.stale = Mark(q)] \in Jobs
    BY <2>1, MarkTyped
  <2>3. QED  BY <1>1, <2>2
<1>6. QED  BY <1>1, <1>3, <1>4, <1>5, MarkTyped DEF Outdate

LEMMA MixMarks ==
  ASSUME NEW jobs \in [Procs -> Jobs], NEW p \in Procs
  PROVE  /\ Mix(p, jobs) \in [Procs -> Jobs]
         /\ \A q \in Procs : /\ q \in Writing(p) => Mix(p, jobs)[q] = [jobs[q] EXCEPT !.mixed = TRUE]
                             /\ q \notin Writing(p) => Mix(p, jobs)[q] = jobs[q]
                             /\ Mix(p, jobs)[q] \in {jobs[q], [jobs[q] EXCEPT !.mixed = TRUE]}
<1> DEFINE Mark(q) == jobs[q].mixed \/ q \in Writing(p)
<1>1. \A q \in Procs : Mix(p, jobs)[q] = [jobs[q] EXCEPT !.mixed = Mark(q)]
  BY DEF Mix
<1>2. \A q \in Procs : Mark(q) \in BOOLEAN
  BY Zenon
<1>3. \A q \in Procs : q \notin Writing(p) => Mark(q) = jobs[q].mixed
  BY MarkTyped, Zenon
<1>4. \A q \in Writing(p) : Mark(q) = TRUE
  BY Zenon
<1> HIDE DEF Mark
<1>5. ASSUME NEW q \in Procs PROVE Mix(p, jobs)[q] \in Jobs
  <2>1. jobs[q] \in Jobs /\ Mark(q) \in BOOLEAN
    BY <1>2
  <2>2. [jobs[q] EXCEPT !.mixed = Mark(q)] \in Jobs
    BY <2>1, MarkTyped
  <2>3. QED  BY <1>1, <2>2
<1>6. QED  BY <1>1, <1>3, <1>4, <1>5, MarkTyped DEF Mix

LEMMA ChangedTyped ==
  ASSUME NEW r \in Records, NEW f, NEW v \in Values \union {Nothing}
  PROVE  [r EXCEPT ![f] = v] \in Records
  BY DEF Records

\* MkdirAll leaves types and finds or makes one directory.
LEMMA MakesTyped ==
  ASSUME RootTypeOK, PlaceInv, NEW p \in Procs, Makes(p)
  PROVE  /\ place' \in [Paths -> Dirs \union {Nothing, "link"}]
         /\ Follow(job[p].root) # Nothing => place' = place
         /\ Follow(job[p].root) = Nothing => place' = [place EXCEPT ![job[p].root] = Made(p)]
  BY MadeIsUnused DEF Makes, RootTypeOK, Jobs

LEMMA FoundTyped ==
  ASSUME RootTypeOK, PlaceInv, NEW path \in Paths
  PROVE  /\ Follow(path) # Nothing => record[Follow(path)] \in States
         /\ TheRecord \in Records \union {Garbage}
<1>1. CASE TheDir = Nothing
  BY <1>1, Leads, SentinelsApart DEF TheRecord, RootTypeOK, States
<1>2. CASE TheDir # Nothing
  <2>1. TheDir \in Dirs
    BY <1>2, Leads
  <2> HIDE DEF TheDir
  <2>2. QED  BY <2>1, <1>2, Leads, SentinelsApart DEF TheRecord, RootTypeOK, States
<1>3. QED  BY <1>1, <1>2

LEMMA TypeStep ==
  ASSUME RootTypeOK, PlaceInv, GoalInv, [RootNext]_RootVars
  PROVE  RootTypeOK'
<1> USE DEF RootTypeOK
<1>1. CASE UNCHANGED RootVars
  BY <1>1 DEF RootVars
<1>2. ASSUME NEW p \in Procs, NEW at \in Stages, Move(p, at)
      PROVE  job' \in [Procs -> Jobs]
  BY <1>2, Goes DEF Move
<1>3. ASSUME NEW p \in Procs, End(p) PROVE job' \in [Procs -> Jobs]
  BY <1>3, RestingTyped DEF End
<1>4. ASSUME NEW p \in Procs, job[p].at \in Resolving, NEW path \in Paths, Resolved(p, path)
      PROVE  job' \in [Procs -> Jobs]
  <2>1. job[p].goal \in Stages
    BY <1>4 DEF GoalInv, Goals, Stages
  <2>2. QED  BY <1>4, <2>1, GoesBy DEF Resolved
<1>5. ASSUME NEW p \in Procs, Change(p) \/ Status(p) \/ Update(p) PROVE RootTypeOK'
  <2>1. PICK fields \in [what : {"none", "change", "status", "update"}, at : {"lstat", "check"},
                         old : BOOLEAN, field : Fields \union {Nothing},
                         value : Values \union {Nothing}, version : Versions \union {<<>>}] :
          Starts(p, fields)
    <3>1. CASE Change(p)
      BY <3>1 DEF Change
    <3>2. CASE Status(p)
      BY <3>2 DEF Status
    <3>3. CASE Update(p)
      BY <3>3 DEF Update
    <3>4. QED  BY <1>5, <3>1, <3>2, <3>3
  <2>2. [Resting EXCEPT !.version = fields.version, !.what = fields.what,
           !.at = fields.at, !.goal = "load", !.old = fields.old,
           !.field = fields.field, !.value = fields.value] \in Jobs
    BY RestingTyped DEF Jobs, Stages, Goals
  <2>3. job' \in [Procs -> Jobs]
    BY <2>1, <2>2 DEF Starts
  <2>4. QED  BY <2>1, <2>3 DEF Starts, Files, History
<1>6. ASSUME NEW p \in Procs, Lstat(p) \/ Stat(p) \/ Rename(p) \/ Symlink(p) PROVE RootTypeOK'
  <2>1. job' \in [Procs -> Jobs]
    BY <1>2, <1>4, <1>6 DEF Lstat, Stat, Rename, Symlink, Resolving, Paths, Stages
  <2>2. place' \in [Paths -> Dirs \union {Nothing, "link"}]
    BY <1>6 DEF Lstat, Stat, Rename, Symlink, Paths
  <2>3. failures' \in Nat
    BY <1>6 DEF Lstat, Stat, Rename, Symlink, Fault
  <2>4. QED  BY <1>6, <2>1, <2>2, <2>3 DEF Lstat, Stat, Rename, Symlink, Files, History
<1>7. ASSUME NEW p \in Procs, Load(p) PROVE RootTypeOK'
  <2> DEFINE d == Follow(job[p].root)
             found == IF d = Nothing \/ record[d] = Nothing THEN Blank ELSE record[d]
  <2>1. job[p] \in Jobs /\ job[p].root \in Paths
    BY DEF Jobs
  <2>2. found \in Records \union {Garbage}
    BY <2>1, FoundTyped, SentinelsApart DEF States
  <2>3. CASE found = Garbage
    BY <1>3, <1>7, <2>3 DEF Load, Files, Uses
  <2>4. CASE found # Garbage
    <3> HIDE DEF found
    <3>1. [found EXCEPT ![job[p].field] = job[p].value] \in Records
      BY <2>1, <2>2, <2>4, ChangedTyped DEF Jobs
    <3>2. PICK goal \in {"cached", "open"}, r \in Records :
            job' = [job EXCEPT ![p].at = "lstat", ![p].goal = goal, ![p].record = r]
      BY <1>7, <2>2, <2>4, <3>1 DEF Load, found
    <3>3. job' \in [Procs -> Jobs]
      <4>1. "lstat" \in Stages /\ goal \in Goals
        BY DEF Stages, Goals
      <4>2. QED  BY <3>2, <4>1, GoesOn
    <3>4. QED  BY <1>7, <3>3 DEF Load, Files, Uses
  <2>5. QED  BY <2>3, <2>4
<1>8. ASSUME NEW p \in Procs, OpenState(p) PROVE RootTypeOK'
  <2>1. PICK next \in {Resting, [job[p] EXCEPT !.at = "replace"]} :
          job' \in {[job EXCEPT ![p] = next], Outdate(p, [job EXCEPT ![p] = next])}
    BY <1>8 DEF OpenState
  <2>2. [job EXCEPT ![p] = next] \in [Procs -> Jobs]
    BY RestingTyped DEF Jobs, Stages
  <2> DEFINE jobs == [job EXCEPT ![p] = next]
  <2> HIDE DEF jobs
  <2>3. job' \in [Procs -> Jobs]
    <3>1. jobs \in [Procs -> Jobs] /\ job' \in {jobs, Outdate(p, jobs)}
      BY <2>1, <2>2 DEF jobs
    <3>2. QED  BY <3>1, OutdateMarks
  <2>4. QED  BY <1>8, <2>3, MakesTyped DEF OpenState, Files, Uses
<1>9. ASSUME NEW p \in Procs, ReplaceState(p) PROVE RootTypeOK'
  <2>1. [job EXCEPT ![p] = Resting] \in [Procs -> Jobs]
    BY RestingTyped
  <2> DEFINE jobs == [job EXCEPT ![p] = Resting]
  <2> HIDE DEF jobs
  <2>2. job' \in [Procs -> Jobs]
    <3>1. jobs \in [Procs -> Jobs] /\ job' \in {jobs, Outdate(p, jobs)}
      BY <1>9, <2>1 DEF jobs, ReplaceState, End
    <3>2. QED  BY <3>1, OutdateMarks
  <2>3. job[p].record \in States
    BY DEF Jobs, States
  <2>4. record' \in [Dirs -> States]
    BY <1>9, <2>3 DEF ReplaceState
  <2>5. QED  BY <1>9, <2>2, <2>4 DEF ReplaceState, Uses, Fault
<1>10. ASSUME NEW p \in Procs, Check(p) PROVE RootTypeOK'
  <2>1. PICK learnt \in Versions \union {Failed} :
          /\ job' = [job EXCEPT ![p].learnt = learnt, ![p].at = "lstat", ![p].goal = "recheck"]
          /\ UNCHANGED failures \/ Fault
    BY <1>10, Zenon DEF Check
  <2>2. job' \in [Procs -> Jobs]
    <3>1. "lstat" \in Stages /\ "recheck" \in Goals
      BY DEF Stages, Goals
    <3>2. QED  BY <2>1, <3>1, GoesWith
  <2>3. failures' \in Nat
    BY <2>1 DEF Fault
  <2>4. QED  BY <1>10, <2>2, <2>3 DEF Check, Files, History
<1>11. ASSUME NEW p \in Procs, OpenCache(p) PROVE RootTypeOK'
  <2>1. PICK made \in {job, Outdate(p, job)} :
          \/ cache' = cache /\ job' = [made EXCEPT ![p].at = "compare"]
          \/ /\ cache' = [cache EXCEPT ![Made(p)] = Garbage]
             /\ job' = Mix(p, [made EXCEPT ![p].at = "rewrite", ![p].dir = Made(p),
                                           ![p].mixed = Writing(p) # {}])
    BY <1>11 DEF OpenCache
  <2>2. made \in [Procs -> Jobs]
    BY OutdateMarks
  <2>3. (Writing(p) # {}) \in BOOLEAN
    OBVIOUS
  <2>4. [made EXCEPT ![p].at = "compare"] \in [Procs -> Jobs]
    BY <2>2, Goes DEF Stages
  <2>5. ASSUME NEW b \in BOOLEAN
        PROVE  [made EXCEPT ![p].at = "rewrite", ![p].dir = Made(p), ![p].mixed = b]
                 \in [Procs -> Jobs]
    <3>1. "rewrite" \in Stages /\ Made(p) \in Dirs
      BY MadeIsUnused DEF Stages
    <3>2. QED  BY <2>2, <3>1, GoesTo
  <2>6. job' \in [Procs -> Jobs]
    <3>1. ASSUME NEW jobs \in [Procs -> Jobs] PROVE Mix(p, jobs) \in [Procs -> Jobs]
      BY MixMarks
    <3>2. CASE job' = [made EXCEPT ![p].at = "compare"]
      BY <3>2, <2>4
    <3>3. CASE job' = Mix(p, [made EXCEPT ![p].at = "rewrite", ![p].dir = Made(p),
                                          ![p].mixed = Writing(p) # {}])
      BY <3>3, <3>1, <2>3, <2>5
    <3>4. QED  BY <2>1, <3>2, <3>3
  <2>7. cache' \in [Dirs -> Caches]
    BY <2>1 DEF Caches
  <2>8. QED  BY <1>11, <2>6, <2>7, MakesTyped DEF OpenCache, Uses
<1>12. ASSUME NEW p \in Procs, WriteCache(p) PROVE RootTypeOK'
  <2>1. [job EXCEPT ![p].at = "compare"] \in [Procs -> Jobs]
    BY DEF Jobs, Stages
  <2>2. job' \in [Procs -> Jobs]
    BY <1>12, <2>1, MixMarks DEF WriteCache
  <2>3. job[p].learnt \in Caches
    BY DEF Caches, Jobs
  <2>4. cache' \in [Dirs -> Caches]
    BY <1>12, <2>3 DEF WriteCache, Caches
  <2>5. QED  BY <1>12, <2>2, <2>4 DEF WriteCache
<1>13. ASSUME NEW p \in Procs, ReadCache(p) \/ Crash(p) PROVE RootTypeOK'
  <2>1. End(p) /\ (UNCHANGED failures \/ Fault) /\ (UNCHANGED exposed \/ Uses(p))
    BY <1>13 DEF ReadCache, Crash, History
  <2>2. job' \in [Procs -> Jobs]
    BY <1>3, <2>1
  <2>3. failures' \in Nat
    BY <2>1 DEF Fault
  <2>4. exposed' \in BOOLEAN
    BY <2>1, Zenon DEF Uses
  <2>5. QED  BY <1>13, <2>2, <2>3, <2>4 DEF ReadCache, Crash, Files
<1>14. ASSUME NEW p \in Procs, Finish(p) PROVE RootTypeOK'
  <2>1. job' \in [Procs -> Jobs]
    <3>1. CASE job' = [q \in Procs |-> IF q = p THEN Resting ELSE [job[q] EXCEPT !.passed = TRUE]]
      BY <3>1, RestingTyped, MarkTyped
    <3>2. CASE End(p)
      BY <3>2, <1>3
    <3>3. QED  BY <1>14, <3>1, <3>2 DEF Finish
  <2>2. QED  BY <1>14, <2>1 DEF Finish, Files, History
<1>15. ASSUME NEW d \in Dirs, Corrupt(d) PROVE RootTypeOK'
  <2> DEFINE Mark(q) == job[q].stale \/ job[q].at = "replace"
  <2>1. \A q \in Procs : Mark(q) \in BOOLEAN
    BY Zenon
  <2>2. job' = [q \in Procs |-> [job[q] EXCEPT !.stale = Mark(q)]]
    BY <1>15 DEF Corrupt
  <2> HIDE DEF Mark
  <2>3. job' \in [Procs -> Jobs]
    BY <2>1, <2>2, MarkTyped
  <2>4. record' \in [Dirs -> States] /\ failures' \in Nat
    BY <1>15 DEF Corrupt, States, Fault
  <2>5. QED  BY <1>15, <2>3, <2>4 DEF Corrupt, History
<1>16. QED
  BY <1>1, <1>5, <1>6, <1>7, <1>8, <1>9, <1>10, <1>11, <1>12, <1>13, <1>14, <1>15
     DEF RootNext, RootStep

-----------------------------------------------------------------------------
(* Steps. *)

\* What a step of another process leaves of a command: its marks may be set.
Same(q) ==
  /\ job'[q].at = job[q].at /\ job'[q].goal = job[q].goal /\ job'[q].root = job[q].root
  /\ job'[q].dir = job[q].dir /\ job'[q].record = job[q].record /\ job'[q].field = job[q].field
  /\ job'[q].value = job[q].value /\ job'[q].version = job[q].version
  /\ job'[q].learnt = job[q].learnt
  /\ ~job'[q].stale => ~job[q].stale
  /\ ~job'[q].mixed => ~job[q].mixed
  /\ ~job'[q].passed => ~job[q].passed

LEMMA MarksKeepSame ==
  ASSUME RootTypeOK, NEW q \in Procs, NEW b \in BOOLEAN,
         \/ job'[q] = job[q]
         \/ job'[q] = [job[q] EXCEPT !.stale = TRUE]
         \/ job'[q] = [job[q] EXCEPT !.mixed = TRUE]
         \/ job'[q] = [job[q] EXCEPT !.passed = TRUE]
         \/ job'[q] = [[job[q] EXCEPT !.stale = TRUE] EXCEPT !.mixed = TRUE]
  PROVE  Same(q)
<1> DEFINE j == job[q]
<1>1. j \in Jobs
  BY DEF RootTypeOK
<1>2. CASE job'[q] = j
  BY <1>2 DEF Same
<1>3. CASE job'[q] = [j EXCEPT !.stale = TRUE]
  BY <1>1, <1>3 DEF Same, Jobs
<1>4. CASE job'[q] = [j EXCEPT !.mixed = TRUE]
  BY <1>1, <1>4 DEF Same, Jobs
<1>5. CASE job'[q] = [j EXCEPT !.passed = TRUE]
  BY <1>1, <1>5 DEF Same, Jobs
<1>6. CASE job'[q] = [[j EXCEPT !.stale = TRUE] EXCEPT !.mixed = TRUE]
  BY <1>1, <1>6 DEF Same, Jobs
<1>7. QED  BY <1>2, <1>3, <1>4, <1>5, <1>6

LEMMA OthersSame ==
  ASSUME RootTypeOK, PlaceInv, GoalInv, NEW p \in Procs, RootStep(p), NEW q \in Procs, q # p
  PROVE  Same(q)
<1>1. job \in [Procs -> Jobs]
  BY DEF RootTypeOK
<1>2. ASSUME NEW j, job' = [job EXCEPT ![p] = j] PROVE job'[q] = job[q]
  BY <1>1, <1>2
<1>3. ASSUME NEW j \in Jobs, job' = Outdate(p, [job EXCEPT ![p] = j])
      PROVE  job'[q] = [job[q] EXCEPT !.stale = TRUE]
  <2> DEFINE jobs == [job EXCEPT ![p] = j]
  <2>1. jobs \in [Procs -> Jobs] /\ jobs[q] = job[q]
    BY <1>1
  <2> HIDE DEF jobs
  <2>2. job' = Outdate(p, jobs)
    BY <1>3 DEF jobs
  <2>3. QED  BY <2>1, <2>2, OutdateMarks
<1>4. CASE Change(p) \/ Status(p) \/ Update(p)
  BY <1>2, <1>4, MarksKeepSame DEF Change, Status, Update, Starts
<1>5. CASE Lstat(p) \/ Stat(p) \/ Rename(p) \/ Symlink(p)
  <2>1. (\E at : Move(p, at)) \/ (\E path : Resolved(p, path))
    BY <1>5 DEF Lstat, Stat, Rename, Symlink
  <2>2. job'[q] = job[q]
    BY <1>1, <2>1 DEF Move, Resolved
  <2>3. QED  BY <2>2, MarksKeepSame
<1>6. CASE Load(p) \/ Check(p) \/ ReadCache(p) \/ Crash(p)
  <2>1. job'[q] = job[q]
    <3>1. CASE Load(p)
      BY <1>1, <3>1 DEF Load, End
    <3>2. CASE Check(p)
      BY <1>1, <3>2 DEF Check
    <3>3. CASE ReadCache(p) \/ Crash(p)
      BY <1>1, <3>3 DEF ReadCache, Crash, End
    <3>4. QED  BY <1>6, <3>1, <3>2, <3>3
  <2>2. QED  BY <2>1, MarksKeepSame
<1>7. CASE OpenState(p)
  <2>1. PICK next \in {Resting, [job[p] EXCEPT !.at = "replace"]} :
          job' \in {[job EXCEPT ![p] = next], Outdate(p, [job EXCEPT ![p] = next])}
    BY <1>7 DEF OpenState
  <2>2. next \in Jobs
    BY <1>1, RestingTyped DEF Jobs, Stages
  <2>3. QED  BY <1>2, <1>3, <2>1, <2>2, MarksKeepSame
<1>8. CASE ReplaceState(p)
  BY <1>2, <1>3, <1>8, RestingTyped, MarksKeepSame DEF ReplaceState, End
<1>9. CASE OpenCache(p)
  <2>1. PICK made \in {job, Outdate(p, job)} :
          \/ cache' = cache /\ job' = [made EXCEPT ![p].at = "compare"]
          \/ /\ cache' = [cache EXCEPT ![Made(p)] = Garbage]
             /\ job' = Mix(p, [made EXCEPT ![p].at = "rewrite", ![p].dir = Made(p),
                                           ![p].mixed = Writing(p) # {}])
    BY <1>9 DEF OpenCache
  <2>2. made \in [Procs -> Jobs] /\ made[q] \in {job[q], [job[q] EXCEPT !.stale = TRUE]}
    <3>1. CASE made = job
      BY <1>1, <3>1
    <3>2. CASE made = Outdate(p, job)
      <4>1. /\ Outdate(p, job) \in [Procs -> Jobs]
            /\ \A r \in Procs \ {p} : Outdate(p, job)[r] = [job[r] EXCEPT !.stale = TRUE]
        BY <1>1, OutdateMarks
      <4>2. QED  BY <3>2, <4>1
    <3>3. QED  BY <3>1, <3>2
  <2>3. CASE job' = [made EXCEPT ![p].at = "compare"]
    BY <2>2, <2>3, MarksKeepSame
  <2>4. CASE job' = Mix(p, [made EXCEPT ![p].at = "rewrite", ![p].dir = Made(p),
                                        ![p].mixed = Writing(p) # {}])
    <3> DEFINE jobs == [made EXCEPT ![p].at = "rewrite", ![p].dir = Made(p),
                                    ![p].mixed = Writing(p) # {}]
    <3>1. "rewrite" \in Stages /\ Made(p) \in Dirs /\ (Writing(p) # {}) \in BOOLEAN
      BY MadeIsUnused DEF Stages
    <3>2. jobs \in [Procs -> Jobs]
      BY <2>2, <3>1, GoesTo
    <3>3. jobs[q] = made[q]
      BY <2>2
    <3> HIDE DEF jobs
    <3>4. job' = Mix(p, jobs)
      BY <2>4 DEF jobs
    <3>5. job'[q] \in {jobs[q], [jobs[q] EXCEPT !.mixed = TRUE]}
      BY <3>2, <3>4, MixMarks
    <3>6. QED  BY <2>2, <3>3, <3>5, MarksKeepSame
  <2>5. QED  BY <2>1, <2>3, <2>4
<1>10. CASE WriteCache(p)
  <2> DEFINE jobs == [job EXCEPT ![p].at = "compare"]
  <2>1. jobs \in [Procs -> Jobs] /\ jobs[q] = job[q]
    BY <1>1, Goes DEF Stages
  <2> HIDE DEF jobs
  <2>2. job' = Mix(p, jobs)
    BY <1>10 DEF jobs, WriteCache
  <2>3. job'[q] \in {jobs[q], [jobs[q] EXCEPT !.mixed = TRUE]}
    BY <2>1, <2>2, MixMarks
  <2>4. QED  BY <2>1, <2>3, MarksKeepSame
<1>11. CASE Finish(p)
  <2>1. job'[q] \in {job[q], [job[q] EXCEPT !.passed = TRUE]}
    BY <1>1, <1>11 DEF Finish, End
  <2>2. QED  BY <2>1, MarksKeepSame
<1>12. QED
  BY <1>4, <1>5, <1>6, <1>7, <1>8, <1>9, <1>10, <1>11 DEF RootStep

\* What a command keeps while it finds its way.
Holds(p) ==
  /\ job'[p].goal = job[p].goal /\ job'[p].record = job[p].record
  /\ job'[p].field = job[p].field /\ job'[p].value = job[p].value
  /\ job'[p].version = job[p].version /\ job'[p].learnt = job[p].learnt
  /\ job'[p].stale = job[p].stale /\ job'[p].passed = job[p].passed

\* What p's steps make of p.
LEMMA OwnStart ==
  ASSUME RootTypeOK, NEW p \in Procs, Change(p) \/ Status(p) \/ Update(p)
  PROVE  /\ job'[p].at \in {"lstat", "check"} /\ job'[p].goal = "load"
         /\ job'[p].at = "check" => job'[p].version = binary
<1>1. CASE Change(p)
  <2>1. PICK f \in Fields, v \in Values, old \in BOOLEAN :
          Starts(p, [what |-> "change", at |-> "lstat", old |-> old, field |-> f, value |-> v,
                     version |-> <<>>])
    BY <1>1 DEF Change
  <2>2. QED  BY <2>1 DEF RootTypeOK, Starts, Resting
<1>2. CASE Status(p)
  BY <1>2 DEF RootTypeOK, Status, Starts, Resting
<1>3. CASE Update(p)
  BY <1>3 DEF RootTypeOK, Update, Starts, Resting
<1>4. QED  BY <1>1, <1>2, <1>3

LEMMA OwnMove ==
  ASSUME RootTypeOK, NEW p \in Procs, NEW at, Move(p, at)
  PROVE  job'[p].at = at /\ job'[p].root = job[p].root /\ Holds(p)
<1>1. job[p] \in Jobs /\ job'[p] = [job[p] EXCEPT !.at = at]
  BY DEF RootTypeOK, Move
<1>2. QED  BY <1>1 DEF Holds, Jobs

LEMMA OwnResolved ==
  ASSUME RootTypeOK, NEW p \in Procs, NEW path, Resolved(p, path)
  PROVE  job'[p].at = job[p].goal /\ job'[p].root = path /\ Holds(p)
<1>1. job[p] \in Jobs /\ job'[p] = [job[p] EXCEPT !.root = path, !.at = job[p].goal]
  BY DEF RootTypeOK, Resolved
<1>2. QED  BY <1>1 DEF Holds, Jobs

LEMMA OwnEnd ==
  ASSUME RootTypeOK, NEW p \in Procs, job'[p] = Resting
  PROVE  job'[p].at = "idle"
  BY DEF Resting

LEMMA OwnReplace ==
  ASSUME RootTypeOK, NEW p \in Procs,
         ReplaceState(p) \/ ReadCache(p) \/ Crash(p) \/ Finish(p)
  PROVE  job'[p] = Resting /\ job'[p].at = "idle"
<1>1. CASE ReplaceState(p) /\ ~End(p)
  <2> DEFINE jobs == [job EXCEPT ![p] = Resting]
  <2>1. jobs \in [Procs -> Jobs] /\ jobs[p] = Resting
    BY RestingTyped DEF RootTypeOK
  <2>2. job' = Outdate(p, jobs)
    BY <1>1 DEF ReplaceState
  <2> HIDE DEF jobs
  <2>3. job'[p] = Resting
    BY <2>1, <2>2, OutdateMarks
  <2>4. QED  BY <2>3, OwnEnd
<1>2. CASE End(p)
  BY <1>2 DEF End, RootTypeOK, Resting
<1>3. CASE Finish(p)
  <2>1. job'[p] = Resting
    BY <1>3 DEF Finish, End, RootTypeOK
  <2>2. QED  BY <2>1, OwnEnd
<1>4. QED  BY <1>1, <1>2, <1>3 DEF ReadCache, Crash

\* The record a load finds.
Found(p) == IF Follow(job[p].root) = Nothing \/ record[Follow(job[p].root)] = Nothing
            THEN Blank ELSE record[Follow(job[p].root)]

LEMMA OwnLoad ==
  ASSUME RootTypeOK, NEW p \in Procs, Load(p)
  PROVE  \/ job'[p].at = "idle"
         \/ job'[p].at = "lstat" /\ job'[p].goal = "cached"
         \/ /\ job'[p].at = "lstat" /\ job'[p].goal = "open" /\ Found(p) # Garbage
            /\ job'[p].record = [Found(p) EXCEPT ![job[p].field] = job[p].value]
            /\ job'[p].field = job[p].field /\ job'[p].value = job[p].value
            /\ job'[p].stale = job[p].stale
<1>1. CASE Found(p) = Garbage
  <2>1. End(p)
    BY <1>1 DEF Load, Found
  <2>2. QED  BY <2>1 DEF End, RootTypeOK, Resting
<1>2. CASE Found(p) # Garbage
  <2>1. job' = [job EXCEPT ![p].at = "lstat",
                           ![p].goal = IF job[p].what = "status" THEN "cached" ELSE "open",
                           ![p].record = IF job[p].what = "status" THEN Found(p)
                                         ELSE [Found(p) EXCEPT ![job[p].field] = job[p].value]]
    BY <1>2 DEF Load, Found
  <2> HIDE DEF Found
  <2>2. job[p] \in Jobs
    BY DEF RootTypeOK
  <2>3. CASE job[p].what = "status"
    BY <2>1, <2>2, <2>3 DEF RootTypeOK, Jobs
  <2>4. CASE job[p].what # "status"
    <3>1. job' = [job EXCEPT ![p].at = "lstat", ![p].goal = "open",
                             ![p].record = [Found(p) EXCEPT ![job[p].field] = job[p].value]]
      BY <2>1, <2>4
    <3>2. QED  BY <1>2, <2>2, <3>1 DEF RootTypeOK, Jobs
  <2>5. QED  BY <2>3, <2>4
<1>3. QED  BY <1>1, <1>2

LEMMA OwnOpen ==
  ASSUME RootTypeOK, PlaceInv, NEW p \in Procs, OpenState(p)
  PROVE  \/ job'[p].at = "idle"
         \/ job'[p].at = "replace" /\ job'[p].root = job[p].root /\ Holds(p)
            /\ record[Made(p)] # Garbage
<1> DEFINE next == IF record[Made(p)] \in {Garbage, job[p].record} THEN Resting
                   ELSE [job[p] EXCEPT !.at = "replace"]
           jobs == [job EXCEPT ![p] = next]
<1>1. job[p] \in Jobs /\ next \in Jobs
  BY RestingTyped DEF RootTypeOK, Jobs, Stages
<1>2. jobs \in [Procs -> Jobs] /\ jobs[p] = next
  BY <1>1 DEF RootTypeOK
<1>3. job' \in {jobs, Outdate(p, jobs)}
  BY DEF OpenState
<1> HIDE DEF jobs
<1>4. job'[p] = next
  BY <1>2, <1>3, OutdateMarks
<1>5. CASE record[Made(p)] \in {Garbage, job[p].record}
  BY <1>4, <1>5 DEF Resting
<1>6. CASE record[Made(p)] \notin {Garbage, job[p].record}
  BY <1>1, <1>4, <1>6 DEF Holds, Jobs
<1>7. QED  BY <1>5, <1>6

LEMMA OwnCheck ==
  ASSUME RootTypeOK, NEW p \in Procs, Check(p)
  PROVE  /\ job'[p].at = "lstat" /\ job'[p].goal = "recheck"
         /\ job'[p].version = job[p].version /\ job'[p].passed = job[p].passed
<1>1. PICK learnt : job' = [job EXCEPT ![p].learnt = learnt, ![p].at = "lstat",
                                       ![p].goal = "recheck"]
  BY Zenon DEF Check
<1>2. QED  BY <1>1 DEF RootTypeOK, Jobs

\* A cache that has what the check learnt is left, any other is opened.
Leaves(p) == /\ cache[Made(p)] = job[p].learnt /\ cache' = cache
             /\ told' = IF Writing(p) = {} THEN job[p].learnt ELSE told
             /\ job'[p].at = "compare" /\ \A q \in Procs \ {p} : job'[q].mixed = job[q].mixed
Opens(p) == /\ cache' = [cache EXCEPT ![Made(p)] = Garbage] /\ told' = Muddled
            /\ job'[p].at = "rewrite" /\ job'[p].dir = Made(p)
            /\ job'[p].mixed \/ Writing(p) = {}
            /\ \A q \in Writing(p) : job'[q].mixed

LEMMA OwnOpenCache ==
  ASSUME RootTypeOK, PlaceInv, NEW p \in Procs, OpenCache(p)
  PROVE  /\ job'[p].version = job[p].version /\ job'[p].passed = job[p].passed
         /\ Leaves(p) \/ Opens(p)
<1> DEFINE made == IF place' = place THEN job ELSE Outdate(p, job)
<1>1. job \in [Procs -> Jobs] /\ job[p] \in Jobs
  BY DEF RootTypeOK
<1>2. /\ made \in [Procs -> Jobs] /\ made[p] = job[p]
      /\ \A q \in Procs \ {p} : made[q] \in {job[q], [job[q] EXCEPT !.stale = TRUE]}
  <2>1. /\ Outdate(p, job) \in [Procs -> Jobs]
        /\ Outdate(p, job)[p] = job[p]
        /\ \A q \in Procs \ {p} : Outdate(p, job)[q] = [job[q] EXCEPT !.stale = TRUE]
    BY <1>1, OutdateMarks
  <2>2. QED  BY <1>1, <2>1
<1>3. \/ /\ cache[Made(p)] = job[p].learnt /\ cache' = cache
         /\ told' = IF Writing(p) = {} THEN job[p].learnt ELSE told
         /\ job' = [made EXCEPT ![p].at = "compare"]
      \/ /\ cache' = [cache EXCEPT ![Made(p)] = Garbage] /\ told' = Muddled
         /\ job' = Mix(p, [made EXCEPT ![p].at = "rewrite", ![p].dir = Made(p),
                                       ![p].mixed = Writing(p) # {}])
  BY DEF OpenCache
<1> HIDE DEF made
<1>4. CASE job' = [made EXCEPT ![p].at = "compare"] /\ cache' = cache
           /\ cache[Made(p)] = job[p].learnt
           /\ told' = IF Writing(p) = {} THEN job[p].learnt ELSE told
  <2>1. job'[p] = [made[p] EXCEPT !.at = "compare"]
    BY <1>2, <1>4
  <2>2. /\ job'[p].at = "compare" /\ job'[p].version = job[p].version
        /\ job'[p].passed = job[p].passed
    BY <1>1, <1>2, <2>1 DEF Jobs
  <2>3. ASSUME NEW q \in Procs \ {p} PROVE job'[q].mixed = job[q].mixed
    BY <1>1, <1>2, <1>4 DEF Jobs
  <2>4. QED  BY <1>4, <2>2, <2>3 DEF Leaves
<1>5. CASE /\ cache' = [cache EXCEPT ![Made(p)] = Garbage] /\ told' = Muddled
           /\ job' = Mix(p, [made EXCEPT ![p].at = "rewrite", ![p].dir = Made(p),
                                         ![p].mixed = Writing(p) # {}])
  <2> DEFINE b == Writing(p) # {}
             jobs == [made EXCEPT ![p].at = "rewrite", ![p].dir = Made(p), ![p].mixed = b]
  <2>1. "rewrite" \in Stages /\ Made(p) \in Dirs /\ b \in BOOLEAN
    BY MadeIsUnused DEF Stages
  <2> HIDE DEF b
  <2>2. jobs \in [Procs -> Jobs] /\ jobs = [made EXCEPT ![p] =
          [made[p] EXCEPT !.at = "rewrite", !.dir = Made(p), !.mixed = b]]
    <3> HIDE DEF made
    <3>1. made \in [Procs -> Jobs]
      BY <1>2
    <3>2. jobs \in [Procs -> Jobs]
      BY <2>1, <3>1, GoesTo
    <3>3. jobs = [made EXCEPT ![p] =
            [made[p] EXCEPT !.at = "rewrite", !.dir = Made(p), !.mixed = b]]
      BY <3>1
    <3>4. QED  BY <3>2, <3>3
  <2>3. jobs[p] = [job[p] EXCEPT !.at = "rewrite", !.dir = Made(p), !.mixed = b]
    BY <1>2, <2>2
  <2> HIDE DEF jobs
  <2>4. job' = Mix(p, jobs)
    BY <1>5 DEF jobs, b
  <2>5. p \notin Writing(p)
    BY DEF Writing
  <2>6. job'[p] = jobs[p] /\ \A q \in Writing(p) : job'[q] = [jobs[q] EXCEPT !.mixed = TRUE]
    BY <2>2, <2>4, <2>5, MixMarks DEF Writing
  <2>7. /\ job'[p].at = "rewrite" /\ job'[p].dir = Made(p) /\ job'[p].mixed = b
        /\ job'[p].version = job[p].version /\ job'[p].passed = job[p].passed
    BY <1>1, <2>3, <2>6 DEF Jobs
  <2>8. \A q \in Writing(p) : job'[q].mixed = TRUE
    <3>1. ASSUME NEW q \in Writing(p) PROVE job'[q].mixed = TRUE
      <4>1. q \in Procs
        BY DEF Writing
      <4>2. jobs[q] \in Jobs /\ job'[q] = [jobs[q] EXCEPT !.mixed = TRUE]
        BY <2>2, <2>6, <4>1
      <4>3. QED  BY <4>2 DEF Jobs
    <3>2. QED  BY <3>1
  <2>9. job'[p].mixed \/ Writing(p) = {}
    BY <2>7, Zenon DEF b
  <2>10. QED  BY <1>5, <2>7, <2>8, <2>9 DEF Opens
<1>6. QED  BY <1>3, <1>4, <1>5

LEMMA OwnWriteCache ==
  ASSUME RootTypeOK, PlaceInv, NEW p \in Procs, WriteCache(p)
  PROVE  /\ job'[p].at = "compare"
         /\ job'[p].version = job[p].version /\ job'[p].passed = job[p].passed
<1> DEFINE jobs == [job EXCEPT ![p].at = "compare"]
<1>1. job[p] \in Jobs /\ jobs[p] = [job[p] EXCEPT !.at = "compare"]
  BY DEF RootTypeOK
<1>2. jobs \in [Procs -> Jobs]
  BY Goes DEF RootTypeOK, Stages
<1> HIDE DEF jobs
<1>3. job' = Mix(p, jobs)
  BY DEF jobs, WriteCache
<1>4. p \notin Writing(p)
  BY DEF Writing
<1>5. job'[p] = jobs[p]
  BY <1>2, <1>3, <1>4, MixMarks
<1>6. QED  BY <1>1, <1>5 DEF Jobs

\* How the paths change.
Moves == /\ place["legacy"] \in Dirs /\ place["current"] = Nothing
         /\ place' = [legacy |-> Nothing, current |-> place["legacy"]]
Links == /\ place["legacy"] = Nothing /\ place["current"] # Nothing
         /\ place' = [place EXCEPT !["legacy"] = "link"]
Creates(p) == /\ Follow(job[p].root) = Nothing
              /\ place' = [place EXCEPT ![job[p].root] = Made(p)]

LEMMA PlaceSteps ==
  ASSUME RootTypeOK, PlaceInv, GoalInv, NEW p \in Procs, RootStep(p)
  PROVE  \/ place' = place
         \/ Rename(p) /\ Moves
         \/ Symlink(p) /\ Links
         \/ (OpenState(p) \/ OpenCache(p)) /\ Creates(p)
<1>1. CASE Change(p) \/ Status(p) \/ Update(p)
  BY <1>1 DEF Change, Status, Update, Starts
<1>2. CASE Lstat(p) \/ Stat(p) \/ Load(p) \/ ReplaceState(p) \/ Check(p) \/ WriteCache(p)
           \/ ReadCache(p) \/ Finish(p) \/ Crash(p)
  BY <1>2 DEF Lstat, Stat, Load, ReplaceState, Check, WriteCache, ReadCache, Finish, Crash
<1>3. CASE Rename(p)
  BY <1>3 DEF Rename, Moves
<1>4. CASE Symlink(p)
  BY <1>4 DEF Symlink, Links, GoalInv
<1>5. CASE OpenState(p) \/ OpenCache(p)
  <2>1. Makes(p)
    BY <1>5 DEF OpenState, OpenCache
  <2>2. QED  BY <1>5, <2>1, MakesTyped DEF Creates
<1>6. QED  BY <1>1, <1>2, <1>3, <1>4, <1>5 DEF RootStep

LEMMA CorruptKeeps ==
  ASSUME RootTypeOK, NEW d \in Dirs, Corrupt(d), NEW q \in Procs
  PROVE  /\ place' = place /\ cache' = cache /\ told' = told /\ exposed' = exposed
         /\ binary' = binary /\ record' = [record EXCEPT ![d] = Garbage]
         /\ Same(q) /\ (job[q].at = "replace" => job'[q].stale)
<1> DEFINE Mark(r) == job[r].stale \/ job[r].at = "replace"
<1>1. \A r \in Procs : Mark(r) \in BOOLEAN
  BY Zenon
<1>2. job' = [r \in Procs |-> [job[r] EXCEPT !.stale = Mark(r)]]
  BY DEF Corrupt
<1>3. job[q].at = "replace" => Mark(q) = TRUE
  BY Zenon
<1>4. job[q].stale => Mark(q)
  BY Zenon
<1> HIDE DEF Mark
<1>5. job[q] \in Jobs /\ job'[q] = [job[q] EXCEPT !.stale = Mark(q)] /\ Mark(q) \in BOOLEAN
  BY <1>1, <1>2 DEF RootTypeOK
<1>6. Same(q) /\ (job[q].at = "replace" => job'[q].stale)
  BY <1>3, <1>4, <1>5 DEF Same, Jobs
<1>7. QED  BY <1>6 DEF Corrupt, History

\* The directories stay, one at each path, and the new path is never emptied.
LEMMA PlaceGrows ==
  ASSUME RootTypeOK, PlaceInv, GoalInv, NEW p \in Procs, RootStep(p)
  PROVE  /\ place'["current"] # "link"
         /\ place'["legacy"] = "link" => place'["current"] # Nothing
         /\ place'["legacy"] = place'["current"] => place'["legacy"] = Nothing
         /\ \A d \in Dirs : Placed(d) => Placed(d)'
         /\ place["current"] # Nothing => place'["current"] = place["current"]
         /\ \A d \in Dirs : Creates(p) /\ d = Made(p) => Placed(d)'
<1> USE SentinelsApart DEF RootTypeOK, PlaceInv, Placed, Paths
<1>1. CASE place' = place /\ ~Creates(p)
  BY <1>1
<1>2. CASE Moves
  <2>1. ~Creates(p)
    <3>1. job[p].root \in Paths
      BY DEF Jobs
    <3>2. QED  BY <1>2, <3>1, MadeIsUnused DEF Moves, Creates
  <2>2. QED  BY <1>2, <2>1 DEF Moves
<1>3. CASE Links
  <2>1. ~Creates(p)
    BY <1>3, MadeIsUnused, Leads DEF Links, Creates, Dirs, Jobs
  <2>2. QED  BY <1>3, <2>1 DEF Links
<1>4. CASE Creates(p)
  <2>1. /\ job[p].root \in Paths /\ Made(p) \in Dirs
        /\ ~Placed(Made(p)) /\ place[job[p].root] = Nothing
    BY <1>4, MadeIsUnused DEF Creates, Jobs
  <2> DEFINE m == Made(p)
  <2>2. place["current"] # m /\ place["legacy"] # m /\ m \in Dirs
    BY <2>1
  <2>3. CASE job[p].root = "legacy"
    <3>1. place'["legacy"] = m /\ place'["current"] = place["current"] /\ place["legacy"] = Nothing
      BY <1>4, <2>1, <2>3 DEF Creates
    <3>2. QED  BY <2>2, <3>1
  <2>4. CASE job[p].root = "current"
    <3>1. place'["current"] = m /\ place'["legacy"] = place["legacy"] /\ place["current"] = Nothing
      BY <1>4, <2>1, <2>4 DEF Creates
    <3>2. QED  BY <2>2, <3>1
  <2>5. QED  BY <2>1, <2>3, <2>4
<1>5. QED  BY <1>1, <1>2, <1>3, <1>4, PlaceSteps

LEMMA GoalStep ==
  ASSUME RootTypeOK, PlaceInv, GoalInv, [RootNext]_RootVars
  PROVE  GoalInv'
<1>1. CASE UNCHANGED RootVars
  BY <1>1 DEF RootVars, GoalInv
<1>2. ASSUME NEW p \in Procs, RootStep(p) PROVE GoalInv'
  <2>1. place["current"] # Nothing => place'["current"] = place["current"]
    BY <1>2, PlaceGrows
  <2>2. ASSUME NEW q \in Procs, q # p
        PROVE  /\ job'[q].at \in Resolving => job'[q].goal \in Goals
               /\ job'[q].at = "link" => place'["current"] # Nothing
    BY <1>2, <2>1, <2>2, OthersSame DEF Same, GoalInv
  <2>3. /\ job'[p].at \in Resolving => job'[p].goal \in Goals
        /\ job'[p].at = "link" => place'["current"] # Nothing
    <3>1. CASE Change(p) \/ Status(p) \/ Update(p)
      BY <3>1, OwnStart DEF Goals
    <3>2. CASE Lstat(p) \/ Stat(p)
      <4>1. job[p].goal \in Goals
        BY <3>2 DEF GoalInv, Lstat, Stat, Resolving
      <4>2. Move(p, "stat") \/ Move(p, "rename") \/ (\E path : Resolved(p, path))
        BY <3>2 DEF Lstat, Stat
      <4>3. QED  BY <4>1, <4>2, OwnMove, OwnResolved DEF Holds, Goals
    <3>3. CASE Rename(p)
      <4>1. job[p].goal \in Goals
        BY <3>3 DEF GoalInv, Rename, Resolving
      <4>2. (Move(p, "link") /\ place'["current"] # Nothing) \/ Resolved(p, "legacy")
        BY <3>3, SentinelsApart DEF Rename
      <4>3. QED  BY <4>1, <4>2, OwnMove, OwnResolved DEF Holds, Goals
    <3>4. CASE Symlink(p)
      <4>1. job[p].goal \in Goals /\ Resolved(p, "current")
        BY <3>4 DEF GoalInv, Symlink, Resolving
      <4>2. QED  BY <4>1, OwnResolved DEF Goals, Resolving, Holds
    <3>5. CASE Load(p) \/ OpenState(p)
      BY <3>5, OwnLoad, OwnOpen DEF Goals, Resolving
    <3>6. CASE Check(p)
      BY <3>6, OwnCheck DEF Goals
    <3>7. CASE OpenCache(p) \/ WriteCache(p)
      BY <3>7, OwnOpenCache, OwnWriteCache DEF Leaves, Opens, Resolving
    <3>8. CASE ReplaceState(p) \/ ReadCache(p) \/ Crash(p) \/ Finish(p)
      BY <3>8, OwnReplace DEF Resolving
    <3>9. QED
      BY <1>2, <3>1, <3>2, <3>3, <3>4, <3>5, <3>6, <3>7, <3>8 DEF RootStep
  <2>4. QED  BY <2>2, <2>3 DEF GoalInv
<1>3. ASSUME NEW d \in Dirs, Corrupt(d) PROVE GoalInv'
  BY <1>3, CorruptKeeps DEF GoalInv, Same
<1>4. QED  BY <1>1, <1>2, <1>3 DEF RootNext

LEMMA VersionStep ==
  ASSUME RootTypeOK, PlaceInv, GoalInv, VersionInv, [RootNext]_RootVars
  PROVE  VersionInv'
<1>1. CASE UNCHANGED RootVars
  BY <1>1 DEF RootVars, VersionInv, Updating
<1>2. ASSUME NEW p \in Procs, RootStep(p) PROVE VersionInv'
  <2>1. \/ binary' = binary
        \/ Finish(p) /\ \A q \in Procs \ {p} : job'[q].passed
    <3>1. CASE Finish(p)
      <4>1. CASE End(p) /\ binary' = binary
        BY <4>1
      <4>2. CASE job' = [q \in Procs |-> IF q = p THEN Resting
                                         ELSE [job[q] EXCEPT !.passed = TRUE]]
        <5>1. ASSUME NEW q \in Procs \ {p} PROVE job'[q].passed
          <6>1. job[q] \in Jobs /\ job'[q] = [job[q] EXCEPT !.passed = TRUE]
            BY <4>2 DEF RootTypeOK
          <6>2. QED  BY <6>1 DEF Jobs
        <5>2. QED  BY <3>1, <5>1
      <4>3. QED  BY <3>1, <4>1, <4>2 DEF Finish
    <3>2. CASE Change(p) \/ Status(p) \/ Update(p)
      BY <3>2 DEF Change, Status, Update, Starts
    <3>3. CASE Lstat(p) \/ Stat(p) \/ Rename(p) \/ Symlink(p) \/ Load(p) \/ OpenState(p)
               \/ ReplaceState(p) \/ Check(p)
      BY <3>3 DEF Lstat, Stat, Rename, Symlink, Load, OpenState, ReplaceState, Check
    <3>4. CASE OpenCache(p) \/ WriteCache(p) \/ ReadCache(p) \/ Crash(p)
      BY <3>4 DEF OpenCache, WriteCache, ReadCache, Crash
    <3>5. QED  BY <1>2, <3>1, <3>2, <3>3, <3>4 DEF RootStep
  <2>2. ASSUME NEW q \in Procs, q # p, Updating(job'[q]), ~job'[q].passed
        PROVE  job'[q].version = binary'
    <3>1. Same(q)
      BY <1>2, <2>2, OthersSame
    <3>2. Updating(job[q]) /\ ~job[q].passed
      BY <2>2, <3>1 DEF Same, Updating
    <3>3. QED  BY <2>1, <2>2, <3>1, <3>2 DEF VersionInv, Same
  <2>3. ASSUME Updating(job'[p]), ~job'[p].passed PROVE job'[p].version = binary'
    <3>1. CASE Change(p) \/ Status(p) \/ Update(p)
      <4>1. job'[p].at = "check" /\ binary' = binary
        BY <2>1, <2>3, <3>1, OwnStart DEF Updating, Resolving, Finish, Change, Status, Update, Starts
      <4>2. QED  BY <3>1, <4>1, OwnStart
    <3>2. CASE Lstat(p) \/ Stat(p) \/ Rename(p) \/ Symlink(p)
      <4>1. /\ job[p].at \in Resolving
            /\ \/ Move(p, "stat") \/ Move(p, "rename") \/ Move(p, "link")
               \/ \E path : Resolved(p, path)
        BY <3>2 DEF Lstat, Stat, Rename, Symlink, Resolving
      <4>2. Holds(p) /\ job'[p].at \in Resolving \union {job[p].goal}
        BY <4>1, OwnMove, OwnResolved DEF Resolving
      <4>3. job[p].goal \in Goals
        BY <4>1 DEF GoalInv
      <4>4. Updating(job[p]) /\ ~job[p].passed
        BY <2>3, <4>1, <4>2, <4>3 DEF Updating, Holds, Resolving, Goals
      <4>5. binary' = binary
        BY <3>2 DEF Lstat, Stat, Rename, Symlink
      <4>6. QED  BY <4>2, <4>4, <4>5 DEF Holds, VersionInv
    <3>3. CASE Load(p) \/ OpenState(p)
      BY <2>3, <3>3, OwnLoad, OwnOpen DEF Updating, Resolving
    <3>4. CASE Check(p) \/ OpenCache(p) \/ WriteCache(p)
      <4>1. Updating(job[p])
        BY <3>4 DEF Updating, Check, OpenCache, WriteCache
      <4>2. binary' = binary
        BY <3>4 DEF Check, OpenCache, WriteCache
      <4>3. job'[p].version = job[p].version /\ job'[p].passed = job[p].passed
        BY <3>4, OwnCheck, OwnOpenCache, OwnWriteCache
      <4>4. QED  BY <2>3, <4>1, <4>2, <4>3 DEF VersionInv
    <3>5. CASE ReplaceState(p) \/ ReadCache(p) \/ Crash(p) \/ Finish(p)
      BY <2>3, <3>5, OwnReplace DEF Updating, Resolving
    <3>6. QED
      BY <1>2, <3>1, <3>2, <3>3, <3>4, <3>5 DEF RootStep
  <2>4. QED  BY <2>2, <2>3 DEF VersionInv
<1>3. ASSUME NEW d \in Dirs, Corrupt(d) PROVE VersionInv'
  BY <1>3, CorruptKeeps DEF VersionInv, Same, Updating
<1>4. QED  BY <1>1, <1>2, <1>3 DEF RootNext

LEMMA Opener ==
  ASSUME RootTypeOK, PlaceInv, GoalInv, NEW p \in Procs, RootStep(p), job'[p].at = "rewrite"
  PROVE  OpenCache(p)
<1>1. CASE Change(p) \/ Status(p) \/ Update(p)
  BY <1>1, OwnStart
<1>2. CASE Lstat(p) \/ Stat(p) \/ Rename(p) \/ Symlink(p)
  <2>1. /\ job[p].goal \in Goals
        /\ \/ Move(p, "stat") \/ Move(p, "rename") \/ Move(p, "link")
           \/ \E path : Resolved(p, path)
    BY <1>2 DEF Lstat, Stat, Rename, Symlink, Resolving, GoalInv
  <2>2. QED  BY <2>1, OwnMove, OwnResolved DEF Goals
<1>3. CASE Load(p) \/ OpenState(p) \/ Check(p) \/ WriteCache(p)
  BY <1>3, OwnLoad, OwnOpen, OwnCheck, OwnWriteCache
<1>4. CASE ReplaceState(p) \/ ReadCache(p) \/ Crash(p) \/ Finish(p)
  BY <1>4, OwnReplace
<1>5. QED  BY <1>1, <1>2, <1>3, <1>4 DEF RootStep

LEMMA PlaceStep ==
  ASSUME RootTypeOK, PlaceInv, GoalInv, [RootNext]_RootVars
  PROVE  PlaceInv'
<1>1. CASE UNCHANGED RootVars
  BY <1>1 DEF RootVars, PlaceInv, Placed
<1>2. ASSUME NEW p \in Procs, RootStep(p) PROVE PlaceInv'
  <2>1. \A d \in Dirs : Placed(d) => Placed(d)'
    BY <1>2, PlaceGrows
  <2>2. OpenCache(p) => Made(p) \in Dirs /\ \A d \in Dirs : d = Made(p) => Placed(d)'
    <3> SUFFICES ASSUME OpenCache(p)
                 PROVE  Made(p) \in Dirs /\ \A d \in Dirs : d = Made(p) => Placed(d)'
      OBVIOUS
    <3>1. CASE Creates(p)
      BY <1>2, <3>1, PlaceGrows, MadeIsUnused
    <3>2. CASE ~Creates(p)
      <4>1. Makes(p) /\ job[p].root \in Paths
        BY DEF OpenCache, RootTypeOK, Jobs
      <4>2. Follow(job[p].root) # Nothing
        BY <3>2, <4>1, MakesTyped DEF Creates
      <4>3. Made(p) = Follow(job[p].root) /\ Made(p) \in Dirs /\ Placed(Follow(job[p].root))
        BY <4>1, <4>2, MadeIsUnused, Leads
      <4>4. QED  BY <2>1, <4>3
    <3>3. QED  BY <3>1, <3>2
  <2>3. ASSUME NEW d \in Dirs, ~Placed(d)' PROVE cache'[d] = Nothing
    <3>1. ~Placed(d) /\ cache[d] = Nothing
      BY <2>1, <2>3 DEF PlaceInv
    <3>2. CASE OpenCache(p)
      <4>1. d # Made(p) /\ Made(p) \in Dirs
        BY <2>2, <2>3, <3>2
      <4>2. QED  BY <3>1, <3>2, <4>1 DEF OpenCache, RootTypeOK
    <3>3. CASE WriteCache(p)
      <4>1. d # job[p].dir
        BY <3>1, <3>3 DEF PlaceInv, WriteCache
      <4>2. QED  BY <3>1, <3>3, <4>1 DEF WriteCache, RootTypeOK
    <3>4. CASE Change(p) \/ Status(p) \/ Update(p)
      BY <3>1, <3>4 DEF Change, Status, Update, Starts, Files
    <3>5. CASE Lstat(p) \/ Stat(p) \/ Rename(p) \/ Symlink(p) \/ Load(p) \/ OpenState(p)
               \/ ReplaceState(p) \/ Check(p) \/ ReadCache(p) \/ Finish(p) \/ Crash(p)
      BY <3>1, <3>5 DEF Lstat, Stat, Rename, Symlink, Load, OpenState, ReplaceState, Check,
                        ReadCache, Finish, Crash, Files
    <3>6. QED  BY <1>2, <3>2, <3>3, <3>4, <3>5 DEF RootStep
  <2>4. ASSUME NEW d \in Dirs, ~Placed(d)' PROVE record'[d] = Nothing
    <3>1. ~Placed(d) /\ record[d] = Nothing
      BY <2>1, <2>4 DEF PlaceInv
    <3>2. CASE ReplaceState(p)
      <4>1. job[p].root \in Paths
        BY DEF RootTypeOK, Jobs
      <4>2. d # Follow(job[p].root) \/ Follow(job[p].root) = Nothing
        BY <3>1, <4>1, Leads
      <4>3. QED  BY <3>1, <3>2, <4>2 DEF ReplaceState, RootTypeOK
    <3>3. CASE Change(p) \/ Status(p) \/ Update(p)
      BY <3>1, <3>3 DEF Change, Status, Update, Starts, Files
    <3>4. CASE Lstat(p) \/ Stat(p) \/ Rename(p) \/ Symlink(p) \/ Load(p) \/ OpenState(p)
               \/ Check(p) \/ ReadCache(p) \/ Finish(p) \/ Crash(p) \/ OpenCache(p)
               \/ WriteCache(p)
      BY <3>1, <3>4 DEF Lstat, Stat, Rename, Symlink, Load, OpenState, OpenCache, WriteCache,
                        Check, ReadCache, Finish, Crash, Files
    <3>5. QED  BY <1>2, <3>2, <3>3, <3>4 DEF RootStep
  <2>5. ASSUME NEW q \in Procs, q # p, job'[q].at = "rewrite"
        PROVE  job'[q].dir \in Dirs /\ \E path \in Paths : place'[path] = job'[q].dir
    <3>1. Same(q)
      BY <1>2, <2>5, OthersSame
    <3>2. job[q].dir \in Dirs /\ Placed(job[q].dir)
      BY <2>5, <3>1 DEF Same, PlaceInv
    <3>3. QED  BY <2>1, <3>1, <3>2 DEF Same, Placed
  <2>6. ASSUME job'[p].at = "rewrite"
        PROVE  job'[p].dir \in Dirs /\ \E path \in Paths : place'[path] = job'[p].dir
    <3>1. OpenCache(p)
      BY <1>2, <2>6, Opener
    <3>2. job'[p].dir = Made(p)
      BY <2>6, <3>1, OwnOpenCache DEF Leaves, Opens
    <3>3. QED  BY <2>2, <3>1, <3>2 DEF Placed
  <2>7. /\ place'["current"] # "link"
        /\ place'["legacy"] = "link" => place'["current"] # Nothing
        /\ place'["legacy"] = place'["current"] => place'["legacy"] = Nothing
    BY <1>2, PlaceGrows
  <2>8. QED  BY <2>3, <2>4, <2>5, <2>6, <2>7 DEF PlaceInv, Placed
<1>3. ASSUME NEW d \in Dirs, Corrupt(d) PROVE PlaceInv'
  <2>1. place' = place /\ cache' = cache /\ record' = [record EXCEPT ![d] = Garbage]
        /\ record[d] # Nothing
    BY <1>3 DEF Corrupt
  <2>2. \A q \in Procs : job'[q].at = job[q].at /\ job'[q].dir = job[q].dir
    BY <1>3, CorruptKeeps DEF Same
  <2>3. \A e \in Dirs : ~Placed(e) => record'[e] = Nothing
    BY <2>1 DEF PlaceInv, RootTypeOK
  <2>4. QED  BY <2>1, <2>2, <2>3 DEF PlaceInv, Placed
<1>4. QED  BY <1>1, <1>2, <1>3 DEF RootNext

\* Who makes a directory or saves the record outdates all others.
LEMMA Outdates ==
  ASSUME RootTypeOK, PlaceInv, NEW p \in Procs, NEW q \in Procs, q # p,
         \/ (OpenState(p) \/ OpenCache(p)) /\ place' # place
         \/ ReplaceState(p) /\ record' # record
  PROVE  job'[q].stale
<1>1. job \in [Procs -> Jobs] /\ job[p] \in Jobs
  BY DEF RootTypeOK
<1>2. ASSUME NEW jobs \in [Procs -> Jobs]
      PROVE  Outdate(p, jobs) \in [Procs -> Jobs] /\ Outdate(p, jobs)[q].stale = TRUE
  <2>1. jobs[q] \in Jobs /\ Outdate(p, jobs)[q] = [jobs[q] EXCEPT !.stale = TRUE]
    BY OutdateMarks
  <2>2. QED  BY <2>1, OutdateMarks DEF Jobs
<1>3. CASE OpenState(p) /\ place' # place
  <2> DEFINE next == IF record[Made(p)] \in {Garbage, job[p].record} THEN Resting
                     ELSE [job[p] EXCEPT !.at = "replace"]
             jobs == [job EXCEPT ![p] = next]
  <2>1. jobs \in [Procs -> Jobs]
    <3>1. next \in Jobs
      BY <1>1, RestingTyped DEF Jobs, Stages
    <3>2. QED  BY <1>1, <3>1
  <2>2. job' = Outdate(p, jobs)
    BY <1>3 DEF OpenState
  <2> HIDE DEF jobs
  <2>3. QED  BY <1>2, <2>1, <2>2
<1>4. CASE ReplaceState(p) /\ record' # record
  <2> DEFINE jobs == [job EXCEPT ![p] = Resting]
  <2>1. jobs \in [Procs -> Jobs]
    BY <1>1, RestingTyped
  <2>2. job' = Outdate(p, jobs)
    BY <1>4 DEF ReplaceState
  <2> HIDE DEF jobs
  <2>3. QED  BY <1>2, <2>1, <2>2
<1>5. CASE OpenCache(p) /\ place' # place
  <2> DEFINE made == Outdate(p, job)
  <2>1. made \in [Procs -> Jobs] /\ made[q].stale = TRUE
    BY <1>1, <1>2
  <2>2. \/ job' = [made EXCEPT ![p].at = "compare"]
        \/ job' = Mix(p, [made EXCEPT ![p].at = "rewrite", ![p].dir = Made(p),
                                      ![p].mixed = Writing(p) # {}])
    BY <1>5 DEF OpenCache
  <2> HIDE DEF made
  <2>3. CASE job' = [made EXCEPT ![p].at = "compare"]
    BY <2>1, <2>3
  <2>4. CASE job' = Mix(p, [made EXCEPT ![p].at = "rewrite", ![p].dir = Made(p),
                                        ![p].mixed = Writing(p) # {}])
    <3> DEFINE b == Writing(p) # {}
               jobs == [made EXCEPT ![p].at = "rewrite", ![p].dir = Made(p), ![p].mixed = b]
    <3>1. "rewrite" \in Stages /\ Made(p) \in Dirs /\ b \in BOOLEAN
      BY MadeIsUnused DEF Stages
    <3> HIDE DEF b
    <3>2. jobs \in [Procs -> Jobs]
      BY <2>1, <3>1, GoesTo
    <3>3. jobs[q] = made[q]
      BY <2>1
    <3> HIDE DEF jobs
    <3>4. job' = Mix(p, jobs)
      BY <2>4 DEF jobs, b
    <3>5. jobs[q] \in Jobs /\ job'[q] \in {jobs[q], [jobs[q] EXCEPT !.mixed = TRUE]}
      BY <3>2, <3>4, MixMarks
    <3>6. QED  BY <2>1, <3>3, <3>5 DEF Jobs
  <2>5. QED  BY <2>2, <2>3, <2>4
<1>6. QED  BY <1>3, <1>4, <1>5

\* The history never forgets that the paths came apart.
LEMMA Exposure ==
  ASSUME RootTypeOK, NEW p \in Procs, RootStep(p), ~exposed'
  PROVE  /\ ~exposed
         /\ Load(p) \/ OpenState(p) \/ ReplaceState(p) \/ OpenCache(p) \/ ReadCache(p) => ~Apart(p)
<1>1. CASE Load(p) \/ OpenState(p) \/ ReplaceState(p) \/ OpenCache(p) \/ ReadCache(p)
  <2>1. Uses(p)
    BY <1>1 DEF Load, OpenState, ReplaceState, OpenCache, ReadCache
  <2>2. exposed => exposed' = TRUE
    BY <2>1, Zenon DEF Uses
  <2>3. Apart(p) => exposed' = TRUE
    BY <2>1, Zenon DEF Uses
  <2>4. ~exposed /\ ~Apart(p)
    BY <2>2, <2>3
  <2>5. QED  BY <2>4
<1>2. CASE Change(p) \/ Status(p) \/ Update(p)
  <2>1. job[p].at = "idle" /\ exposed' = exposed
    BY <1>2 DEF Change, Status, Update, Starts, History
  <2>2. ~(Load(p) \/ OpenState(p) \/ ReplaceState(p) \/ OpenCache(p) \/ ReadCache(p))
    BY <2>1 DEF Load, OpenState, ReplaceState, OpenCache, ReadCache
  <2>3. QED  BY <2>1, <2>2
<1>3. CASE ~(Load(p) \/ OpenState(p) \/ ReplaceState(p) \/ OpenCache(p) \/ ReadCache(p))
           /\ ~(Change(p) \/ Status(p) \/ Update(p))
  <2>1. Lstat(p) \/ Stat(p) \/ Rename(p) \/ Symlink(p) \/ Check(p) \/ WriteCache(p) \/ Finish(p)
          \/ Crash(p)
    BY <1>3 DEF RootStep
  <2>2. exposed' = exposed
    BY <2>1 DEF Lstat, Stat, Rename, Symlink, Check, WriteCache, Finish, Crash, History
  <2>3. QED  BY <1>3, <2>2
<1>4. QED  BY <1>1, <1>2, <1>3

\* A command that uses a path where nothing is finds nothing at the other one.
LEMMA NothingThere ==
  ASSUME RootTypeOK, PlaceInv, ResolvedInv, NEW p \in Procs, job[p].at \in Using, ~Apart(p),
         Follow(job[p].root) = Nothing
  PROVE  place["legacy"] = Nothing /\ place["current"] = Nothing /\ TheDir = Nothing
<1>1. job[p].root \in Paths /\ place["current"] # "link"
  BY DEF RootTypeOK, Jobs, PlaceInv
<1>2. CASE job[p].root = "legacy"
  BY <1>2, <1>1, SentinelsApart DEF Apart, Follow, Other, TheDir, PlaceInv
<1>3. CASE job[p].root = "current"
  <2>1. Follow("current") = Nothing /\ place["current"] = Nothing
    BY <1>1, <1>3 DEF Follow
  <2>2. Follow("legacy") = Nothing
    BY <1>3, <2>1, Zenon DEF Apart, Other, ResolvedInv, Justified
  <2>3. QED  BY <2>1, <2>2, SentinelsApart DEF Follow, TheDir, PlaceInv
<1>4. QED  BY <1>1, <1>2, <1>3 DEF Paths

\* While there is one directory, whatever leads somewhere leads to it.
LEMMA OneDir ==
  ASSUME RootTypeOK, PlaceInv, OneInv, ~exposed
  PROVE  /\ \A d \in Dirs : Placed(d) => d = TheDir
         /\ \A path \in Paths : Follow(path) # Nothing => Follow(path) = TheDir
<1>1. \A d \in Dirs : Placed(d) => d = TheDir
  <2>1. CASE place["legacy"] \in Dirs
    <3>1. place["current"] = Nothing
      BY <2>1, SentinelsApart DEF OneInv, PlaceInv, RootTypeOK, Paths
    <3>2. TheDir = place["legacy"]
      BY <2>1, <3>1, SentinelsApart DEF TheDir, Follow
    <3>3. QED  BY <3>1, <3>2, SentinelsApart DEF Placed, Paths
  <2>2. CASE place["legacy"] \notin Dirs
    BY <2>2, SentinelsApart DEF Placed, Paths, TheDir
  <2>3. QED  BY <2>1, <2>2
<1>2. QED  BY <1>1, Leads

LEMMA OneStep ==
  ASSUME RootTypeOK, PlaceInv, GoalInv, ResolvedInv, OneInv, [RootNext]_RootVars
  PROVE  OneInv'
<1>1. CASE UNCHANGED RootVars
  BY <1>1 DEF RootVars, OneInv
<1>2. ASSUME NEW p \in Procs, RootStep(p), ~exposed'
      PROVE  place'["legacy"] \notin Dirs \/ place'["current"] \notin Dirs
  <2>1. ~exposed /\ (place["legacy"] \notin Dirs \/ place["current"] \notin Dirs)
    BY <1>2, Exposure DEF OneInv
  <2>2. CASE place' = place
    BY <2>1, <2>2
  <2>3. CASE Moves \/ Links
    BY <2>3, SentinelsApart DEF Moves, Links, RootTypeOK, Paths
  <2>4. CASE (OpenState(p) \/ OpenCache(p)) /\ Creates(p)
    <3>1. job[p].at \in Using /\ ~Apart(p)
      BY <1>2, <2>4, Exposure DEF Using, OpenState, OpenCache
    <3>2. place["legacy"] = Nothing /\ place["current"] = Nothing
      BY <2>4, <3>1, NothingThere DEF Creates
    <3>3. job[p].root \in Paths
      BY DEF RootTypeOK, Jobs
    <3>4. QED  BY <2>4, <3>2, <3>3, SentinelsApart DEF Creates, RootTypeOK, Paths
  <2>5. QED  BY <1>2, <2>2, <2>3, <2>4, PlaceSteps
<1>3. ASSUME NEW d \in Dirs, Corrupt(d) PROVE OneInv'
  BY <1>3 DEF OneInv, Corrupt, History
<1>4. QED  BY <1>1, <1>2, <1>3 DEF RootNext, OneInv

LEMMA ResolvedStep ==
  ASSUME RootTypeOK, PlaceInv, GoalInv, ResolvedInv, [RootNext]_RootVars
  PROVE  ResolvedInv'
<1>1. CASE UNCHANGED RootVars
  BY <1>1 DEF RootVars, ResolvedInv, Justified, Follow
<1>2. ASSUME NEW p \in Procs, RootStep(p) PROVE ResolvedInv'
  <2>1. ASSUME NEW q \in Procs, q # p, job'[q].at \in Using, job'[q].root = "current",
               ~job'[q].stale
        PROVE  place'["current"] # Nothing \/ Follow("legacy")' = Nothing
    <3>1. Same(q)
      BY <1>2, <2>1, OthersSame
    <3>2. place["current"] # Nothing \/ Follow("legacy") = Nothing
      BY <2>1, <3>1 DEF Same, ResolvedInv, Justified
    <3>3. CASE place' = place
      BY <3>2, <3>3 DEF Follow
    <3>4. CASE Moves \/ Links
      BY <3>4, SentinelsApart DEF Moves, Links, RootTypeOK, Paths
    <3>5. CASE (OpenState(p) \/ OpenCache(p)) /\ Creates(p) /\ place' # place
      BY <2>1, <3>5, Outdates
    <3>6. QED  BY <1>2, <3>3, <3>4, <3>5, PlaceSteps
  <2>2. ASSUME job'[p].at \in Using, job'[p].root = "current", ~job'[p].stale
        PROVE  place'["current"] # Nothing \/ Follow("legacy")' = Nothing
    <3>1. CASE Change(p) \/ Status(p) \/ Update(p)
      <4>1. job'[p].at = "check" \/ job'[p].at = "lstat"
        BY <3>1, OwnStart
      <4>2. QED  BY <2>2, <4>1 DEF Using
    <3>2. CASE Lstat(p) \/ Stat(p)
      <4>1. \/ Move(p, "stat") \/ Move(p, "rename") \/ Resolved(p, "legacy")
            \/ place["current"] # Nothing \/ Follow("legacy") = Nothing
        BY <3>2 DEF Lstat, Stat
      <4>2. place["current"] # Nothing \/ Follow("legacy") = Nothing
        BY <2>2, <4>1, OwnMove, OwnResolved DEF Using
      <4>3. place' = place
        BY <3>2 DEF Lstat, Stat
      <4>4. QED  BY <4>2, <4>3 DEF Follow
    <3>3. CASE Rename(p)
      <4>1. Move(p, "link") \/ Resolved(p, "legacy")
        BY <3>3 DEF Rename
      <4>2. QED  BY <2>2, <4>1, OwnMove, OwnResolved DEF Using
    <3>4. CASE Symlink(p)
      BY <1>2, <3>4, PlaceGrows DEF Symlink, GoalInv
    <3>5. CASE OpenState(p)
      <4>1. job[p].root = "current"
        BY <2>2, <3>5, OwnOpen DEF Using
      <4>2. Makes(p) /\ Follow("current") = place["current"] /\ Made(p) # Nothing
        BY <3>5, MadeIsUnused, SentinelsApart DEF OpenState, Follow, PlaceInv
      <4>3. QED  BY <4>1, <4>2, MakesTyped DEF RootTypeOK, Paths
    <3>6. CASE Load(p) \/ Check(p) \/ OpenCache(p) \/ WriteCache(p)
      BY <2>2, <3>6, OwnLoad, OwnCheck, OwnOpenCache, OwnWriteCache DEF Using, Leaves, Opens
    <3>7. CASE ReplaceState(p) \/ ReadCache(p) \/ Crash(p) \/ Finish(p)
      BY <2>2, <3>7, OwnReplace DEF Using
    <3>8. QED  BY <1>2, <3>1, <3>2, <3>3, <3>4, <3>5, <3>6, <3>7 DEF RootStep
  <2>3. QED  BY <2>1, <2>2 DEF ResolvedInv, Justified
<1>3. ASSUME NEW d \in Dirs, Corrupt(d) PROVE ResolvedInv'
  <2>1. place' = place /\ \A q \in Procs : Same(q)
    BY <1>3, CorruptKeeps DEF Corrupt
  <2>2. QED  BY <2>1 DEF ResolvedInv, Justified, Same, Follow
<1>4. QED  BY <1>1, <1>2, <1>3 DEF RootNext

\* The directory in use stays, until the first one is made.
LEMMA TheDirStep ==
  ASSUME RootTypeOK, PlaceInv, GoalInv, ResolvedInv, OneInv, NEW p \in Procs, RootStep(p), ~exposed'
  PROVE  \/ TheDir' = TheDir /\ ~Creates(p)
         \/ TheDir' = TheDir /\ ~OpenState(p) /\ ~OpenCache(p)
         \/ /\ (OpenState(p) \/ OpenCache(p)) /\ Creates(p)
            /\ TheDir = Nothing /\ TheDir' = Made(p) /\ ~Placed(Made(p)) /\ Made(p) \in Dirs
<1>1. CASE place' = place
  <2>1. TheDir' = TheDir
    BY <1>1 DEF TheDir, Follow
  <2>2. Creates(p) => place' # place
    <3>1. Creates(p) => /\ job[p].root \in Paths /\ place[job[p].root] = Nothing
                        /\ Made(p) \in Dirs /\ place' = [place EXCEPT ![job[p].root] = Made(p)]
      BY MadeIsUnused DEF Creates, RootTypeOK, Jobs
    <3>2. QED  BY <3>1, SentinelsApart DEF RootTypeOK
  <2>3. QED  BY <1>1, <2>1, <2>2
<1>2. CASE Rename(p) /\ Moves
  <2>1. TheDir' = TheDir
    BY <1>2, SentinelsApart DEF Moves, TheDir, Follow
  <2>2. QED  BY <1>2, <2>1 DEF Rename, OpenState, OpenCache
<1>3. CASE Symlink(p) /\ Links
  <2>1. TheDir' = TheDir
    BY <1>3 DEF Links, TheDir, Follow, RootTypeOK, Paths
  <2>2. QED  BY <1>3, <2>1 DEF Symlink, OpenState, OpenCache
<1>4. CASE (OpenState(p) \/ OpenCache(p)) /\ Creates(p)
  <2>1. job[p].at \in Using /\ ~Apart(p)
    BY <1>4, Exposure DEF Using, OpenState, OpenCache
  <2>2. place["legacy"] = Nothing /\ place["current"] = Nothing /\ TheDir = Nothing
    BY <1>4, <2>1, NothingThere DEF Creates
  <2>3. job[p].root \in Paths /\ Made(p) \in Dirs /\ ~Placed(Made(p))
    BY <1>4, MadeIsUnused DEF Creates, RootTypeOK, Jobs
  <2>4. TheDir' = Made(p)
    <3>1. CASE job[p].root = "legacy"
      <4>1. place'["legacy"] = Made(p) /\ place'["current"] = Nothing
        BY <1>4, <2>2, <3>1 DEF Creates, RootTypeOK, Paths
      <4>2. QED  BY <2>3, <4>1, SentinelsApart DEF TheDir, Follow
    <3>2. CASE job[p].root = "current"
      <4>1. place'["current"] = Made(p)
        BY <1>4, <3>2 DEF Creates, RootTypeOK, Paths
      <4>2. QED  BY <2>3, <4>1, SentinelsApart DEF TheDir
    <3>3. QED  BY <2>3, <3>1, <3>2 DEF Paths
  <2>5. QED  BY <1>4, <2>2, <2>3, <2>4
<1>5. QED  BY <1>1, <1>2, <1>3, <1>4, PlaceSteps

\* What a command that writes works in is the directory in use.
LEMMA MadeIsTheDir ==
  ASSUME RootTypeOK, PlaceInv, GoalInv, ResolvedInv, OneInv, NEW p \in Procs, RootStep(p), ~exposed',
         OpenState(p) \/ OpenCache(p)
  PROVE  Made(p) = TheDir' /\ Made(p) \in Dirs
<1>1. job[p].root \in Paths /\ Makes(p) /\ ~exposed
  BY Exposure DEF RootTypeOK, Jobs, OpenState, OpenCache
<1>2. CASE Creates(p)
  BY <1>2, TheDirStep
<1>3. CASE ~Creates(p)
  <2>1. Follow(job[p].root) # Nothing
    BY <1>1, <1>3, MakesTyped DEF Creates
  <2>2. Made(p) = TheDir /\ Made(p) \in Dirs
    BY <1>1, <2>1, MadeIsUnused, OneDir
  <2>3. QED  BY <1>3, <2>2, TheDirStep
<1>4. QED  BY <1>2, <1>3

LEMMA WriteStep ==
  ASSUME RootTypeOK, PlaceInv, GoalInv, WriteInv, [RootNext]_RootVars
  PROVE  WriteInv'
<1>1. CASE UNCHANGED RootVars
  BY <1>1 DEF RootVars, WriteInv
<1>2. ASSUME NEW p \in Procs, RootStep(p) PROVE WriteInv'
  <2>1. \A q \in Procs \ {p} : Same(q)
    BY <1>2, OthersSame
  <2>2. job'[p].at = "rewrite" => OpenCache(p) /\ Opens(p)
    BY <1>2, Opener, OwnOpenCache DEF Leaves
  <2>3. \/ told' = told \/ told' = Muddled
        \/ Writing(p) = {}
    <3>1. CASE OpenCache(p)
      BY <3>1, OwnOpenCache DEF Leaves, Opens
    <3>2. CASE WriteCache(p)
      <4>1. CASE job[p].mixed
        BY <3>2, <4>1 DEF WriteCache
      <4>2. CASE ~job[p].mixed
        BY <3>2, <4>2 DEF WriteCache, WriteInv, Writing
      <4>3. QED  BY <4>1, <4>2
    <3>3. CASE Change(p) \/ Status(p) \/ Update(p)
      BY <3>3 DEF Change, Status, Update, Starts, History
    <3>4. CASE Lstat(p) \/ Stat(p) \/ Rename(p) \/ Symlink(p) \/ Load(p) \/ OpenState(p)
               \/ ReplaceState(p) \/ Check(p) \/ ReadCache(p) \/ Finish(p) \/ Crash(p)
      BY <3>4 DEF Lstat, Stat, Rename, Symlink, Load, OpenState, ReplaceState, Check,
                  ReadCache, Finish, Crash, History
    <3>5. QED  BY <1>2, <3>1, <3>2, <3>3, <3>4 DEF RootStep
  <2>4. ASSUME NEW q \in Procs, job'[q].at = "rewrite" PROVE told' = Muddled
    <3>1. CASE q = p
      BY <2>2, <2>4, <3>1 DEF Opens
    <3>2. CASE q # p
      <4>1. job[q].at = "rewrite" /\ q \in Writing(p)
        BY <2>1, <2>4, <3>2 DEF Same, Writing
      <4>2. QED  BY <2>3, <4>1 DEF WriteInv
    <3>3. QED  BY <3>1, <3>2
  <2>5. ASSUME NEW q \in Procs, NEW r \in Procs, q # r, job'[q].at = "rewrite",
               job'[r].at = "rewrite"
        PROVE  job'[q].mixed
    <3>1. CASE q = p
      <4>1. r \in Writing(p)
        BY <2>1, <2>5, <3>1 DEF Same, Writing
      <4>2. QED  BY <2>2, <2>5, <3>1, <4>1 DEF Opens
    <3>2. CASE r = p
      <4>1. q \in Writing(p)
        BY <2>1, <2>5, <3>2 DEF Same, Writing
      <4>2. QED  BY <2>2, <2>5, <3>2, <4>1 DEF Opens
    <3>3. CASE q # p /\ r # p
      BY <2>1, <2>5, <3>3 DEF Same, WriteInv
    <3>4. QED  BY <3>1, <3>2, <3>3
  <2>6. QED  BY <2>4, <2>5 DEF WriteInv
<1>3. ASSUME NEW d \in Dirs, Corrupt(d) PROVE WriteInv'
  <2>1. told' = told /\ \A q \in Procs : Same(q)
    BY <1>3, CorruptKeeps DEF Corrupt, History
  <2>2. QED  BY <2>1 DEF WriteInv, Same
<1>4. QED  BY <1>1, <1>2, <1>3 DEF RootNext

LEMMA StatusStep ==
  ASSUME RootTypeOK, PlaceInv, GoalInv, ResolvedInv, OneInv, WriteInv, StatusTellsTheLastCheck,
         [RootNext]_RootVars
  PROVE  StatusTellsTheLastCheck'
<1> DEFINE Learnt == IF told \in Versions THEN told ELSE Nothing
<1>1. CASE UNCHANGED RootVars
  BY <1>1 DEF RootVars, StatusTellsTheLastCheck, Available, TheDir, Follow
<1>2. ASSUME NEW p \in Procs, RootStep(p), told' # Muddled, ~exposed'
      PROVE  Available(TheDir)' = IF told' \in Versions THEN told' ELSE Nothing
  <2>1. ~exposed
    BY <1>2, Exposure
  <2>2. CASE OpenCache(p)
    <3>1. Made(p) = TheDir' /\ Made(p) \in Dirs
      BY <1>2, <2>2, MadeIsTheDir
    <3>2. Leaves(p)
      BY <1>2, <2>2, OwnOpenCache DEF Opens
    <3>3. told' = cache'[Made(p)]
      <4>1. CASE Writing(p) = {}
        BY <3>2, <4>1 DEF Leaves
      <4>2. CASE Writing(p) # {}
        <5>1. told = Muddled
          BY <4>2 DEF Writing, WriteInv
        <5>2. QED  BY <1>2, <3>2, <4>2, <5>1 DEF Leaves
      <4>3. QED  BY <4>1, <4>2
    <3>4. QED  BY <3>1, <3>3, SentinelsApart DEF Available
  <2>3. CASE WriteCache(p)
    <3>1. job[p].dir \in Dirs /\ job[p].dir = TheDir
      BY <2>1, <2>3, OneDir DEF PlaceInv, WriteCache
    <3>2. TheDir' = TheDir
      BY <2>3 DEF WriteCache, TheDir, Follow
    <3>3. ~job[p].mixed /\ told' = job[p].learnt
      BY <1>2, <2>3 DEF WriteCache
    <3>4. cache'[job[p].dir] = job[p].learnt
      BY <2>3, <3>1, <3>3 DEF WriteCache, RootTypeOK
    <3>5. QED  BY <3>1, <3>2, <3>3, <3>4, SentinelsApart DEF Available
  <2>4. CASE ~OpenCache(p) /\ ~WriteCache(p)
    <3>1. told' = told /\ cache' = cache
      <4>1. CASE Change(p) \/ Status(p) \/ Update(p)
        BY <4>1 DEF Change, Status, Update, Starts, History, Files
      <4>2. CASE Lstat(p) \/ Stat(p) \/ Rename(p) \/ Symlink(p) \/ Load(p) \/ OpenState(p)
                 \/ ReplaceState(p) \/ Check(p) \/ ReadCache(p) \/ Finish(p) \/ Crash(p)
        BY <4>2 DEF Lstat, Stat, Rename, Symlink, Load, OpenState, ReplaceState, Check,
                    ReadCache, Finish, Crash, History, Files
      <4>3. QED  BY <1>2, <2>4, <4>1, <4>2 DEF RootStep
    <3>2. Available(TheDir) = Learnt
      BY <1>2, <2>1, <3>1 DEF StatusTellsTheLastCheck
    <3>3. CASE TheDir' = TheDir
      BY <3>1, <3>2, <3>3 DEF Available
    <3>4. CASE TheDir = Nothing /\ TheDir' = Made(p) /\ ~Placed(Made(p)) /\ Made(p) \in Dirs
      <4>1. cache'[Made(p)] = Nothing /\ Learnt = Nothing
        BY <3>1, <3>2, <3>4 DEF PlaceInv, Available
      <4>2. QED  BY <3>1, <3>4, <4>1 DEF Available
    <3>5. QED  BY <1>2, <3>3, <3>4, TheDirStep
  <2>5. QED  BY <2>2, <2>3, <2>4
<1>3. ASSUME NEW d \in Dirs, Corrupt(d) PROVE StatusTellsTheLastCheck'
  BY <1>3 DEF Corrupt, History, StatusTellsTheLastCheck, Available, TheDir, Follow
<1>4. QED  BY <1>1, <1>2, <1>3 DEF RootNext, StatusTellsTheLastCheck

\* Only a command that replaces state.json changes what the next one finds.
LEMMA RecordChange ==
  ASSUME RootTypeOK, PlaceInv, GoalInv, ResolvedInv, OneInv, NEW p \in Procs, RootStep(p), ~exposed'
  PROVE  \/ TheRecord' = TheRecord
         \/ ReplaceState(p) /\ record' # record /\ TheRecord' = job[p].record
<1>1. ~exposed
  BY Exposure
<1>2. CASE ReplaceState(p)
  <2>1. job[p].root \in Paths /\ job[p].record \in Records
    BY DEF RootTypeOK, Jobs
  <2>2. TheDir' = TheDir
    BY <1>2 DEF ReplaceState, TheDir, Follow
  <2>3. CASE record' = record
    BY <2>2, <2>3 DEF TheRecord
  <2>4. CASE record' # record
    <3> DEFINE d == Follow(job[p].root)
    <3>1. d # Nothing /\ record' = [record EXCEPT ![d] = job[p].record]
      BY <1>2, <2>4 DEF ReplaceState
    <3>2. d = TheDir /\ d \in Dirs
      BY <1>1, <2>1, <3>1, OneDir, Leads
    <3> HIDE DEF d
    <3>3. record'[TheDir'] = job[p].record
      BY <2>2, <3>1, <3>2 DEF RootTypeOK
    <3>4. TheRecord' = job[p].record
      BY <2>1, <2>2, <3>1, <3>2, <3>3, SentinelsApart DEF TheRecord
    <3>5. QED  BY <1>2, <2>4, <3>4
  <2>5. QED  BY <2>3, <2>4
<1>3. CASE ~ReplaceState(p)
  <2>1. record' = record
    <3>1. CASE Change(p) \/ Status(p) \/ Update(p)
      BY <3>1 DEF Change, Status, Update, Starts, Files
    <3>2. CASE Lstat(p) \/ Stat(p) \/ Rename(p) \/ Symlink(p) \/ Load(p) \/ OpenState(p)
               \/ OpenCache(p) \/ WriteCache(p) \/ Check(p) \/ ReadCache(p) \/ Finish(p) \/ Crash(p)
      BY <3>2 DEF Lstat, Stat, Rename, Symlink, Load, OpenState, OpenCache, WriteCache, Check,
                  ReadCache, Finish, Crash, Files
    <3>3. QED  BY <1>3, <3>1, <3>2 DEF RootStep
  <2>2. CASE TheDir' = TheDir
    BY <2>1, <2>2 DEF TheRecord
  <2>3. CASE TheDir = Nothing /\ TheDir' = Made(p) /\ ~Placed(Made(p)) /\ Made(p) \in Dirs
    <3>1. record'[TheDir'] = Nothing
      BY <2>1, <2>3 DEF PlaceInv
    <3>2. QED  BY <2>3, <3>1 DEF TheRecord
  <2>4. QED  BY <2>2, <2>3, TheDirStep
<1>4. QED  BY <1>2, <1>3

LEMMA CorruptRecord ==
  ASSUME RootTypeOK, PlaceInv, OneInv, NEW d \in Dirs, Corrupt(d), ~exposed'
  PROVE  TheRecord' = Garbage /\ ~exposed
<1>1. /\ place' = place /\ record[d] # Nothing /\ record' = [record EXCEPT ![d] = Garbage]
      /\ ~exposed
  BY DEF Corrupt, History
<1>2. Placed(d) /\ d = TheDir
  BY <1>1, OneDir DEF PlaceInv
<1>3. TheDir' = TheDir
  BY <1>1 DEF TheDir, Follow
<1>4. record'[d] = Garbage /\ d # Nothing
  BY <1>1, SentinelsApart DEF RootTypeOK
<1>5. QED  BY <1>1, <1>2, <1>3, <1>4, SentinelsApart DEF TheRecord

LEMMA RecordStep ==
  ASSUME RootTypeOK, PlaceInv, GoalInv, ResolvedInv, OneInv, RecordInv, [RootNext]_RootVars
  PROVE  RecordInv'
<1>1. CASE UNCHANGED RootVars
  BY <1>1 DEF RootVars, RecordInv, Current, Changed, Prepared, TheRecord, TheDir, Follow
<1>2. ASSUME NEW p \in Procs, RootStep(p), ~exposed', NEW q \in Procs, ~job'[q].stale
      PROVE  Current(job[q])'
  <2>1. ~exposed
    BY <1>2, Exposure
  <2>2. CASE q # p
    <3>1. Same(q) /\ Current(job[q])
      BY <1>2, <2>1, <2>2, OthersSame DEF RecordInv, Same
    <3>2. TheRecord' = TheRecord
      BY <1>2, <2>2, RecordChange, Outdates
    <3>3. QED  BY <3>1, <3>2 DEF Same, Current, Changed, Prepared
  <2>3. CASE q = p
    <3>1. CASE Change(p) \/ Status(p) \/ Update(p)
      <4>1. job'[p].at \in {"lstat", "check"} /\ job'[p].goal = "load"
        BY <3>1, OwnStart
      <4>2. QED  BY <2>3, <4>1 DEF Current, Prepared
    <3>2. CASE Lstat(p) \/ Stat(p) \/ Rename(p) \/ Symlink(p)
      <4>1. /\ job[p].at \in Resolving
            /\ \/ Move(p, "stat") \/ Move(p, "rename") \/ Move(p, "link")
               \/ \E path : Resolved(p, path)
        BY <3>2 DEF Lstat, Stat, Rename, Symlink, Resolving
      <4>2. /\ Holds(p) /\ job[p].goal \in Goals
            /\ job'[p].at \in Resolving \union {job[p].goal}
        BY <4>1, OwnMove, OwnResolved DEF Resolving, GoalInv
      <4>3. TheRecord' = TheRecord
        <5>1. job[p].at # "replace"
          BY <4>1 DEF Resolving
        <5>2. QED  BY <1>2, <5>1, RecordChange DEF ReplaceState
      <4>4. ~job[p].stale /\ Current(job[p])
        BY <1>2, <2>1, <2>3, <4>2 DEF Holds, RecordInv
      <4>5. job'[p].at # "replace" /\ (Prepared(job[p])' => Prepared(job[p]))
        BY <4>1, <4>2 DEF Prepared, Resolving, Goals, Holds
      <4>6. Changed(job[p]) => Changed(job[p])'
        BY <4>2, <4>3 DEF Changed, Holds
      <4>7. QED  BY <2>3, <4>3, <4>4, <4>5, <4>6 DEF Current
    <3>3. CASE Load(p)
      <4>1. \/ ~Prepared(job[p])' /\ job'[p].at # "replace"
            \/ /\ job'[p].at = "lstat"
               /\ job'[p].record = [Found(p) EXCEPT ![job[p].field] = job[p].value]
               /\ job'[p].field = job[p].field /\ job'[p].value = job[p].value
        BY <3>3, OwnLoad DEF Prepared, Resolving
      <4>2. Found(p) = TheRecord
        <5>1. job[p].at \in Using /\ ~Apart(p) /\ job[p].root \in Paths
          BY <1>2, <3>3, Exposure DEF Load, Using, RootTypeOK, Jobs
        <5>2. CASE Follow(job[p].root) = Nothing
          BY <5>1, <5>2, NothingThere DEF Found, TheRecord
        <5>3. CASE Follow(job[p].root) # Nothing
          <6>1. Follow(job[p].root) = TheDir
            BY <2>1, <5>1, <5>3, OneDir
          <6>2. QED  BY <5>3, <6>1 DEF Found, TheRecord
        <5>4. QED  BY <5>2, <5>3
      <4>3. TheRecord' = TheRecord
        BY <1>2, <3>3, RecordChange DEF Load, ReplaceState
      <4>4. QED  BY <2>3, <4>1, <4>2, <4>3 DEF Current, Changed
    <3>4. CASE OpenState(p)
      <4>1. \/ job'[p].at = "idle"
            \/ job'[p].at = "replace" /\ Holds(p) /\ record[Made(p)] # Garbage
        BY <3>4, OwnOpen
      <4>2. TheRecord' = TheRecord
        BY <1>2, <3>4, RecordChange DEF OpenState, ReplaceState
      <4>3. CASE job'[p].at = "idle"
        BY <2>3, <4>3 DEF Current, Prepared, Resolving
      <4>4. CASE job'[p].at = "replace" /\ Holds(p) /\ record[Made(p)] # Garbage
        <5>1. TheRecord' # Garbage
          <6>1. Made(p) = TheDir' /\ record' = record
            BY <1>2, <3>4, MadeIsTheDir DEF OpenState, Files
          <6>2. TheRecord' \in {Blank, record[Made(p)]}
            BY <6>1 DEF TheRecord
          <6>3. QED  BY <4>4, <6>2, SentinelsApart
        <5>2. ~job[p].stale /\ Prepared(job[p])
          BY <1>2, <2>3, <3>4, <4>4 DEF Holds, OpenState, Prepared
        <5>3. Changed(job[p])
          BY <2>1, <4>2, <5>1, <5>2 DEF RecordInv, Current
        <5>4. Changed(job[p])'
          BY <4>2, <4>4, <5>3 DEF Changed, Holds
        <5>5. QED  BY <2>3, <4>4, <5>1, <5>4 DEF Current, Prepared, Resolving
      <4>5. QED  BY <4>1, <4>3, <4>4
    <3>5. CASE Check(p) \/ OpenCache(p) \/ WriteCache(p)
      <4>1. \/ job'[p].at = "lstat" /\ job'[p].goal = "recheck"
            \/ job'[p].at \in {"compare", "rewrite"}
        BY <3>5, OwnCheck, OwnOpenCache, OwnWriteCache DEF Leaves, Opens
      <4>2. QED  BY <2>3, <4>1 DEF Current, Prepared, Resolving
    <3>6. CASE ReplaceState(p) \/ ReadCache(p) \/ Crash(p) \/ Finish(p)
      <4>1. job'[p].at = "idle"
        BY <3>6, OwnReplace
      <4>2. QED  BY <2>3, <4>1 DEF Current, Prepared, Resolving
    <3>7. QED  BY <1>2, <3>1, <3>2, <3>3, <3>4, <3>5, <3>6 DEF RootStep
  <2>4. QED  BY <2>2, <2>3
<1>3. ASSUME NEW d \in Dirs, Corrupt(d), ~exposed', NEW q \in Procs, ~job'[q].stale
      PROVE  Current(job[q])'
  <2>1. TheRecord' = Garbage
    BY <1>3, CorruptRecord
  <2>2. job'[q].at # "replace"
    BY <1>3, CorruptKeeps DEF Same
  <2>3. QED  BY <2>1, <2>2 DEF Current
<1>4. QED  BY <1>1, <1>2, <1>3 DEF RootNext, RecordInv

-----------------------------------------------------------------------------
(* Theorems. *)

LEMMA RootInvStep ==
  ASSUME RootInv, [RootNext]_RootVars
  PROVE  RootInv'
  BY TypeStep, GoalStep, PlaceStep, OneStep, ResolvedStep, WriteStep, StatusStep, RecordStep,
     VersionStep DEF RootInv

LEMMA RootInvariant == RootSpec => []RootInv
<1>1. RootInit => RootInv
  BY RootInitTyped
<1>2. RootInv /\ [RootNext]_RootVars => RootInv'
  BY RootInvStep
<1>3. QED  BY <1>1, <1>2, PTL DEF RootSpec

\* After a check whose write met no other, whatever was done to the root, by any
\* number of commands and crashes, a status shows what that check learnt.
THEOREM StatusIsTheLastCheck == RootSpec => []StatusTellsTheLastCheck
<1>1. RootInv => StatusTellsTheLastCheck
  BY DEF RootInv
<1>2. QED  BY <1>1, RootInvariant, PTL

LEMMA RecordIsOneStep ==
  ASSUME RootInv, [RootNext]_RootVars, ~exposed'
  PROVE  /\ (\A p \in Procs : ~Saved(p)) => TheRecord' \in {TheRecord, Garbage}
         /\ \A p \in Procs : Saved(p) /\ ~job[p].stale =>
              /\ TheRecord # Garbage
              /\ TheRecord' = [TheRecord EXCEPT ![job[p].field] = job[p].value]
<1> USE DEF RootInv
<1>1. CASE UNCHANGED RootVars
  BY <1>1 DEF RootVars, Saved, TheRecord, TheDir, Follow
<1>2. ASSUME NEW p \in Procs, RootStep(p),
             \A q \in Procs : ~Saved(q)
      PROVE  TheRecord' = TheRecord
  <2>1. ReplaceState(p) /\ record' # record => Saved(p)
    BY OwnReplace DEF ReplaceState, Saved
  <2>2. QED  BY <1>2, <2>1, RecordChange
<1>3. ASSUME NEW p \in Procs, RootStep(p), NEW q \in Procs, Saved(q), ~job[q].stale
      PROVE  /\ TheRecord # Garbage
             /\ TheRecord' = [TheRecord EXCEPT ![job[q].field] = job[q].value]
  <2>1. q = p
    BY <1>3, OthersSame DEF Saved, Same
  <2>2. ReplaceState(p)
    <3>1. job[p].at = "replace" /\ record' # record
      BY <1>3, <2>1 DEF Saved
    <3>2. CASE Change(p) \/ Status(p) \/ Update(p)
      BY <3>1, <3>2 DEF Change, Status, Update, Starts
    <3>3. CASE Lstat(p) \/ Stat(p) \/ Rename(p) \/ Symlink(p) \/ Load(p) \/ OpenState(p)
               \/ OpenCache(p) \/ WriteCache(p) \/ Check(p) \/ ReadCache(p) \/ Finish(p) \/ Crash(p)
      BY <3>1, <3>3 DEF Lstat, Stat, Rename, Symlink, Load, OpenState, OpenCache, WriteCache, Check,
                        ReadCache, Finish, Crash, Files
    <3>4. QED  BY <1>3, <3>2, <3>3 DEF RootStep
  <2>3. TheRecord # Garbage /\ Changed(job[p])
    BY <1>3, <2>1, <2>2, Exposure DEF RecordInv, Current, ReplaceState
  <2>4. TheRecord' = TheRecord \/ TheRecord' = job[p].record
    BY <1>3, RecordChange
  <2>5. TheRecord' = job[p].record
    <3>1. CASE TheRecord' = TheRecord
      <4> DEFINE d == Follow(job[p].root)
      <4>1. d # Nothing /\ record' = [record EXCEPT ![d] = job[p].record] /\ place' = place
        BY <1>3, <2>1, <2>2 DEF ReplaceState, Saved
      <4>2. d = TheDir /\ d \in Dirs /\ ~exposed
        BY <1>3, <4>1, OneDir, Leads, Exposure DEF RootTypeOK, Jobs
      <4>3. TheDir' = TheDir
        BY <4>1 DEF TheDir, Follow
      <4> HIDE DEF d
      <4>4. record'[TheDir'] = job[p].record /\ TheDir' # Nothing /\ job[p].record \in Records
        BY <4>1, <4>2, <4>3 DEF RootTypeOK, Jobs
      <4>5. QED  BY <4>4, SentinelsApart DEF TheRecord
    <3>2. QED  BY <2>4, <3>1
  <2>6. QED  BY <2>1, <2>3, <2>5 DEF Changed
<1>4. ASSUME NEW d \in Dirs, Corrupt(d) PROVE TheRecord' = Garbage
  BY <1>4, CorruptRecord
<1>5. ASSUME NEW d \in Dirs, Corrupt(d), NEW q \in Procs PROVE ~Saved(q)
  BY <1>5, CorruptKeeps DEF Same, Saved
<1>6. QED  BY <1>1, <1>2, <1>3, <1>4, <1>5 DEF RootNext

\* The record is one: a save changes the part it was asked to change of the record
\* as it stands, and nothing else changes it, for any number of commands.
THEOREM RecordStaysOne == RootSpec => RecordIsOne
<1>1. RootInv /\ [RootNext]_RootVars =>
        [ ~exposed' =>
            /\ (\A p \in Procs : ~Saved(p)) => TheRecord' \in {TheRecord, Garbage}
            /\ \A p \in Procs : Saved(p) /\ ~job[p].stale =>
                 /\ TheRecord # Garbage
                 /\ TheRecord' = [TheRecord EXCEPT ![job[p].field] = job[p].value] ]_RootVars
  BY RecordIsOneStep
<1>2. QED  BY <1>1, RootInvariant, PTL DEF RootSpec, RecordIsOne

-----------------------------------------------------------------------------
(* Versions. *)

LEMMA PartsAreNumbers ==
  ASSUME NEW v \in Seq(Nat), NEW i \in Nat \ {0}
  PROVE  /\ Part(v, i) \in Nat
         /\ Part(v, i) > 0 => i \in 1..Len(v)
  BY DEF Part

LEMMA BehindIsNewer ==
  ASSUME NEW v \in Seq(Nat), NEW w \in Seq(Nat), Behind(w, v)
  PROVE  Newer(v, w) /\ w # <<>>
<1> DEFINE differ == {i \in 1..(Len(w) + Len(v)) : Part(w, i) # Part(v, i)}
<1>1. PICK n \in differ : (\A j \in differ : n <= j) /\ Part(v, n) > Part(w, n)
  BY DEF Behind
<1>2. n \in Nat \ {0} /\ n \in 1..(Len(w) + Len(v))
  OBVIOUS
<1>3. Part(v, n) \in Nat /\ Part(w, n) \in Nat
  BY <1>2, PartsAreNumbers
<1>4. n \in 1..Len(v)
  BY <1>1, <1>2, <1>3, PartsAreNumbers
<1>5. ASSUME NEW i \in 1..(n - 1) PROVE Part(v, i) = Part(w, i)
  <2>1. i \in 1..(Len(w) + Len(v)) /\ ~(n <= i)
    BY <1>2
  <2>2. i \notin differ
    BY <1>1, <2>1
  <2>3. QED  BY <2>1, <2>2
<1>6. QED  BY <1>1, <1>4, <1>5 DEF Newer, Behind

\* The order by which an update decides is an order: no version is newer than
\* itself, and newer than newer is newer, for versions of any number of parts,
\* so updates one after another never go round in a circle.
THEOREM NewerIsAnOrder ==
  /\ \A v \in Seq(Nat) : ~Newer(v, v)
  /\ \A u, v, w \in Seq(Nat) : Newer(u, v) /\ Newer(v, w) => Newer(u, w)
<1>1. ASSUME NEW v \in Seq(Nat) PROVE ~Newer(v, v)
  <2>1. \A n \in 1..Len(v) : Part(v, n) \in Nat
    BY PartsAreNumbers
  <2>2. QED  BY <2>1 DEF Newer
<1>2. ASSUME NEW u \in Seq(Nat), NEW v \in Seq(Nat), NEW w \in Seq(Nat), Newer(u, v), Newer(v, w)
      PROVE  Newer(u, w)
  <2>1. PICK m \in 1..Len(u) : /\ Part(u, m) > Part(v, m)
                               /\ \A i \in 1..(m - 1) : Part(u, i) = Part(v, i)
    BY <1>2 DEF Newer
  <2>2. PICK n \in 1..Len(v) : /\ Part(v, n) > Part(w, n)
                               /\ \A i \in 1..(n - 1) : Part(v, i) = Part(w, i)
    BY <1>2 DEF Newer
  <2>3. \A x \in {u, v, w}, i \in {m, n} : Part(x, i) \in Nat
    <3>1. m \in Nat \ {0} /\ n \in Nat \ {0}
      OBVIOUS
    <3>2. ASSUME NEW x \in Seq(Nat), NEW i \in Nat \ {0} PROVE Part(x, i) \in Nat
      BY PartsAreNumbers
    <3>3. QED  BY <3>1, <3>2
  <2>4. CASE m <= n
    <3>1. Part(v, m) >= Part(w, m)
      <4>1. CASE m = n
        BY <2>2, <2>3, <4>1
      <4>2. CASE m < n
        BY <2>2, <2>3, <4>2
      <4>3. QED  BY <2>4, <4>1, <4>2
    <3>2. Part(u, m) > Part(w, m)
      BY <2>1, <2>3, <3>1
    <3>3. \A i \in 1..(m - 1) : Part(u, i) = Part(w, i)
      BY <2>1, <2>2, <2>4
    <3>4. QED  BY <3>2, <3>3 DEF Newer
  <2>5. CASE n < m
    <3>1. Part(u, n) > Part(w, n)
      BY <2>1, <2>2, <2>5
    <3>2. n \in 1..Len(u)
      BY <2>5
    <3>3. \A i \in 1..(n - 1) : Part(u, i) = Part(w, i)
      BY <2>1, <2>2, <2>5
    <3>4. QED  BY <3>1, <3>2, <3>3 DEF Newer
  <2>6. QED  BY <2>4, <2>5
<1>3. QED  BY <1>1, <1>2

LEMMA ForwardStep ==
  ASSUME RootInv, [RootNext]_RootVars, NEW p \in Procs, binary' # binary,
         job[p].at = "compare", job'[p].at = "idle"
  PROVE  job[p].passed \/ (binary # <<>> /\ Newer(binary', binary))
<1> USE DEF RootInv
<1>1. PICK q \in Procs : RootStep(q)
  <2>1. ~UNCHANGED RootVars /\ ~\E d \in Dirs : Corrupt(d)
    BY DEF RootVars, Corrupt
  <2>2. QED  BY <2>1 DEF RootNext
<1>2. q = p
  BY <1>1, OthersSame DEF Same
<1>3. Finish(p)
  <2>1. CASE Change(p) \/ Status(p) \/ Update(p)
    BY <2>1 DEF Change, Status, Update, Starts
  <2>2. CASE Lstat(p) \/ Stat(p) \/ Rename(p) \/ Symlink(p) \/ Load(p) \/ OpenState(p)
             \/ ReplaceState(p) \/ Check(p)
    BY <2>2 DEF Lstat, Stat, Rename, Symlink, Load, OpenState, ReplaceState, Check
  <2>3. CASE OpenCache(p) \/ WriteCache(p) \/ ReadCache(p) \/ Crash(p)
    BY <2>3 DEF OpenCache, WriteCache, ReadCache, Crash
  <2>4. QED  BY <1>1, <1>2, <2>1, <2>2, <2>3 DEF RootStep
<1>4. Behind(job[p].version, job[p].learnt) /\ binary' = job[p].learnt /\ binary' \in Versions
  BY <1>3 DEF Finish
<1>5. ~job[p].passed => job[p].version = binary
  BY DEF VersionInv, Updating
<1>6. binary \in Seq(Nat) /\ binary' \in Seq(Nat)
  BY <1>4, StateRootAssumption DEF RootTypeOK
<1>7. QED  BY <1>4, <1>5, <1>6, BehindIsNewer

\* An update never moves the binary back, for releases of any number of parts,
\* unless another update replaced the binary while it ran.
THEOREM UpdatesMoveForward == RootSpec => OnlyForward
<1>1. RootInv /\ [RootNext]_RootVars =>
        [ \A p \in Procs : binary' # binary /\ job[p].at = "compare" /\ job'[p].at = "idle" =>
            job[p].passed \/ (binary # <<>> /\ Newer(binary', binary)) ]_RootVars
  BY ForwardStep
<1>2. QED  BY <1>1, RootInvariant, PTL DEF RootSpec, OnlyForward
=============================================================================
