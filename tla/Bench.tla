-------------------------------- MODULE Bench --------------------------------
(***************************************************************************)
(* `tpp bench run`, `bench adjudicate` and `bench rescore`.  A run expands *)
(* its cases into units, and a pool of workers scaffolds each unit, runs   *)
(* the agent with its retries, scores the workspace and writes its record; *)
(* the units share one budget.  The results are then tallied, and          *)
(* aggregate, summary and history row are written.  Afterwards readers     *)
(* decide finding rows, at once or in turn, and a rescore reads everything *)
(* again.                                                                  *)
(***************************************************************************)
EXTENDS BenchScore

CONSTANTS
  Fixture,     \* case -> [loads, suite, key, control, fixAll]
  Works,       \* case -> the workspaces an agent can leave
  Fresh,       \* the workspace as scaffolded: the fixture's own plan and tests
  Runs,        \* the invocations: [cases, runs, ceiling, dry, keep, history],
               \* and the readers who decide its rows afterwards
  MaxUnits,    \* bound of a model: units of an invocation
  Workers, Retries,
  Costs,       \* what one attempt of the agent can cost
  Refused,     \* a rescore that ended in an error
  Garbled,     \* the name of a unit that crashed: the unit printed as a struct
  MaxFaults    \* bound of a model: writes, agent calls and units that fail or hang

VARIABLES
  opts,      \* this invocation
  phase,     \* where Run is
  unit,      \* unit -> [case, run, pc, tries, work, res]
  dir,       \* unit -> its results directory [ws, copy, kept, adj]
  spent,     \* what finished units recorded
  agg,       \* the aggregate
  code,      \* the exit code
  files,     \* the run's records on disk
  decider,   \* process -> [pc, unit, adj, decision]
  rescored,  \* what the last rescore wrote
  faults,
  judged,    \* history: the decisions that were recorded, by unit
  overlap    \* history: two deciders worked on one record at once

runVars == <<opts, phase, agg, code, files>>
unitVars == <<unit, dir, spent>>
readVars == <<decider, rescored, judged, overlap>>
vars == <<runVars, unitVars, readVars, faults>>

-----------------------------------------------------------------------------
(* Units. *)

NoKey == [id |-> Garbled, defects |-> <<>>]

Result(case, run, key) ==
  [case |-> case, run |-> run, total |-> Len(key.defects),
   ids |-> IdsOf(key.defects), control |-> FALSE,
   invalid |-> FALSE, failed |-> FALSE, cost |-> 0,
   score |-> Score(NoPlan, NoKey), catch |-> Unchecked]

Unit(case, run) ==
  [case |-> case, run |-> run, pc |-> "queued", tries |-> 0, work |-> Fresh,
   res |-> IF run = 0 THEN [Result(case, 0, NoKey) EXCEPT !.invalid = TRUE]
           ELSE Result(case, run, Fixture[case].key)]

\* A case whose key does not load is one invalid unit.
BuildUnits(o) ==
  FlattenSeq([i \in DOMAIN o.cases |->
    IF Fixture[o.cases[i]].loads THEN [r \in 1..o.runs |-> Unit(o.cases[i], r)]
    ELSE <<Unit(o.cases[i], 0)>>])

Workspaces == {Fresh} \cup UNION {Works[c] : c \in DOMAIN Fixture}
PlansLeft == {Delivered(ws) : ws \in Workspaces} \ {Absent}

IsPlan(plan) ==
  /\ plan = [f \in {"rows", "ledger"} |-> plan[f]]
  /\ plan.rows \in Seq({plan.rows[i] : i \in DOMAIN plan.rows})
  /\ \A i \in DOMAIN plan.rows :
       plan.rows[i] = [f \in {"cites", "names", "evidence", "pinned", "text"} |-> plan.rows[i][f]]

\* A plan in which somebody has reworded the first finding.
Reworded(plan) == [plan EXCEPT !.rows = [@ EXCEPT ![1].text = Garbled]]

ASSUME BenchAssumption ==
  /\ Workers \in Nat \ {0} /\ Retries \in Nat /\ MaxUnits \in Nat
  /\ Costs \subseteq Nat /\ \E most \in Costs : \A c \in Costs : c <= most
  /\ Absent \notin Workspaces
  /\ \A plan \in PlansLeft : IsPlan(plan) /\ (plan.rows # <<>> => Reworded(plan) # Absent)
  /\ \A o \in Runs : /\ o.cases \in Seq(DOMAIN Fixture)
                     /\ o.runs \in Nat /\ o.ceiling \in Nat
                     /\ Len(BuildUnits(o)) <= MaxUnits

NoDir == [ws |-> Absent, copy |-> Absent, kept |-> FALSE, adj |-> Absent]
Idle == [pc |-> "idle", unit |-> 0, adj |-> Absent, decision |-> Absent]

Init ==
  /\ opts \in Runs
  /\ phase = "start"
  /\ unit = BuildUnits(opts)
  /\ dir = [u \in DOMAIN unit |-> NoDir]
  /\ spent = 0
  /\ agg = Absent /\ code = 0 /\ files = {}
  /\ decider = [a \in opts.readers |-> Idle]
  /\ rescored = Absent
  /\ faults = 0 /\ judged = {} /\ overlap = FALSE

Fault == faults < MaxFaults /\ faults' = faults + 1
NoFault == UNCHANGED faults

Key(u) == Fixture[unit[u].case].key

-----------------------------------------------------------------------------
(* Run, before the pool. *)

\* No case matches, or the output directory cannot be made: nothing is spent.
Prepare ==
  /\ phase = "start"
  /\ \/ /\ opts.cases # <<>>
        /\ phase' = "pool" /\ UNCHANGED code /\ NoFault
     \/ /\ phase' = "exited" /\ code' = 1
        /\ opts.cases # <<>> => faults < MaxFaults
        /\ faults' = IF opts.cases = <<>> THEN faults ELSE faults + 1
  /\ UNCHANGED <<opts, agg, files, unitVars, readVars>>

-----------------------------------------------------------------------------
(* One unit in the pool. *)

\* Inside a job of schedule, which gives its slot back when the job returns; a hung
\* unit is one whose job never does.
InJob == {"held", "scaffold", "agent", "score", "finish", "pay", "hung"}
Holding == {u \in DOMAIN unit : unit[u].pc \in InJob}

UnitStep(u, from, to) ==
  /\ phase = "pool" /\ unit[u].pc = from
  /\ unit' = [unit EXCEPT ![u] = to]
  /\ UNCHANGED <<runVars, readVars>>

At(u, pc) == [unit[u] EXCEPT !.pc = pc]

\* Mutant of Acquire: one slot too many.
AcquireOver(u) ==
  /\ Cardinality(Holding) <= Workers
  /\ UnitStep(u, "queued", At(u, "held"))
  /\ UNCHANGED <<dir, spent>> /\ NoFault

Acquire(u) ==
  /\ Cardinality(Holding) < Workers
  /\ UnitStep(u, "queued", At(u, "held"))
  /\ UNCHANGED <<dir, spent>> /\ NoFault

\* Mutant of UnderCeiling: the unit that reaches the ceiling is not counted.
UnderOrAtCeiling == opts.ceiling = 0 \/ spent <= opts.ceiling

UnderCeiling == opts.ceiling = 0 \/ spent < opts.ceiling

\* An invalid unit ends before the budget is asked.
Start(u) ==
  /\ UnitStep(u, "held",
       At(u, IF unit[u].res.invalid THEN "done"
             ELSE IF UnderCeiling THEN "scaffold" ELSE "skipped"))
  /\ UNCHANGED <<dir, spent>> /\ NoFault

\* The fixture's own suite has to be green before an agent is spent on it.
Scaffold(u) ==
  LET green == Fixture[unit[u].case].suite = "green"
      scored == [unit[u].res EXCEPT
                   !.score = ScoreFile(Delivered(Fresh), Key(u)),
                   !.control = Fixture[unit[u].case].control]
      next(res, pc) == [unit[u] EXCEPT !.pc = pc, !.res = res]
  IN /\ dir' = [dir EXCEPT ![u].ws = Fresh]
     /\ UNCHANGED spent /\ NoFault
     /\ UnitStep(u, "scaffold",
          CASE ~green -> next([unit[u].res EXCEPT !.invalid = TRUE], "finish")
            [] green /\ opts.dry -> next(scored, "finish")
            [] OTHER -> At(u, "agent"))

\* One attempt of the agent: it answers, or ends in an error or a timeout,
\* which is retried in the same workspace.  Either way it may have worked, and
\* what it cost is kept.
Attempt(u) ==
  \E work \in Works[unit[u].case], c \in Costs, infra \in BOOLEAN :
    LET again == infra /\ unit[u].tries < Retries
        res == [unit[u].res EXCEPT !.cost = @ + c, !.failed = infra /\ ~again]
    IN /\ IF infra THEN Fault ELSE NoFault
       /\ dir' = [dir EXCEPT ![u].ws = work]
       /\ UNCHANGED spent
       /\ UnitStep(u, "agent",
            [unit[u] EXCEPT
               !.pc = IF again THEN "agent" ELSE IF infra THEN "finish" ELSE "score",
               !.tries = @ + 1, !.work = work, !.res = res])

ScoreUnit(u) ==
  /\ unit[u].pc = "score"
  /\ \E catch \in Discriminate(Fixture[unit[u].case], dir[u].ws) :
       UnitStep(u, "score",
         [unit[u] EXCEPT
            !.pc = "finish",
            !.res = [@ EXCEPT !.score = ScoreFile(Delivered(dir[u].ws), Key(u)),
                              !.control = Fixture[unit[u].case].control,
                              !.catch = catch]])
  /\ UNCHANGED <<dir, spent>> /\ NoFault

\* Mutant of Missed: only the plan is looked at.
MissedInPlan(res) == res.score.found # res.ids \/ res.ids = {}

\* A miss of either measure keeps its workspace so it can be classified.
Missed(res) ==
  \/ res.score.found # res.ids \/ res.ids = {}
  \/ res.catch.checked /\ Caught(res.catch) # res.ids

KeepsWorkspace(res) ==
  opts.keep \/ res.invalid \/ res.failed \/ (~opts.dry /\ Missed(res))

\* finish: the plan is copied beside the result, the result is written, and a
\* workspace nobody needs is removed.  Either write can fail; a result that
\* cannot be written fails its unit.
Finish(u) ==
  /\ unit[u].pc = "finish"
  /\ \E copied, written \in BOOLEAN :
      LET res == [unit[u].res EXCEPT !.failed = @ \/ ~written]
          plan == Delivered(dir[u].ws)
      IN /\ plan = Absent => copied
         /\ IF copied /\ written THEN NoFault ELSE Fault
         /\ dir' = [dir EXCEPT ![u] =
              [@ EXCEPT !.copy = IF copied THEN plan ELSE Absent,
                        !.kept = written,
                        !.ws = IF KeepsWorkspace(res) THEN dir[u].ws ELSE Absent]]
         /\ UNCHANGED spent
         /\ UnitStep(u, "finish", [unit[u] EXCEPT !.pc = "pay", !.res = res])

Pay(u) ==
  /\ spent' = spent + unit[u].res.cost
  /\ UNCHANGED dir /\ NoFault
  /\ UnitStep(u, "pay", At(u, "done"))

\* Mutant of Panic: the crashed unit is never waited off.
PanicLeaking(u) ==
  /\ unit[u].pc \in InJob \ {"hung"} /\ Fault
  /\ UNCHANGED <<dir, spent>>
  /\ UnitStep(u, unit[u].pc, At(u, "crashed"))

\* A crash is recorded like a failed agent, and forgets what the unit cost.
Panic(u) ==
  /\ unit[u].pc \in InJob \ {"hung"} /\ Fault
  /\ UNCHANGED <<dir, spent>>
  /\ UnitStep(u, unit[u].pc,
       [unit[u] EXCEPT !.pc = "done",
          !.res = [Result(Garbled, 0, NoKey) EXCEPT !.failed = TRUE]])

\* What a call that does not return can have left in the workspace.
LeftBy(u) ==
  CASE unit[u].pc = "scaffold" -> {Fresh}
    [] unit[u].pc = "agent" -> Works[unit[u].case]
    [] unit[u].pc = "score" -> {dir[u].ws}

\* The deadline of a call kills the process it started and no descendant of that
\* process: one that keeps the output open keeps the call, which waits for the
\* output to end (an agent, git or a suite, in the scaffold or in the scoring).
\* A descendant that ends makes the call a slow one; this one does not.
Hang(u) ==
  /\ unit[u].pc \in {"scaffold", "agent", "score"} /\ Fault
  /\ \E ws \in LeftBy(u) : dir' = [dir EXCEPT ![u].ws = ws]
  /\ UNCHANGED spent
  /\ UnitStep(u, unit[u].pc, At(u, "hung"))

-----------------------------------------------------------------------------
(* The tally and the records of the run. *)

Ran == {u \in DOMAIN unit : unit[u].pc = "done"}

CeilingHit(a) == opts.ceiling > 0 /\ a.cost >= opts.ceiling

\* Mutant of ExitCode: a case that could not be scaffolded is not a hole.
ExitCodeOfFailures(a) ==
  IF CeilingHit(a) THEN 2 ELSE IF a.failed > 0 THEN 3 ELSE 0

ExitCode(a) ==
  IF CeilingHit(a) THEN 2 ELSE IF a.failed > 0 \/ a.invalid > 0 THEN 3 ELSE 0

Tally ==
  /\ phase = "pool"
  /\ \A u \in DOMAIN unit : unit[u].pc \in {"done", "skipped"}
  /\ agg' = FinalizeAggregate([u \in Ran |-> unit[u].res])
  /\ code' = ExitCode(agg')
  /\ phase' = "aggregate"
  /\ UNCHANGED <<opts, files, unitVars, readVars>> /\ NoFault

\* One record after the other; the first that cannot be written ends the run.
Written(now, next) ==
  /\ phase = now
  /\ \/ /\ files' = files \cup {now}
        /\ phase' = next /\ UNCHANGED code /\ NoFault
     \/ Fault /\ phase' = "exited" /\ code' = 4 /\ UNCHANGED files
  /\ UNCHANGED <<opts, agg, unitVars, decider, rescored, judged, overlap>>

WriteAggregate == Written("aggregate", "summary")
WriteSummary ==
  Written("summary", IF opts.dry \/ ~opts.history THEN "exited" ELSE "jsonl")

\* The line of history.jsonl, then the row of history.md.
AppendHistory == Written("jsonl", "md") \/ Written("md", "exited")

-----------------------------------------------------------------------------
(* bench adjudicate: read the result, the plan and the record, then replace  *)
(* the record.                                                             *)

NewRecord(u) ==
  [case |-> unit[u].case, run |-> unit[u].run, decisions |-> <<>>, superseded |-> <<>>]

Verdicts == {"defect", "false_positive", "out_of_scope"}

Texts == {Garbled} \cup UNION {{plan.rows[i].text : i \in DOMAIN plan.rows} : plan \in PlansLeft}
Decisions ==
  [row : Nat, text : Texts, by : UNION {o.readers : o \in Runs}, verdict : Verdicts,
   defect : {Absent} \cup UNION {IdsOf(Fixture[c].key.defects) : c \in DOMAIN Fixture}]
Records ==
  [case : DOMAIN Fixture, run : Nat, decisions : Seq(Decisions), superseded : Seq(Decisions)]

ASSUME RecordAssumption == Absent \notin Records

Read(a) ==
  /\ phase = "exited" /\ decider[a].pc = "idle"
  /\ \E u \in DOMAIN unit, replace \in BOOLEAN :
       /\ dir[u].kept /\ unit[u].run > 0 /\ dir[u].copy # Absent
       /\ \E row \in DOMAIN dir[u].copy.rows, verdict \in Verdicts :
          \E defect \in IF verdict = "defect" THEN IdsOf(Key(u).defects) ELSE {Absent} :
            LET adj == IF dir[u].adj = Absent THEN NewRecord(u) ELSE dir[u].adj
                d == [row |-> row, text |-> dir[u].copy.rows[row].text, by |-> a,
                      verdict |-> verdict, defect |-> defect]
            IN /\ CanDecide(adj, d, replace)
               /\ decider' = [decider EXCEPT ![a] =
                    [pc |-> "decided", unit |-> u, adj |-> adj, decision |-> d]]
  /\ UNCHANGED <<runVars, unitVars, rescored, judged, overlap>> /\ NoFault

\* The record is renamed into place, so a reader never sees half of it.
Record(a) ==
  LET now == decider[a]
      others == {b \in DOMAIN decider \ {a} : decider[b].pc = "decided" /\ decider[b].unit = now.unit}
  IN /\ now.pc = "decided"
     /\ decider' = [decider EXCEPT ![a] = [Idle EXCEPT !.pc = "done"]]
     /\ \/ /\ dir' = [dir EXCEPT ![now.unit].adj = Decide(now.adj, now.decision)]
           /\ judged' = judged \cup {<<now.unit, now.decision>>}
           /\ NoFault
        \/ Fault /\ UNCHANGED <<dir, judged>>
     /\ overlap' = (overlap \/ others # {})
     /\ UNCHANGED <<runVars, unit, spent, rescored>>

\* Someone rewords a finding of the kept plan after the run.
Reword(u) ==
  /\ phase = "exited" /\ opts.readers # {} /\ faults < MaxFaults
  /\ dir[u].copy # Absent /\ dir[u].copy.rows # <<>>
  /\ dir' = [dir EXCEPT ![u].copy = Reworded(@)]
  /\ faults' = faults + 1
  /\ UNCHANGED <<runVars, unit, spent, readVars>>

-----------------------------------------------------------------------------
(* bench rescore. *)

\* Mutant of PlanOf: the workspace is always expected to be there.
PlanInWorkspace(u) == IF dir[u].ws # Absent THEN Delivered(dir[u].ws) ELSE Absent

\* The plan a rescore reads: the workspace's when it was kept, else the copy.
PlanOf(u) == IF dir[u].ws # Absent THEN Delivered(dir[u].ws) ELSE dir[u].copy

\* A record is applied as a whole or refused; a plan that is gone has no rows
\* to decide, and its record is not looked at.
Admissible(u) ==
  dir[u].adj # Absent /\ PlanOf(u) # Absent =>
    dir[u].adj.run = unit[u].run /\ Applies(dir[u].adj, PlanOf(u), Key(u))

ReadAgain(u) ==
  LET score == ScoreFile(PlanOf(u), Key(u))
  IN IF dir[u].adj # Absent /\ PlanOf(u) # Absent
     THEN FinishAdjudication(score, dir[u].adj) ELSE score

\* Failed and invalid runs are carried over; a catch is checked again only
\* where the workspace is still there.
Rescored(u, catch) ==
  LET res == unit[u].res IN
  IF ~Measured(res) THEN res
  ELSE [res EXCEPT !.score = ReadAgain(u),
                   !.catch = IF dir[u].ws # Absent THEN catch ELSE res.catch]

Rescore ==
  /\ phase = "exited" /\ "aggregate" \in files /\ rescored = Absent
  /\ LET again == {u \in Ran : Measured(unit[u].res)}
         checks(u) == IF dir[u].ws # Absent
                      THEN Discriminate(Fixture[unit[u].case], dir[u].ws) ELSE {Unchecked}
     IN IF \E u \in again : ~Admissible(u)
        THEN rescored' = Refused
        ELSE \E catch \in [again -> UNION {checks(u) : u \in again}] :
               /\ \A u \in again : catch[u] \in checks(u)
               /\ rescored' = FinalizeAggregate(
                    [u \in Ran |->
                       Rescored(u, IF u \in again THEN catch[u] ELSE Unchecked)])
  /\ UNCHANGED <<runVars, unitVars, decider, judged, overlap>> /\ NoFault

-----------------------------------------------------------------------------
(* Specification. *)

Advance(u) ==
  \/ Acquire(u) \/ Start(u) \/ Scaffold(u) \/ Attempt(u) \/ ScoreUnit(u)
  \/ Finish(u) \/ Pay(u)

Main ==
  Prepare \/ Tally \/ WriteAggregate \/ WriteSummary \/ AppendHistory

Next ==
  \/ Main
  \/ \E u \in DOMAIN unit : Advance(u) \/ Panic(u) \/ Hang(u) \/ Reword(u)
  \/ \E a \in DOMAIN decider : Read(a) \/ Record(a)
  \/ Rescore

\* Every goroutine of the pool is scheduled, and a call that does not hang returns,
\* with an answer, an error or its deadline; nobody has to decide a row or to
\* rescore.
Fairness == WF_vars(Main) /\ WF_vars(\E u \in DOMAIN unit : Advance(u))

Spec == Init /\ [][Next]_vars /\ Fairness

-----------------------------------------------------------------------------
(* What the pool promises (Pool.tla), of the units of this run. *)

Slots == 1..MaxUnits

StateOf(u) ==
  IF u \notin DOMAIN unit THEN "waiting"
  ELSE CASE unit[u].pc = "queued" -> "waiting"
         [] unit[u].pc \in {"held", "skipped"} -> unit[u].pc
         [] unit[u].pc = "done" -> "ran"
         [] OTHER -> "running"

P == INSTANCE Pool WITH
  Units <- Slots,
  Ceilings <- {o.ceiling : o \in Runs},
  MaxUnit <- (Retries + 1) * Max(Costs),
  state <- [u \in Slots |-> StateOf(u)],
  ceiling <- opts.ceiling

\* The pool implements its abstraction: a unit ends at most once, ran or skipped,
\* the workers are never exceeded, hung units included, and what a unit adds to the
\* budget is added when it ends (runUnits and schedule).
PoolSpec == P!PoolSpec

-----------------------------------------------------------------------------
(* Properties. *)

\* The exit code is the truth about the record: 0 only when every unit of every
\* case ran and was valid and everything due is on disk, and a unit the ceiling
\* kept from starting always shows (tallyUnits recomputes the ceiling from the
\* results; the pool had decided it from what was spent at the time).
ExitCodeTellsTheTruth ==
  phase = "exited" =>
    /\ code = 0 =>
         /\ \A u \in DOMAIN unit : unit[u].pc = "done" /\ Measured(unit[u].res)
         /\ {"aggregate", "summary"} \subseteq files
         /\ ~opts.dry /\ opts.history => {"jsonl", "md"} \subseteq files
    /\ (\E u \in DOMAIN unit : unit[u].pc = "skipped") => code \in {2, 4}
    /\ {"jsonl", "md"} \cap files # {} => {"aggregate", "summary"} \subseteq files

\* "A run can land just past" its ceiling: without the units that were in
\* flight when the last one was launched, what it cost is under the ceiling.
\* What a crashed unit had cost is forgotten (runUnits, schedule).
OverspendIsInFlight ==
  opts.ceiling > 0 =>
    \E last \in SUBSET DOMAIN unit :
      /\ Cardinality(last) <= Workers
      /\ SumFunctionOnSet([u \in DOMAIN unit |-> unit[u].res.cost],
                          DOMAIN unit \ last) < opts.ceiling

\* A run that missed a defect, by either measure, or that failed, can still be
\* classified: its workspace is there when the run is over (finish).
MissKeepsItsWorkspace ==
  \A u \in DOMAIN unit :
    LET res == unit[u].res
        missed == \/ res.score.found # res.ids
                  \/ res.catch.checked /\ Caught(res.catch) # res.ids
    IN unit[u].pc = "done" /\ unit[u].tries > 0 /\ res.case # Garbled
       /\ (res.failed \/ missed)
         => dir[u].ws # Absent

\* A test is credited with catching a defect only if it can pass on the correct
\* code and fail where only that defect is left (Discriminate).
CaughtIsProof ==
  \A u \in DOMAIN unit : \A d \in unit[u].res.catch.judged :
    \A t \in unit[u].res.catch.caughtBy[d] :
      /\ "pass" \in unit[u].work.tests[t].all
      /\ "fail" \in unit[u].work.tests[t].keep[d]

\* The plan of a measured run was lost: its copy failed and its workspace went.
Lost(u) ==
  unit[u].res.score.planFound /\ dir[u].ws = Absent /\ dir[u].copy = Absent

\* A rescore reads the run as the run read itself, out of the workspaces that
\* were kept and the copies of those that were removed, unless a copy was lost
\* (Rescore, finish).
RescoreAgrees ==
  rescored \notin {Absent, Refused} =>
    /\ rescored.invalid = agg.invalid /\ rescored.failed = agg.failed
    /\ rescored.defects = agg.defects /\ rescored.unique = agg.unique
    /\ (\A u \in DOMAIN unit : Measured(unit[u].res) => ~Lost(u)) =>
         /\ rescored.found = agg.found /\ rescored.noPlan = agg.noPlan
         /\ rescored.uniqueFound = agg.uniqueFound

\* A decision that was recorded is standing or kept as superseded, unless two
\* people decided the same run at once; and a rescore counts a decision only for
\* the text it was taken on (Decide, ApplyAdjudication, writeAdjudication).
DecisionsStand ==
  [][/\ ~overlap' => \A j \in judged' :
          LET adj == dir'[j[1]].adj
          IN j[2] \in Range(adj.decisions) \cup Range(adj.superseded)
     /\ rescored' \notin {rescored, Refused} =>
          rescored'.true + rescored'.false <=
            Cardinality({j \in judged :
                           \E r \in Range(PlanOf(j[1]).rows) : r.text = j[2].text})]_vars

Hung == {u \in DOMAIN unit : unit[u].pc = "hung"}

\* As long as one worker is not held by a call that never returns, every unit that
\* does not hang itself is run to its end or skipped, whatever agents answer, fail
\* or crash; and the run ends when none hangs.  One hung call keeps the whole run
\* from its end (schedule, claudeAgent, RunSuite).
RunEnds ==
  [](Cardinality(Hung) < Workers) =>
    <>(\/ phase = "exited"
       \/ /\ Hung # {}
          /\ \A u \in DOMAIN unit : unit[u].pc \in {"done", "skipped", "hung"})
=============================================================================
