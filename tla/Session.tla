------------------------------- MODULE Session -------------------------------
(***************************************************************************)
(* A working session on one repository: the agent edits, runs the testing  *)
(* discipline and keeps a plan; at every stop the host runs the Stop gate  *)
(* (src/internal/gate), and anybody may run `tpp check`                    *)
(* (src/internal/check).  Both read git status, the declaration and the    *)
(* plan; the gate also reads the transcript and its clock.  Messages are   *)
(* reduced to what they claim.                                             *)
(***************************************************************************)
EXTENDS PlanDoc, FiniteSets

CONSTANTS SourceFiles,
          Production,       \* IsProductionSource
          Docs,             \* plans an agent may leave
          NoPlan,
          MaxStatusEntries, \* gate.go: 2000 in the source
          MaxSteps,         \* things the agent does in one behaviour
          MaxSessions

ASSUME SessionAssumption ==
  /\ NoPlan \notin Docs
  /\ \A doc \in Docs : LET lines == {doc[i] : i \in DOMAIN doc}
                       IN  doc \in Seq(lines) /\ PlainWords(lines)

VARIABLES status,      \* file -> what git status says of it
          touched,     \* files whose time lies within the session
          plans,       \* place -> the plan there
          declaration, \* .tpp.json: "none", "declared", or "bad"
          optOut,      \* .no-testing-gate
          transcript,  \* what the host's transcript shows of the session
          turn,        \* "working", "asked" to stop, "over"
          active,      \* the host continues because of a Stop hook
          heard,       \* what the operator last heard at a stop, and the plan it was about
          entry,       \* the last line handed to the gate's log
          steps, sessions

SessionVars == <<status, touched, plans, declaration, optOut, transcript, turn, active,
                 heard, entry, steps, sessions>>

Places == {"default", "declared"}
Silence == [line |-> "", doc |-> NoPlan]
NoEntry == [files |-> {}, skipped |-> "", optedOut |-> FALSE, fired |-> FALSE, audited |-> FALSE]

Transcript(readable, timed) == [readable |-> readable, timed |-> timed, loaded |-> FALSE]

\* What earlier work left may still be uncommitted.
SessionAt(t) ==
  /\ status \in [SourceFiles -> {"clean", "modified"}] /\ touched = {}
  /\ plans = [p \in Places |-> NoPlan]
  /\ declaration = "none" /\ optOut = FALSE
  /\ transcript = Transcript(TRUE, TRUE)
  /\ turn = t /\ active = FALSE
  /\ heard = Silence /\ entry = NoEntry
  /\ steps = 0 /\ sessions = 1

SessionInit == SessionAt("working")

-----------------------------------------------------------------------------
(* What both commands read. *)

\* ResolvePath: the place of the plan; a declaration that cannot be read has none.
PlanPlace == IF declaration = "declared" THEN "declared" ELSE "default"
ThePlan == plans[PlanPlace]

Gaps == [doc \in Docs |-> GapsIn(doc)]

\* ParsePorcelain: a rename is its new name, what is deleted is dropped.
StatusEntries == {f \in SourceFiles : status[f] \notin {"clean", "deleted"}}

-----------------------------------------------------------------------------
(* The gate. *)

\* sessionStart, changedSources: without a transcript, or a time in it, the window is the
\* last eight hours, in which every file of this model was written.
ChangedSources ==
  LET since == transcript.readable /\ transcript.timed
  IN  {f \in StatusEntries \intersect Production : since => f \in touched}

\* judgedBy, SkillsLoaded, isAdversarial.
DisciplineRan == transcript.readable /\ transcript.loaded

\* Mutant of AuditLine: tables that were cut and plans without a matrix say nothing.
AuditLineOfCounts(gaps) ==
  IF gaps.unswept # {} \/ gaps.pending # {} THEN "owed"
  ELSE IF gaps.micro THEN "micro owes nothing" ELSE "owes nothing"

\* auditLine: it reads the counts of the decision, not the reason text.
AuditLine(gaps) ==
  IF gaps.unswept # {} /\ gaps.pending # {} THEN "layers and targets owed"
  ELSE IF gaps.unswept # {} THEN "layers owed"
  ELSE IF gaps.pending # {} THEN "targets owed"
  ELSE IF gaps.interrupted # {} THEN "not read to the end"
  ELSE IF gaps.noLayerMatrix THEN "never planned"
  ELSE IF gaps.micro THEN "micro owes nothing" ELSE "owes nothing"

\* audit: a plan that is not there is silence.
Audit(line) ==
  IF declaration = "bad"
    THEN [heard |-> [line |-> "declaration", doc |-> NoPlan],
          entry |-> [line EXCEPT !.skipped = "plan_config_invalid"]]
  ELSE IF ThePlan = NoPlan THEN [heard |-> Silence, entry |-> line]
  ELSE [heard |-> [line |-> AuditLine(Gaps[ThePlan]), doc |-> ThePlan],
        entry |-> [line EXCEPT !.audited = TRUE]]

\* statusEntries, judgedBy: what a stop that is not continued says and logs.
Judge(git) ==
  LET files == ChangedSources
      line == [NoEntry EXCEPT !.files = files, !.optedOut = optOut]
      skip(reason) == [heard |-> Silence, entry |-> [NoEntry EXCEPT !.skipped = reason]]
  IN  IF git = "no repository" THEN [heard |-> Silence, entry |-> entry]
      ELSE IF git = "failed" THEN skip("git_status_failed")
      ELSE IF Cardinality(StatusEntries) > MaxStatusEntries THEN skip("too_many_entries")
      ELSE IF files = {} \/ optOut THEN [heard |-> Silence, entry |-> line]
      ELSE IF ~DisciplineRan
        THEN [heard |-> [line |-> "untested", doc |-> NoPlan], entry |-> [line EXCEPT !.fired = TRUE]]
      ELSE Audit(line)

\* Mutant of Decide: the flag of a continued turn is not read.
DecideAgain(git, continued) == Judge(git)

\* Decide: a stop of a continued turn says nothing and leaves no line.
Decide(git, continued) ==
  IF continued THEN [heard |-> Silence, entry |-> entry] ELSE Judge(git)

\* Run: the hook at a stop.  The host continues the turn when it is told something.
RunStopHook ==
  /\ turn = "asked"
  /\ \E git \in {"ok", "failed", "no repository"} :
       LET said == Decide(git, active)
       IN  /\ heard' = said.heard /\ entry' = said.entry
           /\ IF said.heard = Silence THEN turn' = "over" /\ UNCHANGED active
              ELSE turn' = "working" /\ active' = TRUE
  /\ UNCHANGED <<status, touched, plans, declaration, optOut, transcript, steps, sessions>>

\* A payload the hook cannot read decides nothing and says so in the log.
StopUnread ==
  /\ turn = "asked" /\ turn' = "over"
  /\ heard' = Silence /\ entry' = [NoEntry EXCEPT !.skipped = "unreadable_payload"]
  /\ UNCHANGED <<status, touched, plans, declaration, optOut, transcript, active, steps, sessions>>

-----------------------------------------------------------------------------
(* tpp check. *)

\* Mutant of CheckRun: a change without a plan is nothing to check.
CheckRunWithPlans(git) ==
  IF git = "ok" /\ declaration # "bad" /\ StatusEntries \intersect Production # {} /\ ThePlan # NoPlan
    THEN IF AnyGap(Gaps[ThePlan]) THEN 1 ELSE 0
    ELSE IF declaration = "bad" THEN 1 ELSE 0

\* Run: the exit code.  It has no window, no opt-out and no limit.
CheckRun(git) ==
  IF git = "no repository" THEN 0
  ELSE IF declaration = "bad" THEN 1
  ELSE IF git = "failed" \/ StatusEntries \intersect Production = {} THEN 0
  ELSE IF ThePlan = NoPlan \/ AnyGap(Gaps[ThePlan]) THEN 1 ELSE 0

-----------------------------------------------------------------------------
(* The agent, the operator and the host. *)

Step == turn = "working" /\ steps < MaxSteps /\ steps' = steps + 1
Rest == UNCHANGED <<turn, active, heard, entry, sessions>>

Edit(f) ==
  /\ Step /\ Rest
  /\ status' = [status EXCEPT ![f] = IF @ = "untracked" THEN @ ELSE "modified"]
  /\ touched' = touched \union {f}
  /\ UNCHANGED <<plans, declaration, optOut, transcript>>

\* A rename keeps the time of the file, a removal leaves nothing to look at.
Rearrange(f) ==
  /\ Step /\ Rest
  /\ \E s \in {"renamed", "deleted", "untracked"} :
       /\ status' = [status EXCEPT ![f] = s]
       /\ touched' = IF s = "untracked" THEN touched \union {f} ELSE touched
  /\ UNCHANGED <<plans, declaration, optOut, transcript>>

Commit ==
  /\ Step /\ Rest
  /\ status' = [f \in SourceFiles |-> "clean"]
  /\ UNCHANGED <<touched, plans, declaration, optOut, transcript>>

LoadSkill ==
  /\ Step /\ Rest
  /\ transcript' = [transcript EXCEPT !.loaded = TRUE]
  /\ UNCHANGED <<status, touched, plans, declaration, optOut>>

\* The commands that write a plan resolve its place the same way.
WritePlan ==
  /\ Step /\ Rest /\ declaration # "bad"
  /\ \E doc \in Docs \union {NoPlan} : plans' = [plans EXCEPT ![PlanPlace] = doc]
  /\ UNCHANGED <<status, touched, declaration, optOut, transcript>>

Configure ==
  /\ Step /\ Rest
  /\ \/ declaration' \in {"none", "declared", "bad"} /\ UNCHANGED optOut
     \/ optOut' = ~optOut /\ UNCHANGED declaration
  /\ UNCHANGED <<status, touched, plans, transcript>>

AskToStop ==
  /\ turn = "working" /\ turn' = "asked"
  /\ UNCHANGED <<status, touched, plans, declaration, optOut, transcript, active, heard, entry, steps, sessions>>

\* Another session on the same tree: what was written before it is old.
NewSession ==
  /\ turn = "over" /\ sessions < MaxSessions
  /\ sessions' = sessions + 1 /\ turn' = "working" /\ active' = FALSE
  /\ touched' = {}
  /\ transcript' \in {Transcript(readable, timed) : readable, timed \in BOOLEAN}
  /\ UNCHANGED <<status, plans, declaration, optOut, heard, entry, steps>>

SessionNext ==
  \/ RunStopHook \/ StopUnread
  \/ \E f \in SourceFiles : Edit(f) \/ Rearrange(f)
  \/ Commit \/ LoadSkill \/ WritePlan \/ Configure \/ AskToStop \/ NewSession

SessionSpec == SessionInit /\ [][SessionNext]_SessionVars

\* The agent ends its turns, and the host runs the hook it has wired with a payload it can read.
SessionFairness == WF_SessionVars(RunStopHook) /\ WF_SessionVars(AskToStop)

-----------------------------------------------------------------------------
(* What the gate and the check promise. *)

\* "owes nothing" is said of a plan only when every owed row of both tables, as a reader
\* sees them, is swept, and of a micro plan only when no rule of the check is broken
\* (auditLine, GapsForRun, microTarget).
OwesNothingIsTrue ==
  /\ heard.line \in {"owes nothing", "micro owes nothing"} =>
       \A name \in {"Layer matrix", "Ranked targets"} :
         PlainlyOwed(heard.doc, name, "") = {} \/ ExampleHides(heard.doc, name)
  /\ heard.line = "owes nothing" => HasTable(ScanSection(heard.doc, "Layer matrix"))
  /\ heard.line = "micro owes nothing" => CheckDocument(heard.doc) = {}

\* The gate and the check never answer the same tree differently: an audit that finds
\* nothing owed goes with exit 0, every other outcome of a tested change with exit 1, also
\* where the gate is silent because there is no plan (gate.go Decide, check.go Run).
GateAndCheckAgree ==
  LET gate == Decide("ok", FALSE)
      judged == /\ ChangedSources # {} /\ ~optOut /\ DisciplineRan
                /\ ~(Cardinality(StatusEntries) > MaxStatusEntries)
  IN  judged => ((CheckRun("ok") = 0) <=> gate.heard.line \in {"owes nothing", "micro owes nothing"})

SessionEnded == turn = "over"
=============================================================================
