------------------------------- MODULE MCParts -------------------------------
(***************************************************************************)
(* An instance for TLC of six components that share no variable: the three *)
(* of the user's home (StateRoot, Telemetry, Terminal) and the three of a  *)
(* repository under test (PlanDoc, Session, Evidence).  Each behaviour     *)
(* runs one of them and leaves the others where they start, so that a      *)
(* property of a component is checked on all of its behaviours.            *)
(***************************************************************************)
EXTENDS StateRoot, Telemetry, Terminal, Session, Evidence, TLC

VARIABLE stage   \* the component of this behaviour

MCVersions == {<<1, 5>>, <<2>>, <<>>}
MCPresses == {"down", "pgdn", "esc", "enter"}
MCAhead ==
  {<<>>, <<"esc", "pgdn", "enter">>, <<"enter", "pgdn", "down">>, <<"enter", "pgdn", "pgup">>,
   <<"down", "enter", "enter">>, <<"down", "down", "down", "enter">>,
   <<"down", "down", "enter", "pgdn">>}
MCFrames == [menu |-> {2}, status |-> {5}, features |-> {2, 5}, plan |-> {5}]

-----------------------------------------------------------------------------
(* Plan documents: the lines of a draft, and the plans of a session. *)

MCCited == "a.go:1" :> "a.go"
MCLines == {Heading(2, "Layer matrix"), Heading(2, "Notes"), Heading(3, "Backend"),
            TableRow(<<"layer", "run", "status">>), TableRow(<<"layer", "status">>),
            TableRow(<<"api", "run-a", "pending">>), TableRow(<<"---", "---", "---">>),
            Fence("ticks"), Fence("tildes"), Prose("text"), BlankLine}
MCOpenings ==
  {<<Heading(2, "Layer matrix"), TableRow(<<"layer", "run", "status">>), line>> :
     line \in {Heading(3, "Backend"), Prose("text"), Fence("ticks")}}
  \union {<<Heading(2, "Layer matrix"), TableRow(<<"layer", "status">>), BlankLine,
            TableRow(<<"---", "---", "---">>)>>,
          <<Heading(2, "Layer matrix"), Fence("ticks"), Heading(2, "Notes"), Fence("ticks")>>,
          <<Fence("ticks"), Heading(2, "Layer matrix"), BlankLine, Fence("ticks")>>}

Findings(where) ==
  <<Heading(2, "Findings"), TableRow(<<"id", "finding", "evidence", "pinning test", "status">>),
    TableRow(<<"F1", where, "E1", "T1", "fixed">>)>>
Ledger == <<Heading(2, "Evidence ledger"), TableRow(<<"id", "admit", "mutate", "label">>),
            TableRow(<<"E1", "go test", "a => b", "observado">>)>>
Sound == Findings("a.go:1") \o Ledger
Layers(rows_) == <<Heading(2, "Layer matrix"), TableRow(<<"layer", "run", "status">>)>> \o rows_
Targets(rows_) == <<Heading(2, "Ranked targets"), TableRow(<<"target", "run", "status">>)>> \o rows_
Is(s) == TableRow(<<"api", "", s>>)
MicroPlan == <<Micro(TRUE, "a.go", "none")>>

MCDocs == {
  Sound \o Layers(<<Is("done"), Is("n/a")>>) \o Targets(<<Is("done")>>),
  Sound \o Layers(<<Is("pending")>>) \o Targets(<<Is("pending")>>),
  Sound \o Layers(<<Is("done")>>) \o Targets(<<Is("pending")>>),
  Layers(<<Is("done"), Prose("note"), Is("pending")>>),
  Sound,
  MicroPlan \o Sound,
  MicroPlan \o Findings("somewhere") \o Ledger,
  MicroPlan \o Sound \o Targets(<<Is("pending")>>) }

-----------------------------------------------------------------------------
(* Ledgers of evidence: one row for each way a row can go, and two that share an id. *)

RowOf(id, command) == [id |-> id, defects |-> {}, expect |-> "pass", normalize |-> FALSE,
                       command |-> command, edits |-> <<>>]
Killed == [equivalent |-> FALSE, kills |-> TRUE, litters |-> FALSE]
Litters == [Killed EXCEPT !.litters = TRUE]
Missed == [Killed EXCEPT !.kills = FALSE]
Equal == [Missed EXCEPT !.equivalent = TRUE]
Mutated(edits) == [RowOf("E1", "steady") EXCEPT !.edits = edits]

MCLedgers == {
  <<RowOf("E1", "steady")>>,
  <<RowOf("E1", "moving")>>,
  <<[RowOf("E1", "moving") EXCEPT !.normalize = TRUE]>>,
  <<RowOf("E1", "silent")>>,
  <<RowOf("E1", "flaky")>>,
  <<RowOf("E1", "writer")>>,
  <<[RowOf("E1", "red") EXCEPT !.expect = "fail"]>>,
  <<[RowOf("E1", "steady") EXCEPT !.expect = "fail"],
    [RowOf("E2", "red") EXCEPT !.defects = {"label", "markup"}]>>,
  <<Mutated(<<Killed, Equal>>)>>,
  <<Mutated(<<Missed>>)>>,
  <<Mutated(<<Litters, Litters>>)>>,
  <<[Mutated(<<Killed>>) EXCEPT !.defects = {"mutation"}]>>,
  <<RowOf("E1", "steady"), RowOf("E1", "moving")>> }

-----------------------------------------------------------------------------
(* One component runs, the others rest. *)

RootAtRest == /\ RootInit
              /\ place["legacy"] = Nothing /\ place["current"] = Nothing
              /\ binary = <<2>>
TelemetryAtRest == TelemetryInit /\ links
TerminalAtRest == TerminalInit /\ height = 2 /\ entered = <<>> /\ mode = "on"
EvidenceAtRest == EvidenceInit /\ tree = "a" /\ rows = <<RowOf("E1", "steady")>> /\ hasMode

SessionAtRest == SessionAt("over") /\ StatusEntries = {}

Init ==
  /\ stage \in {"root", "telemetry", "terminal", "draft", "session", "evidence"}
  /\ IF stage = "root" THEN RootInit ELSE RootAtRest
  /\ IF stage = "telemetry" THEN TelemetryInit ELSE TelemetryAtRest
  /\ IF stage = "terminal" THEN TerminalInit ELSE TerminalAtRest
  /\ IF stage = "draft" THEN DocInit ELSE draft = <<>>
  /\ IF stage = "session" THEN SessionInit ELSE SessionAtRest
  /\ IF stage = "evidence" THEN EvidenceInit ELSE EvidenceAtRest

HomeVars == <<RootVars, TelemetryVars, TerminalVars>>
RepoVars == <<draft, SessionVars, EvidenceVars>>

Next ==
  /\ UNCHANGED stage
  /\ \/ stage = "root" /\ RootNext /\ UNCHANGED <<TelemetryVars, TerminalVars, RepoVars>>
     \/ stage = "telemetry" /\ TelemetryNext /\ UNCHANGED <<RootVars, TerminalVars, RepoVars>>
     \/ stage = "terminal" /\ TerminalNext /\ UNCHANGED <<RootVars, TelemetryVars, RepoVars>>
     \/ stage = "draft" /\ WriteLine /\ UNCHANGED <<HomeVars, SessionVars, EvidenceVars>>
     \/ stage = "session" /\ SessionNext /\ UNCHANGED <<HomeVars, draft, EvidenceVars>>
     \/ stage = "evidence" /\ EvidenceNext /\ UNCHANGED <<HomeVars, draft, SessionVars>>

\* At rest neither the terminal nor the session has a step that fairness speaks of.
Spec == /\ Init /\ [][Next]_<<stage, HomeVars, RepoVars>>
        /\ TerminalFairness /\ SessionFairness

\* Nobody waits for ever.  The loop of the terminal handles every press, a lone Esc too,
\* which the decoder cannot tell from the start of a sequence (Flush, escWait of tui.Run).
\* A session that asks to stop comes to its end: what the gate says continues the turn
\* once, never again (Decide on StopHookActive).
NobodyHangs == []<>(CaughtUp /\ SessionEnded)
=============================================================================
