------------------------------ MODULE Evidence ------------------------------
(***************************************************************************)
(* Admission of the rows of a plan's Evidence ledger, one command after    *)
(* the other (src/internal/evidence, src/internal/admit, runPlanAdmit and  *)
(* the two runners of src/cmd/tpp/main.go).  A run reads the pins, screens *)
(* each row, observes its command twice, replays its edits on a copy of    *)
(* the tree, and may pin what it saw; the user edits the tree meanwhile.   *)
(* What a command prints is the tree it saw, where, and a part that moves. *)
(***************************************************************************)
EXTENDS Naturals, Sequences, FiniteSets

CONSTANTS Ledgers,   \* ledgers: sequences of rows, see MCParts
          Trees,     \* contents of the working tree
          MaxAdmissions, MaxChanges,
          NoPin

VARIABLES tree,      \* the working tree
          rows,      \* the ledger, without its pins
          hasMode,   \* the ledger has a Mode column
          pins,      \* row -> [digest, mode] as the ledger holds them
          admission, \* the command that runs
          results,   \* row -> its verdict in this run, and what was seen for it
          pinnedOn,  \* history: row -> where its pin was observed
          ran, changes

EvidenceVars == <<tree, rows, hasMode, pins, admission, results, pinnedOn, ran, changes>>

Dirty == "dirty"     \* a tree a command wrote into
Unpinned == [digest |-> NoPin, mode |-> ""]
NoSight == [tree |-> Dirty, mode |-> ""]
NoResult == [verdict |-> "none", reason |-> "", digest |-> NoPin, mode |-> "", seen |-> <<>>]
Idle == [at |-> "idle", row |-> 1, sandbox |-> FALSE, execute |-> FALSE, only |-> {}, record |-> {},
         read |-> <<>>, copy |-> Dirty, edit |-> 1, seen |-> <<>>]

EvidenceInit ==
  /\ tree \in Trees /\ rows \in Ledgers /\ hasMode \in BOOLEAN
  /\ pins = [i \in DOMAIN rows |-> Unpinned]
  /\ pinnedOn = [i \in DOMAIN rows |-> NoSight]
  /\ results = [i \in DOMAIN rows |-> NoResult]
  /\ admission = Idle /\ ran = 0 /\ changes = 0

TheRow == rows[admission.row]
Here == admission.row
\* modeOf.
Mode == IF admission.sandbox THEN "sandbox" ELSE "host"
ModeOf(mode) == IF mode = "" THEN "host" ELSE mode
Recording == TheRow.id \in admission.record

-----------------------------------------------------------------------------
(* Observations. *)

\* What a command may do in a directory: its error ("" when it exits with 0) and its output,
\* a part of which may move.  `kills` is the edit in force.
Exits(row, kills) == IF kills \/ row.command = "red" THEN {"red"}
                     ELSE IF row.command = "flaky" THEN {"red", ""} ELSE {""}
Prints(row, dir) ==
  IF row.command = "silent" THEN {NoPin}
  ELSE {[tree |-> dir, mode |-> Mode, moving |-> k] :
          k \in IF row.command = "moving" THEN {0, 1} ELSE {0}}
Outcomes(row, dir, kills) ==
  {[err |-> e, out |-> o] : e \in Exits(row, kills), o \in Prints(row, dir)}

\* runShell, sandboxRunner, sandboxRefusal: a deadline, a command the shell cannot start,
\* and a sandbox that is not there are told apart.
Troubles == {[err |-> "timeout", out |-> NoPin], [err |-> "absent", out |-> NoPin]}
            \union {[err |-> "refusal", out |-> NoPin] : m \in {Mode} \intersect {"sandbox"}}

\* Digest: the row's Normalize expression hides what moves.
Digest(row, out) == IF row.normalize THEN [out EXCEPT !.moving = 0] ELSE out

Saw(half, seen) ==
  Append(admission.seen, [half |-> half, err |-> seen.err,
                          digest |-> IF seen.out = NoPin THEN NoPin ELSE Digest(TheRow, seen.out)])

Goto(at, seen) == admission' = [admission EXCEPT !.at = at, !.seen = seen]

\* The verdict of a row, and on to the next one.
Conclude(verdict, reason, digest, seen) ==
  /\ results' = [results EXCEPT ![Here] = [verdict |-> verdict, reason |-> reason, digest |-> digest,
                                           mode |-> Mode, seen |-> seen]]
  /\ admission' = [admission EXCEPT !.at = IF Here = Len(rows) THEN "record" ELSE "row",
                                    !.row = IF Here = Len(rows) THEN @ ELSE @ + 1,
                                    !.edit = 1, !.seen = <<>>, !.copy = Dirty]
Refuse(reason, seen) == Conclude("refused", reason, NoPin, seen)

-----------------------------------------------------------------------------
(* The command. *)

\* Run, checkRequest: recording and the sandbox need --execute.
BeginAdmission ==
  /\ admission.at = "idle" /\ ran < MaxAdmissions
  /\ ran' = ran + 1
  /\ \E execute, sandbox \in BOOLEAN, only, record \in SUBSET {rows[i].id : i \in DOMAIN rows} :
       /\ record # {} \/ sandbox => execute
       /\ admission' = [Idle EXCEPT !.at = "row", !.execute = execute, !.sandbox = sandbox,
                                    !.only = only, !.record = record, !.read = pins]
  /\ results' = [i \in DOMAIN rows |-> NoResult]
  /\ UNCHANGED <<tree, rows, hasMode, pins, pinnedOn, changes>>

\* admitRow: what a row is refused for before anything runs; the earliest reason wins.
Screening == <<"malformed", "label", "no-command", "several-commands", "substitution", "markup",
               "placeholder", "redirection", "normalize", "expect", "expect-with-mutate">>

\* LedgerRow: a row and what is wrong with it.  The edits are those of its Mutate cell: only
\* a cell with edits can be malformed, and beside an expected failure it is a defect.
Edits == [equivalent : BOOLEAN, kills : BOOLEAN, litters : BOOLEAN]
LedgerRows == [id : STRING, expect : {"pass", "fail"}, normalize : BOOLEAN, command : STRING,
               edits : Seq(Edits),
               defects : SUBSET ({Screening[k] : k \in DOMAIN Screening} \union {"mutation"})]

ASSUME EvidenceAssumption ==
  /\ Ledgers \subseteq Seq(LedgerRows) \ {<<>>}
  /\ \A ledger \in Ledgers : \A i \in DOMAIN ledger :
       /\ "mutation" \in ledger[i].defects => ledger[i].edits # <<>>
       /\ ledger[i].expect = "fail" /\ ledger[i].edits # <<>>
            => "expect-with-mutate" \in ledger[i].defects
  /\ NoPin \notin [tree : Trees \union {Dirty}, mode : {"host", "sandbox"}, moving : {0, 1}]

\* Only a row that is pinned has a mode to compare, and recording sets it.
ModeMismatch(pin) == ~Recording /\ pin.digest # NoPin /\ ModeOf(pin.mode) # Mode

Defects ==
  LET broken == {k \in DOMAIN Screening : Screening[k] \in TheRow.defects}
      pin == admission.read[Here]
  IN  IF broken # {} THEN <<Screening[CHOOSE k \in broken : \A j \in broken : k <= j]>>
      ELSE IF ModeMismatch(pin) THEN <<"mode-mismatch">>
      ELSE IF TheRow.edits = <<>> THEN <<>>
      ELSE IF "mutation" \in TheRow.defects THEN <<"mutation-defect">>
      ELSE IF ~admission.sandbox THEN <<"not-replayed">> ELSE <<>>

Screen ==
  /\ admission.at = "row"
  /\ \/ /\ admission.only # {} /\ TheRow.id \notin admission.only
        /\ Conclude("none", "", NoPin, <<>>)
     \/ /\ admission.only = {} \/ TheRow.id \in admission.only
        /\ IF Defects # <<>> THEN Refuse(Defects[1], <<>>)
           ELSE IF ~admission.execute THEN Conclude("would run", "", NoPin, <<>>)
           ELSE Goto("first", <<>>) /\ UNCHANGED results
  /\ UNCHANGED <<tree, rows, hasMode, pins, pinnedOn, ran, changes>>

\* A command run where the tree is writes into it, or meets the read-only mount.
OutcomesHere ==
  IF TheRow.command = "writer" /\ admission.sandbox THEN {[err |-> "refusal", out |-> NoPin]}
  ELSE Outcomes(TheRow, IF TheRow.command = "writer" THEN Dirty ELSE tree, FALSE)
RunHere == tree' = IF TheRow.command = "writer" /\ ~admission.sandbox THEN Dirty ELSE tree

\* runOutcome: what the row expects of an error, "" when the run is the one it expects.
\* Only an exit of the test itself is an expected failure.
Failure(err) ==
  IF TheRow.expect = "fail" /\ err = "red" THEN ""
  ELSE IF TheRow.expect = "fail" /\ err = "" THEN "expected-failure-passed"
  ELSE IF err \in {"red", "absent"} THEN "command-failed" ELSE err

\* The last observation decides the row: two equal digests, and the pin.
Decided(first, again, seen) ==
  IF again # first THEN Refuse("unstable", seen)
  ELSE LET pin == admission.read[Here]
       IN  IF Recording THEN Conclude("admitted", "", first, seen)
           ELSE IF pin.digest = NoPin THEN Conclude("refused", "digest-missing", first, seen)
           ELSE IF pin.digest # first THEN Conclude("refused", "digest-mismatch", first, seen)
           ELSE Conclude("admitted", "", first, seen)

FirstRun ==
  /\ admission.at = "first"
  /\ \/ \E seen \in OutcomesHere :
          /\ RunHere
          /\ IF Failure(seen.err) # "" THEN Refuse(Failure(seen.err), Saw("first", seen))
             ELSE IF seen.out = NoPin THEN Refuse("empty-output", Saw("first", seen))
             ELSE Goto(IF TheRow.edits # <<>> THEN "stage" ELSE "second", Saw("first", seen)) /\ UNCHANGED results
     \/ \E seen \in Troubles : Refuse(Failure(seen.err), Saw("first", seen)) /\ UNCHANGED tree
  /\ UNCHANGED <<rows, hasMode, pins, pinnedOn, ran, changes>>

SecondRun ==
  /\ admission.at = "second"
  /\ \/ \E seen \in OutcomesHere :
          /\ RunHere
          /\ IF Failure(seen.err) # "" THEN Refuse(Failure(seen.err), Saw("second", seen))
             ELSE Decided(admission.seen[1].digest, Saw("second", seen)[2].digest, Saw("second", seen))
     \/ \E seen \in Troubles : Refuse(Failure(seen.err), Saw("second", seen)) /\ UNCHANGED tree
  /\ UNCHANGED <<rows, hasMode, pins, pinnedOn, ran, changes>>

-----------------------------------------------------------------------------
(* A replay: the edit of a survey on a copy, and the copy without it. *)

\* stageTree, applyMutation: a copy of what git knows; the edit may not fit it any more.
Stage ==
  /\ admission.at = "stage"
  /\ \/ admission' = [admission EXCEPT !.at = "mutated", !.copy = tree] /\ UNCHANGED results
     \/ Refuse("not-replayed", admission.seen)
  /\ UNCHANGED <<tree, rows, hasMode, pins, pinnedOn, ran, changes>>

\* Mutant of Survives: an edit the command does not notice is let through.
SurvivesUnnoticed(edit, err) ==
  IF err = "refusal" THEN "refusal" ELSE IF edit.equivalent /\ err # "" THEN "not-equivalent" ELSE ""

\* replaySurvey: what an edit is refused for after its mutated half.
Survives(edit, err) ==
  IF err = "refusal" THEN "refusal"
  ELSE IF edit.equivalent /\ err # "" THEN "not-equivalent"
  ELSE IF ~edit.equivalent /\ err = "" THEN "not-red" ELSE ""

\* restoreFile runs before either half is judged.
MutatedRun ==
  /\ admission.at = "mutated"
  /\ LET edit == TheRow.edits[admission.edit] IN
     \E seen \in Outcomes(TheRow, admission.copy, edit.kills) \union Troubles :
       /\ admission' = [admission EXCEPT !.at = "restored", !.seen = Saw("mutated", seen),
                                         !.copy = IF edit.litters THEN Dirty ELSE @]
       /\ UNCHANGED results
  /\ UNCHANGED <<tree, rows, hasMode, pins, pinnedOn, ran, changes>>

RestoredRun ==
  /\ admission.at = "restored"
  /\ LET edit == TheRow.edits[admission.edit]
         breach == Survives(edit, admission.seen[Len(admission.seen)].err)
     IN  \/ Refuse("not-replayed", admission.seen)
         \/ \E seen \in Outcomes(TheRow, admission.copy, FALSE) \union Troubles :
              IF breach # "" THEN Refuse(breach, Saw("restored", seen))
              ELSE IF seen.err # "" THEN Refuse(IF seen.err = "refusal" THEN "refusal" ELSE "not-green", Saw("restored", seen))
              ELSE IF admission.edit < Len(TheRow.edits)
                THEN /\ admission' = [admission EXCEPT !.at = "stage", !.edit = @ + 1, !.seen = Saw("restored", seen)]
                     /\ UNCHANGED results
              ELSE Decided(admission.seen[1].digest, Digest(TheRow, seen.out), Saw("restored", seen))
  /\ UNCHANGED <<tree, rows, hasMode, pins, pinnedOn, ran, changes>>

-----------------------------------------------------------------------------
(* Recording, and everything else that happens. *)

\* recordCell finds the row by its first cell.
Target(i) == CHOOSE j \in DOMAIN rows : /\ rows[j].id = rows[i].id
                                        /\ \A k \in DOMAIN rows : rows[k].id = rows[i].id => j <= k

\* Mutant of Pin: the mode of the observation is not recorded beside its digest.
PinOfDigest(i) == [digest |-> results[i].digest, mode |-> pins[i].mode]

\* RecordDigest, RecordMode: without a Mode column the cell stays empty.
Pin(i) == [digest |-> results[i].digest, mode |-> IF hasMode THEN Mode ELSE ""]

\* recordResults: every pin of the run or none.  A sandboxed one needs the Mode column;
\* writeRecorded, which may refuse, is the recording admit of PlanStore.
Record ==
  /\ admission.at = "record"
  /\ admission' = Idle
  /\ LET taken == {i \in DOMAIN rows : results[i].verdict = "admitted" /\ rows[i].id \in admission.record}
         last(j) == CHOOSE i \in taken : Target(i) = j /\ \A k \in taken : Target(k) = j => k <= i
         written == {Target(i) : i \in taken}
     IN  \/ /\ hasMode \/ ~admission.sandbox
            /\ pins' = [j \in DOMAIN rows |-> IF j \in written THEN Pin(last(j)) ELSE pins[j]]
            /\ pinnedOn' = [j \in DOMAIN rows |->
                 IF j \in written THEN [tree |-> results[last(j)].digest.tree, mode |-> Mode] ELSE pinnedOn[j]]
         \/ UNCHANGED <<pins, pinnedOn>>
  /\ UNCHANGED <<tree, rows, hasMode, results, ran, changes>>

\* The command is interrupted; the staged copy stays behind in the temporary directory.
Interrupt ==
  /\ admission.at # "idle" /\ admission' = Idle
  /\ results' = [i \in DOMAIN rows |-> NoResult]
  /\ UNCHANGED <<tree, rows, hasMode, pins, pinnedOn, ran, changes>>

EditTree ==
  /\ changes < MaxChanges /\ changes' = changes + 1
  /\ \E t \in Trees : t # tree /\ tree' = t
  /\ UNCHANGED <<rows, hasMode, pins, admission, results, pinnedOn, ran>>

EvidenceNext ==
  \/ BeginAdmission \/ Screen \/ FirstRun \/ SecondRun
  \/ Stage \/ MutatedRun \/ RestoredRun
  \/ Record \/ Interrupt \/ EditTree

EvidenceSpec == EvidenceInit /\ [][EvidenceNext]_EvidenceVars

-----------------------------------------------------------------------------
(* What an admission is worth. *)

SharedId(i) == \E j \in DOMAIN rows : j # i /\ rows[j].id = rows[i].id

\* An admitted row was observed: its first and its last unedited run ended the way the row
\* expects with one and the same output, the pin it is admitted against is that output, and
\* each of its edits was replayed, went red unless it is declared equivalent, and came back
\* green (admitRow, replaySurvey).  A run that ends by its deadline or that the shell could
\* not start counts as red here.
AdmittedIsObserved ==
  \A i \in DOMAIN rows : results[i].verdict = "admitted" =>
    LET seen == results[i].seen
        edits == rows[i].edits
        good == IF rows[i].expect = "fail" THEN "red" ELSE ""
    IN  /\ Len(seen) = IF edits = <<>> THEN 2 ELSE 1 + 2 * Len(edits)
        /\ seen[1].err = good /\ seen[Len(seen)].err = good
        /\ seen[1].digest = seen[Len(seen)].digest /\ results[i].digest = seen[1].digest
        /\ \A k \in DOMAIN edits :
             /\ (seen[2 * k].err = "") = edits[k].equivalent
             /\ seen[2 * k].err # "refusal" /\ seen[2 * k + 1].err = ""
        /\ rows[i].defects = {}

\* A pin holds: a row is told that its output differs from its pin, or that the pin is of
\* another mode, only when the tree, the mode or the output really changed since the pin
\* was observed (RecordDigest, RecordMode, the comparisons of admitRow).
PinsHold ==
  \A i \in DOMAIN rows :
    LET was == pinnedOn[i]
        now == results[i]
    IN  \/ was = NoSight \/ SharedId(i)
        \/ /\ now.reason = "mode-mismatch" => was.mode # now.mode
           /\ now.reason = "digest-mismatch" => \/ now.digest.tree # was.tree
                                                \/ rows[i].command = "moving" /\ ~rows[i].normalize
           /\ now.reason # "digest-missing"
=============================================================================
