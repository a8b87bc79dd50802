----------------------------- MODULE BenchScore -----------------------------
(***************************************************************************)
(* How the benchmark reads one finished run of a case: which plan the      *)
(* workspace delivered, which planted defects its findings are credited    *)
(* with, which of them the agent's tests distinguish, what a reader's      *)
(* decisions add, and how the results of many runs become one aggregate.   *)
(* Pure operators; Bench.tla applies them.                                 *)
(*                                                                         *)
(* A key's defects are a sequence of [id, file, line, race, variant]; a    *)
(* file is the sequence of its path components.  A finding row is          *)
(* [cites, names, evidence, pinned, text]: the places it cites, the        *)
(* defects whose keyword it contains, the ledger rows it links, whether    *)
(* its pinning cell is filled, and its text.  An agent test is             *)
(* [all, keep]: the outcomes it can have on the fully fixed code and on    *)
(* the code where one defect is left: "pass", "fail" or "absent".          *)
(***************************************************************************)
EXTENDS Naturals, SequencesExt

CONSTANTS
  Tolerance,   \* LineTolerance, in lines
  Absent,      \* there is no such file
  Outside      \* the path does not resolve inside the workspace

-----------------------------------------------------------------------------
(* The plan a workspace delivered. *)

\* A declaration that is refused falls back to the default path.
Selected(ws) == IF ws.declares = "path" THEN "declared" ELSE "default"

\* Nothing that resolves outside the workspace is read.
Delivered(ws) ==
  LET file == ws.at[Selected(ws)] IN IF file = Outside THEN Absent ELSE file

-----------------------------------------------------------------------------
(* Which defects a finding row is credited with. *)

SamePath(cited, file) == IsSuffix(cited, file) \/ IsSuffix(file, cited)

\* The ledger rows a finding cites and that exist.
Linked(plan, row) == row.evidence \cap DOMAIN plan.ledger

\* The evidence rows may supply the place, never the name.
Here(plan, row, d) ==
  {c \in row.cites \cup UNION {plan.ledger[e] : e \in Linked(plan, row)} :
     SamePath(c.file, d.file)}

Near(plan, row, d) ==
  {c \in Here(plan, row, d) : /\ c.first > 0
                              /\ c.first <= d.line + Tolerance
                              /\ d.line <= c.last + Tolerance}

Away(c, d) == IF d.line < c.first THEN c.first - d.line
              ELSE IF d.line > c.last THEN d.line - c.last ELSE 0

Named(plan, row, d) == Here(plan, row, d) # {} /\ d.id \in row.names

\* The named defects, or the nearest one when only lines match: two defects a
\* few lines apart are not both credited to a row that noticed one.
Claimed(plan, row, defects) ==
  LET named == {i \in DOMAIN defects : Named(plan, row, defects[i])}
      lined == {i \in DOMAIN defects : Near(plan, row, defects[i]) # {}}
      dist(i) == Min({Away(c, defects[i]) : c \in Near(plan, row, defects[i])})
  IN IF named # {} THEN named
     ELSE IF lined = {} THEN {}
     ELSE {Min({i \in lined : \A j \in lined : dist(i) <= dist(j)})}

\* The rows that credit defect i and link evidence; the first is the one kept.
\* A row that links none is prose: it finds nothing and blocks nothing.
Crediting(plan, defects, i) ==
  {r \in DOMAIN plan.rows : /\ i \in Claimed(plan, plan.rows[r], defects)
                            /\ Linked(plan, plan.rows[r]) # {}}

IdsOf(defects) == {defects[i].id : i \in DOMAIN defects}

NoPlan == [rows |-> <<>>, ledger |-> <<>>]

\* What the mechanical rules read from a plan.
Score(plan, key) ==
  LET by(i) == Crediting(plan, key.defects, i)
      found == {i \in DOMAIN key.defects : by(i) # {}}
  IN [planFound |-> TRUE,
      rows |-> Len(plan.rows),
      found |-> {key.defects[i].id : i \in found},
      pinned |-> {key.defects[i].id : i \in {j \in found : plan.rows[Min(by(j))].pinned}},
      confirmed |-> {}, true |-> 0, false |-> 0, pending |-> Len(plan.rows)]

\* A plan file that is not there scores zero, and is reported as no plan.
ScoreFile(file, key) ==
  IF file = Absent THEN [Score(NoPlan, key) EXCEPT !.planFound = FALSE]
  ELSE Score(file, key)

-----------------------------------------------------------------------------
(* Which defects the agent's tests distinguish. *)

\* A race or timing defect is run three times, any other once.
AttemptsFor(d) == IF d.race THEN 3 ELSE 1

\* What n runs of a suite can show of each test.
Shown(tests, possible, n) ==
  LET shows(t) == {s \in SUBSET possible[t] : s # {} /\ Cardinality(s) <= n}
  IN {seen \in [tests -> UNION {shows(t) : t \in tests}] :
        \A t \in tests : seen[t] \in shows(t)}

Unchecked == [checked |-> FALSE, judged |-> {}, caughtBy |-> <<>>, invertedBy |-> <<>>]
NothingSeen == [Unchecked EXCEPT !.checked = TRUE]

\* Mutant of Trusted: a test red on the correct code is believed too.
TrustedAnyRan(onAll) == {t \in DOMAIN onAll : onAll[t] # {"absent"}}

\* Only a test green on the correct code can catch anything.
Trusted(onAll) == {t \in DOMAIN onAll : onAll[t] = {"pass"}}

\* One red run proves a test distinguishes the defect; a test red on the fix
\* and never red while the defect stands asserts the defective behaviour.
Verdict(onAll, onKeep) ==
  LET judged == {d \in DOMAIN onKeep :
                   \E t \in DOMAIN onAll : onKeep[d][t] # {"absent"}}
  IN [checked |-> TRUE, judged |-> judged,
      caughtBy |-> [d \in judged |-> {t \in Trusted(onAll) : "fail" \in onKeep[d][t]}],
      invertedBy |-> [d \in judged |->
                        {t \in DOMAIN onAll : /\ onAll[t] = {"fail"}
                                              /\ onKeep[d][t] \ {"absent"} = {"pass"}}]]

\* The verdicts one check of a workspace can reach.  A defect whose variant is
\* missing is not checkable, unless it is the only one of its case.
Discriminate(fixture, ws) ==
  LET defects == fixture.key.defects
      ids == {defects[i].id : i \in {j \in DOMAIN defects :
                                       Len(defects) = 1 \/ defects[j].variant}}
      the(id) == CHOOSE d \in Range(defects) : d.id = id
      tests == DOMAIN ws.tests
      all == Shown(tests, [t \in tests |-> ws.tests[t].all], 1)
      keep == [id \in ids |-> Shown(tests, [t \in tests |-> ws.tests[t].keep[id]],
                                    AttemptsFor(the(id)))]
      kept == {k \in [ids -> UNION Range(keep)] : \A id \in ids : k[id] \in keep[id]}
  IN IF defects = <<>> \/ ~fixture.fixAll THEN {Unchecked}
     ELSE IF tests = {} THEN {NothingSeen}
     ELSE UNION {IF Trusted(onAll) = {} THEN {NothingSeen}
                 ELSE {Verdict(onAll, onKeep) : onKeep \in kept} : onAll \in all}

Caught(catch) == {d \in catch.judged : catch.caughtBy[d] # {}}

-----------------------------------------------------------------------------
(* What a reader's decisions add to a score. *)

RowsOf(adj) == {adj.decisions[i].row : i \in DOMAIN adj.decisions}

\* Validate, at the level of the standing decisions: one per row.
Valid(adj) ==
  \A i, j \in DOMAIN adj.decisions :
    adj.decisions[i].row = adj.decisions[j].row => i = j

\* Mutant of Applies: the text is not compared with the one that was judged.
AppliesToAnyText(adj, plan, key) ==
  /\ Valid(adj)
  /\ adj.case = key.id
  /\ RowsOf(adj) \subseteq DOMAIN plan.rows

\* A decision attaches to the text it was taken on, in the case it names.
Applies(adj, plan, key) ==
  /\ Valid(adj)
  /\ adj.case = key.id
  /\ \A i \in DOMAIN adj.decisions :
       LET d == adj.decisions[i] IN
         /\ d.row \in DOMAIN plan.rows
         /\ d.text = plan.rows[d.row].text
         /\ d.verdict = "defect" => d.defect \in IdsOf(key.defects)

Deciding(adj, verdict) ==
  {i \in DOMAIN adj.decisions : adj.decisions[i].verdict = verdict}

FinishAdjudication(score, adj) ==
  [score EXCEPT
     !.pending = score.rows - Len(adj.decisions),
     !.true = Cardinality(Deciding(adj, "defect")),
     !.false = Cardinality(Deciding(adj, "false_positive")),
     !.confirmed = {adj.decisions[i].defect : i \in Deciding(adj, "defect")}]

\* Mutant of Decide: the displaced decision is not kept.
DecideForgetting(adj, d) ==
  LET at == {i \in DOMAIN adj.decisions : adj.decisions[i].row = d.row}
  IN IF at = {} THEN [adj EXCEPT !.decisions = Append(@, d)]
     ELSE [adj EXCEPT !.decisions = ReplaceAt(@, Min(at), d)]

\* Decide: one standing decision per row; a displaced one is kept.
CanDecide(adj, d, replace) == d.row \in RowsOf(adj) => replace

Decide(adj, d) ==
  LET at == {i \in DOMAIN adj.decisions : adj.decisions[i].row = d.row}
  IN IF at = {} THEN [adj EXCEPT !.decisions = Append(@, d)]
     ELSE [adj EXCEPT !.decisions = ReplaceAt(@, Min(at), d),
                      !.superseded = Append(@, adj.decisions[Min(at)])]

-----------------------------------------------------------------------------
(* From results to one aggregate. *)

Measured(r) == ~r.invalid /\ ~r.failed

\* The runs in which a case was measured, and those of a case with a key.
MeasuredIn(results) == {i \in DOMAIN results : Measured(results[i])}
KeyedIn(results) == {i \in MeasuredIn(results) : ~results[i].control}
Keyed(results) == {results[i] : i \in KeyedIn(results)}

Total(runs, n(_)) == SumFunctionOnSet([i \in runs |-> n(i)], runs)

\* The distinct (case, defect) pairs of the runs a corpus-wide count may look at.
UniqueIn(results, ids(_)) ==
  UNION {{<<r.case, d>> : d \in ids(r)} : r \in Keyed(results)}

Signature(r) == <<r.score.found, Caught(r.catch)>>

\* The cases whose own measured runs disagree.
Unstable(results) ==
  {r.case : r \in {q \in Keyed(results) :
     \E p \in Keyed(results) : p.case = q.case /\ Signature(p) # Signature(q)}}

\* Every count is derived from the cases; a control is no recall.  The results
\* are a function of the units that ran: no count depends on their order.
FinalizeAggregate(results) ==
  LET measured == MeasuredIn(results)
      keyed == KeyedIn(results)
      score(i) == results[i].score
  IN [cost |-> Total(DOMAIN results, LAMBDA i : results[i].cost),
      invalid |-> Cardinality({i \in DOMAIN results : results[i].invalid}),
      failed |-> Cardinality({i \in DOMAIN results : results[i].failed /\ ~results[i].invalid}),
      noPlan |-> Cardinality({i \in measured : ~score(i).planFound}),
      defects |-> Total(keyed, LAMBDA i : results[i].total),
      found |-> Total(keyed, LAMBDA i : Cardinality(score(i).found)),
      caught |-> Total(keyed, LAMBDA i : Cardinality(Caught(results[i].catch))),
      unique |-> Cardinality(UniqueIn(results, LAMBDA r : r.ids)),
      uniqueFound |-> Cardinality(UniqueIn(results, LAMBDA r : r.score.found)),
      uniqueCaught |-> Cardinality(UniqueIn(results, LAMBDA r : Caught(r.catch))),
      confirmed |-> Cardinality(UniqueIn(results, LAMBDA r : r.score.confirmed)),
      unstable |-> Unstable(results),
      pending |-> Total(measured, LAMBDA i : score(i).pending),
      true |-> Total(measured, LAMBDA i : score(i).true),
      false |-> Total(measured, LAMBDA i : score(i).false)]
=============================================================================
