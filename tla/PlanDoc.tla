------------------------------- MODULE PlanDoc -------------------------------
(***************************************************************************)
(* How a plan is read: sections, tables and fences, the counts of what it  *)
(* still owes, and the rules `plan check` holds it to                      *)
(* (src/internal/plan/plan.go and gaps.go).  A document is a sequence of   *)
(* lines, a line one of the records below; a cell is a word.  Wording,     *)
(* escapes and widths are left out, the lines a message names are kept.    *)
(***************************************************************************)
EXTENDS Naturals, Sequences, FiniteSetsExt

CONSTANTS Cited,      \* cells and prose that cite a path:line -> the path
          Runs,       \* well-formed run slugs
          DraftLines, \* the lines of a draft
          Openings,   \* and its first ones
          MaxLines

VARIABLE draft  \* a document while it is written

Heading(level, name) == [kind |-> "heading", level |-> level, name |-> name]
TableRow(cells) == [kind |-> "row", cells |-> cells]
Fence(mark) == [kind |-> "fence", mark |-> mark]
Prose(text) == [kind |-> "prose", text |-> text]
BlankLine == [kind |-> "blank"]
\* The header lines a plan declares itself with.  `shaped` says that the line has
\* the form "<target> · touches <classes>".
Light(shaped, target, classes) ==
  [kind |-> "Light", shaped |-> shaped, target |-> target, classes |-> classes]
Micro(shaped, target, classes) ==
  [kind |-> "Micro", shaped |-> shaped, target |-> target, classes |-> classes]
Baseline(value) == [kind |-> "Baseline", value |-> value]

Placeholders == {"", "-", "n/a", "none", "tbd"}
DoneStatus == {"done", "fixed", "closed"}
NaStatus == {"n/a", "na", "none", "skipped"}
FindingsStatuses == {"open", "confirmed", "fixed", "gap-closed", "rejected", "wontfix"}
Settled == {"confirmed", "fixed", "gap-closed"}
Digests == {"sha", "commit", "pending"}   \* fingerprint forms

IsRow(line) == line.kind = "row"
IsSeparator(line) == IsRow(line) /\ \A i \in DOMAIN line.cells : line.cells[i] \in {"", "---"}
IsHeading(line, level) == line.kind = "heading" /\ line.level = level
\* cell: "" where the row has no such column.
Cell(cells, i) == IF i \in DOMAIN cells THEN cells[i] ELSE ""
Column(header, name) ==
  LET found == {i \in DOMAIN header : header[i] = name}
  IN  IF found = {} THEN 0 ELSE Min(found)
First(S) == IF S = {} THEN 0 ELSE Min(S)
Words(row) == {row.cells[k] : k \in DOMAIN row.cells}

\* Lines whose words mean what they say: a pending row has a name and no other status, and
\* under a header with a Run column its run stands there.
PlainWords(lines) ==
  \A l \in lines : IsRow(l) =>
    /\ l.cells # <<>>
    /\ "pending" \in Words(l) =>
         /\ Cell(l.cells, 1) \notin Placeholders
         /\ Words(l) \intersect (DoneStatus \union NaStatus) = {}
    /\ \A h \in lines, run \in Runs \intersect Words(l) :
         IsRow(h) /\ Column(h.cells, "run") # 0 => Cell(l.cells, Column(h.cells, "run")) = run

ASSUME PlanDocAssumption == PlainWords(DraftLines) /\ Openings \subseteq Seq(DraftLines)

-----------------------------------------------------------------------------
(* Fences and sections. *)

NoFence == [mark |-> "", line |-> 0]

\* The fence open after each line of a region; a fence ends at a line with its mark.
OpenFence(doc, from, to) ==
  LET open[i \in (from - 1)..to] ==
        IF i < from THEN NoFence
        ELSE IF doc[i].kind # "fence" THEN open[i - 1]
        ELSE IF open[i - 1] = NoFence THEN [mark |-> doc[i].mark, line |-> i]
        ELSE IF doc[i].mark = open[i - 1].mark THEN NoFence ELSE open[i - 1]
  IN  open

\* The lines of a region outside every fence that opens in it.
Visible(doc, from, to) ==
  LET open == OpenFence(doc, from, to)
  IN  {i \in from..to : open[i - 1] = NoFence /\ doc[i].kind # "fence"}

\* sectionRegion: the first heading of that name up to the next level-2 heading,
\* inside a fence or not.
SectionRegion(doc, name) ==
  LET head == First({i \in DOMAIN doc : IsHeading(doc[i], 2) /\ doc[i].name = name})
      next == {i \in DOMAIN doc : i > head /\ IsHeading(doc[i], 2)}
  IN  [head |-> head, last |-> IF next = {} THEN Len(doc) ELSE Min(next) - 1]

-----------------------------------------------------------------------------
(* scanTable: the first table of a region. *)

NoTable == [header |-> <<>>, rows |-> {}, ended |-> 0, resumed |-> 0, fenceLine |-> 0]

\* tableUnderSubheading: the first row under it, unless a delimiter line follows that
\* row at once, which makes it a table of its own.
CutRow(doc, seen) ==
  LET row == First({i \in seen : IsRow(doc[i])})
      after == {i \in seen : i > row}
  IN  IF row # 0 /\ after # {} /\ IsSeparator(doc[Min(after)]) THEN 0 ELSE row

\* What a scan makes of the lines it sees, of which `closer` ends the table: a
\* subheading stops the walk.
TableOver(doc, seen, head, closer, to, left) ==
  LET stopped == closer # 0 /\ doc[closer].kind = "heading" /\ doc[closer].level > 2
      resumed == IF closer = 0 THEN 0
                 ELSE IF stopped THEN CutRow(doc, Visible(doc, closer + 1, to))
                 ELSE First({i \in seen : i > closer /\ IsRow(doc[i])})
      last == IF closer = 0 THEN to ELSE closer - 1
  IN  IF head = 0 THEN [NoTable EXCEPT !.fenceLine = left]
      ELSE [header |-> doc[head].cells,
            rows |-> {i \in seen : /\ i \in (head + 1)..last /\ IsRow(doc[i])
                                   /\ ~IsSeparator(doc[i])
                                   /\ Cell(doc[i].cells, 1) \notin Placeholders},
            ended |-> IF stopped /\ resumed = 0 THEN 0 ELSE closer,
            resumed |-> resumed,
            fenceLine |-> IF stopped THEN 0 ELSE left]

\* scanTable: the header is the first row, a blank line is skipped, any other line closes
\* the table.
ScanRows(doc, seen, head, to, left) ==
  TableOver(doc, seen, head,
            First({i \in seen : i > head /\ ~IsRow(doc[i]) /\ doc[i].kind # "blank"}), to, left)
ScanSeen(doc, seen, to, left) ==
  ScanRows(doc, seen, First({i \in seen : IsRow(doc[i])}), to, left)
ScanTable(doc, from, to) ==
  ScanSeen(doc, Visible(doc, from, to), to, OpenFence(doc, from, to)[to].line)

ScanRegion(doc, region) ==
  IF region.head = 0 \/ region.last <= region.head THEN NoTable
  ELSE ScanTable(doc, region.head + 1, region.last)
ScanSection(doc, name) == ScanRegion(doc, SectionRegion(doc, name))

\* Mutant of Interrupted: a fence left open is not reported.
InterruptedByCut(table) == table.resumed # 0

\* interruptedTable: part of the region was never read.
Interrupted(table) == table.resumed # 0 \/ table.fenceLine # 0

HasTable(table) == table.header # <<>>
\* The cell of row i of a table in the column of that name.
At(doc, table, i, name) == Cell(doc[i].cells, Column(table.header, name))

-----------------------------------------------------------------------------
(* CheckDocument: the breaches, as pairs of a rule and a line. *)

Breach(rule, lines) == {<<rule, i>> : i \in lines}

\* headingRegions, regionTableProblems: under every heading, one table after the other.
RegionTables(doc) ==
  LET heads == {i \in DOMAIN doc : doc[i].kind = "heading"}
      last(h) == IF \E i \in heads : i > h THEN Min({i \in heads : i > h}) - 1 ELSE Len(doc)
      region(i) == last(Max({h \in heads : h < i}))
      starts == {i \in DOMAIN doc : \E h \in heads : h < i}
      \* The lines a scan starts from: under a heading, or after the line that closed a table.
      from[i \in starts] ==
        \/ i - 1 \in heads
        \/ \E j \in starts : /\ j < i /\ region(j) = region(i) /\ from[j]
                             /\ ScanTable(doc, j, region(j)).ended = i - 1
  IN  {ScanTable(doc, i, region(i)) : i \in {s \in starts : from[s]}}

TableProblems(doc) ==
  UNION {Breach("cells", {i \in t.rows : Len(doc[i].cells) # Len(t.header)}) :
           t \in {t \in RegionTables(doc) : HasTable(t)}}

\* runColumnProblems.
RunColumnProblems(doc, table) ==
  IF ~HasTable(table) THEN {}
  ELSE IF Column(table.header, "run") = 0 THEN Breach("no run column", {0})
  ELSE Breach("run", {i \in table.rows : At(doc, table, i, "run") \notin Runs \union {""}})

\* The rows that repeat the first cell of an earlier one.
Repeats(doc, table) ==
  {i \in table.rows : \E j \in table.rows : j < i /\ Cell(doc[j].cells, 1) = Cell(doc[i].cells, 1)}

\* ledgerProblems; the label is the last cell.
LabelOf(cells) == Cell(cells, Len(cells))
LedgerProblems(doc, ledger) ==
  Breach("repeated evidence", Repeats(doc, ledger))
  \union Breach("razonado", {i \in ledger.rows : LabelOf(doc[i].cells) = "razonado"})

\* findingRowProblems, evidenceProblems: a cell of this model cites one evidence row.
FindingProblems(doc, findings, ledger) ==
  LET ids == {Cell(doc[i].cells, 1) : i \in ledger.rows}
      cell(i, name) == At(doc, findings, i, name)
      has(name) == Column(findings.header, name) # 0
  IN  Breach("repeated finding", Repeats(doc, findings))
      \union Breach("no path", {i \in findings.rows : has("finding") /\ cell(i, "finding") \notin DOMAIN Cited})
      \union Breach("evidence", {i \in findings.rows : cell(i, "evidence") \notin ids \ Placeholders})
      \union Breach("status", {i \in findings.rows : cell(i, "status") \notin FindingsStatuses})
      \union Breach("no pin", {i \in findings.rows : cell(i, "status") \in Settled
                                                     /\ cell(i, "pinning test") \in Placeholders})
      \union Breach("fingerprint", {i \in findings.rows : has("fingerprint")
                                    /\ cell(i, "fingerprint") \notin Digests \union Placeholders})

\* targetIsInEvidence: a ranked target, or any path:line of the document.
InEvidence(doc, ranked, target) ==
  LET texts == UNION {IF IsRow(l) THEN {l.cells[k] : k \in DOMAIN l.cells}
                      ELSE IF l.kind = "prose" THEN {l.text} ELSE {} : l \in {doc[i] : i \in DOMAIN doc}}
  IN  \/ Column(ranked.header, "target") # 0 /\ \E i \in ranked.rows : At(doc, ranked, i, "target") = target
      \/ \E t \in texts \intersect DOMAIN Cited : Cited[t] = target

Declared(doc, kind) == First({i \in DOMAIN doc : doc[i].kind = kind})

\* lightDeclaration, lightReport, unscopedLayers.
LightProblems(doc, ranked, layers) ==
  LET at == Declared(doc, "Light")
      decl == doc[at]
  IN  IF at = 0 THEN {}
      ELSE (IF ~decl.shaped THEN Breach("light shape", {at})
            ELSE (IF decl.target \in Placeholders THEN Breach("light target", {at})
                  ELSE IF InEvidence(doc, ranked, decl.target) THEN {} ELSE Breach("light evidence", {at}))
                 \union (IF decl.classes \in Placeholders THEN Breach("light classes", {at}) ELSE {}))
           \union Breach("unscoped layer", {i \in layers.rows : At(doc, layers, i, "status") \in NaStatus
                                                                 /\ At(doc, layers, i, "scope") = ""})

\* microReport, microLedgerProblems.
MicroProblems(doc, ranked, ledger) ==
  LET at == Declared(doc, "Micro")
      decl == doc[at]
      broken ==
        {<<"micro shape", ~decl.shaped>>,
         <<"micro target", decl.shaped /\ decl.target \in Placeholders>>,
         <<"micro evidence", decl.shaped /\ decl.target \notin Placeholders /\ ~InEvidence(doc, ranked, decl.target)>>,
         <<"micro classes", decl.shaped /\ decl.classes # "none">>,
         <<"micro and light", Declared(doc, "Light") # 0>>,
         <<"micro with layers", SectionRegion(doc, "Layer matrix").head # 0>>,
         <<"micro ledger", \/ ~HasTable(ledger)
                           \/ \A i \in ledger.rows : LabelOf(doc[i].cells) # "observado"
                           \/ \A i \in ledger.rows : At(doc, ledger, i, "mutate") \in Placeholders>>}
  IN  IF at = 0 THEN {} ELSE {<<b[1], at>> : b \in {b \in broken : b[2]}}

\* baselineProblems.
BaselineProblems(doc) ==
  Breach("baseline", {i \in DOMAIN doc : doc[i].kind = "Baseline" /\ doc[i].value \notin {"unrecorded", "sha"}})

\* CheckDocument.
Breaches(doc, findings, ledger, ranked, layers) ==
  TableProblems(doc) \union
  (IF ~HasTable(findings) THEN Breach("no Findings table", {SectionRegion(doc, "Findings").head})
   ELSE UNION {IF Interrupted(t) THEN Breach("interrupted", {t.ended, t.fenceLine}) ELSE {} :
                 t \in {findings, ledger, ranked, layers}}
        \union RunColumnProblems(doc, ranked) \union RunColumnProblems(doc, layers)
        \union LedgerProblems(doc, ledger) \union FindingProblems(doc, findings, ledger)
        \union LightProblems(doc, ranked, layers) \union MicroProblems(doc, ranked, ledger)
        \union BaselineProblems(doc))
CheckDocument(doc) ==
  Breaches(doc, ScanSection(doc, "Findings"), ScanSection(doc, "Evidence ledger"),
           ScanSection(doc, "Ranked targets"), ScanSection(doc, "Layer matrix"))

\* microTarget: a breach of any rule keeps a micro plan owing its sweep.
MicroActivated(doc) == Declared(doc, "Micro") # 0 /\ CheckDocument(doc) = {}

-----------------------------------------------------------------------------
(* GapsForRun: what a document, or one run of it, still owes. *)

\* ownedRows, scopedRow: without a run every row counts.
OwnedRows(doc, table, run) ==
  IF run = "" THEN table.rows ELSE {i \in table.rows : At(doc, table, i, "run") = run}

\* layerRowGaps, rankedRowGaps.
Owed(doc, table, run) ==
  {i \in OwnedRows(doc, table, run) : At(doc, table, i, "status") \notin DoneStatus \union NaStatus}

\* The Run column of a table keeps rows from being counted.
RunProblem(doc, table, run) ==
  \/ Column(table.header, "run") = 0
  \/ \E i \in table.rows : At(doc, table, i, "run") \notin Runs \union {""}

\* GapsForRun, layersGaps, rankedGaps.
GapsOf(doc, run, layers, ranked, micro) ==
  LET rankedCounts == ~micro \/ HasTable(ranked)
      tables == {t \in {layers} : HasTable(layers)} \union {t \in {ranked} : rankedCounts}
  IN  [micro |-> micro,
       noLayerMatrix |-> ~HasTable(layers) /\ ~micro,
       unswept |-> Owed(doc, layers, run),
       pending |-> IF rankedCounts THEN Owed(doc, ranked, run) ELSE {},
       interrupted |-> {t \in {layers} \union {t \in {ranked} : rankedCounts} : Interrupted(t)},
       runMissing |-> run # "" /\ ~micro /\ \A t \in tables : OwnedRows(doc, t, run) = {},
       runProblems |-> run # "" /\ \E t \in tables : RunProblem(doc, t, run)]
GapsForRun(doc, run) ==
  GapsOf(doc, run, ScanSection(doc, "Layer matrix"), ScanSection(doc, "Ranked targets"),
         ~HasTable(ScanSection(doc, "Layer matrix")) /\ MicroActivated(doc))

\* GapsIn, Gaps.Any.
GapsIn(doc) == GapsForRun(doc, "")
AnyGap(gaps) ==
  \/ gaps.noLayerMatrix \/ gaps.unswept # {} \/ gaps.pending # {}
  \/ gaps.interrupted # {} \/ gaps.runMissing \/ gaps.runProblems

-----------------------------------------------------------------------------
(* A draft grows line by line. *)

DocInit == draft \in Openings
WriteLine == /\ Len(draft) < MaxLines
             /\ \E line \in DraftLines : draft' = Append(draft, line)

DocSpec == DocInit /\ [][WriteLine]_draft

-----------------------------------------------------------------------------
(* What the reading must get right. *)

\* The lines inside a fence of the whole document.
Fenced(doc) == DOMAIN doc \ Visible(doc, 1, Len(doc))

\* The section as a reader of the rendered document sees it: headings inside a fence are
\* not headings.
RenderedSection(doc, name) ==
  LET heads == {i \in Visible(doc, 1, Len(doc)) : IsHeading(doc[i], 2)}
      head == First({i \in heads : doc[i].name = name})
  IN  IF head = 0 THEN {}
      ELSE {i \in Visible(doc, 1, Len(doc)) : i > head /\ ~\E h \in heads : h \in (head + 1)..i}

\* Rows that are plainly owed: in the section, under its first row, with no subheading in
\* between that opens a table of its own.  A run asks for its rows, no run for all.
PlainlyOwed(doc, name, run) ==
  LET section == RenderedSection(doc, name)
      rows == {i \in section : IsRow(doc[i])}
      opens(h) == LET below == {i \in section : i > h}
                      top == First({i \in below : IsRow(doc[i])})
                      next == First({i \in below : i > top})
                  IN  top # 0 /\ next # 0 /\ IsSeparator(doc[next])
  IN  {i \in rows : /\ "pending" \in Words(doc[i])
                    /\ run = "" \/ run \in Words(doc[i])
                    /\ i # Min(rows)
                    /\ ~\E h \in section : h \in Min(rows)..i /\ doc[h].kind = "heading" /\ opens(h)}

\* An example in a fence that takes rows from a section: a heading in it is taken for the
\* section itself, or ends the region of the section.  Of the latter the scan tells that a
\* fence is open, but not when it has stopped at a subheading before.
ExampleHides(doc, name) ==
  \E i \in Fenced(doc) :
    /\ IsHeading(doc[i], 2)
    /\ \/ doc[i].name = name
       \/ \E h \in RenderedSection(doc, name) :
            /\ h < i /\ doc[h].kind = "heading"
            /\ ~\E g \in Visible(doc, 1, Len(doc)) : g \in h..i /\ IsHeading(doc[g], 2)

\* No owed row of the layer matrix goes uncounted without a word: whatever lines surround
\* it (fences, subheadings, prose, blanks, tables without a Run column), a document with
\* one reports a gap, and so does the count of the run that owns it (GapsForRun, Gaps.Any).
OwedRowsAreReported ==
  ExampleHides(draft, "Layer matrix")
  \/ \A run \in Runs \union {""} :
       PlainlyOwed(draft, "Layer matrix", run) # {} => AnyGap(GapsForRun(draft, run))

\* "A fenced code block is documentation: an example table is never read as a row, or as
\* the proof of a cut" (comment of scanTable, plan.go).
ExamplesAreNotRows ==
  ScanSection(draft, "Layer matrix").rows \intersect Fenced(draft) = {}
=============================================================================
