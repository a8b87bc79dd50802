------------------------------ MODULE Telemetry ------------------------------
(***************************************************************************)
(* One telemetry directory: the salt every pseudonym is made with, the     *)
(* append-only map from pseudonyms to names, the ledger of run reports     *)
(* with its Markdown rendering, and the log of the Stop gate               *)
(* (src/internal/sanitize/sanitize.go, src/internal/feedback/feedback.go,  *)
(* appendEntry and sealEntry of src/internal/gate/run.go).  Reports and    *)
(* gate entries are written by processes that take no lock.                *)
(***************************************************************************)
EXTENDS Naturals, Sequences

CONSTANTS Writers,      \* processes that report or log
          Repos, Plans, \* the repositories and the plans a report names
          MaxReports,   \* reports and entries of one behaviour
          MaxCuts,      \* appends that fail or are cut short, and crashes
          NoSalt,
          Broken        \* a line that does not parse

VARIABLES links,    \* hard links work in this directory
          salt,     \* .salt
          salts,    \* how many salts were ever made
          map,      \* .pseudonyms.jsonl
          ledger,   \* run-feedback.jsonl
          markdown, \* run-feedback.md: the sections, as the reports they render
          gatelog,  \* the log of the Stop gate
          report,   \* writer -> what it is recording
          count, cuts,
          torn      \* history: the files an append to which was cut short

Names == Repos \union Plans

\* What the files hold: pseudonyms, lines of the map, rows of the ledger and of the log.
Pseudonyms == [salt : Nat \union {NoSalt}, name : Names]
MapLines == [id : Pseudonyms, name : Names]
Rows == [ids : Seq(Pseudonyms), of : Seq(Names), number : Nat]

\* A line that was cut is none of them: it does not parse.  A string is a name in its role:
\* the pseudonyms of a repository and of a plan have prefixes of their own.
ASSUME TelemetryAssumption ==
  Broken \notin MapLines /\ Broken \notin Rows /\ Repos \intersect Plans = {}

TelemetryVars == <<links, salt, salts, map, ledger, markdown, gatelog, report, count, cuts, torn>>

Quiet == [kind |-> "none", at |-> "idle", names |-> <<>>, text |-> "plain", number |-> 0,
          key |-> NoSalt, todo |-> <<>>]

\* An append-only file: its lines, and whether the last one lacks its end.  No
\* reader depends on their order, and rows are numbered as history.
NoLines == [lines |-> {}, cut |-> FALSE]

TelemetryInit ==
  /\ links \in BOOLEAN
  /\ salt = NoSalt /\ salts = 0
  /\ map = NoLines /\ ledger = NoLines /\ gatelog = NoLines /\ markdown = NoLines
  /\ report = [w \in Writers |-> Quiet]
  /\ count = 0 /\ cuts = 0 /\ torn = {}

\* appendFile, Remember: one write at the end.  After a cut line it completes
\* that line instead of making its own.
Added(file, line) ==
  [lines |-> IF file.cut THEN file.lines ELSE file.lines \union {line}, cut |-> FALSE]
CutOff(file) == [lines |-> file.lines \union {Broken}, cut |-> TRUE]
Lines(file) == file.lines \ {Broken}

Fails == cuts < MaxCuts /\ cuts' = cuts + 1
Works == UNCHANGED cuts

\* ID: the pseudonym of a name under a salt; the name's role is its prefix.
Id(key, name) == [salt |-> key, name |-> name]

Go(w, at) == report' = [report EXCEPT ![w].at = at]
Stop(w) == report' = [report EXCEPT ![w] = Quiet]

-----------------------------------------------------------------------------
(* A report is submitted, or the gate logs its decision. *)

\* A "refused" text is one Field or Verify rejects; a disabled feature, a report that does not parse and an entry of a
\* gate without a repository end here.
Submit(w) ==
  /\ report[w].at = "idle" /\ count < MaxReports
  /\ count' = count + 1
  /\ \E kind \in {"report", "entry"}, text \in {"plain", "refused"},
        names \in {<<r>> : r \in Repos} \union (Repos \X Plans) :
       /\ kind = "entry" => text = "plain"
       /\ report' = [report EXCEPT ![w] = [Quiet EXCEPT !.kind = kind, !.at = "key",
                                             !.text = text, !.names = names,
                                             !.number = count']]
  /\ UNCHANGED <<links, salt, salts, map, ledger, markdown, gatelog, cuts, torn>>

-----------------------------------------------------------------------------
(* LoadKeyIn: read the salt, or make one and read again. *)

ReadSalt(w) ==
  /\ report[w].at = "key"
  /\ IF salt = NoSalt THEN Go(w, "salt")
     ELSE report' = [report EXCEPT ![w].key = salt, ![w].at = "check", ![w].todo = report[w].names]
  /\ UNCHANGED <<links, salt, salts, map, ledger, markdown, gatelog, count, cuts, torn>>

\* Mutant of CreateSalt: the salt is always published by rename.
CreateSaltByRename(w) ==
  /\ report[w].at = "salt"
  /\ salts' = salts + 1
  /\ salt' = salts'
  /\ Go(w, "key")
  /\ UNCHANGED <<links, map, ledger, markdown, gatelog, count, cuts, torn>>

\* createSalt: a link never replaces a salt that is there, the rename for
\* directories without hard links does.
CreateSalt(w) ==
  /\ report[w].at = "salt"
  /\ salts' = salts + 1
  /\ salt' = IF links /\ salt # NoSalt THEN salt ELSE salts'
  /\ Go(w, "key")
  /\ UNCHANGED <<links, map, ledger, markdown, gatelog, count, cuts, torn>>

\* The salt cannot be read or made: a report ends, an entry drops its names.
NoKey(w) ==
  /\ report[w].at \in {"key", "salt"} /\ Fails
  /\ IF report[w].kind = "report" THEN Stop(w)
     ELSE report' = [report EXCEPT ![w].names = <<>>, ![w].at = "row"]
  /\ UNCHANGED <<links, salt, salts, map, ledger, markdown, gatelog, count, torn>>

-----------------------------------------------------------------------------
(* Record and sealEntry. *)

\* Mutant of Sanitize: the names are remembered before the text is checked.
SanitizeLate(w) ==
  /\ report[w].at = "check"
  /\ IF report[w].text = "refused"
     THEN /\ map' = Added(map, [id |-> Id(report[w].key, report[w].names[1]),
                                name |-> report[w].names[1]])
          /\ Stop(w)
     ELSE Go(w, "map") /\ UNCHANGED map
  /\ UNCHANGED <<links, salt, salts, ledger, markdown, gatelog, count, cuts, torn>>

\* Field and Verify: a refused report stops before anything is written.
Sanitize(w) ==
  /\ report[w].at = "check"
  /\ IF report[w].text = "refused" THEN Stop(w) ELSE Go(w, "map")
  /\ UNCHANGED <<links, salt, salts, map, ledger, markdown, gatelog, count, cuts, torn>>

\* Mutant of Remember: a failed map append does not stop the report.
RememberSoft(w) ==
  /\ report[w].at = "map" /\ report[w].todo # <<>>
  /\ LET name == Head(report[w].todo) IN
     \/ map' = Added(map, [id |-> Id(report[w].key, name), name |-> name]) /\ Works /\ UNCHANGED torn
     \/ map' \in {map, CutOff(map)} /\ Fails
        /\ torn' = IF map' = map THEN torn ELSE torn \union {"map"}
  /\ report' = [report EXCEPT ![w].todo = Tail(@)]
  /\ UNCHANGED <<links, salt, salts, ledger, markdown, gatelog, count>>

\* Remember: the name of every pseudonym, before the row.  A failure stops a
\* report; an entry of the gate is written anyway.
Remember(w) ==
  /\ report[w].at = "map" /\ report[w].todo # <<>>
  /\ LET name == Head(report[w].todo) IN
     \/ /\ map' = Added(map, [id |-> Id(report[w].key, name), name |-> name])
        /\ report' = [report EXCEPT ![w].todo = Tail(@)]
        /\ Works /\ UNCHANGED torn
     \/ /\ map' \in {map, CutOff(map)} /\ Fails
        /\ torn' = IF map' = map THEN torn ELSE torn \union {"map"}
        /\ IF report[w].kind = "report" THEN Stop(w)
           ELSE report' = [report EXCEPT ![w].todo = Tail(@)]
  /\ UNCHANGED <<links, salt, salts, ledger, markdown, gatelog, count>>

\* The row: its pseudonyms, and as history the names they were made from.
Row(w) == [ids |-> [i \in DOMAIN report[w].names |-> Id(report[w].key, report[w].names[i])],
           of |-> report[w].names, number |-> report[w].number]

Header == [ids |-> <<>>, of |-> <<>>, number |-> 0]

Ready(w, kind) == /\ report[w].kind = kind
                  /\ \/ report[w].at = "map" /\ report[w].todo = <<>>
                     \/ report[w].at = "row"

AppendRow(w) ==
  /\ Ready(w, "report")
  /\ \/ ledger' = Added(ledger, Row(w)) /\ Go(w, "stat") /\ Works /\ UNCHANGED torn
     \/ /\ ledger' \in {ledger, CutOff(ledger)} /\ Fails /\ Stop(w)
        /\ torn' = IF ledger' = ledger THEN torn ELSE torn \union {"ledger"}
  /\ UNCHANGED <<links, salt, salts, map, markdown, gatelog, count>>

\* A gate entry that cannot be written is lost without a word.
AppendEntry(w) ==
  /\ Ready(w, "entry")
  /\ \/ gatelog' = Added(gatelog, Row(w)) /\ Works /\ UNCHANGED torn
     \/ /\ gatelog' \in {gatelog, CutOff(gatelog)} /\ Fails
        /\ torn' = IF gatelog' = gatelog THEN torn ELSE torn \union {"gatelog"}
  /\ Stop(w)
  /\ UNCHANGED <<links, salt, salts, map, ledger, markdown, count>>

\* The Markdown file gets its header when it is not there, then the section;
\* a report that fails here is in the ledger already.
Markdown(w) ==
  /\ report[w].at \in {"stat", "header", "section"}
  /\ LET line == IF report[w].at = "section" THEN Row(w) ELSE Header
         next == IF markdown.lines = {} THEN "header" ELSE "section" IN
     \/ report[w].at = "stat" /\ Go(w, next) /\ Works /\ UNCHANGED <<markdown, torn>>
     \/ /\ report[w].at # "stat"
        /\ \/ /\ markdown' = Added(markdown, line) /\ Works /\ UNCHANGED torn
              /\ IF report[w].at = "header" THEN Go(w, "section") ELSE Stop(w)
           \/ /\ markdown' \in {markdown, CutOff(markdown)} /\ Fails /\ Stop(w)
              /\ torn' = IF markdown' = markdown THEN torn ELSE torn \union {"markdown"}
  /\ UNCHANGED <<links, salt, salts, map, ledger, gatelog, count>>

Die(w) ==
  /\ report[w].at # "idle" /\ Fails /\ Stop(w)
  /\ UNCHANGED <<links, salt, salts, map, ledger, markdown, gatelog, count, torn>>

TelemetryNext == \E w \in Writers :
  \/ Submit(w) \/ ReadSalt(w) \/ CreateSalt(w) \/ NoKey(w) \/ Sanitize(w) \/ Remember(w)
  \/ AppendRow(w) \/ AppendEntry(w) \/ Markdown(w) \/ Die(w)

TelemetrySpec == TelemetryInit /\ [][TelemetryNext]_TelemetryVars

-----------------------------------------------------------------------------
(* The readback. *)

\* Resolve: the name of the first line for a pseudonym, or the pseudonym.
Resolve(id) == IF \E line \in Lines(map) : line.id = id
               THEN (CHOOSE line \in Lines(map) : line.id = id).name ELSE id

\* Read fails on any line that does not parse; Summary counts the rows of a
\* project by what their pseudonyms resolve to.
Readable == Broken \notin ledger.lines
Reports(project) == {row \in Lines(ledger) : Resolve(row.ids[1]) = project}

-----------------------------------------------------------------------------
(* Properties. *)

\* As long as no append to the map or the ledger was cut short, the readback
\* answers, and counts for every repository the reports whose rows landed,
\* under its own name, whichever salt they were written with; and every
\* rendered section is of a report in the ledger.
SummaryCountsReports ==
  torn \intersect {"map", "ledger"} = {} =>
    /\ Readable
    /\ \A n \in Repos : Reports(n) = {row \in Lines(ledger) : row.of[1] = n}
    /\ Lines(markdown) \subseteq Lines(ledger) \union {Header}

\* Where hard links work a name has one pseudonym in every row and every log
\* of the directory, however many processes started with no salt.
OnePseudonym ==
  links => \A r, s \in Lines(ledger) \union Lines(gatelog) :
    \A i \in DOMAIN r.of, j \in DOMAIN s.of : r.of[i] = s.of[j] => r.ids[i] = s.ids[j]

\* A name is in the map only for a row that landed, is on its way, or was
\* stopped by a failure: a refused report leaves no trace.
MapIsForRows ==
  cuts = 0 => \A line \in Lines(map) :
    \/ \E r \in Lines(ledger) \union Lines(gatelog) : \E i \in DOMAIN r.ids : r.ids[i] = line.id
    \/ \E w \in Writers : /\ report[w].at = "map" /\ report[w].text = "plain"
                          /\ \E i \in DOMAIN report[w].names : report[w].names[i] = line.name
=============================================================================
