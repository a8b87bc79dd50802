--------------------------- MODULE TelemetryProofs ---------------------------
(***************************************************************************)
(* The telemetry directory for any number of processes, names, reports,    *)
(* failures and salts: a name keeps one pseudonym, and the readback counts *)
(* every report under its own name.                                        *)
(***************************************************************************)
EXTENDS Telemetry, TLAPS

Stages == {"idle", "key", "salt", "check", "map", "row", "stat", "header", "section"}
Keys == Nat \union {NoSalt}
Recordings == [kind : {"none", "report", "entry"}, at : Stages, names : Seq(Names),
               text : {"plain", "refused"}, number : Nat, key : Keys, todo : Seq(Names)]

\* The stages at which a writer has its key, and those of a report whose row landed.
Keyed == {"check", "map", "stat", "header", "section"}
Landed == {"stat", "header", "section"}

TelemetryTypeOK ==
  /\ links \in BOOLEAN
  /\ salt \in Keys /\ salts \in Nat /\ count \in Nat
  /\ report \in [Writers -> Recordings]

\* Where links work: every key in use and every row is of the salt that is there.
KeyIsSalt(r) == r.at \in Keyed => r.key = salt /\ salt # NoSalt
OfSalt(r) == \A i \in DOMAIN r.of : salt # NoSalt /\ r.ids[i] = Id(salt, r.of[i])
Logged == Lines(ledger) \union Lines(gatelog)

SaltInv == links => /\ \A w \in Writers : KeyIsSalt(report[w])
                    /\ \A r \in Logged : OfSalt(r)

\* What is recorded at each stage: only an entry goes on without its names,
\* only a report goes on to the Markdown file.
Shaped(r) ==
  /\ r.at # "idle" => r.kind # "none"
  /\ r.at = "row" => r.kind = "entry" /\ r.names = <<>>
  /\ r.at \in Landed => r.kind = "report"
  /\ r.kind = "report" => r.names # <<>>
  /\ r.at = "check" => r.todo = r.names

ShapeInv == \A w \in Writers : Shaped(report[w])

Mapped(id) == \E line \in Lines(map) : line.id = id

\* The lines of the map say what their pseudonyms were made from.
MapInv == \A line \in Lines(map) : line.id.name = line.name

\* An untorn file ends with its last line and has no broken one.
UntornInv == /\ map.cut => "map" \in torn
             /\ ledger.cut \/ Broken \in ledger.lines => "ledger" \in torn

\* The map runs ahead of the rows: a report on its way to the ledger has
\* remembered its first name or is about to.
FirstMapped(r) == Mapped(Id(r.key, r.names[1]))
Ahead(r) == r.kind = "report" /\ r.at \in {"map"} \union Landed =>
              (r.at = "map" /\ r.todo = r.names) \/ FirstMapped(r)

AheadInv == "map" \notin torn =>
  /\ \A w \in Writers : Ahead(report[w])
  /\ \A r \in Lines(ledger) : r.ids[1].name = r.of[1] /\ Mapped(r.ids[1])

\* The Markdown file follows the ledger.
SectionInv == "ledger" \notin torn =>
  /\ \A w \in Writers : report[w].at \in Landed => Row(w) \in Lines(ledger)
  /\ Lines(markdown) \subseteq Lines(ledger) \union {Header}

-----------------------------------------------------------------------------

\* What an append adds to the lines a reader sees.
LEMMA AppendAdds ==
  ASSUME NEW file, NEW line
  PROVE  /\ Lines(Added(file, line)) \subseteq Lines(file) \union {line}
         /\ Lines(file) \subseteq Lines(Added(file, line))
         /\ Lines(CutOff(file)) = Lines(file)
         /\ ~file.cut /\ line # Broken => line \in Lines(Added(file, line))
  BY DEF Lines, Added, CutOff

LEMMA RowIsTyped ==
  ASSUME TelemetryTypeOK, NEW w \in Writers
  PROVE  Row(w) \in Rows /\ Row(w) # Broken
<1>1. /\ report[w].names \in Seq(Names) /\ report[w].key \in Keys
      /\ report[w].number \in Nat
  BY DEF TelemetryTypeOK, Recordings
<1>2. \A i \in DOMAIN report[w].names : Id(report[w].key, report[w].names[i]) \in Pseudonyms
  BY <1>1 DEF Id, Pseudonyms, Keys
<1>3. [i \in DOMAIN report[w].names |-> Id(report[w].key, report[w].names[i])]
        \in Seq(Pseudonyms)
  BY <1>1, <1>2
<1>4. Row(w) \in Rows
  BY <1>1, <1>3 DEF Row, Rows
<1>5. QED  BY <1>4, TelemetryAssumption

LEMMA QuietIsTyped == Quiet \in Recordings
<1>1. <<>> \in Seq(Names)
  OBVIOUS
<1>2. QED  BY <1>1 DEF Quiet, Recordings, Stages, Keys

LEMMA TypeInit == ASSUME TelemetryInit PROVE TelemetryTypeOK
  BY QuietIsTyped DEF TelemetryInit, TelemetryTypeOK, Keys

LEMMA TypeStep ==
  ASSUME TelemetryTypeOK, [TelemetryNext]_TelemetryVars
  PROVE  TelemetryTypeOK'
<1> USE QuietIsTyped DEF TelemetryTypeOK
<1>1. CASE UNCHANGED TelemetryVars
  BY <1>1 DEF TelemetryVars
<1>2. ASSUME NEW w \in Writers, Submit(w) PROVE TelemetryTypeOK'
  <2> DEFINE Lists == {<<r>> : r \in Repos} \union (Repos \X Plans)
             Started(kind, text, names) == [Quiet EXCEPT !.kind = kind, !.at = "key",
               !.text = text, !.names = names, !.number = count']
  <2>1. ASSUME NEW names \in Lists PROVE names \in Seq(Names)
    <3>1. CASE \E n \in Repos : names = <<n>>
      BY <3>1 DEF Names
    <3>2. CASE names \in Repos \X Plans
      <4>1. PICK p \in Repos, q \in Plans : names = <<p, q>>
        BY <3>2
      <4>2. p \in Names /\ q \in Names
        BY DEF Names
      <4>3. QED  BY <4>1, <4>2
    <3>3. QED  BY <3>1, <3>2
  <2> HIDE DEF Lists
  <2>2. PICK kind \in {"report", "entry"}, text \in {"plain", "refused"}, names \in Lists :
          report' = [report EXCEPT ![w] = Started(kind, text, names)]
    BY <1>2, Zenon DEF Submit, Lists
  <2>3. count' \in Nat
    BY <1>2 DEF Submit
  <2>4. Started(kind, text, names) \in Recordings
    BY <2>1, <2>3 DEF Recordings, Stages
  <2> HIDE DEF Started
  <2>5. QED  BY <1>2, <2>2, <2>3, <2>4 DEF Submit
<1>3. ASSUME NEW w \in Writers, ReadSalt(w) PROVE TelemetryTypeOK'
  <2>1. CASE salt = NoSalt
    <3>1. [report[w] EXCEPT !.at = "salt"] \in Recordings
      BY DEF Recordings, Stages
    <3>2. report' = [report EXCEPT ![w] = [report[w] EXCEPT !.at = "salt"]]
      BY <1>3, <2>1 DEF ReadSalt, Go
    <3>3. QED  BY <1>3, <3>1, <3>2 DEF ReadSalt
  <2>2. CASE salt # NoSalt
    <3>1. [report[w] EXCEPT !.key = salt, !.at = "check", !.todo = report[w].names] \in Recordings
      BY DEF Recordings, Stages
    <3>2. report' = [report EXCEPT ![w] =
            [report[w] EXCEPT !.key = salt, !.at = "check", !.todo = report[w].names]]
      BY <1>3, <2>2 DEF ReadSalt
    <3>3. QED  BY <1>3, <3>1, <3>2 DEF ReadSalt
  <2>3. QED  BY <2>1, <2>2
<1>4. ASSUME NEW w \in Writers, CreateSalt(w) PROVE TelemetryTypeOK'
  <2>1. [report[w] EXCEPT !.at = "key"] \in Recordings
    BY DEF Recordings, Stages
  <2>2. report' = [report EXCEPT ![w] = [report[w] EXCEPT !.at = "key"]]
    BY <1>4 DEF CreateSalt, Go
  <2>3. salts' \in Nat /\ salt' \in Keys
    BY <1>4 DEF CreateSalt, Keys
  <2>4. QED  BY <1>4, <2>1, <2>2, <2>3 DEF CreateSalt
<1>5. ASSUME NEW w \in Writers, NoKey(w) PROVE TelemetryTypeOK'
  <2>0. <<>> \in Seq(Names)
    OBVIOUS
  <2>1. [report[w] EXCEPT !.names = <<>>, !.at = "row"] \in Recordings
    BY <2>0 DEF Recordings, Stages
  <2>2. \/ report' = [report EXCEPT ![w] = [report[w] EXCEPT !.names = <<>>, !.at = "row"]]
        \/ report' = [report EXCEPT ![w] = Quiet]
    BY <1>5 DEF NoKey, Stop
  <2>3. QED  BY <1>5, <2>1, <2>2 DEF NoKey
<1>6. ASSUME NEW w \in Writers, Sanitize(w) PROVE TelemetryTypeOK'
  <2>1. [report[w] EXCEPT !.at = "map"] \in Recordings
    BY DEF Recordings, Stages
  <2>2. \/ report' = [report EXCEPT ![w] = [report[w] EXCEPT !.at = "map"]]
        \/ report' = [report EXCEPT ![w] = Quiet]
    BY <1>6 DEF Sanitize, Go, Stop
  <2>3. QED  BY <1>6, <2>1, <2>2 DEF Sanitize
<1>7. ASSUME NEW w \in Writers, Remember(w) PROVE TelemetryTypeOK'
  <2>1. [report[w] EXCEPT !.todo = Tail(report[w].todo)] \in Recordings
    <3>1. report[w].todo \in Seq(Names) /\ report[w].todo # <<>>
      BY <1>7 DEF Remember, Recordings
    <3>2. Tail(report[w].todo) \in Seq(Names)
      BY <3>1
    <3>3. QED  BY <3>2 DEF Recordings
  <2>2. \/ report' = [report EXCEPT ![w] = [report[w] EXCEPT !.todo = Tail(report[w].todo)]]
        \/ report' = [report EXCEPT ![w] = Quiet]
    BY <1>7 DEF Remember, Stop
  <2>3. QED  BY <1>7, <2>1, <2>2 DEF Remember
<1>8. ASSUME NEW w \in Writers, AppendRow(w) \/ AppendEntry(w) \/ Markdown(w) \/ Die(w)
      PROVE  TelemetryTypeOK'
  <2>1. \A at \in Stages : [report[w] EXCEPT !.at = at] \in Recordings
    BY DEF Recordings
  <2>2. \/ \E at \in Stages : report' = [report EXCEPT ![w] = [report[w] EXCEPT !.at = at]]
        \/ report' = [report EXCEPT ![w] = Quiet]
    BY <1>8 DEF AppendRow, AppendEntry, Markdown, Die, Go, Stop, Stages
  <2>3. QED  BY <1>8, <2>1, <2>2 DEF AppendRow, AppendEntry, Markdown, Die
<1>9. QED
  BY <1>1, <1>2, <1>3, <1>4, <1>5, <1>6, <1>7, <1>8 DEF TelemetryNext

-----------------------------------------------------------------------------

WriterStep(w) == \/ Submit(w) \/ ReadSalt(w) \/ CreateSalt(w) \/ NoKey(w) \/ Sanitize(w)
                 \/ Remember(w) \/ AppendRow(w) \/ AppendEntry(w) \/ Markdown(w) \/ Die(w)

\* A step of one writer leaves what the others record alone.
LEMMA OthersRest ==
  ASSUME TelemetryTypeOK, NEW w \in Writers, WriterStep(w), NEW v \in Writers, v # w
  PROVE  report'[v] = report[v]
<1> USE DEF TelemetryTypeOK
<1>1. CASE Submit(w)
  BY <1>1 DEF Submit
<1>2. CASE ReadSalt(w) \/ CreateSalt(w) \/ NoKey(w) \/ Sanitize(w)
  BY <1>2 DEF ReadSalt, CreateSalt, NoKey, Sanitize, Go, Stop
<1>3. CASE Remember(w)
  BY <1>3 DEF Remember, Stop
<1>4. CASE AppendRow(w) \/ AppendEntry(w) \/ Markdown(w) \/ Die(w)
  BY <1>4 DEF AppendRow, AppendEntry, Markdown, Die, Go, Stop
<1>5. QED  BY <1>1, <1>2, <1>3, <1>4 DEF WriterStep

\* Where a step takes its writer, and what it leaves of the recording.
LEMMA Submits ==
  ASSUME TelemetryTypeOK, NEW w \in Writers, Submit(w)
  PROVE  report'[w].at = "key" /\ report'[w].names # <<>> /\ report'[w].kind # "none"
<1> DEFINE Lists == {<<r>> : r \in Repos} \union (Repos \X Plans)
           Started(kind, text, names) == [Quiet EXCEPT !.kind = kind, !.at = "key",
             !.text = text, !.names = names, !.number = count']
<1>1. ASSUME NEW names \in Lists PROVE names # <<>>
  OBVIOUS
<1> HIDE DEF Lists
<1>2. PICK kind \in {"report", "entry"}, text \in {"plain", "refused"}, names \in Lists :
        report' = [report EXCEPT ![w] = Started(kind, text, names)]
  BY Zenon DEF Submit, Lists
<1>3. /\ Started(kind, text, names).at = "key"
      /\ Started(kind, text, names).names = names
      /\ Started(kind, text, names).kind = kind
  BY DEF Quiet
<1> HIDE DEF Started
<1>4. report'[w] = Started(kind, text, names)
  BY <1>2 DEF TelemetryTypeOK
<1>5. QED  BY <1>1, <1>3, <1>4

LEMMA Stops ==
  ASSUME TelemetryTypeOK, NEW w \in Writers, Stop(w)
  PROVE  /\ report'[w].at = "idle" /\ report'[w].kind = "none"
         /\ Shaped(report'[w])
  BY DEF Shaped, Landed, Stop, Quiet, TelemetryTypeOK

LEMMA Goes ==
  ASSUME TelemetryTypeOK, NEW w \in Writers, NEW at, Go(w, at)
  PROVE  /\ report'[w].at = at
         /\ report'[w].kind = report[w].kind /\ report'[w].names = report[w].names
         /\ report'[w].number = report[w].number /\ report'[w].key = report[w].key
         /\ report'[w].todo = report[w].todo
  BY DEF Go, TelemetryTypeOK, Recordings

LEMMA TakesKey ==
  ASSUME TelemetryTypeOK, NEW w \in Writers, ReadSalt(w), salt # NoSalt
  PROVE  /\ report'[w].at = "check" /\ report'[w].key = salt
         /\ report'[w].names = report[w].names /\ report'[w].kind = report[w].kind
         /\ report'[w].todo = report[w].names
  BY DEF ReadSalt, TelemetryTypeOK, Recordings

LEMMA DropsNames ==
  ASSUME TelemetryTypeOK, NEW w \in Writers, NoKey(w), report[w].kind # "report"
  PROVE  /\ report'[w].at = "row" /\ report'[w].names = <<>>
         /\ report'[w].kind = report[w].kind
  BY DEF NoKey, TelemetryTypeOK, Recordings

LEMMA TakesNext ==
  ASSUME TelemetryTypeOK, NEW w \in Writers,
         report' = [report EXCEPT ![w].todo = Tail(@)]
  PROVE  /\ report'[w].at = report[w].at
         /\ report'[w].kind = report[w].kind /\ report'[w].names = report[w].names
         /\ report'[w].number = report[w].number /\ report'[w].key = report[w].key
         /\ report'[w].todo = Tail(report[w].todo)
  BY DEF TelemetryTypeOK, Recordings

-----------------------------------------------------------------------------

LEMMA ShapeStep ==
  ASSUME TelemetryTypeOK, ShapeInv, NEW w \in Writers, WriterStep(w)
  PROVE  ShapeInv'
<1>1. SUFFICES Shaped(report'[w])
  BY OthersRest DEF ShapeInv
<1>0. Shaped(report[w])
  BY DEF ShapeInv
<1> USE DEF Shaped, Landed
<1>2. CASE Submit(w)
  BY <1>2, Submits
<1>3. CASE ReadSalt(w)
  <2>1. CASE salt = NoSalt
    BY <1>0, <1>3, <2>1, Goes DEF ReadSalt
  <2>2. CASE salt # NoSalt
    BY <1>0, <1>3, <2>2, TakesKey DEF ReadSalt
  <2>3. QED  BY <2>1, <2>2
<1>4. CASE CreateSalt(w)
  BY <1>0, <1>4, Goes DEF CreateSalt
<1>5. CASE NoKey(w)
  <2>1. CASE report[w].kind = "report"
    BY <1>5, <2>1, Stops DEF NoKey
  <2>2. CASE report[w].kind # "report"
    <3>1. report[w].kind = "entry"
      BY <1>0, <1>5, <2>2 DEF NoKey, TelemetryTypeOK, Recordings
    <3>2. QED  BY <1>5, <2>2, <3>1, DropsNames
  <2>3. QED  BY <2>1, <2>2
<1>6. CASE Sanitize(w)
  BY <1>0, <1>6, Stops, Goes DEF Sanitize
<1>7. CASE Remember(w)
  <2>1. CASE Stop(w)
    BY <2>1, Stops
  <2>2. CASE report' = [report EXCEPT ![w].todo = Tail(@)]
    BY <1>0, <1>7, <2>2, TakesNext DEF Remember
  <2>3. QED  BY <1>7, <2>1, <2>2 DEF Remember
<1>8. CASE AppendRow(w) \/ AppendEntry(w) \/ Markdown(w) \/ Die(w)
  <2>1. CASE Stop(w)
    BY <2>1, Stops
  <2>2. ASSUME NEW at \in Landed, Go(w, at), report[w].kind = "report" PROVE Shaped(report'[w])
    BY <1>0, <2>2, Goes
  <2>3. Stop(w) \/ (report[w].kind = "report" /\ \E at \in Landed : Go(w, at))
    BY <1>0, <1>8 DEF AppendRow, AppendEntry, Markdown, Die, Ready
  <2>4. QED  BY <2>1, <2>2, <2>3
<1>9. QED  BY <1>2, <1>3, <1>4, <1>5, <1>6, <1>7, <1>8 DEF WriterStep

-----------------------------------------------------------------------------

\* Steps that make no salt and log no row: what the writer holds decides.
LEMMA SaltHolds ==
  ASSUME TelemetryTypeOK, SaltInv, NEW w \in Writers, WriterStep(w),
         salt' = salt, ledger' = ledger, gatelog' = gatelog, links' = links,
         links => KeyIsSalt(report'[w])
  PROVE  SaltInv'
<1>1. Logged' = Logged
  BY DEF Logged, Lines
<1>2. ASSUME links', NEW v \in Writers PROVE KeyIsSalt(report[v])'
  BY <1>2, OthersRest DEF SaltInv, KeyIsSalt
<1>3. ASSUME links', NEW r \in Logged' PROVE OfSalt(r)'
  BY <1>1, <1>3 DEF SaltInv, OfSalt, Id
<1>4. QED  BY <1>2, <1>3 DEF SaltInv

\* A row that is logged is the writer's, made with its key.
LEMMA SaltLogs ==
  ASSUME TelemetryTypeOK, ShapeInv, SaltInv, NEW w \in Writers,
         AppendRow(w) \/ AppendEntry(w)
  PROVE  SaltInv'
<1>1. Logged' \subseteq Logged \union {Row(w)}
  <2>1. \/ ledger' \in {Added(ledger, Row(w)), ledger, CutOff(ledger)} /\ gatelog' = gatelog
        \/ gatelog' \in {Added(gatelog, Row(w)), gatelog, CutOff(gatelog)} /\ ledger' = ledger
    BY DEF AppendRow, AppendEntry
  <2>2. QED  BY <2>1, AppendAdds DEF Logged, Lines
<1>2. /\ links' = links /\ salt' = salt
      /\ report[w].at = "map" \/ report[w].names = <<>>
  BY DEF AppendRow, AppendEntry, Ready, ShapeInv, Shaped
<1>3. \/ report'[w].at = "idle"
      \/ /\ report'[w].at = "stat" /\ report'[w].key = report[w].key
         /\ report[w].at = "map"
  BY Stops, Goes DEF AppendRow, AppendEntry, Ready, ShapeInv, Shaped
<1>4. ASSUME links', NEW v \in Writers PROVE KeyIsSalt(report[v])'
  <2>1. CASE v = w
    BY <1>2, <1>3, <1>4, <2>1 DEF SaltInv, KeyIsSalt, Keyed
  <2>2. CASE v # w
    BY <1>2, <1>4, <2>2, OthersRest DEF SaltInv, KeyIsSalt, WriterStep
  <2>3. QED  BY <2>1, <2>2
<1>5. ASSUME links', NEW r \in Logged' PROVE OfSalt(r)'
  <2>1. CASE r \in Logged
    BY <1>2, <1>5, <2>1 DEF SaltInv, OfSalt, Id
  <2>2. CASE r = Row(w)
    <3>1. r.of = report[w].names /\ \A i \in DOMAIN r.of : r.ids[i] = Id(report[w].key, r.of[i])
      BY <2>2 DEF Row
    <3>2. CASE report[w].names = <<>>
      BY <3>1, <3>2 DEF OfSalt
    <3>3. CASE report[w].at = "map"
      BY <1>2, <1>5, <3>1, <3>3 DEF SaltInv, KeyIsSalt, Keyed, OfSalt, Id
    <3>4. QED  BY <1>2, <3>2, <3>3
  <2>3. QED  BY <1>1, <1>5, <2>1, <2>2
<1>6. QED  BY <1>4, <1>5 DEF SaltInv

LEMMA SaltStep ==
  ASSUME TelemetryTypeOK, ShapeInv, SaltInv, NEW w \in Writers, WriterStep(w)
  PROVE  SaltInv'
<1>0. links => KeyIsSalt(report[w])
  BY DEF SaltInv
<1>1. CASE Submit(w)
  <2>1. KeyIsSalt(report'[w])
    BY <1>1, Submits DEF KeyIsSalt, Keyed
  <2>2. QED  BY <1>1, <2>1, SaltHolds DEF Submit
<1>2. CASE ReadSalt(w)
  <2>1. CASE salt = NoSalt
    <3>1. report'[w].at = "salt"
      BY <1>2, <2>1, Goes DEF ReadSalt
    <3>2. KeyIsSalt(report'[w])
      BY <3>1 DEF KeyIsSalt, Keyed
    <3>3. QED  BY <1>2, <3>2, SaltHolds DEF ReadSalt
  <2>2. CASE salt # NoSalt
    <3>1. KeyIsSalt(report'[w])
      BY <1>2, <2>2, TakesKey DEF KeyIsSalt
    <3>2. QED  BY <1>2, <3>1, SaltHolds DEF ReadSalt
  <2>3. QED  BY <2>1, <2>2
<1>3. CASE CreateSalt(w)
  <2>1. /\ report'[w].at = "key" /\ Logged' = Logged
        /\ links' = links /\ (links /\ salt # NoSalt => salt' = salt)
    BY <1>3, Goes DEF CreateSalt, Logged, Lines
  <2>2. ASSUME links', NEW v \in Writers PROVE KeyIsSalt(report[v])'
    <3>1. CASE v = w
      BY <2>1, <3>1 DEF KeyIsSalt, Keyed
    <3>2. CASE v # w
      BY <2>1, <2>2, <3>2, OthersRest DEF SaltInv, KeyIsSalt
    <3>3. QED  BY <3>1, <3>2
  <2>3. ASSUME links', NEW r \in Logged' PROVE OfSalt(r)'
    BY <2>1, <2>3 DEF SaltInv, OfSalt, Id
  <2>4. QED  BY <2>2, <2>3 DEF SaltInv
<1>4. CASE NoKey(w)
  <2>1. report'[w].at \in {"idle", "row"}
    <3>1. CASE report[w].kind = "report"
      BY <1>4, <3>1, Stops DEF NoKey
    <3>2. CASE report[w].kind # "report"
      BY <1>4, <3>2, DropsNames
    <3>3. QED  BY <3>1, <3>2
  <2>2. KeyIsSalt(report'[w])
    BY <2>1 DEF KeyIsSalt, Keyed
  <2>3. QED  BY <1>4, <2>2, SaltHolds DEF NoKey
<1>5. CASE Sanitize(w)
  <2>1. \/ report'[w].at = "idle"
        \/ report'[w].at = "map" /\ report'[w].key = report[w].key /\ report[w].at = "check"
    BY <1>5, Stops, Goes DEF Sanitize
  <2>2. links => KeyIsSalt(report'[w])
    BY <1>0, <2>1 DEF KeyIsSalt, Keyed
  <2>3. QED  BY <1>5, <2>2, SaltHolds DEF Sanitize
<1>6. CASE Remember(w)
  <2>1. \/ report'[w].at = "idle"
        \/ report'[w].at = "map" /\ report'[w].key = report[w].key /\ report[w].at = "map"
    BY <1>6, Stops, TakesNext DEF Remember
  <2>2. links => KeyIsSalt(report'[w])
    BY <1>0, <2>1 DEF KeyIsSalt, Keyed
  <2>3. QED  BY <1>6, <2>2, SaltHolds DEF Remember
<1>7. CASE AppendRow(w) \/ AppendEntry(w)
  BY <1>7, SaltLogs
<1>8. CASE Markdown(w) \/ Die(w)
  <2>1. \/ report'[w].at = "idle"
        \/ /\ report'[w].at \in Keyed /\ report'[w].key = report[w].key
           /\ report[w].at \in Keyed
    BY <1>8, Stops, Goes DEF Markdown, Die, Keyed
  <2>2. links => KeyIsSalt(report'[w])
    BY <1>0, <2>1 DEF KeyIsSalt, Keyed
  <2>3. QED  BY <1>8, <2>2, SaltHolds DEF Markdown, Die
<1>9. QED  BY <1>1, <1>2, <1>3, <1>4, <1>5, <1>6, <1>7, <1>8 DEF WriterStep

-----------------------------------------------------------------------------

\* The append-only files only grow, and so does the history of cut appends.
LEMMA FilesGrow ==
  ASSUME NEW w \in Writers, WriterStep(w)
  PROVE  /\ Lines(map) \subseteq Lines(map') /\ Lines(ledger) \subseteq Lines(ledger')
         /\ torn \subseteq torn'
<1>1. CASE Submit(w) \/ ReadSalt(w) \/ CreateSalt(w) \/ NoKey(w) \/ Sanitize(w) \/ Die(w)
  BY <1>1 DEF Submit, ReadSalt, CreateSalt, NoKey, Sanitize, Die
<1>2. CASE Remember(w)
  <2>1. ledger' = ledger /\ torn \subseteq torn'
    BY <1>2 DEF Remember
  <2>2. map' \in {map, CutOff(map)} \/ \E line : map' = Added(map, line)
    BY <1>2 DEF Remember
  <2>3. QED  BY <2>1, <2>2, AppendAdds
<1>3. CASE AppendRow(w)
  <2>1. map' = map /\ torn \subseteq torn'
    BY <1>3 DEF AppendRow
  <2>2. ledger' \in {ledger, CutOff(ledger), Added(ledger, Row(w))}
    BY <1>3 DEF AppendRow
  <2>3. QED  BY <2>1, <2>2, AppendAdds
<1>4. CASE AppendEntry(w) \/ Markdown(w)
  BY <1>4 DEF AppendEntry, Markdown
<1>5. QED  BY <1>1, <1>2, <1>3, <1>4 DEF WriterStep

LEMMA MapStep ==
  ASSUME MapInv, NEW w \in Writers, WriterStep(w)
  PROVE  MapInv'
<1>1. CASE Remember(w)
  <2> DEFINE name == Head(report[w].todo)
             line == [id |-> Id(report[w].key, name), name |-> name]
  <2>1. map' \in {map, CutOff(map), Added(map, line)}
    BY <1>1 DEF Remember
  <2>2. Lines(map') \subseteq Lines(map) \union {line}
    BY <2>1, AppendAdds
  <2>3. line.id.name = line.name
    BY DEF Id
  <2>4. QED  BY <2>2, <2>3 DEF MapInv, Lines
<1>2. CASE ~Remember(w)
  <2>1. map' = map
    BY <1>2 DEF WriterStep, Submit, ReadSalt, CreateSalt, NoKey, Sanitize, AppendRow, AppendEntry,
                Markdown, Die
  <2>2. QED  BY <2>1 DEF MapInv, Lines
<1>3. QED  BY <1>1, <1>2

LEMMA UntornStep ==
  ASSUME TelemetryTypeOK, UntornInv, NEW w \in Writers, WriterStep(w)
  PROVE  UntornInv'
<1>1. CASE Remember(w)
  <2>1. ledger' = ledger /\ torn \subseteq torn'
    BY <1>1 DEF Remember
  <2>2. map'.cut => "map" \in torn'
    BY <1>1 DEF Remember, UntornInv, Added, CutOff
  <2>3. QED  BY <2>1, <2>2 DEF UntornInv
<1>2. CASE AppendRow(w)
  <2>1. map' = map /\ torn \subseteq torn'
    BY <1>2 DEF AppendRow
  <2>2. ledger'.cut \/ Broken \in ledger'.lines => "ledger" \in torn'
    BY <1>2, RowIsTyped DEF AppendRow, UntornInv, Added, CutOff
  <2>3. QED  BY <2>1, <2>2 DEF UntornInv
<1>3. CASE ~Remember(w) /\ ~AppendRow(w)
  <2>1. map' = map /\ ledger' = ledger
    BY <1>3 DEF WriterStep, Submit, ReadSalt, CreateSalt, NoKey, Sanitize, AppendEntry, Markdown, Die
  <2>2. QED  BY <2>1, FilesGrow DEF UntornInv
<1>4. QED  BY <1>1, <1>2, <1>3

\* A pseudonym that is in the map stays there.
LEMMA MappedStays ==
  ASSUME NEW w \in Writers, WriterStep(w), NEW id, Mapped(id)
  PROVE  \E line \in Lines(map') : line.id = id
  BY FilesGrow DEF Mapped

\* The writer's own part of AheadInv.
LEMMA WriterAhead ==
  ASSUME TelemetryTypeOK, ShapeInv, UntornInv, AheadInv, NEW w \in Writers, WriterStep(w),
         "map" \notin torn'
  PROVE  Ahead(report[w])'
<1>1. "map" \notin torn /\ Ahead(report[w]) /\ Shaped(report[w])
  BY FilesGrow DEF AheadInv, Ahead, FirstMapped, ShapeInv
<1>2. CASE report'[w].at \notin {"map"} \union Landed
  BY <1>2 DEF Ahead
<1>3. CASE Remember(w) /\ ~Stop(w)
  <2> DEFINE name == Head(report[w].todo)
             line == [id |-> Id(report[w].key, name), name |-> name]
  <2>1. /\ report'[w].names = report[w].names /\ report'[w].key = report[w].key
        /\ report'[w].kind = report[w].kind
    BY <1>3, TakesNext DEF Remember
  <2>2. SUFFICES ASSUME report[w].kind = "report" PROVE FirstMapped(report[w])'
    BY <2>1 DEF Ahead
  <2>3. map' = Added(map, line) /\ report[w].at = "map" /\ report[w].todo # <<>>
    BY <1>3, <2>2 DEF Remember
  <2>4. CASE report[w].todo = report[w].names
    <3>1. report[w].todo \in Seq(Names) /\ report[w].key \in Keys
      BY DEF TelemetryTypeOK, Recordings
    <3>2. name \in Names /\ name = report[w].names[1]
      BY <2>3, <2>4, <3>1
    <3>3. line \in MapLines
      BY <3>1, <3>2 DEF MapLines, Pseudonyms, Id, Keys
    <3>4. line \in Lines(map')
      BY <1>1, <2>3, <3>3, TelemetryAssumption DEF UntornInv, Lines, Added
    <3>5. line.id = Id(report'[w].key, report'[w].names[1])
      BY <2>1, <3>2
    <3>6. QED  BY <3>4, <3>5 DEF FirstMapped, Mapped, Lines, Id
  <2>5. CASE FirstMapped(report[w])
    BY <2>1, <2>5, MappedStays DEF FirstMapped, Mapped, Lines, Id
  <2>6. QED  BY <1>1, <2>2, <2>3, <2>4, <2>5 DEF Ahead
<1>4. CASE Sanitize(w) /\ ~Stop(w)
  <2>1. /\ report'[w].names = report[w].names /\ report'[w].at = "map"
        /\ report'[w].todo = report[w].todo /\ report[w].at = "check"
    BY <1>4, Goes DEF Sanitize
  <2>2. QED  BY <1>1, <2>1 DEF Ahead, Shaped
<1>5. CASE (AppendRow(w) \/ Markdown(w)) /\ ~Stop(w)
  <2>1. /\ report'[w].names = report[w].names /\ report'[w].key = report[w].key
    BY <1>5, Goes DEF AppendRow, Markdown
  <2>2. FirstMapped(report[w])
    BY <1>1, <1>5 DEF AppendRow, Markdown, Ready, Ahead, Shaped, Landed
  <2>3. QED  BY <2>1, <2>2, MappedStays DEF Ahead, FirstMapped, Mapped, Lines, Id
<1>6. CASE Stop(w)
  BY <1>2, <1>6, Stops DEF Landed
<1>7. CASE Submit(w) \/ ReadSalt(w) \/ CreateSalt(w) \/ NoKey(w) \/ AppendEntry(w) \/ Die(w)
  <2>1. CASE Submit(w)
    BY <1>2, <2>1, Submits DEF Landed
  <2>2. CASE ReadSalt(w)
    <3>1. CASE salt = NoSalt
      BY <1>2, <2>2, <3>1, Goes DEF ReadSalt, Landed
    <3>2. CASE salt # NoSalt
      BY <1>2, <2>2, <3>2, TakesKey DEF Landed
    <3>3. QED  BY <3>1, <3>2
  <2>3. CASE CreateSalt(w)
    BY <1>2, <2>3, Goes DEF CreateSalt, Landed
  <2>4. CASE NoKey(w) /\ ~Stop(w)
    BY <1>2, <2>4, DropsNames DEF NoKey, Landed
  <2>5. CASE AppendEntry(w) \/ Die(w)
    BY <1>6, <2>5 DEF AppendEntry, Die
  <2>6. QED  BY <1>6, <1>7, <2>1, <2>2, <2>3, <2>4, <2>5
<1>8. QED  BY <1>3, <1>4, <1>5, <1>6, <1>7 DEF WriterStep

LEMMA AheadStep ==
  ASSUME TelemetryTypeOK, ShapeInv, UntornInv, AheadInv, NEW w \in Writers, WriterStep(w)
  PROVE  AheadInv'
<1>1. SUFFICES ASSUME "map" \notin torn'
      PROVE  /\ \A v \in Writers : Ahead(report[v])'
             /\ \A r \in Lines(ledger') : r.ids[1].name = r.of[1] /\ Mapped(r.ids[1])'
  BY DEF AheadInv, Ahead, FirstMapped, Lines
<1>2. "map" \notin torn
  BY <1>1, FilesGrow
<1>3. ASSUME NEW v \in Writers, v # w PROVE Ahead(report[v])'
  <2>1. report'[v] = report[v] /\ Ahead(report[v])
    BY <1>2, <1>3, OthersRest DEF AheadInv, Ahead, FirstMapped
  <2>2. QED  BY <2>1, MappedStays DEF Ahead, FirstMapped, Mapped, Lines, Id
<1>4. ASSUME NEW r \in Lines(ledger') PROVE r.ids[1].name = r.of[1] /\ Mapped(r.ids[1])'
  <2>1. CASE r \in Lines(ledger)
    <3>1. r.ids[1].name = r.of[1] /\ Mapped(r.ids[1])
      BY <1>2, <2>1 DEF AheadInv
    <3>2. QED  BY <3>1, MappedStays DEF Mapped, Lines
  <2>2. CASE r \notin Lines(ledger)
    <3>1. AppendRow(w)
      BY <1>4, <2>2 DEF WriterStep, Submit, ReadSalt, CreateSalt, NoKey, Sanitize, Remember,
                        AppendEntry, Markdown, Die, Lines
    <3>2. r = Row(w) /\ map' = map
      BY <1>4, <2>2, <3>1, AppendAdds DEF AppendRow
    <3>3. report[w].kind = "report" /\ report[w].at = "map" /\ report[w].todo = <<>>
          /\ report[w].names # <<>>
      BY <3>1 DEF AppendRow, Ready, ShapeInv, Shaped
    <3>4. FirstMapped(report[w])
      BY <1>2, <3>3 DEF AheadInv, Ahead
    <3>5. 1 \in DOMAIN report[w].names
      <4>1. report[w].names \in Seq(Names)
        BY DEF TelemetryTypeOK, Recordings
      <4>2. QED  BY <3>3, <4>1
    <3>6. r.ids[1] = Id(report[w].key, report[w].names[1]) /\ r.of[1] = report[w].names[1]
      BY <3>2, <3>5 DEF Row
    <3>7. Mapped(r.ids[1])
      BY <3>4, <3>6 DEF FirstMapped
    <3>8. QED  BY <3>2, <3>6, <3>7 DEF Mapped, Lines, Id
  <2>3. QED  BY <2>1, <2>2
<1>5. QED  BY <1>1, <1>3, <1>4, WriterAhead

\* A report that lands does so whole, and its row stays while it is rendered.
LEMMA SectionStep ==
  ASSUME TelemetryTypeOK, ShapeInv, UntornInv, SectionInv, NEW w \in Writers, WriterStep(w)
  PROVE  SectionInv'
<1>1. SUFFICES ASSUME "ledger" \notin torn'
      PROVE  /\ \A v \in Writers : report'[v].at \in Landed => Row(v)' \in Lines(ledger')
             /\ Lines(markdown') \subseteq Lines(ledger') \union {Header}
  BY DEF SectionInv, Lines, Header
<1>2. "ledger" \notin torn /\ Lines(ledger) \subseteq Lines(ledger')
  BY <1>1, FilesGrow
<1>3. ASSUME NEW v \in Writers, v # w, report'[v].at \in Landed PROVE Row(v)' \in Lines(ledger')
  <2>1. report'[v] = report[v]
    BY <1>3, OthersRest
  <2>2. Row(v)' = Row(v)
    BY <2>1 DEF Row, Id
  <2>3. QED  BY <1>2, <1>3, <2>1, <2>2 DEF SectionInv
<1>4. ASSUME report'[w].at \in Landed PROVE Row(w)' \in Lines(ledger')
  <2>1. AppendRow(w) \/ Markdown(w)
    <3>1. CASE Submit(w)
      BY <1>4, <3>1, Submits DEF Landed
    <3>2. CASE ReadSalt(w)
      <4>1. CASE salt = NoSalt
        BY <1>4, <3>2, <4>1, Goes DEF ReadSalt, Landed
      <4>2. CASE salt # NoSalt
        BY <1>4, <3>2, <4>2, TakesKey DEF Landed
      <4>3. QED  BY <4>1, <4>2
    <3>3. CASE CreateSalt(w) \/ Sanitize(w) \/ AppendEntry(w) \/ Die(w)
      BY <1>4, <3>3, Goes, Stops DEF CreateSalt, Sanitize, AppendEntry, Die, Landed
    <3>4. CASE NoKey(w)
      <4>1. CASE report[w].kind = "report"
        BY <1>4, <3>4, <4>1, Stops DEF NoKey, Landed
      <4>2. CASE report[w].kind # "report"
        BY <1>4, <3>4, <4>2, DropsNames DEF Landed
      <4>3. QED  BY <4>1, <4>2
    <3>5. CASE Remember(w)
      BY <1>4, <3>5, TakesNext, Stops DEF Remember, Landed
    <3>6. QED  BY <3>1, <3>2, <3>3, <3>4, <3>5 DEF WriterStep
  <2>2. Row(w)' = Row(w)
    <3>1. \E at : Go(w, at)
      BY <1>4, <2>1, Stops DEF AppendRow, Markdown, Landed
    <3>2. /\ report'[w].names = report[w].names /\ report'[w].key = report[w].key
          /\ report'[w].number = report[w].number
      BY <3>1, Goes
    <3>3. QED  BY <3>2 DEF Row, Id
  <2>3. CASE AppendRow(w)
    <3>1. ledger' = Added(ledger, Row(w)) /\ ~ledger.cut
      BY <1>2, <1>4, <2>3, Stops DEF AppendRow, Landed, UntornInv
    <3>2. QED  BY <2>2, <3>1, RowIsTyped, AppendAdds
  <2>4. CASE Markdown(w)
    <3>1. Row(w) \in Lines(ledger)
      BY <1>2, <2>4 DEF Markdown, SectionInv, Landed
    <3>2. QED  BY <1>2, <2>2, <3>1
  <2>5. QED  BY <2>1, <2>3, <2>4
<1>5. Lines(markdown') \subseteq Lines(ledger') \union {Header}
  <2>1. CASE Markdown(w)
    <3> DEFINE line == IF report[w].at = "section" THEN Row(w) ELSE Header
    <3>1. markdown' \in {markdown, CutOff(markdown), Added(markdown, line)}
      BY <2>1 DEF Markdown
    <3>2. line \in Lines(ledger) \union {Header}
      BY <1>2 DEF SectionInv, Landed
    <3> HIDE DEF line
    <3>3. Lines(markdown') \subseteq Lines(markdown) \union {line}
      BY <3>1, AppendAdds
    <3>4. QED  BY <1>2, <3>2, <3>3 DEF SectionInv
  <2>2. CASE ~Markdown(w)
    <3>1. markdown' = markdown
      BY <2>2 DEF WriterStep, Submit, ReadSalt, CreateSalt, NoKey, Sanitize, Remember,
                  AppendRow, AppendEntry, Die
    <3>2. QED  BY <1>2, <3>1 DEF SectionInv
  <2>3. QED  BY <2>1, <2>2
<1>6. QED  BY <1>1, <1>3, <1>4, <1>5

-----------------------------------------------------------------------------

TelemetryInv == /\ TelemetryTypeOK /\ ShapeInv /\ SaltInv
                /\ MapInv /\ UntornInv /\ AheadInv /\ SectionInv

LEMMA TelemetryStarts == ASSUME TelemetryInit PROVE TelemetryInv
<1>1. \A w \in Writers : report[w].at = "idle" /\ report[w].kind = "none"
  BY DEF TelemetryInit, Quiet
<1>2. /\ Lines(map) = {} /\ Lines(ledger) = {} /\ Lines(gatelog) = {} /\ Lines(markdown) = {}
      /\ ~map.cut /\ ~ledger.cut /\ Broken \notin ledger.lines
  BY DEF TelemetryInit, NoLines, Lines
<1>3. TelemetryTypeOK
  BY TypeInit
<1>4. ShapeInv /\ SaltInv /\ AheadInv /\ SectionInv
  BY <1>1, <1>2 DEF ShapeInv, Shaped, SaltInv, KeyIsSalt, Keyed, Logged, AheadInv, Ahead,
     SectionInv, Landed
<1>5. MapInv /\ UntornInv
  BY <1>2 DEF MapInv, UntornInv
<1>6. QED  BY <1>3, <1>4, <1>5 DEF TelemetryInv

LEMMA TelemetryKeeps ==
  ASSUME TelemetryInv, [TelemetryNext]_TelemetryVars
  PROVE  TelemetryInv'
<1>1. CASE UNCHANGED TelemetryVars
  <2>1. Lines(map)' = Lines(map) /\ Lines(ledger)' = Lines(ledger)
        /\ Lines(gatelog)' = Lines(gatelog) /\ Lines(markdown)' = Lines(markdown)
    BY <1>1 DEF TelemetryVars, Lines
  <2>2. QED
    BY <1>1, <2>1 DEF TelemetryVars, TelemetryInv, TelemetryTypeOK, ShapeInv, Shaped, SaltInv,
       KeyIsSalt, OfSalt, Logged, MapInv, UntornInv, AheadInv, Ahead, FirstMapped, Mapped,
       SectionInv, Row, Id, Header
<1>2. CASE TelemetryNext
  <2>1. PICK w \in Writers : WriterStep(w)
    BY <1>2 DEF TelemetryNext, WriterStep
  <2>2. QED
    BY <1>2, <2>1, TypeStep, ShapeStep, SaltStep, MapStep, UntornStep, AheadStep, SectionStep
       DEF TelemetryInv
<1>3. QED  BY <1>1, <1>2

LEMMA TelemetryInvariant == TelemetrySpec => []TelemetryInv
<1>1. TelemetryInit => TelemetryInv
  BY TelemetryStarts
<1>2. TelemetryInv /\ [TelemetryNext]_TelemetryVars => TelemetryInv'
  BY TelemetryKeeps
<1>3. QED  BY <1>1, <1>2, PTL DEF TelemetrySpec

\* Where hard links work, however many processes begin a directory at once, a
\* name has the same pseudonym in every row of the ledger and of the gate's
\* log: no second salt replaces the first (createSalt, LoadKeyIn).
THEOREM PseudonymsAreStable == TelemetrySpec => []OnePseudonym
<1>1. TelemetryInv => OnePseudonym
  BY DEF TelemetryInv, SaltInv, OfSalt, Logged, OnePseudonym
<1>2. QED  BY <1>1, TelemetryInvariant, PTL

\* For any number of reports, writers, failures and salts, a directory whose
\* map and ledger were never cut short reads back: each repository is counted
\* for exactly its reports that landed, and the Markdown file shows no report
\* that did not land (Remember before Record's row, Resolve, Summarize).
THEOREM SummaryIsExact == TelemetrySpec => []SummaryCountsReports
<1>1. ASSUME TelemetryInv PROVE SummaryCountsReports
  <2>1. SUFFICES ASSUME "map" \notin torn, "ledger" \notin torn
        PROVE  /\ Readable
               /\ \A n \in Repos : Reports(n) = {row \in Lines(ledger) : row.of[1] = n}
               /\ Lines(markdown) \subseteq Lines(ledger) \union {Header}
    BY DEF SummaryCountsReports
  <2>2. Readable
    BY <1>1, <2>1 DEF TelemetryInv, UntornInv, Readable
  <2>3. ASSUME NEW row \in Lines(ledger) PROVE Resolve(row.ids[1]) = row.of[1]
    <3>1. row.ids[1].name = row.of[1] /\ Mapped(row.ids[1])
      BY <1>1, <2>1 DEF TelemetryInv, AheadInv
    <3> DEFINE found == CHOOSE line \in Lines(map) : line.id = row.ids[1]
    <3>2. found \in Lines(map) /\ found.id = row.ids[1]
      BY <3>1 DEF Mapped
    <3>3. found.name = row.of[1]
      BY <1>1, <3>1, <3>2 DEF TelemetryInv, MapInv
    <3>4. Resolve(row.ids[1]) = found.name
      BY <3>1 DEF Resolve, Mapped
    <3>5. QED  BY <3>3, <3>4
  <2>4. \A n \in Repos : Reports(n) = {row \in Lines(ledger) : row.of[1] = n}
    BY <2>3 DEF Reports
  <2>5. QED  BY <1>1, <2>1, <2>2, <2>4 DEF TelemetryInv, SectionInv
<1>2. QED  BY <1>1, TelemetryInvariant, PTL

-----------------------------------------------------------------------------
(* No name without a row. *)

\* What a writer has still to remember are names of its report, and a refused
\* report never comes to the map.
Follows(r) ==
  /\ r.at \in {"check", "map"} =>
       \A j \in DOMAIN r.todo : \E i \in DOMAIN r.names : r.todo[j] = r.names[i]
  /\ r.at = "map" => r.text = "plain"
FollowInv == \A w \in Writers : Follows(report[w])

\* Where nothing failed no file is cut, and a line of the map is of a row or of
\* a report on its way to one.
HasRow(line) == \E r \in Logged : \E i \in DOMAIN r.ids : r.ids[i] = line.id
OnItsWay(r, line) ==
  r.at = "map" /\ \E i \in DOMAIN r.names : Id(r.key, r.names[i]) = line.id /\ r.names[i] = line.name
TraceInv == cuts = 0 =>
  /\ ~ledger.cut /\ ~gatelog.cut
  /\ \A line \in Lines(map) : HasRow(line) \/ \E w \in Writers : OnItsWay(report[w], line)

LEMMA FollowStep ==
  ASSUME TelemetryTypeOK, FollowInv, NEW w \in Writers, WriterStep(w)
  PROVE  FollowInv'
<1>0. Follows(report[w])
  BY DEF FollowInv
<1>1. SUFFICES Follows(report'[w])
  BY OthersRest DEF FollowInv, Follows
<1>2. CASE report'[w].at \notin {"check", "map"}
  BY <1>2 DEF Follows
<1>3. CASE Submit(w) \/ CreateSalt(w) \/ Stop(w)
  BY <1>2, <1>3, Submits, Stops, Goes DEF CreateSalt
<1>4. CASE ReadSalt(w)
  <2>1. CASE salt = NoSalt
    BY <1>2, <1>4, <2>1, Goes DEF ReadSalt
  <2>2. CASE salt # NoSalt
    BY <1>4, <2>2, TakesKey DEF Follows
  <2>3. QED  BY <2>1, <2>2
<1>5. CASE NoKey(w) /\ ~Stop(w)
  BY <1>2, <1>5, DropsNames DEF NoKey
<1>6. CASE Sanitize(w) /\ ~Stop(w)
  <2>1. report[w].text = "plain"
    BY <1>6 DEF Sanitize, TelemetryTypeOK, Recordings
  <2>2. report'[w].text = report[w].text
    BY <1>6 DEF Sanitize, Go, TelemetryTypeOK, Recordings
  <2>3. QED  BY <1>0, <1>6, <2>1, <2>2, Goes DEF Sanitize, Follows
<1>7. CASE Remember(w) /\ ~Stop(w)
  <2>1. /\ report'[w].text = report[w].text /\ report[w].todo \in Seq(Names)
        /\ report[w].todo # <<>> /\ report[w].at = "map"
    BY <1>7 DEF Remember, TelemetryTypeOK, Recordings
  <2>2. \A j \in DOMAIN Tail(report[w].todo) :
          /\ j + 1 \in DOMAIN report[w].todo
          /\ Tail(report[w].todo)[j] = report[w].todo[j + 1]
    BY <2>1
  <2>3. /\ report'[w].at = "map" /\ report'[w].names = report[w].names
        /\ report'[w].todo = Tail(report[w].todo)
    BY <1>7, <2>1, TakesNext DEF Remember
  <2>4. QED  BY <1>0, <2>1, <2>2, <2>3 DEF Follows
<1>8. CASE (AppendRow(w) \/ Markdown(w)) /\ ~Stop(w)
  BY <1>2, <1>8, Goes DEF AppendRow, Markdown
<1>9. QED
  BY <1>3, <1>4, <1>5, <1>6, <1>7, <1>8 DEF WriterStep, AppendEntry, Die

\* Failures are counted, and never uncounted.
LEMMA FailuresCount ==
  ASSUME NEW w \in Writers, WriterStep(w)
  PROVE  cuts' \in {cuts, cuts + 1}
<1>1. CASE Submit(w) \/ ReadSalt(w) \/ CreateSalt(w) \/ Sanitize(w)
  BY <1>1 DEF Submit, ReadSalt, CreateSalt, Sanitize, Fails
<1>2. CASE NoKey(w) \/ Die(w)
  BY <1>2 DEF NoKey, Die, Fails
<1>3. CASE Remember(w) \/ AppendRow(w) \/ AppendEntry(w) \/ Markdown(w)
  BY <1>3 DEF Remember, AppendRow, AppendEntry, Markdown, Fails, Works
<1>4. QED  BY <1>1, <1>2, <1>3 DEF WriterStep

\* As long as nothing failed, a step that ends a recording logged its row.
LEMMA TraceStep ==
  ASSUME TelemetryTypeOK, cuts \in Nat, FollowInv, TraceInv, NEW w \in Writers, WriterStep(w)
  PROVE  TraceInv'
<1>1. SUFFICES ASSUME cuts' = 0
      PROVE  /\ ~ledger'.cut /\ ~gatelog'.cut
             /\ \A line \in Lines(map') :
                  HasRow(line)' \/ \E v \in Writers : OnItsWay(report'[v], line)
  BY DEF TraceInv, Lines, OnItsWay, Id
<1>2. cuts = 0 /\ ~Fails
  BY <1>1, FailuresCount DEF Fails
<1>3. ~ledger'.cut /\ ~gatelog'.cut
  <2>1. ledger' \in {ledger, Added(ledger, Row(w))} /\ gatelog' \in {gatelog, Added(gatelog, Row(w))}
    BY <1>2 DEF WriterStep, Submit, ReadSalt, CreateSalt, NoKey, Sanitize, Remember,
                AppendRow, AppendEntry, Markdown, Die
  <2>2. QED  BY <1>2, <2>1 DEF TraceInv, Added
<1>4. Logged \subseteq Logged'
  <2>1. ledger' \in {ledger, Added(ledger, Row(w))} /\ gatelog' \in {gatelog, Added(gatelog, Row(w))}
    BY <1>2 DEF WriterStep, Submit, ReadSalt, CreateSalt, NoKey, Sanitize, Remember,
                AppendRow, AppendEntry, Markdown, Die
  <2>2. Lines(ledger) \subseteq Lines(ledger') /\ Lines(gatelog) \subseteq Lines(gatelog')
    BY <2>1, AppendAdds
  <2>3. QED  BY <2>2 DEF Logged, Lines
<1>5. ASSUME NEW line, HasRow(line) PROVE HasRow(line)'
  BY <1>4, <1>5 DEF HasRow
<1>6. ASSUME NEW line, NEW v \in Writers, v # w, OnItsWay(report[v], line)
      PROVE  OnItsWay(report'[v], line)
  BY <1>6, OthersRest DEF OnItsWay
<1>7. ASSUME NEW line, OnItsWay(report[w], line)
      PROVE  HasRow(line)' \/ OnItsWay(report'[w], line)
  <2>1. report[w].at = "map"
    BY <1>7 DEF OnItsWay
  <2>2. CASE Remember(w)
    <3>1. report' = [report EXCEPT ![w].todo = Tail(@)]
      BY <1>2, <2>2 DEF Remember
    <3>2. QED  BY <1>7, <3>1, TakesNext DEF OnItsWay
  <2>3. CASE AppendRow(w) \/ AppendEntry(w)
    <3>1. \/ ledger' = Added(ledger, Row(w))
          \/ gatelog' = Added(gatelog, Row(w))
      BY <1>2, <2>3 DEF AppendRow, AppendEntry
    <3>2. Row(w) \in Logged'
      BY <1>2, <3>1, RowIsTyped, AppendAdds DEF Logged, Lines, TraceInv
    <3>3. \E i \in DOMAIN Row(w).ids : Row(w).ids[i] = line.id
      BY <1>7 DEF OnItsWay, Row
    <3>4. QED  BY <3>2, <3>3 DEF HasRow
  <2>4. CASE ~(Remember(w) \/ AppendRow(w) \/ AppendEntry(w))
    BY <1>2, <2>1, <2>4 DEF WriterStep, Submit, ReadSalt, CreateSalt, NoKey, Sanitize, Markdown, Die
  <2>5. QED  BY <2>2, <2>3, <2>4
<1>8. ASSUME NEW line \in Lines(map') \ Lines(map)
      PROVE  \E v \in Writers : OnItsWay(report'[v], line)
  <2>1. Remember(w)
    BY <1>8 DEF WriterStep, Submit, ReadSalt, CreateSalt, NoKey, Sanitize, AppendRow, AppendEntry,
                Markdown, Die
  <2> DEFINE name == Head(report[w].todo)
  <2>2. /\ line = [id |-> Id(report[w].key, name), name |-> name]
        /\ report' = [report EXCEPT ![w].todo = Tail(@)]
        /\ report[w].at = "map" /\ report[w].todo # <<>>
    BY <1>2, <1>8, <2>1, AppendAdds DEF Remember
  <2>3. /\ report'[w].at = "map" /\ report'[w].names = report[w].names
        /\ report'[w].key = report[w].key
    BY <2>2, TakesNext
  <2>4. 1 \in DOMAIN report[w].todo /\ name = report[w].todo[1]
    <3>1. report[w].todo \in Seq(Names)
      BY DEF TelemetryTypeOK, Recordings
    <3>2. QED  BY <2>2, <3>1
  <2>5. PICK i \in DOMAIN report[w].names : report[w].names[i] = name
    BY <2>2, <2>4 DEF FollowInv, Follows
  <2>6. QED  BY <2>2, <2>3, <2>5 DEF OnItsWay
<1>9. ASSUME NEW line \in Lines(map')
      PROVE  HasRow(line)' \/ \E v \in Writers : OnItsWay(report'[v], line)
  <2>1. CASE line \in Lines(map)
    <3>1. HasRow(line) \/ \E v \in Writers : OnItsWay(report[v], line)
      BY <1>2, <2>1 DEF TraceInv
    <3>2. QED  BY <3>1, <1>5, <1>6, <1>7
  <2>2. QED  BY <1>8, <2>1
<1>10. QED  BY <1>3, <1>9

\* Without failures, a name is in the map only for a row that landed or is on
\* its way: a report that is refused leaves no trace of what it named (Verify
\* before Remember, in Record).
THEOREM NamesAreForRows == TelemetrySpec => []MapIsForRows
<1> DEFINE I == cuts \in Nat /\ FollowInv /\ TraceInv
<1>1. TelemetryInit => I
  <2> SUFFICES ASSUME TelemetryInit PROVE I
    OBVIOUS
  <2>1. \A w \in Writers : report[w].at = "idle"
    BY DEF TelemetryInit, Quiet
  <2>2. Lines(map) = {} /\ ~ledger.cut /\ ~gatelog.cut /\ cuts = 0
    BY DEF TelemetryInit, NoLines, Lines
  <2>3. QED  BY <2>1, <2>2 DEF FollowInv, Follows, TraceInv
<1>2. TelemetryInv /\ I /\ [TelemetryNext]_TelemetryVars => I'
  <2> SUFFICES ASSUME TelemetryInv, I, [TelemetryNext]_TelemetryVars PROVE I'
    OBVIOUS
  <2>1. CASE UNCHANGED TelemetryVars
    BY <2>1 DEF TelemetryVars, FollowInv, Follows, TraceInv, Lines, HasRow, Logged, OnItsWay, Id
  <2>2. CASE TelemetryNext
    <3>1. PICK w \in Writers : WriterStep(w)
      BY <2>2 DEF TelemetryNext, WriterStep
    <3>2. cuts' \in Nat
      BY <3>1, FailuresCount
    <3>3. QED  BY <3>1, <3>2, FollowStep, TraceStep DEF TelemetryInv
  <2>3. QED  BY <2>1, <2>2
<1>3. I => MapIsForRows
  <2> SUFFICES ASSUME I, cuts = 0, NEW line \in Lines(map)
               PROVE  \/ \E r \in Lines(ledger) \union Lines(gatelog) :
                           \E i \in DOMAIN r.ids : r.ids[i] = line.id
                      \/ \E w \in Writers : /\ report[w].at = "map" /\ report[w].text = "plain"
                                            /\ \E i \in DOMAIN report[w].names :
                                                 report[w].names[i] = line.name
    BY DEF MapIsForRows
  <2>1. CASE HasRow(line)
    BY <2>1 DEF HasRow, Logged
  <2>2. CASE \E w \in Writers : OnItsWay(report[w], line)
    BY <2>2 DEF OnItsWay, FollowInv, Follows
  <2>3. QED  BY <2>1, <2>2 DEF TraceInv
<1>4. QED  BY <1>1, <1>2, <1>3, TelemetryInvariant, PTL DEF TelemetrySpec
=============================================================================
