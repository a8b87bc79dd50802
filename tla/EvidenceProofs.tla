---------------------------- MODULE EvidenceProofs ----------------------------
(***************************************************************************)
(* What `tpp plan admit` admits was observed: for any ledger, any edits,   *)
(* any number of admissions, and a tree that changes under them; and a pin *)
(* no longer holds only where something really changed.                    *)
(***************************************************************************)
EXTENDS Evidence, WellFoundedInduction, TLAPS

Stages == {"idle", "row", "first", "second", "stage", "mutated", "restored", "record"}
Replaying == {"stage", "mutated", "restored"}
Places == Trees \union {Dirty}
Outputs == [tree : Places, mode : {"host", "sandbox"}, moving : {0, 1}]
Digests == Outputs \union {NoPin}
Halves == {"first", "second", "mutated", "restored"}
Errors == {"", "red", "refusal", "timeout", "absent"}
Sights == [half : Halves, err : Errors, digest : Digests]
Fields == {"at", "row", "sandbox", "execute", "only", "record", "read", "copy", "edit", "seen"}

EvidenceTypeOK ==
  /\ tree \in Places
  /\ rows \in Ledgers
  /\ DOMAIN results = DOMAIN rows
  /\ DOMAIN admission = Fields
  /\ admission.at \in Stages
  /\ admission.row \in DOMAIN rows
  /\ admission.copy \in Places
  /\ admission.edit \in Nat \ {0}
  /\ admission.seen \in Seq(Sights)

\* How a row's own command is to end.
Good(r) == IF r.expect = "fail" THEN "red" ELSE ""

\* Every edit up to the n-th was replayed: noticed unless it is equivalent, and undone.
Replayed(r, seen, n) == \A k \in 1..n :
  /\ (seen[2 * k].err = "") = r.edits[k].equivalent
  /\ seen[2 * k].err # "refusal" /\ seen[2 * k + 1].err = ""

\* A verdict that was reached the way AdmittedIsObserved says.
Observed(r, seen, digest) ==
  /\ Len(seen) = IF r.edits = <<>> THEN 2 ELSE 1 + 2 * Len(r.edits)
  /\ seen[1].err = Good(r) /\ seen[Len(seen)].err = Good(r)
  /\ seen[1].digest = seen[Len(seen)].digest /\ digest = seen[1].digest
  /\ Replayed(r, seen, Len(r.edits))
  /\ r.defects = {}

ResultsInv == \A i \in DOMAIN rows :
  results[i].verdict = "admitted" => Observed(rows[i], results[i].seen, results[i].digest)

\* How far the row at hand has come, and what has been seen of it by then.
ProgressInv ==
  /\ admission.at \in {"row", "first"} => admission.seen = <<>> /\ admission.edit = 1
  /\ admission.at \in {"first", "second"} \union Replaying => TheRow.defects = {}
  /\ admission.at = "second" =>
       TheRow.edits = <<>> /\ Len(admission.seen) = 1 /\ admission.seen[1].err = Good(TheRow)
  /\ admission.at \in Replaying =>
       /\ TheRow.command # "silent" /\ TheRow.expect = "pass"
       /\ admission.edit \in 1..Len(TheRow.edits)
       /\ Len(admission.seen) = IF admission.at = "restored" THEN 2 * admission.edit
                                                             ELSE 2 * admission.edit - 1
       /\ admission.seen[1].err = ""
       /\ Replayed(TheRow, admission.seen, admission.edit - 1)

EvidenceInv == EvidenceTypeOK /\ ResultsInv /\ ProgressInv

-----------------------------------------------------------------------------

LEMMA RowsAreTyped ==
  ASSUME EvidenceTypeOK, NEW i \in DOMAIN rows
  PROVE  /\ rows \in Seq(LedgerRows) /\ DOMAIN rows = 1..Len(rows)
         /\ rows[i] \in LedgerRows /\ rows[i].edits \in Seq(Edits)
         /\ "mutation" \in rows[i].defects => rows[i].edits # <<>>
         /\ rows[i].expect = "fail" /\ rows[i].edits # <<>>
              => "expect-with-mutate" \in rows[i].defects
<1>1. rows \in Seq(LedgerRows)
  BY EvidenceAssumption DEF EvidenceTypeOK
<1>2. rows[i] \in LedgerRows
  BY <1>1
<1>3. rows[i].edits \in Seq(Edits)
  BY <1>2 DEF LedgerRows
<1>4. DOMAIN rows = 1..Len(rows)
  BY <1>1
<1>5. rows \in Ledgers
  BY DEF EvidenceTypeOK
<1>6. /\ "mutation" \in rows[i].defects => rows[i].edits # <<>>
      /\ rows[i].expect = "fail" /\ rows[i].edits # <<>>
           => "expect-with-mutate" \in rows[i].defects
  BY <1>5, EvidenceAssumption
<1>7. QED  BY <1>1, <1>2, <1>3, <1>4, <1>6

\* What a command may do, by its row and where it runs.
LEMMA OutcomesAreTyped ==
  ASSUME EvidenceTypeOK, NEW dir \in Places, NEW kills \in BOOLEAN,
         NEW seen \in Outcomes(TheRow, dir, kills)
  PROVE  /\ seen.err \in {"", "red"} /\ seen.out \in Digests
         /\ TheRow.command = "silent" => seen.out = NoPin
         /\ TheRow.command # "silent" => seen.out \in Outputs
<1>1. PICK e \in Exits(TheRow, kills), o \in Prints(TheRow, dir) : seen = [err |-> e, out |-> o]
  BY DEF Outcomes
<1>2. e \in {"", "red"}
  BY DEF Exits
<1>3. CASE TheRow.command = "silent"
  BY <1>1, <1>2, <1>3 DEF Prints, Digests
<1>4. CASE TheRow.command # "silent"
  <2>1. o \in Outputs
    BY <1>4 DEF Prints, Outputs, Mode
  <2>2. QED  BY <1>1, <1>2, <1>4, <2>1 DEF Digests
<1>5. QED  BY <1>3, <1>4

LEMMA TroublesAreTyped ==
  ASSUME NEW seen \in Troubles
  PROVE  seen.err \in {"timeout", "absent", "refusal"} /\ seen.out = NoPin
  BY DEF Troubles

LEMMA OutcomesHereAreTyped ==
  ASSUME EvidenceTypeOK, NEW seen \in OutcomesHere
  PROVE  /\ seen.err \in {"", "red", "refusal"} /\ seen.out \in Digests
         /\ TheRow.command = "silent" => seen.out = NoPin
<1>1. CASE TheRow.command = "writer" /\ admission.sandbox
  <2>1. seen = [err |-> "refusal", out |-> NoPin]
    BY <1>1 DEF OutcomesHere
  <2>2. QED  BY <2>1 DEF Digests
<1>2. CASE ~(TheRow.command = "writer" /\ admission.sandbox)
  <2> DEFINE dir == IF TheRow.command = "writer" THEN Dirty ELSE tree
  <2>1. seen \in Outcomes(TheRow, dir, FALSE)
    BY <1>2 DEF OutcomesHere
  <2>2. dir \in Places
    BY DEF EvidenceTypeOK, Places
  <2> HIDE DEF dir
  <2>3. QED  BY <2>1, <2>2, OutcomesAreTyped
<1>3. QED  BY <1>1, <1>2

\* What a run adds to what was seen.
LEMMA SawOneMore ==
  ASSUME EvidenceTypeOK, NEW half \in Halves, NEW seen, seen.err \in Errors, seen.out \in Digests
  PROVE  LET after == Saw(half, seen)
             n == Len(admission.seen)
         IN  /\ after \in Seq(Sights) /\ Len(after) = n + 1
             /\ \A k \in 1..n : after[k] = admission.seen[k]
             /\ after[n + 1].err = seen.err
             /\ seen.out # NoPin => after[n + 1].digest = Digest(TheRow, seen.out)
<1> DEFINE sight == [half |-> half, err |-> seen.err,
                     digest |-> IF seen.out = NoPin THEN NoPin ELSE Digest(TheRow, seen.out)]
<1>1. sight \in Sights
  <2>1. seen.out \in Outputs => Digest(TheRow, seen.out) \in Outputs
    BY DEF Digest, Outputs
  <2>2. QED  BY <2>1 DEF Sights, Digests
<1>2. Saw(half, seen) = Append(admission.seen, sight)
  BY DEF Saw
<1>3. /\ sight.err = seen.err
      /\ seen.out # NoPin => sight.digest = Digest(TheRow, seen.out)
  OBVIOUS
<1> HIDE DEF sight
<1>4. admission.seen \in Seq(Sights)
  BY DEF EvidenceTypeOK
<1>5. QED  BY <1>1, <1>2, <1>3, <1>4

-----------------------------------------------------------------------------

\* A verdict, which only an observed row gets when it is "admitted", keeps all of it.
LEMMA ConcludeKeeps ==
  ASSUME EvidenceInv, NEW verdict, NEW reason, NEW digest, NEW seen,
         Conclude(verdict, reason, digest, seen), rows' = rows, tree' \in Places,
         verdict = "admitted" => Observed(TheRow, seen, digest)
  PROVE  EvidenceInv'
<1>1. /\ results' = [results EXCEPT ![Here] = [verdict |-> verdict, reason |-> reason,
                        digest |-> digest, mode |-> Mode, seen |-> seen]]
      /\ admission' = [admission EXCEPT
           !.at = IF Here = Len(rows) THEN "record" ELSE "row",
           !.row = IF Here = Len(rows) THEN @ ELSE @ + 1, !.edit = 1, !.seen = <<>>, !.copy = Dirty]
  BY DEF Conclude
<1>2. /\ DOMAIN results = DOMAIN rows /\ Here \in DOMAIN rows
      /\ DOMAIN admission = Fields /\ admission.row = Here
  BY DEF EvidenceInv, EvidenceTypeOK, Here
<1>3. /\ DOMAIN admission' = Fields
      /\ admission'.at \in {"record", "row"}
      /\ admission'.row = IF Here = Len(rows) THEN Here ELSE Here + 1
      /\ admission'.edit = 1 /\ admission'.seen = <<>> /\ admission'.copy = Dirty
  BY <1>1, <1>2 DEF Fields
<1>4. admission'.row \in DOMAIN rows
  <2>1. DOMAIN rows = 1..Len(rows) /\ Len(rows) \in Nat
    BY <1>2, RowsAreTyped DEF EvidenceInv
  <2>2. QED  BY <1>2, <1>3, <2>1
<1>5. EvidenceTypeOK'
  <2>1. DOMAIN results' = DOMAIN rows
    BY <1>1, <1>2
  <2>2. <<>> \in Seq(Sights)
    OBVIOUS
  <2>3. QED  BY <1>3, <1>4, <2>1, <2>2 DEF EvidenceInv, EvidenceTypeOK, Stages, Places
<1>6. ResultsInv'
  <2>1. ASSUME NEW i \in DOMAIN rows, results'[i].verdict = "admitted"
        PROVE  Observed(rows[i], results'[i].seen, results'[i].digest)
    <3>1. CASE i = Here
      <4>1. results'[i] = [verdict |-> verdict, reason |-> reason, digest |-> digest,
                           mode |-> Mode, seen |-> seen]
        BY <1>1, <1>2, <3>1
      <4>2. verdict = "admitted" /\ results'[i].seen = seen /\ results'[i].digest = digest
        BY <2>1, <4>1
      <4>3. QED  BY <3>1, <4>2 DEF TheRow, Here
    <3>2. CASE i # Here
      <4>1. results'[i] = results[i]
        BY <1>1, <1>2, <3>2
      <4>2. QED  BY <2>1, <4>1 DEF EvidenceInv, ResultsInv
    <3>3. QED  BY <3>1, <3>2
  <2>2. QED  BY <2>1 DEF ResultsInv, Observed, Replayed, Good
<1>7. ProgressInv'
  BY <1>3 DEF ProgressInv, Replaying
<1>8. QED  BY <1>5, <1>6, <1>7 DEF EvidenceInv

LEMMA RefuseKeeps ==
  ASSUME EvidenceInv, NEW reason, NEW seen, Refuse(reason, seen), rows' = rows, tree' \in Places
  PROVE  EvidenceInv'
  BY ConcludeKeeps DEF Refuse

\* Steps that judge nothing keep the results.
LEMMA ResultsKept == ASSUME ResultsInv, results' = results, rows' = rows PROVE ResultsInv'
  BY DEF ResultsInv, Observed, Replayed, Good

\* The end of an admission, whichever it is.
LEMMA BackToIdle ==
  ASSUME EvidenceInv, admission' = Idle, rows' = rows, tree' = tree
  PROVE  ProgressInv' /\ (DOMAIN results' = DOMAIN rows => EvidenceTypeOK')
<1>1. /\ DOMAIN Idle = Fields /\ Idle.at = "idle" /\ Idle.row = 1 /\ Idle.copy = Dirty
      /\ Idle.edit = 1 /\ Idle.seen = <<>>
  BY DEF Idle, Fields
<1>2. 1 \in DOMAIN rows
  <2>1. rows \in Seq(LedgerRows) /\ rows # <<>>
    BY EvidenceAssumption DEF EvidenceInv, EvidenceTypeOK
  <2>2. QED  BY <2>1
<1>3. <<>> \in Seq(Sights)
  OBVIOUS
<1>4. ProgressInv'
  BY <1>1 DEF ProgressInv, Replaying
<1>5. QED  BY <1>1, <1>2, <1>3, <1>4 DEF EvidenceInv, EvidenceTypeOK, Stages, Places

-----------------------------------------------------------------------------

\* A row that passes the screening has no defect at all.
LEMMA ScreenedIsSound ==
  ASSUME EvidenceTypeOK, Defects = <<>>
  PROVE  TheRow.defects = {}
<1> DEFINE broken == {k \in DOMAIN Screening : Screening[k] \in TheRow.defects}
<1>1. broken = {}
  BY DEF Defects
<1>2. TheRow.edits # <<>> => "mutation" \notin TheRow.defects
  BY <1>1 DEF Defects
<1>3. TheRow \in LedgerRows /\ ("mutation" \in TheRow.defects => TheRow.edits # <<>>)
  BY RowsAreTyped DEF TheRow, EvidenceTypeOK
<1>4. TheRow.defects \subseteq {Screening[k] : k \in DOMAIN Screening} \union {"mutation"}
  BY <1>3 DEF LedgerRows
<1>5. QED  BY <1>1, <1>2, <1>3, <1>4

\* A new stage with what has been seen so far.
LEMMA GotoMoves ==
  ASSUME EvidenceTypeOK, NEW at \in Stages, NEW seen \in Seq(Sights), Goto(at, seen),
         rows' = rows, results' = results, tree' \in Places
  PROVE  /\ EvidenceTypeOK' /\ TheRow' = TheRow
         /\ admission'.at = at /\ admission'.seen = seen /\ admission'.edit = admission.edit
<1>1. /\ admission'.at = at /\ admission'.seen = seen /\ admission'.edit = admission.edit
      /\ admission'.row = admission.row /\ admission'.copy = admission.copy
      /\ DOMAIN admission' = Fields
  BY DEF Goto, EvidenceTypeOK, Fields
<1>2. QED  BY <1>1 DEF EvidenceTypeOK, TheRow

LEMMA ScreenKeeps == ASSUME EvidenceInv, Screen PROVE EvidenceInv'
<1>1. rows' = rows /\ tree' = tree /\ tree' \in Places
  BY DEF Screen, EvidenceInv, EvidenceTypeOK
<1>2. CASE \E verdict \in {"none", "would run"} : Conclude(verdict, "", NoPin, <<>>)
  BY <1>1, <1>2, ConcludeKeeps
<1>3. CASE Refuse(Defects[1], <<>>)
  BY <1>1, <1>3, RefuseKeeps
<1>4. CASE Goto("first", <<>>) /\ Defects = <<>> /\ results' = results
  <2>1. <<>> \in Seq(Sights)
    OBVIOUS
  <2>2. /\ EvidenceTypeOK' /\ TheRow' = TheRow /\ admission'.at = "first"
        /\ admission'.seen = <<>> /\ admission'.edit = admission.edit
    BY <1>1, <1>4, <2>1, GotoMoves DEF EvidenceInv, Stages
  <2>3. admission.edit = 1 /\ TheRow.defects = {}
    BY <1>4, ScreenedIsSound DEF Screen, EvidenceInv, ProgressInv
  <2>4. ProgressInv'
    BY <2>2, <2>3 DEF ProgressInv, Replaying
  <2>5. QED  BY <1>1, <1>4, <2>2, <2>4, ResultsKept DEF EvidenceInv
<1>5. QED  BY <1>2, <1>3, <1>4 DEF Screen

\* Where the command runs in place, the tree stays one.
LEMMA RunsInPlaces == ASSUME EvidenceTypeOK, RunHere PROVE tree' \in Places
  BY DEF RunHere, EvidenceTypeOK, Places

LEMMA NoneReplayed == ASSUME NEW r, NEW seen PROVE Replayed(r, seen, 0)
<1>1. 1..0 = {}
  OBVIOUS
<1>2. QED  BY <1>1, Zenon DEF Replayed

LEMMA FirstRunKeeps == ASSUME EvidenceInv, FirstRun PROVE EvidenceInv'
<1>1. rows' = rows /\ tree' \in Places
  BY RunsInPlaces DEF FirstRun, EvidenceInv, EvidenceTypeOK
<1>2. CASE \E reason, seen : Refuse(reason, seen)
  BY <1>1, <1>2, RefuseKeeps
<1>3. ASSUME NEW seen \in OutcomesHere, Failure(seen.err) = "", seen.out # NoPin,
             Goto(IF TheRow.edits # <<>> THEN "stage" ELSE "second", Saw("first", seen)),
             results' = results
      PROVE  EvidenceInv'
  <2> DEFINE at == IF TheRow.edits # <<>> THEN "stage" ELSE "second"
             after == Saw("first", seen)
  <2>1. /\ admission.seen = <<>> /\ admission.edit = 1 /\ TheRow.defects = {}
        /\ admission.at = "first"
    BY DEF FirstRun, EvidenceInv, ProgressInv
  <2>2. /\ seen.err \in {"", "red", "refusal"} /\ seen.out \in Digests
        /\ TheRow.command # "silent"
    BY <1>3, OutcomesHereAreTyped DEF EvidenceInv
  <2>3. after \in Seq(Sights) /\ Len(after) = 1 /\ after[1].err = seen.err
    <3>1. Len(admission.seen) = 0 /\ seen.err \in Errors /\ "first" \in Halves
      BY <2>1, <2>2 DEF Errors, Halves
    <3>2. /\ after \in Seq(Sights) /\ Len(after) = Len(admission.seen) + 1
          /\ after[Len(admission.seen) + 1].err = seen.err
      BY <2>2, <3>1, SawOneMore DEF EvidenceInv
    <3>3. QED  BY <3>1, <3>2
  <2>4. at \in Stages
    BY DEF Stages
  <2>5. /\ EvidenceTypeOK' /\ TheRow' = TheRow /\ admission'.at = at
        /\ admission'.seen = after /\ admission'.edit = 1
    BY <1>1, <1>3, <2>1, <2>3, <2>4, GotoMoves DEF EvidenceInv
  <2>6. TheRow \in LedgerRows /\ TheRow.edits \in Seq(Edits)
        /\ (TheRow.expect = "fail" /\ TheRow.edits # <<>> => "expect-with-mutate" \in TheRow.defects)
    BY RowsAreTyped DEF TheRow, EvidenceInv, EvidenceTypeOK
  <2>7. seen.err = Good(TheRow)
    BY <1>3, <2>2 DEF Failure, Good
  <2>8. CASE TheRow.edits = <<>>
    BY <2>1, <2>3, <2>5, <2>7, <2>8, <1>1, <1>3, ResultsKept
       DEF EvidenceInv, ProgressInv, Replaying, Good
  <2>9. CASE TheRow.edits # <<>>
    <3>1. TheRow.expect = "pass"
      BY <2>1, <2>6, <2>9 DEF LedgerRows
    <3>2. Len(TheRow.edits) \in Nat \ {0}
      BY <2>6, <2>9
    <3>3. ProgressInv'
      <4>1. at = "stage" /\ after[1].err = ""
        BY <2>3, <2>7, <2>9, <3>1 DEF Good
      <4> HIDE DEF at, after
      <4>2. Replayed(TheRow, after, 0)
        BY NoneReplayed
      <4>3. /\ admission'.edit = 1 /\ 1 \in 1..Len(TheRow.edits)
            /\ Len(admission'.seen) = 2 * 1 - 1 /\ admission'.edit - 1 = 0
        BY <2>3, <2>5, <3>2
      <4>4. Replayed(TheRow, admission.seen, admission.edit - 1)'
        BY <2>5, <4>2, <4>3 DEF Replayed
      <4>5. QED
        BY <2>1, <2>2, <2>5, <3>1, <4>1, <4>3, <4>4 DEF ProgressInv, Replaying
    <3>4. QED  BY <1>1, <1>3, <2>5, <3>3, ResultsKept DEF EvidenceInv
  <2>10. QED  BY <2>8, <2>9
<1>4. QED  BY <1>2, <1>3, Zenon DEF FirstRun

\* The last observation admits only a row whose two digests are one.
LEMMA DecidedKeeps ==
  ASSUME EvidenceInv, NEW first, NEW again, NEW seen, Decided(first, again, seen),
         rows' = rows, tree' \in Places, again = first => Observed(TheRow, seen, first)
  PROVE  EvidenceInv'
<1>1. CASE Refuse("unstable", seen)
  BY <1>1, RefuseKeeps
<1>2. CASE \E reason : Conclude("refused", reason, first, seen)
  BY <1>2, ConcludeKeeps
<1>3. CASE again = first /\ Conclude("admitted", "", first, seen)
  BY <1>3, ConcludeKeeps
<1>4. QED  BY <1>1, <1>2, <1>3 DEF Decided

LEMMA SecondRunKeeps == ASSUME EvidenceInv, SecondRun PROVE EvidenceInv'
<1>1. rows' = rows /\ tree' \in Places
  BY RunsInPlaces DEF SecondRun, EvidenceInv, EvidenceTypeOK
<1>2. CASE \E reason, seen : Refuse(reason, seen)
  BY <1>1, <1>2, RefuseKeeps
<1>3. ASSUME NEW seen \in OutcomesHere, Failure(seen.err) = "",
             Decided(admission.seen[1].digest, Saw("second", seen)[2].digest, Saw("second", seen))
      PROVE  EvidenceInv'
  <2> DEFINE after == Saw("second", seen)
  <2>1. /\ TheRow.edits = <<>> /\ Len(admission.seen) = 1
        /\ admission.seen[1].err = Good(TheRow) /\ TheRow.defects = {}
    BY DEF SecondRun, EvidenceInv, ProgressInv
  <2>2. /\ seen.err \in {"", "red", "refusal"} /\ seen.out \in Digests
    BY <1>3, OutcomesHereAreTyped DEF EvidenceInv
  <2>3. seen.err \in Errors /\ "second" \in Halves
    BY <2>2 DEF Errors, Halves
  <2>4. /\ Len(after) = 2 /\ after[1] = admission.seen[1]
        /\ after[2].err = seen.err
    <3>1. /\ Len(after) = Len(admission.seen) + 1
          /\ \A k \in 1..Len(admission.seen) : after[k] = admission.seen[k]
          /\ after[Len(admission.seen) + 1].err = seen.err
      BY <2>2, <2>3, SawOneMore DEF EvidenceInv
    <3>2. QED  BY <2>1, <3>1
  <2>5. seen.err = Good(TheRow)
    BY <1>3, <2>2 DEF Failure, Good
  <2> HIDE DEF after
  <2>6. ASSUME after[2].digest = admission.seen[1].digest
        PROVE  Observed(TheRow, after, admission.seen[1].digest)
    <3>1. Len(TheRow.edits) = 0
      BY <2>1
    <3>2. Replayed(TheRow, after, Len(TheRow.edits))
      BY <3>1, NoneReplayed
    <3>3. QED  BY <2>1, <2>4, <2>5, <2>6, <3>2 DEF Observed
  <2>7. QED  BY <1>1, <1>3, <2>6, DecidedKeeps DEF after
<1>4. QED  BY <1>2, <1>3, Zenon DEF SecondRun

LEMMA StageKeeps == ASSUME EvidenceInv, Stage PROVE EvidenceInv'
<1>1. rows' = rows /\ tree' \in Places
  BY DEF Stage, EvidenceInv, EvidenceTypeOK
<1>2. CASE Refuse("not-replayed", admission.seen)
  BY <1>1, <1>2, RefuseKeeps
<1>3. CASE admission' = [admission EXCEPT !.at = "mutated", !.copy = tree] /\ results' = results
  <2>1. /\ admission'.at = "mutated" /\ admission'.copy = tree
        /\ admission'.row = admission.row /\ admission'.edit = admission.edit
        /\ admission'.seen = admission.seen /\ DOMAIN admission' = Fields
    BY <1>3 DEF EvidenceInv, EvidenceTypeOK, Fields
  <2>2. EvidenceTypeOK'
    BY <1>1, <1>3, <2>1 DEF EvidenceInv, EvidenceTypeOK, Stages
  <2>3. admission.at = "stage" /\ TheRow' = TheRow
    BY <1>1, <2>1 DEF Stage, TheRow
  <2>4. Replayed(TheRow, admission.seen, admission.edit - 1)
    BY <2>3 DEF EvidenceInv, ProgressInv, Replaying
  <2>5. Replayed(TheRow', admission'.seen, admission'.edit - 1)
    BY <2>1, <2>3, <2>4, Zenon
  <2>6. ProgressInv'
    BY <2>1, <2>3, <2>5 DEF EvidenceInv, ProgressInv, Replaying
  <2>7. QED  BY <1>1, <1>3, <2>2, <2>6, ResultsKept DEF EvidenceInv
<1>4. QED  BY <1>2, <1>3 DEF Stage

\* What either half of a replay may see.
LEMMA HalvesAreTyped ==
  ASSUME EvidenceTypeOK, NEW kills \in BOOLEAN,
         NEW seen \in Outcomes(TheRow, admission.copy, kills) \union Troubles
  PROVE  /\ seen.err \in Errors /\ seen.out \in Digests
         /\ seen.err = "" /\ TheRow.command # "silent" => seen.out # NoPin
<1>1. CASE seen \in Troubles
  BY <1>1, TroublesAreTyped DEF Errors, Digests
<1>2. CASE seen \in Outcomes(TheRow, admission.copy, kills)
  <2>1. admission.copy \in Places
    BY DEF EvidenceTypeOK
  <2>2. /\ seen.err \in {"", "red"} /\ seen.out \in Digests
        /\ TheRow.command # "silent" => seen.out \in Outputs
    BY <1>2, <2>1, OutcomesAreTyped
  <2>3. NoPin \notin Outputs
    BY EvidenceAssumption DEF Outputs, Places
  <2>4. QED  BY <2>2, <2>3 DEF Errors
<1>3. QED  BY <1>1, <1>2

LEMMA TheEdit ==
  ASSUME EvidenceTypeOK, admission.edit \in 1..Len(TheRow.edits)
  PROVE  /\ TheRow.edits[admission.edit] \in Edits
         /\ Len(TheRow.edits) \in Nat /\ admission.edit \in Nat
<1>1. TheRow.edits \in Seq(Edits)
  BY RowsAreTyped DEF TheRow, EvidenceTypeOK
<1>2. QED  BY <1>1

\* Where the halves of the edits before the e-th are.
LEMMA Positions ==
  ASSUME NEW e \in Nat \ {0}
  PROVE  /\ 2 * e - 1 \in Nat /\ 2 * e \in Nat /\ 1 \in 1..(2 * e - 1) /\ 1 \in 1..(2 * e)
         /\ (2 * e - 1) + 1 = 2 * e /\ 2 * e \in 1..(2 * e)
         /\ \A k \in 1..(e - 1) : /\ 2 * k \in 1..(2 * e - 1) /\ 2 * k + 1 \in 1..(2 * e - 1)
                                 /\ 2 * k \in 1..(2 * e) /\ 2 * k + 1 \in 1..(2 * e)
  OBVIOUS

LEMMA LastPosition ==
  ASSUME NEW e \in Nat, NEW n \in Nat, e \in 1..n, ~(e < n)
  PROVE  e = n /\ n # 0 /\ 2 * e + 1 = 1 + 2 * n
  OBVIOUS

LEMMA MutatedRunKeeps == ASSUME EvidenceInv, MutatedRun PROVE EvidenceInv'
<1>1. /\ rows' = rows /\ tree' = tree /\ results' = results /\ admission.at = "mutated"
  BY DEF MutatedRun
<1> DEFINE edit == TheRow.edits[admission.edit]
<1>2. /\ TheRow.command # "silent" /\ TheRow.expect = "pass" /\ TheRow.defects = {}
      /\ admission.edit \in 1..Len(TheRow.edits)
      /\ Len(admission.seen) = 2 * admission.edit - 1
      /\ admission.seen[1].err = ""
      /\ Replayed(TheRow, admission.seen, admission.edit - 1)
  BY <1>1 DEF EvidenceInv, ProgressInv, Replaying
<1>3. edit.kills \in BOOLEAN /\ admission.edit \in Nat \ {0}
  BY <1>2, TheEdit DEF EvidenceInv, EvidenceTypeOK, Edits
<1>4. PICK seen \in Outcomes(TheRow, admission.copy, edit.kills) \union Troubles :
        admission' = [admission EXCEPT !.at = "restored", !.seen = Saw("mutated", seen),
                                       !.copy = IF edit.litters THEN Dirty ELSE @]
  BY DEF MutatedRun
<1> HIDE DEF edit
<1>5. seen.err \in Errors /\ seen.out \in Digests /\ "mutated" \in Halves
  BY <1>3, HalvesAreTyped DEF EvidenceInv, Halves
<1> DEFINE after == Saw("mutated", seen)
           n == Len(admission.seen)
<1>6. /\ after \in Seq(Sights) /\ Len(after) = n + 1
      /\ \A k \in 1..n : after[k] = admission.seen[k]
  BY <1>5, SawOneMore DEF EvidenceInv
<1>7. /\ admission'.at = "restored" /\ admission'.seen = after
      /\ admission'.copy \in {Dirty, admission.copy}
      /\ admission'.row = admission.row /\ admission'.edit = admission.edit
      /\ DOMAIN admission' = Fields
  BY <1>4 DEF EvidenceInv, EvidenceTypeOK, Fields
<1> HIDE DEF after, n
<1>8. EvidenceTypeOK'
  BY <1>1, <1>6, <1>7 DEF EvidenceInv, EvidenceTypeOK, Stages, Places
<1>9. ProgressInv'
  <2>1. TheRow' = TheRow
    BY <1>1, <1>7 DEF TheRow
  <2>2. n = 2 * admission.edit - 1 /\ Len(after) = 2 * admission.edit /\ after[1].err = ""
    <3>1. n = 2 * admission.edit - 1
      BY <1>2 DEF n
    <3>2. 1 \in 1..n /\ n + 1 = 2 * admission.edit
      BY <1>3, <3>1, Positions
    <3>3. after[1] = admission.seen[1]
      BY <1>6, <3>2
    <3>4. QED  BY <1>2, <1>6, <3>1, <3>2, <3>3
  <2>3. Replayed(TheRow, after, admission.edit - 1)
    <3>1. \A k \in 1..(admission.edit - 1) : 2 * k \in 1..n /\ 2 * k + 1 \in 1..n
      BY <1>3, <2>2, Positions
    <3>2. QED  BY <1>2, <1>6, <3>1 DEF Replayed
  <2>4. Replayed(TheRow, admission.seen, admission.edit - 1)'
    BY <1>7, <2>1, <2>3 DEF Replayed
  <2>5. QED  BY <1>2, <1>7, <2>1, <2>2, <2>4 DEF ProgressInv, Replaying
<1>10. QED  BY <1>1, <1>8, <1>9, ResultsKept DEF EvidenceInv

\* An edit that is not refused was noticed exactly if it is not declared equivalent.
LEMMA SurvivorsAreTold ==
  ASSUME NEW edit \in Edits, NEW err, Survives(edit, err) = ""
  PROVE  (err = "") = edit.equivalent /\ err # "refusal"
  BY DEF Survives, Edits

LEMMA RestoredRunKeeps == ASSUME EvidenceInv, RestoredRun PROVE EvidenceInv'
<1>1. rows' = rows /\ tree' = tree /\ tree' \in Places /\ admission.at = "restored"
  BY DEF RestoredRun, EvidenceInv, EvidenceTypeOK
<1>2. CASE \E reason, seen : Refuse(reason, seen)
  BY <1>1, <1>2, RefuseKeeps
<1> DEFINE edit == TheRow.edits[admission.edit]
           e == admission.edit
           half == admission.seen[Len(admission.seen)]
           Went(seen) == /\ Survives(edit, half.err) = "" /\ seen.err = ""
                         /\ \/ /\ e < Len(TheRow.edits)
                               /\ admission' = [admission EXCEPT !.at = "stage", !.edit = @ + 1,
                                                                 !.seen = Saw("restored", seen)]
                               /\ results' = results
                            \/ /\ ~(e < Len(TheRow.edits))
                               /\ Decided(admission.seen[1].digest, Digest(TheRow, seen.out),
                                          Saw("restored", seen))
<1>3. ASSUME NEW seen \in Outcomes(TheRow, admission.copy, FALSE) \union Troubles, Went(seen)
      PROVE  EvidenceInv'
  <2> DEFINE after == Saw("restored", seen)
  <2>1. /\ TheRow.command # "silent" /\ TheRow.expect = "pass" /\ TheRow.defects = {}
        /\ e \in 1..Len(TheRow.edits) /\ Len(admission.seen) = 2 * e
        /\ admission.seen[1].err = "" /\ Replayed(TheRow, admission.seen, e - 1)
    BY <1>1 DEF EvidenceInv, ProgressInv, Replaying
  <2>2. e \in Nat \ {0} /\ edit \in Edits /\ Len(TheRow.edits) \in Nat
    BY <2>1, TheEdit DEF EvidenceInv, EvidenceTypeOK
  <2>3. /\ seen.err \in Errors /\ seen.out \in Digests /\ "restored" \in Halves
        /\ seen.err = "" /\ seen.out # NoPin
    BY <1>3, <2>1, HalvesAreTyped DEF EvidenceInv, Halves
  <2>4. /\ after \in Seq(Sights) /\ Len(after) = 2 * e + 1
        /\ \A k \in 1..(2 * e) : after[k] = admission.seen[k]
        /\ after[2 * e + 1].err = "" /\ after[2 * e + 1].digest = Digest(TheRow, seen.out)
    <3>1. /\ after \in Seq(Sights) /\ Len(after) = Len(admission.seen) + 1
          /\ \A k \in 1..Len(admission.seen) : after[k] = admission.seen[k]
          /\ after[Len(admission.seen) + 1].err = seen.err
          /\ after[Len(admission.seen) + 1].digest = Digest(TheRow, seen.out)
      BY <2>3, SawOneMore DEF EvidenceInv
    <3> HIDE DEF after
    <3>2. QED  BY <2>1, <2>3, <3>1
  <2>5. (admission.seen[2 * e].err = "") = edit.equivalent /\ admission.seen[2 * e].err # "refusal"
    BY <1>3, <2>1, <2>2, SurvivorsAreTold
  <2> HIDE DEF after
  <2>6. Replayed(TheRow, after, e)
    <3>1. ASSUME NEW k \in 1..e
          PROVE  /\ (after[2 * k].err = "") = TheRow.edits[k].equivalent
                 /\ after[2 * k].err # "refusal" /\ after[2 * k + 1].err = ""
      <4>1. CASE k = e
        <5>1. after[2 * e] = admission.seen[2 * e]
          BY <2>2, <2>4, Positions
        <5>2. QED  BY <2>4, <2>5, <4>1, <5>1
      <4>2. CASE k # e
        <5>1. k \in 1..(e - 1)
          BY <2>2, <4>2
        <5>2. after[2 * k] = admission.seen[2 * k] /\ after[2 * k + 1] = admission.seen[2 * k + 1]
          BY <2>2, <2>4, <5>1, Positions
        <5>3. QED  BY <2>1, <5>1, <5>2 DEF Replayed
      <4>3. QED  BY <4>1, <4>2
    <3>2. QED  BY <3>1 DEF Replayed
  <2>7. after[1] = admission.seen[1]
    BY <2>2, <2>4, Positions
  <2>8. CASE /\ e < Len(TheRow.edits) /\ results' = results
             /\ admission' = [admission EXCEPT !.at = "stage", !.edit = @ + 1, !.seen = after]
    <3>1. /\ admission'.at = "stage" /\ admission'.edit = e + 1 /\ admission'.seen = after
          /\ admission'.row = admission.row /\ admission'.copy = admission.copy
          /\ DOMAIN admission' = Fields
      BY <2>8 DEF EvidenceInv, EvidenceTypeOK, Fields
    <3>0. e + 1 \in Nat \ {0}
      BY <2>2
    <3>2. EvidenceTypeOK'
      <4> HIDE DEF e
      <4>1. QED
        BY <1>1, <2>4, <2>8, <3>0, <3>1 DEF EvidenceInv, EvidenceTypeOK, Stages
    <3>3. TheRow' = TheRow
      BY <1>1, <3>1 DEF TheRow
    <3>4. /\ admission'.edit \in 1..Len(TheRow.edits) /\ admission'.edit - 1 = e
          /\ 2 * admission'.edit - 1 = 2 * e + 1
      BY <2>2, <2>8, <3>1
    <3>5. Replayed(TheRow, admission.seen, admission.edit - 1)'
      BY <2>6, <3>1, <3>3, <3>4 DEF Replayed
    <3>6. ProgressInv'
      BY <2>1, <2>4, <2>7, <3>1, <3>3, <3>4, <3>5 DEF ProgressInv, Replaying
    <3>7. QED  BY <1>1, <2>8, <3>2, <3>6, ResultsKept DEF EvidenceInv
  <2>9. CASE /\ ~(e < Len(TheRow.edits))
             /\ Decided(admission.seen[1].digest, Digest(TheRow, seen.out), after)
    <3>1. e = Len(TheRow.edits) /\ TheRow.edits # <<>>
      <4> HIDE DEF e
      <4>1. e = Len(TheRow.edits) /\ Len(TheRow.edits) # 0
        BY <2>1, <2>2, <2>9, LastPosition
      <4>2. QED  BY <4>1
    <3>2. ASSUME Digest(TheRow, seen.out) = admission.seen[1].digest
          PROVE  Observed(TheRow, after, admission.seen[1].digest)
      <4>1. Len(after) = 1 + 2 * Len(TheRow.edits) /\ Good(TheRow) = ""
        <5> HIDE DEF e
        <5>1. 2 * e + 1 = 1 + 2 * Len(TheRow.edits)
          BY <2>1, <2>2, <2>9, LastPosition
        <5>2. QED  BY <2>1, <2>4, <5>1 DEF Good
      <4>2. after[Len(after)] = after[2 * e + 1]
        BY <2>4
      <4>3. QED  BY <2>1, <2>4, <2>6, <2>7, <3>1, <3>2, <4>1, <4>2 DEF Observed
    <3>3. QED  BY <1>1, <2>9, <3>2, DecidedKeeps
  <2>10. QED  BY <1>3, <2>8, <2>9 DEF after
<1>4. (\E reason, seen : Refuse(reason, seen))
        \/ \E seen \in Outcomes(TheRow, admission.copy, FALSE) \union Troubles : Went(seen)
  BY Zenon DEF RestoredRun
<1>5. QED  BY <1>2, <1>3, <1>4

-----------------------------------------------------------------------------

\* A new command has judged nothing yet.
LEMMA BeginKeeps == ASSUME EvidenceInv, BeginAdmission PROVE EvidenceInv'
<1>1. PICK execute \in BOOLEAN, sandbox \in BOOLEAN,
           only \in SUBSET {rows[i].id : i \in DOMAIN rows},
           record \in SUBSET {rows[i].id : i \in DOMAIN rows} :
        admission' = [Idle EXCEPT !.at = "row", !.execute = execute, !.sandbox = sandbox,
                                  !.only = only, !.record = record, !.read = pins]
  BY DEF BeginAdmission
<1>2. /\ admission'.at = "row" /\ admission'.row = 1 /\ admission'.copy = Dirty
      /\ admission'.edit = 1 /\ admission'.seen = <<>> /\ DOMAIN admission' = Fields
  BY <1>1 DEF Idle, Fields
<1>3. /\ rows' = rows /\ tree' = tree
      /\ results' = [i \in DOMAIN rows |-> NoResult]
  BY DEF BeginAdmission
<1>4. 1 \in DOMAIN rows
  <2>1. rows \in Seq(LedgerRows) /\ rows # <<>>
    BY EvidenceAssumption DEF EvidenceInv, EvidenceTypeOK
  <2>2. QED  BY <2>1
<1>5. <<>> \in Seq(Sights)
  OBVIOUS
<1>6. EvidenceTypeOK'
  BY <1>2, <1>3, <1>4, <1>5 DEF EvidenceInv, EvidenceTypeOK, Stages, Places
<1>7. ResultsInv'
  BY <1>3 DEF ResultsInv, NoResult
<1>8. ProgressInv'
  BY <1>2 DEF ProgressInv, Replaying
<1>9. QED  BY <1>6, <1>7, <1>8 DEF EvidenceInv

LEMMA RecordKeeps == ASSUME EvidenceInv, Record PROVE EvidenceInv'
<1>1. admission' = Idle /\ rows' = rows /\ tree' = tree /\ results' = results
  BY DEF Record
<1>2. QED  BY <1>1, BackToIdle, ResultsKept DEF EvidenceInv, EvidenceTypeOK

LEMMA InterruptKeeps == ASSUME EvidenceInv, Interrupt PROVE EvidenceInv'
<1>1. admission' = Idle /\ rows' = rows /\ tree' = tree
      /\ results' = [i \in DOMAIN rows |-> NoResult]
  BY DEF Interrupt
<1>2. ResultsInv'
  BY <1>1 DEF ResultsInv, NoResult
<1>3. QED  BY <1>1, <1>2, BackToIdle DEF EvidenceInv

\* A step that touches neither the ledger nor the command.
LEMMA UnmovedKeeps ==
  ASSUME EvidenceInv, rows' = rows, results' = results, admission' = admission, tree' \in Places
  PROVE  EvidenceInv'
<1>1. EvidenceTypeOK'
  BY DEF EvidenceInv, EvidenceTypeOK
<1>2. ResultsInv'
  BY ResultsKept DEF EvidenceInv
<1>3. TheRow' = TheRow
  BY DEF TheRow
<1>4. Replayed(TheRow, admission.seen, admission.edit - 1)'
        <=> Replayed(TheRow, admission.seen, admission.edit - 1)
  BY <1>3 DEF Replayed
<1>5. ProgressInv'
  BY <1>3, <1>4 DEF EvidenceInv, ProgressInv
<1>6. QED  BY <1>1, <1>2, <1>5 DEF EvidenceInv

LEMMA EditTreeKeeps == ASSUME EvidenceInv, EditTree PROVE EvidenceInv'
  BY UnmovedKeeps DEF EditTree, Places

LEMMA EvidenceStarts == ASSUME EvidenceInit PROVE EvidenceInv
<1>1. /\ DOMAIN Idle = Fields /\ Idle.at = "idle" /\ Idle.row = 1 /\ Idle.copy = Dirty
      /\ Idle.edit = 1 /\ Idle.seen = <<>>
  BY DEF Idle, Fields
<1>2. /\ tree \in Trees /\ rows \in Ledgers /\ admission = Idle
      /\ results = [i \in DOMAIN rows |-> NoResult]
  BY DEF EvidenceInit
<1>3. 1 \in DOMAIN rows
  <2>1. rows \in Seq(LedgerRows) /\ rows # <<>>
    BY <1>2, EvidenceAssumption
  <2>2. QED  BY <2>1
<1>4. <<>> \in Seq(Sights)
  OBVIOUS
<1>5. EvidenceTypeOK
  <2>1. DOMAIN results = DOMAIN rows
    BY <1>2
  <2>2. /\ DOMAIN admission = Fields /\ admission.at \in Stages /\ admission.row \in DOMAIN rows
        /\ admission.copy \in Places /\ admission.edit \in Nat \ {0}
        /\ admission.seen \in Seq(Sights)
    <3>1. /\ DOMAIN admission = Fields /\ admission.at = "idle" /\ admission.row = 1
          /\ admission.copy = Dirty /\ admission.edit = 1 /\ admission.seen = <<>>
      BY <1>1, <1>2
    <3>2. QED  BY <1>3, <1>4, <3>1 DEF Stages, Places
  <2>3. QED  BY <1>2, <2>1, <2>2 DEF EvidenceTypeOK, Places
<1>6. ResultsInv
  BY <1>2 DEF ResultsInv, NoResult
<1>7. ProgressInv
  BY <1>1, <1>2 DEF ProgressInv, Replaying
<1>8. QED  BY <1>5, <1>6, <1>7 DEF EvidenceInv

LEMMA EvidenceKeeps ==
  ASSUME EvidenceInv, [EvidenceNext]_EvidenceVars
  PROVE  EvidenceInv'
<1>1. CASE UNCHANGED EvidenceVars
  BY <1>1, UnmovedKeeps DEF EvidenceVars, EvidenceInv, EvidenceTypeOK
<1>2. CASE EvidenceNext
  BY <1>2, BeginKeeps, ScreenKeeps, FirstRunKeeps, SecondRunKeeps, StageKeeps, MutatedRunKeeps,
     RestoredRunKeeps, RecordKeeps, InterruptKeeps, EditTreeKeeps DEF EvidenceNext
<1>3. QED  BY <1>1, <1>2

\* For any ledger and any number of admissions, while the tree changes under
\* them: an admitted row has no defect, ran twice the way it expects with one
\* and the same output, and each of its edits was noticed, unless it is
\* declared equivalent, and undone (admitRow, replaySurvey).
THEOREM AdmissionIsEarned == EvidenceSpec => []AdmittedIsObserved
<1>1. EvidenceInit => EvidenceInv
  BY EvidenceStarts
<1>2. EvidenceInv /\ [EvidenceNext]_EvidenceVars => EvidenceInv'
  BY EvidenceKeeps
<1>3. ASSUME EvidenceInv PROVE AdmittedIsObserved
  <2>1. ASSUME NEW i \in DOMAIN rows, results[i].verdict = "admitted"
        PROVE  Observed(rows[i], results[i].seen, results[i].digest)
    BY <1>3, <2>1 DEF EvidenceInv, ResultsInv
  <2>2. ASSUME NEW i \in DOMAIN rows
        PROVE  rows[i].edits \in Seq(Edits) /\ DOMAIN rows[i].edits = 1..Len(rows[i].edits)
    <3>1. rows[i].edits \in Seq(Edits)
      BY <1>3, <2>2, RowsAreTyped DEF EvidenceInv
    <3>2. QED  BY <3>1
  <2>3. QED  BY <2>1, <2>2 DEF AdmittedIsObserved, Observed, Replayed, Good
<1>4. QED  BY <1>1, <1>2, <1>3, PTL DEF EvidenceSpec

-----------------------------------------------------------------------------
(* Pins. *)

\* What a row can print in a mode: only a moving row without Normalize shows the moving part.
Possible(row, mode) ==
  {out \in Outputs : out.mode = mode /\ (out.moving # 0 => row.command = "moving" /\ ~row.normalize)}

\* A pin is what its row printed where the history says, in the mode it is read to be of.
PinnedInv == \A j \in DOMAIN rows :
  pinnedOn[j] # NoSight /\ ~SharedId(j) =>
    /\ pins[j].digest \in Possible(rows[j], pinnedOn[j].mode)
    /\ pins[j].digest.tree = pinnedOn[j].tree
    /\ ModeOf(pins[j].mode) = pinnedOn[j].mode

\* A command compares with the pins as they are; what it admits it saw in its own mode.
ReadInv == admission.at # "idle" =>
  /\ admission.read = pins
  /\ \A i \in DOMAIN rows : results[i].verdict = "admitted" =>
       results[i].reason = "" /\ results[i].digest \in Possible(rows[i], Mode)

\* A row that runs has no pin of another mode, and its first run printed something.
HandInv == admission.at \in {"first", "second"} \union Replaying =>
  /\ ~ModeMismatch(admission.read[Here])
  /\ admission.at # "first" => admission.seen[1].digest \in Possible(TheRow, Mode)

PinsInv == PinnedInv /\ ReadInv /\ HandInv /\ PinsHold

\* What PinsHold says of one row that is told `reason` after it printed `digest` in `mode`.
Tells(i, reason, digest, mode) ==
  \/ pinnedOn[i] = NoSight \/ SharedId(i)
  \/ /\ reason = "mode-mismatch" => pinnedOn[i].mode # mode
     /\ reason = "digest-mismatch" => \/ digest.tree # pinnedOn[i].tree
                                      \/ rows[i].command = "moving" /\ ~rows[i].normalize
     /\ reason # "digest-missing"

PinReasons == {"mode-mismatch", "digest-mismatch", "digest-missing"}

\* Numbers have a least one.
LEMMA LeastOf ==
  ASSUME NEW S \in SUBSET Nat, S # {}
  PROVE  \E n \in S : \A m \in S : n <= m
<1>1. \E n \in S : \A m \in S : <<m, n>> \notin OpToRel(<, Nat)
  BY WFMin, NatLessThanWellFounded, S \subseteq Nat
<1>2. PICK n \in S : \A m \in S : <<m, n>> \notin OpToRel(<, Nat)
  BY <1>1
<1>3. \A m \in S : ~(m < n)
  BY <1>2, S \subseteq Nat DEF OpToRel
<1>4. QED  BY <1>3, S \subseteq Nat

LEMMA OtherReasonsTell ==
  ASSUME NEW i, NEW reason, NEW digest, NEW mode, reason \notin PinReasons
  PROVE  Tells(i, reason, digest, mode)
  BY DEF Tells, PinReasons

\* What a run prints that prints anything.
LEMMA PrintsArePossible ==
  ASSUME EvidenceTypeOK, NEW dir \in Places, NEW kills \in BOOLEAN,
         NEW seen \in Outcomes(TheRow, dir, kills), seen.out # NoPin
  PROVE  Digest(TheRow, seen.out) \in Possible(TheRow, Mode)
<1>1. PICK e \in Exits(TheRow, kills), o \in Prints(TheRow, dir) : seen = [err |-> e, out |-> o]
  BY DEF Outcomes
<1>2. seen.out = o /\ TheRow.command # "silent"
  BY <1>1 DEF Prints
<1>3. PICK k \in {0, 1} : /\ o = [tree |-> dir, mode |-> Mode, moving |-> k]
                          /\ k # 0 => TheRow.command = "moving"
  BY <1>2 DEF Prints
<1>4. TheRow.normalize \in BOOLEAN /\ Mode \in {"host", "sandbox"}
  BY RowsAreTyped DEF TheRow, EvidenceTypeOK, LedgerRows, Mode
<1>5. CASE TheRow.normalize
  <2>1. Digest(TheRow, o) = [tree |-> dir, mode |-> Mode, moving |-> 0]
    BY <1>3, <1>5 DEF Digest
  <2>2. QED  BY <1>2, <1>4, <2>1 DEF Possible, Outputs
<1>6. CASE ~TheRow.normalize
  <2>1. Digest(TheRow, o) = o
    BY <1>6 DEF Digest
  <2>2. QED  BY <1>2, <1>3, <1>4, <1>6, <2>1 DEF Possible, Outputs
<1>7. QED  BY <1>4, <1>5, <1>6

LEMMA PrintsHereArePossible ==
  ASSUME EvidenceTypeOK, NEW seen \in OutcomesHere, seen.out # NoPin
  PROVE  Digest(TheRow, seen.out) \in Possible(TheRow, Mode)
<1> DEFINE dir == IF TheRow.command = "writer" THEN Dirty ELSE tree
<1>1. seen \in Outcomes(TheRow, dir, FALSE)
  <2>1. seen # [err |-> "refusal", out |-> NoPin]
    OBVIOUS
  <2>2. QED  BY <2>1 DEF OutcomesHere
<1>2. dir \in Places
  BY DEF EvidenceTypeOK, Places
<1> HIDE DEF dir
<1>3. QED  BY <1>1, <1>2, PrintsArePossible

-----------------------------------------------------------------------------

\* Everything the pins depend on but the command itself.
LedgerKept == UNCHANGED <<rows, hasMode, pins, pinnedOn>>

LEMMA PinnedKept == ASSUME PinnedInv, LedgerKept PROVE PinnedInv'
  BY DEF LedgerKept, PinnedInv, SharedId, Possible

LEMMA HeldKept == ASSUME PinsHold, LedgerKept, results' = results PROVE PinsHold'
  BY DEF LedgerKept, PinsHold, SharedId

\* A verdict tells of the pin what is so.
LEMMA ConcludeTells ==
  ASSUME EvidenceInv, PinsInv, LedgerKept, admission.at # "idle",
         NEW verdict, NEW reason, NEW digest, NEW seen, Conclude(verdict, reason, digest, seen),
         verdict = "admitted" => reason = "" /\ digest \in Possible(TheRow, Mode),
         Tells(Here, reason, digest, Mode)
  PROVE  PinsInv'
<1> DEFINE result == [verdict |-> verdict, reason |-> reason, digest |-> digest, mode |-> Mode,
                      seen |-> seen]
<1>1. DOMAIN results = DOMAIN rows /\ Here \in DOMAIN rows /\ DOMAIN admission = Fields
  BY DEF EvidenceInv, EvidenceTypeOK, Here
<1>2. /\ results' = [results EXCEPT ![Here] = result]
      /\ admission'.at \in {"record", "row"} /\ admission'.read = admission.read
      /\ admission'.sandbox = admission.sandbox
  BY <1>1 DEF Conclude, Fields
<1>3. result.verdict = verdict /\ result.reason = reason /\ result.digest = digest
      /\ result.mode = Mode
  OBVIOUS
<1> HIDE DEF result
<1>4. \A i \in DOMAIN rows : results'[i] = IF i = Here THEN result ELSE results[i]
  BY <1>1, <1>2
<1>5. Mode' = Mode /\ rows' = rows /\ pins' = pins /\ pinnedOn' = pinnedOn
  BY <1>2 DEF Mode, LedgerKept
<1>6. PinnedInv'
  BY PinnedKept DEF PinsInv
<1>7. ReadInv'
  <2>1. admission.read = pins
    BY DEF PinsInv, ReadInv
  <2>2. ASSUME NEW i \in DOMAIN rows, results'[i].verdict = "admitted"
        PROVE  results'[i].reason = "" /\ results'[i].digest \in Possible(rows[i], Mode)
    <3>1. CASE i = Here
      BY <1>3, <1>4, <2>2, <3>1 DEF TheRow, Here
    <3>2. CASE i # Here
      BY <1>4, <2>2, <3>2 DEF PinsInv, ReadInv
    <3>3. QED  BY <3>1, <3>2
  <2>3. QED  BY <1>2, <1>5, <2>1, <2>2 DEF ReadInv, Possible
<1>8. HandInv'
  BY <1>2 DEF HandInv, Replaying
<1>9. PinsHold'
  <2>1. ASSUME NEW i \in DOMAIN rows
        PROVE  Tells(i, results'[i].reason, results'[i].digest, results'[i].mode)
    <3>1. CASE i = Here
      BY <1>3, <1>4, <3>1
    <3>2. CASE i # Here
      BY <1>4, <3>2 DEF PinsInv, PinsHold, Tells
    <3>3. QED  BY <3>1, <3>2
  <2>2. QED  BY <1>5, <2>1 DEF PinsHold, Tells, SharedId
<1>10. QED  BY <1>6, <1>7, <1>8, <1>9 DEF PinsInv

LEMMA RefuseTells ==
  ASSUME EvidenceInv, PinsInv, LedgerKept, admission.at # "idle",
         NEW reason, NEW seen, Refuse(reason, seen), reason \notin PinReasons
  PROVE  PinsInv'
  BY ConcludeTells, OtherReasonsTell DEF Refuse

\* A step within a row.
LEMMA MoveTells ==
  ASSUME PinsInv, LedgerKept, results' = results, admission.at # "idle",
         admission'.read = admission.read, admission'.sandbox = admission.sandbox, HandInv'
  PROVE  PinsInv'
<1>1. Mode' = Mode
  BY DEF Mode
<1>2. ReadInv'
  BY <1>1 DEF PinsInv, ReadInv, LedgerKept, Possible
<1>3. QED  BY <1>2, PinnedKept, HeldKept DEF PinsInv

\* What stays the same while a row is at hand.
LEMMA HandStays ==
  ASSUME LedgerKept, admission'.read = admission.read, admission'.sandbox = admission.sandbox,
         admission'.record = admission.record, admission'.row = admission.row
  PROVE  /\ TheRow' = TheRow /\ Mode' = Mode
         /\ ModeMismatch(admission.read[Here])' <=> ModeMismatch(admission.read[Here])
  BY DEF LedgerKept, TheRow, Mode, Here, ModeMismatch, Recording

\* The pin of the row at hand, when it matters.
LEMMA ThePin ==
  ASSUME EvidenceInv, PinsInv, admission.at # "idle", pinnedOn[Here] # NoSight, ~SharedId(Here)
  PROVE  /\ admission.read[Here].digest \in Possible(TheRow, pinnedOn[Here].mode)
         /\ admission.read[Here].digest # NoPin
         /\ admission.read[Here].digest.tree = pinnedOn[Here].tree
         /\ ModeOf(admission.read[Here].mode) = pinnedOn[Here].mode
<1>1. Here \in DOMAIN rows /\ admission.read = pins
  BY DEF EvidenceInv, EvidenceTypeOK, Here, PinsInv, ReadInv
<1>2. NoPin \notin Outputs
  BY EvidenceAssumption DEF Outputs, Places
<1>3. QED  BY <1>1, <1>2 DEF PinsInv, PinnedInv, Possible, TheRow, Here

LEMMA DecidedTells ==
  ASSUME EvidenceInv, PinsInv, LedgerKept, NEW again, NEW seen,
         admission.at \in {"second"} \union Replaying,
         Decided(admission.seen[1].digest, again, seen)
  PROVE  PinsInv'
<1> DEFINE first == admission.seen[1].digest
           pin == admission.read[Here]
<1>1. /\ admission.at # "idle" /\ ~ModeMismatch(pin) /\ first \in Possible(TheRow, Mode)
  BY DEF PinsInv, HandInv, Replaying
<1>2. CASE Refuse("unstable", seen)
  BY <1>1, <1>2, RefuseTells DEF PinReasons
<1>3. CASE Conclude("admitted", "", first, seen)
  <2>1. Tells(Here, "", first, Mode)
    BY OtherReasonsTell DEF PinReasons
  <2>2. QED  BY <1>1, <1>3, <2>1, ConcludeTells
<1>4. CASE pin.digest = NoPin /\ Conclude("refused", "digest-missing", first, seen)
  <2>1. Tells(Here, "digest-missing", first, Mode)
    BY <1>1, <1>4, ThePin DEF Tells
  <2>2. QED  BY <1>1, <1>4, <2>1, ConcludeTells
<1>5. CASE /\ ~Recording /\ pin.digest # NoPin /\ pin.digest # first
           /\ Conclude("refused", "digest-mismatch", first, seen)
  <2>1. ASSUME pinnedOn[Here] # NoSight, ~SharedId(Here), first.tree = pinnedOn[Here].tree
        PROVE  TheRow.command = "moving" /\ ~TheRow.normalize
    <3>1. /\ pin.digest \in Possible(TheRow, pinnedOn[Here].mode)
          /\ pin.digest.tree = pinnedOn[Here].tree
          /\ ModeOf(pin.mode) = pinnedOn[Here].mode
      BY <1>1, <2>1, ThePin
    <3>2. ModeOf(pin.mode) = Mode
      BY <1>1, <1>5 DEF ModeMismatch
    <3> HIDE DEF first, pin
    <3>3. first \in Outputs /\ pin.digest \in Outputs /\ first.mode = pin.digest.mode
          /\ first.tree = pin.digest.tree
      BY <1>1, <2>1, <3>1, <3>2 DEF Possible
    <3>4. first.moving # pin.digest.moving
      BY <1>5, <3>3 DEF Outputs
    <3>5. first.moving # 0 \/ pin.digest.moving # 0
      BY <3>4
    <3>6. QED  BY <1>1, <3>1, <3>5 DEF Possible
  <2>2. Tells(Here, "digest-mismatch", first, Mode)
    BY <2>1 DEF Tells, TheRow, Here
  <2>3. QED  BY <1>1, <1>5, <2>2, ConcludeTells
<1>6. QED  BY <1>2, <1>3, <1>4, <1>5 DEF Decided

-----------------------------------------------------------------------------

LEMMA ScreenTells == ASSUME EvidenceInv, PinsInv, Screen PROVE PinsInv'
<1>1. LedgerKept /\ admission.at = "row"
  BY DEF Screen, LedgerKept
<1>2. CASE \E verdict \in {"none", "would run"} : Conclude(verdict, "", NoPin, <<>>)
  <2>1. "" \notin PinReasons
    BY DEF PinReasons
  <2>2. Tells(Here, "", NoPin, Mode)
    BY <2>1, OtherReasonsTell
  <2>3. PICK verdict \in {"none", "would run"} : Conclude(verdict, "", NoPin, <<>>)
    BY <1>2
  <2>4. verdict # "admitted" /\ admission.at # "idle"
    BY <1>1
  <2>5. QED  BY <1>1, <2>2, <2>3, <2>4, ConcludeTells
<1>3. CASE Refuse(Defects[1], <<>>) /\ Defects # <<>>
  <2>1. CASE Defects[1] = "mode-mismatch" /\ ModeMismatch(admission.read[Here])
    <3>1. ASSUME pinnedOn[Here] # NoSight, ~SharedId(Here) PROVE pinnedOn[Here].mode # Mode
      BY <1>1, <2>1, <3>1, ThePin DEF ModeMismatch
    <3>2. Tells(Here, Defects[1], NoPin, Mode)
      BY <2>1, <3>1 DEF Tells
    <3>3. QED  BY <1>1, <1>3, <3>2, ConcludeTells DEF Refuse
  <2>2. CASE Defects[1] \notin PinReasons
    BY <1>1, <1>3, <2>2, RefuseTells
  <2>3. \/ Defects[1] = "mode-mismatch" /\ ModeMismatch(admission.read[Here])
        \/ Defects[1] \notin PinReasons
    <3> DEFINE broken == {k \in DOMAIN Screening : Screening[k] \in TheRow.defects}
               first == CHOOSE k \in broken : \A j \in broken : k <= j
    <3>1. CASE broken # {}
      <4>1. Defects = <<Screening[first]>>
        BY <3>1 DEF Defects
      <4>2. \E k \in broken : \A j \in broken : k <= j
        <5>1. broken \in SUBSET Nat
          BY DEF Screening
        <5>2. QED  BY <3>1, <5>1, LeastOf
      <4>3. first \in DOMAIN Screening
        BY <4>2
      <4>4. \A k \in DOMAIN Screening : Screening[k] \notin PinReasons
        BY DEF Screening, PinReasons
      <4> HIDE DEF first
      <4>5. QED  BY <4>1, <4>3, <4>4
    <3>2. CASE broken = {}
      BY <1>3, <3>2 DEF Defects, PinReasons
    <3>3. QED  BY <3>1, <3>2
  <2>4. QED  BY <2>1, <2>2, <2>3
<1>4. CASE Goto("first", <<>>) /\ Defects = <<>> /\ results' = results
  <2>1. /\ admission'.at = "first" /\ admission'.read = admission.read
        /\ admission'.sandbox = admission.sandbox /\ admission'.record = admission.record
        /\ admission'.row = admission.row
    BY <1>4 DEF Goto, EvidenceInv, EvidenceTypeOK, Fields
  <2>2. ~ModeMismatch(admission.read[Here])
    BY <1>4 DEF Defects
  <2>3. HandInv'
    BY <1>1, <2>1, <2>2, HandStays DEF HandInv
  <2>4. QED  BY <1>1, <1>4, <2>1, <2>3, MoveTells
<1>5. QED  BY <1>2, <1>3, <1>4 DEF Screen

\* What a run is refused for is not about the pin.
LEMMA FailuresAreNotOfPins ==
  ASSUME NEW err \in Errors
  PROVE  Failure(err) \notin PinReasons
  BY DEF Failure, Errors, PinReasons

LEMMA FirstRunTells == ASSUME EvidenceInv, PinsInv, FirstRun PROVE PinsInv'
<1>1. LedgerKept /\ admission.at = "first"
  BY DEF FirstRun, LedgerKept
<1>2. CASE \E seen \in Troubles : Refuse(Failure(seen.err), Saw("first", seen))
  <2>1. \A seen \in Troubles : Failure(seen.err) \notin PinReasons
    BY TroublesAreTyped, FailuresAreNotOfPins DEF Errors
  <2>2. QED  BY <1>1, <1>2, <2>1, RefuseTells
<1>3. ASSUME NEW seen \in OutcomesHere
      PROVE  Failure(seen.err) \notin PinReasons /\ seen.err \in Errors /\ seen.out \in Digests
  <2>1. seen.err \in Errors /\ seen.out \in Digests
    BY OutcomesHereAreTyped DEF Errors, EvidenceInv
  <2>2. QED  BY <2>1, FailuresAreNotOfPins
<1>4. ASSUME NEW seen \in OutcomesHere, Refuse(Failure(seen.err), Saw("first", seen))
      PROVE  PinsInv'
  BY <1>1, <1>3, <1>4, RefuseTells
<1>5. ASSUME NEW seen \in OutcomesHere, Refuse("empty-output", Saw("first", seen))
      PROVE  PinsInv'
  BY <1>1, <1>5, RefuseTells DEF PinReasons
<1>6. ASSUME NEW seen \in OutcomesHere, seen.out # NoPin, results' = results,
             Goto(IF TheRow.edits # <<>> THEN "stage" ELSE "second", Saw("first", seen))
      PROVE  PinsInv'
  <2> DEFINE after == Saw("first", seen)
  <2>1. /\ admission'.at \in {"stage", "second"} /\ admission'.read = admission.read
        /\ admission'.sandbox = admission.sandbox /\ admission'.record = admission.record
        /\ admission'.row = admission.row /\ admission'.seen = after
    BY <1>6 DEF Goto, EvidenceInv, EvidenceTypeOK, Fields
  <2>2. after[1].digest \in Possible(TheRow, Mode)
    <3>1. Len(admission.seen) = 0 /\ "first" \in Halves
      BY <1>1 DEF EvidenceInv, ProgressInv, Halves
    <3>2. after[Len(admission.seen) + 1].digest = Digest(TheRow, seen.out)
      BY <1>3, <1>6, <3>1, SawOneMore DEF EvidenceInv
    <3>3. Digest(TheRow, seen.out) \in Possible(TheRow, Mode)
      BY <1>6, PrintsHereArePossible DEF EvidenceInv
    <3> HIDE DEF after
    <3>4. QED  BY <3>1, <3>2, <3>3
  <2> HIDE DEF after
  <2>3. ~ModeMismatch(admission.read[Here])
    BY <1>1 DEF PinsInv, HandInv
  <2>4. Possible(TheRow, Mode)' = Possible(TheRow, Mode)
    BY <1>1, <2>1, HandStays DEF Possible
  <2>5. HandInv'
    BY <1>1, <2>1, <2>2, <2>3, <2>4, HandStays DEF HandInv
  <2>6. QED  BY <1>1, <1>6, <2>1, <2>5, MoveTells
<1>7. QED  BY <1>2, <1>4, <1>5, <1>6 DEF FirstRun

LEMMA SecondRunTells == ASSUME EvidenceInv, PinsInv, SecondRun PROVE PinsInv'
<1>1. LedgerKept /\ admission.at = "second"
  BY DEF SecondRun, LedgerKept
<1>2. CASE \E seen \in Troubles : Refuse(Failure(seen.err), Saw("second", seen))
  <2>1. \A seen \in Troubles : Failure(seen.err) \notin PinReasons
    BY TroublesAreTyped, FailuresAreNotOfPins DEF Errors
  <2>2. QED  BY <1>1, <1>2, <2>1, RefuseTells
<1>3. CASE \E seen \in OutcomesHere : Refuse(Failure(seen.err), Saw("second", seen))
  <2>1. \A seen \in OutcomesHere : Failure(seen.err) \notin PinReasons
    BY OutcomesHereAreTyped, FailuresAreNotOfPins DEF Errors, EvidenceInv
  <2>2. QED  BY <1>1, <1>3, <2>1, RefuseTells
<1>4. CASE \E again, seen : Decided(admission.seen[1].digest, again, seen)
  BY <1>1, <1>4, DecidedTells
<1>5. QED  BY <1>2, <1>3, <1>4, Zenon DEF SecondRun

LEMMA StageTells == ASSUME EvidenceInv, PinsInv, Stage PROVE PinsInv'
<1>1. LedgerKept /\ admission.at = "stage"
  BY DEF Stage, LedgerKept
<1>2. CASE Refuse("not-replayed", admission.seen)
  BY <1>1, <1>2, RefuseTells DEF PinReasons
<1>3. CASE admission' = [admission EXCEPT !.at = "mutated", !.copy = tree] /\ results' = results
  <2>1. /\ admission'.at = "mutated" /\ admission'.read = admission.read
        /\ admission'.sandbox = admission.sandbox /\ admission'.record = admission.record
        /\ admission'.row = admission.row /\ admission'.seen = admission.seen
    BY <1>3 DEF EvidenceInv, EvidenceTypeOK, Fields
  <2>2. Possible(TheRow, Mode)' = Possible(TheRow, Mode)
    BY <1>1, <2>1, HandStays DEF Possible
  <2>3. HandInv'
    BY <1>1, <2>1, <2>2, HandStays DEF PinsInv, HandInv, Replaying
  <2>4. QED  BY <1>1, <1>3, <2>1, <2>3, MoveTells
<1>4. QED  BY <1>2, <1>3 DEF Stage

\* A further run leaves what was seen first.
LEMMA FirstSightStays ==
  ASSUME EvidenceInv, NEW half \in Halves, NEW seen, seen.err \in Errors, seen.out \in Digests,
         admission.at \in Replaying
  PROVE  Saw(half, seen)[1] = admission.seen[1]
<1>1. Len(admission.seen) \in Nat /\ 1 \in 1..Len(admission.seen)
  <2>1. admission.edit \in Nat \ {0}
    BY DEF EvidenceInv, EvidenceTypeOK
  <2>2. Len(admission.seen) \in {2 * admission.edit, 2 * admission.edit - 1}
    BY DEF EvidenceInv, ProgressInv
  <2>3. QED  BY <2>1, <2>2, Positions
<1>2. QED  BY <1>1, SawOneMore DEF EvidenceInv

LEMMA MutatedRunTells == ASSUME EvidenceInv, PinsInv, MutatedRun PROVE PinsInv'
<1>1. LedgerKept /\ admission.at = "mutated" /\ results' = results
  BY DEF MutatedRun, LedgerKept
<1> DEFINE edit == TheRow.edits[admission.edit]
<1>2. edit.kills \in BOOLEAN
  BY <1>1, TheEdit DEF EvidenceInv, ProgressInv, Replaying, Edits
<1>3. PICK seen \in Outcomes(TheRow, admission.copy, edit.kills) \union Troubles :
        admission' = [admission EXCEPT !.at = "restored", !.seen = Saw("mutated", seen),
                                       !.copy = IF edit.litters THEN Dirty ELSE @]
  BY DEF MutatedRun
<1> HIDE DEF edit
<1>4. Saw("mutated", seen)[1] = admission.seen[1]
  BY <1>1, <1>2, HalvesAreTyped, FirstSightStays DEF EvidenceInv, Halves, Replaying
<1>5. /\ admission'.at = "restored" /\ admission'.read = admission.read
      /\ admission'.sandbox = admission.sandbox /\ admission'.record = admission.record
      /\ admission'.row = admission.row /\ admission'.seen[1] = admission.seen[1]
  BY <1>3, <1>4 DEF EvidenceInv, EvidenceTypeOK, Fields
<1>6. Possible(TheRow, Mode)' = Possible(TheRow, Mode)
  BY <1>1, <1>5, HandStays DEF Possible
<1>7. HandInv'
  BY <1>1, <1>5, <1>6, HandStays DEF PinsInv, HandInv, Replaying
<1>8. QED  BY <1>1, <1>5, <1>7, MoveTells

LEMMA RestoredRunTells == ASSUME EvidenceInv, PinsInv, RestoredRun PROVE PinsInv'
<1>1. LedgerKept /\ admission.at = "restored"
  BY DEF RestoredRun, LedgerKept
<1>2. CASE \E reason, seen : reason \notin PinReasons /\ Refuse(reason, seen)
  BY <1>1, <1>2, RefuseTells
<1>3. CASE \E again, seen : Decided(admission.seen[1].digest, again, seen)
  BY <1>1, <1>3, DecidedTells DEF Replaying
<1>4. ASSUME NEW seen \in Outcomes(TheRow, admission.copy, FALSE) \union Troubles,
             admission' = [admission EXCEPT !.at = "stage", !.edit = @ + 1,
                                            !.seen = Saw("restored", seen)],
             results' = results
      PROVE  PinsInv'
  <2>1. Saw("restored", seen)[1] = admission.seen[1]
    BY <1>1, HalvesAreTyped, FirstSightStays DEF EvidenceInv, Halves, Replaying
  <2>2. /\ admission'.at = "stage" /\ admission'.read = admission.read
        /\ admission'.sandbox = admission.sandbox /\ admission'.record = admission.record
        /\ admission'.row = admission.row /\ admission'.seen[1] = admission.seen[1]
    BY <1>4, <2>1 DEF EvidenceInv, EvidenceTypeOK, Fields
  <2>3. Possible(TheRow, Mode)' = Possible(TheRow, Mode)
    BY <1>1, <2>2, HandStays DEF Possible
  <2>4. HandInv'
    BY <1>1, <2>2, <2>3, HandStays DEF PinsInv, HandInv, Replaying
  <2>5. QED  BY <1>1, <1>4, <2>2, <2>4, MoveTells
<1>5. \A edit, err : Survives(edit, err) \notin PinReasons
  BY DEF Survives, PinReasons
<1>6. "not-replayed" \notin PinReasons /\ "refusal" \notin PinReasons /\ "not-green" \notin PinReasons
  BY DEF PinReasons
<1> DEFINE breach == Survives(TheRow.edits[admission.edit],
                              admission.seen[Len(admission.seen)].err)
<1>7. breach \notin PinReasons
  BY <1>5
<1>8. \/ Refuse("not-replayed", admission.seen)
      \/ \E seen \in Outcomes(TheRow, admission.copy, FALSE) \union Troubles :
           \/ Refuse(breach, Saw("restored", seen))
           \/ \E reason \in {"refusal", "not-green"} : Refuse(reason, Saw("restored", seen))
           \/ /\ admission' = [admission EXCEPT !.at = "stage", !.edit = @ + 1,
                                                !.seen = Saw("restored", seen)]
              /\ results' = results
           \/ Decided(admission.seen[1].digest, Digest(TheRow, seen.out), Saw("restored", seen))
  BY DEF RestoredRun
<1> HIDE DEF breach
<1>9. QED  BY <1>2, <1>3, <1>4, <1>6, <1>7, <1>8

-----------------------------------------------------------------------------

\* Without results and at rest nothing is told.
LEMMA NothingTold ==
  ASSUME PinnedInv, LedgerKept, results' = [i \in DOMAIN rows |-> NoResult],
         admission'.at \in {"idle", "row"}, admission'.at # "idle" => admission'.read = pins
  PROVE  PinsInv'
<1>1. rows' = rows /\ pins' = pins
  BY DEF LedgerKept
<1>2. \A i \in DOMAIN rows : results'[i].verdict = "none" /\ results'[i].reason = ""
  BY DEF NoResult
<1>3. ReadInv'
  BY <1>1, <1>2 DEF ReadInv
<1>4. HandInv'
  BY DEF HandInv, Replaying
<1>5. PinsHold'
  BY <1>1, <1>2 DEF PinsHold
<1>6. QED  BY <1>3, <1>4, <1>5, PinnedKept DEF PinsInv

LEMMA BeginTells == ASSUME EvidenceInv, PinsInv, BeginAdmission PROVE PinsInv'
<1>1. PICK execute \in BOOLEAN, sandbox \in BOOLEAN,
           only \in SUBSET {rows[i].id : i \in DOMAIN rows},
           record \in SUBSET {rows[i].id : i \in DOMAIN rows} :
        admission' = [Idle EXCEPT !.at = "row", !.execute = execute, !.sandbox = sandbox,
                                  !.only = only, !.record = record, !.read = pins]
  BY DEF BeginAdmission
<1>2. admission'.at = "row" /\ admission'.read = pins
  BY <1>1 DEF Idle
<1>3. LedgerKept /\ results' = [i \in DOMAIN rows |-> NoResult]
  BY DEF BeginAdmission, LedgerKept
<1>4. QED  BY <1>2, <1>3, NothingTold DEF PinsInv

LEMMA InterruptTells == ASSUME EvidenceInv, PinsInv, Interrupt PROVE PinsInv'
<1>1. admission'.at = "idle"
  BY DEF Interrupt, Idle
<1>2. LedgerKept /\ results' = [i \in DOMAIN rows |-> NoResult]
  BY DEF Interrupt, LedgerKept
<1>3. QED  BY <1>1, <1>2, NothingTold DEF PinsInv

LEMMA EditTreeTells == ASSUME EvidenceInv, PinsInv, EditTree PROVE PinsInv'
<1>1. LedgerKept /\ results' = results /\ admission' = admission
  BY DEF EditTree, LedgerKept
<1>2. QED
  BY <1>1, PinnedKept, HeldKept
     DEF LedgerKept, PinsInv, ReadInv, HandInv, Possible, Mode, ModeMismatch, Recording, TheRow, Here

\* A row whose id is its own is the one its pin is written for.
LEMMA TargetIsOwn ==
  ASSUME EvidenceInv, NEW j \in DOMAIN rows, ~SharedId(j), NEW i \in DOMAIN rows
  PROVE  Target(i) = j <=> i = j
<1> DEFINE S == {k \in DOMAIN rows : rows[k].id = rows[i].id}
<1>1. S \in SUBSET Nat /\ i \in S
  <2>1. DOMAIN rows = 1..Len(rows)
    BY RowsAreTyped DEF EvidenceInv
  <2>2. DOMAIN rows \subseteq Nat
    BY <2>1
  <2>3. QED  BY <2>2
<1>2. \E k \in S : \A m \in S : k <= m
  BY <1>1, LeastOf
<1>3. \E k \in DOMAIN rows : /\ rows[k].id = rows[i].id
                             /\ \A m \in DOMAIN rows : rows[m].id = rows[i].id => k <= m
  BY <1>2
<1>4. Target(i) \in DOMAIN rows /\ rows[Target(i)].id = rows[i].id
  BY <1>3 DEF Target
<1>5. QED  BY <1>4 DEF SharedId

LEMMA RecordTells == ASSUME EvidenceInv, PinsInv, Record PROVE PinsInv'
<1>1. /\ admission'.at = "idle" /\ admission.at = "record"
      /\ rows' = rows /\ hasMode' = hasMode /\ results' = results
  BY DEF Record, Idle
<1>2. ReadInv' /\ HandInv'
  BY <1>1 DEF ReadInv, HandInv, Replaying
<1>3. CASE UNCHANGED <<pins, pinnedOn>>
  BY <1>1, <1>2, <1>3, PinnedKept, HeldKept DEF PinsInv, LedgerKept
<1> DEFINE taken == {i \in DOMAIN rows : results[i].verdict = "admitted" /\ rows[i].id \in admission.record}
           last(j) == CHOOSE i \in taken : Target(i) = j /\ \A k \in taken : Target(k) = j => k <= i
           written == {Target(i) : i \in taken}
<1>4. CASE /\ hasMode \/ ~admission.sandbox
           /\ pins' = [j \in DOMAIN rows |-> IF j \in written THEN Pin(last(j)) ELSE pins[j]]
           /\ pinnedOn' = [j \in DOMAIN rows |->
                IF j \in written THEN [tree |-> results[last(j)].digest.tree, mode |-> Mode]
                ELSE pinnedOn[j]]
  <2>1. ASSUME NEW j \in DOMAIN rows, ~SharedId(j)
        PROVE  \/ /\ results[j].reason = "" /\ results[j].digest \in Possible(rows[j], Mode)
                  /\ pins'[j] = Pin(j)
                  /\ pinnedOn'[j] = [tree |-> results[j].digest.tree, mode |-> Mode]
               \/ pins'[j] = pins[j] /\ pinnedOn'[j] = pinnedOn[j]
    <3>1. CASE j \in written
      <4>1. PICK i \in taken : Target(i) = j
        BY <3>1
      <4>2. j \in taken /\ Target(j) = j
        BY <2>1, <4>1, TargetIsOwn
      <4>3. \A k \in taken : Target(k) = j => k = j
        BY <2>1, TargetIsOwn
      <4>4. j <= j
        <5>1. DOMAIN rows = 1..Len(rows)
          BY RowsAreTyped DEF EvidenceInv
        <5>2. j \in Nat
          BY <5>1
        <5>3. QED  BY <5>2
      <4>5. Target(last(j)) = j /\ last(j) \in taken
        <5>1. \E k \in taken : Target(k) = j /\ \A m \in taken : Target(m) = j => m <= k
          BY <4>2, <4>3, <4>4
        <5> HIDE DEF taken
        <5>2. QED  BY <5>1
      <4>6. last(j) = j
        BY <4>3, <4>5
      <4>7. /\ pins'[j] = Pin(j)
            /\ pinnedOn'[j] = [tree |-> results[j].digest.tree, mode |-> Mode]
        <5> HIDE DEF last, written
        <5>1. QED  BY <1>4, <3>1, <4>6
      <4>8. results[j].reason = "" /\ results[j].digest \in Possible(rows[j], Mode)
        BY <1>1, <4>2 DEF PinsInv, ReadInv
      <4>9. QED  BY <4>7, <4>8
    <3>2. CASE j \notin written
      <4> HIDE DEF last, written
      <4>1. QED  BY <1>4, <3>2
    <3>3. QED  BY <3>1, <3>2
  <2> HIDE DEF taken, last, written
  <2> DEFINE cell == IF hasMode THEN Mode ELSE ""
  <2>0. \A j : Pin(j) = [digest |-> results[j].digest, mode |-> cell]
    BY DEF Pin
  <2>2. ModeOf(cell) = Mode
    BY <1>4 DEF ModeOf, Mode
  <2> HIDE DEF cell
  <2>3. PinnedInv'
    <3>1. ASSUME NEW j \in DOMAIN rows, pinnedOn'[j] # NoSight, ~SharedId(j)
          PROVE  /\ pins'[j].digest \in Possible(rows[j], pinnedOn'[j].mode)
                 /\ pins'[j].digest.tree = pinnedOn'[j].tree
                 /\ ModeOf(pins'[j].mode) = pinnedOn'[j].mode
      <4>1. CASE pins'[j] = pins[j] /\ pinnedOn'[j] = pinnedOn[j]
        BY <3>1, <4>1 DEF PinsInv, PinnedInv
      <4>2. CASE /\ results[j].digest \in Possible(rows[j], Mode)
                 /\ pins'[j] = Pin(j)
                 /\ pinnedOn'[j] = [tree |-> results[j].digest.tree, mode |-> Mode]
        <5>1. pins'[j].digest = results[j].digest /\ pins'[j].mode = cell
          BY <2>0, <4>2
        <5>2. pinnedOn'[j].mode = Mode /\ pinnedOn'[j].tree = results[j].digest.tree
          BY <4>2
        <5>3. QED  BY <2>2, <4>2, <5>1, <5>2
      <4>3. QED  BY <2>1, <3>1, <4>1, <4>2
    <3>2. QED  BY <1>1, <3>1 DEF PinnedInv, SharedId, Possible
  <2>4. PinsHold'
    <3>1. ASSUME NEW j \in DOMAIN rows, ~SharedId(j)
          PROVE  \/ results[j].reason = ""
                 \/ pinnedOn'[j] = pinnedOn[j]
      BY <2>1, <3>1
    <3>2. QED  BY <1>1, <3>1 DEF PinsInv, PinsHold, SharedId
  <2>5. QED  BY <1>2, <2>3, <2>4 DEF PinsInv
<1>5. QED  BY <1>3, <1>4 DEF Record

LEMMA PinsStart == ASSUME EvidenceInit PROVE PinsInv
<1>1. /\ admission.at = "idle"
      /\ \A i \in DOMAIN rows : pinnedOn[i] = NoSight
  BY DEF EvidenceInit, Idle
<1>2. QED  BY <1>1 DEF PinsInv, PinnedInv, ReadInv, HandInv, PinsHold, Replaying

LEMMA PinsKept ==
  ASSUME EvidenceInv, PinsInv, [EvidenceNext]_EvidenceVars
  PROVE  PinsInv'
<1>1. CASE UNCHANGED EvidenceVars
  <2>1. LedgerKept /\ results' = results /\ admission' = admission
    BY <1>1 DEF EvidenceVars, LedgerKept
  <2>2. QED
    BY <2>1, PinnedKept, HeldKept
       DEF LedgerKept, PinsInv, ReadInv, HandInv, Possible, Mode, ModeMismatch, Recording, TheRow, Here
<1>2. CASE EvidenceNext
  BY <1>2, BeginTells, ScreenTells, FirstRunTells, SecondRunTells, StageTells, MutatedRunTells,
     RestoredRunTells, RecordTells, InterruptTells, EditTreeTells DEF EvidenceNext
<1>3. QED  BY <1>1, <1>2

\* For any ledger, however often it is recorded and by runs of either mode, with
\* or without a Mode column, while the tree changes: a row whose id is its own
\* is told that its pin no longer holds only when the tree, the mode or what the
\* command prints really differs from where the pin was observed, and is never
\* told that a pin it has is missing (RecordDigest, RecordMode, admitRow).
THEOREM PinsAreHonest == EvidenceSpec => []PinsHold
<1>1. EvidenceInit => EvidenceInv /\ PinsInv
  BY EvidenceStarts, PinsStart
<1>2. (EvidenceInv /\ PinsInv) /\ [EvidenceNext]_EvidenceVars => (EvidenceInv /\ PinsInv)'
  BY EvidenceKeeps, PinsKept
<1>3. EvidenceInv /\ PinsInv => PinsHold
  BY DEF PinsInv
<1>4. QED  BY <1>1, <1>2, <1>3, PTL DEF EvidenceSpec
=============================================================================
