------------------------------- MODULE PlanLog -------------------------------
(***************************************************************************)
(* What the plan file promises the commands that share it, whatever they   *)
(* and their locks do in between: every change a command makes is one      *)
(* change to the plan as it stands, never a copy of an older plan.  A      *)
(* verdict that is in the plan keeps its author, a digest is only ever     *)
(* recorded for the command it is an observation of, and a Run column that *)
(* was added stays.                                                        *)
(*                                                                         *)
(* The promise ends when `plan init` replaces an existing plan: the log is *)
(* then Replaced for good.                                                 *)
(***************************************************************************)
CONSTANTS Writers, Findings, Evidence, Commands, Starts, NoPlan, Replaced,
          Unjudged, NoRow, Blank

VARIABLE log

Init == log \in Starts

Live == log \notin {NoPlan, Replaced}

\* A first `plan init`: a plan without findings and without evidence.
Create ==
  /\ log = NoPlan
  /\ log' = [findings |-> [f \in Findings |-> Unjudged],
             ledger |-> [e \in Evidence |-> NoRow],
             scoped |-> TRUE]

\* A row of the ledger that is new, or whose command is another one now,
\* has no digest.
Enter(e, c) ==
  /\ Live
  /\ log' = [log EXCEPT !.ledger[e] = [command |-> c, digest |-> Blank]]

\* One verdict on a finding that had none, citing evidence that is there.
Judge(f, w) ==
  /\ Live
  /\ log.findings[f] = Unjudged
  /\ \E e \in Evidence : log.ledger[e] # NoRow
  /\ log' = [log EXCEPT !.findings[f] = w]

\* The digests of some rows, each one an observation of the row's command.
Record(rows) ==
  /\ Live
  /\ \A e \in rows : log.ledger[e] # NoRow
  /\ log' = [log EXCEPT !.ledger =
               [e \in Evidence |->
                  IF e \in rows
                    THEN [command |-> @[e].command, digest |-> @[e].command]
                    ELSE @[e]]]

Scope == Live /\ log' = [log EXCEPT !.scoped = TRUE]

Replace == Live /\ log' = Replaced

Next ==
  \/ Create
  \/ \E e \in Evidence, c \in Commands : Enter(e, c)
  \/ \E f \in Findings, w \in Writers : Judge(f, w)
  \/ \E rows \in SUBSET Evidence : Record(rows)
  \/ Scope
  \/ Replace

Spec == Init /\ [][Next]_log
=============================================================================
