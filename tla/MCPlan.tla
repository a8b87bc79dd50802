------------------------------- MODULE MCPlan -------------------------------
(***************************************************************************)
(* Instances of PlanStore for TLC.                                         *)
(***************************************************************************)
EXTENDS PlanStore

CONSTANTS link, f1, e1, c1   \* model values

\* One row of the ledger that was never recorded, and no Run column yet.
WrittenPlan ==
  [findings |-> [f \in Findings |-> Unjudged],
   ledger |-> [e \in Evidence |->
                 IF e = e1 THEN [command |-> c1, digest |-> Blank] ELSE NoRow],
   scoped |-> FALSE]

ExistingPlan == {WrittenPlan}
NoPlanYet == {Missing}

Adds == {[kind |-> "add", path |-> n, id |-> f1, cites |-> e1] : n \in Names}
Upgrades == {[kind |-> "upgrade", path |-> Real]}
Records(n) == {[kind |-> "admit", path |-> n, record |-> {e1}]}
Inits(force) == {[kind |-> "init", path |-> Real, force |-> force]}

\* Findings through either name, everything else by the plan's own.
StoreJobs == Adds \cup Upgrades \cup Records(Real) \cup Inits(TRUE)
LinkJobs == Adds \cup Records(link)
InitOnlyJobs == Adds \cup Inits(FALSE)
=============================================================================
