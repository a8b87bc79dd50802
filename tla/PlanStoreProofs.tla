--------------------------- MODULE PlanStoreProofs ---------------------------
(***************************************************************************)
(* Theorems about PlanStore, for all values of its constants: the types,   *)
(* what a writer knows while it holds the lock, and that the plan file is  *)
(* the log of PlanLog.                                                     *)
(***************************************************************************)
EXTENDS PlanStore, TLAPS

USE PlanStoreAssumption

----------------------------------------------------------------------------
(***************************************************************************)
(* Types.                                                                  *)
(***************************************************************************)

\* The template of plan init is a plan document.
LEMMA TemplateIsDoc == Template \in Docs
BY DEF Template, Docs

\* A path leads to a name of the plan, and the plan's own name to itself.
LEMMA ReachedNames ==
  ASSUME TypeOK, NEW n \in Names
  PROVE  /\ Reached(n) \in Names
         /\ Canonical(n) \in Names
         /\ Reached(Real) = Real
         /\ Canonical(Real) = Real
         /\ Seen(Real) = file[Real]
         /\ Seen(n) \in FileValues
BY DEF TypeOK, Reached, Canonical, Seen

\* What a writer is about to rename over the plan is a plan document.
LEMMA CandidateIsDoc ==
  ASSUME TypeOK, Checked, NEW p \in Writers, pc[p] = "rename"
  PROVE  Candidate(p) \in Docs
<1>1. raw[p] \in Docs /\ job[p] \in Invocations /\ job[p].kind # "init"
  BY DEF TypeOK, InvocationOK
<1>2. CASE job[p] \in AddJobs
  BY <1>1, <1>2 DEF AddJobs, Docs, Candidate
<1>3. CASE job[p] \in UpgradeJobs
  BY <1>1, <1>3 DEF UpgradeJobs, Docs, Candidate
<1>4. CASE job[p] \in AdmitJobs
  <2>1. \A e \in job[p].record : raw[p].ledger[e] \in Rows
    BY <1>1, <1>4 DEF Checked, Docs, AdmitJobs
  <2>2. Recorded(raw[p].ledger, job[p].record) \in [Evidence -> Rows \cup {NoRow}]
    BY <1>1, <2>1 DEF Recorded, Rows, Docs
  <2> QED
    BY <1>1, <1>4, <2>2 DEF AdmitJobs, Docs, Candidate
<1> QED
  BY <1>1, <1>2, <1>3, <1>4 DEF Invocations, InitJobs

\* Every step keeps the types.
LEMMA TypeStep ==
  ASSUME TypeOK, Checked, [Next]_vars
  PROVE  TypeOK'
<1> USE DEF Labels
<1>1. ASSUME NEW p \in Writers, NEW j \in Jobs, BeginWriter(p, j) \/ BeginAdmit(p, j) \/ BeginInit(p, j)
      PROVE  TypeOK'
  <2> j \in Invocations /\ j.path \in Names
    BY DEF Invocations, AddJobs, UpgradeJobs, AdmitJobs, InitJobs
  <2> Canonical(j.path) \in Names
    BY ReachedNames
  <2>1. CASE BeginWriter(p, j)
    <3>1. ASSUME NEW q \in Writers PROVE InvocationOK(q)'
      BY <2>1 DEF TypeOK, InvocationOK, BeginWriter, Goto
    <3> QED
      BY <2>1, <3>1 DEF TypeOK, BeginWriter, Goto
  <2>2. CASE BeginAdmit(p, j)
    <3>1. ASSUME NEW q \in Writers PROVE InvocationOK(q)'
      BY <2>2 DEF TypeOK, InvocationOK, BeginAdmit, Goto
    <3> QED
      BY <2>2, <3>1 DEF TypeOK, BeginAdmit, Goto
  <2>3. CASE BeginInit(p, j)
    <3>1. ASSUME NEW q \in Writers PROVE InvocationOK(q)'
      BY <2>3 DEF TypeOK, InvocationOK, BeginInit, Goto
    <3> QED
      BY <2>3, <3>1 DEF TypeOK, BeginInit, Goto
  <2> QED
    BY <1>1, <2>1, <2>2, <2>3
<1>2. ASSUME NEW p \in Writers, Step(p)
      PROVE  TypeOK'
  <2>1. CASE RunRows(p)
    BY <2>1 DEF TypeOK, InvocationOK, RunRows, Goto, Invocations, AddJobs, UpgradeJobs, AdmitJobs, InitJobs
  <2>2. CASE OpenLock(p)
    BY <2>2, ReachedNames DEF TypeOK, InvocationOK, OpenLock, Goto
  <2>3. CASE Lock(p)
    BY <2>3 DEF TypeOK, InvocationOK, Lock, Goto
  <2>4. CASE TakeOver(p)
    BY <2>4 DEF TypeOK, InvocationOK, TakeOver, Goto
  <2>5. CASE Timeout(p)
    BY <2>5 DEF TypeOK, InvocationOK, Timeout, Goto
  <2>6. CASE LateLock(p)
    BY <2>6 DEF TypeOK, InvocationOK, LateLock, Goto
  <2>7. CASE Exit(p)
    BY <2>7 DEF TypeOK, InvocationOK, Exit, Return, Released
  <2>8. CASE ReadPlan(p)
    <3>1. ASSUME NEW q \in Writers PROVE InvocationOK(q)'
      BY <2>8 DEF TypeOK, InvocationOK, ReadPlan, Goto
    <3> QED
      BY <2>8, <3>1 DEF TypeOK, ReadPlan, Goto
  <2>9. CASE CompareWithRead(p)
    BY <2>9 DEF TypeOK, InvocationOK, CompareWithRead, Goto
  <2>10. CASE Rename(p)
    BY <2>10, CandidateIsDoc DEF TypeOK, InvocationOK, Rename, Goto, FileValues
  <2>11. CASE Unlock(p)
    BY <2>11 DEF TypeOK, InvocationOK, Unlock, Return, Released
  <2>12. CASE Refuse(p)
    BY <2>12 DEF TypeOK, InvocationOK, Refuse, Return, Released
  <2>13. CASE InitTruncate(p)
    BY <2>13, ReachedNames DEF TypeOK, InvocationOK, InitTruncate, Goto, FileValues, Invocations, AddJobs, UpgradeJobs, AdmitJobs, InitJobs
  <2>14. CASE InitFill(p)
    BY <2>14, TemplateIsDoc DEF TypeOK, InvocationOK, InitFill, Return, FileValues
  <2> QED
    BY <1>2, <2>1, <2>2, <2>3, <2>4, <2>5, <2>6, <2>7, <2>8, <2>9, <2>10, <2>11, <2>12, <2>13, <2>14 DEF Step
<1>3. ASSUME NEW p \in Writers, Crash(p)
      PROVE  TypeOK'
  BY <1>3 DEF TypeOK, InvocationOK, Crash, Return, Released
<1>4. ASSUME NEW e \in Evidence, NEW c \in Commands, EditPlan(e, c)
      PROVE  TypeOK'
  <2>1. [file[Real] EXCEPT !.ledger[e] = [command |-> c, digest |-> Blank]] \in Docs
    BY <1>4 DEF EditPlan, Docs, Rows
  <2>2. file' = [file EXCEPT ![Real] =
                   [file[Real] EXCEPT !.ledger[e] = [command |-> c, digest |-> Blank]]]
    BY <1>4 DEF EditPlan
  <2> QED
    BY <1>4, <2>1, <2>2 DEF TypeOK, InvocationOK, EditPlan, FileValues
<1>5. CASE UNCHANGED vars
  BY <1>5 DEF TypeOK, InvocationOK, vars
<1> QED
  BY <1>1, <1>2, <1>3, <1>4, <1>5 DEF Next, Begin

----------------------------------------------------------------------------
(***************************************************************************)
(* What a writer knows: its checks have passed, and it holds the lock.     *)
(***************************************************************************)

\* Every step keeps what is checked of the plan that was read.
LEMMA CheckedStep ==
  ASSUME TypeOK, Checked, [Next]_vars
  PROVE  Checked'
<1>1. ASSUME NEW p \in Writers, NEW j \in Jobs, BeginWriter(p, j) \/ BeginAdmit(p, j) \/ BeginInit(p, j)
      PROVE  Checked'
  <2>1. CASE BeginWriter(p, j)
    BY <2>1 DEF TypeOK, InvocationOK, Checked, Accepts, BeginWriter, Goto
  <2>2. CASE BeginAdmit(p, j)
    BY <2>2 DEF TypeOK, InvocationOK, Checked, Accepts, BeginAdmit, Goto
  <2>3. CASE BeginInit(p, j)
    BY <2>3 DEF TypeOK, InvocationOK, Checked, Accepts, BeginInit, Goto
  <2> QED
    BY <1>1, <2>1, <2>2, <2>3
<1>2. ASSUME NEW p \in Writers, Step(p)
      PROVE  Checked'
  <2>1. CASE RunRows(p)
    BY <2>1 DEF TypeOK, InvocationOK, Checked, Accepts, RunRows, Goto
  <2>2. CASE OpenLock(p)
    BY <2>2 DEF TypeOK, InvocationOK, Checked, Accepts, OpenLock, Goto
  <2>3. CASE Lock(p)
    BY <2>3 DEF TypeOK, InvocationOK, Checked, Accepts, Lock, Goto
  <2>4. CASE TakeOver(p)
    BY <2>4 DEF TypeOK, InvocationOK, Checked, Accepts, TakeOver, Goto
  <2>5. CASE Timeout(p)
    BY <2>5 DEF TypeOK, InvocationOK, Checked, Accepts, Timeout, Goto
  <2>6. CASE LateLock(p)
    BY <2>6 DEF TypeOK, InvocationOK, Checked, Accepts, LateLock, Goto
  <2>7. CASE Exit(p)
    BY <2>7 DEF TypeOK, InvocationOK, Checked, Accepts, Exit, Return, Released
  <2>8. CASE ReadPlan(p)
    BY <2>8 DEF TypeOK, InvocationOK, Checked, Accepts, ReadPlan, Goto
  <2>9. CASE CompareWithRead(p)
    BY <2>9 DEF TypeOK, InvocationOK, Checked, Accepts, CompareWithRead, Goto
  <2>10. CASE Rename(p)
    BY <2>10 DEF TypeOK, InvocationOK, Checked, Accepts, Rename, Goto
  <2>11. CASE Unlock(p)
    BY <2>11 DEF TypeOK, InvocationOK, Checked, Accepts, Unlock, Return, Released
  <2>12. CASE Refuse(p)
    BY <2>12 DEF TypeOK, InvocationOK, Checked, Accepts, Refuse, Return, Released
  <2>13. CASE InitTruncate(p)
    BY <2>13 DEF TypeOK, InvocationOK, Checked, Accepts, InitTruncate, Goto
  <2>14. CASE InitFill(p)
    BY <2>14 DEF TypeOK, InvocationOK, Checked, Accepts, InitFill, Return
  <2> QED
    BY <1>2, <2>1, <2>2, <2>3, <2>4, <2>5, <2>6, <2>7, <2>8, <2>9, <2>10, <2>11, <2>12, <2>13, <2>14 DEF Step
<1>3. ASSUME NEW p \in Writers, Crash(p)
      PROVE  Checked'
  BY <1>3 DEF TypeOK, InvocationOK, Checked, Accepts, Crash, Return, Released
<1>4. ASSUME NEW e \in Evidence, NEW c \in Commands, EditPlan(e, c)
      PROVE  Checked'
  BY <1>4 DEF TypeOK, InvocationOK, Checked, Accepts, EditPlan
<1>5. CASE UNCHANGED vars
  BY <1>5 DEF TypeOK, InvocationOK, Checked, Accepts, vars
<1> QED
  BY <1>1, <1>2, <1>3, <1>4, <1>5 DEF Next, Begin

\* Every step keeps the locks of the others.
LEMMA LockHeldStep ==
  ASSUME TypeOK, LockHeld, [Next]_vars
  PROVE  LockHeld'
<1>1. ASSUME NEW p \in Writers, NEW j \in Jobs, BeginWriter(p, j) \/ BeginAdmit(p, j) \/ BeginInit(p, j)
      PROVE  LockHeld'
  <2>1. CASE BeginWriter(p, j)
    BY <2>1, ReachedNames DEF TypeOK, InvocationOK, LockHeld, BeginWriter, Goto
  <2>2. CASE BeginAdmit(p, j)
    BY <2>2, ReachedNames DEF TypeOK, InvocationOK, LockHeld, BeginAdmit, Goto
  <2>3. CASE BeginInit(p, j)
    BY <2>3, ReachedNames DEF TypeOK, InvocationOK, LockHeld, BeginInit, Goto
  <2> QED
    BY <1>1, <2>1, <2>2, <2>3
<1>2. ASSUME NEW p \in Writers, Step(p)
      PROVE  LockHeld'
  <2>1. CASE RunRows(p)
    BY <2>1, ReachedNames DEF TypeOK, InvocationOK, LockHeld, RunRows, Goto
  <2>2. CASE OpenLock(p)
    BY <2>2, ReachedNames DEF TypeOK, InvocationOK, LockHeld, OpenLock, Goto
  <2>3. CASE Lock(p)
    BY <2>3, ReachedNames DEF TypeOK, InvocationOK, LockHeld, Lock, Goto
  <2>4. CASE TakeOver(p)
    BY <2>4, ReachedNames DEF TypeOK, InvocationOK, LockHeld, TakeOver, Goto
  <2>5. CASE Timeout(p)
    BY <2>5, ReachedNames DEF TypeOK, InvocationOK, LockHeld, Timeout, Goto
  <2>6. CASE LateLock(p)
    BY <2>6, ReachedNames DEF TypeOK, InvocationOK, LockHeld, LateLock, Goto
  <2>7. CASE Exit(p)
    BY <2>7, ReachedNames DEF TypeOK, InvocationOK, LockHeld, Exit, Return, Released
  <2>8. CASE ReadPlan(p)
    BY <2>8, ReachedNames DEF TypeOK, InvocationOK, LockHeld, ReadPlan, Goto
  <2>9. CASE CompareWithRead(p)
    BY <2>9, ReachedNames DEF TypeOK, InvocationOK, LockHeld, CompareWithRead, Goto
  <2>10. CASE Rename(p)
    BY <2>10, ReachedNames DEF TypeOK, InvocationOK, LockHeld, Rename, Goto
  <2>11. CASE Unlock(p)
    BY <2>11, ReachedNames DEF TypeOK, InvocationOK, LockHeld, Unlock, Return, Released
  <2>12. CASE Refuse(p)
    BY <2>12, ReachedNames DEF TypeOK, InvocationOK, LockHeld, Refuse, Return, Released
  <2>13. CASE InitTruncate(p)
    BY <2>13, ReachedNames DEF TypeOK, InvocationOK, LockHeld, InitTruncate, Goto
  <2>14. CASE InitFill(p)
    BY <2>14, ReachedNames DEF TypeOK, InvocationOK, LockHeld, InitFill, Return
  <2> QED
    BY <1>2, <2>1, <2>2, <2>3, <2>4, <2>5, <2>6, <2>7, <2>8, <2>9, <2>10, <2>11, <2>12, <2>13, <2>14 DEF Step
<1>3. ASSUME NEW p \in Writers, Crash(p)
      PROVE  LockHeld'
  BY <1>3, ReachedNames DEF TypeOK, InvocationOK, LockHeld, Crash, Return, Released
<1>4. ASSUME NEW e \in Evidence, NEW c \in Commands, EditPlan(e, c)
      PROVE  LockHeld'
  BY <1>4, ReachedNames DEF TypeOK, InvocationOK, LockHeld, EditPlan
<1>5. CASE UNCHANGED vars
  BY <1>5 DEF TypeOK, InvocationOK, LockHeld, vars
<1> QED
  BY <1>1, <1>2, <1>3, <1>4, <1>5 DEF Next, Begin

\* Who changes the plan holds its lock, or replaces it, or finds no plan.
LEMMA ReadCurrentStep ==
  ASSUME TypeOK, LockHeld, ReadCurrent, [Next]_vars
  PROVE  ReadCurrent'
<1>1. ASSUME NEW p \in Writers, NEW j \in Jobs, BeginWriter(p, j) \/ BeginAdmit(p, j) \/ BeginInit(p, j)
      PROVE  ReadCurrent'
  <2>1. CASE BeginWriter(p, j)
    BY <2>1, ReachedNames DEF TypeOK, InvocationOK, LockHeld, ReadCurrent, BeginWriter, Goto
  <2>2. CASE BeginAdmit(p, j)
    BY <2>2, ReachedNames DEF TypeOK, InvocationOK, LockHeld, ReadCurrent, BeginAdmit, Goto
  <2>3. CASE BeginInit(p, j)
    BY <2>3, ReachedNames DEF TypeOK, InvocationOK, LockHeld, ReadCurrent, BeginInit, Goto
  <2> QED
    BY <1>1, <2>1, <2>2, <2>3
<1>2. ASSUME NEW p \in Writers, Step(p)
      PROVE  ReadCurrent'
  <2>1. CASE RunRows(p)
    BY <2>1, ReachedNames DEF TypeOK, InvocationOK, LockHeld, ReadCurrent, RunRows, Goto
  <2>2. CASE OpenLock(p)
    BY <2>2, ReachedNames DEF TypeOK, InvocationOK, LockHeld, ReadCurrent, OpenLock, Goto
  <2>3. CASE Lock(p)
    BY <2>3, ReachedNames DEF TypeOK, InvocationOK, LockHeld, ReadCurrent, Lock, Goto
  <2>4. CASE TakeOver(p)
    BY <2>4, ReachedNames DEF TypeOK, InvocationOK, LockHeld, ReadCurrent, TakeOver, Goto
  <2>5. CASE Timeout(p)
    BY <2>5, ReachedNames DEF TypeOK, InvocationOK, LockHeld, ReadCurrent, Timeout, Goto
  <2>6. CASE LateLock(p)
    BY <2>6, ReachedNames DEF TypeOK, InvocationOK, LockHeld, ReadCurrent, LateLock, Goto
  <2>7. CASE Exit(p)
    BY <2>7, ReachedNames DEF TypeOK, InvocationOK, LockHeld, ReadCurrent, Exit, Return, Released
  <2>8. CASE ReadPlan(p)
    BY <2>8, ReachedNames DEF TypeOK, InvocationOK, LockHeld, ReadCurrent, ReadPlan, Goto
  <2>9. CASE CompareWithRead(p)
    BY <2>9, ReachedNames DEF TypeOK, InvocationOK, LockHeld, ReadCurrent, CompareWithRead, Goto
  <2>10. CASE Rename(p)
    BY <2>10, ReachedNames DEF TypeOK, InvocationOK, LockHeld, ReadCurrent, Rename, Goto
  <2>11. CASE Unlock(p)
    BY <2>11, ReachedNames DEF TypeOK, InvocationOK, LockHeld, ReadCurrent, Unlock, Return, Released
  <2>12. CASE Refuse(p)
    BY <2>12, ReachedNames DEF TypeOK, InvocationOK, LockHeld, ReadCurrent, Refuse, Return, Released
  <2>13. CASE InitTruncate(p)
    BY <2>13, ReachedNames DEF TypeOK, InvocationOK, LockHeld, ReadCurrent, InitTruncate, Goto
  <2>14. CASE InitFill(p)
    BY <2>14, ReachedNames DEF TypeOK, InvocationOK, LockHeld, ReadCurrent, InitFill, Return
  <2> QED
    BY <1>2, <2>1, <2>2, <2>3, <2>4, <2>5, <2>6, <2>7, <2>8, <2>9, <2>10, <2>11, <2>12, <2>13, <2>14 DEF Step
<1>3. ASSUME NEW p \in Writers, Crash(p)
      PROVE  ReadCurrent'
  BY <1>3, ReachedNames DEF TypeOK, InvocationOK, LockHeld, ReadCurrent, Crash, Return, Released
<1>4. ASSUME NEW e \in Evidence, NEW c \in Commands, EditPlan(e, c)
      PROVE  ReadCurrent'
  BY <1>4, ReachedNames DEF TypeOK, InvocationOK, LockHeld, ReadCurrent, EditPlan
<1>5. CASE UNCHANGED vars
  BY <1>5 DEF TypeOK, InvocationOK, LockHeld, ReadCurrent, vars
<1> QED
  BY <1>1, <1>2, <1>3, <1>4, <1>5 DEF Next, Begin

\* The inductive invariant: types, checks, locks, and what follows from them.
PlanInv == TypeOK /\ Checked /\ LockHeld /\ ReadCurrent

\* Init establishes the invariant and every step keeps it.
LEMMA PlanInvCorrect == Spec => []PlanInv
<1>1. Init => PlanInv
  BY DEF Init, PlanInv, TypeOK, InvocationOK, Checked, LockHeld, ReadCurrent, FileValues, Labels
<1>2. PlanInv /\ [Next]_vars => PlanInv'
  BY TypeStep, CheckedStep, LockHeldStep, ReadCurrentStep DEF PlanInv
<1> QED
  BY <1>1, <1>2, PTL DEF Spec

\* Every variable keeps its type (all of PlanStore).
THEOREM PlanTypeCorrect == Spec => []TypeOK
BY PlanInvCorrect, PTL DEF PlanInv

\* Nobody changes the plan between the check a writer makes and its rename
\* (addFinding, upgrade, writeRecorded under LockPlan).
THEOREM ReadCurrentCorrect == Spec => []ReadCurrent
BY PlanInvCorrect, PTL DEF PlanInv

----------------------------------------------------------------------------
(***************************************************************************)
(* The plan file is the log of PlanLog.                                    *)
(***************************************************************************)

\* The plan as PlanLog sees it.
Plan == IF replaced THEN Torn
        ELSE IF file[Real] \in Docs THEN file[Real] ELSE Missing

\* The first plan is a log's first plan.
LEMMA LogInit ==
  ASSUME Init
  PROVE  Log!Init
BY DEF Init, Log!Init

\* A rename over the plan is one judgement, one Run column or one recording.
LEMMA RenameIsLogged ==
  ASSUME PlanInv, NEW p \in Writers, Rename(p), ~replaced, target[p] = Real
  PROVE  Log!Next
<1> USE DEF PlanInv
<1>1. raw[p] \in Docs /\ file[Real] = raw[p] /\ file'[Real] = Candidate(p) /\ ~replaced'
  BY DEF Rename, ReadCurrent, TypeOK, InvocationOK
<1>2. Plan = raw[p] /\ Plan' = Candidate(p)
  BY <1>1, CandidateIsDoc DEF Plan, Rename
<1>3. raw[p] \notin {Missing, Torn}
  BY <1>1
<1>4. job[p] \in Invocations /\ job[p].kind # "init"
  BY DEF Rename, TypeOK, InvocationOK
<1>5. CASE job[p] \in AddJobs
  <2>1. Log!Judge(job[p].id, p)
    BY <1>1, <1>2, <1>3, <1>5 DEF Log!Judge, Log!Live, AddJobs, Candidate, Checked, Accepts, Rename, Plan
  <2> QED
    BY <1>5, <2>1 DEF Log!Next, AddJobs
<1>6. CASE job[p] \in UpgradeJobs
  BY <1>1, <1>2, <1>3, <1>6 DEF Log!Next, Log!Scope, Log!Live, UpgradeJobs, Candidate, Plan
<1>7. CASE job[p] \in AdmitJobs
  <2>1. \A e \in job[p].record : raw[p].ledger[e] \in Rows
    BY <1>1, <1>7 DEF Checked, Docs, AdmitJobs, Rename
  <2>2. \A e \in job[p].record :
          [raw[p].ledger[e] EXCEPT !.digest = raw[p].ledger[e].command]
            = [command |-> raw[p].ledger[e].command, digest |-> raw[p].ledger[e].command]
    BY <2>1 DEF Rows
  <2>3. Recorded(raw[p].ledger, job[p].record)
          = [e \in Evidence |->
               IF e \in job[p].record
                 THEN [command |-> raw[p].ledger[e].command,
                       digest |-> raw[p].ledger[e].command]
                 ELSE raw[p].ledger[e]]
    BY <2>2 DEF Recorded
  <2>4. Candidate(p) = [raw[p] EXCEPT !.ledger = Recorded(raw[p].ledger, job[p].record)]
    BY <1>7 DEF Candidate, AdmitJobs
  <2>5. \A e \in job[p].record : raw[p].ledger[e] # NoRow
    BY <2>1
  <2>6. Log!Record(job[p].record)
    BY <1>1, <1>2, <1>3, <2>3, <2>4, <2>5 DEF Log!Record, Log!Live, Plan
  <2> QED
    BY <1>7, <2>6 DEF Log!Next, AdmitJobs
<1> QED
  BY <1>4, <1>5, <1>6, <1>7 DEF Invocations, InitJobs

\* Every step is a step of the log or leaves it alone.
LEMMA LogStep ==
  ASSUME PlanInv, [Next]_vars
  PROVE  Log!Next \/ Plan' = Plan
<1> USE DEF PlanInv
<1>1. ASSUME NEW p \in Writers, Rename(p)
      PROVE  Log!Next \/ Plan' = Plan
  <2>1. CASE ~replaced /\ target[p] = Real
    BY <1>1, <2>1, RenameIsLogged
  <2>2. CASE ~(~replaced /\ target[p] = Real)
    BY <1>1, <2>2 DEF Rename, Plan, TypeOK
  <2> QED
    BY <2>1, <2>2
<1>2. ASSUME NEW p \in Writers, InitTruncate(p)
      PROVE  Log!Next \/ Plan' = Plan
  <2>1. CASE ~replaced /\ replaced'
    <3>1. file[Real] \in Docs
      BY <1>2, <2>1 DEF InitTruncate
    <3> QED
      BY <2>1, <3>1 DEF Log!Next, Log!Replace, Log!Live
  <2>2. CASE ~replaced /\ ~replaced'
    BY <1>2, <2>2, ReachedNames DEF InitTruncate, Plan, TypeOK
  <2>3. CASE replaced
    BY <1>2, <2>3 DEF InitTruncate, Plan
  <2> QED
    BY <2>1, <2>2, <2>3
<1>3. ASSUME NEW p \in Writers, InitFill(p)
      PROVE  Log!Next \/ Plan' = Plan
  <2>1. CASE ~replaced /\ target[p] = Real /\ file[Real] = Torn
    <3>1. file'[Real] = Template /\ ~replaced'
      BY <1>3, <2>1 DEF InitFill, TypeOK
    <3> QED
      BY <2>1, <3>1, TemplateIsDoc DEF Log!Next, Log!Create, Template
  <2>2. CASE ~(~replaced /\ target[p] = Real /\ file[Real] = Torn)
    BY <1>3, <2>2 DEF InitFill, Plan, TypeOK
  <2> QED
    BY <2>1, <2>2
<1>4. ASSUME NEW e \in Evidence, NEW c \in Commands, EditPlan(e, c)
      PROVE  Log!Next \/ Plan' = Plan
  <2>1. CASE replaced
    BY <1>4, <2>1 DEF EditPlan, Plan
  <2>2. CASE ~replaced
    <3>1. file'[Real] = [file[Real] EXCEPT !.ledger[e] = [command |-> c, digest |-> Blank]]
      BY <1>4 DEF EditPlan, TypeOK
    <3>2. file'[Real] \in Docs /\ file[Real] \in Docs /\ ~replaced'
      BY <1>4, <2>2, <3>1 DEF EditPlan, Docs, Rows
    <3>3. Log!Enter(e, c)
      BY <2>2, <3>1, <3>2 DEF Log!Enter, Log!Live
    <3> QED
      BY <3>3 DEF Log!Next
  <2> QED
    BY <2>1, <2>2
<1>5. CASE UNCHANGED <<file, replaced>>
  BY <1>5 DEF Plan
<1> QED
  BY <1>1, <1>2, <1>3, <1>4, <1>5
  DEF Next, Begin, Step, vars, BeginWriter, BeginAdmit, BeginInit, RunRows, OpenLock, Lock,
      TakeOver, Timeout, LateLock, Exit, ReadPlan, CompareWithRead, Unlock, Refuse, Crash

\* The commands that share a plan implement the log: no verdict is lost or
\* overwritten, no digest lands beside a command it is no observation of, no
\* row of the user's disappears, until plan init replaces the plan.
THEOREM PlanLogImplemented == Spec => ImplementsPlanLog
<1>1. PlanInv /\ [Next]_vars => [Log!Next]_Plan
  BY LogStep
<1> QED
  BY <1>1, LogInit, PlanInvCorrect, PTL DEF Spec, ImplementsPlanLog, Log!Spec, Plan
----------------------------------------------------------------------------
(***************************************************************************)
(* A write that was made at the plan's own path stands until the writer    *)
(* gives the lock back, and when no path may miss the plan, every write    *)
(* is made there.                                                          *)
(***************************************************************************)

\* From its rename to its unlock a writer's plan is what is at the plan's path.
WriteStands ==
  \A p \in Writers :
    pc[p] = "unlock" /\ target[p] = Real /\ ~replaced
      => file[Real] \in Docs /\ file[Real] = Candidate(p)

\* What a process is about to write depends on its invocation and its plan.
LEMMA CandidateStays ==
  ASSUME NEW p \in Writers, job'[p] = job[p], raw'[p] = raw[p]
  PROVE  Candidate(p)' = Candidate(p)
BY DEF Candidate

\* A process that neither renames nor gives the lock back keeps a write as long
\* as it leaves the plan and the invocations of those who wrote.
LEMMA WriteStandsElsewhere ==
  ASSUME PlanInv, WriteStands, file'[Real] = file[Real], replaced' = replaced,
         \A q \in Writers : pc'[q] = "unlock" =>
           /\ pc[q] = "unlock" /\ target'[q] = target[q]
           /\ job'[q] = job[q] /\ raw'[q] = raw[q]
  PROVE  WriteStands'
<1> SUFFICES ASSUME NEW q \in Writers, pc'[q] = "unlock", target'[q] = Real, ~replaced'
             PROVE  file'[Real] \in Docs /\ file'[Real] = Candidate(q)'
  BY DEF WriteStands
<1>1. Candidate(q)' = Candidate(q)
  BY CandidateStays
<1> QED
  BY <1>1 DEF WriteStands

\* Every step keeps the writes: who changes the plan holds its lock, or
\* replaces the plan, or finds it torn.
LEMMA WriteStandsStep ==
  ASSUME PlanInv, WriteStands, [Next]_vars
  PROVE  WriteStands'
<1> USE DEF PlanInv
<1>1. ASSUME NEW p \in Writers, Rename(p)
      PROVE  WriteStands'
  <2> SUFFICES ASSUME NEW q \in Writers, pc'[q] = "unlock", target'[q] = Real, ~replaced'
               PROVE  file'[Real] \in Docs /\ file'[Real] = Candidate(q)'
    BY DEF WriteStands
  <2>1. Candidate(q)' = Candidate(q) /\ target[q] = Real /\ ~replaced
    BY <1>1, CandidateStays DEF Rename
  <2>2. CASE q = p
    BY <1>1, <2>1, <2>2, CandidateIsDoc DEF Rename, TypeOK
  <2>3. CASE q # p
    <3>1. pc[q] = "unlock" /\ pc[p] = "rename"
      BY <1>1, <2>3 DEF Rename, Goto, TypeOK
    <3>2. target[p] # Real
      BY <2>1, <2>3, <3>1 DEF LockHeld
    <3> QED
      BY <1>1, <2>1, <3>1, <3>2 DEF Rename, WriteStands, TypeOK
  <2> QED
    BY <2>2, <2>3
<1>2. ASSUME NEW p \in Writers, InitTruncate(p)
      PROVE  WriteStands'
  <2> SUFFICES ASSUME NEW q \in Writers, pc'[q] = "unlock", target'[q] = Real, ~replaced'
               PROVE  file'[Real] \in Docs /\ file'[Real] = Candidate(q)'
    BY DEF WriteStands
  <2>1. pc[q] = "unlock" /\ target[q] = Real /\ ~replaced /\ q # p
    BY <1>2 DEF InitTruncate, Goto, TypeOK
  <2>2. file[Real] \in Docs /\ file[Real] = Candidate(q)
    BY <2>1 DEF WriteStands
  <2>3. Reached(job[p].path) # Real
    BY <1>2, <2>2 DEF InitTruncate
  <2>4. file'[Real] = file[Real]
    BY <1>2, <2>3 DEF InitTruncate, TypeOK
  <2> QED
    BY <1>2, <2>2, <2>4, CandidateStays DEF InitTruncate
<1>3. ASSUME NEW p \in Writers, InitFill(p)
      PROVE  WriteStands'
  <2> SUFFICES ASSUME NEW q \in Writers, pc'[q] = "unlock", target'[q] = Real, ~replaced'
               PROVE  file'[Real] \in Docs /\ file'[Real] = Candidate(q)'
    BY DEF WriteStands
  <2>1. pc[q] = "unlock" /\ q # p
    BY <1>3 DEF InitFill, Return, TypeOK
  <2>2. target[q] = Real /\ ~replaced /\ job'[q] = job[q] /\ raw'[q] = raw[q]
    BY <1>3, <2>1 DEF InitFill, Return, TypeOK
  <2>3. file[Real] \in Docs /\ file[Real] = Candidate(q)
    BY <2>1, <2>2 DEF WriteStands
  <2>4. file'[Real] = file[Real]
    BY <1>3, <2>3 DEF InitFill, TypeOK
  <2> QED
    BY <2>2, <2>3, <2>4, CandidateStays
<1>4. ASSUME NEW e \in Evidence, NEW c \in Commands, EditPlan(e, c)
      PROVE  WriteStands'
  \* whoever has just written the plan still holds its lock
  BY <1>4 DEF EditPlan, WriteStands, LockHeld
<1>5. ASSUME NEW p \in Writers, NEW j \in Jobs, BeginWriter(p, j) \/ BeginAdmit(p, j) \/ BeginInit(p, j)
      PROVE  WriteStands'
  BY <1>5, WriteStandsElsewhere DEF BeginWriter, BeginAdmit, BeginInit, Goto, TypeOK
<1>6. ASSUME NEW p \in Writers,
             \/ RunRows(p) \/ OpenLock(p) \/ Lock(p) \/ TakeOver(p) \/ Timeout(p) \/ LateLock(p)
             \/ ReadPlan(p) \/ CompareWithRead(p)
      PROVE  WriteStands'
  BY <1>6, WriteStandsElsewhere
  DEF RunRows, OpenLock, Lock, TakeOver, Timeout, LateLock, ReadPlan, CompareWithRead, Goto, TypeOK
<1>7. ASSUME NEW p \in Writers, Exit(p) \/ Unlock(p) \/ Refuse(p) \/ Crash(p)
      PROVE  WriteStands'
  BY <1>7, WriteStandsElsewhere DEF Exit, Unlock, Refuse, Crash, Return, TypeOK
<1>8. CASE UNCHANGED vars
  BY <1>8, WriteStandsElsewhere DEF vars
<1> QED
  BY <1>1, <1>2, <1>3, <1>4, <1>5, <1>6, <1>7, <1>8 DEF Next, Begin, Step

\* What a command wrote at the plan's own path is there until it gives the lock
\* back, or the plan was replaced: for any commands, spellings and links (LockPlan,
\* writePlan, writeRecordedAtomically).
THEOREM WritesStand == Spec => []WriteStands
<1>1. Init => WriteStands
  BY DEF Init, WriteStands
<1>2. PlanInv /\ WriteStands /\ [Next]_vars => WriteStands'
  BY WriteStandsStep
<1> QED
  BY <1>1, <1>2, PlanInvCorrect, PTL DEF Spec

\* A plan that exists when the first command starts is there ever after, the
\* other names lead to it, and every command works on it.
Straight ==
  /\ file[Real] # Missing
  /\ \A n \in Names \ {Real} : file[n] = LinkTo
  /\ \A p \in Writers : target[p] = Real

\* When there is a plan, every spelling of it is resolved to it.
LEMMA StraightPaths ==
  ASSUME TypeOK, Straight, NEW n \in Names
  PROVE  Reached(n) = Real /\ Canonical(n) = Real
BY DEF TypeOK, Straight, Reached, Canonical, Seen

\* As long as nobody records through a symlink, no command leaves the plan.
LEMMA StraightStep ==
  ASSUME PlanInv, Straight, [Next]_vars,
         \A j \in Jobs : j.kind = "admit" => j.path = Real
  PROVE  Straight'
<1> USE DEF PlanInv
<1>1. ASSUME NEW p \in Writers, NEW j \in Jobs, BeginWriter(p, j) \/ BeginAdmit(p, j) \/ BeginInit(p, j)
      PROVE  Straight'
  <2>1. j.path \in Names
    BY DEF Invocations, AddJobs, UpgradeJobs, AdmitJobs, InitJobs
  <2>2. Canonical(j.path) = Real
    BY <2>1, StraightPaths
  <2> QED
    BY <1>1, <2>2 DEF BeginWriter, BeginAdmit, BeginInit, Straight, TypeOK
<1>2. ASSUME NEW p \in Writers, Rename(p)
      PROVE  Straight'
  <2>1. target[p] = Real /\ Candidate(p) \in Docs
    BY <1>2, CandidateIsDoc DEF Rename, Straight
  <2> QED
    BY <1>2, <2>1 DEF Rename, Straight, TypeOK
<1>3. ASSUME NEW p \in Writers, InitTruncate(p)
      PROVE  Straight'
  <2>1. job[p].path \in Names
    BY <1>3 DEF InitTruncate, TypeOK, InvocationOK, Invocations, AddJobs, UpgradeJobs, AdmitJobs, InitJobs
  <2>2. Reached(job[p].path) = Real
    BY <2>1, StraightPaths
  <2> QED
    BY <1>3, <2>2 DEF InitTruncate, Straight, TypeOK
<1>4. ASSUME NEW p \in Writers, InitFill(p)
      PROVE  Straight'
  <2>1. target[p] = Real /\ file'[Real] # Missing
    BY <1>4, TemplateIsDoc DEF InitFill, Straight, TypeOK
  <2> QED
    BY <1>4, <2>1 DEF InitFill, Return, Straight, TypeOK
<1>5. ASSUME NEW e \in Evidence, NEW c \in Commands, EditPlan(e, c)
      PROVE  Straight'
  <2>1. [file[Real] EXCEPT !.ledger[e] = [command |-> c, digest |-> Blank]] \in Docs
    BY <1>5 DEF EditPlan, Docs, Rows
  <2> QED
    BY <1>5, <2>1 DEF EditPlan, Straight, TypeOK
<1>6. ASSUME NEW p \in Writers,
             \/ RunRows(p) \/ OpenLock(p) \/ Lock(p) \/ TakeOver(p) \/ Timeout(p) \/ LateLock(p)
             \/ ReadPlan(p) \/ CompareWithRead(p)
      PROVE  Straight'
  BY <1>6
  DEF Straight, RunRows, OpenLock, Lock, TakeOver, Timeout, LateLock, ReadPlan, CompareWithRead
<1>7. ASSUME NEW p \in Writers, Exit(p) \/ Unlock(p) \/ Refuse(p) \/ Crash(p)
      PROVE  Straight'
  BY <1>7 DEF Straight, Exit, Unlock, Refuse, Crash, Return, TypeOK
<1>8. CASE UNCHANGED vars
  BY <1>8 DEF Straight, vars
<1> QED
  BY <1>1, <1>2, <1>3, <1>4, <1>5, <1>6, <1>7, <1>8 DEF Next, Begin, Step

\* Where the plan exists before the first command and nobody records through a
\* symlink, every command that wrote did so where all spellings of the plan lead,
\* and nobody has changed it before it gives the lock back (canonicalPath, writePlan,
\* writeRecordedAtomically).
THEOREM WritesAreReached ==
  ASSUME Starts \subseteq Docs,
         \A j \in Jobs : j.kind = "admit" => j.path = Real
  PROVE  Spec => []WrittenIsReached
<1>1. Init => Straight
  BY DEF Init, Straight
<1>2. PlanInv /\ Straight /\ [Next]_vars => Straight'
  BY StraightStep
<1>3. WriteStands /\ Straight => WrittenIsReached
  BY DEF WriteStands, Straight, WrittenIsReached
<1> QED
  BY <1>1, <1>2, <1>3, PlanInvCorrect, WritesStand, PTL DEF Spec
=============================================================================
