------------------------------ MODULE PlanStore ------------------------------
(***************************************************************************)
(* The commands that write a plan file: `plan add-finding`, `plan upgrade` *)
(* and `plan init` (internal/plan) and `plan admit --record`               *)
(* (internal/admit), as processes that share one plan, each taking one     *)
(* step at a time.                                                         *)
(*                                                                         *)
(* The plan may be named through symlinks.  Locks are advisory, one per    *)
(* canonical path, and the kernel frees the lock of a process that ends.   *)
(* A plan is replaced by a rename, which is one step; only `plan init`     *)
(* truncates and writes in place.  A process dies between any two steps.   *)
(***************************************************************************)
EXTENDS Naturals

CONSTANTS
  Writers,    \* processes
  Names,      \* the paths a plan is named by, symlinks resolved but the last
  Real,       \* the plan file itself; every other name is a symlink to it
  Findings,   \* ids of findings
  Evidence,   \* ids of the ledger's rows
  Commands,   \* commands of rows; the digest of a command stands for it too
  Starts,     \* what may be at Real when the first command starts
  Jobs,       \* the invocations this instance makes
  Missing, LinkTo, Torn,          \* file values that are no plan document
  Unjudged, NoRow, Blank, Free    \* no verdict, row, digest, lock holder

(***************************************************************************)
(* A plan document: who judged each finding, the ledger's rows, and        *)
(* whether the Layer matrix and Ranked targets have a Run column.          *)
(***************************************************************************)
Rows == [command : Commands, digest : Commands \cup {Blank}]

Docs == [findings : [Findings -> Writers \cup {Unjudged}],
         ledger   : [Evidence -> Rows \cup {NoRow}],
         scoped   : BOOLEAN]

Template == [findings |-> [f \in Findings |-> Unjudged],
             ledger |-> [e \in Evidence |-> NoRow],
             scoped |-> TRUE]

FileValues == Docs \cup {Missing, LinkTo, Torn}

AddJobs == [kind : {"add"}, path : Names, id : Findings, cites : Evidence]
UpgradeJobs == [kind : {"upgrade"}, path : Names]
AdmitJobs == [kind : {"admit"}, path : Names, record : SUBSET Evidence]
InitJobs == [kind : {"init"}, path : Names, force : BOOLEAN]
Invocations == AddJobs \cup UpgradeJobs \cup AdmitJobs \cup InitJobs

ASSUME PlanStoreAssumption ==
  /\ Real \in Names
  /\ Missing # LinkTo /\ Missing # Torn /\ LinkTo # Torn
  /\ {Missing, LinkTo, Torn} \cap Docs = {}
  /\ Starts \subseteq Docs \cup {Missing}
  /\ Jobs \subseteq Invocations
  /\ Unjudged \notin Writers /\ Free \notin Writers
  /\ NoRow \notin Rows /\ Blank \notin Commands

VARIABLES
  file,      \* [Names -> FileValues]
  lock,      \* [Names -> Writers \cup {Free}], by canonical path
  pc,        \* where each process is
  job,       \* its invocation
  target,    \* the path it reads and replaces
  key,       \* the canonical path its lock file is named after
  raw,       \* the plan it read
  replaced   \* history: plan init has truncated an existing plan

vars == <<file, lock, pc, job, target, key, raw, replaced>>

Labels == {"idle", "rows", "key", "wait", "granted", "read", "rename", "unlock",
           "late", "lateheld", "truncate", "fill"}

InvocationOK(p) ==
  /\ pc[p] # "idle" =>
       /\ job[p] \in Invocations
       /\ pc[p] \in {"truncate", "fill"} <=> job[p].kind = "init"
       /\ pc[p] \in {"rows", "granted", "late", "lateheld"} => job[p].kind = "admit"
       /\ pc[p] = "rename" \/ job[p].kind = "admit" => raw[p] \in Docs

TypeOK ==
  /\ file \in [Names -> FileValues] /\ file[Real] # LinkTo
  /\ lock \in [Names -> Writers \cup {Free}]
  /\ pc \in [Writers -> Labels]
  /\ target \in [Writers -> Names]
  /\ key \in [Writers -> Names]
  /\ raw \in [Writers -> Docs \cup {Missing}]
  /\ DOMAIN job = Writers
  /\ \A p \in Writers : InvocationOK(p)
  /\ replaced \in BOOLEAN

Init ==
  /\ \E d \in Starts : file = [n \in Names |-> IF n = Real THEN d ELSE LinkTo]
  /\ lock = [n \in Names |-> Free]
  /\ pc = [p \in Writers |-> "idle"]
  /\ job = [p \in Writers |-> Free]
  /\ target = [p \in Writers |-> Real]
  /\ key = [p \in Writers |-> Real]
  /\ raw = [p \in Writers |-> Missing]
  /\ replaced = FALSE

----------------------------------------------------------------------------
\* Reads, stats and writes in place follow a symlink.
Reached(n) == IF file[n] = LinkTo THEN Real ELSE n

Seen(n) == file[Reached(n)]

\* Mutant of Canonical: the spelling as it was given.
AsGiven(n) == n

\* EvalSymlinks needs the file to exist; a dangling link stays itself.
Canonical(n) == IF Seen(n) = Missing THEN n ELSE Reached(n)

\* A process that ended, whatever it did last, holds no lock.
Return(p) ==
  /\ pc' = [pc EXCEPT ![p] = "idle"]
  /\ job' = [job EXCEPT ![p] = Free]
  /\ target' = [target EXCEPT ![p] = Real]
  /\ key' = [key EXCEPT ![p] = Real]
  /\ raw' = [raw EXCEPT ![p] = Missing]

Released(p) == [n \in Names |-> IF lock[n] = p THEN Free ELSE lock[n]]

Goto(p, label) == pc' = [pc EXCEPT ![p] = label]

----------------------------------------------------------------------------
(***************************************************************************)
(* Starting a command.  AddFinding and Upgrade canonicalise the path they  *)
(* are given; admit keeps it, and reads the plan and checks the ids of     *)
(* --record before any lock.                                               *)
(***************************************************************************)
BeginWriter(p, j) ==
  /\ pc[p] = "idle"
  /\ j.kind \in {"add", "upgrade"}
  /\ job' = [job EXCEPT ![p] = j]
  /\ target' = [target EXCEPT ![p] = Canonical(j.path)]
  /\ Goto(p, "key")
  /\ UNCHANGED <<file, lock, key, raw, replaced>>

BeginAdmit(p, j) ==
  /\ pc[p] = "idle"
  /\ j.kind = "admit"
  /\ Seen(j.path) \in Docs
  /\ \A e \in j.record : Seen(j.path).ledger[e] # NoRow
  /\ job' = [job EXCEPT ![p] = j]
  /\ target' = [target EXCEPT ![p] = j.path]
  /\ raw' = [raw EXCEPT ![p] = Seen(j.path)]
  /\ Goto(p, "rows")
  /\ UNCHANGED <<file, lock, key, replaced>>

\* The rows run, for minutes.  Those admitted are recorded in the document
\* in memory; a run that admits none of them writes nothing.
RunRows(p) ==
  /\ pc[p] = "rows"
  /\ \E admitted \in SUBSET job[p].record :
       /\ admitted # {}
       /\ job' = [job EXCEPT ![p].record = admitted]
  /\ Goto(p, "key")
  /\ UNCHANGED <<file, lock, target, key, raw, replaced>>

----------------------------------------------------------------------------
\* LockPlan canonicalises once more and opens the lock file of that path.
OpenLock(p) ==
  /\ pc[p] = "key"
  /\ key' = [key EXCEPT ![p] = Canonical(target[p])]
  /\ Goto(p, "wait")
  /\ UNCHANGED <<file, lock, job, target, raw, replaced>>

\* Mutant of Lock: an advisory lock that is shared.
SharedLock(p) ==
  /\ pc[p] = "wait"
  /\ lock' = [lock EXCEPT ![key[p]] = p]
  /\ Goto(p, IF job[p].kind = "admit" THEN "granted" ELSE "read")
  /\ UNCHANGED <<file, job, target, key, raw, replaced>>

\* flock(LOCK_EX).  Admit takes its lock in a goroutine, which has to hand it
\* over.
Lock(p) ==
  /\ pc[p] = "wait"
  /\ lock[key[p]] = Free
  /\ lock' = [lock EXCEPT ![key[p]] = p]
  /\ Goto(p, IF job[p].kind = "admit" THEN "granted" ELSE "read")
  /\ UNCHANGED <<file, job, target, key, raw, replaced>>

TakeOver(p) ==
  /\ pc[p] = "granted"
  /\ Goto(p, "read")
  /\ UNCHANGED <<file, lock, job, target, key, raw, replaced>>

\* Mutant of Timeout: the bound is looked at after the lock was granted.
TimeoutWhenGranted(p) ==
  /\ pc[p] = "granted"
  /\ Goto(p, "lateheld")
  /\ UNCHANGED <<file, lock, job, target, key, raw, replaced>>

\* planLockWait is over.  The goroutine may hold the lock already: select
\* takes either of two ready channels.
Timeout(p) ==
  /\ \/ pc[p] \in {"key", "wait"} /\ job[p].kind = "admit" /\ Goto(p, "late")
     \/ pc[p] = "granted" /\ Goto(p, "lateheld")
  /\ UNCHANGED <<file, lock, job, target, key, raw, replaced>>

\* A grant after the timeout is given back by a second goroutine, if the
\* process is still there.
LateLock(p) ==
  /\ pc[p] = "late"
  /\ lock[key[p]] = Free
  /\ lock' = [lock EXCEPT ![key[p]] = p]
  /\ Goto(p, "lateheld")
  /\ UNCHANGED <<file, job, target, key, raw, replaced>>

Exit(p) ==
  /\ pc[p] \in {"late", "lateheld"}
  /\ lock' = Released(p)
  /\ Return(p)
  /\ UNCHANGED <<file, replaced>>

----------------------------------------------------------------------------
\* add-finding refuses an id that is judged and evidence that is not there;
\* upgrade has nothing to do when the Run columns are there.
Accepts(j, d) ==
  \/ j.kind = "add" /\ d.findings[j.id] = Unjudged /\ d.ledger[j.cites] # NoRow
  \/ j.kind = "upgrade" /\ ~d.scoped

\* RecordDigest on every admitted row.
Recorded(ledger, rows) ==
  [e \in Evidence |-> IF e \in rows THEN [ledger[e] EXCEPT !.digest = ledger[e].command]
                                    ELSE ledger[e]]

\* Mutant of Candidate: the location in the place of the verdict's author.
ShiftedCandidate(p) ==
  CASE job[p].kind = "add"     -> [raw[p] EXCEPT !.findings[job[p].id] = job[p].path]
    [] job[p].kind = "upgrade" -> [raw[p] EXCEPT !.scoped = TRUE]
    [] job[p].kind = "admit"   -> [raw[p] EXCEPT !.ledger = Recorded(@, job[p].record)]

Candidate(p) ==
  CASE job[p].kind = "add"     -> [raw[p] EXCEPT !.findings[job[p].id] = p]
    [] job[p].kind = "upgrade" -> [raw[p] EXCEPT !.scoped = TRUE]
    [] job[p].kind = "admit"   -> [raw[p] EXCEPT !.ledger = Recorded(@, job[p].record)]

\* addFinding and upgrade read the plan they will replace under the lock.
ReadPlan(p) ==
  /\ pc[p] = "read"
  /\ job[p].kind # "admit"
  /\ Seen(target[p]) \in Docs
  /\ Accepts(job[p], Seen(target[p]))
  /\ raw' = [raw EXCEPT ![p] = Seen(target[p])]
  /\ Goto(p, "rename")
  /\ UNCHANGED <<file, lock, job, target, key, replaced>>

\* Mutant of CompareWithRead: the plan on disk is not read again.
TrustRead(p) ==
  /\ pc[p] = "read"
  /\ job[p].kind = "admit"
  /\ Goto(p, "rename")
  /\ UNCHANGED <<file, lock, job, target, key, raw, replaced>>

\* writeRecorded refuses a plan that is not the one the rows were read from.
CompareWithRead(p) ==
  /\ pc[p] = "read"
  /\ job[p].kind = "admit"
  /\ Seen(target[p]) = raw[p]
  /\ Goto(p, "rename")
  /\ UNCHANGED <<file, lock, job, target, key, raw, replaced>>

\* writePlan and writeRecordedAtomically.  A rename replaces what is at the
\* target, a symlink too.
Rename(p) ==
  /\ pc[p] = "rename"
  /\ file' = [file EXCEPT ![target[p]] = Candidate(p)]
  /\ Goto(p, "unlock")
  /\ UNCHANGED <<lock, job, target, key, raw, replaced>>

Unlock(p) ==
  /\ pc[p] = "unlock"
  /\ lock' = Released(p)
  /\ Return(p)
  /\ UNCHANGED <<file, replaced>>

\* Mutant of Refuse: a return without the deferred unlock.
RefuseLocked(p) ==
  /\ pc[p] \in {"rows", "key", "read", "rename"}
  /\ Return(p)
  /\ UNCHANGED <<file, lock, replaced>>

\* The command returns before it changes the plan: a refusal, a plan that
\* changed, no row admitted, nothing to upgrade, or a system call that fails.
\* (A flock that fails is a Crash: nothing forces it to happen.)
Refuse(p) ==
  /\ pc[p] \in {"rows", "key", "read", "rename"}
  /\ lock' = Released(p)
  /\ Return(p)
  /\ UNCHANGED <<file, replaced>>

----------------------------------------------------------------------------
\* initFrom: the stat, the truncation and the write of the template, without
\* a lock.
BeginInit(p, j) ==
  /\ pc[p] = "idle"
  /\ j.kind = "init"
  /\ Seen(j.path) = Missing \/ j.force
  /\ job' = [job EXCEPT ![p] = j]
  /\ Goto(p, "truncate")
  /\ UNCHANGED <<file, lock, target, key, raw, replaced>>

InitTruncate(p) ==
  /\ pc[p] = "truncate"
  /\ file' = [file EXCEPT ![Reached(job[p].path)] = Torn]
  /\ target' = [target EXCEPT ![p] = Reached(job[p].path)]
  /\ replaced' = (replaced \/ (Reached(job[p].path) = Real /\ file[Real] \in Docs))
  /\ Goto(p, "fill")
  /\ UNCHANGED <<lock, job, key, raw>>

\* A rename in between has put another file at the path: the template then
\* goes to the file that was there before.
InitFill(p) ==
  /\ pc[p] = "fill"
  /\ file' = [file EXCEPT ![target[p]] = IF @ = Torn THEN Template ELSE @]
  /\ Return(p)
  /\ UNCHANGED <<lock, replaced>>

----------------------------------------------------------------------------
\* The process dies; the kernel frees its lock.
Crash(p) ==
  /\ pc[p] # "idle"
  /\ lock' = Released(p)
  /\ Return(p)
  /\ UNCHANGED <<file, replaced>>

\* The user adds a row to the ledger or gives one another command.  An editor
\* takes no lock: this is a user who does not save while a command writes.
EditPlan(e, c) ==
  /\ file[Real] \in Docs
  /\ lock[Real] = Free
  /\ file[Real].ledger[e] # NoRow => file[Real].ledger[e].command # c
  /\ file' = [file EXCEPT ![Real].ledger[e] = [command |-> c, digest |-> Blank]]
  /\ UNCHANGED <<lock, pc, job, target, key, raw, replaced>>

Begin(p) == \E j \in Jobs : BeginWriter(p, j) \/ BeginAdmit(p, j) \/ BeginInit(p, j)

\* What a command that was started does by itself.
Step(p) ==
  \/ RunRows(p) \/ OpenLock(p) \/ Lock(p) \/ TakeOver(p)
  \/ Timeout(p) \/ LateLock(p) \/ Exit(p)
  \/ ReadPlan(p) \/ CompareWithRead(p) \/ Rename(p) \/ Unlock(p) \/ Refuse(p)
  \/ InitTruncate(p) \/ InitFill(p)

Next ==
  \/ \E p \in Writers : Begin(p) \/ Step(p) \/ Crash(p)
  \/ \E e \in Evidence, c \in Commands : EditPlan(e, c)

Spec == Init /\ [][Next]_vars

----------------------------------------------------------------------------
(***************************************************************************)
(* Properties.                                                             *)
(***************************************************************************)

\* What PlanLog calls the plan: no document yet is no plan, and after a plan
\* init that truncated a plan the promise is over.
Log == INSTANCE PlanLog WITH
  NoPlan <- Missing, Replaced <- Torn,
  log <- IF replaced THEN Torn
         ELSE IF file[Real] \in Docs THEN file[Real] ELSE Missing

\* The plan file is a log: whatever the commands interleave, and through
\* whatever path they reach the plan, each one changes the plan as it stands.
\* No verdict is lost or overwritten, no digest lands beside another command
\* than the one that was run, no user's row disappears (addFinding, upgrade,
\* writeRecorded).
ImplementsPlanLog == Log!Spec

\* What a command knows of the plan it read: the rows it records are there, and
\* the checks of its own have passed.
Checked ==
  \A p \in Writers :
    /\ pc[p] # "idle" /\ job[p].kind = "admit"
         => \A e \in job[p].record : raw[p].ledger[e] # NoRow
    /\ pc[p] = "rename" /\ job[p].kind # "admit" => Accepts(job[p], raw[p])

\* From the grant to the unlock a writer holds the lock it asked for, and a
\* writer that will replace the plan asked for the plan's.
LockHeld ==
  \A p \in Writers :
    /\ pc[p] \in {"granted", "read", "rename", "unlock"} => lock[key[p]] = p
    /\ pc[p] \in {"wait", "granted", "read", "rename", "unlock"} /\ target[p] = Real
         => key[p] = Real

\* Between the check a writer makes and its rename nobody changes the plan:
\* "a check a writer makes about the file it is about to replace cannot be
\* invalidated by another writer" (addfinding.go, LockPlan).
ReadCurrent ==
  \A p \in Writers :
    pc[p] = "rename" /\ target[p] = Real /\ ~replaced => raw[p] = file[Real]

\* A command that replaced the plan did so where every spelling of it leads:
\* the plan file holds what it wrote when it gives the lock back (canonicalPath,
\* writeRecordedAtomically).
WrittenIsReached ==
  \A p \in Writers :
    pc[p] = "unlock" /\ ~replaced => file[Real] = Candidate(p)

\* plan init without --force never truncates a plan (plan.go, Init).
ExistingPlanKept ==
  [][\A p \in Writers :
       InitTruncate(p) /\ ~job[p].force => Seen(job[p].path) \notin Docs]_vars

(***************************************************************************)
(* Fairness.  A recording admit runs: its rows have a timeout each, its    *)
(* timer fires, its process exits.  Nothing is assumed of the others.      *)
(***************************************************************************)
AdmitStep(p) == pc[p] # "idle" /\ job[p].kind = "admit" /\ Step(p)

FairSpec == Spec /\ \A p \in Writers : WF_vars(AdmitStep(p))

\* A recording admit returns even if the holder of the lock never does
\* (lockPlanWithBound).
AdmitReturns ==
  \A p \in Writers :
    (pc[p] # "idle" /\ job[p].kind = "admit") ~> pc[p] = "idle"

\* If every command that was started runs on, and a waiting one gets the lock
\* when it is free again and again, every command returns: no lock is kept by
\* a command that is done (UnlockPlan in every defer).
WritersReturn ==
  (\A p \in Writers : WF_vars(Step(p)) /\ SF_vars(Lock(p)))
    => \A p \in Writers : pc[p] # "idle" ~> pc[p] = "idle"
=============================================================================
