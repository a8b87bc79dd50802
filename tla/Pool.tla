-------------------------------- MODULE Pool --------------------------------
(***************************************************************************)
(* What schedule and runUnits promise of any set of units: a unit ends at  *)
(* most once, ran or skipped; at most Workers run at a time; nothing       *)
(* starts once the recorded spending has reached the ceiling.  It knows    *)
(* nothing of what a unit does; one that never ends keeps its slot.        *)
(* Bench.tla implements it.                                                *)
(***************************************************************************)
EXTENDS Naturals, FiniteSets

CONSTANTS
  Units,     \* one case at one run each
  Workers,   \* units that may run at once
  Ceilings,  \* MaxCostUSD in cost units; 0 is no ceiling
  MaxUnit    \* bound of a model: the most one unit can cost

PoolAssumption ==
  /\ IsFiniteSet(Units)
  /\ Workers \in Nat \ {0}
  /\ Ceilings \subseteq Nat
  /\ MaxUnit \in Nat

VARIABLES
  state,   \* unit -> "waiting" | "held" | "running" | "ran" | "skipped"
  spent,   \* what the finished units recorded
  ceiling  \* the one this run was given

poolVars == <<state, spent, ceiling>>

States == {"waiting", "held", "running", "ran", "skipped"}
PoolTypeOK ==
  state \in [Units -> States] /\ spent \in Nat /\ ceiling \in Ceilings

Working == {u \in Units : state[u] \in {"held", "running"}}

PoolInit ==
  /\ state = [u \in Units |-> "waiting"]
  /\ spent = 0
  /\ ceiling \in Ceilings

Move(u, from, to) ==
  state[u] = from /\ state' = [state EXCEPT ![u] = to]

\* A free slot of the semaphore is taken.
Hold(u) ==
  /\ Cardinality(Working) < Workers
  /\ Move(u, "waiting", "held")
  /\ UNCHANGED <<spent, ceiling>>

Launch(u) ==
  /\ ceiling = 0 \/ spent < ceiling
  /\ Move(u, "held", "running")
  /\ UNCHANGED <<spent, ceiling>>

Skip(u) ==
  /\ ceiling > 0 /\ spent >= ceiling
  /\ Move(u, "held", "skipped")
  /\ UNCHANGED <<spent, ceiling>>

\* A unit that crashed, or that cannot run, records nothing.
End(u) ==
  /\ \/ Move(u, "running", "ran") /\ \E c \in 0..MaxUnit : spent' = spent + c
     \/ Move(u, "held", "ran") /\ UNCHANGED spent
  /\ UNCHANGED ceiling

PoolNext == \E u \in Units : Hold(u) \/ Launch(u) \/ Skip(u) \/ End(u)

PoolSpec == PoolInit /\ [][PoolNext]_poolVars

-----------------------------------------------------------------------------

\* The semaphore: at most Workers units are between start and end.
SlotsRespected == Cardinality(Working) <= Workers

\* A unit is skipped only by a ceiling that has been reached, and it stays
\* reached: nothing the run does later can make the skip unexplained.
SkipIsExplained ==
  (\E u \in Units : state[u] = "skipped") => ceiling > 0 /\ spent >= ceiling

\* Once a unit has been skipped none is launched any more.
NoLaunchAfterSkip ==
  [][(\E u \in Units : state[u] = "skipped")
       => \A u \in Units : state[u] # "running" => state'[u] # "running"]_poolVars
=============================================================================
