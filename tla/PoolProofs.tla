----------------------------- MODULE PoolProofs -----------------------------
(***************************************************************************)
(* Theorems about Pool, for every set of units, number of workers, ceiling *)
(* and cost.                                                               *)
(***************************************************************************)
EXTENDS Pool, FiniteSetTheorems, TLAPS

\* What a step does to the states: one unit moves, along one of five edges.
LEMMA OneMove ==
  ASSUME PoolTypeOK, NEW u \in Units, NEW from, NEW to \in States, Move(u, from, to)
  PROVE  /\ state' \in [Units -> States]
         /\ state[u] = from /\ state'[u] = to
         /\ \A w \in Units \ {u} : state'[w] = state[w]
  BY DEF Move, PoolTypeOK

\* The state of every unit is one of the five, and spending is a number.
THEOREM PoolTypeCorrect ==
  ASSUME PoolAssumption PROVE PoolSpec => []PoolTypeOK
<1>1. PoolInit => PoolTypeOK
  BY PoolAssumption DEF PoolInit, PoolTypeOK, States
<1>2. PoolTypeOK /\ [PoolNext]_poolVars => PoolTypeOK'
  <2> SUFFICES ASSUME PoolTypeOK, [PoolNext]_poolVars PROVE PoolTypeOK'
    OBVIOUS
  <2>1. CASE UNCHANGED poolVars
    BY <2>1 DEF poolVars, PoolTypeOK
  <2>2. ASSUME NEW u \in Units, Hold(u) \/ Launch(u) \/ Skip(u) \/ End(u)
        PROVE  PoolTypeOK'
    <3>1. CASE Hold(u)
      BY <3>1, OneMove DEF Hold, PoolTypeOK, States
    <3>2. CASE Launch(u)
      BY <3>2, OneMove DEF Launch, PoolTypeOK, States
    <3>3. CASE Skip(u)
      BY <3>3, OneMove DEF Skip, PoolTypeOK, States
    <3>4. CASE End(u)
      <4>1. state' \in [Units -> States] /\ ceiling' \in Ceilings
        BY <3>4, OneMove DEF End, PoolTypeOK, States
      <4>2. spent' \in Nat
        BY <3>4, PoolAssumption DEF End, PoolTypeOK, PoolAssumption
      <4>3. QED  BY <4>1, <4>2 DEF PoolTypeOK
    <3>5. QED  BY <2>2, <3>1, <3>2, <3>3, <3>4
  <2>3. QED  BY <2>1, <2>2 DEF PoolNext
<1>3. QED  BY <1>1, <1>2, PTL DEF PoolSpec

-----------------------------------------------------------------------------
(* The semaphore. *)

LEMMA WorkingFinite ==
  ASSUME PoolAssumption PROVE IsFiniteSet(Working)
  BY PoolAssumption, FS_Subset DEF PoolAssumption, Working

\* At most Workers units are between the taking and the giving back of a slot.
THEOREM SlotsAreRespected ==
  ASSUME PoolAssumption PROVE PoolSpec => []SlotsRespected
<1>1. PoolInit => SlotsRespected
  <2> SUFFICES ASSUME PoolInit PROVE SlotsRespected
    OBVIOUS
  <2>1. Working = {}
    BY DEF PoolInit, Working
  <2>2. QED
    BY <2>1, FS_EmptySet, PoolAssumption DEF SlotsRespected, PoolAssumption
<1>2. PoolTypeOK /\ SlotsRespected /\ [PoolNext]_poolVars => SlotsRespected'
  <2> SUFFICES ASSUME PoolTypeOK, SlotsRespected, [PoolNext]_poolVars
               PROVE  SlotsRespected'
    OBVIOUS
  <2>0. IsFiniteSet(Working) /\ Workers \in Nat /\ Cardinality(Working) \in Nat
    BY WorkingFinite, FS_CardinalityType, PoolAssumption DEF PoolAssumption
  <2>1. CASE UNCHANGED poolVars
    BY <2>1 DEF poolVars, SlotsRespected, Working
  <2>2. ASSUME NEW u \in Units, Hold(u) PROVE SlotsRespected'
    <3>1. Working' = Working \cup {u}
      BY <2>2, OneMove DEF Hold, Working, States
    <3>2. Cardinality(Working') <= Cardinality(Working) + 1
      BY <2>0, <3>1, FS_AddElement
    <3>3. QED
      BY <2>0, <2>2, <3>2, FS_CardinalityType, FS_AddElement, <3>1 DEF Hold, SlotsRespected
  <2>3. ASSUME NEW u \in Units, Launch(u) \/ Skip(u) \/ End(u)
        PROVE  SlotsRespected'
    <3>1. Working' \subseteq Working
      <4>1. CASE Launch(u)
        BY <4>1, OneMove DEF Launch, Working, States
      <4>2. CASE Skip(u)
        BY <4>2, OneMove DEF Skip, Working, States
      <4>3. CASE End(u)
        BY <4>3, OneMove DEF End, Working, States
      <4>4. QED  BY <2>3, <4>1, <4>2, <4>3
    <3>2. Cardinality(Working') <= Cardinality(Working)
          /\ Cardinality(Working') \in Nat
      BY <2>0, <3>1, FS_Subset, FS_CardinalityType
    <3>3. QED  BY <2>0, <3>2 DEF SlotsRespected
  <2>4. QED  BY <2>1, <2>2, <2>3 DEF PoolNext
<1>3. QED  BY <1>1, <1>2, PoolTypeCorrect, PTL DEF PoolSpec

-----------------------------------------------------------------------------
(* The budget. *)

\* Spending never falls, and the ceiling of a run is the one it was given.
LEMMA SpentGrows ==
  ASSUME PoolAssumption, PoolTypeOK, [PoolNext]_poolVars
  PROVE  spent' \in Nat /\ spent' >= spent /\ ceiling' = ceiling
<1>1. CASE UNCHANGED poolVars
  BY <1>1 DEF poolVars, PoolTypeOK
<1>2. ASSUME NEW u \in Units, Hold(u) \/ Launch(u) \/ Skip(u)
      PROVE  spent' = spent /\ ceiling' = ceiling
  BY <1>2 DEF Hold, Launch, Skip
<1>3. ASSUME NEW u \in Units, End(u)
      PROVE  spent' \in Nat /\ spent' >= spent /\ ceiling' = ceiling
  BY <1>3 DEF End, PoolTypeOK, PoolAssumption
<1>4. QED  BY <1>1, <1>2, <1>3 DEF PoolNext, PoolTypeOK

\* Only a unit that was held while the ceiling stood reached becomes skipped.
LEMMA SkipNeedsCeiling ==
  ASSUME PoolTypeOK, [PoolNext]_poolVars, NEW w \in Units,
         state'[w] = "skipped", state[w] # "skipped"
  PROVE  ceiling > 0 /\ spent >= ceiling
<1>1. PICK u \in Units : Hold(u) \/ Launch(u) \/ Skip(u) \/ End(u)
  BY DEF PoolNext, poolVars
<1>2. CASE Skip(u)
  BY <1>2 DEF Skip
<1>3. CASE Hold(u) \/ Launch(u) \/ End(u)
  <2>1. \E from \in States, to \in States \ {"skipped"} : Move(u, from, to)
    BY <1>3 DEF Hold, Launch, End, States
  <2>2. QED  BY <2>1, OneMove
<1>4. QED  BY <1>1, <1>2, <1>3

\* A unit the run left out is explained by the budget, for good: the tally that
\* recomputes the ceiling from the recorded costs cannot disagree.
THEOREM SkipsAreExplained ==
  ASSUME PoolAssumption PROVE PoolSpec => []SkipIsExplained
<1>1. PoolInit => SkipIsExplained
  BY DEF PoolInit, SkipIsExplained
<1>2. PoolTypeOK /\ SkipIsExplained /\ [PoolNext]_poolVars => SkipIsExplained'
  <2> SUFFICES ASSUME PoolTypeOK, SkipIsExplained, [PoolNext]_poolVars,
                      NEW w \in Units, state'[w] = "skipped"
               PROVE  (ceiling > 0 /\ spent >= ceiling)'
    BY DEF SkipIsExplained
  <2>1. ceiling > 0 /\ spent >= ceiling
    BY SkipNeedsCeiling DEF SkipIsExplained
  <2>2. QED
    BY <2>1, SpentGrows, PoolAssumption DEF PoolTypeOK, PoolAssumption
<1>3. QED  BY <1>1, <1>2, PoolTypeCorrect, PTL DEF PoolSpec

\* After the first skipped unit no other one is launched.
THEOREM NoLaunchesAfterSkip ==
  ASSUME PoolAssumption PROVE PoolSpec => NoLaunchAfterSkip
<1> DEFINE A == (\E u \in Units : state[u] = "skipped")
                => \A u \in Units : state[u] # "running" => state'[u] # "running"
<1>1. PoolTypeOK /\ SkipIsExplained /\ [PoolNext]_poolVars => [A]_poolVars
  <2> SUFFICES ASSUME PoolTypeOK, SkipIsExplained, [PoolNext]_poolVars,
                      \E u \in Units : state[u] = "skipped",
                      NEW w \in Units, state[w] # "running", state'[w] = "running"
               PROVE  FALSE
    OBVIOUS
  <2>1. ceiling > 0 /\ spent >= ceiling
    BY DEF SkipIsExplained
  <2>2. PICK u \in Units : Hold(u) \/ Launch(u) \/ Skip(u) \/ End(u)
    BY DEF PoolNext, poolVars
  <2>3. ~Launch(u)
    BY <2>1, PoolAssumption DEF Launch, PoolTypeOK, PoolAssumption
  <2>4. \E from \in States, to \in States \ {"running"} : Move(u, from, to)
    BY <2>2, <2>3 DEF Hold, Skip, End, States
  <2>5. QED  BY <2>4, OneMove
<1>2. QED
  BY <1>1, PoolTypeCorrect, SkipsAreExplained, PTL DEF PoolSpec, NoLaunchAfterSkip
=============================================================================
