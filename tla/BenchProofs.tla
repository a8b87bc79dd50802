----------------------------- MODULE BenchProofs -----------------------------
(***************************************************************************)
(* What holds of a benchmark run whatever its cases, its agents, its       *)
(* budget and its number of workers: the pool implements its abstraction   *)
(* (Pool.tla), what a run overspends was in flight, its exit code tells    *)
(* the truth about its record, a miss keeps its workspace, a test credited *)
(* with a defect proves it, a rescore reads what the run read, and what a  *)
(* reader decided stands.                                                  *)
(***************************************************************************)
EXTENDS Bench, FiniteSetTheorems, WellFoundedInduction, SequenceTheorems, TLAPS

(***************************************************************************)
(* Induction, as facts about sets of numbers and of finite sets.           *)
(***************************************************************************)

LEMMA NatSets ==
  ASSUME NEW T, 0 \in T, \A n \in Nat : n \in T => n + 1 \in T
  PROVE  Nat \subseteq T
<1> SUFFICES ASSUME Nat \ T # {} PROVE FALSE
  OBVIOUS
<1>1. \E n \in Nat \ T : \A m \in Nat \ T : <<m, n>> \notin OpToRel(<, Nat)
  BY WFMin, NatLessThanWellFounded, Nat \ T \subseteq Nat
<1>2. PICK n \in Nat \ T : \A m \in Nat \ T : <<m, n>> \notin OpToRel(<, Nat)
  BY <1>1
<1>3. \A m \in Nat \ T : ~(m < n)
  BY <1>2 DEF OpToRel
<1>4. n \in Nat /\ n \notin T /\ n # 0
  OBVIOUS
<1>5. n - 1 \in Nat /\ n - 1 < n /\ (n - 1) + 1 = n
  BY <1>4
<1>6. n - 1 \in T
  BY <1>3, <1>5
<1> QED
  BY <1>4, <1>5, <1>6


(***************************************************************************)
(* Sums over a finite set: SumFunctionOnSet is well defined, does not      *)
(* depend on the order in which the elements are taken, and is not changed *)
(* by elements that add nothing.                                           *)
(***************************************************************************)
First(s) == CHOOSE x \in s : TRUE
Rest(s) == s \ {First(s)}
SumBody(f, S, g) == g = [s \in SUBSET S |-> IF s = {} THEN 0 ELSE f[First(s)] + g[Rest(s)]]

\* The recursion of a sum has a solution on the subsets of a finite set.
LEMMA SumIsDefined ==
  ASSUME NEW f, NEW S, IsFiniteSet(S)
  PROVE  \E g : SumBody(f, S, g)
<1> DEFINE Upto(n) == {s \in SUBSET S : Cardinality(s) <= n}
<1> DEFINE Ok(n, g) ==
      g = [s \in Upto(n) |-> IF s = {} THEN 0 ELSE f[First(s)] + g[Rest(s)]]
<1> DEFINE T == {n \in Nat : \E g : Ok(n, g)}
<1>1. \A s \in SUBSET S : /\ IsFiniteSet(s) /\ Cardinality(s) \in Nat
                          /\ (s = {} <=> Cardinality(s) = 0)
                          /\ Cardinality(s) <= Cardinality(S)
  BY FS_Subset, FS_CardinalityType, FS_EmptySet
<1>2. \A s \in SUBSET S : s # {} =>
        First(s) \in s /\ Rest(s) \in SUBSET S /\ Cardinality(Rest(s)) = Cardinality(s) - 1
  BY <1>1, FS_RemoveElement DEF First, Rest
<1>3. 0 \in T
  <2> DEFINE G == [s \in Upto(0) |-> 0]
  <2>1. \A s \in Upto(0) : s = {}
    BY <1>1
  <2>2. Ok(0, G)
    BY <2>1
  <2> QED
    BY <2>2
<1>4. ASSUME NEW n \in Nat, n \in T PROVE n + 1 \in T
  <2> PICK g : Ok(n, g)
    BY <1>4
  <2> DEFINE H == [s \in Upto(n + 1) |-> IF s = {} THEN 0 ELSE f[First(s)] + g[Rest(s)]]
  <2>1. \A s \in Upto(n) : H[s] = g[s] /\ s \in Upto(n + 1)
    BY <1>1
  <2>2. \A s \in Upto(n + 1) : s # {} => Rest(s) \in Upto(n)
    BY <1>1, <1>2
  <2>3. \A s \in Upto(n + 1) : s # {} => g[Rest(s)] = H[Rest(s)]
    BY <2>1, <2>2
  <2>4. Ok(n + 1, H)
    <3> HIDE DEF Upto
    <3> QED BY <2>3
  <2> QED
    <3> HIDE DEF Ok, H
    <3> QED BY <2>4
<1>5. Cardinality(S) \in T
  BY <1>1, <1>3, <1>4, NatSets, Cardinality(S) \in Nat
<1>6. Upto(Cardinality(S)) = SUBSET S
  BY <1>1
<1> QED
  BY <1>5, <1>6 DEF SumBody

SumStep(f, S, g) == 
 \A s \in SUBSET S : g[s] = IF s = {} THEN 0 ELSE f[First(s)] + g[Rest(s)]

LEMMA SumUnfolds ==
  ASSUME NEW f, NEW S, IsFiniteSet(S)
  PROVE  \E g : SumStep(f, S, g) /\ SumFunctionOnSet(f, S) = g[S]
<1> DEFINE G == CHOOSE g : g = [s \in SUBSET S |-> IF s = {} THEN 0 ELSE f[CHOOSE x \in s : TRUE] + g[s \ {CHOOSE x \in s : TRUE}]]
<1>1. SumFunctionOnSet(f, S) = G[S]
  BY DEF SumFunctionOnSet, FoldFunctionOnSet, MapThenFoldSet
<1>2. G = CHOOSE g : SumBody(f, S, g)
  BY DEF SumBody, First, Rest
<1>3. SumBody(f, S, G)
  BY <1>2, SumIsDefined
<1>4. SumStep(f, S, G)
  <2> HIDE DEF G
  <2> QED BY <1>3 DEF SumBody, SumStep
<1> QED
  BY <1>1, <1>4


LEMMA Firsts ==
  ASSUME NEW S, IsFiniteSet(S), S # {}
  PROVE  /\ First(S) \in S /\ First(S) \notin Rest(S) /\ S = Rest(S) \cup {First(S)}
         /\ Rest(S) \subseteq S /\ IsFiniteSet(Rest(S))
         /\ Cardinality(S) \in Nat /\ Cardinality(Rest(S)) = Cardinality(S) - 1
<1>1. First(S) \in S
  BY DEF First
<1>2. Cardinality(S) \in Nat /\ Cardinality(Rest(S)) = Cardinality(S) - 1
  BY <1>1, FS_CardinalityType, FS_RemoveElement DEF Rest
<1> QED
  BY <1>1, <1>2, FS_Subset DEF Rest

LEMMA SubsetInduction ==
  ASSUME NEW S, IsFiniteSet(S), NEW T, {} \in T,
         \A s \in SUBSET S : s # {} /\ Rest(s) \in T => s \in T
  PROVE  SUBSET S \subseteq T
<1> DEFINE N == {n \in Nat : \A s \in SUBSET S : Cardinality(s) = n => s \in T}
<1>1. \A s \in SUBSET S : IsFiniteSet(s) /\ Cardinality(s) \in Nat /\ (Cardinality(s) = 0 => s = {})
  BY FS_Subset, FS_CardinalityType, FS_EmptySet
<1>2. 0 \in N
  BY <1>1
<1>3. ASSUME NEW n \in Nat, n \in N PROVE n + 1 \in N
  <2> SUFFICES ASSUME NEW s \in SUBSET S, Cardinality(s) = n + 1 PROVE s \in T
    OBVIOUS
  <2>1. s # {}
    BY FS_EmptySet
  <2>2. Rest(s) \in SUBSET S /\ Cardinality(Rest(s)) = n
    BY <1>1, <2>1, Firsts
  <2> QED
    BY <1>3, <2>1, <2>2
<1>4. Nat \subseteq N
  <2> HIDE DEF N
  <2> QED BY <1>2, <1>3, NatSets
<1> QED
  BY <1>1, <1>4

LEMMA SumsAgree ==
  ASSUME NEW f1, NEW f2, NEW S1, NEW S2, NEW g1, NEW g2, NEW S,
         SumStep(f1, S1, g1), SumStep(f2, S2, g2),
         IsFiniteSet(S), S \subseteq S1, S \subseteq S2, \A x \in S : f1[x] = f2[x]
  PROVE  g1[S] = g2[S]
<1> DEFINE T == {s \in SUBSET S : g1[s] = g2[s]}
<1>1. {} \in T
  BY DEF SumStep
<1>2. ASSUME NEW s \in SUBSET S, s # {}, Rest(s) \in T PROVE s \in T
  <2>1. First(s) \in S
    BY <1>2, Firsts, FS_Subset
  <2> QED
    BY <1>2, <2>1 DEF SumStep
<1>3. SUBSET S \subseteq T
  <2> HIDE DEF T
  <2> QED BY <1>1, <1>2, SubsetInduction
<1> QED
  BY <1>3

LEMMA SumOfSame ==
  ASSUME NEW f1, NEW f2, NEW S, IsFiniteSet(S), \A x \in S : f1[x] = f2[x]
  PROVE  SumFunctionOnSet(f1, S) = SumFunctionOnSet(f2, S)
<1>1. PICK g1 : SumStep(f1, S, g1) /\ SumFunctionOnSet(f1, S) = g1[S]
  BY SumUnfolds
<1>2. PICK g2 : SumStep(f2, S, g2) /\ SumFunctionOnSet(f2, S) = g2[S]
  BY SumUnfolds
<1>3. g1[S] = g2[S]
  <2>1. ASSUME NEW S1, NEW S2, S1 = S, S2 = S PROVE g1[S] = g2[S]
    <3>1. SumStep(f1, S1, g1) /\ SumStep(f2, S2, g2) /\ S \subseteq S1 /\ S \subseteq S2
      BY <1>1, <1>2, <2>1
    <3> QED
      BY <3>1, SumsAgree
  <2> QED
    BY <2>1
<1> QED
  BY <1>1, <1>2, <1>3

LEMMA SumOfNone ==
  ASSUME NEW f
  PROVE  SumFunctionOnSet(f, {}) = 0
BY FS_EmptySet, SumUnfolds DEF SumStep

\* A sum over a part of a set that is itself finite.
LEMMA SumSplits ==
  ASSUME NEW f, NEW S, IsFiniteSet(S), S # {}
  PROVE  SumFunctionOnSet(f, S) = f[First(S)] + SumFunctionOnSet(f, Rest(S))
<1>1. First(S) \in S /\ Rest(S) \subseteq S /\ IsFiniteSet(Rest(S))
  BY Firsts
<1>2. PICK g : SumStep(f, S, g) /\ SumFunctionOnSet(f, S) = g[S]
  BY SumUnfolds
<1>3. PICK h : SumStep(f, Rest(S), h) /\ SumFunctionOnSet(f, Rest(S)) = h[Rest(S)]
  BY <1>1, SumUnfolds
<1>4. g[Rest(S)] = h[Rest(S)]
  BY <1>1, <1>2, <1>3, SumsAgree
<1> QED
  BY <1>1, <1>2, <1>3, <1>4 DEF SumStep

LEMMA SumIsNat ==
  ASSUME NEW f, NEW S, IsFiniteSet(S), \A x \in S : f[x] \in Nat
  PROVE  SumFunctionOnSet(f, S) \in Nat
<1> DEFINE T == {s \in SUBSET S : SumFunctionOnSet(f, s) \in Nat}
<1>1. {} \in T
  BY SumOfNone
<1>2. ASSUME NEW s \in SUBSET S, s # {}, Rest(s) \in T PROVE s \in T
  <2>1. IsFiniteSet(s) /\ First(s) \in S
    BY <1>2, Firsts, FS_Subset
  <2> QED
    BY <1>2, <2>1, SumSplits
<1>3. SUBSET S \subseteq T
  <2> HIDE DEF T
  <2> QED BY <1>1, <1>2, SubsetInduction
<1> QED
  BY <1>3

\* The order of a sum does not matter.
LEMMA SumWithout ==
  ASSUME NEW f, NEW S, IsFiniteSet(S), \A x \in S : f[x] \in Nat, NEW u \in S
  PROVE  SumFunctionOnSet(f, S) = f[u] + SumFunctionOnSet(f, S \ {u})
<1> DEFINE Ok(s) == \A v \in s : SumFunctionOnSet(f, s) = f[v] + SumFunctionOnSet(f, s \ {v})
<1> DEFINE T == {s \in SUBSET S : Ok(s)}
<1>1. \A s \in SUBSET S : IsFiniteSet(s) /\ SumFunctionOnSet(f, s) \in Nat
  BY FS_Subset, SumIsNat
<1> DEFINE N == {n \in Nat : \A s \in SUBSET S : Cardinality(s) = n => Ok(s)}
<1>2. 0 \in N
  BY <1>1, FS_EmptySet
<1>3. ASSUME NEW n \in Nat, n \in N PROVE n + 1 \in N
  <2> SUFFICES ASSUME NEW s \in SUBSET S, Cardinality(s) = n + 1, NEW v \in s
               PROVE  SumFunctionOnSet(f, s) = f[v] + SumFunctionOnSet(f, s \ {v})
    OBVIOUS
  <2> DEFINE x == First(s)
  <2>1. x \in s /\ Rest(s) = s \ {x} /\ Cardinality(Rest(s)) = n
    <3>1. IsFiniteSet(s) /\ s # {}
      BY <1>1
    <3> QED
      BY <3>1, Firsts DEF Rest
  <2>2. SumFunctionOnSet(f, s) = f[x] + SumFunctionOnSet(f, s \ {x})
    BY <1>1, <2>1, SumSplits
  <2>3. CASE v = x
    BY <2>2, <2>3
  <2>4. CASE v # x
    <3> DEFINE both == s \ {v, x}
    <3>1. SumFunctionOnSet(f, s \ {x}) = f[v] + SumFunctionOnSet(f, both)
      <4>1. (s \ {x}) \ {v} = both
        OBVIOUS
      <4> QED
        BY <1>3, <2>1, <2>4, <4>1
    <3>2. SumFunctionOnSet(f, s \ {v}) = f[x] + SumFunctionOnSet(f, both)
      <4>1. (s \ {v}) \ {x} = both /\ x \in s \ {v}
        BY <2>1, <2>4
      <4>2. Cardinality(s \ {v}) = n
        <5>1. IsFiniteSet(s)
          BY <1>1
        <5>2. Cardinality(s \ {v}) = Cardinality(s) - 1
          BY <5>1, FS_RemoveElement
        <5> QED
          BY <5>2
      <4> QED
        BY <1>3, <4>1, <4>2
    <3>3. SumFunctionOnSet(f, both) \in Nat /\ f[x] \in Nat /\ f[v] \in Nat
      BY <1>1, <2>1
    <3> QED
      BY <2>2, <3>1, <3>2, <3>3
  <2> QED
    BY <2>3, <2>4
<1>4. Nat \subseteq N
  <2> HIDE DEF N
  <2> QED BY <1>2, <1>3, NatSets
<1> QED
  BY <1>1, <1>4, FS_CardinalityType

\* What adds nothing may be left out.
LEMMA SumOfPart ==
  ASSUME NEW f, NEW S, IsFiniteSet(S), \A x \in S : f[x] \in Nat,
         NEW P0 \in SUBSET S, \A x \in S \ P0 : f[x] = 0
  PROVE  SumFunctionOnSet(f, S) = SumFunctionOnSet(f, P0)
<1> DEFINE T == {s \in SUBSET (S \ P0) :
                   SumFunctionOnSet(f, P0 \cup s) = SumFunctionOnSet(f, P0)}
<1>1. {} \in T
  BY P0 \cup {} = P0
<1>2. ASSUME NEW s \in SUBSET (S \ P0), s # {}, Rest(s) \in T PROVE s \in T
  <2>1. IsFiniteSet(s) /\ First(s) \in s /\ Rest(s) = s \ {First(s)}
    BY <1>2, Firsts, FS_Subset DEF Rest
  <2>2. (P0 \cup s) \ {First(s)} = P0 \cup Rest(s) /\ P0 \cup s \subseteq S
    BY <2>1
  <2>3. SumFunctionOnSet(f, P0 \cup s) = f[First(s)] + SumFunctionOnSet(f, P0 \cup Rest(s))
    BY <2>1, <2>2, SumWithout, FS_Subset
  <2>4. f[First(s)] = 0
    BY <2>1
  <2>5. SumFunctionOnSet(f, P0) \in Nat
    BY SumIsNat, FS_Subset
  <2> QED
    BY <1>2, <2>3, <2>4, <2>5
<1>3. SUBSET (S \ P0) \subseteq T
  <2> HIDE DEF T
  <2> QED BY <1>1, <1>2, SubsetInduction, FS_Subset
<1>4. P0 \cup (S \ P0) = S
  OBVIOUS
<1>5. S \ P0 \in T
  BY <1>3
<1> QED
  BY <1>4, <1>5

(***************************************************************************)
(* A sequence of sequences, flattened, is one of their elements.           *)
(***************************************************************************)
FlatBody(ss, n, f) ==
  f = [i \in 1..n |-> IF i = 1 THEN ss[i] ELSE f[i - 1] \o ss[i]]

LEMMA FlatIsDefined ==
  ASSUME NEW ss, NEW n \in Nat
  PROVE  \E f : FlatBody(ss, n, f)
<1> DEFINE T == {k \in Nat : \E f : FlatBody(ss, k, f)}
<1>1. 0 \in T
  <2> DEFINE F == [i \in 1..0 |-> ss]
  <2>1. 1..0 = {}
    OBVIOUS
  <2>2. FlatBody(ss, 0, F)
    BY <2>1 DEF FlatBody
  <2> QED
    BY <2>2
<1>2. ASSUME NEW k \in Nat, k \in T PROVE k + 1 \in T
  <2>0. PICK f : FlatBody(ss, k, f)
    BY <1>2
  <2> DEFINE H == [i \in 1..(k + 1) |-> IF i = 1 THEN ss[i] ELSE f[i - 1] \o ss[i]]
  <2>1. \A i \in 1..k : i \in 1..(k + 1) /\ H[i] = f[i]
    <3>1. \A i \in 1..k : f[i] = IF i = 1 THEN ss[i] ELSE f[i - 1] \o ss[i]
      BY <2>0 DEF FlatBody
    <3>2. \A i \in 1..k : i \in 1..(k + 1)
      OBVIOUS
    <3> QED
      BY <3>1, <3>2
  <2>2. \A i \in 1..(k + 1) : i # 1 => i - 1 \in 1..k
    OBVIOUS
  <2>3. \A i \in 1..(k + 1) : i # 1 => f[i - 1] = H[i - 1]
    BY <2>1, <2>2
  <2>4. FlatBody(ss, k + 1, H)
    BY <2>3 DEF FlatBody
  <2> QED
    <3> HIDE DEF H
    <3> QED BY <2>4
<1>3. Nat \subseteq T
  <2> HIDE DEF T
  <2> QED BY <1>1, <1>2, NatSets
<1> QED
  BY <1>3

LEMMA FlattenedIn ==
  ASSUME NEW S, NEW ss \in Seq(Seq(S))
  PROVE  FlattenSeq(ss) \in Seq(S)
<1>1. CASE Len(ss) = 0
  BY <1>1 DEF FlattenSeq
<1>2. CASE Len(ss) # 0
  <2> DEFINE F == CHOOSE f : f = [i \in 1..Len(ss) |-> IF i = 1 THEN ss[i] ELSE f[i - 1] \o ss[i]]
  <2>1. FlattenSeq(ss) = F[Len(ss)]
    BY <1>2 DEF FlattenSeq
  <2>2. Len(ss) \in Nat
    OBVIOUS
  <2>3. F = CHOOSE f : FlatBody(ss, Len(ss), f)
    BY DEF FlatBody
  <2>4. FlatBody(ss, Len(ss), F)
    BY <2>2, <2>3, FlatIsDefined
  <2> HIDE DEF F
  <2> DEFINE T == {k \in Nat : k \in 1..Len(ss) => F[k] \in Seq(S)}
  <2>5. 0 \in T
    OBVIOUS
  <2>6. ASSUME NEW k \in Nat, k \in T PROVE k + 1 \in T
    <3> SUFFICES ASSUME k + 1 \in 1..Len(ss) PROVE F[k + 1] \in Seq(S)
      OBVIOUS
    <3>1. ss[k + 1] \in Seq(S)
      OBVIOUS
    <3>2. CASE k = 0
      BY <2>4, <3>1, <3>2 DEF FlatBody
    <3>3. CASE k # 0
      <4>1. F[k + 1] = F[k] \o ss[k + 1]
        <5>1. k + 1 # 1 /\ (k + 1) - 1 = k
          BY <3>3
        <5> QED
          BY <2>4, <5>1 DEF FlatBody
      <4>2. F[k] \in Seq(S)
        BY <2>6, <3>3
      <4> QED
        BY <3>1, <4>1, <4>2, ConcatProperties
    <3> QED
      BY <3>2, <3>3
  <2>7. Nat \subseteq T
    <3> HIDE DEF T
    <3> QED BY <2>5, <2>6, NatSets
  <2> QED
    BY <1>2, <2>1, <2>2, <2>7
<1> QED
  BY <1>1, <1>2

(***************************************************************************)
(* The invariant: what is true of each unit, and of all of them.           *)
(***************************************************************************)
Pcs == InJob \cup {"queued", "skipped", "done"}

\* Nothing has been run for the unit.
Early == {"queued", "held", "scaffold", "skipped"}

Cost(u) == unit[u].res.cost
CostOf == [u \in DOMAIN unit |-> unit[u].res.cost]

IsUnit(x) == x = [f \in {"case", "run", "pc", "tries", "work", "res"} |-> x[f]]
IsResult(r) ==
  r = [f \in {"case", "run", "total", "ids", "control", "invalid", "failed", "cost",
             "score", "catch"} |-> r[f]]
IsDir(d) == d = [f \in {"ws", "copy", "kept", "adj"} |-> d[f]]

UnitTypeOK(x, d) ==
  /\ IsUnit(x) /\ IsResult(x.res) /\ IsDir(d)
  /\ x.case \in DOMAIN Fixture /\ x.run \in Nat /\ x.pc \in Pcs
  /\ x.tries \in Nat /\ x.res.cost \in Nat

\* An attempt costs at most the most an attempt can cost, and there are no more
\* attempts than the retries allow.
BudgetOK(x) ==
  /\ x.tries <= Retries + 1
  /\ x.pc \in Early => x.tries = 0
  /\ x.pc = "agent" => x.tries <= Retries
  /\ x.res.cost <= x.tries * Max(Costs)

\* A unit that is being scored, or is about to be recorded, has the workspace
\* the agent left; what is missed at the end keeps it.
Unclassified(res) ==
  \/ res.score.found # res.ids
  \/ res.catch.checked /\ Caught(res.catch) # res.ids
WorkspaceOK(x, d, dry) ==
  /\ x.pc = "agent" \/ x.tries > 0 => ~dry
  /\ x.tries > 0 => x.work # Absent
  /\ x.pc = "score" => x.tries > 0
  /\ x.pc \in {"score", "finish"} /\ x.tries > 0 => d.ws = x.work
  /\ x.pc \in {"pay", "done"} /\ x.tries > 0 /\ x.res.case # Garbled
       /\ (x.res.failed \/ Unclassified(x.res))
       => d.ws # Absent

\* What was caught was caught in the work of the last attempt.
CatchOK(x) ==
  /\ x.pc \in Early \cup {"agent", "score"} => x.res.catch = Unchecked
  /\ x.res.catch = Unchecked \/ x.res.catch \in Discriminate(Fixture[x.case], x.work)

BenchTypeOK ==
  /\ opts \in Runs /\ spent \in Nat
  /\ IsFiniteSet(DOMAIN unit) /\ DOMAIN unit \subseteq Slots
  /\ unit = [u \in DOMAIN unit |-> unit[u]] /\ dir = [u \in DOMAIN unit |-> dir[u]]
  /\ \A u \in DOMAIN unit : UnitTypeOK(unit[u], dir[u])
BudgetInv == \A u \in DOMAIN unit : BudgetOK(unit[u])
WorkspaceInv == \A u \in DOMAIN unit : WorkspaceOK(unit[u], dir[u], opts.dry)
CatchInv == \A u \in DOMAIN unit : CatchOK(unit[u])

\* The workers are not exceeded, and what was recorded is what ended.
SlotsInv == Cardinality(Holding) <= Workers
SpentInv == spent = SumFunctionOnSet(CostOf, Ran)

Running == {u \in DOMAIN unit : unit[u].pc \in InJob \ {"held"}}
OverspendInv ==
  opts.ceiling > 0 =>
    \E last \in SUBSET DOMAIN unit :
      /\ Cardinality(last) <= Workers /\ Running \subseteq last
      /\ SumFunctionOnSet(CostOf, DOMAIN unit \ last) < opts.ceiling

-----------------------------------------------------------------------------
(***************************************************************************)
(* The units of an invocation.                                             *)
(***************************************************************************)
FreshUnits == {Unit(c, r) : c \in DOMAIN Fixture, r \in Nat}

LEMMA UnitsAreFresh ==
  ASSUME NEW o \in Runs
  PROVE  BuildUnits(o) \in Seq(FreshUnits) /\ DOMAIN BuildUnits(o) = 1..Len(BuildUnits(o))
<1> DEFINE parts == [i \in DOMAIN o.cases |->
              IF Fixture[o.cases[i]].loads THEN [r \in 1..o.runs |-> Unit(o.cases[i], r)]
              ELSE <<Unit(o.cases[i], 0)>>]
<1>1. o.cases \in Seq(DOMAIN Fixture) /\ o.runs \in Nat
  BY BenchAssumption
<1>2. ASSUME NEW i \in DOMAIN o.cases
      PROVE  parts[i] \in Seq(FreshUnits)
  <2> DEFINE c == o.cases[i]
  <2>1. c \in DOMAIN Fixture
    BY <1>1
  <2> HIDE DEF c
  <2>2. \A r \in Nat : Unit(c, r) \in FreshUnits
    BY <2>1 DEF FreshUnits
  <2>3. [r \in 1..o.runs |-> Unit(c, r)] \in Seq(FreshUnits)
    BY <1>1, <2>2
  <2>4. <<Unit(c, 0)>> \in Seq(FreshUnits)
    BY <2>2
  <2> QED
    BY <2>3, <2>4 DEF c
<1>3. parts \in Seq(Seq(FreshUnits))
  <2>1. DOMAIN o.cases = 1..Len(o.cases) /\ Len(o.cases) \in Nat
    BY <1>1
  <2>2. DOMAIN parts = 1..Len(o.cases)
    BY <2>1
  <2>3. \A i \in 1..Len(o.cases) : parts[i] \in Seq(FreshUnits)
    BY <1>2, <2>1
  <2>4. parts = [i \in 1..Len(o.cases) |-> parts[i]]
    BY <2>1
  <2> HIDE DEF parts
  <2> QED
    BY <2>1, <2>3, <2>4
<1>4. BuildUnits(o) = FlattenSeq(parts)
  BY DEF BuildUnits
<1> HIDE DEF parts
<1>5. BuildUnits(o) \in Seq(FreshUnits)
  BY <1>3, <1>4, FlattenedIn
<1> QED
  BY <1>5

LEMMA FreshIs ==
  ASSUME NEW x \in FreshUnits, NEW d, d = NoDir, NEW dry
  PROVE  /\ UnitTypeOK(x, d) /\ BudgetOK(x) /\ WorkspaceOK(x, d, dry) /\ CatchOK(x)
         /\ x.pc = "queued" /\ x.res.cost = 0
<1>1. PICK c \in DOMAIN Fixture, r \in Nat : x = Unit(c, r)
  BY DEF FreshUnits
<1> DEFINE none == Result(c, 0, NoKey)
           some == Result(c, r, Fixture[c].key)
<1>2. /\ IsResult(none) /\ none.cost = 0 /\ none.catch = Unchecked
      /\ IsResult(some) /\ some.cost = 0 /\ some.catch = Unchecked
  BY DEF Result, IsResult
<1> HIDE DEF none, some
<1>3. x = [case |-> c, run |-> r, pc |-> "queued", tries |-> 0, work |-> Fresh,
           res |-> IF r = 0 THEN [none EXCEPT !.invalid = TRUE] ELSE some]
  BY <1>1 DEF Unit, none, some
<1>4. /\ IsUnit(x) /\ x.case = c /\ x.run = r /\ x.pc = "queued" /\ x.tries = 0
      /\ x.res = IF r = 0 THEN [none EXCEPT !.invalid = TRUE] ELSE some
  BY <1>3 DEF IsUnit
<1>5. IsResult([none EXCEPT !.invalid = TRUE]) /\ [none EXCEPT !.invalid = TRUE].cost = 0
      /\ [none EXCEPT !.invalid = TRUE].catch = Unchecked
  BY <1>2 DEF IsResult
<1>6. IsResult(x.res) /\ x.res.cost = 0 /\ x.res.catch = Unchecked
  BY <1>2, <1>4, <1>5
<1>7. UnitTypeOK(x, d)
  BY <1>4, <1>6 DEF UnitTypeOK, IsDir, NoDir, Pcs
<1>8. Max(Costs) \in Nat
  BY BenchAssumption DEF Max
<1>9. BudgetOK(x)
  BY <1>4, <1>6, <1>8, BenchAssumption DEF BudgetOK
<1>10. WorkspaceOK(x, d, dry)
  BY <1>4 DEF WorkspaceOK
<1>11. CatchOK(x)
  BY <1>6 DEF CatchOK
<1> QED
  BY <1>4, <1>6, <1>7, <1>9, <1>10, <1>11

-----------------------------------------------------------------------------
(***************************************************************************)
(* What a step of a unit does to it; it does nothing to the others.        *)
(***************************************************************************)
OthersSame(u) ==
  /\ DOMAIN unit' = DOMAIN unit
  /\ unit' = [v \in DOMAIN unit |-> unit'[v]] /\ dir' = [v \in DOMAIN unit |-> dir'[v]]
  /\ \A v \in DOMAIN unit \ {u} : unit'[v] = unit[v] /\ dir'[v] = dir[v]
  /\ IsUnit(unit'[u]) /\ IsResult(unit'[u].res) /\ IsDir(dir'[u])
  /\ unit'[u].case = unit[u].case /\ unit'[u].run = unit[u].run
  /\ opts' = opts

Moves(u, from, to) ==
  /\ unit[u].pc = from /\ unit'[u].pc = to
  /\ unit'[u].tries = unit[u].tries /\ unit'[u].work = unit[u].work

LEMMA UnitChanges ==
  ASSUME BenchTypeOK, NEW u \in DOMAIN unit, NEW to, unit' = [unit EXCEPT ![u] = to]
  PROVE  /\ DOMAIN unit' = DOMAIN unit /\ unit' = [v \in DOMAIN unit |-> unit'[v]]
         /\ unit'[u] = to
         /\ \A v \in DOMAIN unit \ {u} : unit'[v] = unit[v]
BY DEF BenchTypeOK

LEMMA WorkspaceChanges ==
  ASSUME BenchTypeOK, NEW u \in DOMAIN unit, NEW ws, dir' = [dir EXCEPT ![u].ws = ws]
  PROVE  /\ dir' = [v \in DOMAIN unit |-> dir'[v]]
         /\ \A v \in DOMAIN unit \ {u} : dir'[v] = dir[v]
         /\ IsDir(dir'[u]) /\ dir'[u].ws = ws /\ dir'[u].copy = dir[u].copy
         /\ dir'[u].adj = dir[u].adj
<1>1. dir = [v \in DOMAIN unit |-> dir[v]] /\ IsDir(dir[u])
  BY DEF BenchTypeOK, UnitTypeOK
<1>2. dir' = [dir EXCEPT ![u] = [dir[u] EXCEPT !.ws = ws]]
  BY <1>1
<1> DEFINE d == [dir[u] EXCEPT !.ws = ws]
<1>3. IsDir(d) /\ d.ws = ws /\ d.copy = dir[u].copy /\ d.adj = dir[u].adj
  BY <1>1 DEF IsDir
<1> HIDE DEF d
<1> QED
  BY <1>1, <1>2, <1>3 DEF d

LEMMA PcChanges ==
  ASSUME BenchTypeOK, NEW u \in DOMAIN unit, NEW from, NEW pc, unit[u].pc = from,
         unit' = [unit EXCEPT ![u] = At(u, pc)], dir' = dir, opts' = opts
  PROVE  Moves(u, from, pc) /\ unit'[u].res = unit[u].res /\ OthersSame(u)
<1>1. /\ IsUnit(unit[u]) /\ IsResult(unit[u].res) /\ IsDir(dir[u])
      /\ dir = [v \in DOMAIN unit |-> dir[v]]
  BY DEF BenchTypeOK, UnitTypeOK
<1> DEFINE x == At(u, pc)
<1>2. /\ IsUnit(x) /\ x.pc = pc /\ x.tries = unit[u].tries /\ x.work = unit[u].work
      /\ x.res = unit[u].res /\ x.case = unit[u].case /\ x.run = unit[u].run
  BY <1>1 DEF IsUnit, At
<1> HIDE DEF x
<1>3. unit'[u] = x
  BY UnitChanges DEF x
<1> QED
  BY <1>1, <1>2, <1>3, UnitChanges DEF OthersSame, Moves, x

LEMMA OwnAcquire ==
  ASSUME BenchTypeOK, NEW u \in DOMAIN unit, Acquire(u)
  PROVE  /\ OthersSame(u) /\ Moves(u, "queued", "held") /\ unit'[u].res = unit[u].res
         /\ dir'[u] = dir[u] /\ spent' = spent /\ Cardinality(Holding) < Workers
<1>1. unit' = [unit EXCEPT ![u] = At(u, "held")] /\ unit[u].pc = "queued"
  BY DEF Acquire, UnitStep
<1>2. unit'[u] = [unit[u] EXCEPT !.pc = "held"]
  BY <1>1, UnitChanges DEF At
<1>3. opts' = opts /\ dir' = dir /\ spent' = spent /\ Cardinality(Holding) < Workers
  BY DEF Acquire, UnitStep, runVars
<1>4. Moves(u, "queued", "held") /\ unit'[u].res = unit[u].res /\ OthersSame(u)
  BY <1>1, <1>2, <1>3, PcChanges
<1> QED
  BY <1>3, <1>4

LEMMA OwnStart ==
  ASSUME BenchTypeOK, NEW u \in DOMAIN unit, Start(u)
  PROVE  /\ OthersSame(u) /\ unit'[u].res = unit[u].res
         /\ dir'[u] = dir[u] /\ spent' = spent
         /\ \/ Moves(u, "held", "done") /\ unit[u].res.invalid
            \/ Moves(u, "held", "scaffold") /\ UnderCeiling
            \/ Moves(u, "held", "skipped") /\ ~UnderCeiling
<1> DEFINE to == IF unit[u].res.invalid THEN "done"
                 ELSE IF UnderCeiling THEN "scaffold" ELSE "skipped"
<1>1. unit' = [unit EXCEPT ![u] = At(u, to)] /\ unit[u].pc = "held"
  BY DEF Start, UnitStep
<1>2. unit'[u] = [unit[u] EXCEPT !.pc = to]
  BY <1>1, UnitChanges DEF At
<1>3. \/ to = "done" /\ unit[u].res.invalid
      \/ to = "scaffold" /\ UnderCeiling
      \/ to = "skipped" /\ ~UnderCeiling
  OBVIOUS
<1> HIDE DEF to
<1>4. opts' = opts /\ dir' = dir /\ spent' = spent
  BY DEF Start, UnitStep, runVars
<1>5. Moves(u, "held", to) /\ unit'[u].res = unit[u].res /\ OthersSame(u)
  BY <1>1, <1>2, <1>4, PcChanges
<1> QED
  BY <1>3, <1>4, <1>5

LEMMA OwnScaffold ==
  ASSUME BenchTypeOK, NEW u \in DOMAIN unit, Scaffold(u)
  PROVE  /\ OthersSame(u) /\ dir'[u].ws = Fresh /\ dir'[u].copy = dir[u].copy /\ spent' = spent
         /\ unit'[u].res.cost = unit[u].res.cost /\ unit'[u].res.catch = unit[u].res.catch
         /\ \/ Moves(u, "scaffold", "finish") /\ unit'[u].res.invalid
            \/ /\ Moves(u, "scaffold", "finish")
               /\ unit'[u].res.score = ScoreFile(Delivered(Fresh), Key(u))
            \/ Moves(u, "scaffold", "agent") /\ ~opts.dry
<1> DEFINE green == Fixture[unit[u].case].suite = "green"
           scored == [unit[u].res EXCEPT !.score = ScoreFile(Delivered(Fresh), Key(u)),
                                         !.control = Fixture[unit[u].case].control]
           bad == [unit[u].res EXCEPT !.invalid = TRUE]
           to == CASE ~green -> [unit[u] EXCEPT !.pc = "finish", !.res = bad]
                   [] green /\ opts.dry -> [unit[u] EXCEPT !.pc = "finish", !.res = scored]
                   [] OTHER -> [unit[u] EXCEPT !.pc = "agent"]
<1>1. /\ unit' = [unit EXCEPT ![u] = to] /\ unit[u].pc = "scaffold"
      /\ dir' = [dir EXCEPT ![u].ws = Fresh]
      /\ opts' = opts /\ spent' = spent
  BY DEF Scaffold, UnitStep, At, runVars
<1>2. IsUnit(unit[u]) /\ IsResult(unit[u].res)
  BY DEF BenchTypeOK, UnitTypeOK
<1>3. /\ IsResult(scored) /\ scored.cost = unit[u].res.cost /\ scored.catch = unit[u].res.catch
      /\ scored.score = ScoreFile(Delivered(Fresh), Key(u))
      /\ IsResult(bad) /\ bad.cost = unit[u].res.cost /\ bad.catch = unit[u].res.catch
      /\ bad.invalid
  BY <1>2 DEF IsResult
<1> HIDE DEF scored, bad
<1>4. /\ IsUnit(to) /\ to.case = unit[u].case /\ to.run = unit[u].run
      /\ to.tries = unit[u].tries /\ to.work = unit[u].work
      /\ \/ to.pc = "finish" /\ to.res = bad
         \/ to.pc = "finish" /\ to.res = scored
         \/ to.pc = "agent" /\ to.res = unit[u].res /\ ~opts.dry
  BY <1>2 DEF IsUnit
<1> HIDE DEF to
<1>5. unit'[u] = to
  BY <1>1, UnitChanges
<1>6. OthersSame(u)
  BY <1>1, <1>2, <1>3, <1>4, <1>5, UnitChanges, WorkspaceChanges DEF OthersSame
<1> QED
  BY <1>1, <1>3, <1>4, <1>5, <1>6, WorkspaceChanges DEF Moves

LEMMA OwnAttempt ==
  ASSUME BenchTypeOK, NEW u \in DOMAIN unit, Attempt(u)
  PROVE  \E work \in Works[unit[u].case], c \in Costs, infra \in BOOLEAN :
           /\ OthersSame(u) /\ unit[u].pc = "agent" /\ dir'[u].ws = work
           /\ dir'[u].copy = dir[u].copy /\ spent' = spent
           /\ unit'[u].work = work /\ unit'[u].tries = unit[u].tries + 1
           /\ unit'[u].res.cost = unit[u].res.cost + c
           /\ unit'[u].res.catch = unit[u].res.catch
           /\ \/ unit'[u].pc = "agent" /\ unit[u].tries < Retries
              \/ unit'[u].pc = "finish" /\ unit'[u].res.failed
              \/ unit'[u].pc = "score"
<1>1. PICK work \in Works[unit[u].case], c \in Costs, infra \in BOOLEAN :
        LET again == infra /\ unit[u].tries < Retries
            res == [unit[u].res EXCEPT !.cost = @ + c, !.failed = infra /\ ~again]
        IN /\ dir' = [dir EXCEPT ![u].ws = work]
           /\ UNCHANGED spent
           /\ UnitStep(u, "agent",
                [unit[u] EXCEPT
                   !.pc = IF again THEN "agent" ELSE IF infra THEN "finish" ELSE "score",
                   !.tries = @ + 1, !.work = work, !.res = res])
  BY DEF Attempt
<1> DEFINE again == infra /\ unit[u].tries < Retries
           fails == infra /\ ~again
           next == IF again THEN "agent" ELSE IF infra THEN "finish" ELSE "score"
           res == [unit[u].res EXCEPT !.cost = @ + c, !.failed = fails]
           to == [unit[u] EXCEPT !.pc = next, !.tries = @ + 1, !.work = work, !.res = res]
<1>2. /\ unit' = [unit EXCEPT ![u] = to] /\ unit[u].pc = "agent"
      /\ dir' = [dir EXCEPT ![u].ws = work] /\ opts' = opts /\ spent' = spent
  BY <1>1 DEF UnitStep, runVars
<1>3. IsUnit(unit[u]) /\ IsResult(unit[u].res)
  BY DEF BenchTypeOK, UnitTypeOK
<1>4. \/ next = "agent" /\ unit[u].tries < Retries
      \/ next = "finish" /\ fails
      \/ next = "score"
  OBVIOUS
<1> HIDE DEF next, fails
<1>5. /\ IsResult(res) /\ res.cost = unit[u].res.cost + c /\ res.catch = unit[u].res.catch
      /\ res.failed = fails
  BY <1>3 DEF IsResult
<1> HIDE DEF res
<1>6. /\ IsUnit(to) /\ to.case = unit[u].case /\ to.run = unit[u].run /\ to.tries = unit[u].tries + 1
      /\ to.work = work /\ to.pc = next /\ to.res = res
  BY <1>3 DEF IsUnit
<1> HIDE DEF to
<1>7. unit'[u] = to
  BY <1>2, UnitChanges
<1>8. OthersSame(u)
  BY <1>2, <1>3, <1>5, <1>6, <1>7, UnitChanges, WorkspaceChanges DEF OthersSame
<1>9. /\ unit'[u].pc = next /\ unit'[u].res = res /\ dir'[u].ws = work
      /\ dir'[u].copy = dir[u].copy
  BY <1>2, <1>6, <1>7, WorkspaceChanges
<1>10. \/ unit'[u].pc = "agent" /\ unit[u].tries < Retries
       \/ unit'[u].pc = "finish" /\ unit'[u].res.failed
       \/ unit'[u].pc = "score"
  BY <1>4, <1>5, <1>9
<1> QED
  BY <1>2, <1>5, <1>6, <1>7, <1>8, <1>9, <1>10

LEMMA OwnScore ==
  ASSUME BenchTypeOK, NEW u \in DOMAIN unit, ScoreUnit(u)
  PROVE  /\ OthersSame(u) /\ Moves(u, "score", "finish") /\ dir'[u] = dir[u] /\ spent' = spent
         /\ unit'[u].res.cost = unit[u].res.cost
         /\ unit'[u].res.score = ScoreFile(Delivered(dir[u].ws), Key(u))
         /\ unit'[u].res.catch \in Discriminate(Fixture[unit[u].case], dir[u].ws)
<1>1. PICK catch \in Discriminate(Fixture[unit[u].case], dir[u].ws) :
        UnitStep(u, "score",
          [unit[u] EXCEPT
             !.pc = "finish",
             !.res = [@ EXCEPT !.score = ScoreFile(Delivered(dir[u].ws), Key(u)),
                               !.control = Fixture[unit[u].case].control,
                               !.catch = catch]])
  BY DEF ScoreUnit
<1> DEFINE res == [unit[u].res EXCEPT !.score = ScoreFile(Delivered(dir[u].ws), Key(u)),
                                      !.control = Fixture[unit[u].case].control,
                                      !.catch = catch]
           to == [unit[u] EXCEPT !.pc = "finish", !.res = res]
<1>2. /\ IsUnit(unit[u]) /\ IsResult(unit[u].res) /\ IsDir(dir[u])
      /\ dir = [v \in DOMAIN unit |-> dir[v]]
  BY DEF BenchTypeOK, UnitTypeOK
<1>3. /\ unit' = [unit EXCEPT ![u] = to] /\ unit[u].pc = "score"
      /\ opts' = opts /\ dir' = dir /\ spent' = spent
  BY <1>1, <1>2 DEF ScoreUnit, UnitStep, runVars, IsUnit
<1>4. /\ IsResult(res) /\ res.cost = unit[u].res.cost /\ res.catch = catch
      /\ res.score = ScoreFile(Delivered(dir[u].ws), Key(u))
  BY <1>2 DEF IsResult
<1> HIDE DEF res
<1>5. /\ IsUnit(to) /\ to.case = unit[u].case /\ to.run = unit[u].run /\ to.tries = unit[u].tries
      /\ to.work = unit[u].work /\ to.pc = "finish" /\ to.res = res
  BY <1>2 DEF IsUnit
<1> HIDE DEF to
<1>6. unit'[u] = to
  BY <1>3, UnitChanges
<1>7. OthersSame(u)
  BY <1>2, <1>3, <1>4, <1>5, <1>6, UnitChanges DEF OthersSame
<1> QED
  BY <1>3, <1>4, <1>5, <1>6, <1>7 DEF Moves

LEMMA OwnFinish ==
  ASSUME BenchTypeOK, NEW u \in DOMAIN unit, Finish(u)
  PROVE  \E copied, written \in BOOLEAN :
           /\ OthersSame(u) /\ Moves(u, "finish", "pay") /\ spent' = spent
           /\ Delivered(dir[u].ws) = Absent => copied
           /\ unit'[u].res = [unit[u].res EXCEPT !.failed = @ \/ ~written]
           /\ dir'[u].ws = IF KeepsWorkspace(unit'[u].res) THEN dir[u].ws ELSE Absent
           /\ dir'[u].copy = IF copied THEN Delivered(dir[u].ws) ELSE Absent
<1>1. PICK copied, written \in BOOLEAN :
        LET res == [unit[u].res EXCEPT !.failed = @ \/ ~written]
            plan == Delivered(dir[u].ws)
        IN /\ plan = Absent => copied
           /\ dir' = [dir EXCEPT ![u] =
                [@ EXCEPT !.copy = IF copied THEN plan ELSE Absent,
                          !.kept = written,
                          !.ws = IF KeepsWorkspace(res) THEN dir[u].ws ELSE Absent]]
           /\ UNCHANGED spent
           /\ UnitStep(u, "finish", [unit[u] EXCEPT !.pc = "pay", !.res = res])
  BY DEF Finish
<1> DEFINE res == [unit[u].res EXCEPT !.failed = @ \/ ~written]
           plan == Delivered(dir[u].ws)
           copy == IF copied THEN plan ELSE Absent
           ws == IF KeepsWorkspace(res) THEN dir[u].ws ELSE Absent
           to == [unit[u] EXCEPT !.pc = "pay", !.res = res]
           d == [dir[u] EXCEPT !.copy = copy, !.kept = written, !.ws = ws]
<1>2. /\ IsUnit(unit[u]) /\ IsResult(unit[u].res) /\ IsDir(dir[u])
      /\ dir = [v \in DOMAIN unit |-> dir[v]]
  BY DEF BenchTypeOK, UnitTypeOK
<1>3. res = [unit[u].res EXCEPT !.failed = @ \/ ~written]
  OBVIOUS
<1>4. /\ unit' = [unit EXCEPT ![u] = to] /\ unit[u].pc = "finish"
      /\ opts' = opts /\ spent' = spent /\ (plan = Absent => copied)
  BY <1>1, <1>3 DEF UnitStep, runVars
<1>5. IsResult(res)
  BY <1>2 DEF IsResult
<1>6. dir' = [dir EXCEPT ![u] = d]
  BY <1>1
<1> HIDE DEF res, copy, ws
<1>7. /\ IsUnit(to) /\ to.case = unit[u].case /\ to.run = unit[u].run /\ to.tries = unit[u].tries
      /\ to.work = unit[u].work /\ to.pc = "pay" /\ to.res = res
  BY <1>2 DEF IsUnit
<1>8. IsDir(d) /\ d.ws = ws /\ d.copy = copy
  BY <1>2 DEF IsDir
<1> HIDE DEF to, d
<1>9. unit'[u] = to
  BY <1>4, UnitChanges
<1>10. /\ dir' = [v \in DOMAIN unit |-> dir'[v]] /\ dir'[u] = d
       /\ \A v \in DOMAIN unit \ {u} : dir'[v] = dir[v]
  BY <1>2, <1>6
<1>11. OthersSame(u)
  BY <1>2, <1>4, <1>5, <1>7, <1>8, <1>9, <1>10, UnitChanges DEF OthersSame
<1>12. /\ unit'[u].res = res /\ dir'[u].ws = ws /\ dir'[u].copy = copy
       /\ Moves(u, "finish", "pay")
  BY <1>4, <1>7, <1>8, <1>9, <1>10 DEF Moves
<1>13. ws = IF KeepsWorkspace(unit'[u].res) THEN dir[u].ws ELSE Absent
  BY <1>12 DEF ws
<1> QED
  BY <1>3, <1>4, <1>11, <1>12, <1>13 DEF copy

LEMMA OwnPay ==
  ASSUME BenchTypeOK, NEW u \in DOMAIN unit, Pay(u)
  PROVE  /\ OthersSame(u) /\ Moves(u, "pay", "done") /\ unit'[u].res = unit[u].res
         /\ dir'[u] = dir[u] /\ spent' = spent + unit[u].res.cost
<1>1. unit' = [unit EXCEPT ![u] = At(u, "done")] /\ unit[u].pc = "pay"
  BY DEF Pay, UnitStep
<1>2. opts' = opts /\ dir' = dir /\ spent' = spent + unit[u].res.cost
  BY DEF Pay, UnitStep, runVars
<1>3. Moves(u, "pay", "done") /\ unit'[u].res = unit[u].res /\ OthersSame(u)
  BY <1>1, <1>2, PcChanges
<1> QED
  BY <1>2, <1>3

LEMMA OwnPanic ==
  ASSUME BenchTypeOK, NEW u \in DOMAIN unit, Panic(u)
  PROVE  /\ OthersSame(u) /\ unit[u].pc \in InJob /\ unit'[u].pc = "done"
         /\ unit'[u].tries = unit[u].tries /\ unit'[u].work = unit[u].work
         /\ unit'[u].res.case = Garbled /\ unit'[u].res.cost = 0 /\ unit'[u].res.failed
         /\ unit'[u].res.catch = Unchecked
         /\ dir'[u] = dir[u] /\ spent' = spent
<1> DEFINE none == Result(Garbled, 0, NoKey)
           res == [none EXCEPT !.failed = TRUE]
           to == [unit[u] EXCEPT !.pc = "done", !.res = res]
<1>1. /\ IsUnit(unit[u]) /\ IsDir(dir[u]) /\ dir = [v \in DOMAIN unit |-> dir[v]]
  BY DEF BenchTypeOK, UnitTypeOK
<1>2. IsResult(none) /\ none.case = Garbled /\ none.cost = 0 /\ none.catch = Unchecked
  BY DEF Result, IsResult
<1>3. /\ unit' = [unit EXCEPT ![u] = to] /\ unit[u].pc \in InJob
      /\ opts' = opts /\ dir' = dir /\ spent' = spent
  BY DEF Panic, UnitStep, runVars
<1> HIDE DEF none
<1>4. /\ IsResult(res) /\ res.case = Garbled /\ res.cost = 0 /\ res.failed
      /\ res.catch = Unchecked
  BY <1>2 DEF IsResult
<1> HIDE DEF res
<1>5. /\ IsUnit(to) /\ to.case = unit[u].case /\ to.run = unit[u].run /\ to.tries = unit[u].tries
      /\ to.work = unit[u].work /\ to.pc = "done" /\ to.res = res
  BY <1>1 DEF IsUnit
<1> HIDE DEF to
<1>6. unit'[u] = to
  BY <1>3, UnitChanges
<1> QED
  BY <1>1, <1>3, <1>4, <1>5, <1>6, UnitChanges DEF OthersSame

LEMMA OwnHang ==
  ASSUME BenchTypeOK, NEW u \in DOMAIN unit, Hang(u)
  PROVE  \E ws \in LeftBy(u) :
           /\ OthersSame(u) /\ unit[u].pc \in {"scaffold", "agent", "score"}
           /\ Moves(u, unit[u].pc, "hung") /\ unit'[u].res = unit[u].res
           /\ dir'[u].ws = ws /\ dir'[u].copy = dir[u].copy /\ spent' = spent
<1>1. PICK ws \in LeftBy(u) : dir' = [dir EXCEPT ![u].ws = ws]
  BY DEF Hang
<1>2. /\ unit' = [unit EXCEPT ![u] = At(u, "hung")] /\ opts' = opts /\ spent' = spent
      /\ unit[u].pc \in {"scaffold", "agent", "score"}
  BY DEF Hang, UnitStep, runVars
<1>3. /\ IsUnit(unit[u]) /\ IsDir(dir[u]) /\ dir = [v \in DOMAIN unit |-> dir[v]]
      /\ IsResult(unit[u].res)
  BY DEF BenchTypeOK, UnitTypeOK
<1> DEFINE to == At(u, "hung")
<1>4. /\ IsUnit(to) /\ to.case = unit[u].case /\ to.run = unit[u].run /\ to.tries = unit[u].tries
      /\ to.work = unit[u].work /\ to.pc = "hung" /\ to.res = unit[u].res
  BY <1>3 DEF IsUnit, At
<1> HIDE DEF to
<1>5. unit'[u] = to
  BY <1>2, UnitChanges DEF to
<1>6. OthersSame(u)
  BY <1>1, <1>2, <1>3, <1>4, <1>5, UnitChanges, WorkspaceChanges DEF OthersSame, to
<1>7. dir'[u].ws = ws /\ dir'[u].copy = dir[u].copy
  BY <1>1, WorkspaceChanges
<1> QED
  BY <1>2, <1>4, <1>5, <1>6, <1>7 DEF Moves

-----------------------------------------------------------------------------
(***************************************************************************)
(* The other steps leave every unit and every workspace alone.             *)
(***************************************************************************)
Standing ==
  /\ unit' = unit /\ opts' = opts /\ spent' = spent
  /\ dir' = [v \in DOMAIN unit |-> dir'[v]]
  /\ \A v \in DOMAIN unit : IsDir(dir'[v]) /\ dir'[v].ws = dir[v].ws

UnitMoves(u) ==
  \/ Acquire(u) \/ Start(u) \/ Scaffold(u) \/ Attempt(u) \/ ScoreUnit(u)
  \/ Finish(u) \/ Pay(u) \/ Panic(u) \/ Hang(u)

LEMMA RecordStands ==
  ASSUME BenchTypeOK, NEW a \in DOMAIN decider, Record(a)
  PROVE  Standing /\ \A v \in DOMAIN unit : dir'[v].copy = dir[v].copy
<1>1. /\ dir = [v \in DOMAIN unit |-> dir[v]]
      /\ \A v \in DOMAIN unit : IsDir(dir[v])
  BY DEF BenchTypeOK, UnitTypeOK
<1>2. unit' = unit /\ opts' = opts /\ spent' = spent
  BY DEF Record, runVars
<1>3. CASE dir' = dir
  BY <1>1, <1>2, <1>3 DEF Standing
<1>4. CASE \E adj : dir' = [dir EXCEPT ![decider[a].unit].adj = adj]
  <2> PICK adj : dir' = [dir EXCEPT ![decider[a].unit].adj = adj]
    BY <1>4
  <2> DEFINE w == decider[a].unit
             d == [dir[w] EXCEPT !.adj = adj]
  <2>1. dir' = [dir EXCEPT ![w] = d]
    BY <1>1
  <2>2. w \in DOMAIN unit => IsDir(d) /\ d.ws = dir[w].ws /\ d.copy = dir[w].copy
    BY <1>1 DEF IsDir
  <2> HIDE DEF w, d
  <2> QED
    BY <1>1, <1>2, <2>1, <2>2 DEF Standing
<1> QED
  BY <1>3, <1>4 DEF Record

LEMMA RewordStands ==
  ASSUME BenchTypeOK, NEW u \in DOMAIN unit, Reword(u)
  PROVE  /\ Standing /\ dir[u].copy # Absent
         /\ dir[u].copy.rows # <<>> /\ dir'[u].copy = Reworded(dir[u].copy)
         /\ dir'[u].adj = dir[u].adj
         /\ \A v \in DOMAIN unit \ {u} : dir'[v] = dir[v]
<1>1. /\ dir = [v \in DOMAIN unit |-> dir[v]]
      /\ \A v \in DOMAIN unit : IsDir(dir[v])
  BY DEF BenchTypeOK, UnitTypeOK
<1>2. unit' = unit /\ opts' = opts /\ spent' = spent /\ dir[u].copy # Absent
      /\ dir[u].copy.rows # <<>>
  BY DEF Reword, runVars
<1> DEFINE copy == Reworded(dir[u].copy)
           d == [dir[u] EXCEPT !.copy = copy]
<1>3. dir' = [dir EXCEPT ![u] = d]
  BY <1>1 DEF Reword
<1> HIDE DEF copy
<1>4. IsDir(d) /\ d.ws = dir[u].ws /\ d.copy = copy /\ d.adj = dir[u].adj
  BY <1>1 DEF IsDir
<1> HIDE DEF d
<1> QED
  BY <1>1, <1>2, <1>3, <1>4 DEF Standing, copy

LEMMA RunStands ==
  ASSUME BenchTypeOK, Main \/ Rescore \/ UNCHANGED vars \/ \E a \in DOMAIN decider : Read(a)
  PROVE  Standing /\ dir' = dir
<1>1. unit' = unit /\ opts' = opts /\ spent' = spent /\ dir' = dir
  BY DEF Main, Prepare, Tally, WriteAggregate, WriteSummary, AppendHistory, Written, Rescore,
         Read, runVars, unitVars, vars
<1> QED
  BY <1>1 DEF Standing, BenchTypeOK, UnitTypeOK

LEMMA StepCases ==
  ASSUME BenchTypeOK, [Next]_vars
  PROVE  Standing \/ \E u \in DOMAIN unit : UnitMoves(u)
BY RecordStands, RewordStands, RunStands DEF Next, Advance, UnitMoves

-----------------------------------------------------------------------------
(***************************************************************************)
(* Each part of the invariant is kept by every step.                       *)
(***************************************************************************)
LEMMA MostIs ==
  /\ Max(Costs) \in Nat /\ \A c \in Costs : c \in Nat /\ c <= Max(Costs)
  /\ Workers \in Nat \ {0} /\ Retries \in Nat
BY BenchAssumption DEF Max

LEMMA MoreAttempts ==
  ASSUME NEW m \in Nat, NEW t \in Nat, NEW n \in Nat, t <= n
  PROVE  t * m \in Nat /\ (t + 1) * m = t * m + m /\ t * m <= n * m /\ 0 * m = 0
OBVIOUS

LEMMA FinishKeeps ==
  ASSUME BenchTypeOK, NEW u \in DOMAIN unit, Finish(u)
  PROVE  LET res == unit[u].res
             res2 == unit'[u].res
         IN /\ res2.case = res.case /\ res2.ids = res.ids /\ res2.cost = res.cost
            /\ res2.score = res.score /\ res2.catch = res.catch /\ res2.invalid = res.invalid
            /\ \E written \in BOOLEAN : res2.failed = (res.failed \/ ~written)
<1>1. IsResult(unit[u].res)
  BY DEF BenchTypeOK, UnitTypeOK
<1>2. PICK written \in BOOLEAN :
        unit'[u].res = [unit[u].res EXCEPT !.failed = @ \/ ~written]
  BY OwnFinish
<1> DEFINE bad == unit[u].res.failed \/ ~written
<1>3. unit'[u].res = [unit[u].res EXCEPT !.failed = bad]
  BY <1>2
<1>4. bad = (unit[u].res.failed \/ ~written)
  OBVIOUS
<1> HIDE DEF bad
<1> QED
  BY <1>1, <1>3, <1>4 DEF IsResult

LEMMA TypeStep ==
  ASSUME BenchTypeOK, [Next]_vars
  PROVE  BenchTypeOK'
<1>1. CASE Standing
  BY <1>1 DEF Standing, BenchTypeOK, UnitTypeOK
<1>2. ASSUME NEW u \in DOMAIN unit, UnitMoves(u) PROVE BenchTypeOK'
  <2>1. /\ unit[u].case \in DOMAIN Fixture /\ unit[u].pc \in Pcs
        /\ unit[u].tries \in Nat /\ unit[u].res.cost \in Nat /\ spent \in Nat
    BY DEF BenchTypeOK, UnitTypeOK
  <2>2. SUFFICES /\ OthersSame(u) /\ unit'[u].pc \in Pcs
                 /\ unit'[u].tries \in Nat /\ unit'[u].res.cost \in Nat /\ spent' \in Nat
    BY <2>1, <2>2 DEF BenchTypeOK, UnitTypeOK, OthersSame
  <2>3. CASE Acquire(u)
    BY <2>1, <2>3, OwnAcquire DEF Moves, Pcs, InJob
  <2>4. CASE Start(u)
    BY <2>1, <2>4, OwnStart DEF Moves, Pcs, InJob
  <2>5. CASE Scaffold(u)
    BY <2>1, <2>5, OwnScaffold DEF Moves, Pcs, InJob
  <2>6. CASE Attempt(u)
    BY <2>1, <2>6, OwnAttempt, MostIs DEF Pcs, InJob
  <2>7. CASE ScoreUnit(u)
    BY <2>1, <2>7, OwnScore DEF Moves, Pcs, InJob
  <2>8. CASE Finish(u)
    BY <2>1, <2>8, OwnFinish, FinishKeeps DEF Moves, Pcs, InJob
  <2>9. CASE Pay(u)
    BY <2>1, <2>9, OwnPay DEF Moves, Pcs, InJob
  <2>10. CASE Panic(u)
    BY <2>1, <2>10, OwnPanic DEF Pcs, InJob
  <2>11. CASE Hang(u)
    BY <2>1, <2>11, OwnHang DEF Moves, Pcs, InJob
  <2> QED
    BY <1>2, <2>3, <2>4, <2>5, <2>6, <2>7, <2>8, <2>9, <2>10, <2>11 DEF UnitMoves
<1> QED
  BY <1>1, <1>2, StepCases

LEMMA BudgetStep ==
  ASSUME BenchTypeOK, BudgetInv, [Next]_vars
  PROVE  BudgetInv'
<1>1. CASE Standing
  BY <1>1 DEF Standing, BudgetInv, BudgetOK
<1>2. ASSUME NEW u \in DOMAIN unit, UnitMoves(u) PROVE BudgetInv'
  <2> DEFINE most == Max(Costs)
  <2>1. /\ unit[u].tries \in Nat /\ unit[u].res.cost \in Nat /\ unit[u].pc \in Pcs
        /\ most \in Nat /\ Retries \in Nat /\ \A c \in Costs : c \in Nat /\ c <= most
    BY MostIs DEF BenchTypeOK, UnitTypeOK
  <2>2. /\ unit[u].tries <= Retries + 1
        /\ unit[u].pc \in Early => unit[u].tries = 0
        /\ unit[u].pc = "agent" => unit[u].tries <= Retries
        /\ unit[u].res.cost <= unit[u].tries * most
    BY DEF BudgetInv, BudgetOK
  <2>3. /\ unit[u].tries * most \in Nat /\ 0 * most = 0
        /\ (unit[u].tries + 1) * most = unit[u].tries * most + most
    BY <2>1, MoreAttempts
  <2> DEFINE x == unit'[u]
  <2>4. SUFFICES OthersSame(u) /\ BudgetOK(x)
    BY <2>4 DEF BudgetInv, BudgetOK, OthersSame
  <2> HIDE DEF most
  <2>5. CASE /\ OthersSame(u) /\ x.tries = unit[u].tries /\ x.res.cost = unit[u].res.cost
             /\ \/ x.pc \in {"finish", "pay", "done", "hung"}
                \/ unit[u].pc \in Early /\ x.pc \in Early \cup {"agent"}
    BY <2>1, <2>2, <2>5 DEF BudgetOK, Early, most
  <2>6. CASE Acquire(u)
    BY <2>5, <2>6, OwnAcquire DEF Moves, Early
  <2>7. CASE Start(u)
    BY <2>5, <2>7, OwnStart DEF Moves, Early
  <2>8. CASE Scaffold(u)
    BY <2>5, <2>8, OwnScaffold DEF Moves, Early
  <2>9. CASE Attempt(u)
    <3>1. PICK c \in Costs :
            /\ OthersSame(u) /\ unit[u].pc = "agent"
            /\ x.tries = unit[u].tries + 1 /\ x.res.cost = unit[u].res.cost + c
            /\ \/ x.pc = "agent" /\ unit[u].tries < Retries
               \/ x.pc \in {"finish", "score"}
      BY <2>9, OwnAttempt
    <3>2. x.res.cost <= x.tries * most
      BY <2>1, <2>2, <2>3, <3>1
    <3>3. x.tries <= Retries + 1 /\ (x.pc = "agent" => x.tries <= Retries) /\ x.pc \notin Early
      BY <2>1, <2>2, <3>1 DEF Early
    <3> QED
      BY <3>1, <3>2, <3>3 DEF BudgetOK, most
  <2>10. CASE ScoreUnit(u)
    BY <2>5, <2>10, OwnScore DEF Moves
  <2>11. CASE Finish(u)
    BY <2>5, <2>11, OwnFinish, FinishKeeps DEF Moves
  <2>12. CASE Pay(u)
    BY <2>5, <2>12, OwnPay DEF Moves
  <2>13. CASE Panic(u)
    BY <2>1, <2>2, <2>3, <2>13, OwnPanic DEF BudgetOK, Early, most
  <2>14. CASE Hang(u)
    BY <2>5, <2>14, OwnHang DEF Moves, Early
  <2> QED
    BY <1>2, <2>6, <2>7, <2>8, <2>9, <2>10, <2>11, <2>12, <2>13, <2>14 DEF UnitMoves
<1> QED
  BY <1>1, <1>2, StepCases

LEMMA WorkspaceStep ==
  ASSUME BenchTypeOK, BudgetInv, WorkspaceInv, [Next]_vars
  PROVE  WorkspaceInv'
<1>1. CASE Standing
  BY <1>1 DEF Standing, WorkspaceInv, WorkspaceOK
<1>2. ASSUME NEW u \in DOMAIN unit, UnitMoves(u) PROVE WorkspaceInv'
  <2> DEFINE x == unit'[u]
             d == dir'[u]
             dry == opts.dry
  <2>1. SUFFICES OthersSame(u) /\ WorkspaceOK(x, d, dry)
    BY <2>1 DEF WorkspaceInv, WorkspaceOK, OthersSame
  <2>2. /\ unit[u].tries \in Nat /\ unit[u].case \in DOMAIN Fixture
        /\ unit[u].pc \in Early => unit[u].tries = 0
        /\ WorkspaceOK(unit[u], dir[u], dry)
    BY DEF BenchTypeOK, UnitTypeOK, BudgetInv, BudgetOK, WorkspaceInv
  <2>3. CASE Acquire(u)
    BY <2>2, <2>3, OwnAcquire DEF Moves, Early, WorkspaceOK
  <2>4. CASE Start(u)
    BY <2>2, <2>4, OwnStart DEF Moves, Early, WorkspaceOK
  <2>5. CASE Scaffold(u)
    BY <2>2, <2>5, OwnScaffold DEF Moves, Early, WorkspaceOK
  <2>6. CASE Attempt(u)
    BY <2>2, <2>6, OwnAttempt, BenchAssumption DEF WorkspaceOK, Workspaces
  <2>7. CASE ScoreUnit(u)
    BY <2>2, <2>7, OwnScore DEF Moves, WorkspaceOK
  <2>8. CASE Finish(u)
    <3>1. /\ OthersSame(u) /\ Moves(u, "finish", "pay")
          /\ d.ws = IF KeepsWorkspace(x.res) THEN dir[u].ws ELSE Absent
      BY <2>8, OwnFinish
    <3>2. x.tries > 0 => ~dry /\ dir[u].ws = x.work /\ x.work # Absent
      BY <2>2, <3>1 DEF Moves, WorkspaceOK
    <3>3. x.tries > 0 /\ (x.res.failed \/ Unclassified(x.res)) => KeepsWorkspace(x.res)
      BY <3>2 DEF KeepsWorkspace, Missed, Unclassified
    <3> QED
      BY <2>2, <3>1, <3>2, <3>3 DEF Moves, WorkspaceOK
  <2>9. CASE Pay(u)
    BY <2>2, <2>9, OwnPay DEF Moves, WorkspaceOK
  <2>10. CASE Panic(u)
    BY <2>2, <2>10, OwnPanic DEF WorkspaceOK
  <2>11. CASE Hang(u)
    BY <2>2, <2>11, OwnHang DEF Moves, WorkspaceOK
  <2> QED
    BY <1>2, <2>3, <2>4, <2>5, <2>6, <2>7, <2>8, <2>9, <2>10, <2>11 DEF UnitMoves
<1> QED
  BY <1>1, <1>2, StepCases

LEMMA CatchStep ==
  ASSUME BenchTypeOK, WorkspaceInv, CatchInv, [Next]_vars
  PROVE  CatchInv'
<1>1. CASE Standing
  BY <1>1 DEF Standing, CatchInv, CatchOK
<1>2. ASSUME NEW u \in DOMAIN unit, UnitMoves(u) PROVE CatchInv'
  <2> DEFINE x == unit'[u]
  <2>1. SUFFICES OthersSame(u) /\ CatchOK(x)
    BY <2>1 DEF CatchInv, CatchOK, OthersSame
  <2>2. /\ CatchOK(unit[u]) /\ unit[u].pc \in Pcs /\ unit[u].tries \in Nat
        /\ unit[u].pc = "score" => dir[u].ws = unit[u].work
    BY DEF BenchTypeOK, UnitTypeOK, WorkspaceInv, WorkspaceOK, CatchInv
  <2>3. CASE /\ OthersSame(u) /\ x.work = unit[u].work /\ x.res.catch = unit[u].res.catch
             /\ \/ x.pc \in {"finish", "pay", "done"}
                \/ unit[u].pc \in Early
    BY <2>2, <2>3 DEF CatchOK, OthersSame, Early
  <2>4. CASE Acquire(u)
    BY <2>3, <2>4, OwnAcquire DEF Moves, Early
  <2>5. CASE Start(u)
    BY <2>3, <2>5, OwnStart DEF Moves, Early
  <2>6. CASE Scaffold(u)
    BY <2>3, <2>6, OwnScaffold DEF Moves, Early
  <2>7. CASE Attempt(u)
    BY <2>2, <2>7, OwnAttempt DEF CatchOK, OthersSame
  <2>8. CASE ScoreUnit(u)
    BY <2>2, <2>8, OwnScore DEF Moves, CatchOK, OthersSame, Early
  <2>9. CASE Finish(u)
    BY <2>3, <2>9, OwnFinish, FinishKeeps DEF Moves
  <2>10. CASE Pay(u)
    BY <2>3, <2>10, OwnPay DEF Moves
  <2>11. CASE Panic(u)
    BY <2>2, <2>11, OwnPanic DEF CatchOK, Early
  <2>12. CASE Hang(u)
    BY <2>2, <2>12, OwnHang DEF Moves, CatchOK, OthersSame, Early
  <2> QED
    BY <1>2, <2>4, <2>5, <2>6, <2>7, <2>8, <2>9, <2>10, <2>11, <2>12 DEF UnitMoves
<1> QED
  BY <1>1, <1>2, StepCases

-----------------------------------------------------------------------------
(***************************************************************************)
(* The pool: its slots, what was spent, and what was in flight.            *)
(***************************************************************************)
LEMMA PartsAreFinite ==
  ASSUME BenchTypeOK, NEW s \in SUBSET DOMAIN unit
  PROVE  IsFiniteSet(s) /\ Cardinality(s) \in Nat
BY FS_Subset, FS_CardinalityType DEF BenchTypeOK

\* How a step of a unit changes who holds a slot, who runs and who has ended.
Slotted(u) ==
  /\ OthersSame(u)
  /\ unit[u].pc \in InJob => unit'[u].pc \in InJob \cup {"done", "skipped"}
  /\ unit[u].pc \notin InJob => Acquire(u)

LEMMA SlotMoves ==
  ASSUME BenchTypeOK, NEW u \in DOMAIN unit, UnitMoves(u)
  PROVE  Slotted(u)
<1>1. CASE Acquire(u)
  BY <1>1, OwnAcquire DEF Slotted, Moves, InJob
<1>2. CASE Start(u)
  BY <1>2, OwnStart DEF Slotted, Moves, InJob
<1>3. CASE Scaffold(u)
  BY <1>3, OwnScaffold DEF Slotted, Moves, InJob
<1>4. CASE Attempt(u)
  BY <1>4, OwnAttempt DEF Slotted, InJob
<1>5. CASE ScoreUnit(u)
  BY <1>5, OwnScore DEF Slotted, Moves, InJob
<1>6. CASE Finish(u)
  BY <1>6, OwnFinish DEF Slotted, Moves, InJob
<1>7. CASE Pay(u)
  BY <1>7, OwnPay DEF Slotted, Moves, InJob
<1>8. CASE Panic(u)
  BY <1>8, OwnPanic DEF Slotted, InJob
<1>9. CASE Hang(u)
  BY <1>9, OwnHang DEF Slotted, Moves, InJob
<1> QED
  BY <1>1, <1>2, <1>3, <1>4, <1>5, <1>6, <1>7, <1>8, <1>9 DEF UnitMoves

LEMMA SlotsStep ==
  ASSUME BenchTypeOK, SlotsInv, [Next]_vars
  PROVE  SlotsInv'
<1>1. CASE Standing
  BY <1>1 DEF Standing, SlotsInv, Holding
<1>2. ASSUME NEW u \in DOMAIN unit, UnitMoves(u) PROVE SlotsInv'
  <2>1. Slotted(u)
    BY <1>2, SlotMoves
  <2>2. IsFiniteSet(Holding) /\ Cardinality(Holding) \in Nat
    BY PartsAreFinite DEF Holding
  <2>3. Workers \in Nat
    BY BenchAssumption
  <2>4. CASE unit[u].pc \in InJob
    <3>1. Holding' \subseteq Holding
      BY <2>1, <2>4 DEF Slotted, OthersSame, Holding
    <3>2. Cardinality(Holding') \in Nat /\ Cardinality(Holding') <= Cardinality(Holding)
      BY <2>2, <3>1, FS_Subset, FS_CardinalityType
    <3> QED
      BY <2>2, <2>3, <3>2 DEF SlotsInv
  <2>5. CASE unit[u].pc \notin InJob
    <3>1. Acquire(u)
      BY <2>1, <2>5 DEF Slotted
    <3>2. Cardinality(Holding) < Workers /\ OthersSame(u) /\ unit'[u].pc = "held"
      BY <3>1, OwnAcquire DEF Moves
    <3>3. Holding' = Holding \cup {u} /\ u \notin Holding
      BY <2>5, <3>2 DEF OthersSame, Holding, InJob
    <3>4. Cardinality(Holding') = Cardinality(Holding) + 1
      BY <2>2, <3>3, FS_AddElement
    <3> QED
      BY <2>2, <2>3, <3>2, <3>4 DEF SlotsInv
  <2> QED
    BY <2>4, <2>5
<1> QED
  BY <1>1, <1>2, StepCases

LEMMA CostsAre ==
  ASSUME BenchTypeOK
  PROVE  /\ \A u \in DOMAIN unit : CostOf[u] = unit[u].res.cost /\ CostOf[u] \in Nat
         /\ Ran \subseteq DOMAIN unit /\ IsFiniteSet(DOMAIN unit)
BY DEF BenchTypeOK, UnitTypeOK, CostOf, Ran

LEMMA NothingYet ==
  ASSUME BenchTypeOK, BudgetInv, NEW u \in DOMAIN unit, unit[u].pc \in Early
  PROVE  unit[u].res.cost = 0
<1>1. unit[u].tries = 0 /\ unit[u].res.cost <= 0 * Max(Costs) /\ unit[u].res.cost \in Nat
  BY DEF BudgetInv, BudgetOK, BenchTypeOK, UnitTypeOK
<1> QED
  BY <1>1, MostIs, MoreAttempts

LEMMA SpentStep ==
  ASSUME BenchTypeOK, BudgetInv, SpentInv, [Next]_vars
  PROVE  SpentInv'
<1>1. CASE Standing
  BY <1>1 DEF Standing, SpentInv, CostOf, Ran
<1>2. ASSUME NEW u \in DOMAIN unit, UnitMoves(u) PROVE SpentInv'
  <2>1. BenchTypeOK'
    BY TypeStep
  <2>2. IsFiniteSet(Ran) /\ IsFiniteSet(Ran') /\ spent \in Nat
    <3>1. /\ IsFiniteSet(DOMAIN unit) /\ Ran \subseteq DOMAIN unit
          /\ IsFiniteSet(DOMAIN unit') /\ Ran' \subseteq DOMAIN unit'
      BY <2>1 DEF BenchTypeOK, Ran
    <3> QED
      BY <3>1, FS_Subset DEF BenchTypeOK
  <2> DEFINE f == CostOf
             g == CostOf'
             S == Ran
             T == Ran'
  <2>3. \A v \in DOMAIN unit : f[v] = unit[v].res.cost /\ f[v] \in Nat
    BY CostsAre
  <2>4. \A v \in DOMAIN unit' : g[v] = unit'[v].res.cost /\ g[v] \in Nat
    BY <2>1 DEF BenchTypeOK, UnitTypeOK, CostOf
  <2>5. CASE /\ OthersSame(u) /\ unit[u].pc # "done" /\ unit'[u].pc # "done" /\ spent' = spent
    <3>1. T = S
      BY <2>5 DEF OthersSame, Ran
    <3>2. \A v \in S : f[v] = g[v]
      BY <2>3, <2>4, <2>5 DEF OthersSame, Ran
    <3> HIDE DEF f, g, S, T
    <3>3. SumFunctionOnSet(f, S) = SumFunctionOnSet(g, T)
      BY <2>2, <3>1, <3>2, SumOfSame DEF S
    <3> QED
      BY <2>5, <3>3 DEF SpentInv, f, g, S, T
  <2>6. ASSUME OthersSame(u), unit[u].pc # "done", unit'[u].pc = "done",
               spent' = spent + unit'[u].res.cost
        PROVE  SpentInv'
    <3>1. T = S \cup {u} /\ u \notin S /\ T \ {u} = S /\ u \in T
      BY <2>6 DEF OthersSame, Ran
    <3>2. (\A v \in S : f[v] = g[v]) /\ (\A v \in T : g[v] \in Nat) /\ g[u] = unit'[u].res.cost
      BY <2>3, <2>4, <2>6 DEF OthersSame, Ran
    <3>3. spent = SumFunctionOnSet(f, S) /\ IsFiniteSet(S) /\ IsFiniteSet(T)
      BY <2>2 DEF SpentInv
    <3>4. spent' = spent + g[u]
      BY <2>6, <3>2
    <3> HIDE DEF f, g, S, T
    <3>5. SumFunctionOnSet(g, T) = g[u] + SumFunctionOnSet(g, T \ {u})
      BY <3>1, <3>2, <3>3, SumWithout
    <3>6. SumFunctionOnSet(f, S) = SumFunctionOnSet(g, S)
      BY <3>2, <3>3, SumOfSame
    <3>7. spent' = SumFunctionOnSet(g, T)
      <4>1. g[u] \in Nat /\ spent \in Nat
        BY <2>2, <3>1, <3>2
      <4>2. SumFunctionOnSet(g, T) = g[u] + spent
        BY <3>1, <3>3, <3>5, <3>6
      <4> QED
        BY <3>4, <4>1, <4>2
    <3> QED
      BY <3>7 DEF SpentInv, g, T
  <2>7. CASE Acquire(u)
    BY <2>5, <2>7, OwnAcquire DEF Moves
  <2>8. CASE Start(u)
    <3>1. unit'[u].res.cost = 0
      BY <2>8, OwnStart, NothingYet DEF Moves, Early
    <3> QED
      BY <2>2, <2>5, <2>6, <2>8, <3>1, OwnStart DEF Moves
  <2>9. CASE Scaffold(u)
    BY <2>5, <2>9, OwnScaffold DEF Moves
  <2>10. CASE Attempt(u)
    BY <2>5, <2>10, OwnAttempt
  <2>11. CASE ScoreUnit(u)
    BY <2>5, <2>11, OwnScore DEF Moves
  <2>12. CASE Finish(u)
    BY <2>5, <2>12, OwnFinish DEF Moves
  <2>13. CASE Pay(u)
    BY <2>6, <2>13, OwnPay DEF Moves
  <2>14. CASE Panic(u)
    BY <2>2, <2>6, <2>14, OwnPanic DEF InJob
  <2>15. CASE Hang(u)
    BY <2>5, <2>15, OwnHang DEF Moves
  <2> QED
    BY <1>2, <2>7, <2>8, <2>9, <2>10, <2>11, <2>12, <2>13, <2>14, <2>15 DEF UnitMoves
<1> QED
  BY <1>1, <1>2, StepCases

LEMMA OverspendStep ==
  ASSUME BenchTypeOK, BudgetInv, SlotsInv, SpentInv, OverspendInv, [Next]_vars
  PROVE  OverspendInv'
<1>1. CASE Standing
  BY <1>1 DEF Standing, OverspendInv, CostOf, Running
<1>2. ASSUME NEW u \in DOMAIN unit, UnitMoves(u) PROVE OverspendInv'
  <2>1. OthersSame(u) /\ opts' = opts
    BY <1>2, SlotMoves DEF Slotted, OthersSame
  <2>2. SUFFICES ASSUME opts.ceiling > 0
                 PROVE  \E last \in SUBSET DOMAIN unit :
                          /\ Cardinality(last) <= Workers /\ Running' \subseteq last
                          /\ SumFunctionOnSet(CostOf', DOMAIN unit \ last) < opts.ceiling
    BY <2>1 DEF OthersSame, OverspendInv
  <2>3. /\ \A v \in DOMAIN unit : CostOf[v] = unit[v].res.cost /\ CostOf[v] \in Nat
        /\ \A v \in DOMAIN unit : CostOf'[v] = unit'[v].res.cost
        /\ IsFiniteSet(DOMAIN unit)
    BY <2>1, CostsAre DEF OthersSame, CostOf
  <2>4. ASSUME unit'[u].pc \in InJob \ {"held"} => unit[u].pc \in InJob \ {"held"},
               unit[u].pc \notin InJob \ {"held"} => unit'[u].res.cost = unit[u].res.cost
        PROVE  \E last \in SUBSET DOMAIN unit :
                 /\ Cardinality(last) <= Workers /\ Running' \subseteq last
                 /\ SumFunctionOnSet(CostOf', DOMAIN unit \ last) < opts.ceiling
    <3>1. PICK last \in SUBSET DOMAIN unit :
            /\ Cardinality(last) <= Workers /\ Running \subseteq last
            /\ SumFunctionOnSet(CostOf, DOMAIN unit \ last) < opts.ceiling
      BY <2>2 DEF OverspendInv
    <3>2. Running' \subseteq last
      BY <2>1, <2>4, <3>1 DEF OthersSame, Running
    <3>3. \A v \in DOMAIN unit \ last : CostOf[v] = CostOf'[v]
      BY <2>1, <2>3, <2>4, <3>1 DEF OthersSame, Running
    <3> DEFINE f == CostOf
               g == CostOf'
               S == DOMAIN unit \ last
    <3>4. IsFiniteSet(S) /\ \A v \in S : f[v] = g[v]
      BY <2>3, <3>3, FS_Subset
    <3> HIDE DEF f, g, S
    <3>5. SumFunctionOnSet(f, S) = SumFunctionOnSet(g, S)
      BY <3>4, SumOfSame
    <3> QED
      BY <3>1, <3>2, <3>5 DEF f, g, S
  <2>5. CASE Acquire(u)
    BY <2>4, <2>5, OwnAcquire DEF Moves, InJob
  <2>6. CASE Start(u) /\ ~(unit'[u].pc = "scaffold" /\ UnderCeiling)
    BY <2>4, <2>6, OwnStart DEF Moves, InJob
  <2>7. CASE Start(u) /\ unit'[u].pc = "scaffold" /\ UnderCeiling
    <3>1. /\ Moves(u, "held", "scaffold") /\ unit'[u].res = unit[u].res
      BY <2>7, OwnStart DEF Moves
    <3> DEFINE f == CostOf
               g == CostOf'
               S == DOMAIN unit \ Holding
               R == Ran
    <3>2. Running' \subseteq Holding /\ Holding \in SUBSET DOMAIN unit
      BY <2>1, <3>1 DEF OthersSame, Moves, Running, Holding, InJob
    <3>3. IsFiniteSet(S) /\ \A v \in S : f[v] \in Nat /\ f[v] = g[v]
      BY <2>1, <2>3, <3>1, FS_Subset DEF OthersSame
    <3>4. R \in SUBSET S
      BY DEF Ran, Holding, InJob
    <3>5. \A v \in S \ R : f[v] = 0
      BY <2>3, NothingYet DEF Ran, Holding, Early, Pcs, BenchTypeOK, UnitTypeOK
    <3>6. spent = SumFunctionOnSet(f, R) /\ spent < opts.ceiling
      BY <2>2, <2>7 DEF SpentInv, UnderCeiling
    <3> HIDE DEF f, g, S, R
    <3>7. SumFunctionOnSet(f, S) = SumFunctionOnSet(f, R)
      BY <3>3, <3>4, <3>5, SumOfPart
    <3>8. SumFunctionOnSet(f, S) = SumFunctionOnSet(g, S)
      BY <3>3, SumOfSame
    <3>9. Cardinality(Holding) <= Workers
      BY DEF SlotsInv
    <3> QED
      BY <3>2, <3>6, <3>7, <3>8, <3>9 DEF g, S
  <2>8. CASE Scaffold(u)
    BY <2>4, <2>8, OwnScaffold DEF Moves, InJob
  <2>9. CASE Attempt(u)
    BY <2>4, <2>9, OwnAttempt DEF InJob
  <2>10. CASE ScoreUnit(u)
    BY <2>4, <2>10, OwnScore DEF Moves, InJob
  <2>11. CASE Finish(u)
    BY <2>4, <2>11, OwnFinish DEF Moves, InJob
  <2>12. CASE Pay(u)
    BY <2>4, <2>12, OwnPay DEF Moves, InJob
  <2>13. CASE Panic(u)
    BY <2>4, <2>13, OwnPanic, NothingYet DEF InJob, Early
  <2>14. CASE Hang(u)
    BY <2>4, <2>14, OwnHang DEF Moves, InJob
  <2> QED
    BY <1>2, <2>5, <2>6, <2>7, <2>8, <2>9, <2>10, <2>11, <2>12, <2>13, <2>14 DEF UnitMoves
<1> QED
  BY <1>1, <1>2, StepCases

-----------------------------------------------------------------------------
(***************************************************************************)
(* The invariant of the pool, and what follows from it.                    *)
(***************************************************************************)
BenchInv ==
  BenchTypeOK /\ BudgetInv /\ WorkspaceInv /\ CatchInv /\ SlotsInv /\ SpentInv /\ OverspendInv

LEMMA BenchStarts ==
  Init => BenchInv
<1> SUFFICES ASSUME Init PROVE BenchInv
  OBVIOUS
<1>1. /\ unit = BuildUnits(opts) /\ opts \in Runs /\ spent = 0
      /\ dir = [u \in DOMAIN unit |-> NoDir]
  BY DEF Init
<1>2. /\ unit \in Seq(FreshUnits) /\ DOMAIN unit = 1..Len(unit) /\ Len(unit) \in Nat
      /\ Len(unit) <= MaxUnits
  BY <1>1, UnitsAreFresh, BenchAssumption
<1>3. \A u \in DOMAIN unit : unit[u] \in FreshUnits /\ dir[u] = NoDir
  BY <1>1, <1>2
<1>4. \A u \in DOMAIN unit :
        /\ UnitTypeOK(unit[u], dir[u]) /\ BudgetOK(unit[u])
        /\ WorkspaceOK(unit[u], dir[u], opts.dry) /\ CatchOK(unit[u])
        /\ unit[u].pc = "queued" /\ unit[u].res.cost = 0
  BY <1>3, FreshIs
<1>5. IsFiniteSet(DOMAIN unit) /\ DOMAIN unit \subseteq Slots
  BY <1>2, FS_Interval, BenchAssumption DEF Slots
<1>6. BenchTypeOK
  BY <1>1, <1>2, <1>4, <1>5 DEF BenchTypeOK
<1>7. Holding = {} /\ Ran = {} /\ Running = {}
  BY <1>4 DEF Holding, Ran, Running, InJob
<1>8. SlotsInv
  BY <1>7, FS_EmptySet, BenchAssumption DEF SlotsInv
<1>9. SpentInv
  BY <1>1, <1>7, SumOfNone DEF SpentInv
<1>10. OverspendInv
  <2> DEFINE f == CostOf
             S == DOMAIN unit
  <2>1. IsFiniteSet(S) /\ \A v \in S : f[v] \in Nat /\ f[v] = 0
    BY <1>4, <1>5 DEF CostOf
  <2> HIDE DEF f, S
  <2>2. SumFunctionOnSet(f, S) = SumFunctionOnSet(f, {})
    BY <2>1, SumOfPart
  <2>3. SumFunctionOnSet(f, S) = 0
    BY <2>2, SumOfNone
  <2>4. S \ {} = S /\ {} \in SUBSET S
    OBVIOUS
  <2>5. opts.ceiling > 0 => SumFunctionOnSet(CostOf, DOMAIN unit \ {}) < opts.ceiling
    BY <2>3, <2>4 DEF f, S
  <2>6. Cardinality({}) <= Workers
    BY FS_EmptySet, BenchAssumption
  <2> QED
    BY <1>7, <2>5, <2>6 DEF OverspendInv
<1> QED
  BY <1>4, <1>6, <1>8, <1>9, <1>10 DEF BenchInv, BudgetInv, WorkspaceInv, CatchInv

LEMMA BenchSteps ==
  BenchInv /\ [Next]_vars => BenchInv'
BY TypeStep, BudgetStep, WorkspaceStep, CatchStep, SlotsStep, SpentStep, OverspendStep
DEF BenchInv

\* The invariant holds of every reachable state.
THEOREM BenchIsInvariant == Spec => []BenchInv
BY BenchStarts, BenchSteps, PTL DEF Spec

\* Whatever its agents cost, and however many workers it has, a run with a
\* ceiling overspends by no more than the units that were in flight (schedule,
\* runUnits).
THEOREM OverspendIsBounded == Spec => []OverspendIsInFlight
<1>1. BenchInv => OverspendIsInFlight
  BY DEF BenchInv, OverspendInv, OverspendIsInFlight, CostOf
<1> QED
  BY <1>1, BenchIsInvariant, PTL

\* No run that missed a defect or failed loses its workspace (finish).
THEOREM MissesCanBeClassified == Spec => []MissKeepsItsWorkspace
<1>1. BenchInv => MissKeepsItsWorkspace
  BY DEF BenchInv, WorkspaceInv, WorkspaceOK, Unclassified, MissKeepsItsWorkspace
<1> QED
  BY <1>1, BenchIsInvariant, PTL

-----------------------------------------------------------------------------
(***************************************************************************)
(* What a check of the agent's tests credits them with.                    *)
(***************************************************************************)
LEMMA ShownIsPossible ==
  ASSUME NEW tests, NEW possible, NEW n, NEW seen \in Shown(tests, possible, n), NEW t \in tests
  PROVE  seen[t] \subseteq possible[t] /\ DOMAIN seen = tests
BY DEF Shown

LEMMA CheckIsProof ==
  ASSUME NEW fixture, NEW ws, NEW catch \in Discriminate(fixture, ws),
         NEW d \in catch.judged, NEW t \in catch.caughtBy[d]
  PROVE  "pass" \in ws.tests[t].all /\ "fail" \in ws.tests[t].keep[d]
<1> DEFINE defects == fixture.key.defects
           ids == {defects[i].id : i \in {j \in DOMAIN defects :
                                            Len(defects) = 1 \/ defects[j].variant}}
           the(id) == CHOOSE x \in Range(defects) : x.id = id
           tests == DOMAIN ws.tests
           allOf == [s \in tests |-> ws.tests[s].all]
           keepOf(id) == [s \in tests |-> ws.tests[s].keep[id]]
           all == Shown(tests, allOf, 1)
           keep == [id \in ids |-> Shown(tests, keepOf(id), AttemptsFor(the(id)))]
           kept == {k \in [ids -> UNION Range(keep)] : \A id \in ids : k[id] \in keep[id]}
<1>1. CASE catch \in {Unchecked, NothingSeen}
  <2>1. catch.judged = {}
    BY <1>1 DEF Unchecked, NothingSeen
  <2> QED
    BY <2>1
<1>2. CASE catch \notin {Unchecked, NothingSeen}
  <2>1. catch \in UNION {IF Trusted(onAll) = {} THEN {NothingSeen}
                         ELSE {Verdict(onAll, onKeep) : onKeep \in kept} : onAll \in all}
    <3> HIDE DEF the
    <3> QED
      BY <1>2 DEF Discriminate, the
  <2> HIDE DEF kept, all
  <2>2. PICK onAll \in all, onKeep \in kept : catch = Verdict(onAll, onKeep)
    BY <1>2, <2>1
  <2>3. /\ d \in DOMAIN onKeep
        /\ t \in Trusted(onAll) /\ "fail" \in onKeep[d][t]
    BY <2>2 DEF Verdict
  <2>4. t \in DOMAIN onAll /\ onAll[t] = {"pass"}
    BY <2>3 DEF Trusted
  <2>5. DOMAIN onAll = tests
    BY <2>2 DEF all, Shown
  <2>6. onAll[t] \subseteq allOf[t] /\ t \in tests
    BY <2>2, <2>4, <2>5, ShownIsPossible DEF all
  <2>7. d \in ids /\ onKeep[d] \in keep[d]
    BY <2>2, <2>3 DEF kept
  <2> HIDE DEF ids, the, tests
  <2>8. onKeep[d] \in Shown(tests, keepOf(d), AttemptsFor(the(d)))
    BY <2>7
  <2>9. onKeep[d][t] \subseteq keepOf(d)[t]
    BY <2>6, <2>8, ShownIsPossible
  <2> QED
    BY <2>3, <2>4, <2>6, <2>9
<1> QED
  BY <1>1, <1>2

\* A test credited with a defect can pass on the correct code and fail where
\* that defect is left (Discriminate, runOnce).
THEOREM CreditIsProof == Spec => []CaughtIsProof
<1>1. BenchInv => CaughtIsProof
  <2> SUFFICES ASSUME BenchInv, NEW u \in DOMAIN unit, NEW d \in unit[u].res.catch.judged,
                      NEW t \in unit[u].res.catch.caughtBy[d]
               PROVE  /\ "pass" \in unit[u].work.tests[t].all
                      /\ "fail" \in unit[u].work.tests[t].keep[d]
    BY DEF CaughtIsProof
  <2>1. \/ unit[u].res.catch = Unchecked
        \/ unit[u].res.catch \in Discriminate(Fixture[unit[u].case], unit[u].work)
    BY DEF BenchInv, CatchInv, CatchOK
  <2>2. CASE unit[u].res.catch = Unchecked
    BY <2>2 DEF Unchecked
  <2>3. CASE unit[u].res.catch \in Discriminate(Fixture[unit[u].case], unit[u].work)
    BY <2>3, CheckIsProof
  <2> QED
    BY <2>1, <2>2, <2>3
<1> QED
  BY <1>1, BenchIsInvariant, PTL

-----------------------------------------------------------------------------
(***************************************************************************)
(* The pool implements its abstraction.                                    *)
(***************************************************************************)
Mapped == [u \in Slots |-> StateOf(u)]

LEMMA StatesAre ==
  ASSUME BenchTypeOK
  PROVE  /\ \A u \in Slots \ DOMAIN unit : StateOf(u) = "waiting"
         /\ \A u \in DOMAIN unit : /\ unit[u].pc = "queued" => StateOf(u) = "waiting"
                                   /\ unit[u].pc = "held" => StateOf(u) = "held"
                                   /\ unit[u].pc = "skipped" => StateOf(u) = "skipped"
                                   /\ unit[u].pc = "done" => StateOf(u) = "ran"
                                   /\ unit[u].pc \in InJob \ {"held"} => StateOf(u) = "running"
         /\ DOMAIN unit \subseteq Slots /\ \A u \in DOMAIN unit : unit[u].pc \in Pcs
BY DEF BenchTypeOK, UnitTypeOK, StateOf, InJob

LEMMA StatesMove ==
  ASSUME BenchTypeOK, BenchTypeOK', NEW u \in DOMAIN unit, OthersSame(u)
  PROVE  Mapped' = [Mapped EXCEPT ![u] = StateOf(u)']
<1>1. \A v \in Slots \ {u} : StateOf(v)' = StateOf(v)
  BY DEF OthersSame, StateOf
<1> QED
  BY <1>1 DEF Mapped, Slots, BenchTypeOK

LEMMA WorkingIsHolding ==
  ASSUME BenchTypeOK
  PROVE  P!Working = Holding
BY StatesAre DEF P!Working, Holding, InJob, Pcs

LEMMA PoolStarts ==
  ASSUME Init
  PROVE  P!PoolInit
<1>1. BenchTypeOK /\ opts \in Runs /\ spent = 0 /\ unit = BuildUnits(opts)
  BY BenchStarts DEF BenchInv, Init
<1>2. \A u \in DOMAIN unit : unit[u].pc = "queued"
  BY <1>1, UnitsAreFresh, FreshIs
<1>3. \A u \in Slots : StateOf(u) = "waiting"
  BY <1>1, <1>2, StatesAre
<1> QED
  BY <1>1, <1>3 DEF P!PoolInit

LEMMA PoolMoves ==
  ASSUME BenchInv, BenchTypeOK', NEW u \in DOMAIN unit, UnitMoves(u)
  PROVE  P!PoolNext \/ UNCHANGED P!poolVars
<1>1. /\ BenchTypeOK /\ OthersSame(u) /\ opts' = opts /\ u \in Slots /\ opts.ceiling \in Nat
      /\ spent \in Nat
  BY SlotMoves, BenchAssumption DEF Slotted, OthersSame, BenchInv, BenchTypeOK
<1>2. Mapped' = [Mapped EXCEPT ![u] = StateOf(u)'] /\ Mapped[u] = StateOf(u)
  BY <1>1, StatesMove DEF Mapped
<1>3. CASE StateOf(u)' = StateOf(u) /\ spent' = spent
  <2>1. Mapped' = Mapped
    BY <1>2, <1>3 DEF Mapped
  <2> QED
    BY <1>1, <1>3, <2>1 DEF P!poolVars, Mapped
<1>4. ASSUME unit[u].pc \in InJob \ {"held"}, unit'[u].pc \in InJob \ {"held"}, spent' = spent
      PROVE  StateOf(u)' = StateOf(u) /\ spent' = spent
  BY <1>1, <1>4, StatesAre DEF OthersSame, StateOf, InJob
<1>5. /\ unit'[u].pc = "held" => StateOf(u)' = "held"
      /\ unit'[u].pc = "skipped" => StateOf(u)' = "skipped"
      /\ unit'[u].pc = "done" => StateOf(u)' = "ran"
      /\ unit'[u].pc \in InJob \ {"held"} => StateOf(u)' = "running"
  BY <1>1 DEF OthersSame, StateOf, InJob
<1>6. CASE Acquire(u)
  <2>1. /\ StateOf(u) = "waiting" /\ StateOf(u)' = "held" /\ spent' = spent
        /\ Cardinality(Holding) < Workers
    BY <1>1, <1>5, <1>6, StatesAre, OwnAcquire DEF Moves
  <2>2. Cardinality(P!Working) < Workers
    BY <1>1, <2>1, WorkingIsHolding
  <2>3. P!Move(u, "waiting", "held")
    BY <1>2, <2>1 DEF P!Move, Mapped
  <2>4. P!Cardinality(P!Working) = Cardinality(P!Working)
    BY DEF P!Cardinality, Cardinality
  <2>5. P!Hold(u)
    BY <1>1, <2>1, <2>2, <2>3, <2>4 DEF P!Hold
  <2> QED
    BY <1>1, <2>5 DEF P!PoolNext
<1>7. CASE Start(u)
  <2>1. StateOf(u) = "held" /\ spent' = spent
    BY <1>1, <1>7, StatesAre, OwnStart DEF Moves
  <2>2. CASE unit'[u].pc = "done"
    <3>1. P!End(u)
      BY <1>1, <1>2, <1>5, <2>1, <2>2 DEF P!End, P!Move, Mapped
    <3> QED
      BY <1>1, <3>1 DEF P!PoolNext
  <2>3. CASE unit'[u].pc = "scaffold" /\ UnderCeiling
    <3>1. P!Launch(u)
      BY <1>1, <1>2, <1>5, <2>1, <2>3 DEF P!Launch, P!Move, Mapped, UnderCeiling, InJob
    <3> QED
      BY <1>1, <3>1 DEF P!PoolNext
  <2>4. CASE unit'[u].pc = "skipped" /\ ~UnderCeiling
    <3>1. opts.ceiling > 0 /\ spent >= opts.ceiling
      BY <1>1, <2>4 DEF UnderCeiling
    <3>2. P!Skip(u)
      BY <1>1, <1>2, <1>5, <2>1, <2>4, <3>1 DEF P!Skip, P!Move, Mapped
    <3> QED
      BY <1>1, <3>2 DEF P!PoolNext
  <2> QED
    BY <1>1, <1>7, <2>2, <2>3, <2>4, OwnStart DEF Moves
<1>8. CASE Scaffold(u)
  BY <1>1, <1>3, <1>4, <1>8, OwnScaffold DEF Moves, InJob
<1>9. CASE Attempt(u)
  BY <1>1, <1>3, <1>4, <1>9, OwnAttempt DEF InJob
<1>10. CASE ScoreUnit(u)
  BY <1>1, <1>3, <1>4, <1>10, OwnScore DEF Moves, InJob
<1>11. CASE Finish(u)
  BY <1>1, <1>3, <1>4, <1>11, OwnFinish DEF Moves, InJob
<1>12. CASE Pay(u)
  <2> DEFINE most == (Retries + 1) * Max(Costs)
             cost == unit[u].res.cost
  <2>1. StateOf(u) = "running" /\ StateOf(u)' = "ran" /\ spent' = spent + cost
    BY <1>1, <1>5, <1>12, StatesAre, OwnPay DEF Moves, InJob
  <2>2. cost \in 0..most
    <3> DEFINE t == unit[u].tries
    <3>1. /\ cost \in Nat /\ t \in Nat /\ t <= Retries + 1
          /\ cost <= t * Max(Costs)
      BY <1>1 DEF BenchTypeOK, UnitTypeOK, BenchInv, BudgetInv, BudgetOK
    <3>2. Max(Costs) \in Nat /\ Retries + 1 \in Nat
      BY MostIs
    <3>3. ASSUME NEW m \in Nat, NEW n \in Nat, t <= n
          PROVE  t * m \in Nat /\ t * m <= n * m /\ n * m \in Nat
      BY <3>1, <3>3, MoreAttempts
    <3>4. /\ t * Max(Costs) \in Nat /\ t * Max(Costs) <= most
          /\ most \in Nat
      BY <3>1, <3>2, <3>3
    <3> HIDE DEF cost, most, t
    <3> QED
      BY <3>1, <3>4
  <2> HIDE DEF cost, most
  <2>3. P!End(u)
    BY <1>1, <1>2, <2>1, <2>2 DEF P!End, P!Move, Mapped, most
  <2> QED
    BY <1>1, <2>3 DEF P!PoolNext
<1>13. CASE Panic(u)
  <2>1. StateOf(u) \in {"held", "running"} /\ StateOf(u)' = "ran" /\ spent' = spent
    BY <1>1, <1>5, <1>13, StatesAre, OwnPanic DEF InJob
  <2>2. (Retries + 1) * Max(Costs) \in Nat
    BY MostIs, MoreAttempts
  <2>3. 0 \in 0..((Retries + 1) * Max(Costs)) /\ spent' = spent + 0
    BY <1>1, <2>1, <2>2
  <2>4. P!End(u)
    BY <1>1, <1>2, <2>1, <2>3 DEF P!End, P!Move, Mapped
  <2> QED
    BY <1>1, <2>4 DEF P!PoolNext
<1>14. CASE Hang(u)
  BY <1>1, <1>3, <1>4, <1>14, OwnHang DEF Moves, InJob
<1> QED
  BY <1>6, <1>7, <1>8, <1>9, <1>10, <1>11, <1>12, <1>13, <1>14 DEF UnitMoves

\* The pool implements its abstraction: a unit ends at most once, ran or skipped,
\* the workers are never exceeded, hung units included, nothing is launched once what was recorded
\* has reached the ceiling, and a unit adds what it cost when it ends (schedule,
\* runUnits).
THEOREM BenchImplementsPool == Spec => PoolSpec
<1>1. Init => P!PoolInit
  BY PoolStarts
<1>2. BenchInv /\ BenchInv' /\ [Next]_vars => [P!PoolNext]_P!poolVars
  <2> SUFFICES ASSUME BenchInv, BenchInv', [Next]_vars PROVE P!PoolNext \/ UNCHANGED P!poolVars
    OBVIOUS
  <2>1. CASE Standing
    BY <2>1 DEF Standing, P!poolVars, StateOf
  <2>2. ASSUME NEW u \in DOMAIN unit, UnitMoves(u)
        PROVE  P!PoolNext \/ UNCHANGED P!poolVars
    BY <2>2, PoolMoves DEF BenchInv
  <2> QED
    BY <2>1, <2>2, StepCases DEF BenchInv
<1> QED
  BY <1>1, <1>2, BenchIsInvariant, PTL DEF Spec, PoolSpec, P!PoolSpec

-----------------------------------------------------------------------------
(***************************************************************************)
(* The exit code.  A run is told by the units as they were when it was     *)
(* tallied, and no unit changes after that.                                *)
(***************************************************************************)
Results == [u \in Ran |-> unit[u].res]
Skipped == {u \in DOMAIN unit : unit[u].pc = "skipped"}

SkipInv == Skipped # {} => opts.ceiling > 0 /\ spent >= opts.ceiling

Truthful(c) ==
  /\ c = 0 => \A u \in DOMAIN unit : unit[u].pc = "done" /\ Measured(unit[u].res)
  /\ Skipped # {} => c = 2

\* What is on disk before each of the writes.
Due(now) == CASE now = "aggregate" -> {}
              [] now = "summary" -> {"aggregate"}
              [] now = "jsonl" -> {"aggregate", "summary"}
              [] now = "md" -> {"aggregate", "summary", "jsonl"}

Writing == {"aggregate", "summary", "jsonl", "md"}

PhaseInv ==
  /\ phase \in {"start", "pool", "exited"} \cup Writing
  /\ phase = "start" => Skipped = {}
  /\ phase \in {"start", "pool"} => code = 0 /\ files = {}
  /\ phase \in Writing =>
       Truthful(code) /\ files = Due(phase) /\ agg = FinalizeAggregate(Results)
  /\ phase = "exited" =>
       \/ code = 1 /\ Skipped = {} /\ files = {}
       \/ /\ code = 4 /\ files \in {Due(now) : now \in Writing}
          /\ agg = FinalizeAggregate(Results)
       \/ /\ Truthful(code) /\ {"aggregate", "summary"} \subseteq files
          /\ ~opts.dry /\ opts.history => {"jsonl", "md"} \subseteq files
          /\ agg = FinalizeAggregate(Results)

LEMMA SkipStep ==
  ASSUME BenchInv, SkipInv, [Next]_vars
  PROVE  SkipInv'
<1>1. BenchTypeOK /\ opts.ceiling \in Nat /\ spent \in Nat
  BY BenchAssumption DEF BenchInv, BenchTypeOK
<1>2. CASE Standing
  BY <1>2 DEF Standing, SkipInv, Skipped
<1>3. ASSUME NEW u \in DOMAIN unit, UnitMoves(u) PROVE SkipInv'
  <2>1. OthersSame(u)
    BY <1>1, <1>3, SlotMoves DEF Slotted
  <2>2. CASE unit'[u].pc # "skipped" /\ spent' >= spent /\ spent' \in Nat
    BY <1>1, <2>1, <2>2 DEF OthersSame, SkipInv, Skipped
  <2>3. CASE Acquire(u)
    BY <1>1, <2>2, <2>3, OwnAcquire DEF Moves
  <2>4. CASE Start(u)
    <3>1. unit'[u].pc = "skipped" => ~UnderCeiling
      BY <1>1, <2>4, OwnStart DEF Moves
    <3>2. spent' = spent
      BY <1>1, <2>4, OwnStart
    <3>3. CASE unit'[u].pc = "skipped"
      <4>1. opts.ceiling > 0 /\ spent >= opts.ceiling
        BY <1>1, <3>1, <3>3 DEF UnderCeiling
      <4> QED
        BY <2>1, <3>2, <4>1 DEF OthersSame, SkipInv
    <3> QED
      BY <1>1, <2>2, <3>2, <3>3
  <2>5. CASE Scaffold(u)
    BY <1>1, <2>2, <2>5, OwnScaffold DEF Moves
  <2>6. CASE Attempt(u)
    BY <1>1, <2>2, <2>6, OwnAttempt
  <2>7. CASE ScoreUnit(u)
    BY <1>1, <2>2, <2>7, OwnScore DEF Moves
  <2>8. CASE Finish(u)
    <3>1. unit'[u].pc = "pay" /\ spent' = spent
      BY <1>1, <2>8, OwnFinish DEF Moves
    <3> QED
      BY <1>1, <2>2, <3>1
  <2>9. CASE Pay(u)
    <3>1. unit[u].res.cost \in Nat
      BY <1>1 DEF BenchTypeOK, UnitTypeOK
    <3> QED
      BY <1>1, <2>2, <2>9, <3>1, OwnPay DEF Moves
  <2>10. CASE Panic(u)
    BY <1>1, <2>2, <2>10, OwnPanic
  <2>11. CASE Hang(u)
    BY <1>1, <2>2, <2>11, OwnHang DEF Moves
  <2> QED
    BY <1>3, <2>3, <2>4, <2>5, <2>6, <2>7, <2>8, <2>9, <2>10, <2>11 DEF UnitMoves
<1> QED
  BY <1>1, <1>2, <1>3, StepCases

LEMMA UnitsMoveInThePool ==
  ASSUME NEW u \in DOMAIN unit, UnitMoves(u)
  PROVE  phase = "pool" /\ UNCHANGED runVars /\ UNCHANGED readVars
<1>1. CASE Attempt(u)
  BY <1>1 DEF Attempt, UnitStep
<1>2. CASE Scaffold(u)
  BY <1>2 DEF Scaffold, UnitStep
<1>3. CASE ScoreUnit(u)
  BY <1>3 DEF ScoreUnit, UnitStep
<1>4. CASE Finish(u)
  BY <1>4 DEF Finish, UnitStep
<1> QED
  BY <1>1, <1>2, <1>3, <1>4 DEF UnitMoves, Acquire, Start, Pay, Panic, Hang, UnitStep

LEMMA TotalIsSpent ==
  ASSUME BenchInv
  PROVE  FinalizeAggregate(Results).cost = spent
<1> DEFINE f == [i \in Ran |-> Results[i].cost]
           g == CostOf
           S == Ran
<1>1. FinalizeAggregate(Results).cost = Total(DOMAIN Results, LAMBDA i : Results[i].cost)
  BY DEF FinalizeAggregate
<1>2. DOMAIN Results = Ran
  BY DEF Results
<1>3. FinalizeAggregate(Results).cost = SumFunctionOnSet(f, S)
  BY <1>1, <1>2 DEF Total
<1>4. IsFiniteSet(S) /\ \A i \in S : f[i] = g[i]
  BY PartsAreFinite, CostsAre DEF BenchInv, Results, Ran
<1>5. spent = SumFunctionOnSet(g, S)
  BY DEF BenchInv, SpentInv
<1> HIDE DEF f, g, S
<1> QED
  BY <1>3, <1>4, <1>5, SumOfSame

LEMMA TallyIsTruthful ==
  ASSUME BenchInv, SkipInv, \A u \in DOMAIN unit : unit[u].pc \in {"done", "skipped"}
  PROVE  Truthful(ExitCode(FinalizeAggregate(Results)))
<1> DEFINE a == FinalizeAggregate(Results)
           bad == {u \in Ran : Results[u].invalid}
           broken == {u \in Ran : Results[u].failed /\ ~Results[u].invalid}
<1>1. a.invalid = Cardinality(bad) /\ a.failed = Cardinality(broken) /\ a.cost = spent
  <2>1. DOMAIN Results = Ran
    BY DEF Results
  <2> QED
    BY <2>1, TotalIsSpent DEF FinalizeAggregate
<1>2. /\ IsFiniteSet(bad) /\ Cardinality(bad) \in Nat
      /\ IsFiniteSet(broken) /\ Cardinality(broken) \in Nat
  BY PartsAreFinite DEF BenchInv, Ran
<1>3. spent \in Nat /\ opts.ceiling \in Nat
  BY BenchAssumption DEF BenchInv, BenchTypeOK
<1> HIDE DEF a
<1>4. Skipped # {} => ExitCode(a) = 2
  BY <1>1, <1>3 DEF SkipInv, ExitCode, CeilingHit
<1>5. ASSUME ExitCode(a) = 0
      PROVE  \A u \in DOMAIN unit : unit[u].pc = "done" /\ Measured(unit[u].res)
  <2>1. Skipped = {}
    BY <1>4, <1>5
  <2>2. Cardinality(bad) = 0 /\ Cardinality(broken) = 0
    BY <1>1, <1>2, <1>5 DEF ExitCode
  <2>3. bad = {} /\ broken = {}
    BY <1>2, <2>2, FS_EmptySet
  <2>4. \A u \in DOMAIN unit : unit[u].pc = "done"
    BY <2>1 DEF Skipped
  <2>5. \A u \in Ran : ~Results[u].invalid /\ ~Results[u].failed
    BY <2>3
  <2>6. \A u \in DOMAIN unit : ~unit[u].res.invalid /\ ~unit[u].res.failed
    BY <2>4, <2>5 DEF Ran, Results
  <2> QED
    BY <2>4, <2>6 DEF Measured
<1> QED
  BY <1>4, <1>5 DEF Truthful, a

LEMMA WrittenStep ==
  ASSUME PhaseInv, Standing, NEW now \in Writing, NEW next, Written(now, next),
         \/ next \in Writing /\ Due(next) = Due(now) \cup {now}
         \/ /\ next = "exited" /\ {"aggregate", "summary"} \subseteq Due(now) \cup {now}
            /\ ~opts.dry /\ opts.history => now = "md"
  PROVE  PhaseInv'
<1>1. phase = now /\ Truthful(code) /\ files = Due(now) /\ agg = FinalizeAggregate(Results)
  BY DEF Written, PhaseInv
<1>2. Results' = Results /\ agg' = agg /\ opts' = opts
  BY DEF Standing, Results, Ran, Written
<1>3. CASE phase' = "exited" /\ code' = 4 /\ files' = files
  <2>1. files' \in {Due(n) : n \in Writing} /\ agg' = FinalizeAggregate(Results')
    BY <1>1, <1>2, <1>3
  <2>2. phase' \notin Writing \cup {"start", "pool"}
    BY <1>3 DEF Writing
  <2> QED
    BY <1>3, <2>1, <2>2 DEF PhaseInv
<1>4. CASE phase' = next /\ code' = code /\ files' = files \cup {now}
  <2>1. Truthful(code)'
    BY <1>1, <1>4 DEF Standing, Truthful, Skipped
  <2>2. CASE next \in Writing /\ Due(next) = Due(now) \cup {now}
    BY <1>1, <1>2, <1>4, <2>1, <2>2 DEF PhaseInv, Writing
  <2>3. CASE /\ next = "exited" /\ {"aggregate", "summary"} \subseteq Due(now) \cup {now}
             /\ ~opts.dry /\ opts.history => now = "md"
    BY <1>1, <1>2, <1>4, <2>1, <2>3 DEF PhaseInv, Writing, Due
  <2> QED
    BY <2>2, <2>3
<1> QED
  BY <1>3, <1>4 DEF Written

LEMMA PhaseStep ==
  ASSUME BenchInv, SkipInv, PhaseInv, [Next]_vars
  PROVE  PhaseInv'
<1>1. BenchTypeOK
  BY DEF BenchInv
<1>2. CASE Standing /\ UNCHANGED runVars
  BY <1>2 DEF Standing, runVars, PhaseInv, Truthful, Skipped, Results, Ran
<1>3. ASSUME NEW u \in DOMAIN unit, UnitMoves(u) PROVE PhaseInv'
  BY <1>3, UnitsMoveInThePool DEF PhaseInv, runVars, Writing
<1>4. CASE Prepare
  BY <1>4 DEF Prepare, PhaseInv, unitVars, Skipped, Writing
<1>5. CASE Tally
  <2>1. /\ unit' = unit /\ files' = files /\ files = {} /\ phase' = "aggregate"
        /\ agg' = FinalizeAggregate(Results) /\ code' = ExitCode(agg')
    BY <1>5 DEF Tally, unitVars, PhaseInv, Results
  <2>2. Truthful(code')
    BY <1>5, <2>1, TallyIsTruthful DEF Tally
  <2>3. Truthful(code)' /\ Results' = Results
    BY <2>1, <2>2 DEF Truthful, Skipped, Results, Ran
  <2> QED
    BY <2>1, <2>3 DEF PhaseInv, Due, Writing
<1>6. CASE WriteAggregate
  BY <1>1, <1>6, WrittenStep, RunStands DEF WriteAggregate, Main, Due, Writing
<1>7. CASE WriteSummary
  BY <1>1, <1>7, WrittenStep, RunStands DEF WriteSummary, Main, Due, Writing
<1>8. CASE AppendHistory
  BY <1>1, <1>8, WrittenStep, RunStands DEF AppendHistory, Main, Due, Writing
<1>9. CASE Rescore \/ (\E a \in DOMAIN decider : Read(a) \/ Record(a)) \/ UNCHANGED vars
           \/ \E u \in DOMAIN unit : Reword(u)
  <2>1. UNCHANGED runVars
    BY <1>9 DEF Rescore, Read, Record, Reword, vars
  <2>2. Standing
    BY <1>1, <1>9, RunStands, RecordStands, RewordStands
  <2> QED
    BY <1>2, <2>1, <2>2
<1> QED
  BY <1>3, <1>4, <1>5, <1>6, <1>7, <1>8, <1>9 DEF Next, Main, Advance, UnitMoves

LEMMA PhaseIsInvariant ==
  Spec => [](SkipInv /\ PhaseInv)
<1>1. Init => SkipInv /\ PhaseInv
  <2> SUFFICES ASSUME Init PROVE SkipInv /\ PhaseInv
    OBVIOUS
  <2>1. \A u \in DOMAIN unit : unit[u].pc = "queued"
    BY UnitsAreFresh, FreshIs DEF Init
  <2> QED
    BY <2>1 DEF Init, SkipInv, PhaseInv, Skipped, Writing
<1>2. BenchInv /\ SkipInv /\ PhaseInv /\ [Next]_vars => SkipInv' /\ PhaseInv'
  BY SkipStep, PhaseStep
<1> QED
  BY <1>1, <1>2, BenchIsInvariant, PTL DEF Spec

\* The exit code is the truth about the record of the run (tallyUnits,
\* finalizeRun, writeArtifacts).
THEOREM ExitCodeIsTrue == Spec => []ExitCodeTellsTheTruth
<1>1. PhaseInv => ExitCodeTellsTheTruth
  <2> SUFFICES ASSUME PhaseInv, phase = "exited" PROVE ExitCodeTellsTheTruth
    BY DEF ExitCodeTellsTheTruth
  <2>1. CASE code = 1 /\ Skipped = {} /\ files = {}
    BY <2>1 DEF ExitCodeTellsTheTruth, Skipped
  <2>2. CASE code = 4 /\ files \in {Due(now) : now \in Writing}
    BY <2>2 DEF ExitCodeTellsTheTruth, Due, Writing
  <2>3. CASE /\ Truthful(code) /\ {"aggregate", "summary"} \subseteq files
             /\ ~opts.dry /\ opts.history => {"jsonl", "md"} \subseteq files
    BY <2>3 DEF ExitCodeTellsTheTruth, Truthful, Skipped
  <2> QED
    BY <2>1, <2>2, <2>3 DEF PhaseInv
<1> QED
  BY <1>1, PhaseIsInvariant, PTL

-----------------------------------------------------------------------------
(***************************************************************************)
(* A score does not look at the text of a row, so a plan that was reworded *)
(* after the run finds what it found.                                      *)
(***************************************************************************)
Scored(score, other) == score.found = other.found /\ score.planFound = other.planFound

IsScore(s) ==
  s = [f \in {"planFound", "rows", "found", "pinned", "confirmed", "true", "false",
             "pending"} |-> s[f]]

\* The plans somebody can find beside a result.
Nonempty == {plan \in PlansLeft : plan.rows # <<>>}
Copies == PlansLeft \cup {Reworded(plan) : plan \in Nonempty}

\* Two rows that differ in their text only claim the same defects.
LEMMA TextClaimsNothing ==
  ASSUME NEW p, NEW q, p.ledger = q.ledger,
         NEW r, NEW s, r.cites = s.cites, r.names = s.names, r.evidence = s.evidence,
         NEW defects
  PROVE  Linked(p, r) = Linked(q, s) /\ Claimed(p, r, defects) = Claimed(q, s, defects)
<1>1. Linked(p, r) = Linked(q, s)
  BY DEF Linked
<1>2. \A d : Here(p, r, d) = Here(q, s, d)
  BY <1>1 DEF Here
<1>3. \A d : Near(p, r, d) = Near(q, s, d)
  BY <1>2 DEF Near
<1> DEFINE named(a, b) == {i \in DOMAIN defects : Named(a, b, defects[i])}
           lined(a, b) == {i \in DOMAIN defects : Near(a, b, defects[i]) # {}}
           dist(a, b, i) == Min({Away(c, defects[i]) : c \in Near(a, b, defects[i])})
           near(a, b) == {i \in lined(a, b) :
                            \A j \in lined(a, b) : dist(a, b, i) <= dist(a, b, j)}
<1>4. named(p, r) = named(q, s)
  BY <1>2 DEF Named
<1>5. lined(p, r) = lined(q, s)
  BY <1>3
<1>6. \A i : dist(p, r, i) = dist(q, s, i)
  BY <1>3
<1>7. \A a, b : Claimed(a, b, defects) =
        IF named(a, b) # {} THEN named(a, b)
        ELSE IF lined(a, b) = {} THEN {} ELSE {Min(near(a, b))}
  BY DEF Claimed
<1> HIDE DEF named, lined, dist
<1>8. near(p, r) = near(q, s)
  BY <1>5, <1>6
<1> HIDE DEF near
<1> QED
  BY <1>1, <1>4, <1>5, <1>7, <1>8

LEMMA ScoreIs ==
  ASSUME NEW p, NEW key
  PROVE  /\ IsScore(Score(p, key)) /\ Score(p, key).planFound = TRUE
         /\ Score(p, key).found =
              {key.defects[i].id :
                 i \in {j \in DOMAIN key.defects : Crediting(p, key.defects, j) # {}}}
BY DEF Score, IsScore

LEMMA ScoreFileIs ==
  ASSUME NEW file, NEW key
  PROVE  /\ IsScore(ScoreFile(file, key))
         /\ ScoreFile(file, key).planFound = (file # Absent)
         /\ file # Absent => ScoreFile(file, key) = Score(file, key)
<1> DEFINE none == Score(NoPlan, key)
<1>1. IsScore(none) /\ IsScore(Score(file, key)) /\ Score(file, key).planFound = TRUE
  BY ScoreIs
<1>2. ScoreFile(file, key) = IF file = Absent THEN [none EXCEPT !.planFound = FALSE]
                             ELSE Score(file, key)
  BY DEF ScoreFile
<1> HIDE DEF none
<1>3. /\ IsScore([none EXCEPT !.planFound = FALSE])
      /\ [none EXCEPT !.planFound = FALSE].planFound = FALSE
  BY <1>1 DEF IsScore
<1>4. CASE file = Absent
  BY <1>2, <1>3, <1>4
<1>5. CASE file # Absent
  BY <1>1, <1>2, <1>5
<1> QED
  BY <1>4, <1>5

\* Decisions about a score leave what the plan found.
LEMMA DecisionsFindNothing ==
  ASSUME NEW score, IsScore(score), NEW adj
  PROVE  Scored(FinishAdjudication(score, adj), score)
<1> DEFINE pending == score.rows - Len(adj.decisions)
           yes == Cardinality(Deciding(adj, "defect"))
           no == Cardinality(Deciding(adj, "false_positive"))
           confirmed == {adj.decisions[i].defect : i \in Deciding(adj, "defect")}
<1>1. FinishAdjudication(score, adj) =
        [score EXCEPT !.pending = pending, !.true = yes, !.false = no, !.confirmed = confirmed]
  BY DEF FinishAdjudication
<1> HIDE DEF pending, yes, no, confirmed
<1> QED
  BY <1>1 DEF IsScore, Scored

LEMMA RewordedIs ==
  ASSUME NEW p, IsPlan(p), p.rows # <<>>
  PROVE  LET q == Reworded(p)
         IN /\ IsPlan(q) /\ q.ledger = p.ledger /\ DOMAIN q.rows = DOMAIN p.rows
            /\ \A i \in DOMAIN p.rows :
                 /\ q.rows[i].cites = p.rows[i].cites /\ q.rows[i].names = p.rows[i].names
                 /\ q.rows[i].evidence = p.rows[i].evidence
            /\ q.rows # <<>> /\ Reworded(q) = q
<1> DEFINE S == {p.rows[i] : i \in DOMAIN p.rows}
           row == [p.rows[1] EXCEPT !.text = Garbled]
           rows == [p.rows EXCEPT ![1] = row]
           q == [p EXCEPT !.rows = rows]
<1>1. /\ p.rows \in Seq(S) /\ 1 \in DOMAIN p.rows
      /\ p = [f \in {"rows", "ledger"} |-> p[f]]
  BY DEF IsPlan
<1>2. Reworded(p) = q
  BY <1>1 DEF Reworded
<1>3. /\ row = [f \in {"cites", "names", "evidence", "pinned", "text"} |-> row[f]]
      /\ row.cites = p.rows[1].cites /\ row.names = p.rows[1].names
      /\ row.evidence = p.rows[1].evidence /\ row.text = Garbled
  BY <1>1 DEF IsPlan
<1>4. [row EXCEPT !.text = Garbled] = row
  BY <1>3
<1> HIDE DEF row
<1>5. /\ DOMAIN rows = DOMAIN p.rows /\ rows[1] = row
      /\ \A i \in DOMAIN p.rows \ {1} : rows[i] = p.rows[i]
      /\ rows \in Seq({rows[i] : i \in DOMAIN rows})
  <2>1. PICK n \in Nat : p.rows \in [1..n -> S]
    BY <1>1, SeqDef
  <2>2. /\ DOMAIN rows = 1..n /\ rows[1] = row
        /\ \A i \in DOMAIN p.rows \ {1} : rows[i] = p.rows[i]
        /\ rows = [i \in 1..n |-> rows[i]]
    BY <1>1, <2>1
  <2> DEFINE T == {rows[i] : i \in DOMAIN rows}
  <2> HIDE DEF rows
  <2>3. rows \in [1..n -> T]
    BY <2>2
  <2>4. rows \in Seq(T)
    BY <2>3, SeqDef
  <2> QED
    BY <2>1, <2>2, <2>4
<1>6. [rows EXCEPT ![1] = row] = rows
  BY <1>5
<1> HIDE DEF rows
<1>7. q = [f \in {"rows", "ledger"} |-> q[f]] /\ q.rows = rows /\ q.ledger = p.ledger
  BY <1>1
<1>8. [q EXCEPT !.rows = rows] = q
  BY <1>7
<1>9. \A i \in DOMAIN rows :
        rows[i] = [f \in {"cites", "names", "evidence", "pinned", "text"} |-> rows[i][f]]
  BY <1>3, <1>5 DEF IsPlan
<1>10. IsPlan(q)
  BY <1>5, <1>7, <1>9 DEF IsPlan
<1>11. Reworded(q) = [q EXCEPT !.rows = [rows EXCEPT ![1] = [rows[1] EXCEPT !.text = Garbled]]]
  BY <1>1, <1>5, <1>7 DEF Reworded
<1>12. Reworded(q) = q
  BY <1>4, <1>5, <1>6, <1>8, <1>11
<1>13. q.rows # <<>>
  BY <1>1, <1>5, <1>7
<1> HIDE DEF q
<1> QED
  BY <1>1, <1>2, <1>3, <1>5, <1>7, <1>10, <1>12, <1>13

LEMMA RewordingFindsTheSame ==
  ASSUME NEW p, IsPlan(p), p.rows # <<>>, NEW key
  PROVE  Score(Reworded(p), key).found = Score(p, key).found
<1> DEFINE q == Reworded(p)
<1>1. /\ q.ledger = p.ledger /\ DOMAIN q.rows = DOMAIN p.rows
      /\ \A i \in DOMAIN p.rows :
           /\ q.rows[i].cites = p.rows[i].cites /\ q.rows[i].names = p.rows[i].names
           /\ q.rows[i].evidence = p.rows[i].evidence
  BY RewordedIs
<1> HIDE DEF q
<1>2. \A j : Crediting(q, key.defects, j) = Crediting(p, key.defects, j)
  <2>1. \A r \in DOMAIN p.rows :
          /\ Linked(q, q.rows[r]) = Linked(p, p.rows[r])
          /\ Claimed(q, q.rows[r], key.defects) = Claimed(p, p.rows[r], key.defects)
    BY <1>1, TextClaimsNothing
  <2> QED
    BY <1>1, <2>1 DEF Crediting
<1> DEFINE by(x) == {j \in DOMAIN key.defects : Crediting(x, key.defects, j) # {}}
<1>3. by(q) = by(p)
  BY <1>2
<1>4. \A x : Score(x, key).found = {key.defects[i].id : i \in by(x)}
  BY ScoreIs
<1> HIDE DEF by
<1>5. Score(q, key).found = Score(p, key).found
  BY <1>3, <1>4
<1> QED
  BY <1>5 DEF q

\* Rewording a plan that lies beside a result keeps what it finds.
LEMMA CopiesFindTheSame ==
  ASSUME NEW copy \in Copies, copy.rows # <<>>, NEW key
  PROVE  /\ copy # Absent /\ Reworded(copy) \in Copies /\ Reworded(copy) # Absent
         /\ Scored(ScoreFile(Reworded(copy), key), ScoreFile(copy, key))
<1>1. PICK p \in PlansLeft : copy = p \/ (p.rows # <<>> /\ copy = Reworded(p))
  BY DEF Copies, Nonempty
<1>2. IsPlan(p) /\ p # Absent /\ (p.rows # <<>> => Reworded(p) # Absent)
  BY BenchAssumption DEF PlansLeft
<1>3. CASE copy = p
  <2>1. Reworded(copy) \in Copies /\ Reworded(copy) # Absent /\ copy # Absent
    BY <1>2, <1>3 DEF Copies, Nonempty
  <2>2. Score(Reworded(copy), key).found = Score(copy, key).found
    BY <1>2, <1>3, RewordingFindsTheSame
  <2> QED
    BY <2>1, <2>2, ScoreFileIs DEF Scored
<1>4. CASE p.rows # <<>> /\ copy = Reworded(p)
  <2>1. Reworded(copy) = copy
    BY <1>2, <1>4, RewordedIs
  <2> QED
    BY <1>2, <1>4, <2>1 DEF Scored
<1> QED
  BY <1>1, <1>3, <1>4

-----------------------------------------------------------------------------
(***************************************************************************)
(* What a rescore reads.  A measured run has the score of the plan it      *)
(* delivered; when it is recorded, that plan, or one that scores the same, *)
(* is in the workspace that was kept or beside the result, unless the copy *)
(* was lost.                                                               *)
(***************************************************************************)
KeyOf(x) == Fixture[x.case].key
LostOf(x, d) == x.res.score.planFound /\ d.ws = Absent /\ d.copy = Absent
PlanIn(d) == IF d.ws # Absent THEN Delivered(d.ws) ELSE d.copy

ScoreOK(x, d) ==
  /\ d.ws \in Workspaces \cup {Absent} /\ d.copy \in Copies \cup {Absent}
  /\ x.pc \in {"agent", "score", "finish"} => d.ws \in Workspaces
  /\ Measured(x.res) /\ x.pc = "finish" => x.res.score = ScoreFile(Delivered(d.ws), KeyOf(x))
  /\ Measured(x.res) /\ x.pc \in {"pay", "done"} =>
       LostOf(x, d) \/ Scored(ScoreFile(PlanIn(d), KeyOf(x)), x.res.score)

ScoreInv == \A u \in DOMAIN unit : ScoreOK(unit[u], dir[u])

LEMMA FinishRemembers ==
  ASSUME BenchTypeOK, ScoreInv, NEW u \in DOMAIN unit, Finish(u)
  PROVE  OthersSame(u) /\ ScoreOK(unit'[u], dir'[u])
<1> DEFINE plan == Delivered(dir[u].ws)
           x == unit'[u]
           d == dir'[u]
<1>1. PICK copied \in BOOLEAN, written \in BOOLEAN :
        /\ OthersSame(u) /\ Moves(u, "finish", "pay")
        /\ plan = Absent => copied
        /\ x.res = [unit[u].res EXCEPT !.failed = @ \/ ~written]
        /\ d.ws = IF KeepsWorkspace(x.res) THEN dir[u].ws ELSE Absent
        /\ d.copy = IF copied THEN plan ELSE Absent
  BY OwnFinish
<1>2. ScoreOK(unit[u], dir[u]) /\ IsResult(unit[u].res)
  BY DEF ScoreInv, BenchTypeOK, UnitTypeOK
<1>3. dir[u].ws \in Workspaces /\ Absent \notin Workspaces
  BY <1>1, <1>2, BenchAssumption DEF ScoreOK, Moves
<1>4. plan = Absent \/ plan \in PlansLeft
  BY <1>3 DEF PlansLeft
<1>5. d.ws \in Workspaces \cup {Absent} /\ d.copy \in Copies \cup {Absent}
  BY <1>1, <1>3, <1>4 DEF Copies
<1>6. ASSUME Measured(x.res)
      PROVE  LostOf(x, d) \/ Scored(ScoreFile(PlanIn(d), KeyOf(x)), x.res.score)
  <2>1. Measured(unit[u].res) /\ x.res.score = unit[u].res.score
    BY <1>1, <1>2, <1>6 DEF Measured, IsResult
  <2>2. x.case = unit[u].case
    BY <1>1 DEF OthersSame
  <2>3. x.res.score = ScoreFile(plan, KeyOf(x))
    BY <1>1, <1>2, <2>1, <2>2 DEF ScoreOK, Moves, KeyOf
  <2>4. CASE PlanIn(d) = plan
    BY <2>3, <2>4 DEF Scored
  <2>5. CASE PlanIn(d) # plan
    <3>1. d.ws = Absent /\ ~copied /\ d.copy = Absent /\ plan # Absent
      BY <1>1, <1>3, <2>5 DEF PlanIn
    <3>2. x.res.score.planFound
      BY <2>3, <3>1, ScoreFileIs
    <3> QED
      BY <3>1, <3>2 DEF LostOf
  <2> QED
    BY <2>4, <2>5
<1> QED
  BY <1>1, <1>5, <1>6 DEF ScoreOK, Moves

LEMMA ScoreStep ==
  ASSUME BenchTypeOK, ScoreInv, [Next]_vars
  PROVE  ScoreInv'
<1>1. CASE Standing /\ \A v \in DOMAIN unit : dir'[v].copy = dir[v].copy
  BY <1>1 DEF Standing, ScoreInv, ScoreOK, KeyOf, LostOf, PlanIn, Scored
<1>2. ASSUME NEW u \in DOMAIN unit, Reword(u) PROVE ScoreInv'
  <2>1. /\ Standing /\ dir[u].copy # Absent /\ dir[u].copy.rows # <<>>
        /\ dir'[u].copy = Reworded(dir[u].copy)
        /\ \A v \in DOMAIN unit \ {u} : dir'[v] = dir[v]
    BY <1>2, RewordStands
  <2>2. ScoreOK(unit[u], dir[u]) /\ dir'[u].ws = dir[u].ws /\ unit' = unit
    BY <2>1 DEF ScoreInv, Standing
  <2>3. dir[u].copy \in Copies
    BY <2>1, <2>2 DEF ScoreOK
  <2>4. \A key : /\ dir'[u].copy \in Copies /\ dir'[u].copy # Absent
                 /\ Scored(ScoreFile(dir'[u].copy, key), ScoreFile(dir[u].copy, key))
    BY <2>1, <2>3, CopiesFindTheSame
  <2>5. Scored(ScoreFile(PlanIn(dir'[u]), KeyOf(unit[u])),
               ScoreFile(PlanIn(dir[u]), KeyOf(unit[u])))
    BY <2>2, <2>4 DEF PlanIn, Scored
  <2>6. ~LostOf(unit[u], dir[u]) /\ ~LostOf(unit[u], dir'[u])
    BY <2>1, <2>4 DEF LostOf
  <2>7. ScoreOK(unit'[u], dir'[u])
    BY <2>2, <2>4, <2>5, <2>6 DEF ScoreOK, Scored
  <2> QED
    BY <2>1, <2>2, <2>7 DEF ScoreInv, ScoreOK, KeyOf, LostOf, PlanIn, Scored
<1>3. ASSUME NEW u \in DOMAIN unit, UnitMoves(u) PROVE ScoreInv'
  <2> DEFINE x == unit'[u]
             d == dir'[u]
  <2>1. SUFFICES OthersSame(u) /\ ScoreOK(x, d)
    BY <2>1 DEF ScoreInv, ScoreOK, KeyOf, LostOf, PlanIn, Scored, OthersSame
  <2>2. /\ ScoreOK(unit[u], dir[u]) /\ unit[u].case \in DOMAIN Fixture
    BY DEF ScoreInv, BenchTypeOK, UnitTypeOK
  <2>3. CASE Acquire(u)
    BY <2>2, <2>3, OwnAcquire DEF Moves, ScoreOK
  <2>4. CASE Start(u)
    <3>1. /\ OthersSame(u) /\ x.res = unit[u].res /\ d = dir[u]
          /\ (x.pc = "done" /\ x.res.invalid) \/ x.pc \in {"scaffold", "skipped"}
      BY <2>4, OwnStart DEF Moves
    <3> QED
      BY <2>2, <3>1 DEF ScoreOK, Measured
  <2>5. CASE Scaffold(u)
    <3>1. /\ OthersSame(u) /\ d.ws = Fresh /\ d.copy = dir[u].copy
          /\ \/ x.pc = "finish" /\ x.res.invalid
             \/ x.pc = "finish" /\ x.res.score = ScoreFile(Delivered(Fresh), KeyOf(x))
             \/ x.pc = "agent"
      <4>1. /\ OthersSame(u) /\ d.ws = Fresh /\ d.copy = dir[u].copy
            /\ \/ x.pc = "finish" /\ x.res.invalid
               \/ x.pc = "finish" /\ x.res.score = ScoreFile(Delivered(Fresh), Key(u))
               \/ x.pc = "agent"
        BY <2>5, OwnScaffold DEF Moves
      <4>2. Key(u) = KeyOf(x)
        BY <4>1 DEF Key, KeyOf, OthersSame
      <4> QED
        BY <4>1, <4>2
    <3>2. Fresh \in Workspaces
      BY DEF Workspaces
    <3> QED
      BY <2>2, <3>1, <3>2 DEF ScoreOK, Measured
  <2>6. CASE Attempt(u)
    <3>1. PICK work \in Works[unit[u].case] :
            /\ OthersSame(u) /\ d.ws = work /\ d.copy = dir[u].copy
            /\ x.pc \in {"agent", "score"} \/ (x.pc = "finish" /\ x.res.failed)
      BY <2>6, OwnAttempt
    <3>2. work \in Workspaces
      BY <2>2 DEF Workspaces
    <3> QED
      BY <2>2, <3>1, <3>2 DEF ScoreOK, Measured
  <2>7. CASE ScoreUnit(u)
    <3>1. /\ OthersSame(u) /\ Moves(u, "score", "finish") /\ d = dir[u]
          /\ x.res.score = ScoreFile(Delivered(dir[u].ws), Key(u))
      BY <2>7, OwnScore
    <3>2. Key(u) = KeyOf(x)
      BY <3>1 DEF Key, KeyOf, OthersSame
    <3> QED
      BY <2>2, <3>1, <3>2 DEF ScoreOK, Moves
  <2>8. CASE Finish(u)
    BY <2>8, FinishRemembers
  <2>9. CASE Pay(u)
    <3>1. /\ OthersSame(u) /\ Moves(u, "pay", "done") /\ x.res = unit[u].res /\ d = dir[u]
      BY <2>9, OwnPay
    <3>2. KeyOf(x) = KeyOf(unit[u])
      BY <3>1 DEF KeyOf, OthersSame
    <3> QED
      BY <2>2, <3>1, <3>2 DEF ScoreOK, Moves, LostOf
  <2>10. CASE Panic(u)
    BY <2>2, <2>10, OwnPanic DEF ScoreOK, Measured
  <2>11. CASE Hang(u)
    <3>1. PICK ws \in LeftBy(u) :
            /\ OthersSame(u) /\ unit[u].pc \in {"scaffold", "agent", "score"} /\ x.pc = "hung"
            /\ d.ws = ws /\ d.copy = dir[u].copy
      BY <2>11, OwnHang DEF Moves
    <3>2. ws \in Workspaces \/ ws = dir[u].ws
      BY <2>2, <3>1 DEF LeftBy, Workspaces
    <3> QED
      BY <2>2, <3>1, <3>2 DEF ScoreOK
  <2> QED
    BY <1>3, <2>3, <2>4, <2>5, <2>6, <2>7, <2>8, <2>9, <2>10, <2>11 DEF UnitMoves
<1> QED
  BY <1>1, <1>2, <1>3, RunStands, RecordStands DEF Next, Advance, UnitMoves

-----------------------------------------------------------------------------
(***************************************************************************)
(* The aggregate of results that differ in their scores only.              *)
(***************************************************************************)
SameRun(p, q) ==
  /\ p.case = q.case /\ p.total = q.total /\ p.ids = q.ids /\ p.control = q.control
  /\ p.invalid = q.invalid /\ p.failed = q.failed

LEMMA AggregateOfSameRuns ==
  ASSUME NEW p, NEW q, DOMAIN p = DOMAIN q, \A i \in DOMAIN q : SameRun(p[i], q[i])
  PROVE  LET a == FinalizeAggregate(p)
             b == FinalizeAggregate(q)
         IN /\ a.invalid = b.invalid /\ a.failed = b.failed /\ a.defects = b.defects
            /\ a.unique = b.unique
            /\ (\A i \in MeasuredIn(q) : Scored(p[i].score, q[i].score))
                 => a.found = b.found /\ a.noPlan = b.noPlan /\ a.uniqueFound = b.uniqueFound
<1>1. MeasuredIn(p) = MeasuredIn(q)
  BY DEF MeasuredIn, Measured, SameRun
<1>2. KeyedIn(p) = KeyedIn(q)
  BY <1>1 DEF KeyedIn, MeasuredIn, SameRun
<1> DEFINE a == FinalizeAggregate(p)
           b == FinalizeAggregate(q)
           bad(r) == {i \in DOMAIN r : r[i].invalid}
           broken(r) == {i \in DOMAIN r : r[i].failed /\ ~r[i].invalid}
           totals(r) == [i \in KeyedIn(r) |-> r[i].total]
           unique(r) == UniqueIn(r, LAMBDA x : x.ids)
           planless(r) == {i \in MeasuredIn(r) : ~r[i].score.planFound}
           finds(r) == [i \in KeyedIn(r) |-> Cardinality(r[i].score.found)]
           found(r) == UniqueIn(r, LAMBDA x : x.score.found)
<1>3. \A r : LET c == FinalizeAggregate(r)
             IN /\ c.invalid = Cardinality(bad(r)) /\ c.failed = Cardinality(broken(r))
                /\ c.defects = SumFunctionOnSet(totals(r), KeyedIn(r))
                /\ c.unique = Cardinality(unique(r)) /\ c.noPlan = Cardinality(planless(r))
                /\ c.found = SumFunctionOnSet(finds(r), KeyedIn(r))
                /\ c.uniqueFound = Cardinality(found(r))
  BY DEF FinalizeAggregate, Total
<1>4. bad(p) = bad(q) /\ broken(p) = broken(q) /\ totals(p) = totals(q)
  BY <1>2 DEF SameRun, KeyedIn, MeasuredIn
<1>5. \A i \in KeyedIn(q) : SameRun(p[i], q[i])
  BY DEF KeyedIn, MeasuredIn
<1>6. unique(p) = unique(q)
  <2>1. \A r, e : e \in unique(r) <=>
          \E i \in KeyedIn(r) : \E d \in r[i].ids : e = <<r[i].case, d>>
    BY DEF UniqueIn, Keyed
  <2>2. \A e : e \in unique(p) <=> e \in unique(q)
    BY <1>2, <1>5, <2>1 DEF SameRun
  <2> HIDE DEF unique
  <2>3. unique(p) \subseteq unique(q) /\ unique(q) \subseteq unique(p)
    BY <2>2
  <2> QED
    BY <2>3
<1>7. ASSUME \A i \in MeasuredIn(q) : Scored(p[i].score, q[i].score)
      PROVE  planless(p) = planless(q) /\ finds(p) = finds(q) /\ found(p) = found(q)
  <2>1. planless(p) = planless(q)
    BY <1>1, <1>7 DEF Scored
  <2>2. \A i \in KeyedIn(q) : Scored(p[i].score, q[i].score)
    BY <1>7 DEF KeyedIn
  <2>3. finds(p) = finds(q)
    BY <1>2, <2>2 DEF Scored
  <2>4. \A r, e : e \in found(r) <=>
          \E i \in KeyedIn(r) : \E d \in r[i].score.found : e = <<r[i].case, d>>
    BY DEF UniqueIn, Keyed
  <2>5. \A e : e \in found(p) <=> e \in found(q)
    BY <1>2, <1>5, <2>2, <2>4 DEF SameRun, Scored
  <2> HIDE DEF found
  <2>6. found(p) \subseteq found(q) /\ found(q) \subseteq found(p)
    BY <2>5
  <2> QED
    BY <2>1, <2>3, <2>6
<1> HIDE DEF bad, broken, totals, unique, planless, finds, found
<1> QED
  BY <1>2, <1>3, <1>4, <1>6, <1>7

-----------------------------------------------------------------------------
(***************************************************************************)
(* A rescore.                                                              *)
(***************************************************************************)
Agrees ==
  /\ rescored.invalid = agg.invalid /\ rescored.failed = agg.failed
  /\ rescored.defects = agg.defects /\ rescored.unique = agg.unique
  /\ (\A u \in DOMAIN unit : Measured(unit[u].res) => ~LostOf(unit[u], dir[u])) =>
       /\ rescored.found = agg.found /\ rescored.noPlan = agg.noPlan
       /\ rescored.uniqueFound = agg.uniqueFound

RescoreInv == rescored \notin {Absent, Refused} => phase = "exited" /\ Agrees

\* A measured run keeps all but its score and its catch.
LEMMA RescoredIs ==
  ASSUME BenchTypeOK, ScoreInv, NEW u \in Ran, NEW catch
  PROVE  /\ SameRun(Rescored(u, catch), unit[u].res)
         /\ Measured(unit[u].res) /\ ~LostOf(unit[u], dir[u]) =>
              Scored(Rescored(u, catch).score, unit[u].res.score)
<1> DEFINE res == unit[u].res
           seen == IF dir[u].ws # Absent THEN catch ELSE res.catch
           score == ScoreFile(PlanOf(u), Key(u))
<1>1. IsResult(res) /\ ScoreOK(unit[u], dir[u]) /\ unit[u].pc = "done"
  BY DEF BenchTypeOK, UnitTypeOK, ScoreInv, Ran
<1>2. Rescored(u, catch) = IF ~Measured(res) THEN res
                           ELSE [res EXCEPT !.score = ReadAgain(u), !.catch = seen]
  BY DEF Rescored
<1> HIDE DEF seen
<1>3. SameRun(Rescored(u, catch), res)
  BY <1>1, <1>2 DEF SameRun, IsResult
<1>4. ASSUME Measured(res), ~LostOf(unit[u], dir[u])
      PROVE  Scored(Rescored(u, catch).score, res.score)
  <2>1. Rescored(u, catch).score = ReadAgain(u)
    BY <1>1, <1>2, <1>4 DEF IsResult
  <2>2. score = ScoreFile(PlanIn(dir[u]), KeyOf(unit[u]))
    BY DEF PlanOf, PlanIn, Key, KeyOf
  <2>3. Scored(score, res.score)
    BY <1>1, <1>4, <2>2 DEF ScoreOK
  <2>4. IsScore(score)
    BY ScoreFileIs
  <2>5. ReadAgain(u) = IF dir[u].adj # Absent /\ PlanOf(u) # Absent
                       THEN FinishAdjudication(score, dir[u].adj) ELSE score
    BY DEF ReadAgain
  <2> HIDE DEF score
  <2>6. Scored(ReadAgain(u), score)
    BY <2>4, <2>5, DecisionsFindNothing DEF Scored
  <2> QED
    BY <2>1, <2>3, <2>6 DEF Scored
<1> QED
  BY <1>3, <1>4

LEMMA RescoreStep ==
  ASSUME BenchTypeOK, ScoreInv, PhaseInv, RescoreInv, [Next]_vars
  PROVE  RescoreInv'
<1>1. CASE /\ Standing /\ phase' = phase /\ agg' = agg /\ rescored' = rescored
           /\ \A v \in DOMAIN unit : LostOf(unit[v], dir[v]) = LostOf(unit[v], dir'[v])
  <2> SUFFICES ASSUME rescored \notin {Absent, Refused} PROVE phase = "exited" /\ Agrees'
    BY <1>1 DEF RescoreInv
  <2>1. phase = "exited" /\ Agrees
    BY DEF RescoreInv
  <2> QED
    BY <1>1, <2>1 DEF Standing, Agrees
<1>2. ASSUME NEW u \in DOMAIN unit, UnitMoves(u) PROVE RescoreInv'
  <2>1. phase = "pool" /\ rescored' = rescored
    BY <1>2, UnitsMoveInThePool DEF readVars
  <2> QED
    BY <2>1 DEF RescoreInv
<1>3. CASE Main
  <2>1. phase # "exited" /\ rescored' = rescored
    BY <1>3 DEF Main, Prepare, Tally, WriteAggregate, WriteSummary, AppendHistory, Written,
               readVars
  <2> QED
    BY <2>1 DEF RescoreInv
<1>4. ASSUME NEW u \in DOMAIN unit, Reword(u) PROVE RescoreInv'
  <2>1. /\ Standing /\ dir[u].copy # Absent /\ dir[u].copy.rows # <<>>
        /\ dir'[u].copy = Reworded(dir[u].copy)
        /\ \A v \in DOMAIN unit \ {u} : dir'[v] = dir[v]
    BY <1>4, RewordStands
  <2>2. dir[u].copy \in Copies
    BY <2>1 DEF ScoreInv, ScoreOK
  <2>3. dir'[u].copy # Absent
    BY <2>1, <2>2, CopiesFindTheSame
  <2>4. phase' = phase /\ agg' = agg /\ rescored' = rescored
    BY <1>4 DEF Reword, runVars, readVars
  <2>5. \A v \in DOMAIN unit : LostOf(unit[v], dir[v]) = LostOf(unit[v], dir'[v])
    BY <2>1, <2>3 DEF LostOf
  <2> QED
    BY <1>1, <2>1, <2>4, <2>5
<1>5. ASSUME NEW a \in DOMAIN decider, Record(a) PROVE RescoreInv'
  <2>1. Standing /\ \A v \in DOMAIN unit : dir'[v].copy = dir[v].copy
    BY <1>5, RecordStands
  <2>2. phase' = phase /\ agg' = agg /\ rescored' = rescored
    BY <1>5 DEF Record, runVars
  <2>3. \A v \in DOMAIN unit : LostOf(unit[v], dir[v]) = LostOf(unit[v], dir'[v])
    BY <2>1 DEF LostOf, Standing
  <2> QED
    BY <1>1, <2>1, <2>2, <2>3
<1>6. CASE UNCHANGED vars \/ \E a \in DOMAIN decider : Read(a)
  <2>1. phase' = phase /\ agg' = agg /\ rescored' = rescored /\ Standing /\ dir' = dir
    BY <1>6, RunStands DEF Read, runVars, readVars, vars
  <2> QED
    BY <1>1, <2>1
<1>7. CASE Rescore
  <2> SUFFICES ASSUME rescored' # Refused PROVE phase' = "exited" /\ Agrees'
    BY DEF RescoreInv
  <2>1. Standing /\ dir' = dir /\ phase' = "exited" /\ agg' = agg /\ phase = "exited"
    BY <1>7, RunStands DEF Rescore, runVars
  <2>2. agg = FinalizeAggregate(Results)
    BY <1>7, <2>1 DEF PhaseInv, Rescore
  <2> DEFINE again == {u \in Ran : Measured(unit[u].res)}
             seen(c, u) == IF u \in again THEN c[u] ELSE Unchecked
  <2>3. PICK catch : rescored' = FinalizeAggregate([u \in Ran |-> Rescored(u, seen(catch, u))])
    BY <1>7 DEF Rescore
  <2> HIDE DEF seen
  <2> DEFINE p == [u \in Ran |-> Rescored(u, seen(catch, u))]
             q == Results
  <2>4. DOMAIN p = Ran /\ DOMAIN q = Ran /\ rescored' = FinalizeAggregate(p)
    BY <2>3 DEF Results
  <2>5. \A u \in Ran : p[u] = Rescored(u, seen(catch, u)) /\ q[u] = unit[u].res
    BY DEF Results
  <2>6. \A u \in Ran : SameRun(p[u], q[u])
    BY <2>5, RescoredIs
  <2>7. ASSUME \A u \in DOMAIN unit : Measured(unit[u].res) => ~LostOf(unit[u], dir[u])
        PROVE  \A u \in MeasuredIn(q) : Scored(p[u].score, q[u].score)
    BY <2>4, <2>5, <2>7, RescoredIs DEF MeasuredIn, Ran
  <2> HIDE DEF p, q
  <2>8. Agrees'
    BY <2>1, <2>2, <2>4, <2>6, <2>7, AggregateOfSameRuns DEF Agrees, Standing, q
  <2> QED
    BY <2>1, <2>8
<1> QED
  BY <1>2, <1>3, <1>4, <1>5, <1>6, <1>7 DEF Next, Advance, UnitMoves

\* A rescore reads every run as the run was read when it ended, out of the
\* workspaces that were kept and the copies of the plans of the others, whoever
\* has reworded or decided its rows since (Rescore, finish, ReadResult).
THEOREM RescoreReadsTheRun == Spec => []RescoreAgrees
<1>1. Init => ScoreInv /\ RescoreInv
  <2> SUFFICES ASSUME Init PROVE ScoreInv /\ RescoreInv
    OBVIOUS
  <2>1. \A u \in DOMAIN unit : unit[u].pc = "queued" /\ dir[u] = NoDir
    BY UnitsAreFresh, FreshIs DEF Init
  <2>2. ScoreInv
    BY <2>1 DEF ScoreInv, ScoreOK, NoDir
  <2> QED
    BY <2>2 DEF Init, RescoreInv
<1>2. BenchInv /\ SkipInv /\ PhaseInv /\ ScoreInv /\ RescoreInv /\ [Next]_vars
        => ScoreInv' /\ RescoreInv'
  BY ScoreStep, RescoreStep DEF BenchInv
<1>3. RescoreInv => RescoreAgrees
  BY DEF RescoreInv, Agrees, RescoreAgrees, Lost, LostOf
<1> QED
  BY <1>1, <1>2, <1>3, BenchIsInvariant, PhaseIsInvariant, PTL DEF Spec

-----------------------------------------------------------------------------
(***************************************************************************)
(* Decisions.  What a record holds was decided; who has read a record that *)
(* nobody else has read has read the record as it is.                      *)
(***************************************************************************)
DecidedIn(all, u) == {j[2] : j \in {k \in all : k[1] = u}}

IsRecord(adj, S) ==
  /\ adj = [f \in {"case", "run", "decisions", "superseded"} |-> adj[f]]
  /\ adj.case \in DOMAIN Fixture /\ adj.run \in Nat
  /\ adj.decisions \in Seq(S) /\ adj.superseded \in Seq(S)

Kept(adj) == Range(adj.decisions) \cup Range(adj.superseded)

Deciders(readers) == {a \in DOMAIN readers : readers[a].pc = "decided"}

\* The record of a unit as a reader finds it.
RecordIn(x, d) ==
  IF d.adj = Absent
  THEN [case |-> x.case, run |-> x.run, decisions |-> <<>>, superseded |-> <<>>]
  ELSE d.adj

JudgedInv ==
  /\ IsFiniteSet(judged)
  /\ \A j \in judged : j = <<j[1], j[2]>> /\ j[1] \in DOMAIN unit /\ j[2] \in Decisions
  /\ decider = [a \in opts.readers |-> decider[a]]
  /\ \A u \in DOMAIN unit : dir[u].adj = Absent \/ IsRecord(dir[u].adj, DecidedIn(judged, u))
  /\ \A a \in Deciders(decider) :
       /\ decider[a].unit \in DOMAIN unit /\ decider[a].decision \in Decisions
       /\ IsRecord(decider[a].adj, DecidedIn(judged, decider[a].unit))

AloneInv ==
  ~overlap =>
    /\ \A j \in judged : dir[j[1]].adj # Absent /\ j[2] \in Kept(dir[j[1]].adj)
    /\ \A a \in Deciders(decider) :
         decider[a].adj = RecordIn(unit[decider[a].unit], dir[decider[a].unit])

LEMMA Least ==
  ASSUME NEW S \in SUBSET Nat, S # {}
  PROVE  Min(S) \in S
<1>1. \E n \in S : \A m \in S : <<m, n>> \notin OpToRel(<, Nat)
  BY WFMin, NatLessThanWellFounded, S \subseteq Nat
<1>2. PICK n \in S : \A m \in S : <<m, n>> \notin OpToRel(<, Nat)
  BY <1>1
<1>3. \A m \in S : ~(m < n)
  BY <1>2, S \subseteq Nat DEF OpToRel
<1>4. \A m \in S : n <= m
  BY <1>3, S \subseteq Nat
<1> QED
  BY <1>4 DEF Min

LEMMA DecideKeeps ==
  ASSUME NEW S, NEW adj, IsRecord(adj, S), NEW d
  PROVE  LET new == Decide(adj, d)
         IN IsRecord(new, S \cup {d}) /\ Kept(adj) \cup {d} \subseteq Kept(new)
<1> DEFINE at == {i \in DOMAIN adj.decisions : adj.decisions[i].row = d.row}
           T == S \cup {d}
           new == Decide(adj, d)
<1>1. adj.decisions \in Seq(T) /\ adj.superseded \in Seq(T)
  BY SeqMonotonic DEF IsRecord
<1>2. CASE at = {}
  <2> DEFINE more == Append(adj.decisions, d)
  <2>1. new = [adj EXCEPT !.decisions = more]
    BY <1>2 DEF Decide
  <2>2. /\ more \in Seq(T) /\ DOMAIN adj.decisions \subseteq DOMAIN more
        /\ \A i \in DOMAIN adj.decisions : more[i] = adj.decisions[i]
        /\ d \in Range(more)
    <3>1. /\ more \in Seq(T) /\ Len(more) = Len(adj.decisions) + 1
          /\ \A i \in 1..Len(adj.decisions) : more[i] = adj.decisions[i]
          /\ more[Len(adj.decisions) + 1] = d
      BY <1>1
    <3>2. DOMAIN more = 1..Len(more) /\ DOMAIN adj.decisions = 1..Len(adj.decisions)
          /\ Len(adj.decisions) \in Nat
      BY <1>1, <3>1
    <3> QED
      BY <3>1, <3>2 DEF Range
  <2> HIDE DEF more
  <2>3. /\ new = [f \in {"case", "run", "decisions", "superseded"} |-> new[f]]
        /\ new.case = adj.case /\ new.run = adj.run
        /\ new.decisions = more /\ new.superseded = adj.superseded
    BY <2>1 DEF IsRecord
  <2>4. IsRecord(new, T)
    BY <1>1, <2>2, <2>3 DEF IsRecord
  <2>5. Range(adj.decisions) \subseteq Range(more)
    BY <2>2 DEF Range
  <2>6. Kept(adj) \cup {d} \subseteq Kept(new)
    BY <2>2, <2>3, <2>5 DEF Kept
  <2> QED
    BY <2>4, <2>6
<1>3. CASE at # {}
  <2> DEFINE k == Min(at)
             old == adj.decisions[k]
             ds == ReplaceAt(adj.decisions, k, d)
             more == Append(adj.superseded, old)
  <2>1. new = [adj EXCEPT !.decisions = ds, !.superseded = more]
    BY <1>3 DEF Decide
  <2>2. k \in DOMAIN adj.decisions
    <3>1. at \subseteq Nat
      BY <1>1
    <3> HIDE DEF at
    <3>2. k \in at
      BY <1>3, <3>1, Least
    <3> QED
      BY <3>2 DEF at
  <2> HIDE DEF k
  <2>3. /\ ds \in Seq(T) /\ DOMAIN ds = DOMAIN adj.decisions /\ ds[k] = d
        /\ \A i \in DOMAIN adj.decisions \ {k} : ds[i] = adj.decisions[i]
    <3>1. PICK n \in Nat : adj.decisions \in [1..n -> T]
      BY <1>1, SeqDef
    <3>2. ds \in [1..n -> T]
      BY <2>2, <3>1 DEF ReplaceAt
    <3>3. ds \in Seq(T)
      BY <3>2, SeqDef
    <3> QED
      BY <2>2, <3>1, <3>3 DEF ReplaceAt
  <2>4. old \in T
    BY <1>1, <2>2
  <2> HIDE DEF old
  <2>5. /\ more \in Seq(T) /\ old \in Range(more)
        /\ Range(adj.superseded) \subseteq Range(more)
    <3>1. /\ more \in Seq(T) /\ Len(more) = Len(adj.superseded) + 1
          /\ \A i \in 1..Len(adj.superseded) : more[i] = adj.superseded[i]
          /\ more[Len(adj.superseded) + 1] = old
      BY <1>1, <2>4
    <3>2. DOMAIN more = 1..Len(more) /\ DOMAIN adj.superseded = 1..Len(adj.superseded)
          /\ Len(adj.superseded) \in Nat
      BY <1>1, <3>1
    <3> QED
      BY <3>1, <3>2 DEF Range
  <2> HIDE DEF ds, more
  <2>6. /\ new = [f \in {"case", "run", "decisions", "superseded"} |-> new[f]]
        /\ new.case = adj.case /\ new.run = adj.run
        /\ new.decisions = ds /\ new.superseded = more
    BY <2>1 DEF IsRecord
  <2>7. IsRecord(new, T)
    BY <2>3, <2>5, <2>6 DEF IsRecord
  <2>8. Range(adj.decisions) \subseteq Range(ds) \cup {old} /\ d \in Range(ds)
    BY <2>2, <2>3 DEF Range, old
  <2>9. Kept(adj) \cup {d} \subseteq Kept(new)
    BY <2>5, <2>6, <2>8 DEF Kept
  <2> QED
    BY <2>7, <2>9
<1> QED
  BY <1>2, <1>3

\* What a unit does in the pool leaves its record alone.
LEMMA RecordsAreLeft ==
  ASSUME BenchTypeOK, NEW u \in DOMAIN unit, UnitMoves(u)
  PROVE  \A v \in DOMAIN unit : dir'[v].adj = dir[v].adj
<1>1. /\ dir = [v \in DOMAIN unit |-> dir[v]]
      /\ \A v \in DOMAIN unit : IsDir(dir[v])
  BY DEF BenchTypeOK, UnitTypeOK
<1>2. CASE dir' = dir
  BY <1>2
<1>3. CASE \E ws : dir' = [dir EXCEPT ![u].ws = ws]
  BY <1>1, <1>3, WorkspaceChanges
<1>4. CASE \E copy, kept, ws :
             dir' = [dir EXCEPT ![u] = [@ EXCEPT !.copy = copy, !.kept = kept, !.ws = ws]]
  <2> PICK copy, kept, ws :
         dir' = [dir EXCEPT ![u] = [dir[u] EXCEPT !.copy = copy, !.kept = kept, !.ws = ws]]
    BY <1>1, <1>4
  <2> DEFINE d == [dir[u] EXCEPT !.copy = copy, !.kept = kept, !.ws = ws]
  <2>1. d.adj = dir[u].adj
    BY <1>1 DEF IsDir
  <2>2. dir' = [dir EXCEPT ![u] = d]
    OBVIOUS
  <2> HIDE DEF d
  <2> QED
    BY <1>1, <2>1, <2>2
<1>5. Scaffold(u) => \E ws : dir' = [dir EXCEPT ![u].ws = ws]
  BY DEF Scaffold
<1>6. Attempt(u) => \E ws : dir' = [dir EXCEPT ![u].ws = ws]
  BY DEF Attempt
<1>7. Finish(u) => \E copy, kept, ws :
             dir' = [dir EXCEPT ![u] = [@ EXCEPT !.copy = copy, !.kept = kept, !.ws = ws]]
  BY DEF Finish
<1>8. Acquire(u) \/ Start(u) \/ ScoreUnit(u) \/ Pay(u) \/ Panic(u) => dir' = dir
  BY DEF Acquire, Start, ScoreUnit, Pay, Panic
<1>9. Hang(u) => \E ws : dir' = [dir EXCEPT ![u].ws = ws]
  BY DEF Hang
<1> QED
  BY <1>2, <1>3, <1>4, <1>5, <1>6, <1>7, <1>8, <1>9 DEF UnitMoves

LEMMA RecordsAreThere ==
  ASSUME NEW adj, NEW S \in SUBSET Decisions, IsRecord(adj, S)
  PROVE  adj # Absent
<1>1. adj.decisions \in Seq(Decisions) /\ adj.superseded \in Seq(Decisions)
  BY SeqMonotonic DEF IsRecord
<1>2. adj \in Records
  BY <1>1 DEF IsRecord, Records
<1> QED
  BY <1>2, RecordAssumption

\* What can be read and decided in a copy.
LEMMA CopiesAreTyped ==
  ASSUME NEW copy \in Copies
  PROVE  \A i \in DOMAIN copy.rows : i \in Nat /\ copy.rows[i].text \in Texts
<1>1. PICK p \in PlansLeft : copy = p \/ (p.rows # <<>> /\ copy = Reworded(p))
  BY DEF Copies, Nonempty
<1>2. IsPlan(p) /\ \A i \in DOMAIN p.rows : i \in Nat /\ p.rows[i].text \in Texts
  <2>1. IsPlan(p)
    BY BenchAssumption
  <2>2. \A i \in DOMAIN p.rows : i \in Nat
    BY <2>1 DEF IsPlan
  <2>3. \A i \in DOMAIN p.rows : p.rows[i].text \in Texts
    BY DEF Texts
  <2> QED
    BY <2>1, <2>2, <2>3
<1>3. CASE copy = Reworded(p) /\ p.rows # <<>>
  <2> DEFINE row == [p.rows[1] EXCEPT !.text = Garbled]
             rows == [p.rows EXCEPT ![1] = row]
             q == [p EXCEPT !.rows = rows]
  <2>1. 1 \in DOMAIN p.rows
    BY <1>2, <1>3 DEF IsPlan
  <2>2. copy = q
    BY <1>2, <1>3, <2>1 DEF Reworded, IsPlan
  <2>3. row.text = Garbled
    BY <1>2, <2>1 DEF IsPlan
  <2> HIDE DEF row
  <2>4. DOMAIN rows = DOMAIN p.rows /\ \A i \in DOMAIN p.rows : rows[i] = IF i = 1 THEN row ELSE p.rows[i]
    BY <1>2 DEF IsPlan
  <2> HIDE DEF rows
  <2>5. copy.rows = rows
    BY <1>2, <2>2 DEF IsPlan
  <2> QED
    BY <1>2, <2>3, <2>4, <2>5 DEF Texts
<1> QED
  BY <1>1, <1>2, <1>3

LEMMA ReadIs ==
  ASSUME BenchTypeOK, ScoreInv, NEW a \in DOMAIN decider, DOMAIN decider = opts.readers, Read(a)
  PROVE  /\ \E u \in DOMAIN unit, d \in Decisions :
              decider' = [decider EXCEPT ![a] =
                [pc |-> "decided", unit |-> u, adj |-> RecordIn(unit[u], dir[u]), decision |-> d]]
         /\ unit' = unit /\ dir' = dir /\ judged' = judged /\ overlap' = overlap /\ opts' = opts
<1>1. unit' = unit /\ dir' = dir /\ judged' = judged /\ overlap' = overlap /\ opts' = opts
  BY DEF Read, unitVars, runVars
<1>2. PICK u \in DOMAIN unit, replace \in BOOLEAN :
        /\ dir[u].kept /\ unit[u].run > 0 /\ dir[u].copy # Absent
        /\ \E row \in DOMAIN dir[u].copy.rows, verdict \in Verdicts :
           \E defect \in IF verdict = "defect" THEN IdsOf(Key(u).defects) ELSE {Absent} :
             LET adj == IF dir[u].adj = Absent THEN NewRecord(u) ELSE dir[u].adj
                 d == [row |-> row, text |-> dir[u].copy.rows[row].text, by |-> a,
                       verdict |-> verdict, defect |-> defect]
             IN /\ CanDecide(adj, d, replace)
                /\ decider' = [decider EXCEPT ![a] =
                     [pc |-> "decided", unit |-> u, adj |-> adj, decision |-> d]]
  BY DEF Read
<1>3. PICK row \in DOMAIN dir[u].copy.rows, verdict \in Verdicts,
           defect \in {Absent} \cup IdsOf(Key(u).defects) :
        LET d == [row |-> row, text |-> dir[u].copy.rows[row].text, by |-> a,
                  verdict |-> verdict, defect |-> defect]
        IN decider' = [decider EXCEPT ![a] =
             [pc |-> "decided", unit |-> u, adj |-> RecordIn(unit[u], dir[u]), decision |-> d]]
  BY <1>2 DEF RecordIn, NewRecord
<1>4. row \in Nat /\ dir[u].copy.rows[row].text \in Texts
  BY <1>2, CopiesAreTyped DEF ScoreInv, ScoreOK
<1>5. a \in UNION {o.readers : o \in Runs}
  BY DEF BenchTypeOK
<1>6. defect \in {Absent} \cup UNION {IdsOf(Fixture[c].key.defects) : c \in DOMAIN Fixture}
  BY DEF BenchTypeOK, UnitTypeOK, Key
<1>7. [row |-> row, text |-> dir[u].copy.rows[row].text, by |-> a, verdict |-> verdict,
       defect |-> defect] \in Decisions
  BY <1>4, <1>5, <1>6 DEF Decisions
<1> QED
  BY <1>1, <1>3, <1>7

LEMMA FoundRecordsAre ==
  ASSUME BenchTypeOK, JudgedInv, NEW u \in DOMAIN unit
  PROVE  IsRecord(RecordIn(unit[u], dir[u]), DecidedIn(judged, u))
<1> DEFINE S == DecidedIn(judged, u)
<1>1. unit[u].case \in DOMAIN Fixture /\ unit[u].run \in Nat /\ <<>> \in Seq(S)
  BY DEF BenchTypeOK, UnitTypeOK
<1>2. dir[u].adj = Absent \/ IsRecord(dir[u].adj, S)
  BY DEF JudgedInv
<1> HIDE DEF S
<1> QED
  BY <1>1, <1>2 DEF RecordIn, IsRecord, S

LEMMA RecordsGrow ==
  ASSUME NEW adj, NEW S, NEW T, S \subseteq T, IsRecord(adj, S)
  PROVE  IsRecord(adj, T)
BY SeqMonotonic DEF IsRecord

LEMMA JudgedStep ==
  ASSUME BenchTypeOK, ScoreInv, JudgedInv, AloneInv, [Next]_vars
  PROVE  JudgedInv' /\ AloneInv'
<1>1. /\ DOMAIN decider = opts.readers
      /\ \A u \in DOMAIN unit : DecidedIn(judged, u) \subseteq Decisions
  BY DEF JudgedInv, DecidedIn
<1>2. CASE /\ judged' = judged /\ decider' = decider /\ overlap' = overlap /\ opts' = opts
           /\ DOMAIN unit' = DOMAIN unit
           /\ \A v \in DOMAIN unit : /\ dir'[v].adj = dir[v].adj
                                     /\ unit'[v].case = unit[v].case
                                     /\ unit'[v].run = unit[v].run
  <2>1. \A v \in DOMAIN unit : DecidedIn(judged', v) = DecidedIn(judged, v) /\ RecordIn(unit'[v], dir'[v]) = RecordIn(unit[v], dir[v])
    BY <1>2 DEF DecidedIn, RecordIn
  <2>2. Deciders(decider') = Deciders(decider)
    BY <1>2 DEF Deciders
  <2>3. JudgedInv'
    BY <1>2, <2>1, <2>2 DEF JudgedInv
  <2>4. AloneInv'
    BY <1>2, <2>1, <2>2 DEF AloneInv, JudgedInv
  <2> QED
    BY <2>3, <2>4
<1>3. ASSUME NEW u \in DOMAIN unit, UnitMoves(u) PROVE JudgedInv' /\ AloneInv'
  <2>1. OthersSame(u)
    BY <1>3, SlotMoves DEF Slotted
  <2>2. \A v \in DOMAIN unit : dir'[v].adj = dir[v].adj
    BY <1>3, RecordsAreLeft
  <2>3. judged' = judged /\ decider' = decider /\ overlap' = overlap
    BY <1>3, UnitsMoveInThePool DEF readVars
  <2> QED
    BY <1>2, <2>1, <2>2, <2>3 DEF OthersSame
<1>4. CASE Main \/ Rescore \/ UNCHANGED vars
  <2>1. judged' = judged /\ decider' = decider /\ overlap' = overlap
    BY <1>4 DEF Main, Prepare, Tally, WriteAggregate, WriteSummary, AppendHistory, Written,
               Rescore, readVars, vars
  <2>2. Standing /\ dir' = dir
    BY <1>4, RunStands
  <2> QED
    BY <1>2, <2>1, <2>2 DEF Standing
<1>5. ASSUME NEW u \in DOMAIN unit, Reword(u) PROVE JudgedInv' /\ AloneInv'
  <2>1. judged' = judged /\ decider' = decider /\ overlap' = overlap
    BY <1>5 DEF Reword, readVars
  <2>2. /\ Standing /\ dir'[u].adj = dir[u].adj
        /\ \A v \in DOMAIN unit \ {u} : dir'[v] = dir[v]
    BY <1>5, RewordStands
  <2> QED
    BY <1>2, <2>1, <2>2 DEF Standing
<1>6. ASSUME NEW a \in DOMAIN decider, Read(a) PROVE JudgedInv' /\ AloneInv'
  <2>1. PICK u \in DOMAIN unit, d \in Decisions :
          decider' = [decider EXCEPT ![a] =
            [pc |-> "decided", unit |-> u, adj |-> RecordIn(unit[u], dir[u]), decision |-> d]]
    BY <1>1, <1>6, ReadIs
  <2>2. unit' = unit /\ dir' = dir /\ judged' = judged /\ overlap' = overlap /\ opts' = opts
    BY <1>1, <1>6, ReadIs
  <2>3. /\ decider' = [b \in opts.readers |-> decider'[b]]
        /\ decider'[a].pc = "decided" /\ decider'[a].unit = u
        /\ decider'[a].adj = RecordIn(unit[u], dir[u]) /\ decider'[a].decision = d
        /\ \A b \in DOMAIN decider \ {a} : decider'[b] = decider[b]
    BY <2>1 DEF JudgedInv
  <2>4. \A v \in DOMAIN unit : DecidedIn(judged', v) = DecidedIn(judged, v) /\ RecordIn(unit'[v], dir'[v]) = RecordIn(unit[v], dir[v])
    BY <2>2 DEF DecidedIn, RecordIn
  <2>5. IsRecord(RecordIn(unit[u], dir[u]), DecidedIn(judged, u))
    BY FoundRecordsAre
  <2>6. Deciders(decider') = Deciders(decider) \cup {a}
    BY <1>1, <2>3 DEF Deciders, JudgedInv
  <2>7. JudgedInv'
    BY <2>2, <2>3, <2>4, <2>5, <2>6 DEF JudgedInv, Deciders
  <2>8. AloneInv'
    BY <2>2, <2>3, <2>4, <2>6 DEF AloneInv, JudgedInv, Deciders
  <2> QED
    BY <2>7, <2>8
<1>7. ASSUME NEW a \in DOMAIN decider, Record(a) PROVE JudgedInv' /\ AloneInv'
  <2> DEFINE now == decider[a]
             u == now.unit
             d == now.decision
             new == Decide(now.adj, d)
             others == {b \in DOMAIN decider \ {a} :
                          decider[b].pc = "decided" /\ decider[b].unit = u}
             done == [Idle EXCEPT !.pc = "done"]
  <2>1. /\ a \in Deciders(decider) /\ u \in DOMAIN unit /\ d \in Decisions
        /\ IsRecord(now.adj, DecidedIn(judged, u))
    BY <1>7 DEF Record, Deciders, JudgedInv
  <2>2. /\ unit' = unit /\ opts' = opts /\ overlap' = (overlap \/ others # {})
        /\ decider' = [decider EXCEPT ![a] = done]
        /\ \/ dir' = [dir EXCEPT ![u].adj = new] /\ judged' = judged \cup {<<u, d>>}
           \/ dir' = dir /\ judged' = judged
    BY <1>7 DEF Record, runVars
  <2>3. done.pc = "done"
    BY DEF Idle
  <2> HIDE DEF done, others
  <2>4. /\ decider' = [b \in opts.readers |-> decider'[b]]
        /\ decider'[a].pc = "done"
        /\ \A b \in DOMAIN decider \ {a} : decider'[b] = decider[b]
    BY <2>2, <2>3 DEF JudgedInv
  <2>5. /\ Deciders(decider') = Deciders(decider) \ {a}
        /\ \A b \in Deciders(decider') : b \in Deciders(decider) /\ decider'[b] = decider[b]
    BY <1>1, <2>4 DEF Deciders, JudgedInv
  <2>6. ~overlap' => ~overlap /\ \A b \in Deciders(decider') : decider[b].unit # u
    BY <2>2, <2>5 DEF others, Deciders
  <2>7. CASE dir' = dir /\ judged' = judged
    <3>1. \A v \in DOMAIN unit : DecidedIn(judged', v) = DecidedIn(judged, v) /\ RecordIn(unit'[v], dir'[v]) = RecordIn(unit[v], dir[v])
      BY <2>2, <2>7 DEF DecidedIn, RecordIn
    <3>2. JudgedInv'
      BY <2>2, <2>4, <2>5, <2>7, <3>1 DEF JudgedInv
    <3>3. AloneInv'
      BY <2>2, <2>5, <2>6, <2>7, <3>1 DEF AloneInv, JudgedInv
    <3> QED
      BY <3>2, <3>3
  <2>8. CASE dir' = [dir EXCEPT ![u].adj = new] /\ judged' = judged \cup {<<u, d>>}
    <3>1. IsRecord(new, DecidedIn(judged, u) \cup {d}) /\ Kept(now.adj) \cup {d} \subseteq Kept(new)
      BY <2>1, DecideKeeps
    <3>2. new # Absent
      <4>1. DecidedIn(judged, u) \cup {d} \in SUBSET Decisions
        BY <1>1, <2>1
      <4> QED
        BY <3>1, <4>1, RecordsAreThere
    <3> HIDE DEF new
    <3>3. dir'[u].adj = new /\ \A v \in DOMAIN unit \ {u} : dir'[v] = dir[v]
      <4> DEFINE x == [dir[u] EXCEPT !.adj = new]
      <4>1. x.adj = new
        BY <2>1 DEF BenchTypeOK, UnitTypeOK, IsDir
      <4>2. dir' = [dir EXCEPT ![u] = x]
        BY <2>8
      <4> HIDE DEF x
      <4> QED
        BY <2>1, <4>1, <4>2 DEF BenchTypeOK
    <3> HIDE DEF u, d
    <3>4. /\ DecidedIn(judged', u) = DecidedIn(judged, u) \cup {d}
          /\ \A v \in DOMAIN unit : DecidedIn(judged, v) \subseteq DecidedIn(judged', v)
      <4>1. \A v : DecidedIn(judged, v) \subseteq DecidedIn(judged', v)
        BY <2>8 DEF DecidedIn
      <4>2. <<u, d>>[1] = u /\ <<u, d>>[2] = d
        OBVIOUS
      <4>3. \A j \in judged' : j \in judged \/ j = <<u, d>>
        BY <2>8
      <4>4. <<u, d>> \in judged'
        BY <2>8
      <4>5. DecidedIn(judged', u) \subseteq DecidedIn(judged, u) \cup {d}
        BY <4>2, <4>3 DEF DecidedIn
      <4>6. d \in DecidedIn(judged', u)
        BY <4>2, <4>4 DEF DecidedIn
      <4> QED
        BY <4>1, <4>5, <4>6
    <3>5. \A v \in DOMAIN unit \ {u} : RecordIn(unit'[v], dir'[v]) = RecordIn(unit[v], dir[v])
      BY <2>2, <3>3 DEF RecordIn
    <3>6. /\ IsFiniteSet(judged')
          /\ \A j \in judged' : j = <<j[1], j[2]>> /\ j[1] \in DOMAIN unit /\ j[2] \in Decisions
      <4>1. IsFiniteSet(judged')
        BY <2>8, FS_AddElement DEF JudgedInv
      <4> QED
        BY <2>1, <2>8, <4>1 DEF JudgedInv, u, d
    <3>7. \A v \in DOMAIN unit : dir'[v].adj = Absent \/ IsRecord(dir'[v].adj, DecidedIn(judged', v))
      BY <3>1, <3>3, <3>4, RecordsGrow DEF JudgedInv
    <3>8. \A b \in Deciders(decider') : /\ decider'[b].unit \in DOMAIN unit
                              /\ decider'[b].decision \in Decisions
                              /\ IsRecord(decider'[b].adj, DecidedIn(judged', decider'[b].unit))
      BY <2>5, <3>4, RecordsGrow DEF JudgedInv
    <3>9. JudgedInv'
      BY <2>2, <2>4, <3>6, <3>7, <3>8 DEF JudgedInv, DecidedIn
    <3>10. ASSUME ~overlap' PROVE AloneInv'
      <4>1. /\ \A j \in judged : dir[j[1]].adj # Absent /\ j[2] \in Kept(dir[j[1]].adj)
            /\ \A b \in Deciders(decider) : decider[b].adj = RecordIn(unit[decider[b].unit], dir[decider[b].unit])
        BY <2>6, <3>10 DEF AloneInv
      <4>2. \A b \in Deciders(decider') : decider'[b].adj = RecordIn(unit'[decider'[b].unit], dir'[decider'[b].unit])
        BY <2>5, <2>6, <3>5, <3>10, <4>1 DEF JudgedInv
      <4>3. now.adj = RecordIn(unit[u], dir[u])
        BY <2>1, <4>1 DEF u
      <4>4. ASSUME NEW j \in judged, j[1] = u PROVE j[2] \in Kept(new)
        BY <3>1, <4>1, <4>3, <4>4 DEF RecordIn
      <4>5. \A j \in judged' : dir'[j[1]].adj # Absent /\ j[2] \in Kept(dir'[j[1]].adj)
        <5>1. ASSUME NEW j \in judged
              PROVE  dir'[j[1]].adj # Absent /\ j[2] \in Kept(dir'[j[1]].adj)
          <6>1. j[1] \in DOMAIN unit
            BY DEF JudgedInv
          <6>2. CASE j[1] = u
            BY <3>2, <3>3, <4>4, <6>2
          <6>3. CASE j[1] # u
            BY <3>3, <4>1, <6>1, <6>3
          <6> QED
            BY <6>2, <6>3
        <5>2. dir'[u].adj # Absent /\ d \in Kept(dir'[u].adj)
          BY <3>1, <3>2, <3>3
        <5> QED
          BY <2>8, <5>1, <5>2 DEF u, d
      <4> QED
        BY <4>2, <4>5 DEF AloneInv, Kept
    <3> QED
      BY <3>9, <3>10 DEF AloneInv
  <2> QED
    BY <2>2, <2>7, <2>8
<1> QED
  BY <1>3, <1>4, <1>5, <1>6, <1>7 DEF Next, Advance, UnitMoves

-----------------------------------------------------------------------------
(***************************************************************************)
(* Counting decisions.  A record that applies has one decision per row, so *)
(* what it adds to a score is at most what was decided of that run.        *)
(***************************************************************************)

\* The decisions about rows whose text is in the plan as it is now.
Counted == {j \in judged : \E r \in Range(PlanOf(j[1]).rows) : r.text = j[2].text}

LEMMA DecisionsAreCounted ==
  ASSUME NEW adj, NEW S, IsRecord(adj, S), Valid(adj), NEW u, NEW J, IsFiniteSet(J),
         \A i \in DOMAIN adj.decisions : <<u, adj.decisions[i]>> \in J
  PROVE  /\ Cardinality(Deciding(adj, "defect")) \in Nat
         /\ Cardinality(Deciding(adj, "false_positive")) \in Nat
         /\ Cardinality(Deciding(adj, "defect")) + Cardinality(Deciding(adj, "false_positive"))
              <= Cardinality(J)
<1> DEFINE D == DOMAIN adj.decisions
           yes == Deciding(adj, "defect")
           no == Deciding(adj, "false_positive")
           at == [i \in yes \cup no |-> <<u, adj.decisions[i]>>]
<1>1. IsFiniteSet(D)
  <2>1. D = 1..Len(adj.decisions) /\ Len(adj.decisions) \in Nat
    BY DEF IsRecord
  <2> QED
    BY <2>1, FS_Interval
<1>2. yes \subseteq D /\ no \subseteq D /\ yes \cap no = {}
  BY DEF Deciding
<1>3. IsFiniteSet(yes) /\ IsFiniteSet(no)
  BY <1>1, <1>2, FS_Subset
<1> HIDE DEF D, yes, no
<1>4. Cardinality(yes \cup no) = Cardinality(yes) + Cardinality(no)
  <2>1. Cardinality(yes \cap no) = 0 /\ Cardinality(yes) \in Nat /\ Cardinality(no) \in Nat
    BY <1>2, <1>3, FS_EmptySet, FS_CardinalityType
  <2>2. Cardinality(yes \cup no) = Cardinality(yes) + Cardinality(no) - Cardinality(yes \cap no)
    BY <1>3, FS_Union
  <2> QED
    BY <2>1, <2>2
<1>5. at \in Injection(yes \cup no, J)
  <2>1. at \in [yes \cup no -> J]
    BY <1>2 DEF D
  <2>2. ASSUME NEW i \in yes \cup no, NEW j \in yes \cup no, at[i] = at[j] PROVE i = j
    <3>1. adj.decisions[i] = adj.decisions[j]
      BY <2>2
    <3> QED
      BY <1>2, <3>1 DEF Valid, D
  <2> QED
    BY <2>1, <2>2 DEF Injection, IsInjective
<1>6. Cardinality(yes \cup no) <= Cardinality(J)
  BY <1>5, FS_Injection
<1> QED
  BY <1>3, <1>4, <1>6, FS_CardinalityType DEF yes, no

\* Two sums over runs are at most a set whose parts they count.
LEMMA SumsAreCounted ==
  ASSUME NEW M, IsFiniteSet(M), NEW f, NEW g, NEW J, IsFiniteSet(J),
         \A u \in M : /\ f[u] \in Nat /\ g[u] \in Nat
                      /\ f[u] + g[u] <= Cardinality({j \in J : j[1] = u})
  PROVE  SumFunctionOnSet(f, M) + SumFunctionOnSet(g, M) <= Cardinality(J)
<1> DEFINE Of(s) == {j \in J : j[1] \in s}
           T == {s \in SUBSET M :
                   SumFunctionOnSet(f, s) + SumFunctionOnSet(g, s) <= Cardinality(Of(s))}
<1>1. {} \in T
  <2>1. SumFunctionOnSet(f, {}) = 0 /\ SumFunctionOnSet(g, {}) = 0
    BY SumOfNone
  <2>2. Cardinality(Of({})) = 0
    BY FS_EmptySet
  <2> QED
    BY <2>1, <2>2
<1>2. ASSUME NEW s \in SUBSET M, s # {}, Rest(s) \in T PROVE s \in T
  <2> DEFINE u == First(s)
             one == {j \in J : j[1] = u}
             rest == Of(Rest(s))
  <2>1. /\ IsFiniteSet(s) /\ u \in s /\ Rest(s) = s \ {u} /\ IsFiniteSet(Rest(s))
    BY <1>2, FS_Subset DEF First, Rest
  <2>2. /\ SumFunctionOnSet(f, s) = f[u] + SumFunctionOnSet(f, Rest(s))
        /\ SumFunctionOnSet(g, s) = g[u] + SumFunctionOnSet(g, Rest(s))
    BY <1>2, <2>1, SumSplits
  <2>3. SumFunctionOnSet(f, Rest(s)) \in Nat /\ SumFunctionOnSet(g, Rest(s)) \in Nat
    BY <2>1, SumIsNat
  <2>4. IsFiniteSet(one) /\ IsFiniteSet(rest) /\ one \cap rest = {} /\ Of(s) = one \cup rest
    <3>1. one \subseteq J /\ rest \subseteq J /\ one \cap rest = {} /\ Of(s) = one \cup rest
      BY <2>1
    <3> QED
      BY <3>1, FS_Subset
  <2>5. SumFunctionOnSet(f, Rest(s)) + SumFunctionOnSet(g, Rest(s)) <= Cardinality(rest)
    BY <1>2
  <2>6. f[u] \in Nat /\ g[u] \in Nat /\ f[u] + g[u] <= Cardinality(one)
    BY <2>1
  <2> HIDE DEF one, rest, u, Of
  <2>7. /\ Cardinality(Of(s)) = Cardinality(one) + Cardinality(rest)
        /\ Cardinality(one) \in Nat /\ Cardinality(rest) \in Nat
    <3>1. Cardinality(one \cap rest) = 0 /\ Cardinality(one) \in Nat /\ Cardinality(rest) \in Nat
      BY <2>4, FS_EmptySet, FS_CardinalityType
    <3>2. Cardinality(one \cup rest)
            = Cardinality(one) + Cardinality(rest) - Cardinality(one \cap rest)
      BY <2>4, FS_Union
    <3> QED
      BY <2>4, <3>1, <3>2
  <2>8. SumFunctionOnSet(f, s) + SumFunctionOnSet(g, s) <= Cardinality(Of(s))
    BY <2>2, <2>3, <2>5, <2>6, <2>7
  <2> QED
    BY <2>8
<1>3. M \in T
  <2> HIDE DEF T
  <2> QED
    BY <1>1, <1>2, SubsetInduction
<1>4. Of(M) \subseteq J
  OBVIOUS
<1>5. Cardinality(Of(M)) <= Cardinality(J)
  BY <1>4, FS_Subset
<1>6. SumFunctionOnSet(f, M) \in Nat /\ SumFunctionOnSet(g, M) \in Nat
  BY SumIsNat
<1>7. Cardinality(Of(M)) \in Nat /\ Cardinality(J) \in Nat
  BY <1>4, FS_Subset, FS_CardinalityType
<1> QED
  BY <1>3, <1>5, <1>6, <1>7

\* What a rescore counts of one run.
LEMMA RunIsCounted ==
  ASSUME BenchTypeOK, JudgedInv, NEW u \in Ran, NEW catch, Measured(unit[u].res), Admissible(u)
  PROVE  LET score == Rescored(u, catch).score
         IN /\ score.true \in Nat /\ score.false \in Nat
            /\ score.true + score.false <= Cardinality({j \in Counted : j[1] = u})
<1> DEFINE plain == ScoreFile(PlanOf(u), Key(u))
           adj == dir[u].adj
           mine == {j \in Counted : j[1] = u}
           seen == IF dir[u].ws # Absent THEN catch ELSE unit[u].res.catch
<1>1. IsFiniteSet(mine) /\ Cardinality(mine) \in Nat
  <2>1. mine \subseteq judged /\ IsFiniteSet(judged)
    BY DEF Counted, JudgedInv
  <2> QED
    BY <2>1, FS_Subset, FS_CardinalityType
<1>2. Rescored(u, catch).score = ReadAgain(u)
  <2>1. Rescored(u, catch) = [unit[u].res EXCEPT !.score = ReadAgain(u), !.catch = seen]
    BY DEF Rescored
  <2>2. IsResult(unit[u].res)
    BY DEF BenchTypeOK, UnitTypeOK, Ran
  <2> HIDE DEF seen
  <2> QED
    BY <2>1, <2>2 DEF IsResult
<1>3. IsScore(plain) /\ plain.true = 0 /\ plain.false = 0
  <2>1. \A file : Score(file, Key(u)).true = 0 /\ Score(file, Key(u)).false = 0
    BY DEF Score
  <2>2. IsScore(plain) /\ IsScore(Score(NoPlan, Key(u)))
    BY ScoreFileIs, ScoreIs
  <2>3. plain = IF PlanOf(u) = Absent THEN [Score(NoPlan, Key(u)) EXCEPT !.planFound = FALSE]
                ELSE Score(PlanOf(u), Key(u))
    BY DEF ScoreFile
  <2> HIDE DEF plain
  <2> QED
    BY <2>1, <2>2, <2>3 DEF IsScore
<1>4. CASE adj = Absent \/ PlanOf(u) = Absent
  <2>1. ReadAgain(u) = plain
    BY <1>4 DEF ReadAgain
  <2> HIDE DEF plain, mine
  <2> QED
    BY <1>1, <1>2, <1>3, <2>1 DEF mine
<1>5. CASE adj # Absent /\ PlanOf(u) # Absent
  <2>1. /\ IsRecord(adj, DecidedIn(judged, u)) /\ Applies(adj, PlanOf(u), Key(u))
        /\ ReadAgain(u) = FinishAdjudication(plain, adj)
    BY <1>5 DEF JudgedInv, Admissible, ReadAgain, Ran
  <2>2. ASSUME NEW i \in DOMAIN adj.decisions PROVE <<u, adj.decisions[i]>> \in mine
    <3> DEFINE d == adj.decisions[i]
    <3>1. d \in DecidedIn(judged, u)
      BY <2>1 DEF IsRecord
    <3>2. PICK j \in judged : j[1] = u /\ j[2] = d
      BY <3>1 DEF DecidedIn
    <3>3. j = <<u, d>>
      BY <3>2 DEF JudgedInv
    <3>4. \E r \in Range(PlanOf(u).rows) : r.text = d.text
      BY <2>1 DEF Applies, Range
    <3> QED
      BY <3>2, <3>3, <3>4 DEF Counted
  <2>3. Valid(adj)
    BY <2>1 DEF Applies
  <2> DEFINE yes == Cardinality(Deciding(adj, "defect"))
             no == Cardinality(Deciding(adj, "false_positive"))
  <2> HIDE DEF mine
  <2>4. yes \in Nat /\ no \in Nat /\ yes + no <= Cardinality(mine)
    BY <1>1, <2>1, <2>2, <2>3, DecisionsAreCounted
  <2>5. ReadAgain(u).true = yes /\ ReadAgain(u).false = no
    <3> DEFINE pending == plain.rows - Len(adj.decisions)
               confirmed == {adj.decisions[i].defect : i \in Deciding(adj, "defect")}
    <3>1. ReadAgain(u) = [plain EXCEPT !.pending = pending, !.true = yes, !.false = no,
                                       !.confirmed = confirmed]
      BY <2>1 DEF FinishAdjudication
    <3> HIDE DEF pending, confirmed, yes, no, plain
    <3> QED
      BY <1>3, <3>1 DEF IsScore
  <2> QED
    BY <1>2, <2>4, <2>5 DEF mine
<1> QED
  BY <1>4, <1>5

LEMMA RescoreCounts ==
  ASSUME BenchTypeOK, JudgedInv, Rescore, rescored' # Refused
  PROVE  rescored'.true + rescored'.false <= Cardinality(Counted)
<1> DEFINE again == {u \in Ran : Measured(unit[u].res)}
           seen(c, u) == IF u \in again THEN c[u] ELSE Unchecked
<1>1. PICK catch : /\ rescored' = FinalizeAggregate([u \in Ran |-> Rescored(u, seen(catch, u))])
                   /\ \A u \in again : Admissible(u)
  BY DEF Rescore
<1> HIDE DEF seen
<1> DEFINE p == [u \in Ran |-> Rescored(u, seen(catch, u))]
           M == MeasuredIn(p)
           yes == [u \in M |-> p[u].score.true]
           no == [u \in M |-> p[u].score.false]
<1>2. /\ rescored'.true = SumFunctionOnSet(yes, M)
      /\ rescored'.false = SumFunctionOnSet(no, M)
  BY <1>1 DEF FinalizeAggregate, Total
<1>3. DOMAIN p = Ran /\ \A u \in Ran : p[u] = Rescored(u, seen(catch, u))
  OBVIOUS
<1> HIDE DEF p
<1>4. M \subseteq Ran
  BY <1>3 DEF MeasuredIn
<1>5. M \subseteq again
  <2>1. ASSUME NEW u \in M, ~Measured(unit[u].res) PROVE FALSE
    <3>1. p[u] = unit[u].res
      BY <1>3, <1>4, <2>1 DEF Rescored
    <3> QED
      BY <2>1, <3>1 DEF MeasuredIn
  <2> QED
    BY <1>4, <2>1
<1>6. IsFiniteSet(M) /\ IsFiniteSet(Counted)
  <2>1. M \subseteq DOMAIN unit /\ Counted \subseteq judged
    BY <1>4 DEF Ran, Counted
  <2> QED
    BY <2>1, PartsAreFinite, FS_Subset DEF JudgedInv
<1>7. \A u \in M : /\ yes[u] \in Nat /\ no[u] \in Nat
                   /\ yes[u] + no[u] <= Cardinality({j \in Counted : j[1] = u})
  BY <1>1, <1>3, <1>4, <1>5, RunIsCounted
<1> HIDE DEF M, yes, no
<1> QED
  BY <1>2, <1>6, <1>7, SumsAreCounted

\* A recorded decision stands or is kept as superseded, unless two people have
\* decided the same run at once; and a rescore counts a decision only for the
\* text it was taken on (Decide, writeAdjudication, ApplyAdjudication).
THEOREM RecordedDecisionsStand == Spec => DecisionsStand
<1>1. Init => ScoreInv /\ JudgedInv /\ AloneInv
  <2> SUFFICES ASSUME Init PROVE ScoreInv /\ JudgedInv /\ AloneInv
    OBVIOUS
  <2>1. \A u \in DOMAIN unit : unit[u].pc = "queued" /\ dir[u] = NoDir
    BY UnitsAreFresh, FreshIs DEF Init
  <2>2. ScoreInv
    BY <2>1 DEF ScoreInv, ScoreOK, NoDir
  <2>3. Deciders(decider) = {} /\ judged = {}
    BY DEF Init, Deciders, Idle
  <2>4. JudgedInv
    BY <2>1, <2>3, FS_EmptySet DEF Init, JudgedInv, NoDir
  <2> QED
    BY <2>2, <2>3, <2>4 DEF AloneInv
<1>2. BenchInv /\ ScoreInv /\ JudgedInv /\ AloneInv /\ [Next]_vars
        => ScoreInv' /\ JudgedInv' /\ AloneInv'
  BY ScoreStep, JudgedStep DEF BenchInv
<1> DEFINE Stands ==
      /\ ~overlap' => \A j \in judged' :
           LET adj == dir'[j[1]].adj
           IN j[2] \in Range(adj.decisions) \cup Range(adj.superseded)
      /\ rescored' \notin {rescored, Refused} =>
           rescored'.true + rescored'.false <=
             Cardinality({j \in judged :
                            \E r \in Range(PlanOf(j[1]).rows) : r.text = j[2].text})
<1>3. BenchInv /\ JudgedInv /\ AloneInv' /\ [Next]_vars => [Stands]_vars
  <2> SUFFICES ASSUME BenchInv, JudgedInv, AloneInv', [Next]_vars PROVE Stands
    OBVIOUS
  <2>1. ASSUME ~overlap', NEW j \in judged'
        PROVE  j[2] \in Range(dir'[j[1]].adj.decisions) \cup Range(dir'[j[1]].adj.superseded)
    BY <2>1 DEF AloneInv, Kept
  <2>2. ASSUME rescored' \notin {rescored, Refused}
        PROVE  rescored'.true + rescored'.false <= Cardinality(Counted)
    <3>1. Rescore
      <4>1. \A u \in DOMAIN unit : UnitMoves(u) => rescored' = rescored
        BY UnitsMoveInThePool DEF readVars
      <4>2. \A u \in DOMAIN unit : Reword(u) => rescored' = rescored
        BY DEF Reword, readVars
      <4>3. \A a \in DOMAIN decider : Read(a) \/ Record(a) => rescored' = rescored
        BY DEF Read, Record
      <4>4. Main \/ UNCHANGED vars => rescored' = rescored
        BY DEF Main, Prepare, Tally, WriteAggregate, WriteSummary, AppendHistory, Written,
               readVars, vars
      <4> QED
        BY <2>2, <4>1, <4>2, <4>3, <4>4 DEF Next, Advance, UnitMoves
    <3> QED
      BY <2>2, <3>1, RescoreCounts DEF BenchInv
  <2> QED
    BY <2>1, <2>2 DEF Counted
<1>4. Spec => [](ScoreInv /\ JudgedInv /\ AloneInv)
  BY <1>1, <1>2, BenchIsInvariant, PTL DEF Spec
<1> QED
  BY <1>3, <1>4, BenchIsInvariant, PTL DEF Spec, DecisionsStand
=============================================================================
