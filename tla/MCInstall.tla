------------------------------ MODULE MCInstall ------------------------------
(***************************************************************************)
(* Instances of Install for TLC: two managed files of Claude's host and    *)
(* one of a second host, three releases, and settings.json documents       *)
(* interpreted by StopHook.                                                *)
(***************************************************************************)
EXTENDS Install, Sequences, SequencesExt, TLC

CONSTANTS a1, a2, b1, c1, u1   \* model values: contents

(***************************************************************************)
(* The Stop commands: the running binary's gate, the gate it shipped as    *)
(* before the rename, a command of the user's, and another tool's `gate`   *)
(* subcommand, which hookWired takes for a gate and isPreviousGate does    *)
(* not.                                                                    *)
(***************************************************************************)
Hook == INSTANCE StopHook WITH
  Gate <- "tpp gate",
  PreviousGates <- {"tpp gate", "rdd-plus gate"},
  ReadsAsGate <- {"tpp gate", "rdd-plus gate", "other gate"}

Doc(stop) == [stop |-> stop, own |-> "own"]

MCEmptyDoc == [stop |-> <<>>, own |-> "none"]
MCWire(d) == Hook!WireHook(d)
MCUnwire(d) == Hook!UnwireHook(d)
MCHookHealthy(d) == Hook!HookIsGate(d)
MCHasGate(d) == \E g \in {"tpp gate", "rdd-plus gate"} : Hook!Has(d.stop, g)

\* The user's own part: the rest of the file, and in order the commands that
\* are not tpp's.
MCOwn(d) ==
  <<d.own, SelectSeq(FlattenSeq(d.stop), LAMBDA c : c \in {"lint", "other gate"})>>

LegacyDoc == Doc(<< <<"rdd-plus gate", "lint">>, <<>>, <<"rdd-plus gate">> >>)
ForeignDoc == Doc(<< <<"other gate">> >>)

Rewritten(ds) == ds \cup {MCWire(d) : d \in ds} \cup {MCUnwire(d) : d \in ds}
MCDocs == Rewritten(Rewritten({MCEmptyDoc, LegacyDoc, ForeignDoc}))

\* Files 1 and 2 are Claude's, file 3 is a second host's.
MCHostOf == [f \in Paths |-> IF f = 3 THEN 2 ELSE 1]

\* File 1 changes at every release, file 2 is dropped by the second one,
\* file 3 never changes.
MCShip ==
  [v \in 1..MaxVersion |->
     [f \in Paths |-> CASE f = 1 -> IF v % 2 = 1 THEN a1 ELSE a2
                        [] f = 2 -> IF v = 1 THEN b1 ELSE Absent
                        [] f = 3 -> c1]]

Processes == Permutations(Procs)

CleanDisk == {[f \in Paths |-> Absent]}
UsedDisk == CleanDisk \cup {[f \in Paths |-> IF f = 1 THEN u1 ELSE Absent]}

OneFile == {LegacyDoc}
QuietFiles == {Absent, LegacyDoc}
ForeignFiles == {Absent, ForeignDoc}
=============================================================================
