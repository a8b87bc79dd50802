------------------------------ MODULE StopHook -------------------------------
(***************************************************************************)
(* What wiring and unwiring the Stop hook do to a settings.json document   *)
(* (internal/sync: wireHook, unwireHook, filterStopGates), and how doctor  *)
(* reads the hook back (internal/doctor: hookWired).                       *)
(*                                                                         *)
(* A document is its Stop entries, each the sequence of the commands it    *)
(* lists, and the rest of the file, which these functions do not touch.    *)
(***************************************************************************)
EXTENDS Naturals, Sequences

CONSTANTS
  Gate,           \* HookCommand of the running binary
  PreviousGates,  \* commands isPreviousGate accepts; Gate is one of them
  ReadsAsGate     \* commands hookWired takes for a gate

Has(stop, c) == \E i \in DOMAIN stop : \E j \in DOMAIN stop[i] : stop[i][j] = c

(***************************************************************************)
(* filterStopGates: keep the commands in "keep" and those that are not a   *)
(* previous gate; an entry that is emptied by it goes away, an entry that  *)
(* had no command stays.                                                   *)
(***************************************************************************)
FilterWholeEntry(entry, keep) ==   \* a mutation: one gate drops the entry
  IF \E i \in DOMAIN entry : entry[i] \in PreviousGates \ keep THEN <<>> ELSE entry

FilterEntry(entry, keep) ==
  SelectSeq(entry, LAMBDA c : c \in keep \/ c \notin PreviousGates)

FilterStopGates(stop, keep) ==
  LET stays(i) == stop[i] = <<>> \/ FilterEntry(stop[i], keep) # <<>>
      kept == SelectSeq([i \in DOMAIN stop |-> i], stays)
  IN  [k \in DOMAIN kept |-> FilterEntry(stop[kept[k]], keep)]

WireHook(doc) ==
  LET kept == FilterStopGates(doc.stop, {Gate})
  IN  [doc EXCEPT !.stop = IF Has(doc.stop, Gate) THEN kept ELSE Append(kept, <<Gate>>)]

UnwirePrevious(doc) ==   \* a mutation: wireHook's set of gates to keep
  [doc EXCEPT !.stop = FilterStopGates(doc.stop, {Gate})]

UnwireHook(doc) == [doc EXCEPT !.stop = FilterStopGates(doc.stop, {})]

(***************************************************************************)
(* hookWired answers the first command, in document order, that reads as a *)
(* gate; repair and doctor compare it with the running binary's command.   *)
(***************************************************************************)
ReadsGateAt(stop, i, j) == stop[i][j] \in ReadsAsGate

HookIsGate(doc) ==
  \E i \in DOMAIN doc.stop : \E j \in DOMAIN doc.stop[i] :
    /\ doc.stop[i][j] = Gate
    /\ \A k \in 1..i : \A l \in DOMAIN doc.stop[k] :
         ReadsGateAt(doc.stop, k, l) => k = i /\ l >= j
=============================================================================
