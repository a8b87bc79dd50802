------------------------------- MODULE MCBench -------------------------------
(***************************************************************************)
(* An instance of Bench for TLC: a case with two defects four lines apart, *)
(* one of them a race, a case with one defect, a clean control, a case     *)
(* whose suite is red and one whose key does not load.                     *)
(***************************************************************************)
EXTENDS Bench

CONSTANTS a1, a2, one, two, clean, red, broken, r1, r2   \* model values: readers, cases, row texts

Src == <<"src", "a.go">>

Defect(id, line, race) ==
  [id |-> id, file |-> Src, line |-> line, race |-> race, variant |-> TRUE]

MCFixture ==
  [c \in {one, two, clean, red, broken} |->
     [loads |-> c # broken, suite |-> IF c = red THEN "red" ELSE "green",
      control |-> c = clean, fixAll |-> c # red,
      key |-> [id |-> c,
               defects |-> CASE c = one -> <<Defect("d1", 10, TRUE)>>
                             [] c \in {two, red} ->
                                  <<Defect("d1", 10, FALSE), Defect("d2", 14, TRUE)>>
                             [] OTHER -> <<>>]]]

Cite(line) == [file |-> <<"a.go">>, first |-> line, last |-> line]
Row(text, cites, names, evidence) ==
  [cites |-> cites, names |-> names, evidence |-> evidence, pinned |-> TRUE, text |-> text]
Ledger == [e \in {"E1"} |-> {Cite(12)}]
Plan(rows) == [rows |-> rows, ledger |-> Ledger]
Test(all, d1, d2) == [all |-> all, keep |-> [d1 |-> d1, d2 |-> d2]]
Pass == {"pass"}
Fail == {"fail"}

MCFresh == [declares |-> "nothing", at |-> [default |-> Absent, declared |-> Absent],
            tests |-> <<>>]

\* Both defects by name, and a test that sees both.
Thorough ==
  [declares |-> "path",
   at |-> [default |-> Absent,
           declared |-> Plan(<<Row(r1, {}, {"d1", "d2"}, {"E1"})>>)],
   tests |-> [t |-> Test(Pass, Fail, Fail)]]

\* Prose first, then one defect by its line; a flaky test and one that pins
\* the defective behaviour.
Partial ==
  [declares |-> "invalid",
   at |-> [default |-> Plan(<<Row(r1, {Cite(10)}, {"d1"}, {}), Row(r2, {}, {}, {"E1"})>>),
           declared |-> Absent],
   tests |-> [t |-> Test(Pass, {"absent"}, {"pass", "fail"}),
              p |-> Test(Fail, Pass, Fail)]]

\* Everything reported, nothing tested.
Untested == [Thorough EXCEPT !.tests = <<>>]

\* A plan path that leads outside.
Stray == [MCFresh EXCEPT !.declares = "path", !.at.declared = Outside]

MCWorks == [c \in {one, two, clean, red, broken} |->
              CASE c = one -> {Partial, Thorough}
                [] c = two -> {Thorough, Partial, Untested}
                [] OTHER -> {Stray, Thorough}]

Invocation(cases, runs, ceiling) ==
  [cases |-> cases, runs |-> runs, ceiling |-> ceiling, dry |-> FALSE,
   keep |-> FALSE, history |-> TRUE, readers |-> {}]

MCRuns ==
  {Invocation(<<clean, broken>>, 3, 1),
   Invocation(<<two>>, 2, 0),
   [Invocation(<<one>>, 1, 0) EXCEPT !.readers = {a1, a2}],
   Invocation(<<>>, 1, 0),
   [Invocation(<<two, red, clean>>, 1, 0) EXCEPT !.dry = TRUE],
   Invocation(<<red, clean>>, 1, 1)}
=============================================================================
