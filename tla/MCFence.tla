------------------------------- MODULE MCFence -------------------------------
(***************************************************************************)
(* Drafts of a plan that show an example in a code fence, for TLC.         *)
(***************************************************************************)
EXTENDS PlanDoc, TLC

MCCited == "a.go:1" :> "a.go"
MCLines == {Heading(2, "Layer matrix"), Heading(2, "Notes"), Heading(3, "Backend"),
            TableRow(<<"layer", "status">>), TableRow(<<"api", "pending">>),
            TableRow(<<"---", "---">>), Fence("ticks"), Prose("text"), BlankLine}
MCOpenings == {<<l>> : l \in MCLines}
=============================================================================
