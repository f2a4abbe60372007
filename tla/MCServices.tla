----------------------------- MODULE MCServices -----------------------------
(* Small stores, and a subscription with two publishers.                   *)
EXTENDS Services

Checkpoint(run) == <<run, "checkpoint.json">>
Pad(run, file) == <<run, "scratchpad", file>>

\* Two runs, one of them with scratchpads.
MCLocalOrder == <<Checkpoint("r1"), Pad("r1", "a.md"), Checkpoint("r2")>>
MCLocalDirectories == {<<>>, <<"r1">>}

\* Three keys under one prefix: more than a page.
MCS3Order == <<Checkpoint("r1"), Pad("r1", "a.md"), Pad("r1", "b.md"), Checkpoint("r2")>>
MCS3Directories == {<<>>, <<"r1">>, <<"r1", "scratchpad">>}
=============================================================================
