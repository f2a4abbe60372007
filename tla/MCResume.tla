------------------------------ MODULE MCResume ------------------------------
(* Two hats that wake each other; the builder may run once.                *)
EXTENDS Resume

Work == <<"work", "start">>
Ready == <<"task", "ready">>

MCTriggers == [planner |-> {Work}, builder |-> {Ready}]
MCDefaults == [planner |-> Ready, builder |-> Work]
MCLimits == [builder |-> 1]
MCOutputs == {Silent, [events |-> <<Plain(Ready)>>, notes |-> TRUE, promise |-> FALSE]}
MCLogs == {Silent, [events |-> <<>>, notes |-> TRUE, promise |-> TRUE]}
OperatorMay == {Ready, <<"unheard", "of">>}
=============================================================================
