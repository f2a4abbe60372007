---------------------------- MODULE MCReconciler ----------------------------
(***************************************************************************)
(* A planner and two builders.  The starting event wakes the planner, whose *)
(* default event wakes both builders, one by an exact trigger and one by a *)
(* wildcard; a builder's default event wakes the planner again.            *)
(***************************************************************************)
EXTENDS Reconciler

Work  == <<"work", "start">>
Ready == <<"task", "ready">>
Done  == <<"task", "done">>

MCTriggers ==
  [planner |-> {Work, Done}, backend |-> {Ready}, frontend |-> {<<"task", ">">>}]
MCDefaults == [planner |-> Ready, backend |-> Done]
MCLimits == [backend |-> 1]

Note  == [events |-> <<>>, notes |-> TRUE, promise |-> FALSE]
Emit(events) == [events |-> events, notes |-> FALSE, promise |-> FALSE]

Promised == [events |-> <<>>, notes |-> FALSE, promise |-> TRUE]

\* A job says nothing, leaves a note, emits two events, or declares completion,
\* in a form the parser takes or in one that only the second look finds.
MCOutputs ==
  {Silent, Note, Emit(<<Plain(Ready), Plain(Done)>>), Emit(<<Completion>>), Promised}
OperatorMay == {Ready}

\* A pod's log holds nothing to parse, or a note, or a marker of an event.
PodLogs == {Silent, Note, Emit(<<Plain(Ready)>>)}
PodOutputs == {Silent, Emit(<<Plain(Ready)>>), Emit(<<Plain(Done), Completion>>)}
=============================================================================
