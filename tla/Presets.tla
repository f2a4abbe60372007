------------------------------ MODULE Presets -------------------------------
(***************************************************************************)
(* The twelve presets that `boring init` can write, boring-cli/src/        *)
(* commands/init.rs.  Of a preset's text the event loop reads triggers,    *)
(* publishes, limits and gates; its instructions tell a hat what to put    *)
(* out, and `may` lists that.  A dotted topic is a sequence, see Topic.    *)
(***************************************************************************)
EXTENDS Integers, Sequences

Promise == <<"_promise">>
Nothing == <<"_nothing">>

Hat(triggers, publishes, may) == [triggers |-> triggers, publishes |-> publishes, may |-> may]
Preset(start, limit, hats) ==
  [start |-> start, limit |-> limit, hats |-> hats, gates |-> {}]

-----------------------------------------------------------------------------
Minimal == Preset(<<"work", "start">>, 20,
  [worker |-> Hat({<<"work", "start">>}, <<>>, {Promise})])

Feature == Preset(<<"build", "start">>, 30,
  [planner  |-> Hat({<<"build", "start">>, <<"task", "complete">>},
                    <<<<"tasks", "ready">>>>, {<<"tasks", "ready">>, Promise}),
   builder  |-> Hat({<<"tasks", "ready">>, <<"review", "rejected">>},
                    <<<<"review", "ready">>>>, {<<"review", "ready">>}),
   reviewer |-> Hat({<<"review", "ready">>},
                    <<<<"review", "rejected">>, <<"task", "complete">>>>,
                    {<<"review", "rejected">>, <<"task", "complete">>})])

Tdd == Preset(<<"tdd", "start">>, 30,
  [test_writer |-> Hat({<<"tdd", "start">>, <<"refactor", "done">>}, <<<<"test", "written">>>>,
                       {<<"test", "written">>, Promise}),
   implementer |-> Hat({<<"test", "written">>}, <<<<"test", "passing">>>>, {<<"test", "passing">>}),
   refactorer  |-> Hat({<<"test", "passing">>}, <<<<"refactor", "done">>>>, {<<"refactor", "done">>})])

Research == Preset(<<"research", "start">>, 15,
  [researcher  |-> Hat({<<"research", "start">>, <<"research", "followup">>},
                       <<<<"research", "finding">>>>, {<<"research", "finding">>}),
   synthesizer |-> Hat({<<"research", "finding">>}, <<<<"research", "followup">>>>,
                       {<<"research", "followup">>, Promise})])

Debug == Preset(<<"debug", "start">>, 20,
  [observer     |-> Hat({<<"debug", "start">>, <<"hypothesis", "rejected">>},
                        <<<<"observation", "made">>>>, {<<"observation", "made">>}),
   theorist     |-> Hat({<<"observation", "made">>}, <<<<"hypothesis", "formed">>>>,
                        {<<"hypothesis", "formed">>}),
   experimenter |-> Hat({<<"hypothesis", "formed">>},
                        <<<<"hypothesis", "confirmed">>, <<"hypothesis", "rejected">>>>,
                        {<<"hypothesis", "confirmed">>, <<"hypothesis", "rejected">>}),
   fixer        |-> Hat({<<"hypothesis", "confirmed">>}, <<>>, {Promise})])

Review == Preset(<<"security", "review">>, 20,
  [blue_team |-> Hat({<<"security", "review">>, <<"vulnerability", "found">>},
                     <<<<"build", "ready">>>>, {<<"build", "ready">>}),
   red_team  |-> Hat({<<"build", "ready">>}, <<<<"vulnerability", "found">>>>,
                     {<<"vulnerability", "found">>, Promise})])

SpecDriven == Preset(<<"spec", "start">>, 30,
  [spec_writer   |-> Hat({<<"spec", "start">>, <<"spec", "rejected">>},
                         <<<<"spec", "ready">>>>, {<<"spec", "ready">>}),
   spec_reviewer |-> Hat({<<"spec", "ready">>}, <<<<"spec", "approved">>, <<"spec", "rejected">>>>,
                         {<<"spec", "approved">>, <<"spec", "rejected">>}),
   implementer   |-> Hat({<<"spec", "approved">>, <<"spec", "violated">>},
                         <<<<"implementation", "done">>>>, {<<"implementation", "done">>}),
   verifier      |-> Hat({<<"implementation", "done">>}, <<<<"spec", "violated">>>>,
                         {<<"spec", "violated">>, Promise})])

Mob == Preset(<<"mob", "start">>, 30,
  [navigator |-> Hat({<<"mob", "start">>, <<"observation", "noted">>}, <<<<"direction", "set">>>>,
                     {<<"direction", "set">>, Promise}),
   driver    |-> Hat({<<"direction", "set">>}, <<<<"code", "written">>>>, {<<"code", "written">>}),
   observer  |-> Hat({<<"code", "written">>}, <<<<"observation", "noted">>>>,
                     {<<"observation", "noted">>})])

\* Its one gate is a chain of commands joined by ||.
Refactor == [Preset(<<"refactor", "start">>, 20,
  [analyzer   |-> Hat({<<"refactor", "start">>, <<"verify", "passed">>}, <<<<"refactor", "plan">>>>,
                      {<<"refactor", "plan">>, Promise}),
   refactorer |-> Hat({<<"refactor", "plan">>}, <<<<"verify", "ready">>>>, {<<"verify", "ready">>}),
   verifier   |-> Hat({<<"verify", "ready">>}, <<<<"verify", "passed">>, <<"verify", "failed">>>>,
                      {<<"verify", "passed">>, <<"verify", "failed">>})])
  EXCEPT !.gates = {{"cargo test", "npm test", "true"}}]

Reviewer == Hat({<<"review", "start">>}, <<<<"review", "finding">>>>, {<<"review", "finding">>})
PrReview == Preset(<<"review", "start">>, 15,
  [correctness |-> Reviewer, security |-> Reviewer, quality |-> Reviewer,
   synthesizer |-> Hat({<<"review", "finding">>}, <<>>, {Promise})])

\* Mutation: a misspelt trigger.
DocsMisspelt == Preset(<<"docs", "start">>, 15,
  [writer   |-> Hat({<<"docs", "start">>, <<"review", "feedback">>}, <<<<"docs", "ready">>>>,
                    {<<"docs", "ready">>}),
   reviewer |-> Hat({<<"doc", "ready">>}, <<<<"review", "feedback">>>>,
                    {<<"review", "feedback">>, Promise})])
Docs == Preset(<<"docs", "start">>, 15,
  [writer   |-> Hat({<<"docs", "start">>, <<"review", "feedback">>}, <<<<"docs", "ready">>>>,
                    {<<"docs", "ready">>}),
   reviewer |-> Hat({<<"docs", "ready">>}, <<<<"review", "feedback">>>>,
                    {<<"review", "feedback">>, Promise})])

Deploy == Preset(<<"deploy", "start">>, 10,
  [builder  |-> Hat({<<"deploy", "start">>}, <<<<"build", "passed">>, <<"build", "failed">>>>,
                    {<<"build", "passed">>, <<"build", "failed">>}),
   deployer |-> Hat({<<"build", "passed">>}, <<<<"deploy", "done">>>>, {<<"deploy", "done">>}),
   verifier |-> Hat({<<"deploy", "done">>}, <<>>, {Promise, Nothing})])

\* PRESETS
Table ==
  [feature |-> Feature, tdd |-> Tdd, research |-> Research, debug |-> Debug, review |-> Review,
   minimal |-> Minimal, spec_driven |-> SpecDriven, mob |-> Mob, refactor |-> Refactor,
   pr_review |-> PrReview, docs |-> Docs, deploy |-> Deploy]
=============================================================================
