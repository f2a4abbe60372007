----------------------------- MODULE MCCommands -----------------------------
(* Three processes, configurations with every option present and absent,   *)
(* and all presets.                                                        *)
EXTENDS Commands, TLC

(***************************************************************************)
(* Processes one after the other, with all commands and their failures;    *)
(* and processes at once, which write files in two steps, and, when they   *)
(* all continue, write twice, so that a run that forks goes back.          *)
(***************************************************************************)
O(c, p) == [command |-> c, prompt |-> p, config |-> "good"]
Runners == {O("run", FALSE), O("continue", FALSE)}
MCOptions == Runners \cup
  {O("run", TRUE), O("status", FALSE), O("logs", FALSE),
   [O("run", FALSE) EXCEPT !.config = "invalid"], [O("run", TRUE) EXCEPT !.config = "unreadable"]}

MCSettings ==
  {[options |-> MCOptions, inTurn |-> TRUE, torn |-> FALSE, notes |-> TRUE, maxSaves |-> 1],
   [options |-> Runners, inTurn |-> FALSE, torn |-> TRUE, notes |-> FALSE, maxSaves |-> 1],
   [options |-> {O("continue", FALSE)}, inTurn |-> FALSE, torn |-> TRUE, notes |-> FALSE, maxSaves |-> 2]}

Interchangeable == Permutations(Processes)

-----------------------------------------------------------------------------
(***************************************************************************)
(* Every option present and absent, a hat that sets variables of its own   *)
(* and of the controller's, two secrets, providers that have them, have    *)
(* not or fail.                                                            *)
(***************************************************************************)
Literal(x) == [literal |-> x, secret |-> ""]
Secret(s) == [literal |-> "", secret |-> s]

Brokers ==
  {[url |-> "", pod_url |-> "", stream |-> ""]} \cup
  {[url |-> "nats", pod_url |-> p, stream |-> s] : p \in {"", "pod"}, s \in {"", "MINE"}}
Gits ==
  {[repo |-> "", base_branch |-> "", branch_strategy |-> "", credentials |-> ""]} \cup
  {[repo |-> "repo", base_branch |-> IF c = "" THEN "" ELSE "dev", branch_strategy |-> s,
    credentials |-> c] : s \in {"", "Shared", "PerHat"}, c \in {"", "token"}}

Store(given) ==
  IF given THEN [endpoint |-> "s3", bucket |-> "mine", prefix |-> ""]
  ELSE [endpoint |-> "", bucket |-> "", prefix |-> ""]

MCConfigs ==
  {[broker |-> b, store |-> Store(c # ""), git |-> g,
    backend |-> c, prompt_file |-> "readable"] : b \in Brokers, g \in Gits, c \in {"", "claude"}}
    \cup
  {[broker |-> b, store |-> Store(FALSE), git |-> g,
    backend |-> "claude", prompt_file |-> "missing"] : b \in Brokers, g \in Gits}

Envs ==
  {<<>>, [API_KEY |-> Secret("key")],
   [API_KEY |-> Secret("key"), BORING_GIT_TOKEN |-> Literal("hat")],
   [BORING_GIT_BASE_BRANCH |-> Literal("hat"), BORING_COMMAND |-> Literal("hat"),
    BORING_GIT_BRANCH_STRATEGY |-> Literal("per_hat"), BORING_BROKER_STREAM |-> Literal("")]}
MCHats ==
  {[command |-> c, env |-> e, publishes |-> p, default_publishes |-> ""] :
     c \in {"", "make"}, e \in Envs, p \in {<<>>, <<"done">>}}

\* A file's text, and whether a newline follows it.
Files == {[text |-> "", end |-> FALSE], [text |-> "of file", end |-> TRUE], [text |-> "error", end |-> FALSE]}
\* No Secret for the key, one without the key asked for, one with it.
Resources == {<<>>, [other |-> "of k8s"], [value |-> "of k8s"]}

MCVaults ==
  {[env |-> [KEY |-> a, TOKEN |-> ""],
    file |-> [key |-> b, token |-> IF a = "" THEN b ELSE [text |-> "", end |-> FALSE]],
    k8s |-> [fails |-> f, data |-> [key |-> r, git |-> [token |-> "k8s"]]]] :
     a \in {"", "of env"}, b \in Files, r \in Resources, f \in BOOLEAN}

MCEnvVarName == [key |-> "KEY", token |-> "TOKEN"]
MCParseName == [key |-> <<"key", "value">>, token |-> <<"git", "token">>]
=============================================================================
