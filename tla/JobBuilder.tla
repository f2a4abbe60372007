----------------------------- MODULE JobBuilder -----------------------------
(***************************************************************************)
(* How a hat becomes a job: JobBuilder of boring-controller/src/           *)
(* job_builder.rs, the secret providers it asks (boring-secrets), and what *)
(* boring-agent makes of the environment (AgentEnv, boring-agent/src/      *)
(* main.rs).  Operators, and a behaviour that builds one job, hands it to  *)
(* a pod and lets the agent read it.                                       *)
(*                                                                         *)
(* A value is the name of where it comes from; "" is an option of the      *)
(* configuration that is absent, and in an environment the empty text.     *)
(***************************************************************************)
EXTENDS Integers, Sequences, SequencesExt

CONSTANTS
  Configs,          \* configurations, see Config
  Hats,             \* hats, see IsHat
  Vaults,           \* what the providers hold, see Asked
  EnvVarName,       \* secret name -> environment variable: upper case, "-" as "_"
  ParseName,        \* secret name -> <<Kubernetes resource, key in it>>
  Modes             \* runtimes: {"local", "k8s", "k8s unreachable"} or fewer

VARIABLES
  config, hat, vault, mode,
  spec,             \* "none", the job's environment and command, or an error
  agent             \* "none", or what the agent has read

vars == <<config, hat, vault, mode, spec, agent>>

\* A name is any text but the word for a failure.
Names == STRING \ {"error"}

Config ==
  [broker : [url : Names, pod_url : Names, stream : Names],
   store : [endpoint : Names, bucket : Names, prefix : Names],
   git : [repo : Names, base_branch : Names, branch_strategy : {"", "Shared", "PerHat"},
          credentials : STRING],
   backend : STRING, prompt_file : {"readable", "missing"}]

IsHat(h) ==
  /\ h.command \in STRING /\ h.default_publishes \in Names /\ h.publishes \in Seq(Names)
  /\ \A v \in DOMAIN h.env : h.env[v] \in [literal : Names, secret : STRING]

-----------------------------------------------------------------------------
(***************************************************************************)
(* Secrets.  The chain asks env, then files, then Kubernetes where it can  *)
(* be reached (run.rs:119-139); an error ends it (chain.rs:22-29).  A      *)
(* provider answers with a value, "" for none, or "error".  What is held   *)
(* is not empty.                                                           *)
(***************************************************************************)
Providers == IF mode = "k8s" THEN <<"env", "file", "k8s">> ELSE <<"env", "file">>

\* A variable that is not set is none, one that is not Unicode an error.
EnvSecret(name) == vault.env[EnvVarName[name]]

\* The file's text without the space at its end; a missing file is none, one
\* that cannot be read an error.
FileSecret(name) == vault.file[name].text

\* One key of one Secret; none without the Secret or the key.
K8sSecret(name) ==
  LET data == vault.k8s.data[ParseName[name][1]] IN
  IF vault.k8s.fails THEN "error"
  ELSE IF ParseName[name][2] \in DOMAIN data THEN data[ParseName[name][2]] ELSE ""

Asked(p, name) ==
  CASE p = "env" -> EnvSecret(name) [] p = "file" -> FileSecret(name) [] p = "k8s" -> K8sSecret(name)

\* Mutation: the last provider wins.
GetSecretLast(name) ==
  LET i == SelectLastInSeq(Providers, LAMBDA p : Asked(p, name) # "")
  IN IF i = 0 THEN "" ELSE Asked(Providers[i], name)
\* The value, "" or "error".
GetSecret(name) ==
  LET i == SelectInSeq(Providers, LAMBDA p : Asked(p, name) # "")
  IN IF i = 0 THEN "" ELSE Asked(Providers[i], name)

-----------------------------------------------------------------------------
(***************************************************************************)
(* build.  The environment is filled in three rounds, later rounds over    *)
(* earlier ones: what the controller knows, the hat's own variables, git.  *)
(***************************************************************************)
\* The variables of f that have a value.
Given(f) == [v \in {x \in DOMAIN f : f[x] # ""} |-> f[v]]

\* g over f.
Over(f, g) ==
  [v \in DOMAIN f \cup DOMAIN g |-> IF v \in DOMAIN g THEN g[v] ELSE f[v]]

First(a, b) == IF a # "" THEN a ELSE b

PublishFirst == IF hat.publishes = <<>> THEN "" ELSE hat.publishes[1]

BrokerUrl == First(config.broker.pod_url, config.broker.url)

\* assemble_prompt: the task is there if the prompt file could be read.
Prompt == IF config.prompt_file = "readable" THEN "with task" ELSE "without task"

ControllerEnv ==
  Given([BORING_RUN_ID |-> "run", BORING_HAT_ID |-> "hat",
         BORING_EVENT_TOPIC |-> "topic", BORING_PROMPT |-> Prompt,
         BORING_DEFAULT_PUBLISH |-> First(hat.default_publishes, PublishFirst),
         BORING_BROKER_URL |-> BrokerUrl,
         BORING_BROKER_STREAM |-> config.broker.stream,
         BORING_STORE_ENDPOINT |-> config.store.endpoint,
         BORING_STORE_BUCKET |-> config.store.bucket,
         BORING_STORE_PREFIX |-> config.store.prefix])

\* A hat's variable is a literal, which may be empty, or the name of a secret.
Wanted == {hat.env[v].secret : v \in {x \in DOMAIN hat.env : hat.env[x].secret # ""}}

\* resolve_env.
EnvResolved == \A s \in Wanted : GetSecret(s) \notin {"", "error"}

HatEnv ==
  [v \in DOMAIN hat.env |->
     IF hat.env[v].secret = "" THEN hat.env[v].literal ELSE GetSecret(hat.env[v].secret)]

\* A token nobody has is left out.
Token == IF config.git.credentials = "" THEN "" ELSE GetSecret(config.git.credentials)

\* The name of the variant in lower case, which drops what is between words.
Lowered(strategy) ==
  CASE strategy = "Shared" -> "shared" [] strategy = "PerHat" -> "perhat" [] OTHER -> ""

GitEnv ==
  IF config.git.repo = "" THEN <<>>
  ELSE Given([BORING_GIT_REPO |-> config.git.repo,
              BORING_GIT_BASE_BRANCH |-> config.git.base_branch,
              BORING_GIT_BRANCH_STRATEGY |-> Lowered(config.git.branch_strategy),
              BORING_GIT_TOKEN |-> Token])

BuiltEnv == Over(Over(ControllerEnv, HatEnv), GitEnv)

Command == First(First(hat.command, config.backend), "echo")

Buildable == EnvResolved /\ (config.git.repo # "" => Token # "error")

-----------------------------------------------------------------------------
(***************************************************************************)
(* The pod: the command is one more variable, after the others             *)
(* (k8s.rs:150-158), and the agent's reading of them with its defaults.    *)
(***************************************************************************)
PodEnv == Over(spec.env, [BORING_COMMAND |-> spec.command])

Read(v, default) == IF v \in DOMAIN PodEnv THEN PodEnv[v] ELSE default

\* from_env fails without a run and a hat, which every job has.  "none" is an
\* absent option.
AgentEnv ==
  [run_id |-> Read("BORING_RUN_ID", ""), hat_id |-> Read("BORING_HAT_ID", ""),
   prompt |-> Read("BORING_PROMPT", ""), command |-> Read("BORING_COMMAND", "none"),
   broker_url |-> Read("BORING_BROKER_URL", "nats://nats:4222"),
   broker_stream |-> Read("BORING_BROKER_STREAM", "BORING"),
   store_endpoint |-> Read("BORING_STORE_ENDPOINT", "http://rustfs:9000"),
   store_bucket |-> Read("BORING_STORE_BUCKET", "borechestrator"),
   store_prefix |-> Read("BORING_STORE_PREFIX", ""),
   git_repo |-> Read("BORING_GIT_REPO", "none"),
   git_base_branch |-> Read("BORING_GIT_BASE_BRANCH", "main"),
   git_branch_strategy |-> Read("BORING_GIT_BRANCH_STRATEGY", "shared"),
   git_token |-> Read("BORING_GIT_TOKEN", "none")]

\* The branch the agent checks out in its repository.
WorkBranch ==
  IF agent.git_branch_strategy = "per_hat" THEN "own branch" ELSE "branch of the run"

\* The controller's own choice of broker and stream (run.rs:62-72).
OwnBrokerUrl == First(config.broker.url, "nats://127.0.0.1:4222")
OwnStream == First(config.broker.stream, "BORING")

Unbuilt == [result |-> "none", env |-> <<>>, command |-> ""]
Unread == [run_id |-> ""]

Init ==
  /\ config \in Configs /\ hat \in Hats /\ vault \in Vaults /\ mode \in Modes
  /\ spec = Unbuilt
  /\ agent = Unread

Build ==
  /\ spec = Unbuilt
  /\ spec' = IF Buildable
             THEN [result |-> "built", env |-> BuiltEnv, command |-> Command]
             ELSE [result |-> "error", env |-> <<>>, command |-> ""]
  /\ UNCHANGED <<config, hat, vault, mode, agent>>

Start ==
  /\ spec.result = "built" /\ agent = Unread
  /\ agent' = AgentEnv
  /\ UNCHANGED <<config, hat, vault, mode, spec>>

Done == (spec.result = "error" \/ agent # Unread) /\ UNCHANGED vars

Next == Build \/ Start \/ Done

Spec == Init /\ [][Next]_vars

-----------------------------------------------------------------------------
(***************************************************************************)
(* Properties.  Own variables of a hat that name the controller's are its  *)
(* author's business; what follows is about the others.                    *)
(***************************************************************************)
Mine(v) == v \notin DOMAIN hat.env

Started == agent # Unread

TypeOK ==
  /\ spec.result \in {"none", "built", "error"}
  /\ \A v \in DOMAIN spec.env :
       spec.env[v] # "error" /\ (spec.env[v] = "" => v \in DOMAIN hat.env)
  /\ spec.result = "built" => spec.command # ""

(***************************************************************************)
(* The reference for a secret: the value of the first provider, in the     *)
(* order the README gives, that has one, if none before it fails.          *)
(***************************************************************************)
HeldBy(name, i) == Asked(Providers[i], name) \notin {"", "error"}

SecretIs(name, value) ==
  \E i \in DOMAIN Providers :
    /\ HeldBy(name, i) /\ value = Asked(Providers[i], name)
    /\ \A k \in 1..i - 1 : Asked(Providers[k], name) = ""

\* No job starts without a secret its hat asks for, and each variable has the
\* value the first provider to hold it gives; nothing of git's may be in the
\* way.
SecretsOrNoJob ==
  spec.result = "built" =>
    \A v \in DOMAIN hat.env \ DOMAIN GitEnv :
      hat.env[v].secret # "" =>
        v \in DOMAIN spec.env /\ SecretIs(hat.env[v].secret, spec.env[v])

\* Controller and agent talk through the same stream of the same broker, as
\* far as the configuration says which; the agent keeps its state in the store
\* the configuration says and works in the repository it says; it starts from
\* the branch it says, and hats that are to share a branch do, whatever the
\* environment of each.
AgentFollowsConfig ==
  Started =>
    /\ Mine("BORING_BROKER_STREAM") => agent.broker_stream = OwnStream
    /\ (config.broker.url # "" /\ Mine("BORING_BROKER_URL")) =>
         agent.broker_url \in {config.broker.url, config.broker.pod_url}
    /\ config.broker.pod_url # "" /\ Mine("BORING_BROKER_URL") =>
         agent.broker_url = config.broker.pod_url
    /\ (config.store.endpoint # "" /\ Mine("BORING_STORE_ENDPOINT")) =>
         agent.store_endpoint = config.store.endpoint
    /\ (config.store.bucket # "" /\ Mine("BORING_STORE_BUCKET")) =>
         agent.store_bucket = config.store.bucket
    /\ config.git.repo # "" =>
         /\ agent.git_repo = config.git.repo
         /\ config.git.base_branch # "" => agent.git_base_branch = config.git.base_branch
         /\ \/ config.git.branch_strategy = "Shared"
            \/ config.git.branch_strategy = "" /\ Mine("BORING_GIT_BRANCH_STRATEGY")
            => WorkBranch = "branch of the run"

\* The agent runs the hat's command if it has one, else the backend, whatever
\* variables the hat sets.
AgentRunsCommand ==
  Started =>
    /\ hat.command # "" => agent.command = hat.command
    /\ (hat.command = "" /\ config.backend # "") => agent.command = config.backend
=============================================================================
