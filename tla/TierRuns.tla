------------------------------ MODULE TierRuns ------------------------------
(***************************************************************************)
(* The Python engine that executes the runs of a tier one after the other  *)
(* (cli.py): each run is validated, the twins are reset and seeded, the    *)
(* agent is tried, and its effects are taken from the twins and asserted.  *)
(*                                                                         *)
(* What the runs share is what can go wrong: the twins, the environment    *)
(* variables of the process, the endpoints, the plugins that were loaded,  *)
(* and agents of earlier runs that are still at work.  The content of a    *)
(* twin is the set of the runs that have left something in it.             *)
(***************************************************************************)
EXTENDS Integers, Sequences

CONSTANTS Twins,        \* names of the registered twin providers
          Urls,         \* where a twin may be served
          DefaultUrl,   \* default_base_url of every provider
          Plugin,       \* a module that is on no allow-list
          Jobs          \* the commands that may be given, see JobType

Missing == "missing"    \* _MISSING, and a field that a document leaves out
UnsafePlugins == "AGENT_SANDBOX_UNSAFE_PLUGINS"
EnvVars == Twins \cup {UnsafePlugins}   \* a twin stands for its base URL variable
EnvValues == Urls \cup {"true", "false", Missing}
Tables == UNION {[V -> EnvValues \ {Missing}] : V \in SUBSET EnvVars}

\* f, and g where f says nothing.
Over(f, g) == [v \in DOMAIN f \cup DOMAIN g |-> IF v \in DOMAIN f THEN f[v] ELSE g[v]]

\* A run with its environment: `urls` are its twins, `env` its runtime.env.
RunType == [kind : {"command", "http", "workflow"}, retries : Nat, timed : BOOLEAN,
            seeds : SUBSET Twins, urls : [Twins -> Urls \cup {Missing}],
            policy : {"true", "false", Missing}, env : Tables, plugins : SUBSET {Plugin}]
JobType == [tier : Seq(RunType), reset : BOOLEAN, assertAfter : BOOLEAN,
            stopOnFailure : BOOLEAN, unsafePlugins : BOOLEAN,
            exported : {e \in [EnvVars -> EnvValues] : \A t \in Twins : e[t] \in Urls \cup {Missing}}]

ASSUME JobsAssumption == DefaultUrl \in [Twins -> Urls] /\ Jobs \subseteq JobType

VARIABLES job,        \* the arguments, and the variables that the shell exported
          k,          \* the number of runs begun
          pc,         \* what the engine does next
          osEnviron,  \* os.environ, Missing for a variable that is not there
          scopes,     \* the `previous` tables of the scoped_envs entered, innermost first
          endpoints,  \* the one TwinEndpoints object of the command
          todo,       \* providers that the current loop has yet to call
          attempt,    \* attempts begun of the current run
          working,    \* attempts that are at work, those of earlier runs included
          twins,      \* by URL: the runs that left something in the twin, 0 before the first
          snap,       \* by provider: the snapshot that the assertions are given
          loaded,     \* _LOADED_PLUGIN_MODULES
          reports,    \* the outcome of every run that has ended
          givenUp     \* runs with an attempt that was given up while its agent went on

inputs == <<job, k>>
engine == <<osEnviron, scopes, endpoints, loaded>>
agents == <<attempt, working, givenUp>>
vars == <<inputs, pc, engine, todo, agents, twins, snap, reports>>

Run == job.tier[k]
Empty == [v \in {} |-> Missing]
Given(table) == [v \in {x \in DOMAIN table : table[x] # Missing} |-> table[v]]

(***************************************************************************)
(* scoped_env (env.py): defaults fill what is not set, overrides replace,  *)
(* and one table remembers what each variable was before.                  *)
(***************************************************************************)
Applied(env, defaults) == {v \in DOMAIN defaults : env[v] = Missing}
WithDefaults(env, defaults) ==
    [v \in EnvVars |-> IF v \in Applied(env, defaults) THEN defaults[v] ELSE env[v]]

\* A plausible slip: the override remembers the default that was just set.
PreviousAfterDefaults(env, overrides, defaults) ==
    [v \in Applied(env, defaults) \cup DOMAIN overrides |->
        IF v \in DOMAIN overrides THEN WithDefaults(env, defaults)[v] ELSE env[v]]

Previous(env, overrides, defaults) ==
    [v \in Applied(env, defaults) \cup DOMAIN overrides |-> env[v]]

EnterScope(overrides, defaults) ==
    /\ osEnviron' = Over(overrides, WithDefaults(osEnviron, defaults))
    /\ scopes' = <<Previous(osEnviron, overrides, defaults)>> \o scopes

\* plugin_policy_env and the flag --unsafe-plugins, as overrides.
PolicyEnv(run) == Given([v \in {UnsafePlugins} |-> run.policy])
PluginOverrides == IF job.unsafePlugins THEN [v \in {UnsafePlugins} |-> "true"] ELSE Empty

\* default_endpoints: what the shell exported, or the defaults of the providers.
DefaultEndpoints(exported) ==
    [t \in Twins |-> IF exported[t] = Missing THEN DefaultUrl[t] ELSE exported[t]]

Init ==
    /\ job \in Jobs
    /\ k = 0
    /\ pc = "next"
    /\ osEnviron = job.exported
    /\ scopes = <<>>
    /\ endpoints = DefaultEndpoints(job.exported)
    /\ todo = {}
    /\ attempt = 0
    /\ working = {}
    /\ twins = [u \in Urls |-> {0}]
    /\ snap = [t \in Twins |-> {}]
    /\ loaded = {}
    /\ reports = <<>>
    /\ givenUp = {}

-----------------------------------------------------------------------------
(***************************************************************************)
(* One run: _execute_named_run.                                            *)
(***************************************************************************)
BeginRun ==
    /\ pc = "next" /\ k < Len(job.tier)
    /\ k' = k + 1
    /\ EnterScope(PluginOverrides, Empty)
    /\ pc' = "validate"
    /\ attempt' = 0
    /\ UNCHANGED <<job, endpoints, loaded, todo, working, givenUp, twins, snap, reports>>

\* validate_run_spec: its own scope, in which runtime.env beats the policy.
Validate ==
    /\ pc = "validate"
    /\ EnterScope(Over(Run.env, PolicyEnv(Run)), Empty)
    /\ pc' = "load"
    /\ UNCHANGED <<inputs, endpoints, loaded, todo, agents, twins, snap, reports>>

\* load_execution_plugins: a module is judged the first time only.
Blocked == Run.plugins \ loaded # {} /\ osEnviron[UnsafePlugins] # "true"
LoadPlugins ==
    /\ pc \in {"load", "reload"}
    /\ loaded' = IF Blocked THEN loaded ELSE loaded \cup Run.plugins
    /\ pc' = CASE Blocked -> "raised"
               [] pc = "load" -> "validated"
               [] OTHER -> "prepare"
    /\ UNCHANGED <<inputs, osEnviron, scopes, endpoints, todo, agents, twins, snap, reports>>

\* The finally of a scoped_env, on the way out of a block or of an exception.
LeaveScope ==
    /\ pc \in {"validated", "executed", "raised"} /\ scopes # <<>>
    /\ osEnviron' = Over(Head(scopes), osEnviron)
    /\ scopes' = Tail(scopes)
    /\ UNCHANGED <<inputs, pc, endpoints, loaded, todo, agents, twins, snap, reports>>

\* The environment of the run changes the endpoints it names and keeps the others.
UseEnvironment ==
    /\ pc = "validated" /\ scopes = <<>>
    /\ endpoints' = Over(Given(Run.urls), endpoints)
    /\ pc' = "ensure"
    /\ UNCHANGED <<inputs, osEnviron, scopes, loaded, todo, agents, twins, snap, reports>>

\* A plausible slip: reset_twins takes over the condition of seed_twins.
ToResetSeeded(run) == run.seeds

ToReset(run) == Twins
ToSeed(run) == run.seeds
\* ensure_twins_available has found every twin healthy.
EnsureTwins ==
    /\ pc = "ensure"
    /\ todo' = IF job.reset THEN ToReset(Run) ELSE ToSeed(Run)
    /\ pc' = IF job.reset THEN "reset" ELSE "seed"
    /\ UNCHANGED <<inputs, engine, agents, twins, snap, reports>>

ResetTwin ==
    /\ pc = "reset"
    /\ \E t \in todo :
        /\ twins' = [twins EXCEPT ![endpoints[t]] = {}]
        /\ todo' = todo \ {t}
    /\ UNCHANGED <<inputs, pc, engine, agents, snap, reports>>

AllReset ==
    /\ pc = "reset" /\ todo = {}
    /\ todo' = ToSeed(Run)
    /\ pc' = "seed"
    /\ UNCHANGED <<inputs, engine, agents, twins, snap, reports>>

\* A seed replaces the state of the twin.
SeedTwin ==
    /\ pc = "seed"
    /\ \E t \in todo :
        /\ twins' = [twins EXCEPT ![endpoints[t]] = {k}]
        /\ todo' = todo \ {t}
    /\ UNCHANGED <<inputs, pc, engine, agents, snap, reports>>

\* The scope of the execution; execute_run_spec then goes by its mode.
AllSeeded ==
    /\ pc = "seed" /\ todo = {}
    /\ EnterScope(Over(PluginOverrides, PolicyEnv(Run)), Empty)
    /\ pc' = IF Run.kind = "workflow" THEN "reload" ELSE "execute"
    /\ UNCHANGED <<inputs, endpoints, loaded, todo, agents, twins, snap, reports>>

\* _apply_runtime_env of a workflow or an agent in this process.
ApplyRuntimeEnv ==
    /\ pc = "prepare"
    /\ EnterScope(Run.env, endpoints)
    /\ pc' = "execute"
    /\ UNCHANGED <<inputs, endpoints, loaded, todo, agents, twins, snap, reports>>

-----------------------------------------------------------------------------
(***************************************************************************)
(* The attempts of a run: execute_adapter_run, or the handler in process.  *)
(***************************************************************************)

\* An adapter is told its URLs (_adapter_runtime_env); a handler reads os.environ.
AgentUrls == IF Run.kind = "workflow" THEN [t \in Twins |-> osEnviron[t]]
                                      ELSE [t \in Twins |-> Over(Run.env, endpoints)[t]]
Current == {w \in working : w.run = k /\ w.attempt = attempt}

StartAttempt ==
    /\ pc = "execute"
    /\ attempt' = attempt + 1
    /\ working' = working \cup {[run |-> k, attempt |-> attempt + 1, urls |-> AgentUrls]}
    /\ pc' = "attempt"
    /\ UNCHANGED <<inputs, engine, todo, givenUp, twins, snap, reports>>

\* An agent changes a twin; one that was given up may do so at any time.
AgentWorks ==
    /\ \E w \in working, t \in Twins :
        twins' = [twins EXCEPT ![w.urls[t]] = @ \cup {w.run}]
    /\ UNCHANGED <<inputs, pc, engine, todo, agents, snap, reports>>

\* A late agent comes to its end and nobody waits for it.
LateAgentEnds ==
    /\ \E w \in working :
        /\ pc = "attempt" => w \notin Current
        /\ working' = working \ {w}
    /\ UNCHANGED <<inputs, pc, engine, todo, attempt, givenUp, twins, snap, reports>>

\* COMPLETED, or any status that a handler in process returns.
AttemptCompletes ==
    /\ pc = "attempt"
    /\ working' = working \ Current
    /\ pc' = "executed"
    /\ UNCHANGED <<inputs, engine, todo, attempt, givenUp, twins, snap, reports>>

\* A valid answer with another status ends the run (_coerce_adapter_result).
AttemptRefuses ==
    /\ pc = "attempt" /\ Run.kind # "workflow"
    /\ working' = working \ Current
    /\ pc' = "raised"
    /\ UNCHANGED <<inputs, engine, todo, attempt, givenUp, twins, snap, reports>>

AfterError == IF Run.kind # "workflow" /\ attempt <= Run.retries THEN "execute" ELSE "raised"

\* The attempt ends in an exception; a live agent goes on without the engine.
GiveUp(agentLives) ==
    /\ pc = "attempt"
    /\ working' = IF agentLives THEN working ELSE working \ Current
    /\ givenUp' = IF agentLives THEN givenUp \cup {k} ELSE givenUp
    /\ pc' = AfterError
    /\ UNCHANGED <<inputs, engine, todo, attempt, twins, snap, reports>>

\* A bad exit, an answer out of contract, the handler's own exception, or a
\* connection to an HTTP agent that breaks.
AttemptFails ==
    \/ GiveUp(FALSE)
    \/ pc = "attempt" /\ Run.kind = "http" /\ GiveUp(TRUE)

\* subprocess.run kills the command at the end of its time.  The limit of an HTTP
\* attempt is that of each wait on its socket; nobody tells the agent when one ends.
OutlivesTimeout(kind) == kind = "http"
AttemptTimesOut ==
    /\ pc = "attempt" /\ Run.kind # "workflow" /\ Run.timed
    /\ GiveUp(OutlivesTimeout(Run.kind))

-----------------------------------------------------------------------------
(***************************************************************************)
(* Assertions and reports.                                                 *)
(***************************************************************************)
BeginSnapshot ==
    /\ pc = "executed" /\ scopes = <<>> /\ job.assertAfter
    /\ todo' = Twins
    /\ pc' = "snapshot"
    /\ UNCHANGED <<inputs, engine, agents, twins, snap, reports>>

SnapshotTwin ==
    /\ pc = "snapshot"
    /\ \E t \in todo :
        /\ snap' = [snap EXCEPT ![t] = twins[endpoints[t]]]
        /\ todo' = todo \ {t}
    /\ UNCHANGED <<inputs, pc, engine, agents, twins, reports>>

\* The assertions held, or none were asked for; only the status of a handler
\* in process may still be one that _run_passed rejects.
ReportRun ==
    /\ \/ pc = "snapshot" /\ todo = {}
       \/ pc = "executed" /\ scopes = <<>> /\ ~job.assertAfter
    /\ \E r \in {"passed", "rejected"} :
        /\ r = "rejected" => Run.kind = "workflow"
        /\ reports' = Append(reports, r)
    /\ pc' = "next"
    /\ UNCHANGED <<inputs, engine, todo, agents, twins, snap>>

\* Any call may raise: a refused document, a twin that is away or refuses a
\* reset or a seed, an isolation rule, an assertion.
Raise ==
    /\ pc \in {"validate", "load", "ensure", "reset", "seed", "reload", "prepare", "execute",
               "snapshot"}
    /\ pc = "execute" => attempt = 0
    /\ pc' = "raised"
    /\ UNCHANGED <<inputs, engine, todo, agents, twins, snap, reports>>

\* A plausible slip: the command stops before it has reported the failure.
ReportFailureStopsFirst ==
    /\ pc = "raised" /\ scopes = <<>>
    /\ reports' = IF job.stopOnFailure THEN reports ELSE Append(reports, "failed")
    /\ pc' = IF job.stopOnFailure THEN "end" ELSE "next"
    /\ UNCHANGED <<inputs, engine, todo, agents, twins, snap>>

\* The except clause of execute-tier.
ReportFailure ==
    /\ pc = "raised" /\ scopes = <<>>
    /\ reports' = Append(reports, "failed")
    /\ pc' = IF job.stopOnFailure THEN "end" ELSE "next"
    /\ UNCHANGED <<inputs, engine, todo, agents, twins, snap>>

EndTier ==
    /\ pc = "next" /\ k = Len(job.tier)
    /\ pc' = "end"
    /\ UNCHANGED <<inputs, engine, todo, agents, twins, snap, reports>>

Ended == pc = "end" /\ UNCHANGED vars

EngineStep ==
    \/ BeginRun \/ Validate \/ LoadPlugins \/ LeaveScope \/ UseEnvironment \/ EnsureTwins
    \/ ResetTwin \/ AllReset \/ SeedTwin \/ AllSeeded \/ ApplyRuntimeEnv \/ StartAttempt
    \/ BeginSnapshot \/ SnapshotTwin \/ ReportRun \/ ReportFailure \/ EndTier

Next ==
    \/ EngineStep \/ Raise
    \/ AttemptCompletes \/ AttemptRefuses \/ AttemptFails \/ AttemptTimesOut
    \/ AgentWorks \/ LateAgentEnds
    \/ Ended

\* The engine is one thread that goes on, and the clock of a command with a time
\* limit runs out.  Nothing makes an agent answer, and an HTTP agent that sends a
\* byte now and then never meets the limit of its socket.
EndsByItself(run) == run.kind = "command" /\ run.timed
CommandTimesOut == AttemptTimesOut /\ EndsByItself(Run)
FairSpec == Init /\ [][Next]_vars /\ WF_vars(EngineStep) /\ WF_vars(CommandTimesOut)

-----------------------------------------------------------------------------
(***************************************************************************)
(* Properties.                                                             *)
(***************************************************************************)

\* What the assertions of a run are given is the work of this run: nothing of
\* the state before the tier and nothing of another run, except of runs with an
\* HTTP attempt that the engine gave up (adapters.py 388-436), whatever failed, was
\* retried or shared a twin in between (cli.py 669-755).
OwnEffectsOnly ==
    (pc = "snapshot" /\ job.reset) =>
        \A t \in Twins \ todo : snap[t] \subseteq {k} \cup givenUp

\* Between the runs of a tier, and after it, the variables of the process are
\* those that the shell exported, however a run ended and wherever it raised
\* inside its nested scopes (env.py 25-49).
ScopesRestored ==
    (scopes = <<>>) => osEnviron = job.exported

\* A tier comes to its end with one report for each of its runs, or the last
\* report is the failure it was told to stop at, unless it stays for ever in an
\* attempt that the engine cannot end: a handler in the process, a command without
\* a time limit, or an HTTP agent that keeps its connection busy (cli.py 190-232,
\* adapters.py 319-352, 388-436).
AllReported ==
    \/ Len(reports) = Len(job.tier)
    \/ job.stopOnFailure /\ reports # <<>> /\ reports[Len(reports)] = "failed"
EveryRunReported ==
    \/ <>(pc = "end" /\ AllReported)
    \/ <>[](pc = "attempt" /\ ~EndsByItself(Run))
=============================================================================
