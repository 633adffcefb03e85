---------------------------- MODULE TierRunsProofs ----------------------------
(***************************************************************************)
(* Proofs about TierRuns, for tiers of any length, any twins and URLs, any *)
(* number of retries, and agents that go on for as long as they like.      *)
(***************************************************************************)
EXTENDS TierRuns, SequenceTheorems, TLAPS

Table == UNION {[V -> EnvValues] : V \in SUBSET EnvVars}

Agent == [run : Nat, attempt : Nat, urls : [Twins -> EnvValues]]

TypeInv ==
  /\ job \in JobType
  /\ k \in Nat
  /\ pc \notin {"next", "end"} => k \in 1..Len(job.tier)
  /\ osEnviron \in [EnvVars -> EnvValues]
  /\ scopes \in Seq(Table)
  /\ endpoints \in [Twins -> Urls]
  /\ todo \subseteq Twins
  /\ attempt \in Nat
  /\ working \subseteq Agent
  /\ twins \in [Urls -> SUBSET Nat]
  /\ snap \in [Twins -> SUBSET Nat]
  /\ givenUp \subseteq Nat

\* The outermost table that remembers a variable has the value that the shell
\* exported, and a variable that no table remembers still has it.
Untouched(v, tables) == \A n \in 1..Len(tables) : v \notin DOMAIN tables[n]
OutermostOf(v, n, tables) ==
  v \in DOMAIN tables[n] /\ \A m \in 1..Len(tables) : m > n => v \notin DOMAIN tables[m]
Remembers(env, tables, exported) ==
  \A v \in EnvVars :
    /\ Untouched(v, tables) => env[v] = exported[v]
    /\ \A n \in 1..Len(tables) :
         OutermostOf(v, n, tables) => tables[n][v] = exported[v]
ScopeInv == Remembers(osEnviron, scopes, job.exported)

\* An agent at work is the one that the engine waits for, or was given up.
AgentInv ==
  \A w \in working :
    w.run \in givenUp \/ (pc = "attempt" /\ w.run = k /\ w.attempt = attempt)

\* From its reset on, a twin holds nothing but the work of the current run and
\* of runs that were given up, and so does its snapshot.
Clean(S) == S \subseteq {k} \cup givenUp
AfterReset ==
  {"seed", "reload", "prepare", "execute", "attempt", "executed", "snapshot"}
ContentInv ==
  job.reset =>
    /\ pc = "reset" => \A t \in Twins \ todo : Clean(twins[endpoints[t]])
    /\ pc \in AfterReset => \A t \in Twins : Clean(twins[endpoints[t]])
    /\ pc = "snapshot" => \A t \in Twins \ todo : Clean(snap[t])

IInv == TypeInv /\ ScopeInv /\ AgentInv /\ ContentInv

-----------------------------------------------------------------------------
(* Tables and scopes. *)

LEMMA OverTable ==
  ASSUME NEW f \in Table, NEW g \in Table
  PROVE  Over(f, g) \in Table
<1>1. PICK V, W \in SUBSET EnvVars : f \in [V -> EnvValues] /\ g \in [W -> EnvValues]
  BY DEF Table
<1>2. Over(f, g) \in [V \cup W -> EnvValues]
  BY <1>1 DEF Over
<1> QED
  BY <1>2 DEF Table

LEMMA OverWhole ==
  ASSUME NEW f \in Table, NEW g \in [EnvVars -> EnvValues]
  PROVE  Over(f, g) \in [EnvVars -> EnvValues]
<1>1. PICK V \in SUBSET EnvVars : f \in [V -> EnvValues]
  BY DEF Table
<1> QED
  BY <1>1 DEF Over

\* Entering a scope puts a table p on the others that holds the values of
\* everything that changes.
LEMMA PushRemembers ==
  ASSUME NEW s \in Seq(Table), NEW p \in Table, NEW env, NEW env2, NEW exported,
         Remembers(env, s, exported),
         \A v \in DOMAIN p : p[v] = env[v],
         \A v \in EnvVars \ DOMAIN p : env2[v] = env[v]
  PROVE  Remembers(env2, <<p>> \o s, exported)
<1> DEFINE t == <<p>> \o s
<1>1. /\ Len(s) \in Nat /\ Len(t) = Len(s) + 1
      /\ t[1] = p
      /\ \A n \in 1..Len(s) : t[n + 1] = s[n]
  BY ConcatProperties, SMT
<1>2. \A n \in 1..Len(t) : n = 1 \/ (n - 1 \in 1..Len(s) /\ t[n] = s[n - 1])
  BY <1>1, SMT
<1> HIDE DEF t
<1> SUFFICES ASSUME NEW v \in EnvVars
             PROVE  /\ Untouched(v, t) => env2[v] = exported[v]
                    /\ \A n \in 1..Len(t) :
                         OutermostOf(v, n, t) => t[n][v] = exported[v]
  BY DEF Remembers, t
<1>3. ASSUME Untouched(v, t) PROVE env2[v] = exported[v]
  <2>1. v \notin DOMAIN p /\ Untouched(v, s)
    BY <1>1, <1>3, SMT DEF Untouched
  <2> QED
    BY <2>1 DEF Remembers
<1>4. ASSUME NEW n \in 1..Len(t), OutermostOf(v, n, t) PROVE t[n][v] = exported[v]
  <2>1. CASE n = 1
    <3>1. v \in DOMAIN p /\ Untouched(v, s)
      BY <1>1, <1>4, <2>1, SMT DEF Untouched, OutermostOf
    <3> QED
      BY <1>1, <2>1, <3>1 DEF Remembers
  <2>2. CASE n # 1
    <3>1. n - 1 \in 1..Len(s) /\ t[n] = s[n - 1]
      BY <1>2, <2>2
    <3>2. OutermostOf(v, n - 1, s)
      BY <1>1, <1>4, <3>1, SMT DEF OutermostOf
    <3> QED
      BY <3>1, <3>2 DEF Remembers
  <2> QED
    BY <2>1, <2>2
<1> QED
  BY <1>3, <1>4

\* Leaving a scope gives everything in its table back.
LEMMA PopRemembers ==
  ASSUME NEW s \in Seq(Table), s # <<>>, NEW env, NEW exported,
         EnvVars \subseteq DOMAIN env,
         Remembers(env, s, exported)
  PROVE  Remembers(Over(Head(s), env), Tail(s), exported)
<1> DEFINE t == Tail(s)
           env2 == Over(Head(s), env)
<1>1. /\ Len(s) \in Nat /\ Len(s) > 0 /\ Len(t) = Len(s) - 1
      /\ Head(s) = s[1]
      /\ \A n \in 1..Len(t) : t[n] = s[n + 1]
  BY HeadTailProperties, EmptySeq, SMT
<1>2. /\ \A v \in DOMAIN s[1] : env2[v] = s[1][v]
      /\ \A v \in EnvVars \ DOMAIN s[1] : env2[v] = env[v]
  BY <1>1 DEF Over
<1>3. \A n \in 1..Len(s) : n = 1 \/ (n - 1 \in 1..Len(t) /\ s[n] = t[n - 1])
  BY <1>1, SMT
<1> HIDE DEF t, env2
<1> SUFFICES ASSUME NEW v \in EnvVars
             PROVE  /\ Untouched(v, t) => env2[v] = exported[v]
                    /\ \A n \in 1..Len(t) :
                         OutermostOf(v, n, t) => t[n][v] = exported[v]
  BY DEF Remembers, t, env2
<1>4. ASSUME Untouched(v, t) PROVE env2[v] = exported[v]
  <2>1. CASE v \in DOMAIN s[1]
    <3>1. OutermostOf(v, 1, s)
      BY <1>1, <1>3, <1>4, <2>1, SMT DEF OutermostOf, Untouched
    <3> QED
      BY <1>1, <1>2, <2>1, <3>1, SMT DEF Remembers
  <2>2. CASE v \notin DOMAIN s[1]
    <3>1. Untouched(v, s)
      BY <1>3, <1>4, <2>2 DEF Untouched
    <3> QED
      BY <1>2, <2>2, <3>1 DEF Remembers
  <2> QED
    BY <2>1, <2>2
<1>5. ASSUME NEW n \in 1..Len(t), OutermostOf(v, n, t) PROVE t[n][v] = exported[v]
  <2>1. n + 1 \in 1..Len(s) /\ t[n] = s[n + 1]
    BY <1>1, SMT
  <2>2. \A m \in 1..Len(s) : m > n + 1 => m - 1 \in 1..Len(t) /\ m - 1 > n /\ s[m] = t[m - 1]
    BY <1>3, SMT
  <2>3. OutermostOf(v, n + 1, s)
    BY <1>5, <2>1, <2>2 DEF OutermostOf
  <2> QED
    BY <2>1, <2>3 DEF Remembers
<1> QED
  BY <1>4, <1>5

-----------------------------------------------------------------------------
(* What actions have in common. *)

LEMMA VarFacts ==
  /\ Twins \subseteq EnvVars /\ Urls \subseteq EnvValues
  /\ "true" \in EnvValues /\ "false" \in EnvValues /\ Missing \in EnvValues
  /\ UnsafePlugins \in EnvVars
BY DEF EnvVars, EnvValues

LEMMA RunFacts ==
  ASSUME TypeInv, pc \notin {"next", "end"}
  PROVE  /\ Run \in RunType
         /\ Run.env \in Table /\ PolicyEnv(Run) \in Table
<1>1. job.tier \in Seq(RunType) /\ k \in 1..Len(job.tier)
  BY DEF TypeInv, JobType
<1>2. Run \in RunType
  BY <1>1, ElementOfSeq DEF Run
<1>3. Run.env \in Tables /\ Run.policy \in EnvValues
  BY <1>2, VarFacts DEF RunType
<1>4. Run.env \in Table
  BY <1>3 DEF Tables, Table
<1>5. PolicyEnv(Run) \in Table
  <2> DEFINE V == {x \in {UnsafePlugins} : Run.policy # Missing}
  <2>1. V \in SUBSET EnvVars
    BY VarFacts
  <2>2. PolicyEnv(Run) = [v \in V |-> Run.policy]
    BY DEF PolicyEnv, Given
  <2> HIDE DEF V
  <2>3. PolicyEnv(Run) \in [V -> EnvValues]
    BY <1>3, <2>2
  <2> QED
    BY <2>1, <2>3 DEF Table
<1> QED
  BY <1>2, <1>4, <1>5

LEMMA OverrideFacts ==
  ASSUME TypeInv
  PROVE  PluginOverrides \in Table /\ Empty \in Table /\ endpoints \in Table
<1>1. Empty \in [{} -> EnvValues]
  BY DEF Empty
<1>2. [v \in {UnsafePlugins} |-> "true"] \in [{UnsafePlugins} -> EnvValues]
  BY VarFacts
<1>3. endpoints \in [Twins -> EnvValues]
  BY VarFacts DEF TypeInv
<1>4. {} \in SUBSET EnvVars /\ {UnsafePlugins} \in SUBSET EnvVars /\ Twins \in SUBSET EnvVars
  BY VarFacts
<1> QED
  BY <1>1, <1>2, <1>3, <1>4 DEF PluginOverrides, Table

LEMMA EnterScopeInv ==
  ASSUME TypeInv, ScopeInv, NEW o \in Table, NEW d \in Table,
         EnterScope(o, d), job' = job
  PROVE  /\ osEnviron' \in [EnvVars -> EnvValues]
         /\ scopes' \in Seq(Table)
         /\ ScopeInv'
<1> DEFINE p == Previous(osEnviron, o, d)
           w == WithDefaults(osEnviron, d)
           a == Applied(osEnviron, d)
<1>1. PICK V, W \in SUBSET EnvVars : o \in [V -> EnvValues] /\ d \in [W -> EnvValues]
  BY DEF Table
<1>2. osEnviron \in [EnvVars -> EnvValues] /\ scopes \in Seq(Table)
  BY DEF TypeInv
<1>3. a \in SUBSET W
  BY <1>1 DEF Applied
<1>4. /\ w \in [EnvVars -> EnvValues]
      /\ \A v \in EnvVars : v \notin a => w[v] = osEnviron[v]
  BY <1>1, <1>2, <1>3 DEF WithDefaults
<1>5. p \in [a \cup V -> EnvValues] /\ \A v \in DOMAIN p : p[v] = osEnviron[v]
  BY <1>1, <1>2, <1>3 DEF Previous
<1>6. a \cup V \in SUBSET EnvVars
  BY <1>1, <1>3
<1>7. p \in Table
  BY <1>5, <1>6 DEF Table
<1>8. osEnviron' = Over(o, w) /\ scopes' = <<p>> \o scopes
  BY DEF EnterScope
<1> HIDE DEF p, w, a
<1>9. osEnviron' \in [EnvVars -> EnvValues]
  BY <1>4, <1>8, OverWhole
<1>10. \A v \in EnvVars \ DOMAIN p : osEnviron'[v] = osEnviron[v]
  BY <1>1, <1>4, <1>5, <1>8 DEF Over
<1>11. scopes' \in Seq(Table)
  BY <1>2, <1>7, <1>8, ConcatProperties, SMT
<1>12. ScopeInv'
  BY <1>2, <1>5, <1>7, <1>8, <1>10, PushRemembers DEF ScopeInv
<1> QED
  BY <1>9, <1>11, <1>12

LEMMA ScopeKept ==
  ASSUME ScopeInv, UNCHANGED <<job, osEnviron, scopes>>
  PROVE  ScopeInv'
BY DEF ScopeInv

\* Steps of the engine that touch neither agents nor twins.
LEMMA AgentsKept ==
  ASSUME AgentInv, pc # "attempt", UNCHANGED <<working, givenUp>>
  PROVE  AgentInv'
BY DEF AgentInv

-----------------------------------------------------------------------------
(* The initial state and the steps. *)

LEMMA InitIInv == Init => IInv
<1> SUFFICES ASSUME Init PROVE IInv
  OBVIOUS
<1>1. job \in JobType /\ DefaultUrl \in [Twins -> Urls]
  BY JobsAssumption DEF Init
<1>2. job.exported \in [EnvVars -> EnvValues] /\ \A t \in Twins : job.exported[t] \in Urls \cup {Missing}
  BY <1>1 DEF JobType
<1>3. TypeInv
  <2>1. endpoints \in [Twins -> Urls]
    BY <1>1, <1>2 DEF Init, DefaultEndpoints
  <2>2. scopes \in Seq(Table)
    BY EmptySeq DEF Init
  <2> QED
    BY <1>1, <1>2, <2>1, <2>2 DEF TypeInv, Init
<1>4. ScopeInv
  BY EmptySeq, SMT DEF Init, ScopeInv, Remembers
<1>5. AgentInv
  BY DEF Init, AgentInv
<1>6. ContentInv
  BY DEF Init, ContentInv, AfterReset
<1> QED
  BY <1>3, <1>4, <1>5, <1>6 DEF IInv

LEMMA BeginRunIInv == ASSUME IInv, BeginRun PROVE IInv'
<1> USE DEF IInv, BeginRun
<1>1. /\ osEnviron' \in [EnvVars -> EnvValues] /\ scopes' \in Seq(Table) /\ ScopeInv'
  BY OverrideFacts, EnterScopeInv
<1>2. job.tier \in Seq(RunType)
  BY DEF TypeInv, JobType
<1>3. TypeInv'
  BY <1>1, <1>2, LenProperties, SMT DEF TypeInv
<1>4. AgentInv' /\ ContentInv'
  BY AgentsKept DEF ContentInv, AfterReset
<1> QED
  BY <1>1, <1>3, <1>4

LEMMA ValidateIInv == ASSUME IInv, Validate PROVE IInv'
<1> USE DEF IInv, Validate, inputs, agents
<1>1. Over(Run.env, PolicyEnv(Run)) \in Table
  BY RunFacts, OverTable
<1>2. /\ osEnviron' \in [EnvVars -> EnvValues] /\ scopes' \in Seq(Table) /\ ScopeInv'
  BY <1>1, OverrideFacts, EnterScopeInv
<1>3. TypeInv'
  BY <1>2 DEF TypeInv
<1>4. AgentInv' /\ ContentInv'
  BY AgentsKept DEF ContentInv, AfterReset
<1> QED
  BY <1>2, <1>3, <1>4

LEMMA LoadPluginsIInv == ASSUME IInv, LoadPlugins PROVE IInv'
<1> USE DEF IInv, LoadPlugins, inputs, agents
<1>1. pc' \in {"raised", "validated", "prepare"} /\ (pc' = "prepare" => pc = "reload")
  OBVIOUS
<1>2. TypeInv'
  BY <1>1 DEF TypeInv
<1>3. ScopeInv' /\ AgentInv'
  BY ScopeKept, AgentsKept
<1>4. ContentInv'
  BY <1>1 DEF ContentInv, AfterReset, Clean
<1> QED
  BY <1>2, <1>3, <1>4

LEMMA LeaveScopeIInv == ASSUME IInv, LeaveScope PROVE IInv'
<1> USE DEF IInv, LeaveScope, inputs, agents
<1>1. /\ Head(scopes) \in Table /\ Tail(scopes) \in Seq(Table)
  BY HeadTailProperties DEF TypeInv
<1>2. TypeInv'
  BY <1>1, OverWhole DEF TypeInv
<1>3. ScopeInv'
  BY PopRemembers DEF ScopeInv, TypeInv
<1>4. AgentInv' /\ ContentInv'
  BY AgentsKept DEF ContentInv, AfterReset, Clean
<1> QED
  BY <1>2, <1>3, <1>4

LEMMA UseEnvironmentIInv == ASSUME IInv, UseEnvironment PROVE IInv'
<1> USE DEF IInv, UseEnvironment, inputs, agents
<1>1. Run.urls \in [Twins -> Urls \cup {Missing}]
  BY RunFacts DEF RunType
<1>2. endpoints' \in [Twins -> Urls]
  BY <1>1 DEF TypeInv, Given, Over
<1>3. TypeInv'
  BY <1>2 DEF TypeInv
<1>4. ScopeInv' /\ AgentInv'
  BY ScopeKept, AgentsKept
<1>5. ContentInv'
  BY DEF ContentInv, AfterReset
<1> QED
  BY <1>3, <1>4, <1>5

\* The steps from "ensure" to "snapshot" at which environment, endpoints and
\* agents stay as they are.
LEMMA EnsureTwinsIInv == ASSUME IInv, EnsureTwins PROVE IInv'
<1> USE DEF IInv, EnsureTwins, inputs, engine, agents
<1>1. Run \in RunType
  BY RunFacts
<1>2. todo' \in SUBSET Twins /\ pc' \in {"reset", "seed"}
      /\ (job.reset => pc' = "reset" /\ todo' = Twins)
  BY <1>1 DEF RunType, ToReset, ToSeed
<1>3. TypeInv'
  BY <1>2 DEF TypeInv
<1>4. ScopeInv' /\ AgentInv'
  BY ScopeKept, AgentsKept
<1>5. ContentInv'
  BY <1>2 DEF ContentInv, AfterReset
<1> QED
  BY <1>3, <1>4, <1>5

LEMMA ResetTwinIInv == ASSUME IInv, ResetTwin PROVE IInv'
<1> USE DEF IInv, ResetTwin, inputs, engine, agents
<1>1. PICK t \in todo : twins' = [twins EXCEPT ![endpoints[t]] = {}] /\ todo' = todo \ {t}
  OBVIOUS
<1>2. TypeInv'
  BY <1>1 DEF TypeInv
<1>3. ScopeInv' /\ AgentInv'
  BY ScopeKept, AgentsKept
<1>4. ContentInv'
  BY <1>1 DEF ContentInv, AfterReset, TypeInv, Clean
<1> QED
  BY <1>2, <1>3, <1>4

LEMMA AllResetIInv == ASSUME IInv, AllReset PROVE IInv'
<1> USE DEF IInv, AllReset, inputs, engine, agents
<1>1. todo' \in SUBSET Twins
  BY RunFacts DEF RunType, ToSeed
<1>2. TypeInv'
  BY <1>1 DEF TypeInv
<1>3. ScopeInv' /\ AgentInv'
  BY ScopeKept, AgentsKept
<1>4. ContentInv'
  BY DEF ContentInv, AfterReset, Clean
<1> QED
  BY <1>2, <1>3, <1>4

LEMMA SeedTwinIInv == ASSUME IInv, SeedTwin PROVE IInv'
<1> USE DEF IInv, SeedTwin, inputs, engine, agents
<1>1. PICK t \in todo : twins' = [twins EXCEPT ![endpoints[t]] = {k}] /\ todo' = todo \ {t}
  OBVIOUS
<1>2. TypeInv'
  BY <1>1 DEF TypeInv
<1>3. ScopeInv' /\ AgentInv'
  BY ScopeKept, AgentsKept
<1>4. ContentInv'
  BY <1>1 DEF ContentInv, AfterReset, TypeInv, Clean
<1> QED
  BY <1>2, <1>3, <1>4

LEMMA AllSeededIInv == ASSUME IInv, AllSeeded PROVE IInv'
<1> USE DEF IInv, AllSeeded, inputs, agents
<1>1. Over(PluginOverrides, PolicyEnv(Run)) \in Table
  BY RunFacts, OverrideFacts, OverTable
<1>2. /\ osEnviron' \in [EnvVars -> EnvValues] /\ scopes' \in Seq(Table) /\ ScopeInv'
  BY <1>1, OverrideFacts, EnterScopeInv
<1>3. TypeInv'
  BY <1>2 DEF TypeInv
<1>4. AgentInv' /\ ContentInv'
  BY AgentsKept DEF ContentInv, AfterReset, Clean
<1> QED
  BY <1>2, <1>3, <1>4

LEMMA ApplyRuntimeEnvIInv == ASSUME IInv, ApplyRuntimeEnv PROVE IInv'
<1> USE DEF IInv, ApplyRuntimeEnv, inputs, agents
<1>1. /\ osEnviron' \in [EnvVars -> EnvValues] /\ scopes' \in Seq(Table) /\ ScopeInv'
  BY RunFacts, OverrideFacts, EnterScopeInv
<1>2. TypeInv'
  BY <1>1 DEF TypeInv
<1>3. AgentInv' /\ ContentInv'
  BY AgentsKept DEF ContentInv, AfterReset, Clean
<1> QED
  BY <1>1, <1>2, <1>3

-----------------------------------------------------------------------------
(* Attempts. *)

LEMMA StartAttemptIInv == ASSUME IInv, StartAttempt PROVE IInv'
<1> USE DEF IInv, StartAttempt, inputs, engine
<1> DEFINE w == [run |-> k, attempt |-> attempt + 1, urls |-> AgentUrls]
<1>1. AgentUrls \in [Twins -> EnvValues]
  <2>1. osEnviron \in [EnvVars -> EnvValues] /\ endpoints \in [Twins -> Urls]
    BY DEF TypeInv
  <2>2. \A t \in Twins : Over(Run.env, endpoints)[t] \in EnvValues
    <3>1. PICK V \in SUBSET EnvVars : Run.env \in [V -> EnvValues]
      BY RunFacts DEF Table
    <3> QED
      BY <2>1, <3>1, VarFacts DEF Over
  <2> QED
    BY <2>1, <2>2, VarFacts DEF AgentUrls
<1>2. w \in Agent /\ w.run = k /\ w.attempt = attempt + 1
  BY <1>1 DEF Agent, TypeInv
<1> HIDE DEF w
<1>3. working' = working \cup {w}
  BY DEF w
<1>4. TypeInv'
  BY <1>2, <1>3 DEF TypeInv
<1>5. ScopeInv'
  BY ScopeKept
<1>6. AgentInv'
  BY <1>2, <1>3 DEF AgentInv
<1>7. ContentInv'
  BY DEF ContentInv, AfterReset, Clean
<1> QED
  BY <1>4, <1>5, <1>6, <1>7

LEMMA AgentWorksIInv == ASSUME IInv, AgentWorks PROVE IInv'
<1> USE DEF IInv, AgentWorks, inputs, engine, agents
<1>1. PICK w \in working, t \in Twins :
        twins' = [twins EXCEPT ![w.urls[t]] = twins[w.urls[t]] \cup {w.run}]
  OBVIOUS
<1>2. w.run \in Nat /\ Clean({w.run})
  BY DEF TypeInv, AgentInv, Agent, Clean
<1>3. twins' \in [Urls -> SUBSET Nat]
      /\ \A u \in Urls : twins'[u] = twins[u] \/ twins'[u] = twins[u] \cup {w.run}
  BY <1>1, <1>2 DEF TypeInv
<1>4. TypeInv'
  BY <1>3 DEF TypeInv
<1>5. ScopeInv' /\ AgentInv'
  BY ScopeKept DEF AgentInv
<1>6. ContentInv'
  BY <1>2, <1>3 DEF ContentInv, AfterReset, Clean, TypeInv
<1> QED
  BY <1>4, <1>5, <1>6

LEMMA LateAgentEndsIInv == ASSUME IInv, LateAgentEnds PROVE IInv'
<1> USE DEF IInv, LateAgentEnds, inputs, engine
<1>1. working' \subseteq working
  OBVIOUS
<1>2. TypeInv'
  BY <1>1 DEF TypeInv
<1>3. ScopeInv' /\ AgentInv'
  BY <1>1, ScopeKept DEF AgentInv
<1>4. ContentInv'
  BY DEF ContentInv, AfterReset, Clean
<1> QED
  BY <1>2, <1>3, <1>4

\* The attempt ends and its agent too.
LEMMA CurrentEndsIInv ==
  ASSUME IInv, pc = "attempt", working' = working \ Current,
         pc' \in {"executed", "execute", "raised"},
         UNCHANGED <<inputs, engine, todo, attempt, givenUp, twins, snap>>
  PROVE  IInv'
<1> USE DEF IInv, inputs, engine
<1>1. \A w \in working' : w \in working /\ w.run \in givenUp
  BY DEF AgentInv, Current
<1>2. TypeInv'
  BY <1>1 DEF TypeInv
<1>3. ScopeInv' /\ AgentInv'
  BY <1>1, ScopeKept DEF AgentInv
<1>4. ContentInv'
  BY DEF ContentInv, AfterReset, Clean
<1> QED
  BY <1>2, <1>3, <1>4

LEMMA GiveUpIInv == ASSUME IInv, NEW lives \in BOOLEAN, GiveUp(lives) PROVE IInv'
<1> USE DEF GiveUp
<1>1. pc' \in {"execute", "raised"}
  BY DEF AfterError
<1>2. CASE ~lives
  BY <1>1, <1>2, CurrentEndsIInv
<1>3. CASE lives
  <2> USE DEF IInv, inputs, engine
  <2>1. working' = working /\ givenUp' = givenUp \cup {k}
    BY <1>3
  <2>2. TypeInv'
    BY <1>1, <2>1 DEF TypeInv
  <2>3. ScopeInv' /\ AgentInv'
    BY <2>1, ScopeKept DEF AgentInv
  <2>4. ContentInv'
    BY <1>1, <2>1 DEF ContentInv, AfterReset, Clean
  <2> QED
    BY <2>2, <2>3, <2>4
<1> QED
  BY <1>2, <1>3

LEMMA AttemptEndsIInv ==
  ASSUME IInv, AttemptCompletes \/ AttemptRefuses \/ AttemptFails \/ AttemptTimesOut
  PROVE  IInv'
<1>1. CASE AttemptCompletes
  BY <1>1, CurrentEndsIInv DEF AttemptCompletes
<1>2. CASE AttemptRefuses
  BY <1>2, CurrentEndsIInv DEF AttemptRefuses
<1>3. CASE AttemptFails
  BY <1>3, GiveUpIInv DEF AttemptFails
<1>4. CASE AttemptTimesOut
  BY <1>4, GiveUpIInv DEF AttemptTimesOut, OutlivesTimeout
<1> QED
  BY <1>1, <1>2, <1>3, <1>4

-----------------------------------------------------------------------------
(* Snapshots and reports. *)

LEMMA BeginSnapshotIInv == ASSUME IInv, BeginSnapshot PROVE IInv'
<1> USE DEF IInv, BeginSnapshot, inputs, engine, agents
<1>1. TypeInv'
  BY DEF TypeInv
<1>2. ScopeInv' /\ AgentInv'
  BY ScopeKept, AgentsKept
<1>3. ContentInv'
  BY DEF ContentInv, AfterReset, Clean
<1> QED
  BY <1>1, <1>2, <1>3

LEMMA SnapshotTwinIInv == ASSUME IInv, SnapshotTwin PROVE IInv'
<1> USE DEF IInv, SnapshotTwin, inputs, engine, agents
<1>1. PICK t \in todo : snap' = [snap EXCEPT ![t] = twins[endpoints[t]]] /\ todo' = todo \ {t}
  OBVIOUS
<1>2. TypeInv'
  BY <1>1 DEF TypeInv
<1>3. ScopeInv' /\ AgentInv'
  BY ScopeKept, AgentsKept
<1>4. ContentInv'
  BY <1>1 DEF ContentInv, AfterReset, TypeInv, Clean
<1> QED
  BY <1>2, <1>3, <1>4

\* The run is over, or an exception is on its way out.
LEMMA RunOverIInv ==
  ASSUME IInv, pc \notin {"attempt", "next"} \/ (pc = "next" /\ pc' = "end"),
         pc' \in {"next", "end", "raised"}, pc' = "raised" => pc # "end",
         UNCHANGED <<inputs, engine, todo, agents, twins, snap>>
  PROVE  IInv'
<1> USE DEF IInv, inputs, engine, agents
<1>1. TypeInv'
  BY DEF TypeInv
<1>2. ScopeInv' /\ AgentInv'
  BY ScopeKept, AgentsKept
<1>3. ContentInv'
  BY DEF ContentInv, AfterReset
<1> QED
  BY <1>1, <1>2, <1>3

LEMMA ReportIInv ==
  ASSUME IInv, ReportRun \/ Raise \/ ReportFailure \/ EndTier PROVE IInv'
<1>1. CASE ReportRun
  BY <1>1, RunOverIInv DEF ReportRun
<1>2. CASE Raise
  BY <1>2, RunOverIInv DEF Raise
<1>3. CASE ReportFailure
  BY <1>3, RunOverIInv DEF ReportFailure
<1>4. CASE EndTier
  BY <1>4, RunOverIInv DEF EndTier
<1> QED
  BY <1>1, <1>2, <1>3, <1>4

LEMMA NextIInv == IInv /\ [Next]_vars => IInv'
<1> SUFFICES ASSUME IInv, [Next]_vars PROVE IInv'
  OBVIOUS
<1>1. CASE UNCHANGED vars
  BY <1>1 DEF vars, inputs, engine, agents, IInv, TypeInv, ScopeInv, AgentInv,
              ContentInv, Clean
<1>2. CASE EngineStep
  BY <1>2, BeginRunIInv, ValidateIInv, LoadPluginsIInv, LeaveScopeIInv,
     UseEnvironmentIInv, EnsureTwinsIInv, ResetTwinIInv, AllResetIInv, SeedTwinIInv,
     AllSeededIInv, ApplyRuntimeEnvIInv, StartAttemptIInv, BeginSnapshotIInv,
     SnapshotTwinIInv, ReportIInv DEF EngineStep
<1>3. CASE Raise
  BY <1>3, ReportIInv
<1>4. CASE AttemptCompletes \/ AttemptRefuses \/ AttemptFails \/ AttemptTimesOut
  BY <1>4, AttemptEndsIInv
<1>5. CASE AgentWorks \/ LateAgentEnds
  BY <1>5, AgentWorksIInv, LateAgentEndsIInv
<1>6. CASE Ended
  BY <1>1, <1>6 DEF Ended
<1> QED
  BY <1>1, <1>2, <1>3, <1>4, <1>5, <1>6 DEF Next

LEMMA Inductive == FairSpec => []IInv
BY InitIInv, NextIInv, PTL DEF FairSpec

\* However the runs of a tier end, their variables are given back: whenever no
\* scope is open, the process has the environment that the shell exported
\* (scoped_env in env.py).
THEOREM EnvironmentIsRestored == FairSpec => []ScopesRestored
<1>1. IInv => ScopesRestored
  <2> SUFFICES ASSUME IInv, scopes = <<>> PROVE osEnviron = job.exported
    BY DEF ScopesRestored
  <2>1. osEnviron \in [EnvVars -> EnvValues] /\ job.exported \in [EnvVars -> EnvValues]
    BY DEF IInv, TypeInv, JobType
  <2>2. \A v \in EnvVars : osEnviron[v] = job.exported[v]
    BY EmptySeq, SMT DEF IInv, ScopeInv, Remembers, Untouched
  <2> QED
    BY <2>1, <2>2
<1> QED
  BY <1>1, Inductive, PTL

\* A run that is reset is judged by its own work, and by that of runs with an
\* agent that was given up while it went on.
THEOREM JudgedByOwnEffects == FairSpec => []OwnEffectsOnly
<1>1. IInv => OwnEffectsOnly
  BY DEF IInv, ContentInv, OwnEffectsOnly, Clean
<1> QED
  BY <1>1, Inductive, PTL

-----------------------------------------------------------------------------
(* Reports. *)

\* Every run that is over has its report, and no other run has one.
ReportInv ==
  /\ reports \in Seq({"passed", "rejected", "failed"})
  /\ pc = "next" => Len(reports) = k /\ k <= Len(job.tier)
  /\ pc \notin {"next", "end"} => Len(reports) = k - 1
  /\ pc = "end" => AllReported

LEMMA InitReportInv == Init => ReportInv
<1> SUFFICES ASSUME Init PROVE ReportInv
  OBVIOUS
<1>1. job.tier \in Seq(RunType)
  BY JobsAssumption DEF Init, JobType
<1> QED
  BY <1>1, EmptySeq, LenProperties, SMT DEF Init, ReportInv

\* Steps within a run.
LEMMA WithinRun ==
  ASSUME ReportInv, pc \notin {"next", "end"}, pc' \notin {"next", "end"},
         UNCHANGED <<inputs, reports>>
  PROVE  ReportInv'
BY DEF ReportInv, inputs

LEMMA ReportStep == IInv /\ ReportInv /\ [Next]_vars => ReportInv'
<1> SUFFICES ASSUME IInv, ReportInv, [Next]_vars PROVE ReportInv'
  OBVIOUS
<1> DEFINE Outcome == {"passed", "rejected", "failed"}
<1>1. job.tier \in Seq(RunType) /\ k \in Nat /\ Len(job.tier) \in Nat
  BY LenProperties DEF IInv, TypeInv, JobType
<1>2. CASE UNCHANGED <<job, k, pc, reports>>
  BY <1>2 DEF ReportInv, AllReported
<1>3. CASE BeginRun
  BY <1>1, <1>3, SMT DEF BeginRun, ReportInv
<1>4. CASE Validate \/ LoadPlugins \/ UseEnvironment \/ EnsureTwins \/ AllReset
           \/ AllSeeded \/ ApplyRuntimeEnv \/ StartAttempt \/ BeginSnapshot
  BY <1>4, WithinRun DEF Validate, LoadPlugins, UseEnvironment, EnsureTwins, AllReset,
     AllSeeded, ApplyRuntimeEnv, StartAttempt, BeginSnapshot
<1>5. CASE LeaveScope \/ ResetTwin \/ SeedTwin \/ SnapshotTwin \/ AgentWorks \/ LateAgentEnds
  BY <1>2, <1>5 DEF LeaveScope, ResetTwin, SeedTwin, SnapshotTwin, AgentWorks,
     LateAgentEnds, inputs
<1>6. CASE AttemptCompletes \/ AttemptRefuses \/ AttemptFails \/ AttemptTimesOut \/ Raise
  BY <1>6, WithinRun DEF AttemptCompletes, AttemptRefuses, AttemptFails, AttemptTimesOut,
     GiveUp, AfterError, Raise
<1>7. ASSUME NEW r \in Outcome
      PROVE  /\ Append(reports, r) \in Seq(Outcome)
             /\ Append(reports, r) # <<>>
             /\ Len(Append(reports, r)) = Len(reports) + 1
             /\ Append(reports, r)[Len(reports) + 1] = r
  BY <1>7, SMT DEF ReportInv
<1>8. CASE ReportRun
  <2>1. pc \notin {"next", "end"} /\ pc' = "next" /\ UNCHANGED <<job, k>>
    BY <1>8 DEF ReportRun, inputs
  <2>2. PICK r \in Outcome : reports' = Append(reports, r)
    BY <1>8 DEF ReportRun
  <2>3. k \in 1..Len(job.tier)
    BY <2>1 DEF IInv, TypeInv
  <2> QED
    BY <1>1, <1>7, <2>1, <2>2, <2>3, SMT DEF ReportInv
<1>9. CASE ReportFailure
  <2>1. /\ pc = "raised" /\ pc' = IF job.stopOnFailure THEN "end" ELSE "next"
        /\ reports' = Append(reports, "failed") /\ UNCHANGED <<job, k>>
    BY <1>9 DEF ReportFailure, inputs
  <2>2. k \in 1..Len(job.tier)
    BY <2>1 DEF IInv, TypeInv
  <2>3. /\ reports' \in Seq(Outcome) /\ reports' # <<>> /\ Len(reports') = k
        /\ reports'[Len(reports')] = "failed"
    BY <1>1, <1>7, <2>1, SMT DEF ReportInv
  <2>4. job.stopOnFailure => AllReported'
    BY <2>1, <2>3 DEF AllReported
  <2> QED
    BY <1>1, <2>1, <2>2, <2>3, <2>4, SMT DEF ReportInv
<1>10. CASE EndTier
  BY <1>10 DEF EndTier, ReportInv, AllReported, inputs
<1>11. CASE UNCHANGED vars \/ Ended
  BY <1>2, <1>11 DEF Ended, vars, inputs
<1> QED
  BY <1>3, <1>4, <1>5, <1>6, <1>8, <1>9, <1>10, <1>11 DEF Next, EngineStep

\* A tier that has come to its end has reported every one of its runs, or was
\* told to stop at a failure and has reported that (execute-tier in cli.py).
THEOREM EndIsReported == FairSpec => [](pc = "end" => AllReported)
<1>1. ReportInv => (pc = "end" => AllReported)
  BY DEF ReportInv
<1>2. FairSpec => []ReportInv
  BY InitReportInv, ReportStep, Inductive, PTL DEF FairSpec
<1> QED
  BY <1>1, <1>2, PTL
=============================================================================
