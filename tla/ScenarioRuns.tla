---------------------------- MODULE ScenarioRuns ----------------------------
(***************************************************************************)
(* Scenario runs of one twin server (twins/crates/twin-server-core):       *)
(* applying, replaying and verifying scenarios, fault injection, the run   *)
(* store on disk, and the server's crashes and restarts.                   *)
(*                                                                         *)
(* The state is behind three mutexes: the runtime, the scenario runtime    *)
(* and the run store.  As in Sessions an action is one critical section    *)
(* of one request; the three file operations of persist_run are sections   *)
(* of their own, because a crash can come between them.                    *)
(*                                                                         *)
(* The service is the sequence of what was applied to it.  The hash of a   *)
(* snapshot is the snapshot itself.                                        *)
(***************************************************************************)
EXTENDS TwinKernel, FiniteSets

CONSTANTS
  Req,           \* requests that clients may send, each at most once
  MaxInFlight,   \* how many may be in progress together (1: one client)
  Scenarios,     \* scenario documents
  RefusedActions,\* actions that the twin refuses
  Fires,         \* <<seed, decision>> pairs whose pseudo-random draw fires
  StartConfig,   \* the TwinConfig the server is started with
  MaxCrashes,    \* bound: crashes of the server
  TornWrites,    \* may a crash or a full disk leave a file cut short?
  MayDisconnect, \* may a client give up while its request is in progress?
  Torn,          \* a file that does not parse
  Nil            \* a field that is not filled in, or nothing

ASSUME BoundsAssumption ==
  /\ MaxInFlight \in Nat \ {0} /\ MaxCrashes \in Nat
  /\ TornWrites \in BOOLEAN /\ MayDisconnect \in BOOLEAN
  /\ IsFiniteSet(Req)

\* Every request runs at most one scenario.
RunNumbers == 1..Cardinality(Req)

\* Nil and Torn are told from the values whose place they take.
ASSUME NilAssumption ==
  /\ Nil \notin Nat \cup BOOLEAN
  /\ \A index \in SUBSET RunNumbers : Torn # index

ASSUME ServiceAssumption == ServiceDefault = <<>>

\* A scenario has at most one fault rule: the actions it is for, its effect.
ASSUME ScenarioAssumption ==
  \A sc \in Scenarios :
    /\ sc = [name |-> sc.name, config |-> sc.config, seeds |-> sc.seeds,
             timeline |-> sc.timeline, rule |-> sc.rule]
    /\ sc.config \in [seed : Nat, start : Nat] /\ sc.seeds \in BOOLEAN
    /\ sc.timeline \in Seq(STRING)
    /\ sc.rule = Nil \/ sc.rule.effect \in {"latency", "http_error"}

VARIABLES
  runtime,   \* TwinRuntime
  scenario,  \* ScenarioRuntime: rule, decisionIndex, nextRunId, runs
  disk,      \* the run directory: artifacts by run number, and the index
  crashes,   \* how often the server has crashed
  pc,        \* the critical section each request enters next
  call       \* what each request carries between its sections

vars == <<runtime, scenario, disk, crashes, pc, call>>

-----------------------------------------------------------------------------
(* Requests. *)

NewCall(op) ==
  [op |-> op, document |-> Nil, run |-> Nil, drawSeed |-> Nil, hit |-> Nil,
   status |-> "ok", outcomes |-> <<>>, hits |-> <<>>, failed |-> FALSE,
   artifact |-> Nil, ids |-> Nil, baseline |-> Nil, verdict |-> Nil]

InFlight == {r \in Req : pc[r] \notin {"idle", "done", "gone"}}

Arrive(r) == pc[r] = "idle" /\ Cardinality(InFlight) < MaxInFlight

Goto(r, label) == pc' = [pc EXCEPT ![r] = label]

\* Mutant: nobody waits for the run store.
RunStoreUnguarded(r) == TRUE

\* persist_run runs with the run store's mutex held.
RunStoreFree(r) ==
  \A q \in Req \ {r} : pc[q] \notin {"read_index", "write_index"}

-----------------------------------------------------------------------------
(* The run directory. *)

\* An index that does not parse counts as an empty one.
ReadIndex == IF disk.index = Torn THEN {} ELSE disk.index

\* Runs whose artifact can be loaded.
Loadable == {n \in DOMAIN disk.artifacts : disk.artifacts[n] # Torn}

WithArtifact(n, artifact) ==
  [disk EXCEPT !.artifacts =
     [m \in DOMAIN @ \cup {n} |-> IF m = n THEN artifact ELSE @[m]]]

\* Mutant: runs are numbered from the length of the index.
NextRunIdCounts(index) == Cardinality(index)

\* next_run_id: the greatest run number of the index.
NextRunId(index) ==
  IF index = {} THEN 0 ELSE CHOOSE n \in index : \A m \in index : m <= n

FreshScenarioRuntime ==
  [rule |-> Nil, decisionIndex |-> 0, nextRunId |-> NextRunId(ReadIndex),
   runs |-> [n \in {} |-> Nil]]

Init ==
  /\ runtime = NewRuntime(StartConfig)
  /\ disk = [artifacts |-> [n \in {} |-> Nil], index |-> {}]
  /\ scenario = FreshScenarioRuntime
  /\ crashes = 0
  /\ pc = [r \in Req |-> "idle"]
  /\ call = [r \in Req |-> NewCall(Nil)]

-----------------------------------------------------------------------------
(* What a scenario run starts from. *)

\* apply and apply-file
Apply(r) ==
  /\ Arrive(r)
  /\ \E sc \in Scenarios :
       call' = [call EXCEPT ![r] = [NewCall("apply") EXCEPT !.document = sc]]
  /\ Goto(r, "allocate")
  /\ UNCHANGED <<runtime, scenario, disk, crashes>>

StartReplay(r, document) ==
  call' = [call EXCEPT ![r] = [NewCall("replay") EXCEPT !.document = document]]

\* The scenario of a run in memory, or else of one on disk.
Replay(r) ==
  /\ Arrive(r)
  /\ \/ \E n \in DOMAIN scenario.runs :
          StartReplay(r, scenario.runs[n].document)
     \/ /\ RunStoreFree(r)
        /\ \E n \in Loadable \ DOMAIN scenario.runs :
             StartReplay(r, disk.artifacts[n].document)
  /\ Goto(r, "allocate")
  /\ UNCHANGED <<runtime, scenario, disk, crashes>>

\* verify-replay loads its baseline from disk.
VerifyReplay(r) ==
  /\ Arrive(r) /\ RunStoreFree(r)
  /\ \E n \in Loadable :
       call' = [call EXCEPT ![r] =
                  [NewCall("verify") EXCEPT
                     !.document = disk.artifacts[n].document,
                     !.baseline = disk.artifacts[n]]]
  /\ Goto(r, "allocate")
  /\ UNCHANGED <<runtime, scenario, disk, crashes>>

-----------------------------------------------------------------------------
(* run_scenario, section by section. *)

Document(r) == call[r].document

\* The action of the timeline that comes next.
NextAction(r) == Document(r).timeline[Len(call[r].outcomes) + 1]

AllocateRunId(r) ==
  /\ pc[r] = "allocate"
  /\ scenario' = [scenario EXCEPT !.nextRunId = @ + 1]
  /\ call' = [call EXCEPT ![r].run = scenario'.nextRunId]
  /\ Goto(r, "initialise")
  /\ UNCHANGED <<runtime, disk, crashes>>

\* Reset and seed; a seed that is refused ends the run, which is still kept.
Initialise(r) ==
  LET cleared == ResetRuntime(runtime, Document(r).config) IN
  /\ pc[r] = "initialise"
  /\ \/ /\ Document(r).seeds
        /\ runtime' = [cleared EXCEPT !.service = Append(@, "seed")]
        /\ Goto(r, "install_faults")
        /\ UNCHANGED call
     \/ /\ ~Document(r).seeds
        /\ runtime' = cleared
        /\ call' = [call EXCEPT ![r].status = "error"]
        /\ Goto(r, "finalise")
  /\ UNCHANGED <<scenario, disk, crashes>>

GotoNextAction(r, outcomes) ==
  Goto(r, IF Len(outcomes) < Len(Document(r).timeline)
          THEN "read_seed" ELSE "check")

\* Mutant: the decisions go on being counted from the run before.
InstallFaultsKeepsIndex(r) ==
  /\ pc[r] = "install_faults"
  /\ scenario' = [scenario EXCEPT !.rule = Document(r).rule]
  /\ GotoNextAction(r, <<>>)
  /\ UNCHANGED <<runtime, disk, crashes, call>>

\* Mutant: a scenario without faults leaves those of the run before.
InstallFaultsIfAny(r) ==
  /\ pc[r] = "install_faults"
  /\ scenario' = [scenario EXCEPT
                    !.rule = IF Document(r).rule = Nil THEN @ ELSE Document(r).rule,
                    !.decisionIndex = 0]
  /\ GotoNextAction(r, <<>>)
  /\ UNCHANGED <<runtime, disk, crashes, call>>

InstallFaults(r) ==
  /\ pc[r] = "install_faults"
  /\ scenario' = [scenario EXCEPT !.rule = Document(r).rule,
                                  !.decisionIndex = 0]
  /\ GotoNextAction(r, <<>>)
  /\ UNCHANGED <<runtime, disk, crashes, call>>

\* evaluate_fault, first section: the seed that the runtime has by now.
ReadSeed(r) ==
  /\ pc[r] = "read_seed"
  /\ call' = [call EXCEPT ![r].drawSeed = runtime.kernel.config.seed]
  /\ Goto(r, "draw")
  /\ UNCHANGED <<runtime, scenario, disk, crashes>>

\* evaluate_fault, second section: the rule that is installed by now.
Draw(r) ==
  LET decision == scenario.decisionIndex + 1
      fires == /\ scenario.rule # Nil
               /\ NextAction(r) \in scenario.rule.actions
               /\ <<call[r].drawSeed, decision>> \in Fires IN
  /\ pc[r] = "draw"
  /\ scenario' = [scenario EXCEPT !.decisionIndex = decision]
  /\ call' = [call EXCEPT ![r].hit = IF fires THEN scenario.rule ELSE Nil]
  /\ Goto(r, IF fires /\ scenario.rule.effect = "http_error"
             THEN "fail_action" ELSE "execute")
  /\ UNCHANGED <<runtime, disk, crashes>>

\* How the run's own record goes on after an action.
Outcome(r, outcome) ==
  [call[r] EXCEPT !.outcomes = Append(@, outcome),
                  !.hits = IF call[r].hit = Nil THEN @ ELSE Append(@, call[r].hit),
                  !.hit = Nil,
                  !.status = IF outcome = "ok" THEN @ ELSE "error"]

Event(r, outcome) ==
  [action |-> NextAction(r), outcome |-> outcome, fault |-> call[r].hit]

\* An injected HTTP error: the action is not executed and the run ends.
FailAction(r) ==
  /\ pc[r] = "fail_action"
  /\ runtime' = [runtime EXCEPT !.kernel =
                                  RecordEvent(@, Event(r, "fault_http_error"))]
  /\ call' = [call EXCEPT ![r] = Outcome(r, "fault_http_error")]
  /\ Goto(r, "finalise")
  /\ UNCHANGED <<scenario, disk, crashes>>

\* The twin executes the action, or refuses it, which ends the run.
ExecuteAction(r) ==
  LET outcome == IF NextAction(r) \in RefusedActions THEN "error" ELSE "ok" IN
  /\ pc[r] = "execute"
  /\ runtime' = [kernel  |-> RecordEvent(runtime.kernel, Event(r, outcome)),
                 service |-> IF outcome = "ok"
                             THEN Append(runtime.service, NextAction(r))
                             ELSE runtime.service]
  /\ call' = [call EXCEPT ![r] = Outcome(r, outcome)]
  /\ IF outcome = "ok" THEN GotoNextAction(r, call'[r].outcomes)
                       ELSE Goto(r, "finalise")
  /\ UNCHANGED <<scenario, disk, crashes>>

\* The assertions look at the whole service: does it hold what the scenario
\* put there, and nothing else?
CheckAssertions(r) ==
  LET failed == runtime.service # <<"seed">> \o Document(r).timeline IN
  /\ pc[r] = "check"
  /\ call' = [call EXCEPT ![r].failed = failed,
                          ![r].status = IF failed THEN "assertion_failed" ELSE @]
  /\ Goto(r, "finalise")
  /\ UNCHANGED <<runtime, scenario, disk, crashes>>

\* The four keys that a finished run writes into the kernel's metadata.
WithRunMetadata(k, r) ==
  LET faults == IF Document(r).rule = Nil THEN 0 ELSE 1 IN
  SetMetadata(SetMetadata(SetMetadata(SetMetadata(k,
    "scenario_name", Document(r).name),
    "scenario_faults", faults),
    "scenario_assertions", 1),
    "scenario_assertion_failures", IF call[r].failed THEN 1 ELSE 0)

Finalise(r) ==
  /\ pc[r] = "finalise"
  /\ runtime' = [runtime EXCEPT !.kernel = WithRunMetadata(@, r)]
  /\ call' = [call EXCEPT ![r].artifact =
       [document |-> Document(r),
        report   |-> [run      |-> call[r].run,
                      status   |-> call[r].status,
                      outcomes |-> call[r].outcomes,
                      hits     |-> call[r].hits,
                      failed   |-> call[r].failed,
                      hash     |-> FullSnapshot(runtime')],
        events   |-> runtime.kernel.events,
        snapshot |-> FullSnapshot(runtime')]]
  /\ Goto(r, "keep")
  /\ UNCHANGED <<scenario, disk, crashes>>

\* Report and document are kept in memory before they are on disk.
Keep(r) ==
  /\ pc[r] = "keep"
  /\ scenario' = [scenario EXCEPT !.runs =
       [n \in DOMAIN @ \cup {call[r].run} |->
          IF n = call[r].run
          THEN [document |-> Document(r), report |-> call[r].artifact.report]
          ELSE @[n]]]
  /\ Goto(r, "write_artifact")
  /\ UNCHANGED <<runtime, disk, crashes, call>>

-----------------------------------------------------------------------------
(* persist_run *)

WriteArtifact(r) ==
  /\ pc[r] = "write_artifact" /\ RunStoreFree(r)
  /\ disk' = WithArtifact(call[r].run, call[r].artifact)
  /\ Goto(r, "read_index")
  /\ UNCHANGED <<runtime, scenario, crashes, call>>

ReadTheIndex(r) ==
  /\ pc[r] = "read_index"
  /\ call' = [call EXCEPT ![r].ids = ReadIndex]
  /\ Goto(r, "write_index")
  /\ UNCHANGED <<runtime, scenario, disk, crashes>>

\* A verify-replay whose run ended in an error answers with that error.
WriteIndex(r) ==
  /\ pc[r] = "write_index"
  /\ disk' = IF call[r].run \in call[r].ids THEN disk
             ELSE [disk EXCEPT !.index = call[r].ids \cup {call[r].run}]
  /\ Goto(r, IF call[r].op = "verify" /\ call[r].status = "ok"
             THEN "load_replay" ELSE "done")
  /\ UNCHANGED <<runtime, scenario, crashes, call>>

\* What a write of r that is cut short can leave behind.
CutShort(r) ==
  {disk} \cup
  CASE TornWrites /\ pc[r] = "write_artifact" -> {WithArtifact(call[r].run, Torn)}
    [] TornWrites /\ pc[r] = "write_index"    -> {[disk EXCEPT !.index = Torn]}
    [] OTHER                                  -> {}

\* A write that fails is answered with status 500.
WriteFails(r) ==
  /\ pc[r] \in {"write_artifact", "write_index"} /\ RunStoreFree(r)
  /\ disk' \in CutShort(r)
  /\ call' = [call EXCEPT ![r].status = "lost"]
  /\ Goto(r, "done")
  /\ UNCHANGED <<runtime, scenario, crashes>>

-----------------------------------------------------------------------------
(* Verdicts and bundles. *)

\* is_deterministic_match: what verify-replay compares.
DeterministicMatch(a, b) ==
  /\ a.report.status = b.report.status
  /\ a.report.hash = b.report.hash
  /\ Len(a.events) = Len(b.events)
  /\ a.report.failed = b.report.failed
  /\ a.report.outcomes = b.report.outcomes
  /\ Len(a.report.hits) = Len(b.report.hits)

\* The replay is loaded back from disk before it is compared.
Compare(r) ==
  /\ pc[r] = "load_replay" /\ RunStoreFree(r)
  /\ IF call[r].run \in Loadable
     THEN call' = [call EXCEPT ![r].verdict =
            DeterministicMatch(call[r].baseline, disk.artifacts[call[r].run])]
     ELSE UNCHANGED call
  /\ Goto(r, "done")
  /\ UNCHANGED <<runtime, scenario, disk, crashes>>

\* The bundle of a run in memory: report and document are the run's ...
BundleFromMemory(r) ==
  /\ Arrive(r)
  /\ \E n \in DOMAIN scenario.runs :
       call' = [call EXCEPT ![r] = [NewCall("bundle") EXCEPT
                                      !.artifact = scenario.runs[n]]]
  /\ Goto(r, "bundle_state")
  /\ UNCHANGED <<runtime, scenario, disk, crashes>>

\* ... events and snapshot are whatever the runtime holds now.
BundleState(r) ==
  /\ pc[r] = "bundle_state"
  /\ call' = [call EXCEPT ![r].artifact =
       [document |-> @.document, report |-> @.report,
        events |-> runtime.kernel.events, snapshot |-> FullSnapshot(runtime)]]
  /\ Goto(r, "done")
  /\ UNCHANGED <<runtime, scenario, disk, crashes>>

\* The bundle of a run of an earlier server process is its artifact.
BundleFromDisk(r) ==
  /\ Arrive(r) /\ RunStoreFree(r)
  /\ \E n \in Loadable \ DOMAIN scenario.runs :
       call' = [call EXCEPT ![r] = [NewCall("bundle") EXCEPT
                                      !.artifact = disk.artifacts[n]]]
  /\ Goto(r, "done")
  /\ UNCHANGED <<runtime, scenario, disk, crashes>>

-----------------------------------------------------------------------------
(* Reads. *)

\* The report of a run: from memory, or else from disk.
GetRun(n) ==
  IF n \in DOMAIN scenario.runs THEN scenario.runs[n].report
  ELSE IF n \in Loadable THEN disk.artifacts[n].report
  ELSE Nil

\* What is listed in the index and can be loaded, and every run in memory.
ListRuns ==
  [n \in (ReadIndex \cap Loadable) \cup DOMAIN scenario.runs |-> GetRun(n)]

-----------------------------------------------------------------------------
(* Other requests that reach the same state. *)

\* A data-plane request that changes the service, then its event.
HandleRequest(r) ==
  /\ Arrive(r)
  /\ runtime' = [runtime EXCEPT !.service = Append(@, "data")]
  /\ call' = [call EXCEPT ![r] = NewCall("data")]
  /\ Goto(r, "record")
  /\ UNCHANGED <<scenario, disk, crashes>>

RecordRequest(r) ==
  /\ pc[r] = "record"
  /\ runtime' = [runtime EXCEPT !.kernel =
       RecordEvent(@, [action |-> "data", outcome |-> "ok", fault |-> Nil])]
  /\ Goto(r, "done")
  /\ UNCHANGED <<scenario, disk, crashes, call>>

Cleared(config) ==
  ResetRuntime([runtime EXCEPT !.kernel = ClearActiveSession(@)], config)

\* /control/reset, with the configuration the server was started with
Reset(r) ==
  /\ Arrive(r)
  /\ runtime' = Cleared(StartConfig)
  /\ call' = [call EXCEPT ![r] = NewCall("reset")]
  /\ Goto(r, "clear_faults")
  /\ UNCHANGED <<scenario, disk, crashes>>

\* /control/seed; when the twin refuses the seed the fault rules stay.
Seed(r) ==
  /\ Arrive(r)
  /\ LET cleared == Cleared([seed |-> 0, start |-> 0]) IN
     \/ /\ runtime' = [cleared EXCEPT !.service = Append(@, "seed")]
        /\ Goto(r, "clear_faults")
     \/ runtime' = cleared /\ Goto(r, "done")
  /\ call' = [call EXCEPT ![r] = NewCall("seed")]
  /\ UNCHANGED <<scenario, disk, crashes>>

ClearFaults(r) ==
  /\ pc[r] = "clear_faults"
  /\ scenario' = [scenario EXCEPT !.rule = Nil, !.decisionIndex = 0]
  /\ Goto(r, "done")
  /\ UNCHANGED <<runtime, disk, crashes, call>>

\* /control/restore of a snapshot that came with some run's artifact.
RestoreSnapshot(r) ==
  /\ Arrive(r)
  /\ \E n \in Loadable :
       runtime' = FullRestore(runtime, disk.artifacts[n].snapshot, TRUE)
  /\ call' = [call EXCEPT ![r] = NewCall("restore")]
  /\ Goto(r, "done")
  /\ UNCHANGED <<scenario, disk, crashes>>

\* The client is gone: the handler is dropped at the await it is suspended
\* at.  There is none between the file operations of persist_run.
Disconnect(r) ==
  /\ MayDisconnect
  /\ r \in InFlight /\ pc[r] \notin {"read_index", "write_index"}
  /\ Goto(r, "gone")
  /\ UNCHANGED <<runtime, scenario, disk, crashes, call>>

\* The process dies, at any point of any request, and is started again with
\* the same run directory.
CrashAndRestart ==
  /\ crashes < MaxCrashes
  /\ crashes' = crashes + 1
  /\ \/ UNCHANGED disk
     \/ \E r \in Req : RunStoreFree(r) /\ disk' \in CutShort(r)
  /\ runtime' = NewRuntime(StartConfig)
  /\ scenario' = FreshScenarioRuntime'
  /\ pc' = [r \in Req |-> IF r \in InFlight THEN "gone" ELSE pc[r]]
  /\ UNCHANGED call

-----------------------------------------------------------------------------
(* The specification. *)

Begin(r) ==
  \/ Apply(r) \/ Replay(r) \/ VerifyReplay(r)
  \/ BundleFromMemory(r) \/ BundleFromDisk(r)
  \/ HandleRequest(r) \/ Reset(r) \/ Seed(r) \/ RestoreSnapshot(r)

Continue(r) ==
  \/ AllocateRunId(r) \/ Initialise(r) \/ InstallFaults(r)
  \/ ReadSeed(r) \/ Draw(r) \/ FailAction(r) \/ ExecuteAction(r)
  \/ CheckAssertions(r) \/ Finalise(r) \/ Keep(r)
  \/ WriteArtifact(r) \/ ReadTheIndex(r) \/ WriteIndex(r) \/ WriteFails(r)
  \/ Compare(r) \/ BundleState(r)
  \/ RecordRequest(r) \/ ClearFaults(r)

AllAnswered == (\A r \in Req : pc[r] \in {"done", "gone"}) /\ UNCHANGED vars

Next ==
  \/ \E r \in Req : Begin(r) \/ Continue(r) \/ Disconnect(r)
  \/ CrashAndRestart
  \/ AllAnswered

Spec == Init /\ [][Next]_vars

-----------------------------------------------------------------------------
(* Properties. *)

\* Requests that ran a scenario and were answered after it was persisted.
AnsweredRuns ==
  {r \in Req : /\ call[r].op \in {"apply", "replay", "verify"}
               /\ pc[r] = "done" /\ call[r].status # "lost"}

\* The shape of the state: every run that is kept or listed has a number that
\* was given out, and every kept artifact belongs to its number.
TypeOK ==
  /\ runtime = [kernel |-> runtime.kernel, service |-> runtime.service]
  /\ runtime.kernel.nextSequence = Len(runtime.kernel.events) + 1
  /\ scenario.decisionIndex \in Nat
  /\ scenario.nextRunId \in Nat
  /\ DOMAIN scenario.runs \subseteq RunNumbers
  /\ disk.index = Torn \/ disk.index \subseteq RunNumbers
  /\ DOMAIN disk.artifacts \subseteq RunNumbers
  /\ \A n \in Loadable : disk.artifacts[n].report.run = n
  /\ crashes \in 0..MaxCrashes
  /\ Cardinality(InFlight) <= MaxInFlight

\* A run that a client got an answer for can be retrieved ever after, with
\* the report of that answer, whether from memory or from disk: no later run,
\* in this server process or in one started after a crash, gets its number and
\* overwrites it.
AnsweredRunsKept ==
  \A r \in AnsweredRuns :
    /\ call[r].run \in DOMAIN disk.artifacts
    /\ disk.artifacts[call[r].run] = call[r].artifact
    /\ GetRun(call[r].run) = call[r].artifact.report

\* ... and it is listed, with that report: concurrent persists do not lose each
\* other's entries, so the list does not get shorter when the server restarts.
AnsweredRunsListed ==
  \A r \in AnsweredRuns :
    /\ call[r].run \in ReadIndex
    /\ call[r].run \in DOMAIN ListRuns
    /\ ListRuns[call[r].run] = call[r].artifact.report

\* The verdicts of verify-replay are never negative.
ReplaysMatch == \A r \in Req : call[r].verdict # FALSE

\* The faults that a run reports are of its own scenario.
OwnFaultsOnly ==
  \A r \in Req : call[r].artifact # Nil =>
    \A i \in DOMAIN call[r].artifact.report.hits :
      call[r].artifact.report.hits[i] = call[r].artifact.document.rule

\* A bundle is what its run left: the hash it reports is that of its snapshot.
BundlesFaithful ==
  \A r \in Req : call[r].op = "bundle" /\ pc[r] = "done" =>
    call[r].artifact.report.hash = call[r].artifact.snapshot
=============================================================================
