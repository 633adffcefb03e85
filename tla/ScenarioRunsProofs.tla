-------------------------- MODULE ScenarioRunsProofs --------------------------
(***************************************************************************)
(* Proofs about ScenarioRuns: what a client got an answer for is kept and  *)
(* listed under every interleaving and across crashes, and a server whose  *)
(* clients take turns runs a scenario the same way every time.             *)
(***************************************************************************)
EXTENDS ScenarioRuns, OrderLemmas, SequenceTheorems

IsCall(c) ==
  c = [op |-> c.op, document |-> c.document, run |-> c.run, drawSeed |-> c.drawSeed,
       hit |-> c.hit, status |-> c.status, outcomes |-> c.outcomes, hits |-> c.hits,
       failed |-> c.failed, artifact |-> c.artifact, ids |-> c.ids,
       baseline |-> c.baseline, verdict |-> c.verdict]

IsKernel(k) ==
  k = [config |-> k.config, revision |-> k.revision, metadata |-> k.metadata,
       events |-> k.events, nextSequence |-> k.nextSequence,
       activeSession |-> k.activeSession]

IsRuntime(rt) == rt = [kernel |-> rt.kernel, service |-> rt.service] /\ IsKernel(rt.kernel)

\* Every variable has its fields, every request its program counter and call.
Shape ==
  /\ IsRuntime(runtime)
  /\ scenario = [rule |-> scenario.rule, decisionIndex |-> scenario.decisionIndex,
                 nextRunId |-> scenario.nextRunId, runs |-> scenario.runs]
  /\ disk = [artifacts |-> disk.artifacts, index |-> disk.index]
  /\ pc = [r \in Req |-> pc[r]] /\ call = [r \in Req |-> call[r]]
  /\ \A r \in Req : IsCall(call[r])

\* A step of r is nobody else's.
Others(r) == \A q \in Req \ {r} : pc'[q] = pc[q] /\ call'[q] = call[q]

-----------------------------------------------------------------------------
(* The records keep their fields. *)

LEMMA NewCallIs ==
  ASSUME NEW op
  PROVE  /\ IsCall(NewCall(op))
         /\ NewCall(op).op = op /\ NewCall(op).run = Nil /\ NewCall(op).status = "ok"
         /\ NewCall(op).outcomes = <<>> /\ NewCall(op).hits = <<>>
         /\ NewCall(op).hit = Nil /\ NewCall(op).failed = FALSE
         /\ NewCall(op).document = Nil /\ NewCall(op).artifact = Nil
         /\ NewCall(op).baseline = Nil /\ NewCall(op).verdict = Nil
BY DEF NewCall, IsCall

\* What the operations of the kernel leave.
LEMMA FreshKernelFields ==
  ASSUME NEW k, NEW config
  PROVE  /\ IsKernel(NewKernel(config)) /\ NewKernel(config).events = <<>>
         /\ NewKernel(config).nextSequence = 1
         /\ IsKernel(ResetKernel(k, config)) /\ ResetKernel(k, config).events = <<>>
         /\ ResetKernel(k, config).nextSequence = 1
         /\ ResetKernel(k, config).config = config
         /\ ResetKernel(k, config).revision = 0 /\ ResetKernel(k, config).metadata = {}
BY DEF IsKernel, NewKernel, ResetKernel

LEMMA KeptKernelFields ==
  ASSUME NEW k, IsKernel(k), NEW snapshot
  PROVE  /\ IsKernel(ClearActiveSession(k))
         /\ IsKernel(RestoreKernel(k, snapshot))
         /\ RestoreKernel(k, snapshot).events = k.events
         /\ RestoreKernel(k, snapshot).nextSequence = k.nextSequence
<1>1. IsKernel(ClearActiveSession(k))
  <2>1. ClearActiveSession(k) =
          [config |-> k.config, revision |-> k.revision, metadata |-> k.metadata,
           events |-> k.events, nextSequence |-> k.nextSequence,
           activeSession |-> NoSession]
    BY DEF IsKernel, ClearActiveSession
  <2> QED
    BY <2>1 DEF IsKernel
<1> DEFINE revision == snapshot.revision
           metadata == snapshot.metadata
<1>2. RestoreKernel(k, snapshot) =
        [k EXCEPT !.revision = revision, !.metadata = metadata]
  BY DEF RestoreKernel
<1> HIDE DEF revision, metadata
<1>3. RestoreKernel(k, snapshot) =
        [config |-> k.config, revision |-> revision, metadata |-> metadata,
         events |-> k.events, nextSequence |-> k.nextSequence,
         activeSession |-> k.activeSession]
  BY <1>2 DEF IsKernel
<1> QED
  BY <1>1, <1>3 DEF IsKernel

LEMMA RecordFields ==
  ASSUME NEW k, IsKernel(k), NEW body
  PROVE  /\ IsKernel(RecordEvent(k, body))
         /\ \E e : RecordEvent(k, body).events = Append(k.events, e)
         /\ RecordEvent(k, body).nextSequence = k.nextSequence + 1
         /\ RecordEvent(k, body).config = k.config
         /\ RecordEvent(k, body).revision = k.revision
         /\ RecordEvent(k, body).metadata = k.metadata
<1> DEFINE e == [sequence |-> k.nextSequence, logicalTime |-> k.config.start + k.revision,
                 session |-> k.activeSession, body |-> body]
           log == Append(k.events, e)
<1>1. RecordEvent(k, body) = [k EXCEPT !.events = log, !.nextSequence = k.nextSequence + 1]
  BY DEF RecordEvent
<1>2. \E d : log = Append(k.events, d)
  OBVIOUS
<1> HIDE DEF log
<1>3. RecordEvent(k, body) =
        [config |-> k.config, revision |-> k.revision, metadata |-> k.metadata,
         events |-> log, nextSequence |-> k.nextSequence + 1,
         activeSession |-> k.activeSession]
  BY <1>1 DEF IsKernel
<1> QED
  BY <1>2, <1>3 DEF IsKernel

LEMMA MetadataFields ==
  ASSUME NEW k, IsKernel(k), NEW key, NEW value
  PROVE  /\ IsKernel(SetMetadata(k, key, value))
         /\ SetMetadata(k, key, value).events = k.events
         /\ SetMetadata(k, key, value).nextSequence = k.nextSequence
         /\ SetMetadata(k, key, value).revision = k.revision + 1
         /\ SetMetadata(k, key, value).metadata =
              {kv \in k.metadata : kv[1] # key} \cup {<<key, value>>}
<1> DEFINE data == {kv \in k.metadata : kv[1] # key} \cup {<<key, value>>}
<1>1. SetMetadata(k, key, value) = [k EXCEPT !.revision = k.revision + 1, !.metadata = data]
  BY DEF SetMetadata
<1>2. data = {kv \in k.metadata : kv[1] # key} \cup {<<key, value>>}
  OBVIOUS
<1> HIDE DEF data
<1>3. SetMetadata(k, key, value) =
        [config |-> k.config, revision |-> k.revision + 1, metadata |-> data,
         events |-> k.events, nextSequence |-> k.nextSequence,
         activeSession |-> k.activeSession]
  BY <1>1 DEF IsKernel
<1> QED
  BY <1>2, <1>3 DEF IsKernel

\* The keys that a finished run writes.
RunMetadata(document, failed) ==
  {<<"scenario_name", document.name>>,
   <<"scenario_faults", IF document.rule = Nil THEN 0 ELSE 1>>,
   <<"scenario_assertions", 1>>,
   <<"scenario_assertion_failures", IF failed THEN 1 ELSE 0>>}

LEMMA RunMetadataFields ==
  ASSUME NEW k, IsKernel(k), NEW r
  PROVE  /\ IsKernel(WithRunMetadata(k, r))
         /\ WithRunMetadata(k, r).events = k.events
         /\ WithRunMetadata(k, r).nextSequence = k.nextSequence
         /\ k.revision = 0 => WithRunMetadata(k, r).revision = 4
         /\ k.metadata = {} =>
              WithRunMetadata(k, r).metadata = RunMetadata(Document(r), call[r].failed)
<1> DEFINE faults == IF Document(r).rule = Nil THEN 0 ELSE 1
           k1 == SetMetadata(k, "scenario_name", Document(r).name)
           k2 == SetMetadata(k1, "scenario_faults", faults)
           k3 == SetMetadata(k2, "scenario_assertions", 1)
           fails == IF call[r].failed THEN 1 ELSE 0
           k4 == SetMetadata(k3, "scenario_assertion_failures", fails)
<1>1. WithRunMetadata(k, r) = k4
  BY DEF WithRunMetadata
<1>2. IsKernel(k1) /\ k1.events = k.events /\ k1.nextSequence = k.nextSequence
      /\ k1.revision = k.revision + 1
      /\ k1.metadata = {kv \in k.metadata : kv[1] # "scenario_name"}
                       \cup {<<"scenario_name", Document(r).name>>}
  BY MetadataFields
<1> HIDE DEF k1
<1>3. IsKernel(k2) /\ k2.events = k1.events /\ k2.nextSequence = k1.nextSequence
      /\ k2.revision = k1.revision + 1
      /\ k2.metadata = {kv \in k1.metadata : kv[1] # "scenario_faults"}
                       \cup {<<"scenario_faults", faults>>}
  BY <1>2, MetadataFields
<1> HIDE DEF k2
<1>4. IsKernel(k3) /\ k3.events = k2.events /\ k3.nextSequence = k2.nextSequence
      /\ k3.revision = k2.revision + 1
      /\ k3.metadata = {kv \in k2.metadata : kv[1] # "scenario_assertions"}
                       \cup {<<"scenario_assertions", 1>>}
  BY <1>3, MetadataFields
<1> HIDE DEF k3
<1>5. IsKernel(k4) /\ k4.events = k3.events /\ k4.nextSequence = k3.nextSequence
      /\ k4.revision = k3.revision + 1
      /\ k4.metadata = {kv \in k3.metadata : kv[1] # "scenario_assertion_failures"}
                       \cup {<<"scenario_assertion_failures", fails>>}
  BY <1>4, MetadataFields
<1> HIDE DEF k4
<1>6. k.revision = 0 => k4.revision = 4
  BY <1>2, <1>3, <1>4, <1>5
<1>7. k.metadata = {} => k4.metadata = RunMetadata(Document(r), call[r].failed)
  <2> SUFFICES ASSUME k.metadata = {}
               PROVE  k4.metadata = RunMetadata(Document(r), call[r].failed)
    OBVIOUS
  <2>1. k1.metadata = {<<"scenario_name", Document(r).name>>}
    BY <1>2
  <2>2. k2.metadata = {<<"scenario_name", Document(r).name>>, <<"scenario_faults", faults>>}
    BY <2>1, <1>3
  <2>3. k3.metadata = {<<"scenario_name", Document(r).name>>, <<"scenario_faults", faults>>,
                       <<"scenario_assertions", 1>>}
    BY <2>2, <1>4
  <2> QED
    BY <2>3, <1>5 DEF RunMetadata
<1> QED
  BY <1>1, <1>2, <1>3, <1>4, <1>5, <1>6, <1>7

LEMMA RuntimeFields ==
  ASSUME NEW rt, IsRuntime(rt), NEW config, NEW snapshot, NEW accepted, NEW kernel,
         NEW service
  PROVE  /\ IsRuntime(NewRuntime(config))
         /\ NewRuntime(config).kernel = NewKernel(config)
         /\ IsRuntime(ResetRuntime(rt, config))
         /\ ResetRuntime(rt, config).kernel = ResetKernel(rt.kernel, config)
         /\ ResetRuntime(rt, config).service = <<>>
         /\ IsRuntime(FullRestore(rt, snapshot, accepted))
         /\ FullRestore(rt, snapshot, accepted).kernel = RestoreKernel(rt.kernel, snapshot)
         /\ [rt EXCEPT !.kernel = kernel] = [kernel |-> kernel, service |-> rt.service]
         /\ [rt EXCEPT !.service = service] = [kernel |-> rt.kernel, service |-> service]
         /\ [rt EXCEPT !.service = Append(@, service)]
              = [kernel |-> rt.kernel, service |-> Append(rt.service, service)]
<1>1. /\ IsKernel(NewKernel(config)) /\ IsKernel(ResetKernel(rt.kernel, config))
      /\ IsKernel(RestoreKernel(rt.kernel, snapshot))
  BY FreshKernelFields, KeptKernelFields DEF IsRuntime
<1>2. IsRuntime(NewRuntime(config)) /\ NewRuntime(config).kernel = NewKernel(config)
  BY <1>1 DEF IsRuntime, NewRuntime
<1>3. /\ IsRuntime(ResetRuntime(rt, config))
      /\ ResetRuntime(rt, config).kernel = ResetKernel(rt.kernel, config)
      /\ ResetRuntime(rt, config).service = <<>>
  BY <1>1, ServiceAssumption DEF IsRuntime, ResetRuntime
<1>4. /\ IsRuntime(FullRestore(rt, snapshot, accepted))
      /\ FullRestore(rt, snapshot, accepted).kernel = RestoreKernel(rt.kernel, snapshot)
  BY <1>1 DEF IsRuntime, FullRestore
<1>5. /\ [rt EXCEPT !.kernel = kernel] = [kernel |-> kernel, service |-> rt.service]
      /\ [rt EXCEPT !.service = service] = [kernel |-> rt.kernel, service |-> service]
  BY DEF IsRuntime
<1> DEFINE longer == Append(rt.service, service)
<1>6. [rt EXCEPT !.service = Append(@, service)] = [rt EXCEPT !.service = longer]
  OBVIOUS
<1> HIDE DEF longer
<1>7. [rt EXCEPT !.service = longer] = [kernel |-> rt.kernel, service |-> longer]
  BY DEF IsRuntime
<1> QED
  BY <1>2, <1>3, <1>4, <1>5, <1>6, <1>7 DEF longer

-----------------------------------------------------------------------------
(* What each action leaves: of the store of runs, and of its request. *)

StoreSame ==
  /\ disk' = disk /\ crashes' = crashes
  /\ scenario'.nextRunId = scenario.nextRunId /\ scenario'.runs = scenario.runs

\* The log is left alone or emptied.
LogKept ==
  /\ runtime'.kernel.events = runtime.kernel.events
  /\ runtime'.kernel.nextSequence = runtime.kernel.nextSequence

LogEmptied == runtime'.kernel.events = <<>> /\ runtime'.kernel.nextSequence = 1

\* Where a request is that runs a scenario and has not finished it.
InRun == {"initialise", "install_faults", "read_seed", "draw", "fail_action", "execute",
          "check", "finalise"}

RunningStep(r) ==
  /\ pc[r] \in InRun \ {"finalise"} /\ pc'[r] \in InRun
  /\ Others(r) /\ StoreSame
  /\ call'[r].run = call[r].run /\ call'[r].op = call[r].op

\* Lemmas about one request after another: the call of one is replaced.
LEMMA CallReplaced ==
  ASSUME Shape, NEW r \in Req, NEW c, IsCall(c), NEW label,
         call' = [call EXCEPT ![r] = c], Goto(r, label)
  PROVE  /\ Others(r) /\ call'[r] = c /\ pc'[r] = label
         /\ pc' = [q \in Req |-> pc'[q]] /\ call' = [q \in Req |-> call'[q]]
         /\ \A q \in Req : IsCall(call'[q])
BY DEF Shape, Goto, Others

LEMMA CallKept ==
  ASSUME Shape, NEW r \in Req, NEW label, call' = call, Goto(r, label)
  PROVE  /\ Others(r) /\ call'[r] = call[r] /\ pc'[r] = label
         /\ pc' = [q \in Req |-> pc'[q]] /\ call' = [q \in Req |-> call'[q]]
         /\ \A q \in Req : IsCall(call'[q])
BY DEF Shape, Goto, Others

\* What the call of a request keeps until it is answered, ...
SameOrigin(r) ==
  /\ call'[r].op = call[r].op /\ call'[r].document = call[r].document
  /\ call'[r].baseline = call[r].baseline

\* ... the number and the artifact of its run, and what the run has recorded.
SameRun(r) == call'[r].run = call[r].run /\ call'[r].artifact = call[r].artifact

SameRecord(r) ==
  /\ call'[r].outcomes = call[r].outcomes /\ call'[r].hits = call[r].hits
  /\ call'[r].status = call[r].status /\ call'[r].failed = call[r].failed

LEMMA AllocateLeaves ==
  ASSUME Shape, NEW r \in Req, AllocateRunId(r)
  PROVE  /\ Shape' /\ Others(r) /\ pc[r] = "allocate" /\ pc'[r] = "initialise"
         /\ SameOrigin(r) /\ SameRecord(r) /\ call'[r].hit = call[r].hit
         /\ call'[r].artifact = call[r].artifact /\ call'[r].verdict = call[r].verdict
         /\ call'[r].run = scenario.nextRunId + 1
         /\ scenario'.nextRunId = scenario.nextRunId + 1
         /\ scenario'.runs = scenario.runs /\ scenario'.rule = scenario.rule
         /\ scenario'.decisionIndex = scenario.decisionIndex
         /\ disk' = disk /\ crashes' = crashes /\ runtime' = runtime
<1> DEFINE n == scenario.nextRunId + 1
           c == [call[r] EXCEPT !.run = n]
<1>1. scenario' = [rule |-> scenario.rule, decisionIndex |-> scenario.decisionIndex,
                   nextRunId |-> n, runs |-> scenario.runs]
  BY DEF AllocateRunId, Shape
<1>2. call' = [call EXCEPT ![r] = c]
  BY <1>1 DEF AllocateRunId, Shape
<1> HIDE DEF n
<1>3. /\ IsCall(c) /\ c.run = n /\ c.op = call[r].op /\ c.document = call[r].document
      /\ c.baseline = call[r].baseline /\ c.outcomes = call[r].outcomes
      /\ c.hits = call[r].hits /\ c.status = call[r].status /\ c.failed = call[r].failed
      /\ c.hit = call[r].hit /\ c.artifact = call[r].artifact
      /\ c.verdict = call[r].verdict
  BY DEF Shape, IsCall
<1> HIDE DEF c
<1>4. /\ Others(r) /\ call'[r] = c /\ pc'[r] = "initialise"
      /\ pc' = [q \in Req |-> pc'[q]] /\ call' = [q \in Req |-> call'[q]]
      /\ \A q \in Req : IsCall(call'[q])
  BY <1>2, <1>3, CallReplaced DEF AllocateRunId
<1>5. pc[r] = "allocate" /\ disk' = disk /\ crashes' = crashes /\ runtime' = runtime
  BY DEF AllocateRunId
<1>6. Shape'
  BY <1>1, <1>4, <1>5 DEF Shape
<1> QED
  BY <1>1, <1>3, <1>4, <1>5, <1>6 DEF SameOrigin, SameRecord, n

LEMMA InitialiseLeaves ==
  ASSUME Shape, NEW r \in Req, Initialise(r)
  PROVE  /\ Shape' /\ Others(r) /\ pc[r] = "initialise"
         /\ pc'[r] \in {"install_faults", "finalise"}
         /\ SameOrigin(r) /\ SameRun(r) /\ call'[r].hit = call[r].hit
         /\ call'[r].outcomes = call[r].outcomes /\ call'[r].hits = call[r].hits
         /\ call'[r].failed = call[r].failed /\ call'[r].verdict = call[r].verdict
         /\ runtime'.kernel = ResetKernel(runtime.kernel, Document(r).config)
         /\ \/ /\ Document(r).seeds /\ pc'[r] = "install_faults" /\ SameRecord(r)
               /\ runtime'.service = Append(<<>>, "seed")
            \/ /\ ~Document(r).seeds /\ pc'[r] = "finalise" /\ call'[r].status = "error"
               /\ runtime'.service = <<>>
         /\ UNCHANGED <<scenario, disk, crashes>>
<1> DEFINE cleared == ResetRuntime(runtime, Document(r).config)
           c == [call[r] EXCEPT !.status = "error"]
<1>1. /\ IsRuntime(cleared) /\ cleared.service = <<>>
      /\ cleared.kernel = ResetKernel(runtime.kernel, Document(r).config)
      /\ [cleared EXCEPT !.service = Append(@, "seed")]
           = [kernel |-> cleared.kernel, service |-> Append(<<>>, "seed")]
  <2>1. /\ IsRuntime(cleared) /\ cleared.service = <<>>
        /\ cleared.kernel = ResetKernel(runtime.kernel, Document(r).config)
    BY RuntimeFields DEF Shape
  <2> HIDE DEF cleared
  <2>2. [cleared EXCEPT !.service = Append(@, "seed")]
          = [kernel |-> cleared.kernel, service |-> Append(cleared.service, "seed")]
    BY <2>1, RuntimeFields
  <2> QED
    BY <2>1, <2>2
<1>2. CASE /\ Document(r).seeds
           /\ runtime' = [cleared EXCEPT !.service = Append(@, "seed")]
           /\ Goto(r, "install_faults")
           /\ UNCHANGED call
  <2>1. /\ Others(r) /\ call'[r] = call[r] /\ pc'[r] = "install_faults"
        /\ pc' = [q \in Req |-> pc'[q]] /\ call' = [q \in Req |-> call'[q]]
        /\ \A q \in Req : IsCall(call'[q])
    BY <1>2, CallKept
  <2>2. runtime' = [kernel |-> cleared.kernel, service |-> Append(<<>>, "seed")]
    BY <1>1, <1>2
  <2> HIDE DEF cleared
  <2>3. IsRuntime(runtime') /\ runtime'.kernel = cleared.kernel
        /\ runtime'.service = Append(<<>>, "seed")
    BY <1>1, <2>2 DEF IsRuntime
  <2>4. Shape'
    BY <2>1, <2>3 DEF Shape, Initialise
  <2> QED
    BY <1>1, <1>2, <2>1, <2>3, <2>4 DEF Initialise, SameOrigin, SameRecord, SameRun
<1>3. CASE /\ ~Document(r).seeds
           /\ runtime' = cleared
           /\ call' = [call EXCEPT ![r].status = "error"]
           /\ Goto(r, "finalise")
  <2>1. call' = [call EXCEPT ![r] = c]
    BY <1>3
  <2>2. /\ IsCall(c) /\ c.run = call[r].run /\ c.op = call[r].op
        /\ c.document = call[r].document /\ c.artifact = call[r].artifact
        /\ c.baseline = call[r].baseline /\ c.outcomes = call[r].outcomes
        /\ c.hits = call[r].hits /\ c.status = "error" /\ c.failed = call[r].failed
        /\ c.hit = call[r].hit /\ c.verdict = call[r].verdict
    BY DEF Shape, IsCall
  <2> HIDE DEF c, cleared
  <2>3. /\ Others(r) /\ call'[r] = c /\ pc'[r] = "finalise"
        /\ pc' = [q \in Req |-> pc'[q]] /\ call' = [q \in Req |-> call'[q]]
        /\ \A q \in Req : IsCall(call'[q])
    BY <1>3, <2>1, <2>2, CallReplaced
  <2>4. Shape'
    BY <1>1, <1>3, <2>3 DEF Shape, Initialise
  <2> QED
    BY <1>1, <1>3, <2>2, <2>3, <2>4 DEF Initialise, SameOrigin, SameRun
<1> QED
  BY <1>2, <1>3 DEF Initialise

LEMMA InstallFaultsLeaves ==
  ASSUME Shape, NEW r \in Req, InstallFaults(r)
  PROVE  /\ Shape' /\ Others(r) /\ pc[r] = "install_faults"
         /\ pc'[r] = IF 0 < Len(Document(r).timeline) THEN "read_seed" ELSE "check"
         /\ call'[r] = call[r]
         /\ scenario'.rule = Document(r).rule /\ scenario'.decisionIndex = 0
         /\ scenario'.nextRunId = scenario.nextRunId /\ scenario'.runs = scenario.runs
         /\ UNCHANGED <<runtime, disk, crashes>>
<1> DEFINE rule == Document(r).rule
           label == IF Len(<<>>) < Len(Document(r).timeline) THEN "read_seed" ELSE "check"
<1>1. /\ pc[r] = "install_faults" /\ Goto(r, label)
      /\ scenario' = [scenario EXCEPT !.rule = rule, !.decisionIndex = 0]
      /\ runtime' = runtime /\ disk' = disk /\ crashes' = crashes /\ call' = call
  BY DEF InstallFaults, GotoNextAction
<1>2. label = IF 0 < Len(Document(r).timeline) THEN "read_seed" ELSE "check"
  OBVIOUS
<1> HIDE DEF rule, label
<1>3. scenario' = [rule |-> rule, decisionIndex |-> 0,
                   nextRunId |-> scenario.nextRunId, runs |-> scenario.runs]
  BY <1>1 DEF Shape
<1>4. /\ Others(r) /\ call'[r] = call[r] /\ pc'[r] = label
      /\ pc' = [q \in Req |-> pc'[q]] /\ call' = [q \in Req |-> call'[q]]
      /\ \A q \in Req : IsCall(call'[q])
  BY <1>1, CallKept
<1>5. Shape'
  BY <1>1, <1>3, <1>4 DEF Shape
<1> QED
  BY <1>1, <1>2, <1>3, <1>4, <1>5 DEF rule

LEMMA ReadSeedLeaves ==
  ASSUME Shape, NEW r \in Req, ReadSeed(r)
  PROVE  /\ Shape' /\ Others(r) /\ pc[r] = "read_seed" /\ pc'[r] = "draw"
         /\ SameOrigin(r) /\ SameRun(r) /\ SameRecord(r)
         /\ call'[r].hit = call[r].hit /\ call'[r].verdict = call[r].verdict
         /\ call'[r].drawSeed = runtime.kernel.config.seed
         /\ UNCHANGED <<runtime, scenario, disk, crashes>>
<1> DEFINE seed == runtime.kernel.config.seed
           c == [call[r] EXCEPT !.drawSeed = seed]
<1>1. /\ pc[r] = "read_seed" /\ Goto(r, "draw") /\ call' = [call EXCEPT ![r] = c]
      /\ runtime' = runtime /\ scenario' = scenario /\ disk' = disk /\ crashes' = crashes
  BY DEF ReadSeed
<1> HIDE DEF seed
<1>2. /\ IsCall(c) /\ c.run = call[r].run /\ c.op = call[r].op
      /\ c.document = call[r].document /\ c.artifact = call[r].artifact
      /\ c.baseline = call[r].baseline /\ c.outcomes = call[r].outcomes
      /\ c.hits = call[r].hits /\ c.status = call[r].status /\ c.failed = call[r].failed
      /\ c.hit = call[r].hit /\ c.verdict = call[r].verdict /\ c.drawSeed = seed
  BY DEF Shape, IsCall
<1> HIDE DEF c
<1>3. /\ Others(r) /\ call'[r] = c /\ pc'[r] = "draw"
      /\ pc' = [q \in Req |-> pc'[q]] /\ call' = [q \in Req |-> call'[q]]
      /\ \A q \in Req : IsCall(call'[q])
  BY <1>1, <1>2, CallReplaced
<1>4. Shape'
  BY <1>1, <1>3 DEF Shape
<1> QED
  BY <1>1, <1>2, <1>3, <1>4 DEF SameOrigin, SameRecord, SameRun, seed

\* Whether a decision fires under the rule that is installed.
Firing(r) ==
  /\ scenario.rule # Nil
  /\ NextAction(r) \in scenario.rule.actions
  /\ <<call[r].drawSeed, scenario.decisionIndex + 1>> \in Fires

LEMMA DrawLeaves ==
  ASSUME Shape, NEW r \in Req, Draw(r)
  PROVE  /\ Shape' /\ Others(r) /\ pc[r] = "draw"
         /\ pc'[r] = IF Firing(r) /\ scenario.rule.effect = "http_error"
                     THEN "fail_action" ELSE "execute"
         /\ SameOrigin(r) /\ SameRun(r) /\ SameRecord(r)
         /\ call'[r].verdict = call[r].verdict
         /\ call'[r].hit = IF Firing(r) THEN scenario.rule ELSE Nil
         /\ scenario'.decisionIndex = scenario.decisionIndex + 1
         /\ scenario'.rule = scenario.rule
         /\ scenario'.nextRunId = scenario.nextRunId /\ scenario'.runs = scenario.runs
         /\ UNCHANGED <<runtime, disk, crashes>>
<1> DEFINE n == scenario.decisionIndex + 1
           h == IF Firing(r) THEN scenario.rule ELSE Nil
           label == IF Firing(r) /\ scenario.rule.effect = "http_error"
                    THEN "fail_action" ELSE "execute"
           c == [call[r] EXCEPT !.hit = h]
<1>1. /\ pc[r] = "draw" /\ Goto(r, label) /\ call' = [call EXCEPT ![r] = c]
      /\ scenario' = [scenario EXCEPT !.decisionIndex = n]
      /\ runtime' = runtime /\ disk' = disk /\ crashes' = crashes
  BY DEF Draw, Firing
<1> HIDE DEF n, h, label
<1>2. /\ IsCall(c) /\ c.run = call[r].run /\ c.op = call[r].op
      /\ c.document = call[r].document /\ c.artifact = call[r].artifact
      /\ c.baseline = call[r].baseline /\ c.outcomes = call[r].outcomes
      /\ c.hits = call[r].hits /\ c.status = call[r].status /\ c.failed = call[r].failed
      /\ c.hit = h /\ c.verdict = call[r].verdict
  BY DEF Shape, IsCall
<1> HIDE DEF c
<1>3. scenario' = [rule |-> scenario.rule, decisionIndex |-> n,
                   nextRunId |-> scenario.nextRunId, runs |-> scenario.runs]
  BY <1>1 DEF Shape
<1>4. /\ Others(r) /\ call'[r] = c /\ pc'[r] = label
      /\ pc' = [q \in Req |-> pc'[q]] /\ call' = [q \in Req |-> call'[q]]
      /\ \A q \in Req : IsCall(call'[q])
  BY <1>1, <1>2, CallReplaced
<1>5. Shape'
  BY <1>1, <1>3, <1>4 DEF Shape
<1> QED
  BY <1>1, <1>2, <1>3, <1>4, <1>5 DEF SameOrigin, SameRecord, SameRun, n, h, label

LEMMA OutcomeFields ==
  ASSUME Shape, NEW r \in Req, NEW outcome
  PROVE  LET c == Outcome(r, outcome) IN
         /\ IsCall(c) /\ c.run = call[r].run /\ c.op = call[r].op
         /\ c.document = call[r].document /\ c.artifact = call[r].artifact
         /\ c.baseline = call[r].baseline /\ c.failed = call[r].failed
         /\ c.verdict = call[r].verdict /\ c.hit = Nil
         /\ c.outcomes = Append(call[r].outcomes, outcome)
         /\ c.hits = IF call[r].hit = Nil THEN call[r].hits
                     ELSE Append(call[r].hits, call[r].hit)
         /\ c.status = IF outcome = "ok" THEN call[r].status ELSE "error"
<1> DEFINE outcomes == Append(call[r].outcomes, outcome)
           hits == IF call[r].hit = Nil THEN call[r].hits
                   ELSE Append(call[r].hits, call[r].hit)
           status == IF outcome = "ok" THEN call[r].status ELSE "error"
           c == [call[r] EXCEPT !.outcomes = outcomes, !.hits = hits, !.hit = Nil,
                                !.status = status]
<1>1. Outcome(r, outcome) = c
  BY DEF Outcome
<1> HIDE DEF outcomes, hits, status
<1>2. c = [op |-> call[r].op, document |-> call[r].document, run |-> call[r].run,
           drawSeed |-> call[r].drawSeed, hit |-> Nil, status |-> status,
           outcomes |-> outcomes, hits |-> hits, failed |-> call[r].failed,
           artifact |-> call[r].artifact, ids |-> call[r].ids,
           baseline |-> call[r].baseline, verdict |-> call[r].verdict]
  <2> DEFINE d == call[r]
             d1 == [d EXCEPT !.outcomes = outcomes]
             d2 == [d1 EXCEPT !.hits = hits]
             d3 == [d2 EXCEPT !.hit = Nil]
  <2>1. c = [d3 EXCEPT !.status = status]
    OBVIOUS
  <2>2. d = [op |-> d.op, document |-> d.document, run |-> d.run, drawSeed |-> d.drawSeed,
             hit |-> d.hit, status |-> d.status, outcomes |-> d.outcomes, hits |-> d.hits,
             failed |-> d.failed, artifact |-> d.artifact, ids |-> d.ids,
             baseline |-> d.baseline, verdict |-> d.verdict]
    BY DEF Shape, IsCall
  <2>3. d1 = [op |-> d.op, document |-> d.document, run |-> d.run, drawSeed |-> d.drawSeed,
              hit |-> d.hit, status |-> d.status, outcomes |-> outcomes, hits |-> d.hits,
              failed |-> d.failed, artifact |-> d.artifact, ids |-> d.ids,
              baseline |-> d.baseline, verdict |-> d.verdict]
    BY <2>2
  <2> HIDE DEF d1
  <2>4. d2 = [op |-> d.op, document |-> d.document, run |-> d.run, drawSeed |-> d.drawSeed,
              hit |-> d.hit, status |-> d.status, outcomes |-> outcomes, hits |-> hits,
              failed |-> d.failed, artifact |-> d.artifact, ids |-> d.ids,
              baseline |-> d.baseline, verdict |-> d.verdict]
    BY <2>3
  <2> HIDE DEF d2
  <2>5. d3 = [op |-> d.op, document |-> d.document, run |-> d.run, drawSeed |-> d.drawSeed,
              hit |-> Nil, status |-> d.status, outcomes |-> outcomes, hits |-> hits,
              failed |-> d.failed, artifact |-> d.artifact, ids |-> d.ids,
              baseline |-> d.baseline, verdict |-> d.verdict]
    BY <2>4
  <2> HIDE DEF d3
  <2> QED
    BY <2>1, <2>5
<1> HIDE DEF c
<1>3. /\ IsCall(c) /\ c.run = call[r].run /\ c.op = call[r].op
      /\ c.document = call[r].document /\ c.artifact = call[r].artifact
      /\ c.baseline = call[r].baseline /\ c.failed = call[r].failed
      /\ c.verdict = call[r].verdict /\ c.hit = Nil
      /\ c.outcomes = outcomes /\ c.hits = hits /\ c.status = status
  BY <1>2 DEF IsCall
<1> QED
  BY <1>1, <1>3 DEF outcomes, hits, status

\* What an action of the timeline adds to the record and to the log.
RecordedAs(r, outcome) ==
  /\ SameOrigin(r) /\ SameRun(r) /\ call'[r].verdict = call[r].verdict
  /\ call'[r].failed = call[r].failed /\ call'[r].hit = Nil
  /\ call'[r].outcomes = Append(call[r].outcomes, outcome)
  /\ call'[r].hits = IF call[r].hit = Nil THEN call[r].hits
                     ELSE Append(call[r].hits, call[r].hit)
  /\ call'[r].status = IF outcome = "ok" THEN call[r].status ELSE "error"
  /\ runtime'.kernel = RecordEvent(runtime.kernel, Event(r, outcome))

LEMMA FailActionLeaves ==
  ASSUME Shape, NEW r \in Req, FailAction(r)
  PROVE  /\ Shape' /\ Others(r) /\ pc[r] = "fail_action" /\ pc'[r] = "finalise"
         /\ RecordedAs(r, "fault_http_error") /\ runtime'.service = runtime.service
         /\ UNCHANGED <<scenario, disk, crashes>>
<1> DEFINE c == Outcome(r, "fault_http_error")
           kernel == RecordEvent(runtime.kernel, Event(r, "fault_http_error"))
<1>1. /\ pc[r] = "fail_action" /\ Goto(r, "finalise") /\ call' = [call EXCEPT ![r] = c]
      /\ runtime' = [runtime EXCEPT !.kernel = kernel]
      /\ scenario' = scenario /\ disk' = disk /\ crashes' = crashes
  BY DEF FailAction
<1>2. IsKernel(kernel)
  BY RecordFields DEF Shape, IsRuntime
<1>3. IsCall(c)
  BY OutcomeFields
<1> HIDE DEF c, kernel
<1>4. runtime' = [kernel |-> kernel, service |-> runtime.service]
  BY <1>1 DEF Shape, IsRuntime
<1>5. /\ Others(r) /\ call'[r] = c /\ pc'[r] = "finalise"
      /\ pc' = [q \in Req |-> pc'[q]] /\ call' = [q \in Req |-> call'[q]]
      /\ \A q \in Req : IsCall(call'[q])
  BY <1>1, <1>3, CallReplaced
<1>6. Shape'
  BY <1>1, <1>2, <1>4, <1>5 DEF Shape, IsRuntime
<1>7. RecordedAs(r, "fault_http_error")
  BY <1>4, <1>5, OutcomeFields DEF RecordedAs, SameOrigin, SameRun, c, kernel
<1> QED
  BY <1>1, <1>4, <1>5, <1>6, <1>7

LEMMA ExecuteActionLeaves ==
  ASSUME Shape, NEW r \in Req, ExecuteAction(r),
         NEW outcome, outcome = IF NextAction(r) \in RefusedActions THEN "error" ELSE "ok"
  PROVE  /\ Shape' /\ Others(r) /\ pc[r] = "execute" /\ RecordedAs(r, outcome)
         /\ pc'[r] = IF outcome # "ok" THEN "finalise"
                     ELSE IF Len(call'[r].outcomes) < Len(Document(r).timeline)
                     THEN "read_seed" ELSE "check"
         /\ runtime'.service = IF outcome = "ok" THEN Append(runtime.service, NextAction(r))
                               ELSE runtime.service
         /\ UNCHANGED <<scenario, disk, crashes>>
<1> DEFINE c == Outcome(r, outcome)
           kernel == RecordEvent(runtime.kernel, Event(r, outcome))
           service == IF outcome = "ok" THEN Append(runtime.service, NextAction(r))
                      ELSE runtime.service
           label == IF outcome # "ok" THEN "finalise"
                    ELSE IF Len(call'[r].outcomes) < Len(Document(r).timeline)
                    THEN "read_seed" ELSE "check"
<1>1. /\ pc[r] = "execute" /\ Goto(r, label) /\ call' = [call EXCEPT ![r] = c]
      /\ runtime' = [kernel |-> kernel, service |-> service]
      /\ scenario' = scenario /\ disk' = disk /\ crashes' = crashes
  BY DEF ExecuteAction, GotoNextAction
<1>2. IsKernel(kernel)
  BY RecordFields DEF Shape, IsRuntime
<1>3. IsCall(c)
  BY OutcomeFields
<1> HIDE DEF c, kernel, service, label
<1>5. /\ Others(r) /\ call'[r] = c /\ pc'[r] = label
      /\ pc' = [q \in Req |-> pc'[q]] /\ call' = [q \in Req |-> call'[q]]
      /\ \A q \in Req : IsCall(call'[q])
  BY <1>1, <1>3, CallReplaced
<1>6. Shape'
  BY <1>1, <1>2, <1>5 DEF Shape, IsRuntime
<1>7. RecordedAs(r, outcome)
  BY <1>1, <1>5, OutcomeFields DEF RecordedAs, SameOrigin, SameRun, c, kernel
<1> QED
  BY <1>1, <1>5, <1>6, <1>7 DEF service, label

LEMMA CheckAssertionsLeaves ==
  ASSUME Shape, NEW r \in Req, CheckAssertions(r),
         NEW failed, failed = (runtime.service # <<"seed">> \o Document(r).timeline)
  PROVE  /\ Shape' /\ Others(r) /\ pc[r] = "check" /\ pc'[r] = "finalise"
         /\ SameOrigin(r) /\ SameRun(r) /\ call'[r].verdict = call[r].verdict
         /\ call'[r].hit = call[r].hit
         /\ call'[r].outcomes = call[r].outcomes /\ call'[r].hits = call[r].hits
         /\ call'[r].failed = failed
         /\ call'[r].status = IF failed THEN "assertion_failed" ELSE call[r].status
         /\ UNCHANGED <<runtime, scenario, disk, crashes>>
<1> DEFINE status == IF failed THEN "assertion_failed" ELSE call[r].status
           c == [call[r] EXCEPT !.failed = failed, !.status = status]
<1>1. /\ pc[r] = "check" /\ Goto(r, "finalise")
      /\ runtime' = runtime /\ scenario' = scenario /\ disk' = disk /\ crashes' = crashes
  BY DEF CheckAssertions
<1>2. call' = [call EXCEPT ![r] = c]
  <2> DEFINE c1 == [call[r] EXCEPT !.failed = failed]
             first == [call EXCEPT ![r] = c1]
  <2>1. call' = [first EXCEPT ![r].status = IF failed THEN "assertion_failed" ELSE @]
    BY DEF CheckAssertions
  <2>2. first[r] = c1 /\ c1.status = call[r].status
    BY DEF Shape, IsCall
  <2> HIDE DEF c1
  <2>3. call' = [first EXCEPT ![r] = [c1 EXCEPT !.status = status]]
    BY <2>1, <2>2
  <2>4. [c1 EXCEPT !.status = status] = c
    BY DEF c1
  <2> QED
    BY <2>3, <2>4 DEF Shape
<1> HIDE DEF status
<1>3. /\ IsCall(c) /\ c.run = call[r].run /\ c.op = call[r].op
      /\ c.document = call[r].document /\ c.artifact = call[r].artifact
      /\ c.baseline = call[r].baseline /\ c.outcomes = call[r].outcomes
      /\ c.hits = call[r].hits /\ c.status = status /\ c.failed = failed
      /\ c.hit = call[r].hit /\ c.verdict = call[r].verdict
  <2> DEFINE d == [call[r] EXCEPT !.failed = failed]
  <2>1. c = [d EXCEPT !.status = status]
    OBVIOUS
  <2>2. /\ IsCall(d) /\ d.run = call[r].run /\ d.op = call[r].op
        /\ d.document = call[r].document /\ d.artifact = call[r].artifact
        /\ d.baseline = call[r].baseline /\ d.outcomes = call[r].outcomes
        /\ d.hits = call[r].hits /\ d.failed = failed
        /\ d.hit = call[r].hit /\ d.verdict = call[r].verdict
    BY DEF Shape, IsCall
  <2> HIDE DEF d, c
  <2> QED
    BY <2>1, <2>2 DEF IsCall
<1> HIDE DEF c
<1>4. /\ Others(r) /\ call'[r] = c /\ pc'[r] = "finalise"
      /\ pc' = [q \in Req |-> pc'[q]] /\ call' = [q \in Req |-> call'[q]]
      /\ \A q \in Req : IsCall(call'[q])
  BY <1>1, <1>2, <1>3, CallReplaced
<1>5. Shape'
  BY <1>1, <1>4 DEF Shape
<1> QED
  BY <1>1, <1>3, <1>4, <1>5 DEF SameOrigin, SameRun, status

LEMMA FinaliseLeaves ==
  ASSUME Shape, NEW r \in Req, Finalise(r),
         NEW kernel, kernel = WithRunMetadata(runtime.kernel, r),
         NEW snapshot, snapshot = [revision |-> kernel.revision, metadata |-> kernel.metadata,
                                   service |-> runtime.service]
  PROVE  /\ Shape' /\ Others(r) /\ pc[r] = "finalise" /\ pc'[r] = "keep"
         /\ SameOrigin(r) /\ SameRecord(r) /\ call'[r].run = call[r].run
         /\ call'[r].hit = call[r].hit /\ call'[r].verdict = call[r].verdict
         /\ call'[r].artifact =
              [document |-> Document(r),
               report   |-> [run |-> call[r].run, status |-> call[r].status,
                             outcomes |-> call[r].outcomes, hits |-> call[r].hits,
                             failed |-> call[r].failed, hash |-> snapshot],
               events   |-> runtime.kernel.events,
               snapshot |-> snapshot]
         /\ runtime' = [kernel |-> kernel, service |-> runtime.service]
         /\ UNCHANGED <<scenario, disk, crashes>>
<1> DEFINE artifact ==
             [document |-> Document(r),
              report   |-> [run |-> call[r].run, status |-> call[r].status,
                            outcomes |-> call[r].outcomes, hits |-> call[r].hits,
                            failed |-> call[r].failed, hash |-> snapshot],
              events   |-> runtime.kernel.events,
              snapshot |-> snapshot]
           c == [call[r] EXCEPT !.artifact = artifact]
<1>1. /\ pc[r] = "finalise" /\ Goto(r, "keep")
      /\ scenario' = scenario /\ disk' = disk /\ crashes' = crashes
  BY DEF Finalise
<1>2. runtime' = [kernel |-> kernel, service |-> runtime.service]
  BY DEF Finalise, Shape, IsRuntime
<1>3. FullSnapshot(runtime') = snapshot
  BY <1>2 DEF FullSnapshot
<1>4. call' = [call EXCEPT ![r] = c]
  BY <1>3 DEF Finalise
<1>5. IsKernel(kernel)
  BY RunMetadataFields DEF Shape, IsRuntime
<1>6. artifact =
        [document |-> Document(r),
         report   |-> [run |-> call[r].run, status |-> call[r].status,
                       outcomes |-> call[r].outcomes, hits |-> call[r].hits,
                       failed |-> call[r].failed, hash |-> snapshot],
         events   |-> runtime.kernel.events,
         snapshot |-> snapshot]
  OBVIOUS
<1> HIDE DEF artifact
<1>7. /\ IsCall(c) /\ c.run = call[r].run /\ c.op = call[r].op
      /\ c.document = call[r].document /\ c.artifact = artifact
      /\ c.baseline = call[r].baseline /\ c.outcomes = call[r].outcomes
      /\ c.hits = call[r].hits /\ c.status = call[r].status /\ c.failed = call[r].failed
      /\ c.hit = call[r].hit /\ c.verdict = call[r].verdict
  BY DEF Shape, IsCall
<1> HIDE DEF c
<1>8. /\ Others(r) /\ call'[r] = c /\ pc'[r] = "keep"
      /\ pc' = [q \in Req |-> pc'[q]] /\ call' = [q \in Req |-> call'[q]]
      /\ \A q \in Req : IsCall(call'[q])
  BY <1>1, <1>4, <1>7, CallReplaced
<1>9. Shape'
  BY <1>1, <1>2, <1>5, <1>8 DEF Shape, IsRuntime
<1> QED
  BY <1>1, <1>2, <1>6, <1>7, <1>8, <1>9 DEF SameOrigin, SameRecord

\* The end of a run, as far as the store and its artifact go.
LEMMA FinaliseKeeps ==
  ASSUME Shape, NEW r \in Req, Finalise(r)
  PROVE  /\ Shape' /\ Others(r) /\ pc[r] = "finalise" /\ pc'[r] = "keep"
         /\ SameOrigin(r) /\ SameRecord(r) /\ call'[r].run = call[r].run
         /\ call'[r].verdict = call[r].verdict /\ StoreSame /\ scenario' = scenario
         /\ LogKept
         /\ call'[r].artifact.report.run = call[r].run
         /\ call'[r].artifact.report.hits = call[r].hits
         /\ call'[r].artifact.document = call[r].document
         /\ \E d, report, events, snapshot :
              call'[r].artifact = [document |-> d, report |-> report,
                                   events |-> events, snapshot |-> snapshot]
<1> DEFINE kernel == WithRunMetadata(runtime.kernel, r)
           snapshot == [revision |-> kernel.revision, metadata |-> kernel.metadata,
                        service |-> runtime.service]
           report == [run |-> call[r].run, status |-> call[r].status,
                      outcomes |-> call[r].outcomes, hits |-> call[r].hits,
                      failed |-> call[r].failed, hash |-> snapshot]
<1>1. /\ kernel = WithRunMetadata(runtime.kernel, r)
      /\ snapshot = [revision |-> kernel.revision, metadata |-> kernel.metadata,
                     service |-> runtime.service]
  OBVIOUS
<1>2. report.run = call[r].run /\ report.hits = call[r].hits
  OBVIOUS
<1>7. IsKernel(runtime.kernel)
  BY DEF Shape, IsRuntime
<1>8. kernel.events = runtime.kernel.events
      /\ kernel.nextSequence = runtime.kernel.nextSequence
  BY <1>7, RunMetadataFields
<1> HIDE DEF kernel, snapshot
<1>9. LogKept
  <2>1. runtime' = [kernel |-> kernel, service |-> runtime.service]
    BY <1>1, FinaliseLeaves
  <2> QED
    BY <1>8, <2>1 DEF LogKept
<1>3. /\ Shape' /\ Others(r) /\ pc[r] = "finalise" /\ pc'[r] = "keep"
      /\ SameOrigin(r) /\ SameRecord(r) /\ call'[r].run = call[r].run
      /\ call'[r].verdict = call[r].verdict
      /\ UNCHANGED <<scenario, disk, crashes>>
  BY <1>1, FinaliseLeaves
<1>4. call'[r].artifact = [document |-> Document(r), report |-> report,
                           events |-> runtime.kernel.events, snapshot |-> snapshot]
  BY <1>1, FinaliseLeaves
<1> HIDE DEF report
<1>5. call'[r].artifact.report = report /\ call'[r].artifact.document = call[r].document
  BY <1>4 DEF Document
<1>6. \E d, p, e, s : call'[r].artifact = [document |-> d, report |-> p,
                                           events |-> e, snapshot |-> s]
  BY <1>4, Zenon
<1> QED
  BY <1>2, <1>3, <1>5, <1>6, <1>9 DEF StoreSame

LEMMA KeepLeaves ==
  ASSUME Shape, NEW r \in Req, Keep(r)
  PROVE  /\ Shape' /\ Others(r) /\ pc[r] = "keep" /\ pc'[r] = "write_artifact"
         /\ call'[r] = call[r]
         /\ scenario'.nextRunId = scenario.nextRunId
         /\ scenario'.rule = scenario.rule
         /\ scenario'.decisionIndex = scenario.decisionIndex
         /\ scenario'.runs =
              [n \in DOMAIN scenario.runs \cup {call[r].run} |->
                 IF n = call[r].run
                 THEN [document |-> Document(r), report |-> call[r].artifact.report]
                 ELSE scenario.runs[n]]
         /\ UNCHANGED <<runtime, disk, crashes>>
<1> DEFINE runs == [n \in DOMAIN scenario.runs \cup {call[r].run} |->
                      IF n = call[r].run
                      THEN [document |-> Document(r), report |-> call[r].artifact.report]
                      ELSE scenario.runs[n]]
<1>1. /\ pc[r] = "keep" /\ Goto(r, "write_artifact")
      /\ runtime' = runtime /\ disk' = disk /\ crashes' = crashes /\ call' = call
      /\ scenario' = [scenario EXCEPT !.runs = runs]
  BY DEF Keep
<1>2. runs = [n \in DOMAIN scenario.runs \cup {call[r].run} |->
                IF n = call[r].run
                THEN [document |-> Document(r), report |-> call[r].artifact.report]
                ELSE scenario.runs[n]]
  OBVIOUS
<1> HIDE DEF runs
<1>3. scenario' = [rule |-> scenario.rule, decisionIndex |-> scenario.decisionIndex,
                   nextRunId |-> scenario.nextRunId, runs |-> runs]
  BY <1>1 DEF Shape
<1>4. /\ Others(r) /\ call'[r] = call[r] /\ pc'[r] = "write_artifact"
      /\ pc' = [q \in Req |-> pc'[q]] /\ call' = [q \in Req |-> call'[q]]
      /\ \A q \in Req : IsCall(call'[q])
  BY <1>1, CallKept
<1>5. Shape'
  BY <1>1, <1>3, <1>4 DEF Shape
<1> QED
  BY <1>1, <1>2, <1>3, <1>4, <1>5

\* A file is written, and nothing else of the run directory.
LEMMA WithArtifactIs ==
  ASSUME Shape, NEW n, NEW artifact
  PROVE  WithArtifact(n, artifact) =
           [artifacts |-> [m \in DOMAIN disk.artifacts \cup {n} |->
                             IF m = n THEN artifact ELSE disk.artifacts[m]],
            index     |-> disk.index]
<1> DEFINE artifacts == [m \in DOMAIN disk.artifacts \cup {n} |->
                           IF m = n THEN artifact ELSE disk.artifacts[m]]
<1>1. WithArtifact(n, artifact) = [disk EXCEPT !.artifacts = artifacts]
  BY DEF WithArtifact
<1> HIDE DEF artifacts
<1>2. [disk EXCEPT !.artifacts = artifacts] = [artifacts |-> artifacts, index |-> disk.index]
  BY DEF Shape
<1> QED
  BY <1>1, <1>2 DEF artifacts

LEMMA WriteArtifactLeaves ==
  ASSUME Shape, NEW r \in Req, WriteArtifact(r)
  PROVE  /\ Shape' /\ Others(r) /\ pc[r] = "write_artifact" /\ pc'[r] = "read_index"
         /\ call'[r] = call[r] /\ RunStoreFree(r)
         /\ disk'.index = disk.index
         /\ disk'.artifacts = [m \in DOMAIN disk.artifacts \cup {call[r].run} |->
                                 IF m = call[r].run THEN call[r].artifact
                                 ELSE disk.artifacts[m]]
         /\ UNCHANGED <<runtime, scenario, crashes>>
<1>1. /\ pc[r] = "write_artifact" /\ Goto(r, "read_index") /\ RunStoreFree(r)
      /\ runtime' = runtime /\ scenario' = scenario /\ crashes' = crashes /\ call' = call
      /\ disk' = WithArtifact(call[r].run, call[r].artifact)
  BY DEF WriteArtifact
<1>2. disk' = [artifacts |-> [m \in DOMAIN disk.artifacts \cup {call[r].run} |->
                                IF m = call[r].run THEN call[r].artifact
                                ELSE disk.artifacts[m]],
               index     |-> disk.index]
  BY <1>1, WithArtifactIs
<1>3. /\ Others(r) /\ call'[r] = call[r] /\ pc'[r] = "read_index"
      /\ pc' = [q \in Req |-> pc'[q]] /\ call' = [q \in Req |-> call'[q]]
      /\ \A q \in Req : IsCall(call'[q])
  BY <1>1, CallKept
<1>4. Shape'
  BY <1>1, <1>2, <1>3 DEF Shape
<1> QED
  BY <1>1, <1>2, <1>3, <1>4

LEMMA ReadTheIndexLeaves ==
  ASSUME Shape, NEW r \in Req, ReadTheIndex(r)
  PROVE  /\ Shape' /\ Others(r) /\ pc[r] = "read_index" /\ pc'[r] = "write_index"
         /\ SameOrigin(r) /\ SameRun(r) /\ SameRecord(r)
         /\ call'[r].hit = call[r].hit /\ call'[r].verdict = call[r].verdict
         /\ call'[r].ids = ReadIndex
         /\ UNCHANGED <<runtime, scenario, disk, crashes>>
<1> DEFINE c == [call[r] EXCEPT !.ids = ReadIndex]
<1>1. /\ pc[r] = "read_index" /\ Goto(r, "write_index") /\ call' = [call EXCEPT ![r] = c]
      /\ runtime' = runtime /\ scenario' = scenario /\ disk' = disk /\ crashes' = crashes
  BY DEF ReadTheIndex
<1>2. /\ IsCall(c) /\ c.run = call[r].run /\ c.op = call[r].op
      /\ c.document = call[r].document /\ c.artifact = call[r].artifact
      /\ c.baseline = call[r].baseline /\ c.outcomes = call[r].outcomes
      /\ c.hits = call[r].hits /\ c.status = call[r].status /\ c.failed = call[r].failed
      /\ c.hit = call[r].hit /\ c.verdict = call[r].verdict /\ c.ids = ReadIndex
  BY DEF Shape, IsCall
<1> HIDE DEF c
<1>3. /\ Others(r) /\ call'[r] = c /\ pc'[r] = "write_index"
      /\ pc' = [q \in Req |-> pc'[q]] /\ call' = [q \in Req |-> call'[q]]
      /\ \A q \in Req : IsCall(call'[q])
  BY <1>1, <1>2, CallReplaced
<1>4. Shape'
  BY <1>1, <1>3 DEF Shape
<1> QED
  BY <1>1, <1>2, <1>3, <1>4 DEF SameOrigin, SameRecord, SameRun

LEMMA WriteIndexLeaves ==
  ASSUME Shape, NEW r \in Req, WriteIndex(r)
  PROVE  /\ Shape' /\ Others(r) /\ pc[r] = "write_index"
         /\ pc'[r] = IF call[r].op = "verify" /\ call[r].status = "ok"
                     THEN "load_replay" ELSE "done"
         /\ call'[r] = call[r]
         /\ disk'.artifacts = disk.artifacts
         /\ disk'.index = IF call[r].run \in call[r].ids THEN disk.index
                          ELSE call[r].ids \cup {call[r].run}
         /\ UNCHANGED <<runtime, scenario, crashes>>
<1> DEFINE label == IF call[r].op = "verify" /\ call[r].status = "ok"
                    THEN "load_replay" ELSE "done"
           ids == call[r].ids \cup {call[r].run}
<1>1. /\ pc[r] = "write_index" /\ Goto(r, label)
      /\ runtime' = runtime /\ scenario' = scenario /\ crashes' = crashes /\ call' = call
      /\ disk' = IF call[r].run \in call[r].ids THEN disk ELSE [disk EXCEPT !.index = ids]
  BY DEF WriteIndex
<1> HIDE DEF label, ids
<1>2. /\ disk' = [artifacts |-> disk'.artifacts, index |-> disk'.index]
      /\ disk'.artifacts = disk.artifacts
      /\ disk'.index = IF call[r].run \in call[r].ids THEN disk.index ELSE ids
  BY <1>1 DEF Shape
<1>3. /\ Others(r) /\ call'[r] = call[r] /\ pc'[r] = label
      /\ pc' = [q \in Req |-> pc'[q]] /\ call' = [q \in Req |-> call'[q]]
      /\ \A q \in Req : IsCall(call'[q])
  BY <1>1, CallKept
<1>4. Shape'
  BY <1>1, <1>2, <1>3 DEF Shape
<1> QED
  BY <1>1, <1>2, <1>3, <1>4 DEF label, ids

\* What a write that was cut short leaves of the run directory.
TornBy(r) ==
  /\ disk' = [artifacts |-> disk'.artifacts, index |-> disk'.index]
  /\ ~TornWrites => disk' = disk
  /\ disk'.index = disk.index \/ disk'.index = Torn
  /\ \/ disk'.artifacts = disk.artifacts
     \/ /\ pc[r] = "write_artifact"
        /\ disk'.artifacts = [m \in DOMAIN disk.artifacts \cup {call[r].run} |->
                                IF m = call[r].run THEN Torn ELSE disk.artifacts[m]]

LEMMA CutShortLeaves ==
  ASSUME Shape, NEW r, disk' \in CutShort(r)
  PROVE  TornBy(r)
<1>1. CASE disk' = disk
  <2>1. disk = [artifacts |-> disk.artifacts, index |-> disk.index]
    BY DEF Shape
  <2> QED
    BY <1>1, <2>1 DEF TornBy
<1>2. CASE /\ TornWrites /\ pc[r] = "write_artifact"
           /\ disk' = WithArtifact(call[r].run, Torn)
  <2>1. disk' = [artifacts |-> [m \in DOMAIN disk.artifacts \cup {call[r].run} |->
                                  IF m = call[r].run THEN Torn ELSE disk.artifacts[m]],
                 index     |-> disk.index]
    BY <1>2, WithArtifactIs
  <2> QED
    BY <1>2, <2>1 DEF TornBy
<1>3. CASE TornWrites /\ disk' = [disk EXCEPT !.index = Torn]
  <2>1. disk' = [artifacts |-> disk.artifacts, index |-> Torn]
    BY <1>3 DEF Shape
  <2> QED
    BY <1>3, <2>1 DEF TornBy
<1>4. CASE TornWrites /\ pc[r] = "write_artifact"
  <2>1. CutShort(r) = {disk} \cup {WithArtifact(call[r].run, Torn)}
    BY <1>4 DEF CutShort
  <2> QED
    BY <1>1, <1>2, <1>4, <2>1
<1>5. CASE TornWrites /\ pc[r] = "write_index"
  <2>1. CutShort(r) = {disk} \cup {[disk EXCEPT !.index = Torn]}
    BY <1>5 DEF CutShort
  <2> QED
    BY <1>1, <1>3, <1>5, <2>1
<1>6. CASE ~(TornWrites /\ pc[r] \in {"write_artifact", "write_index"})
  <2>1. CutShort(r) = {disk} \cup {}
    BY <1>6 DEF CutShort
  <2> QED
    BY <1>1, <2>1
<1> QED
  BY <1>4, <1>5, <1>6

LEMMA WriteFailsLeaves ==
  ASSUME Shape, NEW r \in Req, WriteFails(r)
  PROVE  /\ Shape' /\ Others(r) /\ pc[r] \in {"write_artifact", "write_index"}
         /\ pc'[r] = "done" /\ TornBy(r)
         /\ SameOrigin(r) /\ SameRun(r) /\ call'[r].verdict = call[r].verdict
         /\ call'[r].status = "lost"
         /\ UNCHANGED <<runtime, scenario, crashes>>
<1> DEFINE c == [call[r] EXCEPT !.status = "lost"]
<1>1. /\ pc[r] \in {"write_artifact", "write_index"} /\ Goto(r, "done")
      /\ disk' \in CutShort(r) /\ call' = [call EXCEPT ![r] = c]
      /\ runtime' = runtime /\ scenario' = scenario /\ crashes' = crashes
  BY DEF WriteFails
<1>2. TornBy(r)
  BY <1>1, CutShortLeaves
<1>3. /\ IsCall(c) /\ c.run = call[r].run /\ c.op = call[r].op
      /\ c.document = call[r].document /\ c.artifact = call[r].artifact
      /\ c.baseline = call[r].baseline /\ c.outcomes = call[r].outcomes
      /\ c.hits = call[r].hits /\ c.status = "lost" /\ c.failed = call[r].failed
      /\ c.hit = call[r].hit /\ c.verdict = call[r].verdict
  BY DEF Shape, IsCall
<1> HIDE DEF c
<1>4. /\ Others(r) /\ call'[r] = c /\ pc'[r] = "done"
      /\ pc' = [q \in Req |-> pc'[q]] /\ call' = [q \in Req |-> call'[q]]
      /\ \A q \in Req : IsCall(call'[q])
  BY <1>1, <1>3, CallReplaced
<1>5. Shape'
  BY <1>1, <1>2, <1>4 DEF Shape, TornBy
<1> QED
  BY <1>1, <1>2, <1>3, <1>4, <1>5 DEF SameOrigin, SameRun

LEMMA CompareLeaves ==
  ASSUME Shape, NEW r \in Req, Compare(r)
  PROVE  /\ Shape' /\ Others(r) /\ pc[r] = "load_replay" /\ pc'[r] = "done"
         /\ SameOrigin(r) /\ SameRun(r) /\ SameRecord(r)
         /\ \/ call'[r].verdict = call[r].verdict
            \/ /\ call[r].run \in Loadable
               /\ call'[r].verdict =
                    DeterministicMatch(call[r].baseline, disk.artifacts[call[r].run])
         /\ UNCHANGED <<runtime, scenario, disk, crashes>>
<1>1. /\ pc[r] = "load_replay" /\ Goto(r, "done")
      /\ runtime' = runtime /\ scenario' = scenario /\ disk' = disk /\ crashes' = crashes
  BY DEF Compare
<1>2. CASE call' = call
  <2>1. /\ Others(r) /\ call'[r] = call[r] /\ pc'[r] = "done"
        /\ pc' = [q \in Req |-> pc'[q]] /\ call' = [q \in Req |-> call'[q]]
        /\ \A q \in Req : IsCall(call'[q])
    BY <1>1, <1>2, CallKept
  <2>2. Shape'
    BY <1>1, <2>1 DEF Shape
  <2> QED
    BY <1>1, <2>1, <2>2 DEF SameOrigin, SameRecord, SameRun
<1>3. CASE call' # call
  <2> DEFINE match == DeterministicMatch(call[r].baseline, disk.artifacts[call[r].run])
             c == [call[r] EXCEPT !.verdict = match]
  <2>1. call[r].run \in Loadable /\ call' = [call EXCEPT ![r] = c]
    BY <1>3 DEF Compare
  <2> HIDE DEF match
  <2>2. /\ IsCall(c) /\ c.run = call[r].run /\ c.op = call[r].op
        /\ c.document = call[r].document /\ c.artifact = call[r].artifact
        /\ c.baseline = call[r].baseline /\ c.outcomes = call[r].outcomes
        /\ c.hits = call[r].hits /\ c.status = call[r].status /\ c.failed = call[r].failed
        /\ c.hit = call[r].hit /\ c.verdict = match
    BY DEF Shape, IsCall
  <2> HIDE DEF c
  <2>3. /\ Others(r) /\ call'[r] = c /\ pc'[r] = "done"
        /\ pc' = [q \in Req |-> pc'[q]] /\ call' = [q \in Req |-> call'[q]]
        /\ \A q \in Req : IsCall(call'[q])
    BY <1>1, <2>1, <2>2, CallReplaced
  <2>4. Shape'
    BY <1>1, <2>3 DEF Shape
  <2> QED
    BY <1>1, <2>1, <2>2, <2>3, <2>4 DEF SameOrigin, SameRecord, SameRun, match
<1> QED
  BY <1>2, <1>3

LEMMA BundleStateLeaves ==
  ASSUME Shape, NEW r \in Req, BundleState(r)
  PROVE  /\ Shape' /\ Others(r) /\ pc[r] = "bundle_state" /\ pc'[r] = "done"
         /\ SameOrigin(r) /\ SameRecord(r) /\ call'[r].verdict = call[r].verdict
         /\ call'[r].run = call[r].run
         /\ call'[r].artifact.document = call[r].artifact.document
         /\ call'[r].artifact.report = call[r].artifact.report
         /\ UNCHANGED <<runtime, scenario, disk, crashes>>
<1> DEFINE document == call[r].artifact.document
           report == call[r].artifact.report
           artifact == [document |-> document, report |-> report,
                        events |-> runtime.kernel.events, snapshot |-> FullSnapshot(runtime)]
           c == [call[r] EXCEPT !.artifact = artifact]
<1>1. /\ pc[r] = "bundle_state" /\ Goto(r, "done")
      /\ runtime' = runtime /\ scenario' = scenario /\ disk' = disk /\ crashes' = crashes
  BY DEF BundleState
<1>2. call' = [call EXCEPT ![r] = c]
  <2>1. call' = [call EXCEPT ![r].artifact =
                   [document |-> @.document, report |-> @.report,
                    events |-> runtime.kernel.events, snapshot |-> FullSnapshot(runtime)]]
    BY DEF BundleState
  <2> QED
    BY <2>1
<1>3. artifact.document = document /\ artifact.report = report
  OBVIOUS
<1> HIDE DEF artifact, document, report
<1>4. /\ IsCall(c) /\ c.run = call[r].run /\ c.op = call[r].op
      /\ c.document = call[r].document /\ c.artifact = artifact
      /\ c.baseline = call[r].baseline /\ c.outcomes = call[r].outcomes
      /\ c.hits = call[r].hits /\ c.status = call[r].status /\ c.failed = call[r].failed
      /\ c.hit = call[r].hit /\ c.verdict = call[r].verdict
  BY DEF Shape, IsCall
<1> HIDE DEF c
<1>5. /\ Others(r) /\ call'[r] = c /\ pc'[r] = "done"
      /\ pc' = [q \in Req |-> pc'[q]] /\ call' = [q \in Req |-> call'[q]]
      /\ \A q \in Req : IsCall(call'[q])
  BY <1>1, <1>2, <1>4, CallReplaced
<1>6. Shape'
  BY <1>1, <1>5 DEF Shape
<1> QED
  BY <1>1, <1>3, <1>4, <1>5, <1>6 DEF SameOrigin, SameRecord, document, report

\* Requests that end with a section on the runtime or on the fault rules.
LEMMA LastSectionLeaves ==
  ASSUME Shape, NEW r \in Req, RecordRequest(r) \/ ClearFaults(r)
  PROVE  /\ Shape' /\ Others(r) /\ pc[r] \in {"record", "clear_faults"} /\ pc'[r] = "done"
         /\ call'[r] = call[r] /\ StoreSame
         /\ \/ scenario' = scenario
            \/ scenario'.rule = Nil /\ scenario'.decisionIndex = 0
         /\ \/ runtime' = runtime
            \/ \E body : runtime'.kernel = RecordEvent(runtime.kernel, body)
<1>1. CASE RecordRequest(r)
  <2> DEFINE body == [action |-> "data", outcome |-> "ok", fault |-> Nil]
             kernel == RecordEvent(runtime.kernel, body)
  <2>1. /\ pc[r] = "record" /\ Goto(r, "done")
        /\ runtime' = [runtime EXCEPT !.kernel = kernel]
        /\ scenario' = scenario /\ disk' = disk /\ crashes' = crashes /\ call' = call
    BY <1>1 DEF RecordRequest
  <2>2. IsKernel(kernel)
    BY RecordFields DEF Shape, IsRuntime
  <2>3. \E b : kernel = RecordEvent(runtime.kernel, b)
    OBVIOUS
  <2> HIDE DEF kernel
  <2>4. runtime' = [kernel |-> kernel, service |-> runtime.service]
    BY <2>1 DEF Shape, IsRuntime
  <2>5. /\ Others(r) /\ call'[r] = call[r] /\ pc'[r] = "done"
        /\ pc' = [q \in Req |-> pc'[q]] /\ call' = [q \in Req |-> call'[q]]
        /\ \A q \in Req : IsCall(call'[q])
    BY <2>1, CallKept
  <2>6. Shape'
    BY <2>1, <2>2, <2>4, <2>5 DEF Shape, IsRuntime
  <2> QED
    BY <2>1, <2>3, <2>4, <2>5, <2>6 DEF StoreSame
<1>2. CASE ClearFaults(r)
  <2>1. /\ pc[r] = "clear_faults" /\ Goto(r, "done")
        /\ scenario' = [scenario EXCEPT !.rule = Nil, !.decisionIndex = 0]
        /\ runtime' = runtime /\ disk' = disk /\ crashes' = crashes /\ call' = call
    BY <1>2 DEF ClearFaults
  <2>2. scenario' = [rule |-> Nil, decisionIndex |-> 0, nextRunId |-> scenario.nextRunId,
                     runs |-> scenario.runs]
    BY <2>1 DEF Shape
  <2>3. /\ Others(r) /\ call'[r] = call[r] /\ pc'[r] = "done"
        /\ pc' = [q \in Req |-> pc'[q]] /\ call' = [q \in Req |-> call'[q]]
        /\ \A q \in Req : IsCall(call'[q])
    BY <2>1, CallKept
  <2>4. Shape'
    BY <2>1, <2>2, <2>3 DEF Shape
  <2> QED
    BY <2>1, <2>2, <2>3, <2>4 DEF StoreSame
<1> QED
  BY <1>1, <1>2

-----------------------------------------------------------------------------
(* The requests that arrive. *)

RunOps == {"apply", "replay", "verify"}

\* A call that has done nothing yet.
Fresh(r) ==
  /\ call'[r].run = Nil /\ call'[r].status = "ok" /\ call'[r].outcomes = <<>>
  /\ call'[r].hits = <<>> /\ call'[r].hit = Nil /\ call'[r].failed = FALSE
  /\ call'[r].verdict = Nil

Begins(r) == pc[r] = "idle" /\ Cardinality(InFlight) < MaxInFlight

\* Where the scenario of a replay or the baseline of a verification is from.
KeptDocument(document) ==
  \/ \E n \in DOMAIN scenario.runs : document = scenario.runs[n].document
  \/ \E n \in Loadable : document = disk.artifacts[n].document

BegunRun(r) ==
  \/ /\ call'[r].op = "apply" /\ call'[r].document \in Scenarios
     /\ call'[r].baseline = Nil
  \/ /\ call'[r].op = "replay" /\ KeptDocument(call'[r].document)
     /\ call'[r].baseline = Nil
  \/ /\ call'[r].op = "verify"
     /\ \E n \in Loadable : /\ call'[r].baseline = disk.artifacts[n]
                             /\ call'[r].document = disk.artifacts[n].document

LEMMA RunBeginsLeaves ==
  ASSUME Shape, NEW r \in Req, Apply(r) \/ Replay(r) \/ VerifyReplay(r)
  PROVE  /\ Shape' /\ Others(r) /\ Begins(r) /\ pc'[r] = "allocate" /\ Fresh(r)
         /\ call'[r].artifact = Nil /\ BegunRun(r)
         /\ UNCHANGED <<runtime, scenario, disk, crashes>>
<1>1. /\ Begins(r) /\ Goto(r, "allocate")
      /\ runtime' = runtime /\ scenario' = scenario /\ disk' = disk /\ crashes' = crashes
  BY DEF Apply, Replay, VerifyReplay, Arrive, Begins
<1>2. ASSUME NEW op, NEW document,
             call' = [call EXCEPT ![r] = [NewCall(op) EXCEPT !.document = document]]
      PROVE  /\ Shape' /\ Others(r) /\ pc'[r] = "allocate" /\ Fresh(r)
             /\ call'[r].artifact = Nil /\ call'[r].op = op
             /\ call'[r].document = document /\ call'[r].baseline = Nil
  <2> DEFINE c == [NewCall(op) EXCEPT !.document = document]
  <2>2. call' = [call EXCEPT ![r] = c]
    BY <1>2
  <2> HIDE DEF c
  <2>1. /\ IsCall(c) /\ c.op = op /\ c.run = Nil /\ c.status = "ok"
        /\ c.outcomes = <<>> /\ c.hits = <<>> /\ c.hit = Nil /\ c.failed = FALSE
        /\ c.verdict = Nil /\ c.document = document /\ c.baseline = Nil
        /\ c.artifact = Nil
    <3> DEFINE d == NewCall(op)
    <3>1. /\ IsCall(d) /\ d.op = op /\ d.run = Nil /\ d.status = "ok"
          /\ d.outcomes = <<>> /\ d.hits = <<>> /\ d.hit = Nil /\ d.failed = FALSE
          /\ d.verdict = Nil /\ d.document = Nil /\ d.baseline = Nil
          /\ d.artifact = Nil
      BY NewCallIs
    <3>2. c = [d EXCEPT !.document = document]
      BY DEF c
    <3> HIDE DEF d
    <3> QED
      BY <3>1, <3>2 DEF IsCall
  <2>3. /\ Others(r) /\ call'[r] = c /\ pc'[r] = "allocate"
        /\ pc' = [q \in Req |-> pc'[q]] /\ call' = [q \in Req |-> call'[q]]
        /\ \A q \in Req : IsCall(call'[q])
    BY <1>1, <2>1, <2>2, CallReplaced
  <2> QED
    BY <1>1, <2>1, <2>3 DEF Shape, Fresh
<1>3. CASE Apply(r)
  <2>1. PICK sc \in Scenarios :
          call' = [call EXCEPT ![r] = [NewCall("apply") EXCEPT !.document = sc]]
    BY <1>3 DEF Apply
  <2>2. /\ Shape' /\ Others(r) /\ pc'[r] = "allocate" /\ Fresh(r)
        /\ call'[r].artifact = Nil /\ call'[r].op = "apply"
        /\ call'[r].document = sc /\ call'[r].baseline = Nil
    BY ONLY <1>2, <2>1
  <2>3. BegunRun(r)
    BY ONLY <2>1, <2>2 DEF BegunRun
  <2> QED
    BY ONLY <1>1, <2>2, <2>3
<1>4. CASE Replay(r)
  <2>1. PICK document :
          /\ KeptDocument(document)
          /\ call' = [call EXCEPT ![r] = [NewCall("replay") EXCEPT !.document = document]]
    <3>1. CASE \E n \in DOMAIN scenario.runs : StartReplay(r, scenario.runs[n].document)
      BY <3>1 DEF StartReplay, KeptDocument
    <3>2. CASE \E n \in Loadable \ DOMAIN scenario.runs :
                 StartReplay(r, disk.artifacts[n].document)
      BY <3>2 DEF StartReplay, KeptDocument
    <3> QED
      BY <1>4, <3>1, <3>2 DEF Replay
  <2>2. /\ Shape' /\ Others(r) /\ pc'[r] = "allocate" /\ Fresh(r)
        /\ call'[r].artifact = Nil /\ call'[r].op = "replay"
        /\ call'[r].document = document /\ call'[r].baseline = Nil
    BY ONLY <1>2, <2>1
  <2>3. BegunRun(r)
    BY ONLY <2>1, <2>2 DEF BegunRun
  <2> QED
    BY ONLY <1>1, <2>2, <2>3
<1>5. CASE VerifyReplay(r)
  <2>1. PICK n \in Loadable :
          call' = [call EXCEPT ![r] =
                     [NewCall("verify") EXCEPT !.document = disk.artifacts[n].document,
                                               !.baseline = disk.artifacts[n]]]
    BY <1>5 DEF VerifyReplay
  <2> DEFINE document == disk.artifacts[n].document
             baseline == disk.artifacts[n]
             c == [NewCall("verify") EXCEPT !.document = document, !.baseline = baseline]
  <2>2. call' = [call EXCEPT ![r] = c]
    BY <2>1
  <2>3. /\ document = disk.artifacts[n].document /\ baseline = disk.artifacts[n]
    OBVIOUS
  <2> HIDE DEF document, baseline, c
  <2>4. /\ IsCall(c) /\ c.op = "verify" /\ c.run = Nil /\ c.status = "ok"
        /\ c.outcomes = <<>> /\ c.hits = <<>> /\ c.hit = Nil /\ c.failed = FALSE
        /\ c.verdict = Nil /\ c.document = document /\ c.baseline = baseline
        /\ c.artifact = Nil
    <3> DEFINE d == NewCall("verify")
               e == [d EXCEPT !.document = document]
    <3>1. /\ IsCall(d) /\ d.op = "verify" /\ d.run = Nil /\ d.status = "ok"
          /\ d.outcomes = <<>> /\ d.hits = <<>> /\ d.hit = Nil /\ d.failed = FALSE
          /\ d.verdict = Nil /\ d.document = Nil /\ d.baseline = Nil
          /\ d.artifact = Nil
      BY NewCallIs
    <3>2. c = [e EXCEPT !.baseline = baseline]
      BY DEF c
    <3> HIDE DEF d
    <3>3. /\ IsCall(e) /\ e.op = "verify" /\ e.run = Nil /\ e.status = "ok"
          /\ e.outcomes = <<>> /\ e.hits = <<>> /\ e.hit = Nil /\ e.failed = FALSE
          /\ e.verdict = Nil /\ e.document = document /\ e.baseline = Nil
          /\ e.artifact = Nil
      BY <3>1 DEF IsCall
    <3> HIDE DEF e
    <3> QED
      BY <3>2, <3>3 DEF IsCall
  <2>5. /\ Others(r) /\ call'[r] = c /\ pc'[r] = "allocate"
        /\ pc' = [q \in Req |-> pc'[q]] /\ call' = [q \in Req |-> call'[q]]
        /\ \A q \in Req : IsCall(call'[q])
    BY <1>1, <2>2, <2>4, CallReplaced
  <2>6. Shape' /\ Fresh(r) /\ call'[r].artifact = Nil
    BY <1>1, <2>4, <2>5 DEF Shape, Fresh
  <2>7. BegunRun(r)
    BY <2>3, <2>4, <2>5 DEF BegunRun
  <2> QED
    BY <1>1, <2>5, <2>6, <2>7
<1> QED
  BY <1>3, <1>4, <1>5

LEMMA BundleBeginsLeaves ==
  ASSUME Shape, NEW r \in Req, BundleFromMemory(r) \/ BundleFromDisk(r)
  PROVE  /\ Shape' /\ Others(r) /\ Begins(r) /\ pc'[r] \in {"bundle_state", "done"}
         /\ Fresh(r) /\ call'[r].op = "bundle" /\ call'[r].baseline = Nil
         /\ \/ \E n \in DOMAIN scenario.runs : call'[r].artifact = scenario.runs[n]
            \/ \E n \in Loadable : call'[r].artifact = disk.artifacts[n]
         /\ UNCHANGED <<runtime, scenario, disk, crashes>>
<1>1. /\ Begins(r) /\ (Goto(r, "bundle_state") \/ Goto(r, "done"))
      /\ runtime' = runtime /\ scenario' = scenario /\ disk' = disk /\ crashes' = crashes
  BY DEF BundleFromMemory, BundleFromDisk, Arrive, Begins
<1>2. PICK artifact :
        /\ \/ \E n \in DOMAIN scenario.runs : artifact = scenario.runs[n]
           \/ \E n \in Loadable : artifact = disk.artifacts[n]
        /\ call' = [call EXCEPT ![r] = [NewCall("bundle") EXCEPT !.artifact = artifact]]
  BY DEF BundleFromMemory, BundleFromDisk
<1>3. PICK label \in {"bundle_state", "done"} : Goto(r, label)
  BY <1>1
<1> DEFINE c == [NewCall("bundle") EXCEPT !.artifact = artifact]
<1>5. call' = [call EXCEPT ![r] = c]
  BY <1>2
<1> HIDE DEF c
<1>4. /\ IsCall(c) /\ c.op = "bundle" /\ c.run = Nil /\ c.status = "ok"
      /\ c.outcomes = <<>> /\ c.hits = <<>> /\ c.hit = Nil /\ c.failed = FALSE
      /\ c.verdict = Nil /\ c.document = Nil /\ c.baseline = Nil
      /\ c.artifact = artifact
  <2> DEFINE d == NewCall("bundle")
  <2>1. /\ IsCall(d) /\ d.op = "bundle" /\ d.run = Nil /\ d.status = "ok"
        /\ d.outcomes = <<>> /\ d.hits = <<>> /\ d.hit = Nil /\ d.failed = FALSE
        /\ d.verdict = Nil /\ d.document = Nil /\ d.baseline = Nil
        /\ d.artifact = Nil
    BY NewCallIs
  <2>2. c = [d EXCEPT !.artifact = artifact]
    BY DEF c
  <2> HIDE DEF d
  <2> QED
    BY <2>1, <2>2 DEF IsCall
<1>6. /\ Others(r) /\ call'[r] = c /\ pc'[r] = label
      /\ pc' = [q \in Req |-> pc'[q]] /\ call' = [q \in Req |-> call'[q]]
      /\ \A q \in Req : IsCall(call'[q])
  BY <1>3, <1>4, <1>5, CallReplaced
<1>7. Shape' /\ Fresh(r)
  BY <1>1, <1>4, <1>6 DEF Shape, Fresh
<1> QED
  BY <1>1, <1>2, <1>3, <1>4, <1>6, <1>7

LEMMA OtherBeginsLeaves ==
  ASSUME Shape, NEW r \in Req,
         HandleRequest(r) \/ Reset(r) \/ Seed(r) \/ RestoreSnapshot(r)
  PROVE  /\ Shape' /\ Others(r) /\ Begins(r)
         /\ pc'[r] \in {"record", "clear_faults", "done"}
         /\ Fresh(r) /\ call'[r].op \in {"data", "reset", "seed", "restore"}
         /\ call'[r].artifact = Nil /\ call'[r].baseline = Nil
         /\ LogKept \/ LogEmptied
         /\ UNCHANGED <<scenario, disk, crashes>>
<1>1. /\ Begins(r)
      /\ scenario' = scenario /\ disk' = disk /\ crashes' = crashes
      /\ \E op \in {"data", "reset", "seed", "restore"} :
            call' = [call EXCEPT ![r] = NewCall(op)]
      /\ \E label \in {"record", "clear_faults", "done"} : Goto(r, label)
  BY DEF HandleRequest, Reset, Seed, RestoreSnapshot, Arrive, Begins
<1>2. PICK op \in {"data", "reset", "seed", "restore"} :
        call' = [call EXCEPT ![r] = NewCall(op)]
  BY <1>1
<1>3. PICK label \in {"record", "clear_faults", "done"} : Goto(r, label)
  BY <1>1
<1> DEFINE c == NewCall(op)
<1>4. /\ IsCall(c) /\ c.op = op /\ c.document = Nil /\ c.baseline = Nil
      /\ c.artifact = Nil /\ c.run = Nil /\ c.status = "ok" /\ c.outcomes = <<>>
      /\ c.hits = <<>> /\ c.hit = Nil /\ c.failed = FALSE /\ c.verdict = Nil
  BY NewCallIs
<1> HIDE DEF c
<1>5. /\ Others(r) /\ call'[r] = c /\ pc'[r] = label
      /\ pc' = [q \in Req |-> pc'[q]] /\ call' = [q \in Req |-> call'[q]]
      /\ \A q \in Req : IsCall(call'[q])
  BY <1>2, <1>3, <1>4, CallReplaced DEF c
<1>6. /\ IsRuntime([runtime EXCEPT !.kernel = ClearActiveSession(@)])
      /\ \A config : /\ IsRuntime(Cleared(config))
                     /\ Cleared(config).kernel.events = <<>>
                     /\ Cleared(config).kernel.nextSequence = 1
  <2> DEFINE kernel == ClearActiveSession(runtime.kernel)
             rt == [runtime EXCEPT !.kernel = kernel]
  <2>1. IsKernel(kernel)
    BY KeptKernelFields DEF Shape, IsRuntime
  <2>2. rt = [kernel |-> kernel, service |-> runtime.service]
    BY RuntimeFields DEF Shape
  <2> HIDE DEF kernel, rt
  <2>3. IsRuntime(rt)
    BY <2>1, <2>2 DEF IsRuntime
  <2>4. ASSUME NEW config
        PROVE  /\ IsRuntime(ResetRuntime(rt, config))
               /\ ResetRuntime(rt, config).kernel.events = <<>>
               /\ ResetRuntime(rt, config).kernel.nextSequence = 1
    <3>1. /\ IsRuntime(ResetRuntime(rt, config))
          /\ ResetRuntime(rt, config).kernel = ResetKernel(rt.kernel, config)
      BY <2>3, RuntimeFields
    <3>2. /\ ResetKernel(rt.kernel, config).events = <<>>
          /\ ResetKernel(rt.kernel, config).nextSequence = 1
      BY FreshKernelFields
    <3> QED
      BY <3>1, <3>2
  <2>5. rt = [runtime EXCEPT !.kernel = ClearActiveSession(@)]
    BY DEF rt, kernel
  <2>6. \A config : Cleared(config) = ResetRuntime(rt, config)
    BY <2>5 DEF Cleared
  <2> QED
    BY <2>3, <2>4, <2>5, <2>6
<1>7. IsRuntime(runtime') /\ (LogKept \/ LogEmptied)
  <2>1. CASE HandleRequest(r)
    <3>1. runtime' = [runtime EXCEPT !.service = Append(@, "data")]
      BY <2>1 DEF HandleRequest
    <3>2. runtime' = [kernel |-> runtime.kernel, service |-> Append(runtime.service, "data")]
      BY <3>1, RuntimeFields DEF Shape
    <3> QED
      BY <3>2 DEF Shape, IsRuntime, LogKept
  <2>2. CASE Reset(r)
    BY <1>6, <2>2 DEF Reset, LogEmptied
  <2>3. CASE Seed(r)
    <3> DEFINE cleared == Cleared([seed |-> 0, start |-> 0])
    <3>1. /\ IsRuntime(cleared) /\ cleared.kernel.events = <<>>
          /\ cleared.kernel.nextSequence = 1
      BY <1>6
    <3>2. runtime' = [cleared EXCEPT !.service = Append(@, "seed")] \/ runtime' = cleared
      BY <2>3 DEF Seed
    <3> HIDE DEF cleared
    <3>3. [cleared EXCEPT !.service = Append(@, "seed")]
            = [kernel |-> cleared.kernel, service |-> Append(cleared.service, "seed")]
      BY <3>1, RuntimeFields
    <3> QED
      BY <3>1, <3>2, <3>3 DEF LogEmptied, IsRuntime
  <2>4. CASE RestoreSnapshot(r)
    <3>1. PICK n \in Loadable :
            runtime' = FullRestore(runtime, disk.artifacts[n].snapshot, TRUE)
      BY <2>4 DEF RestoreSnapshot
    <3>2. /\ IsRuntime(runtime')
          /\ runtime'.kernel = RestoreKernel(runtime.kernel, disk.artifacts[n].snapshot)
      BY <3>1, RuntimeFields DEF Shape
    <3> QED
      BY <3>2, KeptKernelFields DEF LogKept, Shape, IsRuntime
  <2> QED
    BY <2>1, <2>2, <2>3, <2>4
<1>8. Shape' /\ Fresh(r)
  BY <1>1, <1>4, <1>5, <1>7 DEF Shape, Fresh
<1> QED
  BY <1>1, <1>3, <1>4, <1>5, <1>7, <1>8

LEMMA DisconnectLeaves ==
  ASSUME Shape, NEW r \in Req, Disconnect(r)
  PROVE  /\ Shape' /\ Others(r) /\ call' = call
         /\ r \in InFlight /\ pc[r] \notin {"read_index", "write_index"} /\ pc'[r] = "gone"
         /\ UNCHANGED <<runtime, scenario, disk, crashes>>
<1>1. /\ r \in InFlight /\ pc[r] \notin {"read_index", "write_index"} /\ Goto(r, "gone")
      /\ runtime' = runtime /\ scenario' = scenario /\ disk' = disk
      /\ crashes' = crashes /\ call' = call
  BY DEF Disconnect
<1>2. /\ Others(r) /\ call'[r] = call[r] /\ pc'[r] = "gone"
      /\ pc' = [q \in Req |-> pc'[q]] /\ call' = [q \in Req |-> call'[q]]
      /\ \A q \in Req : IsCall(call'[q])
  BY <1>1, CallKept
<1>3. Shape'
  BY <1>1, <1>2 DEF Shape
<1> QED
  BY <1>1, <1>2, <1>3

LEMMA CrashLeaves ==
  ASSUME Shape, CrashAndRestart
  PROVE  /\ Shape' /\ call' = call
         /\ \A q \in Req : pc'[q] = IF q \in InFlight THEN "gone" ELSE pc[q]
         /\ disk' = disk \/ \E r \in Req : RunStoreFree(r) /\ TornBy(r)
         /\ scenario'.nextRunId = NextRunId(ReadIndex') /\ DOMAIN scenario'.runs = {}
         /\ scenario'.decisionIndex = 0 /\ scenario'.rule = Nil
         /\ LogEmptied
         /\ crashes < MaxCrashes /\ crashes' = crashes + 1
<1>1. /\ crashes < MaxCrashes /\ crashes' = crashes + 1
      /\ runtime' = NewRuntime(StartConfig)
      /\ pc' = [q \in Req |-> IF q \in InFlight THEN "gone" ELSE pc[q]]
      /\ call' = call
  BY DEF CrashAndRestart
<1>2. disk' = disk \/ \E r \in Req : RunStoreFree(r) /\ TornBy(r)
  BY CutShortLeaves DEF CrashAndRestart
<1>3. disk' = [artifacts |-> disk'.artifacts, index |-> disk'.index]
  BY <1>2 DEF Shape, TornBy
<1> DEFINE number == NextRunId(ReadIndex')
           runs == [n \in {} |-> Nil]
<1>4. scenario' = [rule |-> Nil, decisionIndex |-> 0, nextRunId |-> number, runs |-> runs]
  BY DEF CrashAndRestart, FreshScenarioRuntime
<1>5. DOMAIN runs = {}
  OBVIOUS
<1> HIDE DEF number, runs
<1>6. IsRuntime(runtime') /\ LogEmptied
  BY <1>1, FreshKernelFields DEF NewRuntime, IsRuntime, LogEmptied
<1>7. Shape'
  BY <1>1, <1>3, <1>4, <1>6 DEF Shape
<1>8. \A q \in Req : pc'[q] = IF q \in InFlight THEN "gone" ELSE pc[q]
  BY <1>1
<1> QED
  BY <1>1, <1>2, <1>4, <1>5, <1>6, <1>7, <1>8 DEF number

LEMMA InitShape ==
  ASSUME Init
  PROVE  Shape /\ runtime.kernel.events = <<>> /\ runtime.kernel.nextSequence = 1
<1>1. IsRuntime(runtime) /\ runtime.kernel.events = <<>> /\ runtime.kernel.nextSequence = 1
  BY FreshKernelFields DEF Init, NewRuntime, IsRuntime
<1>2. \A r \in Req : call[r] = NewCall(Nil)
  BY DEF Init
<1>3. \A r \in Req : IsCall(call[r])
  BY <1>2, NewCallIs
<1>4. /\ scenario = [rule |-> scenario.rule, decisionIndex |-> scenario.decisionIndex,
                     nextRunId |-> scenario.nextRunId, runs |-> scenario.runs]
      /\ disk = [artifacts |-> disk.artifacts, index |-> disk.index]
  <2> DEFINE number == NextRunId(ReadIndex)
             runs == [n \in {} |-> Nil]
  <2>1. scenario = [rule |-> Nil, decisionIndex |-> 0, nextRunId |-> number, runs |-> runs]
        /\ disk = [artifacts |-> runs, index |-> {}]
    BY DEF Init, FreshScenarioRuntime
  <2> HIDE DEF number, runs
  <2> QED
    BY <2>1
<1> QED
  BY <1>1, <1>3, <1>4 DEF Init, Shape

-----------------------------------------------------------------------------
(* The shape is kept, and with it how many requests are in progress. *)

\* The sections of a run before it is finished leave the store alone.
LEMMA RunningSteps ==
  ASSUME Shape, NEW r \in Req,
         \/ Initialise(r) \/ InstallFaults(r) \/ ReadSeed(r) \/ Draw(r)
         \/ FailAction(r) \/ ExecuteAction(r) \/ CheckAssertions(r)
  PROVE  Shape' /\ RunningStep(r)
<1>1. CASE Initialise(r)
  BY <1>1, InitialiseLeaves DEF RunningStep, InRun, StoreSame, SameOrigin, SameRun
<1>2. CASE InstallFaults(r)
  BY <1>2, InstallFaultsLeaves DEF RunningStep, InRun, StoreSame
<1>3. CASE ReadSeed(r)
  BY <1>3, ReadSeedLeaves DEF RunningStep, InRun, StoreSame, SameOrigin, SameRun
<1>4. CASE Draw(r)
  BY <1>4, DrawLeaves DEF RunningStep, InRun, StoreSame, SameOrigin, SameRun
<1>5. CASE FailAction(r)
  BY <1>5, FailActionLeaves DEF RunningStep, InRun, StoreSame, RecordedAs, SameOrigin, SameRun
<1>6. CASE ExecuteAction(r)
  <2> DEFINE outcome == IF NextAction(r) \in RefusedActions THEN "error" ELSE "ok"
  <2> HIDE DEF outcome
  <2>1. outcome = IF NextAction(r) \in RefusedActions THEN "error" ELSE "ok"
    BY DEF outcome
  <2> QED
    BY <1>6, <2>1, ExecuteActionLeaves
    DEF RunningStep, InRun, StoreSame, RecordedAs, SameOrigin, SameRun
<1>7. CASE CheckAssertions(r)
  <2> DEFINE failed == (runtime.service # <<"seed">> \o Document(r).timeline)
  <2>1. failed = (runtime.service # <<"seed">> \o Document(r).timeline)
    OBVIOUS
  <2> HIDE DEF failed
  <2> QED
    BY <1>7, <2>1, CheckAssertionsLeaves DEF RunningStep, InRun, StoreSame, SameOrigin, SameRun
<1> QED
  BY <1>1, <1>2, <1>3, <1>4, <1>5, <1>6, <1>7

\* Every step is one of these: the sections that touch the store or end a
\* request, one by one, and the rest in groups.
LEMMA Steps ==
  ASSUME Next
  PROVE  \/ \E r \in Req :
               \/ Apply(r) \/ Replay(r) \/ VerifyReplay(r)
               \/ BundleFromMemory(r) \/ BundleFromDisk(r)
               \/ HandleRequest(r) \/ Reset(r) \/ Seed(r) \/ RestoreSnapshot(r)
               \/ AllocateRunId(r)
               \/ Initialise(r) \/ InstallFaults(r) \/ ReadSeed(r) \/ Draw(r)
               \/ FailAction(r) \/ ExecuteAction(r) \/ CheckAssertions(r)
               \/ Finalise(r) \/ Keep(r)
               \/ WriteArtifact(r) \/ ReadTheIndex(r) \/ WriteIndex(r) \/ WriteFails(r)
               \/ Compare(r) \/ BundleState(r) \/ RecordRequest(r) \/ ClearFaults(r)
               \/ Disconnect(r)
         \/ CrashAndRestart
         \/ UNCHANGED vars
<1>1. ASSUME NEW r \in Req, Begin(r) \/ Continue(r)
      PROVE  \/ Apply(r) \/ Replay(r) \/ VerifyReplay(r)
             \/ BundleFromMemory(r) \/ BundleFromDisk(r)
             \/ HandleRequest(r) \/ Reset(r) \/ Seed(r) \/ RestoreSnapshot(r)
             \/ AllocateRunId(r)
             \/ Initialise(r) \/ InstallFaults(r) \/ ReadSeed(r) \/ Draw(r)
             \/ FailAction(r) \/ ExecuteAction(r) \/ CheckAssertions(r)
             \/ Finalise(r) \/ Keep(r)
             \/ WriteArtifact(r) \/ ReadTheIndex(r) \/ WriteIndex(r) \/ WriteFails(r)
             \/ Compare(r) \/ BundleState(r) \/ RecordRequest(r) \/ ClearFaults(r)
  BY <1>1 DEF Begin, Continue
<1> QED
  BY <1>1 DEF Next, AllAnswered

LEMMA ShapeStep == ASSUME Shape, [Next]_vars PROVE Shape'
<1>1. ASSUME NEW r \in Req, Apply(r) \/ Replay(r) \/ VerifyReplay(r) PROVE Shape'
  BY <1>1, RunBeginsLeaves
<1>2. ASSUME NEW r \in Req, BundleFromMemory(r) \/ BundleFromDisk(r) PROVE Shape'
  BY <1>2, BundleBeginsLeaves
<1>3. ASSUME NEW r \in Req, HandleRequest(r) \/ Reset(r) \/ Seed(r) \/ RestoreSnapshot(r)
      PROVE  Shape'
  BY <1>3, OtherBeginsLeaves
<1>4. ASSUME NEW r \in Req,
             \/ Initialise(r) \/ InstallFaults(r) \/ ReadSeed(r) \/ Draw(r)
             \/ FailAction(r) \/ ExecuteAction(r) \/ CheckAssertions(r)
      PROVE  Shape'
  BY <1>4, RunningSteps
<1>5. ASSUME NEW r \in Req, AllocateRunId(r) PROVE Shape'
  BY <1>5, AllocateLeaves
<1>6. ASSUME NEW r \in Req, Finalise(r) PROVE Shape'
  BY <1>6, FinaliseKeeps
<1>7. ASSUME NEW r \in Req, Keep(r) PROVE Shape'
  BY <1>7, KeepLeaves
<1>8. ASSUME NEW r \in Req, WriteArtifact(r) \/ ReadTheIndex(r) \/ WriteIndex(r) \/ WriteFails(r)
      PROVE  Shape'
  BY <1>8, WriteArtifactLeaves, ReadTheIndexLeaves, WriteIndexLeaves, WriteFailsLeaves
<1>9. ASSUME NEW r \in Req, Compare(r) \/ BundleState(r) PROVE Shape'
  BY <1>9, CompareLeaves, BundleStateLeaves
<1>10. ASSUME NEW r \in Req, RecordRequest(r) \/ ClearFaults(r) PROVE Shape'
  BY <1>10, LastSectionLeaves
<1>11. ASSUME NEW r \in Req, Disconnect(r) PROVE Shape'
  BY <1>11, DisconnectLeaves
<1>12. CASE CrashAndRestart
  BY <1>12, CrashLeaves
<1>13. CASE UNCHANGED vars
  BY <1>13 DEF vars, Shape
<1> QED
  BY <1>1, <1>2, <1>3, <1>4, <1>5, <1>6, <1>7, <1>8, <1>9, <1>10, <1>11, <1>12, <1>13, Steps

\* A request is in progress that was before, or the one that has arrived.
LEMMA FlightKept ==
  ASSUME Shape, NEW r \in Req, Others(r), pc[r] \notin {"idle", "done", "gone"}
  PROVE  InFlight' \subseteq InFlight
BY DEF Others, InFlight

FlightInv == Cardinality(InFlight) <= MaxInFlight

LEMMA FlightStep ==
  ASSUME Shape, FlightInv, [Next]_vars
  PROVE  FlightInv'
<1>0. InFlight \in SUBSET Req /\ IsFiniteSet(InFlight) /\ Cardinality(InFlight) \in Nat
  <2>1. InFlight \in SUBSET Req
    BY DEF InFlight
  <2> QED
    BY <2>1, FS_Subset, FS_CardinalityType, BoundsAssumption
<1>1. ASSUME InFlight' \subseteq InFlight
      PROVE  FlightInv'
  <2>1. Cardinality(InFlight') <= Cardinality(InFlight) /\ IsFiniteSet(InFlight')
    BY <1>0, <1>1, FS_Subset
  <2>2. Cardinality(InFlight') \in Nat
    BY <2>1, FS_CardinalityType
  <2> QED
    BY <1>0, <2>1, <2>2, BoundsAssumption DEF FlightInv
<1>2. ASSUME NEW r \in Req, Begins(r), Others(r)
      PROVE  FlightInv'
  <2>1. InFlight' \subseteq InFlight \cup {r}
    BY <1>2 DEF Others, InFlight
  <2>0. /\ IsFiniteSet(InFlight \cup {r})
        /\ Cardinality(InFlight \cup {r}) =
             IF r \in InFlight THEN Cardinality(InFlight) ELSE Cardinality(InFlight) + 1
    BY <1>0, FS_AddElement
  <2>2. /\ IsFiniteSet(InFlight \cup {r})
        /\ Cardinality(InFlight \cup {r}) <= Cardinality(InFlight) + 1
        /\ Cardinality(InFlight \cup {r}) \in Nat
    BY <1>0, <2>0
  <2>3. /\ IsFiniteSet(InFlight') /\ Cardinality(InFlight') <= Cardinality(InFlight \cup {r})
    BY <2>1, <2>2, FS_Subset
  <2>4. Cardinality(InFlight') \in Nat
    BY <2>3, FS_CardinalityType
  <2>5. Cardinality(InFlight) < MaxInFlight
    BY <1>2 DEF Begins
  <2> QED
    BY <1>0, <2>2, <2>3, <2>4, <2>5, BoundsAssumption DEF FlightInv
<1>3. ASSUME NEW r \in Req,
             \/ Apply(r) \/ Replay(r) \/ VerifyReplay(r)
             \/ BundleFromMemory(r) \/ BundleFromDisk(r)
             \/ HandleRequest(r) \/ Reset(r) \/ Seed(r) \/ RestoreSnapshot(r)
      PROVE  FlightInv'
  <2>1. Begins(r) /\ Others(r)
    BY <1>3, RunBeginsLeaves, BundleBeginsLeaves, OtherBeginsLeaves
  <2> QED
    BY <1>2, <2>1
<1>4. ASSUME NEW r \in Req,
             \/ AllocateRunId(r) \/ Keep(r)
             \/ WriteArtifact(r) \/ ReadTheIndex(r) \/ WriteIndex(r) \/ WriteFails(r)
             \/ Compare(r) \/ BundleState(r) \/ RecordRequest(r) \/ ClearFaults(r)
      PROVE  FlightInv'
  <2>1. Others(r) /\ pc[r] \notin {"idle", "done", "gone"}
    <3>1. CASE AllocateRunId(r) \/ Keep(r)
      BY <3>1, AllocateLeaves, KeepLeaves
    <3>2. CASE WriteArtifact(r) \/ ReadTheIndex(r)
      BY <3>2, WriteArtifactLeaves, ReadTheIndexLeaves
    <3>3. CASE WriteIndex(r) \/ WriteFails(r)
      BY <3>3, WriteIndexLeaves, WriteFailsLeaves
    <3>4. CASE Compare(r)
      BY <3>4, CompareLeaves
    <3>5. CASE BundleState(r) \/ RecordRequest(r) \/ ClearFaults(r)
      BY <3>5, BundleStateLeaves, LastSectionLeaves
    <3> QED
      BY <1>4, <3>1, <3>2, <3>3, <3>4, <3>5
  <2> QED
    BY <1>1, <2>1, FlightKept
<1>5. ASSUME NEW r \in Req,
             \/ Initialise(r) \/ InstallFaults(r) \/ ReadSeed(r) \/ Draw(r)
             \/ FailAction(r) \/ ExecuteAction(r) \/ CheckAssertions(r)
      PROVE  FlightInv'
  <2>1. RunningStep(r)
    BY <1>5, RunningSteps
  <2> QED
    BY <1>1, <2>1, FlightKept DEF RunningStep, InRun
<1>6. ASSUME NEW r \in Req, Finalise(r) PROVE FlightInv'
  BY <1>1, <1>6, FlightKept, FinaliseKeeps
<1>7. ASSUME NEW r \in Req, Disconnect(r) PROVE FlightInv'
  BY <1>1, <1>7, FlightKept, DisconnectLeaves DEF InFlight
<1>8. CASE CrashAndRestart
  BY <1>1, <1>8, CrashLeaves DEF InFlight
<1>9. CASE UNCHANGED vars
  BY <1>1, <1>9 DEF vars, InFlight
<1> QED
  BY <1>3, <1>4, <1>5, <1>6, <1>7, <1>8, <1>9, Steps

-----------------------------------------------------------------------------
(* Run numbers: as many were given out as requests got one. *)

\* Where a request is that finishes its run ...
Persisting == {"keep", "write_artifact", "read_index", "write_index"}

\* ... and where it has a number that is not in the index yet.
HasRun(r) == pc[r] \in InRun \cup Persisting

Numbered == {r \in Req : call[r].run # Nil}

Given == 1..Cardinality(Numbered)

\* What a request knows of its number.
OwnNumber(r) ==
  /\ call[r].run \in Given \cup {Nil}
  /\ pc[r] \in {"idle", "allocate"} => call[r].run = Nil
  /\ HasRun(r) => call[r].run # Nil
  /\ pc[r] \in {"keep", "write_artifact"} => call[r].artifact.report.run = call[r].run
  /\ pc[r] = "write_index" => call[r].ids \subseteq Given

\* What the server and the run directory know of numbers.
StoreNumbers ==
  /\ scenario.nextRunId \in Nat /\ scenario.nextRunId <= Cardinality(Numbered)
  /\ DOMAIN scenario.runs \subseteq Given
  /\ DOMAIN disk.artifacts \subseteq Given
  /\ disk.index = Torn \/ disk.index \subseteq Given
  /\ \A n \in Loadable : disk.artifacts[n].report.run = n

NumberInv == StoreNumbers /\ \A r \in Req : OwnNumber(r)

LEMMA CountIs ==
  /\ IsFiniteSet(Numbered) /\ Cardinality(Numbered) \in Nat
  /\ Given \subseteq RunNumbers /\ Nil \notin Given
<1>1. Numbered \subseteq Req
  BY DEF Numbered
<1>2. IsFiniteSet(Numbered) /\ Cardinality(Numbered) <= Cardinality(Req)
  BY <1>1, FS_Subset, BoundsAssumption
<1>3. Cardinality(Numbered) \in Nat /\ Cardinality(Req) \in Nat
  BY <1>2, FS_CardinalityType, BoundsAssumption
<1> QED
  BY <1>2, <1>3, NilAssumption DEF Given, RunNumbers

LEMMA NumberedSame ==
  ASSUME NEW r \in Req, Others(r), call'[r].run = call[r].run
  PROVE  Numbered' = Numbered /\ Given' = Given
<1>1. Numbered' = Numbered
  BY DEF Others, Numbered
<1> QED
  BY <1>1 DEF Given

LEMMA OwnNumbersKept ==
  ASSUME NEW r \in Req, Others(r), Given \subseteq Given', NumberInv
  PROVE  \A q \in Req \ {r} : OwnNumber(q)'
BY DEF Others, NumberInv, OwnNumber, HasRun

\* An index that can be read lists numbers that were given out, and the next
\* run of a server that has just been started comes after them.
LEMMA NextRunIdIs ==
  ASSUME NEW index \in SUBSET Nat, NEW b \in Nat, \A n \in index : n <= b
  PROVE  /\ NextRunId(index) \in Nat /\ NextRunId(index) <= b
         /\ \A n \in index : n <= NextRunId(index)
<1>1. CASE index = {}
  BY <1>1 DEF NextRunId
<1>2. CASE index # {}
  <2>1. \E n \in index : \A m \in index : m <= n
    BY <1>2, BoundedHasGreatest
  <2>2. NextRunId(index) = CHOOSE n \in index : \A m \in index : m <= n
    BY <1>2 DEF NextRunId
  <2>3. NextRunId(index) \in index /\ \A m \in index : m <= NextRunId(index)
    BY <2>1, <2>2
  <2> QED
    BY <2>3
<1> QED
  BY <1>1, <1>2

\* A step that gives out no number and leaves the store alone.
LEMMA StoreSameNumbers ==
  ASSUME NumberInv, NEW r \in Req, Others(r), StoreSame, call'[r].run = call[r].run,
         OwnNumber(r)'
  PROVE  NumberInv'
<1>1. Numbered' = Numbered /\ Given' = Given
  BY NumberedSame
<1>2. \A q \in Req \ {r} : OwnNumber(q)'
  BY <1>1, OwnNumbersKept
<1>3. StoreNumbers'
  BY <1>1 DEF NumberInv, StoreNumbers, StoreSame, Loadable
<1> QED
  BY <1>2, <1>3 DEF NumberInv

\* The requests that leave the store alone.
LEMMA QuietNumbers ==
  ASSUME Shape, NumberInv, NEW r \in Req,
         \/ Apply(r) \/ Replay(r) \/ VerifyReplay(r)
         \/ BundleFromMemory(r) \/ BundleFromDisk(r)
         \/ HandleRequest(r) \/ Reset(r) \/ Seed(r) \/ RestoreSnapshot(r)
         \/ ReadTheIndex(r) \/ Compare(r) \/ BundleState(r)
         \/ RecordRequest(r) \/ ClearFaults(r) \/ Disconnect(r)
  PROVE  NumberInv'
<1>0. OwnNumber(r) /\ StoreNumbers
  BY DEF NumberInv
<1>1. CASE Begins(r) /\ Others(r) /\ StoreSame /\ Fresh(r)
           /\ pc'[r] \in {"allocate", "bundle_state", "done", "record", "clear_faults"}
  <2>1. call'[r].run = Nil /\ call[r].run = Nil
    BY <1>0, <1>1 DEF Begins, Fresh, OwnNumber
  <2>2. OwnNumber(r)'
    BY <1>1, <2>1 DEF OwnNumber, HasRun, InRun, Persisting
  <2> QED
    BY <1>1, <2>1, <2>2, StoreSameNumbers
<1>2. CASE Apply(r) \/ Replay(r) \/ VerifyReplay(r)
  BY <1>1, <1>2, RunBeginsLeaves DEF StoreSame
<1>3. CASE BundleFromMemory(r) \/ BundleFromDisk(r)
  BY <1>1, <1>3, BundleBeginsLeaves DEF StoreSame
<1>4. CASE HandleRequest(r) \/ Reset(r) \/ Seed(r) \/ RestoreSnapshot(r)
  BY <1>1, <1>4, OtherBeginsLeaves DEF StoreSame
<1>5. CASE ReadTheIndex(r)
  <2>1. /\ Others(r) /\ StoreSame /\ call'[r].run = call[r].run /\ pc[r] = "read_index"
        /\ pc'[r] = "write_index" /\ call'[r].ids = ReadIndex
    BY <1>5, ReadTheIndexLeaves DEF SameRun, StoreSame
  <2>2. Given' = Given
    BY <2>1, NumberedSame
  <2>3. ReadIndex \subseteq Given
    BY <1>0 DEF StoreNumbers, ReadIndex
  <2>4. call[r].run # Nil /\ call[r].run \in Given \cup {Nil}
    BY <1>0, <2>1 DEF OwnNumber, HasRun, Persisting
  <2>5. OwnNumber(r)'
    BY <2>1, <2>2, <2>3, <2>4 DEF OwnNumber
  <2> QED
    BY <2>1, <2>5, StoreSameNumbers
<1>6. ASSUME Others(r), StoreSame, call'[r].run = call[r].run, pc'[r] \in {"done", "gone"}
      PROVE  NumberInv'
  <2>1. Given' = Given
    BY <1>6, NumberedSame
  <2>2. OwnNumber(r)'
    BY <1>0, <1>6, <2>1 DEF OwnNumber, HasRun, InRun, Persisting
  <2> QED
    BY <1>6, <2>2, StoreSameNumbers
<1>7. CASE Compare(r)
  BY <1>6, <1>7, CompareLeaves DEF SameRun, StoreSame
<1>8. CASE BundleState(r)
  BY <1>6, <1>8, BundleStateLeaves DEF StoreSame
<1>9. CASE RecordRequest(r) \/ ClearFaults(r)
  BY <1>6, <1>9, LastSectionLeaves
<1>10. CASE Disconnect(r)
  BY <1>6, <1>10, DisconnectLeaves DEF StoreSame
<1> QED
  BY <1>2, <1>3, <1>4, <1>5, <1>7, <1>8, <1>9, <1>10

LEMMA AllocateNumbers ==
  ASSUME Shape, NumberInv, NEW r \in Req, AllocateRunId(r)
  PROVE  NumberInv'
<1> DEFINE count == Cardinality(Numbered)
<1>0. OwnNumber(r) /\ StoreNumbers /\ count \in Nat /\ IsFiniteSet(Numbered)
  BY CountIs DEF NumberInv
<1>1. /\ Others(r) /\ pc[r] = "allocate" /\ pc'[r] = "initialise"
      /\ call'[r].run = scenario.nextRunId + 1
      /\ scenario'.nextRunId = scenario.nextRunId + 1
      /\ scenario'.runs = scenario.runs /\ disk' = disk
  BY AllocateLeaves
<1>2. call[r].run = Nil /\ scenario.nextRunId \in Nat /\ scenario.nextRunId <= count
  BY <1>0, <1>1 DEF OwnNumber, StoreNumbers
<1>3. call'[r].run \in Nat /\ call'[r].run # Nil
  BY <1>1, <1>2, NilAssumption
<1>4. Numbered' = Numbered \cup {r} /\ r \notin Numbered
  BY <1>1, <1>2, <1>3 DEF Numbered, Others
<1>5. Cardinality(Numbered') = count + 1
  BY <1>0, <1>4, FS_AddElement
<1>6. Given \subseteq Given' /\ scenario.nextRunId + 1 \in Given'
  BY <1>0, <1>2, <1>5 DEF Given
<1>7. \A q \in Req \ {r} : OwnNumber(q)'
  BY <1>1, <1>6, OwnNumbersKept
<1>8. OwnNumber(r)'
  BY <1>1, <1>3, <1>6 DEF OwnNumber, HasRun, InRun, Persisting
<1>9. StoreNumbers'
  <2>1. scenario'.nextRunId \in Nat /\ scenario'.nextRunId <= Cardinality(Numbered')
    BY <1>0, <1>1, <1>2, <1>5
  <2> QED
    BY <1>0, <1>1, <1>6, <2>1 DEF StoreNumbers, Loadable
<1> QED
  BY <1>7, <1>8, <1>9 DEF NumberInv

LEMMA RunningNumbers ==
  ASSUME Shape, NumberInv, NEW r \in Req, RunningStep(r)
  PROVE  NumberInv'
<1>1. OwnNumber(r) /\ HasRun(r)
  BY DEF NumberInv, RunningStep, HasRun
<1>2. Given' = Given /\ Others(r) /\ StoreSame /\ call'[r].run = call[r].run
  BY NumberedSame DEF RunningStep
<1>3. OwnNumber(r)'
  BY <1>1, <1>2 DEF OwnNumber, HasRun, InRun, Persisting, RunningStep
<1> QED
  BY <1>2, <1>3, StoreSameNumbers

LEMMA FinaliseNumbers ==
  ASSUME Shape, NumberInv, NEW r \in Req, Finalise(r)
  PROVE  NumberInv'
<1>1. /\ Others(r) /\ pc[r] = "finalise" /\ pc'[r] = "keep" /\ call'[r].run = call[r].run
      /\ StoreSame /\ call'[r].artifact.report.run = call[r].run
  BY FinaliseKeeps
<1>2. OwnNumber(r) /\ HasRun(r)
  BY <1>1 DEF NumberInv, HasRun, InRun
<1>3. Given' = Given
  BY <1>1, NumberedSame
<1>4. OwnNumber(r)'
  BY <1>1, <1>2, <1>3 DEF OwnNumber
<1> QED
  BY <1>1, <1>4, StoreSameNumbers

LEMMA KeepNumbers ==
  ASSUME Shape, NumberInv, NEW r \in Req, Keep(r)
  PROVE  NumberInv'
<1>1. /\ Others(r) /\ pc[r] = "keep" /\ pc'[r] = "write_artifact" /\ call'[r] = call[r]
      /\ scenario'.nextRunId = scenario.nextRunId /\ disk' = disk
      /\ DOMAIN scenario'.runs = DOMAIN scenario.runs \cup {call[r].run}
  BY KeepLeaves
<1>2. OwnNumber(r) /\ StoreNumbers /\ call[r].run \in Given
  BY <1>1 DEF NumberInv, OwnNumber, HasRun, Persisting
<1>3. Numbered' = Numbered /\ Given' = Given
  BY <1>1, NumberedSame
<1>4. OwnNumber(r)'
  BY <1>1, <1>2, <1>3 DEF OwnNumber, HasRun, Persisting
<1>5. \A q \in Req \ {r} : OwnNumber(q)'
  BY <1>1, <1>3, OwnNumbersKept
<1>6. StoreNumbers'
  BY <1>1, <1>2, <1>3 DEF StoreNumbers, Loadable
<1> QED
  BY <1>4, <1>5, <1>6 DEF NumberInv

\* What a write leaves of the run directory has the numbers that were given.
LEMMA WrittenNumbers ==
  ASSUME NumberInv, NEW r \in Req, TornBy(r), Given' = Given
  PROVE  /\ DOMAIN disk'.artifacts \subseteq Given'
         /\ disk'.index = Torn \/ disk'.index \subseteq Given'
         /\ \A n \in Loadable' : disk'.artifacts[n].report.run = n
<1>1. StoreNumbers
  BY DEF NumberInv
<1>2. CASE disk'.artifacts = disk.artifacts
  BY <1>1, <1>2 DEF StoreNumbers, Loadable, TornBy
<1>3. CASE /\ pc[r] = "write_artifact"
           /\ disk'.artifacts = [m \in DOMAIN disk.artifacts \cup {call[r].run} |->
                                   IF m = call[r].run THEN Torn ELSE disk.artifacts[m]]
  <2>1. DOMAIN disk'.artifacts = DOMAIN disk.artifacts \cup {call[r].run}
        /\ call[r].run \in Given
    BY <1>3 DEF NumberInv, OwnNumber, HasRun, Persisting
  <2>2. \A n \in Loadable' : n \in Loadable /\ disk'.artifacts[n] = disk.artifacts[n]
    BY <1>3 DEF Loadable
  <2> QED
    BY <1>1, <2>1, <2>2 DEF StoreNumbers, TornBy
<1> QED
  BY <1>2, <1>3 DEF TornBy

LEMMA PersistNumbers ==
  ASSUME Shape, NumberInv, NEW r \in Req,
         WriteArtifact(r) \/ WriteIndex(r) \/ WriteFails(r)
  PROVE  NumberInv'
<1>0. OwnNumber(r) /\ StoreNumbers
  BY DEF NumberInv
<1>1. CASE WriteArtifact(r)
  <2>1. /\ Others(r) /\ pc[r] = "write_artifact" /\ pc'[r] = "read_index"
        /\ call'[r] = call[r] /\ disk'.index = disk.index /\ scenario' = scenario
        /\ disk'.artifacts = [m \in DOMAIN disk.artifacts \cup {call[r].run} |->
                                IF m = call[r].run THEN call[r].artifact
                                ELSE disk.artifacts[m]]
    BY <1>1, WriteArtifactLeaves
  <2>2. Numbered' = Numbered /\ Given' = Given
    BY <2>1, NumberedSame
  <2>3. call[r].run \in Given /\ call[r].artifact.report.run = call[r].run
    BY <1>0, <2>1 DEF OwnNumber, HasRun, Persisting
  <2>4. OwnNumber(r)'
    BY <1>0, <2>1, <2>2, <2>3, CountIs DEF OwnNumber
  <2>5. \A n \in Loadable' : disk'.artifacts[n].report.run = n
    <3> TAKE n \in Loadable'
    <3>1. CASE n = call[r].run
      BY <2>1, <2>3, <3>1
    <3>2. CASE n # call[r].run
      <4>1. n \in DOMAIN disk.artifacts /\ disk'.artifacts[n] = disk.artifacts[n]
            /\ disk'.artifacts[n] # Torn
        BY <2>1, <3>2 DEF Loadable
      <4> QED
        BY <1>0, <4>1 DEF StoreNumbers, Loadable
    <3> QED
      BY <3>1, <3>2
  <2>6. DOMAIN disk'.artifacts \subseteq Given'
    BY <1>0, <2>1, <2>2, <2>3 DEF StoreNumbers
  <2>7. StoreNumbers'
    BY <1>0, <2>1, <2>2, <2>5, <2>6 DEF StoreNumbers
  <2> QED
    BY <2>1, <2>2, <2>4, <2>7, OwnNumbersKept DEF NumberInv
<1>2. CASE WriteIndex(r)
  <2>1. /\ Others(r) /\ pc[r] = "write_index" /\ pc'[r] \in {"load_replay", "done"}
        /\ call'[r] = call[r] /\ disk'.artifacts = disk.artifacts /\ scenario' = scenario
        /\ disk'.index = IF call[r].run \in call[r].ids THEN disk.index
                         ELSE call[r].ids \cup {call[r].run}
    BY <1>2, WriteIndexLeaves
  <2>2. Numbered' = Numbered /\ Given' = Given
    BY <2>1, NumberedSame
  <2>3. call[r].run \in Given /\ call[r].ids \subseteq Given
    BY <1>0, <2>1 DEF OwnNumber, HasRun, Persisting
  <2>4. OwnNumber(r)'
    BY <2>1, <2>2, <2>3 DEF OwnNumber, HasRun, InRun, Persisting
  <2>5. disk'.index = Torn \/ disk'.index \subseteq Given'
    BY <1>0, <2>1, <2>2, <2>3 DEF StoreNumbers
  <2>6. StoreNumbers'
    BY <1>0, <2>1, <2>2, <2>5 DEF StoreNumbers, Loadable
  <2> QED
    BY <2>1, <2>2, <2>4, <2>6, OwnNumbersKept DEF NumberInv
<1>3. CASE WriteFails(r)
  <2>1. /\ Others(r) /\ pc[r] \in {"write_artifact", "write_index"} /\ pc'[r] = "done"
        /\ TornBy(r) /\ call'[r].run = call[r].run /\ scenario' = scenario
    BY <1>3, WriteFailsLeaves DEF SameRun
  <2>2. Numbered' = Numbered /\ Given' = Given
    BY <2>1, NumberedSame
  <2>3. OwnNumber(r)'
    BY <1>0, <2>1, <2>2 DEF OwnNumber, HasRun, InRun, Persisting
  <2>4. /\ DOMAIN disk'.artifacts \subseteq Given'
        /\ disk'.index = Torn \/ disk'.index \subseteq Given'
        /\ \A n \in Loadable' : disk'.artifacts[n].report.run = n
    BY <2>1, <2>2, WrittenNumbers
  <2>5. StoreNumbers'
    BY <1>0, <2>1, <2>2, <2>4 DEF StoreNumbers
  <2> QED
    BY <2>1, <2>2, <2>3, <2>5, OwnNumbersKept DEF NumberInv
<1> QED
  BY <1>1, <1>2, <1>3

LEMMA CrashNumbers ==
  ASSUME Shape, NumberInv, CrashAndRestart
  PROVE  NumberInv'
<1>1. /\ call' = call /\ \A q \in Req : pc'[q] = IF q \in InFlight THEN "gone" ELSE pc[q]
      /\ disk' = disk \/ \E r \in Req : RunStoreFree(r) /\ TornBy(r)
      /\ scenario'.nextRunId = NextRunId(ReadIndex') /\ DOMAIN scenario'.runs = {}
  BY CrashLeaves
<1>2. Numbered' = Numbered /\ Given' = Given
  BY <1>1 DEF Numbered, Given
<1>3. /\ DOMAIN disk'.artifacts \subseteq Given'
      /\ disk'.index = Torn \/ disk'.index \subseteq Given'
      /\ \A n \in Loadable' : disk'.artifacts[n].report.run = n
  <2>1. CASE disk' = disk
    BY <1>2, <2>1 DEF NumberInv, StoreNumbers, Loadable
  <2>2. ASSUME NEW r \in Req, TornBy(r)
        PROVE  /\ DOMAIN disk'.artifacts \subseteq Given'
               /\ disk'.index = Torn \/ disk'.index \subseteq Given'
               /\ \A n \in Loadable' : disk'.artifacts[n].report.run = n
    BY <1>2, <2>2, WrittenNumbers
  <2> QED
    BY <1>1, <2>1, <2>2
<1>4. /\ scenario'.nextRunId \in Nat /\ scenario'.nextRunId <= Cardinality(Numbered')
  <2>1. ReadIndex' \in SUBSET Nat /\ Cardinality(Numbered) \in Nat
        /\ \A n \in ReadIndex' : n <= Cardinality(Numbered)
    BY <1>2, <1>3, CountIs DEF ReadIndex, Given
  <2> QED
    BY <1>1, <1>2, <2>1, NextRunIdIs
<1>5. \A q \in Req : OwnNumber(q)'
  BY <1>1, <1>2 DEF NumberInv, OwnNumber, InFlight, HasRun, InRun, Persisting
<1> QED
  BY <1>1, <1>3, <1>4, <1>5 DEF NumberInv, StoreNumbers

LEMMA NumberStep == ASSUME Shape, NumberInv, [Next]_vars PROVE NumberInv'
<1>1. ASSUME NEW r \in Req,
             \/ Initialise(r) \/ InstallFaults(r) \/ ReadSeed(r) \/ Draw(r)
             \/ FailAction(r) \/ ExecuteAction(r) \/ CheckAssertions(r)
      PROVE  NumberInv'
  BY <1>1, RunningSteps, RunningNumbers
<1>2. CASE UNCHANGED vars
  BY <1>2 DEF vars, NumberInv, StoreNumbers, OwnNumber, HasRun, Numbered, Given, Loadable
<1> QED
  BY <1>1, <1>2, Steps, QuietNumbers, AllocateNumbers, FinaliseNumbers, KeepNumbers,
     PersistNumbers, CrashNumbers

LEMMA InitNumbers == ASSUME Init PROVE NumberInv
<1>1. \A r \in Req : call[r].run = Nil /\ pc[r] = "idle"
  BY NewCallIs DEF Init
<1>2. \A r \in Req : OwnNumber(r)
  BY <1>1 DEF OwnNumber, HasRun, InRun, Persisting
<1>3. /\ disk.index = {} /\ DOMAIN disk.artifacts = {} /\ DOMAIN scenario.runs = {}
      /\ scenario.nextRunId = NextRunId(ReadIndex) /\ ReadIndex = {}
  BY DEF Init, FreshScenarioRuntime, ReadIndex
<1>4. scenario.nextRunId = 0
  BY <1>3 DEF NextRunId
<1> QED
  BY <1>2, <1>3, <1>4, CountIs DEF NumberInv, StoreNumbers, Loadable

-----------------------------------------------------------------------------
(* The log and the counters. *)

\* Events are numbered one after another from 1.
LogInv ==
  /\ \E S : runtime.kernel.events \in Seq(S)
  /\ runtime.kernel.nextSequence = Len(runtime.kernel.events) + 1

CounterInv == scenario.decisionIndex \in Nat /\ crashes \in 0..MaxCrashes

LEMMA LogAppended ==
  ASSUME Shape, LogInv, NEW body, runtime'.kernel = RecordEvent(runtime.kernel, body)
  PROVE  LogInv'
<1> DEFINE k == runtime.kernel
           l == RecordEvent(k, body)
<1>1. IsKernel(k)
  BY DEF Shape, IsRuntime
<1> HIDE DEF k
<1>5. \E e : l.events = Append(k.events, e)
  BY <1>1, RecordFields
<1>7. l.nextSequence = k.nextSequence + 1
  BY <1>1, RecordFields
<1> HIDE DEF l
<1>2. PICK e : l.events = Append(k.events, e)
  BY <1>5
<1>3. PICK S : k.events \in Seq(S)
  BY DEF LogInv, k
<1>4. k.events \in Seq(S \cup {e}) /\ e \in S \cup {e}
  BY <1>3
<1>6. l.events \in Seq(S \cup {e}) /\ Len(l.events) = Len(k.events) + 1
  BY <1>2, <1>4
<1> QED
  BY <1>6, <1>7 DEF LogInv, l, k

LEMMA LogStep ==
  ASSUME Shape, LogInv, [Next]_vars
  PROVE  LogInv'
<1>1. ASSUME LogKept PROVE LogInv'
  BY <1>1 DEF LogKept, LogInv
<1>2. ASSUME LogEmptied PROVE LogInv'
  <2>1. <<>> \in Seq({}) /\ Len(<<>>) + 1 = 1
    OBVIOUS
  <2> QED
    BY <1>2, <2>1 DEF LogEmptied, LogInv
<1>3. ASSUME NEW r \in Req, Initialise(r) PROVE LogInv'
  BY <1>2, <1>3, InitialiseLeaves, FreshKernelFields DEF LogEmptied
<1>4. ASSUME NEW r \in Req, FailAction(r) \/ ExecuteAction(r) PROVE LogInv'
  <2>1. CASE FailAction(r)
    BY <2>1, FailActionLeaves, LogAppended DEF RecordedAs
  <2>2. CASE ExecuteAction(r)
    <3> DEFINE outcome == IF NextAction(r) \in RefusedActions THEN "error" ELSE "ok"
    <3> HIDE DEF outcome
    <3>1. outcome = IF NextAction(r) \in RefusedActions THEN "error" ELSE "ok"
      BY DEF outcome
    <3> QED
      BY <2>2, <3>1, ExecuteActionLeaves, LogAppended DEF RecordedAs
  <2> QED
    BY <1>4, <2>1, <2>2
<1>5. ASSUME NEW r \in Req, RecordRequest(r) \/ ClearFaults(r) PROVE LogInv'
  BY <1>1, <1>5, LastSectionLeaves, LogAppended DEF LogKept
<1>6. ASSUME NEW r \in Req, Finalise(r) PROVE LogInv'
  BY <1>1, <1>6, FinaliseKeeps
<1>7. ASSUME NEW r \in Req, HandleRequest(r) \/ Reset(r) \/ Seed(r) \/ RestoreSnapshot(r)
      PROVE  LogInv'
  BY <1>1, <1>2, <1>7, OtherBeginsLeaves
<1>8. CASE CrashAndRestart
  BY <1>2, <1>8, CrashLeaves
<1>9. ASSUME UNCHANGED runtime PROVE LogInv'
  BY <1>1, <1>9 DEF LogKept
<1>10. ASSUME NEW r \in Req, Apply(r) \/ Replay(r) \/ VerifyReplay(r) PROVE LogInv'
  BY <1>9, <1>10, RunBeginsLeaves
<1>11. ASSUME NEW r \in Req, BundleFromMemory(r) \/ BundleFromDisk(r) PROVE LogInv'
  BY <1>9, <1>11, BundleBeginsLeaves
<1>12. ASSUME NEW r \in Req,
              \/ AllocateRunId(r) \/ InstallFaults(r) \/ ReadSeed(r) \/ Draw(r)
              \/ CheckAssertions(r) \/ Keep(r)
              \/ WriteArtifact(r) \/ ReadTheIndex(r) \/ WriteIndex(r) \/ WriteFails(r)
              \/ Compare(r) \/ BundleState(r) \/ Disconnect(r)
       PROVE  LogInv'
  BY <1>9, <1>12
  DEF AllocateRunId, InstallFaults, ReadSeed, Draw, CheckAssertions, Keep, WriteArtifact,
      ReadTheIndex, WriteIndex, WriteFails, Compare, BundleState, Disconnect
<1>13. CASE UNCHANGED vars
  BY <1>9, <1>13 DEF vars
<1> QED
  BY <1>3, <1>4, <1>5, <1>6, <1>7, <1>8, <1>10, <1>11, <1>12, <1>13, Steps

LEMMA CounterStep ==
  ASSUME Shape, CounterInv, [Next]_vars
  PROVE  CounterInv'
<1>1. ASSUME scenario'.decisionIndex = scenario.decisionIndex \/ scenario'.decisionIndex = 0
                \/ scenario'.decisionIndex = scenario.decisionIndex + 1,
             crashes' = crashes
      PROVE  CounterInv'
  BY <1>1 DEF CounterInv
<1>2. ASSUME NEW r \in Req, AllocateRunId(r) \/ InstallFaults(r) \/ Draw(r) \/ Keep(r)
      PROVE  CounterInv'
  BY <1>1, <1>2, AllocateLeaves, InstallFaultsLeaves, DrawLeaves, KeepLeaves
<1>3. ASSUME NEW r \in Req, RecordRequest(r) \/ ClearFaults(r) PROVE CounterInv'
  BY <1>1, <1>3, LastSectionLeaves DEF StoreSame
<1>4. CASE CrashAndRestart
  BY <1>4, CrashLeaves, BoundsAssumption DEF CounterInv
<1>5. ASSUME UNCHANGED <<scenario, crashes>> PROVE CounterInv'
  BY <1>1, <1>5
<1>6. ASSUME NEW r \in Req,
             \/ Apply(r) \/ Replay(r) \/ VerifyReplay(r)
             \/ BundleFromMemory(r) \/ BundleFromDisk(r)
             \/ HandleRequest(r) \/ Reset(r) \/ Seed(r) \/ RestoreSnapshot(r)
      PROVE  CounterInv'
  BY <1>5, <1>6, RunBeginsLeaves, BundleBeginsLeaves, OtherBeginsLeaves
<1>7. ASSUME NEW r \in Req,
             \/ Initialise(r) \/ ReadSeed(r) \/ FailAction(r) \/ ExecuteAction(r)
             \/ CheckAssertions(r) \/ Finalise(r)
             \/ WriteArtifact(r) \/ ReadTheIndex(r) \/ WriteIndex(r) \/ WriteFails(r)
             \/ Compare(r) \/ BundleState(r) \/ Disconnect(r)
      PROVE  CounterInv'
  BY <1>5, <1>7
  DEF Initialise, ReadSeed, FailAction, ExecuteAction, CheckAssertions, Finalise,
      WriteArtifact, ReadTheIndex, WriteIndex, WriteFails, Compare, BundleState, Disconnect
<1>8. CASE UNCHANGED vars
  BY <1>5, <1>8 DEF vars
<1> QED
  BY <1>2, <1>3, <1>4, <1>6, <1>7, <1>8, Steps

\* The inductive invariant of every interleaving.
RunInv == Shape /\ FlightInv /\ NumberInv /\ LogInv /\ CounterInv

LEMMA RunInvInit == ASSUME Init PROVE RunInv
<1>1. Shape /\ LogInv
  <2>1. <<>> \in Seq({}) /\ Len(<<>>) + 1 = 1
    OBVIOUS
  <2> QED
    BY <2>1, InitShape DEF LogInv
<1>2. FlightInv
  <2>1. InFlight = {}
    BY DEF Init, InFlight
  <2> QED
    BY <2>1, FS_EmptySet, BoundsAssumption DEF FlightInv
<1>3. CounterInv
  BY BoundsAssumption DEF Init, FreshScenarioRuntime, CounterInv
<1> QED
  BY <1>1, <1>2, <1>3, InitNumbers DEF RunInv

LEMMA RunInvStep == ASSUME RunInv, [Next]_vars PROVE RunInv'
BY ShapeStep, FlightStep, NumberStep, LogStep, CounterStep DEF RunInv

\* What holds whatever is lost, torn or interleaved: the shape of the state and
\* of each request's record, at most MaxInFlight requests in progress, one
\* request per run number and none past the counter, an event log that agrees
\* with its counter, and a record of a run that agrees with its artifact.
THEOREM RunInvariant == Spec => []RunInv
<1>1. Init => RunInv
  BY RunInvInit
<1>2. RunInv /\ [Next]_vars => RunInv'
  BY RunInvStep
<1> QED
  BY <1>1, <1>2, PTL DEF Spec

\* The state keeps its shape in every interleaving, with failing writes and
\* crashes: whatever is kept or listed has a number that was given out, every
\* artifact that can be read belongs to its number, and no more requests are in
\* progress than may be.
THEOREM TypeInvariant == Spec => []TypeOK
<1>1. RunInv => TypeOK
  BY CountIs
  DEF RunInv, Shape, IsRuntime, FlightInv, NumberInv, StoreNumbers, LogInv, CounterInv, TypeOK
<1> QED
  BY <1>1, RunInvariant, PTL

-----------------------------------------------------------------------------
(* Answered runs are kept and listed, when every write is whole or fails. *)

\* What does not parse is no artifact.
TornIsNoArtifact ==
  \A d, report, events, snapshot :
    Torn # [document |-> d, report |-> report, events |-> events, snapshot |-> snapshot]

IsArtifact(a) ==
  \E d, report, events, snapshot :
    a = [document |-> d, report |-> report, events |-> events, snapshot |-> snapshot]

\* The run is in the index, and its request answered or about to be.
Settled(r) ==
  \/ pc[r] = "load_replay"
  \/ pc[r] = "done" /\ call[r].op \in RunOps /\ call[r].status # "lost"

\* A run is not listed before its artifact and its entry in memory are there,
\* and what the index was read as is what it still holds.
Tracked(r) ==
  /\ HasRun(r) => call[r].run \in 1..scenario.nextRunId /\ call[r].run \notin disk.index
  /\ Settled(r) => call[r].run \in disk.index
  /\ pc[r] = "write_index" => call[r].ids = disk.index
  /\ pc[r] \in Persisting \/ Settled(r) => IsArtifact(call[r].artifact)
  /\ pc[r] \in {"read_index", "write_index"} \/ Settled(r) =>
       /\ call[r].run \in DOMAIN disk.artifacts
       /\ disk.artifacts[call[r].run] = call[r].artifact
  /\ pc[r] \in Persisting \ {"keep"} \/ Settled(r) =>
       (call[r].run \in DOMAIN scenario.runs =>
          scenario.runs[call[r].run].report = call[r].artifact.report)
  /\ pc[r] \in {"bundle_state", "record", "clear_faults"} => call[r].op \notin RunOps

\* No two runs in progress have the same number, and one request at a time
\* writes the index.
Apart(q, r) ==
  /\ HasRun(q) /\ HasRun(r) => call[q].run # call[r].run
  /\ ~(pc[q] \in {"read_index", "write_index"} /\ pc[r] \in {"read_index", "write_index"})

KeptInv ==
  /\ disk.index \subseteq 1..scenario.nextRunId
  /\ \A r \in Req : Tracked(r)
  /\ \A q \in Req : \A r \in Req \ {q} : Apart(q, r)

\* The index is never torn.
LEMMA IndexIs ==
  ASSUME NumberInv, KeptInv
  PROVE  /\ disk.index # Torn /\ ReadIndex = disk.index
         /\ scenario.nextRunId \in Nat
<1>1. disk.index \in SUBSET RunNumbers \/ disk.index = Torn
  BY CountIs DEF NumberInv, StoreNumbers
<1>2. scenario.nextRunId \in Nat /\ scenario.nextRunId <= Cardinality(Numbered)
        /\ Cardinality(Numbered) \in Nat
  BY CountIs DEF NumberInv, StoreNumbers
<1>3. disk.index \subseteq Given
  BY <1>2 DEF KeptInv, Given
<1>4. disk.index \in SUBSET RunNumbers
  BY <1>3, CountIs
<1> QED
  BY <1>2, <1>4, NilAssumption DEF ReadIndex

\* A step that leaves the store alone.
LEMMA QuietKept ==
  ASSUME KeptInv, NEW r \in Req, Others(r), StoreSame, Tracked(r)',
         HasRun(r)' => HasRun(r) /\ call'[r].run = call[r].run,
         pc'[r] \in {"read_index", "write_index"} => pc[r] \in {"read_index", "write_index"}
  PROVE  KeptInv'
<1>1. \A q \in Req \ {r} : Tracked(q)'
  BY DEF Others, StoreSame, KeptInv, Tracked, HasRun, Settled
<1>2. \A q \in Req : \A p \in Req \ {q} : Apart(q, p)'
  <2> SUFFICES ASSUME NEW q \in Req, NEW p \in Req \ {q}
               PROVE  Apart(q, p)'
    OBVIOUS
  <2>1. Apart(q, p)
    BY DEF KeptInv
  <2> QED
    BY <2>1 DEF Others, Apart, HasRun
<1> QED
  BY <1>1, <1>2 DEF KeptInv, StoreSame

\* The requests that leave the store alone.
LEMMA QuietStepsKept ==
  ASSUME Shape, NumberInv, KeptInv, NEW r \in Req,
         \/ Apply(r) \/ Replay(r) \/ VerifyReplay(r)
         \/ BundleFromMemory(r) \/ BundleFromDisk(r)
         \/ HandleRequest(r) \/ Reset(r) \/ Seed(r) \/ RestoreSnapshot(r)
         \/ ReadTheIndex(r) \/ Compare(r) \/ BundleState(r)
         \/ RecordRequest(r) \/ ClearFaults(r) \/ Disconnect(r)
  PROVE  KeptInv'
<1>0. Tracked(r)
  BY DEF KeptInv
<1>1. CASE Apply(r) \/ Replay(r) \/ VerifyReplay(r)
  <2>1. Others(r) /\ StoreSame /\ pc'[r] = "allocate"
    BY <1>1, RunBeginsLeaves DEF StoreSame
  <2>2. ~HasRun(r)' /\ Tracked(r)'
    BY <2>1 DEF HasRun, InRun, Persisting, Settled, Tracked
  <2> QED
    BY <2>1, <2>2, QuietKept
<1>2. ASSUME Others(r), StoreSame, call'[r].op \notin RunOps,
             pc'[r] \in {"bundle_state", "record", "clear_faults", "done"}
      PROVE  KeptInv'
  <2>1. ~HasRun(r)' /\ Tracked(r)'
    BY <1>2 DEF HasRun, InRun, Persisting, Settled, Tracked
  <2> QED
    BY <1>2, <2>1, QuietKept
<1>3. CASE BundleFromMemory(r) \/ BundleFromDisk(r)
  BY <1>2, <1>3, BundleBeginsLeaves DEF StoreSame, RunOps
<1>4. CASE HandleRequest(r) \/ Reset(r) \/ Seed(r) \/ RestoreSnapshot(r)
  BY <1>2, <1>4, OtherBeginsLeaves DEF StoreSame, RunOps
<1>5. CASE BundleState(r)
  BY <1>0, <1>2, <1>5, BundleStateLeaves DEF StoreSame, SameOrigin, Tracked
<1>6. CASE RecordRequest(r) \/ ClearFaults(r)
  BY <1>0, <1>2, <1>6, LastSectionLeaves DEF Tracked
<1>7. CASE ReadTheIndex(r)
  <2>1. /\ Others(r) /\ StoreSame /\ SameRun(r) /\ pc[r] = "read_index"
        /\ pc'[r] = "write_index" /\ call'[r].ids = disk.index
    BY <1>7, ReadTheIndexLeaves, IndexIs DEF StoreSame
  <2>2. HasRun(r)' /\ HasRun(r) /\ ~Settled(r)'
    BY <2>1 DEF HasRun, Persisting, Settled
  <2>3. Tracked(r)'
    BY <1>0, <2>1, <2>2 DEF Tracked, SameRun, StoreSame, Persisting
  <2> QED
    BY <2>1, <2>2, <2>3, QuietKept DEF SameRun
<1>8. CASE Compare(r)
  <2>1. /\ Others(r) /\ StoreSame /\ SameRun(r) /\ pc[r] = "load_replay" /\ pc'[r] = "done"
    BY <1>8, CompareLeaves DEF StoreSame
  <2>2. ~HasRun(r)' /\ Settled(r)
    BY <2>1 DEF HasRun, InRun, Persisting, Settled
  <2>3. Tracked(r)'
    BY <1>0, <2>1, <2>2 DEF Tracked, SameRun, StoreSame, Persisting
  <2> QED
    BY <2>1, <2>2, <2>3, QuietKept
<1>9. CASE Disconnect(r)
  <2>1. Others(r) /\ StoreSame /\ pc'[r] = "gone"
    BY <1>9, DisconnectLeaves DEF StoreSame
  <2>2. ~HasRun(r)' /\ Tracked(r)'
    BY <2>1 DEF HasRun, InRun, Persisting, Settled, Tracked
  <2> QED
    BY <2>1, <2>2, QuietKept
<1> QED
  BY <1>1, <1>3, <1>4, <1>5, <1>6, <1>7, <1>8, <1>9

LEMMA AllocateKept ==
  ASSUME Shape, NumberInv, KeptInv, NEW r \in Req, AllocateRunId(r)
  PROVE  KeptInv'
<1>1. /\ Others(r) /\ pc'[r] = "initialise" /\ call'[r].run = scenario.nextRunId + 1
      /\ scenario'.nextRunId = scenario.nextRunId + 1
      /\ scenario'.runs = scenario.runs /\ disk' = disk
  BY AllocateLeaves
<1>2. scenario.nextRunId \in Nat /\ disk.index \subseteq 1..scenario.nextRunId
  BY IndexIs DEF KeptInv
<1>3. /\ 1..scenario.nextRunId \subseteq 1..scenario'.nextRunId
      /\ call'[r].run \in 1..scenario'.nextRunId /\ call'[r].run \notin 1..scenario.nextRunId
  BY <1>1, <1>2
<1>4. \A q \in Req \ {r} : Tracked(q)'
  BY <1>1, <1>3 DEF Others, KeptInv, Tracked, HasRun, Settled
<1>5. Tracked(r)'
  BY <1>1, <1>2, <1>3 DEF Tracked, Persisting, Settled
<1>6. \A q \in Req : \A p \in Req \ {q} : Apart(q, p)'
  <2> SUFFICES ASSUME NEW q \in Req, NEW p \in Req \ {q}
               PROVE  Apart(q, p)'
    OBVIOUS
  <2>1. Apart(q, p) /\ Tracked(q) /\ Tracked(p)
    BY DEF KeptInv
  <2> QED
    BY <1>1, <1>3, <2>1 DEF Others, Apart, HasRun, Tracked
<1> QED
  BY <1>1, <1>2, <1>3, <1>4, <1>5, <1>6 DEF KeptInv

LEMMA RunningKept ==
  ASSUME Shape, KeptInv, NEW r \in Req, RunningStep(r)
  PROVE  KeptInv'
<1>1. Tracked(r) /\ HasRun(r)
  BY DEF KeptInv, RunningStep, HasRun
<1>2. Tracked(r)'
  BY <1>1 DEF Tracked, RunningStep, StoreSame, Settled, InRun, Persisting
<1> QED
  BY <1>1, <1>2, QuietKept DEF RunningStep, InRun

LEMMA FinaliseKept ==
  ASSUME Shape, KeptInv, NEW r \in Req, Finalise(r)
  PROVE  KeptInv'
<1>1. /\ Others(r) /\ StoreSame /\ pc[r] = "finalise" /\ pc'[r] = "keep"
      /\ call'[r].run = call[r].run
  BY FinaliseKeeps
<1>2. IsArtifact(call'[r].artifact)
  BY FinaliseKeeps DEF IsArtifact
<1>3. Tracked(r) /\ HasRun(r)
  BY <1>1 DEF KeptInv, HasRun, InRun
<1>4. Tracked(r)'
  BY <1>1, <1>2, <1>3 DEF Tracked, StoreSame, Settled, Persisting, HasRun
<1> QED
  BY <1>1, <1>3, <1>4, QuietKept

LEMMA KeepKept ==
  ASSUME Shape, KeptInv, NEW r \in Req, Keep(r)
  PROVE  KeptInv'
<1> DEFINE n == call[r].run
<1>1. /\ Others(r) /\ pc[r] = "keep" /\ pc'[r] = "write_artifact" /\ call'[r] = call[r]
      /\ scenario'.nextRunId = scenario.nextRunId /\ disk' = disk
  BY KeepLeaves
<1>2. scenario'.runs = [m \in DOMAIN scenario.runs \cup {n} |->
                          IF m = n
                          THEN [document |-> Document(r), report |-> call[r].artifact.report]
                          ELSE scenario.runs[m]]
  BY KeepLeaves
<1>3. scenario'.runs[n].report = call[r].artifact.report
  BY <1>2
<1>4. \A m : m # n => /\ m \in DOMAIN scenario'.runs <=> m \in DOMAIN scenario.runs
                      /\ m \in DOMAIN scenario.runs => scenario'.runs[m] = scenario.runs[m]
  BY <1>2
<1>5. Tracked(r) /\ HasRun(r)
  BY <1>1 DEF KeptInv, HasRun, Persisting
<1> HIDE DEF n
<1>6. Tracked(r)'
  BY <1>1, <1>3, <1>5 DEF Tracked, Settled, Persisting, HasRun, n
<1>7. ASSUME NEW q \in Req \ {r} PROVE Tracked(q)'
  <2>1. Tracked(q) /\ Apart(q, r) /\ pc'[q] = pc[q] /\ call'[q] = call[q]
    BY <1>1 DEF KeptInv, Others
  <2>2. HasRun(q) \/ Settled(q) => call[q].run # n
    BY <1>5, <2>1 DEF Tracked, Apart, n
  <2> QED
    BY <1>1, <1>4, <2>1, <2>2 DEF Tracked, HasRun, Settled
<1>8. \A q \in Req : \A p \in Req \ {q} : Apart(q, p)'
  <2> SUFFICES ASSUME NEW q \in Req, NEW p \in Req \ {q}
               PROVE  Apart(q, p)'
    OBVIOUS
  <2>1. Apart(q, p)
    BY DEF KeptInv
  <2> QED
    BY <1>1, <1>5, <2>1 DEF Others, Apart, HasRun
<1> QED
  BY <1>1, <1>6, <1>7, <1>8 DEF KeptInv

LEMMA WriteArtifactKept ==
  ASSUME Shape, KeptInv, NEW r \in Req, WriteArtifact(r)
  PROVE  KeptInv'
<1> DEFINE n == call[r].run
<1>1. /\ Others(r) /\ pc[r] = "write_artifact" /\ pc'[r] = "read_index"
      /\ call'[r] = call[r] /\ RunStoreFree(r) /\ disk'.index = disk.index
      /\ scenario' = scenario
  BY WriteArtifactLeaves
<1>2. disk'.artifacts = [m \in DOMAIN disk.artifacts \cup {n} |->
                           IF m = n THEN call[r].artifact ELSE disk.artifacts[m]]
  BY WriteArtifactLeaves
<1>3. n \in DOMAIN disk'.artifacts /\ disk'.artifacts[n] = call[r].artifact
  BY <1>2
<1>4. \A m : m # n /\ m \in DOMAIN disk.artifacts =>
               m \in DOMAIN disk'.artifacts /\ disk'.artifacts[m] = disk.artifacts[m]
  BY <1>2
<1>5. Tracked(r) /\ HasRun(r)
  BY <1>1 DEF KeptInv, HasRun, Persisting
<1> HIDE DEF n
<1>6. Tracked(r)'
  BY <1>1, <1>3, <1>5 DEF Tracked, Settled, Persisting, HasRun, n
<1>7. ASSUME NEW q \in Req \ {r} PROVE Tracked(q)'
  <2>1. /\ Tracked(q) /\ Apart(q, r) /\ pc'[q] = pc[q] /\ call'[q] = call[q]
        /\ pc[q] \notin {"read_index", "write_index"}
    BY <1>1 DEF KeptInv, Others, RunStoreFree
  <2>2. Settled(q) => call[q].run # n
    BY <1>5, <2>1 DEF Tracked, n
  <2> QED
    BY <1>1, <1>4, <2>1, <2>2 DEF Tracked, HasRun, Settled
<1>8. \A q \in Req : \A p \in Req \ {q} : Apart(q, p)'
  <2> SUFFICES ASSUME NEW q \in Req, NEW p \in Req \ {q}
               PROVE  Apart(q, p)'
    OBVIOUS
  <2>1. Apart(q, p)
    BY DEF KeptInv
  <2> QED
    BY <1>1, <1>5, <2>1 DEF Others, Apart, HasRun, RunStoreFree
<1> QED
  BY <1>1, <1>6, <1>7, <1>8 DEF KeptInv

LEMMA WriteIndexKept ==
  ASSUME Shape, NumberInv, KeptInv, NEW r \in Req, WriteIndex(r)
  PROVE  KeptInv'
<1>1. /\ Others(r) /\ pc[r] = "write_index" /\ pc'[r] \in {"load_replay", "done"}
      /\ call'[r] = call[r] /\ scenario' = scenario /\ disk'.artifacts = disk.artifacts
      /\ disk'.index = IF call[r].run \in call[r].ids THEN disk.index
                       ELSE call[r].ids \cup {call[r].run}
  BY WriteIndexLeaves
<1>2. Tracked(r) /\ HasRun(r)
  BY <1>1 DEF KeptInv, HasRun, Persisting
<1>3. disk'.index = disk.index \cup {call[r].run}
      /\ call[r].run \in 1..scenario.nextRunId
  BY <1>1, <1>2 DEF Tracked
<1>4. Tracked(r)'
  BY <1>1, <1>2, <1>3 DEF Tracked, Settled, Persisting, HasRun, InRun
<1>5. ASSUME NEW q \in Req \ {r} PROVE Tracked(q)'
  <2>1. /\ Tracked(q) /\ Apart(q, r) /\ pc'[q] = pc[q] /\ call'[q] = call[q]
        /\ pc[q] # "write_index"
    BY <1>1 DEF KeptInv, Others, Apart
  <2>2. HasRun(q) => call[q].run # call[r].run
    BY <1>2, <2>1 DEF Apart
  <2> QED
    BY <1>1, <1>3, <2>1, <2>2 DEF Tracked, HasRun, Settled
<1>6. \A q \in Req : \A p \in Req \ {q} : Apart(q, p)'
  <2> SUFFICES ASSUME NEW q \in Req, NEW p \in Req \ {q}
               PROVE  Apart(q, p)'
    OBVIOUS
  <2>1. Apart(q, p)
    BY DEF KeptInv
  <2> QED
    BY <1>1, <1>2, <2>1 DEF Others, Apart, HasRun, InRun, Persisting
<1> QED
  BY <1>1, <1>3, <1>4, <1>5, <1>6 DEF KeptInv

\* A write that fails and leaves nothing is answered as lost.
LEMMA WriteFailsKept ==
  ASSUME Shape, KeptInv, ~TornWrites, NEW r \in Req, WriteFails(r)
  PROVE  KeptInv'
<1>1. /\ Others(r) /\ pc'[r] = "done" /\ call'[r].status = "lost" /\ StoreSame
  BY WriteFailsLeaves DEF TornBy, StoreSame
<1>2. ~HasRun(r)' /\ Tracked(r)'
  BY <1>1 DEF HasRun, InRun, Persisting, Settled, Tracked
<1> QED
  BY <1>1, <1>2, QuietKept

\* A server that is started again numbers its runs after all that are listed.
LEMMA CrashKept ==
  ASSUME Shape, NumberInv, KeptInv, ~TornWrites, CrashAndRestart
  PROVE  KeptInv'
<1>1. /\ call' = call /\ \A q \in Req : pc'[q] = IF q \in InFlight THEN "gone" ELSE pc[q]
      /\ disk' = disk
      /\ scenario'.nextRunId = NextRunId(ReadIndex') /\ DOMAIN scenario'.runs = {}
  BY CrashLeaves DEF TornBy
<1>2. ReadIndex' = disk.index
  BY <1>1, IndexIs DEF ReadIndex
<1>3. scenario'.nextRunId \in Nat /\ \A n \in disk.index : n <= scenario'.nextRunId
  <2>1. disk.index \in SUBSET Nat /\ scenario.nextRunId \in Nat
        /\ \A n \in disk.index : n <= scenario.nextRunId
    BY IndexIs DEF KeptInv
  <2> QED
    BY <1>1, <1>2, <2>1, NextRunIdIs
<1>4. disk'.index \subseteq 1..scenario'.nextRunId
  BY <1>1, <1>3, IndexIs DEF KeptInv
<1>5. \A q \in Req : ~HasRun(q)' /\ pc'[q] \in {"idle", "done", "gone"}
                     /\ (pc'[q] = "done" => pc[q] = "done")
  BY <1>1 DEF InFlight, HasRun, InRun, Persisting
<1>6. ASSUME NEW q \in Req PROVE Tracked(q)'
  <2>1. Tracked(q) /\ (Settled(q)' => Settled(q))
    BY <1>1, <1>5 DEF KeptInv, Settled
  <2> QED
    BY <1>1, <1>5, <2>1 DEF Tracked, Persisting
<1>7. \A q \in Req : \A p \in Req \ {q} : Apart(q, p)'
  BY <1>5 DEF Apart
<1> QED
  BY <1>4, <1>6, <1>7 DEF KeptInv

LEMMA KeptStep ==
  ASSUME RunInv, KeptInv, ~TornWrites, [Next]_vars
  PROVE  KeptInv'
<1>0. Shape /\ NumberInv
  BY DEF RunInv
<1>1. ASSUME NEW r \in Req,
             \/ Initialise(r) \/ InstallFaults(r) \/ ReadSeed(r) \/ Draw(r)
             \/ FailAction(r) \/ ExecuteAction(r) \/ CheckAssertions(r)
      PROVE  KeptInv'
  BY <1>0, <1>1, RunningSteps, RunningKept
<1>2. CASE UNCHANGED vars
  BY <1>2 DEF vars, KeptInv, Tracked, Apart, HasRun, Settled
<1> QED
  BY <1>0, <1>1, <1>2, Steps, QuietStepsKept, AllocateKept, FinaliseKept, KeepKept,
     WriteArtifactKept, WriteIndexKept, WriteFailsKept, CrashKept

LEMMA KeptInit == ASSUME Init PROVE KeptInv
<1>1. disk.index = {} /\ \A r \in Req : pc[r] = "idle"
  BY DEF Init
<1> QED
  BY <1>1 DEF KeptInv, Tracked, Apart, HasRun, InRun, Persisting, Settled

\* When a failing write leaves the file it was to replace: a run in progress has
\* a number of its own that the index does not list yet, one request at a time
\* has read the index to write it and the index is still what it read, and a run
\* whose request was answered is listed, with its artifact on disk.
THEOREM KeptInvariant ==
  ASSUME ~TornWrites
  PROVE  Spec => [](RunInv /\ KeptInv)
<1>1. Init => RunInv /\ KeptInv
  BY RunInvInit, KeptInit
<1>2. RunInv /\ KeptInv /\ [Next]_vars => (RunInv /\ KeptInv)'
  BY RunInvStep, KeptStep
<1> QED
  BY <1>1, <1>2, PTL DEF Spec

LEMMA AnsweredAreSettled ==
  ASSUME RunInv, KeptInv, TornIsNoArtifact, NEW r \in AnsweredRuns
  PROVE  LET n == call[r].run IN
         /\ n \in ReadIndex /\ n \in Loadable
         /\ disk.artifacts[n] = call[r].artifact
         /\ GetRun(n) = call[r].artifact.report
<1> DEFINE n == call[r].run
<1>1. r \in Req /\ Settled(r)
  BY DEF AnsweredRuns, Settled, RunOps
<1>2. Tracked(r) /\ ReadIndex = disk.index
  BY <1>1, IndexIs DEF KeptInv, RunInv
<1>3. /\ n \in ReadIndex /\ n \in DOMAIN disk.artifacts
      /\ disk.artifacts[n] = call[r].artifact
      /\ IsArtifact(call[r].artifact)
      /\ n \in DOMAIN scenario.runs => scenario.runs[n].report = call[r].artifact.report
  BY <1>1, <1>2 DEF Tracked
<1>4. n \in Loadable
  BY <1>3 DEF Loadable, IsArtifact, TornIsNoArtifact
<1> QED
  BY <1>3, <1>4 DEF GetRun

\* A run that a client got an answer for can be retrieved ever after with the
\* report of that answer, for any number of requests in progress, failing
\* writes, clients that give up and crashes, as long as a write that fails
\* leaves the file as it was.
THEOREM AnsweredRunsStay ==
  ASSUME ~TornWrites, TornIsNoArtifact
  PROVE  Spec => []AnsweredRunsKept
<1>1. RunInv /\ KeptInv => AnsweredRunsKept
  BY AnsweredAreSettled DEF AnsweredRunsKept, Loadable
<1> QED
  BY <1>1, KeptInvariant, PTL

\* ... and it is listed with that report: the index is read and written by one
\* request at a time, and no run number is given twice.
THEOREM AnsweredRunsAreListed ==
  ASSUME ~TornWrites, TornIsNoArtifact
  PROVE  Spec => []AnsweredRunsListed
<1>1. RunInv /\ KeptInv => AnsweredRunsListed
  BY AnsweredAreSettled DEF AnsweredRunsListed, ListRuns
<1> QED
  BY <1>1, KeptInvariant, PTL

-----------------------------------------------------------------------------
(* Clients that take turns: a run meets no faults but its scenario's. *)

Asleep == {"idle", "done", "gone"}

LEMMA TakingTurns ==
  ASSUME MaxInFlight = 1, Shape, FlightInv, NEW r \in Req, NEW q \in Req \ {r},
         r \in InFlight
  PROVE  pc[q] \in Asleep
<1> SUFFICES ASSUME q \in InFlight
             PROVE  FALSE
  BY DEF InFlight, Asleep
<1>1. {q, r} \subseteq InFlight /\ IsFiniteSet(InFlight) /\ Cardinality(InFlight) \in Nat
  <2>1. InFlight \in SUBSET Req
    BY DEF InFlight
  <2> QED
    BY <2>1, FS_Subset, FS_CardinalityType, BoundsAssumption
<1>2. Cardinality({q, r}) = 2
  <2>1. IsFiniteSet({r}) /\ Cardinality({r}) = 1
    BY FS_Singleton
  <2>2. {q, r} = {r} \cup {q} /\ q \notin {r}
    OBVIOUS
  <2> QED
    BY <2>1, <2>2, FS_AddElement
<1>3. Cardinality({q, r}) <= Cardinality(InFlight)
  BY <1>1, FS_Subset
<1> QED
  BY <1>1, <1>2, <1>3 DEF FlightInv

\* A request that begins finds nobody in progress.
LEMMA NobodyElse ==
  ASSUME MaxInFlight = 1, NEW r \in Req, Begins(r), NEW q \in Req
  PROVE  pc[q] \in Asleep
<1>1. InFlight \subseteq Req /\ IsFiniteSet(InFlight) /\ Cardinality(InFlight) < 1
      /\ Cardinality(InFlight) \in Nat
  <2>1. InFlight \in SUBSET Req
    BY DEF InFlight
  <2> QED
    BY <2>1, FS_Subset, FS_CardinalityType, BoundsAssumption DEF Begins
<1>2. InFlight = {}
  BY <1>1, FS_EmptySet
<1> QED
  BY <1>2 DEF InFlight, Asleep

\* The faults of an artifact or of a report are its own document's.
Own(a) == a.report.hits \in Seq({a.document.rule})

\* A run has met no fault but those of its own document, and meets no other.
OwnRun(r) ==
  LET rule == call[r].document.rule IN
  /\ pc[r] \in InRun \cup {"allocate"} => call[r].hits \in Seq({rule})
  /\ pc[r] \in {"read_seed", "draw", "fail_action", "execute"} => scenario.rule = rule
  /\ pc[r] \in {"fail_action", "execute"} => call[r].hit \in {Nil, rule}
  /\ pc[r] = "keep" => call[r].artifact.document = call[r].document
  /\ pc[r] \in Persisting \cup {"bundle_state"} \/ call[r].artifact # Nil =>
       Own(call[r].artifact)

OwnStore ==
  /\ \A n \in DOMAIN scenario.runs : Own(scenario.runs[n])
  /\ \A n \in Loadable : Own(disk.artifacts[n])

OwnInv == OwnStore /\ \A r \in Req : OwnRun(r)

\* A step of the one request that is in progress.
LEMMA OwnByTurns ==
  ASSUME OwnInv, NEW r \in Req, Others(r), \A q \in Req \ {r} : pc[q] \in Asleep,
         OwnRun(r)', OwnStore'
  PROVE  OwnInv'
<1>1. ASSUME NEW q \in Req \ {r} PROVE OwnRun(q)'
  <2>1. OwnRun(q) /\ pc[q] \in Asleep /\ pc'[q] = pc[q] /\ call'[q] = call[q]
    BY DEF OwnInv, Others
  <2> QED
    BY <2>1 DEF OwnRun, Asleep, InRun, Persisting
<1> QED
  BY <1>1 DEF OwnInv

LEMMA OwnStoreSame ==
  ASSUME OwnStore, UNCHANGED disk, scenario'.runs = scenario.runs
  PROVE  OwnStore'
BY DEF OwnStore, Loadable

LEMMA OwnBegins ==
  ASSUME MaxInFlight = 1, Shape, OwnInv, NEW r \in Req,
         \/ Apply(r) \/ Replay(r) \/ VerifyReplay(r)
         \/ BundleFromMemory(r) \/ BundleFromDisk(r)
         \/ HandleRequest(r) \/ Reset(r) \/ Seed(r) \/ RestoreSnapshot(r)
  PROVE  OwnInv'
<1>1. ASSUME Begins(r), Others(r), Fresh(r), UNCHANGED <<scenario, disk>>,
             pc'[r] \in {"allocate", "bundle_state", "record", "clear_faults", "done"},
             pc'[r] = "bundle_state" \/ call'[r].artifact # Nil => Own(call'[r].artifact)
      PROVE  OwnInv'
  <2>1. call'[r].hits \in Seq({call'[r].document.rule})
    BY <1>1 DEF Fresh
  <2>2. OwnRun(r)'
    BY <1>1, <2>1 DEF OwnRun, InRun, Persisting
  <2>3. OwnStore'
    BY <1>1, OwnStoreSame DEF OwnInv
  <2> QED
    BY <1>1, <2>2, <2>3, NobodyElse, OwnByTurns
<1>2. CASE Apply(r) \/ Replay(r) \/ VerifyReplay(r)
  BY <1>1, <1>2, RunBeginsLeaves
<1>3. CASE BundleFromMemory(r) \/ BundleFromDisk(r)
  BY <1>1, <1>3, BundleBeginsLeaves DEF OwnInv, OwnStore
<1>4. CASE HandleRequest(r) \/ Reset(r) \/ Seed(r) \/ RestoreSnapshot(r)
  BY <1>1, <1>4, OtherBeginsLeaves
<1> QED
  BY <1>2, <1>3, <1>4

\* The sections of a run until it is finished.
LEMMA OwnRunning ==
  ASSUME MaxInFlight = 1, Shape, FlightInv, OwnInv, NEW r \in Req,
         \/ AllocateRunId(r) \/ Initialise(r) \/ InstallFaults(r) \/ ReadSeed(r) \/ Draw(r)
         \/ FailAction(r) \/ ExecuteAction(r) \/ CheckAssertions(r)
  PROVE  OwnInv'
<1>0. OwnRun(r) /\ OwnStore
  BY DEF OwnInv
<1>1. ASSUME Others(r), UNCHANGED disk, scenario'.runs = scenario.runs, OwnRun(r)',
             pc[r] \notin Asleep
      PROVE  OwnInv'
  BY <1>0, <1>1, TakingTurns, OwnByTurns, OwnStoreSame DEF InFlight, Asleep
<1>2. CASE AllocateRunId(r)
  <2>1. OwnRun(r)'
    BY <1>0, <1>2, AllocateLeaves
    DEF OwnRun, InRun, Persisting, SameOrigin, SameRecord
  <2> QED
    BY <1>1, <1>2, <2>1, AllocateLeaves DEF Asleep
<1>3. CASE Initialise(r)
  <2>1. OwnRun(r)'
    BY <1>0, <1>3, InitialiseLeaves DEF OwnRun, InRun, Persisting, SameOrigin, SameRun
  <2> QED
    BY <1>1, <1>3, <2>1, InitialiseLeaves DEF Asleep
<1>4. CASE InstallFaults(r)
  <2>1. OwnRun(r)'
    BY <1>0, <1>4, InstallFaultsLeaves DEF OwnRun, InRun, Persisting, Document
  <2> QED
    BY <1>1, <1>4, <2>1, InstallFaultsLeaves DEF Asleep
<1>5. CASE ReadSeed(r)
  <2>1. OwnRun(r)'
    BY <1>0, <1>5, ReadSeedLeaves
    DEF OwnRun, InRun, Persisting, SameOrigin, SameRun, SameRecord
  <2> QED
    BY <1>1, <1>5, <2>1, ReadSeedLeaves DEF Asleep
<1>6. CASE Draw(r)
  <2>1. OwnRun(r)'
    BY <1>0, <1>6, DrawLeaves
    DEF OwnRun, InRun, Persisting, SameOrigin, SameRun, SameRecord
  <2> QED
    BY <1>1, <1>6, <2>1, DrawLeaves DEF Asleep
<1>7. ASSUME NEW outcome, RecordedAs(r, outcome), UNCHANGED <<scenario, disk>>, Others(r),
             pc[r] \in {"fail_action", "execute"},
             pc'[r] \in {"read_seed", "check", "finalise"}
      PROVE  OwnInv'
  <2> DEFINE rule == call[r].document.rule
  <2>1. call[r].hits \in Seq({rule}) /\ call[r].hit \in {Nil, rule} /\ scenario.rule = rule
    BY <1>0, <1>7 DEF OwnRun, InRun
  <2>2. /\ call'[r].hits = IF call[r].hit = Nil THEN call[r].hits
                           ELSE Append(call[r].hits, call[r].hit)
        /\ call'[r].document = call[r].document /\ call'[r].artifact = call[r].artifact
    BY <1>7 DEF RecordedAs, SameOrigin, SameRun
  <2> HIDE DEF rule
  <2>3. call'[r].hits \in Seq({rule})
    BY <2>1, <2>2
  <2>4. OwnRun(r)'
    BY <1>0, <1>7, <2>1, <2>2, <2>3 DEF OwnRun, Persisting, rule
  <2> QED
    BY <1>1, <1>7, <2>4 DEF Asleep
<1>8. CASE FailAction(r)
  BY <1>7, <1>8, FailActionLeaves
<1>9. CASE ExecuteAction(r)
  <2> DEFINE outcome == IF NextAction(r) \in RefusedActions THEN "error" ELSE "ok"
  <2> HIDE DEF outcome
  <2>1. outcome = IF NextAction(r) \in RefusedActions THEN "error" ELSE "ok"
    BY DEF outcome
  <2> QED
    BY <1>7, <1>9, <2>1, ExecuteActionLeaves
<1>10. CASE CheckAssertions(r)
  <2> DEFINE failed == (runtime.service # <<"seed">> \o Document(r).timeline)
  <2>1. failed = (runtime.service # <<"seed">> \o Document(r).timeline)
    OBVIOUS
  <2> HIDE DEF failed
  <2>2. /\ Others(r) /\ pc[r] = "check" /\ pc'[r] = "finalise" /\ SameOrigin(r)
        /\ SameRun(r) /\ call'[r].hits = call[r].hits
        /\ UNCHANGED <<runtime, scenario, disk, crashes>>
    BY <1>10, <2>1, CheckAssertionsLeaves
  <2>3. OwnRun(r)'
    BY <1>0, <2>2 DEF OwnRun, InRun, Persisting, SameOrigin, SameRun
  <2> QED
    BY <1>1, <2>2, <2>3 DEF Asleep
<1> QED
  BY <1>2, <1>3, <1>4, <1>5, <1>6, <1>8, <1>9, <1>10

\* What can be read of a run directory after a write that was cut short could
\* be read before.
LEMMA TornKeeps ==
  ASSUME NEW r, disk' = disk \/ TornBy(r)
  PROVE  \A n \in Loadable' : n \in Loadable /\ disk'.artifacts[n] = disk.artifacts[n]
<1>1. CASE disk'.artifacts = disk.artifacts
  BY <1>1 DEF Loadable
<1>2. CASE disk'.artifacts = [m \in DOMAIN disk.artifacts \cup {call[r].run} |->
                                IF m = call[r].run THEN Torn ELSE disk.artifacts[m]]
  BY <1>2 DEF Loadable
<1> QED
  BY <1>1, <1>2 DEF TornBy

\* What can be read after an artifact was written is that or could be before.
LEMMA WrittenKeeps ==
  ASSUME Shape, NEW r \in Req, WriteArtifact(r)
  PROVE  \A n \in Loadable' :
           \/ n = call[r].run /\ disk'.artifacts[n] = call[r].artifact
           \/ n \in Loadable /\ disk'.artifacts[n] = disk.artifacts[n]
<1>1. disk'.artifacts = [m \in DOMAIN disk.artifacts \cup {call[r].run} |->
                           IF m = call[r].run THEN call[r].artifact ELSE disk.artifacts[m]]
  BY WriteArtifactLeaves
<1> QED
  BY <1>1 DEF Loadable

LEMMA OwnPersisting ==
  ASSUME MaxInFlight = 1, Shape, FlightInv, OwnInv, NEW r \in Req,
         \/ Finalise(r) \/ Keep(r)
         \/ WriteArtifact(r) \/ ReadTheIndex(r) \/ WriteIndex(r) \/ WriteFails(r)
  PROVE  OwnInv'
<1>0. OwnRun(r) /\ OwnStore
  BY DEF OwnInv
<1>1. ASSUME Others(r), OwnStore', OwnRun(r)', pc[r] \notin Asleep
      PROVE  OwnInv'
  BY <1>1, TakingTurns, OwnByTurns DEF InFlight, Asleep
<1>2. CASE Finalise(r)
  <2>1. /\ Others(r) /\ pc[r] = "finalise" /\ pc'[r] = "keep"
        /\ call'[r].document = call[r].document
        /\ StoreSame /\ call'[r].artifact.report.hits = call[r].hits
        /\ call'[r].artifact.document = call[r].document
    BY <1>2, FinaliseKeeps DEF SameOrigin
  <2>2. Own(call'[r].artifact)
    BY <1>0, <2>1 DEF OwnRun, Own, InRun
  <2>3. OwnRun(r)'
    BY <2>1, <2>2 DEF OwnRun, InRun
  <2> QED
    BY <1>0, <1>1, <2>1, <2>3, OwnStoreSame DEF StoreSame, Asleep
<1>3. CASE Keep(r)
  <2>1. /\ Others(r) /\ pc[r] = "keep" /\ pc'[r] = "write_artifact" /\ call'[r] = call[r]
        /\ disk' = disk
    BY <1>3, KeepLeaves
  <2>2. scenario'.runs = [n \in DOMAIN scenario.runs \cup {call[r].run} |->
                            IF n = call[r].run
                            THEN [document |-> Document(r), report |-> call[r].artifact.report]
                            ELSE scenario.runs[n]]
    BY <1>3, KeepLeaves
  <2>3. Own(call[r].artifact) /\ call[r].artifact.document = call[r].document
    BY <1>0, <2>1 DEF OwnRun, Persisting
  <2>4. ASSUME NEW n \in DOMAIN scenario'.runs PROVE Own(scenario'.runs[n])
    <3>1. CASE n = call[r].run
      <4>1. /\ scenario'.runs[n].document = call[r].document
            /\ scenario'.runs[n].report = call[r].artifact.report
        BY <2>2, <3>1 DEF Document
      <4> QED
        BY <2>3, <4>1 DEF Own
    <3>2. CASE n # call[r].run
      <4>1. n \in DOMAIN scenario.runs /\ scenario'.runs[n] = scenario.runs[n]
        BY <2>2, <3>2
      <4> QED
        BY <1>0, <4>1 DEF OwnStore
    <3> QED
      BY <3>1, <3>2
  <2>5. OwnStore'
    BY <1>0, <2>1, <2>4 DEF OwnStore, Loadable
  <2>6. OwnRun(r)'
    BY <2>1, <2>3 DEF OwnRun, InRun
  <2> QED
    BY <1>1, <2>1, <2>5, <2>6 DEF Asleep
<1>4. CASE WriteArtifact(r)
  <2>1. /\ Others(r) /\ pc[r] = "write_artifact" /\ pc'[r] = "read_index"
        /\ call'[r] = call[r] /\ scenario' = scenario
    BY <1>4, WriteArtifactLeaves
  <2>2. Own(call[r].artifact)
    BY <1>0, <2>1 DEF OwnRun, Persisting
  <2>3. OwnStore'
    BY <1>0, <1>4, <2>1, <2>2, WrittenKeeps DEF OwnStore
  <2>4. OwnRun(r)'
    BY <2>1, <2>2 DEF OwnRun, InRun
  <2> QED
    BY <1>1, <2>1, <2>3, <2>4 DEF Asleep
<1>5. CASE ReadTheIndex(r)
  <2>1. /\ Others(r) /\ pc[r] = "read_index" /\ pc'[r] = "write_index" /\ SameRun(r)
        /\ UNCHANGED <<scenario, disk>>
    BY <1>5, ReadTheIndexLeaves
  <2>2. OwnRun(r)'
    BY <1>0, <2>1 DEF OwnRun, InRun, Persisting, SameRun
  <2> QED
    BY <1>0, <1>1, <2>1, <2>2, OwnStoreSame DEF Asleep
<1>6. CASE WriteIndex(r)
  <2>1. /\ Others(r) /\ pc[r] = "write_index" /\ pc'[r] \in {"load_replay", "done"}
        /\ call'[r] = call[r] /\ disk'.artifacts = disk.artifacts /\ scenario' = scenario
    BY <1>6, WriteIndexLeaves
  <2>2. OwnRun(r)' /\ OwnStore'
    BY <1>0, <2>1 DEF OwnRun, InRun, Persisting, OwnStore, Loadable
  <2> QED
    BY <1>1, <2>1, <2>2 DEF Asleep
<1>7. CASE WriteFails(r)
  <2>1. /\ Others(r) /\ pc[r] \in {"write_artifact", "write_index"} /\ pc'[r] = "done"
        /\ TornBy(r) /\ SameRun(r) /\ scenario' = scenario
    BY <1>7, WriteFailsLeaves
  <2>2. OwnRun(r)'
    BY <1>0, <2>1 DEF OwnRun, InRun, Persisting, SameRun
  <2>3. OwnStore'
    BY <1>0, <2>1, TornKeeps DEF OwnStore
  <2> QED
    BY <1>1, <2>1, <2>2, <2>3 DEF Asleep
<1> QED
  BY <1>2, <1>3, <1>4, <1>5, <1>6, <1>7

LEMMA OwnStep ==
  ASSUME MaxInFlight = 1, Shape, FlightInv, OwnInv, [Next]_vars
  PROVE  OwnInv'
<1>0. OwnStore /\ \A r \in Req : OwnRun(r)
  BY DEF OwnInv
<1>1. ASSUME NEW r \in Req, Others(r), pc[r] \notin Asleep, pc'[r] \in {"done", "gone"},
             call'[r].artifact = call[r].artifact \/ Own(call'[r].artifact),
             UNCHANGED disk, scenario'.runs = scenario.runs
      PROVE  OwnInv'
  <2>1. OwnRun(r)'
    BY <1>0, <1>1 DEF OwnRun, InRun, Persisting
  <2> QED
    BY <1>0, <1>1, <2>1, OwnStoreSame, TakingTurns, OwnByTurns DEF InFlight, Asleep
<1>2. ASSUME NEW r \in Req, Compare(r) PROVE OwnInv'
  BY <1>1, <1>2, CompareLeaves DEF SameRun, Asleep
<1>3. ASSUME NEW r \in Req, BundleState(r) PROVE OwnInv'
  <2>1. /\ Others(r) /\ pc[r] = "bundle_state" /\ pc'[r] = "done"
        /\ call'[r].artifact.document = call[r].artifact.document
        /\ call'[r].artifact.report = call[r].artifact.report
        /\ UNCHANGED <<scenario, disk>>
    BY <1>3, BundleStateLeaves
  <2>2. Own(call'[r].artifact)
    BY <1>0, <2>1 DEF OwnRun, Own
  <2> QED
    BY <1>1, <2>1, <2>2 DEF Asleep
<1>4. ASSUME NEW r \in Req, RecordRequest(r) \/ ClearFaults(r) PROVE OwnInv'
  BY <1>1, <1>4, LastSectionLeaves DEF StoreSame, Asleep
<1>5. ASSUME NEW r \in Req, Disconnect(r) PROVE OwnInv'
  BY <1>1, <1>5, DisconnectLeaves DEF InFlight, Asleep
<1>6. CASE CrashAndRestart
  <2>1. /\ call' = call /\ \A q \in Req : pc'[q] = IF q \in InFlight THEN "gone" ELSE pc[q]
        /\ disk' = disk \/ \E r \in Req : TornBy(r)
        /\ DOMAIN scenario'.runs = {}
    BY <1>6, CrashLeaves
  <2>2. OwnStore'
    <3>1. \A n \in Loadable' : n \in Loadable /\ disk'.artifacts[n] = disk.artifacts[n]
      BY <2>1, TornKeeps
    <3> QED
      BY <1>0, <2>1, <3>1 DEF OwnStore
  <2>3. \A q \in Req : OwnRun(q)'
    BY <1>0, <2>1 DEF OwnRun, InFlight, InRun, Persisting
  <2> QED
    BY <2>2, <2>3 DEF OwnInv
<1>7. CASE UNCHANGED vars
  BY <1>7 DEF vars, OwnInv, OwnStore, OwnRun, Loadable
<1> QED
  BY <1>2, <1>3, <1>4, <1>5, <1>6, <1>7, Steps, OwnBegins, OwnRunning, OwnPersisting

LEMMA OwnInit == ASSUME Init PROVE OwnInv
<1>1. \A r \in Req : pc[r] = "idle" /\ call[r].artifact = Nil
  BY NewCallIs DEF Init
<1>2. DOMAIN disk.artifacts = {} /\ DOMAIN scenario.runs = {}
  BY DEF Init, FreshScenarioRuntime
<1> QED
  BY <1>1, <1>2 DEF OwnInv, OwnRun, OwnStore, Loadable, InRun, Persisting

\* Whatever a run reports as its faults, and whatever a client gets as the
\* bundle of a run, was injected by the rules of the run's own scenario, not of
\* one that ran before it, as long as clients take turns.
THEOREM FaultsAreOwn ==
  ASSUME MaxInFlight = 1
  PROVE  Spec => []OwnFaultsOnly
<1>1. Init => RunInv /\ OwnInv
  BY RunInvInit, OwnInit
<1>2. RunInv /\ OwnInv /\ [Next]_vars => (RunInv /\ OwnInv)'
  BY RunInvStep, OwnStep DEF RunInv
<1>3. OwnInv => OwnFaultsOnly
  <2> SUFFICES ASSUME OwnInv, NEW r \in Req, call[r].artifact # Nil,
                      NEW i \in DOMAIN call[r].artifact.report.hits
               PROVE  call[r].artifact.report.hits[i] = call[r].artifact.document.rule
    BY DEF OwnFaultsOnly
  <2>1. call[r].artifact.report.hits \in Seq({call[r].artifact.document.rule})
    BY DEF OwnInv, OwnRun, Own
  <2> QED
    BY <2>1
<1> QED
  BY <1>1, <1>2, <1>3, PTL DEF Spec

-----------------------------------------------------------------------------
(* What the run of a document comes to, when nobody else is served. *)

FiresAt(d, j) ==
  /\ d.rule # Nil
  /\ d.timeline[j] \in d.rule.actions
  /\ <<d.config.seed, j>> \in Fires

Fired(d, k) == {j \in 1..k : FiresAt(d, j)}

OutcomeAt(d, j) ==
  IF FiresAt(d, j) /\ d.rule.effect = "http_error" THEN "fault_http_error"
  ELSE IF d.timeline[j] \in RefusedActions THEN "error" ELSE "ok"

Outcomes(d, k) == [j \in 1..k |-> OutcomeAt(d, j)]

Fine(d, k) == \A j \in 1..k : OutcomeAt(d, j) = "ok"

\* What the service holds when k actions were executed.
Service(d, k) == [j \in 1..(k + 1) |-> IF j = 1 THEN "seed" ELSE d.timeline[j - 1]]

\* The run ends at its k-th action: the first that is not fine, or the last.
EndsAt(d, k) ==
  /\ k \in 0..Len(d.timeline)
  /\ IF d.seeds THEN Fine(d, k - 1) /\ (Fine(d, k) => k = Len(d.timeline)) ELSE k = 0

ServiceAt(d, k) ==
  IF ~d.seeds THEN <<>> ELSE IF Fine(d, k) THEN Service(d, k) ELSE Service(d, k - 1)

StatusAt(d, k) == IF d.seeds /\ Fine(d, k) THEN "ok" ELSE "error"

SnapshotAt(d, k) ==
  [revision |-> 4, metadata |-> RunMetadata(d, FALSE), service |-> ServiceAt(d, k)]

\* The artifact is what the run of its document comes to.
Predicted(a) ==
  /\ a.document \in Scenarios
  /\ \E k : /\ EndsAt(a.document, k)
            /\ a.report.status = StatusAt(a.document, k) /\ a.report.failed = FALSE
            /\ a.report.outcomes = Outcomes(a.document, k)
            /\ Len(a.report.hits) = Cardinality(Fired(a.document, k))
            /\ a.report.hash = SnapshotAt(a.document, k)
            /\ Len(a.events) = k

LEMMA DocumentIs ==
  ASSUME NEW d \in Scenarios
  PROVE  /\ d.timeline \in Seq(STRING) /\ Len(d.timeline) \in Nat /\ d.seeds \in BOOLEAN
         /\ d.rule = Nil \/ d.rule.effect \in {"latency", "http_error"}
BY ScenarioAssumption

LEMMA FineGrows ==
  ASSUME NEW d, NEW k \in Nat
  PROVE  Fine(d, k + 1) <=> Fine(d, k) /\ OutcomeAt(d, k + 1) = "ok"
<1>1. \A j : j \in 1..(k + 1) <=> j \in 1..k \/ j = k + 1
  OBVIOUS
<1> QED
  BY <1>1 DEF Fine

LEMMA OutcomesGrow ==
  ASSUME NEW d, NEW k \in Nat
  PROVE  /\ Len(Outcomes(d, k)) = k
         /\ Append(Outcomes(d, k), OutcomeAt(d, k + 1)) = Outcomes(d, k + 1)
<1> DEFINE S == {OutcomeAt(d, j) : j \in 1..(k + 1)}
<1>1. Outcomes(d, k) \in Seq(S) /\ OutcomeAt(d, k + 1) \in S /\ Len(Outcomes(d, k)) = k
  BY DEF Outcomes
<1>2. /\ Append(Outcomes(d, k), OutcomeAt(d, k + 1)) \in Seq(S)
      /\ Outcomes(d, k + 1) \in Seq(S) /\ Len(Outcomes(d, k + 1)) = k + 1
      /\ Len(Append(Outcomes(d, k), OutcomeAt(d, k + 1))) = k + 1
  BY <1>1 DEF Outcomes
<1>3. \A j \in 1..(k + 1) :
        Append(Outcomes(d, k), OutcomeAt(d, k + 1))[j] = Outcomes(d, k + 1)[j]
  BY <1>1 DEF Outcomes
<1> HIDE DEF S
<1> QED
  BY <1>1, <1>2, <1>3

Words == STRING \cup {"seed"}

LEMMA ServiceIs ==
  ASSUME NEW d \in Scenarios, NEW k \in 0..Len(d.timeline)
  PROVE  /\ Service(d, k) \in Seq(Words) /\ Len(Service(d, k)) = k + 1
         /\ \A j \in 1..(k + 1) :
              Service(d, k)[j] = IF j = 1 THEN "seed" ELSE d.timeline[j - 1]
<1>1. d.timeline \in Seq(STRING) /\ Len(d.timeline) \in Nat
  BY DocumentIs
<1>2. \A j \in 1..(k + 1) : (IF j = 1 THEN "seed" ELSE d.timeline[j - 1]) \in Words
  <2> TAKE j \in 1..(k + 1)
  <2>1. CASE j = 1
    BY <2>1 DEF Words
  <2>2. CASE j # 1
    <3>1. j - 1 \in 1..Len(d.timeline)
      BY <1>1, <2>2
    <3>2. d.timeline[j - 1] \in STRING
      BY <1>1, <3>1
    <3> QED
      BY <2>2, <3>2 DEF Words
  <2> QED
    BY <2>1, <2>2
<1>3. Service(d, k) \in [1..(k + 1) -> Words]
  BY <1>2 DEF Service
<1>4. k + 1 \in Nat
  BY <1>1
<1>5. Service(d, k) \in Seq(Words) /\ Len(Service(d, k)) = k + 1
  BY <1>3, <1>4
<1> QED
  BY <1>5 DEF Service

LEMMA ServiceGrows ==
  ASSUME NEW d \in Scenarios, NEW k \in Nat, k < Len(d.timeline)
  PROVE  Append(Service(d, k), d.timeline[k + 1]) = Service(d, k + 1)
<1>0. d.timeline \in Seq(STRING) /\ Len(d.timeline) \in Nat
  BY DocumentIs
<1> DEFINE s == Service(d, k)
           t == Service(d, k + 1)
           a == d.timeline[k + 1]
<1>1. /\ s \in Seq(Words) /\ Len(s) = k + 1
      /\ \A j \in 1..(k + 1) : s[j] = IF j = 1 THEN "seed" ELSE d.timeline[j - 1]
  BY <1>0, ServiceIs
<1>2. a \in Words
  <2>1. k + 1 \in 1..Len(d.timeline)
    BY <1>0
  <2> QED
    BY <1>0, <2>1 DEF Words
<1>3. /\ t \in Seq(Words) /\ Len(t) = k + 2
      /\ \A j \in 1..(k + 2) : t[j] = IF j = 1 THEN "seed" ELSE d.timeline[j - 1]
  <2>1. k + 1 \in 0..Len(d.timeline) /\ (k + 1) + 1 = k + 2
    BY <1>0
  <2> QED
    BY <2>1, ServiceIs
<1>4. t[k + 2] = a
  BY <1>3
<1> HIDE DEF s, t, a
<1>5. \A j \in 1..(k + 1) : s[j] = t[j]
  <2>1. TAKE j \in 1..(k + 1)
  <2>2. j \in 1..(k + 2)
    BY <2>1
  <2> QED
    BY ONLY <1>1, <1>3, <2>1, <2>2
<1>6. Append(s, a) \in Seq(Words) /\ Len(Append(s, a)) = k + 2
  BY <1>1, <1>2
<1>7. \A j \in 1..(k + 1) : Append(s, a)[j] = s[j]
  BY <1>1, <1>2
<1>8. Append(s, a)[k + 2] = a
  <2>1. Append(s, a)[Len(s) + 1] = a
    BY <1>1, <1>2
  <2>2. Len(s) + 1 = k + 2
    BY <1>1
  <2> QED
    BY <2>1, <2>2, Zenon
<1>9. \A j \in 1..(k + 2) : Append(s, a)[j] = t[j]
  <2> TAKE j \in 1..(k + 2)
  <2>1. CASE j = k + 2
    BY <1>4, <1>8, <2>1
  <2>2. CASE j \in 1..(k + 1)
    BY <1>5, <1>7, <2>2
  <2>3. j = k + 2 \/ j \in 1..(k + 1)
    OBVIOUS
  <2> QED
    BY <2>1, <2>2, <2>3, Zenon
<1>10. Append(s, a) = t
  BY <1>3, <1>6, <1>9
<1> QED
  BY <1>10 DEF s, t, a

LEMMA ServiceEnds ==
  ASSUME NEW d \in Scenarios
  PROVE  /\ Service(d, 0) = Append(<<>>, "seed")
         /\ Service(d, Len(d.timeline)) = <<"seed">> \o d.timeline
<1>0. d.timeline \in Seq(STRING) /\ Len(d.timeline) \in Nat
  BY DocumentIs
<1> DEFINE n == Len(d.timeline)
           s == Service(d, n)
           h == <<"seed">>
<1>1. /\ s \in Seq(Words) /\ Len(s) = n + 1
      /\ \A j \in 1..(n + 1) : s[j] = IF j = 1 THEN "seed" ELSE d.timeline[j - 1]
  BY <1>0, ServiceIs
<1>2. h \in Seq(Words) /\ Len(h) = 1 /\ h[1] = "seed"
  BY DEF Words
<1> HIDE DEF h, s
<1>3. d.timeline \in Seq(Words)
  BY <1>0 DEF Words
<1>4. /\ h \o d.timeline \in Seq(Words) /\ Len(h \o d.timeline) = n + 1
      /\ \A j \in 1..(n + 1) :
           (h \o d.timeline)[j] = IF j <= 1 THEN h[j] ELSE d.timeline[j - 1]
  <2>1. /\ h \o d.timeline \in Seq(Words)
        /\ Len(h \o d.timeline) = Len(h) + Len(d.timeline)
        /\ \A j \in 1..(Len(h) + Len(d.timeline)) :
             (h \o d.timeline)[j] = IF j <= Len(h) THEN h[j] ELSE d.timeline[j - Len(h)]
    BY <1>2, <1>3, ConcatProperties
  <2>2. Len(h) + Len(d.timeline) = n + 1
    BY <1>0, <1>2
  <2> QED
    BY <1>2, <2>1, <2>2
<1>5. \A j \in 1..(n + 1) : s[j] = (h \o d.timeline)[j]
  <2> TAKE j \in 1..(n + 1)
  <2>1. CASE j = 1
    <3>1. (h \o d.timeline)[j] = h[1] /\ s[j] = "seed"
      BY <1>1, <1>4, <2>1
    <3> QED
      BY <1>2, <3>1
  <2>2. CASE j # 1
    <3>1. ~(j <= 1)
      BY <1>0, <2>2
    <3> QED
      BY <1>1, <1>4, <2>2, <3>1
  <2> QED
    BY <2>1, <2>2
<1>6. s = h \o d.timeline
  <2> DEFINE t == h \o d.timeline
  <2>1. /\ s \in Seq(Words) /\ t \in Seq(Words) /\ Len(s) = Len(t)
        /\ \A j \in 1..Len(s) : s[j] = t[j]
    BY <1>1, <1>4, <1>5
  <2> HIDE DEF t, n
  <2>2. s = t
    BY <2>1, SeqEqual
  <2> QED
    BY <2>2 DEF t
<1>7. Service(d, 0) = Append(<<>>, "seed")
  BY DEF Service
<1> QED
  BY <1>6, <1>7 DEF h, s

LEMMA FiredGrows ==
  ASSUME NEW d, NEW k \in Nat
  PROVE  /\ Cardinality(Fired(d, k)) \in Nat
         /\ Cardinality(Fired(d, k + 1)) =
              IF FiresAt(d, k + 1) THEN Cardinality(Fired(d, k)) + 1
              ELSE Cardinality(Fired(d, k))
<1>1. IsFiniteSet(Fired(d, k))
  <2>1. IsFiniteSet(1..k) /\ Fired(d, k) \in SUBSET (1..k)
    BY FS_Interval DEF Fired
  <2> QED
    BY <2>1, FS_Subset
<1>2. Fired(d, k + 1) = IF FiresAt(d, k + 1) THEN Fired(d, k) \cup {k + 1} ELSE Fired(d, k)
  BY DEF Fired
<1>3. k + 1 \notin Fired(d, k)
  BY DEF Fired
<1> QED
  BY <1>1, <1>2, <1>3, FS_AddElement, FS_CardinalityType

\* A run can end at one action only, ...
LEMMA EndsOnce ==
  ASSUME NEW d \in Scenarios, NEW k, NEW l, EndsAt(d, k), EndsAt(d, l)
  PROVE  k = l
<1>0. Len(d.timeline) \in Nat /\ d.seeds \in BOOLEAN
  BY DocumentIs
<1>1. k \in Nat /\ l \in Nat /\ k <= Len(d.timeline) /\ l <= Len(d.timeline)
  BY <1>0 DEF EndsAt
<1>2. ASSUME NEW m \in Nat, NEW n \in Nat, m < n, EndsAt(d, m), EndsAt(d, n), d.seeds
      PROVE  FALSE
  <2>1. Fine(d, n - 1) /\ (Fine(d, m) => m = Len(d.timeline)) /\ n <= Len(d.timeline)
    BY <1>0, <1>2 DEF EndsAt
  <2>2. 1..m \subseteq 1..(n - 1)
    BY <1>2
  <2>3. Fine(d, m)
    BY <2>1, <2>2 DEF Fine
  <2> QED
    BY <1>0, <1>2, <2>1, <2>3
<1>3. CASE d.seeds
  BY <1>1, <1>2, <1>3
<1>4. CASE ~d.seeds
  BY <1>4 DEF EndsAt
<1> QED
  BY <1>0, <1>3, <1>4

\* ... so that two artifacts of one document are found to match.
LEMMA PredictedMatch ==
  ASSUME NEW a, NEW b, Predicted(a), Predicted(b), a.document = b.document
  PROVE  DeterministicMatch(a, b)
<1> DEFINE d == a.document
<1>1. d \in Scenarios /\ b.document = d
  BY DEF Predicted
<1>2. PICK k : /\ EndsAt(d, k) /\ a.report.status = StatusAt(d, k) /\ a.report.failed = FALSE
               /\ a.report.outcomes = Outcomes(d, k)
               /\ Len(a.report.hits) = Cardinality(Fired(d, k))
               /\ a.report.hash = SnapshotAt(d, k) /\ Len(a.events) = k
  BY DEF Predicted
<1>3. PICK l : /\ EndsAt(d, l) /\ b.report.status = StatusAt(d, l) /\ b.report.failed = FALSE
               /\ b.report.outcomes = Outcomes(d, l)
               /\ Len(b.report.hits) = Cardinality(Fired(d, l))
               /\ b.report.hash = SnapshotAt(d, l) /\ Len(b.events) = l
  BY <1>1 DEF Predicted
<1>4. k = l
  BY <1>1, <1>2, <1>3, EndsOnce
<1> HIDE DEF d
<1> QED
  BY <1>2, <1>3, <1>4 DEF DeterministicMatch

-----------------------------------------------------------------------------
(* A run on its way to that, section by section. *)

\* Where a run is between its reset and its last action, ...
Going == {"install_faults", "read_seed", "draw", "fail_action", "execute", "check"}

\* ... and where it has an artifact that it is not compared by yet.
Finished == Persisting \cup {"load_replay"}

\* The document is a scenario, and so is that of the baseline.
Known(r) ==
  /\ call[r].document \in Scenarios
  /\ call[r].op = "verify" =>
       Predicted(call[r].baseline) /\ call[r].baseline.document = call[r].document

\* What a run has recorded, and has done to the runtime, when its first k
\* actions were fine.
Untouched(r) ==
  /\ call[r].outcomes = <<>> /\ call[r].hits = <<>>
  /\ call[r].status = "ok" /\ call[r].failed = FALSE

Went(r, k) ==
  LET d == call[r].document IN
  /\ d.seeds /\ k \in 0..Len(d.timeline) /\ Fine(d, k)
  /\ call[r].outcomes = Outcomes(d, k)
  /\ Len(call[r].hits) = Cardinality(Fired(d, k))
  /\ call[r].status = "ok" /\ call[r].failed = FALSE
  /\ runtime.kernel.config = d.config
  /\ runtime.kernel.revision = 0 /\ runtime.kernel.metadata = {}
  /\ runtime.kernel.nextSequence = k + 1
  /\ runtime.service = Service(d, k)

\* ... what is decided about the action after those, ...
Decided(r, k) ==
  LET d == call[r].document
      hit == FiresAt(d, k + 1)
      fails == hit /\ d.rule.effect = "http_error" IN
  /\ pc[r] = "install_faults" => k = 0
  /\ pc[r] \in {"read_seed", "draw", "fail_action", "execute"} => k < Len(d.timeline)
  /\ pc[r] = "check" => k = Len(d.timeline)
  /\ pc[r] \in {"read_seed", "draw"} => scenario.decisionIndex = k
  /\ pc[r] = "draw" => call[r].drawSeed = d.config.seed
  /\ pc[r] \in {"fail_action", "execute"} =>
       scenario.decisionIndex = k + 1 /\ call[r].hit = IF hit THEN d.rule ELSE Nil
  /\ pc[r] = "fail_action" => fails
  /\ pc[r] = "execute" => ~fails

\* ... and the same when it is over.
Ended(r, k) ==
  LET d == call[r].document IN
  /\ EndsAt(d, k)
  /\ call[r].outcomes = Outcomes(d, k)
  /\ Len(call[r].hits) = Cardinality(Fired(d, k))
  /\ call[r].status = StatusAt(d, k) /\ call[r].failed = FALSE
  /\ runtime.kernel.revision = 0 /\ runtime.kernel.metadata = {}
  /\ runtime.kernel.nextSequence = k + 1
  /\ runtime.service = ServiceAt(d, k)

ReplayRun(r) ==
  /\ call[r].verdict \in {Nil, TRUE}
  /\ pc[r] \in {"allocate"} \cup InRun \cup Finished => Known(r)
  /\ pc[r] \in {"allocate", "initialise"} => Untouched(r)
  /\ pc[r] \in Going => \E k : Went(r, k) /\ Decided(r, k)
  /\ pc[r] = "finalise" => \E k : Ended(r, k)
  /\ pc[r] \in Finished =>
       Predicted(call[r].artifact) /\ call[r].artifact.document = call[r].document
  /\ pc[r] \in {"read_index", "write_index", "load_replay"} =>
       /\ call[r].run \in DOMAIN disk.artifacts
       /\ disk.artifacts[call[r].run] = call[r].artifact
  /\ pc[r] = "load_replay" => call[r].op = "verify"

ReplayStore ==
  /\ \A n \in DOMAIN scenario.runs : scenario.runs[n].document \in Scenarios
  /\ \A n \in Loadable : Predicted(disk.artifacts[n])

ReplayInv == ReplayStore /\ \A r \in Req : ReplayRun(r)

LEMMA ReplayByTurns ==
  ASSUME ReplayInv, NEW r \in Req, Others(r), \A q \in Req \ {r} : pc[q] \in Asleep,
         ReplayRun(r)', ReplayStore'
  PROVE  ReplayInv'
<1>1. ASSUME NEW q \in Req \ {r} PROVE ReplayRun(q)'
  <2>1. call'[q].verdict \in {Nil, TRUE} /\ pc'[q] \in Asleep
    BY DEF ReplayInv, ReplayRun, Others
  <2> QED
    BY <2>1 DEF ReplayRun, Asleep, InRun, Going, Finished, Persisting
<1> QED
  BY <1>1 DEF ReplayInv

LEMMA ReplayStoreSame ==
  ASSUME ReplayStore, UNCHANGED disk, scenario'.runs = scenario.runs
  PROVE  ReplayStore'
BY DEF ReplayStore, Loadable

\* A step of a run that leaves the store alone.
LEMMA ReplayRuns ==
  ASSUME MaxInFlight = 1, Shape, FlightInv, ReplayInv, NEW r \in Req, Others(r),
         UNCHANGED disk, scenario'.runs = scenario.runs, ReplayRun(r)',
         pc[r] \notin Asleep
  PROVE  ReplayInv'
BY TakingTurns, ReplayByTurns, ReplayStoreSame DEF ReplayInv, InFlight, Asleep

LEMMA ReplayBegins ==
  ASSUME MaxInFlight = 1, Shape, ReplayInv, NEW r \in Req,
         \/ Apply(r) \/ Replay(r) \/ VerifyReplay(r)
         \/ BundleFromMemory(r) \/ BundleFromDisk(r)
         \/ HandleRequest(r) \/ Reset(r) \/ Seed(r) \/ RestoreSnapshot(r)
  PROVE  ReplayInv'
<1>1. ASSUME Begins(r), Others(r), Fresh(r), UNCHANGED <<scenario, disk>>,
             pc'[r] \in {"allocate", "bundle_state", "record", "clear_faults", "done"},
             pc'[r] = "allocate" => Known(r)'
      PROVE  ReplayInv'
  <2>1. ReplayRun(r)'
    BY <1>1 DEF ReplayRun, Untouched, Fresh, InRun, Going, Finished, Persisting
  <2>2. ReplayStore'
    BY <1>1, ReplayStoreSame DEF ReplayInv
  <2> QED
    BY <1>1, <2>1, <2>2, NobodyElse, ReplayByTurns
<1>2. CASE Apply(r) \/ Replay(r) \/ VerifyReplay(r)
  <2>1. /\ Begins(r) /\ Others(r) /\ Fresh(r) /\ UNCHANGED <<scenario, disk>>
        /\ pc'[r] = "allocate" /\ BegunRun(r)
    BY <1>2, RunBeginsLeaves
  <2>2. call'[r].document \in Scenarios
    BY <2>1 DEF BegunRun, KeptDocument, ReplayInv, ReplayStore, Predicted
  <2>3. call'[r].op = "verify" =>
          Predicted(call'[r].baseline) /\ call'[r].baseline.document = call'[r].document
    BY <2>1 DEF BegunRun, ReplayInv, ReplayStore
  <2>4. Known(r)'
    BY <2>2, <2>3 DEF Known, Predicted
  <2> QED
    BY <1>1, <2>1, <2>4
<1>3. CASE BundleFromMemory(r) \/ BundleFromDisk(r)
  BY <1>1, <1>3, BundleBeginsLeaves
<1>4. CASE HandleRequest(r) \/ Reset(r) \/ Seed(r) \/ RestoreSnapshot(r)
  BY <1>1, <1>4, OtherBeginsLeaves
<1> QED
  BY <1>2, <1>3, <1>4

LEMMA ReplayAllocates ==
  ASSUME MaxInFlight = 1, Shape, FlightInv, ReplayInv, NEW r \in Req, AllocateRunId(r)
  PROVE  ReplayInv'
<1>1. /\ Others(r) /\ pc[r] = "allocate" /\ pc'[r] = "initialise"
      /\ SameOrigin(r) /\ SameRecord(r) /\ call'[r].verdict = call[r].verdict
      /\ UNCHANGED disk /\ scenario'.runs = scenario.runs
  BY AllocateLeaves
<1>2. ReplayRun(r) /\ Known(r) /\ Untouched(r)
  BY <1>1 DEF ReplayInv, ReplayRun
<1>3. Known(r)' /\ Untouched(r)'
  BY <1>1, <1>2 DEF Known, Untouched, SameOrigin, SameRecord, Predicted
<1>4. ReplayRun(r)'
  BY <1>1, <1>2, <1>3 DEF ReplayRun, Going, Finished, Persisting
<1> QED
  BY <1>1, <1>4, ReplayRuns DEF Asleep

LEMMA ReplayInitialises ==
  ASSUME MaxInFlight = 1, Shape, FlightInv, ReplayInv, NEW r \in Req, Initialise(r)
  PROVE  ReplayInv'
<1> DEFINE d == call[r].document
<1>1. /\ Others(r) /\ pc[r] = "initialise"
      /\ SameOrigin(r) /\ SameRun(r) /\ call'[r].verdict = call[r].verdict
      /\ call'[r].outcomes = call[r].outcomes /\ call'[r].hits = call[r].hits
      /\ call'[r].failed = call[r].failed
      /\ UNCHANGED <<scenario, disk, crashes>>
  BY InitialiseLeaves
<1>2. /\ runtime'.kernel = ResetKernel(runtime.kernel, d.config)
      /\ \/ /\ d.seeds /\ pc'[r] = "install_faults" /\ call'[r].status = call[r].status
            /\ runtime'.service = Append(<<>>, "seed")
         \/ /\ ~d.seeds /\ pc'[r] = "finalise" /\ call'[r].status = "error"
            /\ runtime'.service = <<>>
  BY InitialiseLeaves DEF Document, SameRecord
<1>3. ReplayRun(r) /\ Known(r) /\ Untouched(r)
  BY <1>1 DEF ReplayInv, ReplayRun, InRun
<1>4. Known(r)' /\ call'[r].document = d /\ d \in Scenarios
  BY <1>1, <1>3 DEF Known, SameOrigin, Predicted
<1>5. /\ runtime'.kernel.config = d.config /\ runtime'.kernel.revision = 0
      /\ runtime'.kernel.metadata = {} /\ runtime'.kernel.nextSequence = 1
  BY <1>2, FreshKernelFields
<1>6. Len(d.timeline) \in Nat /\ Service(d, 0) = Append(<<>>, "seed")
  BY <1>4, DocumentIs, ServiceEnds
<1> HIDE DEF d
<1>7. Fine(d, 0) /\ Outcomes(d, 0) = <<>> /\ Fired(d, 0) = {}
  <2>1. 1..0 = {}
    OBVIOUS
  <2>2. Outcomes(d, 0) = <<>>
    <3>1. Outcomes(d, 0) \in Seq({}) /\ Len(Outcomes(d, 0)) = 0
      BY <2>1 DEF Outcomes
    <3> QED
      BY <3>1, EmptySeq
  <2>3. Fine(d, 0)
    BY <2>1 DEF Fine
  <2>4. Fired(d, 0) = {}
    BY <2>1 DEF Fired
  <2> QED
    BY <2>2, <2>3, <2>4
<1>8. call'[r].outcomes = Outcomes(d, 0) /\ Len(call'[r].hits) = Cardinality(Fired(d, 0))
  <2>1. Cardinality(Fired(d, 0)) = 0
    BY <1>7, FS_EmptySet
  <2>2. call'[r].hits = <<>> /\ call'[r].outcomes = <<>> /\ Len(<<>>) = 0
    BY <1>1, <1>3 DEF Untouched
  <2> QED
    BY <1>7, <2>1, <2>2, Zenon
<1>9. CASE pc'[r] = "install_faults"
  <2>1. Went(r, 0)' /\ Decided(r, 0)'
    BY <1>1, <1>2, <1>3, <1>4, <1>5, <1>6, <1>7, <1>8, <1>9 DEF Went, Decided, Untouched
  <2>2. ReplayRun(r)'
    BY <1>1, <1>3, <1>4, <1>9, <2>1 DEF ReplayRun, Going, Finished, Persisting
  <2> QED
    BY <1>1, <2>2, ReplayRuns DEF Asleep
<1>10. CASE pc'[r] = "finalise"
  <2>1. Ended(r, 0)'
    BY <1>1, <1>2, <1>3, <1>4, <1>5, <1>6, <1>8, <1>10
    DEF Ended, Untouched, EndsAt, StatusAt, ServiceAt
  <2>2. ReplayRun(r)'
    BY <1>1, <1>3, <1>4, <1>10, <2>1 DEF ReplayRun, Going, Finished, Persisting
  <2> QED
    BY <1>1, <2>2, ReplayRuns DEF Asleep
<1> QED
  BY <1>2, <1>9, <1>10

\* Until the action is executed the run has only to be decided.
LEMMA ReplayDecides ==
  ASSUME MaxInFlight = 1, Shape, FlightInv, OwnInv, ReplayInv, NEW r \in Req,
         InstallFaults(r) \/ ReadSeed(r) \/ Draw(r)
  PROVE  ReplayInv'
<1> DEFINE d == call[r].document
<1>1. /\ Others(r) /\ pc[r] \in Going /\ pc'[r] \in Going /\ SameOrigin(r) /\ SameRecord(r)
      /\ call'[r].verdict = call[r].verdict /\ UNCHANGED <<runtime, disk>>
      /\ scenario'.runs = scenario.runs
  BY InstallFaultsLeaves, ReadSeedLeaves, DrawLeaves DEF Going, SameOrigin, SameRecord
<1>2. ReplayRun(r) /\ Known(r) /\ OwnRun(r)
  BY <1>1 DEF ReplayInv, ReplayRun, OwnInv, InRun, Going
<1>3. PICK k : Went(r, k) /\ Decided(r, k)
  BY <1>1, <1>2 DEF ReplayRun
<1>4. Known(r)' /\ call'[r].document = d /\ Went(r, k)'
  BY <1>1, <1>2, <1>3 DEF Known, SameOrigin, SameRecord, Went, Predicted
<1>5. /\ k \in Nat /\ k <= Len(d.timeline) /\ Len(d.timeline) \in Nat
      /\ Len(call[r].outcomes) = k
      /\ runtime.kernel.config = d.config
  <2>1. d \in Scenarios
    BY <1>2 DEF Known
  <2>2. Len(d.timeline) \in Nat
    BY <2>1, DocumentIs
  <2>3. k \in Nat /\ k <= Len(d.timeline)
    BY <1>3, <2>2 DEF Went
  <2> QED
    BY <1>3, <2>2, <2>3, OutcomesGrow DEF Went
<1>6. CASE InstallFaults(r)
  <2>1. /\ pc[r] = "install_faults" /\ scenario'.decisionIndex = 0
        /\ pc'[r] = IF 0 < Len(d.timeline) THEN "read_seed" ELSE "check"
    BY <1>6, InstallFaultsLeaves DEF Document
  <2> HIDE DEF d
  <2>2. Decided(r, k)'
    BY <1>3, <1>4, <1>5, <2>1 DEF Decided
  <2> QED
    BY <1>1, <1>2, <1>4, <2>1, <2>2, ReplayRuns
    DEF ReplayRun, Going, Finished, Persisting, Asleep
<1>7. CASE ReadSeed(r)
  <2>1. /\ pc[r] = "read_seed" /\ pc'[r] = "draw" /\ UNCHANGED scenario
        /\ call'[r].drawSeed = d.config.seed
    BY <1>5, <1>7, ReadSeedLeaves
  <2> HIDE DEF d
  <2>2. Decided(r, k)'
    BY <1>3, <1>4, <2>1 DEF Decided, d
  <2> QED
    BY <1>1, <1>2, <1>4, <2>1, <2>2, ReplayRuns
    DEF ReplayRun, Going, Finished, Persisting, Asleep
<1>8. CASE Draw(r)
  <2>1. /\ pc[r] = "draw"
        /\ pc'[r] = IF Firing(r) /\ scenario.rule.effect = "http_error"
                    THEN "fail_action" ELSE "execute"
        /\ call'[r].hit = IF Firing(r) THEN scenario.rule ELSE Nil
        /\ scenario'.decisionIndex = scenario.decisionIndex + 1
    BY <1>8, DrawLeaves
  <2>2. /\ scenario.rule = d.rule /\ scenario.decisionIndex = k /\ k < Len(d.timeline)
        /\ call[r].drawSeed = d.config.seed
    BY <1>2, <1>3, <2>1 DEF OwnRun, Decided
  <2>3. Firing(r) <=> FiresAt(d, k + 1)
    BY <1>5, <2>2 DEF Firing, FiresAt, NextAction, Document
  <2> HIDE DEF d
  <2>4. Decided(r, k)'
    BY <1>4, <2>1, <2>2, <2>3 DEF Decided
  <2> QED
    BY <1>1, <1>2, <1>4, <2>1, <2>4, ReplayRuns
    DEF ReplayRun, Going, Finished, Persisting, Asleep
<1> QED
  BY <1>6, <1>7, <1>8

\* What an action adds to the record is what its document says.
LEMMA ReplayRecords ==
  ASSUME NEW r \in Req, Shape, OwnRun(r), Known(r), NEW k, Went(r, k), Decided(r, k),
         pc[r] \in {"fail_action", "execute"}, NEW outcome,
         outcome = OutcomeAt(call[r].document, k + 1), RecordedAs(r, outcome)
  PROVE  LET d == call[r].document IN
         /\ k \in Nat /\ k < Len(d.timeline) /\ Len(d.timeline) \in Nat
         /\ call'[r].outcomes = Outcomes(d, k + 1)
         /\ Len(call'[r].outcomes) = k + 1
         /\ Len(call'[r].hits) = Cardinality(Fired(d, k + 1))
         /\ call'[r].failed = FALSE
         /\ call'[r].status = IF outcome = "ok" THEN "ok" ELSE "error"
         /\ runtime'.kernel.config = d.config
         /\ runtime'.kernel.revision = 0 /\ runtime'.kernel.metadata = {}
         /\ runtime'.kernel.nextSequence = (k + 1) + 1
<1> DEFINE d == call[r].document
<1>1. d \in Scenarios
  BY DEF Known
<1>2. Len(d.timeline) \in Nat
  BY <1>1, DocumentIs
<1>3. k \in Nat /\ k < Len(d.timeline)
  BY <1>2 DEF Went, Decided
<1>4. call'[r].outcomes = Outcomes(d, k + 1)
  <2>1. call[r].outcomes = Outcomes(d, k)
    BY DEF Went
  <2>2. call'[r].outcomes = Append(call[r].outcomes, OutcomeAt(d, k + 1))
    BY DEF RecordedAs
  <2> QED
    BY ONLY <1>3, <2>1, <2>2, OutcomesGrow
<1>5. Len(call'[r].outcomes) = k + 1
  <2>1. k + 1 \in Nat
    BY <1>3
  <2> QED
    BY <1>4, <2>1, OutcomesGrow
<1>6. Len(call'[r].hits) = Cardinality(Fired(d, k + 1))
  <2> DEFINE hits == call[r].hits
             hit == call[r].hit
  <2>1. hits \in Seq({d.rule}) /\ Len(hits) = Cardinality(Fired(d, k))
    BY DEF OwnRun, InRun, Went
  <2>2. hit = IF FiresAt(d, k + 1) THEN d.rule ELSE Nil
    BY DEF Decided
  <2>3. FiresAt(d, k + 1) => d.rule # Nil
    BY DEF FiresAt
  <2>4. call'[r].hits = IF hit = Nil THEN hits ELSE Append(hits, hit)
    BY DEF RecordedAs
  <2>5. Cardinality(Fired(d, k + 1)) =
          IF FiresAt(d, k + 1) THEN Cardinality(Fired(d, k)) + 1
          ELSE Cardinality(Fired(d, k))
    BY <1>3, FiredGrows
  <2> HIDE DEF d, hits, hit
  <2>6. CASE FiresAt(d, k + 1)
    <3>1. call'[r].hits = Append(hits, d.rule)
      BY <2>2, <2>3, <2>4, <2>6
    <3>2. Len(Append(hits, d.rule)) = Len(hits) + 1
      BY <2>1
    <3> QED
      BY <2>1, <2>5, <2>6, <3>1, <3>2
  <2>7. CASE ~FiresAt(d, k + 1)
    BY <2>1, <2>2, <2>4, <2>5, <2>7
  <2> QED
    BY <2>6, <2>7
<1>7. call'[r].failed = FALSE /\ call'[r].status = IF outcome = "ok" THEN "ok" ELSE "error"
  BY DEF RecordedAs, Went
<1>8. /\ runtime'.kernel.config = d.config
      /\ runtime'.kernel.revision = 0 /\ runtime'.kernel.metadata = {}
      /\ runtime'.kernel.nextSequence = (k + 1) + 1
  <2> DEFINE kernel == runtime.kernel
             event == Event(r, outcome)
  <2>1. IsKernel(kernel)
    BY DEF Shape, IsRuntime
  <2>2. runtime'.kernel = RecordEvent(kernel, event)
    BY DEF RecordedAs
  <2>3. /\ kernel.config = d.config /\ kernel.revision = 0 /\ kernel.metadata = {}
        /\ kernel.nextSequence = k + 1
    BY DEF Went
  <2> HIDE DEF kernel, event
  <2> QED
    BY <2>1, <2>2, <2>3, RecordFields
<1> QED
  BY <1>2, <1>3, <1>4, <1>5, <1>6, <1>7, <1>8

LEMMA ReplayActs ==
  ASSUME MaxInFlight = 1, Shape, FlightInv, OwnInv, ReplayInv, NEW r \in Req,
         FailAction(r) \/ ExecuteAction(r)
  PROVE  ReplayInv'
<1> DEFINE d == call[r].document
           outcome == IF FailAction(r) THEN "fault_http_error"
                      ELSE IF NextAction(r) \in RefusedActions THEN "error" ELSE "ok"
<1> HIDE DEF outcome
<1>1. /\ Others(r) /\ RecordedAs(r, outcome) /\ UNCHANGED <<scenario, disk>>
      /\ \/ /\ FailAction(r) /\ outcome = "fault_http_error"
            /\ pc[r] = "fail_action" /\ pc'[r] = "finalise"
            /\ runtime'.service = runtime.service
         \/ /\ outcome = IF NextAction(r) \in RefusedActions THEN "error" ELSE "ok"
            /\ pc[r] = "execute"
            /\ pc'[r] = IF outcome # "ok" THEN "finalise"
                        ELSE IF Len(call'[r].outcomes) < Len(d.timeline)
                        THEN "read_seed" ELSE "check"
            /\ runtime'.service = IF outcome = "ok"
                                  THEN Append(runtime.service, NextAction(r))
                                  ELSE runtime.service
  <2>1. CASE FailAction(r)
    <3>1. outcome = "fault_http_error"
      BY <2>1 DEF outcome
    <3> QED
      BY <2>1, <3>1, FailActionLeaves
  <2>2. CASE ~FailAction(r)
    <3>1. outcome = IF NextAction(r) \in RefusedActions THEN "error" ELSE "ok"
      BY <2>2 DEF outcome
    <3> QED
      BY <2>2, <3>1, ExecuteActionLeaves DEF Document
  <2> QED
    BY <2>1, <2>2
<1>2. pc[r] \in {"fail_action", "execute"}
      /\ pc'[r] \in {"read_seed", "check", "finalise"}
  BY <1>1
<1>3. ReplayRun(r) /\ Known(r) /\ OwnRun(r)
  BY <1>2 DEF ReplayInv, ReplayRun, OwnInv, InRun
<1>4. PICK k : Went(r, k) /\ Decided(r, k)
  BY <1>2, <1>3 DEF ReplayRun, Going
<1>5. d \in Scenarios /\ Known(r)' /\ call'[r].document = d
      /\ call'[r].verdict \in {Nil, TRUE}
  <2>1. SameOrigin(r) /\ call'[r].verdict = call[r].verdict
    BY <1>1 DEF RecordedAs
  <2>2. call[r].verdict \in {Nil, TRUE}
    BY <1>3 DEF ReplayRun
  <2>3. /\ d \in Scenarios
        /\ call[r].op = "verify" =>
             Predicted(call[r].baseline) /\ call[r].baseline.document = d
    BY <1>3 DEF Known
  <2>4. Known(r)' /\ call'[r].document = d
    BY ONLY <2>1, <2>3 DEF Known, SameOrigin, Predicted
  <2> QED
    BY <2>1, <2>2, <2>3, <2>4
<1>6. k \in Nat /\ Len(call[r].outcomes) = k /\ NextAction(r) = d.timeline[k + 1]
  <2>1. Len(d.timeline) \in Nat
    BY <1>5, DocumentIs
  <2>2. k \in Nat
    BY <1>4, <2>1 DEF Went
  <2>3. Len(call[r].outcomes) = k
    BY <1>4, <2>2, OutcomesGrow DEF Went
  <2> QED
    BY <2>2, <2>3 DEF NextAction, Document
<1>7. outcome = OutcomeAt(d, k + 1)
  BY <1>1, <1>4, <1>6 DEF Decided, OutcomeAt
<1>8. /\ k < Len(d.timeline) /\ Len(d.timeline) \in Nat
      /\ call'[r].outcomes = Outcomes(d, k + 1) /\ Len(call'[r].outcomes) = k + 1
      /\ Len(call'[r].hits) = Cardinality(Fired(d, k + 1))
      /\ call'[r].failed = FALSE
      /\ call'[r].status = IF outcome = "ok" THEN "ok" ELSE "error"
      /\ runtime'.kernel.config = d.config
      /\ runtime'.kernel.revision = 0 /\ runtime'.kernel.metadata = {}
      /\ runtime'.kernel.nextSequence = (k + 1) + 1
  BY <1>1, <1>2, <1>3, <1>4, <1>7, ReplayRecords
<1>9. /\ d.seeds /\ Fine(d, k) /\ runtime.service = Service(d, k)
      /\ scenario.decisionIndex = k + 1
  BY <1>2, <1>4 DEF Went, Decided
<1>10. Fine(d, k + 1) <=> outcome = "ok"
  BY <1>6, <1>7, <1>9, FineGrows
<1> HIDE DEF d
<1>11. CASE outcome = "ok"
  <2>1. /\ pc[r] = "execute" /\ runtime'.service = Append(runtime.service, NextAction(r))
        /\ pc'[r] = IF k + 1 < Len(d.timeline) THEN "read_seed" ELSE "check"
    BY <1>1, <1>8, <1>11
  <2>2. runtime'.service = Service(d, k + 1)
    BY <1>5, <1>6, <1>8, <1>9, <2>1, ServiceGrows
  <2>3. k + 1 \in 0..Len(d.timeline)
    BY <1>6, <1>8
  <2>4. Went(r, k + 1)'
    BY <1>5, <1>8, <1>9, <1>10, <1>11, <2>2, <2>3 DEF Went
  <2>5. Decided(r, k + 1)'
    BY <1>1, <1>5, <1>6, <1>8, <1>9, <2>1 DEF Decided
  <2>6. ReplayRun(r)'
    BY <1>5, <2>1, <2>4, <2>5 DEF ReplayRun, Going, Finished, Persisting
  <2> QED
    BY <1>1, <1>2, <2>6, ReplayRuns DEF Asleep
<1>12. CASE outcome # "ok"
  <2>1. pc'[r] = "finalise" /\ runtime'.service = Service(d, k)
    BY <1>1, <1>9, <1>12
  <2>2. k + 1 \in 0..Len(d.timeline) /\ (k + 1) - 1 = k
    BY <1>6, <1>8
  <2>3. EndsAt(d, k + 1) /\ StatusAt(d, k + 1) = "error"
        /\ ServiceAt(d, k + 1) = Service(d, k)
    BY <1>9, <1>10, <1>12, <2>2 DEF EndsAt, StatusAt, ServiceAt
  <2>4. Ended(r, k + 1)'
    BY <1>5, <1>8, <1>12, <2>1, <2>3 DEF Ended
  <2>5. ReplayRun(r)'
    BY <1>5, <2>1, <2>4 DEF ReplayRun, Going, Finished, Persisting
  <2> QED
    BY <1>1, <1>2, <2>5, ReplayRuns DEF Asleep
<1> QED
  BY <1>11, <1>12

\* The assertions find what the scenario put there.
LEMMA ReplayChecks ==
  ASSUME MaxInFlight = 1, Shape, FlightInv, ReplayInv, NEW r \in Req, CheckAssertions(r)
  PROVE  ReplayInv'
<1> DEFINE d == call[r].document
           failed == (runtime.service # <<"seed">> \o Document(r).timeline)
<1>0. failed = (runtime.service # <<"seed">> \o d.timeline)
      /\ failed = (runtime.service # <<"seed">> \o Document(r).timeline)
  BY DEF Document
<1> HIDE DEF failed
<1>1. /\ Others(r) /\ pc[r] = "check" /\ pc'[r] = "finalise"
      /\ SameOrigin(r) /\ call'[r].verdict = call[r].verdict
      /\ call'[r].outcomes = call[r].outcomes /\ call'[r].hits = call[r].hits
      /\ call'[r].failed = failed
      /\ call'[r].status = IF failed THEN "assertion_failed" ELSE call[r].status
      /\ UNCHANGED <<runtime, scenario, disk, crashes>>
  BY <1>0, CheckAssertionsLeaves
<1>2. ReplayRun(r) /\ Known(r)
  BY <1>1 DEF ReplayInv, ReplayRun, InRun
<1>3. PICK k : Went(r, k) /\ Decided(r, k)
  BY <1>1, <1>2 DEF ReplayRun, Going
<1>4. Known(r)' /\ call'[r].document = d /\ d \in Scenarios
  BY <1>1, <1>2 DEF Known, SameOrigin, Predicted
<1>5. Len(d.timeline) \in Nat /\ k = Len(d.timeline) /\ d.seeds /\ Fine(d, k)
      /\ runtime.service = Service(d, k)
  BY <1>1, <1>3, <1>4, DocumentIs DEF Went, Decided
<1>6. failed = FALSE
  BY <1>0, <1>4, <1>5, ServiceEnds
<1>7. EndsAt(d, k) /\ StatusAt(d, k) = "ok" /\ ServiceAt(d, k) = Service(d, k)
  <2>1. Fine(d, k - 1)
    <3>1. 1..(k - 1) \subseteq 1..k
      BY <1>5
    <3> QED
      BY <1>5, <3>1 DEF Fine
  <2>2. k \in 0..Len(d.timeline)
    BY <1>5
  <2> QED
    BY <1>5, <2>1, <2>2 DEF EndsAt, StatusAt, ServiceAt
<1> HIDE DEF d
<1>8. Ended(r, k)'
  <2>1. /\ call[r].outcomes = Outcomes(d, k)
        /\ Len(call[r].hits) = Cardinality(Fired(d, k)) /\ call[r].status = "ok"
        /\ runtime.kernel.revision = 0 /\ runtime.kernel.metadata = {}
        /\ runtime.kernel.nextSequence = k + 1
    BY <1>3 DEF Went, d
  <2> QED
    BY <1>1, <1>4, <1>5, <1>6, <1>7, <2>1 DEF Ended
<1>9. ReplayRun(r)'
  BY <1>1, <1>2, <1>4, <1>8 DEF ReplayRun, Going, Finished, Persisting
<1> QED
  BY <1>1, <1>9, ReplayRuns DEF Asleep

LEMMA ReplayFinishes ==
  ASSUME MaxInFlight = 1, Shape, FlightInv, LogInv, ReplayInv, NEW r \in Req, Finalise(r)
  PROVE  ReplayInv'
<1> DEFINE d == call[r].document
           kernel == WithRunMetadata(runtime.kernel, r)
           snapshot == [revision |-> kernel.revision, metadata |-> kernel.metadata,
                        service |-> runtime.service]
           report == [run |-> call[r].run, status |-> call[r].status,
                      outcomes |-> call[r].outcomes, hits |-> call[r].hits,
                      failed |-> call[r].failed, hash |-> snapshot]
<1>0. /\ kernel = WithRunMetadata(runtime.kernel, r)
      /\ snapshot = [revision |-> kernel.revision, metadata |-> kernel.metadata,
                     service |-> runtime.service]
  OBVIOUS
<1>1. /\ report.status = call[r].status /\ report.outcomes = call[r].outcomes
      /\ report.hits = call[r].hits /\ report.failed = call[r].failed
      /\ report.hash = snapshot
  OBVIOUS
<1> HIDE DEF kernel, snapshot
<1>2. /\ Others(r) /\ pc[r] = "finalise" /\ pc'[r] = "keep" /\ SameOrigin(r)
      /\ call'[r].verdict = call[r].verdict /\ StoreSame
  BY FinaliseKeeps
<1>3. call'[r].artifact = [document |-> d, report |-> report,
                           events |-> runtime.kernel.events, snapshot |-> snapshot]
  BY <1>0, FinaliseLeaves DEF Document
<1> HIDE DEF report
<1>4. /\ call'[r].artifact.report = report /\ call'[r].artifact.document = d
      /\ call'[r].artifact.events = runtime.kernel.events
  BY <1>3
<1>5. ReplayRun(r) /\ Known(r)
  BY <1>2 DEF ReplayInv, ReplayRun, InRun
<1>6. Known(r)' /\ call'[r].document = d /\ d \in Scenarios
  BY <1>2, <1>5 DEF Known, SameOrigin, Predicted
<1>7. PICK k : Ended(r, k)
  BY <1>2, <1>5 DEF ReplayRun
<1>8. snapshot = SnapshotAt(d, k)
  <2> DEFINE k0 == runtime.kernel
  <2>1. IsKernel(k0)
    BY DEF Shape, IsRuntime
  <2>2. /\ k0.revision = 0 /\ k0.metadata = {} /\ call[r].failed = FALSE
        /\ runtime.service = ServiceAt(d, k)
    BY <1>7 DEF Ended
  <2>3. kernel = WithRunMetadata(k0, r)
    BY <1>0
  <2> HIDE DEF k0
  <2>4. kernel.revision = 4
    BY <2>1, <2>2, <2>3, RunMetadataFields
  <2>5. kernel.metadata = RunMetadata(Document(r), call[r].failed)
    BY <2>1, <2>2, <2>3, RunMetadataFields
  <2>6. Document(r) = d
    BY DEF Document
  <2> QED
    BY <1>0, <2>2, <2>4, <2>5, <2>6 DEF SnapshotAt
<1>9. Len(runtime.kernel.events) = k
  <2>1. Len(d.timeline) \in Nat
    BY <1>6, DocumentIs
  <2>2. k \in Nat /\ runtime.kernel.nextSequence = k + 1
    BY <1>7, <2>1 DEF Ended, EndsAt
  <2>3. Len(runtime.kernel.events) \in Nat
        /\ runtime.kernel.nextSequence = Len(runtime.kernel.events) + 1
    BY DEF LogInv
  <2> QED
    BY <2>2, <2>3
<1>10. Predicted(call'[r].artifact)
  <2>1. /\ EndsAt(d, k) /\ report.status = StatusAt(d, k) /\ report.failed = FALSE
        /\ report.outcomes = Outcomes(d, k)
        /\ Len(report.hits) = Cardinality(Fired(d, k))
    BY <1>1, <1>7 DEF Ended
  <2> QED
    BY <1>1, <1>4, <1>6, <1>8, <1>9, <2>1 DEF Predicted
<1>11. ReplayRun(r)'
  BY <1>2, <1>4, <1>5, <1>6, <1>10 DEF ReplayRun, Going, InRun
<1> QED
  BY <1>2, <1>11, ReplayRuns DEF StoreSame, Asleep

LEMMA ReplayPersists ==
  ASSUME MaxInFlight = 1, Shape, FlightInv, ReplayInv, NEW r \in Req,
         \/ Keep(r) \/ WriteArtifact(r) \/ ReadTheIndex(r) \/ WriteIndex(r)
  PROVE  ReplayInv'
<1>0. ReplayRun(r) /\ ReplayStore
  BY DEF ReplayInv
<1>1. ASSUME Others(r), ReplayStore', ReplayRun(r)', pc[r] \notin Asleep
      PROVE  ReplayInv'
  BY <1>1, TakingTurns, ReplayByTurns DEF InFlight, Asleep
<1>2. ASSUME pc[r] \in Persisting, pc'[r] \in Finished, SameOrigin(r), SameRun(r),
             call'[r].verdict = call[r].verdict,
             pc'[r] \in {"read_index", "write_index", "load_replay"} =>
               /\ call[r].run \in DOMAIN disk'.artifacts
               /\ disk'.artifacts[call[r].run] = call[r].artifact,
             pc'[r] = "load_replay" => call[r].op = "verify"
      PROVE  ReplayRun(r)'
  <2>1. /\ Known(r)' /\ Predicted(call'[r].artifact)
        /\ call'[r].artifact.document = call'[r].document
    BY <1>0, <1>2 DEF ReplayRun, Known, Finished, SameOrigin, SameRun
  <2> QED
    BY <1>0, <1>2, <2>1
    DEF ReplayRun, Finished, Persisting, InRun, Going, SameOrigin, SameRun
<1>3. CASE Keep(r)
  <2>1. /\ Others(r) /\ pc[r] = "keep" /\ pc'[r] = "write_artifact" /\ call'[r] = call[r]
        /\ disk' = disk
    BY <1>3, KeepLeaves
  <2>2. scenario'.runs = [n \in DOMAIN scenario.runs \cup {call[r].run} |->
                            IF n = call[r].run
                            THEN [document |-> Document(r), report |-> call[r].artifact.report]
                            ELSE scenario.runs[n]]
    BY <1>3, KeepLeaves
  <2>3. Document(r) \in Scenarios
    BY <1>0, <2>1 DEF ReplayRun, Finished, Persisting, Known, Document
  <2>4. ASSUME NEW n \in DOMAIN scenario'.runs
        PROVE  scenario'.runs[n].document \in Scenarios
    <3>1. CASE n = call[r].run
      <4>1. scenario'.runs[n].document = Document(r)
        BY <2>2, <3>1
      <4> QED
        BY <2>3, <4>1
    <3>2. CASE n # call[r].run
      <4>1. n \in DOMAIN scenario.runs /\ scenario'.runs[n] = scenario.runs[n]
        BY <2>2, <3>2
      <4> QED
        BY <1>0, <4>1 DEF ReplayStore
    <3> QED
      BY <3>1, <3>2
  <2>5. ReplayStore'
    BY <1>0, <2>1, <2>4 DEF ReplayStore, Loadable
  <2>6. ReplayRun(r)'
    BY <1>2, <2>1 DEF Persisting, Finished, SameOrigin, SameRun
  <2> QED
    BY <1>1, <2>1, <2>5, <2>6 DEF Asleep
<1>4. CASE WriteArtifact(r)
  <2>1. /\ Others(r) /\ pc[r] = "write_artifact" /\ pc'[r] = "read_index"
        /\ call'[r] = call[r] /\ scenario' = scenario
    BY <1>4, WriteArtifactLeaves
  <2>2. disk'.artifacts = [m \in DOMAIN disk.artifacts \cup {call[r].run} |->
                             IF m = call[r].run THEN call[r].artifact
                             ELSE disk.artifacts[m]]
    BY <1>4, WriteArtifactLeaves
  <2>3. call[r].run \in DOMAIN disk'.artifacts
        /\ disk'.artifacts[call[r].run] = call[r].artifact
    BY <2>2
  <2>4. Predicted(call[r].artifact)
    BY <1>0, <2>1 DEF ReplayRun, Finished, Persisting
  <2>5. ReplayStore'
    BY <1>0, <1>4, <2>1, <2>4, WrittenKeeps DEF ReplayStore
  <2>6. ReplayRun(r)'
    BY <1>2, <2>1, <2>3 DEF Persisting, Finished, SameOrigin, SameRun
  <2> QED
    BY <1>1, <2>1, <2>5, <2>6 DEF Asleep
<1>5. CASE ReadTheIndex(r)
  <2>1. /\ Others(r) /\ pc[r] = "read_index" /\ pc'[r] = "write_index"
        /\ SameOrigin(r) /\ SameRun(r) /\ call'[r].verdict = call[r].verdict
        /\ UNCHANGED <<scenario, disk>>
    BY <1>5, ReadTheIndexLeaves
  <2>2. ReplayRun(r)'
    BY <1>0, <1>2, <2>1 DEF Persisting, Finished, ReplayRun
  <2>3. ReplayStore'
    BY <1>0, <2>1, ReplayStoreSame
  <2> QED
    BY <1>1, <2>1, <2>2, <2>3 DEF Asleep
<1>6. CASE WriteIndex(r)
  <2>1. /\ Others(r) /\ pc[r] = "write_index"
        /\ pc'[r] = IF call[r].op = "verify" /\ call[r].status = "ok"
                    THEN "load_replay" ELSE "done"
        /\ call'[r] = call[r] /\ disk'.artifacts = disk.artifacts /\ scenario' = scenario
    BY <1>6, WriteIndexLeaves
  <2>2. ReplayStore'
    BY <1>0, <2>1 DEF ReplayStore, Loadable
  <2>3. CASE pc'[r] = "load_replay"
    <3>1. ReplayRun(r)'
      BY <1>0, <1>2, <2>1, <2>3 DEF Persisting, Finished, ReplayRun, SameOrigin, SameRun
    <3> QED
      BY <1>1, <2>1, <2>2, <3>1 DEF Asleep
  <2>4. CASE pc'[r] = "done"
    <3>1. ReplayRun(r)'
      BY <1>0, <2>1, <2>4 DEF ReplayRun, InRun, Going, Finished, Persisting
    <3> QED
      BY <1>1, <2>1, <2>2, <3>1 DEF Asleep
  <2> QED
    BY <2>1, <2>3, <2>4
<1> QED
  BY <1>3, <1>4, <1>5, <1>6

\* The replay is loaded back as it was written, and matches its baseline.
LEMMA ReplayCompares ==
  ASSUME MaxInFlight = 1, Shape, FlightInv, ReplayInv, NEW r \in Req, Compare(r)
  PROVE  ReplayInv'
<1>1. /\ Others(r) /\ pc[r] = "load_replay" /\ pc'[r] = "done"
      /\ \/ call'[r].verdict = call[r].verdict
         \/ call'[r].verdict =
              DeterministicMatch(call[r].baseline, disk.artifacts[call[r].run])
      /\ UNCHANGED <<scenario, disk>>
  BY CompareLeaves
<1>2. ReplayRun(r)
  BY DEF ReplayInv
<1>3. /\ Predicted(call[r].baseline) /\ call[r].baseline.document = call[r].document
      /\ Predicted(disk.artifacts[call[r].run])
      /\ disk.artifacts[call[r].run].document = call[r].document
  BY <1>1, <1>2 DEF ReplayRun, Known, Finished
<1>4. DeterministicMatch(call[r].baseline, disk.artifacts[call[r].run])
  BY <1>3, PredictedMatch
<1>5. DeterministicMatch(call[r].baseline, disk.artifacts[call[r].run]) = TRUE
  BY <1>4 DEF DeterministicMatch
<1>6. call'[r].verdict \in {Nil, TRUE}
  BY <1>1, <1>2, <1>5 DEF ReplayRun
<1>7. ReplayRun(r)'
  BY <1>1, <1>6 DEF ReplayRun, InRun, Going, Finished, Persisting
<1> QED
  BY <1>1, <1>7, ReplayRuns DEF Asleep

LEMMA ReplayStep ==
  ASSUME MaxInFlight = 1, Shape, FlightInv, LogInv, OwnInv, ReplayInv, [Next]_vars
  PROVE  ReplayInv'
<1>0. ReplayStore /\ \A r \in Req : ReplayRun(r)
  BY DEF ReplayInv
<1>1. ASSUME NEW r \in Req, Others(r), pc[r] \notin Asleep, pc'[r] \in {"done", "gone"},
             call'[r].verdict = call[r].verdict, ReplayStore'
      PROVE  ReplayInv'
  <2>1. ReplayRun(r)'
    BY <1>0, <1>1 DEF ReplayRun, InRun, Going, Finished, Persisting
  <2> QED
    BY <1>1, <2>1, TakingTurns, ReplayByTurns DEF InFlight, Asleep
<1>2. ASSUME NEW r \in Req, WriteFails(r) PROVE ReplayInv'
  <2>1. /\ Others(r) /\ pc[r] \in {"write_artifact", "write_index"} /\ pc'[r] = "done"
        /\ TornBy(r) /\ call'[r].verdict = call[r].verdict /\ scenario' = scenario
    BY <1>2, WriteFailsLeaves
  <2>2. ReplayStore'
    BY <1>0, <2>1, TornKeeps DEF ReplayStore
  <2> QED
    BY <1>1, <2>1, <2>2 DEF Asleep
<1>3. ASSUME NEW r \in Req, BundleState(r) PROVE ReplayInv'
  BY <1>0, <1>1, <1>3, BundleStateLeaves, ReplayStoreSame DEF Asleep
<1>4. ASSUME NEW r \in Req, RecordRequest(r) \/ ClearFaults(r) PROVE ReplayInv'
  BY <1>0, <1>1, <1>4, LastSectionLeaves, ReplayStoreSame DEF StoreSame, Asleep
<1>5. ASSUME NEW r \in Req, Disconnect(r) PROVE ReplayInv'
  BY <1>0, <1>1, <1>5, DisconnectLeaves, ReplayStoreSame DEF InFlight, Asleep
<1>6. CASE CrashAndRestart
  <2>1. /\ call' = call /\ \A q \in Req : pc'[q] = IF q \in InFlight THEN "gone" ELSE pc[q]
        /\ disk' = disk \/ \E r \in Req : TornBy(r)
        /\ DOMAIN scenario'.runs = {}
    BY <1>6, CrashLeaves
  <2>2. ReplayStore'
    <3>1. \A n \in Loadable' : n \in Loadable /\ disk'.artifacts[n] = disk.artifacts[n]
      BY <2>1, TornKeeps
    <3> QED
      BY <1>0, <2>1, <3>1 DEF ReplayStore
  <2>3. \A q \in Req : pc'[q] \in Asleep /\ call'[q].verdict \in {Nil, TRUE}
    BY <1>0, <2>1 DEF InFlight, Asleep, ReplayRun
  <2>4. \A q \in Req : ReplayRun(q)'
    BY <2>3 DEF ReplayRun, Asleep, InRun, Going, Finished, Persisting
  <2> QED
    BY <2>2, <2>4 DEF ReplayInv
<1>7. CASE UNCHANGED vars
  <2>1. ASSUME NEW r \in Req PROVE ReplayRun(r)'
    <3>1. ReplayRun(r)
      BY <1>0
    <3>2. /\ UNCHANGED <<runtime, scenario, disk, pc, call>>
          /\ Known(r)' = Known(r) /\ Untouched(r)' = Untouched(r)
      BY <1>7 DEF vars, Known, Untouched, Predicted
    <3>3. \A k : Went(r, k) /\ Decided(r, k) => Went(r, k)' /\ Decided(r, k)'
      BY <3>2 DEF Went, Decided
    <3>4. \A k : Ended(r, k) => Ended(r, k)'
      BY <3>2 DEF Ended
    <3> QED
      BY <3>1, <3>2, <3>3, <3>4 DEF ReplayRun
  <2>2. ReplayStore'
    BY <1>0, <1>7, ReplayStoreSame DEF vars
  <2> QED
    BY <2>1, <2>2 DEF ReplayInv
<1> QED
  BY <1>2, <1>3, <1>4, <1>5, <1>6, <1>7, Steps, ReplayBegins, ReplayAllocates,
     ReplayInitialises, ReplayDecides, ReplayActs, ReplayChecks, ReplayFinishes,
     ReplayPersists, ReplayCompares

LEMMA ReplayInit == ASSUME Init PROVE ReplayInv
<1>1. \A r \in Req : pc[r] = "idle" /\ call[r].verdict = Nil
  BY NewCallIs DEF Init
<1>2. DOMAIN disk.artifacts = {} /\ DOMAIN scenario.runs = {}
  BY DEF Init, FreshScenarioRuntime
<1>3. \A r \in Req : ReplayRun(r)
  BY <1>1 DEF ReplayRun, InRun, Going, Finished, Persisting
<1> QED
  BY <1>2, <1>3 DEF ReplayInv, ReplayStore, Loadable

\* A run of a scenario comes to the same every time: whatever ran before it, on
\* whatever server process, with writes and crashes that cut files short, no
\* verify-replay ever reports a difference, as long as clients take turns.
THEOREM ReplaysAlwaysMatch ==
  ASSUME MaxInFlight = 1
  PROVE  Spec => []ReplaysMatch
<1>1. Init => RunInv /\ OwnInv /\ ReplayInv
  BY RunInvInit, OwnInit, ReplayInit
<1>2. RunInv /\ OwnInv /\ ReplayInv /\ [Next]_vars => (RunInv /\ OwnInv /\ ReplayInv)'
  BY RunInvStep, OwnStep, ReplayStep DEF RunInv
<1>3. ReplayInv => ReplaysMatch
  BY NilAssumption DEF ReplayInv, ReplayRun, ReplaysMatch
<1> QED
  BY <1>1, <1>2, <1>3, PTL DEF Spec

=============================================================================
