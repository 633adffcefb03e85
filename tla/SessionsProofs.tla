--------------------------- MODULE SessionsProofs ---------------------------
(***************************************************************************)
(* Proofs about Sessions, for every number of requests of any kind that    *)
(* are in progress together, with and without disconnects; and, for one    *)
(* request at a time, that Sessions implements SessionContract.            *)
(***************************************************************************)
EXTENDS Sessions, OrderLemmas, FiniteSetTheorems, SequenceTheorems,
        WellFoundedInduction, TLAPS

-----------------------------------------------------------------------------
(* What the operations on kernels, runtimes and stores return. *)

LEMMA NewRuntimeType ==
  ASSUME NEW config \in [seed : Nat, start : Nat]
  PROVE  /\ NewRuntime(config) \in Runtime
         /\ NewRuntime(config).kernel.activeSession = NoSession
         /\ NewRuntime(config).kernel.events = <<>>
         /\ NewRuntime(config).kernel.nextSequence = 1
         /\ NewRuntime(config).service = {}
<1>1. NoSession \in Tag
  BY DEF Tag
<1>2. /\ NewKernel(config) \in Kernel
      /\ NewKernel(config).activeSession = NoSession
      /\ NewKernel(config).events = <<>>
      /\ NewKernel(config).nextSequence = 1
  BY <1>1, SMT DEF NewKernel, Kernel
<1> QED
  BY <1>2, ServiceAssumption DEF NewRuntime, Runtime

LEMMA SetType ==
  ASSUME NEW k \in Kernel, NEW s \in Tag
  PROVE  /\ SetActiveSession(k, s) \in Kernel
         /\ SetActiveSession(k, s).activeSession = s
         /\ SetActiveSession(k, s).events = k.events
         /\ SetActiveSession(k, s).nextSequence = k.nextSequence
         /\ SetActiveSession(k, s).config = k.config
BY SMT DEF SetActiveSession, Kernel

LEMMA ClearType ==
  ASSUME NEW k \in Kernel
  PROVE  /\ ClearActiveSession(k) \in Kernel
         /\ ClearActiveSession(k).activeSession = NoSession
         /\ ClearActiveSession(k).events = k.events
         /\ ClearActiveSession(k).nextSequence = k.nextSequence
         /\ ClearActiveSession(k).config = k.config
<1>1. ClearActiveSession(k) = SetActiveSession(k, NoSession)
  BY DEF ClearActiveSession, SetActiveSession
<1>2. NoSession \in Tag
  BY DEF Tag
<1> QED
  BY <1>1, <1>2, SetType

LEMMA LogType ==
  ASSUME NEW k \in Kernel, NEW log \in Seq(Event)
  PROVE  /\ [k EXCEPT !.events = log] \in Kernel
         /\ [k EXCEPT !.events = log].activeSession = k.activeSession
         /\ [k EXCEPT !.events = log].events = log
BY SMT DEF Kernel

LEMMA NumberType ==
  ASSUME NEW k \in Kernel, NEW n \in Nat \ {0}
  PROVE  /\ [k EXCEPT !.nextSequence = n] \in Kernel
         /\ [k EXCEPT !.nextSequence = n].activeSession = k.activeSession
         /\ [k EXCEPT !.nextSequence = n].events = k.events
         /\ [k EXCEPT !.nextSequence = n].nextSequence = n
BY SMT DEF Kernel

LEMMA RecordType ==
  ASSUME NEW k \in Kernel, NEW body \in Body
  PROVE  /\ RecordEvent(k, body) \in Kernel
         /\ RecordEvent(k, body).activeSession = k.activeSession
         /\ RecordEvent(k, body).nextSequence = k.nextSequence + 1
         /\ Len(RecordEvent(k, body).events) = Len(k.events) + 1
         /\ \A i \in 1..Len(k.events) :
              RecordEvent(k, body).events[i] = k.events[i]
         /\ RecordEvent(k, body).events[Len(k.events) + 1].sequence =
              k.nextSequence
         /\ RecordEvent(k, body).events[Len(k.events) + 1].body = body
<1> DEFINE e == [sequence    |-> k.nextSequence,
                 logicalTime |-> k.config.start + k.revision,
                 session     |-> k.activeSession,
                 body        |-> body]
           log == Append(k.events, e)
<1>1. e \in Event
  BY SMT DEF Kernel, Event
<1>2. e.sequence = k.nextSequence /\ e.body = body
  OBVIOUS
<1>3. RecordEvent(k, body) =
        [[k EXCEPT !.events = log] EXCEPT !.nextSequence = k.nextSequence + 1]
  BY DEF RecordEvent
<1>4. k.events \in Seq(Event) /\ k.nextSequence \in Nat \ {0}
  BY DEF Kernel
<1> HIDE DEF e
<1>5. /\ log \in Seq(Event)
      /\ Len(log) = Len(k.events) + 1
      /\ \A i \in 1..Len(k.events) : log[i] = k.events[i]
      /\ log[Len(k.events) + 1] = e
  BY <1>1, <1>4, SMT
<1> HIDE DEF log
<1>6. k.nextSequence + 1 \in Nat \ {0}
  BY <1>4, SMT
<1> DEFINE logged == [k EXCEPT !.events = log]
<1>7. /\ logged \in Kernel
      /\ logged.activeSession = k.activeSession
      /\ logged.events = log
  BY <1>5, LogType
<1> HIDE DEF logged
<1>8. /\ RecordEvent(k, body) \in Kernel
      /\ RecordEvent(k, body).activeSession = k.activeSession
      /\ RecordEvent(k, body).events = log
      /\ RecordEvent(k, body).nextSequence = k.nextSequence + 1
  <2>1. RecordEvent(k, body) =
          [logged EXCEPT !.nextSequence = k.nextSequence + 1]
    BY <1>3 DEF logged
  <2> QED
    BY <2>1, <1>6, <1>7, NumberType
<1> QED
  BY <1>2, <1>5, <1>8

LEMMA WithKernel ==
  ASSUME NEW rt \in Runtime, NEW k \in Kernel
  PROVE  /\ [rt EXCEPT !.kernel = k] \in Runtime
         /\ [rt EXCEPT !.kernel = k].kernel = k
         /\ [rt EXCEPT !.kernel = k].service = rt.service
BY SMT DEF Runtime

LEMMA WithService ==
  ASSUME NEW rt \in Runtime, NEW r \in Req
  PROVE  /\ [rt EXCEPT !.service = @ \cup {r}] \in Runtime
         /\ [rt EXCEPT !.service = @ \cup {r}].kernel = rt.kernel
         /\ [rt EXCEPT !.service = @ \cup {r}].service = rt.service \cup {r}
BY SMT DEF Runtime

LEMMA ResetType ==
  ASSUME NEW rt \in Runtime, NEW config \in [seed : Nat, start : Nat]
  PROVE  /\ ResetRuntime(rt, config) \in Runtime
         /\ ResetRuntime(rt, config).kernel.activeSession =
              rt.kernel.activeSession
         /\ ResetRuntime(rt, config).kernel.events = <<>>
         /\ ResetRuntime(rt, config).kernel.nextSequence = 1
         /\ ResetRuntime(rt, config).service = {}
<1>1. NewKernel(config) \in Kernel /\ rt.kernel.activeSession \in Tag
  BY NewRuntimeType DEF NewRuntime, Runtime, Kernel
<1>2. NewKernel(config).events = <<>> /\ NewKernel(config).nextSequence = 1
  BY DEF NewKernel
<1>3. ResetKernel(rt.kernel, config) =
        SetActiveSession(NewKernel(config), rt.kernel.activeSession)
  BY DEF ResetKernel, SetActiveSession
<1> QED
  BY <1>1, <1>2, <1>3, SetType, ServiceAssumption DEF ResetRuntime, Runtime

LEMMA SnapshotType ==
  ASSUME NEW rt \in Runtime
  PROVE  FullSnapshot(rt) \in Snapshot
BY SMT DEF FullSnapshot, Snapshot, Runtime, Kernel

LEMMA SameState ==
  ASSUME NEW C, NEW R, NEW M, NEW E, NEW N, NEW A,
         NEW k \in [config : C, revision : R, metadata : M, events : E,
                    nextSequence : N, activeSession : A],
         NEW revision, revision = k.revision,
         NEW metadata, metadata = k.metadata
  PROVE  [k EXCEPT !.revision = revision, !.metadata = metadata] = k
<1>1. [k EXCEPT !.revision = revision, !.metadata = metadata] =
        [[k EXCEPT !.revision = revision] EXCEPT !.metadata = metadata]
  BY SMT
<1>2. [k EXCEPT !.revision = revision] = k
  BY SMT
<1>3. [k EXCEPT !.metadata = metadata] = k
  BY SMT
<1> QED
  BY <1>1, <1>2, <1>3, Zenon

LEMMA RestoreType ==
  ASSUME NEW rt \in Runtime, NEW snapshot \in Snapshot, NEW accepted \in BOOLEAN
  PROVE  LET rt2 == FullRestore(rt, snapshot, accepted)
         IN /\ rt2 \in Runtime
            /\ rt2.kernel = rt.kernel
            /\ rt2.service = IF accepted THEN snapshot.service ELSE rt.service
<1> DEFINE k == RestoreKernel(rt.kernel, snapshot)
<1>1. /\ rt.kernel \in Kernel /\ rt.service \in SUBSET Req
      /\ snapshot.revision = 0 /\ snapshot.metadata = {} /\ snapshot.service \in SUBSET Req
  BY DEF Runtime, Snapshot
<1>2. k = rt.kernel
  <2>1. rt.kernel.revision = 0 /\ rt.kernel.metadata = {}
    BY <1>1 DEF Kernel
  <2>2. [rt.kernel EXCEPT !.revision = snapshot.revision,
                          !.metadata = snapshot.metadata] = rt.kernel
    BY <1>1, <2>1, SameState DEF Kernel
  <2> QED
    BY <2>2 DEF RestoreKernel
<1> HIDE DEF k
<1>3. FullRestore(rt, snapshot, accepted) =
        [kernel |-> k, service |-> IF accepted THEN snapshot.service ELSE rt.service]
  BY DEF FullRestore, k
<1> QED
  BY <1>1, <1>2, <1>3 DEF Runtime

LEMMA FrozenType ==
  ASSUME NEW rt \in Runtime, NEW s
  PROVE  FrozenOK(FrozenRecord(rt, s))
<1> QED
  BY SnapshotType, SMT DEF FrozenRecord, FrozenOK

LEMMA CreateType ==
  ASSUME NEW st, StoreOK(st)
  PROVE  /\ StoreOK(CreateSession(st))
         /\ CreateSession(st).next = st.next + 1
         /\ \A s \in 1..(st.next - 1) :
              CreateSession(st).sessions[s] = st.sessions[s]
BY SMT DEF CreateSession, StoreOK, SessionOK, NewSession

LEMMA EndType ==
  ASSUME StoreOK(store), NEW s \in SessionId, NEW f, FrozenOK(f),
         store' = EndSessionWith(store, s, f)
  PROVE  /\ StoreOK(store')
         /\ store'.next = store.next
         /\ \A t \in SessionId :
              store'.sessions[t] = IF t = s
                                   THEN [status |-> "ended", frozen |-> f]
                                   ELSE store.sessions[t]
<1> DEFINE info     == [status |-> "ended", frozen |-> f]
           sessions == [store.sessions EXCEPT ![s] = info]
<1>1. store = [sessions |-> store.sessions, next |-> store.next]
  BY DEF StoreOK
<1>2. store' = [sessions |-> sessions, next |-> store.next]
  BY <1>1, SMT DEF EndSessionWith
<1>3. SessionOK(info)
  BY DEF SessionOK
<1> HIDE DEF info
<1>4. store.next \in Nat \ {0}
  BY DEF StoreOK
<1>5. store.sessions = [t \in SessionId |-> store.sessions[t]]
  BY DEF StoreOK, SessionId
<1>6. /\ sessions = [t \in SessionId |-> sessions[t]]
      /\ \A t \in SessionId :
           sessions[t] = IF t = s THEN info ELSE store.sessions[t]
  BY <1>5, Zenon
<1>7. \A t \in SessionId : SessionOK(sessions[t])
  BY <1>3, <1>6 DEF StoreOK, SessionId
<1> HIDE DEF sessions
<1>8. store'.next = store.next /\ store'.sessions = sessions
  BY <1>2
<1>9. StoreOK(store')
  BY <1>2, <1>4, <1>6, <1>7, <1>8 DEF StoreOK, SessionId
<1> QED
  BY <1>6, <1>8, <1>9 DEF info

-----------------------------------------------------------------------------
(* The invariant, and what every action does to the requests. *)

\* Why the conjuncts need each other: EffectsLogged needs to know that a
\* request which is creating a session is not a data request.
Core == ServerOK /\ LogNumbered /\ EffectsLogged /\ LockOwned
IInv == Core /\ HeldOK

Elsewhere(r) ==
  \A q \in Req \ {r} : pc'[q] = pc[q] /\ call'[q] = call[q]

RequestsOK ==
  /\ pc \in [Req -> Label]
  /\ call = [r \in Req |-> call[r]]
  /\ \A r \in Req : CallOK(call[r], pc[r], SessionId)

LEMMA CallUpdate ==
  ASSUME NEW c, c = [op |-> c.op, session |-> c.session,
                     outcome |-> c.outcome, frozen |-> c.frozen],
         NEW v
  PROVE  /\ [c EXCEPT !.op = v] =
              [op |-> v, session |-> c.session,
               outcome |-> c.outcome, frozen |-> c.frozen]
         /\ [c EXCEPT !.session = v] =
              [op |-> c.op, session |-> v,
               outcome |-> c.outcome, frozen |-> c.frozen]
         /\ [c EXCEPT !.outcome = v] =
              [op |-> c.op, session |-> c.session,
               outcome |-> v, frozen |-> c.frozen]
         /\ [c EXCEPT !.frozen = v] =
              [op |-> c.op, session |-> c.session,
               outcome |-> c.outcome, frozen |-> v]
<1>1. PICK V : /\ c \in [op : V, session : V, outcome : V, frozen : V]
               /\ v \in V
  <2> DEFINE W == {c.op, c.session, c.outcome, c.frozen, v}
  <2>1. /\ c.op \in W /\ c.session \in W /\ c.outcome \in W
        /\ c.frozen \in W /\ v \in W
    OBVIOUS
  <2> HIDE DEF W
  <2>2. c \in [op : W, session : W, outcome : W, frozen : W]
    BY <2>1
  <2> QED
    BY <2>1, <2>2
<1> QED
  BY <1>1, SMT

\* A request that arrives takes nothing over from before.
LEMMA BegunType ==
  ASSUME NEW op \in Op, NEW session, NEW outcome, NEW label, NEW ids,
         label = "record" => outcome \in {"ok", "error"},
         label \in Creating => op = "create",
         label \in HoldsSession => session \in ids,
         label # "end_store"
  PROVE  /\ CallOK(Begun(op, session, outcome), label, ids)
         /\ Begun(op, session, outcome).op = op
BY DEF CallOK, Begun

\* A step of request r leaves the other requests where they are; sessions
\* they hold are still there if the store does not shrink.
LEMMA MoveType ==
  ASSUME ServerOK, NEW r \in Req, NEW label \in Label, NEW c,
         pc' = [pc EXCEPT ![r] = label],
         call' = [call EXCEPT ![r] = c],
         SessionId \subseteq SessionId',
         CallOK(c, label, SessionId')
  PROVE  RequestsOK' /\ pc'[r] = label /\ call'[r] = c /\ Elsewhere(r)
<1>1. /\ pc \in [Req -> Label]
      /\ call = [q \in Req |-> call[q]]
      /\ \A q \in Req : CallOK(call[q], pc[q], SessionId)
  BY DEF ServerOK
<1>2. /\ pc' \in [Req -> Label]
      /\ pc'[r] = label
      /\ \A q \in Req \ {r} : pc'[q] = pc[q]
  BY <1>1, Zenon
<1>3. /\ call' = [q \in Req |-> call'[q]]
      /\ call'[r] = c
      /\ \A q \in Req \ {r} : call'[q] = call[q]
  BY <1>1, Zenon
<1>4. \A q \in Req \ {r} : CallOK(call[q], pc[q], SessionId')
  BY <1>1 DEF CallOK
<1> QED
  BY <1>2, <1>3, <1>4 DEF RequestsOK, Elsewhere

\* The same for a step that leaves what the request carries alone.
LEMMA MoveOnType ==
  ASSUME ServerOK, NEW r \in Req, NEW label \in Label \ {"record", "end_store"},
         Goto(r, label), call' = call,
         SessionId \subseteq SessionId',
         label \in Creating => call[r].op = "create",
         label \in HoldsSession => call[r].session \in SessionId'
  PROVE  RequestsOK' /\ pc'[r] = label /\ call'[r] = call[r] /\ Elsewhere(r)
<1>1. pc' = [pc EXCEPT ![r] = label]
  BY DEF Goto
<1>2. call' = [call EXCEPT ![r] = call[r]]
  BY DEF ServerOK
<1>3. CallOK(call[r], label, SessionId')
  BY DEF ServerOK, CallOK
<1> QED
  BY <1>1, <1>2, <1>3, MoveType

\* A step that keeps the log may only add an effect of its own request.
LEMMA LogKept ==
  ASSUME IInv, NEW r \in Req,
         runtime'.kernel.events = runtime.kernel.events,
         runtime'.kernel.nextSequence = runtime.kernel.nextSequence,
         runtime'.service \subseteq runtime.service \cup {r},
         restored' = restored,
         Elsewhere(r),
         call'[r].op = "data" /\ r \in runtime'.service =>
           r \in Logged \cup restored \/ pc'[r] \in {"record", "gone"}
  PROVE  LogNumbered' /\ EffectsLogged'
<1>1. Logged' = Logged
  BY DEF Logged
<1>2. LogNumbered'
  BY DEF IInv, Core, LogNumbered
<1>3. ASSUME NEW q \in (DataRequests \cap runtime.service)'
      PROVE  q \in Logged \cup restored \/ pc'[q] \in {"record", "gone"}
  BY <1>3 DEF IInv, Core, EffectsLogged, DataRequests, Elsewhere
<1> QED
  BY <1>1, <1>2, <1>3 DEF EffectsLogged

\* A step that resets the runtime may put an effect of its own in it, of a
\* request that is not a data request.
LEMMA LogCleared ==
  ASSUME NEW r \in Req,
         runtime'.kernel.events = <<>>,
         runtime'.kernel.nextSequence = 1,
         runtime'.service \subseteq {r},
         call'[r].op # "data"
  PROVE  LogNumbered' /\ EffectsLogged'
<1>1. LogNumbered'
  BY SMT DEF LogNumbered
<1> QED
  BY <1>1 DEF EffectsLogged, DataRequests

\* A step of a request that is not about to end a session keeps the lock.
LEMMA LockKept ==
  ASSUME IInv, NEW r \in Req,
         pc[r] # "create_end_old",
         runtimeLock' = runtimeLock,
         Elsewhere(r)
  PROVE  runtimeLock' \in Req \cup {Free} /\ LockOwned'
BY ReqAssumption DEF IInv, Core, ServerOK, LockOwned, Elsewhere

LEMMA StoreKept ==
  ASSUME ServerOK, store' = store
  PROVE  StoreOK(store') /\ SessionId' = SessionId
BY DEF ServerOK, SessionId

-----------------------------------------------------------------------------
(* One lemma for each action. *)

LEMMA InitInv == Init => IInv
<1> SUFFICES ASSUME Init PROVE IInv
  OBVIOUS
<1>1. PICK config \in Configs : runtime = NewRuntime(config)
  BY DEF Init
<1>2. /\ runtime \in Runtime
      /\ runtime.kernel.activeSession = NoSession
      /\ runtime.kernel.events = <<>>
      /\ runtime.kernel.nextSequence = 1
      /\ runtime.service = {}
  BY <1>1, NewRuntimeType, ConfigsAssumption
<1>3. StoreOK(store)
  BY SMT DEF Init, StoreOK
<1>4. pc \in [Req -> Label]
  BY DEF Init, Label
<1>5. /\ call = [r \in Req |-> call[r]]
      /\ \A r \in Req : CallOK(call[r], pc[r], SessionId)
  BY DEF Init, CallOK, NoCall, Begun, Creating, HoldsSession
<1>6. LogNumbered
  BY <1>2, SMT DEF LogNumbered
<1> QED
  BY <1>2, <1>3, <1>4, <1>5, <1>6
  DEF IInv, Core, ServerOK, HeldOK, EffectsLogged, LockOwned, Init

LEMMA HandleRequestStep ==
  ASSUME IInv, NEW r \in Req, HandleRequest(r)
  PROVE  Core'
<1>1. PICK outcome \in {"ok", "error"} :
        /\ call' = [call EXCEPT ![r] = Begun("data", Nil, outcome)]
        /\ runtime' = IF outcome = "ok"
                      THEN [runtime EXCEPT !.service = @ \cup {r}]
                      ELSE runtime
  BY DEF HandleRequest
<1> DEFINE c == Begun("data", Nil, outcome)
<1>2. call' = [call EXCEPT ![r] = c]
  BY <1>1
<1>3. CallOK(c, "record", SessionId)
  BY BegunType DEF Op, Creating, HoldsSession
<1> HIDE DEF c
<1>4. SessionId' = SessionId /\ StoreOK(store')
  BY StoreKept DEF HandleRequest, IInv, Core
<1>5. RequestsOK' /\ pc'[r] = "record" /\ call'[r] = c /\ Elsewhere(r)
  <2>1. "record" \in Label
    BY DEF Label
  <2>2. pc' = [pc EXCEPT ![r] = "record"]
    BY DEF HandleRequest, Goto
  <2> QED
    BY <1>1, <1>2, <1>3, <1>4, <2>1, <2>2, MoveType DEF IInv, Core
<1>6. /\ runtime' \in Runtime
      /\ runtime'.kernel = runtime.kernel
      /\ runtime'.service \subseteq runtime.service \cup {r}
  BY <1>1, WithService DEF IInv, Core, ServerOK
<1>7. LogNumbered' /\ EffectsLogged'
  BY <1>5, <1>6, LogKept DEF HandleRequest
<1>8. runtimeLock' \in Req \cup {Free} /\ LockOwned'
  BY <1>5, LockKept DEF HandleRequest, Arrive
<1> QED
  BY <1>4, <1>5, <1>6, <1>7, <1>8 DEF IInv, Core, ServerOK, RequestsOK

LEMMA RecordRequestStep ==
  ASSUME IInv, NEW r \in Req, RecordRequest(r)
  PROVE  Core'
<1> DEFINE k    == runtime.kernel
           body == [req |-> r, outcome |-> call[r].outcome]
<1>1. pc[r] = "record" /\ CallOK(call[r], "record", SessionId)
  BY DEF RecordRequest, IInv, Core, ServerOK
<1>2. k \in Kernel /\ runtime \in Runtime
  BY DEF IInv, Core, ServerOK, Runtime
<1>3. body \in Body
  BY <1>1 DEF CallOK, Body
<1>4. body.req = r
  OBVIOUS
<1>5. runtime' = [runtime EXCEPT !.kernel = RecordEvent(k, body)]
  BY DEF RecordRequest
<1>6. k.events \in Seq(Event) /\ k.nextSequence = Len(k.events) + 1
  BY <1>2 DEF Kernel, IInv, Core, LogNumbered
<1>7. \A i \in 1..Len(k.events) : k.events[i].sequence = i
  BY <1>6 DEF IInv, Core, LogNumbered
<1> HIDE DEF body
<1> DEFINE log == RecordEvent(k, body).events
<1>8. /\ runtime' \in Runtime
      /\ runtime'.service = runtime.service
      /\ runtime'.kernel.activeSession = k.activeSession
      /\ runtime'.kernel.nextSequence = k.nextSequence + 1
      /\ runtime'.kernel.events = log
  BY <1>2, <1>3, <1>5, RecordType, WithKernel
<1>9. /\ log \in Seq(Event)
      /\ Len(log) = Len(k.events) + 1
      /\ \A i \in 1..Len(k.events) : log[i] = k.events[i]
      /\ log[Len(k.events) + 1].sequence = k.nextSequence
      /\ log[Len(k.events) + 1].body = body
  <2>1. RecordEvent(k, body) \in Kernel
    BY <1>2, <1>3, RecordType
  <2>2. log \in Seq(Event)
    BY <2>1 DEF Kernel
  <2> HIDE DEF k
  <2>3. /\ Len(log) = Len(k.events) + 1
        /\ \A i \in 1..Len(k.events) : log[i] = k.events[i]
        /\ log[Len(k.events) + 1].sequence = k.nextSequence
        /\ log[Len(k.events) + 1].body = body
    BY <1>2, <1>3, RecordType, Zenon
  <2> QED
    BY <2>2, <2>3
<1> HIDE DEF log
<1>10. LogNumbered'
  <2>1. DOMAIN log = 1..(Len(k.events) + 1) /\ Len(k.events) \in Nat
    BY <1>6, <1>9
  <2>2. ASSUME NEW i \in 1..(Len(k.events) + 1)
        PROVE  log[i].sequence = i
    <3>1. CASE i = Len(k.events) + 1
      BY <1>6, <1>9, <3>1
    <3>2. CASE i # Len(k.events) + 1
      <4>1. i \in 1..Len(k.events)
        BY <2>1, <3>2, SMT
      <4> QED
        BY <1>7, <1>9, <4>1
    <3> QED
      BY <3>1, <3>2
  <2>3. k.nextSequence + 1 = Len(log) + 1
    BY <1>6, <1>9
  <2> QED
    BY <1>8, <2>1, <2>2, <2>3 DEF LogNumbered
<1>11. SessionId' = SessionId /\ StoreOK(store')
  BY StoreKept DEF RecordRequest, IInv, Core
<1>12. RequestsOK' /\ pc'[r] = "done" /\ call'[r] = call[r] /\ Elsewhere(r)
  BY <1>11, MoveOnType
  DEF RecordRequest, IInv, Core, Label, Creating, HoldsSession
<1>13. Logged' = Logged \cup {r}
  <2>1. /\ DOMAIN k.events = 1..Len(k.events)
        /\ DOMAIN log = 1..(Len(k.events) + 1)
        /\ Len(k.events) \in Nat
    BY <1>6, <1>9
  <2>2. Logged' = {log[i].body.req : i \in 1..(Len(k.events) + 1)}
    BY <1>8, <2>1 DEF Logged
  <2>3. Logged = {log[i].body.req : i \in 1..Len(k.events)}
    BY <1>9, <2>1 DEF Logged
  <2>4. 1..(Len(k.events) + 1) = 1..Len(k.events) \cup {Len(k.events) + 1}
    BY <2>1
  <2> QED
    BY <1>4, <1>9, <2>2, <2>3, <2>4
<1>14. EffectsLogged'
  <2>1. ASSUME NEW q \in (DataRequests \cap runtime.service)', q # r
        PROVE  q \in Logged \cup restored \/ pc'[q] \in {"record", "gone"}
    BY <1>8, <1>12, <2>1 DEF IInv, Core, EffectsLogged, DataRequests, Elsewhere
  <2>2. restored' = restored
    BY DEF RecordRequest
  <2> QED
    BY <1>13, <2>1, <2>2 DEF EffectsLogged
<1>15. runtimeLock' \in Req \cup {Free} /\ LockOwned'
  BY <1>1, <1>12, LockKept DEF RecordRequest
<1> QED
  BY <1>8, <1>10, <1>11, <1>12, <1>14, <1>15 DEF IInv, Core, ServerOK, RequestsOK

LEMMA ClearedType ==
  ASSUME runtime \in Runtime, NEW config \in [seed : Nat, start : Nat]
  PROVE  /\ ClearedRuntime(config) \in Runtime
         /\ ClearedRuntime(config).kernel.activeSession = NoSession
         /\ ClearedRuntime(config).kernel.events = <<>>
         /\ ClearedRuntime(config).kernel.nextSequence = 1
         /\ ClearedRuntime(config).service = {}
<1> DEFINE rt == [runtime EXCEPT !.kernel = ClearActiveSession(@)]
<1>1. runtime.kernel \in Kernel
  BY DEF Runtime
<1>2. rt \in Runtime /\ rt.kernel.activeSession = NoSession
  BY <1>1, ClearType, WithKernel
<1> HIDE DEF rt
<1>3. ClearedRuntime(config) = ResetRuntime(rt, config)
  BY DEF ClearedRuntime, rt
<1> QED
  BY <1>2, <1>3, ResetType

LEMMA SeedType ==
  ASSUME NEW rt \in Runtime, NEW r \in Req, NEW outcome \in {"ok", "error"},
         NEW rt2 \in SeedOutcomes(rt, r)[outcome]
  PROVE  /\ rt2 \in Runtime
         /\ rt2.kernel = rt.kernel
         /\ rt2.service \subseteq rt.service \cup {r}
<1>1. rt2 = rt \/ rt2 = [rt EXCEPT !.service = @ \cup {r}]
  BY DEF SeedOutcomes
<1> QED
  BY <1>1, WithService

LEMMA ControlResetStep ==
  ASSUME IInv, NEW r \in Req, ControlReset(r)
  PROVE  Core'
<1>1. PICK config \in Configs : runtime' = ClearedRuntime(config)
  BY DEF ControlReset
<1>2. /\ runtime' \in Runtime
      /\ runtime'.kernel.activeSession = NoSession
      /\ runtime'.kernel.events = <<>>
      /\ runtime'.kernel.nextSequence = 1
      /\ runtime'.service = {}
  BY <1>1, ClearedType, ConfigsAssumption DEF IInv, Core, ServerOK
<1>3. SessionId' = SessionId /\ StoreOK(store')
  BY StoreKept DEF ControlReset, IInv, Core
<1> DEFINE c == Begun("reset", Nil, Nil)
<1>4. pc[r] = "idle"
  BY DEF ControlReset, Arrive
<1>5. call' = [call EXCEPT ![r] = c]
  BY DEF ControlReset
<1>6. CallOK(c, "done", SessionId') /\ c.op = "reset"
  BY BegunType DEF Op, Creating, HoldsSession
<1> HIDE DEF c
<1>8. RequestsOK' /\ pc'[r] = "done" /\ call'[r] = c /\ Elsewhere(r)
  <2>1. "done" \in Label /\ pc' = [pc EXCEPT ![r] = "done"]
    BY DEF Label, ControlReset, Goto
  <2> QED
    BY <1>3, <1>5, <1>6, <2>1, MoveType DEF IInv, Core
<1>9. LogNumbered' /\ EffectsLogged'
  BY <1>2, <1>6, <1>8, LogCleared
<1>10. runtimeLock' \in Req \cup {Free} /\ LockOwned'
  BY <1>4, <1>8, LockKept DEF ControlReset
<1> QED
  BY <1>2, <1>3, <1>8, <1>9, <1>10 DEF IInv, Core, ServerOK, RequestsOK

LEMMA ControlSeedStep ==
  ASSUME IInv, NEW r \in Req, ControlSeed(r)
  PROVE  Core'
<1> DEFINE cleared == ClearedRuntime([seed |-> 0, start |-> 0])
<1>1. PICK outcome \in {"ok", "error"} :
        /\ runtime' \in SeedOutcomes(cleared, r)[outcome]
        /\ call' = [call EXCEPT ![r] = Begun("seed", Nil, Nil)]
  BY DEF ControlSeed
<1>2. /\ cleared \in Runtime
      /\ cleared.kernel.activeSession = NoSession
      /\ cleared.kernel.events = <<>>
      /\ cleared.kernel.nextSequence = 1
      /\ cleared.service = {}
  BY ClearedType DEF IInv, Core, ServerOK
<1> HIDE DEF cleared
<1>3. /\ runtime' \in Runtime
      /\ runtime'.kernel = cleared.kernel
      /\ runtime'.service \subseteq {r}
  BY <1>1, <1>2, SeedType
<1>4. SessionId' = SessionId /\ StoreOK(store')
  BY StoreKept DEF ControlSeed, IInv, Core
<1> DEFINE c == Begun("seed", Nil, Nil)
<1>5. pc[r] = "idle"
  BY DEF ControlSeed, Arrive
<1>6. call' = [call EXCEPT ![r] = c]
  BY <1>1
<1>7. CallOK(c, "done", SessionId') /\ c.op = "seed"
  BY BegunType DEF Op, Creating, HoldsSession
<1> HIDE DEF c
<1>9. RequestsOK' /\ pc'[r] = "done" /\ call'[r] = c /\ Elsewhere(r)
  <2>1. "done" \in Label /\ pc' = [pc EXCEPT ![r] = "done"]
    BY DEF Label, ControlSeed, Goto
  <2> QED
    BY <1>4, <1>6, <1>7, <2>1, MoveType DEF IInv, Core
<1>10. LogNumbered' /\ EffectsLogged'
  BY <1>2, <1>3, <1>7, <1>9, LogCleared
<1>11. runtimeLock' \in Req \cup {Free} /\ LockOwned'
  BY <1>5, <1>9, LockKept DEF ControlSeed
<1> QED
  BY <1>2, <1>3, <1>4, <1>9, <1>10, <1>11 DEF IInv, Core, ServerOK, RequestsOK

\* The first active session is one of the store: a non-empty set of numbers
\* has a least element.
LEMMA FirstActiveType ==
  ASSUME StoreOK(store), ActiveSessions # {}
  PROVE  FirstActive \in SessionId
<1>1. ActiveSessions \subseteq Nat
  BY SMT DEF StoreOK, ActiveSessions, SessionId
<1>2. PICK s \in ActiveSessions : \A t \in ActiveSessions : s <= t
  <2> DEFINE R == {ss \in Nat \X Nat : ss[1] < ss[2]}
  <2>1. IsWellFoundedOn(R, Nat)
    BY NatLessThanWellFounded DEF OpToRel
  <2> HIDE DEF R
  <2>2. PICK s \in ActiveSessions : \A t \in ActiveSessions : <<t, s>> \notin R
    BY <1>1, <2>1, WFMin
  <2>3. ASSUME NEW t \in ActiveSessions PROVE s <= t
    <3>1. s \in Nat /\ t \in Nat
      BY <1>1
    <3>2. t < s => <<t, s>> \in R
      BY <3>1 DEF R
    <3>3. <<t, s>> \notin R
      BY <2>2
    <3> QED
      BY <3>1, <3>2, <3>3, SMT
  <2> QED
    BY <2>3
<1>3. FirstActive \in ActiveSessions
  BY <1>2 DEF FirstActive
<1> QED
  BY <1>3 DEF ActiveSessions

LEMMA CreateCheckStep ==
  ASSUME IInv, NEW r \in Req, CreateCheck(r)
  PROVE  Core'
<1> DEFINE Enters(c, label) == /\ call' = [call EXCEPT ![r] = c]
                               /\ pc' = [pc EXCEPT ![r] = label]
                               /\ CallOK(c, label, SessionId)
                               /\ c.op = "create"
<1>1. \E c : Enters(c, "create_reset") \/ Enters(c, "create_lock_runtime")
  <2>1. CASE ActiveSessions = {}
    <3>1. Enters(Begun("create", Nil, Nil), "create_reset")
      BY <2>1, BegunType DEF CreateCheck, Goto, Op, Creating, HoldsSession
    <3> QED
      BY <3>1, Zenon
  <2>2. CASE ActiveSessions # {}
    <3>1. FirstActive \in SessionId
      BY <2>2, FirstActiveType DEF IInv, Core, ServerOK
    <3>2. Enters(Begun("create", FirstActive, Nil), "create_lock_runtime")
      BY <2>2, <3>1, BegunType DEF CreateCheck, Goto, Op, Creating, HoldsSession
    <3> QED
      BY <3>2, Zenon
  <2> QED
    BY <2>1, <2>2
<1>2. SessionId' = SessionId /\ StoreOK(store')
  BY StoreKept DEF CreateCheck, IInv, Core
<1>3. RequestsOK' /\ call'[r].op = "create" /\ Elsewhere(r)
  BY <1>1, <1>2, MoveType DEF IInv, Core, Label
<1>4. LogNumbered' /\ EffectsLogged'
  BY <1>3, LogKept DEF CreateCheck
<1>5. runtimeLock' \in Req \cup {Free} /\ LockOwned'
  BY <1>3, LockKept DEF CreateCheck, Arrive
<1> QED
  BY <1>2, <1>3, <1>4, <1>5 DEF IInv, Core, ServerOK, RequestsOK, CreateCheck

LEMMA CreateLockRuntimeStep ==
  ASSUME IInv, NEW r \in Req, CreateLockRuntime(r)
  PROVE  Core'
<1>1. /\ pc[r] = "create_lock_runtime"
      /\ CallOK(call[r], "create_lock_runtime", SessionId)
  BY DEF CreateLockRuntime, IInv, Core, ServerOK
<1>2. SessionId' = SessionId /\ StoreOK(store')
  BY StoreKept DEF CreateLockRuntime, IInv, Core
<1>3. /\ RequestsOK' /\ pc'[r] = "create_end_old"
      /\ call'[r] = call[r] /\ Elsewhere(r)
  BY <1>1, <1>2, MoveOnType
  DEF CreateLockRuntime, IInv, Core, Label, CallOK, Creating, HoldsSession
<1>4. call[r].op = "create"
  BY <1>1 DEF CallOK, Creating
<1>5. LogNumbered' /\ EffectsLogged'
  BY <1>3, <1>4, LogKept DEF CreateLockRuntime
<1>6. runtimeLock' \in Req \cup {Free} /\ LockOwned'
  BY <1>3 DEF CreateLockRuntime, LockOwned
<1> QED
  BY <1>2, <1>3, <1>5, <1>6
  DEF IInv, Core, ServerOK, RequestsOK, CreateLockRuntime

LEMMA CreateEndOldStep ==
  ASSUME IInv, NEW r \in Req, CreateEndOld(r)
  PROVE  Core'
<1> DEFINE old == call[r].session
<1>1. pc[r] = "create_end_old" /\ CallOK(call[r], "create_end_old", SessionId)
  BY DEF CreateEndOld, IInv, Core, ServerOK
<1>2. old \in SessionId /\ call[r].op = "create"
  BY <1>1 DEF CallOK, HoldsSession, Creating
<1>3. runtime \in Runtime /\ runtime.kernel \in Kernel /\ StoreOK(store)
  BY DEF IInv, Core, ServerOK, Runtime
<1>4. store' = store
      \/ store' = EndSessionWith(store, old, FrozenRecord(runtime, old))
  BY DEF CreateEndOld
<1> HIDE DEF old
<1>5. StoreOK(store') /\ store'.next = store.next
  <2>1. FrozenOK(FrozenRecord(runtime, old))
    BY <1>3, FrozenType
  <2> QED
    BY <1>2, <1>3, <1>4, <2>1, EndType
<1>6. SessionId' = SessionId
  BY <1>5 DEF SessionId
<1>7. /\ runtime' \in Runtime
      /\ runtime'.service = runtime.service
      /\ runtime'.kernel.activeSession = NoSession
      /\ runtime'.kernel.events = runtime.kernel.events
      /\ runtime'.kernel.nextSequence = runtime.kernel.nextSequence
  BY <1>3, ClearType, WithKernel DEF CreateEndOld
<1>8. /\ RequestsOK' /\ pc'[r] = "create_reset"
      /\ call'[r] = call[r] /\ Elsewhere(r)
  BY <1>2, <1>6, MoveOnType DEF CreateEndOld, IInv, Core, Label, HoldsSession
<1>9. LogNumbered' /\ EffectsLogged'
  BY <1>2, <1>7, <1>8, LogKept DEF CreateEndOld
<1>10. runtimeLock' \in Req \cup {Free} /\ LockOwned'
  BY DEF CreateEndOld, LockOwned
<1> QED
  BY <1>5, <1>7, <1>8, <1>9, <1>10 DEF IInv, Core, ServerOK, RequestsOK

LEMMA CreateResetStep ==
  ASSUME IInv, NEW r \in Req, CreateReset(r)
  PROVE  Core'
<1>1. pc[r] = "create_reset" /\ CallOK(call[r], "create_reset", SessionId)
  BY DEF CreateReset, IInv, Core, ServerOK
<1>2. call[r].op = "create"
  BY <1>1 DEF CallOK, Creating
<1>3. /\ runtime \in Runtime
      /\ runtime.kernel.activeSession \in SessionId \cup {NoSession}
      /\ runtime.kernel.config \in [seed : Nat, start : Nat]
  BY DEF IInv, Core, ServerOK, Runtime, Kernel
<1>4. /\ runtime' \in Runtime
      /\ runtime'.kernel.activeSession = runtime.kernel.activeSession
      /\ runtime'.kernel.events = <<>>
      /\ runtime'.kernel.nextSequence = 1
      /\ runtime'.service = {}
  BY <1>3, ResetType DEF CreateReset
<1>5. SessionId' = SessionId /\ StoreOK(store')
  BY StoreKept DEF CreateReset, IInv, Core
<1>6. RequestsOK' /\ call'[r] = call[r] /\ Elsewhere(r)
  <2>1. PICK label \in {"create_seed", "create_insert"} : Goto(r, label)
    BY DEF CreateReset
  <2> QED
    BY <1>2, <1>5, <2>1, MoveOnType DEF CreateReset, IInv, Core, Label, HoldsSession
<1>7. LogNumbered' /\ EffectsLogged'
  BY <1>2, <1>4, <1>6, LogCleared
<1>8. runtimeLock' \in Req \cup {Free} /\ LockOwned'
  BY <1>1, <1>6, LockKept DEF CreateReset
<1> QED
  BY <1>3, <1>4, <1>5, <1>6, <1>7, <1>8 DEF IInv, Core, ServerOK, RequestsOK

LEMMA CreateSeedStep ==
  ASSUME IInv, NEW r \in Req, CreateSeed(r)
  PROVE  Core'
<1>1. pc[r] = "create_seed" /\ CallOK(call[r], "create_seed", SessionId)
  BY DEF CreateSeed, IInv, Core, ServerOK
<1>2. PICK outcome \in {"ok", "error"} :
        /\ runtime' \in SeedOutcomes(runtime, r)[outcome]
        /\ Goto(r, IF outcome = "ok" THEN "create_insert" ELSE "done")
  BY DEF CreateSeed
<1>3. /\ runtime' \in Runtime
      /\ runtime'.kernel = runtime.kernel
      /\ runtime'.service \subseteq runtime.service \cup {r}
  BY <1>2, SeedType DEF IInv, Core, ServerOK
<1>4. SessionId' = SessionId /\ StoreOK(store')
  BY StoreKept DEF CreateSeed, IInv, Core
<1>5. call[r].op = "create"
  BY <1>1 DEF CallOK, Creating
<1>6. RequestsOK' /\ call'[r] = call[r] /\ Elsewhere(r)
  <2>1. PICK label \in {"create_insert", "done"} : Goto(r, label)
    BY <1>2
  <2> QED
    BY <1>4, <1>5, <2>1, MoveOnType DEF CreateSeed, IInv, Core, Label, HoldsSession
<1>7. LogNumbered' /\ EffectsLogged'
  BY <1>3, <1>5, <1>6, LogKept DEF CreateSeed
<1>8. runtimeLock' \in Req \cup {Free} /\ LockOwned'
  BY <1>1, <1>6, LockKept DEF CreateSeed
<1> QED
  BY <1>3, <1>4, <1>6, <1>7, <1>8 DEF IInv, Core, ServerOK, RequestsOK

LEMMA CreateInsertStep ==
  ASSUME IInv, NEW r \in Req, CreateInsert(r)
  PROVE  Core'
<1>1. pc[r] = "create_insert" /\ CallOK(call[r], "create_insert", SessionId)
  BY DEF CreateInsert, IInv, Core, ServerOK
<1>2. StoreOK(store) /\ store.next \in Nat \ {0}
  BY DEF IInv, Core, ServerOK, StoreOK
<1>3. StoreOK(store') /\ store'.next = store.next + 1
  BY <1>2, CreateType DEF CreateInsert
<1>4. SessionId \subseteq SessionId' /\ store.next \in SessionId'
  BY <1>2, <1>3, SMT DEF SessionId
<1> DEFINE c == [op |-> call[r].op, session |-> store.next,
                 outcome |-> call[r].outcome, frozen |-> call[r].frozen]
<1>5. call' = [call EXCEPT ![r] = c]
  <2>1. [call[r] EXCEPT !.session = store.next] = c
    BY <1>1, CallUpdate, Zenon DEF CallOK
  <2>2. call' = [call EXCEPT ![r] = [call[r] EXCEPT !.session = store.next]]
    BY DEF CreateInsert
  <2> QED
    BY <2>1, <2>2, Zenon
<1>6. CallOK(c, "create_activate", SessionId') /\ c.op = "create"
  BY <1>1, <1>4 DEF CallOK, Op, Creating, HoldsSession
<1> HIDE DEF c
<1>7. RequestsOK' /\ call'[r] = c /\ Elsewhere(r)
  BY <1>4, <1>5, <1>6, MoveType DEF CreateInsert, Goto, IInv, Core, Label
<1>8. LogNumbered' /\ EffectsLogged'
  BY <1>6, <1>7, LogKept DEF CreateInsert
<1>9. runtimeLock' \in Req \cup {Free} /\ LockOwned'
  BY <1>1, <1>7, LockKept DEF CreateInsert
<1> QED
  BY <1>3, <1>4, <1>7, <1>8, <1>9 DEF IInv, Core, ServerOK, RequestsOK, CreateInsert

LEMMA CreateActivateStep ==
  ASSUME IInv, NEW r \in Req, CreateActivate(r)
  PROVE  Core'
<1>1. /\ pc[r] = "create_activate"
      /\ CallOK(call[r], "create_activate", SessionId)
  BY DEF CreateActivate, IInv, Core, ServerOK
<1>2. call[r].session \in SessionId /\ call[r].op = "create"
  BY <1>1 DEF CallOK, HoldsSession, Creating
<1>3. call[r].session \in Tag
  BY <1>2 DEF SessionId, Tag, IInv, Core, ServerOK, StoreOK
<1>4. runtime \in Runtime /\ runtime.kernel \in Kernel
  BY DEF IInv, Core, ServerOK, Runtime
<1>5. /\ runtime' \in Runtime
      /\ runtime'.service = runtime.service
      /\ runtime'.kernel.activeSession = call[r].session
      /\ runtime'.kernel.events = runtime.kernel.events
      /\ runtime'.kernel.nextSequence = runtime.kernel.nextSequence
  BY <1>3, <1>4, SetType, WithKernel DEF CreateActivate
<1>6. SessionId' = SessionId /\ StoreOK(store')
  BY StoreKept DEF CreateActivate, IInv, Core
<1>7. RequestsOK' /\ call'[r] = call[r] /\ Elsewhere(r)
  BY <1>6, MoveOnType DEF CreateActivate, IInv, Core, Label, Creating, HoldsSession
<1>8. LogNumbered' /\ EffectsLogged'
  BY <1>2, <1>5, <1>7, LogKept DEF CreateActivate
<1>9. runtimeLock' \in Req \cup {Free} /\ LockOwned'
  BY <1>1, <1>7, LockKept DEF CreateActivate
<1> QED
  BY <1>2, <1>5, <1>6, <1>7, <1>8, <1>9 DEF IInv, Core, ServerOK, RequestsOK

LEMMA EndCheckStep ==
  ASSUME IInv, NEW r \in Req, EndCheck(r)
  PROVE  Core'
<1>1. PICK s \in 1..store.next :
        /\ call' = [call EXCEPT ![r] = Begun("end", s, Nil)]
        /\ Goto(r, IF s \in ActiveSessions THEN "end_capture" ELSE "done")
  BY DEF EndCheck
<1> DEFINE label == IF s \in ActiveSessions THEN "end_capture" ELSE "done"
           c     == Begun("end", s, Nil)
<1>2. SessionId' = SessionId /\ StoreOK(store')
  BY StoreKept DEF EndCheck, IInv, Core
<1>3. label \in Label /\ label # "end_store" /\ label # "record"
      /\ label \notin Creating /\ (label \in HoldsSession => s \in SessionId)
  BY DEF Label, Creating, HoldsSession, ActiveSessions
<1> HIDE DEF label
<1>4. CallOK(c, label, SessionId') /\ c.op = "end"
  BY <1>2, <1>3, BegunType DEF Op
<1>5. call' = [call EXCEPT ![r] = c] /\ pc' = [pc EXCEPT ![r] = label]
  BY <1>1 DEF Goto, label
<1> HIDE DEF c
<1>6. RequestsOK' /\ call'[r] = c /\ Elsewhere(r)
  BY <1>2, <1>3, <1>4, <1>5, MoveType DEF IInv, Core
<1>7. LogNumbered' /\ EffectsLogged'
  BY <1>4, <1>6, LogKept DEF EndCheck
<1>8. runtimeLock' \in Req \cup {Free} /\ LockOwned'
  BY <1>6, LockKept DEF EndCheck, Arrive
<1> QED
  BY <1>2, <1>6, <1>7, <1>8 DEF IInv, Core, ServerOK, RequestsOK, EndCheck

\* A request of the end handler has no effect in the state that is not
\* logged, whatever it does next.
LEMMA EndLogged ==
  ASSUME IInv, NEW r \in Req, pc[r] \in {"end_capture", "end_store", "end_clear"},
         call[r].op = "data", r \in runtime.service
  PROVE  r \in Logged \cup restored
BY DEF IInv, Core, EffectsLogged, DataRequests

LEMMA EndCaptureStep ==
  ASSUME IInv, NEW r \in Req, EndCapture(r)
  PROVE  Core'
<1>1. pc[r] = "end_capture" /\ CallOK(call[r], "end_capture", SessionId)
  BY DEF EndCapture, IInv, Core, ServerOK
<1> DEFINE f == FrozenRecord(runtime, call[r].session)
           c == [op |-> call[r].op, session |-> call[r].session,
                 outcome |-> call[r].outcome, frozen |-> f]
<1>2. FrozenOK(f)
  BY FrozenType DEF IInv, Core, ServerOK
<1>3. call' = [call EXCEPT ![r] = [call[r] EXCEPT !.frozen = f]]
  BY DEF EndCapture
<1> HIDE DEF f
<1>4. call' = [call EXCEPT ![r] = c]
  <2>1. [call[r] EXCEPT !.frozen = f] = c
    BY <1>1, CallUpdate, Zenon DEF CallOK
  <2> QED
    BY <1>3, <2>1, Zenon
<1>5. SessionId' = SessionId /\ StoreOK(store')
  BY StoreKept DEF EndCapture, IInv, Core
<1>6. CallOK(c, "end_store", SessionId') /\ c.op = call[r].op
  BY <1>1, <1>2, <1>5 DEF CallOK, Op, Creating, HoldsSession
<1> HIDE DEF c
<1>7. RequestsOK' /\ call'[r] = c /\ Elsewhere(r)
  BY <1>4, <1>5, <1>6, MoveType DEF EndCapture, Goto, IInv, Core, Label
<1>8. LogNumbered' /\ EffectsLogged'
  BY <1>1, <1>6, <1>7, EndLogged, LogKept DEF EndCapture
<1>9. runtimeLock' \in Req \cup {Free} /\ LockOwned'
  BY <1>1, <1>7, LockKept DEF EndCapture
<1> QED
  BY <1>5, <1>7, <1>8, <1>9 DEF IInv, Core, ServerOK, RequestsOK, EndCapture

LEMMA EndStoreStep ==
  ASSUME IInv, NEW r \in Req, EndStore(r)
  PROVE  Core'
<1>1. pc[r] = "end_store" /\ CallOK(call[r], "end_store", SessionId)
  BY DEF EndStore, IInv, Core, ServerOK
<1>2. call[r].session \in SessionId /\ FrozenOK(call[r].frozen)
  BY <1>1 DEF CallOK, HoldsSession
<1>3. StoreOK(store') /\ store'.next = store.next
  BY <1>2, EndType DEF EndStore, IInv, Core, ServerOK
<1>4. SessionId' = SessionId
  BY <1>3 DEF SessionId
<1>5. RequestsOK' /\ call'[r] = call[r] /\ Elsewhere(r)
  BY <1>2, <1>4, MoveOnType DEF EndStore, IInv, Core, Label, Creating
<1>6. LogNumbered' /\ EffectsLogged'
  BY <1>1, <1>5, EndLogged, LogKept DEF EndStore
<1>7. runtimeLock' \in Req \cup {Free} /\ LockOwned'
  BY <1>1, <1>5, LockKept DEF EndStore
<1> QED
  BY <1>3, <1>4, <1>5, <1>6, <1>7 DEF IInv, Core, ServerOK, RequestsOK, EndStore

LEMMA EndClearStep ==
  ASSUME IInv, NEW r \in Req, EndClear(r)
  PROVE  Core'
<1>1. pc[r] = "end_clear"
  BY DEF EndClear
<1>2. /\ runtime \in Runtime /\ runtime.kernel \in Kernel
      /\ runtime.kernel.activeSession \in SessionId \cup {NoSession}
  BY DEF IInv, Core, ServerOK, Runtime
<1>3. /\ runtime' \in Runtime
      /\ runtime'.service = runtime.service
      /\ runtime'.kernel.activeSession \in SessionId \cup {NoSession}
      /\ runtime'.kernel.events = runtime.kernel.events
      /\ runtime'.kernel.nextSequence = runtime.kernel.nextSequence
  BY <1>2, ClearType, WithKernel DEF EndClear
<1>4. SessionId' = SessionId /\ StoreOK(store')
  BY StoreKept DEF EndClear, IInv, Core
<1>5. RequestsOK' /\ call'[r] = call[r] /\ Elsewhere(r)
  BY <1>4, MoveOnType DEF EndClear, IInv, Core, Label, Creating, HoldsSession
<1>6. LogNumbered' /\ EffectsLogged'
  BY <1>1, <1>3, <1>5, EndLogged, LogKept DEF EndClear
<1>7. runtimeLock' \in Req \cup {Free} /\ LockOwned'
  BY <1>1, <1>5, LockKept DEF EndClear
<1> QED
  BY <1>3, <1>4, <1>5, <1>6, <1>7 DEF IInv, Core, ServerOK, RequestsOK

LEMMA DisconnectStep ==
  ASSUME IInv, NEW r \in Req, Disconnect(r)
  PROVE  Core'
<1>1. SessionId' = SessionId /\ StoreOK(store')
  BY StoreKept DEF Disconnect, IInv, Core
<1>2. RequestsOK' /\ pc'[r] = "gone" /\ call'[r] = call[r] /\ Elsewhere(r)
  BY <1>1, MoveOnType DEF Disconnect, IInv, Core, Label, Creating, HoldsSession
<1>3. LogNumbered' /\ EffectsLogged'
  BY <1>2, LogKept DEF Disconnect
<1>4. runtimeLock' \in Req \cup {Free} /\ LockOwned'
  BY <1>2, ReqAssumption
  DEF Disconnect, IInv, Core, ServerOK, LockOwned, Elsewhere
<1> QED
  BY <1>1, <1>2, <1>3, <1>4 DEF IInv, Core, ServerOK, RequestsOK, Disconnect

LEMMA ControlSnapshotStep ==
  ASSUME IInv, NEW r \in Req, ControlSnapshot(r)
  PROVE  Core'
<1>1. SessionId' = SessionId /\ StoreOK(store')
  BY StoreKept DEF ControlSnapshot, IInv, Core
<1> DEFINE c == Begun("snapshot", Nil, Nil)
<1>2. call' = [call EXCEPT ![r] = c]
  BY DEF ControlSnapshot
<1>3. CallOK(c, "done", SessionId') /\ c.op = "snapshot"
  BY BegunType DEF Op, Creating, HoldsSession
<1> HIDE DEF c
<1>4. RequestsOK' /\ call'[r] = c /\ Elsewhere(r)
  <2>1. "done" \in Label /\ pc' = [pc EXCEPT ![r] = "done"]
    BY DEF Label, ControlSnapshot, Goto
  <2> QED
    BY <1>1, <1>2, <1>3, <2>1, MoveType DEF IInv, Core
<1>5. LogNumbered' /\ EffectsLogged'
  BY <1>3, <1>4, LogKept DEF ControlSnapshot
<1>6. runtimeLock' \in Req \cup {Free} /\ LockOwned'
  BY <1>4, LockKept DEF ControlSnapshot, Arrive
<1> QED
  BY <1>1, <1>4, <1>5, <1>6 DEF IInv, Core, ServerOK, RequestsOK, ControlSnapshot

\* What can be restored was taken of this server.
LEMMA RestorableType == IInv => Restorable \subseteq Snapshot
<1> SUFFICES ASSUME IInv PROVE Restorable \subseteq Snapshot
  OBVIOUS
<1>1. ASSUME NEW s \in SessionId \ ActiveSessions
      PROVE  store.sessions[s].frozen.snapshot \in Snapshot
  <2>1. SessionOK(store.sessions[s])
    BY DEF IInv, Core, ServerOK, StoreOK, SessionId
  <2>2. store.sessions[s].status # "active"
    BY DEF ActiveSessions
  <2> QED
    BY <2>1, <2>2 DEF SessionOK, FrozenOK
<1> QED
  BY <1>1 DEF Restorable, IInv, HeldOK

LEMMA ControlRestoreRuntime ==
  ASSUME IInv, NEW r \in Req, ControlRestore(r)
  PROVE  /\ runtime' \in Runtime /\ runtime'.kernel = runtime.kernel
         /\ \/ runtime'.service = runtime.service /\ restored' = restored
            \/ runtime'.service = restored' /\ restored' \subseteq Req
<1>1. PICK snapshot \in Restorable, outcome \in {"ok", "error"} :
        /\ runtime' = FullRestore(runtime, snapshot, outcome = "ok")
        /\ restored' = IF outcome = "ok" THEN snapshot.service ELSE restored
  BY DEF ControlRestore
<1>2. snapshot \in Snapshot /\ runtime \in Runtime /\ snapshot.service \subseteq Req
  BY RestorableType DEF IInv, Core, ServerOK, Snapshot
<1>3. (outcome = "ok") \in BOOLEAN
  OBVIOUS
<1> QED
  BY <1>1, <1>2, <1>3, RestoreType

LEMMA ControlRestoreStep ==
  ASSUME IInv, NEW r \in Req, ControlRestore(r)
  PROVE  Core'
<1>1. SessionId' = SessionId /\ StoreOK(store')
  BY StoreKept DEF ControlRestore, IInv, Core
<1>2. call' = [call EXCEPT ![r] = Begun("restore", Nil, Nil)]
  BY DEF ControlRestore
<1> DEFINE c == Begun("restore", Nil, Nil)
<1>3. CallOK(c, "done", SessionId') /\ c.op = "restore"
  BY BegunType DEF Op, Creating, HoldsSession
<1> HIDE DEF c
<1>4. RequestsOK' /\ call'[r] = c /\ Elsewhere(r)
  <2>1. "done" \in Label /\ pc' = [pc EXCEPT ![r] = "done"]
    BY DEF Label, ControlRestore, Goto
  <2> QED
    BY <1>1, <1>2, <1>3, <2>1, MoveType DEF IInv, Core, c
<1>5. LogNumbered' /\ EffectsLogged'
  <2>1. CASE runtime'.service = runtime.service /\ restored' = restored
    BY <1>3, <1>4, <2>1, ControlRestoreRuntime, LogKept
  <2>2. CASE runtime'.service = restored'
    <3>1. LogNumbered'
      BY ControlRestoreRuntime DEF IInv, Core, LogNumbered
    <3>2. EffectsLogged'
      BY <2>2 DEF EffectsLogged
    <3> QED
      BY <3>1, <3>2
  <2> QED
    BY <2>1, <2>2, ControlRestoreRuntime
<1>6. runtimeLock' \in Req \cup {Free} /\ LockOwned'
  BY <1>4, LockKept DEF ControlRestore, Arrive
<1> QED
  BY <1>1, <1>4, <1>5, <1>6, ControlRestoreRuntime DEF IInv, Core, ServerOK, RequestsOK

\* What clients hold is of this server, too.
LEMMA HeldNext ==
  ASSUME IInv, [Next]_vars
  PROVE  HeldOK'
<1>1. saved' \subseteq Snapshot
  <2>1. saved' = saved \/ saved' = saved \cup {FullSnapshot(runtime)}
    BY DEF Next, Begin, Continue, vars, AllAnswered, HandleRequest, RecordRequest,
       ControlReset, ControlSeed, ControlSnapshot, ControlRestore, CreateCheck,
       CreateLockRuntime, CreateEndOld, CreateReset, CreateSeed, CreateInsert,
       CreateActivate, EndCheck, EndCapture, EndStore, EndClear, Disconnect
  <2>2. FullSnapshot(runtime) \in Snapshot
    BY SnapshotType DEF IInv, Core, ServerOK
  <2> QED
    BY <2>1, <2>2 DEF IInv, HeldOK
<1>2. restored' \subseteq Req
  <2>1. ASSUME NEW r \in Req, ControlRestore(r) PROVE restored' \subseteq Req
    BY <2>1, ControlRestoreRuntime DEF IInv, HeldOK
  <2>2. CASE restored' = restored \/ restored' = {}
    BY <2>2 DEF IInv, HeldOK
  <2>3. \/ restored' = restored \/ restored' = {}
        \/ \E r \in Req : ControlRestore(r)
    BY DEF Next, Begin, Continue, vars, AllAnswered, HandleRequest, RecordRequest,
       ControlReset, ControlSeed, ControlSnapshot, CreateCheck,
       CreateLockRuntime, CreateEndOld, CreateReset, CreateSeed, CreateInsert,
       CreateActivate, EndCheck, EndCapture, EndStore, EndClear, Disconnect
  <2> QED
    BY <2>1, <2>2, <2>3
<1> QED
  BY <1>1, <1>2 DEF HeldOK

LEMMA StutterInv ==
  ASSUME IInv, UNCHANGED vars
  PROVE  Core'
BY DEF vars, IInv, Core, ServerOK, SessionId, LogNumbered, EffectsLogged, LockOwned,
       DataRequests, Logged

\* Every step of every request preserves the inductive invariant.
LEMMA NextInv == IInv /\ [Next]_vars => IInv'
<1> SUFFICES ASSUME IInv, [Next]_vars PROVE IInv'
  OBVIOUS
<1>1. ASSUME NEW r \in Req, Begin(r) PROVE Core'
  BY <1>1, HandleRequestStep, ControlResetStep, ControlSeedStep,
     ControlSnapshotStep, ControlRestoreStep,
     CreateCheckStep, EndCheckStep DEF Begin
<1>2. ASSUME NEW r \in Req, Continue(r) PROVE Core'
  BY <1>2, RecordRequestStep, CreateLockRuntimeStep, CreateEndOldStep,
     CreateResetStep, CreateSeedStep, CreateInsertStep, CreateActivateStep,
     EndCaptureStep, EndStoreStep, EndClearStep DEF Continue
<1>3. ASSUME NEW r \in Req, Disconnect(r) PROVE Core'
  BY <1>3, DisconnectStep
<1>4. AllAnswered => Core'
  BY StutterInv DEF AllAnswered
<1>5. UNCHANGED vars => Core'
  BY StutterInv
<1> QED
  BY <1>1, <1>2, <1>3, <1>4, <1>5, HeldNext DEF Next, IInv

\* The inductive invariant holds of every reachable state.
THEOREM Invariant == Spec => []IInv
BY InitInv, NextInv, PTL DEF Spec

-----------------------------------------------------------------------------
(* The theorems. *)

\* The shape of the state, and that a request which is about to use a session
\* or a frozen record has one, for any number of concurrent requests.
THEOREM TypeCorrect == Spec => []TypeOK
BY Invariant, PTL DEF IInv, Core, TypeOK

\* Sequence numbers count the log from 1 without gaps or repeats.
THEOREM AlwaysNumbered == Spec => []LogNumbered
BY Invariant, PTL DEF IInv, Core

\* A mutation of the current state is in the log, or about to be recorded, or of
\* a client that disconnected, or was brought back by the last restore, with no
\* reset since, although handler and recording are two critical sections.
THEOREM MutationsAreLogged == Spec => []EffectsLogged
BY Invariant, PTL DEF IInv, Core

\* The runtime mutex is held across a wait by a create-session only, and
\* never by a request that is answered or dropped.
THEOREM LockIsOwned == Spec => []LockOwned
BY Invariant, PTL DEF IInv, Core

\* No step of any request makes an ended session active again or loses it.
THEOREM EndingIsFinal == Spec => EndedIsFinal
<1> DEFINE Final ==
      \A s \in SessionId :
        store.sessions[s].status = "ended" =>
          s \in SessionId' /\ store'.sessions[s].status = "ended"
<1>1. IInv /\ [Next]_vars => [Final]_store
  <2> SUFFICES ASSUME IInv, [Next]_vars, store' # store PROVE Final
    OBVIOUS
  <2>1. StoreOK(store) /\ store.next \in Nat \ {0}
    BY DEF IInv, Core, ServerOK, StoreOK
  <2>2. PICK r \in Req : CreateEndOld(r) \/ CreateInsert(r) \/ EndStore(r)
    BY DEF Next, Begin, Continue, vars, AllAnswered, HandleRequest,
       RecordRequest, ControlReset, ControlSeed, ControlSnapshot, ControlRestore, CreateCheck,
       CreateLockRuntime, CreateReset, CreateSeed, CreateActivate, EndCheck,
       EndCapture, EndClear, Disconnect
  <2>3. CASE CreateInsert(r)
    <3>1. /\ store'.next = store.next + 1
          /\ \A s \in 1..(store.next - 1) :
               store'.sessions[s] = store.sessions[s]
      BY <2>1, <2>3, CreateType DEF CreateInsert
    <3> QED
      BY <2>1, <3>1, SMT DEF SessionId
  <2>4. ASSUME NEW s \in SessionId, NEW f, FrozenOK(f),
               store' = EndSessionWith(store, s, f)
        PROVE  Final
    <3>1. /\ store'.next = store.next
          /\ \A t \in SessionId :
               store'.sessions[t] = IF t = s
                                    THEN [status |-> "ended", frozen |-> f]
                                    ELSE store.sessions[t]
      BY <2>1, <2>4, EndType
    <3> QED
      BY <3>1 DEF SessionId
  <2>5. CASE EndStore(r)
    <3>1. CallOK(call[r], "end_store", SessionId)
      BY <2>5 DEF EndStore, IInv, Core, ServerOK
    <3>2. call[r].session \in SessionId /\ FrozenOK(call[r].frozen)
      BY <3>1 DEF CallOK, HoldsSession
    <3> QED
      BY <2>4, <2>5, <3>2, Zenon DEF EndStore
  <2>6. CASE CreateEndOld(r)
    <3> DEFINE old == call[r].session
               f   == FrozenRecord(runtime, old)
    <3>1. CallOK(call[r], "create_end_old", SessionId)
      BY <2>6 DEF CreateEndOld, IInv, Core, ServerOK
    <3>2. old \in SessionId /\ FrozenOK(f)
      BY <3>1, FrozenType DEF CallOK, HoldsSession, IInv, Core, ServerOK
    <3>3. store' = EndSessionWith(store, old, f)
      BY <2>6 DEF CreateEndOld
    <3> QED
      BY <2>4, <3>2, <3>3, Zenon
  <2> QED
    BY <2>2, <2>3, <2>5, <2>6
<1> QED
  BY <1>1, Invariant, PTL DEF Spec, EndedIsFinal

-----------------------------------------------------------------------------
(* The filter of the log. *)

\* It has nothing else to look at than the log.
LEMMA FilterSame ==
  ASSUME NEW k, NEW l, l.events = k.events, NEW s
  PROVE  EventsOfSession(l, s) = EventsOfSession(k, s)
BY DEF EventsOfSession

\* A function on 1..n is a sequence of length n.
LEMMA SeqOfLength ==
  ASSUME NEW E, NEW n \in Nat, NEW h \in [1..n -> E]
  PROVE  h \in Seq(E) /\ Len(h) = n
<1>1. h \in Seq(E)
  BY SeqDef, Zenon
<1>2. Len(h) \in Nat /\ DOMAIN h = 1..Len(h)
  BY <1>1, LenProperties
<1>3. DOMAIN h = 1..n
  OBVIOUS
<1>4. 1..n = 1..Len(h)
  BY <1>2, <1>3
<1>5. n = Len(h)
  <2>1. \A i \in Nat : i \in 1..n <=> i \in 1..Len(h)
    BY <1>4
  <2>2. n <= Len(h)
    <3>1. CASE n = 0
      BY <1>2, <3>1
    <3>2. CASE n # 0
      BY <1>2, <2>1, <3>2
    <3> QED
      BY <3>1, <3>2
  <2>3. Len(h) <= n
    <3>1. CASE Len(h) = 0
      BY <3>1
    <3>2. CASE Len(h) # 0
      BY <1>2, <2>1, <3>2
    <3> QED
      BY <3>1, <3>2
  <2> QED
    BY <1>2, <2>2, <2>3
<1> QED
  BY <1>1, <1>5

\* An empty log has no event of any session.
LEMMA FilterEmpty ==
  ASSUME NEW k, k.events = <<>>, NEW s
  PROVE  EventsOfSession(k, s) = <<>>
<1> DEFINE own == {i \in DOMAIN k.events : k.events[i].session = s}
           At(n) == {i \in own : Cardinality({j \in own : j < i}) = n - 1}
<1>1. own = {}
  OBVIOUS
<1>2. Cardinality(own) = 0
  BY <1>1, FS_EmptySet
<1>3. EventsOfSession(k, s) = [n \in 1..Cardinality(own) |-> k.events[Only(At(n))]]
  BY DEF EventsOfSession
<1> HIDE DEF own, At
<1>4. EventsOfSession(k, s) \in Seq({}) /\ Len(EventsOfSession(k, s)) = 0
  <2>1. EventsOfSession(k, s) = [n \in 1..0 |-> k.events[Only(At(n))]]
    BY <1>2, <1>3
  <2>2. 1..0 = {}
    OBVIOUS
  <2>3. EventsOfSession(k, s) \in [1..0 -> {}]
    BY <2>1, <2>2
  <2> QED
    BY <2>3, SeqDef, LenProperties
<1> QED
  BY <1>4, EmptySeq

\* Each place of a filter is taken by one event of the session.
LEMMA PlacesAreTaken ==
  ASSUME NEW own \in SUBSET Nat, IsFiniteSet(own)
  PROVE  /\ Cardinality(own) \in Nat
         /\ \A i \in own : /\ Cardinality({j \in own : j < i}) \in Nat
                          /\ Cardinality({j \in own : j < i}) < Cardinality(own)
         /\ \A n \in 1..Cardinality(own) :
              Only({i \in own : Cardinality({j \in own : j < i}) = n - 1}) \in
                {i \in own : Cardinality({j \in own : j < i}) = n - 1}
<1>1. PICK lt : /\ StrictOrder(lt, own)
                /\ \A i, j \in own : <<i, j>> \in lt <=> i < j
  <2> DEFINE less == {p \in own \X own : p[1] < p[2]}
  <2>1. \A i, j \in own : <<i, j>> \in less <=> i < j
    OBVIOUS
  <2>2. \A i, j \in own : i \in Nat /\ j \in Nat
    OBVIOUS
  <2> HIDE DEF less
  <2>3. StrictOrder(less, own)
    BY <2>1, <2>2 DEF StrictOrder
  <2> QED
    BY <2>1, <2>3
<1>2. \A i \in own : {j \in own : <<j, i>> \in lt} = {j \in own : j < i}
  BY <1>1
<1>3. \A i \in own : RankIn(lt, own, i) = Cardinality({j \in own : j < i})
  BY <1>2 DEF RankIn
<1>4. /\ Cardinality(own) \in Nat
      /\ \A i \in own : RankIn(lt, own, i) \in Nat /\ RankIn(lt, own, i) < Cardinality(own)
      /\ \A k \in Nat : k < Cardinality(own) => \E i \in own : RankIn(lt, own, i) = k
  <2>1. IsFiniteSet(own) /\ StrictOrder(lt, own)
    BY <1>1
  <2>2. Cardinality(own) \in Nat
    BY <2>1, RanksAreTaken
  <2>3. \A i \in own :
          RankIn(lt, own, i) \in Nat /\ RankIn(lt, own, i) < Cardinality(own)
    BY <2>1, RanksAreTaken
  <2>4. \A k \in Nat : k < Cardinality(own) => \E i \in own : RankIn(lt, own, i) = k
    BY <2>1, RanksAreTaken
  <2> QED
    BY <2>2, <2>3, <2>4
<1>5. ASSUME NEW n \in 1..Cardinality(own)
      PROVE  \E i \in own : Cardinality({j \in own : j < i}) = n - 1
  <2>1. n - 1 \in Nat /\ n - 1 < Cardinality(own)
    BY <1>4
  <2> QED
    BY <1>3, <1>4, <2>1
<1>6. ASSUME NEW n \in 1..Cardinality(own)
      PROVE  Only({i \in own : Cardinality({j \in own : j < i}) = n - 1}) \in
                {i \in own : Cardinality({j \in own : j < i}) = n - 1}
  <2> DEFINE S == {i \in own : Cardinality({j \in own : j < i}) = n - 1}
  <2>1. S # {}
    BY <1>5
  <2> HIDE DEF S
  <2>2. Only(S) \in S
    BY <2>1 DEF Only
  <2> QED
    BY <2>2 DEF S
<1>7. \A i \in own : /\ Cardinality({j \in own : j < i}) \in Nat
                     /\ Cardinality({j \in own : j < i}) < Cardinality(own)
  BY <1>3, <1>4
<1> QED
  BY <1>4, <1>6, <1>7, Zenon

\* The log of kernel l is that of k with one more event.
Grows(k, l, e) == k.events \in Seq(Event) /\ l.events = Append(k.events, e)

\* An event of the session comes last in its filter, any other leaves it alone.
LEMMA FilterAppend ==
  ASSUME NEW k, NEW l, NEW e \in Event, Grows(k, l, e), NEW s
  PROVE  /\ e.session = s => EventsOfSession(l, s) = Append(EventsOfSession(k, s), e)
         /\ e.session # s => EventsOfSession(l, s) = EventsOfSession(k, s)
<1> DEFINE Own(log) == {i \in DOMAIN log : log[i].session = s}
           Before(own, i) == {j \in own : j < i}
           At(own, n) == {i \in own : Cardinality(Before(own, i)) = n - 1}
           f == EventsOfSession(k, s)
           g == EventsOfSession(l, s)
           m == Len(k.events)
           c == Cardinality(Own(k.events))
<1>1. /\ f = [n \in 1..Cardinality(Own(k.events)) |->
                k.events[Only(At(Own(k.events), n))]]
      /\ g = [n \in 1..Cardinality(Own(l.events)) |->
                l.events[Only(At(Own(l.events), n))]]
  BY DEF EventsOfSession
<1>2. /\ m \in Nat /\ DOMAIN k.events = 1..m /\ DOMAIN l.events = 1..(m + 1)
      /\ \A i \in 1..m : l.events[i] = k.events[i] /\ k.events[i] \in Event
      /\ l.events[m + 1] = e
  BY DEF Grows
<1>3. Own(k.events) \subseteq 1..m /\ IsFiniteSet(Own(k.events))
  <2>1. Own(k.events) \in SUBSET (1..m)
    BY <1>2
  <2>2. IsFiniteSet(1..m)
    BY <1>2, FS_Interval
  <2> QED
    BY <2>1, <2>2, FS_Subset
<1>4. Own(l.events) = IF e.session = s THEN Own(k.events) \cup {m + 1} ELSE Own(k.events)
  <2>1. \A i \in 1..m : i \in Own(l.events) <=> i \in Own(k.events)
    BY <1>2
  <2>2. m + 1 \in Own(l.events) <=> e.session = s
    BY <1>2
  <2>3. 1..(m + 1) = 1..m \cup {m + 1} /\ m + 1 \notin 1..m
    BY <1>2
  <2>4. Own(l.events) \subseteq 1..(m + 1)
    BY <1>2
  <2> QED
    BY <1>3, <2>1, <2>2, <2>3, <2>4
<1>5. /\ c \in Nat
      /\ \A i \in Own(k.events) : /\ Cardinality(Before(Own(k.events), i)) \in Nat
                                  /\ Cardinality(Before(Own(k.events), i)) < c
      /\ \A n \in 1..c : Only(At(Own(k.events), n)) \in At(Own(k.events), n)
  <2>1. Own(k.events) \in SUBSET Nat
    BY <1>2, <1>3
  <2> HIDE DEF Own
  <2> QED
    BY <1>3, <2>1, PlacesAreTaken
<1>6. \A n \in 1..c : Only(At(Own(k.events), n)) \in 1..m
  BY <1>3, <1>5
<1> HIDE DEF f, g, Own, At
<1>7. /\ f \in Seq(Event) /\ Len(f) = c
      /\ \A n \in 1..c : f[n] = k.events[Only(At(Own(k.events), n))]
  <2>1. \A n \in 1..c : k.events[Only(At(Own(k.events), n))] \in Event
    BY <1>2, <1>6
  <2>2. f \in [1..c -> Event]
    BY <1>1, <2>1
  <2>3. f \in Seq(Event) /\ Len(f) = c
    BY <1>5, <2>2, SeqOfLength
  <2> QED
    BY <1>1, <1>5, <2>2, <2>3
<1>8. CASE e.session # s
  <2>1. Own(l.events) = Own(k.events)
    BY <1>4, <1>8
  <2>2. g = [n \in 1..c |-> l.events[Only(At(Own(k.events), n))]]
    BY <1>1, <2>1
  <2>3. \A n \in 1..c : l.events[Only(At(Own(k.events), n))] = k.events[Only(At(Own(k.events), n))]
    BY <1>2, <1>6
  <2>4. g = f
    BY <1>1, <2>2, <2>3
  <2> QED
    BY <1>7, <1>8, <2>4 DEF f, g
<1>9. CASE e.session = s
  <2> DEFINE own == Own(k.events)
             own2 == Own(l.events)
  <2>1. own2 = own \cup {m + 1} /\ m + 1 \notin own
    BY <1>2, <1>3, <1>4, <1>9
  <2>2. Cardinality(own2) = c + 1
    BY <1>3, <2>1, FS_AddElement
  <2> HIDE DEF own, own2
  <2>3. \A i \in own : Before(own2, i) = Before(own, i)
    BY <1>2, <1>3, <2>1 DEF own
  <2>4. Before(own2, m + 1) = own
    BY <1>2, <1>3, <2>1 DEF own
  <2> HIDE DEF Before
  <2>5. ASSUME NEW n \in 1..c PROVE At(own2, n) = At(own, n)
    <3>1. \A i \in own : i \in At(own2, n) <=> i \in At(own, n)
      BY <2>1, <2>3 DEF At
    <3>2. m + 1 \notin At(own2, n)
      <4>1. Cardinality(Before(own2, m + 1)) = c
        BY <2>4 DEF own
      <4> QED
        BY <1>5, <4>1 DEF At
    <3>3. At(own2, n) \subseteq own \cup {m + 1} /\ At(own, n) \subseteq own
      BY <2>1 DEF At
    <3> QED
      BY <2>1, <3>1, <3>2, <3>3
  <2>6. At(own2, c + 1) = {m + 1}
    <3>0. (c + 1) - 1 = c
      BY <1>5
    <3>1. m + 1 \in At(own2, c + 1)
      BY <2>1, <2>4, <3>0 DEF At, own
    <3>2. ASSUME NEW i \in own PROVE i \notin At(own2, c + 1)
      <4>1. Cardinality(Before(own2, i)) < c /\ Cardinality(Before(own2, i)) \in Nat
        BY <1>5, <2>3 DEF own
      <4> QED
        BY <1>5, <3>0, <4>1 DEF At
    <3>3. At(own2, c + 1) \subseteq own \cup {m + 1}
      BY <2>1 DEF At
    <3> QED
      BY <3>1, <3>2, <3>3
  <2>7. Only({m + 1}) = m + 1
    BY DEF Only
  <2>8. g = [n \in 1..(c + 1) |-> l.events[Only(At(own2, n))]]
    BY <1>1, <2>2 DEF own2
  <2>9. ASSUME NEW n \in 1..c PROVE g[n] = f[n]
    <3>1. n \in 1..(c + 1)
      BY <1>5
    <3>2. g[n] = l.events[Only(At(own, n))]
      BY <2>8, <2>5, <3>1
    <3> QED
      BY <1>2, <1>7, <1>6, <3>2 DEF own
  <2>10. g[c + 1] = e
    <3>1. c + 1 \in 1..(c + 1)
      BY <1>5
    <3> QED
      BY <1>2, <2>8, <2>6, <2>7, <3>1
  <2>11. \A n \in 1..(c + 1) : g[n] \in Event
    <3>1. \A n \in 1..(c + 1) : n \in 1..c \/ n = c + 1
      BY <1>5
    <3>2. \A n \in 1..c : f[n] \in Event
      BY <1>7
    <3> QED
      BY <2>9, <2>10, <3>1, <3>2
  <2>12. g \in Seq(Event) /\ Len(g) = c + 1
    <3>1. g \in [1..(c + 1) -> Event]
      BY <2>8, <2>11
    <3>2. c + 1 \in Nat
      BY <1>5
    <3> QED
      BY <3>1, <3>2, SeqOfLength
  <2>13. g = Append(f, e)
    <3>1. /\ Append(f, e) \in Seq(Event) /\ Len(Append(f, e)) = c + 1
          /\ \A n \in 1..c : Append(f, e)[n] = f[n]
          /\ Append(f, e)[c + 1] = e
      BY <1>5, <1>7
    <3>2. \A n \in 1..Len(g) : g[n] = Append(f, e)[n]
      BY <1>5, <2>9, <2>10, <2>12, <3>1
    <3> QED
      BY <2>12, <3>1, <3>2, SeqEqual
  <2> QED
    BY <1>7, <1>9, <2>13 DEF f, g
<1> QED
  BY <1>8, <1>9

-----------------------------------------------------------------------------
(* Logs of one session: the one that the kernel filters, and kept ones.     *)

\* A log of events of one session in the order of their numbers, each recorded
\* by a request of D.
OwnLog(log, s, D) ==
  /\ log \in Seq(Event)
  /\ \A i \in DOMAIN log :
       /\ log[i].session = s
       /\ log[i].body.req \in D
       /\ \A j \in 1..(i - 1) : log[j].sequence < log[i].sequence

\* The live log starts with the kept one, or a reset came between them.
Kept(log, live) ==
  \/ /\ Len(log) <= Len(live)
     /\ \A i \in 1..Len(log) : live[i] = log[i]
  \/ \A i \in DOMAIN log, j \in DOMAIN live : log[i] # live[j]

\* A later event of its own keeps a log the own log of its session.
LEMMA OwnAppend ==
  ASSUME NEW log, NEW s, NEW D, OwnLog(log, s, D), NEW e \in Event,
         e.session = s, e.body.req \in D,
         \A i \in DOMAIN log : log[i].sequence < e.sequence
  PROVE  /\ OwnLog(Append(log, e), s, D)
         /\ \A i \in DOMAIN Append(log, e) :
              Append(log, e)[i] = e \/ \E j \in DOMAIN log : Append(log, e)[i] = log[j]
<1> DEFINE m == Len(log)
           longer == Append(log, e)
<1>1. /\ log \in Seq(Event) /\ m \in Nat /\ DOMAIN log = 1..m
      /\ longer \in Seq(Event) /\ DOMAIN longer = 1..(m + 1)
      /\ \A i \in 1..m : longer[i] = log[i]
      /\ longer[m + 1] = e
  BY DEF OwnLog
<1> HIDE DEF longer, m
<1>2. ASSUME NEW i \in 1..(m + 1)
      PROVE  /\ longer[i].session = s
             /\ longer[i].body.req \in D
             /\ \A j \in 1..(i - 1) : longer[j].sequence < longer[i].sequence
             /\ longer[i] = e \/ \E j \in DOMAIN log : longer[i] = log[j]
  <2>1. CASE i = m + 1
    <3>1. \A j \in 1..(i - 1) : j \in 1..m
      BY <1>1, <2>1
    <3> QED
      BY <1>1, <2>1, <3>1
  <2>2. CASE i # m + 1
    <3>1. i \in 1..m
      BY <1>1, <2>2
    <3>2. \A j \in 1..(i - 1) : j \in 1..m
      BY <1>1, <3>1
    <3> QED
      BY <1>1, <3>1, <3>2 DEF OwnLog
  <2> QED
    BY <2>1, <2>2
<1> QED
  BY <1>1, <1>2 DEF OwnLog, longer

\* More requests that are done leave an own log one.
LEMMA OwnMore ==
  ASSUME NEW log, NEW s, NEW D, OwnLog(log, s, D), NEW D2, D \subseteq D2
  PROVE  OwnLog(log, s, D2)
BY DEF OwnLog

\* The empty log is anybody's own.
LEMMA OwnEmpty ==
  ASSUME NEW s, NEW D
  PROVE  OwnLog(<<>>, s, D)
<1>1. DOMAIN <<>> = {} /\ <<>> \in Seq(Event)
  OBVIOUS
<1> QED
  BY <1>1 DEF OwnLog

\* A log that is captured now.
LEMMA KeptNow ==
  ASSUME NEW log \in Seq(Event)
  PROVE  Kept(log, log)
BY DEF Kept

\* A reset.
LEMMA KeptEmpty ==
  ASSUME NEW log
  PROVE  Kept(log, <<>>)
<1>1. DOMAIN <<>> = {}
  OBVIOUS
<1> QED
  BY <1>1 DEF Kept

\* One more event, of a request that has not recorded one before.
LEMMA KeptAppend ==
  ASSUME NEW log, NEW s, NEW D, OwnLog(log, s, D), NEW live \in Seq(Event),
         Kept(log, live), NEW e \in Event, e.body.req \notin D
  PROVE  Kept(log, Append(live, e))
<1> DEFINE m == Len(live)
           longer == Append(live, e)
<1>1. /\ m \in Nat /\ DOMAIN live = 1..m /\ Len(longer) = m + 1
      /\ DOMAIN longer = 1..(m + 1)
      /\ \A i \in 1..m : longer[i] = live[i]
      /\ longer[m + 1] = e
  OBVIOUS
<1>2. log \in Seq(Event) /\ Len(log) \in Nat /\ DOMAIN log = 1..Len(log)
  BY DEF OwnLog
<1> HIDE DEF longer
<1>3. CASE Len(log) <= m /\ \A i \in 1..Len(log) : live[i] = log[i]
  <2>1. Len(log) <= Len(longer) /\ \A i \in 1..Len(log) : longer[i] = log[i]
    BY <1>1, <1>2, <1>3
  <2> QED
    BY <2>1 DEF Kept, longer
<1>4. CASE \A i \in DOMAIN log, j \in DOMAIN live : log[i] # live[j]
  <2>1. ASSUME NEW i \in DOMAIN log, NEW j \in DOMAIN longer
        PROVE  log[i] # longer[j]
    <3>1. log[i] # e
      BY DEF OwnLog
    <3>2. j = m + 1 \/ j \in DOMAIN live
      BY <1>1
    <3> QED
      BY <1>1, <1>4, <3>1, <3>2
  <2> QED
    BY <2>1 DEF Kept, longer
<1> QED
  BY <1>3, <1>4 DEF Kept

-----------------------------------------------------------------------------
(* What is frozen. *)

Done == {r \in Req : pc[r] = "done"}

\* A record that is stored, about to be stored, or captured now.
Known(log, s) ==
  \/ /\ s \in SessionId /\ store.sessions[s].status = "ended"
     /\ log = store.sessions[s].frozen.events
  \/ \E r \in Req : /\ pc[r] = "end_store" /\ call[r].session = s
                     /\ log = call[r].frozen.events

\* The filtered log of every session is in order and of requests that are done,
\* and what was captured of it is kept.  A request records one event and is
\* done: that is why an event after a reset is none of those before it.
FrozenInv ==
  /\ \A s \in Nat : /\ OwnLog(QueryEvents(s), s, Done)
                    /\ \A i \in DOMAIN QueryEvents(s) :
                         QueryEvents(s)[i].sequence <= Len(runtime.kernel.events)
  /\ \A log, s : Known(log, s) => OwnLog(log, s, Done) /\ Kept(log, QueryEvents(s))

\* A step of a request does one of three things to the log of the kernel.
LogMoves ==
  \/ runtime'.kernel.events = runtime.kernel.events
  \/ runtime'.kernel.events = <<>>
  \/ \E e \in Event : /\ runtime'.kernel.events = Append(runtime.kernel.events, e)
                      /\ e.sequence = Len(runtime.kernel.events) + 1
                      /\ e.body.req \in Done' \ Done

\* Recording adds one event, tagged as the kernel is.
LEMMA RecordGrows ==
  ASSUME IInv, NEW r \in Req, RecordRequest(r)
  PROVE  /\ runtime'.kernel.activeSession = runtime.kernel.activeSession
         /\ \E e \in Event : /\ Grows(runtime.kernel, runtime'.kernel, e)
                             /\ e.sequence = Len(runtime.kernel.events) + 1
                             /\ e.session = runtime.kernel.activeSession
                             /\ e.body.req = r
<1> DEFINE k    == runtime.kernel
           body == [req |-> r, outcome |-> call[r].outcome]
           e    == [sequence    |-> k.nextSequence,
                    logicalTime |-> k.config.start + k.revision,
                    session     |-> k.activeSession,
                    body        |-> body]
<1>1. pc[r] = "record" /\ CallOK(call[r], "record", SessionId)
  BY DEF RecordRequest, IInv, Core, ServerOK
<1>2. k \in Kernel /\ runtime \in Runtime
  BY DEF IInv, Core, ServerOK, Runtime
<1>3. body \in Body /\ body.req = r
  BY <1>1 DEF CallOK, Body
<1>4. runtime' = [runtime EXCEPT !.kernel = RecordEvent(k, body)]
  BY DEF RecordRequest
<1> HIDE DEF body
<1>5. /\ runtime'.kernel = RecordEvent(k, body)
      /\ RecordEvent(k, body).activeSession = k.activeSession
  BY <1>2, <1>3, <1>4, RecordType, WithKernel
<1>6. /\ e \in Event /\ e.sequence = k.nextSequence
      /\ e.session = k.activeSession /\ e.body = body
  BY <1>2, <1>3, SMT DEF Kernel, Event
<1>7. RecordEvent(k, body).events = Append(k.events, e)
  <2>1. RecordEvent(k, body) =
          [[k EXCEPT !.events = Append(k.events, e)] EXCEPT !.nextSequence = k.nextSequence + 1]
    BY DEF RecordEvent
  <2> HIDE DEF e
  <2>2. Append(k.events, e) \in Seq(Event) /\ k.nextSequence + 1 \in Nat \ {0}
    BY <1>2, <1>6 DEF Kernel
  <2> DEFINE logged == [k EXCEPT !.events = Append(k.events, e)]
  <2>3. logged \in Kernel /\ logged.events = Append(k.events, e)
    BY <1>2, <2>2, LogType
  <2> HIDE DEF logged
  <2>4. RecordEvent(k, body) = [logged EXCEPT !.nextSequence = k.nextSequence + 1]
    BY <2>1 DEF logged
  <2> QED
    BY <2>2, <2>3, <2>4, NumberType
<1> HIDE DEF e
<1>8. e.sequence = Len(k.events) + 1
  BY <1>6 DEF IInv, Core, LogNumbered
<1>9. Grows(k, runtime'.kernel, e)
  BY <1>2, <1>5, <1>7 DEF Grows, Kernel
<1> QED
  BY <1>3, <1>5, <1>6, <1>8, <1>9

\* Recording is the third of the moves.
LEMMA RecordMovesLog ==
  ASSUME IInv, NEW r \in Req, RecordRequest(r)
  PROVE  LogMoves
<1>1. r \in Done' \ Done
  <2>1. pc \in [Req -> Label] /\ pc' = [pc EXCEPT ![r] = "done"] /\ pc[r] = "record"
    BY DEF IInv, Core, ServerOK, RecordRequest, Goto
  <2> QED
    BY <2>1 DEF Done
<1> QED
  BY <1>1, RecordGrows DEF LogMoves, Grows

\* Every step moves the log in one of the three ways.
LEMMA LogOnlyMoves ==
  ASSUME IInv, [Next]_vars
  PROVE  LogMoves
<1>1. /\ runtime \in Runtime /\ runtime.kernel \in Kernel
      /\ runtime.kernel.config \in [seed : Nat, start : Nat]
  BY DEF IInv, Core, ServerOK, Runtime, Kernel
<1>2. ASSUME runtime'.kernel.events = runtime.kernel.events \/ runtime'.kernel.events = <<>>
      PROVE  LogMoves
  BY <1>2 DEF LogMoves
<1>3. ASSUME NEW r \in Req, HandleRequest(r) PROVE LogMoves
  BY <1>1, <1>2, <1>3, WithService DEF HandleRequest
<1>4. ASSUME NEW r \in Req, ControlReset(r) PROVE LogMoves
  BY <1>1, <1>2, <1>4, ClearedType, ConfigsAssumption DEF ControlReset
<1>5. ASSUME NEW r \in Req, ControlSeed(r) PROVE LogMoves
  <2> DEFINE cleared == ClearedRuntime([seed |-> 0, start |-> 0])
  <2>1. PICK outcome \in {"ok", "error"} : runtime' \in SeedOutcomes(cleared, r)[outcome]
    BY <1>5 DEF ControlSeed
  <2>2. cleared \in Runtime /\ cleared.kernel.events = <<>>
    BY <1>1, ClearedType
  <2> HIDE DEF cleared
  <2>3. runtime'.kernel = cleared.kernel
    BY <2>1, <2>2, SeedType
  <2> QED
    BY <1>2, <2>2, <2>3
<1>6. ASSUME NEW r \in Req, CreateEndOld(r) PROVE LogMoves
  BY <1>1, <1>2, <1>6, ClearType, WithKernel DEF CreateEndOld
<1>7. ASSUME NEW r \in Req, CreateReset(r) PROVE LogMoves
  BY <1>1, <1>2, <1>7, ResetType DEF CreateReset
<1>8. ASSUME NEW r \in Req, CreateSeed(r) PROVE LogMoves
  BY <1>1, <1>2, <1>8, SeedType DEF CreateSeed
<1>9. ASSUME NEW r \in Req, CreateActivate(r) PROVE LogMoves
  <2>1. CallOK(call[r], "create_activate", SessionId)
    BY <1>9 DEF CreateActivate, IInv, Core, ServerOK
  <2>2. call[r].session \in Tag
    BY <2>1 DEF CallOK, HoldsSession, SessionId, Tag, IInv, Core, ServerOK, StoreOK
  <2> QED
    BY <1>1, <1>2, <1>9, <2>2, SetType, WithKernel DEF CreateActivate
<1>10. ASSUME NEW r \in Req, EndClear(r) PROVE LogMoves
  BY <1>1, <1>2, <1>10, ClearType, WithKernel DEF EndClear
<1>11. ASSUME NEW r \in Req, RecordRequest(r) PROVE LogMoves
  BY <1>11, RecordMovesLog
<1>12. ASSUME runtime' = runtime PROVE LogMoves
  BY <1>2, <1>12
<1>13. ASSUME NEW r \in Req, ControlRestore(r) PROVE LogMoves
  BY <1>2, <1>13, ControlRestoreRuntime
<1> QED
  BY <1>3, <1>4, <1>5, <1>6, <1>7, <1>8, <1>9, <1>10, <1>11, <1>12, <1>13
  DEF Next, Begin, Continue, vars, AllAnswered, ControlSnapshot, CreateCheck,
      CreateLockRuntime, CreateInsert, EndCheck, EndCapture, EndStore, Disconnect

\* A request that is done makes no step.
LEMMA DoneStays ==
  ASSUME IInv, [Next]_vars
  PROVE  Done \subseteq Done'
<1>1. pc \in [Req -> Label]
  BY DEF IInv, Core, ServerOK
<1>2. ASSUME NEW r \in Req, pc[r] # "done", NEW label, pc' = [pc EXCEPT ![r] = label]
      PROVE  Done \subseteq Done'
  BY <1>1, <1>2 DEF Done
<1>3. ASSUME NEW r \in Req, Begin(r) PROVE Done \subseteq Done'
  BY <1>2, <1>3 DEF Begin, HandleRequest, ControlReset, ControlSeed, ControlSnapshot, ControlRestore, CreateCheck,
     EndCheck, Arrive, Goto
<1>4. ASSUME NEW r \in Req, Continue(r) PROVE Done \subseteq Done'
  BY <1>2, <1>4 DEF Continue, RecordRequest, CreateLockRuntime, CreateEndOld,
     CreateReset, CreateSeed, CreateInsert, CreateActivate, EndCapture, EndStore,
     EndClear, Goto
<1>5. ASSUME NEW r \in Req, Disconnect(r) PROVE Done \subseteq Done'
  BY <1>2, <1>5 DEF Disconnect, InFlight, Goto
<1>6. ASSUME pc' = pc PROVE Done \subseteq Done'
  BY <1>6 DEF Done
<1> QED
  BY <1>3, <1>4, <1>5, <1>6 DEF Next, AllAnswered, vars

\* Three sections change the store.
LEMMA StoreMoves ==
  ASSUME [Next]_vars, store' # store
  PROVE  \E r \in Req : CreateEndOld(r) \/ CreateInsert(r) \/ EndStore(r)
BY DEF Next, Begin, Continue, vars, AllAnswered, HandleRequest, RecordRequest,
       ControlReset, ControlSeed, ControlSnapshot, ControlRestore, CreateCheck, CreateLockRuntime, CreateReset,
       CreateSeed, CreateActivate, EndCheck, EndCapture, EndClear, Disconnect

\* Only a capture brings a request to where it stores a record.
LEMMA CallMoves ==
  ASSUME IInv, [Next]_vars, NEW r \in Req, pc'[r] = "end_store"
  PROVE  EndCapture(r) \/ (pc[r] = "end_store" /\ call'[r] = call[r])
<1>1. pc \in [Req -> Label] /\ call = [q \in Req |-> call[q]]
  BY DEF IInv, Core, ServerOK
<1>2. ASSUME NEW q \in Req, NEW label, pc' = [pc EXCEPT ![q] = label], label # "end_store",
             \/ call' = call
             \/ \E c : call' = [call EXCEPT ![q] = c]
      PROVE  pc[r] = "end_store" /\ call'[r] = call[r]
  <2>1. q # r /\ pc[r] = "end_store"
    BY <1>1, <1>2
  <2>2. ASSUME NEW c, call' = [call EXCEPT ![q] = c] PROVE call'[r] = call[r]
    BY <1>1, <2>1, <2>2, Zenon
  <2> QED
    BY <1>2, <2>1, <2>2
<1>3. ASSUME NEW q \in Req, Begin(q) PROVE pc[r] = "end_store" /\ call'[r] = call[r]
  <2>1. PICK label : pc' = [pc EXCEPT ![q] = label] /\ label # "end_store"
    BY <1>3 DEF Begin, HandleRequest, ControlReset, ControlSeed, ControlSnapshot, ControlRestore, CreateCheck, EndCheck, Goto
  <2>2. \E c : call' = [call EXCEPT ![q] = c]
    BY <1>3 DEF Begin, HandleRequest, ControlReset, ControlSeed, ControlSnapshot, ControlRestore, CreateCheck, EndCheck
  <2> QED
    BY <1>2, <2>1, <2>2
<1>4. ASSUME NEW q \in Req, Continue(q), ~EndCapture(q)
      PROVE  pc[r] = "end_store" /\ call'[r] = call[r]
  <2>1. PICK label : pc' = [pc EXCEPT ![q] = label] /\ label # "end_store"
    BY <1>4 DEF Continue, RecordRequest, CreateLockRuntime, CreateEndOld, CreateReset,
       CreateSeed, CreateInsert, CreateActivate, EndStore, EndClear, Goto
  <2>2. call' = call \/ \E c : call' = [call EXCEPT ![q] = c]
    BY <1>4 DEF Continue, RecordRequest, CreateLockRuntime, CreateEndOld, CreateReset,
       CreateSeed, CreateInsert, CreateActivate, EndStore, EndClear
  <2> QED
    BY <1>2, <2>1, <2>2
<1>5. ASSUME NEW q \in Req, EndCapture(q), q # r PROVE pc[r] = "end_store" /\ call'[r] = call[r]
  BY <1>1, <1>5, Zenon DEF EndCapture, Goto
<1>6. ASSUME NEW q \in Req, Disconnect(q) PROVE pc[r] = "end_store" /\ call'[r] = call[r]
  BY <1>2, <1>6 DEF Disconnect, Goto
<1> QED
  BY <1>3, <1>4, <1>5, <1>6 DEF Next, AllAnswered, vars

\* A record that is known after a step was known before it, or the step
\* captured it from the log of then, which it leaves alone.
LEMMA KnownFrom ==
  ASSUME IInv, [Next]_vars, NEW log, NEW s, Known(log, s)'
  PROVE  /\ s \in SessionId'
         /\ \/ Known(log, s)
            \/ log = QueryEvents(s) /\ runtime'.kernel.events = runtime.kernel.events
<1> DEFINE From == \/ Known(log, s)
                   \/ /\ log = QueryEvents(s)
                      /\ runtime'.kernel.events = runtime.kernel.events
<1>1. s \in SessionId'
  <2>1. IInv'
    BY NextInv
  <2>2. ASSUME NEW r \in Req, pc'[r] = "end_store" PROVE call'[r].session \in SessionId'
    <3>1. CallOK(call'[r], pc'[r], SessionId')
      BY <2>1 DEF IInv, Core, ServerOK
    <3> QED
      BY <2>2, <3>1 DEF CallOK, HoldsSession
  <2> QED
    BY <2>2 DEF Known
<1>2. /\ StoreOK(store) /\ store.next \in Nat \ {0}
      /\ pc \in [Req -> Label] /\ call = [r \in Req |-> call[r]]
      /\ runtime \in Runtime /\ runtime.kernel \in Kernel
  BY DEF IInv, Core, ServerOK, StoreOK, Runtime
<1>3. ASSUME s \in SessionId', store'.sessions[s].status = "ended",
             log = store'.sessions[s].frozen.events
      PROVE  From
  <2>1. CASE store' = store
    BY <1>3, <2>1 DEF Known, SessionId
  <2>2. ASSUME NEW r \in Req, CreateInsert(r) PROVE From
    <3>1. store' = CreateSession(store) /\ store'.next = store.next + 1
      BY <1>2, <2>2, CreateType DEF CreateInsert
    <3>2. s \in 1..store.next
      BY <1>2, <1>3, <3>1 DEF SessionId
    <3>3. store'.sessions[s] = IF s = store.next THEN NewSession ELSE store.sessions[s]
      BY <3>1, <3>2 DEF CreateSession
    <3>4. s # store.next
      BY <1>3, <3>3 DEF NewSession
    <3>5. s \in SessionId
      BY <1>2, <3>2, <3>4 DEF SessionId
    <3> QED
      BY <1>3, <3>3, <3>4, <3>5 DEF Known
  <2>3. ASSUME NEW t \in SessionId, NEW f, FrozenOK(f), store' = EndSessionWith(store, t, f),
               Known(f.events, t)
                 \/ (f.events = QueryEvents(t) /\ runtime'.kernel.events = runtime.kernel.events)
        PROVE  From
    <3>1. /\ store'.next = store.next
          /\ \A u \in SessionId :
               store'.sessions[u] = IF u = t
                                    THEN [status |-> "ended", frozen |-> f]
                                    ELSE store.sessions[u]
      BY <1>2, <2>3, EndType
    <3>2. s \in SessionId
      BY <1>3, <3>1 DEF SessionId
    <3>3. CASE s = t
      BY <1>3, <2>3, <3>1, <3>2, <3>3
    <3>4. CASE s # t
      BY <1>3, <3>1, <3>2, <3>4 DEF Known
    <3> QED
      BY <3>3, <3>4
  <2>4. ASSUME NEW r \in Req, EndStore(r) PROVE From
    <3>1. CallOK(call[r], "end_store", SessionId) /\ pc[r] = "end_store"
      BY <2>4 DEF EndStore, IInv, Core, ServerOK
    <3>2. call[r].session \in SessionId /\ FrozenOK(call[r].frozen)
      BY <3>1 DEF CallOK, HoldsSession
    <3>3. Known(call[r].frozen.events, call[r].session)
      BY <3>1 DEF Known
    <3> QED
      BY <2>3, <2>4, <3>2, <3>3 DEF EndStore
  <2>5. ASSUME NEW r \in Req, CreateEndOld(r), store' # store PROVE From
    <3> DEFINE old == call[r].session
               f   == FrozenRecord(runtime, old)
    <3>1. CallOK(call[r], "create_end_old", SessionId)
      BY <2>5 DEF CreateEndOld, IInv, Core, ServerOK
    <3>2. old \in SessionId /\ FrozenOK(f)
      BY <1>2, <3>1, FrozenType DEF CallOK, HoldsSession
    <3>3. f.events = QueryEvents(old)
      BY DEF FrozenRecord, QueryEvents
    <3>4. runtime'.kernel.events = runtime.kernel.events
      BY <1>2, <2>5, ClearType, WithKernel DEF CreateEndOld
    <3>5. store' = EndSessionWith(store, old, f)
      BY <2>5 DEF CreateEndOld
    <3> HIDE DEF f, old
    <3> QED
      BY <2>3, <3>2, <3>3, <3>4, <3>5
  <2> HIDE DEF From
  <2> QED
    BY <2>1, <2>2, <2>4, <2>5, StoreMoves
<1>4. ASSUME NEW r \in Req, pc'[r] = "end_store", call'[r].session = s,
             log = call'[r].frozen.events
      PROVE  From
  <2>1. CASE pc[r] = "end_store" /\ call'[r] = call[r]
    BY <1>4, <2>1 DEF Known
  <2>2. CASE EndCapture(r)
    <3>1. /\ call' = [call EXCEPT ![r] = [call[r] EXCEPT !.frozen =
                                           FrozenRecord(runtime, call[r].session)]]
          /\ runtime' = runtime /\ CallOK(call[r], "end_capture", SessionId)
      BY <2>2 DEF EndCapture, IInv, Core, ServerOK
    <3>2. call'[r] = [op |-> call[r].op, session |-> call[r].session,
                      outcome |-> call[r].outcome,
                      frozen |-> FrozenRecord(runtime, call[r].session)]
      <4>1. call'[r] = [call[r] EXCEPT !.frozen = FrozenRecord(runtime, call[r].session)]
        BY <1>2, <3>1, Zenon
      <4> QED
        BY <3>1, <4>1, CallUpdate, Zenon DEF CallOK
    <3>3. call'[r].session = call[r].session
          /\ call'[r].frozen.events = EventsOfSession(runtime.kernel, call[r].session)
      BY <3>2 DEF FrozenRecord
    <3> QED
      BY <1>4, <3>1, <3>3 DEF QueryEvents
  <2> HIDE DEF From
  <2> QED
    BY <1>4, <2>1, <2>2, CallMoves
<1> QED
  BY <1>1, <1>3, <1>4 DEF Known

\* What a step does to the filtered log of a session, and to what is kept of it.
LEMMA LiveStep ==
  ASSUME IInv, FrozenInv, LogMoves, Done \subseteq Done', NEW s \in Nat
  PROVE  /\ OwnLog(QueryEvents(s), s, Done)'
         /\ \A i \in DOMAIN QueryEvents(s)' :
              QueryEvents(s)'[i].sequence <= Len(runtime'.kernel.events)
         /\ \A log : OwnLog(log, s, Done) /\ Kept(log, QueryEvents(s))
                      => Kept(log, QueryEvents(s)')
<1> DEFINE live == QueryEvents(s)
           log0 == runtime.kernel.events
<1>1. /\ OwnLog(live, s, Done) /\ OwnLog(live, s, Done')
      /\ live \in Seq(Event)
      /\ \A i \in DOMAIN live : live[i].sequence <= Len(log0)
  BY OwnMore DEF FrozenInv, OwnLog
<1>2. log0 \in Seq(Event) /\ Len(log0) \in Nat
  <2>1. log0 \in Seq(Event)
    BY DEF IInv, Core, ServerOK, Runtime, Kernel
  <2> QED
    BY <2>1
<1>3. CASE runtime'.kernel.events = log0
  <2>1. QueryEvents(s)' = live
    BY <1>3, FilterSame DEF QueryEvents
  <2> QED
    BY <1>1, <1>3, <2>1
<1>4. CASE runtime'.kernel.events = <<>>
  <2> DEFINE now == QueryEvents(s)'
  <2>1. now = <<>>
    BY <1>4, FilterEmpty DEF QueryEvents
  <2> HIDE DEF now
  <2>2. DOMAIN now = {}
    BY <2>1
  <2>3. OwnLog(now, s, Done')
    BY <2>1, OwnEmpty
  <2>4. \A log : Kept(log, now)
    BY <2>1, KeptEmpty
  <2> QED
    BY <2>2, <2>3, <2>4 DEF now
<1>5. ASSUME NEW e \in Event, runtime'.kernel.events = Append(log0, e),
             e.sequence = Len(log0) + 1, e.body.req \in Done' \ Done
      PROVE  /\ OwnLog(QueryEvents(s), s, Done)'
             /\ \A i \in DOMAIN QueryEvents(s)' :
                  QueryEvents(s)'[i].sequence <= Len(runtime'.kernel.events)
             /\ \A log : OwnLog(log, s, Done) /\ Kept(log, QueryEvents(s))
                          => Kept(log, QueryEvents(s)')
  <2>1. QueryEvents(s)' = IF e.session = s THEN Append(live, e) ELSE live
    <3> DEFINE k == runtime.kernel
               l == runtime'.kernel
    <3>1. Grows(k, l, e)
      BY <1>2, <1>5 DEF Grows
    <3> HIDE DEF k, l
    <3>2. /\ e.session = s => EventsOfSession(l, s) = Append(EventsOfSession(k, s), e)
          /\ e.session # s => EventsOfSession(l, s) = EventsOfSession(k, s)
      BY <3>1, FilterAppend
    <3> QED
      BY <3>2 DEF QueryEvents, k, l
  <2>2. Len(runtime'.kernel.events) = Len(log0) + 1
    BY <1>2, <1>5
  <2>3. \A i \in DOMAIN live : live[i].sequence \in Nat /\ live[i].sequence < e.sequence
    <3>1. \A i \in DOMAIN live : live[i] \in Event
      BY <1>1
    <3>2. \A i \in DOMAIN live : live[i].sequence \in Nat
      BY <3>1 DEF Event
    <3> QED
      BY <1>1, <1>2, <1>5, <3>2
  <2>4. CASE e.session # s
    <3>1. \A i \in DOMAIN live : live[i].sequence <= Len(log0) + 1
      BY <1>1, <1>2, <2>3
    <3> QED
      BY <1>1, <2>1, <2>2, <2>4, <3>1
  <2>5. CASE e.session = s
    <3>1. /\ OwnLog(Append(live, e), s, Done')
          /\ \A i \in DOMAIN Append(live, e) :
               Append(live, e)[i] = e
                 \/ \E j \in DOMAIN live : Append(live, e)[i] = live[j]
      BY <1>1, <1>5, <2>3, <2>5, OwnAppend
    <3>2. \A i \in DOMAIN Append(live, e) : Append(live, e)[i].sequence <= Len(log0) + 1
      <4>1. e.sequence <= Len(log0) + 1
        BY <1>2, <1>5
      <4>2. \A j \in DOMAIN live : live[j].sequence <= Len(log0) + 1
        BY <1>1, <1>2, <2>3
      <4> QED
        BY <3>1, <4>1, <4>2
    <3>3. \A log : OwnLog(log, s, Done) /\ Kept(log, live) => Kept(log, Append(live, e))
      BY <1>1, <1>5, KeptAppend
    <3> QED
      BY <2>1, <2>2, <2>5, <3>1, <3>2, <3>3
  <2> QED
    BY <2>4, <2>5
<1> QED
  BY <1>3, <1>4, <1>5 DEF LogMoves

LEMMA FrozenInit == Init => FrozenInv
<1> SUFFICES ASSUME Init PROVE FrozenInv
  OBVIOUS
<1>1. runtime.kernel.events = <<>>
  BY NewRuntimeType, ConfigsAssumption DEF Init
<1>2. \A s : QueryEvents(s) = <<>>
  BY <1>1, FilterEmpty DEF QueryEvents
<1>3. DOMAIN <<>> = {}
  OBVIOUS
<1>4. \A log, s : ~Known(log, s)
  BY DEF Known, Init, SessionId
<1> QED
  BY <1>2, <1>3, <1>4, OwnEmpty DEF FrozenInv

LEMMA FrozenNext == IInv /\ FrozenInv /\ [Next]_vars => FrozenInv'
<1> SUFFICES ASSUME IInv, FrozenInv, [Next]_vars PROVE FrozenInv'
  OBVIOUS
<1>1. LogMoves /\ Done \subseteq Done'
  BY LogOnlyMoves, DoneStays
<1>2. \A s \in Nat : /\ OwnLog(QueryEvents(s), s, Done)'
                    /\ \A i \in DOMAIN QueryEvents(s)' :
                         QueryEvents(s)'[i].sequence <= Len(runtime'.kernel.events)
  BY <1>1, LiveStep
<1>3. ASSUME NEW log, NEW s, Known(log, s)'
      PROVE  OwnLog(log, s, Done') /\ Kept(log, QueryEvents(s)')
  <2>1. s \in Nat
    <3>1. s \in SessionId' /\ IInv'
      BY <1>3, KnownFrom, NextInv
    <3> QED
      BY <3>1 DEF SessionId, IInv, Core, ServerOK, StoreOK
  <2>2. CASE Known(log, s)
    <3>1. OwnLog(log, s, Done) /\ Kept(log, QueryEvents(s))
      BY <2>2 DEF FrozenInv
    <3> QED
      BY <1>1, <2>1, <3>1, LiveStep, OwnMore
  <2>3. CASE log = QueryEvents(s) /\ runtime'.kernel.events = runtime.kernel.events
    <3>1. OwnLog(log, s, Done) /\ log \in Seq(Event)
      BY <2>1, <2>3 DEF FrozenInv, OwnLog
    <3>2. QueryEvents(s)' = log
      BY <2>3, FilterSame DEF QueryEvents
    <3> QED
      BY <1>1, <3>1, <3>2, KeptNow, OwnMore
  <2> QED
    BY <1>3, <2>2, <2>3, KnownFrom
<1> QED
  BY <1>2, <1>3 DEF FrozenInv

LEMMA FrozenIsOwn ==
  ASSUME IInv, FrozenInv
  PROVE  FrozenOwnEvents
<1> SUFFICES ASSUME NEW s \in SessionId, store.sessions[s].status = "ended"
             PROVE  LET log == SessionEvents(s)
                        live == QueryEvents(s)
                        Events(sequence) == {sequence[i] : i \in DOMAIN sequence}
                    IN /\ \A i \in DOMAIN log :
                            /\ log[i].session = s
                            /\ \A j \in 1..(i - 1) : log[j].sequence < log[i].sequence
                       /\ \/ Len(log) <= Len(live) /\ SubSeq(live, 1, Len(log)) = log
                          \/ Events(log) \cap Events(live) = {}
  BY DEF FrozenOwnEvents
<1> DEFINE log == SessionEvents(s)
           live == QueryEvents(s)
<1>1. OwnLog(log, s, Done) /\ Kept(log, live)
  BY DEF SessionEvents, Known, FrozenInv
<1>2. live \in Seq(Event) /\ log \in Seq(Event)
  BY <1>1 DEF FrozenInv, OwnLog, IInv, Core, ServerOK, StoreOK, SessionId
<1> HIDE DEF log, live
<1>3. ASSUME Len(log) <= Len(live), \A i \in 1..Len(log) : live[i] = log[i]
      PROVE  SubSeq(live, 1, Len(log)) = log
  <2> DEFINE sub == SubSeq(live, 1, Len(log))
  <2>1. Len(log) \in Nat /\ Len(live) \in Nat
    BY <1>2
  <2>2. /\ sub \in Seq(Event) /\ Len(sub) = Len(log)
        /\ \A i \in 1..Len(log) : sub[i] = live[i]
    BY <1>2, <1>3, <2>1
  <2> HIDE DEF sub
  <2>3. sub = log
    BY <1>2, <1>3, <2>2, SeqEqual
  <2> QED
    BY <2>3 DEF sub
<1>4. \A i \in DOMAIN log : /\ log[i].session = s
                            /\ \A j \in 1..(i - 1) : log[j].sequence < log[i].sequence
  BY <1>1 DEF OwnLog
<1>5. \/ Len(log) <= Len(live) /\ SubSeq(live, 1, Len(log)) = log
      \/ {log[i] : i \in DOMAIN log} \cap {live[i] : i \in DOMAIN live} = {}
  BY <1>1, <1>3 DEF Kept
<1> QED
  BY <1>4, <1>5 DEF log, live

\* Whatever overtakes the end of a session, its frozen log is of its own
\* requests only, in order, and leaves none out that was recorded before it.
THEOREM FrozenEventsAreOwn == Spec => []FrozenOwnEvents
<1>1. Spec => []FrozenInv
  BY Invariant, FrozenInit, FrozenNext, PTL DEF Spec
<1> QED
  BY <1>1, Invariant, FrozenIsOwn, PTL

-----------------------------------------------------------------------------
(* One client at a time. *)

\* With one client at most one request is in progress, so what each request
\* knows when it enters its next section still holds.
Turn(c, label) ==
  /\ label \in {"create_reset", "create_seed", "create_insert"} => ActiveSessions = {}
  /\ label \in {"create_lock_runtime", "create_end_old", "create_activate",
                "end_capture", "end_store"} => c.session \in ActiveSessions
  /\ label \in {"create_seed", "create_insert", "create_activate"} =>
       runtime.kernel.events = <<>>
  /\ label = "end_store" => c.frozen.events = QueryEvents(c.session)
  /\ label = "end_clear" => c.session \notin ActiveSessions

\* A session that is active but not tagged was cut off, or has just been inserted.
OneActive ==
  /\ \A s, t \in ActiveSessions : s = t
  /\ \A s \in ActiveSessions :
       runtime.kernel.activeSession = s \/ QueryEvents(s) = <<>>

Alone == \A q, r \in InFlight : q = r

TurnsInv == Alone /\ OneActive /\ \A r \in Req : Turn(call[r], pc[r])

\* Request r makes a step and no other is in progress.
Moves(r) ==
  /\ Elsewhere(r)
  /\ \A q \in Req \ {r} : pc[q] \in {"idle", "done", "gone"}
  /\ pc \in [Req -> Label] /\ pc' \in [Req -> Label]

\* A step of a request leaves the labels and fields of the others alone.
LEMMA StepsElsewhere ==
  ASSUME IInv, NEW r \in Req, Begin(r) \/ Continue(r) \/ Disconnect(r)
  PROVE  Elsewhere(r)
<1>1. pc \in [Req -> Label] /\ call = [q \in Req |-> call[q]]
  BY DEF IInv, Core, ServerOK
<1>2. ASSUME NEW label, pc' = [pc EXCEPT ![r] = label],
             call' = call \/ \E c : call' = [call EXCEPT ![r] = c]
      PROVE  Elsewhere(r)
  <2>1. \A q \in Req \ {r} : pc'[q] = pc[q]
    BY <1>1, <1>2
  <2>2. ASSUME NEW c, call' = [call EXCEPT ![r] = c]
        PROVE  \A q \in Req \ {r} : call'[q] = call[q]
    BY <1>1, <2>2, Zenon
  <2> QED
    BY <1>2, <2>1, <2>2 DEF Elsewhere
<1>3. \E label : pc' = [pc EXCEPT ![r] = label]
  BY DEF Begin, Continue, HandleRequest, ControlReset, ControlSeed, ControlSnapshot, ControlRestore, CreateCheck, EndCheck,
     RecordRequest, CreateLockRuntime, CreateEndOld, CreateReset, CreateSeed, CreateInsert,
     CreateActivate, EndCapture, EndStore, EndClear, Disconnect, Goto
<1>4. call' = call \/ \E c : call' = [call EXCEPT ![r] = c]
  BY DEF Begin, Continue, HandleRequest, ControlReset, ControlSeed, ControlSnapshot, ControlRestore, CreateCheck, EndCheck,
     RecordRequest, CreateLockRuntime, CreateEndOld, CreateReset, CreateSeed, CreateInsert,
     CreateActivate, EndCapture, EndStore, EndClear, Disconnect
<1> QED
  BY <1>2, <1>3, <1>4

\* With one request at a time, the one that steps is the only one in progress.
LEMMA StepsMove ==
  ASSUME MaxInFlight = 1, IInv, Alone, [Next]_vars, NEW r \in Req,
         Begin(r) \/ Continue(r) \/ Disconnect(r)
  PROVE  Moves(r) /\ Alone'
<1>1. pc \in [Req -> Label] /\ pc' \in [Req -> Label]
  BY NextInv DEF IInv, Core, ServerOK
<1>2. Elsewhere(r)
  BY StepsElsewhere
<1>3. InFlight \subseteq {r}
  <2>1. CASE r \in InFlight
    BY <2>1 DEF Alone
  <2>2. CASE Begin(r)
    <3>1. Cardinality(InFlight) < 1
      BY <2>2 DEF Begin, HandleRequest, ControlReset, ControlSeed, ControlSnapshot, ControlRestore, CreateCheck, EndCheck, Arrive
    <3>2. ASSUME NEW q \in InFlight PROVE FALSE
      <4>1. InFlight = {q}
        BY DEF Alone
      <4>2. Cardinality({q}) = 1
        BY FS_Singleton
      <4> QED
        BY <3>1, <4>1, <4>2
    <3> QED
      BY <3>2
  <2>3. Continue(r) => r \in InFlight
    BY DEF Continue, RecordRequest, CreateLockRuntime, CreateEndOld, CreateReset, CreateSeed,
       CreateInsert, CreateActivate, EndCapture, EndStore, EndClear, InFlight
  <2> QED
    BY <2>1, <2>2, <2>3 DEF Disconnect
<1>4. \A q \in Req \ {r} : pc[q] \in {"idle", "done", "gone"}
  BY <1>3 DEF InFlight
<1>5. Alone'
  BY <1>2, <1>4 DEF Alone, InFlight, Elsewhere
<1> QED
  BY <1>1, <1>2, <1>4, <1>5 DEF Moves

\* What is left to show of a step is the turn of its own request.
LEMMA TurnsKept ==
  ASSUME NEW r \in Req, Moves(r), Alone', OneActive', Turn(call[r], pc[r])'
  PROVE  TurnsInv'
<1>1. ASSUME NEW q \in Req \ {r} PROVE Turn(call[q], pc[q])'
  BY DEF Moves, Elsewhere, Turn
<1> QED
  BY <1>1 DEF TurnsInv

SameKernel ==
  /\ runtime'.kernel.events = runtime.kernel.events
  /\ runtime'.kernel.activeSession = runtime.kernel.activeSession

\* What each action does to the log and the tag of the kernel.
LEMMA KernelSteps ==
  ASSUME IInv, NEW r \in Req
  PROVE  /\ HandleRequest(r) \/ CreateSeed(r) => SameKernel
         /\ ControlReset(r) \/ ControlSeed(r) =>
              /\ runtime'.kernel.events = <<>>
              /\ runtime'.kernel.activeSession = NoSession
         /\ CreateEndOld(r) =>
              /\ runtime'.kernel.events = runtime.kernel.events
              /\ runtime'.kernel.activeSession = NoSession
         /\ CreateReset(r) =>
              /\ runtime'.kernel.events = <<>>
              /\ runtime'.kernel.activeSession = runtime.kernel.activeSession
         /\ CreateActivate(r) =>
              /\ runtime'.kernel.events = runtime.kernel.events
              /\ runtime'.kernel.activeSession = call[r].session
         /\ EndClear(r) =>
              /\ runtime'.kernel.events = runtime.kernel.events
              /\ runtime'.kernel.activeSession =
                   IF runtime.kernel.activeSession = call[r].session THEN NoSession
                   ELSE runtime.kernel.activeSession
<1>1. /\ runtime \in Runtime /\ runtime.kernel \in Kernel
      /\ runtime.kernel.config \in [seed : Nat, start : Nat]
  BY DEF IInv, Core, ServerOK, Runtime, Kernel
<1>2. HandleRequest(r) => SameKernel
  BY <1>1, WithService DEF HandleRequest, SameKernel
<1>3. CreateSeed(r) => SameKernel
  BY <1>1, SeedType DEF CreateSeed, SameKernel
<1>4. ControlReset(r) => /\ runtime'.kernel.events = <<>>
                         /\ runtime'.kernel.activeSession = NoSession
  BY <1>1, ClearedType, ConfigsAssumption DEF ControlReset
<1>5. ASSUME ControlSeed(r)
      PROVE  /\ runtime'.kernel.events = <<>>
             /\ runtime'.kernel.activeSession = NoSession
  <2> DEFINE cleared == ClearedRuntime([seed |-> 0, start |-> 0])
  <2>1. PICK outcome \in {"ok", "error"} : runtime' \in SeedOutcomes(cleared, r)[outcome]
    BY <1>5 DEF ControlSeed
  <2>2. /\ cleared \in Runtime /\ cleared.kernel.events = <<>>
        /\ cleared.kernel.activeSession = NoSession
    BY <1>1, ClearedType
  <2> HIDE DEF cleared
  <2>3. runtime'.kernel = cleared.kernel
    BY <2>1, <2>2, SeedType
  <2> QED
    BY <2>2, <2>3
<1>6. CreateEndOld(r) => /\ runtime'.kernel.events = runtime.kernel.events
                         /\ runtime'.kernel.activeSession = NoSession
  BY <1>1, ClearType, WithKernel DEF CreateEndOld
<1>7. CreateReset(r) => /\ runtime'.kernel.events = <<>>
                        /\ runtime'.kernel.activeSession = runtime.kernel.activeSession
  BY <1>1, ResetType DEF CreateReset
<1>8. ASSUME CreateActivate(r)
      PROVE  /\ runtime'.kernel.events = runtime.kernel.events
             /\ runtime'.kernel.activeSession = call[r].session
  <2>1. CallOK(call[r], "create_activate", SessionId)
    BY <1>8 DEF CreateActivate, IInv, Core, ServerOK
  <2>2. call[r].session \in Tag
    BY <2>1 DEF CallOK, HoldsSession, SessionId, Tag, IInv, Core, ServerOK, StoreOK
  <2> QED
    BY <1>1, <1>8, <2>2, SetType, WithKernel DEF CreateActivate
<1>9. EndClear(r) => /\ runtime'.kernel.events = runtime.kernel.events
                     /\ runtime'.kernel.activeSession =
                          IF runtime.kernel.activeSession = call[r].session THEN NoSession
                          ELSE runtime.kernel.activeSession
  BY <1>1, ClearType, WithKernel DEF EndClear
<1> QED
  BY <1>2, <1>3, <1>4, <1>5, <1>6, <1>7, <1>8, <1>9

\* A session is active or ended, and no session is NoSession.
LEMMA ActiveIsNotEnded ==
  ASSUME IInv
  PROVE  /\ SessionId \subseteq Nat /\ store.next \in Nat \ {0}
         /\ \A s \in SessionId : s \in ActiveSessions <=> store.sessions[s].status # "ended"
         /\ \A s \in SessionId : s # NoSession
<1>1. StoreOK(store) /\ store.next \in Nat \ {0}
  BY DEF IInv, Core, ServerOK, StoreOK
<1>2. SessionId \subseteq Nat
  BY <1>1 DEF SessionId
<1>3. \A s \in SessionId : SessionOK(store.sessions[s])
  BY <1>1 DEF StoreOK, SessionId
<1>4. \A s \in SessionId : s \in ActiveSessions <=> store.sessions[s].status # "ended"
  BY <1>3 DEF SessionOK, ActiveSessions
<1> QED
  BY <1>1, <1>2, <1>4, NoSessionAssumption

\* What create-session inserts is a session more, active and numbered anew.
LEMMA InsertedSession ==
  ASSUME IInv, NEW r \in Req, CreateInsert(r)
  PROVE  /\ store.next \in Nat \ {0} /\ store.next \notin SessionId
         /\ SessionId' = SessionId \cup {store.next}
         /\ ActiveSessions' = ActiveSessions \cup {store.next}
         /\ \A s \in SessionId : store'.sessions[s] = store.sessions[s]
         /\ call'[r].session = store.next
<1>1. StoreOK(store) /\ store.next \in Nat \ {0} /\ store' = CreateSession(store)
  BY DEF IInv, Core, ServerOK, StoreOK, CreateInsert
<1>2. /\ store'.next = store.next + 1
      /\ \A s \in 1..(store.next - 1) : store'.sessions[s] = store.sessions[s]
  BY <1>1, CreateType
<1>3. store'.sessions[store.next] = NewSession
  BY <1>1 DEF CreateSession
<1>4. SessionId' = SessionId \cup {store.next} /\ store.next \notin SessionId
  BY <1>1, <1>2 DEF SessionId
<1>5. ActiveSessions' = ActiveSessions \cup {store.next}
  BY <1>2, <1>3, <1>4 DEF ActiveSessions, NewSession, SessionId
<1>6. call'[r].session = store.next
  <2>1. CallOK(call[r], "create_insert", SessionId) /\ call = [q \in Req |-> call[q]]
    BY DEF CreateInsert, IInv, Core, ServerOK
  <2>2. call' = [call EXCEPT ![r] = [call[r] EXCEPT !.session = store.next]]
    BY DEF CreateInsert
  <2>3. call'[r] = [call[r] EXCEPT !.session = store.next]
    BY <2>1, <2>2, Zenon
  <2>4. call'[r] = [op |-> call[r].op, session |-> store.next,
                    outcome |-> call[r].outcome, frozen |-> call[r].frozen]
    BY <2>1, <2>3, CallUpdate, Zenon DEF CallOK
  <2> QED
    BY <2>4
<1> QED
  BY <1>1, <1>2, <1>4, <1>5, <1>6 DEF SessionId

\* Ending a session takes it from the active ones and changes no other.
LEMMA EndedSession ==
  ASSUME IInv, NEW s \in SessionId, NEW f, FrozenOK(f), store' = EndSessionWith(store, s, f)
  PROVE  /\ SessionId' = SessionId
         /\ ActiveSessions' = ActiveSessions \ {s}
         /\ store'.sessions[s] = [status |-> "ended", frozen |-> f]
         /\ \A t \in SessionId \ {s} : store'.sessions[t] = store.sessions[t]
<1>1. /\ store'.next = store.next
      /\ \A t \in SessionId : store'.sessions[t] = IF t = s
                                                   THEN [status |-> "ended", frozen |-> f]
                                                   ELSE store.sessions[t]
  BY EndType DEF IInv, Core, ServerOK
<1>2. SessionId' = SessionId
  BY <1>1 DEF SessionId
<1>3. ActiveSessions' = ActiveSessions \ {s}
  BY <1>1, <1>2 DEF ActiveSessions
<1> QED
  BY <1>1, <1>2, <1>3

\* The log of a session depends on the log of the kernel alone.
LEMMA LiveKept ==
  ASSUME runtime'.kernel.events = runtime.kernel.events, NEW s
  PROVE  QueryEvents(s)' = QueryEvents(s)
BY FilterSame DEF QueryEvents

\* After a reset no session has an event.
LEMMA LiveCleared ==
  ASSUME runtime'.kernel.events = <<>>, NEW s
  PROVE  QueryEvents(s)' = <<>>
BY FilterEmpty DEF QueryEvents

\* The event e goes to the log of the session that is tagged, and to no other.
LogsTagged(e) ==
  \A s : /\ runtime.kernel.activeSession = s =>
              QueryEvents(s)' = Append(QueryEvents(s), e)
         /\ runtime.kernel.activeSession # s =>
              QueryEvents(s)' = QueryEvents(s)

\* A recorded event goes to the tagged session.
LEMMA LiveRecorded ==
  ASSUME IInv, NEW r \in Req, RecordRequest(r)
  PROVE  \E e \in Event : e.body.req = r /\ LogsTagged(e)
<1>1. PICK e \in Event : /\ Grows(runtime.kernel, runtime'.kernel, e)
                        /\ e.session = runtime.kernel.activeSession
                        /\ e.body.req = r
  BY RecordGrows
<1>2. ASSUME NEW s
      PROVE  /\ e.session = s => QueryEvents(s)' = Append(QueryEvents(s), e)
             /\ e.session # s => QueryEvents(s)' = QueryEvents(s)
  BY <1>1, FilterAppend DEF QueryEvents
<1>3. LogsTagged(e)
  BY <1>1, <1>2 DEF LogsTagged
<1> QED
  BY <1>1, <1>3

\* A step that leaves the store and the kernel alone.
LEMMA OneActiveKept ==
  ASSUME OneActive, store' = store, SameKernel
  PROVE  OneActive' /\ ActiveSessions' = ActiveSessions
<1>1. ActiveSessions' = ActiveSessions
  BY DEF ActiveSessions, SessionId
<1>2. \A s : QueryEvents(s)' = QueryEvents(s)
  BY LiveKept DEF SameKernel
<1> QED
  BY <1>1, <1>2 DEF OneActive, SameKernel

\* The first section of a request keeps TurnsInv ...
LEMMA BeginTurns ==
  ASSUME IInv, TurnsInv, NEW r \in Req, Begin(r), Moves(r), Alone'
  PROVE  TurnsInv'
<1>1. /\ pc \in [Req -> Label] /\ call = [q \in Req |-> call[q]]
      /\ OneActive
  BY DEF IInv, Core, ServerOK, TurnsInv
<1>2. CASE HandleRequest(r)
  <2>1. SameKernel /\ store' = store /\ pc'[r] = "record"
    BY <1>1, <1>2, KernelSteps DEF HandleRequest, Goto
  <2>2. OneActive'
    BY <1>1, <2>1, OneActiveKept
  <2>3. Turn(call[r], pc[r])'
    BY <2>1 DEF Turn
  <2> QED
    BY <2>2, <2>3, TurnsKept
<1>3. CASE ControlReset(r) \/ ControlSeed(r)
  <2>1. /\ runtime'.kernel.events = <<>> /\ store' = store /\ pc'[r] = "done"
    BY <1>1, <1>3, KernelSteps DEF ControlReset, ControlSeed, Goto
  <2>2. OneActive'
    <3>1. ActiveSessions' = ActiveSessions /\ \A s : QueryEvents(s)' = <<>>
      BY <2>1, LiveCleared DEF ActiveSessions, SessionId
    <3> QED
      BY <1>1, <3>1 DEF OneActive
  <2>3. Turn(call[r], pc[r])'
    BY <2>1 DEF Turn
  <2> QED
    BY <2>2, <2>3, TurnsKept
<1>4. CASE CreateCheck(r)
  <2>1. OneActive' /\ ActiveSessions' = ActiveSessions
    BY <1>1, <1>4, OneActiveKept DEF CreateCheck, SameKernel
  <2>2. CASE ActiveSessions = {}
    <3>1. pc'[r] = "create_reset"
      BY <1>1, <1>4, <2>2 DEF CreateCheck, Goto
    <3> QED
      BY <2>1, <2>2, <3>1, TurnsKept DEF Turn
  <2>3. CASE ActiveSessions # {}
    <3>1. FirstActive \in ActiveSessions
      <4>1. PICK s \in ActiveSessions : \A t \in ActiveSessions : t = s
        BY <1>1, <2>3 DEF OneActive
      <4>2. s \in Nat
        BY ActiveIsNotEnded DEF ActiveSessions
      <4>3. \A t \in ActiveSessions : s <= t
        BY <4>1, <4>2
      <4> QED
        BY <4>3 DEF FirstActive
    <3>2. pc'[r] = "create_lock_runtime" /\ call'[r] = Begun("create", FirstActive, Nil)
      BY <1>1, <1>4, <2>3, Zenon DEF CreateCheck, Goto
    <3>3. call'[r].session = FirstActive
      BY <3>2 DEF Begun
    <3>4. Turn(call[r], pc[r])'
      BY <2>1, <3>1, <3>2, <3>3 DEF Turn
    <3> QED
      BY <2>1, <3>4, TurnsKept
  <2> QED
    BY <2>2, <2>3
<1>5. CASE EndCheck(r)
  <2>1. OneActive' /\ ActiveSessions' = ActiveSessions
    BY <1>1, <1>5, OneActiveKept DEF EndCheck, SameKernel
  <2>2. PICK s \in 1..store.next :
          /\ call' = [call EXCEPT ![r] = Begun("end", s, Nil)]
          /\ Goto(r, IF s \in ActiveSessions THEN "end_capture" ELSE "done")
    BY <1>5 DEF EndCheck
  <2>3. call'[r] = Begun("end", s, Nil)
    BY <1>1, <2>2, Zenon
  <2>4. call'[r].session = s
    BY <2>3 DEF Begun
  <2>5. pc'[r] = IF s \in ActiveSessions THEN "end_capture" ELSE "done"
    BY <1>1, <2>2 DEF Goto
  <2>6. Turn(call[r], pc[r])'
    BY <2>1, <2>4, <2>5 DEF Turn
  <2> QED
    BY <2>1, <2>6, TurnsKept
<1>6. CASE ControlSnapshot(r) \/ ControlRestore(r)
  <2>1. SameKernel /\ store' = store
    BY <1>6, ControlRestoreRuntime DEF ControlSnapshot, ControlRestore, SameKernel
  <2>2. pc'[r] = "done"
    BY <1>1, <1>6 DEF ControlSnapshot, ControlRestore, Goto
  <2>3. OneActive'
    BY <1>1, <2>1, OneActiveKept
  <2>4. Turn(call[r], pc[r])'
    BY <2>2 DEF Turn
  <2> QED
    BY <2>3, <2>4, TurnsKept
<1> QED
  BY <1>2, <1>3, <1>4, <1>5, <1>6 DEF Begin

\* ... and so does a client that leaves, ...
LEMMA DisconnectTurns ==
  ASSUME IInv, TurnsInv, NEW r \in Req, Disconnect(r), Moves(r), Alone'
  PROVE  TurnsInv'
<1>1. SameKernel /\ store' = store /\ pc'[r] = "gone"
  BY DEF Disconnect, Goto, SameKernel, IInv, Core, ServerOK
<1>2. OneActive'
  BY <1>1, OneActiveKept DEF TurnsInv
<1>3. Turn(call[r], pc[r])'
  BY <1>1 DEF Turn
<1> QED
  BY <1>2, <1>3, TurnsKept

\* The session that a create-session ends is the active one.
LEMMA OldSession ==
  ASSUME IInv, TurnsInv, NEW r \in Req, CreateEndOld(r)
  PROVE  LET old == call[r].session IN
         /\ ActiveSessions = {old} /\ old \in SessionId
         /\ store' = EndSessionWith(store, old, FrozenRecord(runtime, old))
         /\ FrozenOK(FrozenRecord(runtime, old))
         /\ FrozenRecord(runtime, old).events = QueryEvents(old)
<1> DEFINE old == call[r].session
<1>1. Turn(call[r], "create_end_old") /\ OneActive
  BY DEF TurnsInv, CreateEndOld
<1>2. old \in ActiveSessions
  BY <1>1 DEF Turn
<1>3. ActiveSessions = {old}
  BY <1>1, <1>2 DEF OneActive
<1>4. old \in SessionId /\ store.sessions[old].status = "active"
  BY <1>2 DEF ActiveSessions
<1>5. store' = EndSessionWith(store, old, FrozenRecord(runtime, old))
  BY <1>4 DEF CreateEndOld
<1>6. FrozenOK(FrozenRecord(runtime, old))
  BY FrozenType DEF IInv, Core, ServerOK
<1>7. FrozenRecord(runtime, old).events = QueryEvents(old)
  BY DEF FrozenRecord, QueryEvents
<1> QED
  BY <1>3, <1>4, <1>5, <1>6, <1>7

\* The session that an end stores is still active, with the log it captured.
LEMMA StoredSession ==
  ASSUME IInv, TurnsInv, NEW r \in Req, EndStore(r)
  PROVE  LET s == call[r].session IN
         /\ ActiveSessions = {s} /\ s \in SessionId
         /\ store' = EndSessionWith(store, s, call[r].frozen)
         /\ FrozenOK(call[r].frozen)
         /\ call[r].frozen.events = QueryEvents(s)
<1> DEFINE s == call[r].session
<1>1. Turn(call[r], "end_store") /\ OneActive
  BY DEF TurnsInv, EndStore
<1>2. s \in ActiveSessions /\ call[r].frozen.events = QueryEvents(s)
  BY <1>1 DEF Turn
<1>3. ActiveSessions = {s}
  BY <1>1, <1>2 DEF OneActive
<1>4. s \in SessionId
  BY <1>2 DEF ActiveSessions
<1>5. CallOK(call[r], "end_store", SessionId)
  BY DEF EndStore, IInv, Core, ServerOK
<1>6. FrozenOK(call[r].frozen)
  BY <1>5 DEF CallOK
<1> QED
  BY <1>2, <1>3, <1>4, <1>6 DEF EndStore

\* ... the later sections of create-session, ...
LEMMA CreateTurns ==
  ASSUME IInv, TurnsInv, NEW r \in Req, Moves(r), Alone',
         \/ CreateLockRuntime(r) \/ CreateEndOld(r) \/ CreateReset(r)
         \/ CreateSeed(r) \/ CreateInsert(r) \/ CreateActivate(r)
  PROVE  TurnsInv'
<1>1. /\ pc \in [Req -> Label] /\ call = [q \in Req |-> call[q]]
      /\ OneActive /\ Turn(call[r], pc[r])
  BY DEF IInv, Core, ServerOK, TurnsInv
<1>2. CASE CreateLockRuntime(r)
  <2>1. /\ SameKernel /\ store' = store /\ pc[r] = "create_lock_runtime"
        /\ pc'[r] = "create_end_old" /\ call'[r] = call[r]
    BY <1>1, <1>2 DEF CreateLockRuntime, Goto, SameKernel
  <2>2. OneActive' /\ ActiveSessions' = ActiveSessions
    BY <1>1, <2>1, OneActiveKept
  <2>3. Turn(call[r], pc[r])'
    BY <1>1, <2>1, <2>2 DEF Turn
  <2> QED
    BY <2>2, <2>3, TurnsKept
<1>3. CASE CreateEndOld(r)
  <2>1. ActiveSessions' = {}
    BY <1>3, OldSession, EndedSession
  <2>2. pc'[r] = "create_reset"
    BY <1>1, <1>3 DEF CreateEndOld, Goto
  <2>3. OneActive' /\ Turn(call[r], pc[r])'
    BY <2>1, <2>2 DEF OneActive, Turn
  <2> QED
    BY <2>3, TurnsKept
<1>4. CASE CreateReset(r)
  <2>1. ActiveSessions = {}
    BY <1>1, <1>4 DEF CreateReset, Turn
  <2>2. ActiveSessions' = {}
    BY <1>4, <2>1 DEF CreateReset, ActiveSessions, SessionId
  <2>3. runtime'.kernel.events = <<>>
    BY <1>4, KernelSteps
  <2>4. pc'[r] \in {"create_seed", "create_insert"}
    BY <1>1, <1>4 DEF CreateReset, Goto
  <2>5. OneActive' /\ Turn(call[r], pc[r])'
    BY <2>2, <2>3, <2>4 DEF OneActive, Turn
  <2> QED
    BY <2>5, TurnsKept
<1>5. CASE CreateSeed(r)
  <2>1. ActiveSessions = {} /\ runtime.kernel.events = <<>>
    BY <1>1, <1>5 DEF CreateSeed, Turn
  <2>2. SameKernel /\ store' = store
    BY <1>5, KernelSteps DEF CreateSeed
  <2>3. OneActive' /\ ActiveSessions' = ActiveSessions
    BY <1>1, <2>2, OneActiveKept
  <2>4. pc'[r] \in {"create_insert", "done"}
    BY <1>1, <1>5 DEF CreateSeed, Goto
  <2>5. Turn(call[r], pc[r])'
    BY <2>1, <2>2, <2>3, <2>4 DEF Turn, SameKernel
  <2> QED
    BY <2>3, <2>5, TurnsKept
<1>6. CASE CreateInsert(r)
  <2>1. ActiveSessions = {} /\ runtime.kernel.events = <<>>
    BY <1>1, <1>6 DEF CreateInsert, Turn
  <2>2. ActiveSessions' = {store.next} /\ call'[r].session = store.next
    BY <1>6, <2>1, InsertedSession
  <2>3. runtime'.kernel.events = <<>> /\ pc'[r] = "create_activate"
    BY <1>1, <1>6, <2>1 DEF CreateInsert, Goto
  <2>4. OneActive'
    BY <2>2, <2>3, LiveCleared DEF OneActive
  <2>5. Turn(call[r], pc[r])'
    BY <2>2, <2>3 DEF Turn
  <2> QED
    BY <2>4, <2>5, TurnsKept
<1>7. CASE CreateActivate(r)
  <2>1. call[r].session \in ActiveSessions
    BY <1>1, <1>7 DEF CreateActivate, Turn
  <2>2. ActiveSessions' = ActiveSessions
    BY <1>7 DEF CreateActivate, ActiveSessions, SessionId
  <2>3. runtime'.kernel.activeSession = call[r].session
    BY <1>7, KernelSteps
  <2>4. OneActive'
    BY <1>1, <2>1, <2>2, <2>3 DEF OneActive
  <2>5. pc'[r] = "done"
    BY <1>1, <1>7 DEF CreateActivate, Goto
  <2>6. Turn(call[r], pc[r])'
    BY <2>5 DEF Turn
  <2> QED
    BY <2>4, <2>6, TurnsKept
<1> QED
  BY <1>2, <1>3, <1>4, <1>5, <1>6, <1>7

\* ... those of end-session, and the recording middleware.
LEMMA EndTurns ==
  ASSUME IInv, TurnsInv, NEW r \in Req, Moves(r), Alone',
         RecordRequest(r) \/ EndCapture(r) \/ EndStore(r) \/ EndClear(r)
  PROVE  TurnsInv'
<1>1. /\ pc \in [Req -> Label] /\ call = [q \in Req |-> call[q]]
      /\ OneActive /\ Turn(call[r], pc[r])
  BY DEF IInv, Core, ServerOK, TurnsInv
<1>2. CASE RecordRequest(r)
  <2>1. ActiveSessions' = ActiveSessions
    BY <1>2 DEF RecordRequest, ActiveSessions, SessionId
  <2>2. runtime'.kernel.activeSession = runtime.kernel.activeSession
    BY <1>2, RecordGrows
  <2>3. \A s : runtime.kernel.activeSession # s => QueryEvents(s)' = QueryEvents(s)
    BY <1>2, LiveRecorded DEF LogsTagged
  <2>4. OneActive'
    BY <1>1, <2>1, <2>2, <2>3 DEF OneActive
  <2>5. pc'[r] = "done"
    BY <1>1, <1>2 DEF RecordRequest, Goto
  <2>6. Turn(call[r], pc[r])'
    BY <2>5 DEF Turn
  <2> QED
    BY <2>4, <2>6, TurnsKept
<1>3. CASE EndCapture(r)
  <2>1. OneActive' /\ ActiveSessions' = ActiveSessions
    BY <1>1, <1>3, OneActiveKept DEF EndCapture, SameKernel
  <2>2. /\ call' = [call EXCEPT ![r] = [call[r] EXCEPT !.frozen =
                                           FrozenRecord(runtime, call[r].session)]]
        /\ runtime' = runtime /\ CallOK(call[r], "end_capture", SessionId)
    BY <1>3 DEF EndCapture, IInv, Core, ServerOK
  <2>3. call'[r] = [op |-> call[r].op, session |-> call[r].session,
                    outcome |-> call[r].outcome,
                    frozen |-> FrozenRecord(runtime, call[r].session)]
    <3>1. call'[r] = [call[r] EXCEPT !.frozen = FrozenRecord(runtime, call[r].session)]
      BY <1>1, <2>2, Zenon
    <3> QED
      BY <2>2, <3>1, CallUpdate, Zenon DEF CallOK
  <2>4. call'[r].session = call[r].session
        /\ call'[r].frozen.events = QueryEvents(call[r].session)
    BY <2>3 DEF FrozenRecord, QueryEvents
  <2>5. pc'[r] = "end_store" /\ call[r].session \in ActiveSessions
    BY <1>1, <1>3 DEF EndCapture, Goto, Turn
  <2>6. Turn(call[r], pc[r])'
    <3>1. QueryEvents(call[r].session)' = call'[r].frozen.events
      BY <2>2, <2>4 DEF QueryEvents
    <3> QED
      BY <2>1, <2>4, <2>5, <3>1 DEF Turn
  <2> QED
    BY <2>1, <2>6, TurnsKept
<1>4. CASE EndStore(r)
  <2>1. ActiveSessions' = {}
    BY <1>4, StoredSession, EndedSession
  <2>2. pc'[r] = "end_clear"
    BY <1>1, <1>4 DEF EndStore, Goto
  <2>3. OneActive' /\ Turn(call[r], pc[r])'
    BY <2>1, <2>2 DEF OneActive, Turn
  <2> QED
    BY <2>3, TurnsKept
<1>5. CASE EndClear(r)
  <2>1. call[r].session \notin ActiveSessions
    BY <1>1, <1>5 DEF EndClear, Turn
  <2>2. ActiveSessions' = ActiveSessions
    BY <1>5 DEF EndClear, ActiveSessions, SessionId
  <2>3. /\ runtime'.kernel.activeSession =
             IF runtime.kernel.activeSession = call[r].session THEN NoSession
             ELSE runtime.kernel.activeSession
        /\ \A s : QueryEvents(s)' = QueryEvents(s)
    BY <1>5, KernelSteps, LiveKept
  <2>4. OneActive'
    BY <1>1, <2>1, <2>2, <2>3 DEF OneActive
  <2>5. pc'[r] = "done"
    BY <1>1, <1>5 DEF EndClear, Goto
  <2>6. Turn(call[r], pc[r])'
    BY <2>5 DEF Turn
  <2> QED
    BY <2>4, <2>6, TurnsKept
<1> QED
  BY <1>2, <1>3, <1>4, <1>5

LEMMA TurnsInit == Init => TurnsInv
<1> SUFFICES ASSUME Init PROVE TurnsInv
  OBVIOUS
<1>1. \A r \in Req : pc[r] = "idle"
  BY DEF Init
<1>2. SessionId = {}
  BY DEF Init, SessionId
<1> QED
  BY <1>1, <1>2 DEF TurnsInv, Alone, InFlight, OneActive, ActiveSessions, Turn

LEMMA TurnsNext ==
  ASSUME MaxInFlight = 1, IInv, TurnsInv, [Next]_vars
  PROVE  TurnsInv'
<1>1. ASSUME NEW r \in Req, Begin(r) \/ Continue(r) \/ Disconnect(r)
      PROVE  TurnsInv'
  <2>1. Moves(r) /\ Alone'
    BY <1>1, StepsMove DEF TurnsInv
  <2> QED
    BY <1>1, <2>1, BeginTurns, CreateTurns, EndTurns, DisconnectTurns DEF Continue
<1>2. CASE UNCHANGED vars
  BY <1>2 DEF vars, TurnsInv, Alone, InFlight, OneActive, ActiveSessions, SessionId, Turn,
     QueryEvents
<1> QED
  BY <1>1, <1>2 DEF Next, AllAnswered

-----------------------------------------------------------------------------
(* Each step of one client is a step of the contract, or none. *)

SameView == UNCHANGED <<ContractStatus, ContractTrace>>

\* With one request in progress IsOpen is about that one.
LEMMA OpenNow ==
  ASSUME NEW r \in Req, Moves(r), NEW s
  PROVE  /\ IsOpen(s) <=> \/ runtime.kernel.activeSession = s
                          \/ pc[r] = "create_activate" /\ call[r].session = s
         /\ IsOpen(s)' <=> \/ runtime'.kernel.activeSession = s
                           \/ pc'[r] = "create_activate" /\ call'[r].session = s
<1>1. \A q \in Req : pc[q] = "create_activate" => q = r
  BY DEF Moves
<1>2. \A q \in Req : pc'[q] = "create_activate" => q = r
  BY DEF Moves, Elsewhere
<1> QED
  BY <1>1, <1>2 DEF IsOpen

\* What the contract sees of one session, now and after the step.
LEMMA ViewNow ==
  ASSUME NEW s \in SessionId
  PROVE  /\ store.sessions[s].status = "ended" =>
              /\ ContractStatus[s] = "ended"
              /\ ContractTrace[s] = Bodies(store.sessions[s].frozen.events)
         /\ store.sessions[s].status # "ended" =>
              /\ ContractStatus[s] = IF IsOpen(s) THEN "open" ELSE "cut_off"
              /\ ContractTrace[s] = Bodies(QueryEvents(s))
BY DEF ContractStatus, ContractTrace, SessionEvents

LEMMA ViewNext ==
  ASSUME NEW s \in SessionId'
  PROVE  /\ store'.sessions[s].status = "ended" =>
              /\ ContractStatus'[s] = "ended"
              /\ ContractTrace'[s] = Bodies(store'.sessions[s].frozen.events)
         /\ store'.sessions[s].status # "ended" =>
              /\ ContractStatus'[s] = IF IsOpen(s)' THEN "open" ELSE "cut_off"
              /\ ContractTrace'[s] = Bodies(QueryEvents(s)')
BY DEF ContractStatus, ContractTrace, SessionEvents, Bodies

\* The two views are functions on the sessions.
LEMMA ViewDomain ==
  /\ ContractStatus = [s \in SessionId |-> ContractStatus[s]]
  /\ ContractTrace = [s \in SessionId |-> ContractTrace[s]]
  /\ ContractStatus' = [s \in SessionId' |-> ContractStatus'[s]]
  /\ ContractTrace' = [s \in SessionId' |-> ContractTrace'[s]]
BY DEF ContractStatus, ContractTrace

\* The contract's open sessions have not ended and satisfy IsOpen.
LEMMA OpenSessions ==
  Contract!Open = {s \in SessionId : store.sessions[s].status # "ended" /\ IsOpen(s)}
<1>1. DOMAIN ContractStatus = SessionId
  BY DEF ContractStatus
<1>2. \A s \in SessionId : ContractStatus[s] = "open" <=>
                             store.sessions[s].status # "ended" /\ IsOpen(s)
  BY ViewNow
<1> QED
  BY <1>1, <1>2 DEF Contract!Open

\* If no session that has not ended looks different, nothing changed.
LEMMA StoreKeptView ==
  ASSUME store' = store,
         \A s \in SessionId : store.sessions[s].status # "ended" =>
           (IsOpen(s)' <=> IsOpen(s)) /\ QueryEvents(s)' = QueryEvents(s)
  PROVE  SameView
<1>1. SessionId' = SessionId
  BY DEF SessionId
<1>2. ASSUME NEW s \in SessionId
      PROVE  ContractStatus'[s] = ContractStatus[s] /\ ContractTrace'[s] = ContractTrace[s]
  <2>1. CASE store.sessions[s].status = "ended"
    BY <1>1, <2>1, ViewNow, ViewNext
  <2>2. CASE store.sessions[s].status # "ended"
    BY <1>1, <2>2, ViewNow, ViewNext
  <2> QED
    BY <2>1, <2>2
<1> QED
  BY <1>1, <1>2, ViewDomain DEF SameView

\* A step that leaves the store, the log and the tag alone, and inserts nothing.
LEMMA QuietView ==
  ASSUME NEW r \in Req, Moves(r), store' = store, SameKernel,
         pc[r] # "create_activate", pc'[r] # "create_activate"
  PROVE  SameView
<1>1. \A s : (IsOpen(s)' <=> IsOpen(s)) /\ QueryEvents(s)' = QueryEvents(s)
  BY OpenNow, LiveKept DEF SameKernel
<1> QED
  BY <1>1, StoreKeptView

\* A step that leaves every session that has not ended closed, its log empty.
LEMMA CutOffView ==
  ASSUME store' = store,
         \A s \in SessionId : store.sessions[s].status # "ended" =>
           /\ ~IsOpen(s)' /\ QueryEvents(s)' = <<>>
           /\ IsOpen(s) \/ QueryEvents(s) = <<>>
  PROVE  Contract!CutOff \/ SameView
<1>1. SessionId' = SessionId
  BY DEF SessionId
<1>2. CASE Contract!Open = {}
  <2>1. \A s \in SessionId : store.sessions[s].status # "ended" => ~IsOpen(s)
    BY <1>2, OpenSessions
  <2> QED
    BY <2>1, StoreKeptView
<1>3. CASE Contract!Open # {}
  <2>1. Bodies(<<>>) = <<>>
    BY DEF Bodies
  <2>2. ASSUME NEW s \in SessionId
        PROVE  /\ ContractStatus'[s] = IF s \in Contract!Open THEN "cut_off"
                                       ELSE ContractStatus[s]
               /\ ContractTrace'[s] = IF s \in Contract!Open THEN <<>>
                                      ELSE ContractTrace[s]
    <3>1. CASE store.sessions[s].status = "ended"
      <4>1. s \notin Contract!Open
        BY <3>1, OpenSessions
      <4> QED
        BY <1>1, <3>1, <4>1, ViewNow, ViewNext
    <3>2. CASE store.sessions[s].status # "ended"
      <4>1. s \in Contract!Open <=> IsOpen(s)
        BY <3>2, OpenSessions
      <4>2. ContractStatus'[s] = "cut_off" /\ ContractTrace'[s] = <<>>
        BY <1>1, <2>1, <3>2, ViewNext
      <4>3. ~IsOpen(s) => ContractStatus[s] = "cut_off" /\ ContractTrace[s] = <<>>
        BY <2>1, <3>2, ViewNow
      <4> QED
        BY <4>1, <4>2, <4>3
    <3> QED
      BY <3>1, <3>2
  <2>3. DOMAIN ContractStatus = SessionId /\ DOMAIN ContractTrace = SessionId
    BY DEF ContractStatus, ContractTrace
  <2>4. ContractStatus' = [s \in SessionId |-> IF s \in Contract!Open THEN "cut_off"
                                              ELSE ContractStatus[s]]
    BY <1>1, <2>2, ViewDomain
  <2>5. ContractTrace' = [s \in SessionId |-> IF s \in Contract!Open THEN <<>>
                                             ELSE ContractTrace[s]]
    BY <1>1, <2>2, ViewDomain
  <2> QED
    BY <1>3, <2>3, <2>4, <2>5 DEF Contract!CutOff
<1> QED
  BY <1>2, <1>3

\* The only session that has not ended is ended with the log it has.
LEMMA EndView ==
  ASSUME IInv, NEW s \in SessionId, ActiveSessions = {s}, NEW f, FrozenOK(f),
         f.events = QueryEvents(s), store' = EndSessionWith(store, s, f)
  PROVE  Contract!End(s)
<1>1. /\ SessionId' = SessionId
      /\ store'.sessions[s] = [status |-> "ended", frozen |-> f]
      /\ \A t \in SessionId \ {s} : store'.sessions[t] = store.sessions[t]
  BY EndedSession
<1>2. \A t \in SessionId : store.sessions[t].status # "ended" <=> t = s
  BY ActiveIsNotEnded
<1>3. /\ ContractStatus[s] # "ended" /\ ContractTrace[s] = Bodies(QueryEvents(s))
      /\ ContractStatus'[s] = "ended" /\ ContractTrace'[s] = Bodies(QueryEvents(s))
  BY <1>1, <1>2, ViewNow, ViewNext
<1>4. \A t \in SessionId \ {s} : /\ ContractStatus'[t] = ContractStatus[t]
                                /\ ContractTrace'[t] = ContractTrace[t]
  BY <1>1, <1>2, ViewNow, ViewNext
<1>5. DOMAIN ContractStatus = SessionId
  BY DEF ContractStatus
<1>6. ContractStatus' = [ContractStatus EXCEPT ![s] = "ended"]
  BY <1>1, <1>3, <1>4, ViewDomain
<1>7. ContractTrace' = ContractTrace
  BY <1>1, <1>3, <1>4, ViewDomain
<1> QED
  BY <1>3, <1>5, <1>6, <1>7 DEF Contract!End

\* A function on 1..(n+1) that agrees with one on 1..n appends to it.
LEMMA AppendsOne ==
  ASSUME NEW E, NEW n \in Nat, NEW f \in [1..n -> E], NEW g \in [1..(n + 1) -> E],
         \A i \in 1..n : g[i] = f[i]
  PROVE  g = Append(f, g[n + 1])
<1>1. f \in Seq(E) /\ Len(f) = n
  BY SeqOfLength
<1>2. g \in Seq(E) /\ Len(g) = n + 1
  <2>1. n + 1 \in Nat
    OBVIOUS
  <2> QED
    BY <2>1, SeqOfLength
<1>3. n + 1 \in 1..(n + 1)
  OBVIOUS
<1>4. g[n + 1] \in E
  BY <1>3
<1> DEFINE h == Append(f, g[n + 1])
<1>5. /\ h \in Seq(E) /\ Len(h) = n + 1 /\ h[n + 1] = g[n + 1]
      /\ \A i \in 1..n : h[i] = f[i]
  BY <1>1, <1>4, AppendProperties
<1> HIDE DEF h
<1>6. \A i \in 1..Len(g) : g[i] = h[i]
  <2>1. \A i \in 1..(n + 1) : i \in 1..n \/ i = n + 1
    OBVIOUS
  <2> QED
    BY <1>2, <1>5, <2>1
<1>7. g = h
  BY <1>2, <1>5, <1>6, SeqEqual
<1> QED
  BY <1>7 DEF h

\* Inserting a session opens it.
LEMMA InsertView ==
  ASSUME IInv, TurnsInv, NEW r \in Req, CreateInsert(r), Moves(r)
  PROVE  Contract!OpenSession
<1>1. ActiveSessions = {} /\ runtime.kernel.events = <<>>
  BY DEF TurnsInv, Turn, CreateInsert
<1>0. PICK fresh : fresh = store.next
  OBVIOUS
<1> DEFINE n == fresh - 1
<1>2. /\ fresh \in Nat \ {0} /\ fresh \notin SessionId
      /\ SessionId' = SessionId \cup {fresh}
      /\ ActiveSessions' = {fresh}
      /\ \A s \in SessionId : store'.sessions[s] = store.sessions[s]
      /\ call'[r].session = fresh
  BY <1>0, <1>1, InsertedSession
<1>3. \A s \in SessionId : store.sessions[s].status = "ended"
  BY <1>1, ActiveIsNotEnded
<1>4. \A s \in SessionId : /\ ContractStatus'[s] = ContractStatus[s]
                          /\ ContractTrace'[s] = ContractTrace[s]
  BY <1>2, <1>3, ViewNow, ViewNext
<1>5. ContractStatus'[fresh] = "open" /\ ContractTrace'[fresh] = <<>>
  <2>1. fresh \in SessionId' /\ store'.sessions[fresh].status # "ended"
    BY <1>2 DEF ActiveSessions
  <2>2. pc'[r] = "create_activate"
    BY DEF CreateInsert, Goto, IInv, Core, ServerOK
  <2>3. IsOpen(fresh)'
    <3>1. \E q \in Req : pc'[q] = "create_activate" /\ call'[q].session = fresh
      BY <1>2, <2>2
    <3> QED
      BY <3>1 DEF IsOpen
  <2>4. runtime'.kernel.events = <<>>
    BY <1>1 DEF CreateInsert
  <2>5. QueryEvents(fresh)' = <<>>
    BY <2>4, LiveCleared
  <2>6. Bodies(<<>>) = <<>>
    BY DEF Bodies
  <2>7. /\ ContractStatus'[fresh] = IF IsOpen(fresh)' THEN "open" ELSE "cut_off"
        /\ ContractTrace'[fresh] = Bodies(QueryEvents(fresh)')
    BY <2>1, ViewNext
  <2> QED
    BY <2>3, <2>5, <2>6, <2>7
<1>6. SessionId = 1..n /\ SessionId' = 1..(n + 1) /\ n \in Nat /\ n + 1 = fresh
  <2>1. n \in Nat /\ n + 1 = fresh
    BY <1>2
  <2>2. SessionId = 1..n
    BY <1>0 DEF SessionId
  <2>3. 1..(n + 1) = 1..n \cup {n + 1}
    BY <2>1
  <2> QED
    BY <1>2, <2>1, <2>2, <2>3
<1> HIDE DEF n
<1>7. ContractStatus' = Append(ContractStatus, "open")
  <2> DEFINE E == {ContractStatus'[s] : s \in SessionId'}
             f == ContractStatus
             g == ContractStatus'
  <2>1. f \in [1..n -> E] /\ g \in [1..(n + 1) -> E]
    BY <1>2, <1>4, <1>6, ViewDomain
  <2>2. \A i \in 1..n : g[i] = f[i]
    BY <1>4, <1>6
  <2>3. g[n + 1] = "open"
    BY <1>5, <1>6
  <2> HIDE DEF E, f, g
  <2>4. g = Append(f, g[n + 1])
    BY <1>6, <2>1, <2>2, AppendsOne
  <2> QED
    BY <2>3, <2>4 DEF f, g
<1>8. ContractTrace' = Append(ContractTrace, <<>>)
  <2> DEFINE E == {ContractTrace'[s] : s \in SessionId'}
             f == ContractTrace
             g == ContractTrace'
  <2>1. f \in [1..n -> E] /\ g \in [1..(n + 1) -> E]
    BY <1>2, <1>4, <1>6, ViewDomain
  <2>2. \A i \in 1..n : g[i] = f[i]
    BY <1>4, <1>6
  <2>3. g[n + 1] = <<>>
    BY <1>5, <1>6
  <2> HIDE DEF E, f, g
  <2>4. g = Append(f, g[n + 1])
    BY <1>6, <2>1, <2>2, AppendsOne
  <2> QED
    BY <2>3, <2>4 DEF f, g
<1>9. Contract!Open = {}
  BY <1>3, OpenSessions
<1> QED
  BY <1>7, <1>8, <1>9 DEF Contract!OpenSession

\* The trace of a longer log is the longer trace.
LEMMA BodiesAppend ==
  ASSUME NEW log \in Seq(Event), NEW e \in Event
  PROVE  Bodies(Append(log, e)) = Append(Bodies(log), e.body.req)
<1> DEFINE n == Len(log)
           f == Bodies(log)
           g == Bodies(Append(log, e))
<1>1. \A x \in Event : x.body.req \in Req
  BY DEF Event, Body
<1>2. /\ n \in Nat /\ DOMAIN log = 1..n /\ \A i \in 1..n : log[i] \in Event
      /\ DOMAIN Append(log, e) = 1..(n + 1)
      /\ \A i \in 1..n : Append(log, e)[i] = log[i]
      /\ Append(log, e)[n + 1] = e
  OBVIOUS
<1>3. \A i \in 1..(n + 1) : i \in 1..n \/ i = n + 1
  BY <1>2
<1>4. f \in [1..n -> Req] /\ \A i \in 1..n : f[i] = log[i].body.req
  BY <1>1, <1>2 DEF Bodies
<1>5. /\ g \in [1..(n + 1) -> Req]
      /\ \A i \in 1..(n + 1) : g[i] = Append(log, e)[i].body.req
  BY <1>1, <1>2, <1>3 DEF Bodies
<1>6. n + 1 \in 1..(n + 1) /\ \A i \in 1..n : i \in 1..(n + 1)
  BY <1>2
<1>7. \A i \in 1..n : g[i] = f[i]
  BY <1>2, <1>4, <1>5, <1>6
<1>8. g[n + 1] = e.body.req
  BY <1>2, <1>5, <1>6
<1> HIDE DEF f, g
<1>9. g = Append(f, g[n + 1])
  BY <1>2, <1>4, <1>5, <1>7, AppendsOne
<1> QED
  BY <1>8, <1>9 DEF f, g

\* Recording a request adds it to the trace of the open session, if there is one.
LEMMA RecordView ==
  ASSUME IInv, FrozenInv, NEW r \in Req, RecordRequest(r), Moves(r)
  PROVE  Contract!Serve(r)
<1>1. store' = store /\ SessionId' = SessionId
  BY DEF RecordRequest, SessionId
<1>2. pc[r] = "record" /\ pc'[r] = "done"
  BY DEF RecordRequest, Goto, IInv, Core, ServerOK
<1>3. runtime'.kernel.activeSession = runtime.kernel.activeSession
  BY RecordGrows
<1>4. ASSUME NEW s
      PROVE  /\ IsOpen(s) <=> runtime.kernel.activeSession = s
             /\ IsOpen(s)' <=> runtime.kernel.activeSession = s
  BY <1>2, <1>3, OpenNow
<1>5. PICK e \in Event : e.body.req = r /\ LogsTagged(e)
  BY LiveRecorded
<1>6. \A s \in SessionId : QueryEvents(s) \in Seq(Event)
  BY ActiveIsNotEnded DEF FrozenInv, OwnLog
<1>7. ASSUME NEW s \in SessionId
      PROVE  /\ ContractStatus'[s] = ContractStatus[s]
             /\ ContractTrace'[s] = IF s \in Contract!Open
                                    THEN Append(ContractTrace[s], r)
                                    ELSE ContractTrace[s]
  <2>1. CASE store.sessions[s].status = "ended"
    <3>1. s \notin Contract!Open
      BY <2>1, OpenSessions
    <3> QED
      BY <1>1, <2>1, <3>1, ViewNow, ViewNext
  <2>2. CASE store.sessions[s].status # "ended"
    <3>1. s \in Contract!Open <=> runtime.kernel.activeSession = s
      BY <1>4, <2>2, OpenSessions
    <3>2. /\ ContractTrace[s] = Bodies(QueryEvents(s))
          /\ ContractTrace'[s] = Bodies(QueryEvents(s)')
          /\ ContractStatus'[s] = ContractStatus[s]
      BY <1>1, <1>4, <2>2, ViewNow, ViewNext
    <3>3. Bodies(Append(QueryEvents(s), e)) = Append(Bodies(QueryEvents(s)), r)
      BY <1>5, <1>6, BodiesAppend
    <3> QED
      BY <1>5, <3>1, <3>2, <3>3 DEF LogsTagged
  <2> QED
    BY <2>1, <2>2
<1>8. DOMAIN ContractTrace = SessionId
  BY DEF ContractTrace
<1>9. ContractTrace' = [s \in SessionId |-> IF s \in Contract!Open
                                           THEN Append(ContractTrace[s], r)
                                           ELSE ContractTrace[s]]
  BY <1>1, <1>7, ViewDomain
<1>10. ContractStatus' = ContractStatus
  BY <1>1, <1>7, ViewDomain
<1> QED
  BY <1>8, <1>9, <1>10 DEF Contract!Serve

\* A reset or seed cuts an open session off.
LEMMA ResetView ==
  ASSUME IInv, TurnsInv, NEW r \in Req, Moves(r), ControlReset(r) \/ ControlSeed(r)
  PROVE  Contract!CutOff \/ SameView
<1>1. /\ store' = store /\ pc[r] = "idle" /\ pc'[r] = "done"
      /\ runtime'.kernel.events = <<>> /\ runtime'.kernel.activeSession = NoSession
  BY KernelSteps DEF ControlReset, ControlSeed, Goto, Arrive, IInv, Core, ServerOK
<1>2. ASSUME NEW s \in SessionId, store.sessions[s].status # "ended"
      PROVE  /\ ~IsOpen(s)' /\ QueryEvents(s)' = <<>>
             /\ IsOpen(s) \/ QueryEvents(s) = <<>>
  <2>1. s \in ActiveSessions /\ s # NoSession
    BY <1>2, ActiveIsNotEnded
  <2>2. ~IsOpen(s)' /\ QueryEvents(s)' = <<>>
    BY <1>1, <2>1, OpenNow, LiveCleared
  <2>3. IsOpen(s) \/ QueryEvents(s) = <<>>
    BY <2>1, OpenNow DEF TurnsInv, OneActive
  <2> QED
    BY <2>2, <2>3
<1> QED
  BY <1>1, <1>2, CutOffView

\* A client that leaves before its new session is tagged cuts it off.
LEMMA DisconnectView ==
  ASSUME IInv, TurnsInv, NEW r \in Req, Moves(r), Disconnect(r)
  PROVE  Contract!CutOff \/ SameView
<1>1. store' = store /\ runtime' = runtime /\ call' = call /\ pc'[r] = "gone"
  BY DEF Disconnect, Goto, IInv, Core, ServerOK
<1>2. SameKernel
  BY <1>1 DEF SameKernel
<1>3. CASE pc[r] # "create_activate"
  BY <1>1, <1>2, <1>3, QuietView
<1>4. CASE pc[r] = "create_activate"
  <2>0. PICK s : s = call[r].session
    OBVIOUS
  <2>1. s \in ActiveSessions /\ runtime.kernel.events = <<>> /\ OneActive
    BY <1>4, <2>0 DEF TurnsInv, Turn
  <2>2. \A t \in SessionId : store.sessions[t].status # "ended" => t = s
    BY <2>1, ActiveIsNotEnded DEF OneActive
  <2>3. QueryEvents(s) = <<>> /\ QueryEvents(s)' = <<>>
    BY <1>1, <2>1, FilterEmpty DEF QueryEvents
  <2>4. IsOpen(s)
    BY <1>4, <2>0, OpenNow
  <2>5. IsOpen(s)' <=> runtime.kernel.activeSession = s
    BY <1>1, OpenNow
  <2>6. CASE runtime.kernel.activeSession = s
    <3>1. \A t \in SessionId : store.sessions[t].status # "ended" =>
            (IsOpen(t)' <=> IsOpen(t)) /\ QueryEvents(t)' = QueryEvents(t)
      BY <2>2, <2>3, <2>4, <2>5, <2>6
    <3> QED
      BY <1>1, <3>1, StoreKeptView
  <2>7. CASE runtime.kernel.activeSession # s
    <3>1. \A t \in SessionId : store.sessions[t].status # "ended" =>
            /\ ~IsOpen(t)' /\ QueryEvents(t)' = <<>>
            /\ IsOpen(t) \/ QueryEvents(t) = <<>>
      BY <2>2, <2>3, <2>5, <2>7
    <3> QED
      BY <1>1, <3>1, CutOffView
  <2> QED
    BY <2>6, <2>7
<1> QED
  BY <1>3, <1>4

\* The steps that the contract does not see.
LEMMA UnseenView ==
  ASSUME IInv, TurnsInv, NEW r \in Req, Moves(r),
         \/ HandleRequest(r) \/ ControlSnapshot(r) \/ ControlRestore(r)
         \/ CreateCheck(r) \/ CreateLockRuntime(r) \/ CreateReset(r) \/ CreateSeed(r) \/ CreateActivate(r)
         \/ EndCheck(r) \/ EndCapture(r) \/ EndClear(r)
  PROVE  SameView
<1>1. pc \in [Req -> Label] /\ OneActive /\ Turn(call[r], pc[r])
  BY DEF IInv, Core, ServerOK, TurnsInv
<1>2. CASE HandleRequest(r) \/ CreateSeed(r)
  <2>1. SameKernel /\ store' = store
    BY <1>2, KernelSteps DEF HandleRequest, CreateSeed
  <2>2. pc[r] # "create_activate" /\ pc'[r] # "create_activate"
    BY <1>1, <1>2 DEF HandleRequest, CreateSeed, Goto, Arrive
  <2> QED
    BY <2>1, <2>2, QuietView
<1>3. CASE CreateCheck(r) \/ CreateLockRuntime(r) \/ EndCheck(r) \/ EndCapture(r)
  <2>1. SameKernel /\ store' = store
    BY <1>3 DEF CreateCheck, CreateLockRuntime, EndCheck, EndCapture, SameKernel
  <2>2. pc[r] # "create_activate" /\ pc'[r] # "create_activate"
    BY <1>1, <1>3 DEF CreateCheck, CreateLockRuntime, EndCheck, EndCapture, Goto, Arrive
  <2> QED
    BY <2>1, <2>2, QuietView
<1>4. CASE CreateReset(r)
  <2>1. ActiveSessions = {} /\ store' = store
    BY <1>1, <1>4 DEF CreateReset, Turn
  <2>2. \A s \in SessionId : store.sessions[s].status = "ended"
    BY <2>1, ActiveIsNotEnded
  <2> QED
    BY <2>1, <2>2, StoreKeptView
<1>5. CASE CreateActivate(r)
  <2>1. /\ store' = store /\ pc[r] = "create_activate" /\ pc'[r] = "done"
        /\ call[r].session \in ActiveSessions
    BY <1>1, <1>5 DEF CreateActivate, Goto, Turn
  <2>2. /\ runtime'.kernel.activeSession = call[r].session
        /\ runtime'.kernel.events = runtime.kernel.events
    BY <1>5, KernelSteps
  <2>3. ASSUME NEW s \in SessionId, store.sessions[s].status # "ended"
        PROVE  (IsOpen(s)' <=> IsOpen(s)) /\ QueryEvents(s)' = QueryEvents(s)
    <3>1. s = call[r].session
      BY <1>1, <2>1, <2>3, ActiveIsNotEnded DEF OneActive
    <3> QED
      BY <2>1, <2>2, <3>1, OpenNow, LiveKept
  <2> QED
    BY <2>1, <2>3, StoreKeptView
<1>6. CASE EndClear(r)
  <2>1. /\ store' = store /\ pc[r] = "end_clear" /\ pc'[r] = "done"
        /\ call[r].session \notin ActiveSessions
    BY <1>1, <1>6 DEF EndClear, Goto, Turn
  <2>2. /\ runtime'.kernel.events = runtime.kernel.events
        /\ runtime'.kernel.activeSession =
             IF runtime.kernel.activeSession = call[r].session THEN NoSession
             ELSE runtime.kernel.activeSession
    BY <1>6, KernelSteps
  <2>3. ASSUME NEW s \in SessionId, store.sessions[s].status # "ended"
        PROVE  (IsOpen(s)' <=> IsOpen(s)) /\ QueryEvents(s)' = QueryEvents(s)
    <3>1. s # call[r].session /\ s # NoSession
      BY <2>1, <2>3, ActiveIsNotEnded
    <3> QED
      BY <2>1, <2>2, <3>1, OpenNow, LiveKept
  <2> QED
    BY <2>1, <2>3, StoreKeptView
<1>7. CASE ControlSnapshot(r) \/ ControlRestore(r)
  <2>1. SameKernel /\ store' = store
    BY <1>7, ControlRestoreRuntime DEF ControlSnapshot, ControlRestore, SameKernel
  <2>2. pc[r] # "create_activate" /\ pc'[r] # "create_activate"
    BY <1>1, <1>7 DEF ControlSnapshot, ControlRestore, Goto, Arrive
  <2> QED
    BY <2>1, <2>2, QuietView
<1> QED
  BY <1>2, <1>3, <1>4, <1>5, <1>6, <1>7

\* Together: each step is a step of the contract, or none.
LEMMA ContractNext ==
  ASSUME MaxInFlight = 1, IInv, FrozenInv, TurnsInv, [Next]_vars
  PROVE  Contract!Next \/ SameView
<1>1. ASSUME NEW r \in Req, Begin(r) \/ Continue(r) \/ Disconnect(r)
      PROVE  Contract!Next \/ SameView
  <2>1. Moves(r)
    BY <1>1, StepsMove DEF TurnsInv
  <2>2. DOMAIN ContractStatus = SessionId
    BY DEF ContractStatus
  <2>3. CASE CreateInsert(r)
    BY <2>1, <2>3, InsertView DEF Contract!Next
  <2>4. CASE RecordRequest(r)
    BY <2>1, <2>4, RecordView DEF Contract!Next
  <2>5. CASE ControlReset(r) \/ ControlSeed(r) \/ Disconnect(r)
    BY <2>1, <2>5, ResetView, DisconnectView DEF Contract!Next
  <2>6. CASE CreateEndOld(r)
    <3>1. call[r].session \in SessionId /\ Contract!End(call[r].session)
      BY <2>6, OldSession, EndView
    <3> QED
      BY <2>2, <3>1 DEF Contract!Next
  <2>7. CASE EndStore(r)
    <3>1. call[r].session \in SessionId /\ Contract!End(call[r].session)
      BY <2>7, StoredSession, EndView
    <3> QED
      BY <2>2, <3>1 DEF Contract!Next
  <2>8. CASE \/ HandleRequest(r) \/ ControlSnapshot(r) \/ ControlRestore(r)
             \/ CreateCheck(r) \/ CreateLockRuntime(r) \/ CreateReset(r) \/ CreateSeed(r) \/ CreateActivate(r)
             \/ EndCheck(r) \/ EndCapture(r) \/ EndClear(r)
    BY <2>1, <2>8, UnseenView
  <2> QED
    BY <1>1, <2>3, <2>4, <2>5, <2>6, <2>7, <2>8 DEF Begin, Continue
<1>2. CASE UNCHANGED vars
  BY <1>2 DEF vars, SameView, ContractStatus, ContractTrace, SessionId, SessionEvents,
     QueryEvents, IsOpen, Bodies
<1> QED
  BY <1>1, <1>2 DEF Next, AllAnswered

LEMMA ContractInit == Init => Contract!Init
<1> SUFFICES ASSUME Init PROVE Contract!Init
  OBVIOUS
<1>1. SessionId = {}
  BY DEF Init, SessionId
<1>2. ContractStatus = <<>> /\ ContractTrace = <<>>
  BY <1>1 DEF ContractStatus, ContractTrace
<1> QED
  BY <1>2 DEF Contract!Init

\* A client that sends one request at a time gets the sessions SessionContract
\* describes: each step of the handlers is one step of the contract, or none.
THEOREM OneClientSeesContract == MaxInFlight = 1 => (Spec => ImplementsContract)
<1> SUFFICES ASSUME MaxInFlight = 1 PROVE Spec => ImplementsContract
  OBVIOUS
<1>1. Spec => []FrozenInv
  BY Invariant, FrozenInit, FrozenNext, PTL DEF Spec
<1>2. Spec => []TurnsInv
  <2>1. IInv /\ TurnsInv /\ [Next]_vars => TurnsInv'
    BY TurnsNext
  <2> QED
    BY <2>1, Invariant, TurnsInit, PTL DEF Spec
<1>3. IInv /\ FrozenInv /\ TurnsInv /\ [Next]_vars => [Contract!Next]_(Contract!vars)
  BY ContractNext DEF SameView, Contract!vars
<1> QED
  BY <1>1, <1>2, <1>3, Invariant, ContractInit, PTL
     DEF Spec, ImplementsContract, Contract!Spec
=============================================================================
