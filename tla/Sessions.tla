------------------------------ MODULE Sessions ------------------------------
(***************************************************************************)
(* Sessions, control resets and data-plane requests of one twin server     *)
(* (twins/crates/twin-server-core), at the granularity of its critical     *)
(* sections.                                                               *)
(*                                                                         *)
(* The server keeps the runtime and the session store behind two tokio     *)
(* mutexes.  A handler takes a mutex, works, releases it, and takes the    *)
(* next one: between two critical sections any other request may run.  So  *)
(* an action here is one critical section of one request, and pc says      *)
(* which section the request enters next.  Only create-session ever holds  *)
(* one mutex while it waits for the other; that wait is visible as         *)
(* runtimeLock.  Every other section takes a single mutex and is atomic.   *)
(***************************************************************************)
EXTENDS TwinKernel

CONSTANTS
  Req,           \* requests that clients may send, each at most once
  MaxInFlight,   \* how many may be in progress together (1: one client)
  Configs,       \* TwinConfig bodies a client posts to /control/reset
  MayDisconnect, \* may a client give up while its request is in progress?
  Free,          \* the runtime mutex is held across no section boundary
  Nil            \* a request or session field that is not filled in yet

ASSUME MaxInFlightAssumption == MaxInFlight \in Nat \ {0}

ASSUME ConfigsAssumption ==
  Configs \subseteq [seed : Nat, start : Nat] /\ Configs # {}

ASSUME ReqAssumption == Free \notin Req

ASSUME NoSessionAssumption == NoSession \notin Nat

ASSUME DisconnectAssumption == MayDisconnect \in BOOLEAN

ASSUME ServiceAssumption == ServiceDefault = {}

VARIABLES
  runtime,       \* TwinRuntime; its service is the set of requests whose
                 \* effect (a mutation, or seed data) is in the state
  store,         \* SessionStore: sessions by number, and the next number
  runtimeLock,   \* the request that holds the runtime mutex across sections
  pc,            \* the critical section each request enters next
  call,          \* what each request carries between its sections
  saved,         \* the answers to /control/snapshot, which clients hold
  restored       \* history: the effects that the last restore brought back,
                 \* none after a reset

vars == <<runtime, store, runtimeLock, pc, call, saved, restored>>

-----------------------------------------------------------------------------
(* The session store. *)

SessionId == 1..(store.next - 1)

ActiveSessions == {s \in SessionId : store.sessions[s].status = "active"}

\* SessionStore::active_session: the first active one in key order.
FirstActive == CHOOSE s \in ActiveSessions : \A t \in ActiveSessions : s <= t

NewSession == [status |-> "active", frozen |-> Nil]

\* Mutant: the counter is not advanced.
CreateSessionKeepsCounter(st) ==
  [sessions |-> [s \in 1..st.next |->
                   IF s = st.next THEN NewSession ELSE st.sessions[s]],
   next     |-> st.next]

\* Mutant: the number of an ended session is given out again.
CreateSessionReusesEnded(st) ==
  LET ended == {s \in DOMAIN st.sessions : st.sessions[s].status = "ended"} IN
  IF ended # {}
  THEN [st EXCEPT !.sessions = [s \in DOMAIN @ |->
                                  IF s \in ended THEN NewSession ELSE @[s]]]
  ELSE [sessions |-> [s \in 1..st.next |->
                        IF s = st.next THEN NewSession ELSE st.sessions[s]],
        next     |-> st.next + 1]

CreateSession(st) ==
  [sessions |-> [s \in 1..st.next |->
                   IF s = st.next THEN NewSession ELSE st.sessions[s]],
   next     |-> st.next + 1]

\* What ending a session captures: its own events and the whole state.
FrozenRecord(rt, s) ==
  [events |-> EventsOfSession(rt.kernel, s), snapshot |-> FullSnapshot(rt)]

EndSessionWith(st, s, frozen) ==
  [st EXCEPT !.sessions[s] = [status |-> "ended", frozen |-> frozen]]

-----------------------------------------------------------------------------
(* Requests. *)

Begun(op, session, outcome) ==
  [op |-> op, session |-> session, outcome |-> outcome, frozen |-> Nil]

NoCall == Begun(Nil, Nil, Nil)

InFlight == {r \in Req : pc[r] \notin {"idle", "done", "gone"}}

\* A request arrives and enters its first section in one step.
Arrive(r) == pc[r] = "idle" /\ Cardinality(InFlight) < MaxInFlight

Goto(r, label) == pc' = [pc EXCEPT ![r] = label]

RuntimeFree == runtimeLock = Free

Init ==
  /\ \E config \in Configs : runtime = NewRuntime(config)
  /\ store = [sessions |-> [s \in {} |-> NewSession], next |-> 1]
  /\ runtimeLock = Free
  /\ pc = [r \in Req |-> "idle"]
  /\ call = [r \in Req |-> NoCall]
  /\ saved = {} /\ restored = {}

-----------------------------------------------------------------------------
(* The data plane: the twin's handler, then the recording middleware. *)

\* The handler applies the request, or refuses it, under the runtime mutex.
HandleRequest(r) ==
  /\ Arrive(r) /\ RuntimeFree
  /\ \E outcome \in {"ok", "error"} :
       /\ call' = [call EXCEPT ![r] = Begun("data", Nil, outcome)]
       /\ runtime' = IF outcome = "ok"
                     THEN [runtime EXCEPT !.service = @ \cup {r}]
                     ELSE runtime
  /\ Goto(r, "record")
  /\ UNCHANGED <<store, runtimeLock, saved, restored>>

\* The middleware takes the mutex again to append the event.
RecordRequest(r) ==
  /\ pc[r] = "record" /\ RuntimeFree
  /\ runtime' = [runtime EXCEPT !.kernel =
                   RecordEvent(@, [req |-> r, outcome |-> call[r].outcome])]
  /\ Goto(r, "done")
  /\ UNCHANGED <<store, runtimeLock, call, saved, restored>>

-----------------------------------------------------------------------------
(* /control/reset and /control/seed. *)

\* What reset and seed do first: untag, then reset the whole runtime.
ClearedRuntime(config) ==
  ResetRuntime([runtime EXCEPT !.kernel = ClearActiveSession(@)], config)

ControlReset(r) ==
  /\ Arrive(r) /\ RuntimeFree
  /\ \E config \in Configs : runtime' = ClearedRuntime(config)
  /\ call' = [call EXCEPT ![r] = Begun("reset", Nil, Nil)]
  /\ Goto(r, "done")
  /\ restored' = {}
  /\ UNCHANGED <<store, runtimeLock, saved>>

\* seed_from_scenario: a refused seed may leave part of it applied.
SeedOutcomes(rt, r) ==
  [ok    |-> {[rt EXCEPT !.service = @ \cup {r}]},
   error |-> {rt, [rt EXCEPT !.service = @ \cup {r}]}]

ControlSeed(r) ==
  /\ Arrive(r) /\ RuntimeFree
  /\ \E outcome \in {"ok", "error"} :
       /\ runtime' \in
            SeedOutcomes(ClearedRuntime([seed |-> 0, start |-> 0]), r)[outcome]
       /\ call' = [call EXCEPT ![r] = Begun("seed", Nil, Nil)]
  /\ Goto(r, "done")
  /\ restored' = {}
  /\ UNCHANGED <<store, runtimeLock, saved>>

-----------------------------------------------------------------------------
(* /control/snapshot and /control/restore. *)

ControlSnapshot(r) ==
  /\ Arrive(r) /\ RuntimeFree
  /\ saved' = saved \cup {FullSnapshot(runtime)}
  /\ call' = [call EXCEPT ![r] = Begun("snapshot", Nil, Nil)]
  /\ Goto(r, "done")
  /\ UNCHANGED <<runtime, store, runtimeLock, restored>>

\* What a client can restore: its snapshots, and those of ended sessions.
Restorable ==
  saved \cup {store.sessions[s].frozen.snapshot : s \in SessionId \ ActiveSessions}

\* The log and the tag stay; a service part that the client has spoiled is
\* refused, after the kernel has been restored.
ControlRestore(r) ==
  /\ Arrive(r) /\ RuntimeFree
  /\ \E snapshot \in Restorable, outcome \in {"ok", "error"} :
       /\ runtime' = FullRestore(runtime, snapshot, outcome = "ok")
       /\ restored' = IF outcome = "ok" THEN snapshot.service ELSE restored
       /\ call' = [call EXCEPT ![r] = Begun("restore", Nil, Nil)]
  /\ Goto(r, "done")
  /\ UNCHANGED <<store, runtimeLock, saved>>

-----------------------------------------------------------------------------
(* POST /control/sessions *)

\* Mutant: no look for a session to end.
CreateCheckEndsNone(r) ==
  /\ Arrive(r)
  /\ call' = [call EXCEPT ![r] = Begun("create", Nil, Nil)]
  /\ Goto(r, "create_reset")
  /\ UNCHANGED <<runtime, store, runtimeLock, saved, restored>>

\* Section 1, session store: is there a session to end first?
CreateCheck(r) ==
  /\ Arrive(r)
  /\ \/ /\ ActiveSessions = {}
        /\ call' = [call EXCEPT ![r] = Begun("create", Nil, Nil)]
        /\ Goto(r, "create_reset")
     \/ /\ ActiveSessions # {}
        /\ call' = [call EXCEPT ![r] = Begun("create", FirstActive, Nil)]
        /\ Goto(r, "create_lock_runtime")
  /\ UNCHANGED <<runtime, store, runtimeLock, saved, restored>>

\* Section 2, runtime then session store: the runtime mutex is taken first...
CreateLockRuntime(r) ==
  /\ pc[r] = "create_lock_runtime" /\ RuntimeFree
  /\ runtimeLock' = r
  /\ Goto(r, "create_end_old")
  /\ UNCHANGED <<runtime, store, call, saved, restored>>

\* ... and the old session is ended, unless somebody ended it meanwhile.
CreateEndOld(r) ==
  LET old == call[r].session IN
  /\ pc[r] = "create_end_old"
  /\ runtimeLock = r
  /\ store' = IF store.sessions[old].status = "active"
              THEN EndSessionWith(store, old, FrozenRecord(runtime, old))
              ELSE store
  /\ runtime' = [runtime EXCEPT !.kernel = ClearActiveSession(@)]
  /\ runtimeLock' = Free
  /\ Goto(r, "create_reset")
  /\ UNCHANGED <<call, saved, restored>>

\* Section 3, runtime: reset it with the configuration it has.
CreateReset(r) ==
  /\ pc[r] = "create_reset" /\ RuntimeFree
  /\ runtime' = ResetRuntime(runtime, runtime.kernel.config)
  /\ \E label \in {"create_seed", "create_insert"} : Goto(r, label)
  /\ restored' = {}
  /\ UNCHANGED <<store, runtimeLock, call, saved>>

\* Section 4, runtime, when the body has seed data: a refused seed returns.
CreateSeed(r) ==
  /\ pc[r] = "create_seed" /\ RuntimeFree
  /\ \E outcome \in {"ok", "error"} :
       /\ runtime' \in SeedOutcomes(runtime, r)[outcome]
       /\ Goto(r, IF outcome = "ok" THEN "create_insert" ELSE "done")
  /\ UNCHANGED <<store, runtimeLock, call, saved, restored>>

\* Section 5, session store.
CreateInsert(r) ==
  /\ pc[r] = "create_insert"
  /\ store' = CreateSession(store)
  /\ call' = [call EXCEPT ![r].session = store.next]
  /\ Goto(r, "create_activate")
  /\ UNCHANGED <<runtime, runtimeLock, saved, restored>>

\* Section 6, runtime: from now on events carry the new session's tag.
CreateActivate(r) ==
  /\ pc[r] = "create_activate" /\ RuntimeFree
  /\ runtime' = [runtime EXCEPT !.kernel =
                                  SetActiveSession(@, call[r].session)]
  /\ Goto(r, "done")
  /\ UNCHANGED <<store, runtimeLock, call, saved, restored>>

-----------------------------------------------------------------------------
(* POST /control/sessions/{id}/end *)

\* Section 1, session store: unknown and ended sessions are refused.
EndCheck(r) ==
  /\ Arrive(r)
  /\ \E s \in 1..store.next :
       /\ call' = [call EXCEPT ![r] = Begun("end", s, Nil)]
       /\ Goto(r, IF s \in ActiveSessions THEN "end_capture" ELSE "done")
  /\ UNCHANGED <<runtime, store, runtimeLock, saved, restored>>

\* Section 2, runtime: capture what will be frozen.
EndCapture(r) ==
  /\ pc[r] = "end_capture" /\ RuntimeFree
  /\ call' = [call EXCEPT ![r].frozen =
                              FrozenRecord(runtime, call[r].session)]
  /\ Goto(r, "end_store")
  /\ UNCHANGED <<runtime, store, runtimeLock, saved, restored>>

\* Section 3, session store: store it, whatever the status is by now.
EndStore(r) ==
  /\ pc[r] = "end_store"
  /\ store' = EndSessionWith(store, call[r].session, call[r].frozen)
  /\ Goto(r, "end_clear")
  /\ UNCHANGED <<runtime, runtimeLock, call, saved, restored>>

\* Section 4, runtime: untag, if the session is still the one tagged.
EndClear(r) ==
  /\ pc[r] = "end_clear" /\ RuntimeFree
  /\ runtime' = IF runtime.kernel.activeSession = call[r].session
                THEN [runtime EXCEPT !.kernel = ClearActiveSession(@)]
                ELSE runtime
  /\ Goto(r, "done")
  /\ UNCHANGED <<store, runtimeLock, call, saved, restored>>

-----------------------------------------------------------------------------
(* Reads. *)

\* control_events with a session_id: the kernel's log of now.
QueryEvents(s) == EventsOfSession(runtime.kernel, s)

\* control_session_events: what was frozen, or else the log of now.
SessionEvents(s) ==
  IF store.sessions[s].status = "ended" THEN store.sessions[s].frozen.events
  ELSE QueryEvents(s)

-----------------------------------------------------------------------------
(* Disconnects. *)

\* Mutant: the guard is not released.
DisconnectKeepsLock(r) ==
  /\ MayDisconnect /\ r \in InFlight
  /\ Goto(r, "gone")
  /\ UNCHANGED <<runtime, store, runtimeLock, call, saved, restored>>

\* When its client is gone, hyper drops the handler at the await where it is
\* suspended.  What it did stays done, and the guard it holds is released.
Disconnect(r) ==
  /\ MayDisconnect /\ r \in InFlight
  /\ Goto(r, "gone")
  /\ runtimeLock' = IF runtimeLock = r THEN Free ELSE runtimeLock
  /\ UNCHANGED <<runtime, store, call, saved, restored>>

-----------------------------------------------------------------------------
(* The specification. *)

Begin(r) ==
  \/ HandleRequest(r) \/ ControlReset(r) \/ ControlSeed(r)
  \/ ControlSnapshot(r) \/ ControlRestore(r)
  \/ CreateCheck(r) \/ EndCheck(r)

\* A request that has arrived goes on to its next section.
Continue(r) ==
  \/ RecordRequest(r)
  \/ CreateLockRuntime(r) \/ CreateEndOld(r) \/ CreateReset(r)
  \/ CreateSeed(r) \/ CreateInsert(r) \/ CreateActivate(r)
  \/ EndCapture(r) \/ EndStore(r) \/ EndClear(r)

\* Every request has been answered: the bound of the model is used up.
AllAnswered == (\A r \in Req : pc[r] \in {"done", "gone"}) /\ UNCHANGED vars

Next == (\E r \in Req : Begin(r) \/ Continue(r) \/ Disconnect(r)) \/ AllAnswered

Spec == Init /\ [][Next]_vars

\* tokio polls every woken task and its mutex queues waiters first come,
\* first served, so a request that can enter its next section does so.
FairSpec == Spec /\ \A r \in Req : WF_vars(Continue(r))
-----------------------------------------------------------------------------
(* Properties. *)

Op == {"data", "reset", "seed", "snapshot", "restore", "create", "end"}

Label ==
  {"idle", "record",
   "create_reset", "create_lock_runtime", "create_end_old", "create_seed",
   "create_insert", "create_activate",
   "end_capture", "end_store", "end_clear", "done", "gone"}

Body == [req : Req, outcome : {"ok", "error"}]

Tag == Nat \cup {NoSession}

Event == [sequence    : Nat \ {0},
          logicalTime : Nat,
          session     : Tag,
          body        : Body]

Snapshot ==
  [revision : {0}, metadata : {{}}, service : SUBSET Req]

\* No request of this module touches the revision or the metadata.
Kernel == [config        : [seed : Nat, start : Nat],
           revision      : {0},
           metadata      : {{}},
           events        : Seq(Event),
           nextSequence  : Nat \ {0},
           activeSession : Tag]

Runtime == [kernel : Kernel, service : SUBSET Req]

FrozenOK(f) ==
  /\ f = [events |-> f.events, snapshot |-> f.snapshot]
  /\ f.snapshot \in Snapshot

SessionOK(info) ==
  /\ info = [status |-> info.status, frozen |-> info.frozen]
  /\ \/ info.status = "active" /\ info.frozen = Nil
     \/ info.status = "ended" /\ FrozenOK(info.frozen)

StoreOK(st) ==
  /\ st = [sessions |-> st.sessions, next |-> st.next]
  /\ st.next \in Nat \ {0}
  /\ st.sessions = [s \in 1..(st.next - 1) |-> st.sessions[s]]
  /\ \A s \in 1..(st.next - 1) : SessionOK(st.sessions[s])

\* Labels at which a request has a session in its hands.
HoldsSession ==
  {"create_lock_runtime", "create_end_old", "create_activate",
   "end_capture", "end_store", "end_clear"}

Creating ==
  {"create_reset", "create_lock_runtime", "create_end_old", "create_seed",
   "create_insert", "create_activate"}

CallOK(c, label, ids) ==
  /\ c = [op |-> c.op, session |-> c.session,
          outcome |-> c.outcome, frozen |-> c.frozen]
  /\ c.op \in Op \cup {Nil}
  /\ label = "record" => c.outcome \in {"ok", "error"}
  /\ label \in Creating => c.op = "create"
  /\ label \in HoldsSession => c.session \in ids
  /\ label = "end_store" => FrozenOK(c.frozen)

ServerOK ==
  /\ runtime \in Runtime
  /\ StoreOK(store)
  /\ runtime.kernel.activeSession \in SessionId \cup {NoSession}
  /\ runtimeLock \in Req \cup {Free}
  /\ pc \in [Req -> Label]
  /\ call = [r \in Req |-> call[r]]
  /\ \A r \in Req : CallOK(call[r], pc[r], SessionId)

HeldOK == saved \subseteq Snapshot /\ restored \subseteq Req

\* The shape of the variables, with what the sections rely on: a request that
\* is about to use a session has one of the store, and one that is about to
\* store a frozen record has captured it.
TypeOK == ServerOK /\ HeldOK

DataRequests == {r \in Req : call[r].op = "data"}

Logged == {runtime.kernel.events[i].body.req :
             i \in DOMAIN runtime.kernel.events}

\* The handler and the recording middleware take the runtime mutex
\* separately, and resets, seeds, restores and new sessions come between them;
\* still, the log and the snapshot that was restored last, if there was no reset
\* since, explain the current state: a mutation that was not restored is in the
\* log or its request is about to record it, unless the client disconnected.
EffectsLogged ==
  \A r \in DataRequests \cap runtime.service :
    r \in Logged \cup restored \/ pc[r] \in {"record", "gone"}

\* Sequence numbers count the log from 1 without gaps or repeats, across
\* every interleaving of resets with requests that were handled before them.
LogNumbered ==
  /\ runtime.kernel.nextSequence = Len(runtime.kernel.events) + 1
  /\ \A i \in DOMAIN runtime.kernel.events :
       runtime.kernel.events[i].sequence = i

\* Ending is final: no interleaving of create and end requests makes an ended
\* session active again, loses a session, or reuses its number.
EndedIsFinal ==
  [][\A s \in SessionId :
       store.sessions[s].status = "ended" =>
         s \in SessionId' /\ store'.sessions[s].status = "ended"]_store

\* Whatever overtakes a session's end, the log that gets frozen for it holds
\* only requests tagged with that session, in the order they were recorded, and
\* leaves none out: as long as the kernel was not reset, the filtered log of the
\* kernel starts with it (requests that the end did not see may follow).
FrozenOwnEvents ==
  \A s \in SessionId : store.sessions[s].status = "ended" =>
    LET log == SessionEvents(s)
        live == QueryEvents(s)
        Events(sequence) == {sequence[i] : i \in DOMAIN sequence}
    IN /\ \A i \in DOMAIN log :
            /\ log[i].session = s
            /\ \A j \in 1..(i - 1) : log[j].sequence < log[i].sequence
       /\ \/ Len(log) <= Len(live) /\ SubSeq(live, 1, Len(log)) = log
          \/ Events(log) \cap Events(live) = {}

\* Only a create-session that is about to end a session holds the runtime mutex
\* while it waits for the other one; a handler that was dropped never does.
LockOwned == runtimeLock # Free => pc[runtimeLock] = "create_end_old"

\* No request waits for ever: not the create-session that holds the runtime
\* mutex while it waits for the session store, and not those that wait for a
\* mutex whose holder's client has disconnected.
EveryRequestAnswered ==
  \A r \in Req : r \in InFlight ~> pc[r] \in {"done", "gone"}

-----------------------------------------------------------------------------
(* The contract that a single sequential client sees. *)

Bodies(log) == [i \in DOMAIN log |-> log[i].body.req]

\* A session is open from the time the store has it: the request that created it
\* is about to tag the kernel with it.
IsOpen(s) ==
  \/ runtime.kernel.activeSession = s
  \/ \E r \in Req : pc[r] = "create_activate" /\ call[r].session = s

ContractStatus ==
  [s \in SessionId |-> IF store.sessions[s].status = "ended" THEN "ended"
                      ELSE IF IsOpen(s) THEN "open"
                      ELSE "cut_off"]

ContractTrace == [s \in SessionId |-> Bodies(SessionEvents(s))]

Contract == INSTANCE SessionContract
              WITH status <- ContractStatus, trace <- ContractTrace

\* One client at a time gets exactly the sessions SessionContract describes,
\* although create and end take six and four critical sections.
ImplementsContract == Contract!Spec

-----------------------------------------------------------------------------
(* What comments and documentation say and concurrent clients do not get.  *)

\* "Auto-end any currently active session before creating a new one."
OneActiveSession == Cardinality(ActiveSessions) <= 1

\* "End: POST /control/sessions/{id}/end -- freezes the session": what an
\* ended session froze never changes.
FrozenNeverRewritten ==
  [][\A s \in SessionId :
       store.sessions[s].status = "ended" =>
         store'.sessions[s].frozen = store.sessions[s].frozen]_store
=============================================================================
