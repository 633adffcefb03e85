----------------------------- MODULE TwinKernel -----------------------------
(***************************************************************************)
(* The deterministic state engine that every digital twin embeds           *)
(* (twins/crates/twin-kernel) and the runtime that pairs it with a domain  *)
(* service (twins/crates/twin-service).  Both are plain values behind one  *)
(* mutex, so they are operators on records here; the modules that own the  *)
(* mutex (Sessions, ScenarioRuns) hold the record in a variable.           *)
(*                                                                         *)
(* A service is abstract: it is whatever value the extending module gives  *)
(* it, and reset puts ServiceDefault back.  What an event carries besides  *)
(* its sequence number, logical time and session tag is one field, body.   *)
(***************************************************************************)
EXTENDS Naturals, Sequences, FiniteSets

CONSTANTS
  NoSession,       \* the None of active_session: Option<String>
  ServiceDefault   \* T::default(), the state of a freshly constructed twin

-----------------------------------------------------------------------------
(* Kernel operations. *)

NewKernel(config) ==
  [config        |-> config,
   revision      |-> 0,
   metadata      |-> {},
   events        |-> <<>>,
   nextSequence  |-> 1,
   activeSession |-> NoSession]

\* Mutant: the numbering of events goes on across a reset.
ResetKernelKeepsNumbering(k, config) ==
  [NewKernel(config) EXCEPT !.activeSession = k.activeSession,
                            !.nextSequence = k.nextSequence]

\* reset replaces the configuration and the state and empties the log; the
\* active session survives it, which the code says it does on purpose.
ResetKernel(k, config) ==
  [NewKernel(config) EXCEPT !.activeSession = k.activeSession]

\* restore replaces the state alone: log, numbering and tag stay.
RestoreKernel(k, snapshot) ==
  [k EXCEPT !.revision = snapshot.revision, !.metadata = snapshot.metadata]

\* metadata is a map, kept as the set of its <<key, value>> pairs.
SetMetadata(k, key, value) ==
  [k EXCEPT !.revision = @ + 1,
            !.metadata = {kv \in @ : kv[1] # key} \cup {<<key, value>>}]

RecordEvent(k, body) ==
  [k EXCEPT !.events = Append(@, [sequence    |-> k.nextSequence,
                                  logicalTime |-> k.config.start + k.revision,
                                  session     |-> k.activeSession,
                                  body        |-> body]),
            !.nextSequence = @ + 1]

SetActiveSession(k, s) == [k EXCEPT !.activeSession = s]

ClearActiveSession(k) == [k EXCEPT !.activeSession = NoSession]

\* Mutant: the whole log, whatever the session.
EventsUnfiltered(k, s) == k.events

Only(S) == CHOOSE x \in S : TRUE

\* The filter by session_id that every session handler applies to the log: the
\* n-th event is the one that has n - 1 of the session before it.
EventsOfSession(k, s) ==
  LET own == {i \in DOMAIN k.events : k.events[i].session = s}
      At(n) == {i \in own : Cardinality({j \in own : j < i}) = n - 1}
  IN [n \in 1..Cardinality(own) |-> k.events[Only(At(n))]]

-----------------------------------------------------------------------------
(* TwinRuntime: the kernel and the service it is paired with. *)

NewRuntime(config) == [kernel |-> NewKernel(config), service |-> ServiceDefault]

\* Mutant: the kernel is reset and the service is forgotten.
ResetKernelOnly(rt, config) ==
  [rt EXCEPT !.kernel = ResetKernel(rt.kernel, config)]

ResetRuntime(rt, config) ==
  [kernel |-> ResetKernel(rt.kernel, config), service |-> ServiceDefault]

\* full_snapshot: the kernel's state with the service's own state put in it.
FullSnapshot(rt) ==
  [revision |-> rt.kernel.revision,
   metadata |-> rt.kernel.metadata,
   service  |-> rt.service]

\* full_restore: the kernel is restored before the service is tried, so a
\* service that refuses its part keeps the old state under the new kernel.
FullRestore(rt, snapshot, accepted) ==
  [kernel  |-> RestoreKernel(rt.kernel, snapshot),
   service |-> IF accepted THEN snapshot.service ELSE rt.service]
=============================================================================
