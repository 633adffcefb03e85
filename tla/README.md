# A verification project for agent_sandbox

TLA+ models of agent_sandbox, its digital-twin servers and the engine that runs
agents against them, checked with TLC and partly proved with TLAPS. Paths are
relative to the root of the repository.

## The system

agent_sandbox tests agents against *digital twins*: in-memory replicas of SaaS
services (Google Drive, Gmail). A twin is an HTTP server written in Rust. A
Python engine starts runs against twins, and a small SDK asserts on snapshots.

| Component | State it keeps | Operations | How it interacts |
|---|---|---|---|
| twin-kernel (`twins/crates/twin-kernel`) | configuration, revision, metadata, event log and its numbering, active session | new, reset, restore, set metadata, record an event, set and clear the session tag | a plain value inside the runtime |
| twin-service (`twins/crates/twin-service`) | the pair kernel + domain service | reset, the `TwinService` trait | `Arc<tokio::sync::Mutex<..>>` shared by all handlers |
| server-core: sessions and control (`twins/crates/twin-server-core`) | `SessionStore` behind a mutex of its own | create and end a session, reset, seed, snapshot, restore | takes runtime and session store, mostly one after the other |
| server-core: event recording | - | wraps every data-plane request | the handler takes the runtime mutex, then the middleware takes it again |
| server-core: scenario engine | fault rules, decision counter, run counter, runs in memory; `index.json` and `run_*.json` on disk | apply, replay, verify-replay, bundle, list, diff | three mutexes (runtime, scenario, run store), one at a time |
| twin-drive | items, content store, id counter | create, upload, move, update, set permission, delete, seed, snapshot, restore | runs under the runtime mutex |
| twin-drive routes | resumable uploads, in a static map | native and v3 routes, media, multipart and resumable uploads, queries | upload map first, then, with the map released, the runtime |
| twin-gmail | messages, threads, labels, attachments, two counters | send, insert, modify, trash, delete, labels, seed, snapshot, restore | runs under the runtime mutex |
| twin-gmail routes | - (page tokens are offsets) | native and v1 routes, searches, paged listings | takes the runtime once per request |
| twin-macros | - | derives snapshot and restore of a service | called by server-core |
| server-core: auth, discovery, configuration | - | resolve the actor, serve metadata | layers around the router |
| twin-cli, generated types, binaries | - | generate code, serve | - |
| Python engine (`src/agent_sandbox`) | environment variables, endpoints, loaded plugins, reports | up, reset, seed, execute with retries, assert, report | HTTP client of the twins; starts, calls or hosts the agent |
| SDK (`sdk/agent_sandbox_twins`) | - | providers, assertions over a snapshot | HTTP client, pure functions |

### What is hard in it

* **Interleaving.** Handlers are async tasks. A handler takes a mutex, releases
  it and takes another, so its checks are stale by the time it acts on them,
  and a mutation and its event are recorded in separate critical sections.
* **Dropped handlers.** When a client goes away hyper drops the handler at the
  await where it is suspended: what was done stays, what was next never comes.
* **Crashes.** Runs are written to disk as an artifact and an index entry.
* **Determinism.** A run has to come out the same when it is replayed, although
  it shares runtime, fault rules and decision counter with every other request.
* **Unreliable clients.** Chunks of an upload are lost, repeated and late; a list
  is read page by page while it changes.
* **Agents out of control.** The engine gives up an attempt whose agent goes on.
* **Trees.** Moves, cascade deletes, seeds in any order and restores change a
  graph of parent links and two maps that must agree.
* **Numbers.** Generated and seeded ids share a name space and a u64 counter.

What makes each component right: events are numbered without gaps and explain
the state; an ended session stays ended and holds its own events; no request
waits for ever; answered runs survive restarts; replays match; the items have
no orphans, content belongs to items, deletes are exact and end, new ids are
new; an upload becomes one whole file; threads, labels and attachments agree
with the messages; what is listed can be fetched; a run of a tier is judged by
its own effects, leaves the process as it was, and is reported.

`PROJECT.json` lists each hazard at its line with the properties that cover it.

## Modules

| Module | Models |
|---|---|
| `TwinKernel` | `TwinKernel` and `TwinRuntime` as operators on records |
| `Sessions` | sessions, reset, seed, snapshot, restore, data-plane requests, disconnects; one action per critical section |
| `SessionsProofs` | theorems about `Sessions` |
| `SessionContract` | the abstract specification of sessions for one sequential client |
| `ScenarioRuns` | scenario runs, faults, run store, crashes, disconnects |
| `ScenarioRunsProofs` | theorems about `ScenarioRuns` |
| `DriveTree` | the state of the Drive twin |
| `DriveTreeProofs` | theorems about `DriveTree` |
| `DriveSeed` | `seed_from_scenario` and `validate_scenario` of Drive, as functions of a document |
| `DriveParse` | the parsers of multipart bodies and of Drive queries |
| `DriveServer` | the Drive twin behind its routes: actors, reads, resumable uploads |
| `DriveServerProofs` | theorems about `DriveServer`; that it implements `DriveTree` |
| `GmailMailbox` | the state of the Gmail twin |
| `GmailQuery` | the search language and its dates |
| `Discovery` | the discovery documents and the router of both twins |
| `GmailApi` | the Gmail twin behind its routes: surfaces, reads, a paging client |
| `GmailMailboxProofs` | that each change of the mailbox keeps its invariant |
| `GmailApiProofs` | theorems about `GmailApi` and its mailbox |
| `TierRuns` | the engine: the runs of a tier, their scopes, endpoints, attempts and reports |
| `TierRunsProofs` | theorems about `TierRuns` |
| `OrderLemmas` | least and greatest elements, ranks in finite ordered sets |
| `MCSessions`, `MCScenarioRuns`, `MCDriveTree`, `MCDriveServer`, `MCGmail`, `MCTierRuns` | constant values for TLC |

`Sessions` and `ScenarioRuns` both extend `TwinKernel` and hold a runtime in
the variable `runtime`. They model the same server from two sides: `Sessions`
has no scenario runs and leaves the fault rules that reset and seed clear to
`ScenarioRuns`, which has no session store. They meet in `runtime` only.
`DriveServer` composes `DriveTree` with the uploads: a step of it is a step of
the drive, of the uploads, or, when a complete upload is filed, of both.
`GmailApi` composes `GmailMailbox` with a client that pages, and says which
requests each surface (native routes, v1 routes, timeline) can make. `TierRuns`
stands on the other side of HTTP and knows a twin only by what it promises.

### Critical sections

A handler is a sequence of labels in `pc`. An action is what the handler does
from one `lock().await` to the release of that mutex. This is as fine as the
code: inside a section there is no other await, and state is only reached
through the mutex, so nothing else sees its middle. Sections that take two
mutexes in turn are two actions. Two parts are finer on purpose. create-session
holds the runtime while it waits for the session store
(`server-core/src/lib.rs:1694`): `runtimeLock` shows that wait, and every
other section waits for the runtime to be free. And `persist_run` holds the run
store over three file operations, which are actions of their own because a
crash can come between them; `RunStoreFree` keeps others out.

A request is identified with a constant of `Req`, which is used once; the number
of requests bounds the history. `MaxInFlight` bounds how many are in progress;
with 1 the model is a server with one sequential client.

**Disconnects.** `Disconnect` drops a request between any two of its sections.
The code has an await there, which suspends when the mutex is contended or when
tokio's cooperative budget is used up; the model lets it suspend always. A held
guard is released. In `ScenarioRuns` a request is not dropped inside
`persist_run`, which has no await.

**Crashes** are of the process. What was written stays written (no power loss).
With `TornWrites` a write that a crash or a full disk stops leaves a file that
does not parse, since `std::fs::write` truncates first; without it a write
happens or does not.

### State and code

`TwinKernel`: a runtime is a record of `kernel` and `service`. The service is
abstract. In `Sessions` it is the set of requests whose effect is in the state,
so "the log explains the state" is a relation between two sets; in
`ScenarioRuns` it is the sequence of what was applied, so order matters. An
event keeps its sequence number, logical time, session tag and a body. A hash
of a snapshot is the snapshot, so hashes never collide. `EventsOfSession`, the
filter of the log by session, gives the n-th event by counting those before it: the
same sequence as the code's loop, without recursion.

`Sessions`: `store` is `SessionStore` (its BTreeMap in key order is a function
on 1..n), `call` is what a handler keeps in local variables. A seed that the
twin refuses may or may not have changed part of the service. `saved` is the
snapshots that clients were given; a restore takes one of them or one that an
ended session has frozen, and leaves log and tag alone. A client that has spoiled
the service part is refused after the kernel was restored. `restored` is history:
the effects that came with the last restore.

`ScenarioRuns`: `scenario` is `ScenarioRuntime`, `disk` the run directory. A
scenario document has a name, a configuration, whether its initial state seeds,
a timeline of actions and at most one fault rule. Whether a pseudo-random draw
fires is the constant `Fires`, a set of pairs of seed and decision number: the
code hashes these two and three more values that are fixed for an action and a
rule. A refused initial state leaves the service empty. The assertions of
a scenario are one check of the whole service.

Both have reads (`QueryEvents`, `SessionEvents`, `GetRun`, `ListRuns`). A read
changes nothing, so it is an operator and no action; the properties are stated
with them, as what a client would be shown.

`DriveTree`: an item has a kind, a parent and a role for every actor. A request
is one step, as it runs under the runtime mutex; cascade delete and seeding are
loops whose rounds are steps, `lock` says which one runs, and the breadth-first
search goes level by level. `odd` is the parity of the level: it makes a search
that comes back to the same frontier a change of state, as the growing worklist
of the code is. Seeding is any sequence of `seed_item` calls that succeed, which
covers every order of the retry loop and every refused seed; which documents are
refused is the business of `DriveSeed`. Restore takes a snapshot that was taken
of this twin, not one that a client wrote by hand. Names, MIME types, revisions
and bytes are left out, and so are refused requests, which change nothing.

`DriveServer`: `uploads` is the static map; its mutex and the runtime mutex are
never held together. A chunk is handled in one section of the map, and the one
that completes the upload takes the session out and leaves it in `filing`, where
the handler waits for the runtime, may be overtaken by any change of the drive,
and may be dropped (`HangUp`). `requests` is the network: a chunk is taken from
it once or twice, in any order, and an answer reaches the client or not.
`client` is what the client knows: it sends what comes after the bytes it was
told of. Content is the numbers of its bytes, so that order and holes can be
seen. `filed` is history. `DriveParse` and `DriveSeed` have no state:
`RequestsUnderstood` and `SeedsExact` compare them with reference definitions on
all small inputs (bodies of up to `MaxBytes` bytes with either line end, queries of
up to `MaxClauses` clauses, documents of up to `MaxFiles` files), once, in the
initial state. Three clauses are two for one field and one between or behind them;
of the two the later one counts, while properties add up. A name or a value is a
sequence of up to `MaxWords` words between two quotes, into which the parser looks
as it does outside of them: `AnyText` has " and " and braces among its words,
`PlainText` has not. No text has a quote: clients escape one with a backslash,
which the parser leaves in the value.

`GmailMailbox`: ids are numbers, each kind in a map of its own, a negative number
being a seeded id that has none; below ten numbers sort as the ids do. A text is
the history id it arrived with, a date a day or the epoch of generated dates plus
the history id. Seeding is a step for each message, with an id that the document
names, whether it is in use or not, or a generated one; a refused seed stops where
it is. The labels of a request or a seed need not exist. Three variables are
history, and the properties that do not survive what they record name them:
`partial` (the last seed was refused), `collided` (a message has taken the id of
another, or of an attachment that was there) and `strays` (the label ids that were
put on a message while there was no such label). A restore brings back those of
its snapshot.
`GmailQuery` parses a sequence of tokens into the filter the code matches with.
In `GmailApi`, `pager` is a client in the middle of a listing; `seen`, `kept` and
`moved` are its history, `Watch` brings them up to date at each change.

`Discovery` holds the tables of the two twins' `discovery_meta`, and the routes
of the whole router, native, control plane and state inspection included, with
axum's dispatch: of the routes that match, one without a parameter goes first, a
verb the chosen one lacks is a 405. The methods have to arrive at their handlers;
only get and delete of a message whose id is "send" do not, since
`messages/send` is chosen for them.

`TierRuns`: the content of a twin is the set of runs that left something in it.
A run goes through validation, endpoints, reset, seed, attempts, snapshot and
assertions in the order of `cli.py` and `runner.py`, each of which may raise.
`scopes` is the stack of the `scoped_env`s that are entered; an exception leaves
them one by one. An agent is told its twins' URLs by an adapter, or reads
`os.environ` when it is a handler in the process; these may differ. `working` is
the agents at work. `subprocess.run` kills a command at its time limit (the
process it started, not that process's children, which are left out); nobody
stops an HTTP agent, so it stays in `working`. The engine's calls to a twin have
an answer or raise.

## Runs

| Run | Question | Bounds | States |
|---|---|---|---|
| `Sessions_concurrent` | what holds of sessions and log under every interleaving? | 4 requests, 3 in progress, disconnects | 0.6 M |
| `Sessions_live` | is every request answered? | 3 concurrent requests, disconnects, fairness | 111 k |
| `Sessions_sequential` | does one client get what `SessionContract` says? | 5 requests, 1 in progress, disconnects | 0.7 M |
| `ScenarioRuns_sequential` | do replays match, are faults a run's own? | 3 requests, 1 in progress, 4 scenarios, 1 crash, disconnects | 1.2 M |
| `ScenarioRuns_store` | are answered runs kept and listed? | 3 concurrent requests, 1 crash, failing writes, disconnects | 252 k |
| `DriveTree_any` | orphans, content, ids, exact deletes | 4 items, 1 actor, snapshots of 2 items | 0.9 M |
| `DriveTree_cycle` | violation: a delete that never ends | 4 items | |
| `DriveServer_tree` | forest and termination; do the views agree? | 3 items on three levels, 2 actors, permissions, clients without cycles | 70 k |
| `DriveServer` | one whole file of each upload? do uploads end? are requests and seeds understood? | 2 actors, an upload of 2 bytes in chunks of 1 or 2, 3 items, hang-ups | 180 k |
| `Gmail_mailbox` | do messages, threads, labels, attachments and counters agree, and the reads with them? | 4 generated ids, 4 history ids, seeds of 3 kinds of messages | 72 k |
| `Gmail_listing` | what does a paging client miss? | 4 generated ids, 4 history ids, pages of 1, 2 listings | 303 k |
| `TierRuns` | is a run judged by its own work, the environment restored, every run reported? | tiers of 2 out of 4 runs, 2 twins, 3 URLs, up to 2 attempts | 373 k |

Why the bounds are enough. Every conflict between handlers involves a session
that exists and two handlers that act on it, or a handler and a reset: that
is three or four requests. The kinds of two requests in conflict are all there,
since any request may be any kind. The run store needs one run before a crash,
one after it and one to look at them. A tree of a target, a child and a
grandchild beside the root tells a search of all levels from one of a single
level, and an id that a seed names (2) sits between the generated ones. The
requests of `Req` differ in their name only, so they are a symmetry set in the
safety runs; the liveness run has no symmetry.

Counters that the code never bounds are bounded by the number of requests
(sessions, runs, events) or by `MaxId`, which stops creation but neither seeding
nor anything else. `MaxSaved` bounds the drive or mailbox a snapshot is taken of,
`MaxCrashes` the crashes. `IdLimit` stands for 2^64 and is out of reach in the runs.

The bounds of the modules with routes, and of the engine. One upload of two
bytes can be sent in one chunk, in two, and in overlapping retries; a repeated
request makes two handlers of one upload without a second upload.
`DriveServer_tree` has no uploads; it is the run in which permissions change, as
`DriveTree_any` has one actor, an owner. A folder can be created, be the parent
of the upload, go, and come back as another actor's after a reset. `MaxId` stops
creation in `DriveServer` too, so `UploadEnds` excepts a drive that is at it.
`UnknownLength` is FALSE: clients say how long their content is. Content of five
bytes has room for a blank line in CRLF or LF with a byte in front of it. A name of
two words is long enough for plain text, which is all words alike.

Two messages in one thread and one in another, with a seeded one that has no
number, show every relation between messages and threads; pages of one message
need the most requests, so that changes come between. The
messages of a seed are of three kinds: without an id, with an id that has no number,
and with an id that the counter may not be past, an attachment and a label that
need not be there.
`MaxSaved` bounds what is restored: the empty drive, except in `DriveTree_any`, the
initial mailbox in `Gmail_mailbox`, and in `Gmail_listing` any mailbox without
messages. Snapshots with messages in them are too many for these runs; that their
restore keeps the invariants is proved. `UsePartial = FALSE`: after a refused seed the next change is
a reset, a restore or a seed. `Gmail_listing` has no seeds, which clear the
mailbox under the reader.

In `TierRuns` what a run does to another shows with two; the four kinds are a
command, an HTTP agent, a handler in the process with a plugin, and a run whose
environment names another twin; `MCJobs` has them in all pairs with the flags
and exported variables that matter. `JobType` says what a job may be.

**Deadlock** is checked in every run. `AllAnswered` and `Ended` are the last steps
of models whose requests or runs are used up; in any other state something must
be able to go on.

**Fairness.** `Sessions!FairSpec` has weak fairness of every section of a
request that has begun: tokio polls every woken task, and its mutex hands over
first come, first served. Nothing is fair about arrivals and disconnects.
`DriveTree!FairSpec` has weak fairness of the two steps of a delete, a loop
without an await. `ServerSpec` adds that a client which waits goes on sending,
and strong fairness of an answer to a request it sent and of filing: other
requests take both mutexes again and again, but the queues are first come, first
served. Answers may be lost for ever to a client that gives up; one that goes on
hears from the server at some time, or no upload over a network could end.
`TierRuns!FairSpec` has weak fairness of the engine, a single thread, and of the
time limit of a command, which `subprocess.run(timeout=..)` enforces. Nothing
makes other agents answer: `urlopen(timeout=..)` (`adapters.py:54`) limits each
wait on the socket and not the attempt, so an HTTP agent that sends a byte now and
then keeps the tier for ever, and so can a handler in the process, or `timeout_s`
0. `EveryRunReported` says that a run is reported or stays for ever in an attempt
of one of these kinds (`EndsByItself` is FALSE). It takes twins for granted that answer or fail, which is what
`EveryRequestAnswered` shows of them and `DriveTree_cycle` refutes.

### What the runs show

* However requests interleave, the log is numbered from 1 without gaps, a
  mutation in the state is in the log, about to be recorded, of a client that
  disconnected or came with the last restore, ended sessions stay ended, and what
  is frozen for a session are its own events in order.
* Taking the session store with the runtime held, with dropped handlers and all,
  blocks nobody for ever, and only a create-session ever holds a mutex so.
* One client at a time gets sessions as `SessionContract` has them. A reset or
  seed *cuts off* a session: it stays active in the store and takes no events.
* One request at a time, scenario runs are deterministic and keep their own
  faults, even after a run whose client disconnected or whose server crashed.
* The run store keeps and lists every answered run through concurrent persists,
  failing writes and a crash anywhere, as long as no write is torn.
* The Drive tree keeps its invariants under any requests, cycles included.
* However chunks, retries, hang-ups, deletes and resets interleave, an upload
  becomes at most one file, and that file has the bytes of the client in order.
* The v3 views of the drive agree with each other, and seed documents come out as
  meant. Multipart bodies do from clients that end lines with CRLF; from those that
  use LF exactly the contents without a blank line in CRLF and without a CR at the
  end. Queries do if their names and values hold neither " and " nor a brace.
* Threads, attachments, labels and both counters agree with the messages after
  any requests, with three exceptions: a refused seed; a mailbox where a message
  has taken an id in use; and label ids that were put on a message while there was
  no such label. Only seeds, what follows a refused one, and restores of such a
  mailbox make a message take an id in use.
* A client that pages misses nothing that stayed in place unless something left
  the list before it, and paging ends as long as the mailbox rests.
* Every method of both discovery documents is served by its handler.
* A tier judges each run by its own effects. The one exception is an HTTP agent
  that was given up: it can reach the snapshot of a later run.
* A tier reports each of its runs, unless one waits for ever for an agent that
  nothing stops.

### What the code does differently from what it says

`DriveTree_cycle` ends with a counterexample: a folder may be moved below itself,
and the search of a delete (`twin-drive/src/lib.rs:684-690`) has no visited set,
against the comment at line 673; it runs for ever and holds the runtime mutex.

These are stated by definitions that no run checks, or that hold for the
constants of the runs only; TLC refutes each of them as described.

| Definition | Refuted with | What the code does |
|---|---|---|
| `OneActiveSession` | `Req` of 2, `MaxInFlight = 2` | "Auto-end any currently active session before creating a new one" (`server-core/src/lib.rs:1685`) holds for one client only |
| `FrozenNeverRewritten` | `Req` of 3, `MaxInFlight = 2` | end-session does not look at the status again (1814-1821): the later of two ends rewrites what the earlier froze (`twins/ARCHITECTURE.md:147`) |
| `AnsweredRunsKept` | `TornWrites = TRUE`, `MaxInFlight = 1`, `MaxCrashes = 1`, `ShortOnly` | an index that does not parse counts as empty (474): numbers start again and artifacts are overwritten (`twins/ARCHITECTURE.md:61`) |
| `BundlesFaithful` | `Req` of 3, scenarios `SlowOnly` | the bundle of a run in memory has the events and the snapshot of the present (1489-1492, `twins/ARCHITECTURE.md:176`) |
| `ReplaysMatch`, `OwnFaultsOnly` | `MaxInFlight = 2` | an interleaved request changes a replay; of two concurrent runs one gets the rules of the other |
| `SplitsAtFirstBlankLine` | the constants of `DriveServer` | of LF and CRLF `split_headers_body` looks for CRLF first, anywhere in the part (`twin-drive/src/lib.rs:2541`), so from a client with LF, such as Google's Python SDK, content with a blank line in CRLF loses its beginning, against the comment at line 2537 ("at the first blank line") |
| `ClausesSupported` | those with `MaxClauses = 1` | `split_v3_clauses` (`twin-drive/src/lib.rs:961`) does not look at quotes: `name='a and b'` cuts its own clause, and a name with a `{` hides the clauses behind it, against the comment at lines 885-889 (`name='<value>'`) |
| `FreshIds` of the two twins | an `IdLimit` that a seed reaches | `bump_next_id` wraps in a release build |

A reset leaves the active session untagged (`server-core/src/lib.rs:1222`). A
session that ends between a request and the recording of its event freezes a
snapshot that its events do not explain, and a client that disconnects there
leaves a mutation that no event mentions. A snapshot, a reset and a restore bring
mutations back whose events the reset has cleared (1309-1316): a snapshot holds no
log, and a restore leaves the log as it is. `EffectsLogged` excepts what a
disconnected client and what the last restore have left.

More that reading and modelling brought up, for those who change this code:

* **Drive.** An upload without a declared length completes at its first chunk
  when the range has `*` for the total. A chunk past the declared length is
  refused after it was appended, and the upload is stuck. The status query
  `bytes */N` is refused. A client that starts again after a 404 makes a second
  file. The native listing of a folder shows items that its reader may not get.
  The document announces `orderBy`, `spaces` and `fields`, which are not used.
  `validate_scenario` accepts cycles and files as parents; seeding refuses them.
  A quote that a client escapes with a backslash keeps the backslash in the value.
* **Gmail.** A refused seed leaves `next_id` behind the ids it stored
  (`twin-gmail/src/lib.rs:382`), so the next message may replace one of them. In
  a seed that is accepted, too, the counter passes the named ids only at the end
  (2566): of `[{id: msg_2}, {no id}]` the second message gets the id of the first,
  replaces it, and leaves its thread and its attachments behind. Nobody checks
  that the labels put on a message exist (912-915).
  `-label:NAME` compares ids. `threads.list` announces `q` and ignores it.
  `labels.update` may give two labels one name. A seeded `thread_id` counts only
  if that thread exists. A thread's history id goes back when its last message
  goes. `validate_scenario` sees neither duplicate attachment ids nor content that
  does not decode.
* **Server core.** `/state/tree` shows the first node without a parent and what is
  below it, not the others. An error whose text has "not
  found" in it, as a label's name may, becomes a 404.
* **Engine.** A run's policy overrides what the shell exported
  and, in validation, even `--unsafe-plugins`, against "Policy Precedence" in
  `docs/agent-sandbox/api.md:75-79`. A plugin that one run may load is loaded for
  the runs after it (`plugins.py:43`). With an exported twin URL and an
  environment that names another, a handler in the process works on the exported
  twin while reset, seed and snapshot go to the environment's (`runner.py:1066-1071`).
  An environment without a URL keeps that of the run before (`cli.py:688`). A
  status passes if it contains OK, such as NOT_OK (`cli.py:603`).
  `--stop-on-failure` stops at exceptions, not at a rejected status. A retry does
  not reset, so effects are applied twice. `timeout_s` is the limit of each wait on
  an HTTP agent's socket, so one that trickles its answer is never given up
  (`adapters.py:54`, 75).

## Proofs

Each invariant below is proved for every value of the constants that the named
ASSUMEs allow, by an inductive invariant: the initial states have it, each action
has a lemma that it keeps it, and it implies what the runs check. What an
invariant has to say beyond the property is the interesting part.

**`SessionsProofs`**, for any number of requests, in progress together or not, with
and without disconnects:
`TypeCorrect`, `AlwaysNumbered`, `MutationsAreLogged`, `LockIsOwned` (only a
create-session that waits for the session store holds the runtime mutex between
two steps) and `EndingIsFinal`. `EffectsLogged` is not inductive. A restore may
bring any snapshot back that a client holds, so `RestorableType` has the shape of
all of them, and `restored` takes in the effects that come with it until the next
reset (`ControlRestoreStep`). When
create-session seeds the state, the new effect has no event, and only the
conjunct of `TypeOK` that ties labels to operations says that it is not a data
request's. Recording appends an event whose number is the kernel's counter, so
`LogNumbered` ties the counter to the length of the log. Ending is final because
the two actions that end a session and the one that adds one leave every other
session alone.

`FrozenEventsAreOwn` is `FrozenOwnEvents`, whatever overtakes the end of a session.
A record is captured in one section and stored in another, and in between the log
may grow, be frozen by somebody else, or be cleared by a reset. `FrozenInv`
speaks of every record that is known, one still in a request's hands included: it
is the filtered log of its session, and the live log either starts with it or has no
event of it. The second case is where events after a reset could be mistaken for
those before it, since numbers start at 1 again; they cannot, because a request
records one event and is done. The lemmas `FilterAppend` and `FilterEmpty` say what
the filter does when the log grows or is cleared.

`OneClientSeesContract` is the refinement: if `MaxInFlight = 1`, every step is a
step of `SessionContract` or changes nothing it speaks of. `TurnsInv` says what one
request may rely on when nobody runs between its sections: at most one
session is active, and one that is active without being tagged has no events; no
session is active and the log is empty when create-session inserts one; what an end
has captured is still what the session's log is. Requests that open, serve, end
and cut off a session have a lemma each (`InsertView`, `RecordView`, `EndView`,
`ResetView` and `DisconnectView`), and `UnseenView` is about the rest. A client that
leaves after its session was inserted and before it was tagged cuts it off. With two
requests in progress the theorem is false; the run `Sessions_concurrent` does not
check the contract.

**`DriveTreeProofs`**, for every set of actors, ids and seeds and any number of
items: `TypeCorrect`, `NeverOrphans`, `ContentIsOwned`, `DeleteIsExact`,
`IdsStayFresh` (below `IdLimit`) and `StaysAcyclic` (if moreover clients never
move a folder below itself). A delete removes what its search found, so the tree
that is left has no orphans only if the search was closed: `SearchInv` says that
the root is never found and that the children of every found item are found too,
or the item is on the frontier, which is empty when the removal starts. A restore
brings back a snapshot, so what is claimed of the drive is claimed of `saved` too.
For `DeleteIsExact`, `SearchExact` adds the other inclusion: what was found is
contained in every closed set with the target.

**`DriveServerProofs`**. `ServerImplementsDrive` is the refinement `ServerSpec =>
Spec`: every step of the server is a request of `DriveTree` or leaves the drive
alone, which needs that the actors that tokens resolve to, and the actor and the
parent of a session in the map, are some that the drive knows. `ServedDriveIsSound`
draws the conclusion. For uploads, `InOnePlace` says that an upload is in the table, with one
handler or in one file, `PrefixInv` that whatever is stored is the beginning of
the content and that a chunk on its way is the piece its range says, `LengthInv`
what the declared length is. `UploadsMakeOneFile` and `UploadsArePrefixes` need no
more; `UploadsAreWhole` holds if lengths are declared. `ViewsStayInAgreement` is
proved from the invariants of the drive and one more, that the root has no content
of its own. Its last part, that the subtrees of the items without parents are all
there is, climbs from an item as far as it goes: in a set closed under parents
and without a cycle, it goes to an item without a parent.

The functions of a request are proved for input of any length. *Seeding*
(`SeedsAnyForest`, then `SeedsAreExact`): `SeedInv` says of the retry loop that
what is stored is a forest of files of the document, each with its parent;
`RoundProgress`, that of a forest a round stores at least one of the files that
wait. So as many rounds as there are files are enough, in whatever order they are
listed, and what is refused is no forest. *Multipart*
(`MultipartUnpacked`): the delimiter is in three places of a body, so it has two
parts (`TwoParts`). With CRLF the first blank line of a part is that of its header,
so line ends and blank lines of the content stay in it (`UnpackedCRLF`). With LF it
is only if the content has no blank line in CRLF, since the parser prefers that
one, and the content keeps its end only if that is no CR (`UnpackedLF`); for any
other content the theorem says that it does not come out. *Queries*
(`QueriesUnderstood`): a place is nested if a brace before it stays open up to it.
`NestedInPrefix` says that this depends on what is before the place only, `OpenedIsNested` and
`ClosedIsNotNested` what braces do, and `LinkedCuts` and `LinkedPieces` that a query
with one more clause is split into the clauses it had and that one; `HasIsUndivided`
keeps the `and` of a property in its clause, and `OneGives` reads a clause. Names and
values are sequences of any length without `and` and braces, with which the theorem
is false (`ClausesSupported` in the table above). `RequestsAreUnderstood` puts the two parsers
together for the requests of the model.

**`GmailMailboxProofs`, `GmailApiProofs`**, for any number of messages and ids.
`MailInv` is claimed of the mailbox and of its snapshot. It has the types; *links*
(a message's thread and labels exist, a thread has a message, attachments belong
to one message); *numbers* (each id is below the counter or can be passed without wrapping, and
between requests the counter is past them all unless a seed was refused); and
*stamps* (a history id that two messages share, they got in one change of one
thread). Four of the invariants are
parts of it. There are no hypotheses about clients or seed data: a message that
takes an id in use leaves the thread and the attachments of the one it replaces
behind, so the links of attachments and `ShowsInv` are claimed until `collided`, and
`ThreadsExact` says that every message has its thread even then. What is excepted
is far from ordinary requests: `SeedsAloneCollide` says that a step makes
`collided` true only while a seed runs, after a refused one, or as a restore of
such a mailbox, because otherwise the counter is past every id (`GeneratedIsNew`,
`SentIsNew`, `InsertedIsNew`). `LabelsAreThere` has `strays` in its statement, the
label ids no handler has checked.
`ThreadsShowLatest` has an invariant of its own, `ShowsInv`: whenever a message is
added, deleted or relabelled, the thread is refreshed from its latest message,
which is one of those that were there before, or the new one.

`PagingMissesNothing` is about a list that moves. A listing is a set with an
order, and `OrderLemmas` proves that counting the larger ones ranks a finite set
without a gap, so that a page is the messages of a range of ranks. `PagerInv` says
that what was kept and has a rank before the client's offset was seen. `RankStays`
says that a rank does not fall as long as nothing leaves from before it, so what
is added or moves up only makes a client see things twice. The last page has all
ranks from its offset on, so nothing is left. `PagingGoesOn`,
`ReadsAreOne` and `SearchMeansTokens` are about the operators: they hold of every
mailbox with `MailInv`, and of queries of any length.

`DatesCountDays` says that the days-from-civil arithmetic of the code counts the
days since 1970-01-01 one by one, leap years included, for every year from 1970
on. `LeapsCount` is the part about years: the divisions by 4, 100 and 400 count the
leap years, by their eras of 400 years. `MonthTable` is the part about the months
of a year that begins in March. A day past the end of its month (`2024/02/31`)
counts on into the next, as the code accepts it. With it, `SearchesAreExact` is
`QueryMeansTokens` whole.

**`TierRunsProofs`**. `EnvironmentIsRestored`: a scope remembers what a variable was
before it; scopes nest, so the invariant is about the outermost scope that
remembers a variable: it has the value that the shell exported, and a variable no
scope remembers has that value now. `JudgedByOwnEffects`: `ContentInv` says that
what a twin has beside the work of the current run is of runs that gave up an
agent, and `AgentInv` that an agent still at work is of such a run or of the
current one. `EndIsReported` is a safety part of `EveryRunReported`.

**`ScenarioRunsProofs`**. `RunInvariant` holds whatever is lost, torn or
interleaved. Its heart is a count: the numbers given out are as many as the
requests that have one, so a run number is never past the number of requests,
although a torn index makes numbers start again. `TypeInvariant` follows.

With writes that fail whole, `KeptInvariant` gives the run store: the number of a
run in progress is its own and not yet in the index; only one request is between
reading and writing the index, and what it read is still there; a run that was
answered is listed, its artifact is on disk, and what memory has of it is the same.
`AnsweredRunsStay` and `AnsweredRunsAreListed` follow. The hypothesis
`~TornWrites` cannot be dropped; the run with torn writes is in the table above.

When clients take turns (`MaxInFlight = 1`), `OwnInv` says that the rule in force is
that of the run in progress, so that whatever is recorded, kept in memory or
written is its own: `FaultsAreOwn`. `ReplaysAlwaysMatch` says that a run comes to the
same each time. The proof gives what a document's run comes to in closed form:
`EndsAt` says after how many actions it ends, `Outcomes`, `Fired`, `Service` and
`SnapshotAt` what it has then recorded and left behind. `ReplayInv` says that a
run in progress is where its document says after `k` actions, and that every
artifact in memory or on disk, cut short or not, is what its document predicts
(`Predicted`) or does not load. `EndsOnce` says that a document's run ends in one
place only, so that two artifacts of one document match.

**Assumptions** are the named ASSUMEs of the modules, which TLC evaluates in their
runs, and the hypotheses that stand in the theorems. Among the former are that
sets of requests and ids are finite and that `Nil`, `None` and `Torn` are not
confused with data (a sentinel of the models, an `Option` in the code), nor
`NoSession` with a session's number.

**Induction.** The library's induction theorems take an operator, which the
provers cannot instantiate. Where a fact about numbers or finite sets needs
induction, the proof takes the least counterexample instead: `OrderLemmas` has
least elements of sets of numbers and of finite ordered sets. `Recursion` in
`DriveServerProofs` shows in the same way that a function on `0..n` exists whose
value at each place is made of the one before, and `SameThroughout` that there is
one only. So what `Seed` and `Joined` compute, which go through a sequence place by
place, is proved and not only their use.

**Only model-checked**: liveness (`EveryRequestAnswered`, `DeleteTerminates`,
`UploadEnds`, `EveryRunReported`), which needs fairness and ENABLED; and
`DiscoveryServed`, which speaks of a finite table without constants, so that TLC
has checked all of it.

## Plan

1. Done: `TwinKernel`, `Sessions` and `DriveTree` with their proofs,
   `SessionContract`, `ScenarioRuns`.
2. Done: `DriveServer` with `DriveParse` and `DriveSeed`; `GmailMailbox`,
   `GmailQuery`, `Discovery` and `GmailApi`; `TierRuns`; the reads of `Sessions`
   and `ScenarioRuns`.
3. Done: the proofs of `TierRuns`, `DriveServer`, `GmailMailbox`, `GmailApi` and
   `ScenarioRuns`; of `Sessions`, the frozen logs and the refinement of
   `SessionContract`.
4. Done: the calendar of `GmailQuery`, the seed loop of `DriveSeed` and the
   parsers of `DriveParse`, for inputs of any length.
5. Done: snapshot and restore of `Sessions`; text between quotes and both line ends
   in `DriveParse`; seeds with ids in use and labels that are not there in
   `GmailMailbox`, with the proofs of each.
6. Left: composing `Sessions` with `ScenarioRuns` over one runtime; scenario diffs.

## Not modelled

* **Binaries, generated types, twin-cli**: they bind a socket, or are or generate
  text; no state outlives a call.
* **Telemetry, docker, CI, schemas, examples**: tracing, deployment and data.
* **SDK providers and assertions**: client calls and functions of one snapshot.
* **EnvConfig, CORS, registries, capabilities, doctor and init commands**: they are
  read once, or print.
* **Scenario diffs and the validation of scenario and run documents** beyond
  `DriveSeed`: comparisons and schema checks by a library; a refusal is a step.
* **JSON, MIME and wording** of requests and answers: only what is in them, and
  where a parser is written by hand (`DriveParse`, `GmailQuery`), how it is found.
