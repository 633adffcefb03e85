------------------------------ MODULE DriveServer ------------------------------
(***************************************************************************)
(* The Drive twin behind its routes: requests with their actors resolved,  *)
(* what the reads answer, and the resumable upload (route_v3_upload_file,  *)
(* route_v3_resumable_chunk), whose sessions live in a table of their own  *)
(* with a mutex of its own.                                                *)
(*                                                                         *)
(* A chunk that completes an upload takes the session out of the table,    *)
(* releases the table and then waits for the runtime mutex: between the    *)
(* two, anything may happen to the drive, and a client that hangs up takes *)
(* the handler with it.  Clients send chunks until they are told how the   *)
(* upload ended; answers get lost, requests are sent twice and come late.  *)
(***************************************************************************)
EXTENDS DriveTree, DriveParse, DriveSeed

CONSTANTS
  Token,          \* bearer tokens
  TokenActor,     \* actors.json: some tokens and their actors
  HashActor,      \* the actor made up for a token that is not in it
  DefaultActor,   \* the actor of a request without credentials
  Reject,         \* reject_unauthenticated
  Total,          \* lengths of contents that clients upload
  MaxChunk,       \* the longest chunk they send
  MaxUploads,     \* bound: uploads that are started
  UnknownLength,  \* do clients leave the length open?
  Hangups         \* do clients hang up while a handler waits?

ASSUME ServerAssumption ==
  /\ DefaultActor \in Actor /\ HashActor \in [Token -> Actor]
  /\ DOMAIN TokenActor \subseteq Token /\ Range(TokenActor) \subseteq Actor
  /\ Total \subseteq Nat \ {0} /\ MaxChunk \in Nat \ {0} /\ MaxUploads \in Nat
  /\ {Reject, UnknownLength, Hangups} \subseteq BOOLEAN

VARIABLES
  uploads,   \* upload id -> session: actor, parent, declared length, bytes
  requests,  \* chunk requests on their way
  filing,    \* handlers with a complete upload, waiting for the runtime
  filed,     \* history: uploads that became files
  client     \* upload id -> what its client knows

uploadVars == <<uploads, requests, filing, filed, client>>
serverVars == <<vars, uploadVars>>

Unknown == NoParent   \* an absent header, length or filter

-----------------------------------------------------------------------------
(* Actors. *)

\* AuthConfig::resolve_actor: a header with an actor id, else a bearer token,
\* else the default; no credentials may also mean no actor (401).
ResolveActor(header, token) ==
  IF header # Unknown THEN header
  ELSE IF token \in DOMAIN TokenActor THEN TokenActor[token]
  ELSE IF token # Unknown THEN HashActor[token]
  ELSE IF Reject THEN Unknown ELSE DefaultActor

\* The actors that v3 requests come from, whichever credentials they carry.
V3Actor ==
  {ResolveActor(h, t) : h \in Actor \cup {Unknown}, t \in Token \cup {Unknown}} \ {Unknown}

-----------------------------------------------------------------------------
(* Requests of the three kinds of routes that change the tree. *)

\* The native routes take the actor from the body or the query.
NativeRequest ==
  \/ \E a \in Actor, p \in DOMAIN items, kind \in {"file", "folder"} : CreateItem(a, p, kind)
  \/ \E a, target \in Actor, i \in DOMAIN items, role \in GrantableRoles :
       SetPermission(a, i, target, role)
  \/ \E a \in Actor, i, p \in DOMAIN items : MoveItem(a, i, p)
  \/ \E a \in Actor, i \in DOMAIN items : DeleteStart(a, i)

\* files.create
V3Create == \E a \in V3Actor, p \in DOMAIN items, kind \in {"file", "folder"} :
              CreateItem(a, p, kind)

\* files.update: without a parent it only renames.
V3Update == \E a \in V3Actor, i \in DOMAIN items, p \in DOMAIN items \cup {NoParent} :
              UpdateItem(a, i, p)

V3Delete == \E a \in V3Actor, i \in DOMAIN items : DeleteStart(a, i)

\* permissions.create
V3Share == \E a \in V3Actor, target \in Actor, i \in DOMAIN items, role \in GrantableRoles :
             SetPermission(a, i, target, role)

\* uploadType=media: the body is the content.
MediaUpload == \E a \in V3Actor, p \in DOMAIN items : UploadContent(a, p)

\* multipart/related: the metadata and the content are two parts of the body; a
\* body that does not parse into them is refused.
MultipartUpload == \E a \in V3Actor, p \in DOMAIN items : UploadContent(a, p)

V3Request == V3Create \/ V3Update \/ V3Delete \/ V3Share \/ MediaUpload \/ MultipartUpload

TimelineAction ==
  \/ \E a \in Actor, p \in DOMAIN items, kind \in {"file", "folder"} : CreateItem(a, p, kind)
  \/ \E a, target \in Actor, i \in DOMAIN items, role \in GrantableRoles :
       SetPermission(a, i, target, role)
  \/ \E a \in Actor, i \in DOMAIN items : DeleteStart(a, i)

DriveStep ==
  /\ NativeRequest \/ V3Request \/ TimelineAction
     \/ Seeding \/ DeleteVisit \/ DeleteRemove \/ Reset \/ Snapshot \/ Restore
  /\ UNCHANGED uploadVars

-----------------------------------------------------------------------------
(* Resumable uploads. *)

NextUpload == Cardinality(DOMAIN client) + 1

\* The content of an upload is the numbers of its bytes.
Bytes(from, to) == [i \in 1..(to - from + 1) |-> from + i - 1]

\* f with another key: an upload id is new whenever it is inserted.
With(f, k, v) == [x \in DOMAIN f \cup {k} |-> IF x = k THEN v ELSE f[x]]

\* The session is stored without a look at the parent.
StartUpload(a, p, n, declared) ==
  /\ NextUpload <= MaxUploads
  /\ uploads' = With(uploads, NextUpload,
       [actor |-> a, parent |-> p, declared |-> declared, data |-> <<>>])
  /\ client' = With(client, NextUpload, [total |-> n, pos |-> 0, outcome |-> "open"])
  /\ UNCHANGED <<vars, requests, filing, filed>>

\* The client sends the chunk behind what it was told is there, or sends it
\* once more.
SendChunk(u, k, total) ==
  LET pos == client[u].pos IN
  /\ client[u].outcome = "open" /\ pos + k <= client[u].total
  /\ requests' = requests \cup
       {[upload |-> u, start |-> pos, body |-> Bytes(pos + 1, pos + k), total |-> total]}
  /\ UNCHANGED <<vars, uploads, filing, filed, client>>

\* A request leaves the network, unless it was sent twice.
Take(r) == r \in requests /\ requests' \in {requests, requests \ {r}}

\* Answers: lost, or read by a client that still waits for one.
Tell(u, answered, news) ==
  client' = IF answered /\ client[u].outcome = "open" THEN [client EXCEPT ![u] = news] ELSE client

TellEnd(u, answered, outcome) == Tell(u, answered, [client[u] EXCEPT !.outcome = outcome])
TellRange(u, answered, n) == Tell(u, answered, [client[u] EXCEPT !.pos = n])

Stored(u) == Len(uploads[u].data)

\* 404: no such upload, or no more
ChunkUnknown(r, answered) ==
  /\ Take(r) /\ r.upload \notin DOMAIN uploads
  /\ TellEnd(r.upload, answered, "gone")
  /\ UNCHANGED <<vars, uploads, filing, filed>>

\* 308: the chunk does not start where the data ends.
ChunkMisplaced(r, answered) ==
  /\ Take(r) /\ r.upload \in DOMAIN uploads /\ r.start # Stored(r.upload)
  /\ TellRange(r.upload, answered, Stored(r.upload))
  /\ UNCHANGED <<vars, uploads, filing, filed>>

Expected(r) == IF r.total # Unknown THEN r.total ELSE uploads[r.upload].declared

Extended(r) == [uploads[r.upload] EXCEPT !.data = @ \o r.body]

\* Mutant: the bytes are appended to a copy of the session.
ChunkStoredInCopy(r, answered) ==
  LET u == r.upload
      n == Len(Extended(r).data)
  IN /\ Take(r) /\ u \in DOMAIN uploads /\ r.start = Stored(u)
     /\ Expected(r) # Unknown /\ n # Expected(r)
     /\ IF n < Expected(r) THEN TellRange(u, answered, n)
        ELSE TellEnd(u, answered, "refused")
     /\ UNCHANGED <<vars, uploads, filing, filed>>

\* 308, and 400 with the bytes kept when they are too many
ChunkStored(r, answered) ==
  LET u == r.upload
      n == Len(Extended(r).data)
  IN /\ Take(r) /\ u \in DOMAIN uploads /\ r.start = Stored(u)
     /\ Expected(r) # Unknown /\ n # Expected(r)
     /\ uploads' = [uploads EXCEPT ![u] = Extended(r)]
     /\ IF n < Expected(r) THEN TellRange(u, answered, n)
        ELSE TellEnd(u, answered, "refused")
     /\ UNCHANGED <<vars, filing, filed>>

\* Mutant: the session stays in the table until its file is there.
ChunkCompletesKeepsSession(r) ==
  LET u == r.upload IN
  /\ Take(r) /\ u \in DOMAIN uploads /\ r.start = Stored(u)
  /\ Expected(r) \in {Unknown, Len(Extended(r).data)}
  /\ filing' = filing \cup {[upload |-> u, start |-> r.start, session |-> Extended(r)]}
  /\ UNCHANGED <<vars, uploads, filed, client>>

\* Mutant: no look at where the chunk starts.
ChunkCompletesAnywhere(r) ==
  LET u == r.upload IN
  /\ Take(r) /\ u \in DOMAIN uploads
  /\ Expected(r) = Unknown \/ Len(Extended(r).data) >= Expected(r)
  /\ uploads' = [v \in DOMAIN uploads \ {u} |-> uploads[v]]
  /\ filing' = filing \cup {[upload |-> u, start |-> r.start, session |-> Extended(r)]}
  /\ UNCHANGED <<vars, filed, client>>

\* The last chunk, or any one when nobody said how many bytes there are.
ChunkCompletes(r) ==
  LET u == r.upload IN
  /\ Take(r) /\ u \in DOMAIN uploads /\ r.start = Stored(u)
  /\ Expected(r) \in {Unknown, Len(Extended(r).data)}
  /\ uploads' = [v \in DOMAIN uploads \ {u} |-> uploads[v]]
  /\ filing' = filing \cup {[upload |-> u, start |-> r.start, session |-> Extended(r)]}
  /\ UNCHANGED <<vars, filed, client>>

\* The handler gets the runtime mutex: 201 with the file, or 403, 404 or 400
\* when the parent is no folder the actor may edit any more.
FileUpload(h, answered) ==
  LET s == h.session IN
  /\ h \in filing /\ filing' = filing \ {h}
  /\ \/ /\ UploadContent(s.actor, s.parent)
        /\ filed' = filed \cup {[upload |-> h.upload, item |-> nextId, data |-> s.data]}
        /\ TellEnd(h.upload, answered, "created")
     \/ /\ lock = "free" /\ ~UsableParent(s.parent, s.actor)
        /\ TellEnd(h.upload, answered, "refused")
        /\ UNCHANGED <<vars, filed>>
  /\ UNCHANGED <<uploads, requests>>

\* The client hangs up: the handler is dropped where it waits.
HangUp(h) ==
  /\ Hangups /\ h \in filing /\ filing' = filing \ {h}
  /\ UNCHANGED <<vars, uploads, requests, filed, client>>

Lengths(n) == IF UnknownLength THEN {n, Unknown} ELSE {n}

UploadStep ==
  \/ \E a \in V3Actor, p \in DOMAIN items, n \in Total :
       \E declared \in Lengths(n) : StartUpload(a, p, n, declared)
  \/ \E u \in DOMAIN client, k \in 1..MaxChunk :
       \E total \in Lengths(client[u].total) : SendChunk(u, k, total)
  \/ \E r \in requests, answered \in BOOLEAN :
       ChunkUnknown(r, answered) \/ ChunkMisplaced(r, answered) \/ ChunkStored(r, answered)
  \/ \E r \in requests : ChunkCompletes(r)
  \/ \E h \in filing, answered \in BOOLEAN : FileUpload(h, answered)
  \/ \E h \in filing : HangUp(h)

-----------------------------------------------------------------------------
(* Reads. *)

\* twin_error_to_v3_response, for the three ways a request is refused
Status(found, allowed, possible) ==
  IF ~found THEN 404 ELSE IF ~allowed THEN 403 ELSE IF ~possible THEN 400 ELSE 200

\* files.get, of the metadata and of the content (alt=media)
GetStatus(a, i) == Status(i \in DOMAIN items, HasRole(i, a, Viewer), TRUE)
DownloadStatus(a, i) == Status(i \in DOMAIN items, HasRole(i, a, Viewer), i \in content)

\* drive_item_to_v3_file
V3File(i) ==
  [id |-> i, parents |-> {items[i].parent} \ {NoParent},
   permissions |-> {[id |-> b, role |-> items[i].role[b]] :
                      b \in {c \in Actor : items[i].role[c] # NoRole}}]

\* Mutant: the items are not looked at one by one.
V3ListOfParent(a, p) ==
  IF p # Unknown /\ GetStatus(a, p) # 200 THEN {}
  ELSE {V3File(i) : i \in {j \in DOMAIN items \ {Root} : p \in {Unknown, items[j].parent}}}

\* item_matches_filter
Matches(i, p) == p = Unknown \/ items[i].parent = p

\* files.list: all that the actor may see, or what is in a folder it may see.
V3List(a, p) ==
  IF p # Unknown /\ GetStatus(a, p) # 200 THEN {}
  ELSE {V3File(i) : i \in {j \in DOMAIN items \ {Root} : Matches(j, p) /\ HasRole(j, a, Viewer)}}

\* The native listing of a folder asks for the role on the folder only.
ListChildren(a, p) == IF HasRole(p, a, Viewer) THEN Children({p}) ELSE {}

\* inspect_state and state_items: every item, for whoever asks.
StateNodes ==
  {[id |-> i, parent |-> items[i].parent, roles |-> items[i].role,
    hasContent |-> i \in content] : i \in DOMAIN items}

\* state_tree: what is reached from the root.
StateTree == Below(Root)

\* evaluate_assertion
Asserted(check) ==
  CASE check.type = "no_orphans"       -> Rooted(items)
    [] check.type = "item_exists"      -> check.item \in DOMAIN items
    [] check.type = "actor_can_access" -> HasRole(check.item, check.actor, Viewer)

-----------------------------------------------------------------------------
(* The specification. *)

ServerInit ==
  /\ Init
  /\ uploads = <<>> /\ requests = {} /\ filing = {} /\ filed = {} /\ client = <<>>

ServerNext == DriveStep \/ UploadStep

\* The answer that a client waits for.
Answer(u) ==
  \E r \in requests :
    /\ r.upload = u /\ r.start = client[u].pos
    /\ ChunkUnknown(r, TRUE) \/ ChunkMisplaced(r, TRUE) \/ ChunkStored(r, TRUE)
       \/ ChunkCompletes(r)

\* A client goes on sending, and some of its requests are answered.  Loops
\* under the runtime mutex end if they can, and the mutex is fair: a handler
\* that waits for it gets its turn.
ServerSpec ==
  /\ ServerInit /\ [][ServerNext]_serverVars
  /\ WF_serverVars((DeleteVisit \/ DeleteRemove) /\ UNCHANGED uploadVars)
  /\ WF_serverVars(SeedEnd /\ UNCHANGED uploadVars)
  /\ \A u \in 1..MaxUploads :
       /\ WF_serverVars(u \in DOMAIN client /\ \E k \in 1..MaxChunk :
                           SendChunk(u, k, client[u].total))
       /\ SF_serverVars(u \in DOMAIN client /\ Answer(u))
       /\ SF_serverVars(\E h \in filing, answered \in BOOLEAN :
                           h.upload = u /\ FileUpload(h, answered))

-----------------------------------------------------------------------------
(* Properties. *)

\* The history of an upload: open, with handlers, or filed.
OpenIn(u) == DOMAIN uploads \cap {u}
HandledIn(u) == {h \in filing : h.upload = u}
FiledIn(u) == {f \in filed : f.upload = u}

\* Retries, late requests and requests that race each other never make two
\* files of one upload, and a client that is told its file is there is told so
\* by the one handler that filed it.
OneFilePerUpload ==
  \A u \in DOMAIN client :
    /\ Cardinality(OpenIn(u)) + Cardinality(HandledIn(u)) + Cardinality(FiledIn(u)) <= 1
    /\ client[u].outcome = "created" => FiledIn(u) # {}

\* Whatever order chunks arrive in, the table holds the first bytes of the
\* content, at least as many as the client was told, and a file all of them.
UploadWhole ==
  /\ \A u \in DOMAIN uploads :
       /\ uploads[u].data = Bytes(1, Stored(u))
       /\ client[u].outcome = "open" => client[u].pos <= Stored(u)
  /\ \A h \in filing : h.session.data = Bytes(1, client[h.upload].total)
  /\ \A f \in filed : f.data = Bytes(1, client[f.upload].total)

\* Every upload ends: a client that goes on sending is told how, and the last
\* handler gives up what it holds.  (Or the drive is at the bound of the model.)
UploadEnds ==
  \A u \in 1..MaxUploads :
    u \in DOMAIN client ~>
      \/ u \in DOMAIN client /\ client[u].outcome # "open" /\ HandledIn(u) = {}
      \/ nextId > MaxId

\* The views of the drive agree: what the Drive API lists can be fetched, with
\* the permission that lets the actor see it, and what has content can be
\* downloaded; the native listing of a folder differs by what the actor may not
\* fetch; and an item that no view from the root shows is below one without a
\* parent, so that a drive without orphans has nothing that nobody can reach.
ViewsAgree ==
  /\ \A a \in Actor, p \in DOMAIN items :
       LET listed == {f.id : f \in V3List(a, p)}
           children == ListChildren(a, p)
       IN /\ V3List(a, p) \subseteq V3List(a, Unknown) /\ listed \subseteq children
          /\ \A i \in children : GetStatus(a, i) = (IF i \in listed THEN 200 ELSE 403)
          /\ \A f \in V3List(a, p) :
               /\ f.parents = {p} /\ \E perm \in f.permissions : perm.id = a
               /\ Asserted([type |-> "actor_can_access", item |-> f.id, actor |-> a])
  /\ \A a \in Actor, x \in StateNodes :
       DownloadStatus(a, x.id) = 200 <=>
         x.hasContent /\ (x.id = Root \/ \E f \in V3List(a, Unknown) : f.id = x.id)
  /\ Asserted([type |-> "no_orphans"]) =>
       {x.id : x \in StateNodes} =
         StateTree \cup UNION {Below(x.id) : x \in {y \in StateNodes : y.parent = NoParent}}

\* What follows depends on the request alone, not on the drive: TLC evaluates
\* it in the initial state.

\* A multipart upload comes out as the metadata and the content that the client
\* put in, whatever line ends and blank lines the content has, from a client that
\* ends lines with CRLF; from one that ends them with LF exactly if the content has
\* no blank line in CRLF and no CR at its end.  A query comes out as the clauses
\* that the client joined, an "and" between braces being a part of its clause, for
\* names and values of any length without " and " and braces.
RequestsUnderstood == ServerInit => Unpacked /\ Understood(PlainText)

\* The files of a scenario are stored, in whatever order they are listed, if
\* they are a forest of folders, and refused if not; validate_scenario lets
\* through what is refused for a cycle or for a file as a parent only.
SeedsExact == ServerInit => SeedsForests

\* split_headers_body: "Split a MIME part into headers and body at the first
\* blank line", whichever of its line ends a client uses.
SplitsAtFirstBlankLine == ServerInit => SplitAtBlankLine

\* parse_v3_query: "Supports the following clause types joined by ` and `", among
\* them name='<value>', whatever the value is.
ClausesSupported == ServerInit => Understood(AnyText)
=============================================================================
