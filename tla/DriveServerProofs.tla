--------------------------- MODULE DriveServerProofs ---------------------------
(***************************************************************************)
(* Proofs about DriveServer: that the twin behind its routes implements    *)
(* the drive of DriveTree, so that what is proved there holds of every     *)
(* request, that resumable uploads end as one whole file at most, and that *)
(* seeding and the parsers do what they promise on documents, bodies and   *)
(* queries of any length.                                                  *)
(***************************************************************************)
EXTENDS DriveServer, DriveTreeProofs, OrderLemmas, FiniteSetTheorems, FunctionTheorems,
        SequenceTheorems

Session == [actor : Actor, parent : Id, declared : Nat \cup {Unknown}, data : Seq(Nat)]

Client == [total : Nat, pos : Nat, outcome : {"open", "gone", "refused", "created"}]

\* The shape of the upload table and of what surrounds it; upload ids are
\* given out in order, and nothing speaks of one that was not given out.
UploadTypeOK ==
  /\ \E n \in Nat : DOMAIN client = 1..n
  /\ client \in [DOMAIN client -> Client]
  /\ DOMAIN uploads \subseteq DOMAIN client
  /\ uploads \in [DOMAIN uploads -> Session]
  /\ requests \subseteq [upload : DOMAIN client, start : Nat, body : Seq(Nat),
                         total : Nat \cup {Unknown}]
  /\ filing \subseteq [upload : DOMAIN client, start : Nat, session : Session]
  /\ filed \subseteq [upload : DOMAIN client, item : Nat, data : Seq(Nat)]

\* An upload is in one place: the table, one handler, or one file; and only
\* that file makes a client think that it is done.
InOnePlace ==
  /\ \A h \in filing : h.upload \notin DOMAIN uploads
  /\ \A f \in filed : f.upload \notin DOMAIN uploads
  /\ \A h \in filing, f \in filed : h.upload # f.upload
  /\ \A h, g \in filing : h.upload = g.upload => h = g
  /\ \A f, g \in filed : f.upload = g.upload => f = g
  /\ \A u \in DOMAIN client :
       client[u].outcome = "created" => \E f \in filed : f.upload = u

Whole(data) == data = Bytes(1, Len(data))

\* Chunks are pieces of the content; what is stored is its beginning, and the
\* client has not been told of more.
PrefixInv ==
  /\ \A r \in requests : r.body = Bytes(r.start + 1, r.start + Len(r.body))
  /\ \A u \in DOMAIN uploads :
       /\ Whole(uploads[u].data)
       /\ client[u].outcome = "open" => client[u].pos <= Stored(u)
  /\ \A h \in filing : Whole(h.session.data)
  /\ \A f \in filed : Whole(f.data)

\* With every length known, a handler has what its client wants to upload.
LengthInv ==
  /\ \A r \in requests : r.total = client[r.upload].total
  /\ \A h \in filing : Len(h.session.data) = client[h.upload].total
  /\ \A f \in filed : Len(f.data) = client[f.upload].total

UploadInv ==
  /\ UploadTypeOK /\ InOnePlace /\ PrefixInv
  /\ ~UnknownLength => LengthInv

-----------------------------------------------------------------------------
(* What the credentials of a request come to. *)

LEMMA ServerConstants ==
  /\ V3Actor \subseteq Actor
  /\ Unknown \notin Nat /\ Total \subseteq Nat
  /\ \A n \in Total : Lengths(n) \subseteq Nat \cup {Unknown}
<1>1. ASSUME NEW h \in Actor \cup {Unknown}, NEW t \in Token \cup {Unknown},
             ResolveActor(h, t) # Unknown
      PROVE  ResolveActor(h, t) \in Actor
  <2>1. CASE h # Unknown
    BY <1>1, <2>1 DEF ResolveActor
  <2>2. CASE h = Unknown /\ t \in DOMAIN TokenActor
    BY <2>2, ServerAssumption DEF ResolveActor, Range
  <2>3. CASE h = Unknown /\ t \notin DOMAIN TokenActor
    BY <1>1, <2>3, ServerAssumption DEF ResolveActor
  <2> QED
    BY <2>1, <2>2, <2>3
<1> QED
  BY <1>1, ServerAssumption, IdAssumption DEF V3Actor, Lengths, Unknown

-----------------------------------------------------------------------------
(* The server implements the drive. *)

LEMMA ServerStep ==
  ASSUME UploadTypeOK, [ServerNext]_serverVars PROVE [Next]_vars
<1>1. V3Actor \subseteq Actor
  BY ServerConstants
<1>2. CASE NativeRequest
  BY <1>2 DEF NativeRequest, Next, Request
<1>3. CASE V3Request
  <2>1. CASE V3Create \/ V3Update
    BY <1>1, <2>1 DEF V3Create, V3Update, Next, Request
  <2>2. CASE V3Delete \/ V3Share
    BY <1>1, <2>2 DEF V3Delete, V3Share, Next, Request
  <2>3. CASE MediaUpload \/ MultipartUpload
    BY <1>1, <2>3 DEF MediaUpload, MultipartUpload, Next, Request
  <2> QED
    BY <1>3, <2>1, <2>2, <2>3 DEF V3Request
<1>4. CASE TimelineAction
  BY <1>4 DEF TimelineAction, Next, Request
<1>5. ASSUME NEW h \in filing, NEW answered, FileUpload(h, answered)
      PROVE  [Next]_vars
  <2>1. h.session.actor \in Actor
    BY <1>5 DEF UploadTypeOK, Session
  <2>2. CASE UNCHANGED vars
    BY <2>2
  <2>3. CASE UploadContent(h.session.actor, h.session.parent)
    <3>1. h.session.parent \in DOMAIN items
      BY <2>3 DEF UploadContent, AddItem, UsableParent, HasRole
    <3> QED
      BY <2>1, <2>3, <3>1 DEF Next, Request
  <2> QED
    BY <1>5, <2>2, <2>3 DEF FileUpload
<1>6. CASE UploadStep /\ ~\E h \in filing, answered \in BOOLEAN : FileUpload(h, answered)
  BY <1>6
  DEF UploadStep, StartUpload, SendChunk, ChunkUnknown, ChunkMisplaced, ChunkStored,
      ChunkCompletes, HangUp, vars
<1>7. CASE UNCHANGED serverVars
  BY <1>7 DEF serverVars, vars
<1>8. CASE Seeding \/ DeleteVisit \/ DeleteRemove \/ Reset \/ Snapshot \/ Restore
  BY <1>8 DEF Next
<1> QED
  BY <1>2, <1>3, <1>4, <1>5, <1>6, <1>7, <1>8 DEF ServerNext, DriveStep, UploadStep

-----------------------------------------------------------------------------
(* Contents as sequences of byte numbers. *)

LEMMA BytesType ==
  ASSUME NEW s \in Nat, NEW k \in Nat
  PROVE  /\ Bytes(s + 1, s + k) \in Seq(Nat)
         /\ Len(Bytes(s + 1, s + k)) = k
         /\ DOMAIN Bytes(s + 1, s + k) = 1..k
         /\ \A i \in 1..k : Bytes(s + 1, s + k)[i] = s + i
<1>1. Bytes(s + 1, s + k) = [i \in 1..k |-> s + i]
  <2>1. (s + k) - (s + 1) + 1 = k
    OBVIOUS
  <2>2. \A i \in 1..k : (s + 1) + i - 1 = s + i
    OBVIOUS
  <2> QED
    BY <2>1, <2>2 DEF Bytes
<1> DEFINE b == [i \in 1..k |-> s + i]
<1>2. b \in Seq(Nat) /\ Len(b) = k
  OBVIOUS
<1> QED
  BY <1>1, <1>2

LEMMA BytesOne ==
  ASSUME NEW n \in Nat
  PROVE  /\ Bytes(1, n) \in Seq(Nat) /\ Len(Bytes(1, n)) = n
         /\ \A i \in 1..n : Bytes(1, n)[i] = i
<1>1. 0 + 1 = 1 /\ 0 + n = n
  OBVIOUS
<1>2. Bytes(1, n) = Bytes(0 + 1, 0 + n)
  BY <1>1
<1> QED
  BY <1>2, BytesType

\* The bytes behind the first s make the first s + k.
LEMMA BytesExtend ==
  ASSUME NEW data \in Seq(Nat), NEW body \in Seq(Nat), Whole(data),
         body = Bytes(Len(data) + 1, Len(data) + Len(body))
  PROVE  Whole(data \o body)
<1>1. PICK s \in Nat, k \in Nat : s = Len(data) /\ k = Len(body)
  BY LenProperties
<1>2. data = Bytes(1, s) /\ body = Bytes(s + 1, s + k)
  BY <1>1 DEF Whole
<1>3. /\ \A i \in 1..s : data[i] = i
      /\ \A i \in 1..k : body[i] = s + i
  BY <1>2, BytesOne, BytesType
<1>4. /\ data \o body \in Seq(Nat)
      /\ Len(data \o body) = s + k
      /\ \A i \in 1..(s + k) : (data \o body)[i] = IF i <= s THEN data[i] ELSE body[i - s]
  BY <1>1, ConcatProperties
<1>5. \A i \in 1..(s + k) : (data \o body)[i] = i
  BY <1>3, <1>4
<1>6. /\ Bytes(1, s + k) \in Seq(Nat) /\ Len(Bytes(1, s + k)) = s + k
      /\ \A i \in 1..(s + k) : Bytes(1, s + k)[i] = i
  <2>1. s + k \in Nat
    OBVIOUS
  <2> QED
    BY <2>1, BytesOne
<1>7. data \o body = Bytes(1, s + k)
  BY <1>4, <1>5, <1>6, SeqEqual
<1> QED
  BY <1>4, <1>7 DEF Whole

-----------------------------------------------------------------------------
(* Steps of the upload table. *)

\* NextUpload is an id that was not given out.
LEMMA NextUploadFresh ==
  ASSUME UploadTypeOK
  PROVE  /\ NextUpload \in Nat /\ NextUpload \notin DOMAIN client
         /\ \E n \in Nat : DOMAIN client \cup {NextUpload} = 1..n
<1>1. PICK n \in Nat : DOMAIN client = 1..n
  BY DEF UploadTypeOK
<1>2. Cardinality(1..n) = n
  BY FS_Interval
<1>3. NextUpload = n + 1 /\ (1..n) \cup {n + 1} = 1..(n + 1)
  BY <1>1, <1>2 DEF NextUpload
<1> QED
  BY <1>1, <1>3

\* What an answer changes: what one client knows, and never what it wants.
LEMMA TellFacts ==
  ASSUME UploadTypeOK, NEW u \in DOMAIN client, NEW answered, NEW news \in Client,
         news.total = client[u].total, Tell(u, answered, news)
  PROVE  /\ DOMAIN client' = DOMAIN client /\ client' \in [DOMAIN client -> Client]
         /\ \A v \in DOMAIN client : client'[v].total = client[v].total
         /\ \A v \in DOMAIN client : client'[v] = client[v] \/ (v = u /\ client'[v] = news)
<1>1. client \in [DOMAIN client -> Client]
  BY DEF UploadTypeOK
<1>2. CASE client' = client
  BY <1>1, <1>2
<1>3. CASE client' = [client EXCEPT ![u] = news]
  BY <1>1, <1>3
<1> QED
  BY <1>2, <1>3 DEF Tell

LEMMA TellEndFacts ==
  ASSUME UploadTypeOK, NEW u \in DOMAIN client, NEW answered,
         NEW outcome \in {"gone", "refused", "created"}, TellEnd(u, answered, outcome)
  PROVE  /\ DOMAIN client' = DOMAIN client /\ client' \in [DOMAIN client -> Client]
         /\ \A v \in DOMAIN client : client'[v].total = client[v].total
         /\ \A v \in DOMAIN client :
              client'[v] = client[v] \/ (v = u /\ client'[v].outcome = outcome)
<1> DEFINE news == [client[u] EXCEPT !.outcome = outcome]
<1>1. news \in Client /\ news.total = client[u].total /\ news.outcome = outcome
  BY DEF UploadTypeOK, Client
<1>2. Tell(u, answered, news)
  BY DEF TellEnd
<1> HIDE DEF news
<1> QED
  BY <1>1, <1>2, TellFacts

LEMMA TellRangeFacts ==
  ASSUME UploadTypeOK, NEW u \in DOMAIN client, NEW answered,
         NEW n \in Nat, TellRange(u, answered, n)
  PROVE  /\ DOMAIN client' = DOMAIN client /\ client' \in [DOMAIN client -> Client]
         /\ \A v \in DOMAIN client : client'[v].total = client[v].total
         /\ \A v \in DOMAIN client :
              /\ client'[v].outcome = client[v].outcome
              /\ client'[v].pos = client[v].pos \/ (v = u /\ client'[v].pos = n)
<1> DEFINE news == [client[u] EXCEPT !.pos = n]
<1>1. /\ news \in Client /\ news.total = client[u].total
      /\ news.outcome = client[u].outcome /\ news.pos = n
  BY DEF UploadTypeOK, Client
<1>2. Tell(u, answered, news)
  BY DEF TellRange
<1> HIDE DEF news
<1> QED
  BY <1>1, <1>2, TellFacts

LEMMA StartUploadInv ==
  ASSUME UploadInv, NEW a \in V3Actor, NEW p \in DOMAIN items, DOMAIN items \subseteq Id,
         NEW n \in Total, NEW declared \in Lengths(n), StartUpload(a, p, n, declared)
  PROVE  UploadInv'
<1> DEFINE u == NextUpload
           session == [actor |-> a, parent |-> p, declared |-> declared, data |-> <<>>]
           news == [total |-> n, pos |-> 0, outcome |-> "open"]
<1> USE DEF UploadInv
<1>1. u \in Nat /\ u \notin DOMAIN client /\ \E m \in Nat : DOMAIN client \cup {u} = 1..m
  BY NextUploadFresh
<1>2. session \in Session /\ news \in Client
  BY ServerConstants, EmptySeq DEF Session, Client
<1>3. /\ uploads' = With(uploads, u, session) /\ client' = With(client, u, news)
      /\ requests' = requests /\ filing' = filing /\ filed' = filed
  BY DEF StartUpload
<1>4. session.data = <<>> /\ news.pos = 0 /\ news.outcome = "open"
  OBVIOUS
<1> HIDE DEF u, session, news
<1>5. /\ DOMAIN uploads' = DOMAIN uploads \cup {u} /\ uploads'[u] = session
      /\ \A v \in DOMAIN uploads : v # u /\ uploads'[v] = uploads[v]
      /\ DOMAIN client' = DOMAIN client \cup {u} /\ client'[u] = news
      /\ \A v \in DOMAIN client : v # u /\ client'[v] = client[v]
  BY <1>1, <1>3 DEF With, UploadTypeOK
<1>6. client' \in [DOMAIN client' -> Client] /\ uploads' \in [DOMAIN uploads' -> Session]
  BY <1>2, <1>3, <1>5 DEF With, UploadTypeOK
<1>7. UploadTypeOK'
  BY <1>1, <1>3, <1>5, <1>6 DEF UploadTypeOK
<1>8. /\ \A h \in filing : h.upload \in DOMAIN client
      /\ \A f \in filed : f.upload \in DOMAIN client
      /\ \A r \in requests : r.upload \in DOMAIN client
  BY DEF UploadTypeOK
<1>9. InOnePlace'
  BY <1>1, <1>3, <1>4, <1>5, <1>8 DEF InOnePlace
<1>10. Whole(<<>>) /\ Len(<<>>) = 0
  <2>1. Bytes(1, 0) = <<>>
    BY BytesOne, EmptySeq
  <2> QED
    BY <2>1, EmptySeq DEF Whole
<1>11. PrefixInv'
  BY <1>1, <1>3, <1>4, <1>5, <1>10 DEF PrefixInv, Stored, UploadTypeOK
<1>12. LengthInv => LengthInv'
  BY <1>3, <1>5, <1>8 DEF LengthInv
<1> QED
  BY <1>7, <1>9, <1>11, <1>12

LEMMA SendChunkInv ==
  ASSUME UploadInv, NEW u \in DOMAIN client, NEW k \in 1..MaxChunk,
         NEW total \in Lengths(client[u].total), SendChunk(u, k, total)
  PROVE  UploadInv'
<1> DEFINE pos == client[u].pos
           body == Bytes(pos + 1, pos + k)
           r == [upload |-> u, start |-> pos, body |-> body, total |-> total]
<1> USE DEF UploadInv
<1>1. pos \in Nat /\ client[u].total \in Nat /\ k \in Nat
  BY DEF UploadTypeOK, Client
<1>2. body \in Seq(Nat) /\ Len(body) = k
  <2> HIDE DEF pos
  <2> QED
    BY <1>1, BytesType
<1>3. total \in Nat \cup {Unknown} /\ (~UnknownLength => total = client[u].total)
  BY <1>1 DEF Lengths
<1>4. requests' = requests \cup {r} /\ UNCHANGED <<uploads, filing, filed, client>>
  BY DEF SendChunk
<1>5. /\ r \in [upload : DOMAIN client, start : Nat, body : Seq(Nat), total : Nat \cup {Unknown}]
      /\ r.body = Bytes(r.start + 1, r.start + Len(r.body))
      /\ ~UnknownLength => r.total = client[r.upload].total
  BY <1>1, <1>2, <1>3
<1> HIDE DEF r
<1>6. UploadTypeOK' /\ InOnePlace'
  BY <1>4, <1>5 DEF UploadTypeOK, InOnePlace
<1>7. PrefixInv' /\ (~UnknownLength => LengthInv')
  BY <1>4, <1>5 DEF PrefixInv, LengthInv, Stored
<1> QED
  BY <1>6, <1>7

LEMMA RefusedChunkInv ==
  ASSUME UploadInv, NEW r \in requests, NEW answered \in BOOLEAN,
         ChunkUnknown(r, answered) \/ ChunkMisplaced(r, answered)
  PROVE  UploadInv'
<1> USE DEF UploadInv
<1> DEFINE u == r.upload
<1>1. u \in DOMAIN client
  BY DEF UploadTypeOK
<1>2. requests' \subseteq requests /\ UNCHANGED <<uploads, filing, filed>>
  BY DEF ChunkUnknown, ChunkMisplaced, Take
<1>3. CASE ChunkUnknown(r, answered)
  <2>1. u \notin DOMAIN uploads /\ TellEnd(u, answered, "gone")
    BY <1>3 DEF ChunkUnknown
  <2>2. /\ DOMAIN client' = DOMAIN client /\ client' \in [DOMAIN client -> Client]
        /\ \A v \in DOMAIN client : client'[v].total = client[v].total
        /\ \A v \in DOMAIN client :
             client'[v] = client[v] \/ (v = u /\ client'[v].outcome = "gone")
    BY <1>1, <2>1, TellEndFacts
  <2>3. UploadTypeOK' /\ InOnePlace'
    BY <1>2, <2>2 DEF UploadTypeOK, InOnePlace
  <2>4. PrefixInv'
    BY <1>2, <2>1, <2>2 DEF PrefixInv, Stored, UploadTypeOK
  <2>5. LengthInv => LengthInv'
    BY <1>2, <2>2 DEF LengthInv, UploadTypeOK
  <2> QED
    BY <2>3, <2>4, <2>5
<1>4. CASE ChunkMisplaced(r, answered)
  <2>1. u \in DOMAIN uploads /\ TellRange(u, answered, Stored(u)) /\ Stored(u) \in Nat
    BY <1>4, LenProperties DEF ChunkMisplaced, Stored, UploadTypeOK, Session
  <2>2. /\ DOMAIN client' = DOMAIN client /\ client' \in [DOMAIN client -> Client]
        /\ \A v \in DOMAIN client : client'[v].total = client[v].total
        /\ \A v \in DOMAIN client :
             /\ client'[v].outcome = client[v].outcome
             /\ client'[v].pos = client[v].pos \/ (v = u /\ client'[v].pos = Stored(u))
    BY <1>1, <2>1, TellRangeFacts
  <2>3. UploadTypeOK' /\ InOnePlace'
    BY <1>2, <2>2 DEF UploadTypeOK, InOnePlace
  <2>4. PrefixInv'
    <3>1. ASSUME NEW v \in DOMAIN uploads, client'[v].outcome = "open"
          PROVE  client'[v].pos <= Stored(v)
      <4>1. v \in DOMAIN client /\ client[v].pos <= Stored(v)
        BY <2>2, <3>1 DEF PrefixInv, UploadTypeOK
      <4>2. CASE client'[v].pos = client[v].pos
        BY <4>1, <4>2
      <4>3. CASE v = u /\ client'[v].pos = Stored(u)
        BY <2>1, <4>3
      <4> QED
        BY <2>2, <4>1, <4>2, <4>3
    <3>2. \A v \in DOMAIN uploads : Stored(v)' = Stored(v)
      BY <1>2 DEF Stored
    <3> QED
      BY <1>2, <3>1, <3>2 DEF PrefixInv
  <2>5. LengthInv => LengthInv'
    BY <1>2, <2>2 DEF LengthInv, UploadTypeOK
  <2> QED
    BY <2>3, <2>4, <2>5
<1> QED
  BY <1>3, <1>4

\* A chunk that belongs where the data ends makes a longer beginning of it.
LEMMA ExtendedFacts ==
  ASSUME UploadInv, NEW r \in requests, r.upload \in DOMAIN uploads,
         r.start = Stored(r.upload)
  PROVE  /\ Extended(r) \in Session /\ Whole(Extended(r).data)
         /\ Len(Extended(r).data) \in Nat
         /\ Stored(r.upload) <= Len(Extended(r).data)
<1> DEFINE data == uploads[r.upload].data
           body == r.body
<1>1. data \in Seq(Nat) /\ body \in Seq(Nat) /\ uploads[r.upload] \in Session
  BY DEF UploadInv, UploadTypeOK, Session
<1>2. Whole(data) /\ body = Bytes(Len(data) + 1, Len(data) + Len(body))
  BY DEF UploadInv, PrefixInv, Stored
<1>3. Extended(r) \in Session /\ Extended(r).data = data \o body
  <2>1. data \o body \in Seq(Nat)
    BY <1>1, ConcatProperties
  <2>2. Extended(r) = [uploads[r.upload] EXCEPT !.data = data \o body]
    BY DEF Extended
  <2> HIDE DEF data, body
  <2> QED
    BY <1>1, <2>1, <2>2 DEF Session
<1> HIDE DEF data, body
<1>4. Whole(data \o body)
  BY <1>1, <1>2, BytesExtend
<1>5. Len(data \o body) = Len(data) + Len(body) /\ Len(data) \in Nat /\ Len(body) \in Nat
  BY <1>1, ConcatProperties, LenProperties
<1>6. Stored(r.upload) = Len(data)
  BY DEF Stored, data
<1> QED
  BY <1>3, <1>4, <1>5, <1>6

LEMMA ChunkStoredInv ==
  ASSUME UploadInv, NEW r \in requests, NEW answered \in BOOLEAN, ChunkStored(r, answered)
  PROVE  UploadInv'
<1> USE DEF UploadInv
<1> DEFINE u == r.upload
           n == Len(Extended(r).data)
<1>1. /\ requests' \subseteq requests /\ UNCHANGED <<filing, filed>>
      /\ u \in DOMAIN uploads /\ r.start = Stored(u)
      /\ uploads' = [uploads EXCEPT ![u] = Extended(r)]
      /\ TellRange(u, answered, n) \/ TellEnd(u, answered, "refused")
  BY DEF ChunkStored, Take
<1>2. /\ Extended(r) \in Session /\ Whole(Extended(r).data) /\ n \in Nat
      /\ Stored(u) <= n
  BY <1>1, ExtendedFacts
<1>3. Stored(u) \in Nat /\ u \in DOMAIN client
  BY <1>1, LenProperties DEF Stored, UploadTypeOK, Session
<1>4. /\ DOMAIN uploads' = DOMAIN uploads /\ uploads' \in [DOMAIN uploads -> Session]
      /\ Stored(u)' = n /\ uploads'[u] = Extended(r)
      /\ \A v \in DOMAIN uploads \ {u} : uploads'[v] = uploads[v] /\ Stored(v)' = Stored(v)
  BY <1>1, <1>2 DEF Stored, UploadTypeOK
<1>5. /\ DOMAIN client' = DOMAIN client /\ client' \in [DOMAIN client -> Client]
      /\ \A v \in DOMAIN client : client'[v].total = client[v].total
      /\ \A v \in DOMAIN client : client'[v].outcome = "created" => client[v].outcome = "created"
      /\ \A v \in DOMAIN client : client'[v].outcome = "open" =>
           /\ client[v].outcome = "open"
           /\ client'[v].pos = client[v].pos \/ (v = u /\ client'[v].pos = n)
  <2>1. CASE TellRange(u, answered, n)
    BY <1>2, <1>3, <2>1, TellRangeFacts
  <2>2. CASE TellEnd(u, answered, "refused")
    BY <1>3, <2>2, TellEndFacts
  <2> QED
    BY <1>1, <2>1, <2>2
<1> HIDE DEF n
<1>6. UploadTypeOK' /\ InOnePlace'
  BY <1>1, <1>4, <1>5 DEF UploadTypeOK, InOnePlace
<1>7. PrefixInv'
  <2>1. ASSUME NEW v \in DOMAIN uploads', client'[v].outcome = "open"
        PROVE  client'[v].pos <= Stored(v)'
    <3>1. v \in DOMAIN client /\ client[v].pos \in Nat /\ client[v].pos <= Stored(v)
      BY <1>4, <1>5, <2>1 DEF PrefixInv, UploadTypeOK, Client
    <3>2. CASE v = u
      BY <1>2, <1>3, <1>4, <1>5, <2>1, <3>1, <3>2
    <3>3. CASE v # u
      BY <1>4, <1>5, <2>1, <3>1, <3>3
    <3> QED
      BY <3>2, <3>3
  <2>2. \A v \in DOMAIN uploads' : Whole(uploads'[v].data)
    BY <1>2, <1>4 DEF PrefixInv
  <2> QED
    BY <1>1, <2>1, <2>2 DEF PrefixInv
<1>8. LengthInv => LengthInv'
  BY <1>1, <1>5 DEF LengthInv, UploadTypeOK
<1> QED
  BY <1>6, <1>7, <1>8

LEMMA ChunkCompletesInv ==
  ASSUME UploadInv, NEW r \in requests, ChunkCompletes(r)
  PROVE  UploadInv'
<1> USE DEF UploadInv
<1> DEFINE u == r.upload
           h == [upload |-> u, start |-> r.start, session |-> Extended(r)]
<1>1. /\ requests' \subseteq requests /\ UNCHANGED <<filed, client>>
      /\ u \in DOMAIN uploads /\ r.start = Stored(u)
      /\ Expected(r) \in {Unknown, Len(Extended(r).data)}
      /\ uploads' = [v \in DOMAIN uploads \ {u} |-> uploads[v]]
      /\ filing' = filing \cup {h}
  BY DEF ChunkCompletes, Take
<1>2. Extended(r) \in Session /\ Whole(Extended(r).data)
  BY <1>1, ExtendedFacts
<1>3. /\ DOMAIN uploads' = DOMAIN uploads \ {u} /\ uploads' \in [DOMAIN uploads' -> Session]
      /\ \A v \in DOMAIN uploads' : uploads'[v] = uploads[v] /\ Stored(v)' = Stored(v)
  BY <1>1 DEF Stored, UploadTypeOK
<1>4. /\ h \in [upload : DOMAIN client, start : Nat, session : Session]
      /\ h.upload = u /\ h.session = Extended(r)
  BY <1>1, <1>2 DEF UploadTypeOK
<1>5. LengthInv /\ ~UnknownLength => Len(h.session.data) = client[u].total
  BY <1>1, <1>4, ServerConstants DEF LengthInv, Expected, UploadTypeOK, Client
<1> HIDE DEF h
<1>6. UploadTypeOK'
  BY <1>1, <1>3, <1>4 DEF UploadTypeOK
<1>7. InOnePlace'
  BY <1>1, <1>3, <1>4 DEF InOnePlace, UploadTypeOK
<1>8. PrefixInv'
  BY <1>1, <1>2, <1>3, <1>4 DEF PrefixInv
<1>9. ~UnknownLength => LengthInv'
  BY <1>1, <1>4, <1>5 DEF LengthInv
<1> QED
  BY <1>6, <1>7, <1>8, <1>9

LEMMA FileUploadInv ==
  ASSUME UploadInv, TypeOK, NEW h \in filing, NEW answered \in BOOLEAN, FileUpload(h, answered)
  PROVE  UploadInv'
<1> USE DEF UploadInv
<1> DEFINE u == h.upload
           f == [upload |-> u, item |-> nextId, data |-> h.session.data]
<1>1. filing' = filing \ {h} /\ UNCHANGED <<uploads, requests>>
  BY DEF FileUpload
<1>2. u \in DOMAIN client /\ h.session.data \in Seq(Nat) /\ nextId \in Nat
  BY DEF UploadTypeOK, Session, TypeOK, DriveOK
<1>3. /\ f \in [upload : DOMAIN client, item : Nat, data : Seq(Nat)]
      /\ f.upload = u /\ f.data = h.session.data
  BY <1>2
<1>4. \/ filed' = filed \cup {f} /\ TellEnd(u, answered, "created")
      \/ filed' = filed /\ TellEnd(u, answered, "refused")
  BY DEF FileUpload
<1> HIDE DEF f
<1>5. /\ DOMAIN client' = DOMAIN client /\ client' \in [DOMAIN client -> Client]
      /\ \A v \in DOMAIN client : client'[v].total = client[v].total
      /\ \A v \in DOMAIN client :
           \/ client'[v] = client[v]
           \/ v = u /\ client'[v].outcome = "refused"
           \/ v = u /\ client'[v].outcome = "created" /\ f \in filed'
  BY <1>2, <1>4, TellEndFacts
<1>6. UploadTypeOK'
  BY <1>1, <1>3, <1>4, <1>5 DEF UploadTypeOK
<1>7. InOnePlace'
  BY <1>1, <1>3, <1>4, <1>5 DEF InOnePlace
<1>8. PrefixInv'
  BY <1>1, <1>3, <1>4, <1>5 DEF PrefixInv, Stored, UploadTypeOK
<1>9. LengthInv => LengthInv'
  BY <1>1, <1>3, <1>4, <1>5 DEF LengthInv, UploadTypeOK
<1> QED
  BY <1>6, <1>7, <1>8, <1>9

LEMMA ServerNextInv ==
  ASSUME IInv, UploadInv, [ServerNext]_serverVars PROVE UploadInv'
<1>1. TypeOK /\ DOMAIN items \subseteq Id
  BY DEF IInv, TypeOK, DriveOK
<1>2. CASE UNCHANGED uploadVars
  BY <1>2
  DEF uploadVars, UploadInv, UploadTypeOK, InOnePlace, PrefixInv, LengthInv, Stored
<1>3. ASSUME NEW h \in filing, HangUp(h) PROVE UploadInv'
  BY <1>3
  DEF HangUp, UploadInv, UploadTypeOK, InOnePlace, PrefixInv, LengthInv, Stored
<1>4. CASE UploadStep
  BY <1>1, <1>3, <1>4, StartUploadInv, SendChunkInv, RefusedChunkInv, ChunkStoredInv,
     ChunkCompletesInv, FileUploadInv
  DEF UploadStep
<1> QED
  BY <1>2, <1>4 DEF ServerNext, DriveStep, serverVars

-----------------------------------------------------------------------------
(* Theorems. *)

LEMMA ServerInitInv == ServerInit => IInv /\ UploadInv
<1> SUFFICES ASSUME ServerInit PROVE IInv /\ UploadInv
  OBVIOUS
<1>1. DOMAIN client = {} /\ DOMAIN uploads = {} /\ DOMAIN client = 1..0
  BY DEF ServerInit
<1>2. UploadTypeOK
  BY <1>1 DEF ServerInit, UploadTypeOK
<1> QED
  BY <1>1, <1>2, InitIInv
  DEF ServerInit, UploadInv, InOnePlace, PrefixInv, LengthInv

THEOREM ServerInvariant == ServerSpec => [](IInv /\ UploadInv)
<1>1. IInv /\ UploadInv /\ [ServerNext]_serverVars => IInv' /\ UploadInv'
  BY ServerStep, NextIInv, ServerNextInv DEF UploadInv
<1> QED
  BY <1>1, ServerInitInv, PTL DEF ServerSpec

\* Behind the routes there is nothing but the drive: whatever the uploads, the
\* requests and the lost answers, every step of the server is a request that
\* DriveTree knows, by an actor it knows, or leaves the drive alone.
THEOREM ServerImplementsDrive == ServerSpec => Spec
<1>1. ServerInit => Init
  BY DEF ServerInit
<1>2. IInv /\ UploadInv /\ [ServerNext]_serverVars => [Next]_vars
  BY ServerStep DEF UploadInv
<1> QED
  BY <1>1, <1>2, ServerInvariant, PTL DEF ServerSpec, Spec

\* So no request, retried chunk or filed upload leaves an orphan, keeps bytes
\* of a deleted item, or takes a deleted item for more than it is.
THEOREM ServedDriveIsSound == ServerSpec => []NoOrphans /\ []ContentOwned /\ DeleteExact
BY ServerImplementsDrive, NeverOrphans, ContentIsOwned, DeleteIsExact, PTL

LEMMA AtMostOne ==
  ASSUME NEW S, \A x, y \in S : x = y
  PROVE  Cardinality(S) \in {0, 1} /\ (S # {} => Cardinality(S) = 1)
         /\ (S = {} => Cardinality(S) = 0)
<1>1. CASE S = {}
  BY <1>1, FS_EmptySet
<1>2. CASE S # {}
  <2>1. PICK x \in S : S = {x}
    BY <1>2
  <2> QED
    BY <2>1, FS_Singleton
<1> QED
  BY <1>1, <1>2

\* route_v3_resumable_chunk takes the session out of the table in the step that
\* completes it: however often chunks are sent, and whoever hangs up, an upload
\* never becomes two files, and "201" is said by the handler that made the file.
THEOREM UploadsMakeOneFile == ServerSpec => []OneFilePerUpload
<1>1. ASSUME UploadInv PROVE OneFilePerUpload
  <2>1. ASSUME NEW u \in DOMAIN client
        PROVE  /\ Cardinality(OpenIn(u)) + Cardinality(HandledIn(u))
                    + Cardinality(FiledIn(u)) <= 1
               /\ client[u].outcome = "created" => FiledIn(u) # {}
    <3>1. /\ Cardinality(OpenIn(u)) \in {0, 1}
          /\ OpenIn(u) = {} => Cardinality(OpenIn(u)) = 0
      BY AtMostOne DEF OpenIn
    <3>2. /\ Cardinality(HandledIn(u)) \in {0, 1}
          /\ HandledIn(u) = {} => Cardinality(HandledIn(u)) = 0
      <4>1. \A h, g \in HandledIn(u) : h = g
        BY <1>1 DEF UploadInv, InOnePlace, HandledIn
      <4> QED
        BY <4>1, AtMostOne
    <3>3. /\ Cardinality(FiledIn(u)) \in {0, 1}
          /\ FiledIn(u) = {} => Cardinality(FiledIn(u)) = 0
      <4>1. \A f, g \in FiledIn(u) : f = g
        BY <1>1 DEF UploadInv, InOnePlace, FiledIn
      <4> QED
        BY <4>1, AtMostOne
    <3>4. \/ HandledIn(u) = {} /\ FiledIn(u) = {}
          \/ OpenIn(u) = {} /\ FiledIn(u) = {}
          \/ OpenIn(u) = {} /\ HandledIn(u) = {}
      BY <1>1 DEF UploadInv, InOnePlace, OpenIn, HandledIn, FiledIn
    <3>5. client[u].outcome = "created" => FiledIn(u) # {}
      BY <1>1 DEF UploadInv, InOnePlace, FiledIn
    <3> QED
      BY <3>1, <3>2, <3>3, <3>4, <3>5
  <2> QED
    BY <2>1 DEF OneFilePerUpload
<1> QED
  BY <1>1, ServerInvariant, PTL

\* Chunks that come late, twice or out of order never put a byte in the wrong
\* place, whether or not anybody said how many bytes there are: the table, a
\* waiting handler and a file hold the beginning of the content.
THEOREM UploadsArePrefixes == ServerSpec => []PrefixInv
<1>1. UploadInv => PrefixInv
  BY DEF UploadInv
<1> QED
  BY <1>1, ServerInvariant, PTL

\* When clients declare the length, a file has all of the content.  (When they
\* do not, the code takes the first chunk for the last.)
THEOREM UploadsAreWhole == ~UnknownLength => (ServerSpec => []UploadWhole)
<1> SUFFICES ASSUME ~UnknownLength PROVE ServerSpec => []UploadWhole
  OBVIOUS
<1>1. UploadInv => UploadWhole
  BY DEF UploadInv, PrefixInv, LengthInv, Whole, UploadWhole, Stored
<1> QED
  BY <1>1, ServerInvariant, PTL

-----------------------------------------------------------------------------
(* The views of the drive. *)

\* Content comes with files that are created or seeded, and the root is neither.
RootIsBare == Root \notin content /\ Root \notin saved.content

LEMMA RootStaysBare == Spec => []RootIsBare
<1>1. Init => RootIsBare
  BY DEF Init, EmptyDrive, RootIsBare
<1>2. ASSUME IInv, RootIsBare, [Next]_vars PROVE RootIsBare'
  <2>1. nextId # Root
    BY <1>2, IdAssumption DEF IInv, TypeOK, DriveOK
  <2>2. saved'.content \in {saved.content, content}
    BY <1>2
    DEF Next, Request, Seeding, CreateItem, UploadContent, AddItem, SetPermission,
        MoveItem, UpdateItem, DeleteStart, DeleteVisit, DeleteRemove, SeedBegin,
        SeedItem, SeedEnd, Reset, Snapshot, Restore, vars
  <2>3. Root \notin content'
    BY <1>2, <2>1
    DEF Next, Request, Seeding, CreateItem, UploadContent, AddItem, SetPermission,
        MoveItem, UpdateItem, DeleteStart, DeleteVisit, DeleteRemove, SeedBegin,
        SeedItem, SeedEnd, Reset, Snapshot, Restore, Load, EmptyDrive, vars, RootIsBare
  <2> QED
    BY <1>2, <2>2, <2>3 DEF RootIsBare
<1> QED
  BY <1>1, <1>2, Invariant, PTL DEF Spec

LEMMA ListFacts ==
  ASSUME IInv, NEW a \in Actor
  PROVE  /\ \A p \in DOMAIN items :
              {f.id : f \in V3List(a, p)} =
                {i \in Children({p}) : HasRole(p, a, Viewer) /\ HasRole(i, a, Viewer)}
         /\ {f.id : f \in V3List(a, Unknown)} =
              {i \in DOMAIN items \ {Root} : HasRole(i, a, Viewer)}
<1>1. /\ \A p \in DOMAIN items : p # Unknown
      /\ items[Root].parent = NoParent
  BY ConstantFacts DEF IInv, TypeOK, DriveOK, Sound, Rooted, Unknown
<1>2. \A i : V3File(i).id = i
  BY DEF V3File
<1>3. ASSUME NEW p \in DOMAIN items
      PROVE  {f.id : f \in V3List(a, p)} =
               {i \in Children({p}) : HasRole(p, a, Viewer) /\ HasRole(i, a, Viewer)}
  <2>1. GetStatus(a, p) = 200 <=> HasRole(p, a, Viewer)
    BY DEF GetStatus, Status
  <2>2. {j \in DOMAIN items \ {Root} : Matches(j, p) /\ HasRole(j, a, Viewer)} =
          {i \in Children({p}) : HasRole(i, a, Viewer)}
    BY <1>1 DEF Matches, Children, Unknown
  <2> QED
    BY <1>1, <1>2, <2>1, <2>2 DEF V3List
<1>4. {f.id : f \in V3List(a, Unknown)} =
        {i \in DOMAIN items \ {Root} : HasRole(i, a, Viewer)}
  <2> DEFINE S == {i \in DOMAIN items \ {Root} : HasRole(i, a, Viewer)}
  <2>1. {j \in DOMAIN items \ {Root} : Matches(j, Unknown) /\ HasRole(j, a, Viewer)} = S
    BY DEF Matches
  <2>2. V3List(a, Unknown) = {V3File(i) : i \in S}
    BY <2>1 DEF V3List
  <2> HIDE DEF S
  <2>3. {f.id : f \in {V3File(i) : i \in S}} = S
    BY <1>2
  <2> QED
    BY <2>2, <2>3 DEF S
<1> QED
  BY <1>3, <1>4

\* In a forest whose links lead to items, every item is below one without a
\* parent: those that are not would be a set with no link out of it.
LEMMA ReachedFromTops ==
  ASSUME Rooted(items), Acyclic
  PROVE  DOMAIN items = UNION {Below(i) : i \in {j \in DOMAIN items : items[j].parent = NoParent}}
<1> DEFINE tops == {j \in DOMAIN items : items[j].parent = NoParent}
           lost == {i \in DOMAIN items : \A t \in tops : i \notin Below(t)}
<1>1. lost = {}
  <2> SUFFICES ASSUME lost # {} PROVE FALSE
    OBVIOUS
  <2>1. PICK i \in lost : items[i].parent \notin lost
    BY DEF Acyclic, Tree
  <2>2. CASE items[i].parent = NoParent
    BY <2>1, <2>2 DEF Below
  <2>3. CASE items[i].parent # NoParent
    <3>1. PICK t \in tops : items[i].parent \in Below(t)
      BY <2>1, <2>3 DEF Rooted
    <3>2. i \in Below(t)
      BY <3>1 DEF Below, Closed, Children
    <3> QED
      BY <2>1, <3>2
  <2> QED
    BY <2>2, <2>3
<1>2. \A t \in tops : Below(t) \subseteq DOMAIN items
  BY DEF Below
<1> QED
  BY <1>1, <1>2

LEMMA FolderViewsAgree ==
  ASSUME IInv, NEW a \in Actor, NEW p \in DOMAIN items
  PROVE  LET listed == {f.id : f \in V3List(a, p)}
             children == ListChildren(a, p)
         IN /\ V3List(a, p) \subseteq V3List(a, Unknown) /\ listed \subseteq children
            /\ \A i \in children : GetStatus(a, i) = (IF i \in listed THEN 200 ELSE 403)
            /\ \A f \in V3List(a, p) :
                 /\ f.parents = {p} /\ \E perm \in f.permissions : perm.id = a
                 /\ Asserted([type |-> "actor_can_access", item |-> f.id, actor |-> a])
<1> DEFINE listed == {f.id : f \in V3List(a, p)}
           children == ListChildren(a, p)
<1>1. listed = {i \in Children({p}) : HasRole(p, a, Viewer) /\ HasRole(i, a, Viewer)}
  BY ListFacts
<1>2. V3List(a, p) \subseteq V3List(a, Unknown)
  BY DEF V3List, Matches, Unknown
<1>3. listed \subseteq children
  BY <1>1 DEF ListChildren
<1>4. \A i \in children : GetStatus(a, i) = (IF i \in listed THEN 200 ELSE 403)
  <2> TAKE i \in children
  <2>1. i \in Children({p}) /\ HasRole(p, a, Viewer)
    BY DEF ListChildren
  <2>2. i \in listed <=> HasRole(i, a, Viewer)
    BY <1>1, <2>1
  <2>3. i \in DOMAIN items
    BY <2>1 DEF Children
  <2> QED
    BY <2>2, <2>3 DEF GetStatus, Status
<1>5. ASSUME NEW f \in V3List(a, p)
      PROVE  /\ f.parents = {p} /\ \E perm \in f.permissions : perm.id = a
             /\ Asserted([type |-> "actor_can_access", item |-> f.id, actor |-> a])
  <2>1. PICK i \in DOMAIN items \ {Root} :
          f = V3File(i) /\ Matches(i, p) /\ HasRole(i, a, Viewer)
    BY DEF V3List
  <2>2. p # NoParent
    BY ConstantFacts DEF IInv, TypeOK, DriveOK
  <2>3. /\ f.id = i /\ f.parents = {items[i].parent} \ {NoParent}
        /\ f.permissions = {[id |-> b, role |-> items[i].role[b]] :
                              b \in {c \in Actor : items[i].role[c] # NoRole}}
    BY <2>1 DEF V3File
  <2>4. f.parents = {p}
    BY <2>1, <2>2, <2>3 DEF Matches, Unknown
  <2>5. items[i].role[a] # NoRole
    BY <2>1 DEF HasRole, Viewer, NoRole
  <2>6. \E perm \in f.permissions : perm.id = a
    <3>1. [id |-> a, role |-> items[i].role[a]] \in f.permissions
      BY <2>3, <2>5
    <3> QED
      BY <3>1
  <2>7. Asserted([type |-> "actor_can_access", item |-> f.id, actor |-> a])
    BY <2>1, <2>3 DEF Asserted
  <2> QED
    BY <2>4, <2>6, <2>7
<1> QED
  BY <1>2, <1>3, <1>4, <1>5

\* What one view of the drive answers, the others confirm: for every tree that
\* requests, seeds and uploads build while clients move no folder below itself.
THEOREM ViewsStayInAgreement == MovesKeepTree /\ IdsDoNotWrap => (ServerSpec => []ViewsAgree)
<1> SUFFICES ASSUME MovesKeepTree, IdsDoNotWrap PROVE ServerSpec => []ViewsAgree
  OBVIOUS
<1>1. ASSUME IInv, RootIsBare, Acyclic PROVE ViewsAgree
  <2> DEFINE Node(i) == [id |-> i, parent |-> items[i].parent, roles |-> items[i].role,
                         hasContent |-> i \in content]
  <2>0. /\ StateNodes = {Node(i) : i \in DOMAIN items}
        /\ \A i : Node(i).id = i /\ Node(i).parent = items[i].parent
        /\ \A i : Node(i).hasContent <=> i \in content
    BY DEF StateNodes
  <2> HIDE DEF Node
  <2>1. ASSUME NEW a \in Actor, NEW x \in StateNodes
        PROVE  DownloadStatus(a, x.id) = 200 <=>
                 x.hasContent /\ (x.id = Root \/ \E f \in V3List(a, Unknown) : f.id = x.id)
    <3>1. x.id \in DOMAIN items /\ (x.hasContent <=> x.id \in content)
      BY <2>1, <2>0
    <3>2. DownloadStatus(a, x.id) = 200 <=> HasRole(x.id, a, Viewer) /\ x.id \in content
      BY <3>1 DEF DownloadStatus, Status
    <3>3. (\E f \in V3List(a, Unknown) : f.id = x.id)
             <=> x.id # Root /\ HasRole(x.id, a, Viewer)
      <4>1. {f.id : f \in V3List(a, Unknown)} =
              {i \in DOMAIN items \ {Root} : HasRole(i, a, Viewer)}
        BY <1>1, ListFacts
      <4>2. (\E f \in V3List(a, Unknown) : f.id = x.id)
               <=> x.id \in {f.id : f \in V3List(a, Unknown)}
        OBVIOUS
      <4> QED
        BY <3>1, <4>1, <4>2
    <3> QED
      BY <1>1, <3>1, <3>2, <3>3 DEF RootIsBare
  <2>2. {x.id : x \in StateNodes} =
          StateTree \cup UNION {Below(x.id) : x \in {y \in StateNodes : y.parent = NoParent}}
    <3>1. Rooted(items)
      BY <1>1 DEF IInv, Sound
    <3>2. {x.id : x \in StateNodes} = DOMAIN items
      BY <2>0
    <3>3. {Below(x.id) : x \in {y \in StateNodes : y.parent = NoParent}} =
            {Below(i) : i \in {j \in DOMAIN items : items[j].parent = NoParent}}
      BY <2>0
    <3>4. StateTree \subseteq DOMAIN items
      BY DEF StateTree, Below
    <3> QED
      BY <1>1, <3>1, <3>2, <3>3, <3>4, ReachedFromTops
  <2> QED
    BY <1>1, <2>1, <2>2, FolderViewsAgree DEF ViewsAgree
<1> QED
  BY <1>1, ServerImplementsDrive, Invariant, RootStaysBare, StaysAcyclic, PTL

-----------------------------------------------------------------------------
(* Seeding a drive. *)

\* A function on 0..n whose value at each place is made of the one before.
Iterates(f, S, n, s, step) ==
  f \in [0..n -> S] /\ f[0] = s /\ \A k \in 1..n : f[k] = step[k][f[k - 1]]

LEMMA Recursion ==
  ASSUME NEW S, NEW n \in Nat, NEW s \in S, NEW step \in [1..n -> [S -> S]]
  PROVE  \E f : Iterates(f, S, n, s, step)
<1> DEFINE Upto(m) == \E f \in [0..m -> S] : f[0] = s /\ \A k \in 1..m : f[k] = step[k][f[k - 1]]
           C == {m \in 0..n : ~Upto(m)}
<1>1. Upto(0)
  <2>1. [k \in 0..0 |-> s] \in [0..0 -> S] /\ [k \in 0..0 |-> s][0] = s
    OBVIOUS
  <2>2. 1..0 = {}
    OBVIOUS
  <2> QED
    BY <2>1, <2>2
<1>2. ASSUME NEW m \in 0..(n - 1), Upto(m) PROVE Upto(m + 1)
  <2>1. PICK f \in [0..m -> S] : f[0] = s /\ \A k \in 1..m : f[k] = step[k][f[k - 1]]
    BY <1>2
  <2> DEFINE g == [k \in 0..(m + 1) |-> IF k = m + 1 THEN step[m + 1][f[m]] ELSE f[k]]
  <2>2. f[m] \in S /\ m + 1 \in 1..n
    OBVIOUS
  <2>3. step[m + 1][f[m]] \in S
    BY <2>2
  <2>4. g \in [0..(m + 1) -> S] /\ g[0] = s
    BY <2>1, <2>3
  <2>5. \A k \in 1..(m + 1) : g[k] = step[k][g[k - 1]]
    BY <2>1
  <2> HIDE DEF g
  <2> QED
    BY <2>4, <2>5
<1> HIDE DEF Upto
<1>3. C = {}
  <2> SUFFICES ASSUME C # {} PROVE FALSE
    OBVIOUS
  <2>1. C \in SUBSET Nat
    OBVIOUS
  <2> HIDE DEF C
  <2>2. PICK c \in C : \A d \in C : ~(d < c)
    BY <2>1, NatHasLeast
  <2> USE DEF C
  <2>3. c \in 0..n /\ ~Upto(c) /\ c # 0
    BY <1>1
  <2>4. c - 1 \in 0..(n - 1) /\ (c - 1) + 1 = c /\ c - 1 < c
    BY <2>3
  <2>5. Upto(c - 1)
    BY <2>2, <2>4
  <2> QED
    BY <1>2, <2>3, <2>4, <2>5
<1>4. Upto(n)
  BY <1>3
<1> QED
  BY <1>4 DEF Upto, Iterates

\* Two functions that begin alike and of which each step keeps that.
LEMMA SameThroughout ==
  ASSUME NEW f, NEW g, NEW n \in Nat, g[0] = f[0],
         \A k \in 1..n : g[k - 1] = f[k - 1] => g[k] = f[k]
  PROVE  \A k \in 0..n : g[k] = f[k]
<1> DEFINE C == {k \in 0..n : g[k] # f[k]}
<1> SUFFICES ASSUME C # {} PROVE FALSE
  OBVIOUS
<1>1. C \in SUBSET Nat
  OBVIOUS
<1> HIDE DEF C
<1>2. PICK c \in C : \A d \in C : ~(d < c)
  BY <1>1, NatHasLeast
<1> USE DEF C
<1>3. c \in 1..n /\ g[c] # f[c]
  OBVIOUS
<1>4. c - 1 \in 0..n /\ c - 1 < c
  BY <1>3
<1>5. g[c - 1] = f[c - 1]
  BY <1>2, <1>4
<1> QED
  BY <1>3, <1>5

SeedFiles(Ids) == Seq([id : Ids, parent : Ids \cup {"none"}, kind : {"file", "folder"}])

\* The files below the root.
ToStore(files) == {k \in 1..Len(files) : files[k].id # "root"}

\* What is stored so far is a forest below the root: one item for each file that
\* waits no more, each in a folder, and no cycle.
SeedInv(files, t) ==
  LET stored == ToStore(files) \ t.pending
  IN /\ t.pending \subseteq ToStore(files)
     /\ "root" \in DOMAIN t.items /\ t.items["root"].kind = "folder"
     /\ \A k \in stored : /\ files[k].id \in DOMAIN t.items
                          /\ t.items[files[k].id] = [parent |-> files[k].parent, kind |-> files[k].kind]
     /\ \A i \in DOMAIN t.items : i = "root" \/ \E k \in stored : files[k].id = i
     /\ \A k, l \in stored : files[k].id = files[l].id => k = l
     /\ \A k \in stored : \/ files[k].parent = "none"
                          \/ /\ files[k].parent \in DOMAIN t.items
                             /\ t.items[files[k].parent].kind = "folder"
     /\ \A T \in SUBSET stored : T # {} => \E k \in T : \A l \in T : files[k].parent # files[l].id

Grows(t, u) ==
  /\ u.pending \subseteq t.pending
  /\ \A i \in DOMAIN t.items : i \in DOMAIN u.items /\ u.items[i] = t.items[i]

LEMMA StartSound ==
  ASSUME NEW files
  PROVE  SeedInv(files, Start(files)) /\ Start(files).pending = ToStore(files)
<1>1. Start(files).pending = ToStore(files)
  BY DEF Start, ToStore
<1>2. /\ DOMAIN Start(files).items = {"root"}
      /\ Start(files).items["root"] = [parent |-> "none", kind |-> "folder"]
  BY DEF Start
<1>3. ToStore(files) \ Start(files).pending = {}
  BY <1>1
<1> QED
  BY <1>1, <1>2, <1>3 DEF SeedInv

LEMMA TriedKeeps ==
  ASSUME NEW Ids, "none" \notin Ids, NEW files \in SeedFiles(Ids), NEW t, SeedInv(files, t),
         NEW k \in 1..Len(files)
  PROVE  /\ SeedInv(files, Tried(t, files, k))
         /\ Grows(t, Tried(t, files, k))
         /\ t.pending \ {k} \subseteq Tried(t, files, k).pending
         /\ k \in t.pending /\ Accepts(t.items, files[k]) => k \notin Tried(t, files, k).pending
<1> DEFINE u == Tried(t, files, k)
           f == files[k]
           stored == ToStore(files) \ t.pending
<1>1. CASE ~(k \in t.pending /\ Accepts(t.items, f))
  BY <1>1 DEF Tried, Grows
<1>2. CASE k \in t.pending /\ Accepts(t.items, f)
  <2>1. u.items = WithFile(t.items, f) /\ u.pending = t.pending \ {k}
    BY <1>2 DEF Tried
  <2>2. /\ f.id \notin DOMAIN t.items
        /\ f.parent = "none" \/ (f.parent \in DOMAIN t.items /\ t.items[f.parent].kind = "folder")
    BY <1>2 DEF Accepts
  <2>3. k \in ToStore(files) /\ ToStore(files) \ u.pending = stored \cup {k} /\ k \notin stored
    BY <1>2, <2>1 DEF SeedInv
  <2>4. /\ DOMAIN u.items = DOMAIN t.items \cup {f.id}
        /\ \A i \in DOMAIN t.items : u.items[i] = t.items[i]
        /\ u.items[f.id] = [parent |-> f.parent, kind |-> f.kind]
    BY <2>1, <2>2 DEF WithFile
  <2>5. /\ "root" \in DOMAIN t.items /\ t.items["root"].kind = "folder"
        /\ t.pending \subseteq ToStore(files)
        /\ \A i \in DOMAIN t.items : i = "root" \/ \E l \in stored : files[l].id = i
    BY DEF SeedInv
  <2>6. \A l \in stored :
           /\ files[l].id \in DOMAIN t.items
           /\ t.items[files[l].id] = [parent |-> files[l].parent, kind |-> files[l].kind]
           /\ files[l].parent = "none" \/ (files[l].parent \in DOMAIN t.items
                                           /\ t.items[files[l].parent].kind = "folder")
           /\ \A m \in stored : files[l].id = files[m].id => l = m
    BY DEF SeedInv
  <2>7. \A T \in SUBSET stored : T # {} => \E l \in T : \A m \in T : files[l].parent # files[m].id
    BY DEF SeedInv
  <2>8. f.id # "none"
    <3> DEFINE R == [id : Ids, parent : Ids \cup {"none"}, kind : {"file", "folder"}]
    <3>1. files \in Seq(R)
      BY DEF SeedFiles
    <3>2. f \in R
      <4> HIDE DEF R
      <4> QED
        BY <3>1
    <3> HIDE DEF f
    <3> QED
      BY <3>2
  <2> HIDE DEF u, stored, f
  <2>9. u.pending \subseteq ToStore(files)
    BY <2>1, <2>5
  <2>10. "root" \in DOMAIN u.items /\ u.items["root"].kind = "folder"
    BY <2>4, <2>5
  <2>11. \A l \in stored \cup {k} :
           /\ files[l].id \in DOMAIN u.items
           /\ u.items[files[l].id] = [parent |-> files[l].parent, kind |-> files[l].kind]
    BY <2>4, <2>6 DEF f
  <2>12. \A i \in DOMAIN u.items : i = "root" \/ \E l \in stored \cup {k} : files[l].id = i
    BY <2>4, <2>5 DEF f
  <2>13. \A l, m \in stored \cup {k} : files[l].id = files[m].id => l = m
    BY <2>2, <2>6 DEF f
  <2>14. \A l \in stored \cup {k} : \/ files[l].parent = "none"
                                    \/ /\ files[l].parent \in DOMAIN u.items
                                       /\ u.items[files[l].parent].kind = "folder"
    BY <2>2, <2>4, <2>6 DEF f
  <2>15. ASSUME NEW T \in SUBSET (stored \cup {k}), T # {}
         PROVE  \E l \in T : \A m \in T : files[l].parent # files[m].id
    <3>1. CASE T \ {k} = {}
      <4>1. T = {k}
        BY <2>15, <3>1
      <4>2. f.parent # f.id
        BY <2>2, <2>8
      <4> QED
        BY <4>1, <4>2 DEF f
    <3>2. CASE T \ {k} # {}
      <4>1. PICK l \in T \ {k} : \A m \in T \ {k} : files[l].parent # files[m].id
        BY <2>7, <2>15, <3>2
      <4>2. files[l].parent # f.id
        BY <2>2, <2>6, <2>8, <2>15
      <4> QED
        BY <4>1, <4>2 DEF f
    <3> QED
      BY <3>1, <3>2
  <2>16. SeedInv(files, u)
    BY <2>3, <2>9, <2>10, <2>11, <2>12, <2>13, <2>14, <2>15 DEF SeedInv
  <2>17. Grows(t, u) /\ t.pending \ {k} \subseteq u.pending /\ k \notin u.pending
    BY <2>1, <2>4 DEF Grows
  <2> QED
    BY <2>16, <2>17 DEF u
<1> QED
  BY <1>1, <1>2

\* The states in which the files are tried, as a set.
SeedStates(Ids) ==
  [items : UNION {[D -> [parent : Ids \cup {"none"}, kind : {"file", "folder"}]] :
                    D \in SUBSET (Ids \cup {"root"})},
   pending : SUBSET Nat]

LEMMA TriedType ==
  ASSUME NEW Ids, NEW files \in SeedFiles(Ids), NEW t \in SeedStates(Ids), NEW k \in 1..Len(files)
  PROVE  Tried(t, files, k) \in SeedStates(Ids)
<1> DEFINE R == [id : Ids, parent : Ids \cup {"none"}, kind : {"file", "folder"}]
           V == [parent : Ids \cup {"none"}, kind : {"file", "folder"}]
           f == files[k]
<1>1. f \in R
  <2>1. files \in Seq(R)
    BY DEF SeedFiles
  <2> HIDE DEF R
  <2> QED
    BY <2>1
<1>2. PICK D \in SUBSET (Ids \cup {"root"}) : t.items \in [D -> V]
  BY DEF SeedStates
<1>3. f.id \in Ids /\ [parent |-> f.parent, kind |-> f.kind] \in V
  <2> HIDE DEF f
  <2> QED
    BY <1>1
<1> HIDE DEF f, V
<1>4. DOMAIN t.items = D
  BY <1>2
<1>5. WithFile(t.items, f) \in [D \cup {f.id} -> V]
  BY <1>2, <1>3, <1>4 DEF WithFile
<1>6. D \cup {f.id} \in SUBSET (Ids \cup {"root"})
  BY <1>3
<1>7. [items |-> WithFile(t.items, f), pending |-> t.pending \ {k}] \in SeedStates(Ids)
  <2>1. t.pending \ {k} \in SUBSET Nat
    BY DEF SeedStates
  <2>2. WithFile(t.items, f) \in UNION {[E -> V] : E \in SUBSET (Ids \cup {"root"})}
    BY <1>5, <1>6
  <2> QED
    BY <2>1, <2>2 DEF SeedStates, V
<1> QED
  BY <1>7 DEF Tried, f

\* A pass tries one file after the other.
LEMMA PassSteps ==
  ASSUME NEW Ids, NEW files \in SeedFiles(Ids), NEW s \in SeedStates(Ids)
  PROVE  \E pass \in [0..Len(files) -> SeedStates(Ids)] :
           /\ pass[0] = s
           /\ \A k \in 1..Len(files) : pass[k] = Tried(pass[k - 1], files, k)
           /\ Round(s, files) = pass[Len(files)]
<1> DEFINE n == Len(files)
           S == SeedStates(Ids)
           Is(g) == g = [k \in 0..n |-> IF k = 0 THEN s ELSE Tried(g[k - 1], files, k)]
           step == [k \in 1..n |-> [t \in S |-> Tried(t, files, k)]]
<1>1. n \in Nat
  BY LenProperties DEF SeedFiles
<1> HIDE DEF n
<1>2. step \in [1..n -> [S -> S]]
  BY TriedType DEF n
<1>3. PICK f \in [0..n -> S] : f[0] = s /\ \A k \in 1..n : f[k] = step[k][f[k - 1]]
  <2>1. s \in S
    OBVIOUS
  <2> HIDE DEF S, step
  <2>2. PICK f : Iterates(f, S, n, s, step)
    BY <1>1, <1>2, <2>1, Recursion
  <2> QED
    BY <2>2 DEF Iterates
<1>4. \A k \in 1..n : f[k] = Tried(f[k - 1], files, k)
  <2>1. \A k \in 1..n : f[k - 1] \in S
    BY <1>1, <1>3
  <2> QED
    BY <1>3, <2>1
<1>5. Is(f)
  BY <1>1, <1>3, <1>4
<1> DEFINE pass == CHOOSE g : Is(g)
<1>6. Is(pass)
  BY <1>5
<1>7. Round(s, files) = pass[n]
  BY DEF Round, n
<1> HIDE DEF pass
<1>8. /\ pass[0] = s
      /\ \A k \in 1..n : pass[k] = Tried(pass[k - 1], files, k)
      /\ pass = [k \in 0..n |-> pass[k]]
  BY <1>1, <1>6
<1>9. \A k \in 0..n : pass[k] = f[k]
  <2>1. pass[0] = f[0] /\ \A k \in 1..n : pass[k - 1] = f[k - 1] => pass[k] = f[k]
    BY <1>3, <1>4, <1>8
  <2> QED
    BY <1>1, <2>1, SameThroughout
<1>10. pass \in [0..n -> S]
  BY <1>3, <1>8, <1>9
<1> HIDE DEF S
<1> QED
  BY <1>7, <1>8, <1>10 DEF n, S

\* Does k wait for nothing: is its file one that seed_item would store, and no
\* other file has its id?
Ready(files, t, k) ==
  /\ Accepts(t.items, files[k])
  /\ \A l \in ToStore(files) : files[l].id = files[k].id => l = k

LEMMA RoundFacts ==
  ASSUME NEW Ids, "none" \notin Ids, NEW files \in SeedFiles(Ids), NEW s \in SeedStates(Ids),
         SeedInv(files, s)
  PROVE  /\ Round(s, files) \in SeedStates(Ids) /\ SeedInv(files, Round(s, files))
         /\ Round(s, files).pending \subseteq s.pending
         /\ \A k \in s.pending : Ready(files, s, k) => k \notin Round(s, files).pending
<1> DEFINE n == Len(files)
<1>1. PICK pass \in [0..n -> SeedStates(Ids)] :
         /\ pass[0] = s
         /\ \A k \in 1..n : pass[k] = Tried(pass[k - 1], files, k)
         /\ Round(s, files) = pass[n]
  BY PassSteps
<1>2. n \in Nat /\ ToStore(files) \subseteq 1..n
  BY LenProperties DEF SeedFiles, ToStore
<1> HIDE DEF n
<1> DEFINE Good(m) == /\ SeedInv(files, pass[m]) /\ Grows(s, pass[m])
                      /\ \A k \in s.pending : k > m => k \in pass[m].pending
                      /\ \A k \in s.pending : k <= m /\ Ready(files, s, k) => k \notin pass[m].pending
           C == {m \in 0..n : ~Good(m)}
<1>3. s.pending \subseteq 1..n
  BY <1>2 DEF SeedInv
<1>4. Good(0)
  BY <1>1, <1>3 DEF Grows
<1>5. ASSUME NEW m \in 1..n, Good(m - 1) PROVE Good(m)
  <2> DEFINE t == pass[m - 1]
             u == pass[m]
  <2>1. u = Tried(t, files, m)
    BY <1>1
  <2>2. SeedInv(files, t) /\ Grows(s, t)
    BY <1>5
  <2>3. /\ \A k \in s.pending : k > m - 1 => k \in t.pending
        /\ \A k \in s.pending : k <= m - 1 /\ Ready(files, s, k) => k \notin t.pending
    BY <1>5
  <2> HIDE DEF t, u
  <2>4. /\ SeedInv(files, u) /\ Grows(t, u) /\ t.pending \ {m} \subseteq u.pending
        /\ m \in t.pending /\ Accepts(t.items, files[m]) => m \notin u.pending
    <3>1. m \in 1..Len(files)
      BY DEF n
    <3> QED
      BY <2>1, <2>2, <3>1, TriedKeeps
  <2>5. Grows(s, u)
    BY <2>2, <2>4 DEF Grows
  <2>6. \A k \in s.pending : k > m => k \in u.pending
    BY <1>2, <1>3, <2>3, <2>4
  <2>7. ASSUME NEW k \in s.pending, k <= m, Ready(files, s, k) PROVE k \notin u.pending
    <3>1. CASE k < m
      <4>1. k <= m - 1
        BY <1>2, <1>3, <3>1
      <4> QED
        BY <2>3, <2>4, <2>7, <4>1 DEF Grows
    <3>2. CASE k = m
      <4>1. m \in t.pending
        BY <1>2, <2>3, <3>2
      <4>2. files[m].id \notin DOMAIN t.items
        <5>1. m \in ToStore(files) /\ files[m].id # "root"
          BY <2>2, <4>1 DEF SeedInv, ToStore
        <5>2. \A l \in ToStore(files) \ t.pending : files[l].id # files[m].id
          BY <2>7, <3>2, <4>1 DEF Ready
        <5> QED
          BY <2>2, <5>1, <5>2 DEF SeedInv
      <4>3. \/ files[m].parent = "none"
            \/ files[m].parent \in DOMAIN t.items /\ t.items[files[m].parent].kind = "folder"
        BY <2>2, <2>7, <3>2 DEF Ready, Accepts, Grows
      <4> QED
        BY <2>4, <3>2, <4>1, <4>2, <4>3 DEF Accepts
    <3> QED
      BY <1>2, <1>3, <2>7, <3>1, <3>2
  <2> QED
    BY <2>4, <2>5, <2>6, <2>7 DEF u
<1> HIDE DEF Good
<1>6. C = {}
  <2> SUFFICES ASSUME C # {} PROVE FALSE
    OBVIOUS
  <2>1. C \in SUBSET Nat
    OBVIOUS
  <2> HIDE DEF C
  <2>2. PICK c \in C : \A d \in C : ~(d < c)
    BY <2>1, NatHasLeast
  <2> USE DEF C
  <2>3. c \in 1..n /\ ~Good(c)
    BY <1>4
  <2>4. c - 1 \in 0..n /\ c - 1 < c
    BY <1>2, <2>3
  <2>5. Good(c - 1)
    BY <2>2, <2>4
  <2> QED
    BY <1>5, <2>3, <2>5
<1>7. Good(n)
  BY <1>2, <1>6
<1>8. pass[n] \in SeedStates(Ids) /\ \A k \in s.pending : k <= n
  BY <1>1, <1>2, <1>3
<1> QED
  BY <1>1, <1>7, <1>8 DEF Good, Grows

\* A seed makes one round after the other.
LEMMA SeedSteps ==
  ASSUME NEW Ids, NEW files \in SeedFiles(Ids)
  PROVE  \E after \in [0..Len(files) -> SeedStates(Ids)] :
           /\ after[0] = Start(files)
           /\ \A k \in 1..Len(files) : after[k] = Round(after[k - 1], files)
           /\ Seed(files) = after[Len(files)]
<1> DEFINE n == Len(files)
           S == SeedStates(Ids)
           s == Start(files)
           Is(g) == g = [k \in 0..n |-> IF k = 0 THEN s ELSE Round(g[k - 1], files)]
           step == [k \in 1..n |-> [t \in S |-> Round(t, files)]]
<1>1. n \in Nat
  BY LenProperties DEF SeedFiles
<1> HIDE DEF n
<1>2. \A t \in S : Round(t, files) \in S
  <2> TAKE t \in S
  <2>1. PICK pass \in [0..n -> S] : Round(t, files) = pass[n]
    BY PassSteps DEF n
  <2> QED
    BY <1>1, <2>1
<1>3. s \in S
  <2> DEFINE V == [parent : Ids \cup {"none"}, kind : {"file", "folder"}]
  <2>1. s.items \in [{"root"} -> V] /\ s.pending \in SUBSET Nat
    BY DEF Start
  <2>2. {"root"} \in SUBSET (Ids \cup {"root"})
    OBVIOUS
  <2>3. s.items \in UNION {[D -> V] : D \in SUBSET (Ids \cup {"root"})}
    BY <2>1, <2>2
  <2>4. s = [items |-> s.items, pending |-> s.pending]
    BY DEF Start
  <2> HIDE DEF s, V
  <2>5. [items |-> s.items, pending |-> s.pending]
           \in [items : UNION {[D -> V] : D \in SUBSET (Ids \cup {"root"})}, pending : SUBSET Nat]
    BY <2>1, <2>3
  <2> QED
    BY <2>4, <2>5 DEF SeedStates, V
<1> HIDE DEF S, s
<1>4. step \in [1..n -> [S -> S]]
  BY <1>2
<1>5. PICK f \in [0..n -> S] : f[0] = s /\ \A k \in 1..n : f[k] = step[k][f[k - 1]]
  <2> HIDE DEF step
  <2>1. PICK f : Iterates(f, S, n, s, step)
    BY <1>1, <1>3, <1>4, Recursion
  <2> QED
    BY <2>1 DEF Iterates
<1>6. \A k \in 1..n : f[k] = Round(f[k - 1], files)
  <2>1. \A k \in 1..n : f[k - 1] \in S
    BY <1>1, <1>5
  <2> QED
    BY <1>5, <2>1
<1>7. Is(f)
  BY <1>1, <1>5, <1>6
<1> DEFINE after == CHOOSE g : Is(g)
<1>8. Is(after)
  BY <1>7
<1>9. Seed(files) = after[n]
  BY DEF Seed, n, s
<1> HIDE DEF after
<1>10. /\ after[0] = s
       /\ \A k \in 1..n : after[k] = Round(after[k - 1], files)
       /\ after = [k \in 0..n |-> after[k]]
  BY <1>1, <1>8
<1>11. \A k \in 0..n : after[k] = f[k]
  <2>1. after[0] = f[0] /\ \A k \in 1..n : after[k - 1] = f[k - 1] => after[k] = f[k]
    BY <1>5, <1>6, <1>10
  <2> QED
    BY <1>1, <2>1, SameThroughout
<1>12. after \in [0..n -> S]
  BY <1>5, <1>10, <1>11
<1> QED
  BY <1>9, <1>10, <1>12 DEF n, S, s

\* Every file has an id of its own.
Apart(files) == \A k, l \in ToStore(files) : files[k].id = files[l].id => k = l

LEMMA OthersBelow ==
  ASSUME NEW files
  PROVE  Others(files) = {files[k] : k \in ToStore(files)}
<1>1. ASSUME NEW g \in Others(files) PROVE g \in {files[k] : k \in ToStore(files)}
  <2>1. g \in {files[k] : k \in 1..Len(files)} /\ g.id # "root"
    BY DEF Others
  <2>2. PICK k \in 1..Len(files) : g = files[k]
    BY <2>1, Zenon
  <2>3. k \in ToStore(files)
    BY <2>1, <2>2 DEF ToStore
  <2> QED
    BY <2>2, <2>3
<1>2. ASSUME NEW k \in ToStore(files) PROVE files[k] \in Others(files)
  <2>1. k \in 1..Len(files) /\ files[k].id # "root"
    BY DEF ToStore
  <2>2. files[k] \in {files[j] : j \in 1..Len(files)}
    BY <2>1, Zenon
  <2> QED
    BY <2>1, <2>2, Zenon DEF Others
<1> QED
  BY <1>1, <1>2

\* A round with files that wait stores one of them, if they are a forest.
LEMMA RoundProgress ==
  ASSUME NEW Ids, "none" \notin Ids, NEW files \in SeedFiles(Ids), NEW s \in SeedStates(Ids),
         SeedInv(files, s), s.pending # {},
         Apart(files), ParentsAreFolders(files), NoCycle(files)
  PROVE  \E k \in s.pending : k \notin Round(s, files).pending
<1>1. s.pending \subseteq ToStore(files)
  BY DEF SeedInv
<1>2. \A k \in ToStore(files) : k \in 1..Len(files) /\ files[k].id # "root" /\ files[k] \in Others(files)
  <2>1. \A k \in ToStore(files) : k \in 1..Len(files) /\ files[k].id # "root"
    BY DEF ToStore
  <2> QED
    BY <2>1, OthersBelow
<1> DEFINE S == {files[k] : k \in s.pending}
<1>3. S \in (SUBSET Others(files)) \ {{}}
  <2>1. \E k \in s.pending : files[k] \in S
    OBVIOUS
  <2>2. \A f \in S : f \in Others(files)
    BY <1>1, <1>2
  <2> HIDE DEF S
  <2>3. S \in SUBSET Others(files) /\ S # {}
    BY <2>1, <2>2
  <2> QED
    BY <2>3
<1>4. PICK f \in S : \A g \in S : f.parent # g.id
  BY <1>3 DEF NoCycle
<1>5. PICK k \in s.pending : files[k] = f
  BY <1>4
<1>6. files[k].id \notin DOMAIN s.items
  <2>1. \A l \in ToStore(files) \ s.pending : files[l].id # files[k].id
    BY <1>1, <1>5 DEF Apart
  <2> QED
    BY <1>1, <1>2, <2>1 DEF SeedInv
<1>7. \/ files[k].parent = "none"
      \/ files[k].parent \in DOMAIN s.items /\ s.items[files[k].parent].kind = "folder"
  <2>1. CASE files[k].parent \in {"none", "root"}
    BY <2>1 DEF SeedInv
  <2>2. CASE files[k].parent \notin {"none", "root"}
    <3>1. PICK g \in Others(files) : g.id = files[k].parent /\ g.kind = "folder"
      BY <1>1, <1>2, <2>2 DEF ParentsAreFolders
    <3>2. PICK l \in ToStore(files) : files[l] = g
      BY <3>1, OthersBelow
    <3>3. l \notin s.pending
      <4> SUFFICES ASSUME l \in s.pending PROVE FALSE
        OBVIOUS
      <4>1. g \in S
        BY <3>2
      <4> HIDE DEF S
      <4> QED
        BY <1>4, <1>5, <3>1, <4>1
    <3>4. /\ files[l].id \in DOMAIN s.items
          /\ s.items[files[l].id] = [parent |-> files[l].parent, kind |-> files[l].kind]
      BY <3>3 DEF SeedInv
    <3> QED
      BY <3>1, <3>2, <3>4
  <2> QED
    BY <2>1, <2>2
<1>8. Ready(files, s, k)
  BY <1>1, <1>6, <1>7 DEF Ready, Accepts, Apart
<1> QED
  BY <1>8, RoundFacts

LEMMA BelowFinite ==
  ASSUME NEW Ids, NEW files \in SeedFiles(Ids)
  PROVE  /\ IsFiniteSet(1..Len(files)) /\ Cardinality(1..Len(files)) = Len(files)
         /\ Len(files) \in Nat
         /\ IsFiniteSet(ToStore(files)) /\ Cardinality(ToStore(files)) \in 0..Len(files)
<1>1. Len(files) \in Nat
  BY LenProperties DEF SeedFiles
<1>2. IsFiniteSet(1..Len(files)) /\ Cardinality(1..Len(files)) = Len(files)
  <2>1. \A n \in Nat : IsFiniteSet(1..n) /\ Cardinality(1..n) = n
    <3> TAKE n \in Nat
    <3>1. IsFiniteSet(1..n) /\ Cardinality(1..n) = IF 1 > n THEN 0 ELSE n - 1 + 1
      BY FS_Interval
    <3> QED
      BY <3>1
  <2> QED
    BY <1>1, <2>1
<1>3. ToStore(files) \in SUBSET (1..Len(files))
  BY DEF ToStore
<1>4. IsFiniteSet(ToStore(files)) /\ Cardinality(ToStore(files)) <= Len(files)
  BY <1>2, <1>3, FS_Subset
<1>5. Cardinality(ToStore(files)) \in Nat
  BY <1>4, FS_CardinalityType
<1> QED
  BY <1>1, <1>2, <1>4, <1>5

\* As many ids as files: each file has its own.
LEMMA ApartCounted ==
  ASSUME NEW Ids, NEW files \in SeedFiles(Ids)
  PROVE  /\ Cardinality(ToStore(files)) = Cardinality(IdsIn(files) \ {"root"}) <=> Apart(files)
         /\ Cardinality(IdsIn(files)) = Len(files) <=>
              \A k, l \in 1..Len(files) : files[k].id = files[l].id => k = l
<1> DEFINE name == [k \in 1..Len(files) |-> files[k].id]
           below == [k \in ToStore(files) |-> files[k].id]
<1>1. name \in Surjection(1..Len(files), IdsIn(files))
  <2>1. name \in [1..Len(files) -> IdsIn(files)]
    BY DEF IdsIn
  <2>2. \A i \in IdsIn(files) : \E k \in 1..Len(files) : name[k] = i
    BY DEF IdsIn
  <2> QED
    BY <2>1, <2>2 DEF Surjection
<1>2. below \in Surjection(ToStore(files), IdsIn(files) \ {"root"})
  <2>1. below \in [ToStore(files) -> IdsIn(files) \ {"root"}]
    BY DEF IdsIn, ToStore
  <2>2. ASSUME NEW i \in IdsIn(files) \ {"root"} PROVE \E k \in ToStore(files) : below[k] = i
    <3>1. PICK k \in 1..Len(files) : files[k].id = i
      BY DEF IdsIn
    <3>2. k \in ToStore(files)
      BY <3>1 DEF ToStore
    <3> QED
      BY <3>1, <3>2
  <2> QED
    BY <2>1, <2>2 DEF Surjection
<1>3. below \in Injection(ToStore(files), IdsIn(files) \ {"root"}) <=> Apart(files)
  <2>1. below \in [ToStore(files) -> IdsIn(files) \ {"root"}]
    BY <1>2 DEF Surjection
  <2> QED
    BY <2>1 DEF Injection, IsInjective, Apart
<1>4. name \in Injection(1..Len(files), IdsIn(files)) <=>
        \A k, l \in 1..Len(files) : files[k].id = files[l].id => k = l
  <2>1. name \in [1..Len(files) -> IdsIn(files)]
    BY <1>1 DEF Surjection
  <2> QED
    BY <2>1 DEF Injection, IsInjective
<1> HIDE DEF name, below
<1>5. Cardinality(IdsIn(files)) = Cardinality(1..Len(files)) <=>
        name \in Injection(1..Len(files), IdsIn(files))
  BY <1>1, BelowFinite, FS_Surjection
<1>6. Cardinality(IdsIn(files) \ {"root"}) = Cardinality(ToStore(files)) <=>
        below \in Injection(ToStore(files), IdsIn(files) \ {"root"})
  BY <1>2, BelowFinite, FS_Surjection
<1>7. Cardinality(1..Len(files)) = Len(files)
  BY BelowFinite
<1> QED
  BY <1>3, <1>4, <1>5, <1>6, <1>7

\* What a seed leaves: a forest below the root and the files that wait, none of
\* which waits if the files are a forest of their own.
LEMMA SeedLeaves ==
  ASSUME NEW Ids, "none" \notin Ids, NEW files \in SeedFiles(Ids)
  PROVE  /\ SeedInv(files, Seed(files))
         /\ Apart(files) /\ ParentsAreFolders(files) /\ NoCycle(files) => Seeded(files)
<1> DEFINE n == Len(files)
           S == SeedStates(Ids)
           forest == Apart(files) /\ ParentsAreFolders(files) /\ NoCycle(files)
<1>1. PICK after \in [0..n -> S] :
         /\ after[0] = Start(files)
         /\ \A k \in 1..n : after[k] = Round(after[k - 1], files)
         /\ Seed(files) = after[n]
  BY SeedSteps
<1>2. n \in Nat /\ IsFiniteSet(ToStore(files)) /\ Cardinality(ToStore(files)) <= n
  BY BelowFinite
<1> HIDE DEF n, S, forest
<1> DEFINE Good(m) == /\ SeedInv(files, after[m])
                      /\ forest => Cardinality(after[m].pending) <= n - m
           C == {m \in 0..n : ~Good(m)}
<1>3. Good(0)
  <2>1. SeedInv(files, after[0]) /\ after[0].pending = ToStore(files)
    BY <1>1, StartSound
  <2> QED
    BY <1>2, <2>1
<1>4. ASSUME NEW m \in 1..n, Good(m - 1) PROVE Good(m)
  <2> DEFINE t == after[m - 1]
             u == after[m]
  <2>1. u = Round(t, files) /\ t \in S /\ SeedInv(files, t)
    BY <1>1, <1>2, <1>4
  <2>2. forest => Cardinality(t.pending) <= n - (m - 1)
    BY <1>4
  <2> HIDE DEF t, u
  <2>3. SeedInv(files, u) /\ u.pending \in SUBSET t.pending
    BY <2>1, RoundFacts DEF S
  <2>4. t.pending \in SUBSET ToStore(files)
    BY <2>1 DEF SeedInv
  <2>5. IsFiniteSet(t.pending) /\ IsFiniteSet(u.pending)
    <3>1. IsFiniteSet(t.pending)
      BY <1>2, <2>4, FS_Subset
    <3> QED
      BY <2>3, <3>1, FS_Subset
  <2>6. /\ Cardinality(t.pending) \in Nat /\ Cardinality(u.pending) \in Nat
        /\ Cardinality(u.pending) <= Cardinality(t.pending)
        /\ Cardinality(u.pending) = Cardinality(t.pending) => u.pending = t.pending
    BY <2>3, <2>5, FS_CardinalityType, FS_Subset
  <2>7. ASSUME forest PROVE Cardinality(u.pending) <= n - m
    <3>1. CASE t.pending = {}
      <4>1. Cardinality(u.pending) = 0
        BY <2>3, <3>1, FS_EmptySet
      <4> QED
        BY <1>2, <4>1
    <3>2. CASE t.pending # {}
      <4>1. u.pending # t.pending
        BY <2>1, <2>7, <3>2, RoundProgress DEF forest, S
      <4> QED
        BY <1>2, <2>2, <2>6, <2>7, <4>1
    <3> QED
      BY <3>1, <3>2
  <2> QED
    BY <2>3, <2>7 DEF u
<1> HIDE DEF Good
<1>5. C = {}
  <2> SUFFICES ASSUME C # {} PROVE FALSE
    OBVIOUS
  <2>1. C \in SUBSET Nat
    OBVIOUS
  <2> HIDE DEF C
  <2>2. PICK c \in C : \A d \in C : ~(d < c)
    BY <2>1, NatHasLeast
  <2> USE DEF C
  <2>3. c \in 1..n /\ ~Good(c)
    BY <1>3
  <2>4. c - 1 \in 0..n /\ c - 1 < c
    BY <1>2, <2>3
  <2>5. Good(c - 1)
    BY <2>2, <2>4
  <2> QED
    BY <1>4, <2>3, <2>5
<1>6. Good(n)
  BY <1>2, <1>5
<1>7. forest => Seeded(files)
  <2> SUFFICES ASSUME forest PROVE Seeded(files)
    OBVIOUS
  <2>1. Seed(files).pending \in SUBSET ToStore(files) /\ Cardinality(Seed(files).pending) <= 0
    BY <1>1, <1>2, <1>6 DEF Good, SeedInv
  <2>2. IsFiniteSet(Seed(files).pending)
    BY <1>2, <2>1, FS_Subset
  <2>3. Cardinality(Seed(files).pending) = 0
    BY <2>1, <2>2, FS_CardinalityType
  <2> QED
    BY <2>2, <2>3, FS_EmptySet DEF Seeded
<1> QED
  BY <1>1, <1>6, <1>7 DEF Good, forest

\* Whatever ids there are, however many files and in whatever order: what the twin
\* stores of an initial state is a forest, each file with its parent, and it stores
\* all of it exactly if it is one.
THEOREM SeedsAnyForest ==
  ASSUME NEW Ids, "none" \notin Ids, NEW files \in SeedFiles(Ids)
  PROVE  SeedsForest(files)
<1> DEFINE t == Seed(files)
<1>1. SeedInv(files, t)
  BY SeedLeaves
<1>2. ToStore(files) = {k \in 1..Len(files) : files[k].id # "root"}
  BY DEF ToStore
<1>3. Cardinality({k \in 1..Len(files) : files[k].id # "root"}) = Cardinality(IdsIn(files) \ {"root"})
        <=> Apart(files)
  BY <1>2, ApartCounted
<1>4. ASSUME Seeded(files) PROVE Apart(files) /\ ParentsAreFolders(files) /\ NoCycle(files)
  <2>1. ToStore(files) \ t.pending = ToStore(files)
    BY <1>4 DEF Seeded
  <2> HIDE DEF t
  <2>2. Apart(files)
    BY <1>1, <2>1 DEF SeedInv, Apart
  <2>3. ASSUME NEW f \in Others(files), f.parent \notin {"none", "root"}
        PROVE  \E g \in Others(files) : g.id = f.parent /\ g.kind = "folder"
    <3>1. PICK k \in ToStore(files) : f = files[k]
      BY OthersBelow
    <3>2. f.parent \in DOMAIN t.items /\ t.items[f.parent].kind = "folder"
      BY <1>1, <2>1, <2>3, <3>1 DEF SeedInv
    <3>3. PICK l \in ToStore(files) : files[l].id = f.parent
      BY <1>1, <2>1, <2>3, <3>2 DEF SeedInv
    <3>4. t.items[files[l].id] = [parent |-> files[l].parent, kind |-> files[l].kind]
      BY <1>1, <2>1 DEF SeedInv
    <3>5. files[l].kind = "folder"
      BY <3>2, <3>3, <3>4
    <3> QED
      BY <3>3, <3>5, OthersBelow
  <2>4. ASSUME NEW S \in SUBSET Others(files), S # {}
        PROVE  \E f \in S : \A g \in S : f.parent # g.id
    <3> DEFINE T == {k \in ToStore(files) : files[k] \in S}
    <3>1. \A g \in S : \E k \in T : files[k] = g
      BY OthersBelow
    <3>2. T \in SUBSET ToStore(files) /\ T # {}
      BY <2>4, <3>1
    <3> HIDE DEF T
    <3>3. PICK k \in T : \A l \in T : files[k].parent # files[l].id
      BY <1>1, <2>1, <3>2 DEF SeedInv
    <3>4. files[k] \in S
      BY DEF T
    <3> QED
      BY <3>1, <3>3, <3>4
  <2> QED
    BY <2>2, <2>3, <2>4 DEF ParentsAreFolders, NoCycle
<1>5. Seeded(files) <=> Apart(files) /\ ParentsAreFolders(files) /\ NoCycle(files)
  BY <1>4, SeedLeaves
<1>6. ASSUME Seeded(files), NEW f \in Others(files)
      PROVE  t.items[f.id] = [parent |-> f.parent, kind |-> f.kind]
  <2>1. PICK k \in ToStore(files) : f = files[k]
    BY OthersBelow
  <2>2. k \notin t.pending
    BY <1>6 DEF Seeded
  <2> HIDE DEF t
  <2> QED
    BY <1>1, <2>1, <2>2 DEF SeedInv
<1>7. Valid(files) => Apart(files)
  <2>1. Valid(files) => \A k, l \in 1..Len(files) : files[k].id = files[l].id => k = l
    BY ApartCounted DEF Valid
  <2> QED
    BY <1>2, <2>1 DEF Apart
<1> QED
  BY <1>3, <1>5, <1>6, <1>7 DEF SeedsForest

\* A scenario's files in the ids of the model.
THEOREM SeedsAreExact == ServerSpec => []SeedsExact
<1>1. SeedsExact
  <2>1. "none" \notin FileId
    BY DEF FileId
  <2>2. ASSUME NEW files \in InitialStates PROVE files \in SeedFiles(FileId)
    <3>1. PICK n \in 2..MaxFiles : files \in [1..n -> SeedFile]
      BY DEF InitialStates
    <3>2. n \in Nat
      OBVIOUS
    <3>3. files \in Seq(SeedFile)
      <4>1. Seq(SeedFile) = UNION {[1..m -> SeedFile] : m \in Nat}
        BY SeqDef
      <4> QED
        BY <3>1, <3>2, <4>1
    <3> QED
      BY <3>3 DEF SeedFiles, SeedFile
  <2> QED
    BY <2>1, <2>2, SeedsAnyForest DEF SeedsExact, SeedsForests
<1> QED
  BY <1>1, PTL

-----------------------------------------------------------------------------
(* Multipart bodies. *)

\* A line end is cut off what it ends.
LEMMA LineEndCut ==
  ASSUME NEW S, NEW b \in Seq(S), NEW d \in Seq(S), Len(d) = Len(b) + 2,
         \A i \in 1..Len(b) : d[i] = b[i], d[Len(b) + 1] = "CR", d[Len(b) + 2] = "LF"
  PROVE  WithoutEol(d) = b
<1>1. Len(b) \in Nat
  BY LenProperties
<1>2. SubSeq(d, 1, Len(d) - 2) = b
  <2>1. /\ SubSeq(d, 1, Len(b)) \in Seq(S) /\ Len(SubSeq(d, 1, Len(b))) = Len(b)
        /\ \A i \in 1..Len(b) : SubSeq(d, 1, Len(b))[i] = d[i]
    BY <1>1
  <2> QED
    BY <1>1, <2>1, SeqEqual
<1>3. IsSuffix(CRLF, d)
  <2> DEFINE R == Reverse(CRLF)
             T == Reverse(d)
             V == S \cup {"CR", "LF"}
  <2>1. R \in Seq(V) /\ Len(R) = 2 /\ R[1] = "LF" /\ R[2] = "CR" /\ Len(CRLF) = 2
    BY DEF Reverse, CRLF
  <2>2. T \in Seq(V) /\ Len(T) = Len(d) /\ T[1] = "LF" /\ T[2] = "CR"
    BY <1>1 DEF Reverse
  <2> HIDE DEF R, T, V
  <2>3. SubSeq(R, 1, 2) = SubSeq(T, 1, 2)
    BY <1>1, <2>1, <2>2
  <2> QED
    BY <1>1, <2>1, <2>2, <2>3 DEF IsSuffix, IsPrefix, R, T
<1> QED
  BY <1>2, <1>3 DEF WithoutEol

\* A part is a header, a blank line, the content and a line end.
PartOf(data, b) ==
  /\ Len(data) = Len(b) + 7
  /\ data[1] = "header" /\ data[2] = "CR" /\ data[3] = "LF" /\ data[4] = "CR" /\ data[5] = "LF"
  /\ \A i \in 1..Len(b) : data[i + 5] = b[i]
  /\ data[Len(b) + 6] = "CR" /\ data[Len(b) + 7] = "LF"

\* Whatever blank lines the content has, the part is split at its own.
LEMMA PartUnpacked ==
  ASSUME NEW S, NEW b \in Seq(S), NEW data \in Seq(S), PartOf(data, b)
  PROVE  PartBody(data) = b
<1> DEFINE blank == CRLF \o CRLF
           at == Places(data, blank)
<1>1. Len(b) \in Nat /\ Len(data) = Len(b) + 7
  BY LenProperties DEF PartOf
<1>2. Len(blank) = 4 /\ blank = <<"CR", "LF", "CR", "LF">>
  <2>1. blank \in Seq({"CR", "LF"}) /\ Len(blank) = 4
    BY DEF CRLF
  <2>2. blank[1] = "CR" /\ blank[2] = "LF" /\ blank[3] = "CR" /\ blank[4] = "LF"
    BY DEF CRLF
  <2> HIDE DEF blank
  <2> QED
    BY <2>1, <2>2
<1> HIDE DEF blank
<1>3. 2 \in at
  <2>1. /\ SubSeq(data, 2, 5) \in Seq(S) /\ Len(SubSeq(data, 2, 5)) = 4
        /\ \A i \in 1..4 : SubSeq(data, 2, 5)[i] = data[i + 1]
    BY <1>1
  <2>2. data[2] = "CR" /\ data[3] = "LF" /\ data[4] = "CR" /\ data[5] = "LF"
    BY DEF PartOf
  <2> DEFINE e == SubSeq(data, 2, 5)
  <2>3. e \in Seq(S) /\ Len(e) = 4 /\ e[1] = "CR" /\ e[2] = "LF" /\ e[3] = "CR" /\ e[4] = "LF"
    BY <2>1, <2>2
  <2> HIDE DEF e
  <2>4. e = <<"CR", "LF", "CR", "LF">>
    BY <2>3
  <2> QED
    BY <1>1, <1>2, <2>4 DEF Places, e
<1>4. \A p \in at : p \in Nat /\ p >= 2
  <2> SUFFICES ASSUME NEW p \in at PROVE p \in Nat /\ p >= 2
    OBVIOUS
  <2>1. p \in 1..(Len(data) - 3) /\ SubSeq(data, p, p + 3) = blank
    BY <1>1, <1>2 DEF Places
  <2>2. data[p] = "CR"
    <3>1. SubSeq(data, p, p + 3)[1] = data[p]
      BY <1>1, <2>1
    <3>2. blank[1] = "CR"
      BY <1>2
    <3> QED
      BY <2>1, <3>1, <3>2
  <2> QED
    BY <1>1, <2>1, <2>2 DEF PartOf
<1> HIDE DEF at
<1>5. Min(at) = 2
  BY <1>3, <1>4 DEF Min
<1>6. BodyStart(data) = 6
  BY <1>3, <1>5 DEF BodyStart, at, blank
<1> DEFINE d == SubSeq(data, 6, Len(data))
<1>7. /\ d \in Seq(S) /\ Len(d) = Len(b) + 2
      /\ \A i \in 1..Len(d) : d[i] = data[i + 5]
  BY <1>1
<1> HIDE DEF d
<1>8. WithoutEol(d) = b
  <2>1. d[Len(b) + 1] = data[Len(b) + 6] /\ d[Len(b) + 2] = data[Len(b) + 7]
    BY <1>1, <1>7
  <2>2. \A i \in 1..Len(b) : d[i] = data[i + 5]
    BY <1>1, <1>7
  <2>3. \A i \in 1..Len(b) : d[i] = b[i]
    BY <2>2 DEF PartOf
  <2>4. d[Len(b) + 1] = "CR" /\ d[Len(b) + 2] = "LF"
    BY <2>1 DEF PartOf
  <2> QED
    BY <1>7, <2>3, <2>4, LineEndCut
<1> QED
  BY <1>6, <1>8 DEF PartBody, d

\* The body that a client sends, symbol for symbol.
LaidOut(body, c) ==
  LET n == Len(c)
  IN /\ Len(body) = n + 25
     /\ body[1] = "--b" /\ body[2] = "CR" /\ body[3] = "LF"
     /\ body[4] = "header" /\ body[5] = "CR" /\ body[6] = "LF" /\ body[7] = "CR"
     /\ body[8] = "LF" /\ body[9] = "meta" /\ body[10] = "CR" /\ body[11] = "LF"
     /\ body[12] = "--b" /\ body[13] = "CR" /\ body[14] = "LF"
     /\ body[15] = "header" /\ body[16] = "CR" /\ body[17] = "LF" /\ body[18] = "CR"
     /\ body[19] = "LF"
     /\ \A i \in 1..n : body[i + 19] = c[i]
     /\ body[n + 20] = "CR" /\ body[n + 21] = "LF"
     /\ body[n + 22] = "--b" /\ body[n + 23] = "--"
     /\ body[n + 24] = "CR" /\ body[n + 25] = "LF"

Symbols(Octets) == Octets \cup {"--b", "CR", "LF", "header", "meta", "--"}

LEMMA Layout ==
  ASSUME NEW Octets, NEW c \in Seq(Octets)
  PROVE  LaidOut(Multipart(CRLF, c), c) /\ Multipart(CRLF, c) \in Seq(Symbols(Octets))
<1> DEFINE body == Multipart(CRLF, c)
           n == Len(c)
           S == Symbols(Octets)
<1>1. Len(body) = n + 25
  BY DEF Multipart, CRLF, Delimiter
<1>2. body \in Seq(S)
  <2>1. c \in Seq(S)
    BY SeqMonotonic DEF Symbols
  <2> QED
    BY <2>1 DEF Multipart, CRLF, Delimiter, Symbols
<1>3. /\ body[1] = "--b" /\ body[2] = "CR" /\ body[3] = "LF"
      /\ body[4] = "header" /\ body[5] = "CR" /\ body[6] = "LF" /\ body[7] = "CR"
      /\ body[8] = "LF" /\ body[9] = "meta" /\ body[10] = "CR" /\ body[11] = "LF"
  BY DEF Multipart, CRLF, Delimiter
<1>4. /\ body[12] = "--b" /\ body[13] = "CR" /\ body[14] = "LF"
      /\ body[15] = "header" /\ body[16] = "CR" /\ body[17] = "LF" /\ body[18] = "CR"
      /\ body[19] = "LF"
  BY DEF Multipart, CRLF, Delimiter
<1>5. \A i \in 1..n : body[i + 19] = c[i]
  BY DEF Multipart, CRLF, Delimiter
<1>6. /\ body[n + 20] = "CR" /\ body[n + 21] = "LF"
      /\ body[n + 22] = "--b" /\ body[n + 23] = "--"
      /\ body[n + 24] = "CR" /\ body[n + 25] = "LF"
  BY DEF Multipart, CRLF, Delimiter
<1> HIDE DEF body, n, S
<1> QED
  BY <1>1, <1>2, <1>3, <1>4, <1>5, <1>6 DEF LaidOut, body, n, S

LEMMA OneSymbol ==
  ASSUME NEW S, NEW s \in Seq(S), NEW p \in 1..Len(s)
  PROVE  SubSeq(s, p, p) = <<s[p]>>
<1> DEFINE e == SubSeq(s, p, p)
<1>1. e \in Seq(S) /\ Len(e) = 1 /\ e[1] = s[p]
  OBVIOUS
<1> HIDE DEF e
<1>2. e = <<s[p]>>
  BY <1>1
<1> QED
  BY <1>2 DEF e

LEMMA TwoSymbols ==
  ASSUME NEW S, NEW s \in Seq(S), NEW p \in 1..(Len(s) - 1)
  PROVE  SubSeq(s, p, p + 1) = <<s[p], s[p + 1]>>
<1> DEFINE e == SubSeq(s, p, p + 1)
<1>1. e \in Seq(S) /\ Len(e) = 2 /\ e[1] = s[p] /\ e[2] = s[p + 1]
  <2>1. Len(s) \in Nat /\ p \in Int /\ p + 1 \in Int
    BY LenProperties
  <2>2. \A i \in p..(p + 1) : s[i] \in S
    BY <2>1, ElementOfSeq
  <2>3. /\ e \in Seq(S) /\ Len(e) = IF p <= p + 1 THEN (p + 1) - p + 1 ELSE 0
        /\ \A i \in 1..((p + 1) - p + 1) : e[i] = s[p + i - 1]
    BY <2>1, <2>2, SubSeqProperties
  <2> HIDE DEF e
  <2> QED
    BY <2>1, <2>3
<1> HIDE DEF e
<1>2. e = <<s[p], s[p + 1]>>
  BY <1>1
<1> QED
  BY <1>2 DEF e

LEMMA ThreePlaces ==
  ASSUME NEW a \in Nat, NEW z \in Nat, 1 < a, a < z
  PROVE  LET at == {1, a, z}
         IN Place(at, 1) = 1 /\ Place(at, 2) = a /\ Place(at, 3) = z /\ Cardinality(at) = 3
<1> DEFINE at == {1, a, z}
           before(p) == {d \in at : d < p}
<1>1. before(1) = {} /\ before(a) = {1} /\ before(z) = {1, a}
  OBVIOUS
<1>2. Cardinality({}) = 0 /\ Cardinality({1}) = 1 /\ IsFiniteSet({1})
  BY FS_EmptySet, FS_Singleton
<1>3. Cardinality({1, a}) = 2 /\ IsFiniteSet({1, a})
  <2>1. {1, a} = {1} \cup {a}
    OBVIOUS
  <2> QED
    BY <1>2, <2>1, FS_AddElement
<1>4. Cardinality(at) = 3
  <2>1. at = {1, a} \cup {z} /\ z \notin {1, a}
    OBVIOUS
  <2> HIDE DEF at
  <2> QED
    BY <1>3, <2>1, FS_AddElement
<1>5. Cardinality(before(1)) = 0 /\ Cardinality(before(a)) = 1 /\ Cardinality(before(z)) = 2
  BY <1>1, <1>2, <1>3
<1>6. 1 \in at /\ a \in at /\ z \in at /\ \A p \in at : p = 1 \/ p = a \/ p = z
  OBVIOUS
<1> HIDE DEF at
<1>7. Place(at, 1) = 1
  BY <1>5, <1>6 DEF Place
<1>8. Place(at, 2) = a
  BY <1>5, <1>6 DEF Place
<1>9. Place(at, 3) = z
  BY <1>5, <1>6 DEF Place
<1> QED
  BY <1>4, <1>7, <1>8, <1>9 DEF at

\* A body with three delimiters, at 1, a and z, the last of them the closing one:
\* what is between the line end behind one and the next is a part.
LEMMA TwoParts ==
  ASSUME NEW S, NEW body \in Seq(S), NEW a \in Nat, NEW z \in Nat, NEW width \in {1, 2},
         1 + width < a, a + width < z, z + 1 < Len(body),
         \A p \in 1..Len(body) : body[p] = Delimiter <=> p \in {1, a, z},
         width = 2 => /\ body[2] = "CR" /\ body[3] = "LF"
                      /\ body[a + 1] = "CR" /\ body[a + 2] = "LF",
         width = 1 => body[2] = "LF" /\ body[a + 1] = "LF",
         body[z + 1] = "--"
  PROVE  ParseMultipart(body) = <<PartBody(SubSeq(body, 2 + width, a - 1)),
                                  PartBody(SubSeq(body, a + 1 + width, z - 1))>>
<1> DEFINE at == Places(body, <<Delimiter>>)
           count == Cardinality(at)
           skip(p) == IF SubSeq(body, p, p + 1) = CRLF THEN p + 2
                      ELSE IF SubSeq(body, p, p) = LineFeed THEN p + 1 ELSE p
           start(k) == skip(Place(at, k) + 1)
           end(k) == IF k < count THEN Place(at, k + 1) - 1 ELSE Len(body)
           last(k) == k = count \/ SubSeq(body, end(k) + 2, end(k) + 2) = <<"--">>
           m == Min({k \in 1..count : last(k)})
<1>1. ParseMultipart(body) = [k \in 1..(IF start(m) > Len(body) THEN m - 1 ELSE m) |->
                                PartBody(SubSeq(body, start(k), end(k)))]
  BY Zenon DEF ParseMultipart
<1>2. /\ Len(body) \in Nat /\ \A p \in 1..Len(body) : SubSeq(body, p, p) = <<body[p]>>
      /\ \A p \in 1..(Len(body) - 1) : SubSeq(body, p, p + 1) = <<body[p], body[p + 1]>>
  BY LenProperties, OneSymbol, TwoSymbols
<1>3. /\ 1 \in 1..Len(body) /\ a \in 1..Len(body) /\ z \in 1..Len(body)
      /\ a + 1 \in 1..(Len(body) - 1) /\ 2 \in 1..(Len(body) - 1)
      /\ a + 1 \in 1..Len(body) /\ 2 \in 1..Len(body) /\ z + 1 \in 1..Len(body)
      /\ 2 + 1 = 3 /\ a + 1 + 1 = a + 2
  BY <1>2
<1>4. at = {1, a, z}
  <2>1. at = {p \in 1..Len(body) : SubSeq(body, p, p) = <<Delimiter>>}
    <3>1. Len(<<Delimiter>>) = 1
      BY DEF Delimiter
    <3> QED
      BY <1>2, <3>1 DEF Places
  <2>2. at = {p \in 1..Len(body) : body[p] = Delimiter}
    <3>1. \A p \in 1..Len(body) : SubSeq(body, p, p) = <<Delimiter>> <=> body[p] = Delimiter
      BY <1>2
    <3> HIDE DEF at
    <3> QED
      BY <2>1, <3>1
  <2> HIDE DEF at
  <2> QED
    BY <1>3, <2>2
<1> HIDE DEF at
<1>5. Place(at, 1) = 1 /\ Place(at, 2) = a /\ Place(at, 3) = z /\ count = 3
  <2>1. 1 < a /\ a < z
    OBVIOUS
  <2> QED
    BY <1>4, <2>1, ThreePlaces
<1> HIDE DEF count
<1>6. skip(2) = 2 + width /\ skip(a + 1) = a + 1 + width
  <2>1. /\ SubSeq(body, 2, 3) = <<body[2], body[3]>> /\ SubSeq(body, 2, 2) = <<body[2]>>
        /\ SubSeq(body, a + 1, a + 2) = <<body[a + 1], body[a + 2]>>
        /\ SubSeq(body, a + 1, a + 1) = <<body[a + 1]>>
    BY <1>2, <1>3
  <2>2. CASE width = 2
    <3>1. SubSeq(body, 2, 3) = CRLF /\ SubSeq(body, a + 1, a + 2) = CRLF
      BY <2>1, <2>2 DEF CRLF
    <3> QED
      BY <1>3, <2>2, <3>1
  <2>3. CASE width = 1
    <3>1. SubSeq(body, 2, 3) # CRLF /\ SubSeq(body, a + 1, a + 2) # CRLF
      <4>1. body[2] # "CR" /\ body[a + 1] # "CR"
        BY <2>3
      <4>2. \A x, y : x # "CR" => <<x, y>> # CRLF
        BY DEF CRLF
      <4> QED
        BY <2>1, <4>1, <4>2
    <3>2. SubSeq(body, 2, 2) = LineFeed /\ SubSeq(body, a + 1, a + 1) = LineFeed
      BY <2>1, <2>3 DEF LineFeed
    <3> QED
      BY <1>3, <2>3, <3>1, <3>2
  <2> QED
    BY <2>2, <2>3
<1>7. start(1) = 2 + width /\ start(2) = a + 1 + width
  <2> HIDE DEF skip
  <2> QED
    BY <1>5, <1>6
<1>8. end(1) = a - 1 /\ end(2) = z - 1
  BY <1>5
<1> HIDE DEF start, end, skip
<1>9. ~last(1) /\ last(2)
  <2>1. SubSeq(body, a + 1, a + 1) = <<body[a + 1]>> /\ SubSeq(body, z + 1, z + 1) = <<body[z + 1]>>
    BY <1>2, <1>3
  <2>2. end(1) + 2 = a + 1 /\ end(2) + 2 = z + 1
    BY <1>8
  <2>3. <<body[a + 1]>> # <<"--">> /\ <<body[z + 1]>> = <<"--">>
    OBVIOUS
  <2> QED
    BY <1>5, <2>1, <2>2, <2>3
<1>10. m = 2
  <2> DEFINE L == {k \in 1..count : last(k)}
  <2>1. 2 \in L /\ \A k \in L : k \in Nat /\ 2 <= k
    BY <1>5, <1>9
  <2> HIDE DEF L
  <2>2. Min(L) = 2
    BY <2>1 DEF Min
  <2> QED
    BY <2>2 DEF L
<1> HIDE DEF m
<1>11. ParseMultipart(body) = [k \in 1..2 |-> PartBody(SubSeq(body, start(k), end(k)))]
  <2>1. ~(start(2) > Len(body))
    BY <1>2, <1>7
  <2> QED
    BY <1>1, <1>10, <2>1
<1> QED
  BY <1>7, <1>8, <1>11

\* With CRLF, the two parts of a body are laid out so that they come out as they are.
LEMMA UnpackedCRLF ==
  ASSUME NEW Octets, Delimiter \notin Octets, NEW c \in Seq(Octets)
  PROVE  ParseMultipart(Multipart(CRLF, c)) = <<<<"meta">>, c>>
<1> DEFINE body == Multipart(CRLF, c)
           n == Len(c)
           S == Symbols(Octets)
<1>0. LaidOut(body, c) /\ body \in Seq(S) /\ n \in Nat /\ n = Len(c)
  BY Layout, LenProperties
<1> HIDE DEF body, n, S
<1>2. /\ body \in Seq(S) /\ n \in Nat /\ Len(body) = n + 25
      /\ body[1] = "--b" /\ body[2] = "CR" /\ body[3] = "LF"
      /\ body[4] = "header" /\ body[5] = "CR" /\ body[6] = "LF" /\ body[7] = "CR"
      /\ body[8] = "LF" /\ body[9] = "meta" /\ body[10] = "CR" /\ body[11] = "LF"
  BY <1>0 DEF LaidOut
<1>3. /\ body[12] = "--b" /\ body[13] = "CR" /\ body[14] = "LF"
      /\ body[15] = "header" /\ body[16] = "CR" /\ body[17] = "LF" /\ body[18] = "CR"
      /\ body[19] = "LF"
  BY <1>0 DEF LaidOut
<1>4. /\ \A i \in 1..n : body[i + 19] = c[i] /\ body[i + 19] \in Octets
      /\ body[n + 20] = "CR" /\ body[n + 21] = "LF"
      /\ body[n + 22] = "--b" /\ body[n + 23] = "--"
      /\ body[n + 24] = "CR" /\ body[n + 25] = "LF"
  <2>1. \A i \in 1..n : c[i] \in Octets
    BY <1>0, ElementOfSeq
  <2> QED
    BY <1>0, <2>1 DEF LaidOut
<1>5. \A p \in 1..(n + 25) : body[p] = Delimiter <=> p \in {1, 12, n + 22}
  <2>1. body[1] = "--b" /\ body[12] = "--b" /\ body[n + 22] = "--b"
    BY <1>2, <1>3, <1>4
  <2>2. ASSUME NEW p \in 1..(n + 25), body[p] = "--b" PROVE p \in {1, 12, n + 22}
    <3>1. p <= 19 \/ p >= n + 20 \/ \E i \in 1..n : p = i + 19
      <4>1. p > 19 /\ p < n + 20 => p - 19 \in 1..n /\ p = (p - 19) + 19
        BY <1>2
      <4> QED
        BY <1>2, <4>1
    <3>2. CASE p <= 19
      BY <1>2, <1>3, <2>2, <3>2
    <3>3. CASE p >= n + 20
      BY <1>2, <1>4, <2>2, <3>3
    <3>4. CASE \E i \in 1..n : p = i + 19
      BY <1>4, <2>2, <3>4 DEF Delimiter
    <3> QED
      BY <3>1, <3>2, <3>3, <3>4
  <2> QED
    BY <2>1, <2>2 DEF Delimiter
<1>11. ParseMultipart(body) = <<PartBody(SubSeq(body, 4, 11)), PartBody(SubSeq(body, 15, n + 21))>>
  <2> DEFINE z == n + 22
  <2>1. /\ z \in Nat /\ 1 + 2 < 12 /\ 12 + 2 < z /\ z + 1 < Len(body) /\ body[z + 1] = "--"
        /\ \A p \in 1..Len(body) : body[p] = Delimiter <=> p \in {1, 12, z}
    BY <1>2, <1>4, <1>5
  <2>2. z - 1 = n + 21
    BY <1>2
  <2> HIDE DEF z
  <2>3. ParseMultipart(body) = <<PartBody(SubSeq(body, 2 + 2, 12 - 1)),
                                 PartBody(SubSeq(body, 12 + 1 + 2, z - 1))>>
    <3>1. /\ body[2] = "CR" /\ body[3] = "LF" /\ body[12 + 1] = "CR" /\ body[12 + 2] = "LF"
          /\ body \in Seq(S) /\ 12 \in Nat /\ 2 \in {1, 2}
      BY <1>2, <1>3
    <3> QED
      BY <2>1, <3>1, TwoParts
  <2> QED
    BY <2>2, <2>3
<1>12. PartBody(SubSeq(body, 4, 11)) = <<"meta">>
  <2> DEFINE d == SubSeq(body, 4, 11)
             b == <<"meta">>
  <2>1. d \in Seq(S) /\ Len(d) = 8 /\ \A i \in 1..8 : d[i] = body[i + 3]
    BY <1>2
  <2>2. b \in Seq(S) /\ Len(b) = 1 /\ b[1] = "meta"
    BY DEF S, Symbols
  <2> HIDE DEF d, b
  <2>3. PartOf(d, b)
    BY <1>2, <2>1, <2>2 DEF PartOf
  <2>4. PartBody(d) = b
    BY <2>1, <2>2, <2>3, PartUnpacked
  <2> QED
    BY <2>4 DEF d, b
<1>13. PartBody(SubSeq(body, 15, n + 21)) = c
  <2> DEFINE d == SubSeq(body, 15, n + 21)
  <2>1. d \in Seq(S) /\ Len(d) = n + 7 /\ \A i \in 1..(n + 7) : d[i] = body[i + 14]
    BY <1>2
  <2>2. c \in Seq(S) /\ n = Len(c)
    BY <1>0, SeqMonotonic DEF S, Symbols
  <2> HIDE DEF d
  <2>3. \A i \in 1..n : d[i + 5] = c[i]
    <3> TAKE i \in 1..n
    <3>1. i + 5 \in 1..(n + 7) /\ (i + 5) + 14 = i + 19
      BY <1>2
    <3>2. body[i + 19] = c[i]
      BY <1>0 DEF LaidOut, n
    <3> QED
      BY <2>1, <3>1, <3>2
  <2>4. /\ d[1] = "header" /\ d[2] = "CR" /\ d[3] = "LF" /\ d[4] = "CR" /\ d[5] = "LF"
        /\ d[n + 6] = "CR" /\ d[n + 7] = "LF"
    <3>1. /\ d[1] = body[15] /\ d[2] = body[16] /\ d[3] = body[17] /\ d[4] = body[18]
          /\ d[5] = body[19]
      BY <1>2, <2>1
    <3>2. n + 6 \in 1..(n + 7) /\ n + 7 \in 1..(n + 7) /\ (n + 6) + 14 = n + 20
          /\ (n + 7) + 14 = n + 21
      BY <1>2
    <3>3. d[n + 6] = body[n + 20] /\ d[n + 7] = body[n + 21]
      BY <2>1, <3>2
    <3> QED
      BY <1>3, <1>4, <3>1, <3>3
  <2>5. PartOf(d, c)
    BY <2>1, <2>2, <2>3, <2>4 DEF PartOf
  <2>6. PartBody(d) = c
    BY <2>1, <2>2, <2>5, PartUnpacked
  <2> QED
    BY <2>6 DEF d
<1> QED
  BY <1>11, <1>12, <1>13 DEF body

\* A part that is written with LF.
PartOfLF(data, b) ==
  /\ Len(data) = Len(b) + 4
  /\ data[1] = "header" /\ data[2] = "LF" /\ data[3] = "LF"
  /\ \A i \in 1..Len(b) : data[i + 3] = b[i]
  /\ data[Len(b) + 4] = "LF"

LEMMA SuffixIsCR ==
  ASSUME NEW S, NEW b \in Seq(S)
  PROVE  IsSuffix(<<"CR">>, b) <=> Len(b) >= 1 /\ b[Len(b)] = "CR"
<1> DEFINE R == Reverse(<<"CR">>)
           T == Reverse(b)
<1>1. R = <<"CR">> /\ Len(R) = 1 /\ Len(<<"CR">>) = 1
  <2>1. R \in Seq({"CR"}) /\ Len(R) = 1 /\ R[1] = "CR"
    BY DEF Reverse
  <2> HIDE DEF R
  <2> QED
    BY <2>1
<1>2. T \in Seq(S) /\ Len(T) = Len(b) /\ (Len(b) >= 1 => T[1] = b[Len(b)])
  BY DEF Reverse
<1>3. Len(b) \in Nat
  BY LenProperties
<1> HIDE DEF R, T
<1>4. IsSuffix(<<"CR">>, b) <=> 1 <= Len(T) /\ SubSeq(R, 1, 1) = SubSeq(T, 1, 1)
  BY <1>1 DEF IsSuffix, IsPrefix, R, T
<1>5. SubSeq(R, 1, 1) = <<"CR">>
  <2>1. R \in Seq({"CR"}) /\ 1 \in 1..Len(R) /\ R[1] = "CR"
    BY <1>1
  <2> QED
    BY <2>1, OneSymbol
<1>6. ASSUME Len(b) >= 1 PROVE SubSeq(T, 1, 1) = <<b[Len(b)]>>
  <2>1. 1 \in 1..Len(T)
    BY <1>2, <1>3, <1>6
  <2> QED
    BY <1>2, <1>6, <2>1, OneSymbol
<1>7. <<"CR">> = <<b[Len(b)]>> <=> b[Len(b)] = "CR"
  OBVIOUS
<1>8. CASE Len(b) >= 1
  <2>1. 1 <= Len(T)
    BY <1>2, <1>8
  <2> QED
    BY <1>4, <1>5, <1>6, <1>7, <1>8, <2>1
<1>9. CASE ~(Len(b) >= 1)
  BY <1>2, <1>3, <1>4, <1>9
<1> QED
  BY <1>8, <1>9

\* What is cut off a part's body is at most two symbols, and what ends with a CR and
\* then the LF of the layout loses both.
LEMMA LineFeedCut ==
  ASSUME NEW S, NEW b \in Seq(S), NEW d \in Seq(S), Len(d) = Len(b) + 1,
         \A i \in 1..Len(b) : d[i] = b[i], d[Len(b) + 1] = "LF"
  PROVE  /\ ~IsSuffix(<<"CR">>, b) => WithoutEol(d) = b
         /\ IsSuffix(<<"CR">>, b) => Len(WithoutEol(d)) = Len(b) - 1
<1>1. Len(b) \in Nat
  BY LenProperties
<1> DEFINE T == Reverse(d)
<1>2. /\ T \in Seq(S) /\ Len(T) = Len(d) /\ T[1] = "LF"
      /\ Len(b) >= 1 => T[2] = b[Len(b)]
  <2>1. Len(b) >= 1 => d[Len(b)] = b[Len(b)]
    BY <1>1
  <2> QED
    BY <1>1, <2>1 DEF Reverse
<1> HIDE DEF T
<1>3. IsSuffix(LineFeed, d)
  <2> DEFINE R == Reverse(LineFeed)
  <2>1. R \in Seq({"LF"}) /\ Len(R) = 1 /\ R[1] = "LF" /\ Len(LineFeed) = 1
    BY DEF Reverse, LineFeed
  <2> HIDE DEF R
  <2>2. SubSeq(R, 1, 1) = SubSeq(T, 1, 1)
    BY <1>1, <1>2, <2>1, OneSymbol
  <2> QED
    BY <1>1, <1>2, <2>1, <2>2 DEF IsSuffix, IsPrefix, R, T
<1>4. IsSuffix(CRLF, d) <=> IsSuffix(<<"CR">>, b)
  <2> DEFINE R == Reverse(CRLF)
  <2>1. R \in Seq({"CR", "LF"}) /\ Len(R) = 2 /\ R[1] = "LF" /\ R[2] = "CR" /\ Len(CRLF) = 2
    BY DEF Reverse, CRLF
  <2> HIDE DEF R
  <2>2. IsSuffix(CRLF, d) <=> 2 <= Len(T) /\ SubSeq(R, 1, 2) = SubSeq(T, 1, 2)
    BY <1>2, <2>1 DEF IsSuffix, IsPrefix, R, T
  <2>3. SubSeq(R, 1, 2) = <<"LF", "CR">>
    <3>1. 1 \in 1..(Len(R) - 1) /\ 1 + 1 = 2
      BY <2>1
    <3> QED
      BY <2>1, <3>1, TwoSymbols
  <2>4. Len(b) >= 1 => SubSeq(T, 1, 2) = <<"LF", b[Len(b)]>>
    <3>1. Len(b) >= 1 => 1 \in 1..(Len(T) - 1) /\ 1 + 1 = 2
      BY <1>1, <1>2
    <3> QED
      BY <1>2, <3>1, TwoSymbols
  <2>5. \A x : <<"LF", "CR">> = <<"LF", x>> <=> x = "CR"
    OBVIOUS
  <2>6. 2 <= Len(T) <=> Len(b) >= 1
    BY <1>1, <1>2
  <2>7. IsSuffix(<<"CR">>, b) <=> Len(b) >= 1 /\ b[Len(b)] = "CR"
    BY SuffixIsCR
  <2> QED
    BY <2>2, <2>3, <2>4, <2>5, <2>6, <2>7
<1>5. SubSeq(d, 1, Len(d) - 1) = b
  <2>1. /\ SubSeq(d, 1, Len(b)) \in Seq(S) /\ Len(SubSeq(d, 1, Len(b))) = Len(b)
        /\ \A i \in 1..Len(b) : SubSeq(d, 1, Len(b))[i] = d[i]
    BY <1>1
  <2> QED
    BY <1>1, <2>1, SeqEqual
<1>6. ASSUME Len(b) >= 1 PROVE Len(SubSeq(d, 1, Len(d) - 2)) = Len(b) - 1
  <2> DEFINE w == Len(d) - 2
             x == SubSeq(d, 1, w)
  <2>1. w \in Int /\ w = Len(b) - 1 /\ 1 \in Int /\ \A i \in 1..w : i \in 1..Len(d)
    BY <1>1
  <2> HIDE DEF w
  <2>2. \A i \in 1..w : d[i] \in S
    BY <2>1, ElementOfSeq
  <2>3. Len(x) = IF 1 <= w THEN w - 1 + 1 ELSE 0
    BY <2>1, <2>2, SubSeqProperties
  <2> HIDE DEF x
  <2>4. Len(x) = w
    BY <1>1, <1>6, <2>1, <2>3
  <2> QED
    BY <2>1, <2>4 DEF x, w
<1>7. IsSuffix(<<"CR">>, b) => Len(b) >= 1
  BY SuffixIsCR
<1> QED
  BY <1>3, <1>4, <1>5, <1>6, <1>7 DEF WithoutEol

LEMMA CutNeverAdds ==
  ASSUME NEW S, NEW d \in Seq(S)
  PROVE  Len(WithoutEol(d)) <= Len(d)
<1>1. Len(d) \in Nat
  BY LenProperties
<1>2. Len(SubSeq(d, 1, Len(d) - 1)) <= Len(d)
  <2>1. CASE Len(d) = 0
    <3>1. Len(SubSeq(d, 1, Len(d) - 1)) = 0
      BY <2>1
    <3> QED
      BY <2>1, <3>1
  <2>2. CASE Len(d) # 0
    BY <1>1, <2>2
  <2> QED
    BY <2>1, <2>2
<1>3. Len(SubSeq(d, 1, Len(d) - 2)) <= Len(d)
  <2>1. CASE Len(d) < 2
    <3>1. Len(SubSeq(d, 1, Len(d) - 2)) = 0
      BY <1>1, <2>1
    <3> QED
      BY <1>1, <3>1
  <2>2. CASE Len(d) >= 2
    BY <1>1, <2>2
  <2> QED
    BY <1>1, <2>1, <2>2
<1> QED
  BY <1>1, <1>2, <1>3 DEF WithoutEol

\* A place of a blank line is where its four symbols are.
LEMMA BlankLineAt ==
  ASSUME NEW S, NEW s \in Seq(S)
  PROVE  \A p : p \in Places(s, CRLF \o CRLF) <=>
           /\ p \in 1..(Len(s) - 3)
           /\ s[p] = "CR" /\ s[p + 1] = "LF" /\ s[p + 2] = "CR" /\ s[p + 3] = "LF"
<1> DEFINE blank == CRLF \o CRLF
<1>0. Len(s) \in Nat
  BY LenProperties
<1>1. Len(blank) = 4 /\ blank = <<"CR", "LF", "CR", "LF">>
  <2>1. blank \in Seq({"CR", "LF"}) /\ Len(blank) = 4
    BY DEF CRLF
  <2>2. blank[1] = "CR" /\ blank[2] = "LF" /\ blank[3] = "CR" /\ blank[4] = "LF"
    BY DEF CRLF
  <2> HIDE DEF blank
  <2> QED
    BY <2>1, <2>2
<1> HIDE DEF blank
<1>2. ASSUME NEW p \in 1..(Len(s) - 3)
      PROVE  SubSeq(s, p, p + 3) = blank <=>
               s[p] = "CR" /\ s[p + 1] = "LF" /\ s[p + 2] = "CR" /\ s[p + 3] = "LF"
  <2> DEFINE e == SubSeq(s, p, p + 3)
  <2>1. /\ e \in Seq(S) /\ Len(e) = 4
        /\ e[1] = s[p] /\ e[2] = s[p + 1] /\ e[3] = s[p + 2] /\ e[4] = s[p + 3]
    <3>1. p \in Int /\ p + 3 \in Int /\ \A i \in p..(p + 3) : s[i] \in S
      BY <1>0, ElementOfSeq
    <3>2. /\ e \in Seq(S) /\ Len(e) = IF p <= p + 3 THEN (p + 3) - p + 1 ELSE 0
          /\ \A i \in 1..((p + 3) - p + 1) : e[i] = s[p + i - 1]
      BY <3>1, SubSeqProperties
    <3> HIDE DEF e
    <3> QED
      BY <3>1, <3>2
  <2> HIDE DEF e
  <2>2. e = <<e[1], e[2], e[3], e[4]>>
    BY <2>1
  <2>3. \A w, x, y, v : <<w, x, y, v>> = <<"CR", "LF", "CR", "LF">> <=>
          w = "CR" /\ x = "LF" /\ y = "CR" /\ v = "LF"
    OBVIOUS
  <2>4. e = blank <=> e[1] = "CR" /\ e[2] = "LF" /\ e[3] = "CR" /\ e[4] = "LF"
    BY <1>1, <2>2, <2>3
  <2> QED
    BY <2>1, <2>4 DEF e
<1>3. \A p : p \in Places(s, blank) <=> p \in 1..(Len(s) - 3) /\ SubSeq(s, p, p + 3) = blank
  <2>1. Len(s) - Len(blank) + 1 = Len(s) - 3
    BY <1>0, <1>1
  <2>2. \A p \in 1..(Len(s) - 3) : p + Len(blank) - 1 = p + 3
    BY <1>0, <1>1
  <2> QED
    BY <2>1, <2>2 DEF Places
<1> QED
  BY <1>2, <1>3 DEF blank

\* The first blank line of a part that is written with LF is the one behind its
\* header, unless the content holds one that is written with CRLF.
LEMMA PartUnpackedLF ==
  ASSUME NEW S, NEW b \in Seq(S), NEW data \in Seq(S), PartOfLF(data, b)
  PROVE  PartBody(data) = b <=> Intact(LineFeed, b)
<1> DEFINE four == Places(data, CRLF \o CRLF)
           two == Places(data, LineFeed \o LineFeed)
<1>1. Len(b) \in Nat /\ Len(data) = Len(b) + 4
  BY LenProperties DEF PartOfLF
<1>2. \A p : p \in four <=>
        /\ p \in 1..(Len(b) + 1)
        /\ data[p] = "CR" /\ data[p + 1] = "LF" /\ data[p + 2] = "CR" /\ data[p + 3] = "LF"
  <2>1. Len(data) - 3 = Len(b) + 1
    BY <1>1
  <2> QED
    BY <2>1, BlankLineAt
<1> HIDE DEF four
<1>3. \A p \in four : p \in Nat /\ p >= 4
  BY <1>1, <1>2 DEF PartOfLF
<1>4. IsSuffix(<<"CR">>, b) <=> Len(b) >= 1 /\ b[Len(b)] = "CR"
  BY SuffixIsCR
<1>5. \A i \in 1..Len(b) : data[i + 3] = b[i]
  BY DEF PartOfLF
<1>6. Places(b, CRLF \o CRLF) # {} => four # {}
  <2> SUFFICES ASSUME NEW p \in Places(b, CRLF \o CRLF) PROVE p + 3 \in four
    OBVIOUS
  <2>1. /\ p \in 1..(Len(b) - 3)
        /\ b[p] = "CR" /\ b[p + 1] = "LF" /\ b[p + 2] = "CR" /\ b[p + 3] = "LF"
    BY BlankLineAt
  <2>2. /\ p \in 1..Len(b) /\ p + 1 \in 1..Len(b) /\ p + 2 \in 1..Len(b) /\ p + 3 \in 1..Len(b)
        /\ (p + 1) + 3 = (p + 3) + 1 /\ (p + 2) + 3 = (p + 3) + 2 /\ (p + 3) + 3 = (p + 3) + 3
    BY <1>1, <2>1
  <2> DEFINE u == p + 3
  <2>3. data[u] = "CR" /\ data[u + 1] = "LF" /\ data[u + 2] = "CR" /\ data[u + 3] = "LF"
    BY <1>5, <2>1, <2>2
  <2>4. u \in 1..(Len(b) + 1)
    BY <1>1, <2>1
  <2> HIDE DEF u
  <2>5. u \in four
    BY <1>2, <2>3, <2>4
  <2> QED
    BY <2>5 DEF u
<1>7. ASSUME NEW p \in four, ~IsSuffix(<<"CR">>, b) PROVE Places(b, CRLF \o CRLF) # {}
  <2>1. /\ p \in 1..(Len(b) + 1) /\ p >= 4
        /\ data[p] = "CR" /\ data[p + 1] = "LF" /\ data[p + 2] = "CR" /\ data[p + 3] = "LF"
    BY <1>2, <1>3
  <2>2. p # Len(b) + 1
    <3> SUFFICES ASSUME p = Len(b) + 1 PROVE FALSE
      OBVIOUS
    <3>1. Len(b) >= 1 /\ Len(b) + 3 = p + 2
      BY <1>1, <2>1
    <3>2. b[Len(b)] = "CR"
      BY <1>1, <1>5, <2>1, <3>1
    <3> QED
      BY <1>4, <1>7, <3>1, <3>2
  <2> DEFINE k == p - 3
  <2>3. /\ k \in 1..(Len(b) - 3) /\ k \in 1..Len(b) /\ k + 1 \in 1..Len(b)
        /\ k + 2 \in 1..Len(b) /\ k + 3 \in 1..Len(b)
        /\ k + 3 = p /\ (k + 1) + 3 = p + 1 /\ (k + 2) + 3 = p + 2 /\ (k + 3) + 3 = p + 3
    BY <1>1, <2>1, <2>2
  <2> HIDE DEF k
  <2>4. b[k] = "CR" /\ b[k + 1] = "LF" /\ b[k + 2] = "CR" /\ b[k + 3] = "LF"
    BY <1>5, <2>1, <2>3
  <2>5. k \in Places(b, CRLF \o CRLF)
    BY <2>3, <2>4, BlankLineAt
  <2> QED
    BY <2>5
<1>8. CASE four # {}
  <2>1. PICK p \in four : p = Min(four)
    <3>1. \E p \in four : \A r \in four : p <= r
      <4>1. four \subseteq Nat /\ four # {}
        BY <1>3, <1>8
      <4> QED
        BY <4>1, NatHasLeast
    <3> QED
      BY <3>1 DEF Min
  <2>2. BodyStart(data) = p + 4
    BY <1>8, <2>1 DEF BodyStart, four
  <2>3. p \in 4..(Len(b) + 1)
    BY <1>1, <1>2, <1>3
  <2> DEFINE d == SubSeq(data, p + 4, Len(data))
  <2>4. d \in Seq(S) /\ Len(d) < Len(b)
    <3>1. CASE p + 4 > Len(data)
      <4>1. d = <<>>
        BY <1>1, <2>3, <3>1
      <4> QED
        BY <1>1, <2>3, <4>1
    <3>2. CASE p + 4 <= Len(data)
      BY <1>1, <2>3, <3>2
    <3> QED
      BY <1>1, <2>3, <3>1, <3>2
  <2> HIDE DEF d
  <2>5. Len(WithoutEol(d)) < Len(b)
    <3>1. Len(WithoutEol(d)) <= Len(d)
      BY <2>4, CutNeverAdds
    <3>2. Len(WithoutEol(d)) \in Int /\ Len(d) \in Nat
      <4>1. WithoutEol(d) \in Seq(S)
        <5>1. Len(d) \in Nat
          BY <2>4, LenProperties
        <5>2. SubSeq(d, 1, Len(d) - 2) \in Seq(S) /\ SubSeq(d, 1, Len(d) - 1) \in Seq(S)
          BY <2>4, <5>1
        <5> QED
          BY <2>4, <5>2 DEF WithoutEol
      <4> QED
        BY <2>4, <4>1, LenProperties
    <3> QED
      BY <1>1, <2>4, <3>1, <3>2
  <2>6. PartBody(data) # b
    <3>1. p + 4 # 0
      BY <2>3
    <3> QED
      BY <1>1, <2>2, <2>5, <3>1 DEF PartBody, d
  <2>7. ~Intact(LineFeed, b)
    BY <1>7, <1>8 DEF Intact
  <2> QED
    BY <2>6, <2>7
<1>9. CASE four = {}
  <2>1. Len(LineFeed \o LineFeed) = 2 /\ LineFeed \o LineFeed = <<"LF", "LF">>
    <3> DEFINE w == LineFeed \o LineFeed
    <3>1. w \in Seq({"LF"}) /\ Len(w) = 2 /\ w[1] = "LF" /\ w[2] = "LF"
      BY DEF LineFeed
    <3> HIDE DEF w
    <3>2. w = <<"LF", "LF">>
      BY <3>1
    <3> QED
      BY <3>1, <3>2 DEF w
  <2>2. \A p : p \in two <=> p \in 1..(Len(data) - 1) /\ SubSeq(data, p, p + 1) = <<"LF", "LF">>
    <3>1. Len(data) - 2 + 1 = Len(data) - 1
      BY <1>1
    <3>2. \A p \in 1..(Len(data) - 1) : p + 2 - 1 = p + 1
      BY <1>1
    <3> QED
      BY <2>1, <3>1, <3>2 DEF Places
  <2> HIDE DEF two
  <2>3. 2 \in two
    <3>1. 2 \in 1..(Len(data) - 1) /\ 2 + 1 = 3
      BY <1>1
    <3>2. SubSeq(data, 2, 3) = <<data[2], data[3]>>
      BY <3>1, TwoSymbols
    <3> QED
      BY <2>2, <3>1, <3>2 DEF PartOfLF
  <2>4. \A p \in two : p \in Nat /\ p >= 2
    <3> SUFFICES ASSUME 1 \in two PROVE FALSE
      BY <1>1, <2>2
    <3>1. SubSeq(data, 1, 2) = <<data[1], data[2]>>
      <4>1. 1 \in 1..(Len(data) - 1) /\ 1 + 1 = 2
        BY <1>1
      <4> QED
        BY <4>1, TwoSymbols
    <3>2. <<data[1], data[2]>> = <<"LF", "LF">>
      <4>1. 1 + 1 = 2 /\ 1 \in two
        OBVIOUS
      <4>2. SubSeq(data, 1, 1 + 1) = <<"LF", "LF">>
        BY <2>2, <4>1
      <4> QED
        BY <3>1, <4>1, <4>2
    <3>3. data[1] = "LF"
      BY <3>2
    <3> QED
      BY <3>3 DEF PartOfLF
  <2>5. Min(two) = 2
    BY <2>3, <2>4 DEF Min
  <2>6. BodyStart(data) = 4
    BY <1>9, <2>3, <2>5 DEF BodyStart, four, two
  <2> DEFINE d == SubSeq(data, 4, Len(data))
  <2>7. /\ d \in Seq(S) /\ Len(d) = Len(b) + 1
        /\ \A i \in 1..Len(d) : d[i] = data[i + 3]
    BY <1>1
  <2> HIDE DEF d
  <2>8. (\A i \in 1..Len(b) : d[i] = b[i]) /\ d[Len(b) + 1] = "LF"
    <3>1. \A i \in 1..Len(b) : i \in 1..Len(d)
      BY <1>1, <2>7
    <3>2. Len(b) + 1 \in 1..Len(d) /\ (Len(b) + 1) + 3 = Len(b) + 4
      BY <1>1, <2>7
    <3> QED
      BY <1>5, <2>7, <3>1, <3>2 DEF PartOfLF
  <2>9. /\ ~IsSuffix(<<"CR">>, b) => WithoutEol(d) = b
        /\ IsSuffix(<<"CR">>, b) => Len(WithoutEol(d)) = Len(b) - 1
    BY <2>7, <2>8, LineFeedCut
  <2>10. PartBody(data) = WithoutEol(d)
    BY <2>6 DEF PartBody, d
  <2>11. PartBody(data) = b <=> ~IsSuffix(<<"CR">>, b)
    <3>1. Len(b) - 1 # Len(b)
      BY <1>1
    <3> QED
      BY <2>9, <2>10, <3>1
  <2>12. Places(b, CRLF \o CRLF) = {}
    BY <1>6, <1>9
  <2> QED
    BY <2>11, <2>12 DEF Intact
<1> QED
  BY <1>8, <1>9

\* The body that a client sends with LF.
LaidOutLF(body, c) ==
  LET n == Len(c)
  IN /\ Len(body) = n + 16
     /\ body[1] = "--b" /\ body[2] = "LF" /\ body[3] = "header" /\ body[4] = "LF"
     /\ body[5] = "LF" /\ body[6] = "meta" /\ body[7] = "LF"
     /\ body[8] = "--b" /\ body[9] = "LF" /\ body[10] = "header" /\ body[11] = "LF"
     /\ body[12] = "LF"
     /\ \A i \in 1..n : body[i + 12] = c[i]
     /\ body[n + 13] = "LF" /\ body[n + 14] = "--b" /\ body[n + 15] = "--"
     /\ body[n + 16] = "LF"

LEMMA LayoutLF ==
  ASSUME NEW Octets, NEW c \in Seq(Octets)
  PROVE  LaidOutLF(Multipart(LineFeed, c), c) /\ Multipart(LineFeed, c) \in Seq(Symbols(Octets))
<1> DEFINE body == Multipart(LineFeed, c)
           n == Len(c)
           S == Symbols(Octets)
<1>1. Len(body) = n + 16
  BY DEF Multipart, LineFeed, Delimiter
<1>2. body \in Seq(S)
  <2>1. c \in Seq(S)
    BY SeqMonotonic DEF Symbols
  <2> QED
    BY <2>1 DEF Multipart, LineFeed, Delimiter, Symbols
<1>3. /\ body[1] = "--b" /\ body[2] = "LF" /\ body[3] = "header" /\ body[4] = "LF"
      /\ body[5] = "LF" /\ body[6] = "meta" /\ body[7] = "LF"
      /\ body[8] = "--b" /\ body[9] = "LF" /\ body[10] = "header" /\ body[11] = "LF"
      /\ body[12] = "LF"
  BY DEF Multipart, LineFeed, Delimiter
<1>4. \A i \in 1..n : body[i + 12] = c[i]
  BY DEF Multipart, LineFeed, Delimiter
<1>5. /\ body[n + 13] = "LF" /\ body[n + 14] = "--b" /\ body[n + 15] = "--"
      /\ body[n + 16] = "LF"
  BY DEF Multipart, LineFeed, Delimiter
<1> HIDE DEF body, n, S
<1> QED
  BY <1>1, <1>2, <1>3, <1>4, <1>5 DEF LaidOutLF, body, n, S

LEMMA UnpackedLF ==
  ASSUME NEW Octets, Delimiter \notin Octets, NEW c \in Seq(Octets)
  PROVE  ParseMultipart(Multipart(LineFeed, c)) = <<<<"meta">>, c>> <=> Intact(LineFeed, c)
<1> DEFINE body == Multipart(LineFeed, c)
           n == Len(c)
           S == Symbols(Octets)
<1>0. LaidOutLF(body, c) /\ body \in Seq(S) /\ n \in Nat /\ n = Len(c)
  BY LayoutLF, LenProperties
<1> HIDE DEF body, n, S
<1>2. /\ body \in Seq(S) /\ n \in Nat /\ Len(body) = n + 16
      /\ body[1] = "--b" /\ body[2] = "LF" /\ body[3] = "header" /\ body[4] = "LF"
      /\ body[5] = "LF" /\ body[6] = "meta" /\ body[7] = "LF"
      /\ body[8] = "--b" /\ body[9] = "LF" /\ body[10] = "header" /\ body[11] = "LF"
      /\ body[12] = "LF"
  BY <1>0 DEF LaidOutLF
<1>4. /\ \A i \in 1..n : body[i + 12] = c[i] /\ body[i + 12] \in Octets
      /\ body[n + 13] = "LF" /\ body[n + 14] = "--b" /\ body[n + 15] = "--"
      /\ body[n + 16] = "LF"
  <2>1. \A i \in 1..n : c[i] \in Octets
    BY <1>0, ElementOfSeq
  <2> QED
    BY <1>0, <2>1 DEF LaidOutLF
<1>5. \A p \in 1..(n + 16) : body[p] = Delimiter <=> p \in {1, 8, n + 14}
  <2>1. body[1] = "--b" /\ body[8] = "--b" /\ body[n + 14] = "--b"
    BY <1>2, <1>4
  <2>2. ASSUME NEW p \in 1..(n + 16), body[p] = "--b" PROVE p \in {1, 8, n + 14}
    <3>1. p <= 12 \/ p >= n + 13 \/ \E i \in 1..n : p = i + 12
      <4>1. p > 12 /\ p < n + 13 => p - 12 \in 1..n /\ p = (p - 12) + 12
        BY <1>2
      <4> QED
        BY <1>2, <4>1
    <3>2. CASE p <= 12
      BY <1>2, <2>2, <3>2
    <3>3. CASE p >= n + 13
      BY <1>2, <1>4, <2>2, <3>3
    <3>4. CASE \E i \in 1..n : p = i + 12
      BY <1>4, <2>2, <3>4 DEF Delimiter
    <3> QED
      BY <3>1, <3>2, <3>3, <3>4
  <2> QED
    BY <2>1, <2>2 DEF Delimiter
<1>6. ParseMultipart(body) = <<PartBody(SubSeq(body, 3, 7)), PartBody(SubSeq(body, 10, n + 13))>>
  <2> DEFINE z == n + 14
  <2>1. /\ z \in Nat /\ 1 + 1 < 8 /\ 8 + 1 < z /\ z + 1 < Len(body) /\ body[z + 1] = "--"
        /\ \A p \in 1..Len(body) : body[p] = Delimiter <=> p \in {1, 8, z}
    BY <1>2, <1>4, <1>5
  <2>2. z - 1 = n + 13
    BY <1>2
  <2> HIDE DEF z
  <2> DEFINE a == 8
             w == 1
  <2>3. /\ a \in Nat /\ w \in {1, 2} /\ w # 2 /\ 1 + w < a /\ a + w < z
        /\ \A p \in 1..Len(body) : body[p] = Delimiter <=> p \in {1, a, z}
        /\ body[2] = "LF" /\ body[a + 1] = "LF" /\ body \in Seq(S)
    BY <1>2, <2>1
  <2>4. 2 + w = 3 /\ a - 1 = 7 /\ a + 1 + w = 10
    OBVIOUS
  <2> HIDE DEF a, w
  <2>5. ParseMultipart(body) = <<PartBody(SubSeq(body, 2 + w, a - 1)),
                                 PartBody(SubSeq(body, a + 1 + w, z - 1))>>
    BY <2>1, <2>3, TwoParts
  <2> QED
    BY <2>2, <2>4, <2>5
<1>7. PartBody(SubSeq(body, 3, 7)) = <<"meta">>
  <2> DEFINE d == SubSeq(body, 3, 7)
             b == <<"meta">>
  <2>1. d \in Seq(S) /\ Len(d) = 5 /\ \A i \in 1..5 : d[i] = body[i + 2]
    BY <1>2
  <2>2. b \in Seq(S) /\ Len(b) = 1 /\ b[1] = "meta"
    BY DEF S, Symbols
  <2> HIDE DEF d, b
  <2>3. PartOfLF(d, b)
    BY <1>2, <2>1, <2>2 DEF PartOfLF
  <2>4. Intact(LineFeed, b)
    <3>1. ~IsSuffix(<<"CR">>, b)
      BY <2>2, SuffixIsCR
    <3>2. Places(b, CRLF \o CRLF) = {}
      BY <2>2, BlankLineAt
    <3> QED
      BY <3>1, <3>2 DEF Intact
  <2>5. PartBody(d) = b
    BY <2>1, <2>2, <2>3, <2>4, PartUnpackedLF
  <2> QED
    BY <2>5 DEF d, b
<1>8. PartBody(SubSeq(body, 10, n + 13)) = c <=> Intact(LineFeed, c)
  <2> DEFINE d == SubSeq(body, 10, n + 13)
  <2>1. d \in Seq(S) /\ Len(d) = n + 4 /\ \A i \in 1..(n + 4) : d[i] = body[i + 9]
    BY <1>2
  <2>2. c \in Seq(S) /\ n = Len(c)
    BY <1>0, SeqMonotonic DEF S, Symbols
  <2> HIDE DEF d
  <2>3. \A i \in 1..n : d[i + 3] = c[i]
    <3> TAKE i \in 1..n
    <3>1. i + 3 \in 1..(n + 4) /\ (i + 3) + 9 = i + 12
      BY <1>2
    <3>2. body[i + 12] = c[i]
      BY <1>4
    <3> QED
      BY <2>1, <3>1, <3>2
  <2>4. d[1] = "header" /\ d[2] = "LF" /\ d[3] = "LF" /\ d[n + 4] = "LF"
    <3>1. d[1] = body[10] /\ d[2] = body[11] /\ d[3] = body[12]
      BY <1>2, <2>1
    <3>2. n + 4 \in 1..(n + 4) /\ (n + 4) + 9 = n + 13
      BY <1>2
    <3> QED
      BY <1>2, <1>4, <2>1, <3>1, <3>2
  <2>5. PartOfLF(d, c)
    BY <2>1, <2>2, <2>3, <2>4 DEF PartOfLF
  <2>6. PartBody(d) = c <=> Intact(LineFeed, c)
    BY <2>1, <2>2, <2>5, PartUnpackedLF
  <2> QED
    BY <2>6 DEF d
<1>9. \A x, y, v : <<x, y>> = <<x, v>> <=> y = v
  OBVIOUS
<1> QED
  BY <1>6, <1>7, <1>8, <1>9 DEF body

\* A body of two parts comes out as what was put in: with CRLF, which RFC 2046 asks
\* for, whatever line ends and blank lines the content has, any bytes at all but the
\* delimiter; with LF, which Python's email package and with it Google's SDK writes,
\* exactly when the content has no blank line of its own that is written with CRLF and
\* does not end with a CR (twin-drive: parse_multipart_related, split_headers_body).
THEOREM MultipartUnpacked ==
  ASSUME NEW Octets, Delimiter \notin Octets, NEW c \in Seq(Octets), NEW eol \in LineEnds
  PROVE  ParseMultipart(Multipart(eol, c)) = <<<<"meta">>, c>> <=> Intact(eol, c)
<1>1. CRLF # LineFeed
  BY DEF CRLF, LineFeed
<1>2. CASE eol = CRLF
  BY <1>1, <1>2, UnpackedCRLF DEF Intact
<1>3. CASE eol = LineFeed
  BY <1>3, UnpackedLF
<1> QED
  BY <1>2, <1>3 DEF LineEnds

-----------------------------------------------------------------------------
(* Queries. *)

\* Names and values, and what else a query is made of.
Words(Names) == Names \cup Fields \cup {"and", LBrace, RBrace, Equals, Quote, "has", "key",
                                        "value", "in_parents"}

FiltersOver(Names) == [field : Fields, key : {<<>>}, value : Seq(Names)]
                      \cup [field : {"property"}, key : Seq(Names), value : Seq(Names)]

\* The symbols that lay out a query are not in names and values.
Marking == {"and", LBrace, RBrace}
Plain(Names) == Names \cap Marking = {}

Bare(s) == \A i \in 1..Len(s) : s[i] \notin Marking

\* The provers see these as names, so that they differ is a fact to cite.
LEMMA Braces ==
  /\ LBrace # RBrace /\ Equals \notin Marking /\ Quote \notin Marking
  /\ "and" # LBrace /\ "and" # RBrace
  /\ \A x \in {"has", "key", "value", "name", "mimeType", "in_parents"} :
       x \notin Marking /\ x # Quote
<1>1. LBrace # RBrace /\ "and" # LBrace /\ "and" # RBrace
  BY Zenon DEF LBrace, RBrace
<1>2. Equals # "and" /\ Equals # LBrace /\ Equals # RBrace
  BY Zenon DEF LBrace, RBrace, Equals
<1>3. Quote # "and" /\ Quote # LBrace /\ Quote # RBrace
  BY Zenon DEF LBrace, RBrace, Quote
<1>4. \A x \in {"has", "key", "value", "name", "mimeType", "in_parents"} :
        x # "and" /\ x # LBrace /\ x # RBrace /\ x # Quote
  BY Zenon DEF LBrace, RBrace, Quote
<1> QED
  BY <1>1, <1>2, <1>3, <1>4 DEF Marking

\* Between the last brace before p, which opens, and p there is no other.
Opened(q, p) == \E i \in 1..(p - 1) :
  q[i] = LBrace /\ \A k \in (i + 1)..(p - 1) : q[k] # LBrace /\ q[k] # RBrace

\* The next brace behind one that opens, within n symbols, closes it.
BracesClosed(q, n) == \A i \in 1..n : q[i] = LBrace =>
  \E j \in (i + 1)..n : q[j] = RBrace /\ \A k \in (i + 1)..(j - 1) : q[k] # LBrace /\ q[k] # RBrace

LEMMA CountOne ==
  ASSUME NEW q, NEW x, NEW i, NEW j, NEW m,
         {k \in i..j : q[k] = x} = {m}
  PROVE  Count(q, x, i, j) = 1
BY FS_Singleton DEF Count

LEMMA CountNone ==
  ASSUME NEW q, NEW x, NEW i, NEW j, {k \in i..j : q[k] = x} = {}
  PROVE  Count(q, x, i, j) = 0
BY FS_EmptySet DEF Count

\* Behind a brace that opens a place is nested, ...
LEMMA OpenedIsNested ==
  ASSUME NEW q, NEW p \in Int, Opened(q, p)
  PROVE  Nested(q, p)
<1>1. PICK i \in 1..(p - 1) :
        q[i] = LBrace /\ \A k \in (i + 1)..(p - 1) : q[k] # LBrace /\ q[k] # RBrace
  BY DEF Opened
<1>2. ASSUME NEW j \in i..(p - 1) PROVE Count(q, LBrace, i, j) > Count(q, RBrace, i, j)
  <2>0. \A k \in i..j : k = i \/ k \in (i + 1)..(p - 1)
    BY <1>1
  <2>1. {k \in i..j : q[k] = LBrace} = {i}
    BY <1>1, <2>0
  <2>2. {k \in i..j : q[k] = RBrace} = {}
    BY <1>1, <2>0, Braces
  <2>3. Count(q, LBrace, i, j) = 1
    BY <2>1, CountOne
  <2>4. Count(q, RBrace, i, j) = 0
    BY <2>2, CountNone
  <2> QED
    BY <2>3, <2>4
<1> QED
  BY <1>2 DEF Nested

\* ... and behind braces that are all closed it is not.
LEMMA ClosedIsNotNested ==
  ASSUME NEW q, NEW n \in Nat, BracesClosed(q, n)
  PROVE  ~Nested(q, n + 1)
<1> SUFFICES ASSUME NEW i \in 1..n,
                    \A j \in i..n : Count(q, LBrace, i, j) > Count(q, RBrace, i, j)
             PROVE  FALSE
  <2>1. (n + 1) - 1 = n
    OBVIOUS
  <2> QED
    BY <2>1 DEF Nested
<1>1. q[i] = LBrace
  <2> SUFFICES ASSUME q[i] # LBrace PROVE FALSE
    OBVIOUS
  <2>1. {k \in i..i : q[k] = LBrace} = {}
    OBVIOUS
  <2>2. Count(q, LBrace, i, i) = 0
    BY <2>1, CountNone
  <2>3. Count(q, RBrace, i, i) \in {0, 1}
    <3>1. CASE q[i] = RBrace
      <4>1. {k \in i..i : q[k] = RBrace} = {i}
        BY <3>1
      <4> QED
        BY <4>1, CountOne
    <3>2. CASE q[i] # RBrace
      <4>1. {k \in i..i : q[k] = RBrace} = {}
        BY <3>2
      <4> QED
        BY <4>1, CountNone
    <3> QED
      BY <3>1, <3>2
  <2>4. Count(q, LBrace, i, i) > Count(q, RBrace, i, i)
    OBVIOUS
  <2> QED
    BY <2>2, <2>3, <2>4
<1>2. PICK j \in (i + 1)..n :
        q[j] = RBrace /\ \A k \in (i + 1)..(j - 1) : q[k] # LBrace /\ q[k] # RBrace
  BY <1>1 DEF BracesClosed
<1>3. \A k \in i..j : k = i \/ k \in (i + 1)..(j - 1) \/ k = j
  OBVIOUS
<1>4. LBrace # RBrace /\ i \in i..j /\ j \in i..j /\ i # j
  <2>1. i \in i..j /\ j \in i..j /\ i # j
    BY <1>2
  <2> QED
    BY <2>1, Braces
<1>5. Count(q, LBrace, i, j) = 1
  <2>1. \A k \in i..j : q[k] = LBrace <=> k = i
    BY <1>1, <1>2, <1>3, <1>4
  <2>2. {k \in i..j : q[k] = LBrace} = {i}
    BY <1>4, <2>1
  <2> QED
    BY <2>2, CountOne
<1>6. Count(q, RBrace, i, j) = 1
  <2>1. \A k \in i..j : q[k] = RBrace <=> k = j
    BY <1>1, <1>2, <1>3, <1>4
  <2>2. {k \in i..j : q[k] = RBrace} = {j}
    BY <1>4, <2>1
  <2> QED
    BY <2>2, CountOne
<1>7. Count(q, LBrace, i, j) > Count(q, RBrace, i, j)
  BY <1>4
<1> QED
  BY <1>5, <1>6, <1>7

\* Whether a place is nested depends on what is before it.
LEMMA NestedInPrefix ==
  ASSUME NEW q, NEW r, NEW p \in Int, \A i \in 1..(p - 1) : r[i] = q[i]
  PROVE  Nested(r, p) <=> Nested(q, p)
<1>1. ASSUME NEW i \in 1..(p - 1), NEW j \in i..(p - 1), NEW x
      PROVE  Count(r, x, i, j) = Count(q, x, i, j)
  <2>1. {k \in i..j : r[k] = x} = {k \in i..j : q[k] = x}
    OBVIOUS
  <2> QED
    BY <2>1 DEF Count
<1> QED
  BY <1>1 DEF Nested

\* Two marks of a query that follow each other: cuts, and its ends.
Follows(q, cuts, a, b) ==
  LET marks == {0, Len(q) + 1} \cup cuts
  IN a \in marks /\ b \in marks /\ a < b /\ \A m \in marks : m <= a \/ m >= b

Between(q, a, b) == [at |-> a, text |-> SubSeq(q, a + 1, b - 1)]

LEMMA PiecesBetween ==
  ASSUME NEW q, NEW cuts, NEW x
  PROVE  x \in Pieces(q, cuts) <=>
           \E a, b : Follows(q, cuts, a, b) /\ x = Between(q, a, b)
<1> DEFINE marks == {0, Len(q) + 1} \cup cuts
           next(p, r) == p < r /\ \A m \in marks : m <= p \/ m >= r
<1>1. Pieces(q, cuts) = {Between(q, m[1], m[2]) :
                           m \in {y \in marks \X marks : next(y[1], y[2])}}
  BY Zenon DEF Pieces, Between
<1>2. \A a, b : Follows(q, cuts, a, b) <=> a \in marks /\ b \in marks /\ next(a, b)
  BY DEF Follows
<1> HIDE DEF marks, next
<1>3. ASSUME x \in Pieces(q, cuts)
      PROVE  \E a, b : Follows(q, cuts, a, b) /\ x = Between(q, a, b)
  <2>1. PICK m \in marks \X marks :
          next(m[1], m[2]) /\ x = Between(q, m[1], m[2])
    BY <1>1, <1>3
  <2>2. Follows(q, cuts, m[1], m[2])
    BY <1>2, <2>1
  <2> QED
    BY <2>1, <2>2
<1>4. ASSUME NEW a, NEW b, Follows(q, cuts, a, b), x = Between(q, a, b)
      PROVE  x \in Pieces(q, cuts)
  <2>1. <<a, b>> \in {y \in marks \X marks : next(y[1], y[2])}
    BY <1>2, <1>4
  <2>2. x = Between(q, <<a, b>>[1], <<a, b>>[2])
    BY <1>4
  <2> QED
    BY <1>1, <2>1, <2>2, Zenon
<1> QED
  BY <1>3, <1>4

\* Without a cut there is one piece.
LEMMA OnePiece ==
  ASSUME NEW S, NEW q \in Seq(S)
  PROVE  Pieces(q, {}) = {[at |-> 0, text |-> q]}
<1>1. Len(q) \in Nat
  BY LenProperties
<1>3. \A a, b : Follows(q, {}, a, b) <=> a = 0 /\ b = Len(q) + 1
  BY <1>1 DEF Follows
<1>4. Between(q, 0, Len(q) + 1) = [at |-> 0, text |-> q]
  <2>1. /\ SubSeq(q, 1, Len(q)) \in Seq(S) /\ Len(SubSeq(q, 1, Len(q))) = Len(q)
        /\ \A i \in 1..Len(q) : SubSeq(q, 1, Len(q))[i] = q[i]
    BY <1>1
  <2>2. SubSeq(q, 1, Len(q)) = q
    BY <2>1, SeqEqual
  <2>3. 0 + 1 = 1 /\ Len(q) + 1 - 1 = Len(q)
    BY <1>1
  <2>4. SubSeq(q, 0 + 1, Len(q) + 1 - 1) = q
    BY <2>2, <2>3
  <2> QED
    BY <2>4 DEF Between
<1>5. ASSUME NEW x, x \in Pieces(q, {}) PROVE x = [at |-> 0, text |-> q]
  <2>1. PICK a, b : Follows(q, {}, a, b) /\ x = Between(q, a, b)
    BY <1>5, PiecesBetween
  <2>2. a = 0 /\ b = Len(q) + 1
    BY <1>3, <2>1
  <2> QED
    BY <1>4, <2>1, <2>2
<1>6. [at |-> 0, text |-> q] \in Pieces(q, {})
  <2>1. Follows(q, {}, 0, Len(q) + 1)
    BY <1>3
  <2>2. Between(q, 0, Len(q) + 1) \in Pieces(q, {})
    BY <2>1, PiecesBetween
  <2> QED
    BY <1>4, <2>2
<1> QED
  BY <1>5, <1>6

\* r is q, an "and" and c.
Linked(r, q, c) ==
  /\ Len(r) = Len(q) + 1 + Len(c)
  /\ \A i \in 1..Len(q) : r[i] = q[i]
  /\ r[Len(q) + 1] = "and"
  /\ \A j \in 1..Len(c) : r[Len(q) + 1 + j] = c[j]

\* A cut at the "and" between q and c, and no other behind it, makes c a piece.
LEMMA LinkedPieces ==
  ASSUME NEW S, NEW r \in Seq(S), NEW q \in Seq(S), NEW c \in Seq(S), Linked(r, q, c),
         NEW cuts \in SUBSET (1..Len(q))
  PROVE  /\ Pieces(r, cuts \cup {Len(q) + 1})
              = Pieces(q, cuts) \cup {[at |-> Len(q) + 1, text |-> c]}
         /\ \A x \in Pieces(q, cuts) : x.at \in 0..Len(q)
<1> DEFINE L == Len(q)
           n == Len(c)
           more == cuts \cup {L + 1}
<1>1. L \in Nat /\ n \in Nat /\ Len(r) = L + 1 + n
  BY LenProperties DEF Linked
<1> DEFINE old == {0, L + 1} \cup cuts
           new == {0, Len(r) + 1} \cup more
<1>2. new = old \cup {Len(r) + 1}
  OBVIOUS
<1>3. old \subseteq 0..(L + 1) /\ L + 1 \in old /\ 0 \in old
  <2>1. cuts \subseteq 0..(L + 1) /\ 0 \in 0..(L + 1) /\ L + 1 \in 0..(L + 1)
    BY <1>1
  <2> QED
    BY <2>1
<1>a. /\ \A a, b : Follows(r, more, a, b) <=>
           a \in new /\ b \in new /\ a < b /\ \A m \in new : m <= a \/ m >= b
      /\ \A a, b : Follows(q, cuts, a, b) <=>
           a \in old /\ b \in old /\ a < b /\ \A m \in old : m <= a \/ m >= b
  BY DEF Follows
<1> HIDE DEF old, new, more
<1>4. \A a, b : Follows(r, more, a, b) <=> Follows(q, cuts, a, b) \/ (a = L + 1 /\ b = Len(r) + 1)
  <2> SUFFICES ASSUME NEW a, NEW b
               PROVE  Follows(r, more, a, b) <=> Follows(q, cuts, a, b) \/ (a = L + 1 /\ b = Len(r) + 1)
    OBVIOUS
  <2>1. ASSUME Follows(r, more, a, b), b \in old PROVE Follows(q, cuts, a, b)
    BY <1>1, <1>2, <1>3, <1>a, <2>1
  <2>2. ASSUME Follows(r, more, a, b), b \notin old PROVE a = L + 1 /\ b = Len(r) + 1
    <3>1. b = Len(r) + 1
      BY <1>2, <1>a, <2>2
    <3>2. a \in old
      BY <1>1, <1>2, <1>a, <2>2, <3>1
    <3>3. L + 1 <= a \/ L + 1 >= b
      BY <1>2, <1>3, <1>a, <2>2
    <3>4. a \in 0..(L + 1)
      BY <1>3, <3>2
    <3> QED
      BY <1>1, <3>1, <3>3, <3>4
  <2>3. ASSUME Follows(q, cuts, a, b) PROVE Follows(r, more, a, b)
    <3>1. a \in old /\ b \in old /\ a < b /\ \A m \in old : m <= a \/ m >= b
      BY <1>a, <2>3
    <3>2. Len(r) + 1 >= b
      BY <1>1, <1>3, <3>1
    <3>3. \A m \in new : m <= a \/ m >= b
      BY <1>2, <3>1, <3>2
    <3> QED
      BY <1>2, <1>a, <3>1, <3>3
  <2>4. ASSUME a = L + 1, b = Len(r) + 1 PROVE Follows(r, more, a, b)
    BY <1>1, <1>2, <1>3, <1>a, <2>4
  <2> QED
    BY <2>1, <2>2, <2>3, <2>4
<1>5. ASSUME NEW a, NEW b, Follows(q, cuts, a, b)
      PROVE  Between(r, a, b) = Between(q, a, b) /\ a \in 0..L
  <2>1. a \in 0..(L + 1) /\ b \in 0..(L + 1) /\ a < b
    BY <1>3, <1>5, <1>a
  <2>2. a + 1 \in Int /\ b - 1 \in Int /\ 1 <= a + 1 /\ b - 1 <= L /\ b - 1 <= Len(r)
    BY <1>1, <2>1
  <2> DEFINE m == a + 1
             w == b - 1
             x == SubSeq(r, m, w)
             y == SubSeq(q, m, w)
  <2>3. \A i \in m..w : r[i] \in S /\ q[i] \in S /\ r[i] = q[i]
    <3>1. \A i \in m..w : i \in 1..L /\ i \in 1..Len(r)
      BY <1>1, <2>2
    <3> QED
      BY <3>1 DEF Linked
  <2> HIDE DEF m, w
  <2>4. m \in Int /\ w \in Int
    BY <2>2 DEF m, w
  <2>5. /\ x \in Seq(S) /\ y \in Seq(S) /\ Len(x) = Len(y)
        /\ Len(x) = IF m <= w THEN w - m + 1 ELSE 0
    <3>1. x \in Seq(S) /\ Len(x) = IF m <= w THEN w - m + 1 ELSE 0
      BY <2>3, <2>4, SubSeqProperties
    <3>2. y \in Seq(S) /\ Len(y) = IF m <= w THEN w - m + 1 ELSE 0
      BY <2>3, <2>4, SubSeqProperties
    <3> HIDE DEF x, y
    <3> QED
      BY <3>1, <3>2
  <2>6. \A i \in 1..(w - m + 1) : x[i] = r[m + i - 1] /\ y[i] = q[m + i - 1]
    BY <2>3, <2>4, SubSeqProperties
  <2>7. \A i \in 1..Len(x) : i \in 1..(w - m + 1) /\ m + i - 1 \in m..w
    BY <2>4, <2>5
  <2>8. \A i \in 1..Len(x) : x[i] = y[i]
    BY <2>3, <2>6, <2>7
  <2> HIDE DEF x, y
  <2>9. x = y
    BY <2>5, <2>8, SeqEqual
  <2>10. Between(r, a, b) = Between(q, a, b)
    BY <2>9 DEF x, y, m, w, Between
  <2>11. a \in 0..L
    BY <1>1, <2>1
  <2> QED
    BY <2>10, <2>11
<1>6. Between(r, L + 1, Len(r) + 1) = [at |-> L + 1, text |-> c]
  <2> DEFINE m == (L + 1) + 1
             w == (Len(r) + 1) - 1
             x == SubSeq(r, m, w)
  <2>1. m \in Int /\ w \in Int /\ m >= 1 /\ w = Len(r) /\ w - m + 1 = n
    BY <1>1
  <2>2. \A i \in 1..n : m + i - 1 = L + 1 + i
    BY <1>1
  <2> HIDE DEF m, w
  <2>3. \A i \in m..w : r[i] \in S
    BY <1>1, <2>1
  <2>4. /\ x \in Seq(S) /\ Len(x) = IF m <= w THEN w - m + 1 ELSE 0
        /\ \A i \in 1..(w - m + 1) : x[i] = r[m + i - 1]
    BY <2>1, <2>3, SubSeqProperties
  <2>5. Len(x) = n
    BY <1>1, <2>1, <2>4
  <2>6. \A i \in 1..n : x[i] = c[i]
    BY <2>1, <2>2, <2>4 DEF Linked
  <2> HIDE DEF x
  <2>7. x = c
    BY <2>4, <2>5, <2>6, SeqEqual
  <2> QED
    BY <2>7 DEF x, m, w, Between
<1> HIDE DEF L, n
<1>7. ASSUME NEW x, x \in Pieces(r, more)
      PROVE  x \in Pieces(q, cuts) \cup {[at |-> L + 1, text |-> c]}
  <2>1. PICK a, b : Follows(r, more, a, b) /\ x = Between(r, a, b)
    BY <1>7, PiecesBetween
  <2>2. CASE Follows(q, cuts, a, b)
    <3>1. x = Between(q, a, b)
      BY <1>5, <2>1, <2>2
    <3> QED
      BY <2>2, <3>1, PiecesBetween
  <2>3. CASE a = L + 1 /\ b = Len(r) + 1
    BY <1>6, <2>1, <2>3
  <2> QED
    BY <1>4, <2>1, <2>2, <2>3
<1>8. ASSUME NEW x, x \in Pieces(q, cuts) PROVE x \in Pieces(r, more) /\ x.at \in 0..L
  <2>1. PICK a, b : Follows(q, cuts, a, b) /\ x = Between(q, a, b)
    BY <1>8, PiecesBetween
  <2>2. Follows(r, more, a, b) /\ x = Between(r, a, b) /\ a \in 0..L
    BY <1>4, <1>5, <2>1
  <2>3. x.at = a
    BY <2>1 DEF Between
  <2> QED
    BY <2>2, <2>3, PiecesBetween
<1>9. [at |-> L + 1, text |-> c] \in Pieces(r, more)
  <2>1. Follows(r, more, L + 1, Len(r) + 1)
    BY <1>4
  <2>2. Between(r, L + 1, Len(r) + 1) \in Pieces(r, more)
    BY <2>1, PiecesBetween
  <2> QED
    BY <1>6, <2>2
<1> QED
  BY <1>7, <1>8, <1>9 DEF L, more

\* c closes its braces, and an "and" in it is between some.
Undivided(c) ==
  /\ BracesClosed(c, Len(c))
  /\ \A j \in 1..Len(c) : c[j] = "and" => Opened(c, j)

\* The cut between q and c is the only one that linking them adds.
LEMMA LinkedCuts ==
  ASSUME NEW S, NEW r \in Seq(S), NEW q \in Seq(S), NEW c \in Seq(S), Linked(r, q, c),
         BracesClosed(q, Len(q)), Undivided(c)
  PROVE  Cuts(r) = Cuts(q) \cup {Len(q) + 1} /\ BracesClosed(r, Len(r))
<1> DEFINE L == Len(q)
           n == Len(c)
<1>1. L \in Nat /\ n \in Nat /\ Len(r) = L + 1 + n
  BY LenProperties DEF Linked
<1>2. /\ \A i \in 1..L : r[i] = q[i]
      /\ r[L + 1] = "and"
      /\ \A j \in 1..n : r[L + 1 + j] = c[j]
  BY DEF Linked
<1>3. BracesClosed(r, L)
  <2> SUFFICES ASSUME NEW i \in 1..L, r[i] = LBrace
               PROVE  \E j \in (i + 1)..L : r[j] = RBrace /\
                        \A k \in (i + 1)..(j - 1) : r[k] # LBrace /\ r[k] # RBrace
    BY DEF BracesClosed
  <2>1. PICK j \in (i + 1)..L :
          q[j] = RBrace /\ \A k \in (i + 1)..(j - 1) : q[k] # LBrace /\ q[k] # RBrace
    BY <1>2 DEF BracesClosed
  <2>2. j \in 1..L /\ \A k \in (i + 1)..(j - 1) : k \in 1..L
    BY <1>1, <2>1
  <2> HIDE DEF L
  <2> QED
    BY <1>2, <2>1, <2>2
<1> HIDE DEF L, n
<1>4. BracesClosed(r, Len(r))
  <2> SUFFICES ASSUME NEW i \in 1..Len(r), r[i] = LBrace
               PROVE  \E j \in (i + 1)..Len(r) : r[j] = RBrace /\
                        \A k \in (i + 1)..(j - 1) : r[k] # LBrace /\ r[k] # RBrace
    BY DEF BracesClosed
  <2>1. CASE i \in 1..L
    <3>1. PICK j \in (i + 1)..L :
            r[j] = RBrace /\ \A k \in (i + 1)..(j - 1) : r[k] # LBrace /\ r[k] # RBrace
      BY <1>3, <2>1 DEF BracesClosed
    <3>2. j \in (i + 1)..Len(r)
      BY <1>1, <3>1
    <3> QED
      BY <3>1, <3>2
  <2>2. CASE i = L + 1
    BY <1>2, <2>2, Braces
  <2>3. CASE i > L + 1
    <3> DEFINE u == i - (L + 1)
    <3>1. u \in 1..n /\ i = L + 1 + u
      BY <1>1, <2>3
    <3> HIDE DEF u
    <3>2. c[u] = LBrace
      BY <1>2, <3>1
    <3>3. PICK v \in (u + 1)..n :
            c[v] = RBrace /\ \A k \in (u + 1)..(v - 1) : c[k] # LBrace /\ c[k] # RBrace
      BY <3>1, <3>2 DEF Undivided, BracesClosed, n
    <3> DEFINE j == L + 1 + v
    <3>4. j \in (i + 1)..Len(r) /\ v \in 1..n
      BY <1>1, <3>1, <3>3
    <3>5. r[j] = RBrace
      BY <1>2, <3>3, <3>4
    <3>6. ASSUME NEW k \in (i + 1)..(j - 1) PROVE r[k] # LBrace /\ r[k] # RBrace
      <4> DEFINE w == k - (L + 1)
      <4>1. w \in (u + 1)..(v - 1) /\ w \in 1..n /\ k = L + 1 + w
        BY <1>1, <3>1, <3>3
      <4> HIDE DEF w
      <4> QED
        BY <1>2, <3>3, <4>1
    <3> HIDE DEF j
    <3> QED
      BY <3>4, <3>5, <3>6
  <2>4. i \in 1..L \/ i = L + 1 \/ i > L + 1
    BY <1>1
  <2> QED
    BY <2>1, <2>2, <2>3, <2>4
<1>5. ASSUME NEW p PROVE p \in Cuts(r) <=> p \in Cuts(q) \/ p = L + 1
  <2>1. CASE p \in 1..L
    <3>1. p \in Int /\ \A i \in 1..(p - 1) : i \in 1..L
      BY <1>1, <2>1
    <3>2. \A i \in 1..(p - 1) : r[i] = q[i]
      BY <1>2, <3>1
    <3>3. Nested(r, p) <=> Nested(q, p)
      BY <3>1, <3>2, NestedInPrefix
    <3>4. r[p] = q[p] /\ p \in 1..Len(r) /\ p # L + 1 /\ p \in 1..Len(q)
      BY <1>1, <1>2, <2>1 DEF L
    <3> QED
      BY <3>3, <3>4 DEF Cuts, Ands
  <2>2. CASE p = L + 1
    <3>1. p \in 1..Len(r)
      BY <1>1, <2>2
    <3>2. ~Nested(r, L + 1)
      BY <1>1, <1>3, ClosedIsNotNested
    <3> QED
      BY <1>2, <2>2, <3>1, <3>2 DEF Cuts, Ands
  <2>3. CASE p \in (L + 2)..Len(r)
    <3> DEFINE j == p - (L + 1)
    <3>1. j \in 1..n /\ p = L + 1 + j /\ p \notin 1..L /\ p # L + 1 /\ p \in Int
      BY <1>1, <2>3
    <3> HIDE DEF j
    <3>2. r[p] = c[j]
      BY <1>2, <3>1
    <3>3. ASSUME c[j] = "and" PROVE Nested(r, p)
      <4>1. PICK i \in 1..(j - 1) :
              c[i] = LBrace /\ \A k \in (i + 1)..(j - 1) : c[k] # LBrace /\ c[k] # RBrace
        BY <3>1, <3>3 DEF Undivided, Opened, n
      <4> DEFINE u == L + 1 + i
      <4>2. u \in 1..(p - 1) /\ i \in 1..n
        BY <1>1, <3>1, <4>1
      <4>3. r[u] = LBrace
        BY <1>2, <4>1, <4>2
      <4>4. ASSUME NEW k \in (u + 1)..(p - 1) PROVE r[k] # LBrace /\ r[k] # RBrace
        <5> DEFINE w == k - (L + 1)
        <5>1. w \in (i + 1)..(j - 1) /\ w \in 1..n /\ k = L + 1 + w
          BY <1>1, <3>1, <4>1
        <5> HIDE DEF w
        <5> QED
          BY <1>2, <4>1, <5>1
      <4> HIDE DEF u
      <4>5. Opened(r, p)
        BY <4>2, <4>3, <4>4 DEF Opened
      <4> QED
        BY <3>1, <4>5, OpenedIsNested
    <3>4. p \notin Cuts(r)
      BY <3>2, <3>3 DEF Cuts, Ands
    <3>5. p \notin Cuts(q)
      BY <3>1 DEF Cuts, Ands, L
    <3> QED
      BY <3>1, <3>4, <3>5
  <2>4. CASE p \notin 1..Len(r)
    <3>1. p \notin 1..L /\ p # L + 1
      BY <1>1, <2>4
    <3> QED
      BY <2>4, <3>1 DEF Cuts, Ands, L
  <2>5. p \in 1..Len(r) => p \in 1..L \/ p = L + 1 \/ p \in (L + 2)..Len(r)
    BY <1>1
  <2> QED
    BY <2>1, <2>2, <2>3, <2>4, <2>5
<1> QED
  BY <1>4, <1>5 DEF L

\* A clause without the marking symbols is not divided.
LEMMA BareIsUndivided ==
  ASSUME NEW c, Bare(c)
  PROVE  Undivided(c)
BY DEF Bare, Marking, Undivided, BracesClosed

\* Where the symbols of two joined sequences are.
Joins(c, a, b) ==
  /\ Len(c) = Len(a) + Len(b)
  /\ \A i \in 1..Len(a) : c[i] = a[i]
  /\ \A i \in 1..Len(b) : c[Len(a) + i] = b[i]

LEMMA JoinedSymbols ==
  ASSUME NEW S, NEW a \in Seq(S), NEW b \in Seq(S)
  PROVE  a \o b \in Seq(S) /\ Joins(a \o b, a, b)
<1> DEFINE c == a \o b
<1>1. Len(a) \in Nat /\ Len(b) \in Nat
  BY LenProperties
<1>2. /\ c \in Seq(S) /\ Len(c) = Len(a) + Len(b)
      /\ \A i \in 1..(Len(a) + Len(b)) : c[i] = IF i <= Len(a) THEN a[i] ELSE b[i - Len(a)]
  BY ConcatProperties
<1> HIDE DEF c
<1>3. ASSUME NEW i \in 1..Len(a) PROVE c[i] = a[i]
  BY <1>1, <1>2
<1>4. ASSUME NEW i \in 1..Len(b) PROVE c[Len(a) + i] = b[i]
  <2>1. Len(a) + i \in 1..(Len(a) + Len(b)) /\ ~(Len(a) + i <= Len(a)) /\ (Len(a) + i) - Len(a) = i
    BY <1>1
  <2> QED
    BY <1>2, <2>1
<1> QED
  BY <1>2, <1>3, <1>4 DEF c, Joins

\* k='v', symbol for symbol.
EqOf(s, k, v) ==
  /\ Len(s) = Len(v) + 4 /\ s[1] = k /\ s[2] = Equals /\ s[3] = Quote
  /\ \A i \in 1..Len(v) : s[i + 3] = v[i]
  /\ s[Len(v) + 4] = Quote

LEMMA EqTyped ==
  ASSUME NEW Names, NEW k \in Words(Names), NEW v \in Seq(Names)
  PROVE  Eq(k, v) \in Seq(Words(Names)) /\ EqOf(Eq(k, v), k, v)
<1> DEFINE W == Words(Names)
           n == Len(v)
           h == <<k, Equals, Quote>>
           t == <<Quote>>
           m == h \o v
           e == m \o t
<1>1. Equals \in W /\ Quote \in W /\ v \in Seq(W) /\ n \in Nat
  BY SeqMonotonic, LenProperties DEF Words
<1>2. h \in Seq(W) /\ Len(h) = 3 /\ h[1] = k /\ h[2] = Equals /\ h[3] = Quote
      /\ t \in Seq(W) /\ Len(t) = 1 /\ t[1] = Quote
  BY <1>1
<1>3. Eq(k, v) = e
  BY DEF Eq
<1> HIDE DEF W, h, t
<1>a. m \in Seq(W) /\ Joins(m, h, v)
  BY <1>1, <1>2, JoinedSymbols
<1> HIDE DEF m, n
<1>4. /\ Len(m) = 3 + n
      /\ \A i \in 1..3 : m[i] = h[i]
      /\ \A i \in 1..n : m[3 + i] = v[i]
  BY <1>2, <1>a DEF Joins, n
<1>b. e \in Seq(W) /\ Joins(e, m, t)
  BY <1>2, <1>a, JoinedSymbols
<1> HIDE DEF e
<1>5. /\ e \in Seq(W) /\ Len(e) = Len(m) + 1
      /\ \A i \in 1..Len(m) : e[i] = m[i]
      /\ \A i \in 1..1 : e[Len(m) + i] = t[i]
  BY <1>2, <1>b DEF Joins
<1>6. e[1] = k /\ e[2] = Equals /\ e[3] = Quote
  <2>1. \A i \in 1..3 : i \in 1..Len(m) /\ e[i] = h[i]
    BY <1>1, <1>4, <1>5
  <2> QED
    BY <1>2, <2>1
<1>7. ASSUME NEW i \in 1..n PROVE e[i + 3] = v[i]
  <2>1. i + 3 \in 1..Len(m) /\ i + 3 = 3 + i
    BY <1>1, <1>4
  <2> QED
    BY <1>4, <1>5, <2>1
<1>8. e[n + 4] = Quote
  <2>1. 1 \in 1..1 /\ Len(m) + 1 = n + 4
    BY <1>1, <1>4
  <2> QED
    BY <1>2, <1>5, <2>1
<1>9. Len(e) = n + 4
  BY <1>1, <1>4, <1>5
<1>10. EqOf(e, k, v)
  BY <1>6, <1>7, <1>8, <1>9 DEF EqOf, n
<1> QED
  BY <1>3, <1>5, <1>10 DEF W

\* What is between quotes is taken as it is.
LEMMA Unquotes ==
  ASSUME NEW S, NEW s \in Seq(S), NEW v \in Seq(S), Len(s) = Len(v) + 2, s[1] = Quote,
         s[Len(s)] = Quote, \A i \in 1..Len(v) : s[i + 1] = v[i]
  PROVE  Unquoted(s) = {v}
<1>1. Len(v) \in Nat /\ Len(s) >= 2
  BY LenProperties
<1> DEFINE x == SubSeq(s, 2, Len(s) - 1)
<1>2. /\ x \in Seq(S) /\ Len(x) = Len(v)
      /\ \A i \in 1..Len(v) : x[i] = s[i + 1]
  <2>1. \A i \in 2..(Len(s) - 1) : s[i] \in S
    BY <1>1, ElementOfSeq
  <2>2. 2 \in Int /\ Len(s) - 1 \in Int
    BY <1>1
  <2>3. /\ x \in Seq(S) /\ Len(x) = IF 2 <= Len(s) - 1 THEN (Len(s) - 1) - 2 + 1 ELSE 0
        /\ \A i \in 1..((Len(s) - 1) - 2 + 1) : x[i] = s[2 + i - 1]
    BY <2>1, <2>2, SubSeqProperties
  <2>4. (Len(s) - 1) - 2 + 1 = Len(v) /\ \A i \in 1..Len(v) : 2 + i - 1 = i + 1
    BY <1>1
  <2> HIDE DEF x
  <2> QED
    BY <1>1, <2>3, <2>4
<1> HIDE DEF x
<1>3. x = v
  BY <1>2, SeqEqual
<1> QED
  BY <1>1, <1>3 DEF Unquoted, x

LEMMA EqParsed ==
  ASSUME NEW S, NEW s \in Seq(S), NEW k, NEW v \in Seq(S), EqOf(s, k, v)
  PROVE  /\ EqValue(s, k) = {v}
         /\ \A k2 : k2 # k => EqValue(s, k2) = {}
<1>1. Len(v) \in Nat /\ Len(s) = Len(v) + 4
  BY LenProperties DEF EqOf
<1> DEFINE x == SubSeq(s, 3, Len(s))
<1>2. /\ x \in Seq(S) /\ Len(x) = Len(v) + 2
      /\ \A i \in 1..(Len(v) + 2) : x[i] = s[i + 2]
  <2>1. \A i \in 3..Len(s) : s[i] \in S
    BY <1>1, ElementOfSeq
  <2>2. 3 \in Int /\ Len(s) \in Int
    BY <1>1
  <2>3. /\ x \in Seq(S) /\ Len(x) = IF 3 <= Len(s) THEN Len(s) - 3 + 1 ELSE 0
        /\ \A i \in 1..(Len(s) - 3 + 1) : x[i] = s[3 + i - 1]
    BY <2>1, <2>2, SubSeqProperties
  <2>4. Len(s) - 3 + 1 = Len(v) + 2 /\ \A i \in 1..(Len(v) + 2) : 3 + i - 1 = i + 2
    BY <1>1
  <2> HIDE DEF x
  <2> QED
    BY <1>1, <2>3, <2>4
<1> HIDE DEF x
<1>3. x[1] = Quote /\ x[Len(x)] = Quote /\ \A i \in 1..Len(v) : x[i + 1] = v[i]
  <2>1. x[1] = s[3] /\ x[Len(v) + 2] = s[Len(v) + 4]
    BY <1>1, <1>2
  <2>2. \A i \in 1..Len(v) : i + 1 \in 1..(Len(v) + 2) /\ (i + 1) + 2 = i + 3
    BY <1>1
  <2>3. \A i \in 1..Len(v) : x[i + 1] = s[i + 3]
    BY <1>2, <2>2
  <2> QED
    BY <1>2, <2>1, <2>3 DEF EqOf
<1>4. Unquoted(x) = {v}
  BY <1>2, <1>3, Unquotes
<1>5. Len(s) >= 2 /\ s[1] = k /\ s[2] = Equals
  BY <1>1 DEF EqOf
<1> QED
  BY <1>4, <1>5 DEF EqValue, x

\* 'v' in parents, symbol for symbol.
ParentsOf(c, v) ==
  /\ Len(c) = Len(v) + 3 /\ c[1] = Quote
  /\ \A i \in 1..Len(v) : c[i + 1] = v[i]
  /\ c[Len(v) + 2] = Quote /\ c[Len(v) + 3] = "in_parents"

LEMMA ParentsTyped ==
  ASSUME NEW Names, NEW v \in Seq(Names)
  PROVE  LET c == <<Quote>> \o v \o <<Quote, "in_parents">>
         IN c \in Seq(Words(Names)) /\ ParentsOf(c, v)
<1> DEFINE W == Words(Names)
           n == Len(v)
           h == <<Quote>>
           t == <<Quote, "in_parents">>
           m == h \o v
           e == m \o t
<1>1. Quote \in W /\ "in_parents" \in W /\ v \in Seq(W) /\ n \in Nat
  BY SeqMonotonic, LenProperties DEF Words
<1> HIDE DEF W
<1>2. h \in Seq(W) /\ Len(h) = 1 /\ h[1] = Quote
  BY <1>1
<1>c. t \in Seq(W) /\ Len(t) = 2 /\ t[1] = Quote /\ t[2] = "in_parents"
  BY <1>1
<1> HIDE DEF h, t
<1>a. m \in Seq(W) /\ Joins(m, h, v)
  BY <1>1, <1>2, JoinedSymbols
<1> HIDE DEF m, n
<1>4. /\ Len(m) = 1 + n
      /\ \A i \in 1..1 : m[i] = h[i]
      /\ \A i \in 1..n : m[1 + i] = v[i]
  BY <1>2, <1>a DEF Joins, n
<1>b. e \in Seq(W) /\ Joins(e, m, t)
  BY <1>a, <1>c, JoinedSymbols
<1> HIDE DEF e
<1>5. /\ e \in Seq(W) /\ Len(e) = Len(m) + 2
      /\ \A i \in 1..Len(m) : e[i] = m[i]
      /\ \A i \in 1..2 : e[Len(m) + i] = t[i]
  BY <1>b, <1>c DEF Joins
<1>6. e[1] = Quote
  <2>1. 1 \in 1..1 /\ 1 \in 1..Len(m)
    BY <1>1, <1>4
  <2> QED
    BY <1>2, <1>4, <1>5, <2>1
<1>7. ASSUME NEW i \in 1..n PROVE e[i + 1] = v[i]
  <2>1. i + 1 \in 1..Len(m) /\ i + 1 = 1 + i
    BY <1>1, <1>4
  <2> QED
    BY <1>4, <1>5, <2>1
<1>8. e[n + 2] = Quote /\ e[n + 3] = "in_parents"
  <2>1. 1 \in 1..2 /\ 2 \in 1..2 /\ Len(m) + 1 = n + 2 /\ Len(m) + 2 = n + 3
    BY <1>1, <1>4
  <2> QED
    BY <1>c, <1>5, <2>1
<1>9. Len(e) = n + 3
  BY <1>1, <1>4, <1>5
<1>10. ParentsOf(e, v)
  BY <1>6, <1>7, <1>8, <1>9 DEF ParentsOf, n
<1> QED
  BY <1>5, <1>10 DEF e, m, h, t, W

\* has {e and d}, symbol for symbol.
HasOf(c, e, d) ==
  /\ Len(c) = Len(e) + Len(d) + 4 /\ c[1] = "has" /\ c[2] = LBrace
  /\ \A i \in 1..Len(e) : c[i + 2] = e[i]
  /\ c[Len(e) + 3] = "and"
  /\ \A i \in 1..Len(d) : c[Len(e) + 3 + i] = d[i]
  /\ c[Len(e) + Len(d) + 4] = RBrace

LEMMA HasTyped ==
  ASSUME NEW S, {"has", LBrace, RBrace, "and"} \subseteq S, NEW e \in Seq(S), NEW d \in Seq(S)
  PROVE  LET c == <<"has", LBrace>> \o e \o <<"and">> \o d \o <<RBrace>>
         IN c \in Seq(S) /\ HasOf(c, e, d)
<1> DEFINE h == <<"has", LBrace>>
           a == <<"and">>
           t == <<RBrace>>
           x == h \o e
           y == x \o a
           z == y \o d
           c == z \o t
           m == Len(e)
           n == Len(d)
<1>1. /\ h \in Seq(S) /\ Len(h) = 2 /\ h[1] = "has" /\ h[2] = LBrace
      /\ a \in Seq(S) /\ Len(a) = 1 /\ a[1] = "and"
      /\ t \in Seq(S) /\ Len(t) = 1 /\ t[1] = RBrace
      /\ m \in Nat /\ n \in Nat
  BY LenProperties
<1> HIDE DEF h, a, t
<1>2. /\ x \in Seq(S) /\ Len(x) = m + 2 /\ x[1] = "has" /\ x[2] = LBrace
      /\ \A i \in 1..m : x[i + 2] = e[i]
  <2>0. x \in Seq(S) /\ Joins(x, h, e)
    BY <1>1, JoinedSymbols
  <2> HIDE DEF x
  <2>1. /\ x \in Seq(S) /\ Len(x) = 2 + Len(e) /\ \A i \in 1..2 : x[i] = h[i]
        /\ \A i \in 1..Len(e) : x[2 + i] = e[i]
    BY <1>1, <2>0 DEF Joins
  <2>2. x[1] = h[1] /\ x[2] = h[2]
    BY <2>1
  <2>3. \A i \in 1..m : x[i + 2] = e[i]
    <3>1. \A i \in 1..m : i + 2 = 2 + i
      BY <1>1
    <3> QED
      BY <2>1, <3>1
  <2> QED
    BY <1>1, <2>1, <2>2, <2>3
<1> HIDE DEF x, m
<1>3. /\ y \in Seq(S) /\ Len(y) = m + 3 /\ y[m + 3] = "and" /\ \A i \in 1..(m + 2) : y[i] = x[i]
  <2>0. y \in Seq(S) /\ Joins(y, x, a)
    BY <1>1, <1>2, JoinedSymbols
  <2> HIDE DEF y
  <2>1. /\ y \in Seq(S) /\ Len(y) = Len(x) + 1 /\ \A i \in 1..Len(x) : y[i] = x[i]
        /\ \A i \in 1..1 : y[Len(x) + i] = a[i]
    BY <1>1, <2>0 DEF Joins
  <2>2. \A i \in 1..(m + 2) : y[i] = x[i]
    BY <1>2, <2>1
  <2>3. y[m + 3] = a[1]
    <3>1. 1 \in 1..1 /\ Len(x) + 1 = m + 3
      BY <1>1, <1>2
    <3> QED
      BY <2>1, <3>1
  <2> QED
    BY <1>1, <1>2, <2>1, <2>2, <2>3
<1> HIDE DEF y
<1>4. /\ z \in Seq(S) /\ Len(z) = m + 3 + n /\ \A i \in 1..(m + 3) : z[i] = y[i]
      /\ \A i \in 1..n : z[m + 3 + i] = d[i]
  <2>0. z \in Seq(S) /\ Joins(z, y, d)
    BY <1>3, JoinedSymbols
  <2> HIDE DEF z
  <2>1. /\ z \in Seq(S) /\ Len(z) = Len(y) + n /\ \A i \in 1..Len(y) : z[i] = y[i]
        /\ \A i \in 1..n : z[Len(y) + i] = d[i]
    BY <2>0 DEF Joins
  <2>2. \A i \in 1..(m + 3) : z[i] = y[i]
    BY <1>3, <2>1
  <2>3. \A i \in 1..n : z[m + 3 + i] = d[i]
    BY <1>3, <2>1
  <2> QED
    BY <1>1, <1>3, <2>1, <2>2, <2>3
<1> HIDE DEF z, n
<1>5. /\ c \in Seq(S) /\ Len(c) = m + n + 4 /\ \A i \in 1..(m + 3 + n) : c[i] = z[i]
      /\ c[m + n + 4] = RBrace
  <2>0. c \in Seq(S) /\ Joins(c, z, t)
    BY <1>1, <1>4, JoinedSymbols
  <2> HIDE DEF c
  <2>1. /\ c \in Seq(S) /\ Len(c) = Len(z) + 1 /\ \A i \in 1..Len(z) : c[i] = z[i]
        /\ \A i \in 1..1 : c[Len(z) + i] = t[i]
    BY <1>1, <2>0 DEF Joins
  <2>2. \A i \in 1..(m + 3 + n) : c[i] = z[i]
    BY <1>4, <2>1
  <2>3. c[m + n + 4] = t[1]
    <3>1. 1 \in 1..1 /\ Len(z) + 1 = m + n + 4
      BY <1>1, <1>4
    <3> QED
      BY <2>1, <3>1
  <2> QED
    BY <1>1, <1>4, <2>1, <2>2, <2>3
<1> HIDE DEF c
<1>6. HasOf(c, e, d)
  <2>1. Len(c) = m + n + 4 /\ c[m + n + 4] = RBrace
    BY <1>5
  <2>2. \A i \in 1..(m + 3) : c[i] = y[i]
    <3>1. \A i \in 1..(m + 3) : i \in 1..(m + 3 + n)
      BY <1>1
    <3> QED
      BY <1>4, <1>5, <3>1
  <2>3. c[m + 3] = "and"
    BY <1>1, <1>3, <2>2
  <2>4. \A i \in 1..(m + 2) : c[i] = x[i]
    BY <1>1, <1>3, <2>2
  <2>5. c[1] = "has" /\ c[2] = LBrace
    BY <1>1, <1>2, <2>4
  <2>6. \A i \in 1..m : c[i + 2] = e[i]
    BY <1>1, <1>2, <2>4
  <2>7. \A i \in 1..n : c[m + 3 + i] = d[i]
    <3>1. \A i \in 1..n : m + 3 + i \in 1..(m + 3 + n)
      BY <1>1
    <3> QED
      BY <1>4, <1>5, <3>1
  <2> QED
    BY <2>1, <2>3, <2>5, <2>6, <2>7 DEF HasOf, m, n
<1> QED
  BY <1>5, <1>6 DEF c, z, y, x, h, a, t

LEMMA EqIsBare ==
  ASSUME NEW Names, Plain(Names), NEW k, k \notin Marking, NEW v \in Seq(Names), NEW s,
         EqOf(s, k, v)
  PROVE  Bare(s)
<1>1. Len(v) \in Nat /\ \A i \in 1..Len(v) : v[i] \notin Marking
  BY LenProperties, ElementOfSeq DEF Plain
<1>2. ASSUME NEW i \in 1..(Len(v) + 4) PROVE s[i] \notin Marking
  <2>1. CASE i \in 1..3
    <3>1. i = 1 \/ i = 2 \/ i = 3
      BY <2>1
    <3> QED
      BY <3>1, Braces DEF EqOf
  <2>2. CASE i = Len(v) + 4
    BY <2>2, Braces DEF EqOf
  <2>3. CASE i - 3 \in 1..Len(v)
    <3>1. (i - 3) + 3 = i
      OBVIOUS
    <3>2. s[(i - 3) + 3] = v[i - 3]
      BY <2>3 DEF EqOf
    <3> QED
      BY <1>1, <2>3, <3>1, <3>2
  <2>4. i \in 1..3 \/ i = Len(v) + 4 \/ i - 3 \in 1..Len(v)
    BY <1>1
  <2> QED
    BY <2>1, <2>2, <2>3, <2>4
<1> QED
  BY <1>2 DEF Bare, EqOf

LEMMA ParentsIsBare ==
  ASSUME NEW Names, Plain(Names), NEW v \in Seq(Names), NEW s, ParentsOf(s, v)
  PROVE  Bare(s)
<1>1. Len(v) \in Nat /\ \A i \in 1..Len(v) : v[i] \notin Marking
  BY LenProperties, ElementOfSeq DEF Plain
<1>2. ASSUME NEW i \in 1..(Len(v) + 3) PROVE s[i] \notin Marking
  <2>1. CASE i = 1
    BY <2>1, Braces DEF ParentsOf
  <2>2. CASE i \in {Len(v) + 2, Len(v) + 3}
    BY <2>2, Braces DEF ParentsOf
  <2>3. CASE i - 1 \in 1..Len(v)
    <3>1. (i - 1) + 1 = i
      OBVIOUS
    <3>2. s[(i - 1) + 1] = v[i - 1]
      BY <2>3 DEF ParentsOf
    <3> QED
      BY <1>1, <2>3, <3>1, <3>2
  <2>4. i = 1 \/ i \in {Len(v) + 2, Len(v) + 3} \/ i - 1 \in 1..Len(v)
    BY <1>1
  <2> QED
    BY <2>1, <2>2, <2>3, <2>4
<1> QED
  BY <1>2 DEF Bare, ParentsOf

\* Where the symbols of has {e and d} are, when e and d have no marking symbols.
LEMMA HasPlaces ==
  ASSUME NEW S, NEW e \in Seq(S), NEW d \in Seq(S), Bare(e), Bare(d), NEW c, HasOf(c, e, d)
  PROVE  \A i \in 1..Len(c) : /\ c[i] = LBrace <=> i = 2
                              /\ c[i] = RBrace <=> i = Len(c)
                              /\ c[i] = "and" <=> i = Len(e) + 3
<1> DEFINE m == Len(e)
           n == Len(d)
<1>1. m \in Nat /\ n \in Nat /\ Len(c) = m + n + 4
  BY LenProperties DEF HasOf
<1>2. /\ c[1] = "has" /\ c[2] = LBrace /\ \A i \in 1..m : c[i + 2] = e[i] /\ e[i] \notin Marking
      /\ c[m + 3] = "and" /\ c[m + n + 4] = RBrace
      /\ \A i \in 1..n : c[m + 3 + i] = d[i] /\ d[i] \notin Marking
  BY DEF HasOf, Bare
<1> HIDE DEF m, n
<1>3. ASSUME NEW i \in 1..Len(c)
      PROVE  /\ c[i] = LBrace <=> i = 2
             /\ c[i] = RBrace <=> i = Len(c)
             /\ c[i] = "and" <=> i = m + 3
  <2>1. CASE i = 1
    BY <1>1, <1>2, <2>1, Braces DEF Marking
  <2>2. CASE i = 2
    BY <1>1, <1>2, <2>2, Braces DEF Marking
  <2>3. CASE i = m + 3
    BY <1>1, <1>2, <2>3, Braces DEF Marking
  <2>4. CASE i = Len(c)
    BY <1>1, <1>2, <2>4, Braces DEF Marking
  <2>5. CASE i - 2 \in 1..m
    <3>1. (i - 2) + 2 = i /\ i # 2 /\ i # Len(c) /\ i # m + 3
      BY <1>1, <2>5
    <3>2. c[(i - 2) + 2] = e[i - 2] /\ e[i - 2] \notin Marking
      BY <1>2, <2>5
    <3> QED
      BY <3>1, <3>2 DEF Marking
  <2>6. CASE i - (m + 3) \in 1..n
    <3>1. m + 3 + (i - (m + 3)) = i /\ i # 2 /\ i # Len(c) /\ i # m + 3
      BY <1>1, <2>6
    <3>2. c[m + 3 + (i - (m + 3))] = d[i - (m + 3)] /\ d[i - (m + 3)] \notin Marking
      BY <1>2, <2>6
    <3> QED
      BY <3>1, <3>2 DEF Marking
  <2>7. i = 1 \/ i = 2 \/ i = m + 3 \/ i = Len(c) \/ i - 2 \in 1..m \/ i - (m + 3) \in 1..n
    BY <1>1
  <2> QED
    BY <2>1, <2>2, <2>3, <2>4, <2>5, <2>6, <2>7
<1> QED
  BY <1>3 DEF m

\* A property is not divided, for its "and" is between its braces.
LEMMA HasIsUndivided ==
  ASSUME NEW S, NEW e \in Seq(S), NEW d \in Seq(S), Bare(e), Bare(d), NEW c, HasOf(c, e, d)
  PROVE  Undivided(c)
<1>1. Len(e) \in Nat /\ Len(d) \in Nat /\ Len(c) = Len(e) + Len(d) + 4
  BY LenProperties DEF HasOf
<1>2. \A i \in 1..Len(c) : /\ c[i] = LBrace <=> i = 2
                           /\ c[i] = RBrace <=> i = Len(c)
                           /\ c[i] = "and" <=> i = Len(e) + 3
  BY HasPlaces
<1>3. ASSUME NEW i \in 1..Len(c), c[i] = LBrace
      PROVE  \E j \in (i + 1)..Len(c) :
               c[j] = RBrace /\ \A k \in (i + 1)..(j - 1) : c[k] # LBrace /\ c[k] # RBrace
  <2>1. i = 2 /\ Len(c) \in (i + 1)..Len(c) /\ Len(c) \in 1..Len(c)
    BY <1>1, <1>2, <1>3
  <2>2. \A k \in (i + 1)..(Len(c) - 1) : k \in 1..Len(c) /\ k # 2 /\ k # Len(c)
    BY <1>1, <2>1
  <2> QED
    BY <1>2, <2>1, <2>2
<1>4. ASSUME NEW j \in 1..Len(c), c[j] = "and"
      PROVE  Opened(c, j)
  <2>1. j = Len(e) + 3 /\ 2 \in 1..(j - 1) /\ 2 \in 1..Len(c)
    BY <1>1, <1>2, <1>4
  <2>2. \A k \in (2 + 1)..(j - 1) : k \in 1..Len(c) /\ k # 2 /\ k # Len(c)
    BY <1>1, <2>1
  <2> QED
    BY <1>2, <2>1, <2>2 DEF Opened
<1> QED
  BY <1>3, <1>4 DEF Undivided, BracesClosed

\* If one of two pieces gives a key a value and the other does not, this is its value.
LEMMA OneGives ==
  ASSUME NEW Z, NEW x \in Z, NEW w, x.at \in Nat, EqValue(x.text, w) # {},
         \A z \in Z : z = x \/ EqValue(z.text, w) = {}
  PROVE  LastValue(Z, w) = EqValue(x.text, w)
<1> DEFINE giving == {z \in Z : EqValue(z.text, w) # {}}
<1>1. giving = {x}
  OBVIOUS
<1>2. LastValue(Z, w)
        = UNION {EqValue(z.text, w) : z \in {r \in giving : \A z \in giving : z.at <= r.at}}
  BY Zenon DEF LastValue
<1> HIDE DEF giving
<1>3. {r \in giving : \A z \in giving : z.at <= r.at} = {x}
  BY <1>1
<1> QED
  BY <1>2, <1>3

LEMMA HasParsed ==
  ASSUME NEW S, NEW e \in Seq(S), NEW d \in Seq(S), Bare(e), Bare(d), NEW c \in Seq(S),
         HasOf(c, e, d), NEW k \in Seq(S), NEW v \in Seq(S),
         EqOf(e, "key", k), EqOf(d, "value", v)
  PROVE  PropertyOf(c) = {<<k, v>>}
<1> DEFINE opens == {p \in 1..Len(c) : c[p] = LBrace}
           closes == {p \in 1..Len(c) : c[p] = RBrace}
           inner == SubSeq(c, Min(opens) + 1, Max(closes) - 1)
           pieces == Pieces(inner, Ands(inner))
<1>1. PropertyOf(c) = IF c # <<>> /\ c[1] = "has" /\ opens # {} /\ closes # {}
                      THEN LastValue(pieces, "key") \X LastValue(pieces, "value") ELSE {}
  BY Zenon DEF PropertyOf
<1>2. Len(e) \in Nat /\ Len(d) \in Nat /\ Len(c) = Len(e) + Len(d) + 4 /\ c[1] = "has"
  BY LenProperties DEF HasOf
<1>3. opens = {2} /\ closes = {Len(c)}
  <2>1. \A i \in 1..Len(c) : (c[i] = LBrace <=> i = 2) /\ (c[i] = RBrace <=> i = Len(c))
    BY HasPlaces
  <2>2. 2 \in 1..Len(c) /\ Len(c) \in 1..Len(c)
    BY <1>2
  <2> QED
    BY <2>1, <2>2
<1>4. Min(opens) = 2 /\ Max(closes) = Len(c)
  BY <1>2, <1>3 DEF Min, Max
<1> DEFINE x == SubSeq(c, 3, Len(c) - 1)
<1>5. inner = x
  <2>1. 2 + 1 = 3
    OBVIOUS
  <2> QED
    BY <1>4, <2>1
<1> HIDE DEF inner, opens, closes
<1>6. /\ x \in Seq(S) /\ Len(x) = Len(e) + Len(d) + 1
      /\ \A i \in 1..Len(x) : x[i] = c[i + 2]
  <2>1. \A i \in 3..(Len(c) - 1) : c[i] \in S
    BY <1>2, ElementOfSeq
  <2>2. 3 \in Int /\ Len(c) - 1 \in Int
    BY <1>2
  <2>3. /\ x \in Seq(S) /\ Len(x) = IF 3 <= Len(c) - 1 THEN (Len(c) - 1) - 3 + 1 ELSE 0
        /\ \A i \in 1..((Len(c) - 1) - 3 + 1) : x[i] = c[3 + i - 1]
    BY <2>1, <2>2, SubSeqProperties
  <2>4. (Len(c) - 1) - 3 + 1 = Len(e) + Len(d) + 1 /\ 3 <= Len(c) - 1
        /\ \A i \in 1..(Len(e) + Len(d) + 1) : 3 + i - 1 = i + 2
    BY <1>2
  <2> HIDE DEF x
  <2> QED
    BY <2>3, <2>4
<1> HIDE DEF x
<1>7. Linked(x, e, d)
  <2>1. Len(x) = Len(e) + 1 + Len(d)
    BY <1>2, <1>6
  <2>2. ASSUME NEW i \in 1..Len(e) PROVE x[i] = e[i]
    <3>1. i \in 1..Len(x)
      BY <1>2, <1>6
    <3> QED
      BY <1>6, <3>1 DEF HasOf
  <2>3. x[Len(e) + 1] = "and"
    <3>1. Len(e) + 1 \in 1..Len(x) /\ (Len(e) + 1) + 2 = Len(e) + 3
      BY <1>2, <1>6
    <3> QED
      BY <1>6, <3>1 DEF HasOf
  <2>4. ASSUME NEW i \in 1..Len(d) PROVE x[Len(e) + 1 + i] = d[i]
    <3>1. Len(e) + 1 + i \in 1..Len(x) /\ (Len(e) + 1 + i) + 2 = Len(e) + 3 + i
      BY <1>2, <1>6
    <3> QED
      BY <1>6, <3>1 DEF HasOf
  <2> QED
    BY <2>1, <2>2, <2>3, <2>4 DEF Linked
<1>8. Ands(x) = {} \cup {Len(e) + 1}
  <2>1. ASSUME NEW i \in 1..Len(x) PROVE x[i] = "and" <=> i = Len(e) + 1
    <3>1. \A j \in 1..Len(c) : c[j] = "and" <=> j = Len(e) + 3
      BY HasPlaces
    <3>2. i + 2 \in 1..Len(c) /\ (i + 2 = Len(e) + 3 <=> i = Len(e) + 1)
      BY <1>2, <1>6
    <3> QED
      BY <1>6, <3>1, <3>2
  <2>2. Len(e) + 1 \in 1..Len(x)
    BY <1>2, <1>6
  <2> QED
    BY <2>1, <2>2 DEF Ands
<1>9. Pieces(x, Ands(x)) = {[at |-> 0, text |-> e], [at |-> Len(e) + 1, text |-> d]}
  <2>1. {} \in SUBSET (1..Len(e))
    OBVIOUS
  <2> DEFINE none == {}
  <2>4. none \in SUBSET (1..Len(e))
    BY <2>1
  <2> HIDE DEF none
  <2>5. /\ Pieces(x, none \cup {Len(e) + 1}) = Pieces(e, none) \cup {[at |-> Len(e) + 1, text |-> d]}
        /\ \A y \in Pieces(e, none) : y.at \in 0..Len(e)
    <3>1. x \in Seq(S)
      BY <1>6
    <3> QED
      BY <1>7, <2>4, <3>1, LinkedPieces, Zenon
  <2>2. Pieces(x, {} \cup {Len(e) + 1}) = Pieces(e, {}) \cup {[at |-> Len(e) + 1, text |-> d]}
    BY <2>5 DEF none
  <2>3. Pieces(e, {}) = {[at |-> 0, text |-> e]}
    BY OnePiece
  <2> QED
    BY <1>8, <2>2, <2>3
<1>10. LastValue(pieces, "key") = {k} /\ LastValue(pieces, "value") = {v}
  <2> DEFINE a == [at |-> 0, text |-> e]
             b == [at |-> Len(e) + 1, text |-> d]
  <2>1. a.at \in Nat /\ b.at \in Nat /\ a.text = e /\ b.text = d
    BY <1>2
  <2>2. pieces = {a, b} /\ pieces = {b, a}
    BY <1>5, <1>9
  <2> HIDE DEF a, b, pieces
  <2>3. /\ EqValue(e, "key") = {k} /\ EqValue(e, "value") = {}
        /\ EqValue(d, "value") = {v} /\ EqValue(d, "key") = {}
    BY EqParsed
  <2>6. /\ EqValue(a.text, "key") = {k} /\ EqValue(a.text, "value") = {}
        /\ EqValue(b.text, "value") = {v} /\ EqValue(b.text, "key") = {}
    BY <2>1, <2>3
  <2>7. a \in pieces /\ b \in pieces /\ \A z \in pieces : z = a \/ z = b
    BY <2>2
  <2>8. EqValue(a.text, "key") # {} /\ EqValue(b.text, "value") # {}
    BY <2>6
  <2>4. LastValue(pieces, "key") = EqValue(a.text, "key")
    <3>1. \A z \in pieces : z = a \/ EqValue(z.text, "key") = {}
      BY <2>6, <2>7
    <3>2. a \in pieces
      BY <2>7
    <3>3. a.at \in Nat
      BY <2>1
    <3>4. EqValue(a.text, "key") # {}
      BY <2>8
    <3> QED
      BY <3>1, <3>2, <3>3, <3>4, OneGives, ZenonT(30)
  <2>5. LastValue(pieces, "value") = EqValue(b.text, "value")
    <3>1. \A z \in pieces : z = b \/ EqValue(z.text, "value") = {}
      BY <2>6, <2>7
    <3>2. b \in pieces
      BY <2>7
    <3>3. b.at \in Nat
      BY <2>1
    <3>4. EqValue(b.text, "value") # {}
      BY <2>8
    <3> QED
      BY <3>1, <3>2, <3>3, <3>4, OneGives, ZenonT(30)
  <2> QED
    BY <2>4, <2>5, <2>6
<1> HIDE DEF pieces
<1>11. c # <<>>
  BY <1>2
<1>12. {k} \X {v} = {<<k, v>>}
  OBVIOUS
<1> QED
  BY <1>1, <1>2, <1>3, <1>10, <1>11, <1>12

\* A clause is a sequence of words, is not divided and is understood as its filter.
WellRead(f, Names) ==
  /\ Clause(f) \in Seq(Words(Names)) /\ Len(Clause(f)) # 0
  /\ Undivided(Clause(f)) /\ ParseClause(Clause(f)) = {f}

LEMMA NameSound ==
  ASSUME NEW Names, Plain(Names), NEW f \in FiltersOver(Names), f.field \in {"name", "mimeType"}
  PROVE  WellRead(f, Names)
<1> DEFINE c == Clause(f)
           k == f.field
           v == f.value
           W == Words(Names)
<1>1. /\ f \in [field : Fields, key : {<<>>}, value : Seq(Names)]
      /\ f = [field |-> k, key |-> <<>>, value |-> v] /\ v \in Seq(Names)
  BY DEF FiltersOver
<1>2. c = Eq(k, v)
  BY DEF Clause
<1>3. k \in {"name", "mimeType"} /\ k \in W /\ k \notin Marking
  BY Braces DEF Words, Fields
<1> HIDE DEF c, k, v
<1>4. c \in Seq(W) /\ EqOf(c, k, v)
  BY <1>1, <1>2, <1>3, EqTyped
<1>5. v \in Seq(W) /\ Len(v) \in Nat /\ Len(c) = Len(v) + 4
  BY <1>1, <1>4, SeqMonotonic, LenProperties DEF Words, EqOf
<1>6. Undivided(c)
  BY <1>1, <1>3, <1>4, EqIsBare, BareIsUndivided
<1>7. EqValue(c, k) = {v} /\ \A k2 : k2 # k => EqValue(c, k2) = {}
  <2> HIDE DEF W
  <2> QED
    BY <1>4, <1>5, EqParsed
<1>8. ParentOf(c) = {}
  <2>1. c[Len(c)] = Quote /\ Quote # "in_parents"
    BY <1>4, <1>5, Braces DEF EqOf
  <2> QED
    BY <2>1 DEF ParentOf
<1>9. PropertyOf(c) = {}
  <2>1. c[1] # "has"
    BY <1>3, <1>4 DEF EqOf
  <2> QED
    BY <2>1, Zenon DEF PropertyOf
<1>10. ParseClause(c) = {[field |-> k, key |-> <<>>, value |-> v]}
  <2>1. CASE k = "name"
    <3>1. EqValue(c, "name") = {v} /\ EqValue(c, "mimeType") = {}
      BY <1>7, <2>1
    <3> QED
      BY <1>8, <1>9, <2>1, <3>1 DEF ParseClause
  <2>2. CASE k = "mimeType"
    <3>1. EqValue(c, "name") = {} /\ EqValue(c, "mimeType") = {v}
      BY <1>7, <2>2
    <3> QED
      BY <1>8, <1>9, <2>2, <3>1 DEF ParseClause
  <2> QED
    BY <1>3, <2>1, <2>2
<1> QED
  BY <1>1, <1>4, <1>5, <1>6, <1>10 DEF WellRead, c, W

LEMMA ParentSound ==
  ASSUME NEW Names, Plain(Names), NEW f \in FiltersOver(Names), f.field = "parent"
  PROVE  WellRead(f, Names)
<1> DEFINE c == Clause(f)
           v == f.value
           W == Words(Names)
<1>1. /\ f \in [field : Fields, key : {<<>>}, value : Seq(Names)]
      /\ f = [field |-> "parent", key |-> <<>>, value |-> v] /\ v \in Seq(Names)
  BY DEF FiltersOver
<1>2. c = <<Quote>> \o v \o <<Quote, "in_parents">>
  BY DEF Clause
<1> HIDE DEF c, v
<1>4. c \in Seq(W) /\ ParentsOf(c, v)
  BY <1>1, <1>2, ParentsTyped
<1>5. v \in Seq(W) /\ Len(v) \in Nat /\ Len(c) = Len(v) + 3
  BY <1>1, <1>4, SeqMonotonic, LenProperties DEF Words, ParentsOf
<1>6. Undivided(c)
  BY <1>1, <1>4, ParentsIsBare, BareIsUndivided
<1>7. ParentOf(c) = {v}
  <2> DEFINE x == SubSeq(c, 1, Len(c) - 1)
  <2>1. /\ x \in Seq(W) /\ Len(x) = Len(v) + 2 /\ \A i \in 1..(Len(v) + 2) : x[i] = c[i]
    <3> HIDE DEF W
    <3>1. \A i \in 1..(Len(c) - 1) : c[i] \in W
      BY <1>4, <1>5, ElementOfSeq
    <3>2. 1 \in Int /\ Len(c) - 1 \in Int
      BY <1>5
    <3>3. /\ x \in Seq(W) /\ Len(x) = IF 1 <= Len(c) - 1 THEN (Len(c) - 1) - 1 + 1 ELSE 0
          /\ \A i \in 1..((Len(c) - 1) - 1 + 1) : x[i] = c[1 + i - 1]
      BY <3>1, <3>2, SubSeqProperties
    <3>4. (Len(c) - 1) - 1 + 1 = Len(v) + 2 /\ 1 <= Len(c) - 1
          /\ \A i \in 1..(Len(v) + 2) : 1 + i - 1 = i
      BY <1>5
    <3> HIDE DEF x
    <3> QED
      BY <3>3, <3>4
  <2> HIDE DEF x, W
  <2>2. x[1] = Quote /\ x[Len(x)] = Quote
    <3>1. 1 \in 1..(Len(v) + 2) /\ Len(v) + 2 \in 1..(Len(v) + 2)
      BY <1>5
    <3> QED
      BY <1>4, <2>1, <3>1 DEF ParentsOf
  <2>3. \A i \in 1..Len(v) : x[i + 1] = v[i]
    <3>1. \A i \in 1..Len(v) : i + 1 \in 1..(Len(v) + 2)
      BY <1>5
    <3> QED
      BY <1>4, <2>1, <3>1 DEF ParentsOf
  <2>4. Unquoted(x) = {v}
    BY <1>5, <2>1, <2>2, <2>3, Unquotes
  <2>5. c # <<>> /\ c[Len(c)] = "in_parents"
    <3>1. Len(c) = Len(v) + 3 /\ Len(c) # 0
      BY <1>5
    <3>2. c[Len(v) + 3] = "in_parents"
      BY <1>4 DEF ParentsOf
    <3>3. Len(<<>>) = 0
      OBVIOUS
    <3> QED
      BY <3>1, <3>2, <3>3
  <2> QED
    BY <2>4, <2>5 DEF ParentOf, x
<1>8. EqValue(c, "name") = {} /\ EqValue(c, "mimeType") = {}
  <2>1. c[1] # "name" /\ c[1] # "mimeType"
    BY <1>4, Braces DEF ParentsOf
  <2> QED
    BY <2>1 DEF EqValue
<1>9. PropertyOf(c) = {}
  <2>1. c[1] # "has"
    BY <1>4, Braces DEF ParentsOf
  <2> QED
    BY <2>1, Zenon DEF PropertyOf
<1>10. ParseClause(c) = {[field |-> "parent", key |-> <<>>, value |-> v]}
  BY <1>7, <1>8, <1>9 DEF ParseClause
<1> QED
  BY <1>1, <1>4, <1>5, <1>6, <1>10 DEF WellRead, c, W

LEMMA PropertySound ==
  ASSUME NEW Names, Plain(Names), NEW f \in FiltersOver(Names), f.field = "property"
  PROVE  WellRead(f, Names)
<1> DEFINE c == Clause(f)
           k == f.key
           v == f.value
           W == Words(Names)
           e == Eq("key", k)
           d == Eq("value", v)
<1>1. /\ f \in [field : {"property"}, key : Seq(Names), value : Seq(Names)]
      /\ f = [field |-> "property", key |-> k, value |-> v]
      /\ k \in Seq(Names) /\ v \in Seq(Names)
  BY DEF FiltersOver, Fields
<1>2. c = <<"has", LBrace>> \o e \o <<"and">> \o d \o <<RBrace>>
  BY DEF Clause
<1>3. "key" \in W /\ "value" \in W /\ "key" \notin Marking /\ "value" \notin Marking
      /\ {"has", LBrace, RBrace, "and"} \subseteq W
  BY Braces DEF Words
<1> HIDE DEF c, k, v, e, d
<1>4. /\ e \in Seq(W) /\ EqOf(e, "key", k) /\ d \in Seq(W) /\ EqOf(d, "value", v)
  BY <1>1, <1>3, EqTyped DEF e, d
<1>5. k \in Seq(W) /\ v \in Seq(W)
  BY <1>1, SeqMonotonic DEF Words
<1>6. Bare(e) /\ Bare(d)
  BY <1>1, <1>3, <1>4, EqIsBare
<1> HIDE DEF W
<1>7. c \in Seq(W) /\ HasOf(c, e, d)
  BY <1>2, <1>3, <1>4, HasTyped
<1>8. Undivided(c)
  BY <1>4, <1>6, <1>7, HasIsUndivided
<1>9. PropertyOf(c) = {<<k, v>>}
  BY <1>4, <1>5, <1>6, <1>7, HasParsed
<1>10. Len(c) # 0 /\ c[1] = "has" /\ c[Len(c)] = RBrace
  BY <1>4, <1>7, LenProperties DEF HasOf
<1>11. ParentOf(c) = {}
  <2>1. RBrace # "in_parents"
    BY Braces DEF Marking
  <2> QED
    BY <1>10, <2>1 DEF ParentOf
<1>12. EqValue(c, "name") = {} /\ EqValue(c, "mimeType") = {}
  BY <1>10 DEF EqValue
<1>13. ParseClause(c) = {[field |-> "property", key |-> k, value |-> v]}
  BY <1>9, <1>11, <1>12 DEF ParseClause
<1> QED
  BY <1>1, <1>7, <1>8, <1>10, <1>13 DEF WellRead, c, W

LEMMA ClauseSound ==
  ASSUME NEW Names, Plain(Names), NEW f \in FiltersOver(Names)
  PROVE  WellRead(f, Names)
<1>1. f.field \in {"parent", "name", "mimeType", "property"}
  BY DEF FiltersOver, Fields
<1> QED
  BY <1>1, NameSound, ParentSound, PropertySound

LEMMA NothingParsed == ParseClause(<<>>) = {}
<1>1. ParentOf(<<>>) = {} /\ EqValue(<<>>, "name") = {} /\ EqValue(<<>>, "mimeType") = {}
  BY DEF ParentOf, EqValue
<1>2. PropertyOf(<<>>) = {}
  BY Zenon DEF PropertyOf
<1> QED
  BY <1>1, <1>2 DEF ParseClause

\* What the client does to add a clause is such a link.
LEMMA AndClauseLinks ==
  ASSUME NEW S, "and" \in S, NEW q \in Seq(S), NEW f, Clause(f) \in Seq(S), q # <<>>
  PROVE  AndClause(q, f) \in Seq(S) /\ Linked(AndClause(q, f), q, Clause(f))
<1> DEFINE c == Clause(f)
           h == q \o <<"and">>
<1>1. AndClause(q, f) = h \o c
  BY DEF AndClause
<1> HIDE DEF c
<1>2. c \in Seq(S)
  BY DEF c
<1>3. Len(q) \in Nat /\ Len(c) \in Nat
  BY <1>2, LenProperties
<1>4. h \in Seq(S) /\ Len(h) = Len(q) + 1 /\ h[Len(q) + 1] = "and"
  OBVIOUS
<1>5. \A i \in 1..Len(q) : h[i] = q[i]
  OBVIOUS
<1> HIDE DEF h
<1>6. h \o c \in Seq(S) /\ Len(h \o c) = Len(q) + 1 + Len(c)
  <2>1. h \o c \in Seq(S)
    BY <1>2, <1>4, ConcatProperties
  <2>2. Len(h \o c) = Len(h) + Len(c)
    BY <1>2, <1>4, ConcatProperties
  <2>3. Len(h) + Len(c) = Len(q) + 1 + Len(c)
    BY <1>4
  <2> QED
    BY <2>1, <2>2, <2>3
<1>7. \A i \in 1..(Len(q) + 1) : (h \o c)[i] = h[i]
  BY <1>2, <1>3, <1>4
<1>8. \A j \in 1..Len(c) : (h \o c)[Len(q) + 1 + j] = c[j]
  BY <1>2, <1>3, <1>4
<1>9. Linked(h \o c, q, c)
  <2> DEFINE r == h \o c
  <2>1. /\ Len(r) = Len(q) + 1 + Len(c) /\ \A j \in 1..Len(c) : r[Len(q) + 1 + j] = c[j]
        /\ \A i \in 1..(Len(q) + 1) : r[i] = h[i]
    BY <1>6, <1>7, <1>8
  <2> HIDE DEF r
  <2>2. r[Len(q) + 1] = "and" /\ \A i \in 1..Len(q) : r[i] = q[i]
    BY <1>3, <1>4, <1>5, <2>1
  <2>3. Linked(r, q, c)
    BY <2>1, <2>2 DEF Linked
  <2> QED
    BY <2>3 DEF r
<1> QED
  BY <1>1, <1>6, <1>9 DEF c

\* The client adds one clause after the other.
LEMMA JoinedSteps ==
  ASSUME NEW Names, Plain(Names), NEW fs \in Seq(FiltersOver(Names))
  PROVE  \E joined \in [0..Len(fs) -> Seq(Words(Names))] :
           /\ joined[0] = <<>>
           /\ \A k \in 1..Len(fs) : joined[k] = AndClause(joined[k - 1], fs[k])
           /\ Joined(fs) = joined[Len(fs)]
<1> DEFINE n == Len(fs)
           S == Seq(Words(Names))
           Is(g) == g = [k \in 0..n |-> IF k = 0 THEN <<>> ELSE AndClause(g[k - 1], fs[k])]
           step == [k \in 1..n |-> [q \in S |-> AndClause(q, fs[k])]]
<1>1. n \in Nat
  BY LenProperties
<1>2. \A k \in 1..n : fs[k] \in FiltersOver(Names)
  BY ElementOfSeq
<1> HIDE DEF n
<1>3. step \in [1..n -> [S -> S]]
  <2>1. ASSUME NEW k \in 1..n, NEW q \in S PROVE AndClause(q, fs[k]) \in S
    <3>1. Clause(fs[k]) \in S
      BY <1>2, ClauseSound DEF WellRead
    <3>2. CASE q = <<>>
      BY <3>1, <3>2 DEF AndClause
    <3>3. CASE q # <<>>
      <4>1. "and" \in Words(Names)
        BY DEF Words
      <4> QED
        BY <3>1, <3>3, <4>1, AndClauseLinks
    <3> QED
      BY <3>2, <3>3
  <2> HIDE DEF S
  <2> QED
    BY <2>1
<1>4. PICK f \in [0..n -> S] : f[0] = <<>> /\ \A k \in 1..n : f[k] = step[k][f[k - 1]]
  <2>1. <<>> \in S
    OBVIOUS
  <2> HIDE DEF S, step
  <2>2. PICK f : Iterates(f, S, n, <<>>, step)
    BY <1>1, <1>3, <2>1, Recursion
  <2> QED
    BY <2>2 DEF Iterates
<1> HIDE DEF S
<1>5. \A k \in 1..n : f[k] = AndClause(f[k - 1], fs[k])
  <2>1. \A k \in 1..n : f[k - 1] \in S
    BY <1>1, <1>4
  <2> QED
    BY <1>4, <2>1
<1>6. Is(f)
  BY <1>1, <1>4, <1>5
<1> DEFINE joined == CHOOSE g : Is(g)
<1>7. Is(joined)
  BY <1>6
<1>8. Joined(fs) = joined[n]
  BY DEF Joined, n
<1> HIDE DEF joined
<1>9. /\ joined[0] = <<>>
      /\ \A k \in 1..n : joined[k] = AndClause(joined[k - 1], fs[k])
      /\ joined = [k \in 0..n |-> joined[k]]
  <2>1. \A k \in 0..n : joined[k] = IF k = 0 THEN <<>> ELSE AndClause(joined[k - 1], fs[k])
    BY <1>7
  <2>2. joined = [k \in 0..n |-> joined[k]]
    BY <1>7
  <2>3. joined[0] = <<>>
    <3>1. 0 \in 0..n
      BY <1>1
    <3>2. joined[0] = IF 0 = 0 THEN <<>> ELSE AndClause(joined[0 - 1], fs[0])
      BY <2>1, <3>1, Zenon
    <3> QED
      BY <3>2, Zenon
  <2>4. \A k \in 1..n : joined[k] = AndClause(joined[k - 1], fs[k])
    BY <1>1, <2>1
  <2> QED
    BY <2>2, <2>3, <2>4
<1>10. \A k \in 0..n : joined[k] = f[k]
  <2>1. joined[0] = f[0] /\ \A k \in 1..n : joined[k - 1] = f[k - 1] => joined[k] = f[k]
    BY <1>4, <1>5, <1>9
  <2> QED
    BY <1>1, <2>1, SameThroughout
<1>11. joined \in [0..n -> S]
  BY <1>4, <1>9, <1>10
<1> QED
  BY <1>8, <1>9, <1>11 DEF n, S

\* Whatever filters a client joins, in whatever order, with names and values of any
\* length and of any symbols but " and " and braces: the twin understands each of them
\* and nothing else, and of two for one field the later (twin-drive: parse_v3_query).
THEOREM QueriesUnderstood ==
  ASSUME NEW Names, Plain(Names), NEW fs \in Seq(FiltersOver(Names))
  PROVE  ParseV3Query(Joined(fs)) = Meant(fs)
<1> DEFINE n == Len(fs)
           W == Words(Names)
<1>1. PICK joined \in [0..n -> Seq(W)] :
         /\ joined[0] = <<>>
         /\ \A k \in 1..n : joined[k] = AndClause(joined[k - 1], fs[k])
         /\ Joined(fs) = joined[n]
  BY JoinedSteps
<1>2. n \in Nat /\ \A k \in 1..n : fs[k] \in FiltersOver(Names)
  BY LenProperties, ElementOfSeq
<1> HIDE DEF n, W
<1>3. \A k \in 1..n : /\ Clause(fs[k]) \in Seq(W) /\ Len(Clause(fs[k])) # 0
                       /\ Undivided(Clause(fs[k])) /\ ParseClause(Clause(fs[k])) = {fs[k]}
  BY <1>2, ClauseSound DEF W, WellRead
<1> DEFINE at == [k \in 1..n |-> IF k = 1 THEN 0 ELSE Len(joined[k - 1]) + 1]
           Piece(k) == [at |-> at[k], text |-> Clause(fs[k])]
           Good(m) == /\ joined[m] # <<>>
                      /\ BracesClosed(joined[m], Len(joined[m]))
                      /\ SplitClauses(joined[m]) = {Piece(k) : k \in 1..m}
                      /\ \A j, k \in 1..m : j < k => at[j] < at[k]
           C == {m \in 1..n : ~Good(m)}
<1>4. ASSUME 1 \in 1..n PROVE Good(1)
  <2> DEFINE c == Clause(fs[1])
  <2>1. joined[1] = c
    BY <1>1, <1>4 DEF AndClause
  <2>2. c \in Seq(W) /\ Len(c) # 0 /\ Undivided(c)
    BY <1>3, <1>4
  <2> HIDE DEF c
  <2>3. SplitClauses(c) = {[at |-> 0, text |-> c]}
    <3>1. Cuts(c) = {}
      <4>1. \A p \in 1..Len(c) : c[p] = "and" => Nested(c, p)
        BY <2>2, OpenedIsNested DEF Undivided
      <4> QED
        BY <4>1 DEF Cuts, Ands
    <3> QED
      BY <2>2, <3>1, OnePiece DEF SplitClauses
  <2>4. c # <<>> /\ BracesClosed(c, Len(c))
    BY <2>2 DEF Undivided
  <2>5. at[1] = 0
    BY <1>4
  <2> HIDE DEF at
  <2>6. {Piece(k) : k \in 1..1} = {[at |-> 0, text |-> c]}
    BY <2>5 DEF c
  <2>7. \A j, k \in 1..1 : ~(j < k)
    OBVIOUS
  <2> HIDE DEF Piece
  <2> QED
    BY <2>1, <2>3, <2>4, <2>6, <2>7
<1>5. ASSUME NEW m \in 1..(n - 1), Good(m) PROVE Good(m + 1)
  <2> DEFINE q == joined[m]
             r == joined[m + 1]
             c == Clause(fs[m + 1])
  <2>1. m + 1 \in 1..n /\ m \in 0..n /\ m + 1 \in 0..n /\ (m + 1) - 1 = m /\ m + 1 # 1
    BY <1>2
  <2>2. r = AndClause(q, fs[m + 1])
    BY <1>1, <2>1
  <2>3. q \in Seq(W) /\ r \in Seq(W) /\ c \in Seq(W) /\ Undivided(c)
    BY <1>1, <1>3, <2>1
  <2>4. /\ q # <<>> /\ BracesClosed(q, Len(q)) /\ SplitClauses(q) = {Piece(k) : k \in 1..m}
        /\ \A j, k \in 1..m : j < k => at[j] < at[k]
    BY <1>5
  <2>5. "and" \in W
    BY DEF W, Words
  <2>6. at[m + 1] = Len(q) + 1
    BY <2>1
  <2> HIDE DEF q, r, at
  <2>7. Linked(r, q, c)
    BY <2>2, <2>3, <2>4, <2>5, AndClauseLinks
  <2>8. Piece(m + 1) = [at |-> Len(q) + 1, text |-> c]
    BY <2>6
  <2> HIDE DEF c
  <2>9. /\ SplitClauses(r) = SplitClauses(q) \cup {[at |-> Len(q) + 1, text |-> c]}
        /\ BracesClosed(r, Len(r))
        /\ \A x \in SplitClauses(q) : x.at \in 0..Len(q)
    <3>1. Cuts(r) = Cuts(q) \cup {Len(q) + 1} /\ BracesClosed(r, Len(r))
      BY <2>3, <2>4, <2>7, LinkedCuts
    <3>2. Cuts(q) \in SUBSET (1..Len(q))
      BY DEF Cuts, Ands
    <3>3. /\ Pieces(r, Cuts(q) \cup {Len(q) + 1})
               = Pieces(q, Cuts(q)) \cup {[at |-> Len(q) + 1, text |-> c]}
          /\ \A x \in Pieces(q, Cuts(q)) : x.at \in 0..Len(q)
      BY <2>3, <2>7, <3>2, LinkedPieces
    <3> QED
      BY <3>1, <3>3 DEF SplitClauses
  <2>10. Len(r) = Len(q) + 1 + Len(c) /\ Len(q) \in Nat /\ Len(c) \in Nat
    BY <2>3, <2>7, LenProperties DEF Linked
  <2>11. r # <<>>
    BY <2>10
  <2>12. \A k : k \in 1..(m + 1) <=> k \in 1..m \/ k = m + 1
    BY <2>1
  <2>13. \A k \in 1..m : at[k] \in 0..Len(q)
    <3>1. \A k \in 1..m : Piece(k) \in SplitClauses(q) /\ Piece(k).at = at[k]
      BY <2>4
    <3> HIDE DEF Piece
    <3> QED
      BY <2>9, <3>1
  <2>14. \A j, k \in 1..(m + 1) : j < k => at[j] < at[k]
    <3> SUFFICES ASSUME NEW j \in 1..(m + 1), NEW k \in 1..(m + 1), j < k PROVE at[j] < at[k]
      OBVIOUS
    <3>1. CASE k = m + 1
      <4>1. j \in 1..m
        BY <3>1
      <4>2. at[j] \in 0..Len(q) /\ at[k] = Len(q) + 1
        BY <2>6, <2>13, <3>1, <4>1
      <4> QED
        BY <2>10, <4>2
    <3>2. CASE k # m + 1
      <4>1. j \in 1..m /\ k \in 1..m
        BY <3>2
      <4> QED
        BY <2>4, <4>1
    <3> QED
      BY <3>1, <3>2
  <2> HIDE DEF Piece
  <2>15. SplitClauses(r) = {Piece(k) : k \in 1..(m + 1)}
    BY <2>4, <2>8, <2>9, <2>12
  <2> QED
    BY <2>9, <2>11, <2>14, <2>15 DEF r
<1> HIDE DEF Good
<1>6. C = {}
  <2> SUFFICES ASSUME C # {} PROVE FALSE
    OBVIOUS
  <2>1. C \in SUBSET Nat
    OBVIOUS
  <2> HIDE DEF C
  <2>2. PICK m \in C : \A d \in C : ~(d < m)
    BY <2>1, NatHasLeast
  <2> USE DEF C
  <2>3. m \in 1..n /\ ~Good(m)
    BY <2>2
  <2>4. m # 1
    BY <1>4, <2>3
  <2>5. m - 1 \in 1..(n - 1) /\ (m - 1) + 1 = m /\ m - 1 < m /\ m - 1 \in 1..n
    BY <1>2, <2>3, <2>4
  <2>6. Good(m - 1)
    BY <2>2, <2>5
  <2> QED
    BY <1>5, <2>3, <2>5, <2>6
<1> DEFINE Read(q) == UNION {{[at |-> c.at, filter |-> f] : f \in ParseClause(c.text)} :
                               c \in SplitClauses(q)}
           Counts(q) == {y \in Read(q) :
                           \/ y.filter.field = "property"
                           \/ \A z \in Read(q) : z.filter.field = y.filter.field => z.at <= y.at}
<1>7. ParseV3Query(Joined(fs)) = {x.filter : x \in Counts(Joined(fs))}
  BY Zenon DEF ParseV3Query
<1>8. CASE n = 0
  <2>1. Joined(fs) = <<>>
    BY <1>1, <1>8
  <2>2. <<>> \in Seq({}) /\ Cuts(<<>>) = {}
    BY DEF Cuts, Ands
  <2>3. SplitClauses(<<>>) = {[at |-> 0, text |-> <<>>]}
    BY <2>2, OnePiece DEF SplitClauses
  <2>4. Read(Joined(fs)) = {}
    BY <2>1, <2>3, NothingParsed
  <2>5. Meant(fs) = {}
    BY <1>8 DEF Meant, n
  <2> HIDE DEF Read
  <2> QED
    BY <1>7, <2>4, <2>5
<1>9. CASE n # 0
  <2>1. Good(n)
    <3>1. n \in 1..n
      BY <1>2, <1>9
    <3> QED
      BY <1>6, <3>1
  <2>2. SplitClauses(Joined(fs)) = {Piece(k) : k \in 1..n}
    BY <1>1, <2>1 DEF Good
  <2>3. \A j, k \in 1..n : j < k => at[j] < at[k]
    BY <2>1 DEF Good
  <2>4. \A k \in 1..n : at[k] \in Nat
    <3> SUFFICES ASSUME NEW k \in 1..n PROVE at[k] \in Nat
      OBVIOUS
    <3>1. k # 1 => k - 1 \in 0..n
      BY <1>2
    <3>2. k # 1 => Len(joined[k - 1]) \in Nat
      BY <1>1, <3>1, LenProperties
    <3> QED
      BY <3>2
  <2> HIDE DEF at
  <2> DEFINE Found(k) == [at |-> at[k], filter |-> fs[k]]
             R == Read(Joined(fs))
             Holds(i) == \/ fs[i].field = "property"
                        \/ \A j \in 1..n : fs[j].field = fs[i].field => j <= i
  <2>5. \A y : y \in R <=> \E k \in 1..n : y = Found(k)
    <3>1. ASSUME NEW y, y \in R PROVE \E k \in 1..n : y = Found(k)
      <4>1. PICK c \in SplitClauses(Joined(fs)) :
              \E f \in ParseClause(c.text) : y = [at |-> c.at, filter |-> f]
        BY <3>1
      <4>2. PICK k \in 1..n : c = Piece(k)
        BY <2>2
      <4>3. c.text = Clause(fs[k]) /\ c.at = at[k]
        BY <4>2
      <4>4. ParseClause(c.text) = {fs[k]}
        BY <1>3, <4>3
      <4> QED
        BY <4>1, <4>3, <4>4
    <3>2. ASSUME NEW k \in 1..n PROVE Found(k) \in R
      <4>1. Piece(k) \in SplitClauses(Joined(fs))
        BY <2>2
      <4>2. Piece(k).text = Clause(fs[k]) /\ Piece(k).at = at[k]
        OBVIOUS
      <4> DEFINE c == Piece(k)
      <4>3. fs[k] \in ParseClause(c.text)
        BY <1>3, <4>2
      <4>4. Found(k) = [at |-> c.at, filter |-> fs[k]]
        BY <4>2
      <4>5. c \in SplitClauses(Joined(fs))
        BY <4>1
      <4> HIDE DEF c, Found
      <4>6. Found(k) \in {[at |-> c.at, filter |-> f] : f \in ParseClause(c.text)}
        BY <4>3, <4>4
      <4> QED
        BY <4>5, <4>6
    <3> HIDE DEF R, Found
    <3> QED
      BY <3>1, <3>2
  <2>6. \A y : y \in Counts(Joined(fs)) <=>
               y \in R /\ (\/ y.filter.field = "property"
                          \/ \A z \in R : z.filter.field = y.filter.field => z.at <= y.at)
    OBVIOUS
  <2> HIDE DEF R, Counts
  <2>7. \A k \in 1..n : Found(k).at = at[k] /\ Found(k).filter = fs[k]
    OBVIOUS
  <2> HIDE DEF Found
  <2>8. ASSUME NEW k \in 1..n PROVE Found(k) \in Counts(Joined(fs)) <=> Holds(k)
    <3>1. \A j \in 1..n : at[j] <= at[k] <=> j <= k
      <4> SUFFICES ASSUME NEW j \in 1..n PROVE at[j] <= at[k] <=> j <= k
        OBVIOUS
      <4>1. at[j] \in Nat /\ at[k] \in Nat /\ (j < k => at[j] < at[k]) /\ (k < j => at[k] < at[j])
        BY <2>3, <2>4
      <4>2. j \in Nat /\ k \in Nat /\ (j = k => at[j] = at[k])
        OBVIOUS
      <4> QED
        BY <4>1, <4>2
    <3>2. Found(k) \in R
      BY <2>5
    <3>3. (\A z \in R : z.filter.field = fs[k].field => z.at <= at[k])
            <=> \A j \in 1..n : fs[j].field = fs[k].field => j <= k
      <4>1. (\A z \in R : z.filter.field = fs[k].field => z.at <= at[k])
              <=> \A j \in 1..n : fs[j].field = fs[k].field => at[j] <= at[k]
        BY <2>5, <2>7
      <4> QED
        BY <3>1, <4>1
    <3> QED
      BY <2>6, <2>7, <3>2, <3>3
  <2>9. Meant(fs) = {fs[k] : k \in {i \in 1..n : Holds(i)}}
    BY DEF Meant, n
  <2> HIDE DEF Holds
  <2>10. \A y \in Counts(Joined(fs)) : \E k \in 1..n : y = Found(k)
    BY <2>5, <2>6
  <2>11. {x.filter : x \in Counts(Joined(fs))} = {fs[k] : k \in {i \in 1..n : Holds(i)}}
    <3>1. ASSUME NEW x \in Counts(Joined(fs))
          PROVE  x.filter \in {fs[k] : k \in {i \in 1..n : Holds(i)}}
      <4>1. PICK k \in 1..n : x = Found(k)
        BY <2>10
      <4>2. Holds(k) /\ x.filter = fs[k]
        BY <2>7, <2>8, <4>1
      <4> QED
        BY <4>2
    <3>2. ASSUME NEW k \in 1..n, Holds(k) PROVE fs[k] \in {x.filter : x \in Counts(Joined(fs))}
      <4>1. Found(k) \in Counts(Joined(fs)) /\ Found(k).filter = fs[k]
        BY <2>7, <2>8, <3>2
      <4> QED
        BY <4>1
    <3> QED
      BY <3>1, <3>2
  <2> QED
    BY <1>7, <2>9, <2>11
<1> QED
  BY <1>8, <1>9

\* What clients send comes out as they mean it: the two parts of an upload, with LF
\* unless the content has one of the two forms above, and the filters of a query whose
\* names and values have neither " and " nor braces.
THEOREM RequestsAreUnderstood == ServerSpec => []RequestsUnderstood
<1>1. Unpacked
  <2> DEFINE O == {"CR", "LF", "x"}
  <2>1. Delimiter \notin O
    BY DEF Delimiter
  <2>2. ASSUME NEW c \in Contents PROVE c \in Seq(O)
    <3>1. PICK n \in 0..MaxBytes : c \in [1..n -> O]
      BY <2>2 DEF Contents
    <3>2. n \in Nat
      BY ParseAssumption
    <3>3. Seq(O) = UNION {[1..m -> O] : m \in Nat}
      BY SeqDef
    <3> QED
      BY <3>1, <3>2, <3>3
  <2> HIDE DEF O
  <2> QED
    BY <2>1, <2>2, MultipartUnpacked DEF Unpacked
<1>2. Understood(PlainText)
  <2> DEFINE Names == {"v"}
  <2>1. Plain(Names)
    <3>1. "v" # "and" /\ "v" # LBrace /\ "v" # RBrace
      BY Zenon DEF LBrace, RBrace
    <3> QED
      BY <3>1 DEF Plain, Marking
  <2>2. PlainText \subseteq Seq(Names)
    <3> SUFFICES ASSUME NEW x \in PlainText PROVE x \in Seq(Names)
      OBVIOUS
    <3>1. PICK n \in 0..MaxWords : x \in [1..n -> Names]
      BY DEF PlainText, Text
    <3>2. n \in Nat
      BY ParseAssumption
    <3>3. Seq(Names) = UNION {[1..m -> Names] : m \in Nat}
      BY SeqDef
    <3> QED
      BY <3>1, <3>2, <3>3
  <2> HIDE DEF Names
  <2>3. Filters(PlainText) \subseteq FiltersOver(Names)
    BY <2>2 DEF Filters, FiltersOver
  <2>4. ASSUME NEW fs \in Queries(PlainText) PROVE fs \in Seq(FiltersOver(Names))
    <3>1. PICK n \in 0..MaxClauses : fs \in [1..n -> Filters(PlainText)]
      BY <2>4 DEF Queries
    <3>2. n \in Nat
      BY ParseAssumption
    <3>3. fs \in [1..n -> FiltersOver(Names)]
      BY <2>3, <3>1
    <3>4. Seq(FiltersOver(Names)) = UNION {[1..m -> FiltersOver(Names)] : m \in Nat}
      BY SeqDef
    <3> QED
      BY <3>2, <3>3, <3>4
  <2>5. ASSUME NEW fs \in Queries(PlainText)
        PROVE  ParseV3Query(Joined(fs)) = Meant(fs)
    BY <2>1, <2>4, QueriesUnderstood
  <2> QED
    BY <2>5 DEF Understood
<1>3. RequestsUnderstood
  BY <1>1, <1>2 DEF RequestsUnderstood
<1> QED
  BY <1>3, PTL
=============================================================================
