----------------------------- MODULE GmailApiProofs -----------------------------
(***************************************************************************)
(* Proofs about the Gmail twin behind its routes: the invariants of the    *)
(* mailbox, and what a client sees who pages through a listing.            *)
(***************************************************************************)
EXTENDS GmailApi, GmailMailboxProofs

-----------------------------------------------------------------------------
(* Every step keeps the mailbox sound. *)

LEMMA LabelChoices ==
  ASSUME MailInv
  PROVE  \A ls \in LabelChoice : ls \in SUBSET (SystemLabel \cup Int)
<1>1. DOMAIN labels \subseteq SystemLabel \cup Int
  BY CurrentFacts DEF CurrentInv, BoxInv, Shape
<1> QED
  BY <1>1, ClientAssumption DEF LabelChoice, UserLabels, LabelIds

LEMMA RequestKeeps ==
  ASSUME MailInv, Request
  PROVE  MailInv' /\ (ShowsInv => ShowsInv')
<1>1. \A ls \in LabelChoice : ls \in SUBSET (SystemLabel \cup Int)
  BY LabelChoices
<1>2. {TRASH} \in SUBSET (SystemLabel \cup Int) /\ {INBOX} \in SUBSET (SystemLabel \cup Int)
  BY DEF SystemLabel
<1>3. \A d \in Date \cup {None} : d \in Nat \cup {None}
  BY IdFacts
<1>4. ASSUME NEW t, NEW s \in Subject, SendMessage(t, s)
      PROVE  MailInv' /\ (ShowsInv => ShowsInv')
  BY <1>4, SendKeeps
<1>5. ASSUME NEW t, NEW s \in Subject, NEW ls \in LabelChoice, NEW d \in Date \cup {None},
             InsertMessage(t, s, ls, d)
      PROVE  MailInv' /\ (ShowsInv => ShowsInv')
  BY <1>1, <1>3, <1>5, InsertKeeps
<1>6. ASSUME NEW m, NEW add \in LabelChoice, NEW rem, ModifyMessage(m, add, rem)
      PROVE  MailInv' /\ (ShowsInv => ShowsInv')
  BY <1>1, <1>6, RelabelMessageKeeps DEF ModifyMessage
<1>7. ASSUME NEW m, TrashMessage(m) \/ UntrashMessage(m)
      PROVE  MailInv' /\ (ShowsInv => ShowsInv')
  BY <1>2, <1>7, RelabelMessageKeeps DEF TrashMessage, UntrashMessage
<1>8. ASSUME NEW t, NEW add \in LabelChoice, NEW rem, ModifyThread(t, add, rem)
      PROVE  MailInv' /\ (ShowsInv => ShowsInv')
  BY <1>1, <1>8, RelabelThreadKeeps DEF ModifyThread
<1>9. ASSUME NEW t, TrashThread(t) \/ UntrashThread(t)
      PROVE  MailInv' /\ (ShowsInv => ShowsInv')
  BY <1>2, <1>9, RelabelThreadKeeps DEF TrashThread, UntrashThread
<1>10. CASE V1MessageRequest
  BY <1>4, <1>5, <1>6, <1>7, <1>10, DeleteMessageKeeps DEF V1MessageRequest
<1>11. CASE V1ThreadRequest
  BY <1>8, <1>9, <1>11, DeleteThreadKeeps DEF V1ThreadRequest
<1>12. CASE V1LabelRequest
  BY <1>12, LabelsKeep DEF V1LabelRequest
<1>13. CASE NativeRequest
  BY <1>4, <1>6, <1>13, DeleteMessageKeeps, LabelsKeep DEF NativeRequest
<1>14. CASE TimelineAction
  BY <1>4, <1>6, <1>7, <1>14, DeleteMessageKeeps, LabelsKeep DEF TimelineAction
<1> QED
  BY <1>10, <1>11, <1>12, <1>13, <1>14 DEF Request

LEMMA SeedingKeeps ==
  ASSUME MailInv, Seeding
  PROVE  MailInv' /\ (ShowsInv => ShowsInv')
<1>1. ASSUME NEW S \in SUBSET SeedLabel, NEW given \in [S -> Name], SeedBegin(given)
      PROVE  MailInv' /\ (ShowsInv => ShowsInv')
  <2>1. DOMAIN given = S /\ given \in [DOMAIN given -> Name]
    BY <1>1
  <2> QED
    BY <1>1, <2>1, SeedBeginKeeps
<1>2. ASSUME NEW x \in SeedSet
      PROVE  /\ x.id \in SeedMsg \cup {None} /\ x.subject \in Subject
             /\ x.labels \in SUBSET (SystemLabel \cup Int)
             /\ x.date \in Nat \cup {None}
             /\ x.named \in SUBSET SeedAtt /\ x.unnamed \in Nat
  BY SeedAssumption
<1>3. ASSUME NEW x \in SeedSet,
             SeedMessage(x.id, x.thread, x.subject, x.labels, x.date, x.named, x.unnamed)
      PROVE  MailInv' /\ (ShowsInv => ShowsInv')
  BY <1>2, <1>3, SeedMessageKeeps
<1>4. ASSUME NEW x \in SeedSet, SeedRefused(x.id, x.thread, x.subject, x.named)
      PROVE  MailInv' /\ (ShowsInv => ShowsInv')
  BY <1>2, <1>4, SeedRefusedKeeps
<1> QED
  BY <1>1, <1>3, <1>4, SeedEndKeeps DEF Seeding

LEMMA ChangeKeeps ==
  ASSUME MailInv, Change
  PROVE  MailInv' /\ (ShowsInv => ShowsInv')
BY RequestKeeps, SeedingKeeps, ControlKeeps DEF Change

LEMMA MailUnchanged ==
  ASSUME MailInv, UNCHANGED mailVars
  PROVE  MailInv' /\ (ShowsInv => ShowsInv')
<1>1. UNCHANGED <<messages, threads, labels, attachments, nextId, nextHistory, partial,
                  collided, strays, lock, saved>>
  BY DEF mailVars, mailbox, marks
<1> QED
  BY <1>1 DEF MailInv, ShowsInv

\* A step changes the mailbox or moves the client that pages, or is a stutter.
LEMMA StepCases ==
  ASSUME [Next]_vars
  PROVE  \/ Change /\ Watch
         \/ UNCHANGED mailVars
BY DEF Next, vars, ListFirst, ListNext

LEMMA MailStep ==
  ASSUME MailInv, [Next]_vars
  PROVE  MailInv' /\ (ShowsInv => ShowsInv')
BY StepCases, ChangeKeeps, MailUnchanged

\* The mailbox and its snapshot are sound, whatever requests, seeds, resets and
\* restores come in which order.
THEOREM MailboxInvariant == Spec => []MailInv
<1>1. Init => MailInv
  BY MailInitInv DEF Init
<1>2. MailInv /\ [Next]_vars => MailInv'
  BY MailStep
<1> QED
  BY <1>1, <1>2, PTL DEF Spec

THEOREM ShowsInvariant == Spec => []ShowsInv
<1>1. Init => ShowsInv
  BY MailInitInv DEF Init
<1>2. MailInv /\ ShowsInv /\ [Next]_vars => ShowsInv'
  BY MailStep
<1> QED
  BY <1>1, <1>2, MailboxInvariant, PTL DEF Spec

-----------------------------------------------------------------------------
(* What that means to clients. *)

\* No message outlives its thread, and no thread its last message: each delete, of a
\* message or of a thread, takes with it what would be left over.  (This and what
\* follows excepts mailboxes in which a message took the id of another.)
THEOREM ThreadsAreUsed == Spec => []ThreadsExact
<1>1. MailInv => ThreadsExact
  <2> SUFFICES ASSUME MailInv PROVE ThreadsExact
    OBVIOUS
  <2>1. \A m \in DOMAIN messages : messages[m].thread \in DOMAIN threads
    BY DEF MailInv, BoxInv, Linked
  <2>2. \/ partial \/ collided
        \/ \A t \in DOMAIN threads : \E m \in DOMAIN messages : messages[m].thread = t
    BY DEF MailInv, CleanInv, Exact
  <2> QED
    BY <2>1, <2>2 DEF ThreadsExact
<1> QED
  BY <1>1, MailboxInvariant, PTL

\* The attachment store holds what messages refer to, and no message loses the
\* bytes of its attachments with another's.
THEOREM AttachmentsAreOwned == Spec => []AttachmentsExact
<1>1. MailInv => AttachmentsExact
  <2> SUFFICES ASSUME MailInv, ~collided PROVE AttachmentsExact
    BY DEF AttachmentsExact
  <2>1. \A a : a \in AttsOf(messages, DOMAIN messages) <=>
                 \E m \in DOMAIN messages : a \in messages[m].atts
    BY DEF AttsOf
  <2>2. \A m \in DOMAIN messages : messages[m].atts \subseteq attachments
    BY DEF MailInv, CleanInv, Held
  <2>3. partial \/ \A a \in attachments : \E m \in DOMAIN messages : a \in messages[m].atts
    BY DEF MailInv, CleanInv, Exact
  <2>4. Disjoint(messages)
    BY DEF MailInv, CleanInv
  <2> QED
    BY <2>1, <2>2, <2>3, <2>4 DEF AttachmentsExact, Disjoint
<1> QED
  BY <1>1, MailboxInvariant, PTL

\* A thread shows its latest message, whatever was added, relabelled or deleted
\* last, and in whatever order dates were given.
THEOREM ThreadsShowLatest == Spec => []ThreadShowsLatest
<1>1. ShowsInv => ThreadShowsLatest
  BY DEF ShowsInv, Shows, ThreadShowsLatest
<1> QED
  BY <1>1, ShowsInvariant, PTL

\* An id that is generated while the counter is past all ids is new.
LEMMA GeneratedIsNew ==
  ASSUME MailInv, lock = "free", ~partial
  PROVE  /\ nextId \in Nat
         /\ \A i \in Nat : i >= nextId => i \notin DOMAIN messages
<1>1. CurrentPast /\ nextId \in Nat
  BY CurrentFacts DEF CurrentInv, BoxInv, Shape
<1> QED
  BY <1>1, IdFacts DEF CurrentPast, Past, Ids

LEMMA SentIsNew ==
  ASSUME MailInv, ~partial, NEW t, NEW s, SendMessage(t, s)
  PROVE  collided' = collided
<1> DEFINE own == nextId + New(Found(t, s))
<1>1. lock = "free" /\ collided' = (collided \/ own \in DOMAIN messages)
  BY DEF SendMessage, MayCreate
<1>2. New(Found(t, s)) \in {0, 1}
  BY CurrentFacts, FoundFacts, NewFacts
<1>3. own \in Nat /\ own >= nextId
  BY <1>1, <1>2, GeneratedIsNew
<1> HIDE DEF own
<1> QED
  BY <1>1, <1>3, CurrentFacts, GeneratedIsNew

LEMMA InsertedIsNew ==
  ASSUME MailInv, ~partial, NEW t, NEW s, NEW ls, NEW d, InsertMessage(t, s, ls, d)
  PROVE  collided' = collided
<1> DEFINE first == nextId + 1 + New(Found(t, s))
           atts == {} \cup first..(first + 0 - 1)
<1>1. lock = "free" /\ collided' = (collided \/ nextId \in DOMAIN messages \/ atts \cap attachments # {})
  BY DEF InsertMessage, MayCreate, Insertion
<1>2. New(Found(t, s)) \in {0, 1} /\ nextId \in Nat
  BY <1>1, CurrentFacts, FoundFacts, NewFacts, GeneratedIsNew
<1>3. atts = {}
  BY <1>2
<1> HIDE DEF atts
<1> QED
  BY <1>1, <1>2, <1>3, CurrentFacts, GeneratedIsNew

\* What clients and a timeline create never comes in the place of a message:
\* only seeds do that, and requests after a seed that failed.
THEOREM SeedsAloneCollide == Spec => OnlySeedsCollide
<1> DEFINE Caused == collided' => collided \/ saved.collided \/ partial \/ lock = "seed"
<1>1. MailInv /\ [Next]_vars => Caused
  <2> SUFFICES ASSUME MailInv, [Next]_vars, lock = "free", ~partial,
                      ~saved.collided, ~collided
               PROVE  ~collided'
    BY DEF MailInv
  <2>1. CASE Request
    BY <2>1, SentIsNew, InsertedIsNew
       DEF Request, V1MessageRequest, V1ThreadRequest, V1LabelRequest, NativeRequest,
           TimelineAction, ModifyMessage, TrashMessage, UntrashMessage, ModifyThread,
           TrashThread, UntrashThread, RelabelMessage, RelabelThread, DeleteMessage,
           DeleteThread, CreateLabel, UpdateLabel, DeleteLabel, marks
  <2>2. CASE Seeding
    BY <2>2 DEF Seeding, SeedBegin, SeedMessage, SeedRefused, SeedEnd, Load, EmptyMailbox, marks
  <2>3. CASE Reset \/ Snapshot \/ Restore
    BY <2>3 DEF Reset, Snapshot, Restore, Load, EmptyMailbox, mailbox, marks
  <2>4. CASE UNCHANGED mailVars
    BY <2>4 DEF mailVars, mailbox, marks
  <2> QED
    BY <2>1, <2>2, <2>3, <2>4, StepCases DEF Change
<1> QED
  BY <1>1, MailboxInvariant, PTL DEF Spec, OnlySeedsCollide

\* Between requests the counter is past every id, seeded ones included.
THEOREM IdsAreFresh == Spec => []FreshIds
<1>1. MailInv => FreshIds
  BY PastFacts DEF MailInv, FreshIds, CurrentPast
<1> QED
  BY <1>1, MailboxInvariant, PTL

\* A history id stands for one change of one thread.
THEOREM HistoryIsTold == Spec => []HistoryTells
<1>1. MailInv => HistoryTells
  BY DEF MailInv, BoxInv, Stamped, HistoryTells
<1> QED
  BY <1>1, MailboxInvariant, PTL

\* A message carries a label that labels.get does not know only if the label was
\* put on a message while there was none of that id.
THEOREM LabelsAreThere == Spec => []LabelsExist
<1>1. MailInv => LabelsExist
  BY DEF MailInv, BoxInv, Linked, LabelsExist, LabelIds
<1> QED
  BY <1>1, MailboxInvariant, PTL

-----------------------------------------------------------------------------
(* Listings. *)

BeforePairs(l) == {p \in Listed(l) \X Listed(l) : Before(l, p[1], p[2])}

\* Listings are finite, and their order leaves nothing open.
LEMMA ListingFacts ==
  ASSUME MailInv, NEW l
  PROVE  /\ IsFiniteSet(Listed(l)) /\ Listed(l) \subseteq Int
         /\ l.kind # "messages" => Listed(l) \subseteq DOMAIN threads
         /\ \A i \in Listed(l) : Key(l, i) \in Nat
         /\ StrictOrder(BeforePairs(l), Listed(l))
         /\ \A i \in Listed(l) : Rank(l, i) = RankIn(BeforePairs(l), Listed(l), i)
<1>1. /\ messages \in [DOMAIN messages -> Message] /\ DOMAIN messages \subseteq Int
      /\ IsFiniteSet(DOMAIN messages) /\ IsFiniteSet(DOMAIN threads)
      /\ threads \in [DOMAIN threads -> [history : Nat, snippet : Text]]
      /\ DOMAIN threads \subseteq Int
      /\ \A m \in DOMAIN messages : messages[m].thread \in DOMAIN threads
  BY DEF MailInv, BoxInv, Shape, Linked
<1>2. /\ IsFiniteSet(Listed(l)) /\ Listed(l) \subseteq Int
      /\ l.kind # "messages" => Listed(l) \subseteq DOMAIN threads
      /\ \A i \in Listed(l) : Key(l, i) \in Nat
  <2>1. CASE l.kind = "messages"
    <3>1. Listed(l) \in SUBSET DOMAIN messages
      BY <2>1 DEF Listed, ListedMessages
    <3>2. \A i \in Listed(l) : Key(l, i) \in Nat
      BY <1>1, <2>1, <3>1 DEF Key, Message
    <3> QED
      BY <1>1, <2>1, <3>1, <3>2, FS_Subset
  <2>2. CASE l.kind # "messages"
    <3>1. Listed(l) \in SUBSET DOMAIN threads
      BY <1>1, <2>2 DEF Listed, ListedThreads, ThreadsOf
    <3>2. \A i \in Listed(l) : Key(l, i) \in Nat
      BY <1>1, <2>2, <3>1 DEF Key
    <3> QED
      BY <1>1, <2>2, <3>1, <3>2, FS_Subset
  <2> QED
    BY <2>1, <2>2
<1>3. \A x, y \in Listed(l) : <<x, y>> \in BeforePairs(l) <=> Before(l, x, y)
  BY DEF BeforePairs
<1>4. StrictOrder(BeforePairs(l), Listed(l))
  <2>1. \A x \in Listed(l) : ~Before(l, x, x)
    BY <1>2 DEF Before
  <2>2. \A x, y \in Listed(l) : x = y \/ Before(l, x, y) \/ Before(l, y, x)
    BY <1>2 DEF Before
  <2>3. \A x, y, z \in Listed(l) : Before(l, x, y) /\ Before(l, y, z) => Before(l, x, z)
    BY <1>2 DEF Before
  <2> QED
    BY <1>3, <2>1, <2>2, <2>3 DEF StrictOrder
<1>5. \A i \in Listed(l) : Rank(l, i) = RankIn(BeforePairs(l), Listed(l), i)
  <2>1. ASSUME NEW i \in Listed(l)
        PROVE  {j \in Listed(l) : Before(l, j, i)} = {j \in Listed(l) : <<j, i>> \in BeforePairs(l)}
    BY <1>3
  <2> QED
    BY <2>1 DEF Rank, RankIn
<1> QED
  BY <1>2, <1>4, <1>5

\* A page is no longer than its limit, has the next elements in order, and is
\* empty only past the end.
LEMMA PageFacts ==
  ASSUME MailInv, NEW l, NEW offset \in Nat, NEW n \in MaxResults
  PROVE  /\ Cardinality(Page(l, offset, n)) \in Nat
         /\ Cardinality(Listed(l)) \in Nat
         /\ \A i \in Listed(l) : Rank(l, i) \in Nat /\ Rank(l, i) < Cardinality(Listed(l))
         /\ offset < Cardinality(Listed(l)) => Cardinality(Page(l, offset, n)) > 0
         /\ \A i \in Listed(l) :
              Rank(l, i) >= offset /\ Rank(l, i) < offset + Cardinality(Page(l, offset, n)) =>
                i \in Page(l, offset, n)
<1> DEFINE S == Listed(l)
           P == Page(l, offset, n)
           to == offset + Limit(n) - 1
<1>1. Limit(n) \in Nat /\ Limit(n) > 0
  BY ClientAssumption DEF Limit
<1>2. IsFiniteSet(S) /\ (l.kind = "threads" => S \subseteq DOMAIN threads)
  BY ListingFacts
<1>3. /\ Cardinality(S) \in Nat
      /\ \A x \in S : Rank(l, x) \in Nat /\ Rank(l, x) < Cardinality(S)
      /\ \A x, y \in S : Rank(l, x) = Rank(l, y) => x = y
      /\ \A k \in Nat : k < Cardinality(S) => \E x \in S : Rank(l, x) = k
  BY ListingFacts, RanksAreTaken
<1>4. P = {i \in S : Rank(l, i) \in offset..to}
  BY <1>2 DEF Page
<1> HIDE DEF S, P
<1>5. P \in SUBSET S /\ to \in Int
  BY <1>1, <1>4
<1>6. IsFiniteSet(P) /\ Cardinality(P) \in Nat
  BY <1>2, <1>5, FS_Subset, FS_CardinalityType
<1>7. offset < Cardinality(S) => Cardinality(P) > 0
  <2> SUFFICES ASSUME offset < Cardinality(S) PROVE Cardinality(P) > 0
    OBVIOUS
  <2>1. PICK x \in S : Rank(l, x) = offset
    BY <1>3
  <2>2. x \in P
    BY <1>1, <1>4, <2>1
  <2>3. Cardinality(P) # 0
    BY <1>6, <2>2, FS_EmptySet
  <2> QED
    BY <1>6, <2>3
<1>8. Cardinality(P) <= Limit(n)
  <2> DEFINE f == [x \in P |-> Rank(l, x)]
  <2>1. f \in [P -> offset..to] /\ \A x, y \in P : f[x] = f[y] => x = y
    BY <1>3, <1>4, <1>5
  <2>2. f \in Injection(P, offset..to)
    BY <2>1 DEF Injection, IsInjective
  <2> HIDE DEF f
  <2>3. IsFiniteSet(offset..to) /\ Cardinality(offset..to) = Limit(n)
    BY <1>1, <1>5, FS_Interval
  <2> QED
    BY <2>2, <2>3, FS_Injection
<1>9. ASSUME NEW i \in S, Rank(l, i) >= offset, Rank(l, i) < offset + Cardinality(P)
      PROVE  i \in P
  BY <1>1, <1>3, <1>4, <1>6, <1>8, <1>9
<1> QED
  BY <1>3, <1>6, <1>7, <1>9 DEF S, P

-----------------------------------------------------------------------------
(* A client that pages. *)

\* As long as nothing left the listing or fell back in it, the pages so far
\* have shown all that was there from the start and is ranked before the token.
PagerInv ==
  /\ pager \in [listing : Listing \cup {NoListing}, size : MaxResults \cup {0},
                next : Nat \cup {None}, seen : SUBSET Int, kept : SUBSET Int,
                moved : BOOLEAN]
  /\ Paging =>
       /\ pager.size \in MaxResults /\ pager.next \in Nat
       /\ \A l \in {pager.listing} :
            /\ pager.kept \subseteq Listed(l)
            /\ ~pager.moved =>
                 \A i \in pager.kept : Rank(l, i) < pager.next => i \in pager.seen

LEMMA NothingRead ==
  ASSUME UNCHANGED mailVars, NEW l
  PROVE  /\ Listed(l)' = Listed(l)
         /\ \A i : Key(l, i)' = Key(l, i)
         /\ \A i : Rank(l, i)' = Rank(l, i)
<1>1. UNCHANGED <<messages, threads>>
  BY DEF mailVars, mailbox
<1>2. Listed(l)' = Listed(l)
  BY <1>1 DEF Listed, ListedMessages, ListedThreads, ThreadsOf
<1>3. \A i : Key(l, i)' = Key(l, i)
  BY <1>1 DEF Key
<1>4. \A i : Rank(l, i)' = Rank(l, i)
  BY <1>2, <1>3 DEF Rank, Before
<1> QED
  BY <1>2, <1>3, <1>4

\* What the steps below need to know of listings after the step.
ListingsOK ==
  \A l \in Listing : IsFiniteSet(Listed(l)) /\ \A i \in Listed(l) : i \in Int /\ Key(l, i) \in Nat

LEMMA ListingsAreOK == MailInv => ListingsOK
BY ListingFacts DEF ListingsOK

\* While nothing leaves the listing or falls back in it, what keeps its key
\* keeps what was before it before it.
LEMMA RankStays ==
  ASSUME MailInv, ListingsOK', NEW l \in Listing,
         \A j \in Listed(l) : j \in Listed(l)' /\ ~(Key(l, j)' < Key(l, j)),
         NEW i \in Listed(l), Key(l, i)' = Key(l, i)
  PROVE  Rank(l, i) <= Rank(l, i)' /\ Rank(l, i)' \in Nat
<1> DEFINE A == {j \in Listed(l) : Before(l, j, i)}
           B == {j \in Listed(l)' : Before(l, j, i)'}
<1>1. /\ Listed(l) \subseteq Int /\ \A j \in Listed(l) : Key(l, j) \in Nat
  BY ListingFacts
<1>2. /\ IsFiniteSet(Listed(l)') /\ \A j \in Listed(l)' : Key(l, j)' \in Nat
  BY DEF ListingsOK
<1>3. \A j \in Listed(l) : Before(l, j, i) => Before(l, j, i)'
  BY <1>1, <1>2 DEF Before
<1>4. A \in SUBSET B
  BY <1>3
<1>5. Rank(l, i) = Cardinality(A) /\ Rank(l, i)' = Cardinality(B)
  BY DEF Rank
<1>6. IsFiniteSet(B)
  BY <1>2, FS_Subset
<1> HIDE DEF A, B
<1> QED
  BY <1>4, <1>5, <1>6, FS_Subset, FS_CardinalityType

LEMMA WatchKeeps ==
  ASSUME MailInv, ListingsOK', PagerInv, Watch
  PROVE  PagerInv'
<1>1. PICK l \in {pager.listing} :
        LET left == {i \in Listed(l) : i \notin Listed(l)' \/ Key(l, i)' < Key(l, i)}
            same == {i \in pager.kept : i \in Listed(l)' /\ Key(l, i)' = Key(l, i)}
        IN pager' = IF Paging THEN [pager EXCEPT !.kept = same, !.moved = @ \/ left # {}]
                    ELSE pager
  BY DEF Watch
<1> DEFINE left == {i \in Listed(l) : i \notin Listed(l)' \/ Key(l, i)' < Key(l, i)}
           same == {i \in pager.kept : i \in Listed(l)' /\ Key(l, i)' = Key(l, i)}
           moved == pager.moved \/ left # {}
<1>2. CASE ~Paging
  BY <1>1, <1>2 DEF PagerInv, Paging
<1>3. CASE Paging
  <2>1. /\ l \in Listing /\ pager.next \in Nat /\ pager.size \in MaxResults
        /\ pager.kept \subseteq Listed(l) /\ pager.kept \subseteq Int
        /\ ~pager.moved => \A i \in pager.kept : Rank(l, i) < pager.next => i \in pager.seen
    BY <1>1, <1>3 DEF PagerInv, Paging
  <2>2. same \subseteq Int /\ same \subseteq Listed(l)' /\ moved \in BOOLEAN
    BY <2>1
  <2>3. ASSUME ~moved, NEW i \in same, Rank(l, i)' < pager.next PROVE i \in pager.seen
    <3>1. /\ ~pager.moved /\ i \in pager.kept /\ i \in Listed(l) /\ Key(l, i)' = Key(l, i)
          /\ \A j \in Listed(l) : j \in Listed(l)' /\ ~(Key(l, j)' < Key(l, j))
      BY <2>1, <2>3
    <3>2. Rank(l, i) <= Rank(l, i)' /\ Rank(l, i)' \in Nat
      BY <2>1, <3>1, RankStays
    <3>3. Rank(l, i) \in Nat
      BY <3>1, ListingFacts, RanksAreTaken
    <3> QED
      BY <2>1, <2>3, <3>1, <3>2, <3>3
  <2>4. pager' = [pager EXCEPT !.kept = same, !.moved = moved]
    BY <1>1, <1>3
  <2> HIDE DEF same, moved
  <2>5. /\ pager'.listing = l /\ pager'.size = pager.size /\ pager'.next = pager.next
        /\ pager'.seen = pager.seen /\ pager'.kept = same /\ pager'.moved = moved
        /\ pager' \in [listing : Listing \cup {NoListing}, size : MaxResults \cup {0},
                       next : Nat \cup {None}, seen : SUBSET Int, kept : SUBSET Int,
                       moved : BOOLEAN]
    BY <1>1, <2>2, <2>4 DEF PagerInv
  <2> QED
    BY <2>1, <2>2, <2>3, <2>5 DEF PagerInv
<1> QED
  BY <1>2, <1>3

LEMMA PageInListing ==
  ASSUME MailInv, NEW l, NEW offset, NEW n
  PROVE  Page(l, offset, n) \subseteq Listed(l) /\ Page(l, offset, n) \subseteq Int
BY ListingFacts DEF Page

LEMMA ListFirstKeeps ==
  ASSUME MailInv, PagerInv, NEW l \in Listing, NEW n \in MaxResults, ListFirst(l, n)
  PROVE  PagerInv'
<1> DEFINE P == Page(l, 0, n)
           next == NextOffset(l, 0, n)
<1>1. /\ UNCHANGED mailVars /\ next # None
      /\ pager' = [listing |-> l, size |-> n, next |-> next, seen |-> P, kept |-> Listed(l),
                   moved |-> FALSE]
  BY DEF ListFirst
<1>2. /\ Cardinality(P) \in Nat
      /\ \A i \in Listed(l) : Rank(l, i) \in Nat
      /\ \A i \in Listed(l) : Rank(l, i) >= 0 /\ Rank(l, i) < 0 + Cardinality(P) => i \in P
  BY PageFacts
<1>3. next = Cardinality(P)
  BY <1>1, <1>2 DEF NextOffset
<1>4. P \subseteq Int /\ Listed(l) \subseteq Int
  BY PageInListing, ListingFacts
<1>5. Listed(l)' = Listed(l) /\ \A i : Rank(l, i)' = Rank(l, i)
  BY <1>1, NothingRead
<1> HIDE DEF P, next
<1>6. \A i \in Listed(l) : Rank(l, i) < next => i \in P
  BY <1>2, <1>3
<1>7. /\ pager'.listing = l /\ pager'.size = n /\ pager'.next = next /\ pager'.seen = P
      /\ pager'.kept = Listed(l) /\ pager'.moved = FALSE
      /\ pager' \in [listing : Listing \cup {NoListing}, size : MaxResults \cup {0},
                     next : Nat \cup {None}, seen : SUBSET Int, kept : SUBSET Int,
                     moved : BOOLEAN]
  BY <1>1, <1>2, <1>3, <1>4
<1> QED
  BY <1>2, <1>3, <1>5, <1>6, <1>7 DEF PagerInv

\* What the next page leaves out is ranked behind it.
LEMMA NextPage ==
  ASSUME MailInv, PagerInv, Paging, NEW l \in {pager.listing}, ~pager.moved,
         NEW i \in pager.kept,
         Rank(l, i) < pager.next + Cardinality(Page(l, pager.next, pager.size))
  PROVE  i \in pager.seen \cup Page(l, pager.next, pager.size)
<1>1. pager.next \in Nat /\ pager.size \in MaxResults /\ i \in Listed(l)
  BY DEF PagerInv
<1>2. /\ Rank(l, i) \in Nat
      /\ Rank(l, i) >= pager.next => i \in Page(l, pager.next, pager.size)
  BY <1>1, PageFacts
<1>3. Rank(l, i) < pager.next => i \in pager.seen
  BY DEF PagerInv
<1> QED
  BY <1>1, <1>2, <1>3

LEMMA ListNextKeeps ==
  ASSUME MailInv, PagerInv, ListNext
  PROVE  PagerInv'
<1>1. PICK l \in {pager.listing} : TRUE
  OBVIOUS
<1> DEFINE P == Page(l, pager.next, pager.size)
           next == NextOffset(l, pager.next, pager.size)
<1>2. /\ Paging /\ UNCHANGED mailVars
      /\ pager' = IF next = None THEN Idle ELSE [pager EXCEPT !.next = next, !.seen = @ \cup P]
  BY <1>1 DEF ListNext
<1>3. CASE next = None
  BY <1>2, <1>3 DEF PagerInv, Paging, Idle
<1>4. CASE next # None
  <2>1. /\ l \in Listing /\ pager.next \in Nat /\ pager.size \in MaxResults
        /\ pager.kept \subseteq Listed(l)
    BY <1>1, <1>2 DEF PagerInv, Paging
  <2>2. Cardinality(P) \in Nat
    BY <2>1, PageFacts
  <2>3. next = pager.next + Cardinality(P)
    BY <1>4 DEF NextOffset
  <2>4. P \subseteq Int
    BY PageInListing
  <2>5. ~pager.moved => \A i \in pager.kept : Rank(l, i) < next => i \in pager.seen \cup P
    BY <1>1, <1>2, <2>3, NextPage
  <2>6. Listed(l)' = Listed(l) /\ \A i : Rank(l, i)' = Rank(l, i)
    BY <1>2, NothingRead
  <2>7. pager' = [pager EXCEPT !.next = next, !.seen = @ \cup P]
    BY <1>2, <1>4
  <2> HIDE DEF P, next
  <2>8. /\ pager'.listing = l /\ pager'.size = pager.size /\ pager'.next = next
        /\ pager'.seen = pager.seen \cup P /\ pager'.kept = pager.kept
        /\ pager'.moved = pager.moved
        /\ pager' \in [listing : Listing \cup {NoListing}, size : MaxResults \cup {0},
                       next : Nat \cup {None}, seen : SUBSET Int, kept : SUBSET Int,
                       moved : BOOLEAN]
    <3> DEFINE seen == pager.seen \cup P
    <3>1. pager \in [listing : Listing \cup {NoListing}, size : MaxResults \cup {0},
                     next : Nat \cup {None}, seen : SUBSET Int, kept : SUBSET Int,
                     moved : BOOLEAN]
      BY DEF PagerInv
    <3>2. next \in Nat /\ seen \in SUBSET Int
      BY <2>1, <2>2, <2>3, <2>4, <3>1
    <3>3. pager' = [pager EXCEPT !.next = next, !.seen = seen]
      BY <2>7
    <3> HIDE DEF seen
    <3>4. /\ pager'.listing = l /\ pager'.size = pager.size /\ pager'.next = next
          /\ pager'.seen = seen /\ pager'.kept = pager.kept
          /\ pager'.moved = pager.moved
          /\ pager' \in [listing : Listing \cup {NoListing}, size : MaxResults \cup {0},
                         next : Nat \cup {None}, seen : SUBSET Int, kept : SUBSET Int,
                         moved : BOOLEAN]
      BY <1>1, <3>1, <3>2, <3>3
    <3> QED
      BY <3>4 DEF seen
  <2>9. next \in Nat /\ pager'.kept \subseteq Listed(l)'
    BY <2>1, <2>2, <2>3, <2>6, <2>8
  <2>10. ~pager'.moved => \A i \in pager'.kept : Rank(l, i)' < pager'.next => i \in pager'.seen
    BY <2>5, <2>6, <2>8
  <2> QED
    BY <2>1, <2>8, <2>9, <2>10 DEF PagerInv
<1> QED
  BY <1>3, <1>4

LEMMA PagerStep ==
  ASSUME MailInv, ListingsOK', PagerInv, [Next]_vars
  PROVE  PagerInv'
<1>1. CASE Change /\ Watch
  BY <1>1, WatchKeeps
<1>2. CASE \E l \in Listing, n \in MaxResults : ListFirst(l, n)
  BY <1>2, ListFirstKeeps
<1>3. CASE ListNext
  BY <1>3, ListNextKeeps
<1>4. CASE UNCHANGED vars
  <2>1. UNCHANGED mailVars /\ pager' = pager
    BY <1>4 DEF vars
  <2>2. \A l : Listed(l)' = Listed(l) /\ \A i : Rank(l, i)' = Rank(l, i)
    BY <2>1, NothingRead
  <2> QED
    BY <2>1, <2>2 DEF PagerInv, Paging
<1> QED
  BY <1>1, <1>2, <1>3, <1>4 DEF Next

THEOREM PagerInvariant == Spec => []PagerInv
<1>1. Init => PagerInv
  BY DEF Init, Idle, PagerInv, Paging
<1>2. MailInv /\ ListingsOK' /\ PagerInv /\ [Next]_vars => PagerInv'
  BY PagerStep
<1> QED
  BY <1>1, <1>2, ListingsAreOK, MailboxInvariant, PTL DEF Spec

\* The types of the mailbox, its snapshot and the client that pages.
THEOREM TypeInvariant == Spec => []TypeOK
<1>1. MailInv /\ PagerInv => TypeOK
  <2> SUFFICES ASSUME MailInv, PagerInv PROVE TypeOK
    OBVIOUS
  <2>1. BoxOK(Mailbox)
    <3>1. /\ Mailbox.messages = messages /\ Mailbox.threads = threads
          /\ Mailbox.labels = labels /\ Mailbox.attachments = attachments
          /\ Mailbox.nextId = nextId /\ Mailbox.nextHistory = nextHistory
          /\ Mailbox.partial = partial /\ Mailbox.collided = collided
          /\ Mailbox.strays = strays
      BY DEF Mailbox
    <3> HIDE DEF Mailbox
    <3> QED
      BY <3>1 DEF MailInv, BoxInv, Shape, BoxOK
  <2>2. BoxOK(saved)
    BY DEF MailInv, BoxInv, Shape, BoxOK
  <2> QED
    BY <2>1, <2>2 DEF MailInv, PagerInv, TypeOK, MailTypeOK, Paging
<1> QED
  BY <1>1, MailboxInvariant, PagerInvariant, PTL

\* A page that promises another is never empty, so that a client gets on: every
\* thread that a message is listed under is there.
THEOREM PagingGoesOn == Spec => []PagesAdvance
<1>1. MailInv /\ PagerInv => PagesAdvance
  <2> SUFFICES ASSUME MailInv, PagerInv, Paging,
                      NEW next, next = NextOffset(pager.listing, pager.next, pager.size),
                      next # None
               PROVE  next > pager.next
    BY DEF PagesAdvance
  <2> DEFINE P == Page(pager.listing, pager.next, pager.size)
             n == Cardinality(Listed(pager.listing))
  <2>1. pager.next \in Nat /\ pager.size \in MaxResults
    BY DEF PagerInv
  <2>2. Cardinality(P) \in Nat /\ n \in Nat /\ (pager.next < n => Cardinality(P) > 0)
    BY <2>1, PageFacts
  <2>3. next = pager.next + Cardinality(P) /\ next < n
    BY DEF NextOffset
  <2> QED
    BY <2>1, <2>2, <2>3
<1> QED
  BY <1>1, MailboxInvariant, PagerInvariant, PTL

\* A client that pages to the end has seen all that kept its place, unless
\* something left the listing or fell back in it meanwhile.
THEOREM PagingMissesNothing == Spec => PagesMissNothing
<1> DEFINE Complete == Paging /\ pager' = Idle =>
             \/ pager.moved
             \/ pager.kept \subseteq
                  pager.seen \cup Page(pager.listing, pager.next, pager.size)
<1>1. MailInv /\ PagerInv /\ [Next]_vars => [Complete]_vars
  <2> SUFFICES ASSUME MailInv, PagerInv, Next, Paging, pager' = Idle, ~pager.moved
               PROVE  pager.kept \subseteq
                        pager.seen \cup Page(pager.listing, pager.next, pager.size)
    OBVIOUS
  <2>1. PICK l \in {pager.listing} : TRUE
    OBVIOUS
  <2> DEFINE P == Page(l, pager.next, pager.size)
             n == Cardinality(Listed(l))
  <2>2. ListNext
    <3>1. pager'.listing = NoListing /\ pager.listing # NoListing
      BY DEF Idle, Paging
    <3>2. ~Watch
      <4> SUFFICES ASSUME Watch PROVE FALSE
        OBVIOUS
      <4>1. \E same, moved : pager' = [pager EXCEPT !.kept = same, !.moved = moved]
        BY DEF Watch
      <4> QED
        BY <3>1, <4>1 DEF PagerInv
    <3>3. \A k, s : ~ListFirst(k, s)
      BY DEF ListFirst
    <3> QED
      BY <3>2, <3>3 DEF Next
  <2>3. NextOffset(l, pager.next, pager.size) = None
    <3>1. CASE NextOffset(l, pager.next, pager.size) # None
      <4>1. \E next, seen : pager' = [pager EXCEPT !.next = next, !.seen = seen]
        BY <2>1, <2>2, <3>1 DEF ListNext
      <4> QED
        BY <4>1 DEF PagerInv, Paging, Idle
    <3> QED
      BY <3>1
  <2>4. pager.next \in Nat /\ pager.size \in MaxResults /\ pager.kept \subseteq Listed(l)
    BY <2>1 DEF PagerInv
  <2>5. /\ Cardinality(P) \in Nat /\ n \in Nat
        /\ \A i \in Listed(l) : Rank(l, i) \in Nat /\ Rank(l, i) < n
    BY <2>4, PageFacts
  <2>6. pager.next + Cardinality(P) >= n
    BY <2>3, <2>4, <2>5, IdFacts DEF NextOffset
  <2>7. \A i \in pager.kept : i \in pager.seen \cup P
    BY <2>1, <2>4, <2>5, <2>6, NextPage
  <2> QED
    BY <2>1, <2>7
<1> QED
  BY <1>1, MailboxInvariant, PagerInvariant, PTL DEF Spec, PagesMissNothing

-----------------------------------------------------------------------------
(* The reads agree. *)

LEMMA EmptyQuery == \A m : Matches(m, ParseQuery(<<>>))
<1>1. \A kind : Args(<<>>, kind) = {}
  BY DEF Args
<1>2. ParseQuery(<<>>) = [include |-> {}, exclude |-> {}, after |-> Anything,
                          before |-> Anything, subject |-> Anything]
  BY <1>1 DEF ParseQuery, LastArg
<1> QED
  BY <1>2 DEF Matches

\* What labels.get counts is what a listing by the label finds.
LEMMA CountsAgree ==
  ASSUME MailInv, NEW l
  PROVE  LET by(kind) == Listed([kind |-> kind, labels |-> {l}, q |-> <<>>])
         IN /\ LabelCounts(l).messagesTotal = Cardinality(by("messages"))
            /\ LabelCounts(l).threadsTotal = Cardinality(by("threads"))
            /\ LabelCounts(l).threadsUnread <= LabelCounts(l).messagesUnread
            /\ \A t \in by("threads") : GetThread(t)
            /\ \A m \in DOMAIN messages :
                 Asserted([type |-> "message_has_label", id |-> m, label |-> l])
                   = (m \in by("messages"))
<1> DEFINE byMessage == [kind |-> "messages", labels |-> {l}, q |-> <<>>]
           byThread == [kind |-> "threads", labels |-> {l}, q |-> <<>>]
           U == Unread(Labelled(l))
           f == [m \in U |-> messages[m].thread]
<1>1. Listed(byMessage) = Labelled(l)
  BY EmptyQuery DEF Listed, ListedMessages, Labelled
<1>2. Listed(byThread) = ThreadsOf(Labelled(l))
  BY DEF Listed, ListedThreads, Labelled
<1>3. /\ LabelCounts(l).messagesTotal = Cardinality(Labelled(l))
      /\ LabelCounts(l).threadsTotal = Cardinality(ThreadsOf(Labelled(l)))
      /\ LabelCounts(l).threadsUnread = Cardinality(ThreadsOf(U))
      /\ LabelCounts(l).messagesUnread = Cardinality(U)
  BY DEF LabelCounts
<1>4. Cardinality(ThreadsOf(U)) <= Cardinality(U)
  <2>1. U \in SUBSET DOMAIN messages
    BY DEF Unread, Labelled
  <2>2. IsFiniteSet(U)
    BY <2>1, FS_Subset DEF MailInv, BoxInv, Shape
  <2>3. ThreadsOf(U) = {f[m] : m \in U}
    BY DEF ThreadsOf
  <2> HIDE DEF U
  <2>4. f \in [U -> ThreadsOf(U)] /\ \A t \in ThreadsOf(U) : \E m \in U : f[m] = t
    BY <2>3
  <2>5. f \in Surjection(U, ThreadsOf(U))
    BY <2>4 DEF Surjection
  <2> QED
    BY <2>2, <2>5, FS_Surjection
<1>5. \A t \in ThreadsOf(Labelled(l)) : GetThread(t)
  BY DEF ThreadsOf, Labelled, GetThread, MailInv, BoxInv, Linked
<1>6. \A m \in DOMAIN messages :
        Asserted([type |-> "message_has_label", id |-> m, label |-> l]) = (m \in Labelled(l))
  BY DEF Asserted, Labelled
<1> QED
  BY <1>1, <1>2, <1>3, <1>4, <1>5, <1>6

MessageNode(m) == [kind |-> "message", id |-> m, parent |-> messages[m].thread, count |-> 0]

LEMMA NodeFacts ==
  ASSUME MailInv
  PROVE  /\ \A x \in StateNodes : x.kind \in {"thread", "message", "label"}
         /\ \A x \in StateNodes : x.kind # "message" => x.parent = None
         /\ \A x \in StateNodes : x.kind = "message" =>
              x.id \in DOMAIN messages /\ x = MessageNode(x.id)
         /\ \A m \in DOMAIN messages : MessageNode(m) \in StateNodes
         /\ \A x \in StateNodes : x.kind = "label" =>
              x.id \in LabelIds /\ x.count = Cardinality(Labelled(x.id))
         /\ \A m : /\ MessageNode(m).kind = "message" /\ MessageNode(m).id = m
                   /\ MessageNode(m).parent = messages[m].thread
BY DEF StateNodes, MessageNode

\* Every node of the state leads to the thread that holds it.
LEMMA NodesAgree ==
  ASSUME MailInv, NEW x \in StateNodes, x.parent # None
  PROVE  LET node == InspectNode("thread", x.parent)
         IN /\ node # None
            /\ Asserted([type |-> "thread_message_count", id |-> x.parent, count |-> node.count])
<1> DEFINE t == x.parent
           n == Cardinality(InThread(messages, t))
           node == [parent |-> None, count |-> n]
<1>1. x.kind = "message" /\ x.id \in DOMAIN messages /\ t = messages[x.id].thread
  BY NodeFacts
<1>2. t \in DOMAIN threads
  BY <1>1 DEF MailInv, BoxInv, Linked
<1>3. InspectNode("thread", t) = node
  BY <1>2 DEF InspectNode
<1>4. n \in Nat
  <2>1. InThread(messages, t) \in SUBSET DOMAIN messages
    BY DEF InThread
  <2>2. IsFiniteSet(DOMAIN messages)
    BY DEF MailInv, BoxInv, Shape
  <2> QED
    BY <2>1, <2>2, FS_Subset, FS_CardinalityType
<1>5. node # None
  BY <1>4, NoneAssumption
<1>6. Asserted([type |-> "thread_message_count", id |-> t, count |-> node.count])
  BY DEF Asserted
<1> QED
  BY <1>3, <1>5, <1>6

\* The profile counts the messages that the threads hold.
LEMMA ProfileAgrees ==
  ASSUME MailInv
  PROVE  Profile.messagesTotal =
           Cardinality({x \in StateNodes : x.kind = "message" /\ GetMessage(x.id)
                                           /\ GetThread(x.parent)})
<1> DEFINE N == {x \in StateNodes : x.kind = "message" /\ GetMessage(x.id) /\ GetThread(x.parent)}
           f == [m \in DOMAIN messages |-> MessageNode(m)]
<1>1. \A m \in DOMAIN messages : MessageNode(m) \in N
  BY NodeFacts DEF GetMessage, GetThread, MailInv, BoxInv, Linked
<1>2. \A x \in N : x.id \in DOMAIN messages /\ x = MessageNode(x.id)
  BY NodeFacts
<1>3. \A m : MessageNode(m).id = m
  BY DEF MessageNode
<1> HIDE DEF N
<1>4. f \in [DOMAIN messages -> N]
  BY <1>1
<1>5. /\ \A m, n \in DOMAIN messages : f[m] = f[n] => m = n
      /\ \A x \in N : \E m \in DOMAIN messages : f[m] = x
  BY <1>2, <1>3
<1>6. f \in Bijection(DOMAIN messages, N)
  BY <1>4, <1>5 DEF Bijection, Injection, IsInjective, Surjection
<1>7. ExistsBijection(DOMAIN messages, N)
  BY <1>6 DEF ExistsBijection
<1>8. IsFiniteSet(DOMAIN messages)
  BY DEF MailInv, BoxInv, Shape
<1>9. Cardinality(N) = Cardinality(DOMAIN messages)
  BY <1>7, <1>8, FS_Bijection
<1> QED
  BY <1>9 DEF Profile, N

\* threads.get, the native routes and the state tree show the same messages.
LEMMA ViewsAgreeOnThread ==
  ASSUME MailInv, NEW t \in DOMAIN threads
  PROVE  LET view == ThreadView(t, "")
         IN /\ {x.id : x \in view} = NativeThread(t) /\ \A x \in view : x.threadId = t
            /\ StateTree.root = t => StateTree.children = NativeThread(t)
<1>1. \A m, format : Rendered(m, format).id = m /\ Rendered(m, format).threadId = messages[m].thread
  BY DEF Rendered
<1>2. {x.id : x \in ThreadView(t, "")} = NativeThread(t)
  BY <1>1 DEF ThreadView, NativeThread
<1>3. ASSUME NEW x \in ThreadView(t, "") PROVE x.threadId = t
  <2>1. PICK m \in InThread(messages, t) : x = Rendered(m, FormatOf(""))
    BY DEF ThreadView
  <2> QED
    BY <1>1, <2>1 DEF InThread
<1>4. ASSUME StateTree.root = t PROVE StateTree.children = NativeThread(t)
  <2>1. threads # <<>>
    <3>1. DOMAIN threads # {}
      OBVIOUS
    <3>2. DOMAIN <<>> = {}
      OBVIOUS
    <3> QED
      BY <3>1, <3>2
  <2>2. StateTree.children =
          {x.id : x \in {y \in StateNodes : y.kind = "message" /\ y.parent = t}}
    BY <1>4, <2>1 DEF StateTree
  <2>3. \A m \in NativeThread(t) : MessageNode(m) \in StateNodes /\ MessageNode(m).kind = "message"
                                   /\ MessageNode(m).parent = t /\ MessageNode(m).id = m
    BY NodeFacts DEF NativeThread, InThread
  <2>4. \A x \in StateNodes : x.kind = "message" /\ x.parent = t => x.id \in NativeThread(t)
    BY NodeFacts DEF NativeThread, InThread
  <2> QED
    BY <2>2, <2>3, <2>4
<1> QED
  BY <1>2, <1>3, <1>4

\* What labels, listings, assertions, state nodes, the profile and the views of
\* a thread say of a mailbox agrees, and each attachment shown can be fetched, in a
\* mailbox where no message took the id of another.
THEOREM ReadsAreOne == Spec => []ReadsAgree
<1>1. MailInv => ReadsAgree
  <2> SUFFICES ASSUME MailInv PROVE ReadsAgree
    OBVIOUS
  <2>1. \A x \in StateNodes : x.kind = "label" => V1Labels[x.id].messagesTotal = x.count
    <3>1. \A l \in LabelIds : V1Labels[l].messagesTotal = Cardinality(Labelled(l))
      BY DEF V1Labels, LabelCounts
    <3> QED
      BY <3>1, NodeFacts
  <2>2. \A m \in DOMAIN messages, asked \in {"", "metadata", "raw"} :
          \A a \in Rendered(m, FormatOf(asked)).parts : collided \/ GetAttachment(m, a)
    <3>1. collided \/ \A m \in DOMAIN messages : messages[m].atts \subseteq attachments
      BY DEF MailInv, CleanInv, Held
    <3>2. \A m, format : Rendered(m, format).parts \subseteq messages[m].atts
      BY DEF Rendered
    <3> QED
      BY <3>1, <3>2 DEF GetAttachment
  <2>3. LabelsExist
    BY DEF MailInv, BoxInv, Linked, LabelsExist, LabelIds
  <2> QED
    BY <2>1, <2>2, <2>3, CountsAgree, NodesAgree, ProfileAgrees, ViewsAgreeOnThread DEF ReadsAgree
<1> QED
  BY <1>1, MailboxInvariant, PTL

-----------------------------------------------------------------------------
(* Searches. *)

LEMMA TokenFacts ==
  ASSUME NEW Arg, NEW q \in Seq([kind : STRING, arg : Arg])
  PROVE  Len(q) \in Nat /\ \A i \in 1..Len(q) : q[i].arg \in Arg
<1> DEFINE Token == [kind : STRING, arg : Arg]
<1>1. q \in Seq(Token) /\ \A x \in Token : x.arg \in Arg
  OBVIOUS
<1> HIDE DEF Token
<1>2. Len(q) \in Nat /\ \A i \in 1..Len(q) : q[i] \in Token
  BY <1>1
<1> QED
  BY <1>1, <1>2

\* Of the tokens of a kind, LastArg takes the last.
LEMMA LastFacts ==
  ASSUME NEW Arg, NEW q \in Seq([kind : STRING, arg : Arg]), NEW kind
  PROVE  \/ LastArg(q, kind) = Anything /\ \A i \in 1..Len(q) : q[i].kind # kind
         \/ \E n \in 1..Len(q) :
              /\ q[n].kind = kind /\ \A j \in (n + 1)..Len(q) : q[j].kind # kind
              /\ LastArg(q, kind) = q[n].arg
<1> DEFINE I == {j \in 1..Len(q) : q[j].kind = kind}
           Last(i) == q[i].kind = kind /\ \A j \in (i + 1)..Len(q) : q[j].kind # kind
<1>1. Args(q, kind) = {q[i].arg : i \in I}
  BY DEF Args
<1>2. CASE I = {}
  <2>1. Args(q, kind) = {}
    BY <1>1, <1>2
  <2> QED
    BY <1>2, <2>1 DEF LastArg
<1>3. CASE I # {}
  <2>1. Args(q, kind) # {}
    BY <1>1, <1>3
  <2>2. Len(q) \in Nat /\ I \in SUBSET Nat /\ \A i \in I : i <= Len(q)
    OBVIOUS
  <2> HIDE DEF I
  <2>3. PICK n \in I : \A i \in I : i <= n
    BY <1>3, <2>2, BoundedHasGreatest
  <2>4. n \in 1..Len(q) /\ Last(n)
    BY <2>2, <2>3 DEF I
  <2>5. LastArg(q, kind) = q[CHOOSE i \in 1..Len(q) : Last(i)].arg
    BY <2>1 DEF LastArg
  <2> HIDE DEF Last
  <2>6. PICK c \in 1..Len(q) : Last(c) /\ c = CHOOSE i \in 1..Len(q) : Last(i)
    BY <2>4
  <2> QED
    BY <2>5, <2>6 DEF Last
<1> QED
  BY <1>2, <1>3

\* A token that asks for one thing decides unless a later one asks for it too.
LEMMA SingleFacts ==
  ASSUME NEW Arg, NEW q \in Seq([kind : STRING, arg : Arg]), Anything \notin Arg,
         NEW kind \in Single, NEW H
  PROVE  /\ LastArg(q, kind) = Anything \/ LastArg(q, kind) \in Arg
         /\ (LastArg(q, kind) = Anything \/ LastArg(q, kind) \in H)
            <=> \A i \in 1..Len(q) : q[i].kind = kind => Overridden(q, i) \/ q[i].arg \in H
<1>1. CASE LastArg(q, kind) = Anything /\ \A i \in 1..Len(q) : q[i].kind # kind
  BY <1>1
<1>2. ASSUME NEW n \in 1..Len(q), q[n].kind = kind,
             \A j \in (n + 1)..Len(q) : q[j].kind # kind, LastArg(q, kind) = q[n].arg
      PROVE  /\ LastArg(q, kind) \in Arg
             /\ (LastArg(q, kind) = Anything \/ LastArg(q, kind) \in H)
                <=> \A i \in 1..Len(q) : q[i].kind = kind => Overridden(q, i) \/ q[i].arg \in H
  <2>1. q[n].arg \in Arg /\ q[n].arg # Anything
    BY TokenFacts
  <2>2. ~Overridden(q, n)
    BY <1>2 DEF Overridden
  <2>3. ASSUME NEW i \in 1..Len(q), q[i].kind = kind PROVE i = n \/ Overridden(q, i)
    <3>1. i <= n
      BY <1>2, <2>3
    <3>2. i < n => n \in (i + 1)..Len(q)
      OBVIOUS
    <3> QED
      BY <1>2, <2>3, <3>1, <3>2 DEF Overridden
  <2> QED
    BY <1>2, <2>1, <2>2, <2>3
<1>3. \/ LastArg(q, kind) = Anything /\ \A i \in 1..Len(q) : q[i].kind # kind
      \/ \E n \in 1..Len(q) :
           /\ q[n].kind = kind /\ \A j \in (n + 1)..Len(q) : q[j].kind # kind
           /\ LastArg(q, kind) = q[n].arg
  BY LastFacts
<1> QED
  BY <1>1, <1>2, <1>3

\* Every search finds the messages of which each of its tokens is true, except
\* those that a later token of the same kind sets aside.
THEOREM SearchMeansTokens ==
  ASSUME NEW Arg, NEW q \in Seq([kind : STRING, arg : Arg]), Anything \notin Arg, NEW m
  PROVE  Matches(m, ParseQuery(q)) <=>
           \A i \in 1..Len(q) : Overridden(q, i) \/ Says(q[i], m)
<1> DEFINE f == ParseQuery(q)
           All(kind) == \A i \in 1..Len(q) : q[i].kind = kind => Overridden(q, i) \/ Says(q[i], m)
<1>1. /\ f.include = Args(q, "in") /\ f.exclude = Args(q, "-label")
      /\ f.after = LastArg(q, "after") /\ f.before = LastArg(q, "before")
      /\ f.subject = LastArg(q, "subject")
  BY DEF ParseQuery
<1>2. f.include \subseteq m.labels <=> All("in")
  BY <1>1 DEF Args, Says, Overridden, Single
<1>3. f.exclude \cap m.labels = {} <=> All("-label")
  BY <1>1 DEF Args, Says, Overridden, Single
<1>4. (f.after = Anything \/ m.date >= f.after) <=> All("after")
  <2> DEFINE H == {a \in Arg : m.date >= a}
  <2>1. \A i \in 1..Len(q) : q[i].arg \in Arg
    BY TokenFacts
  <2>2. /\ LastArg(q, "after") = Anything \/ LastArg(q, "after") \in Arg
        /\ (LastArg(q, "after") = Anything \/ LastArg(q, "after") \in H)
           <=> \A i \in 1..Len(q) : q[i].kind = "after" => Overridden(q, i) \/ q[i].arg \in H
    <3>1. "after" \in Single
      BY DEF Single
    <3> HIDE DEF H
    <3> QED
      BY <3>1, SingleFacts
  <2> QED
    BY <1>1, <2>1, <2>2 DEF Says
<1>5. (f.before = Anything \/ m.date < f.before) <=> All("before")
  <2> DEFINE H == {a \in Arg : m.date < a}
  <2>1. \A i \in 1..Len(q) : q[i].arg \in Arg
    BY TokenFacts
  <2>2. /\ LastArg(q, "before") = Anything \/ LastArg(q, "before") \in Arg
        /\ (LastArg(q, "before") = Anything \/ LastArg(q, "before") \in H)
           <=> \A i \in 1..Len(q) : q[i].kind = "before" => Overridden(q, i) \/ q[i].arg \in H
    <3>1. "before" \in Single
      BY DEF Single
    <3> HIDE DEF H
    <3> QED
      BY <3>1, SingleFacts
  <2> QED
    BY <1>1, <2>1, <2>2 DEF Says
<1>6. (f.subject = Anything \/ m.subject = f.subject) <=> All("subject")
  <2> DEFINE H == {a \in Arg : m.subject = a}
  <2>1. \A i \in 1..Len(q) : q[i].arg \in Arg
    BY TokenFacts
  <2>2. /\ LastArg(q, "subject") = Anything \/ LastArg(q, "subject") \in Arg
        /\ (LastArg(q, "subject") = Anything \/ LastArg(q, "subject") \in H)
           <=> \A i \in 1..Len(q) : q[i].kind = "subject" => Overridden(q, i) \/ q[i].arg \in H
    <3>1. "subject" \in Single
      BY DEF Single
    <3> HIDE DEF H
    <3> QED
      BY <3>1, SingleFacts
  <2> QED
    BY <1>1, <2>1, <2>2 DEF Says
<1>7. (\A i \in 1..Len(q) : Overridden(q, i) \/ Says(q[i], m)) <=>
        All("in") /\ All("-label") /\ All("after") /\ All("before") /\ All("subject")
  BY DEF Says
<1> QED
  BY <1>1, <1>2, <1>3, <1>4, <1>5, <1>6, <1>7 DEF Matches

-----------------------------------------------------------------------------
(* Dates of searches. *)

\* Leap years from 1 to n.
LeapsUpTo(n) == n \div 4 - n \div 100 + n \div 400

LEMMA LeapsCount ==
  ASSUME NEW n \in Nat
  PROVE  LeapsUpTo(n + 1) = LeapsUpTo(n) + IF Leap(n + 1) THEN 1 ELSE 0
<1>1. (n + 1) \div 4 = n \div 4 + IF (n + 1) % 4 = 0 THEN 1 ELSE 0
  OBVIOUS
<1>2. (n + 1) \div 100 = n \div 100 + IF (n + 1) % 100 = 0 THEN 1 ELSE 0
  OBVIOUS
<1>3. (n + 1) \div 400 = n \div 400 + IF (n + 1) % 400 = 0 THEN 1 ELSE 0
  OBVIOUS
<1>4. ((n + 1) % 400 = 0 => (n + 1) % 100 = 0) /\ ((n + 1) % 100 = 0 => (n + 1) % 4 = 0)
  OBVIOUS
<1> QED
  BY <1>1, <1>2, <1>3, <1>4 DEF LeapsUpTo, Leap

\* Counting the leap years since 1970 gives the closed form.
LEMMA LeapYears ==
  ASSUME NEW year \in Nat, year >= 1970
  PROVE  Cardinality({y \in 1970..(year - 1) : Leap(y)}) = LeapsUpTo(year - 1) - LeapsUpTo(1969)
<1> DEFINE Years(k) == {y \in 1970..(1969 + k) : Leap(y)}
           Good(k) == /\ IsFiniteSet(Years(k))
                      /\ Cardinality(Years(k)) = LeapsUpTo(1969 + k) - LeapsUpTo(1969)
           C == {k \in Nat : ~Good(k)}
<1>1. Good(0)
  <2>1. Years(0) = {}
    OBVIOUS
  <2>2. LeapsUpTo(1969 + 0) - LeapsUpTo(1969) = 0
    BY DEF LeapsUpTo
  <2> QED
    BY <2>1, <2>2, FS_EmptySet
<1>2. ASSUME NEW k \in Nat, Good(k) PROVE Good(k + 1)
  <2> DEFINE z == 1970 + k
  <2>1. LeapsUpTo(1969 + (k + 1)) = LeapsUpTo(1969 + k) + IF Leap(z) THEN 1 ELSE 0
    <3>1. 1969 + k \in Nat /\ (1969 + k) + 1 = z /\ 1969 + (k + 1) = z
      OBVIOUS
    <3> HIDE DEF z
    <3> QED
      BY <3>1, LeapsCount
  <2>2. Years(k + 1) = IF Leap(z) THEN Years(k) \cup {z} ELSE Years(k)
    <3>1. \A y : y \in 1970..(1969 + (k + 1)) <=> y \in 1970..(1969 + k) \/ y = z
      OBVIOUS
    <3> QED
      BY <3>1
  <2>3. z \notin Years(k)
    OBVIOUS
  <2>4. LeapsUpTo(1969 + k) - LeapsUpTo(1969) \in Int
    BY DEF LeapsUpTo
  <2>5. Cardinality(Years(k)) \in Nat
    BY <1>2, FS_CardinalityType
  <2>6. LeapsUpTo(1969 + k) \in Int /\ LeapsUpTo(1969) \in Int
    BY DEF LeapsUpTo
  <2> HIDE DEF Years, z
  <2>7. CASE Leap(z)
    <3>1. /\ IsFiniteSet(Years(k + 1))
          /\ Cardinality(Years(k + 1)) = Cardinality(Years(k)) + 1
      BY <1>2, <2>2, <2>3, <2>7, FS_AddElement
    <3> QED
      BY <1>2, <2>1, <2>5, <2>6, <2>7, <3>1
  <2>8. CASE ~Leap(z)
    BY <1>2, <2>1, <2>2, <2>6, <2>8
  <2> QED
    BY <2>7, <2>8
<1> HIDE DEF Good
<1>3. C = {}
  <2> SUFFICES ASSUME C # {} PROVE FALSE
    OBVIOUS
  <2>1. C \in SUBSET Nat
    OBVIOUS
  <2> HIDE DEF C
  <2>2. PICK c \in C : \A d \in C : ~(d < c)
    BY <2>1, NatHasLeast
  <2> USE DEF C
  <2>3. c \in Nat /\ ~Good(c) /\ c # 0
    BY <1>1
  <2>4. c - 1 \in Nat /\ (c - 1) + 1 = c /\ c - 1 < c
    BY <2>3
  <2>5. Good(c - 1)
    BY <2>2, <2>4
  <2> QED
    BY <1>2, <2>3, <2>4, <2>5
<1>4. Good(year - 1970)
  BY <1>3
<1>5. 1969 + (year - 1970) = year - 1
  OBVIOUS
<1> QED
  BY <1>4, <1>5 DEF Good

LEMMA MonthLengths ==
  ASSUME NEW y, NEW m \in 1..12
  PROVE  /\ MonthLength(y, m) = IF m \in {4, 6, 9, 11} THEN 30
                                ELSE IF m = 2 THEN IF Leap(y) THEN 29 ELSE 28
                                ELSE 31
         /\ MonthLength(y, m) \in 1..31
<1>1. CASE m \in {4, 6, 9, 11}
  BY <1>1 DEF MonthLength
<1>2. CASE m = 2 /\ Leap(y)
  BY <1>2 DEF MonthLength
<1>3. CASE m = 2 /\ ~Leap(y)
  BY <1>3 DEF MonthLength
<1>4. CASE m \notin {2, 4, 6, 9, 11}
  BY <1>4 DEF MonthLength
<1> QED
  BY <1>1, <1>2, <1>3, <1>4

\* The days of the first m months.
MonthDays(y, m) == {md \in (1..m) \X (1..31) : md[2] <= MonthLength(y, md[1])}

LEMMA MonthAfterMonth ==
  ASSUME NEW y, NEW m \in 0..11, IsFiniteSet(MonthDays(y, m))
  PROVE  /\ IsFiniteSet(MonthDays(y, m + 1))
         /\ Cardinality(MonthDays(y, m + 1)) =
              Cardinality(MonthDays(y, m)) + MonthLength(y, m + 1)
<1> DEFINE n == MonthLength(y, m + 1)
           T == {<<m + 1, d>> : d \in 1..n}
           f == [d \in 1..n |-> <<m + 1, d>>]
<1>1. n \in 1..31 /\ n \in Nat
  BY MonthLengths
<1>2. f \in Bijection(1..n, T)
  <2>1. f \in [1..n -> T] /\ \A t \in T : \E d \in 1..n : f[d] = t
    OBVIOUS
  <2>2. \A c, d \in 1..n : f[c] = f[d] => c = d
    OBVIOUS
  <2> QED
    BY <2>1, <2>2 DEF Bijection, Injection, Surjection, IsInjective
<1>3. IsFiniteSet(T) /\ Cardinality(T) = n
  <2>1. ExistsBijection(1..n, T)
    BY <1>2 DEF ExistsBijection
  <2> QED
    BY <1>1, <2>1, FS_CountingElements, FS_NatBijection
<1>4. MonthDays(y, m + 1) = MonthDays(y, m) \cup T
  <2>1. ASSUME NEW a \in 1..(m + 1), NEW d \in 1..31
        PROVE  <<a, d>> \in MonthDays(y, m + 1) <=> <<a, d>> \in MonthDays(y, m) \cup T
    <3>1. a \in 1..m \/ a = m + 1
      OBVIOUS
    <3>2. <<a, d>> \in MonthDays(y, m + 1) <=> d <= MonthLength(y, a)
      BY DEF MonthDays
    <3>3. <<a, d>> \in MonthDays(y, m) <=> a \in 1..m /\ d <= MonthLength(y, a)
      BY DEF MonthDays
    <3>4. <<a, d>> \in T <=> a = m + 1 /\ d <= n
      BY <1>1
    <3> QED
      BY <3>1, <3>2, <3>3, <3>4
  <2>2. ASSUME NEW x \in MonthDays(y, m + 1) PROVE x \in MonthDays(y, m) \cup T
    <3>1. PICK a \in 1..(m + 1), d \in 1..31 : x = <<a, d>>
      BY <2>2 DEF MonthDays
    <3> QED
      BY <2>1, <2>2, <3>1
  <2>3. ASSUME NEW x \in MonthDays(y, m) \cup T PROVE x \in MonthDays(y, m + 1)
    <3>1. PICK a \in 1..(m + 1), d \in 1..31 : x = <<a, d>>
      BY <1>1, <2>3 DEF MonthDays
    <3> QED
      BY <2>1, <2>3, <3>1
  <2> QED
    BY <2>2, <2>3
<1>5. MonthDays(y, m) \cap T = {}
  BY DEF MonthDays
<1>6. Cardinality(MonthDays(y, m)) \in Nat /\ Cardinality({}) = 0
  BY FS_CardinalityType, FS_EmptySet
<1> HIDE DEF T, n
<1> QED
  BY <1>1, <1>3, <1>4, <1>5, <1>6, FS_Union DEF n

LEMMA NoMonthDays ==
  ASSUME NEW y
  PROVE  IsFiniteSet(MonthDays(y, 0)) /\ Cardinality(MonthDays(y, 0)) = 0
<1>1. MonthDays(y, 0) = {}
  BY DEF MonthDays
<1> QED
  BY <1>1, FS_EmptySet

\* The days before each month, in a table.
LEMMA MonthTable ==
  ASSUME NEW y
  PROVE  LET Days(m) == Cardinality(MonthDays(y, m))
             feb == IF Leap(y) THEN 29 ELSE 28
         IN /\ Days(0) = 0           /\ Days(1) = 31          /\ Days(2) = 31 + feb
            /\ Days(3) = 62 + feb    /\ Days(4) = 92 + feb    /\ Days(5) = 123 + feb
            /\ Days(6) = 153 + feb   /\ Days(7) = 184 + feb   /\ Days(8) = 215 + feb
            /\ Days(9) = 245 + feb   /\ Days(10) = 276 + feb  /\ Days(11) = 306 + feb
<1> DEFINE Days(m) == Cardinality(MonthDays(y, m))
           Fin(m) == IsFiniteSet(MonthDays(y, m))
           feb == IF Leap(y) THEN 29 ELSE 28
<1>1. \A m \in 0..11 : Fin(m) => Fin(m + 1) /\ Days(m + 1) = Days(m) + MonthLength(y, m + 1)
  BY MonthAfterMonth
<1>2. Fin(0) /\ Days(0) = 0
  BY NoMonthDays
<1>3. /\ \A m \in {1, 3, 5, 7, 8, 10} : MonthLength(y, m) = 31
      /\ \A m \in {4, 6, 9, 11} : MonthLength(y, m) = 30
      /\ MonthLength(y, 2) = feb
  BY MonthLengths
<1> HIDE DEF Days, Fin, feb
<1>4. feb \in Int
  BY DEF feb
<1>5. Fin(1) /\ Days(1) = 31
  BY <1>1, <1>2, <1>3
<1>6. Fin(2) /\ Days(2) = 31 + feb
  BY <1>1, <1>3, <1>4, <1>5
<1>7. Fin(3) /\ Days(3) = 62 + feb
  BY <1>1, <1>3, <1>4, <1>6
<1>8. Fin(4) /\ Days(4) = 92 + feb
  BY <1>1, <1>3, <1>4, <1>7
<1>9. Fin(5) /\ Days(5) = 123 + feb
  BY <1>1, <1>3, <1>4, <1>8
<1>10. Fin(6) /\ Days(6) = 153 + feb
  BY <1>1, <1>3, <1>4, <1>9
<1>11. Fin(7) /\ Days(7) = 184 + feb
  BY <1>1, <1>3, <1>4, <1>10
<1>12. Fin(8) /\ Days(8) = 215 + feb
  BY <1>1, <1>3, <1>4, <1>11
<1>13. Fin(9) /\ Days(9) = 245 + feb
  BY <1>1, <1>3, <1>4, <1>12
<1>14. Fin(10) /\ Days(10) = 276 + feb
  BY <1>1, <1>3, <1>4, <1>13
<1>15. Fin(11) /\ Days(11) = 306 + feb
  BY <1>1, <1>3, <1>4, <1>14
<1> QED
  BY <1>2, <1>5, <1>6, <1>7, <1>8, <1>9, <1>10, <1>11, <1>12, <1>13, <1>14, <1>15
     DEF Days, feb

\* The formula's day of the year, and its days of the years before.
ByEras(y, k) ==
  (y \div 400) * 146097
    + ((y % 400) * 365 + (y % 400) \div 4 - (y % 400) \div 100 + k) - 719468

LEMMA YearFormula ==
  ASSUME NEW y \in Nat, NEW k \in Int
  PROVE  ByEras(y, k) = 365 * y + LeapsUpTo(y) + k - 719468
<1>1. y = 400 * (y \div 400) + (y % 400) /\ y \div 400 \in Nat /\ y % 400 \in 0..399
  OBVIOUS
<1>2. y \div 4 = 100 * (y \div 400) + (y % 400) \div 4
  BY <1>1
<1>3. y \div 100 = 4 * (y \div 400) + (y % 400) \div 100
  BY <1>1
<1> QED
  BY <1>1, <1>2, <1>3 DEF LeapsUpTo, ByEras

\* What parse_date_to_ms computes is the number of days since 1970-01-01, for
\* every year that it accepts, and for days past the end of a month, too.
THEOREM DatesCountDays ==
  ASSUME NEW year \in Nat, year >= 1970, NEW month \in 1..12, NEW day \in Int
  PROVE  DateToDays(year, month, day) = DaysBefore(year, month) + day - 1
<1> DEFINE feb == IF Leap(year) THEN 29 ELSE 28
           D == Cardinality(MonthDays(year, month - 1))
<1>1. feb \in {28, 29}
  OBVIOUS
<1>2. DaysBefore(year, month) = 365 * (year - 1970) + (LeapsUpTo(year - 1) - 477) + D
  <2>1. LeapsUpTo(1969) = 477
    BY DEF LeapsUpTo
  <2>2. DaysBefore(year, month) =
          365 * (year - 1970) + Cardinality({y \in 1970..(year - 1) : Leap(y)}) + D
    BY DEF DaysBefore, MonthDays
  <2> QED
    BY <2>1, <2>2, LeapYears
<1>3. LeapsUpTo(year) = LeapsUpTo(year - 1) + (feb - 28)
  <2>1. year - 1 \in Nat /\ (year - 1) + 1 = year
    OBVIOUS
  <2>2. LeapsUpTo(year) = LeapsUpTo(year - 1) + IF Leap(year) THEN 1 ELSE 0
    BY <2>1, LeapsCount
  <2>3. LeapsUpTo(year - 1) \in Int
    BY DEF LeapsUpTo
  <2> HIDE DEF D
  <2> QED
    BY <2>2, <2>3
<1>4. LeapsUpTo(year) \in Int /\ LeapsUpTo(year - 1) \in Int
  BY DEF LeapsUpTo
<1>5. month <= 2 => D = 31 * (month - 1)
  BY MonthTable
<1>6. month > 2 => D = (153 * (month - 3) + 2) \div 5 + 31 + feb
  BY MonthTable
<1> HIDE DEF D, feb
<1>7. CASE month <= 2
  <2> DEFINE z == year - 1
             k == (153 * (month + 9) + 2) \div 5 + day - 1
  <2>1. z \in Nat /\ z = year - 1 /\ k \in Int
    BY <1>7
  <2>2. k = 306 + D + day - 1
    BY <1>5, <1>7
  <2>3. DateToDays(year, month, day) = ByEras(z, k)
    BY <1>7 DEF DateToDays, ByEras
  <2> HIDE DEF z, k
  <2>4. DateToDays(year, month, day) = 365 * z + LeapsUpTo(z) + k - 719468
    BY <2>1, <2>3, YearFormula
  <2>5. DateToDays(year, month, day) = 365 * (year - 1) + LeapsUpTo(year - 1) + k - 719468
    BY <2>1, <2>4
  <2>6. D \in Int
    BY <1>5, <1>7
  <2> QED
    BY <1>2, <1>4, <2>1, <2>2, <2>5, <2>6
<1>8. CASE month > 2
  <2> DEFINE k == (153 * (month - 3) + 2) \div 5 + day - 1
  <2>1. k \in Int /\ D \in Int
    BY <1>1, <1>6, <1>8
  <2>2. k = D - 31 - feb + day - 1
    BY <1>1, <1>6, <1>8
  <2>3. DateToDays(year, month, day) = ByEras(year, k)
    BY <1>8 DEF DateToDays, ByEras
  <2> HIDE DEF k
  <2>4. DateToDays(year, month, day) = 365 * year + LeapsUpTo(year) + k - 719468
    BY <2>1, <2>3, YearFormula
  <2> QED
    BY <1>1, <1>2, <1>3, <1>4, <2>1, <2>2, <2>4
<1> QED
  BY <1>7, <1>8

\* A search finds the messages of which every token is true, and the dates of its
\* tokens are the days that they name, in every state and for every query.
THEOREM SearchesAreExact == Spec => []QueryMeansTokens
<1>1. QueryMeansTokens
  <2>1. ASSUME NEW q \in Query, NEW m \in DOMAIN messages
        PROVE  Matches(messages[m], ParseQuery(q)) =
                 \A i \in 1..Len(q) : Overridden(q, i) \/ Says(q[i], messages[m])
    <3>1. q \in Seq([kind : STRING, arg : TokenArg]) /\ Anything \notin TokenArg
      BY <2>1, QueryAssumption
    <3>2. Matches(messages[m], ParseQuery(q)) <=>
            \A i \in 1..Len(q) : Overridden(q, i) \/ Says(q[i], messages[m])
      BY <3>1, SearchMeansTokens
    <3>3. Matches(messages[m], ParseQuery(q)) \in BOOLEAN
      BY DEF Matches
    <3> QED
      BY <3>2, <3>3
  <2>2. ASSUME NEW y \in 1970..1973 \cup {1999, 2000, 2001, 2024, 2100, 2101},
               NEW n \in 1..12, NEW d \in 1..31
        PROVE  DateToDays(y, n, d) = DaysBefore(y, n) + d - 1
    <3>1. y \in Nat /\ y >= 1970 /\ d \in Int
      OBVIOUS
    <3> QED
      BY <3>1, DatesCountDays
  <2>3. Calendar
    BY <2>2 DEF Calendar
  <2> QED
    BY <2>1, <2>3, Zenon DEF QueryMeansTokens
<1> QED
  BY <1>1, PTL
=============================================================================
