------------------------------- MODULE GmailApi -------------------------------
(***************************************************************************)
(* The Gmail twin behind its routes: the requests that the native routes,  *)
(* the v1 routes and a scenario's timeline make of the mailbox, what its   *)
(* reads answer, and a client that pages through a listing while others    *)
(* change the mailbox.  Every handler takes the runtime mutex once, so     *)
(* what a client sees torn is what it reads with several requests.         *)
(***************************************************************************)
EXTENDS GmailMailbox, GmailQuery, Discovery

CONSTANTS
  ClientLabel,  \* label ids that clients use, whether or not there is such a label
  Listing,      \* the listings that clients page through
  MaxResults,   \* the page sizes they ask for
  Query,        \* the searches tried on every message
  UsePartial,   \* bound: do requests go on after a seed that failed?
  SeedSet       \* what seeded messages are tried: a set of argument records

ASSUME ClientAssumption == ClientLabel \subseteq SystemLabel \cup Int /\ MaxResults \subseteq Nat

\* What a scenario can say of a message.
ASSUME SeedAssumption ==
  SeedSet \subseteq [id : SeedMsg \cup {None}, thread : Int \cup {None}, subject : Subject,
                   labels : SUBSET (SystemLabel \cup Int), date : Nat \cup {None},
                   named : SUBSET SeedAtt, unnamed : Nat]

\* What inspect_node answers is told from no answer.
ASSUME NoneAssumption == None \notin [parent : Int \cup {None}, count : Nat]

\* What a token names, dates and the numbers of labels among it: all of it is
\* told from an argument that no token gives.
TokenArg == SystemLabel \cup Subject \cup Int \cup {None}
ASSUME QueryAssumption ==
  Query \subseteq Seq([kind : STRING, arg : TokenArg]) /\ Anything \notin TokenArg

VARIABLE pager  \* a client in the middle of a listing

vars == <<mailVars, pager>>

-----------------------------------------------------------------------------
(* Requests that change the mailbox. *)

\* Clients relabel with one label at a time, one that labels.list shows or any other.
LabelChoice == {{}} \cup {{l} : l \in ClientLabel \cup UserLabels}
SomeThread == DOMAIN threads \cup {None}

V1MessageRequest ==
  \/ \E t \in SomeThread, s \in Subject : SendMessage(t, s)
  \/ \E t \in SomeThread, s \in Subject, ls \in LabelChoice, d \in Date \cup {None} :
       InsertMessage(t, s, ls, d)
  \/ \E m \in DOMAIN messages, add, rem \in LabelChoice : ModifyMessage(m, add, rem)
  \/ \E m \in DOMAIN messages : TrashMessage(m)
  \/ \E m \in DOMAIN messages : UntrashMessage(m)
  \/ \E m \in DOMAIN messages : DeleteMessage(m)

V1ThreadRequest ==
  \/ \E t \in DOMAIN threads, add, rem \in LabelChoice : ModifyThread(t, add, rem)
  \/ \E t \in DOMAIN threads : TrashThread(t)
  \/ \E t \in DOMAIN threads : UntrashThread(t)
  \/ \E t \in DOMAIN threads : DeleteThread(t)

V1LabelRequest ==
  \/ \E n \in Name : CreateLabel(n)
  \/ \E l \in LabelIds, n \in Name : UpdateLabel(l, n)
  \/ \E l \in LabelIds : DeleteLabel(l)

NativeRequest ==
  \/ \E t \in SomeThread, s \in Subject : SendMessage(t, s)
  \/ \E m \in DOMAIN messages : DeleteMessage(m)
  \/ \E m \in DOMAIN messages, add, rem \in LabelChoice : ModifyMessage(m, add, rem)
  \/ \E n \in Name : CreateLabel(n)
  \/ \E l \in LabelIds : DeleteLabel(l)

TimelineAction ==
  \/ \E t \in SomeThread, s \in Subject : SendMessage(t, s)
  \/ \E m \in DOMAIN messages, add, rem \in LabelChoice : ModifyMessage(m, add, rem)
  \/ \E m \in DOMAIN messages : TrashMessage(m)
  \/ \E m \in DOMAIN messages : DeleteMessage(m)
  \/ \E n \in Name : CreateLabel(n)
  \/ \E l \in LabelIds : DeleteLabel(l)

Seeding ==
  \/ \E given \in UNION {[S -> Name] : S \in SUBSET SeedLabel} : SeedBegin(given)
  \/ \E x \in SeedSet :
       SeedMessage(x.id, x.thread, x.subject, x.labels, x.date, x.named, x.unnamed)
  \/ \E x \in SeedSet : SeedRefused(x.id, x.thread, x.subject, x.named)
  \/ SeedEnd

Request ==
  \/ V1MessageRequest \/ V1ThreadRequest \/ V1LabelRequest
  \/ NativeRequest \/ TimelineAction

Change ==
  \/ (partial => UsePartial) /\ Request
  \/ Seeding \/ Reset \/ Snapshot \/ Restore

-----------------------------------------------------------------------------
(* Reads. *)

\* messages.get, threads.get, attachments.get: whether they answer.
GetMessage(m) == m \in DOMAIN messages
GetThread(t) == t \in DOMAIN threads
GetAttachment(m, a) ==
  m \in DOMAIN messages /\ a \in messages[m].atts /\ a \in attachments

\* MessageFormat::from_str
FormatOf(asked) ==
  CASE asked \in {"metadata", "minimal"} -> asked
    [] asked = "raw"                     -> "minimal"
    [] OTHER                             -> "full"

\* gmail_message_to_v1: the parts of a message that a client has to fetch.
Rendered(m, format) ==
  [id |-> m, threadId |-> messages[m].thread,
   parts |-> IF format = "minimal" THEN {} ELSE messages[m].atts]

\* threads.get: all messages, each in the format asked for.
ThreadView(t, asked) == {Rendered(m, FormatOf(asked)) : m \in InThread(messages, t)}

\* The native routes read without a format.
NativeThread(t) == InThread(messages, t)

Labelled(l) == {m \in DOMAIN messages : l \in messages[m].labels}
Unread(S) == {m \in S : UNREAD \in messages[m].labels}
ThreadsOf(S) == {messages[m].thread : m \in S}

\* labels.get: how many messages and threads carry a label, unread ones too.

\* Mutant: a thread is counted once for every message.
LabelCountsByMessage(l) ==
  [messagesTotal  |-> Cardinality(Labelled(l)),
   messagesUnread |-> Cardinality(Unread(Labelled(l))),
   threadsTotal   |-> Cardinality(Labelled(l)),
   threadsUnread  |-> Cardinality(Unread(Labelled(l)))]

LabelCounts(l) ==
  [messagesTotal  |-> Cardinality(Labelled(l)),
   messagesUnread |-> Cardinality(Unread(Labelled(l))),
   threadsTotal   |-> Cardinality(ThreadsOf(Labelled(l))),
   threadsUnread  |-> Cardinality(ThreadsOf(Unread(Labelled(l))))]

\* labels.list
V1Labels == [l \in LabelIds |-> LabelCounts(l)]

\* inspect_state: threads, their messages, and the labels.
StateNodes ==
  {[kind |-> "thread", id |-> t, parent |-> None,
    count |-> Cardinality(InThread(messages, t))] : t \in DOMAIN threads}
  \cup {[kind |-> "message", id |-> m, parent |-> messages[m].thread, count |-> 0] :
          m \in DOMAIN messages}
  \cup {[kind |-> "label", id |-> l, parent |-> None,
         count |-> Cardinality(Labelled(l))] : l \in LabelIds}

\* inspect_node: a thread, else a message, else a label has the id asked for.
InspectNode(kind, id) ==
  CASE kind = "thread" /\ id \in DOMAIN threads ->
         [parent |-> None, count |-> Cardinality(InThread(messages, id))]
    [] kind = "message" /\ id \in DOMAIN messages ->
         [parent |-> messages[id].thread, count |-> 0]
    [] kind = "label" /\ id \in LabelIds ->
         [parent |-> None, count |-> Cardinality(Labelled(id))]
    [] OTHER -> None

\* si_route_tree: the first node without a parent, which is a thread if there is
\* one, and what is below it; the other threads and the labels are not shown.
StateTree ==
  IF threads = <<>> THEN [root |-> None, children |-> {}]
  ELSE LET first == CHOOSE t \in DOMAIN threads : \A u \in DOMAIN threads : t <= u
       IN [root |-> first,
           children |-> {x.id : x \in {y \in StateNodes : y.kind = "message" /\ y.parent = first}}]

\* users.getProfile
Profile == [messagesTotal |-> Cardinality(DOMAIN messages),
            threadsTotal |-> Cardinality(DOMAIN threads), historyId |-> nextHistory]

\* evaluate_assertion; the message of the third and the last is known.
Asserted(check) ==
  CASE check.type = "message_exists"       -> check.id \in DOMAIN messages
    [] check.type = "message_has_label"    -> check.label \in messages[check.id].labels
    [] check.type = "message_not_has_label"-> check.label \notin messages[check.id].labels
    [] check.type = "label_exists"         -> check.label \in LabelIds
    [] check.type = "thread_message_count" ->
         Cardinality(InThread(messages, check.id)) = check.count
    [] check.type = "message_in_trash"     -> TRASH \in messages[check.id].labels

-----------------------------------------------------------------------------
(* Listings.  A listing is [kind, labels, q]: labelIds and q of the query. *)

ListedMessages(l) ==
  {m \in DOMAIN messages : l.labels \subseteq messages[m].labels
                           /\ Matches(messages[m], ParseQuery(l.q))}

\* Without labels every thread is listed, else those of a labelled message.
ListedThreads(l) ==
  IF l.labels = {} THEN DOMAIN threads
  ELSE ThreadsOf({m \in DOMAIN messages : l.labels \subseteq messages[m].labels})

Listed(l) == IF l.kind = "messages" THEN ListedMessages(l) ELSE ListedThreads(l)

\* Messages go by date, threads by history id, the highest first; the sort is
\* stable, so equals stay in the order of their keys.
Key(l, i) ==
  IF l.kind = "messages" THEN messages[i].date
  ELSE IF i \in DOMAIN threads THEN threads[i].history ELSE 0

Before(l, i, j) == Key(l, i) > Key(l, j) \/ (Key(l, i) = Key(l, j) /\ i < j)

Rank(l, i) == Cardinality({j \in Listed(l) : Before(l, j, i)})

Limit(n) == IF n = 0 THEN 1 ELSE IF n > 500 THEN 500 ELSE n

\* The page at an offset; a thread that is gone is dropped from it.
Page(l, offset, n) ==
  {i \in Listed(l) : Rank(l, i) \in offset..(offset + Limit(n) - 1)
                     /\ (l.kind = "threads" => i \in DOMAIN threads)}

\* The offset in nextPageToken, None when there is no token.
NextOffset(l, offset, n) ==
  LET next == offset + Cardinality(Page(l, offset, n))
  IN IF next < Cardinality(Listed(l)) THEN next ELSE None

NoListing == [kind |-> "none", labels |-> {}, q |-> <<>>]

\* seen: what the pages showed; kept: what has been in the listing, in the same
\* place of the order, since the first page; moved: did anything leave the
\* listing or fall back in it?
Idle == [listing |-> NoListing, size |-> 0, next |-> None,
         seen |-> {}, kept |-> {}, moved |-> FALSE]

Paging == pager.listing # NoListing

ListFirst(l, n) ==
  /\ lock = "free" /\ ~Paging
  /\ NextOffset(l, 0, n) # None
  /\ pager' = [listing |-> l, size |-> n, next |-> NextOffset(l, 0, n),
               seen |-> Page(l, 0, n), kept |-> Listed(l), moved |-> FALSE]
  /\ UNCHANGED mailVars

\* Mutant: the token counts pages.
ListNextPageNumber ==
  LET shown == Page(pager.listing, pager.next, pager.size)
      next == NextOffset(pager.listing, pager.next, pager.size)
  IN /\ lock = "free" /\ Paging
     /\ pager' = IF next = None THEN Idle
                 ELSE [pager EXCEPT !.next = next + 1, !.seen = @ \cup shown]
     /\ UNCHANGED mailVars

ListNext ==
  LET shown == Page(pager.listing, pager.next, pager.size)
      next == NextOffset(pager.listing, pager.next, pager.size)
  IN /\ lock = "free" /\ Paging
     /\ pager' = IF next = None THEN Idle
                 ELSE [pager EXCEPT !.next = next, !.seen = @ \cup shown]
     /\ UNCHANGED mailVars

\* What a change means to the listing in progress.
Watch ==
  \E l \in {pager.listing} :
    LET left == {i \in Listed(l) : i \notin Listed(l)' \/ Key(l, i)' < Key(l, i)}
        same == {i \in pager.kept : i \in Listed(l)' /\ Key(l, i)' = Key(l, i)}
    IN pager' = IF Paging THEN [pager EXCEPT !.kept = same, !.moved = @ \/ left # {}]
                ELSE pager

-----------------------------------------------------------------------------
(* The specification. *)

Init == MailInit /\ pager = Idle

Next ==
  \/ Change /\ Watch
  \/ \E l \in Listing, n \in MaxResults : ListFirst(l, n)
  \/ ListNext

Spec == Init /\ [][Next]_vars

-----------------------------------------------------------------------------
(* Properties. *)

\* The shape of the mailbox, and of a listing in progress.
TypeOK ==
  /\ MailTypeOK
  /\ pager.listing \in Listing \cup {NoListing}
  /\ Paging => pager.next \in Nat /\ pager.size \in MaxResults

\* A client that pages to the end misses nothing that stayed where it was,
\* whatever was added or moved up meanwhile, unless something left the listing
\* or fell back in it: the token is an offset into a list that moves.
PagesMissNothing ==
  [][Paging /\ pager' = Idle =>
       \/ pager.moved
       \/ pager.kept \subseteq
            pager.seen \cup Page(pager.listing, pager.next, pager.size)]_vars

\* Every page takes the client further, so that paging ends: a page is never
\* empty while its token promises another, as it would be if a message were
\* listed under a thread that is gone.
PagesAdvance ==
  LET next == NextOffset(pager.listing, pager.next, pager.size)
  IN Paging => next = None \/ next > pager.next

\* The reads agree with each other: labels.get knows every label of a message that
\* was there when it was put on one, and what it counts is what listing by that
\* label finds and a scenario's assertions see; every node of the state leads to the
\* thread that holds it; the threads hold the messages that the profile counts; and
\* every attachment that a message shows can be fetched, unless a message was given
\* an id that was taken.
ReadsAgree ==
  /\ LabelsExist
  /\ \A l \in LabelIds :
       LET by(kind) == Listed([kind |-> kind, labels |-> {l}, q |-> <<>>])
       IN /\ LabelCounts(l).messagesTotal = Cardinality(by("messages"))
          /\ LabelCounts(l).threadsTotal = Cardinality(by("threads"))
          /\ LabelCounts(l).threadsUnread <= LabelCounts(l).messagesUnread
          /\ \A t \in by("threads") : GetThread(t)
          /\ \A m \in DOMAIN messages :
               Asserted([type |-> "message_has_label", id |-> m, label |-> l])
                 = (m \in by("messages"))
  /\ \A x \in StateNodes : x.parent # None =>
       LET node == InspectNode("thread", x.parent)
       IN /\ node # None
          /\ Asserted([type |-> "thread_message_count", id |-> x.parent, count |-> node.count])
  /\ Profile.messagesTotal =
       Cardinality({x \in StateNodes : x.kind = "message" /\ GetMessage(x.id)
                                       /\ GetThread(x.parent)})
  /\ \A t \in DOMAIN threads :
       LET view == ThreadView(t, "")
       IN /\ {x.id : x \in view} = NativeThread(t) /\ \A x \in view : x.threadId = t
          /\ StateTree.root = t => StateTree.children = NativeThread(t)
  /\ \A x \in StateNodes : x.kind = "label" => V1Labels[x.id].messagesTotal = x.count
  /\ \A m \in DOMAIN messages, asked \in {"", "metadata", "raw"} :
       \A a \in Rendered(m, FormatOf(asked)).parts : collided \/ GetAttachment(m, a)

\* A message comes in the place of another only while a seed runs, which generates
\* ids before it has moved the counter past those it gives, or after one that failed
\* and never moved it; a restore may bring such a mailbox back.  What clients and a
\* timeline create replaces nothing.
OnlySeedsCollide ==
  [][collided' => collided \/ saved.collided \/ partial \/ lock = "seed"]_vars

Calendar ==
  \A y \in 1970..1973 \cup {1999, 2000, 2001, 2024, 2100, 2101}, m \in 1..12, d \in 1..31 :
    DateToDays(y, m, d) = DaysBefore(y, m) + d - 1

\* A search finds the messages of which every token is true, each on its own,
\* where a later date or subject takes the place of an earlier one.  The dates
\* of its tokens agree with counting days, over leap years, centuries and days
\* past the end of a month.
QueryMeansTokens ==
  /\ \A q \in Query, m \in DOMAIN messages :
       Matches(messages[m], ParseQuery(q)) =
         \A i \in 1..Len(q) : Overridden(q, i) \/ Says(q[i], messages[m])
  /\ lock = "free" => Calendar

\* Whatever the state of a twin, what the discovery documents of the two twins
\* announce their routes serve, each request by one handler.
DiscoveryServed == lock = "free" => DocumentsServed
=============================================================================
