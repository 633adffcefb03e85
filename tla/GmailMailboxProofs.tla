--------------------------- MODULE GmailMailboxProofs ---------------------------
(***************************************************************************)
(* Proofs about GmailMailbox: what every request, seed and restore keeps   *)
(* of a mailbox, for any number of messages.                               *)
(***************************************************************************)
EXTENDS GmailMailbox, OrderLemmas

-----------------------------------------------------------------------------
(* The inductive invariant, of a mailbox and of the snapshots of it. *)

Ids(ms, ths, lbs, atts) ==
  DOMAIN ms \cup DOMAIN ths \cup (DOMAIN lbs \ SystemLabel) \cup atts

\* The counter is past every id; an id it is not past was seeded.
Past(ms, ths, lbs, atts, next) == \A i \in Ids(ms, ths, lbs, atts) : Number(i) < next
Numbered(ms, ths, lbs, atts, next) ==
  \A i \in Ids(ms, ths, lbs, atts) : Number(i) < next \/ Number(i) < IdLimit - 1

\* Threads have generated ids only.
Shape(ms, ths, lbs, atts, next, hist, part) ==
  /\ ms \in [DOMAIN ms -> Message] /\ DOMAIN ms \subseteq Int
  /\ ths \in [DOMAIN ths -> [history : Nat, snippet : Text]]
  /\ \A t \in DOMAIN ths : t \in Nat /\ t < next
  /\ IsFiniteSet(DOMAIN ms) /\ IsFiniteSet(DOMAIN ths)
  /\ lbs \in [DOMAIN lbs -> SystemLabel \cup Name]
  /\ SystemLabel \subseteq DOMAIN lbs /\ DOMAIN lbs \subseteq SystemLabel \cup Int
  /\ atts \subseteq Int
  /\ next \in Nat /\ next > 0 /\ hist \in Nat /\ part \in BOOLEAN

\* The thread and the labels of a message are there; some labels are strays.
Linked(ms, ths, lbs, str) ==
  \A m \in DOMAIN ms :
    ms[m].thread \in DOMAIN ths /\ ms[m].labels \subseteq DOMAIN lbs \cup str

Stamped(ms, ths, hist) ==
  /\ \A t \in DOMAIN ths : ths[t].history < hist
  /\ \A m \in DOMAIN ms : ms[m].history < hist
  /\ \A m, n \in DOMAIN ms : ms[m].history = ms[n].history => ms[m].thread = ms[n].thread

BoxInv(ms, ths, lbs, atts, next, hist, part, str) ==
  /\ Shape(ms, ths, lbs, atts, next, hist, part) /\ str \subseteq SystemLabel \cup Int
  /\ Linked(ms, ths, lbs, str)
  /\ Stamped(ms, ths, hist)
  /\ Numbered(ms, ths, lbs, atts, next)

\* Nothing is there that no message refers to.
Exact(ms, ths, atts) ==
  /\ \A t \in DOMAIN ths : \E m \in DOMAIN ms : ms[m].thread = t
  /\ \A a \in atts : \E m \in DOMAIN ms : a \in ms[m].atts

Disjoint(ms) == \A m, n \in DOMAIN ms : m # n => ms[m].atts \cap ms[n].atts = {}

Shows(ms, ths) ==
  \A t \in DOMAIN ths : InThread(ms, t) # {} =>
    /\ ths[t].snippet = ms[Latest(ms, t)].text
    /\ ths[t].history <= ms[Latest(ms, t)].history

Held(ms, atts) == \A m \in DOMAIN ms : ms[m].atts \subseteq atts

\* What holds until something is added in the place of something else.
CleanInv(ms, ths, atts, part) ==
  Held(ms, atts) /\ Disjoint(ms) /\ (part \/ Exact(ms, ths, atts))

MailInv ==
  /\ lock \in {"free", "seed"} /\ (lock = "seed" => ~partial)
  /\ BoxInv(messages, threads, labels, attachments, nextId, nextHistory, partial, strays)
  /\ BoxInv(saved.messages, saved.threads, saved.labels, saved.attachments,
            saved.nextId, saved.nextHistory, saved.partial, saved.strays)
  /\ lock = "free" /\ ~partial => Past(messages, threads, labels, attachments, nextId)
  /\ ~saved.partial => Past(saved.messages, saved.threads, saved.labels,
                            saved.attachments, saved.nextId)
  /\ collided \in BOOLEAN /\ saved.collided \in BOOLEAN
  /\ collided \/ CleanInv(messages, threads, attachments, partial)
  /\ saved.collided \/ CleanInv(saved.messages, saved.threads, saved.attachments, saved.partial)

ShowsInv ==
  /\ collided \/ Shows(messages, threads)
  /\ saved.collided \/ Shows(saved.messages, saved.threads)

-----------------------------------------------------------------------------
(* The operators of the mailbox. *)

Earlier(ms, n, m) ==
  ms[n].date < ms[m].date \/ (ms[n].date = ms[m].date /\ n <= m)

\* Of finitely many messages in a thread one is the latest.
LEMMA LatestFacts ==
  ASSUME NEW ms, ms \in [DOMAIN ms -> Message], DOMAIN ms \subseteq Int,
         IsFiniteSet(DOMAIN ms), NEW t, InThread(ms, t) # {}
  PROVE  /\ Latest(ms, t) \in InThread(ms, t)
         /\ \A n \in InThread(ms, t) : Earlier(ms, n, Latest(ms, t))
<1> DEFINE S == InThread(ms, t)
           le == {p \in S \X S : Earlier(ms, p[1], p[2])}
<1>1. /\ S \subseteq DOMAIN ms /\ S \subseteq Int /\ IsFiniteSet(S)
      /\ \A m \in S : ms[m].date \in Nat
  BY FS_Subset DEF InThread, Message
<1>2. \A x, y \in S : <<x, y>> \in le <=> Earlier(ms, x, y)
  OBVIOUS
<1>3. /\ \A x, y \in S : Earlier(ms, x, y) \/ Earlier(ms, y, x)
      /\ \A x, y, z \in S : Earlier(ms, x, y) /\ Earlier(ms, y, z) => Earlier(ms, x, z)
  BY <1>1 DEF Earlier
<1>4. Orders(le, S)
  BY <1>2, <1>3 DEF Orders
<1> HIDE DEF le
<1>5. \E m \in S : \A n \in S : <<n, m>> \in le
  BY <1>1, <1>4, FiniteHasGreatest
<1>6. \E m \in S : \A n \in S : Earlier(ms, n, m)
  BY <1>2, <1>5
<1>7. Latest(ms, t) = CHOOSE m \in S : \A n \in S : Earlier(ms, n, m)
  BY DEF Latest, Earlier
<1> HIDE DEF S
<1> QED
  BY <1>6, <1>7 DEF S

LEMMA LatestUnique ==
  ASSUME NEW ms, ms \in [DOMAIN ms -> Message], DOMAIN ms \subseteq Int,
         IsFiniteSet(DOMAIN ms), NEW t,
         NEW m \in InThread(ms, t), \A n \in InThread(ms, t) : Earlier(ms, n, m)
  PROVE  m = Latest(ms, t)
<1> DEFINE l == Latest(ms, t)
<1>1. l \in InThread(ms, t) /\ Earlier(ms, m, l) /\ Earlier(ms, l, m)
  BY LatestFacts
<1>2. /\ m \in Int /\ l \in Int
      /\ ms[m].date \in Nat /\ ms[l].date \in Nat
  BY <1>1 DEF InThread, Message
<1> HIDE DEF l
<1> QED
  BY <1>1, <1>2 DEF Earlier, l

\* The latest message of a thread is the same while nothing joins or leaves it.
LEMMA LatestKept ==
  ASSUME NEW ms, ms \in [DOMAIN ms -> Message], DOMAIN ms \subseteq Int,
         IsFiniteSet(DOMAIN ms),
         NEW ms2, ms2 \in [DOMAIN ms2 -> Message], DOMAIN ms2 \subseteq Int,
         IsFiniteSet(DOMAIN ms2),
         NEW t, InThread(ms, t) # {}, InThread(ms2, t) = InThread(ms, t),
         \A m \in InThread(ms, t) : ms2[m].date = ms[m].date
  PROVE  Latest(ms2, t) = Latest(ms, t)
<1> DEFINE l == Latest(ms, t)
<1>1. l \in InThread(ms, t) /\ \A n \in InThread(ms, t) : Earlier(ms, n, l)
  BY LatestFacts
<1>2. l \in InThread(ms2, t) /\ \A n \in InThread(ms2, t) : Earlier(ms2, n, l)
  BY <1>1 DEF Earlier
<1> HIDE DEF l
<1>3. l = Latest(ms2, t)
  BY <1>2, LatestUnique
<1> QED
  BY <1>3 DEF l

\* update_thread_snippet, of a thread with messages and of one without.
LEMMA RefreshFacts ==
  ASSUME NEW ms, ms \in [DOMAIN ms -> Message], DOMAIN ms \subseteq Int,
         IsFiniteSet(DOMAIN ms), NEW t,
         NEW ths, ths \in [DOMAIN ths -> [history : Nat, snippet : Text]],
         NEW new, new = Refresh(ths, ms, t)
  PROVE  /\ DOMAIN new = DOMAIN ths /\ new \in [DOMAIN ths -> [history : Nat, snippet : Text]]
         /\ \A u \in DOMAIN ths \ {t} : new[u] = ths[u]
         /\ t \in DOMAIN ths /\ InThread(ms, t) # {} =>
              /\ new[t].history = ms[Latest(ms, t)].history
              /\ new[t].snippet = ms[Latest(ms, t)].text
         /\ t \notin DOMAIN ths \/ InThread(ms, t) = {} => new = ths
<1>1. CASE t \notin DOMAIN ths \/ InThread(ms, t) = {}
  BY <1>1 DEF Refresh
<1>2. CASE t \in DOMAIN ths /\ InThread(ms, t) # {}
  <2> DEFINE l == Latest(ms, t)
             th == [history |-> ms[l].history, snippet |-> ms[l].text]
  <2>1. l \in DOMAIN ms
    BY <1>2, LatestFacts DEF InThread
  <2>2. th \in [history : Nat, snippet : Text]
    BY <2>1 DEF Message
  <2>3. new = [x \in DOMAIN ths \cup {t} |-> IF x = t THEN th ELSE ths[x]]
    BY <1>2 DEF Refresh, Put
  <2>4. th.history = ms[l].history /\ th.snippet = ms[l].text
    OBVIOUS
  <2> HIDE DEF th
  <2> QED
    BY <1>2, <2>2, <2>3, <2>4
<1> QED
  BY <1>1, <1>2

-----------------------------------------------------------------------------
(* What a step does to the mailbox, by the kind of the step. *)

\* The mailbox, for the lemmas below.
CurrentInv ==
  BoxInv(messages, threads, labels, attachments, nextId, nextHistory, partial, strays)
CurrentPast == Past(messages, threads, labels, attachments, nextId)
CurrentClean == CleanInv(messages, threads, attachments, partial)
CurrentShows == Shows(messages, threads)

\* A message is added, under an id that may be taken or new.
LEMMA AddMessage ==
  ASSUME CurrentInv, NEW id \in Int, NEW msg \in Message, NEW tid \in Int, NEW found,
         found # {} => tid \in DOMAIN threads,
         found = {} => tid \in Nat /\ nextId <= tid /\ tid < nextId',
         msg.thread = tid, msg.text = msg.history, msg.history >= nextHistory,
         msg.labels \subseteq DOMAIN labels \cup strays',
         strays \subseteq strays', strays' \subseteq SystemLabel \cup Int,
         messages' = Put(messages, id, msg),
         threads' = Refresh(WithThread(found, tid), messages', tid),
         attachments' = attachments \cup msg.atts,
         nextId' \in Nat, nextId' >= nextId, nextHistory' = msg.history + 1,
         UNCHANGED <<labels, partial>>,
         \A i \in {id} \cup msg.atts : Number(i) < nextId' \/ Number(i) < IdLimit - 1
  PROVE  /\ CurrentInv'
         /\ CurrentPast /\ (\A i \in {id} \cup msg.atts : Number(i) < nextId') => CurrentPast'
         /\ id \notin DOMAIN messages =>
              /\ CurrentShows => CurrentShows'
              /\ CurrentClean /\ msg.atts \cap attachments = {} => CurrentClean'
<1> DEFINE ths == WithThread(found, tid)
<1> USE DEF CurrentInv, BoxInv
<1>1. /\ messages \in [DOMAIN messages -> Message] /\ DOMAIN messages \subseteq Int
      /\ IsFiniteSet(DOMAIN messages) /\ IsFiniteSet(DOMAIN threads)
      /\ threads \in [DOMAIN threads -> [history : Nat, snippet : Text]]
      /\ nextId \in Nat /\ nextHistory \in Nat
      /\ msg.history \in Nat /\ msg.atts \subseteq Int
      /\ \A t \in DOMAIN threads : t \in Nat /\ t < nextId
  BY DEF Shape, Message
<1>2. /\ DOMAIN messages' = DOMAIN messages \cup {id} /\ messages'[id] = msg
      /\ \A m \in DOMAIN messages \ {id} : messages'[m] = messages[m]
      /\ messages' \in [DOMAIN messages' -> Message] /\ DOMAIN messages' \subseteq Int
  BY <1>1 DEF Put
<1>3. IsFiniteSet(DOMAIN messages')
  BY <1>1, <1>2, FS_AddElement
<1>4. /\ DOMAIN ths = DOMAIN threads \cup {tid}
      /\ ths \in [DOMAIN ths -> [history : Nat, snippet : Text]]
      /\ \A t \in DOMAIN threads : ths[t] = threads[t]
  <2>1. CASE found = {}
    <3>1. tid \notin DOMAIN threads
      BY <1>1, <2>1
    <3>2. [history |-> nextHistory, snippet |-> NoText] \in [history : Nat, snippet : Text]
      BY <1>1 DEF NoText, Text
    <3> QED
      BY <1>1, <2>1, <3>1, <3>2 DEF WithThread, Put
  <2>2. CASE found # {}
    BY <1>1, <2>2 DEF WithThread
  <2> QED
    BY <2>1, <2>2
<1>5. id \in InThread(messages', tid)
  BY <1>2 DEF InThread
<1>6. /\ DOMAIN threads' = DOMAIN threads \cup {tid}
      /\ threads' \in [DOMAIN threads' -> [history : Nat, snippet : Text]]
      /\ \A t \in DOMAIN threads \ {tid} : threads'[t] = threads[t]
      /\ threads'[tid].history = messages'[Latest(messages', tid)].history
      /\ threads'[tid].snippet = messages'[Latest(messages', tid)].text
  <2> HIDE DEF ths
  <2>1. threads' = Refresh(ths, messages', tid)
    BY DEF ths
  <2> QED
    BY <1>2, <1>3, <1>4, <1>5, <2>1, RefreshFacts
<1>7. Latest(messages', tid) \in DOMAIN messages'
  BY <1>2, <1>3, <1>5, LatestFacts DEF InThread
<1>8. IsFiniteSet(DOMAIN threads')
  BY <1>1, <1>6, FS_AddElement
<1>9. \A t \in DOMAIN threads' : t \in Nat /\ t < nextId'
  BY <1>1, <1>6
<1>10. Shape(messages, threads, labels, attachments, nextId, nextHistory, partial)'
  BY <1>1, <1>2, <1>3, <1>6, <1>8, <1>9 DEF Shape
<1>11. Linked(messages, threads, labels, strays)'
  BY <1>1, <1>2, <1>6 DEF Linked
<1>12. Stamped(messages, threads, nextHistory)'
  <2>1. \A m \in DOMAIN messages \ {id} :
          messages'[m].history \in Nat /\ messages'[m].history < nextHistory
    BY <1>1, <1>2 DEF Stamped, Message
  <2>2. \A m \in DOMAIN messages' : messages'[m].history < nextHistory'
    BY <1>1, <1>2, <2>1
  <2>3. \A t \in DOMAIN threads' : threads'[t].history < nextHistory'
    BY <1>1, <1>6, <1>7, <2>2 DEF Stamped
  <2>4. \A m, n \in DOMAIN messages' :
          messages'[m].history = messages'[n].history =>
            messages'[m].thread = messages'[n].thread
    BY <1>1, <1>2, <2>1 DEF Stamped
  <2> QED
    BY <2>2, <2>3, <2>4 DEF Stamped
<1>13. \A i \in Ids(messages, threads, labels, attachments)' :
         \/ i \in Ids(messages, threads, labels, attachments)
         \/ i \in {id} \cup msg.atts
         \/ i = tid /\ Number(i) < nextId'
  BY <1>2, <1>6, <1>9 DEF Ids, Number
<1>14. \A i : Number(i) \in Nat
  BY DEF Number
<1>15. Numbered(messages, threads, labels, attachments, nextId)'
  BY <1>1, <1>13, <1>14 DEF Numbered
<1>16. CurrentPast /\ (\A i \in {id} \cup msg.atts : Number(i) < nextId') => CurrentPast'
  BY <1>1, <1>13, <1>14 DEF CurrentPast, Past
<1>17. ASSUME id \notin DOMAIN messages, CurrentShows PROVE CurrentShows'
  <2>1. ASSUME NEW t \in DOMAIN threads', InThread(messages', t) # {}
        PROVE  /\ threads'[t].snippet = messages'[Latest(messages', t)].text
               /\ threads'[t].history <= messages'[Latest(messages', t)].history
    <3>1. CASE t = tid
      BY <1>2, <1>6, <1>7, <3>1 DEF Message
    <3>2. CASE t # tid
      <4>1. InThread(messages', t) = InThread(messages, t) /\ t \in DOMAIN threads
        BY <1>2, <1>6, <1>17, <3>2 DEF InThread
      <4>2. \A m \in InThread(messages, t) : messages'[m] = messages[m]
        BY <1>2, <1>17 DEF InThread
      <4>3. Latest(messages', t) = Latest(messages, t)
        BY <1>1, <1>2, <1>3, <2>1, <4>1, <4>2, LatestKept
      <4>4. Latest(messages, t) \in InThread(messages, t)
        BY <1>1, <2>1, <4>1, LatestFacts
      <4> QED
        BY <1>6, <1>17, <2>1, <3>2, <4>1, <4>2, <4>3, <4>4 DEF CurrentShows, Shows
    <3> QED
      BY <3>1, <3>2
  <2> QED
    BY <2>1 DEF CurrentShows, Shows
<1>18. ASSUME id \notin DOMAIN messages, CurrentClean, msg.atts \cap attachments = {}
       PROVE  CurrentClean'
  <2>1. Disjoint(messages)' /\ Held(messages, attachments)'
    BY <1>2, <1>18 DEF CurrentClean, CleanInv, Disjoint, Held
  <2>2. Exact(messages, threads, attachments) => Exact(messages, threads, attachments)'
    BY <1>2, <1>6, <1>18 DEF Exact
  <2> QED
    BY <1>18, <2>1, <2>2 DEF CurrentClean, CleanInv
<1> QED
  BY <1>10, <1>11, <1>12, <1>15, <1>16, <1>17, <1>18

\* Some messages of a thread are removed, and the thread with the last.
LEMMA RemoveMessages ==
  ASSUME CurrentInv, NEW t \in DOMAIN threads, NEW S \in SUBSET InThread(messages, t),
         messages' = Without(messages, S),
         threads' = IF InThread(messages', t) = {} THEN Without(threads, {t})
                    ELSE Refresh(threads, messages', t),
         attachments' = attachments \ AttsOf(messages, S),
         UNCHANGED <<labels, nextId, nextHistory, partial, strays>>
  PROVE  /\ CurrentInv'
         /\ CurrentPast => CurrentPast'
         /\ CurrentShows => CurrentShows'
         /\ CurrentClean => CurrentClean'
<1> USE DEF CurrentInv, BoxInv
<1>1. /\ messages \in [DOMAIN messages -> Message] /\ DOMAIN messages \subseteq Int
      /\ IsFiniteSet(DOMAIN messages) /\ IsFiniteSet(DOMAIN threads)
      /\ threads \in [DOMAIN threads -> [history : Nat, snippet : Text]]
      /\ nextId \in Nat /\ nextHistory \in Nat
  BY DEF Shape
<1>2. /\ DOMAIN messages' = DOMAIN messages \ S
      /\ \A m \in DOMAIN messages' : messages'[m] = messages[m]
      /\ messages' \in [DOMAIN messages' -> Message] /\ DOMAIN messages' \subseteq Int
  BY <1>1 DEF Without
<1>3. IsFiniteSet(DOMAIN messages')
  BY <1>1, <1>2, FS_Subset
<1>4. /\ DOMAIN threads' = IF InThread(messages', t) = {} THEN DOMAIN threads \ {t}
                           ELSE DOMAIN threads
      /\ threads' \in [DOMAIN threads' -> [history : Nat, snippet : Text]]
      /\ \A u \in DOMAIN threads' \ {t} : threads'[u] = threads[u]
      /\ InThread(messages', t) # {} =>
           /\ threads'[t].history = messages'[Latest(messages', t)].history
           /\ threads'[t].snippet = messages'[Latest(messages', t)].text
  <2>1. CASE InThread(messages', t) = {}
    BY <1>1, <2>1 DEF Without
  <2>2. CASE InThread(messages', t) # {}
    <3>1. threads' = Refresh(threads, messages', t)
      BY <2>2
    <3> QED
      BY <1>1, <1>2, <1>3, <2>2, <3>1, RefreshFacts
  <2> QED
    BY <2>1, <2>2
<1>5. \A u : u # t => InThread(messages', u) = InThread(messages, u)
  BY <1>2 DEF InThread
<1>6. \A u \in DOMAIN threads' : InThread(messages', u) # {} =>
        Latest(messages', u) \in InThread(messages', u)
  BY <1>2, <1>3, LatestFacts
<1>7. IsFiniteSet(DOMAIN threads') /\ DOMAIN threads' \subseteq DOMAIN threads
  BY <1>1, <1>4, FS_Subset
<1>8. Shape(messages, threads, labels, attachments, nextId, nextHistory, partial)'
  BY <1>2, <1>3, <1>4, <1>7 DEF Shape
<1>9. Linked(messages, threads, labels, strays)'
  BY <1>2, <1>4 DEF Linked, InThread
<1>10. Stamped(messages, threads, nextHistory)'
  <2>1. \A m \in DOMAIN messages' : messages'[m].history < nextHistory
    BY <1>2 DEF Stamped
  <2>2. ASSUME NEW u \in DOMAIN threads' PROVE threads'[u].history < nextHistory
    <3>1. CASE u = t
      <4>1. InThread(messages', t) # {}
        BY <1>4, <2>2, <3>1
      <4>2. Latest(messages', t) \in DOMAIN messages'
        BY <1>6, <2>2, <3>1, <4>1 DEF InThread
      <4> QED
        BY <1>4, <2>1, <3>1, <4>1, <4>2
    <3>2. CASE u # t
      BY <1>4, <1>7, <2>2, <3>2 DEF Stamped
    <3> QED
      BY <3>1, <3>2
  <2>3. \A m, n \in DOMAIN messages' :
          messages'[m].history = messages'[n].history => messages'[m].thread = messages'[n].thread
    BY <1>2 DEF Stamped
  <2> QED
    BY <2>1, <2>2, <2>3 DEF Stamped
<1>11. Ids(messages, threads, labels, attachments)'
         \subseteq Ids(messages, threads, labels, attachments)
  BY <1>2, <1>7 DEF Ids
<1>12. Numbered(messages, threads, labels, attachments, nextId)'
  BY <1>11 DEF Numbered
<1>13. CurrentPast => CurrentPast'
  BY <1>11 DEF CurrentPast, Past
<1>14. ASSUME CurrentShows PROVE CurrentShows'
  <2>1. ASSUME NEW u \in DOMAIN threads', InThread(messages', u) # {}
        PROVE  /\ threads'[u].snippet = messages'[Latest(messages', u)].text
               /\ threads'[u].history <= messages'[Latest(messages', u)].history
    <3>1. CASE u = t
      BY <1>2, <1>4, <1>6, <2>1, <3>1 DEF InThread, Message
    <3>2. CASE u # t
      <4>1. InThread(messages', u) = InThread(messages, u) /\ u \in DOMAIN threads
        BY <1>5, <1>7, <3>2
      <4>2. \A m \in InThread(messages, u) : messages'[m] = messages[m]
        BY <1>2, <4>1 DEF InThread
      <4>3. Latest(messages', u) = Latest(messages, u)
        BY <1>1, <1>2, <1>3, <2>1, <4>1, <4>2, LatestKept
      <4>4. Latest(messages', u) \in InThread(messages', u)
        BY <1>6, <2>1
      <4>5. /\ threads[u].snippet = messages[Latest(messages, u)].text
            /\ threads[u].history <= messages[Latest(messages, u)].history
        BY <1>14, <2>1, <4>1 DEF CurrentShows, Shows
      <4>6. threads'[u] = threads[u]
        BY <1>4, <2>1, <3>2
      <4> QED
        BY <4>1, <4>2, <4>3, <4>4, <4>5, <4>6
    <3> QED
      BY <3>1, <3>2
  <2> QED
    BY <2>1 DEF CurrentShows, Shows
<1>15. ASSUME CurrentClean PROVE CurrentClean'
  <2>1. \A a : a \in AttsOf(messages, S) <=> \E m \in S : a \in messages[m].atts
    BY DEF AttsOf
  <2>2. S \subseteq DOMAIN messages
    BY DEF InThread
  <2>3. Disjoint(messages)'
    BY <1>2, <1>15 DEF CurrentClean, CleanInv, Disjoint
  <2>4. Held(messages, attachments)'
    BY <1>2, <1>15, <2>1, <2>2 DEF CurrentClean, CleanInv, Held, Disjoint
  <2>5. ASSUME Exact(messages, threads, attachments)
        PROVE  Exact(messages, threads, attachments)'
    <3>1. ASSUME NEW u \in DOMAIN threads' PROVE \E m \in DOMAIN messages' : messages'[m].thread = u
      <4>1. CASE u = t
        BY <1>4, <3>1, <4>1 DEF InThread
      <4>2. CASE u # t
        <5>1. PICK m \in DOMAIN messages : messages[m].thread = u
          BY <1>7, <2>5 DEF Exact
        <5> QED
          BY <1>5, <4>2, <5>1 DEF InThread
      <4> QED
        BY <4>1, <4>2
    <3>2. \A a \in attachments' : \E m \in DOMAIN messages' : a \in messages'[m].atts
      BY <1>2, <2>1, <2>5 DEF Exact
    <3> QED
      BY <3>1, <3>2 DEF Exact
  <2> QED
    BY <1>15, <2>3, <2>4, <2>5 DEF CurrentClean, CleanInv
<1> QED
  BY <1>8, <1>9, <1>10, <1>12, <1>13, <1>14, <1>15

\* Messages of one thread get other labels, and a new history id, which is the
\* thread's if it stamps them all.
LEMMA RelabelMessages ==
  ASSUME CurrentInv, NEW S \in SUBSET DOMAIN messages,
         \A m, n \in S : messages[m].thread = messages[n].thread,
         NEW add \in SUBSET (SystemLabel \cup Int), NEW rem,
         messages' = Relabelled(S, add, rem),
         strays' = strays \cup (add \ DOMAIN labels),
         \/ threads' = threads
         \/ \E t \in DOMAIN threads :
              /\ S = InThread(messages, t)
              /\ threads' = [threads EXCEPT ![t].history = nextHistory],
         nextHistory' = nextHistory + 1,
         UNCHANGED <<labels, attachments, nextId, partial>>
  PROVE  /\ CurrentInv'
         /\ CurrentPast => CurrentPast'
         /\ CurrentShows => CurrentShows'
         /\ CurrentClean => CurrentClean'
<1> USE DEF CurrentInv, BoxInv
<1>1. /\ messages \in [DOMAIN messages -> Message] /\ DOMAIN messages \subseteq Int
      /\ threads \in [DOMAIN threads -> [history : Nat, snippet : Text]]
      /\ nextHistory \in Nat
      /\ DOMAIN labels \subseteq SystemLabel \cup Int
      /\ \A m \in DOMAIN messages : messages[m].labels \subseteq DOMAIN labels \cup strays
      /\ strays \subseteq SystemLabel \cup Int
  BY DEF Shape, Linked
<1>2. DOMAIN messages' = DOMAIN messages
  BY DEF Relabelled
<1>3. ASSUME NEW m \in DOMAIN messages
      PROVE  /\ messages'[m] \in Message /\ messages'[m].labels \subseteq DOMAIN labels \cup strays'
             /\ messages'[m].thread = messages[m].thread
             /\ messages'[m].date = messages[m].date
             /\ messages'[m].text = messages[m].text
             /\ messages'[m].atts = messages[m].atts
             /\ m \in S => messages'[m].history = nextHistory
             /\ m \notin S => messages'[m].history = messages[m].history
  <2>1. messages[m] \in Message /\ messages[m].labels \subseteq DOMAIN labels \cup strays
    BY <1>1
  <2>2. CASE m \notin S
    <3>1. messages'[m] = messages[m]
      BY <2>2 DEF Relabelled
    <3> QED
      BY <2>1, <2>2, <3>1
  <2>3. CASE m \in S
    <3> DEFINE new == (messages[m].labels \ rem) \cup add
    <3>1. new \subseteq DOMAIN labels \cup strays' /\ new \in SUBSET (SystemLabel \cup Int)
      BY <1>1, <2>1
    <3>2. messages'[m] = [messages[m] EXCEPT !.labels = new, !.history = nextHistory]
      BY <2>3 DEF Relabelled
    <3> HIDE DEF new
    <3> QED
      BY <1>1, <2>1, <2>3, <3>1, <3>2 DEF Message
  <2> QED
    BY <2>2, <2>3
<1>4. messages' \in [DOMAIN messages' -> Message]
  BY <1>2, <1>3 DEF Relabelled
<1>5. /\ DOMAIN threads' = DOMAIN threads
      /\ threads' \in [DOMAIN threads -> [history : Nat, snippet : Text]]
      /\ \A t \in DOMAIN threads :
           /\ threads'[t].snippet = threads[t].snippet
           /\ \/ threads'[t].history = threads[t].history
              \/ threads'[t].history = nextHistory /\ S = InThread(messages, t)
  BY <1>1
<1>6. Shape(messages, threads, labels, attachments, nextId, nextHistory, partial)'
  BY <1>1, <1>2, <1>4, <1>5 DEF Shape
<1>7. Linked(messages, threads, labels, strays)'
  BY <1>2, <1>3, <1>5 DEF Linked
<1>8. Stamped(messages, threads, nextHistory)'
  <2>1. \A m \in DOMAIN messages : messages[m].history \in Nat /\ messages[m].history < nextHistory
    BY <1>1 DEF Stamped, Message
  <2>2. ASSUME NEW m \in DOMAIN messages' PROVE messages'[m].history < nextHistory'
    <3>1. messages'[m].history = nextHistory \/ messages'[m].history = messages[m].history
      BY <1>2, <1>3, <2>2
    <3> QED
      BY <1>1, <1>2, <2>1, <2>2, <3>1
  <2>3. \A t \in DOMAIN threads' : threads'[t].history < nextHistory'
    BY <1>1, <1>5 DEF Stamped
  <2>4. ASSUME NEW m \in DOMAIN messages', NEW n \in DOMAIN messages',
               messages'[m].history = messages'[n].history
        PROVE  messages'[m].thread = messages'[n].thread
    <3>1. /\ messages[m].history \in Nat /\ messages[m].history < nextHistory
          /\ messages[n].history \in Nat /\ messages[n].history < nextHistory
      BY <1>2, <2>1, <2>4
    <3>2. (m \in S) <=> (n \in S)
      BY <1>1, <1>2, <1>3, <2>4, <3>1
    <3>3. messages[m].thread = messages[n].thread
      BY <1>2, <1>3, <2>4, <3>2 DEF Stamped
    <3> QED
      BY <1>2, <1>3, <2>4, <3>3
  <2> QED
    BY <2>2, <2>3, <2>4 DEF Stamped
<1>9. Ids(messages, threads, labels, attachments)' = Ids(messages, threads, labels, attachments)
  BY <1>2, <1>5 DEF Ids
<1>10. Numbered(messages, threads, labels, attachments, nextId)' /\ (CurrentPast => CurrentPast')
  BY <1>9 DEF Numbered, CurrentPast, Past
<1>11. ASSUME CurrentShows PROVE CurrentShows'
  <2>1. ASSUME NEW t \in DOMAIN threads', InThread(messages', t) # {}
        PROVE  /\ threads'[t].snippet = messages'[Latest(messages', t)].text
               /\ threads'[t].history <= messages'[Latest(messages', t)].history
    <3> DEFINE l == Latest(messages, t)
    <3>1. InThread(messages', t) = InThread(messages, t) /\ t \in DOMAIN threads
      BY <1>2, <1>3, <1>5 DEF InThread
    <3>2. \A m \in InThread(messages, t) : messages'[m].date = messages[m].date
      BY <1>3 DEF InThread
    <3>3. IsFiniteSet(DOMAIN messages)
      BY DEF Shape
    <3>4. Latest(messages', t) = l /\ l \in InThread(messages, t)
      <4>1. l \in InThread(messages, t)
        BY <1>1, <2>1, <3>1, <3>3, LatestFacts
      <4>2. Latest(messages', t) = Latest(messages, t)
        BY <1>1, <1>2, <1>4, <2>1, <3>1, <3>2, <3>3, LatestKept
      <4> QED
        BY <4>1, <4>2
    <3>5. /\ threads[t].snippet = messages[l].text
          /\ threads[t].history <= messages[l].history
      BY <1>11, <2>1, <3>1 DEF CurrentShows, Shows
    <3>6. l \in DOMAIN messages /\ messages[l].history \in Nat /\ messages[l].history < nextHistory
      BY <1>1, <3>4 DEF InThread, Message, Stamped
    <3>7. threads[t].history \in Nat
      BY <1>1, <3>1
    <3> HIDE DEF l
    <3> QED
      BY <1>1, <1>3, <1>5, <3>1, <3>4, <3>5, <3>6, <3>7
  <2> QED
    BY <2>1 DEF CurrentShows, Shows
<1>12. ASSUME CurrentClean PROVE CurrentClean'
  <2>1. /\ DOMAIN messages' = DOMAIN messages /\ DOMAIN threads' = DOMAIN threads
        /\ \A m \in DOMAIN messages :
             messages'[m].thread = messages[m].thread /\ messages'[m].atts = messages[m].atts
    BY <1>2, <1>3, <1>5
  <2>2. Held(messages, attachments)' /\ Disjoint(messages)'
    BY <1>12, <2>1 DEF CurrentClean, CleanInv, Disjoint, Held
  <2>3. Exact(messages, threads, attachments) => Exact(messages, threads, attachments)'
    BY <2>1 DEF Exact
  <2> QED
    BY <1>12, <2>2, <2>3 DEF CurrentClean, CleanInv
<1> QED
  BY <1>6, <1>7, <1>8, <1>10, <1>11, <1>12

\* The labels change, and messages lose some of theirs.
LEMMA ChangeLabels ==
  ASSUME CurrentInv,
         labels' \in [DOMAIN labels' -> SystemLabel \cup Name],
         SystemLabel \subseteq DOMAIN labels', DOMAIN labels' \subseteq SystemLabel \cup Int,
         NEW gone,
         messages' = [m \in DOMAIN messages |-> [messages[m] EXCEPT !.labels = @ \ gone]],
         DOMAIN labels \ gone \subseteq DOMAIN labels', strays' = strays \ gone,
         nextId' \in Nat, nextId' >= nextId,
         \A l \in DOMAIN labels' \ DOMAIN labels : Number(l) < nextId',
         UNCHANGED <<threads, attachments, nextHistory, partial>>
  PROVE  /\ CurrentInv'
         /\ CurrentPast => CurrentPast'
         /\ CurrentShows => CurrentShows'
         /\ CurrentClean => CurrentClean'
<1> USE DEF CurrentInv, BoxInv
<1>1. /\ messages \in [DOMAIN messages -> Message] /\ DOMAIN messages \subseteq Int
      /\ IsFiniteSet(DOMAIN messages) /\ nextId \in Nat
  BY DEF Shape
<1>2. DOMAIN messages' = DOMAIN messages
  OBVIOUS
<1>3. ASSUME NEW m \in DOMAIN messages
      PROVE  /\ messages'[m] \in Message /\ messages'[m].labels = messages[m].labels \ gone
             /\ messages'[m].thread = messages[m].thread
             /\ messages'[m].date = messages[m].date
             /\ messages'[m].text = messages[m].text
             /\ messages'[m].atts = messages[m].atts
             /\ messages'[m].history = messages[m].history
  <2>1. messages[m] \in Message
    BY <1>1
  <2>2. messages'[m] = [messages[m] EXCEPT !.labels = @ \ gone]
    OBVIOUS
  <2> QED
    BY <2>1, <2>2 DEF Message
<1>4. messages' \in [DOMAIN messages' -> Message]
  BY <1>2, <1>3
<1>5. Shape(messages, threads, labels, attachments, nextId, nextHistory, partial)'
  <2>1. \A t \in DOMAIN threads : t \in Nat /\ t < nextId'
    BY <1>1 DEF Shape
  <2>2. nextId' > 0
    BY <1>1 DEF Shape
  <2> QED
    BY <1>1, <1>2, <1>4, <2>1, <2>2 DEF Shape
<1>6. Linked(messages, threads, labels, strays)'
  BY <1>2, <1>3 DEF Linked
<1>7. Stamped(messages, threads, nextHistory)'
  <2>1. \A m \in DOMAIN messages :
          messages'[m].thread = messages[m].thread /\ messages'[m].history = messages[m].history
    BY <1>3
  <2>2. threads' = threads /\ nextHistory' = nextHistory /\ Stamped(messages, threads, nextHistory)
    OBVIOUS
  <2> QED
    BY <1>2, <2>1, <2>2 DEF Stamped
<1>8. \A i \in Ids(messages, threads, labels, attachments)' :
        i \in Ids(messages, threads, labels, attachments) \/ Number(i) < nextId'
  BY <1>2 DEF Ids
<1>9. \A i : Number(i) \in Nat
  BY DEF Number
<1>10. Numbered(messages, threads, labels, attachments, nextId)' /\ (CurrentPast => CurrentPast')
  BY <1>1, <1>8, <1>9 DEF Numbered, CurrentPast, Past
<1>11. ASSUME CurrentShows PROVE CurrentShows'
  <2>1. ASSUME NEW t \in DOMAIN threads, InThread(messages', t) # {}
        PROVE  /\ threads[t].snippet = messages'[Latest(messages', t)].text
               /\ threads[t].history <= messages'[Latest(messages', t)].history
    <3>1. InThread(messages', t) = InThread(messages, t)
      BY <1>2, <1>3 DEF InThread
    <3>2. \A m \in InThread(messages, t) : messages'[m].date = messages[m].date
      BY <1>3 DEF InThread
    <3>3. Latest(messages', t) = Latest(messages, t)
      BY <1>1, <1>2, <1>4, <2>1, <3>1, <3>2, LatestKept
    <3>4. Latest(messages, t) \in DOMAIN messages
      BY <1>1, <2>1, <3>1, LatestFacts DEF InThread
    <3>5. /\ threads[t].snippet = messages[Latest(messages, t)].text
          /\ threads[t].history <= messages[Latest(messages, t)].history
      BY <1>11, <2>1, <3>1 DEF CurrentShows, Shows
    <3> QED
      BY <1>3, <3>3, <3>4, <3>5
  <2> QED
    BY <2>1 DEF CurrentShows, Shows
<1>12. ASSUME CurrentClean PROVE CurrentClean'
  <2>1. /\ DOMAIN messages' = DOMAIN messages
        /\ \A m \in DOMAIN messages :
             messages'[m].thread = messages[m].thread /\ messages'[m].atts = messages[m].atts
    BY <1>2, <1>3
  <2>2. Held(messages, attachments)' /\ Disjoint(messages)'
    BY <1>12, <2>1 DEF CurrentClean, CleanInv, Disjoint, Held
  <2>3. Exact(messages, threads, attachments) => Exact(messages, threads, attachments)'
    BY <2>1 DEF Exact
  <2> QED
    BY <1>12, <2>2, <2>3 DEF CurrentClean, CleanInv
<1> QED
  BY <1>5, <1>6, <1>7, <1>10, <1>11, <1>12

-----------------------------------------------------------------------------
(* Threads that are found and ids that are given out. *)

\* find_or_create_thread finds a thread that is there, or none.
LEMMA FoundFacts ==
  ASSUME CurrentInv, NEW t, NEW s
  PROVE  Found(t, s) = {} \/ \E x \in DOMAIN threads : Found(t, s) = {x}
<1> DEFINE same == {m \in DOMAIN messages : s # NoSubject /\ messages[m].subject = s}
           first == CHOOSE m \in same : \A n \in same : m <= n
<1>1. IsFiniteSet(same) /\ same \subseteq Int
  BY FS_Subset DEF CurrentInv, BoxInv, Shape
<1>2. Found(t, s) = IF t \in DOMAIN threads THEN {t}
                    ELSE IF same = {} THEN {} ELSE {messages[first].thread}
  BY DEF Found
<1>3. ASSUME same # {} PROVE first \in same
  <2> DEFINE ge == {p \in same \X same : p[2] <= p[1]}
  <2>1. \A x, y \in same : <<x, y>> \in ge <=> y <= x
    OBVIOUS
  <2> HIDE DEF same, ge
  <2>2. Orders(ge, same)
    BY <1>1, <2>1 DEF Orders
  <2>3. \E m \in same : \A n \in same : <<n, m>> \in ge
    BY <1>1, <1>3, <2>2, FiniteHasGreatest
  <2> QED
    BY <2>1, <2>3
<1> HIDE DEF first
<1>4. same # {} => messages[first].thread \in DOMAIN threads
  BY <1>3 DEF CurrentInv, BoxInv, Linked
<1> HIDE DEF same
<1> QED
  BY <1>2, <1>4

LEMMA NewFacts == New({}) = 1 /\ \A x : New({x}) = 0
BY FS_EmptySet, FS_Singleton DEF New

LEMMA IdFacts ==
  /\ \A i : Number(i) \in Nat
  /\ \A i \in Nat : Number(i) = i
  /\ SeedMsg \cup SeedLabel \cup SeedAtt \subseteq Int
  /\ \A i \in SeedMsg \cup SeedLabel \cup SeedAtt : Number(i) < IdLimit - 1 \/ Number(i) = 0
  /\ None \notin Int /\ IdLimit \in Nat /\ Epoch \in Nat /\ Date \subseteq Nat
BY IdAssumption DEF Number

LEMMA PastFacts == PastAllIds <=> CurrentPast
BY DEF PastAllIds, UsedIds, UserLabels, LabelIds, CurrentPast, Past, Ids

\* insert_message, with ids and attachments of its own or of the seed's.
LEMMA InsertionKeeps ==
  ASSUME CurrentInv, collided \in BOOLEAN,
         NEW id \in SeedMsg \cup {None}, NEW t, NEW s \in Subject,
         NEW ls \in SUBSET (SystemLabel \cup Int), NEW d \in Nat \cup {None},
         NEW named \in SUBSET SeedAtt, NEW unnamed \in Nat,
         Insertion(id, t, s, ls, d, named, unnamed)
  PROVE  /\ CurrentInv'
         /\ CurrentPast /\ id = None /\ named = {} => CurrentPast'
         /\ collided' \in BOOLEAN /\ (collided => collided')
         /\ collided' \/ ((CurrentShows => CurrentShows') /\ (CurrentClean => CurrentClean'))
<1> DEFINE found == Found(t, s)
           afterId == nextId + (IF id = None THEN 1 ELSE 0)
           tid == IF found = {} THEN afterId ELSE CHOOSE x \in found : TRUE
           firstAtt == afterId + New(found)
           h == nextHistory + New(found)
           own == IF id = None THEN nextId ELSE id
           msg == [thread |-> tid, subject |-> s,
                   labels |-> IF ls = {} THEN {INBOX, UNREAD} ELSE ls,
                   date |-> IF d = None THEN Epoch + h ELSE d,
                   text |-> h, history |-> h,
                   atts |-> named \cup firstAtt..(firstAtt + unnamed - 1)]
<1>1. /\ nextId \in Nat /\ nextId > 0 /\ nextHistory \in Nat
      /\ SystemLabel \subseteq DOMAIN labels /\ DOMAIN labels \subseteq SystemLabel \cup Int
      /\ DOMAIN threads \subseteq Nat /\ DOMAIN messages \subseteq Int
      /\ strays \subseteq SystemLabel \cup Int
  BY DEF CurrentInv, BoxInv, Shape
<1>2. /\ messages' = Put(messages, own, msg)
      /\ threads' = Refresh(WithThread(found, tid), messages', tid)
      /\ attachments' = attachments \cup msg.atts
      /\ nextId' = firstAtt + unnamed /\ nextHistory' = h + 1
      /\ collided' = (collided \/ own \in DOMAIN messages \/ msg.atts \cap attachments # {})
      /\ strays' = strays \cup (ls \ DOMAIN labels)
      /\ UNCHANGED <<labels, partial>>
  BY DEF Insertion, LabelIds
<1>3. (found = {} /\ New(found) = 1) \/ (New(found) = 0 /\ \E x \in DOMAIN threads : found = {x})
  BY FoundFacts, NewFacts
<1>4. afterId \in Nat /\ afterId >= nextId /\ (id = None => afterId = nextId + 1)
  BY <1>1
<1>5. /\ firstAtt \in Nat /\ firstAtt >= afterId /\ h \in Nat /\ h >= nextHistory
      /\ found = {} => tid = afterId /\ firstAtt = afterId + 1
      /\ found # {} => tid \in DOMAIN threads
      /\ tid \in Nat
  BY <1>1, <1>3, <1>4
<1>6. own \in Int /\ (id = None => own = nextId) /\ (id # None => own = id)
  BY <1>1, IdFacts
<1> HIDE DEF found, afterId, tid, firstAtt, h, own
<1>7. /\ msg.thread = tid /\ msg.text = h /\ msg.history = h
      /\ msg.labels \subseteq DOMAIN labels \cup strays'
      /\ strays \subseteq strays' /\ strays' \subseteq SystemLabel \cup Int
      /\ msg.atts = named \cup firstAtt..(firstAtt + unnamed - 1)
  BY <1>1, <1>2 DEF SystemLabel
<1>8. msg \in Message
  <2>1. (IF d = None THEN Epoch + h ELSE d) \in Nat
    BY <1>5, IdFacts
  <2>2. named \cup firstAtt..(firstAtt + unnamed - 1) \subseteq Int
    BY <1>5, IdFacts
  <2>3. (IF ls = {} THEN {INBOX, UNREAD} ELSE ls) \subseteq SystemLabel \cup Int
    BY <1>1 DEF SystemLabel
  <2> QED
    BY <1>5, <2>1, <2>2, <2>3 DEF Message, Text
<1> HIDE DEF msg
<1>9. nextId' \in Nat /\ nextId' >= firstAtt /\ nextId' >= nextId
  BY <1>1, <1>2, <1>4, <1>5
<1>10. \A i \in msg.atts : i \in named \/ (i \in Nat /\ firstAtt <= i /\ i < nextId')
  BY <1>2, <1>5, <1>7
<1>11. \A i \in {own} \cup msg.atts : Number(i) < nextId' \/ Number(i) < IdLimit - 1
  <2>1. \A i \in named \cup SeedMsg : Number(i) < nextId' \/ Number(i) < IdLimit - 1
    BY <1>1, <1>9, IdFacts
  <2>2. id = None => Number(own) < nextId'
    BY <1>1, <1>4, <1>5, <1>6, <1>9, IdFacts
  <2> QED
    BY <1>6, <1>10, <2>1, <2>2, IdFacts
<1>12. id = None /\ named = {} => \A i \in {own} \cup msg.atts : Number(i) < nextId'
  BY <1>1, <1>4, <1>5, <1>6, <1>9, <1>10, IdFacts
<1>13. found = {} => tid \in Nat /\ nextId <= tid /\ tid < nextId'
  BY <1>1, <1>4, <1>5, <1>9
<1>14. /\ CurrentInv'
       /\ CurrentPast /\ (\A i \in {own} \cup msg.atts : Number(i) < nextId') => CurrentPast'
       /\ own \notin DOMAIN messages =>
            /\ CurrentShows => CurrentShows'
            /\ CurrentClean /\ msg.atts \cap attachments = {} => CurrentClean'
  BY <1>2, <1>5, <1>6, <1>7, <1>8, <1>9, <1>11, <1>13, AddMessage
<1>15. collided' \/ (own \notin DOMAIN messages /\ msg.atts \cap attachments = {})
  BY <1>2
<1>16. collided' \in BOOLEAN /\ (collided => collided')
  BY <1>2
<1> QED
  BY <1>12, <1>14, <1>15, <1>16

-----------------------------------------------------------------------------
(* The requests. *)

LEMMA RequestStep ==
  ASSUME MailInv, CurrentInv', lock = "free" /\ ~partial => CurrentPast',
         collided' \in BOOLEAN, collided' \/ CurrentClean',
         UNCHANGED <<partial, lock, saved>>
  PROVE  /\ MailInv'
         /\ ShowsInv /\ (collided' \/ CurrentShows') => ShowsInv'
BY DEF MailInv, ShowsInv, CurrentInv, CurrentPast, CurrentClean, CurrentShows

LEMMA CurrentFacts ==
  ASSUME MailInv
  PROVE  /\ CurrentInv
         /\ lock = "free" /\ ~partial => CurrentPast
         /\ collided \in BOOLEAN /\ (collided \/ CurrentClean)
         /\ ShowsInv => collided \/ CurrentShows
BY DEF MailInv, ShowsInv, CurrentInv, CurrentPast, CurrentClean, CurrentShows

LEMMA SendKeeps ==
  ASSUME MailInv, NEW t, NEW s \in Subject, SendMessage(t, s)
  PROVE  MailInv' /\ (ShowsInv => ShowsInv')
<1> DEFINE found == Found(t, s)
           tid == IF found = {} THEN nextId ELSE CHOOSE x \in found : TRUE
           h == nextHistory + New(found)
           own == nextId + New(found)
           msg == [thread |-> tid, subject |-> s, labels |-> {SENT}, date |-> Epoch + h,
                   text |-> h, history |-> h, atts |-> {}]
<1>1. /\ CurrentInv /\ lock = "free"
      /\ nextId \in Nat /\ nextHistory \in Nat
      /\ SystemLabel \subseteq DOMAIN labels
      /\ DOMAIN threads \subseteq Nat /\ strays \subseteq SystemLabel \cup Int
  BY CurrentFacts DEF CurrentInv, BoxInv, Shape, SendMessage, MayCreate
<1>2. /\ messages' = Put(messages, own, msg)
      /\ threads' = Refresh(WithThread(found, tid), messages', tid)
      /\ nextId' = own + 1 /\ nextHistory' = h + 1
      /\ collided' = (collided \/ own \in DOMAIN messages)
      /\ UNCHANGED <<labels, attachments, partial, strays, lock, saved>>
  BY DEF SendMessage
<1>3. (found = {} /\ New(found) = 1) \/ (New(found) = 0 /\ \E x \in DOMAIN threads : found = {x})
  BY <1>1, FoundFacts, NewFacts
<1>4. /\ own \in Nat /\ own >= nextId /\ h \in Nat /\ h >= nextHistory
      /\ found = {} => tid = nextId /\ own = nextId + 1
      /\ found # {} => tid \in DOMAIN threads
      /\ tid \in Nat
  BY <1>1, <1>3
<1> HIDE DEF found, tid, h, own
<1>5. /\ msg.thread = tid /\ msg.text = h /\ msg.history = h /\ msg.atts = {}
      /\ msg.labels \subseteq DOMAIN labels \cup strays'
  BY <1>1, <1>2 DEF SystemLabel
<1>6. msg \in Message
  <2>1. Epoch + h \in Nat
    BY <1>4, IdFacts
  <2> QED
    BY <1>4, <2>1 DEF Message, SystemLabel, Text
<1> HIDE DEF msg
<1>7. attachments' = attachments \cup msg.atts
  BY <1>2, <1>5
<1>8. nextId' \in Nat /\ nextId' >= nextId
  BY <1>1, <1>2, <1>4
<1>9. \A i \in {own} \cup msg.atts : Number(i) < nextId'
  BY <1>2, <1>4, <1>5, IdFacts
<1>10. found = {} => tid \in Nat /\ nextId <= tid /\ tid < nextId'
  BY <1>1, <1>2, <1>4
<1>11. /\ CurrentInv'
       /\ CurrentPast => CurrentPast'
       /\ own \notin DOMAIN messages =>
            /\ CurrentShows => CurrentShows'
            /\ CurrentClean /\ msg.atts \cap attachments = {} => CurrentClean'
  BY <1>1, <1>2, <1>4, <1>5, <1>6, <1>7, <1>8, <1>9, <1>10, AddMessage
<1>12. collided' \in BOOLEAN /\ (collided => collided')
  BY <1>2, CurrentFacts
<1>13. collided' \/ own \notin DOMAIN messages
  BY <1>2
<1>14. msg.atts \cap attachments = {}
  BY <1>5
<1>15. collided' \/ CurrentClean'
  BY <1>11, <1>12, <1>13, <1>14, CurrentFacts
<1>16. ShowsInv => collided' \/ CurrentShows'
  BY <1>11, <1>12, <1>13, CurrentFacts
<1> QED
  BY <1>2, <1>11, <1>12, <1>15, <1>16, CurrentFacts, RequestStep

LEMMA InsertKeeps ==
  ASSUME MailInv, NEW t, NEW s \in Subject, NEW ls \in SUBSET (SystemLabel \cup Int),
         NEW d \in Nat \cup {None}, InsertMessage(t, s, ls, d)
  PROVE  MailInv' /\ (ShowsInv => ShowsInv')
<1>1. /\ lock = "free" /\ UNCHANGED <<partial, lock, saved>>
      /\ Insertion(None, t, s, ls, d, {}, 0)
  BY DEF InsertMessage, MayCreate, Insertion
<1>2. /\ CurrentInv'
      /\ CurrentPast => CurrentPast'
      /\ collided' \in BOOLEAN /\ (collided => collided')
      /\ collided' \/ ((CurrentShows => CurrentShows') /\ (CurrentClean => CurrentClean'))
  <2>1. {} \in SUBSET SeedAtt /\ None \in SeedMsg \cup {None} /\ 0 \in Nat
    OBVIOUS
  <2> QED
    BY <1>1, <2>1, CurrentFacts, InsertionKeeps
<1> QED
  BY <1>1, <1>2, CurrentFacts, RequestStep

LEMMA RelabelMessageKeeps ==
  ASSUME MailInv, NEW m, NEW add \in SUBSET (SystemLabel \cup Int), NEW rem,
         RelabelMessage(m, add, rem)
  PROVE  MailInv' /\ (ShowsInv => ShowsInv')
<1>1. /\ lock = "free" /\ {m} \in SUBSET DOMAIN messages
      /\ messages' = Relabelled({m}, add, rem) /\ nextHistory' = nextHistory + 1
      /\ strays' = strays \cup (add \ DOMAIN labels)
      /\ UNCHANGED <<threads, labels, attachments, nextId, partial, collided, lock, saved>>
  BY DEF RelabelMessage, MayChange, LabelIds
<1>2. \A k, n \in {m} : messages[k].thread = messages[n].thread
  OBVIOUS
<1>3. /\ CurrentInv'
      /\ CurrentPast => CurrentPast'
      /\ CurrentShows => CurrentShows'
      /\ CurrentClean => CurrentClean'
  BY <1>1, <1>2, CurrentFacts, RelabelMessages
<1> QED
  BY <1>1, <1>3, CurrentFacts, RequestStep

LEMMA RelabelThreadKeeps ==
  ASSUME MailInv, NEW t, NEW add \in SUBSET (SystemLabel \cup Int), NEW rem,
         RelabelThread(t, add, rem)
  PROVE  MailInv' /\ (ShowsInv => ShowsInv')
<1> DEFINE S == InThread(messages, t)
<1>1. /\ lock = "free" /\ t \in DOMAIN threads
      /\ messages' = Relabelled(S, add, rem) /\ nextHistory' = nextHistory + 1
      /\ threads' = [threads EXCEPT ![t].history = nextHistory]
      /\ strays' = strays \cup (add \ DOMAIN labels)
      /\ UNCHANGED <<labels, attachments, nextId, partial, collided, lock, saved>>
  BY DEF RelabelThread, MayChange, LabelIds
<1>2. S \in SUBSET DOMAIN messages /\ \A k, n \in S : messages[k].thread = messages[n].thread
  BY DEF InThread
<1>3. \E u \in DOMAIN threads :
        S = InThread(messages, u) /\ threads' = [threads EXCEPT ![u].history = nextHistory]
  BY <1>1
<1> HIDE DEF S
<1>4. /\ CurrentInv'
      /\ CurrentPast => CurrentPast'
      /\ CurrentShows => CurrentShows'
      /\ CurrentClean => CurrentClean'
  BY <1>1, <1>2, <1>3, CurrentFacts, RelabelMessages
<1> QED
  BY <1>1, <1>4, CurrentFacts, RequestStep

LEMMA DeleteMessageKeeps ==
  ASSUME MailInv, NEW m, DeleteMessage(m)
  PROVE  MailInv' /\ (ShowsInv => ShowsInv')
<1> DEFINE t == messages[m].thread
<1>1. /\ lock = "free" /\ m \in DOMAIN messages
      /\ messages' = Without(messages, {m})
      /\ threads' = IF InThread(messages', t) = {} THEN Without(threads, {t})
                    ELSE Refresh(threads, messages', t)
      /\ attachments' = attachments \ messages[m].atts
      /\ UNCHANGED <<labels, nextId, nextHistory, partial, collided, strays, lock, saved>>
  BY DEF DeleteMessage, marks
<1>2. t \in DOMAIN threads /\ {m} \in SUBSET InThread(messages, t)
  BY <1>1, CurrentFacts DEF CurrentInv, BoxInv, Linked, InThread
<1>3. AttsOf(messages, {m}) = messages[m].atts
  BY DEF AttsOf
<1> HIDE DEF t
<1>4. /\ CurrentInv'
      /\ CurrentPast => CurrentPast'
      /\ CurrentShows => CurrentShows'
      /\ CurrentClean => CurrentClean'
  BY <1>1, <1>2, <1>3, CurrentFacts, RemoveMessages
<1> QED
  BY <1>1, <1>4, CurrentFacts, RequestStep

LEMMA DeleteThreadKeeps ==
  ASSUME MailInv, NEW t, DeleteThread(t)
  PROVE  MailInv' /\ (ShowsInv => ShowsInv')
<1> DEFINE S == InThread(messages, t)
<1>1. /\ lock = "free" /\ t \in DOMAIN threads
      /\ messages' = Without(messages, S) /\ threads' = Without(threads, {t})
      /\ attachments' = attachments \ AttsOf(messages, S)
      /\ UNCHANGED <<labels, nextId, nextHistory, partial, collided, strays, lock, saved>>
  BY DEF DeleteThread, marks
<1>2. InThread(messages', t) = {}
  BY <1>1 DEF InThread, Without
<1>3. S \in SUBSET InThread(messages, t)
  OBVIOUS
<1>4. threads' = IF InThread(messages', t) = {} THEN Without(threads, {t})
                 ELSE Refresh(threads, messages', t)
  BY <1>1, <1>2
<1> HIDE DEF S
<1>5. /\ CurrentInv'
      /\ CurrentPast => CurrentPast'
      /\ CurrentShows => CurrentShows'
      /\ CurrentClean => CurrentClean'
  BY <1>1, <1>3, <1>4, CurrentFacts, RemoveMessages
<1> QED
  BY <1>1, <1>5, CurrentFacts, RequestStep

LEMMA LabelsKeep ==
  ASSUME MailInv,
         \/ \E name \in Name : CreateLabel(name)
         \/ \E l \in LabelIds, name \in Name : UpdateLabel(l, name)
         \/ \E l \in LabelIds : DeleteLabel(l)
  PROVE  MailInv' /\ (ShowsInv => ShowsInv')
<1>1. /\ CurrentInv
      /\ messages \in [DOMAIN messages -> Message]
      /\ labels \in [DOMAIN labels -> SystemLabel \cup Name]
      /\ SystemLabel \subseteq DOMAIN labels /\ DOMAIN labels \subseteq SystemLabel \cup Int
      /\ nextId \in Nat
  BY CurrentFacts DEF CurrentInv, BoxInv, Shape
<1>2. ASSUME messages' = messages
      PROVE  messages' = [m \in DOMAIN messages |-> [messages[m] EXCEPT !.labels = @ \ {}]]
  <2>1. ASSUME NEW m \in DOMAIN messages
        PROVE  messages[m] = [messages[m] EXCEPT !.labels = @ \ {}]
    <3>1. messages[m] \in Message
      BY <1>1
    <3> QED
      BY <3>1 DEF Message
  <2> QED
    BY <1>1, <1>2, <2>1
<1>3. ASSUME NEW name \in Name, CreateLabel(name)
      PROVE  MailInv' /\ (ShowsInv => ShowsInv')
  <2>1. /\ lock = "free" /\ labels' = Put(labels, nextId, name) /\ nextId' = nextId + 1
        /\ UNCHANGED <<messages, threads, attachments, nextHistory, partial, collided, lock, saved>>
        /\ strays' = strays \ {}
    BY <1>3 DEF CreateLabel, marks
  <2>2. /\ DOMAIN labels' = DOMAIN labels \cup {nextId}
        /\ labels' \in [DOMAIN labels' -> SystemLabel \cup Name]
    BY <1>1, <2>1 DEF Put
  <2>3. \A l \in DOMAIN labels' \ DOMAIN labels : Number(l) < nextId'
    BY <1>1, <2>1, <2>2, IdFacts
  <2>4. /\ SystemLabel \subseteq DOMAIN labels' /\ DOMAIN labels' \subseteq SystemLabel \cup Int
        /\ DOMAIN labels \ {} \subseteq DOMAIN labels'
        /\ nextId' \in Nat /\ nextId' >= nextId
    BY <1>1, <2>1, <2>2
  <2>5. /\ CurrentInv'
        /\ CurrentPast => CurrentPast'
        /\ CurrentShows => CurrentShows'
        /\ CurrentClean => CurrentClean'
    BY <1>1, <1>2, <2>1, <2>2, <2>3, <2>4, ChangeLabels
  <2> QED
    BY <2>1, <2>5, CurrentFacts, RequestStep
<1>4. ASSUME NEW l, NEW name \in Name, UpdateLabel(l, name)
      PROVE  MailInv' /\ (ShowsInv => ShowsInv')
  <2>1. /\ lock = "free" /\ labels' = [labels EXCEPT ![l] = name]
        /\ UNCHANGED <<messages, threads, attachments, nextId, nextHistory, partial, collided,
                       lock, saved>>
        /\ strays' = strays \ {}
    BY <1>4 DEF UpdateLabel, marks
  <2>2. /\ DOMAIN labels' = DOMAIN labels
        /\ labels' \in [DOMAIN labels' -> SystemLabel \cup Name]
    BY <1>1, <2>1
  <2>3. /\ DOMAIN labels \ {} \subseteq DOMAIN labels'
        /\ nextId' \in Nat /\ nextId' >= nextId
        /\ \A k \in DOMAIN labels' \ DOMAIN labels : Number(k) < nextId'
    BY <1>1, <2>1, <2>2
  <2>4. /\ CurrentInv'
        /\ CurrentPast => CurrentPast'
        /\ CurrentShows => CurrentShows'
        /\ CurrentClean => CurrentClean'
    BY <1>1, <1>2, <2>1, <2>2, <2>3, ChangeLabels
  <2> QED
    BY <2>1, <2>4, CurrentFacts, RequestStep
<1>5. ASSUME NEW l, DeleteLabel(l)
      PROVE  MailInv' /\ (ShowsInv => ShowsInv')
  <2>1. /\ lock = "free" /\ l \in DOMAIN labels \ SystemLabel /\ labels' = Without(labels, {l})
        /\ messages' = [m \in DOMAIN messages |-> [messages[m] EXCEPT !.labels = @ \ {l}]]
        /\ UNCHANGED <<threads, attachments, nextId, nextHistory, partial, collided, lock, saved>>
        /\ strays' = strays \ {l}
    BY <1>5 DEF DeleteLabel, UserLabels, LabelIds
  <2>2. /\ DOMAIN labels' = DOMAIN labels \ {l}
        /\ labels' \in [DOMAIN labels' -> SystemLabel \cup Name]
    BY <1>1, <2>1 DEF Without
  <2>3. /\ SystemLabel \subseteq DOMAIN labels' /\ DOMAIN labels' \subseteq SystemLabel \cup Int
        /\ nextId' \in Nat /\ nextId' >= nextId
        /\ \A k \in DOMAIN labels' \ DOMAIN labels : Number(k) < nextId'
        /\ DOMAIN labels \ {l} \subseteq DOMAIN labels'
    <3>1. nextId' \in Nat /\ nextId' >= nextId
      BY <1>1, <2>1
    <3>2. DOMAIN labels' \ DOMAIN labels = {}
      BY <2>2
    <3>3. SystemLabel \subseteq DOMAIN labels'
      BY <1>1, <2>1, <2>2
    <3> QED
      BY <1>1, <2>2, <3>1, <3>2, <3>3
  <2>4. /\ CurrentInv'
        /\ CurrentPast => CurrentPast'
        /\ CurrentShows => CurrentShows'
        /\ CurrentClean => CurrentClean'
    BY <1>1, <2>1, <2>2, <2>3, ChangeLabels
  <2> QED
    BY <2>1, <2>4, CurrentFacts, RequestStep
<1> QED
  BY <1>3, <1>4, <1>5

-----------------------------------------------------------------------------
(* Reset, snapshot, restore and seeding. *)

\* A mailbox with labels only.
LEMMA EmptyFacts ==
  ASSUME NEW lbs, lbs \in [DOMAIN lbs -> SystemLabel \cup Name],
         SystemLabel \subseteq DOMAIN lbs, DOMAIN lbs \subseteq SystemLabel \cup SeedLabel
  PROVE  /\ BoxInv(<<>>, <<>>, lbs, {}, 1, 1, FALSE, {})
         /\ CleanInv(<<>>, <<>>, {}, FALSE)
         /\ Shows(<<>>, <<>>)
         /\ DOMAIN lbs = SystemLabel => Past(<<>>, <<>>, lbs, {}, 1)
<1>1. DOMAIN <<>> = {} /\ \A S : <<>> \in [{} -> S]
  OBVIOUS
<1>2. Shape(<<>>, <<>>, lbs, {}, 1, 1, FALSE)
  BY <1>1, IdFacts, FS_EmptySet DEF Shape
<1>3. Linked(<<>>, <<>>, lbs, {}) /\ Stamped(<<>>, <<>>, 1)
  BY <1>1 DEF Linked, Stamped
<1>4. Ids(<<>>, <<>>, lbs, {}) = DOMAIN lbs \ SystemLabel
  BY <1>1 DEF Ids
<1>5. Numbered(<<>>, <<>>, lbs, {}, 1)
  BY <1>4, IdFacts DEF Numbered
<1>6. CleanInv(<<>>, <<>>, {}, FALSE) /\ Shows(<<>>, <<>>)
  BY <1>1 DEF CleanInv, Held, Disjoint, Exact, Shows
<1>7. DOMAIN lbs = SystemLabel => Past(<<>>, <<>>, lbs, {}, 1)
  BY <1>4 DEF Past
<1> QED
  BY <1>2, <1>3, <1>5, <1>6, <1>7 DEF BoxInv

LEMMA SystemLabels ==
  ASSUME NEW lbs, lbs = [l \in SystemLabel |-> l]
  PROVE  /\ lbs \in [DOMAIN lbs -> SystemLabel \cup Name]
         /\ DOMAIN lbs = SystemLabel
OBVIOUS

LEMMA MailInitInv == MailInit => MailInv /\ ShowsInv
<1> SUFFICES ASSUME MailInit PROVE MailInv /\ ShowsInv
  OBVIOUS
<1> DEFINE lbs == [l \in SystemLabel |-> l]
<1>1. /\ messages = <<>> /\ threads = <<>> /\ labels = lbs /\ attachments = {}
      /\ nextId = 1 /\ nextHistory = 1 /\ partial = FALSE /\ lock = "free"
      /\ saved.messages = <<>> /\ saved.threads = <<>> /\ saved.labels = lbs
      /\ saved.attachments = {} /\ saved.nextId = 1 /\ saved.nextHistory = 1
      /\ saved.partial = FALSE /\ collided = FALSE /\ strays = {}
      /\ saved.collided = FALSE /\ saved.strays = {}
  BY DEF MailInit, EmptyMailbox
<1>2. lbs \in [DOMAIN lbs -> SystemLabel \cup Name] /\ DOMAIN lbs = SystemLabel
  BY SystemLabels
<1> HIDE DEF lbs
<1>3. /\ BoxInv(<<>>, <<>>, lbs, {}, 1, 1, FALSE, {}) /\ CleanInv(<<>>, <<>>, {}, FALSE)
      /\ Shows(<<>>, <<>>) /\ Past(<<>>, <<>>, lbs, {}, 1)
  BY <1>2, EmptyFacts
<1> QED
  BY <1>1, <1>3 DEF MailInv, ShowsInv

\* What another mailbox, loaded in the place of the current one, has to be.
LEMMA LoadStep ==
  ASSUME MailInv, NEW box, Load(box), UNCHANGED saved,
         lock' \in {"free", "seed"}, lock' = "seed" => ~box.partial,
         BoxInv(box.messages, box.threads, box.labels, box.attachments,
                box.nextId, box.nextHistory, box.partial, box.strays),
         box.collided \in BOOLEAN,
         lock' = "free" /\ ~box.partial =>
           Past(box.messages, box.threads, box.labels, box.attachments, box.nextId),
         box.collided \/ CleanInv(box.messages, box.threads, box.attachments, box.partial)
  PROVE  /\ MailInv'
         /\ ShowsInv /\ (box.collided \/ Shows(box.messages, box.threads)) => ShowsInv'
BY DEF MailInv, ShowsInv, Load

LEMMA ControlKeeps ==
  ASSUME MailInv, Reset \/ Snapshot \/ Restore
  PROVE  MailInv' /\ (ShowsInv => ShowsInv')
<1>1. CASE Reset
  <2> DEFINE lbs == [l \in SystemLabel |-> l]
  <2>1. /\ EmptyMailbox.messages = <<>> /\ EmptyMailbox.threads = <<>>
        /\ EmptyMailbox.labels = lbs /\ EmptyMailbox.attachments = {}
        /\ EmptyMailbox.nextId = 1 /\ EmptyMailbox.nextHistory = 1
        /\ EmptyMailbox.partial = FALSE /\ EmptyMailbox.collided = FALSE
        /\ EmptyMailbox.strays = {}
    BY DEF EmptyMailbox
  <2>2. lbs \in [DOMAIN lbs -> SystemLabel \cup Name] /\ DOMAIN lbs = SystemLabel
    BY SystemLabels
  <2> HIDE DEF lbs
  <2>3. /\ BoxInv(<<>>, <<>>, lbs, {}, 1, 1, FALSE, {}) /\ CleanInv(<<>>, <<>>, {}, FALSE)
        /\ Shows(<<>>, <<>>) /\ Past(<<>>, <<>>, lbs, {}, 1)
    BY <2>2, EmptyFacts
  <2>4. Load(EmptyMailbox) /\ lock' = "free" /\ saved' = saved
    BY <1>1 DEF Reset
  <2> QED
    BY <2>1, <2>3, <2>4, LoadStep
<1>2. CASE Snapshot
  <2>1. /\ lock = "free" /\ UNCHANGED <<messages, threads, labels, attachments, nextId,
                                         nextHistory, partial, collided, strays, lock>>
        /\ saved'.messages = messages /\ saved'.threads = threads /\ saved'.labels = labels
        /\ saved'.attachments = attachments /\ saved'.nextId = nextId
        /\ saved'.nextHistory = nextHistory /\ saved'.partial = partial
        /\ saved'.collided = collided /\ saved'.strays = strays
    BY <1>2 DEF Snapshot, Mailbox, mailbox, marks
  <2> QED
    BY <2>1 DEF MailInv, ShowsInv
<1>3. CASE Restore
  <2>1. Load(saved) /\ lock' = "free" /\ saved' = saved
    BY <1>3 DEF Restore
  <2>2. ShowsInv => saved.collided \/ Shows(saved.messages, saved.threads)
    BY DEF ShowsInv
  <2> QED
    BY <2>1, <2>2, LoadStep DEF MailInv
<1> QED
  BY <1>1, <1>2, <1>3

LEMMA SeedBeginKeeps ==
  ASSUME MailInv, NEW given, given \in [DOMAIN given -> Name], DOMAIN given \subseteq SeedLabel,
         SeedBegin(given)
  PROVE  MailInv' /\ (ShowsInv => ShowsInv')
<1> DEFINE lbs == [l \in SystemLabel \cup DOMAIN given |->
                     IF l \in SystemLabel THEN l ELSE given[l]]
           box == [EmptyMailbox EXCEPT !.labels = lbs]
<1>1. /\ DOMAIN lbs = SystemLabel \cup DOMAIN given
      /\ lbs \in [DOMAIN lbs -> SystemLabel \cup Name]
  OBVIOUS
<1>2. Load(box) /\ lock' = "seed" /\ saved' = saved
  BY DEF SeedBegin
<1> HIDE DEF lbs
<1>3. /\ box.messages = <<>> /\ box.threads = <<>> /\ box.labels = lbs
      /\ box.attachments = {} /\ box.nextId = 1 /\ box.nextHistory = 1 /\ box.partial = FALSE
      /\ box.collided = FALSE /\ box.strays = {}
  BY DEF EmptyMailbox
<1> HIDE DEF box
<1>4. /\ BoxInv(<<>>, <<>>, lbs, {}, 1, 1, FALSE, {}) /\ CleanInv(<<>>, <<>>, {}, FALSE)
      /\ Shows(<<>>, <<>>)
  BY <1>1, EmptyFacts
<1> QED
  BY <1>2, <1>3, <1>4, LoadStep

\* While a seed runs the counter may be behind the ids the seed has given.
LEMMA SeedMessageKeeps ==
  ASSUME MailInv, NEW id \in SeedMsg \cup {None}, NEW t, NEW s \in Subject,
         NEW ls \in SUBSET (SystemLabel \cup Int), NEW d \in Nat \cup {None},
         NEW named \in SUBSET SeedAtt, NEW unnamed \in Nat,
         SeedMessage(id, t, s, ls, d, named, unnamed)
  PROVE  MailInv' /\ (ShowsInv => ShowsInv')
<1>1. /\ lock = "seed" /\ lock' = lock /\ saved' = saved /\ partial' = partial
      /\ Insertion(id, t, s, ls, d, named, unnamed)
  BY DEF SeedMessage, Insertion
<1>2. /\ CurrentInv'
      /\ collided' \in BOOLEAN /\ (collided => collided')
      /\ collided' \/ ((CurrentShows => CurrentShows') /\ (CurrentClean => CurrentClean'))
  BY <1>1, CurrentFacts, InsertionKeeps
<1>3. collided' \/ CurrentClean'
  BY <1>2, CurrentFacts
<1>4. ShowsInv => collided' \/ CurrentShows'
  BY <1>2, CurrentFacts
<1> QED
  BY <1>1, <1>2, <1>3, <1>4, RequestStep

LEMMA SeedRefusedKeeps ==
  ASSUME MailInv, NEW id \in SeedMsg \cup {None}, NEW t, NEW s,
         NEW named \in SUBSET SeedAtt, SeedRefused(id, t, s, named)
  PROVE  MailInv' /\ (ShowsInv => ShowsInv')
<1> DEFINE found == Found(t, s)
           tid == nextId + (IF id = None THEN 1 ELSE 0)
<1> USE DEF CurrentInv, BoxInv
<1>1. /\ lock' = "free" /\ partial' = TRUE
      /\ UNCHANGED <<messages, labels, collided, strays, saved>>
  BY DEF SeedRefused
<1>2. /\ CurrentInv /\ collided \in BOOLEAN /\ (collided \/ CurrentClean)
      /\ ShowsInv => collided \/ CurrentShows
  BY CurrentFacts
<1>3. /\ nextId \in Nat /\ nextId > 0 /\ nextHistory \in Nat
      /\ threads \in [DOMAIN threads -> [history : Nat, snippet : Text]]
      /\ \A u \in DOMAIN threads : u \in Nat /\ u < nextId
      /\ attachments \subseteq Int /\ IsFiniteSet(DOMAIN threads)
  BY <1>2 DEF Shape
<1>4. CASE UNCHANGED <<threads, attachments, nextId, nextHistory>>
  <2>1. Shape(messages, threads, labels, attachments, nextId, nextHistory, partial)'
    BY <1>1, <1>2, <1>4 DEF Shape
  <2>2. CurrentInv' /\ (CurrentShows => CurrentShows')
    BY <1>1, <1>2, <1>4, <2>1 DEF CurrentShows
  <2>3. CurrentClean => CurrentClean'
    BY <1>1, <1>4 DEF CurrentClean, CleanInv
  <2> QED
    BY <1>1, <1>2, <2>2, <2>3 DEF MailInv, ShowsInv, CurrentClean, CurrentShows
<1>5. CASE /\ threads' = WithThread(found, tid)
           /\ attachments' = attachments \cup named
           /\ \E failed \in 0..1 : nextId' = tid + New(found) + failed
           /\ nextHistory' = nextHistory + New(found) + 1
  <2>1. tid \in Nat /\ tid >= nextId
    BY <1>3
  <2>2. (found = {} /\ New(found) = 1) \/ (found # {} /\ New(found) = 0)
    BY <1>2, FoundFacts, NewFacts
  <2> HIDE DEF found, tid
  <2>3. /\ nextId' \in Nat /\ nextId' >= tid /\ nextHistory' \in Nat
        /\ nextHistory' > nextHistory
        /\ found = {} => nextId' > tid
    BY <1>3, <1>5, <2>1, <2>2
  <2>4. /\ DOMAIN threads' = IF found = {} THEN DOMAIN threads \cup {tid} ELSE DOMAIN threads
        /\ \A u \in DOMAIN threads : threads'[u] = threads[u]
        /\ found = {} => threads'[tid].history = nextHistory
        /\ threads' \in [DOMAIN threads' -> [history : Nat, snippet : Text]]
    <3>1. CASE found = {}
      <4> DEFINE new == [history |-> nextHistory, snippet |-> NoText]
      <4>1. new \in [history : Nat, snippet : Text] /\ new.history = nextHistory
        BY <1>3 DEF NoText, Text
      <4>2. threads' = [x \in DOMAIN threads \cup {tid} |-> IF x = tid THEN new ELSE threads[x]]
        BY <1>5, <3>1 DEF WithThread, Put
      <4>3. tid \notin DOMAIN threads
        BY <1>3, <2>1
      <4> HIDE DEF new
      <4> QED
        BY <1>3, <3>1, <4>1, <4>2, <4>3
    <3>2. CASE found # {}
      BY <1>3, <1>5, <3>2 DEF WithThread
    <3> QED
      BY <3>1, <3>2
  <2>5. /\ \A u \in DOMAIN threads' : u \in Nat /\ u < nextId'
        /\ IsFiniteSet(DOMAIN threads')
    BY <1>3, <2>1, <2>3, <2>4, FS_AddElement
  <2>6. attachments' \subseteq Int
    BY <1>3, <1>5, IdFacts
  <2>7. Shape(messages, threads, labels, attachments, nextId, nextHistory, partial)'
    BY <1>1, <1>2, <1>3, <2>1, <2>3, <2>4, <2>5, <2>6 DEF Shape
  <2>8. Linked(messages, threads, labels, strays)'
    BY <1>1, <1>2, <2>4 DEF Linked
  <2>9. Stamped(messages, threads, nextHistory)'
    <3>1. \A u \in DOMAIN threads' : threads'[u].history < nextHistory'
      BY <1>2, <1>3, <2>3, <2>4 DEF Stamped
    <3>2. \A m \in DOMAIN messages : messages[m].history < nextHistory'
      BY <1>2, <1>3, <2>3 DEF Stamped, Shape, Message
    <3> QED
      BY <1>1, <1>2, <3>1, <3>2 DEF Stamped
  <2>10. Numbered(messages, threads, labels, attachments, nextId)'
    <3>1. \A i \in Ids(messages, threads, labels, attachments)' :
            i \in Ids(messages, threads, labels, attachments) \/ i \in DOMAIN threads' \/ i \in named
      BY <1>1, <1>5 DEF Ids
    <3>2. \A i \in DOMAIN threads' : Number(i) < nextId'
      BY <2>5, IdFacts
    <3>3. \A i \in named : Number(i) < IdLimit - 1 \/ Number(i) < nextId'
      BY <1>3, <2>1, <2>3, IdFacts
    <3>4. nextId' >= nextId
      BY <1>3, <2>1, <2>3
    <3> QED
      BY <1>2, <1>3, <2>3, <3>1, <3>2, <3>3, <3>4, IdFacts DEF Numbered
  <2>11. CurrentClean => CurrentClean'
    BY <1>1, <1>5 DEF CurrentClean, CleanInv, Held
  <2>12. CurrentShows => CurrentShows'
    <3>1. ASSUME NEW u \in DOMAIN threads', InThread(messages, u) # {}
          PROVE  u \in DOMAIN threads /\ threads'[u] = threads[u]
      BY <1>2, <2>4, <3>1 DEF Linked, InThread
    <3> QED
      BY <1>1, <3>1 DEF CurrentShows, Shows
  <2> QED
    BY <1>1, <1>2, <2>7, <2>8, <2>9, <2>10, <2>11, <2>12
       DEF MailInv, ShowsInv, CurrentClean, CurrentShows
<1> QED
  BY <1>4, <1>5 DEF SeedRefused

-----------------------------------------------------------------------------
(* bump_next_id *)

LEMMA TopFacts ==
  ASSUME CurrentInv
  PROVE  /\ TopId \in Nat /\ \A i \in UsedIds : Number(i) <= TopId
         /\ TopId < nextId \/ TopId < IdLimit - 1
<1> DEFINE N == {0} \cup {Number(i) : i \in UsedIds}
<1>1. nextId \in Nat /\ nextId > 0
  BY DEF CurrentInv, BoxInv, Shape
<1>2. \A i \in UsedIds : Number(i) < nextId \/ Number(i) < IdLimit - 1
  BY DEF CurrentInv, BoxInv, Numbered, Ids, UsedIds, UserLabels, LabelIds
<1>3. N \subseteq Nat /\ N # {} /\ \A n \in N : n < nextId \/ n < IdLimit - 1
  BY <1>1, <1>2, IdFacts
<1>4. \A i \in UsedIds : Number(i) \in N
  OBVIOUS
<1>5. TopId = CHOOSE n \in N : \A i \in UsedIds : Number(i) <= n
  BY DEF TopId
<1> HIDE DEF N
<1>6. nextId + IdLimit \in Nat /\ \A n \in N : n <= nextId + IdLimit
  BY <1>1, <1>3, IdFacts
<1>7. \E n \in N : \A k \in N : k <= n
  BY <1>3, <1>6, BoundedHasGreatest
<1>8. \E n \in N : \A i \in UsedIds : Number(i) <= n
  BY <1>4, <1>7
<1>9. TopId \in N /\ \A i \in UsedIds : Number(i) <= TopId
  BY <1>5, <1>8
<1> QED
  BY <1>3, <1>9

LEMMA SeedEndKeeps ==
  ASSUME MailInv, SeedEnd
  PROVE  MailInv' /\ (ShowsInv => ShowsInv')
<1>1. /\ lock' = "free"
      /\ nextId' = IF TopId >= nextId THEN (TopId + 1) % IdLimit ELSE nextId
      /\ UNCHANGED <<messages, threads, labels, attachments, nextHistory, partial, collided, strays, saved>>
  BY DEF SeedEnd, marks
<1>2. CurrentInv /\ nextId \in Nat /\ nextId > 0
  BY CurrentFacts DEF CurrentInv, BoxInv, Shape
<1>3. /\ TopId \in Nat /\ \A i \in UsedIds : Number(i) <= TopId
      /\ TopId < nextId \/ TopId < IdLimit - 1
  BY <1>2, TopFacts
<1> HIDE DEF TopId
<1>4. nextId' \in Nat /\ nextId' >= nextId /\ nextId' > TopId
  <2>1. CASE TopId < nextId
    BY <1>1, <1>2, <1>3, <2>1
  <2>2. CASE TopId >= nextId
    <3>1. TopId + 1 \in Nat /\ TopId + 1 < IdLimit /\ IdLimit \in Nat
      BY <1>2, <1>3, <2>2, IdFacts
    <3>2. (TopId + 1) % IdLimit = TopId + 1
      BY <3>1
    <3> QED
      BY <1>1, <1>2, <1>3, <2>2, <3>2
  <2> QED
    BY <1>2, <1>3, <2>1, <2>2
<1>5. CurrentPast'
  <2>1. \A i \in UsedIds : Number(i) < nextId'
    BY <1>3, <1>4, IdFacts
  <2> QED
    BY <1>1, <2>1 DEF CurrentPast, Past, Ids, UsedIds, UserLabels, LabelIds
<1>6. Numbered(messages, threads, labels, attachments, nextId)'
  BY <1>5 DEF CurrentPast, Past, Numbered
<1>7. Shape(messages, threads, labels, attachments, nextId, nextHistory, partial)'
  <2>1. \A t \in DOMAIN threads : t \in Nat /\ t < nextId'
    BY <1>2, <1>4 DEF CurrentInv, BoxInv, Shape
  <2> QED
    BY <1>1, <1>2, <1>4, <2>1 DEF CurrentInv, BoxInv, Shape
<1>8. CurrentInv'
  BY <1>1, <1>2, <1>6, <1>7 DEF CurrentInv, BoxInv
<1> QED
  BY <1>1, <1>5, <1>8 DEF MailInv, ShowsInv, CurrentInv, CurrentPast
=============================================================================
