----------------------------- MODULE GmailMailbox -----------------------------
(***************************************************************************)
(* The Gmail twin's domain state and the requests that change it           *)
(* (twins/crates/twin-gmail, GmailTwinService): messages, threads, labels,  *)
(* attachments and the two counters.                                       *)
(*                                                                         *)
(* A request runs under the runtime mutex and is one step; seeding, which  *)
(* inserts message after message, is a step each, with lock telling that   *)
(* it holds the mutex.  Requests the code refuses change nothing and are   *)
(* left out, except a refused seed, which leaves what it did before.       *)
(*                                                                         *)
(* A number n stands for the id msg_n, thread_n, Label_n or att_n of its   *)
(* map, a negative number for a seeded id without a number; below ten the   *)
(* order of the numbers is the order of the map's keys.  Senders and       *)
(* recipients are left out; a text is the history id it arrived with.      *)
(***************************************************************************)
EXTENDS Integers, FiniteSets

CONSTANTS
  INBOX, SENT, TRASH, UNREAD,  \* system labels that requests set
  None,          \* an absent id, label set or date
  Subject,       \* subjects, without their reply and forward prefixes
  NoSubject,     \* the empty one
  Name,          \* names of user labels
  SeedMsg,       \* message ids that seed data gives
  SeedLabel,     \* label ids that seed data gives
  SeedAtt,       \* attachment ids that seed data gives
  Date,          \* dates that clients give
  Epoch,         \* the date of every generated date, before its history id
  IdLimit,       \* 2^64: the width of next_id
  MaxId,         \* bound: nothing is created once next_id exceeds it
  MaxHistory,    \* bound: nothing changes once next_history_id exceeds it
  MaxSaved       \* bound: a snapshot is taken of mailboxes with fewer messages

ASSUME IdAssumption ==
  /\ SeedMsg \cup SeedLabel \cup SeedAtt \subseteq {n \in Int : n < IdLimit - 1}
  /\ IdLimit \in Nat /\ MaxId \in Nat /\ MaxHistory \in Nat /\ MaxSaved \in Nat
  /\ Epoch \in Nat /\ Date \subseteq Nat
  /\ NoSubject \in Subject /\ None \notin Int

VARIABLES
  messages,      \* message id -> thread, subject, labels, date, text, ...
  threads,       \* thread id -> history id and snippet
  labels,        \* label id -> its name
  attachments,   \* ids in the attachment store
  nextId,        \* the number of the next id, whatever it names
  nextHistory,   \* the next history id
  partial,       \* did a seed fail after it changed the mailbox?
  collided,      \* did a message take the id of another, or of an attachment
                 \* that was there?
  strays,        \* label ids put on messages while there was no such label
  lock,          \* "free", or "seed" while a seed runs
  saved          \* a snapshot some client holds

marks == <<partial, collided, strays>>
mailbox == <<messages, threads, labels, attachments, nextId, nextHistory, marks>>
mailVars == <<mailbox, lock, saved>>

-----------------------------------------------------------------------------
(* The mailbox. *)

SystemLabel == {INBOX, SENT, TRASH, UNREAD}
NoText == 0
Text == Nat

Message == [thread : Int, subject : Subject, labels : SUBSET (SystemLabel \cup Int),
            date : Nat, text : Text, history : Nat, atts : SUBSET Int]

EmptyMailbox ==
  [messages |-> <<>>, threads |-> <<>>, labels |-> [l \in SystemLabel |-> l],
   attachments |-> {}, nextId |-> 1, nextHistory |-> 1,
   partial |-> FALSE, collided |-> FALSE, strays |-> {}]

Mailbox ==
  [messages |-> messages, threads |-> threads, labels |-> labels,
   attachments |-> attachments, nextId |-> nextId, nextHistory |-> nextHistory,
   partial |-> partial, collided |-> collided, strays |-> strays]

Load(box) ==
  /\ messages' = box.messages
  /\ threads' = box.threads
  /\ labels' = box.labels
  /\ attachments' = box.attachments
  /\ nextId' = box.nextId
  /\ nextHistory' = box.nextHistory
  /\ partial' = box.partial
  /\ collided' = box.collided
  /\ strays' = box.strays

MailInit ==
  /\ messages = EmptyMailbox.messages
  /\ threads = EmptyMailbox.threads
  /\ labels = EmptyMailbox.labels
  /\ attachments = EmptyMailbox.attachments
  /\ nextId = EmptyMailbox.nextId
  /\ nextHistory = EmptyMailbox.nextHistory
  /\ partial = EmptyMailbox.partial
  /\ collided = EmptyMailbox.collided
  /\ strays = EmptyMailbox.strays
  /\ lock = "free"
  /\ saved = EmptyMailbox

\* An insertion into a map replaces what was there.
Put(f, k, v) == [x \in DOMAIN f \cup {k} |-> IF x = k THEN v ELSE f[x]]
Without(f, S) == [x \in DOMAIN f \ S |-> f[x]]

LabelIds == DOMAIN labels
UserLabels == LabelIds \ SystemLabel

InThread(ms, t) == {m \in DOMAIN ms : ms[m].thread = t}
AttsOf(ms, S) == UNION {ms[m].atts : m \in S}

\* Of several messages with the newest date, the one with the last key.
Latest(ms, t) ==
  CHOOSE m \in InThread(ms, t) : \A n \in InThread(ms, t) :
    ms[n].date < ms[m].date \/ (ms[n].date = ms[m].date /\ n <= m)

\* Mutant: the message last added is shown, whatever its date.
RefreshLastAdded(ths, ms, t) ==
  IF t \notin DOMAIN ths \/ InThread(ms, t) = {} THEN ths
  ELSE LET l == CHOOSE m \in InThread(ms, t) :
                  \A n \in InThread(ms, t) : ms[n].text <= ms[m].text
       IN Put(ths, t, [history |-> ms[l].history, snippet |-> ms[l].text])

\* update_thread_snippet
Refresh(ths, ms, t) ==
  IF t \notin DOMAIN ths \/ InThread(ms, t) = {} THEN ths
  ELSE LET l == Latest(ms, t)
       IN Put(ths, t, [history |-> ms[l].history, snippet |-> ms[l].text])

\* find_or_create_thread, up to the creation: the thread named if it exists,
\* else that of the first message on the same subject; {} if there is none.
Found(t, s) ==
  LET same == {m \in DOMAIN messages : s # NoSubject /\ messages[m].subject = s}
      first == CHOOSE m \in same : \A n \in same : m <= n
  IN IF t \in DOMAIN threads THEN {t}
     ELSE IF same = {} THEN {} ELSE {messages[first].thread}

\* Its last part: the new thread takes an id and a history id.
WithThread(found, t) ==
  IF found = {} THEN Put(threads, t, [history |-> nextHistory, snippet |-> NoText])
  ELSE threads

New(found) == 1 - Cardinality(found)

-----------------------------------------------------------------------------
(* Messages. *)

MayCreate == lock = "free" /\ nextId <= MaxId /\ nextHistory <= MaxHistory
MayChange == lock = "free" /\ nextHistory <= MaxHistory

SendMessage(t, s) ==
  LET found == Found(t, s)
      tid == IF found = {} THEN nextId ELSE CHOOSE x \in found : TRUE
      h == nextHistory + New(found)
      msg == [thread |-> tid, subject |-> s, labels |-> {SENT}, date |-> Epoch + h,
              text |-> h, history |-> h, atts |-> {}]
  IN /\ MayCreate
     /\ messages' = Put(messages, nextId + New(found), msg)
     /\ threads' = Refresh(WithThread(found, tid), messages', tid)
     /\ nextId' = nextId + New(found) + 1
     /\ nextHistory' = h + 1
     /\ collided' = (collided \/ nextId + New(found) \in DOMAIN messages)
     /\ UNCHANGED <<labels, attachments, partial, strays, lock, saved>>

\* InsertMessage, with every input its callers give; unnamed is the number of
\* attachments without an id, named the ids of the others.
Insertion(id, t, s, ls, d, named, unnamed) ==
  LET found == Found(t, s)
      own == IF id = None THEN nextId ELSE id
      afterId == nextId + (IF id = None THEN 1 ELSE 0)
      tid == IF found = {} THEN afterId ELSE CHOOSE x \in found : TRUE
      firstAtt == afterId + New(found)
      h == nextHistory + New(found)
      msg == [thread |-> tid, subject |-> s,
              labels |-> IF ls = {} THEN {INBOX, UNREAD} ELSE ls,
              date |-> IF d = None THEN Epoch + h ELSE d,
              text |-> h, history |-> h,
              atts |-> named \cup firstAtt..(firstAtt + unnamed - 1)]
  IN /\ messages' = Put(messages, own, msg)
     /\ threads' = Refresh(WithThread(found, tid), messages', tid)
     /\ attachments' = attachments \cup msg.atts
     /\ nextId' = firstAtt + unnamed
     /\ nextHistory' = h + 1
     /\ collided' = (collided \/ own \in DOMAIN messages \/ msg.atts \cap attachments # {})
     /\ strays' = strays \cup (ls \ LabelIds)
     /\ UNCHANGED <<labels, partial, saved>>

InsertMessage(t, s, ls, d) ==
  MayCreate /\ Insertion(None, t, s, ls, d, {}, 0) /\ UNCHANGED lock

\* Every label operation removes labels, adds labels and stamps the message.
Relabelled(S, add, rem) ==
  [m \in DOMAIN messages |->
     IF m \in S THEN [messages[m] EXCEPT !.labels = (@ \ rem) \cup add,
                                         !.history = nextHistory]
     ELSE messages[m]]

RelabelMessage(m, add, rem) ==
  /\ MayChange /\ m \in DOMAIN messages
  /\ messages' = Relabelled({m}, add, rem)
  /\ nextHistory' = nextHistory + 1
  /\ strays' = strays \cup (add \ LabelIds)
  /\ UNCHANGED <<threads, labels, attachments, nextId, partial, collided, lock, saved>>

ModifyMessage(m, add, rem) == RelabelMessage(m, add, rem)
TrashMessage(m) == RelabelMessage(m, {TRASH}, {INBOX})
UntrashMessage(m) == RelabelMessage(m, {INBOX}, {TRASH})

\* Mutant: the thread stays when its last message goes.
DeleteMessageKeepsThread(m) ==
  /\ lock = "free" /\ m \in DOMAIN messages
  /\ messages' = Without(messages, {m})
  /\ threads' = Refresh(threads, messages', messages[m].thread)
  /\ attachments' = attachments \ messages[m].atts
  /\ UNCHANGED <<labels, nextId, nextHistory, marks, lock, saved>>

DeleteMessage(m) ==
  LET t == messages[m].thread IN
  /\ lock = "free" /\ m \in DOMAIN messages
  /\ messages' = Without(messages, {m})
  /\ threads' = IF InThread(messages', t) = {} THEN Without(threads, {t})
                ELSE Refresh(threads, messages', t)
  /\ attachments' = attachments \ messages[m].atts
  /\ UNCHANGED <<labels, nextId, nextHistory, marks, lock, saved>>

-----------------------------------------------------------------------------
(* Threads: one history id for the thread and all its messages. *)

\* Mutant: the history id is not used up.
RelabelThreadKeepsCounter(t, add, rem) ==
  /\ MayChange /\ t \in DOMAIN threads
  /\ messages' = Relabelled(InThread(messages, t), add, rem)
  /\ threads' = [threads EXCEPT ![t].history = nextHistory]
  /\ strays' = strays \cup (add \ LabelIds)
  /\ UNCHANGED <<labels, attachments, nextId, nextHistory, partial, collided, lock, saved>>

RelabelThread(t, add, rem) ==
  /\ MayChange /\ t \in DOMAIN threads
  /\ messages' = Relabelled(InThread(messages, t), add, rem)
  /\ threads' = [threads EXCEPT ![t].history = nextHistory]
  /\ nextHistory' = nextHistory + 1
  /\ strays' = strays \cup (add \ LabelIds)
  /\ UNCHANGED <<labels, attachments, nextId, partial, collided, lock, saved>>

ModifyThread(t, add, rem) == RelabelThread(t, add, rem)
TrashThread(t) == RelabelThread(t, {TRASH}, {INBOX})
UntrashThread(t) == RelabelThread(t, {INBOX}, {TRASH})

\* Mutant: the attachments of the messages stay in the store.
DeleteThreadKeepsAttachments(t) ==
  /\ lock = "free" /\ t \in DOMAIN threads
  /\ messages' = Without(messages, InThread(messages, t))
  /\ threads' = Without(threads, {t})
  /\ UNCHANGED <<labels, attachments, nextId, nextHistory, marks, lock, saved>>

\* Mutant: only the thread itself is removed.
DeleteThreadKeepsMessages(t) ==
  /\ lock = "free" /\ t \in DOMAIN threads
  /\ threads' = Without(threads, {t})
  /\ UNCHANGED <<messages, labels, attachments, nextId, nextHistory, marks,
                 lock, saved>>

DeleteThread(t) ==
  /\ lock = "free" /\ t \in DOMAIN threads
  /\ messages' = Without(messages, InThread(messages, t))
  /\ threads' = Without(threads, {t})
  /\ attachments' = attachments \ AttsOf(messages, InThread(messages, t))
  /\ UNCHANGED <<labels, nextId, nextHistory, marks, lock, saved>>

-----------------------------------------------------------------------------
(* Labels. *)

CreateLabel(name) ==
  /\ lock = "free" /\ nextId <= MaxId
  /\ \A l \in LabelIds : labels[l] # name
  /\ labels' = Put(labels, nextId, name)
  /\ nextId' = nextId + 1
  /\ UNCHANGED <<messages, threads, attachments, nextHistory, marks, lock, saved>>

\* A new name is not compared with those of the other labels.
UpdateLabel(l, name) ==
  /\ lock = "free" /\ l \in UserLabels
  /\ labels' = [labels EXCEPT ![l] = name]
  /\ UNCHANGED <<messages, threads, attachments, nextId, nextHistory, marks,
                 lock, saved>>

\* Mutant: the messages keep the label.
DeleteLabelKeepsUses(l) ==
  /\ lock = "free" /\ l \in UserLabels
  /\ labels' = Without(labels, {l})
  /\ strays' = strays \ {l}
  /\ UNCHANGED <<messages, threads, attachments, nextId, nextHistory, partial, collided,
                 lock, saved>>

\* Mutant: system labels are deleted, too.
DeleteLabelOfSystem(l) ==
  /\ lock = "free"
  /\ labels' = Without(labels, {l})
  /\ messages' = [m \in DOMAIN messages |-> [messages[m] EXCEPT !.labels = @ \ {l}]]
  /\ strays' = strays \ {l}
  /\ UNCHANGED <<threads, attachments, nextId, nextHistory, partial, collided, lock, saved>>

DeleteLabel(l) ==
  /\ lock = "free" /\ l \in UserLabels
  /\ labels' = Without(labels, {l})
  /\ messages' = [m \in DOMAIN messages |-> [messages[m] EXCEPT !.labels = @ \ {l}]]
  /\ strays' = strays \ {l}
  /\ UNCHANGED <<threads, attachments, nextId, nextHistory, partial, collided, lock, saved>>

-----------------------------------------------------------------------------
(* Reset, snapshot, restore and seeding, as the control plane calls them. *)

Reset == lock = "free" /\ Load(EmptyMailbox) /\ UNCHANGED <<lock, saved>>

Snapshot ==
  /\ lock = "free" /\ Cardinality(DOMAIN messages) < MaxSaved
  /\ saved' = Mailbox
  /\ UNCHANGED <<mailbox, lock>>

\* The derived restore parses every field before it assigns the first.
Restore == lock = "free" /\ Load(saved) /\ UNCHANGED <<lock, saved>>

\* Every caller of seed_from_scenario has reset the service first; the labels
\* come before the messages.  given maps the ids of seeded labels to names.
SeedBegin(given) ==
  /\ lock = "free"
  /\ Load([EmptyMailbox EXCEPT
       !.labels = [l \in SystemLabel \cup DOMAIN given |->
                     IF l \in SystemLabel THEN l ELSE given[l]]])
  /\ lock' = "seed"
  /\ UNCHANGED saved

Number(i) == IF i \in Nat THEN i ELSE 0
UsedIds == DOMAIN messages \cup DOMAIN threads \cup UserLabels \cup attachments
PastAllIds == \A i \in UsedIds : Number(i) < nextId

\* The counter is moved past the ids of the seed at its end only, so that an id
\* generated meanwhile may be one that the seed has given before.
SeedMessage(id, t, s, ls, d, named, unnamed) ==
  /\ lock = "seed" /\ nextId <= MaxId /\ nextHistory <= MaxHistory
  /\ Insertion(id, t, s, ls, d, named, unnamed)
  /\ UNCHANGED lock

\* The content of an attachment does not decode: the message is not stored,
\* but its thread, its ids and its earlier attachments are.  Or the messages
\* do not parse, and only the labels are there.
SeedRefused(id, t, s, named) ==
  LET found == Found(t, s)
      afterId == nextId + (IF id = None THEN 1 ELSE 0)
  IN /\ lock = "seed" /\ nextId <= MaxId /\ nextHistory <= MaxHistory
     /\ lock' = "free" /\ partial' = TRUE
     /\ \/ /\ threads' = WithThread(found, afterId)
           /\ attachments' = attachments \cup named
           /\ \E failed \in 0..1 : nextId' = afterId + New(found) + failed
           /\ nextHistory' = nextHistory + New(found) + 1
        \/ messages = <<>> /\ UNCHANGED <<threads, attachments, nextId, nextHistory>>
     /\ UNCHANGED <<messages, labels, collided, strays, saved>>

TopId == CHOOSE n \in {0} \cup {Number(i) : i \in UsedIds} :
           \A i \in UsedIds : Number(i) <= n

\* Mutant: the counter is moved past the messages only.
SeedEndBumpsMessages ==
  LET top == CHOOSE n \in {0} \cup {Number(i) : i \in DOMAIN messages} :
               \A i \in DOMAIN messages : Number(i) <= n
  IN /\ lock = "seed" /\ lock' = "free"
     /\ nextId' = IF top >= nextId THEN (top + 1) % IdLimit ELSE nextId
     /\ UNCHANGED <<messages, threads, labels, attachments, nextHistory, marks, saved>>

\* Mutant: the counter is not moved.
SeedEndKeepsCounter ==
  /\ lock = "seed" /\ lock' = "free"
  /\ UNCHANGED <<mailbox, saved>>

\* bump_next_id
SeedEnd ==
  /\ lock = "seed" /\ lock' = "free"
  /\ nextId' = IF TopId >= nextId THEN (TopId + 1) % IdLimit ELSE nextId
  /\ UNCHANGED <<messages, threads, labels, attachments, nextHistory, marks, saved>>

-----------------------------------------------------------------------------
(* Properties. *)

BoxOK(box) ==
  /\ box.messages \in [DOMAIN box.messages -> Message]
  /\ box.threads \in [DOMAIN box.threads -> [history : Nat, snippet : Text]]
  /\ box.labels \in [DOMAIN box.labels -> SystemLabel \cup Name]
  /\ DOMAIN box.messages \cup DOMAIN box.threads \cup box.attachments \subseteq Int
  /\ SystemLabel \subseteq DOMAIN box.labels
  /\ box.nextId \in Nat /\ box.nextHistory \in Nat
  /\ box.partial \in BOOLEAN /\ box.collided \in BOOLEAN
  /\ box.strays \subseteq SystemLabel \cup Int

\* The shape of the mailbox and of the snapshot; the system labels, which no
\* request may delete, are always there.
MailTypeOK ==
  /\ BoxOK(Mailbox) /\ BoxOK(saved)
  /\ lock \in {"free", "seed"}

\* The threads are exactly those the messages belong to: a delete that takes
\* the last message takes the thread, and no message outlives its thread.
\* (A thread without messages is left by a seed that failed after it had made the
\* thread, and by a message in the place of another.)
ThreadsExact ==
  LET used == {messages[m].thread : m \in DOMAIN messages}
  IN used \subseteq DOMAIN threads /\ (partial \/ collided \/ used = DOMAIN threads)

\* The attachment store holds what the messages refer to and nothing else,
\* and no two messages share an attachment, so that deleting one message
\* never takes the bytes of another, unless a message has come in the place of
\* another or has been given the id of an attachment that was there.
AttachmentsExact ==
  collided \/
  /\ AttsOf(messages, DOMAIN messages) \subseteq attachments
  /\ partial \/ attachments = AttsOf(messages, DOMAIN messages)
  /\ \A m, n \in DOMAIN messages :
       m # n => messages[m].atts \cap messages[n].atts = {}

\* A thread shows the text of its latest message, whichever was added or
\* deleted last, and its history id is not ahead of that message's, unless a
\* message has come in the place of another, which may be of another thread.
ThreadShowsLatest ==
  collided \/
  \A t \in DOMAIN threads : InThread(messages, t) # {} =>
    LET l == messages[Latest(messages, t)]
    IN threads[t].snippet = l.text /\ threads[t].history <= l.history

\* Between requests the counter is past the number of every id, generated or
\* seeded, so that what is created replaces nothing (bump_next_id).
FreshIds == lock = "free" /\ ~partial => PastAllIds

\* A history id stands for one change: it is used up, and two messages that
\* carry the same one were changed together, as messages of one thread.
HistoryTells ==
  /\ \A t \in DOMAIN threads : threads[t].history < nextHistory
  /\ \A m \in DOMAIN messages : messages[m].history < nextHistory
  /\ \A m, n \in DOMAIN messages :
       messages[m].history = messages[n].history => messages[m].thread = messages[n].thread

\* Deleting a label leaves no message with it: every label of a message is one
\* that labels.get answers, except the ids that a request or a seed put on messages
\* while there was no such label.  No handler checks them, but a label that comes
\* by such an id later takes it off them all when it is deleted.
LabelsExist == \A m \in DOMAIN messages : messages[m].labels \subseteq LabelIds \cup strays
=============================================================================
