------------------------------- MODULE MCGmail -------------------------------
(* Constant values for model-checking GmailApi. *)
EXTENDS GmailApi

CONSTANT Plan   \* a subject

Tok(kind, arg) == [kind |-> kind, arg |-> arg]

\* What is not in the trash, and the threads with a message in the inbox.
MCListing ==
  {[kind |-> "messages", labels |-> {}, q |-> <<Tok("-label", TRASH)>>],
   [kind |-> "threads", labels |-> {INBOX}, q |-> <<>>]}

\* All searches of two tokens.
Tokens == {Tok("in", INBOX), Tok("-label", INBOX), Tok("after", 1), Tok("after", 20),
           Tok("before", 20), Tok("subject", Plan)}
MCQuery == {<<Tok("unknown", None)>>} \cup {<<t, u>> : t, u \in Tokens}

Seed(id, t, s, ls, d, named, unnamed) ==
  [id |-> id, thread |-> t, subject |-> s, labels |-> ls, date |-> d,
   named |-> named, unnamed |-> unnamed]

\* A message without an id; one with an id without a number and an attachment
\* without an id; and one with a label that may be seeded and a given attachment,
\* in the thread of another.  After the last, the id that is generated for the
\* first is the one given to the last.
MCSeedSet ==
  {Seed(None, None, Plan, {}, None, {}, 0), Seed(-1, None, Plan, {}, 20, {}, 1),
   Seed(2, 1, NoSubject, {2}, None, {5}, 0)}
MCSeedMsg == {-1, 2, 3}
MCSeedLabel == {2}
MCSeedAtt == {5}
=============================================================================
