------------------------------ MODULE GmailQuery ------------------------------
(***************************************************************************)
(* The q parameter of messages.list (twin-gmail: parse_gmail_query,        *)
(* message_matches_query, parse_date_to_ms).  A token is its kind and its  *)
(* argument; the sender is left out, it is searched as the subject is.     *)
(***************************************************************************)
EXTENDS Integers, Sequences, FiniteSets

CONSTANT Anything   \* no date or subject is asked for

-----------------------------------------------------------------------------
(* Dates. *)

\* Mutant: January and February belong to their own year.
DateToDaysWithoutShift(year, month, day) ==
  LET yoe == year % 400
      doy == (153 * (IF month > 2 THEN month - 3 ELSE month + 9) + 2) \div 5 + day - 1
      doe == yoe * 365 + yoe \div 4 - yoe \div 100 + doy
  IN (year \div 400) * 146097 + doe - 719468

\* Days since 1970-01-01: the year starts in March, so that the leap day ends it.
DateToDays(year, month, day) ==
  LET y == IF month <= 2 THEN year - 1 ELSE year
      yoe == y % 400
      doy == (153 * (IF month > 2 THEN month - 3 ELSE month + 9) + 2) \div 5 + day - 1
      doe == yoe * 365 + yoe \div 4 - yoe \div 100 + doy
  IN (y \div 400) * 146097 + doe - 719468

Leap(y) == y % 4 = 0 /\ (y % 100 # 0 \/ y % 400 = 0)

MonthLength(y, m) ==
  CASE m \in {4, 6, 9, 11} -> 30
    [] m = 2 /\ Leap(y)    -> 29
    [] m = 2 /\ ~Leap(y)   -> 28
    [] OTHER               -> 31

\* The days before a month, counted.
DaysBefore(year, month) ==
  365 * (year - 1970) + Cardinality({y \in 1970..(year - 1) : Leap(y)})
  + Cardinality({md \in (1..(month - 1)) \X (1..31) : md[2] <= MonthLength(year, md[1])})

-----------------------------------------------------------------------------
(* Queries. *)

Single == {"after", "before", "subject"}

Args(q, kind) == {q[i].arg : i \in {j \in 1..Len(q) : q[j].kind = kind}}

\* Mutant: the first token of a kind counts.
FirstArg(q, kind) ==
  IF Args(q, kind) = {} THEN Anything
  ELSE q[CHOOSE i \in 1..Len(q) : q[i].kind = kind /\
           \A j \in 1..(i - 1) : q[j].kind # kind].arg

\* Of the tokens that ask for one thing, the last of a kind counts.
LastArg(q, kind) ==
  IF Args(q, kind) = {} THEN Anything
  ELSE q[CHOOSE i \in 1..Len(q) : q[i].kind = kind /\
           \A j \in (i + 1)..Len(q) : q[j].kind # kind].arg

ParseQuery(q) ==
  [include |-> Args(q, "in"), exclude |-> Args(q, "-label"),
   after |-> LastArg(q, "after"), before |-> LastArg(q, "before"),
   subject |-> LastArg(q, "subject")]

Matches(m, f) ==
  /\ f.include \subseteq m.labels
  /\ f.exclude \cap m.labels = {}
  /\ f.after = Anything \/ m.date >= f.after
  /\ f.before = Anything \/ m.date < f.before
  /\ f.subject = Anything \/ m.subject = f.subject

\* What a token says of a message, each on its own.
Says(t, m) ==
  CASE t.kind = "in"      -> t.arg \in m.labels
    [] t.kind = "-label"  -> t.arg \notin m.labels
    [] t.kind = "after"   -> m.date >= t.arg
    [] t.kind = "before"  -> m.date < t.arg
    [] t.kind = "subject" -> m.subject = t.arg
    [] OTHER              -> TRUE

\* Is a token set aside because a later one asks for the same thing?
Overridden(q, i) ==
  q[i].kind \in Single /\ \E j \in (i + 1)..Len(q) : q[j].kind = q[i].kind
=============================================================================
