------------------------------ MODULE DriveParse ------------------------------
(***************************************************************************)
(* What the Drive twin parses out of a request: the two parts of a         *)
(* multipart/related upload and the clauses of a files.list query          *)
(* (twin-drive: parse_multipart_related, split_headers_body,               *)
(* parse_v3_query, split_v3_clauses).  A body or a query is a sequence of  *)
(* symbols; strings that the parsers do not look into are one symbol.      *)
(***************************************************************************)
EXTENDS Integers, Sequences, FiniteSets, SequencesExt, FiniteSetsExt

CONSTANTS
  MaxBytes,   \* bound: the longest content that is uploaded in two parts
  MaxClauses, \* bound: clauses of a query
  MaxWords    \* bound: symbols of a name or a value in a query

ASSUME ParseAssumption ==
  MaxBytes \in Nat /\ MaxClauses \in Nat /\ MaxWords \in Nat

-----------------------------------------------------------------------------
(* Multipart bodies.  "--b" is the delimiter, which no content holds; "--"  *)
(* behind it closes the body.                                              *)

CRLF == <<"CR", "LF">>
LineFeed == <<"LF">>
Delimiter == "--b"

\* find_bytes: the places of w in s.
Places(s, w) == {p \in 1..(Len(s) - Len(w) + 1) : SubSeq(s, p, p + Len(w) - 1) = w}

\* Where a part's body starts, behind the blank line; 0 without a blank line.
BodyStart(data) ==
  LET crlf == Places(data, CRLF \o CRLF)
      lf == Places(data, LineFeed \o LineFeed)
  IN IF crlf # {} THEN Min(crlf) + 4 ELSE IF lf # {} THEN Min(lf) + 2 ELSE 0

\* The line end before the next delimiter belongs to the delimiter.
WithoutEol(b) ==
  IF IsSuffix(CRLF, b) THEN SubSeq(b, 1, Len(b) - 2)
  ELSE IF IsSuffix(LineFeed, b) THEN SubSeq(b, 1, Len(b) - 1) ELSE b

\* Mutant: the line end before the delimiter stays.
PartBodyUntrimmed(data) ==
  IF BodyStart(data) = 0 THEN data ELSE SubSeq(data, BodyStart(data), Len(data))

PartBody(data) ==
  IF BodyStart(data) = 0 THEN data
  ELSE WithoutEol(SubSeq(data, BodyStart(data), Len(data)))

\* The k-th of a set of places.
Place(at, k) == CHOOSE p \in at : Cardinality({d \in at : d < p}) = k - 1

\* The part behind each delimiter, up to the one that closes the body.
ParseMultipart(body) ==
  LET at == Places(body, <<Delimiter>>)
      count == Cardinality(at)
      skip(p) == IF SubSeq(body, p, p + 1) = CRLF THEN p + 2
                 ELSE IF SubSeq(body, p, p) = LineFeed THEN p + 1 ELSE p
      start(k) == skip(Place(at, k) + 1)
      end(k) == IF k < count THEN Place(at, k + 1) - 1 ELSE Len(body)
      last(k) == k = count \/ SubSeq(body, end(k) + 2, end(k) + 2) = <<"--">>
      n == Min({k \in 1..count : last(k)})
  IN [k \in 1..(IF start(n) > Len(body) THEN n - 1 ELSE n) |->
        PartBody(SubSeq(body, start(k), end(k)))]

\* What a client sends: metadata and content, each with a header.
Multipart(eol, content) ==
  LET part(b) == <<Delimiter>> \o eol \o <<"header">> \o eol \o eol \o b \o eol
  IN part(<<"meta">>) \o part(content) \o <<Delimiter, "--">> \o eol

Contents == UNION {[1..n -> {"CR", "LF", "x"}] : n \in 0..MaxBytes}

\* RFC 2046 has CRLF; Python's email package, and so Google's SDK, writes LF.
LineEnds == {CRLF, LineFeed}

\* What survives: with LF, a blank line that is written with CRLF in the content
\* is taken for the end of the headers, and a last CR for a part of the line end.
Intact(eol, c) ==
  eol = LineFeed => Places(c, CRLF \o CRLF) = {} /\ ~IsSuffix(<<"CR">>, c)

Unpacked == \A eol \in LineEnds, c \in Contents :
  ParseMultipart(Multipart(eol, c)) = <<<<"meta">>, c>> <=> Intact(eol, c)

\* The first blank line of a part, whichever line ends it is written with.
FirstBlankLine(data) ==
  LET ends == {p + 4 : p \in Places(data, CRLF \o CRLF)}
              \cup {p + 2 : p \in Places(data, LineFeed \o LineFeed)}
  IN IF ends = {} THEN 0 ELSE Min(ends)

SplitAtBlankLine == \A eol \in LineEnds, c \in Contents :
  LET data == <<"header">> \o eol \o eol \o c \o eol
  IN BodyStart(data) = FirstBlankLine(data)

-----------------------------------------------------------------------------
(* Queries.  A name or a value between quotes is a sequence of symbols, and  *)
(* the parser looks for " and " and for braces inside of quotes, too.        *)

LBrace == "{"
RBrace == "}"
Equals == "="
Quote == "'"

Ands(q) == {p \in 1..Len(q) : q[p] = "and"}

Count(q, x, i, j) == Cardinality({k \in i..j : q[k] = x})

\* At the place p the depth is not 0: a brace was opened before and is not closed
\* again.  One that closes what was not opened leaves the depth at 0.
Nested(q, p) ==
  \E i \in 1..(p - 1) : \A j \in i..(p - 1) :
    Count(q, LBrace, i, j) > Count(q, RBrace, i, j)

\* Mutant: a query is split inside braces, too.
CutsEverywhere(q) == Ands(q)

\* Where a query is split.
Cuts(q) == {p \in Ands(q) : ~Nested(q, p)}

\* What is between two cuts that follow each other.
Pieces(q, cuts) ==
  LET marks == {0, Len(q) + 1} \cup cuts
      next(p, r) == p < r /\ \A m \in marks : m <= p \/ m >= r
  IN {[at |-> m[1], text |-> SubSeq(q, m[1] + 1, m[2] - 1)] :
        m \in {x \in marks \X marks : next(x[1], x[2])}}

SplitClauses(q) == Pieces(q, Cuts(q))

\* strip_single_quotes: what is between the quotes, or nothing.
Unquoted(s) ==
  IF Len(s) >= 2 /\ s[1] = Quote /\ s[Len(s)] = Quote
  THEN {SubSeq(s, 2, Len(s) - 1)} ELSE {}

\* extract_eq_value: the value of k='value', or nothing.
EqValue(s, k) ==
  IF Len(s) >= 2 /\ s[1] = k /\ s[2] = Equals
  THEN Unquoted(SubSeq(s, 3, Len(s))) ELSE {}

\* The last of the pieces that give k a value.
LastValue(pieces, k) ==
  LET giving == {x \in pieces : EqValue(x.text, k) # {}}
  IN UNION {EqValue(x.text, k) : x \in {y \in giving : \A z \in giving : z.at <= y.at}}

\* '<id>' in parents
ParentOf(c) ==
  IF c # <<>> /\ c[Len(c)] = "in_parents" THEN Unquoted(SubSeq(c, 1, Len(c) - 1)) ELSE {}

\* appProperties has {key='<k>' and value='<v>'}: from the first brace that opens
\* to the last that closes.
PropertyOf(c) ==
  LET opens == {p \in 1..Len(c) : c[p] = LBrace}
      closes == {p \in 1..Len(c) : c[p] = RBrace}
      inner == SubSeq(c, Min(opens) + 1, Max(closes) - 1)
      pieces == Pieces(inner, Ands(inner))
  IN IF c # <<>> /\ c[1] = "has" /\ opens # {} /\ closes # {}
     THEN LastValue(pieces, "key") \X LastValue(pieces, "value") ELSE {}

Fields == {"parent", "name", "mimeType"}

\* A clause that none of the patterns fits is ignored.
ParseClause(c) ==
  {[field |-> "parent", key |-> <<>>, value |-> v] : v \in ParentOf(c)}
  \cup {[field |-> "name", key |-> <<>>, value |-> v] : v \in EqValue(c, "name")}
  \cup {[field |-> "mimeType", key |-> <<>>, value |-> v] : v \in EqValue(c, "mimeType")}
  \cup {[field |-> "property", key |-> kv[1], value |-> kv[2]] : kv \in PropertyOf(c)}

\* Of two clauses for one field the later counts; properties add up.
ParseV3Query(q) ==
  LET read == UNION {{[at |-> c.at, filter |-> f] : f \in ParseClause(c.text)} :
                       c \in SplitClauses(q)}
  IN {x.filter : x \in {y \in read :
        \/ y.filter.field = "property"
        \/ \A z \in read : z.filter.field = y.filter.field => z.at <= y.at}}

\* What a client writes for a filter.
Eq(k, v) == <<k, Equals, Quote>> \o v \o <<Quote>>

Clause(f) ==
  IF f.field = "property"
  THEN <<"has", LBrace>> \o Eq("key", f.key) \o <<"and">> \o Eq("value", f.value)
       \o <<RBrace>>
  ELSE IF f.field = "parent" THEN <<Quote>> \o f.value \o <<Quote, "in_parents">>
  ELSE Eq(f.field, f.value)

\* Names and values of any words, and those without " and " and braces.
Text(words) == UNION {[1..n -> words] : n \in 0..MaxWords}
AnyText == Text({"v", "and", LBrace, RBrace})
PlainText == Text({"v"})

Filters(text) == [field : Fields, key : {<<>>}, value : text]
                 \cup [field : {"property"}, key : text, value : text]

\* The filters of a query, in any order, and the query that a client makes of them.
Queries(text) == UNION {[1..n -> Filters(text)] : n \in 0..MaxClauses}

AndClause(q, f) == IF q = <<>> THEN Clause(f) ELSE q \o <<"and">> \o Clause(f)

Joined(fs) ==
  LET joined[k \in 0..Len(fs)] == IF k = 0 THEN <<>> ELSE AndClause(joined[k - 1], fs[k])
  IN joined[Len(fs)]

\* What the client means by them.
Meant(fs) == {fs[k] : k \in {i \in 1..Len(fs) :
  \/ fs[i].field = "property"
  \/ \A j \in 1..Len(fs) : fs[j].field = fs[i].field => j <= i}}

Understood(text) == \A fs \in Queries(text) : ParseV3Query(Joined(fs)) = Meant(fs)
=============================================================================
