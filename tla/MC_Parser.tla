----------------------------- MODULE MC_Parser -----------------------------
\* One call of the parser on every short text, and on longer ones made of
\* parentheses and names.
EXTENDS Parser

CONSTANTS
  Chars,
  MaxText,   \* bound: the length of a text of arbitrary characters
  MaxPieces  \* bound: the pieces a longer text is made of

VARIABLE input

Pieces == {<<"(">>, <<")">>, <<" ", "a">>, <<" ", "?", "b">>}

Texts == UNION {[1..n -> Chars] : n \in 0..MaxText}
           \cup {SX!FlattenSeq(s) : s \in UNION {[1..n -> Pieces] : n \in 1..MaxPieces}}

Init == ParserInit /\ input = << >>

Call == /\ status = "idle"
        /\ input' \in Texts
        /\ parse_sexpr(owner, input')
        /\ UNCHANGED tables

Next == Call \/ (ParseStep /\ UNCHANGED input)

Spec == Init /\ [][Next]_<<parser, tables, input>>
-----------------------------------------------------------------------------
\* The parser stays inside its tokens, of which the last marks the end, and the
\* operators being read have been interned.
TypeOK ==
  /\ status \in {"idle", "parsing", "done", "failed"}
  /\ status = "parsing" => current \in DOMAIN tokens
  /\ \A i \in DOMAIN frames : frames[i].op < tables[owner].next_id

\* It accepts exactly the texts the grammar describes.
AcceptsGrammar ==
  /\ status = "done" => WellFormed(input)
  /\ status = "failed" => ~ WellFormed(input)

\* What it returns prints as the text it read, up to white space (the round trip
\* of test_parser.cpp, for every text).
RoundTrip ==
  status = "done" =>
    tokenize(to_sexpr(result, tables[owner])).tokens = tokenize(input).tokens
=============================================================================
