------------------------------ MODULE Indices ------------------------------
(***************************************************************************)
(* The indices a query walks through (src/src/indices): a trie of permuted *)
(* tuples for an operator of fixed arity, a table of multisets for an AC   *)
(* operator.  An index value is the stored data and a position in it;      *)
(* get_index hands out copies, so that each constraint of a query moves    *)
(* on its own.                                                             *)
(***************************************************************************)
EXTENDS Multisets, Sequences, FiniteSets

Front(s) == SubSeq(s, 1, Len(s) - 1)
Last(s) == s[Len(s)]
-----------------------------------------------------------------------------
\* The trie, as the set of its paths; history is the path from the root to
\* current_node.
TrieIndex(paths) == [kind |-> "trie", paths |-> paths, history |-> << >>]

\* The keys of current_node.
TrieProject(ix) ==
  LET n == Len(ix.history)
  IN  {p[n+1] : p \in {q \in ix.paths : Len(q) > n /\ SubSeq(q, 1, n) = ix.history}}

TrieSelect(ix, key) == [ix EXCEPT !.history = Append(@, key)]
TrieUnselect(ix) == [ix EXCEPT !.history = Front(@)]
-----------------------------------------------------------------------------
NoTerm == 0

\* data: term-id -> multiset, the elements selected so far taken out; mset: the
\* term-id selected; history: the elements selected of it.
MultisetIndex(data) ==
  [kind |-> "multiset", data |-> data, mset |-> NoTerm, history |-> << >>]

\* First the term-ids, then the elements that are left of the term.
MsetProject(ix) ==
  IF ix.mset = NoTerm THEN DOMAIN ix.data
  ELSE {x \in DOMAIN ix.data[ix.mset] : Contains(ix.data[ix.mset], x)}

\* Choose the term, or take one occurrence of an element out of it.  In a term
\* without elements nothing happens.
MsetSelect(ix, key) ==
  IF ix.mset = NoTerm
    THEN [ix EXCEPT !.mset = key]
  ELSE IF ix.history = << >> /\ MsetProject(ix) = {}
    THEN ix
  ELSE [ix EXCEPT !.data[ix.mset] = Remove(@, key), !.history = Append(@, key)]

\* Faulty variant: the element is not put back.
MsetUnselect_Forgets(ix) ==
  IF ix.history = << >>
    THEN [ix EXCEPT !.mset = NoTerm]
    ELSE [ix EXCEPT !.history = Front(@)]

\* What select did last is found in the history.
MsetUnselect(ix) ==
  IF ix.history = << >>
    THEN [ix EXCEPT !.mset = NoTerm]
    ELSE [ix EXCEPT !.data[ix.mset] = Insert(@, Last(ix.history)),
                    !.history = Front(@)]

\* make_enode: the children selected so far, as a multiset of the ids S, which
\* is what lookup makes of them by sorting.
make_args(ix, S) ==
  [x \in S |-> Cardinality({i \in DOMAIN ix.history : ix.history[i] = x})]
-----------------------------------------------------------------------------
\* AbstractIndex: whichever of the two it is.
project(ix) == IF ix.kind = "trie" THEN TrieProject(ix) ELSE MsetProject(ix)
select(ix, key) == IF ix.kind = "trie" THEN TrieSelect(ix, key) ELSE MsetSelect(ix, key)
unselect(ix) == IF ix.kind = "trie" THEN TrieUnselect(ix) ELSE MsetUnselect(ix)
=============================================================================
