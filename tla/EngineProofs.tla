---------------------------- MODULE EngineProofs ----------------------------
(***************************************************************************)
(* Proofs about Engine, for every content of the e-graph and every queries *)
(* that satisfy EngineAssumption.                                          *)
(*                                                                         *)
(* First the search itself: however it goes up and down, the indices are   *)
(* where the bindings say, because unselect undoes select of a key that    *)
(* project offered.  Then what it finds.  From where the indices are it    *)
(* follows what they hold: a trie the tuples that begin with the bindings, *)
(* a multiset index a term without the children selected.  So once all     *)
(* variables are selected, the bindings satisfy every constraint, and the  *)
(* results are matches.                                                    *)
(***************************************************************************)
EXTENDS Engine, BasicLemmas, SequenceTheorems, FiniteSetTheorems

\* A sequence of whatever it holds.
IsSequence(s) == s \in Seq({s[i] : i \in DOMAIN s})

\* The position of an index: a path in a trie; in a multiset index a term, and
\* the elements taken out of it.
IndexOK(ix) ==
  \/ /\ ix.kind = "trie"
     /\ ix = [kind |-> "trie", paths |-> ix.paths, history |-> ix.history]
     /\ IsSequence(ix.history)
  \/ /\ ix \in [kind : {"multiset"}, data : Seq([Ids -> Nat]), mset : Nat,
                history : Seq(Ids)]
     /\ ix.mset = NoTerm => ix.history = << >>
     /\ ix.mset # NoTerm => ix.mset \in DOMAIN ix.data
-----------------------------------------------------------------------------
\* Going down in a trie and up again.
LEMMA TrieUndo ==
  ASSUME NEW ix, ix.kind = "trie", IndexOK(ix), NEW key
  PROVE  /\ IndexOK(select(ix, key)) /\ select(ix, key).kind = "trie"
         /\ unselect(select(ix, key)) = ix
<1> DEFINE h == ix.history
           T == {h[i] : i \in DOMAIN h} \cup {key}
           jx == [kind |-> "trie", paths |-> ix.paths, history |-> Append(h, key)]
<1>1. ix = [kind |-> "trie", paths |-> ix.paths, history |-> h] /\ IsSequence(h)
  BY DEF IndexOK
<1>2. select(ix, key) = jx BY <1>1 DEF select, TrieSelect
<1>3. h \in Seq(T) BY <1>1 DEF IsSequence
<1> HIDE DEF h, T
<1>4. key \in T BY DEF T
<1>5. /\ Append(h, key) \in Seq(T) /\ Len(Append(h, key)) = Len(h) + 1
      /\ Len(h) \in Nat
  BY <1>3, <1>4
<1>6. IsSequence(Append(h, key))
  <2> DEFINE s == Append(h, key)
  <2>1. s \in Seq(T) BY <1>5
  <2> HIDE DEF s
  <2>2. Len(s) \in Nat /\ s \in [1..Len(s) -> T] /\ DOMAIN s = 1..Len(s) BY <2>1
  <2>3. s \in [1..Len(s) -> {s[i] : i \in DOMAIN s}] BY <2>2
  <2>4. s \in Seq({s[i] : i \in DOMAIN s}) BY <2>2, <2>3
  <2> QED BY <2>4 DEF IsSequence, s
<1>7. Front(Append(h, key)) = h
  <2>1. SubSeq(Append(h, key), 1, Len(h)) = h BY <1>3, <1>4
  <2> QED BY <2>1, <1>5 DEF Front
<1>8. unselect(jx) = [kind |-> "trie", paths |-> ix.paths, history |-> h]
  BY <1>7 DEF unselect, TrieUnselect
<1> QED BY <1>1, <1>2, <1>6, <1>8 DEF IndexOK

\* Taking out an element that is there and putting it back.
LEMMA InsertUndoesRemove ==
  ASSUME NEW m \in [Ids -> Nat], NEW x \in Ids, Contains(m, x)
  PROVE  Remove(m, x) \in [Ids -> Nat] /\ Insert(Remove(m, x), x) = m
<1>1. m[x] \in Nat /\ m[x] > 0 BY DEF Contains
<1>2. Remove(m, x) = [m EXCEPT ![x] = m[x] - 1] BY <1>1 DEF Remove
<1>3. Remove(m, x) \in [Ids -> Nat] BY <1>1, <1>2
<1>4. Insert(Remove(m, x), x) \in [Ids -> Nat] BY <1>1, <1>2 DEF Insert
<1>5. \A y \in Ids : Insert(Remove(m, x), x)[y] = m[y]
  BY <1>1, <1>2 DEF Insert
<1> QED BY <1>3, <1>4, <1>5

\* Replacing an element and restoring it.
LEMMA ExceptUndone ==
  ASSUME NEW S, NEW d \in Seq(S), NEW k \in 1..Len(d), NEW v \in S
  PROVE  /\ [d EXCEPT ![k] = v] \in Seq(S)
         /\ DOMAIN [d EXCEPT ![k] = v] = DOMAIN d
         /\ [[d EXCEPT ![k] = v] EXCEPT ![k] = d[k]] = d
<1>1. Len(d) \in Nat /\ d \in [1..Len(d) -> S] /\ DOMAIN d = 1..Len(d) OBVIOUS
<1> DEFINE n == Len(d)
           e == [[d EXCEPT ![k] = v] EXCEPT ![k] = d[k]]
<1>2. \A i \in 1..n : e[i] = d[i] BY <1>1
<1>3. e \in [1..n -> S] BY <1>1
<1>4. e = d BY <1>1, <1>2, <1>3
<1> QED BY <1>1, <1>4

\* Choosing a term, or an element of the chosen term, and undoing it.
LEMMA MsetUndo ==
  ASSUME NEW d \in Seq([Ids -> Nat]), NEW k \in Nat, NEW h \in Seq(Ids),
         k = NoTerm => h = << >>, k # NoTerm => k \in DOMAIN d,
         NEW ix, ix = [kind |-> "multiset", data |-> d, mset |-> k, history |-> h],
         NEW key \in project(ix)
  PROVE  /\ IndexOK(select(ix, key)) /\ select(ix, key).kind = "multiset"
         /\ unselect(select(ix, key)) = ix
<1>1. key \in MsetProject(ix) /\ select(ix, key) = MsetSelect(ix, key)
  BY DEF project, select
<1>2. CASE k = NoTerm
  <2> DEFINE jx == [kind |-> "multiset", data |-> d, mset |-> key, history |-> h]
  <2>1. key \in DOMAIN d BY <1>1, <1>2 DEF MsetProject
  <2>2. key \in Nat /\ key # NoTerm BY <2>1 DEF NoTerm
  <2>3. select(ix, key) = jx BY <1>1, <1>2 DEF MsetSelect
  <2>4. IndexOK(jx) BY <1>2, <2>1, <2>2 DEF IndexOK
  <2>5. unselect(jx) = ix BY <1>2 DEF unselect, MsetUnselect
  <2> QED BY <2>3, <2>4, <2>5
<1>3. CASE k # NoTerm
  <2> DEFINE m == d[k]
             v == Remove(m, key)
             d2 == [d EXCEPT ![k] = v]
             h2 == Append(h, key)
             jx == [kind |-> "multiset", data |-> d2, mset |-> k, history |-> h2]
  <2>1. k \in 1..Len(d) /\ m \in [Ids -> Nat] BY <1>3
  <2>2. key \in Ids /\ Contains(m, key) BY <2>1, <1>1, <1>3 DEF MsetProject
  <2>3. select(ix, key) = jx
    <3>1. MsetProject(ix) # {} BY <1>1
    <3> QED BY <3>1, <1>1, <1>3 DEF MsetSelect
  <2>4. v \in [Ids -> Nat] /\ Insert(v, key) = m
    BY <2>1, <2>2, InsertUndoesRemove
  <2>5. d2 \in Seq([Ids -> Nat]) /\ DOMAIN d2 = DOMAIN d /\ [d2 EXCEPT ![k] = m] = d
    <3> DEFINE M == [Ids -> Nat]
    <3>1. v \in M /\ d \in Seq(M) BY <2>4
    <3>2. d2 \in Seq(M) /\ DOMAIN d2 = DOMAIN d /\ [d2 EXCEPT ![k] = d[k]] = d
      <4> HIDE DEF v, M
      <4> QED BY <2>1, <3>1, ExceptUndone
    <3> QED BY <3>2
  <2>6. d2[k] = v BY <2>1
  <2>7. h2 \in Seq(Ids) /\ h2 # << >> /\ Front(h2) = h /\ Last(h2) = key
    <3>1. /\ h2 \in Seq(Ids) /\ Len(h2) = Len(h) + 1
          /\ Len(h) \in Nat /\ h2[Len(h) + 1] = key
      BY <2>2
    <3>2. SubSeq(h2, 1, Len(h)) = h BY <2>2
    <3> QED BY <3>1, <3>2 DEF Front, Last
  <2> HIDE DEF m, v, d2, h2
  <2>8. IndexOK(jx) BY <1>3, <2>5, <2>7 DEF IndexOK
  <2>9. unselect(jx) = [kind |-> "multiset", data |-> [d2 EXCEPT ![k] = Insert(d2[k], key)],
                        mset |-> k, history |-> h]
    BY <2>7 DEF unselect, MsetUnselect
  <2>10. unselect(jx) = ix BY <2>4, <2>5, <2>6, <2>9
  <2> HIDE DEF jx
  <2> QED BY <2>3, <2>8, <2>10 DEF jx
<1> QED BY <1>2, <1>3

\* unselect undoes select of a key that project offered, whatever the index.
LEMMA SelectUndone ==
  ASSUME NEW ix, IndexOK(ix), NEW key \in project(ix)
  PROVE  /\ IndexOK(select(ix, key)) /\ select(ix, key).kind = ix.kind
         /\ unselect(select(ix, key)) = ix
<1>1. CASE ix.kind = "trie" BY <1>1, TrieUndo
<1>2. CASE ix.kind # "trie"
  <2>1. /\ ix \in [kind : {"multiset"}, data : Seq([Ids -> Nat]), mset : Nat,
                   history : Seq(Ids)]
        /\ ix.mset = NoTerm => ix.history = << >>
        /\ ix.mset # NoTerm => ix.mset \in DOMAIN ix.data
    BY <1>2 DEF IndexOK
  <2>2. ix = [kind |-> "multiset", data |-> ix.data, mset |-> ix.mset,
              history |-> ix.history]
    BY <2>1
  <2> QED BY <2>1, <2>2, MsetUndo
<1> QED BY <1>1, <1>2
-----------------------------------------------------------------------------
\* What the search does to the index of constraint c at variable k.
Step(c, k, ix) == IF c \in Searched(k) THEN select(ix, states[k].current) ELSE ix

\* The recursion in Replayed.
Replays(c, n, r) ==
  r = [k \in 0..n |->
         IF k = 0 THEN populate_index(query.constraints[c])
         ELSE IF c \in Searched(k) THEN select(r[k-1], states[k].current)
         ELSE r[k-1]]

\* The recursion has a solution.
LEMMA ReplaysExist ==
  ASSUME NEW c, NEW n \in Nat
  PROVE  \E r : Replays(c, n, r)
<1> DEFINE P == {k \in 0..n : \E r : Replays(c, k, r)}
           b == populate_index(query.constraints[c])
<1>1. 0 \in P
  <2> DEFINE r == [k \in 0..0 |-> b]
  <2>1. r = [k \in 0..0 |->
               IF k = 0 THEN b
               ELSE IF c \in Searched(k) THEN select(r[k-1], states[k].current)
               ELSE r[k-1]]
    OBVIOUS
  <2>2. Replays(c, 0, r) BY <2>1 DEF Replays
  <2> QED BY <2>2
<1>2. ASSUME NEW k \in 1..n, k - 1 \in P PROVE k \in P
  <2>1. PICK r : Replays(c, k - 1, r) BY <1>2
  <2> DEFINE s == [j \in 0..k |-> IF j = k THEN Step(c, k, r[k-1]) ELSE r[j]]
  <2>2. \A j \in 0..(k-1) : r[j] = IF j = 0 THEN b ELSE Step(c, j, r[j-1])
    BY <2>1 DEF Replays, Step
  <2>3. \A j \in 0..k : s[j] = IF j = 0 THEN b ELSE Step(c, j, s[j-1])
    <3> SUFFICES ASSUME NEW j \in 0..k
                 PROVE  s[j] = IF j = 0 THEN b ELSE Step(c, j, s[j-1])
      OBVIOUS
    <3>1. CASE j = k BY <3>1
    <3>2. CASE j # k
      <4>1. j \in 0..(k-1) BY <3>2
      <4>2. j # 0 => j - 1 \in 0..k /\ j - 1 # k BY <4>1
      <4> QED BY <4>1, <4>2, <2>2
    <3> QED BY <3>1, <3>2
  <2>4. DOMAIN s = 0..k /\ s = [j \in 0..k |-> s[j]] OBVIOUS
  <2> HIDE DEF s, b
  <2>5. s = [j \in 0..k |-> IF j = 0 THEN b ELSE Step(c, j, s[j-1])]
    BY <2>3, <2>4
  <2>6. Replays(c, k, s) BY <2>5 DEF Replays, Step, b
  <2> QED BY <2>6
<1> HIDE DEF P
<1>3. n \in P BY <1>1, <1>2, IntervalInduction
<1> QED BY <1>3 DEF P

\* It has one only, as far as it goes.
LEMMA ReplaysAgree ==
  ASSUME NEW c, NEW n \in Nat, NEW m \in 0..n, NEW r, NEW s,
         Replays(c, n, r), Replays(c, m, s)
  PROVE  r[m] = s[m]
<1> DEFINE P == {k \in 0..m : r[k] = s[k]}
<1>1. \A k \in 0..n : r[k] = IF k = 0 THEN populate_index(query.constraints[c])
                             ELSE Step(c, k, r[k-1])
  BY DEF Replays, Step
<1>2. \A k \in 0..m : s[k] = IF k = 0 THEN populate_index(query.constraints[c])
                             ELSE Step(c, k, s[k-1])
  BY DEF Replays, Step
<1>3. 0 \in P BY <1>1, <1>2
<1>4. ASSUME NEW k \in 1..m, k - 1 \in P PROVE k \in P
  BY <1>1, <1>2, <1>4
<1> HIDE DEF P
<1>5. m \in P BY <1>3, <1>4, IntervalInduction
<1> QED BY <1>5 DEF P

\* Replaying one variable more is one step.
ReplayOneByOne ==
  \A c : /\ Replayed(c, 0) = populate_index(query.constraints[c])
         /\ \A k \in Nat \ {0} : Replayed(c, k) = Step(c, k, Replayed(c, k - 1))

\* The recursion of Replayed, as equations.
LEMMA ReplayedSteps == ReplayOneByOne
<1> SUFFICES ASSUME NEW c
             PROVE  /\ Replayed(c, 0) = populate_index(query.constraints[c])
                    /\ \A k \in Nat \ {0} : Replayed(c, k) = Step(c, k, Replayed(c, k - 1))
  BY DEF ReplayOneByOne
<1>1. ASSUME NEW n \in Nat PROVE \E r : Replays(c, n, r) /\ Replayed(c, n) = r[n]
  <2> DEFINE r == CHOOSE r : Replays(c, n, r)
  <2>1. Replays(c, n, r) BY ReplaysExist
  <2>2. Replayed(c, n) = r[n] BY DEF Replayed, Replays
  <2> QED BY <2>1, <2>2
<1>2. PICK r : Replays(c, 0, r) /\ Replayed(c, 0) = r[0] BY <1>1
<1>3. Replayed(c, 0) = populate_index(query.constraints[c]) BY <1>2 DEF Replays
<1>4. ASSUME NEW k \in Nat \ {0} PROVE Replayed(c, k) = Step(c, k, Replayed(c, k - 1))
  <2>1. PICK s : Replays(c, k, s) /\ Replayed(c, k) = s[k] BY <1>1
  <2>2. k - 1 \in Nat /\ k - 1 \in 0..k OBVIOUS
  <2>3. PICK t : Replays(c, k - 1, t) /\ Replayed(c, k - 1) = t[k-1] BY <1>1, <2>2
  <2>4. s[k-1] = t[k-1] BY <2>1, <2>2, <2>3, ReplaysAgree
  <2>5. s[k] = Step(c, k, s[k-1]) BY <2>1 DEF Replays, Step
  <2> QED BY <2>1, <2>3, <2>4, <2>5
<1> QED BY <1>3, <1>4

\* What is replayed depends on the bindings of the variables replayed only.
LEMMA ReplayedKept ==
  ASSUME todo' = todo, db' = db, NEW c, NEW n \in Nat,
         \A k \in 1..n : states'[k].current = states[k].current
  PROVE  Replayed(c, n)' = Replayed(c, n)
<1> DEFINE P == {k \in 0..n : Replayed(c, k)' = Replayed(c, k)}
<1>1. ReplayOneByOne /\ ReplayOneByOne'
  BY ReplayedSteps, PTL
<1>2. populate_index(query.constraints[c])' = populate_index(query.constraints[c])
  BY DEF populate_index, populate_multisets, populate_trie, query
<1>3. \A ix : \A k \in 1..n : Step(c, k, ix)' = Step(c, k, ix)
  BY DEF Step, Searched, fd, Constraints, query
<1>4. 0 \in P
  <2>1. Replayed(c, 0)' = populate_index(query.constraints[c])' BY <1>1 DEF ReplayOneByOne
  <2> QED BY <2>1, <1>1, <1>2 DEF ReplayOneByOne
<1>5. ASSUME NEW k \in 1..n, k - 1 \in P PROVE k \in P
  <2>1. k \in Nat \ {0} /\ k \in 0..n OBVIOUS
  <2>2. Replayed(c, k)' = Step(c, k, Replayed(c, k - 1))' BY <1>1, <2>1 DEF ReplayOneByOne
  <2>3. Replayed(c, k) = Step(c, k, Replayed(c, k - 1)) BY <1>1, <2>1 DEF ReplayOneByOne
  <2>4. Replayed(c, k - 1)' = Replayed(c, k - 1) BY <1>5
  <2> QED BY <2>1, <2>2, <2>3, <2>4, <1>3
<1> HIDE DEF P
<1>6. n \in P BY <1>4, <1>5, IntervalInduction
<1> QED BY <1>6 DEF P
-----------------------------------------------------------------------------
\* The variables that have been intersected; for those selected see Selected.
Entered == IF mode = "enter" THEN level - 1 ELSE level

\* The queries to come are some of those given.
QueriesLeft == todo \in Seq({Queries[i] : i \in DOMAIN Queries})

StatesOK ==
  \A v \in 1..query.nvars :
    states[v] = [candidates |-> states[v].candidates, current |-> states[v].current]

\* On the way down every index was in a position of its kind.
PositionsOK ==
  \A c \in Constraints : \A k \in 0..Selected :
    /\ IndexOK(Replayed(c, k))
    /\ Replayed(c, k).kind =
         IF query.constraints[c].symbol \in AcOps THEN "multiset" ELSE "trie"

\* What is bound to a variable, and what is still to be tried, its indices
\* offered where they were when it was intersected.
Offered ==
  \A c \in Constraints : \A k \in 1..Entered :
    c \in Searched(k) =>
      /\ states[k].candidates \subseteq project(Replayed(c, k - 1))
      /\ k <= Selected => states[k].current \in project(Replayed(c, k - 1))

SearchInv ==
  /\ TypeOK /\ QueriesLeft /\ IndicesTrackBindings
  /\ IF mode = "idle" THEN level = 0 ELSE StatesOK /\ PositionsOK /\ Offered
-----------------------------------------------------------------------------
\* The kind of the index of constraint c.
KindOf(c) == IF query.constraints[c].symbol \in AcOps THEN "multiset" ELSE "trie"

\* The query that runs is one of those given.
LEMMA RunningQuery ==
  ASSUME QueriesLeft, todo # << >>
  PROVE  IsQuery(query) /\ Tail(todo) \in Seq({Queries[i] : i \in DOMAIN Queries})
<1> DEFINE Q == {Queries[i] : i \in DOMAIN Queries}
<1>1. \A q \in Q : IsQuery(q) BY EngineAssumption
<1>2. todo \in Seq(Q) BY DEF QueriesLeft
<1> HIDE DEF Q
<1>3. Head(todo) \in Q /\ Tail(todo) \in Seq(Q) BY <1>2
<1> QED BY <1>1, <1>3 DEF query, Q

\* A fresh index is at the root.
LEMMA FreshIndexOK ==
  ASSUME IsDatabase(db), NEW c
  PROVE  /\ IndexOK(populate_index(query.constraints[c]))
         /\ populate_index(query.constraints[c]).kind = KindOf(c)
<1> DEFINE op == query.constraints[c].symbol
<1>1. CASE op \in AcOps
  <2> DEFINE ix == [kind |-> "multiset", data |-> db.terms[op], mset |-> 0,
                    history |-> << >>]
  <2>1. populate_index(query.constraints[c]) = ix
    BY <1>1 DEF populate_index, populate_multisets, MultisetIndex, NoTerm
  <2>2. db.terms[op] \in Seq([Ids -> Nat]) BY <1>1 DEF IsDatabase
  <2>3. IndexOK(ix) BY <2>2 DEF IndexOK, NoTerm
  <2> QED BY <2>1, <2>3, <1>1 DEF KindOf
<1>2. CASE op \notin AcOps
  <2>1. PICK paths : populate_index(query.constraints[c])
                     = [kind |-> "trie", paths |-> paths, history |-> << >>]
    BY <1>2 DEF populate_index, populate_trie, TrieIndex
  <2>2. IsSequence(<< >>) BY DEF IsSequence
  <2> QED BY <2>1, <2>2, <1>2 DEF IndexOK, KindOf
<1> QED BY <1>1, <1>2

\* What belongs to the query stays while the query stays.
LEMMA QueryKept ==
  ASSUME todo' = todo, db' = db
  PROVE  /\ query' = query /\ Constraints' = Constraints
         /\ \A v : Searched(v)' = Searched(v)
         /\ \A c : KindOf(c)' = KindOf(c)
         /\ IsDatabase(db)' <=> IsDatabase(db)
         /\ QueriesLeft' <=> QueriesLeft
BY DEF query, Constraints, Searched, fd, KindOf, QueriesLeft

\* What is known of the indices and bindings while a query runs.
LEMMA Running ==
  ASSUME SearchInv, mode # "idle"
  PROVE  /\ IsDatabase(db) /\ todo # << >> /\ QueriesLeft
         /\ IsQuery(query) /\ query.nvars \in Nat \ {0}
         /\ level \in 1..(query.nvars + 1)
         /\ mode # "enter" => level \in 1..query.nvars
         /\ DOMAIN states = 1..query.nvars /\ DOMAIN index = Constraints
         /\ StatesOK /\ PositionsOK /\ Offered
         /\ \A c \in Constraints : index[c] = Replayed(c, Selected)
<1>1. TypeOK /\ QueriesLeft /\ IndicesTrackBindings /\ StatesOK /\ PositionsOK /\ Offered
  BY DEF SearchInv
<1>2. todo # << >> BY <1>1 DEF TypeOK
<1>3. IsQuery(query) BY <1>1, <1>2, RunningQuery
<1>4. query.nvars \in Nat \ {0} BY <1>3 DEF IsQuery
<1>5. \A c \in Constraints : index[c] = Replayed(c, Selected)
  BY <1>1 DEF IndicesTrackBindings
<1>6. level \in 1..(query.nvars + 1) /\ (mode # "enter" => level <= query.nvars)
  BY <1>1 DEF TypeOK
<1> QED BY <1>1, <1>2, <1>3, <1>4, <1>5, <1>6 DEF TypeOK

\* The parts of the invariant while a query runs, and that they suffice; a
\* formula of its own because it is needed of the next state.
RunningParts ==
  /\ IsDatabase(db) /\ QueriesLeft /\ mode \in {"enter", "loop", "return"}
  /\ todo # << >>
  /\ query.nvars \in Nat /\ level \in 1..(query.nvars + 1)
  /\ mode # "enter" => level <= query.nvars
  /\ DOMAIN states = 1..query.nvars /\ DOMAIN index = Constraints
  /\ StatesOK /\ PositionsOK /\ Offered
  /\ \A c \in Constraints : index[c] = Replayed(c, Selected)

PartsSuffice == RunningParts => SearchInv

\* The parts make up the invariant.
LEMMA StillRunning == PartsSuffice
<1> SUFFICES ASSUME RunningParts PROVE SearchInv
  BY DEF PartsSuffice
<1>1. Selected \in 0..Selected /\ mode # "idle"
  BY DEF Selected, RunningParts
<1>2. \A c \in Constraints : index[c].kind = KindOf(c)
  BY <1>1 DEF PositionsOK, KindOf, RunningParts
<1>3. TypeOK BY <1>1, <1>2 DEF TypeOK, KindOf, RunningParts
<1>4. IndicesTrackBindings BY DEF IndicesTrackBindings, RunningParts
<1> QED BY <1>1, <1>3, <1>4 DEF SearchInv, RunningParts
-----------------------------------------------------------------------------
\* execute starts with every index at its root and nothing bound.
LEMMA ExecuteKeeps ==
  ASSUME SearchInv, Execute
  PROVE  SearchInv'
<1>1. /\ mode = "idle" /\ todo # << >> /\ todo' = todo /\ db' = db
      /\ index' = [c \in Constraints |-> populate_index(query.constraints[c])]
      /\ states' = [v \in 1..query.nvars |-> [candidates |-> {}, current |-> 0]]
      /\ level' = 1 /\ mode' = "enter"
  BY DEF Execute
<1>2. TypeOK /\ QueriesLeft BY DEF SearchInv
<1>3. IsDatabase(db) BY <1>2 DEF TypeOK
<1>4. query.nvars \in Nat \ {0} BY <1>1, <1>2, RunningQuery DEF IsQuery
<1>5. /\ query' = query /\ Constraints' = Constraints
      /\ \A v : Searched(v)' = Searched(v)
      /\ \A c : KindOf(c)' = KindOf(c)
      /\ IsDatabase(db)' /\ QueriesLeft'
  BY <1>1, <1>2, <1>3, QueryKept
<1>6. Selected' = 0 /\ Entered' = 0 BY <1>1 DEF Selected, Entered
<1>7. \A c : Replayed(c, 0)' = populate_index(query.constraints[c])
  <2>1. ReplayOneByOne /\ ReplayOneByOne' BY ReplayedSteps, PTL
  <2>2. \A c : Replayed(c, 0)' = Replayed(c, 0)
    <3> TAKE c
    <3>1. 0 \in Nat /\ \A k \in 1..0 : states'[k].current = states[k].current OBVIOUS
    <3> QED BY <3>1, <1>1, ReplayedKept
  <2> QED BY <2>1, <2>2 DEF ReplayOneByOne
<1>8. StatesOK' BY <1>1, <1>5 DEF StatesOK
<1>9. PositionsOK'
  <2> SUFFICES ASSUME NEW c \in Constraints
               PROVE  IndexOK(Replayed(c, 0))' /\ Replayed(c, 0)'.kind = KindOf(c)'
    BY <1>5, <1>6 DEF PositionsOK, KindOf
  <2>1. IndexOK(populate_index(query.constraints[c]))
        /\ populate_index(query.constraints[c]).kind = KindOf(c)
    BY <1>3, FreshIndexOK
  <2> QED BY <2>1, <1>5, <1>7 DEF IndexOK
<1>10. Offered' BY <1>6 DEF Offered
<1>11. \A c \in Constraints' : index'[c] = Replayed(c, Selected)'
  BY <1>1, <1>5, <1>6, <1>7
<1>12. RunningParts'
  BY <1>1, <1>4, <1>5, <1>8, <1>9, <1>10, <1>11 DEF RunningParts
<1>13. PartsSuffice' BY StillRunning, PTL
<1> QED BY <1>12, <1>13 DEF PartsSuffice

\* Only its ids are what an intersection offers of an index.
LEMMA CandidatesOffered ==
  ASSUME NEW v, NEW ids, NEW c \in Searched(v)
  PROVE  Candidates(v, ids) \subseteq project(index[c])
BY DEF Candidates

\* intersect leaves the indices alone, and its candidates they all offer.
LEMMA IntersectKeeps ==
  ASSUME SearchInv, Intersect
  PROVE  SearchInv'
<1>1. /\ mode = "enter" /\ level <= query.nvars /\ mode' = "loop"
      /\ db' = db /\ todo' = todo /\ index' = index /\ level' = level
  BY DEF Intersect
<1>2. PICK ids : states' = [states EXCEPT ![level].candidates = Candidates(level, ids)]
  BY DEF Intersect
<1>3. /\ IsDatabase(db) /\ todo # << >> /\ QueriesLeft
      /\ query.nvars \in Nat \ {0} /\ level \in 1..(query.nvars + 1)
      /\ DOMAIN states = 1..query.nvars /\ DOMAIN index = Constraints
      /\ StatesOK /\ PositionsOK /\ Offered
      /\ \A c \in Constraints : index[c] = Replayed(c, Selected)
  BY <1>1, Running
<1>4. level \in 1..query.nvars BY <1>1, <1>3
<1>5. /\ query' = query /\ Constraints' = Constraints
      /\ \A v : Searched(v)' = Searched(v)
      /\ \A c : KindOf(c)' = KindOf(c)
      /\ IsDatabase(db)' /\ QueriesLeft'
  BY <1>1, <1>3, QueryKept
<1>6. /\ Selected = level - 1 /\ Selected' = level - 1
      /\ Entered = level - 1 /\ Entered' = level
  BY <1>1 DEF Selected, Entered
<1>7. /\ DOMAIN states' = 1..query.nvars
      /\ \A v \in 1..query.nvars : v # level => states'[v] = states[v]
      /\ states'[level] = [states[level] EXCEPT !.candidates = Candidates(level, ids)]
  BY <1>2, <1>3, <1>4
<1>8. states'[level] = [candidates |-> Candidates(level, ids),
                        current    |-> states[level].current]
  BY <1>3, <1>4, <1>7 DEF StatesOK
<1>9. StatesOK'
  <2> SUFFICES ASSUME NEW v \in 1..query.nvars
               PROVE  states'[v] = [candidates |-> states'[v].candidates,
                                    current |-> states'[v].current]
    BY <1>5 DEF StatesOK
  <2>1. CASE v = level BY <1>8, <2>1
  <2>2. CASE v # level BY <1>3, <1>7, <2>2 DEF StatesOK
  <2> QED BY <2>1, <2>2
<1>10. \A c : \A n \in 0..query.nvars : Replayed(c, n)' = Replayed(c, n)
  <2> TAKE c
  <2> TAKE n \in 0..query.nvars
  <2>1. \A k \in 1..n : states'[k].current = states[k].current
    BY <1>3, <1>7, <1>8
  <2>2. n \in Nat BY <1>3
  <2> QED BY <2>1, <2>2, <1>1, ReplayedKept
<1>11. PositionsOK'
  BY <1>3, <1>4, <1>5, <1>6, <1>10 DEF PositionsOK, IndexOK, KindOf
<1>12. Offered'
  <2> SUFFICES ASSUME NEW c \in Constraints, NEW k \in 1..level, c \in Searched(k)
               PROVE  /\ states'[k].candidates \subseteq project(Replayed(c, k - 1))
                      /\ k <= level - 1 =>
                           states'[k].current \in project(Replayed(c, k - 1))
    <3>1. \A c \in Constraints : \A k \in 1..level :
            Replayed(c, k - 1)' = Replayed(c, k - 1)
      BY <1>3, <1>4, <1>10
    <3>2. \A c \in Constraints : \A k \in 1..level :
            project(Replayed(c, k - 1))' = project(Replayed(c, k - 1))
      BY <3>1
    <3> QED BY <3>2, <1>5, <1>6 DEF Offered
  <2>1. CASE k = level
    <3>1. states'[k].candidates = Candidates(level, ids) BY <2>1, <1>8
    <3>2. project(index[c]) = project(Replayed(c, k - 1)) BY <2>1, <1>3, <1>6
    <3>3. ~(k <= level - 1) BY <2>1, <1>3
    <3> QED BY <2>1, <3>1, <3>2, <3>3, CandidatesOffered
  <2>2. CASE k # level
    <3>1. k \in 1..(level - 1) /\ states'[k] = states[k] BY <2>2, <1>3, <1>4, <1>7
    <3> QED BY <3>1, <1>3, <1>6 DEF Offered
  <2> QED BY <2>1, <2>2
<1>13. \A c \in Constraints' : index'[c] = Replayed(c, Selected)'
  <2>1. level - 1 \in 0..query.nvars BY <1>3, <1>4
  <2>2. \A c : Replayed(c, Selected)' = Replayed(c, Selected)
    BY <2>1, <1>6, <1>10
  <2> QED BY <2>2, <1>1, <1>3, <1>5
<1>14. RunningParts'
  BY <1>1, <1>3, <1>4, <1>5, <1>7, <1>9, <1>11, <1>12, <1>13 DEF RunningParts
<1>15. PartsSuffice' BY StillRunning, PTL
<1> QED BY <1>14, <1>15 DEF PartsSuffice

\* The recursion of Replayed where the variables up to n keep their bindings.
LEMMA ReplayedThrough ==
  ASSUME todo' = todo, db' = db, NEW n \in Nat,
         \A k \in 1..n : states'[k].current = states[k].current
  PROVE  \A c : \A k \in 0..n : Replayed(c, k)' = Replayed(c, k)
<1> TAKE c
<1> TAKE k \in 0..n
<1>1. k \in Nat /\ \A j \in 1..k : states'[j].current = states[j].current OBVIOUS
<1> QED BY <1>1, ReplayedKept

\* Binding a variable moves its indices to where the next is to be looked for.
LEMMA DescendKeeps ==
  ASSUME SearchInv, Descend
  PROVE  SearchInv'
<1>1. /\ mode = "loop" /\ mode' = "enter" /\ level' = level + 1
      /\ db' = db /\ todo' = todo
  BY DEF Descend
<1>2. PICK x \in states[level].candidates :
        /\ states' = [states EXCEPT ![level] = [candidates |-> @.candidates \ {x},
                                                current    |-> x]]
        /\ index' = [c \in Constraints |->
                       IF c \in Searched(level) THEN select(index[c], x) ELSE index[c]]
  BY DEF Descend
<1>3. /\ IsDatabase(db) /\ todo # << >> /\ QueriesLeft
      /\ query.nvars \in Nat \ {0} /\ level \in 1..query.nvars
      /\ DOMAIN states = 1..query.nvars /\ DOMAIN index = Constraints
      /\ StatesOK /\ PositionsOK /\ Offered
      /\ \A c \in Constraints : index[c] = Replayed(c, Selected)
  BY <1>1, Running
<1>4. PICK l \in 1..query.nvars : l = level BY <1>3
<1>5. /\ query' = query /\ Constraints' = Constraints
      /\ \A v : Searched(v)' = Searched(v)
      /\ \A c : KindOf(c)' = KindOf(c)
      /\ IsDatabase(db)' /\ QueriesLeft'
  BY <1>1, <1>3, QueryKept
<1>6. /\ Selected = l - 1 /\ Selected' = l /\ Entered = l /\ Entered' = l
      /\ l \in Nat \ {0} /\ l - 1 \in Nat
  BY <1>1, <1>3, <1>4 DEF Selected, Entered
<1>7. /\ DOMAIN states' = 1..query.nvars
      /\ \A v \in 1..query.nvars : v # l => states'[v] = states[v]
      /\ states'[l] = [candidates |-> states[l].candidates \ {x}, current |-> x]
  BY <1>2, <1>3, <1>4
<1>8. StatesOK'
  <2> SUFFICES ASSUME NEW v \in 1..query.nvars
               PROVE  states'[v] = [candidates |-> states'[v].candidates,
                                    current |-> states'[v].current]
    BY <1>5 DEF StatesOK
  <2>1. CASE v = l BY <1>7, <2>1
  <2>2. CASE v # l BY <1>3, <1>7, <2>2 DEF StatesOK
  <2> QED BY <2>1, <2>2
<1>9. \A c : \A k \in 0..(l - 1) : Replayed(c, k)' = Replayed(c, k)
  <2>1. \A k \in 1..(l - 1) : states'[k].current = states[k].current
    BY <1>3, <1>6, <1>7
  <2> QED BY <2>1, <1>1, <1>6, ReplayedThrough
<1>10. ASSUME NEW c \in Constraints
       PROVE  /\ Replayed(c, l)' = IF c \in Searched(l) THEN select(index[c], x)
                                   ELSE index[c]
              /\ c \in Searched(l) => x \in project(index[c])
  <2>1. ReplayOneByOne' BY ReplayedSteps, PTL
  <2>2. Replayed(c, l)' = Step(c, l, Replayed(c, l - 1))' BY <2>1, <1>6 DEF ReplayOneByOne
  <2>3. Replayed(c, l - 1)' = index[c] BY <1>3, <1>6, <1>9
  <2>4. states'[l].current = x BY <1>7
  <2>5. Step(c, l, Replayed(c, l - 1))' = IF c \in Searched(l) THEN select(index[c], x)
                                          ELSE index[c]
    BY <2>3, <2>4, <1>5 DEF Step
  <2>6. c \in Searched(l) => x \in project(index[c])
    <3>1. project(index[c]) = project(Replayed(c, l - 1)) BY <1>3, <1>6
    <3> QED BY <3>1, <1>2, <1>3, <1>4, <1>6 DEF Offered
  <2> QED BY <2>2, <2>5, <2>6
<1>11. ASSUME NEW c \in Constraints
       PROVE  IndexOK(Replayed(c, l)') /\ Replayed(c, l)'.kind = KindOf(c)
  <2>1. IndexOK(index[c]) /\ index[c].kind = KindOf(c)
    <3>1. l - 1 \in 0..Selected BY <1>6
    <3>2. IndexOK(Replayed(c, l - 1)) /\ Replayed(c, l - 1).kind = KindOf(c)
      BY <3>1, <1>3 DEF PositionsOK, KindOf
    <3> QED BY <3>2, <1>3, <1>6
  <2>2. CASE c \in Searched(l)
    <3>1. x \in project(index[c]) BY <2>2, <1>10
    <3>2. IndexOK(select(index[c], x)) /\ select(index[c], x).kind = index[c].kind
      BY <2>1, <3>1, SelectUndone
    <3> QED BY <2>1, <2>2, <3>2, <1>10
  <2>3. CASE c \notin Searched(l) BY <2>1, <2>3, <1>10
  <2> QED BY <2>2, <2>3
<1>12. PositionsOK'
  <2> SUFFICES ASSUME NEW c \in Constraints, NEW k \in 0..l
               PROVE  IndexOK(Replayed(c, k)') /\ Replayed(c, k)'.kind = KindOf(c)
    BY <1>5, <1>6 DEF PositionsOK, KindOf, IndexOK
  <2>1. CASE k = l BY <2>1, <1>11
  <2>2. CASE k # l
    <3>1. k \in 0..(l - 1) BY <2>2, <1>6
    <3>2. IndexOK(Replayed(c, k)) /\ Replayed(c, k).kind = KindOf(c)
      BY <3>1, <1>3, <1>6 DEF PositionsOK, KindOf
    <3> QED BY <3>1, <3>2, <1>9
  <2> QED BY <2>1, <2>2
<1>13. Offered'
  <2> SUFFICES ASSUME NEW c \in Constraints, NEW k \in 1..l, c \in Searched(k)
               PROVE  /\ states'[k].candidates \subseteq project(Replayed(c, k - 1))
                      /\ states'[k].current \in project(Replayed(c, k - 1))
    <3>1. \A c \in Constraints : \A k \in 1..l :
            project(Replayed(c, k - 1))' = project(Replayed(c, k - 1))
      <4>1. \A k \in 1..l : k - 1 \in 0..(l - 1) BY <1>6
      <4>2. \A c \in Constraints : \A k \in 1..l :
              Replayed(c, k - 1)' = Replayed(c, k - 1)
        BY <4>1, <1>9
      <4> QED BY <4>2
    <3> QED BY <3>1, <1>5, <1>6 DEF Offered
  <2>1. states[k].candidates \subseteq project(Replayed(c, k - 1))
        /\ (k <= l - 1 => states[k].current \in project(Replayed(c, k - 1)))
    BY <1>3, <1>6 DEF Offered
  <2>2. CASE k = l BY <2>1, <2>2, <1>2, <1>4, <1>7
  <2>3. CASE k # l
    <3>1. k <= l - 1 /\ states'[k] = states[k] BY <2>3, <1>3, <1>6, <1>7
    <3> QED BY <2>1, <3>1
  <2> QED BY <2>2, <2>3
<1>14. \A c \in Constraints' : index'[c] = Replayed(c, Selected)'
  <2>1. \A c : Replayed(c, Selected)' = Replayed(c, l)' BY <1>6
  <2> QED BY <2>1, <1>2, <1>4, <1>5, <1>10
<1>15. RunningParts'
  <2>1. level' \in 1..(query.nvars + 1) BY <1>1, <1>3
  <2>2. DOMAIN index' = Constraints' BY <1>2, <1>5
  <2> QED
    BY <2>1, <2>2, <1>1, <1>3, <1>5, <1>7, <1>8, <1>12, <1>13, <1>14 DEF RunningParts
<1>16. PartsSuffice' BY StillRunning, PTL
<1> QED BY <1>15, <1>16 DEF PartsSuffice

\* Steps that change neither the bindings nor how many are selected.
LEMMA TurnKeeps ==
  ASSUME SearchInv, mode # "idle", todo' = todo, db' = db, states' = states,
         index' = index, mode' \in {"enter", "loop", "return"},
         level' \in 1..(query.nvars + 1), mode' # "enter" => level' <= query.nvars,
         Selected' = Selected, Entered' <= Entered
  PROVE  SearchInv'
<1>1. /\ IsDatabase(db) /\ todo # << >> /\ QueriesLeft
      /\ query.nvars \in Nat \ {0} /\ level \in 1..(query.nvars + 1)
      /\ DOMAIN states = 1..query.nvars /\ DOMAIN index = Constraints
      /\ StatesOK /\ PositionsOK /\ Offered
      /\ \A c \in Constraints : index[c] = Replayed(c, Selected)
  BY Running
<1>2. /\ query' = query /\ Constraints' = Constraints
      /\ \A v : Searched(v)' = Searched(v)
      /\ \A c : KindOf(c)' = KindOf(c)
      /\ IsDatabase(db)' /\ QueriesLeft'
  BY <1>1, QueryKept
<1>3. PICK s \in Nat : s = Selected
  BY <1>1 DEF Selected
<1>4. PICK e \in Nat : e = Entered'
  <2>1. \A n \in Nat : \A l \in 1..(n + 1) : l \in Nat /\ l - 1 \in Nat OBVIOUS
  <2>2. level' \in Nat /\ level' - 1 \in Nat BY <1>1, <2>1, Zenon
  <2>3. Entered' = level' - 1 \/ Entered' = level'
    BY Zenon DEF Entered
  <2> QED BY <2>2, <2>3, Zenon
<1>5. \A n \in Nat : \A c : \A k \in 0..n : Replayed(c, k)' = Replayed(c, k)
  BY ReplayedThrough
<1>6. StatesOK' BY <1>1, <1>2 DEF StatesOK
<1>7. PositionsOK'
  <2> SUFFICES ASSUME NEW c \in Constraints, NEW k \in 0..s
               PROVE  IndexOK(Replayed(c, k)') /\ Replayed(c, k)'.kind = KindOf(c)
    BY <1>2, <1>3 DEF PositionsOK, KindOf, IndexOK
  <2>1. IndexOK(Replayed(c, k)) /\ Replayed(c, k).kind = KindOf(c)
    BY <1>1, <1>3 DEF PositionsOK, KindOf
  <2> QED BY <2>1, <1>5
<1>8. Offered'
  <2> SUFFICES ASSUME NEW c \in Constraints, NEW k \in 1..e, c \in Searched(k)
               PROVE  /\ states[k].candidates \subseteq project(Replayed(c, k - 1))
                      /\ k <= s => states[k].current \in project(Replayed(c, k - 1))
    <3>1. \A c \in Constraints : \A k \in 1..e :
            project(Replayed(c, k - 1))' = project(Replayed(c, k - 1))
      <4>1. \A k \in 1..e : k - 1 \in Nat /\ k - 1 \in 0..(k - 1) OBVIOUS
      <4>2. \A c \in Constraints : \A k \in 1..e :
              Replayed(c, k - 1)' = Replayed(c, k - 1)
        BY <4>1, <1>5
      <4> QED BY <4>2
    <3> QED BY <3>1, <1>2, <1>3, <1>4 DEF Offered
  <2>1. k \in 1..Entered
    <3>1. Entered \in Nat BY <1>1 DEF Entered
    <3> QED BY <3>1, <1>4
  <2> QED BY <2>1, <1>1, <1>3 DEF Offered
<1>9. \A c \in Constraints' : index'[c] = Replayed(c, Selected)'
  <2>1. \A c : Replayed(c, Selected)' = Replayed(c, s)' BY <1>3
  <2>2. \A c : Replayed(c, s)' = Replayed(c, s) BY <1>3, <1>5
  <2> QED BY <2>1, <2>2, <1>1, <1>2, <1>3
<1>10. RunningParts'
  BY <1>1, <1>2, <1>6, <1>7, <1>8, <1>9 DEF RunningParts
<1>11. PartsSuffice' BY StillRunning, PTL
<1> QED BY <1>10, <1>11 DEF PartsSuffice

\* A match is recorded and the recursion turns back.
LEMMA ReportKeeps ==
  ASSUME SearchInv, Report
  PROVE  SearchInv'
<1>1. /\ mode = "enter" /\ mode' = "return" /\ level > query.nvars /\ level' = level - 1
      /\ todo' = todo /\ db' = db /\ states' = states /\ index' = index
  BY DEF Report
<1>2. query.nvars \in Nat \ {0} /\ level \in 1..(query.nvars + 1)
  BY <1>1, Running
<1>3. Selected' = Selected /\ Entered' <= Entered /\ level' \in 1..query.nvars
  BY <1>1, <1>2 DEF Selected, Entered
<1>4. level' \in 1..(query.nvars + 1) /\ level' <= query.nvars BY <1>2, <1>3
<1> QED BY <1>1, <1>3, <1>4, TurnKeeps

\* A level is left when its candidates are used up; below the first it is the
\* end of the query.
LEMMA ExhaustedKeeps ==
  ASSUME SearchInv, Exhausted
  PROVE  SearchInv'
<1>1. /\ mode = "loop" /\ db' = db /\ states' = states /\ index' = index
  BY DEF Exhausted
<1>2. /\ query.nvars \in Nat \ {0} /\ level \in 1..query.nvars
      /\ IsDatabase(db) /\ todo # << >> /\ QueriesLeft
  BY <1>1, Running
<1>3. CASE level = 1
  <2>1. level' = 0 /\ mode' = "idle" /\ todo' = Tail(todo) BY <1>3 DEF Exhausted
  <2>2. QueriesLeft' BY <2>1, <1>2, RunningQuery DEF QueriesLeft
  <2>3. TypeOK' BY <2>1, <1>1, <1>2 DEF TypeOK, IsDatabase
  <2> QED BY <2>1, <2>2, <2>3 DEF SearchInv, IndicesTrackBindings
<1>4. CASE level # 1
  <2>1. level' = level - 1 /\ mode' = "return" /\ todo' = todo BY <1>4 DEF Exhausted
  <2>2. Selected' = Selected /\ Entered' <= Entered /\ level' \in 1..query.nvars
    BY <2>1, <1>1, <1>2, <1>4 DEF Selected, Entered
  <2>3. level' \in 1..(query.nvars + 1) /\ level' <= query.nvars BY <1>2, <2>2
  <2> QED BY <2>1, <2>2, <2>3, <1>1, TurnKeeps
<1> QED BY <1>3, <1>4

\* On the way up every index goes back to where the variable was intersected.
LEMMA UnselectKeeps ==
  ASSUME SearchInv, Unselect
  PROVE  SearchInv'
<1>1. /\ mode = "return" /\ mode' = "loop" /\ level' = level
      /\ db' = db /\ todo' = todo /\ states' = states
      /\ index' = [c \in Constraints |->
                     IF c \in Searched(level) THEN unselect(index[c]) ELSE index[c]]
  BY DEF Unselect
<1>2. /\ IsDatabase(db) /\ todo # << >> /\ QueriesLeft
      /\ query.nvars \in Nat \ {0} /\ level \in 1..query.nvars
      /\ DOMAIN states = 1..query.nvars /\ DOMAIN index = Constraints
      /\ StatesOK /\ PositionsOK /\ Offered
      /\ \A c \in Constraints : index[c] = Replayed(c, Selected)
  BY <1>1, Running
<1>3. PICK l \in 1..query.nvars : l = level BY <1>2
<1>4. /\ query' = query /\ Constraints' = Constraints
      /\ \A v : Searched(v)' = Searched(v)
      /\ \A c : KindOf(c)' = KindOf(c)
      /\ IsDatabase(db)' /\ QueriesLeft'
  BY <1>1, <1>2, QueryKept
<1>5. /\ Selected = l /\ Selected' = l - 1 /\ Entered = l /\ Entered' = l
      /\ l \in Nat \ {0} /\ l - 1 \in Nat
  BY <1>1, <1>2, <1>3 DEF Selected, Entered
<1>6. \A c : \A k \in 0..l : Replayed(c, k)' = Replayed(c, k)
  BY <1>1, <1>5, ReplayedThrough
<1>7. ASSUME NEW c \in Constraints
      PROVE  index'[c] = Replayed(c, l - 1)
  <2>1. Replayed(c, l) = Step(c, l, Replayed(c, l - 1))
    BY <1>5, ReplayedSteps DEF ReplayOneByOne
  <2>2. CASE c \in Searched(l)
    <3> DEFINE ix == Replayed(c, l - 1)
               key == states[l].current
    <3>1. IndexOK(ix)
      <4>1. l - 1 \in 0..l BY <1>5
      <4> QED BY <4>1, <1>2, <1>5 DEF PositionsOK
    <3>2. key \in project(ix) BY <2>2, <1>2, <1>5 DEF Offered
    <3>3. index[c] = select(ix, key) BY <2>1, <2>2, <1>2, <1>5 DEF Step
    <3>4. index'[c] = unselect(index[c]) BY <2>2, <1>1, <1>3
    <3> HIDE DEF ix, key
    <3>5. unselect(select(ix, key)) = ix BY <3>1, <3>2, SelectUndone
    <3>6. index'[c] = ix BY <3>3, <3>4, <3>5
    <3> QED BY <3>6 DEF ix
  <2>3. CASE c \notin Searched(l)
    <3>1. index'[c] = index[c] BY <2>3, <1>1, <1>3
    <3> QED BY <3>1, <2>1, <2>3, <1>2, <1>5 DEF Step
  <2> QED BY <2>2, <2>3
<1>8. StatesOK' BY <1>1, <1>2, <1>4 DEF StatesOK
<1>9. PositionsOK'
  <2> SUFFICES ASSUME NEW c \in Constraints, NEW k \in 0..(l - 1)
               PROVE  IndexOK(Replayed(c, k)') /\ Replayed(c, k)'.kind = KindOf(c)
    BY <1>4, <1>5 DEF PositionsOK, KindOf, IndexOK
  <2>1. k \in 0..l BY <1>5
  <2>2. IndexOK(Replayed(c, k)) /\ Replayed(c, k).kind = KindOf(c)
    BY <2>1, <1>2, <1>5 DEF PositionsOK, KindOf
  <2> QED BY <2>1, <2>2, <1>6
<1>10. Offered'
  <2> SUFFICES ASSUME NEW c \in Constraints, NEW k \in 1..l, c \in Searched(k)
               PROVE  /\ states[k].candidates \subseteq project(Replayed(c, k - 1))
                      /\ states[k].current \in project(Replayed(c, k - 1))
    <3>1. \A c \in Constraints : \A k \in 1..l :
            project(Replayed(c, k - 1))' = project(Replayed(c, k - 1))
      <4>1. \A k \in 1..l : k - 1 \in 0..l BY <1>5
      <4>2. \A c \in Constraints : \A k \in 1..l :
              Replayed(c, k - 1)' = Replayed(c, k - 1)
        BY <4>1, <1>6
      <4> QED BY <4>2
    <3> QED BY <3>1, <1>1, <1>4, <1>5 DEF Offered
  <2> QED BY <1>2, <1>5 DEF Offered
<1>11. \A c \in Constraints' : index'[c] = Replayed(c, Selected)'
  <2>1. \A c : Replayed(c, Selected)' = Replayed(c, l - 1)' BY <1>5
  <2>2. \A c : Replayed(c, l - 1)' = Replayed(c, l - 1) BY <1>5, <1>6
  <2> QED BY <2>1, <2>2, <1>4, <1>7
<1>12. RunningParts'
  <2>1. DOMAIN index' = Constraints' BY <1>1, <1>4
  <2> QED
    BY <2>1, <1>1, <1>2, <1>4, <1>8, <1>9, <1>10, <1>11 DEF RunningParts
<1>13. PartsSuffice' BY StillRunning, PTL
<1> QED BY <1>12, <1>13 DEF PartsSuffice
-----------------------------------------------------------------------------
\* The search starts in the invariant.
LEMMA InitSearch == Init => SearchInv
<1> SUFFICES ASSUME Init PROVE SearchInv OBVIOUS
<1>1. db \in Databases /\ todo = Queries /\ level = 0 /\ mode = "idle" BY DEF Init
<1>2. TypeOK BY <1>1, EngineAssumption DEF TypeOK
<1>3. QueriesLeft BY <1>1, EngineAssumption DEF QueriesLeft
<1> QED BY <1>1, <1>2, <1>3 DEF SearchInv, IndicesTrackBindings

\* Nothing happens, and the invariant still holds.
LEMMA StutterKeeps ==
  ASSUME SearchInv, UNCHANGED vars
  PROVE  SearchInv'
<1>1. /\ db' = db /\ todo' = todo /\ index' = index /\ states' = states
      /\ level' = level /\ mode' = mode
  BY DEF vars
<1>2. CASE mode = "idle"
  BY <1>1, <1>2 DEF SearchInv, TypeOK, IsDatabase, QueriesLeft, IndicesTrackBindings
<1>3. CASE mode # "idle"
  <2>1. /\ query.nvars \in Nat \ {0} /\ level \in 1..(query.nvars + 1)
        /\ mode # "enter" => level \in 1..query.nvars
    BY <1>3, Running
  <2>2. mode \in {"enter", "loop", "return"} BY <1>3 DEF SearchInv, TypeOK
  <2>3. Selected' = Selected /\ Entered' = Entered /\ Entered \in Nat
    BY <1>1, <2>1 DEF Selected, Entered
  <2> QED BY <1>1, <1>3, <2>1, <2>2, <2>3, TurnKeeps
<1> QED BY <1>2, <1>3

\* Every step keeps the invariant.
LEMMA SearchStep == SearchInv /\ [Next]_vars => SearchInv'
BY ExecuteKeeps, IntersectKeeps, DescendKeeps, ReportKeeps, UnselectKeeps,
   ExhaustedKeeps, StutterKeeps
   DEF Next

\* The invariant of the search holds in every state.
LEMMA SearchInvariant == Spec => []SearchInv
BY InitSearch, SearchStep, PTL DEF Spec

\* The search never leaves the variables of the query, and each index stays one
\* of its kind (engine.cpp:100-147).
THEOREM TypeCorrect == Spec => []TypeOK
<1>1. SearchInv => TypeOK BY DEF SearchInv
<1> QED BY <1>1, SearchInvariant, PTL

\* Every index is where selecting the bindings from the root would bring it,
\* whatever was selected and unselected before (engine.cpp:138-145).
THEOREM IndicesTracked == Spec => []IndicesTrackBindings
<1>1. SearchInv => IndicesTrackBindings BY DEF SearchInv
<1> QED BY <1>1, SearchInvariant, PTL

\* What a step that goes down binds, each of its indices offered.
DescendsToOffered ==
  \A c \in DOMAIN index :
    level' = level + 1 /\ c \in Searched(level) =>
      states'[level].current \in project(index[c])

\* The step to the next level selects an offered key; no other step goes down
\* a level at which an index is searched.
LEMMA DescendOffered == SearchInv /\ [Next]_vars => DescendsToOffered
<1> SUFFICES ASSUME SearchInv, [Next]_vars, NEW c \in DOMAIN index,
                    level' = level + 1, c \in Searched(level)
             PROVE  states'[level].current \in project(index[c])
  BY DEF DescendsToOffered
<1>1. level \in Nat
  <2>1. CASE mode = "idle" BY <2>1 DEF SearchInv
  <2>2. CASE mode # "idle" BY <2>2, Running
  <2> QED BY <2>1, <2>2
<1>2. CASE Execute
  <2>1. level = 0 /\ todo # << >> /\ QueriesLeft BY <1>2 DEF Execute, SearchInv
  <2>2. IsQuery(query) BY <2>1, RunningQuery
  <2>3. c \in Constraints /\ Mentions(query.constraints[c], 0) BY <2>1 DEF Searched
  <2>4. query.constraints[c].variables \in Seq(1..query.nvars)
    BY <2>2, <2>3 DEF IsQuery, IsConstraint, Constraints
  <2>5. PICK i \in DOMAIN query.constraints[c].variables :
          query.constraints[c].variables[i] = 0
    BY <2>3 DEF Mentions
  <2> DEFINE s == query.constraints[c].variables
  <2>6. s \in Seq(1..query.nvars) /\ i \in DOMAIN s /\ s[i] = 0 BY <2>4, <2>5
  <2> HIDE DEF s
  <2> DEFINE T == 1..query.nvars
  <2>7. 0 \in T
    <3>1. s \in Seq(T) BY <2>6
    <3> HIDE DEF T
    <3> QED BY <3>1, <2>6
  <2>8. query.nvars \in Nat BY <2>2 DEF IsQuery
  <2> QED BY <2>7, <2>8
<1>3. CASE Descend
  <2>1. mode = "loop" BY <1>3 DEF Descend
  <2>2. PICK x \in states[level].candidates :
          states' = [states EXCEPT ![level] = [candidates |-> @.candidates \ {x},
                                               current    |-> x]]
    BY <1>3 DEF Descend
  <2>3. /\ query.nvars \in Nat \ {0} /\ level \in 1..query.nvars
        /\ DOMAIN states = 1..query.nvars /\ DOMAIN index = Constraints
        /\ Offered /\ index[c] = Replayed(c, Selected)
    BY <2>1, Running
  <2>4. Selected = level - 1 /\ Entered = level BY <2>1 DEF Selected, Entered
  <2>5. states'[level].current = x BY <2>2, <2>3
  <2>6. states[level].candidates \subseteq project(Replayed(c, level - 1))
    BY <2>3, <2>4 DEF Offered
  <2>7. Replayed(c, level - 1) = index[c] BY <2>3, <2>4
  <2> QED BY <2>2, <2>5, <2>6, <2>7
<1>4. CASE Intersect \/ Report \/ Unselect \/ Exhausted \/ UNCHANGED vars
  BY <1>1, <1>4 DEF Intersect, Report, Unselect, Exhausted, vars
<1> QED BY <1>2, <1>3, <1>4 DEF Next

\* A key is selected only where project offers it: neither the assertion at
\* trie_index.cpp:58 nor the `at' at multiset_index.cpp:27 fails.
THEOREM SelectsSafe == Spec => SelectsOffered
<1>1. SearchInv /\ [Next]_vars => DescendsToOffered BY DescendOffered
<1> QED BY <1>1, SearchInvariant, PTL DEF Spec, SelectsOffered, DescendsToOffered
-----------------------------------------------------------------------------
\* What the variables are bound to.
Binding == [v \in 1..query.nvars |-> states[v].current]

\* The children that the variables vs of an AC constraint stand for, counted.
KidCounts(vs, s) == [x \in Ids |-> Cardinality({i \in 2..(Len(vs) - 1) : s[vs[i]] = x})]

\* The id is that of the e-node, or stands for it.
Stands(id, op, args) ==
  IF lookup(op, args) # {} THEN id \in lookup(op, args)
  ELSE \E j \in DOMAIN ephemeral : /\ id = EphemeralId(j)
                                   /\ ephemeral[j] = [op |-> op, args |-> args]

\* The binding s satisfies the constraint c: a tuple of the row store, or a part
\* of a term of the AC relation and the id of that part.
Satisfied(c, s) ==
  LET vs == c.variables
  IN  IF c.symbol \in AcOps
        THEN LET term == s[vs[1]]
             IN  /\ term \in DOMAIN db.terms[c.symbol]
                 /\ \A i \in 2..(Len(vs) - 1) : s[vs[i]] \in Ids
                 /\ Includes(db.terms[c.symbol][term], KidCounts(vs, s))
                 /\ Stands(s[Last(vs)], c.symbol, KidCounts(vs, s))
        ELSE [i \in DOMAIN vs |-> s[vs[i]]] \in db.rows[c.symbol]

\* A match of q: what the head is bound to by a binding that satisfies all.
IsMatch(q, r) ==
  \E s : /\ r = [i \in DOMAIN q.head |-> s[q.head[i]]]
         /\ \A c \in DOMAIN q.constraints : Satisfied(q.constraints[c], s)

\* What ephemeral ids stand for.
EphemeralOK == ephemeral \in Seq([op : AcOps, args : [Ids -> Nat]])

\* The queries to come are the last ones of those given.
Remaining ==
  \E n \in 0..Len(Queries) : todo = SubSeq(Queries, n + 1, Len(Queries))

\* The query that results are of.
Latest == Queries[Len(Queries) - Len(todo) + (IF mode = "idle" THEN 0 ELSE 1)]

-----------------------------------------------------------------------------
\* One more element.
LEMMA AppendSequence ==
  ASSUME NEW h, IsSequence(h), NEW x
  PROVE  /\ IsSequence(Append(h, x)) /\ Len(h) \in Nat
         /\ Len(Append(h, x)) = Len(h) + 1
         /\ \A i \in 1..Len(h) : Append(h, x)[i] = h[i]
         /\ Append(h, x)[Len(h) + 1] = x
         /\ DOMAIN h = 1..Len(h) /\ DOMAIN Append(h, x) = 1..(Len(h) + 1)
<1> DEFINE T == {h[i] : i \in DOMAIN h} \cup {x}
           s == Append(h, x)
<1>1. h \in Seq(T) /\ x \in T BY DEF IsSequence
<1> HIDE DEF T
<1>2. /\ s \in Seq(T) /\ Len(s) = Len(h) + 1 /\ Len(h) \in Nat
      /\ \A i \in 1..Len(h) : s[i] = h[i]
      /\ s[Len(h) + 1] = x /\ DOMAIN h = 1..Len(h)
  BY <1>1
<1> HIDE DEF s
<1>3. DOMAIN s = 1..Len(s) /\ s \in [1..Len(s) -> T] /\ Len(s) \in Nat BY <1>2
<1>4. s \in [1..Len(s) -> {s[i] : i \in DOMAIN s}] BY <1>3
<1>5. s \in Seq({s[i] : i \in DOMAIN s}) BY <1>3, <1>4
<1> QED BY <1>2, <1>3, <1>5 DEF IsSequence, s

\* The order in which the columns of the row constraint c are searched.
Order(c) == index_to_permutation(query.constraints[c].permutation,
                                 Len(query.constraints[c].variables))

\* Operator and variables of constraint c, and what a variable is bound to.
OpOf(c) == query.constraints[c].symbol
Vars(c) == query.constraints[c].variables
Bound(v) == states[v].current

\* Distinct constraints and variables of the query that runs.
LEMMA ConstraintFacts ==
  ASSUME SearchInv, mode # "idle", NEW c \in Constraints
  PROVE  /\ OpOf(c) \in RowOps \cup AcOps
         /\ Len(Vars(c)) \in Nat \ {0} /\ DOMAIN Vars(c) = 1..Len(Vars(c))
         /\ \A i \in 1..Len(Vars(c)) :
              /\ Vars(c)[i] \in 1..query.nvars /\ Vars(c)[i] \in Nat \ {0}
              /\ Vars(c)[i] <= Last(Vars(c))
              /\ OpOf(c) \in AcOps => Vars(c)[1] <= Vars(c)[i]
         /\ \A i, j \in 1..Len(Vars(c)) : i # j => Vars(c)[i] # Vars(c)[j]
         /\ OpOf(c) \in AcOps => Len(Vars(c)) >= 2
         /\ OpOf(c) \notin AcOps => /\ Len(Vars(c)) = Arity[OpOf(c)] + 1
                                    /\ Sorts(Order(c), Vars(c))
         /\ Last(Vars(c)) = Vars(c)[Len(Vars(c))]
         /\ query.nvars \in Nat
<1> DEFINE vs == Vars(c)
<1>1. IsQuery(query) BY Running
<1>2. IsConstraint(query.constraints[c], query.nvars) BY <1>1 DEF IsQuery, Constraints
<1>3. query.nvars \in Nat BY <1>1 DEF IsQuery
<1>4. /\ OpOf(c) \in RowOps \cup AcOps
      /\ vs \in Seq(1..query.nvars) /\ vs # << >>
      /\ \A i, j \in DOMAIN vs : i # j => vs[i] # vs[j]
      /\ \A i \in DOMAIN vs : vs[i] <= Last(vs) /\ (OpOf(c) \in AcOps => vs[1] <= vs[i])
      /\ OpOf(c) \in AcOps => Len(vs) >= 2
      /\ OpOf(c) \notin AcOps => Len(vs) = Arity[OpOf(c)] + 1 /\ Sorts(Order(c), vs)
  BY <1>2 DEF IsConstraint, OpOf, Vars, Order
<1> HIDE DEF vs
<1>5. Len(vs) \in Nat \ {0} /\ DOMAIN vs = 1..Len(vs) BY <1>4
<1> DEFINE T == 1..query.nvars
<1>6. \A i \in 1..Len(vs) : vs[i] \in T
  <2>1. vs \in Seq(T) BY <1>4
  <2> HIDE DEF T
  <2> QED BY <2>1
<1>7. \A i \in 1..Len(vs) : vs[i] \in Nat \ {0} BY <1>3, <1>6
<1>8. Last(vs) = vs[Len(vs)] BY DEF Last
<1> QED BY <1>3, <1>4, <1>5, <1>6, <1>7, <1>8 DEF vs

\* A replayed step is one of a searched variable, whose binding was offered.
LEMMA ReplayedStep ==
  ASSUME SearchInv, mode # "idle", NEW c \in Constraints, NEW k \in 1..Selected
  PROVE  /\ Selected \in 0..query.nvars /\ query.nvars \in Nat
         /\ k \in Nat /\ k - 1 \in Nat /\ k - 1 \in 0..Selected
         /\ Replayed(c, k) = IF c \in Searched(k)
                               THEN select(Replayed(c, k - 1), states[k].current)
                               ELSE Replayed(c, k - 1)
         /\ c \in Searched(k) => states[k].current \in project(Replayed(c, k - 1))
<1>1. /\ query.nvars \in Nat \ {0} /\ level \in 1..(query.nvars + 1)
      /\ mode # "enter" => level \in 1..query.nvars
      /\ Offered
  BY Running
<1>2. Selected \in 0..query.nvars /\ Selected \in 0..Entered /\ Entered \in Nat
  BY <1>1 DEF Selected, Entered
<1>3. k \in Nat \ {0} /\ k \in 1..Entered BY <1>2
<1>4. Replayed(c, k) = Step(c, k, Replayed(c, k - 1)) BY <1>3, ReplayedSteps DEF ReplayOneByOne
<1>5. c \in Searched(k) => states[k].current \in project(Replayed(c, k - 1))
  BY <1>1, <1>3 DEF Offered
<1> QED BY <1>1, <1>2, <1>3, <1>4, <1>5 DEF Step
-----------------------------------------------------------------------------
\* What is stored, its columns in the order in which they are searched, and the
\* variables of the columns.
Paths(c) == {apply_permutation(Order(c), t) : t \in db.rows[OpOf(c)]}
Column(c, i) == Vars(c)[Order(c)[i]]

\* The trie of constraint c when the variables up to n are selected: the path
\* from the root is what the first m columns are bound to, and these are the
\* columns of the variables selected.
TrieAt(c, n, m, h) ==
  /\ m \in 0..Len(Vars(c))
  /\ Replayed(c, n) = [kind |-> "trie", paths |-> Paths(c), history |-> h]
  /\ IsSequence(h) /\ Len(h) = m
  /\ \A i \in 1..Len(Vars(c)) : i <= m <=> Column(c, i) <= n
  /\ \A i \in 1..m : h[i] = Bound(Column(c, i))

\* The constraint of an operator with fixed arity, its columns in order.
LEMMA RowFacts ==
  ASSUME SearchInv, mode # "idle", NEW c \in Constraints, OpOf(c) \notin AcOps
  PROVE  /\ Len(Vars(c)) \in Nat \ {0}
         /\ \A i \in 1..Len(Vars(c)) : /\ Order(c)[i] \in 1..Len(Vars(c))
                                       /\ Column(c, i) \in 1..query.nvars
                                       /\ Column(c, i) \in Nat \ {0}
         /\ \A j \in 1..Len(Vars(c)) : \E i \in 1..Len(Vars(c)) : Order(c)[i] = j
         /\ \A i, j \in 1..Len(Vars(c)) : i < j => Column(c, i) < Column(c, j)
         /\ \A k : c \in Searched(k) <=> \E i \in 1..Len(Vars(c)) : Column(c, i) = k
<1>1. /\ Len(Vars(c)) \in Nat \ {0} /\ DOMAIN Vars(c) = 1..Len(Vars(c)) /\ Sorts(Order(c), Vars(c))
      /\ \A i \in 1..Len(Vars(c)) : Vars(c)[i] \in 1..query.nvars /\ Vars(c)[i] \in Nat \ {0}
  BY ConstraintFacts
<1>2. /\ \A i \in 1..Len(Vars(c)) : Order(c)[i] \in 1..Len(Vars(c))
      /\ \A j \in 1..Len(Vars(c)) : \E i \in 1..Len(Vars(c)) : Order(c)[i] = j
      /\ \A i, j \in 1..Len(Vars(c)) : i < j => Column(c, i) < Column(c, j)
  BY <1>1 DEF Sorts, Column
<1>3. \A k : c \in Searched(k) <=> Mentions(query.constraints[c], k)
  BY DEF Searched, fd, OpOf
<1>4. \A k : Mentions(query.constraints[c], k) <=> \E i \in 1..Len(Vars(c)) : Column(c, i) = k
  <2> TAKE k
  <2>1. Mentions(query.constraints[c], k) <=> \E j \in 1..Len(Vars(c)) : Vars(c)[j] = k
    BY <1>1 DEF Mentions, Vars
  <2> QED BY <2>1, <1>2 DEF Column
<1> QED BY <1>1, <1>2, <1>3, <1>4 DEF Column

\* Where the trie is.
LEMMA TriePosition ==
  ASSUME SearchInv, mode # "idle", NEW c \in Constraints, OpOf(c) \notin AcOps,
         NEW n \in 0..Selected
  PROVE  \E m, h : TrieAt(c, n, m, h)
<1> DEFINE N == Len(Vars(c))
           P == {k \in 0..Selected : \E m, h : TrieAt(c, k, m, h)}
<1>1. /\ N \in Nat \ {0}
      /\ \A i \in 1..N : Column(c, i) \in Nat \ {0}
      /\ \A i, j \in 1..N : i < j => Column(c, i) < Column(c, j)
      /\ \A k : c \in Searched(k) <=> \E i \in 1..N : Column(c, i) = k
  BY RowFacts
<1>2. Selected \in Nat
  <2>1. /\ query.nvars \in Nat \ {0} /\ level \in 1..(query.nvars + 1) BY Running
  <2> QED BY <2>1 DEF Selected
<1>4. 0 \in P
  <2>1. Replayed(c, 0) = [kind |-> "trie", paths |-> Paths(c), history |-> << >>]
    <3>1. Replayed(c, 0) = populate_index(query.constraints[c]) BY ReplayedSteps DEF ReplayOneByOne
    <3> QED BY <3>1 DEF populate_index, populate_trie, TrieIndex, Paths, Order, OpOf
  <2>2. IsSequence(<< >>) /\ Len(<< >>) = 0 BY DEF IsSequence
  <2>3. TrieAt(c, 0, 0, << >>) BY <1>1, <2>1, <2>2 DEF TrieAt
  <2> QED BY <2>3, <1>2
<1>5. ASSUME NEW k \in 1..Selected, k - 1 \in P PROVE k \in P
  <2>1. PICK m, h : TrieAt(c, k - 1, m, h) BY <1>5
  <2>2. /\ m \in 0..N
        /\ Replayed(c, k - 1) = [kind |-> "trie", paths |-> Paths(c), history |-> h]
        /\ IsSequence(h) /\ Len(h) = m
        /\ \A i \in 1..N : i <= m <=> Column(c, i) <= k - 1
        /\ \A i \in 1..m : h[i] = Bound(Column(c, i))
    BY <2>1 DEF TrieAt
  <2>3. k \in Nat /\ Replayed(c, k) = IF c \in Searched(k)
                               THEN select(Replayed(c, k - 1), Bound(k))
                               ELSE Replayed(c, k - 1)
    BY ReplayedStep DEF Bound
  <2>4. CASE c \in Searched(k)
    <3> DEFINE h2 == Append(h, Bound(k))
    <3>1. PICK j \in 1..N : Column(c, j) = k BY <2>4, <1>1
    <3>2. ~(j <= m) BY <3>1, <2>2, <2>3
    <3>3. ~(m + 1 < j)
      <4>1. ASSUME m + 1 < j PROVE FALSE
        <5>1. m + 1 \in 1..N /\ ~(m + 1 <= m) BY <4>1, <2>2, <1>1
        <5>2. Column(c, m + 1) < k BY <5>1, <4>1, <3>1, <1>1
        <5>3. Column(c, m + 1) \in Nat BY <5>1, <1>1
        <5> QED BY <5>1, <5>2, <5>3, <2>2, <2>3
      <4> QED BY <4>1
    <3>4. j = m + 1 /\ m + 1 \in 0..N BY <3>1, <3>2, <3>3, <2>2, <1>1
    <3>5. Replayed(c, k) = [kind |-> "trie", paths |-> Paths(c), history |-> h2]
      <4> DEFINE ix == [kind |-> "trie", paths |-> Paths(c), history |-> h]
      <4>1. Replayed(c, k) = select(ix, Bound(k)) BY <2>2, <2>3, <2>4
      <4>2. select(ix, Bound(k)) = [kind |-> "trie", paths |-> Paths(c), history |-> h2]
        BY DEF select, TrieSelect
      <4> QED BY <4>1, <4>2
    <3>6. /\ IsSequence(h2) /\ Len(h2) = m + 1
          /\ \A i \in 1..m : h2[i] = h[i]
          /\ h2[m + 1] = Bound(k)
      BY <2>2, AppendSequence
    <3>7. \A i \in 1..N : i <= m + 1 <=> Column(c, i) <= k
      <4> TAKE i \in 1..N
      <4>0. Column(c, i) \in Nat BY <1>1
      <4>1. CASE i <= m
        <5>1. Column(c, i) <= k - 1 BY <4>1, <2>2
        <5> QED BY <4>0, <4>1, <5>1, <2>3, <2>2
      <4>2. CASE i = m + 1 BY <4>2, <3>1, <3>4, <2>2, <2>3
      <4>3. CASE i > m + 1
        <5>1. k < Column(c, i) BY <4>3, <3>1, <3>4, <1>1
        <5> QED BY <4>0, <4>3, <5>1, <2>2, <2>3
      <4> QED BY <4>1, <4>2, <4>3, <2>2
    <3>8. \A i \in 1..(m + 1) : h2[i] = Bound(Column(c, i))
      <4> TAKE i \in 1..(m + 1)
      <4>1. CASE i = m + 1 BY <4>1, <3>1, <3>4, <3>6
      <4>2. CASE i # m + 1
        <5>1. i \in 1..m BY <4>2, <2>2
        <5> QED BY <5>1, <3>6, <2>2
      <4> QED BY <4>1, <4>2
    <3> HIDE DEF h2
    <3>9. TrieAt(c, k, m + 1, h2) BY <3>4, <3>5, <3>6, <3>7, <3>8 DEF TrieAt
    <3>10. k \in 0..Selected BY <1>2
    <3> QED BY <3>9, <3>10
  <2>5. CASE c \notin Searched(k)
    <3>1. \A i \in 1..N : Column(c, i) # k BY <2>5, <1>1
    <3>2. \A i \in 1..N : Column(c, i) <= k <=> Column(c, i) <= k - 1 BY <3>1, <2>3, <1>1
    <3>3. TrieAt(c, k, m, h) BY <3>2, <2>2, <2>3, <2>5 DEF TrieAt
    <3>4. k \in 0..Selected BY <1>2
    <3> QED BY <3>3, <3>4
  <2> QED BY <2>4, <2>5
<1> HIDE DEF P
<1>6. n \in P BY <1>2, <1>4, <1>5, IntervalInduction
<1> QED BY <1>6 DEF P

\* Once its id is selected, the bindings of a row constraint are a tuple of the
\* row store.
LEMMA RowSatisfied ==
  ASSUME SearchInv, mode # "idle", NEW c \in Constraints, OpOf(c) \notin AcOps,
         Last(Vars(c)) <= Selected
  PROVE  /\ [i \in 1..Len(Vars(c)) |-> Bound(Vars(c)[i])] \in db.rows[OpOf(c)]
         /\ \A i \in 1..Len(Vars(c)) : Bound(Vars(c)[i]) \in Ids
<1> DEFINE N == Len(Vars(c))
           k == Column(c, N)
<1>1. /\ N \in Nat \ {0}
      /\ \A i \in 1..N : Order(c)[i] \in 1..N /\ Column(c, i) \in 1..query.nvars
                           /\ Column(c, i) \in Nat \ {0}
      /\ \A j \in 1..N : \E i \in 1..N : Order(c)[i] = j
      /\ \A i, j \in 1..N : i < j => Column(c, i) < Column(c, j)
      /\ \A v : c \in Searched(v) <=> \E i \in 1..N : Column(c, i) = v
  BY RowFacts
<1>2. /\ \A i \in 1..N : Vars(c)[i] \in Nat /\ Vars(c)[i] <= Last(Vars(c))
      /\ OpOf(c) \in RowOps /\ N = Arity[OpOf(c)] + 1
      /\ Last(Vars(c)) = Vars(c)[N]
  BY ConstraintFacts
<1>3. IsDatabase(db) BY Running
<1>4. Selected \in Nat /\ k \in 1..Selected
  <2>1. /\ query.nvars \in Nat \ {0} /\ level \in 1..(query.nvars + 1) BY Running
  <2>2. Selected \in Nat BY <2>1 DEF Selected
  <2>3. N \in 1..N /\ Order(c)[N] \in 1..N /\ k \in Nat \ {0} BY <1>1
  <2>4. k <= Last(Vars(c)) BY <2>3, <1>2 DEF Column
  <2>5. Last(Vars(c)) \in Nat BY <2>3, <1>2
  <2> HIDE DEF k
  <2> QED BY <2>2, <2>3, <2>4, <2>5
<1>5. /\ k - 1 \in 0..Selected /\ k \in Nat
      /\ Bound(k) \in project(Replayed(c, k - 1))
  <2>1. c \in Searched(k) BY <1>1
  <2> HIDE DEF k
  <2> QED BY <2>1, <1>4, ReplayedStep DEF Bound
<1>6. PICK m, h : TrieAt(c, k - 1, m, h)
  <2> HIDE DEF k
  <2> QED BY <1>5, TriePosition
<1>7. /\ m \in 0..N
      /\ Replayed(c, k - 1) = [kind |-> "trie", paths |-> Paths(c), history |-> h]
      /\ IsSequence(h) /\ Len(h) = m
      /\ \A i \in 1..N : i <= m <=> Column(c, i) <= k - 1
      /\ \A i \in 1..m : h[i] = Bound(Column(c, i))
  BY <1>6 DEF TrieAt
<1> HIDE DEF N
<1>9. m = N - 1
  <2>1. ~(N <= m) BY <1>1, <1>5, <1>7
  <2>2. N - 1 <= m
    <3>1. CASE N = 1 BY <3>1, <1>7
    <3>2. CASE N # 1
      <4>1. N - 1 \in 1..N /\ N \in 1..N /\ N - 1 < N BY <3>2, <1>1
      <4>2. Column(c, N - 1) < k BY <4>1, <1>1
      <4>3. Column(c, N - 1) <= k - 1
        <5>1. Column(c, N - 1) \in Nat BY <4>1, <1>1
        <5> QED BY <5>1, <4>2, <1>5
      <4> QED BY <4>1, <4>3, <1>7
    <3> QED BY <3>1, <3>2
  <2> QED BY <2>1, <2>2, <1>1, <1>7
<1>10. PICK p \in Paths(c) : /\ Len(p) > N - 1 /\ SubSeq(p, 1, N - 1) = h
                              /\ p[N] = Bound(k)
  <2> DEFINE ix == [kind |-> "trie", paths |-> Paths(c), history |-> h]
  <2>1. Bound(k) \in TrieProject(ix)
    <3>1. Bound(k) \in project(ix) BY <1>5, <1>7
    <3> QED BY <3>1 DEF project
  <2>3. PICK q \in Paths(c) : /\ Len(q) > m /\ SubSeq(q, 1, m) = h
                               /\ Bound(k) = q[m + 1]
    BY <2>1, <1>7 DEF TrieProject
  <2> QED BY <2>3, <1>9, <1>1
<1>11. PICK t \in db.rows[OpOf(c)] : p = apply_permutation(Order(c), t) BY <1>10 DEF Paths
<1>12. t \in Seq(Ids) /\ Len(t) = N
  <2>1. OpOf(c) \in RowOps /\ N = Arity[OpOf(c)] + 1 BY <1>2
  <2>2. \A op \in RowOps : \A u \in db.rows[op] : u \in Seq(Ids) /\ Len(u) = Arity[op] + 1
    BY <1>3 DEF IsDatabase
  <2> HIDE DEF N
  <2> QED BY <2>1, <2>2, <1>11
<1>13. DOMAIN t = 1..N /\ \A i \in 1..N : t[i] \in Ids
  <2>1. \A T : \A u \in Seq(T) : DOMAIN u = 1..Len(u) /\ \A i \in 1..Len(u) : u[i] \in T OBVIOUS
  <2> QED BY <2>1, <1>12
<1>14. \A i \in 1..N : p[i] = t[Order(c)[i]]
  BY <1>11, <1>13 DEF apply_permutation
<1>15. p \in Seq(Ids) /\ Len(p) = N
  <2>1. p = [i \in 1..N |-> t[Order(c)[i]]] BY <1>11, <1>13 DEF apply_permutation
  <2>2. p \in [1..N -> Ids] BY <2>1, <1>1, <1>13
  <2> QED BY <2>2, <1>1
<1>16. \A i \in 1..N : t[Order(c)[i]] = Bound(Vars(c)[Order(c)[i]])
  <2> TAKE i \in 1..N
  <2>1. CASE i = N BY <2>1, <1>10, <1>14 DEF Column
  <2>2. CASE i # N
    <3>1. i \in 1..(N - 1) /\ N - 1 \in Nat
      <4>1. N \in Nat \ {0} BY <1>1
      <4> QED BY <4>1, <2>2
    <3>2. SubSeq(p, 1, N - 1)[i] = p[i] BY <3>1, <1>15, <1>1
    <3> QED BY <3>1, <3>2, <1>7, <1>9, <1>10, <1>14 DEF Column
  <2> QED BY <2>1, <2>2
<1>17. \A j \in 1..N : t[j] = Bound(Vars(c)[j])
  <2> TAKE j \in 1..N
  <2>1. PICK i \in 1..N : Order(c)[i] = j BY <1>1
  <2> QED BY <2>1, <1>16
<1>18. t = [i \in 1..N |-> t[i]] BY <1>12, <1>13
<1>19. t = [i \in 1..N |-> Bound(Vars(c)[i])] BY <1>17, <1>18
<1> QED BY <1>11, <1>13, <1>17, <1>19 DEF N
-----------------------------------------------------------------------------
\* How often x occurs in h.
Occ(h, x) == Cardinality({i \in DOMAIN h : h[i] = x})

\* One more element occurs once more.
LEMMA OccAppend ==
  ASSUME NEW h \in Seq(Ids), NEW x \in Ids, NEW y
  PROVE  /\ Occ(h, y) \in Nat /\ Occ(<< >>, y) = 0
         /\ Occ(Append(h, x), y) = IF y = x THEN Occ(h, y) + 1 ELSE Occ(h, y)
<1> DEFINE n == Len(h)
           S == {i \in 1..n : h[i] = y}
           T == {i \in DOMAIN Append(h, x) : Append(h, x)[i] = y}
<1>1. /\ n \in Nat /\ DOMAIN h = 1..n /\ DOMAIN Append(h, x) = 1..(n + 1)
      /\ \A i \in 1..n : Append(h, x)[i] = h[i]
      /\ Append(h, x)[n + 1] = x
  OBVIOUS
<1>2. Occ(h, y) = Cardinality(S) /\ Occ(Append(h, x), y) = Cardinality(T) BY <1>1 DEF Occ
<1>3. IsFiniteSet(S)
  <2>1. IsFiniteSet(1..n) BY <1>1, FS_Interval
  <2> QED BY <2>1, FS_Subset
<1>4. Cardinality(S) \in Nat BY <1>3, FS_CardinalityType
<1>5. Occ(<< >>, y) = 0
  <2>1. {i \in DOMAIN << >> : << >>[i] = y} = {} OBVIOUS
  <2> QED BY <2>1, FS_EmptySet DEF Occ
<1>6. CASE y = x
  <2>1. T = S \cup {n + 1}
    <3>1. \A i : i \in 1..(n + 1) <=> i \in 1..n \/ i = n + 1 BY <1>1
    <3> QED BY <3>1, <1>1, <1>6
  <2>2. n + 1 \notin S BY <1>1
  <2> HIDE DEF S, T, n
  <2>3. Cardinality(S \cup {n + 1}) = Cardinality(S) + 1
    BY <2>2, <1>3, FS_AddElement
  <2> QED BY <2>1, <2>3, <1>2, <1>4, <1>5, <1>6
<1>7. CASE y # x
  <2>1. T = S
    <3>1. \A i : i \in 1..(n + 1) <=> i \in 1..n \/ i = n + 1 BY <1>1
    <3> QED BY <3>1, <1>1, <1>7
  <2> HIDE DEF S, T
  <2> QED BY <2>1, <1>2, <1>4, <1>5, <1>7
<1> QED BY <1>6, <1>7

\* The children of the AC constraint c among the variables up to n that are bound
\* to x.
KidsUpTo(c, n, x) ==
  {i \in 2..(Len(Vars(c)) - 1) : Vars(c)[i] <= n /\ Bound(Vars(c)[i]) = x}

\* The multiset index of constraint c when the variables up to n are selected, and
\* the term-id is one of them: what has been taken out of the term is what the
\* children are bound to.
MsetAt(c, n, h, d) ==
  LET terms == db.terms[OpOf(c)]
      term  == Bound(Vars(c)[1])
  IN  /\ term \in DOMAIN terms /\ h \in Seq(Ids) /\ d \in [Ids -> Nat]
      /\ Replayed(c, n) = [kind |-> "multiset", data |-> [terms EXCEPT ![term] = d],
                           mset |-> term, history |-> h]
      /\ \A x \in Ids : /\ Occ(h, x) = Cardinality(KidsUpTo(c, n, x))
                         /\ d[x] + Occ(h, x) = terms[term][x]
      /\ \A i \in 2..(Len(Vars(c)) - 1) : Vars(c)[i] <= n => Bound(Vars(c)[i]) \in Ids

\* Before the term-id is selected the index is at its root.
MsetPositioned(c, n) ==
  IF n < Vars(c)[1] THEN Replayed(c, n) = MultisetIndex(db.terms[OpOf(c)])
                    ELSE \E h, d : MsetAt(c, n, h, d)

\* The constraint of an AC operator: term-id, children, id.
LEMMA AcFacts ==
  ASSUME SearchInv, mode # "idle", NEW c \in Constraints, OpOf(c) \in AcOps
  PROVE  /\ Len(Vars(c)) \in Nat \ {0, 1}
         /\ \A i \in 1..Len(Vars(c)) : Vars(c)[i] \in 1..query.nvars /\ Vars(c)[i] \in Nat \ {0}
         /\ \A i, j \in 1..Len(Vars(c)) : i # j => Vars(c)[i] # Vars(c)[j]
         /\ \A i \in 2..Len(Vars(c)) : Vars(c)[1] < Vars(c)[i]
         /\ \A i \in 1..(Len(Vars(c)) - 1) : Vars(c)[i] < Last(Vars(c))
         /\ Last(Vars(c)) = Vars(c)[Len(Vars(c))]
         /\ \A k : c \in Searched(k) <=> \E i \in 1..(Len(Vars(c)) - 1) : Vars(c)[i] = k
         /\ db.terms[OpOf(c)] \in Seq([Ids -> Nat])
<1> DEFINE N == Len(Vars(c))
<1>1. /\ N \in Nat \ {0} /\ N >= 2 /\ DOMAIN Vars(c) = 1..N
      /\ \A i \in 1..N : /\ Vars(c)[i] \in 1..query.nvars /\ Vars(c)[i] \in Nat \ {0}
                          /\ Vars(c)[i] <= Vars(c)[N] /\ Vars(c)[1] <= Vars(c)[i]
      /\ \A i, j \in 1..N : i # j => Vars(c)[i] # Vars(c)[j]
      /\ Last(Vars(c)) = Vars(c)[N]
  BY ConstraintFacts
<1>2. IsDatabase(db) BY Running
<1>3. db.terms[OpOf(c)] \in Seq([Ids -> Nat]) BY <1>2 DEF IsDatabase
<1> HIDE DEF N
<1>4. N \in Nat \ {0, 1} /\ 1 \in 1..N /\ N \in 1..N BY <1>1
<1>5. ASSUME NEW i \in 2..N PROVE Vars(c)[1] < Vars(c)[i]
  <2>1. i \in 1..N /\ i # 1 BY <1>4
  <2>2. Vars(c)[1] \in Nat /\ Vars(c)[i] \in Nat /\ Vars(c)[1] <= Vars(c)[i]
        /\ Vars(c)[1] # Vars(c)[i]
    BY <2>1, <1>1, <1>4
  <2> QED BY <2>2
<1>6. ASSUME NEW i \in 1..(N - 1) PROVE Vars(c)[i] < Vars(c)[N]
  <2>1. i \in 1..N /\ i # N BY <1>4
  <2>2. Vars(c)[N] \in Nat /\ Vars(c)[i] \in Nat /\ Vars(c)[i] <= Vars(c)[N]
        /\ Vars(c)[i] # Vars(c)[N]
    BY <2>1, <1>1, <1>4
  <2> QED BY <2>2
<1>7. \A k : c \in Searched(k) <=> /\ \E i \in 1..N : Vars(c)[i] = k
                                   /\ k # Vars(c)[N]
  BY <1>1 DEF Searched, fd, Mentions, OpOf, Vars
<1>8. \A k : c \in Searched(k) <=> \E i \in 1..(N - 1) : Vars(c)[i] = k
  <2> TAKE k
  <2>1. ASSUME NEW i \in 1..N, Vars(c)[i] = k, k # Vars(c)[N] PROVE i \in 1..(N - 1)
    <3>1. i # N BY <2>1
    <3> QED BY <3>1, <1>4
  <2>2. ASSUME NEW i \in 1..(N - 1), Vars(c)[i] = k PROVE i \in 1..N /\ k # Vars(c)[N]
    <3>1. i \in 1..N /\ i # N BY <1>4
    <3> QED BY <3>1, <2>2, <1>1, <1>4
  <2> QED BY <2>1, <2>2, <1>7
<1> QED BY <1>1, <1>3, <1>4, <1>5, <1>6, <1>8 DEF N

\* The children of one variable more.
LEMMA KidsStep ==
  ASSUME SearchInv, mode # "idle", NEW c \in Constraints, OpOf(c) \in AcOps,
         NEW k \in Nat \ {0}, NEW x
  PROVE  /\ Cardinality(KidsUpTo(c, k, x)) \in Nat
         /\ \A i \in 2..(Len(Vars(c)) - 1) : Vars(c)[i] = k =>
              Cardinality(KidsUpTo(c, k, x)) =
                IF x = Bound(k) THEN Cardinality(KidsUpTo(c, k - 1, x)) + 1
                                ELSE Cardinality(KidsUpTo(c, k - 1, x))
         /\ (\A i \in 2..(Len(Vars(c)) - 1) : Vars(c)[i] # k) =>
              KidsUpTo(c, k, x) = KidsUpTo(c, k - 1, x)
<1> DEFINE N == Len(Vars(c))
           S == KidsUpTo(c, k - 1, x)
           T == KidsUpTo(c, k, x)
<1>1. /\ N \in Nat \ {0, 1}
      /\ \A i \in 2..(N - 1) : Vars(c)[i] \in Nat
      /\ \A i, j \in 2..(N - 1) : i # j => Vars(c)[i] # Vars(c)[j]
  <2>1. N \in Nat \ {0, 1} BY AcFacts
  <2>2. \A i \in 2..(N - 1) : i \in 1..N
    <3> HIDE DEF N
    <3> QED BY <2>1
  <2> QED BY <2>1, <2>2, AcFacts
<1>2. IsFiniteSet(2..(N - 1))
  <2>1. N - 1 \in Int /\ 2 \in Int BY <1>1
  <2> HIDE DEF N
  <2> QED BY <2>1, FS_Interval
<1>3. IsFiniteSet(S) /\ IsFiniteSet(T)
  <2>1. S \in SUBSET (2..(N - 1)) /\ T \in SUBSET (2..(N - 1)) BY DEF KidsUpTo
  <2> HIDE DEF S, T, N
  <2> QED BY <2>1, <1>2, FS_Subset
<1>4. Cardinality(S) \in Nat /\ Cardinality(T) \in Nat
  <2> HIDE DEF S, T
  <2> QED BY <1>3, FS_CardinalityType
<1>5. ASSUME NEW i \in 2..(N - 1), Vars(c)[i] = k
      PROVE  Cardinality(T) = IF x = Bound(k) THEN Cardinality(S) + 1 ELSE Cardinality(S)
  <2>1. \A j \in 2..(N - 1) : Vars(c)[j] <= k <=> Vars(c)[j] <= k - 1 \/ j = i
    <3> TAKE j \in 2..(N - 1)
    <3>1. CASE j = i BY <3>1, <1>5
    <3>2. CASE j # i
      <4>1. Vars(c)[j] \in Nat /\ Vars(c)[j] # k BY <3>2, <1>1, <1>5
      <4> QED BY <3>2, <4>1
    <3> QED BY <3>1, <3>2
  <2>2. i \notin S BY <1>5 DEF KidsUpTo
  <2>3. CASE x = Bound(k)
    <3>1. T = S \cup {i} BY <2>1, <2>3, <1>5 DEF KidsUpTo
    <3> HIDE DEF S, T
    <3> QED BY <3>1, <2>2, <2>3, <1>3, FS_AddElement
  <2>4. CASE x # Bound(k)
    <3>1. T = S BY <2>1, <2>4, <1>5 DEF KidsUpTo
    <3> HIDE DEF S, T
    <3> QED BY <3>1, <2>4
  <2> QED BY <2>3, <2>4
<1>6. ASSUME \A i \in 2..(N - 1) : Vars(c)[i] # k
      PROVE  T = S
  <2>1. \A j \in 2..(N - 1) : Vars(c)[j] <= k <=> Vars(c)[j] <= k - 1 BY <1>1, <1>6
  <2> QED BY <2>1 DEF KidsUpTo
<1> QED BY <1>4, <1>5, <1>6

\* Where the multiset index is.
LEMMA MsetPosition ==
  ASSUME SearchInv, mode # "idle", NEW c \in Constraints, OpOf(c) \in AcOps,
         NEW n \in 0..Selected
  PROVE  MsetPositioned(c, n)
<1> DEFINE N == Len(Vars(c))
           terms == db.terms[OpOf(c)]
           term == Bound(Vars(c)[1])
           P == {k \in 0..Selected : MsetPositioned(c, k)}
<1>1. /\ N \in Nat \ {0, 1}
      /\ \A i \in 1..N : Vars(c)[i] \in Nat \ {0}
      /\ \A i, j \in 1..N : i # j => Vars(c)[i] # Vars(c)[j]
      /\ \A i \in 2..N : Vars(c)[1] < Vars(c)[i]
      /\ \A k : c \in Searched(k) <=> \E i \in 1..(N - 1) : Vars(c)[i] = k
      /\ terms \in Seq([Ids -> Nat])
  BY AcFacts
<1>2. Selected \in Nat
  <2>1. /\ query.nvars \in Nat \ {0} /\ level \in 1..(query.nvars + 1) BY Running
  <2> QED BY <2>1 DEF Selected
<1> HIDE DEF N
<1>3. /\ 1 \in 1..(N - 1) /\ 1 \in 1..N /\ Vars(c)[1] \in Nat \ {0}
      /\ \A i \in 2..(N - 1) : i \in 1..N /\ i \in 2..N /\ i \in 1..(N - 1)
      /\ \A i \in 1..(N - 1) : i = 1 \/ i \in 2..(N - 1)
  BY <1>1
<1>4. 0 \in P
  <2>1. Replayed(c, 0) = populate_index(query.constraints[c]) BY ReplayedSteps DEF ReplayOneByOne
  <2>2. Replayed(c, 0) = MultisetIndex(terms)
    BY <2>1 DEF populate_index, populate_multisets, OpOf
  <2>3. 0 < Vars(c)[1] /\ 0 \in 0..Selected BY <1>2, <1>3
  <2> QED BY <2>2, <2>3 DEF MsetPositioned
<1>5. ASSUME NEW k \in 1..Selected, k - 1 \in P PROVE k \in P
  <2>0. k \in 0..Selected BY <1>2
  <2>1. MsetPositioned(c, k - 1) BY <1>5
  <2>2. /\ k \in Nat \ {0}
        /\ Replayed(c, k) = IF c \in Searched(k) THEN select(Replayed(c, k - 1), Bound(k))
                                                ELSE Replayed(c, k - 1)
        /\ c \in Searched(k) => Bound(k) \in project(Replayed(c, k - 1))
    BY ReplayedStep DEF Bound
  <2>3. CASE k = Vars(c)[1]
    <3> DEFINE ix == [kind |-> "multiset", data |-> terms, mset |-> 0, history |-> << >>]
               jx == [kind |-> "multiset", data |-> terms, mset |-> term, history |-> << >>]
    <3>1. c \in Searched(k) BY <2>3, <1>1, <1>3
    <3>2. Replayed(c, k - 1) = ix
      <4>1. k - 1 < Vars(c)[1] BY <2>3, <2>2
      <4> QED BY <4>1, <2>1 DEF MsetPositioned, MultisetIndex, NoTerm
    <3>3. term \in DOMAIN terms
      <4>1. Bound(k) \in project(ix) BY <3>1, <3>2, <2>2
      <4>2. Bound(k) \in DOMAIN terms BY <4>1 DEF project, MsetProject, NoTerm
      <4> QED BY <4>2, <2>3
    <3>4. Replayed(c, k) = jx
      <4>1. Replayed(c, k) = select(ix, term) BY <3>1, <3>2, <2>2, <2>3
      <4>2. select(ix, term) = jx BY DEF select, MsetSelect, NoTerm
      <4> QED BY <4>1, <4>2
    <3> DEFINE d == terms[term]
    <3>5. d \in [Ids -> Nat] /\ terms = [terms EXCEPT ![term] = d]
      <4>1. \A S : \A u \in Seq(S) : \A i \in DOMAIN u : u[i] \in S /\ u = [u EXCEPT ![i] = u[i]]
        OBVIOUS
      <4> DEFINE M == [Ids -> Nat]
      <4>2. terms \in Seq(M) BY <1>1
      <4> HIDE DEF M, terms, term
      <4>3. d \in M /\ terms = [terms EXCEPT ![term] = d] BY <4>1, <4>2, <3>3
      <4> QED BY <4>3 DEF M
    <3>6. << >> \in Seq(Ids) OBVIOUS
    <3>7. \A i \in 2..(N - 1) : ~(Vars(c)[i] <= k)
      <4> TAKE i \in 2..(N - 1)
      <4>1. Vars(c)[1] < Vars(c)[i] /\ Vars(c)[i] \in Nat BY <1>1, <1>3
      <4> QED BY <4>1, <2>3, <2>2
    <3>8. ASSUME NEW x \in Ids
          PROVE  /\ Occ(<< >>, x) = Cardinality(KidsUpTo(c, k, x))
                 /\ d[x] + Occ(<< >>, x) = d[x]
      <4>1. Occ(<< >>, x) = 0 BY <3>6, <3>8, OccAppend
      <4>2. KidsUpTo(c, k, x) = {} BY <3>7 DEF KidsUpTo, N
      <4>3. d[x] \in Nat BY <3>5
      <4> QED BY <4>1, <4>2, <4>3, FS_EmptySet
    <3>9. MsetAt(c, k, << >>, d)
      <4> HIDE DEF d
      <4> QED BY <3>3, <3>4, <3>5, <3>6, <3>7, <3>8 DEF MsetAt, N, d
    <3>10. ~(k < Vars(c)[1]) BY <2>2, <2>3
    <3>11. MsetPositioned(c, k)
      <4> HIDE DEF d
      <4> QED BY <3>9, <3>10 DEF MsetPositioned
    <3> QED BY <3>11, <2>0
  <2>4. ASSUME NEW j \in 2..(N - 1), k = Vars(c)[j] PROVE k \in P
    <3>1. c \in Searched(k) BY <2>4, <1>1, <1>3
    <3>2. Vars(c)[1] < k BY <2>4, <1>1, <1>3
    <3>3. ~(k - 1 < Vars(c)[1]) /\ ~(k < Vars(c)[1]) BY <3>2, <2>2, <1>3
    <3>4. PICK h, d : MsetAt(c, k - 1, h, d) BY <3>3, <2>1 DEF MsetPositioned
    <3> DEFINE ix == [kind |-> "multiset", data |-> [terms EXCEPT ![term] = d],
                      mset |-> term, history |-> h]
               key == Bound(k)
               d2 == Remove(d, key)
               h2 == Append(h, key)
               jx == [kind |-> "multiset", data |-> [terms EXCEPT ![term] = d2],
                      mset |-> term, history |-> h2]
    <3>5. /\ term \in DOMAIN terms /\ h \in Seq(Ids) /\ d \in [Ids -> Nat]
          /\ Replayed(c, k - 1) = ix
          /\ \A x \in Ids : /\ Occ(h, x) = Cardinality(KidsUpTo(c, k - 1, x))
                             /\ d[x] + Occ(h, x) = terms[term][x]
          /\ \A i \in 2..(N - 1) : Vars(c)[i] <= k - 1 => Bound(Vars(c)[i]) \in Ids
      BY <3>4 DEF MsetAt, N
    <3>6. term # NoTerm /\ ix.data[ix.mset] = d
      <4>1. \A S : \A u \in Seq(S) : \A i \in DOMAIN u : i # 0 /\ [u EXCEPT ![i] = d][i] = d
        OBVIOUS
      <4> DEFINE M == [Ids -> Nat]
      <4>2. terms \in Seq(M) BY <1>1
      <4> HIDE DEF M, terms, term
      <4> QED BY <4>1, <4>2, <3>5 DEF NoTerm
    <3>7. key \in Ids /\ d[key] > 0 /\ MsetProject(ix) # {}
      <4>1. key \in MsetProject(ix)
        <5>1. key \in project(ix) BY <3>1, <3>5, <2>2
        <5> QED BY <5>1 DEF project
      <4>2. MsetProject(ix) = {x \in DOMAIN d : Contains(d, x)}
        BY <3>6 DEF MsetProject
      <4> QED BY <4>1, <4>2, <3>5 DEF Contains
    <3>8. Replayed(c, k) = jx
      <4>1. Replayed(c, k) = MsetSelect(ix, key) BY <3>1, <3>5, <2>2 DEF select
      <4>2. MsetSelect(ix, key) = [ix EXCEPT !.data[ix.mset] = Remove(@, key), !.history = Append(@, key)]
        BY <3>6, <3>7 DEF MsetSelect
      <4>3. [[terms EXCEPT ![term] = d] EXCEPT ![term] = d2] = [terms EXCEPT ![term] = d2]
        BY <3>5
      <4>4. MsetSelect(ix, key) = [kind |-> "multiset",
              data |-> [[terms EXCEPT ![term] = d] EXCEPT ![term] = d2],
              mset |-> term, history |-> h2]
        BY <4>2, <3>6
      <4> QED BY <4>1, <4>3, <4>4
    <3>9. d2 \in [Ids -> Nat] /\ h2 \in Seq(Ids)
          /\ \A x \in Ids : d2[x] = IF x = key THEN d[x] - 1 ELSE d[x]
      BY <3>5, <3>7 DEF Remove
    <3>10. ASSUME NEW x \in Ids
           PROVE  /\ Occ(h2, x) = Cardinality(KidsUpTo(c, k, x))
                  /\ d2[x] + Occ(h2, x) = terms[term][x]
      <4>1. /\ Occ(h, x) \in Nat
            /\ Occ(h2, x) = IF x = key THEN Occ(h, x) + 1 ELSE Occ(h, x)
        BY <3>5, <3>7, OccAppend
      <4>2. Cardinality(KidsUpTo(c, k, x)) =
                IF x = key THEN Cardinality(KidsUpTo(c, k - 1, x)) + 1
                           ELSE Cardinality(KidsUpTo(c, k - 1, x))
        BY <2>4, <2>2, KidsStep DEF N
      <4>3. d[x] \in Nat /\ d2[x] = (IF x = key THEN d[x] - 1 ELSE d[x]) /\ d[x] + Occ(h, x) = terms[term][x]
            /\ Occ(h, x) = Cardinality(KidsUpTo(c, k - 1, x))
        BY <3>5, <3>9
      <4> HIDE DEF h2, d2, key
      <4> QED BY <4>1, <4>2, <4>3
    <3>11. ASSUME NEW i \in 2..(N - 1), Vars(c)[i] <= k PROVE Bound(Vars(c)[i]) \in Ids
      <4>1. CASE Vars(c)[i] = k BY <4>1, <3>7
      <4>2. CASE Vars(c)[i] # k
        <5>1. Vars(c)[i] \in Nat BY <1>1, <1>3
        <5>2. Vars(c)[i] <= k - 1 BY <5>1, <4>2, <3>11, <2>2
        <5> QED BY <5>2, <3>5
      <4> QED BY <4>1, <4>2
    <3> HIDE DEF d2, h2, key
    <3>12. MsetAt(c, k, h2, d2) BY <3>5, <3>8, <3>9, <3>10, <3>11 DEF MsetAt, N
    <3>13. MsetPositioned(c, k) BY <3>12, <3>3 DEF MsetPositioned
    <3> QED BY <3>13, <2>0
  <2>5. CASE \A i \in 1..(N - 1) : Vars(c)[i] # k
    <3>1. Replayed(c, k) = Replayed(c, k - 1)
      <4>1. c \notin Searched(k) BY <2>5, <1>1
      <4> QED BY <4>1, <2>2
    <3>2. \A i \in 2..(N - 1) : Vars(c)[i] # k /\ Vars(c)[i] \in Nat BY <2>5, <1>1, <1>3
    <3>3. Vars(c)[1] # k /\ Vars(c)[1] \in Nat BY <2>5, <1>3
    <3>4. CASE k - 1 < Vars(c)[1]
      <4>1. k < Vars(c)[1] BY <3>3, <3>4, <2>2
      <4> QED BY <4>1, <3>1, <3>4, <2>0, <2>1 DEF MsetPositioned
    <3>5. CASE ~(k - 1 < Vars(c)[1])
      <4>1. ~(k < Vars(c)[1]) BY <3>3, <3>5, <2>2
      <4>2. PICK h, d : MsetAt(c, k - 1, h, d) BY <3>5, <2>1 DEF MsetPositioned
      <4>3. \A x : KidsUpTo(c, k, x) = KidsUpTo(c, k - 1, x)
        BY <3>2, <2>2, KidsStep DEF N
      <4>4. \A i \in 2..(N - 1) : Vars(c)[i] <= k => Vars(c)[i] <= k - 1
        BY <3>2, <2>2
      <4>5. MsetAt(c, k, h, d) BY <4>2, <4>3, <4>4, <3>1 DEF MsetAt, N
      <4>6. MsetPositioned(c, k) BY <4>1, <4>5 DEF MsetPositioned
      <4> QED BY <4>6, <2>0
    <3> QED BY <3>4, <3>5
  <2>6. (\E i \in 1..(N - 1) : Vars(c)[i] = k) => k = Vars(c)[1] \/ \E j \in 2..(N - 1) : k = Vars(c)[j]
    BY <1>3
  <2> QED BY <2>3, <2>4, <2>5, <2>6
<1> HIDE DEF P
<1>6. n \in P BY <1>2, <1>4, <1>5, IntervalInduction
<1> QED BY <1>6 DEF P

\* The multiset of the bindings of the arguments of an AC constraint.
BoundKids(c) ==
  [x \in Ids |-> Cardinality({i \in 2..(Len(Vars(c)) - 1) : Bound(Vars(c)[i]) = x})]

\* Once the variables before its id are selected, the bindings of an AC constraint
\* are part of a term, and the arguments for the lookup of its id are this part.
LEMMA AcSatisfied ==
  ASSUME SearchInv, mode # "idle", NEW c \in Constraints, OpOf(c) \in AcOps,
         Last(Vars(c)) - 1 <= Selected
  PROVE  /\ Last(Vars(c)) - 1 \in 0..Selected
         /\ make_args(Replayed(c, Last(Vars(c)) - 1), Ids) = BoundKids(c)
         /\ Bound(Vars(c)[1]) \in DOMAIN db.terms[OpOf(c)]
         /\ Includes(db.terms[OpOf(c)][Bound(Vars(c)[1])], BoundKids(c))
         /\ \A i \in 2..(Len(Vars(c)) - 1) : Bound(Vars(c)[i]) \in Ids
         /\ BoundKids(c) \in [Ids -> Nat]
<1> DEFINE N == Len(Vars(c))
           vs == Vars(c)
           terms == db.terms[OpOf(c)]
           term == Bound(Vars(c)[1])
           k == Last(vs) - 1
           args == [x \in Ids |-> Cardinality({i \in 2..(N - 1) : Bound(vs[i]) = x})]
<1>1. /\ N \in Nat \ {0, 1}
      /\ \A i \in 1..N : vs[i] \in Nat \ {0}
      /\ \A i \in 1..(N - 1) : vs[i] < Last(vs)
      /\ Last(vs) = vs[N]
      /\ terms \in Seq([Ids -> Nat])
  BY AcFacts
<1>2. Selected \in Nat
  <2>1. /\ query.nvars \in Nat \ {0} /\ level \in 1..(query.nvars + 1) BY Running
  <2> QED BY <2>1 DEF Selected
<1> HIDE DEF N, vs
<1>3. N \in 1..N /\ 1 \in 1..N /\ 1 \in 1..(N - 1) /\ \A i \in 2..(N - 1) : i \in 1..N /\ i \in 1..(N - 1)
  BY <1>1
<1>4. Last(vs) \in Nat \ {0} BY <1>1, <1>3
<1>5. k \in 0..Selected BY <1>2, <1>4 DEF vs
<1>6. ~(k < vs[1])
  <2>1. vs[1] < Last(vs) /\ vs[1] \in Nat BY <1>1, <1>3
  <2> QED BY <2>1, <1>4
<1>7. PICK h, d : MsetAt(c, k, h, d)
  <2>1. MsetPositioned(c, k)
    <3> HIDE DEF k
    <3> QED BY <1>5, MsetPosition
  <2> QED BY <2>1, <1>6 DEF MsetPositioned, vs
<1>8. /\ term \in DOMAIN terms /\ h \in Seq(Ids) /\ d \in [Ids -> Nat]
      /\ Replayed(c, k) = [kind |-> "multiset", data |-> [terms EXCEPT ![term] = d],
                           mset |-> term, history |-> h]
      /\ \A x \in Ids : /\ Occ(h, x) = Cardinality(KidsUpTo(c, k, x))
                         /\ d[x] + Occ(h, x) = terms[term][x]
      /\ \A i \in 2..(N - 1) : vs[i] <= k => Bound(vs[i]) \in Ids
  BY <1>7 DEF MsetAt, N, vs
<1>9. \A i \in 2..(N - 1) : vs[i] <= k
  <2> TAKE i \in 2..(N - 1)
  <2>1. vs[i] \in Nat /\ vs[i] < Last(vs) BY <1>1, <1>3
  <2> QED BY <2>1, <1>4
<1>10. ASSUME NEW x \in Ids
       PROVE  args[x] = Occ(h, x) /\ Occ(h, x) \in Nat /\ args[x] <= terms[term][x]
  <2>1. KidsUpTo(c, k, x) = {i \in 2..(N - 1) : Bound(vs[i]) = x}
    BY <1>9 DEF KidsUpTo, N, vs
  <2>2. Occ(h, x) = args[x] BY <2>1, <1>8, <1>10
  <2>3. Occ(h, x) \in Nat BY <1>8, <1>10, OccAppend
  <2>4. d[x] \in Nat /\ d[x] + Occ(h, x) = terms[term][x] BY <1>8
  <2> QED BY <2>2, <2>3, <2>4
<1>11. make_args(Replayed(c, k), Ids) = args
  <2>1. make_args(Replayed(c, k), Ids) = [x \in Ids |-> Occ(h, x)]
    BY <1>8 DEF make_args, Occ
  <2> QED BY <2>1, <1>10
<1>12. DOMAIN terms[term] = Ids
  <2>1. \A S : \A u \in Seq(S) : \A i \in DOMAIN u : u[i] \in S OBVIOUS
  <2> DEFINE M == [Ids -> Nat]
  <2>2. terms \in Seq(M) BY <1>1
  <2> HIDE DEF M, terms, term
  <2>3. terms[term] \in M BY <2>1, <2>2, <1>8
  <2> QED BY <2>3 DEF M
<1>13. Includes(terms[term], args) BY <1>10, <1>12 DEF Includes
<1>14. args \in [Ids -> Nat] BY <1>10
<1>15. BoundKids(c) = args BY DEF BoundKids, N, vs
<1> HIDE DEF args
<1> QED BY <1>5, <1>8, <1>9, <1>11, <1>13, <1>14, <1>15 DEF N, vs
-----------------------------------------------------------------------------
\* The arguments with which the id of the AC constraint c is looked up.
Sought(c) == make_args(Replayed(c, Last(Vars(c)) - 1), Ids)

\* The id of an AC constraint, and the candidates for it, have been looked up.
Looked ==
  \A c \in Constraints : OpOf(c) \in AcOps /\ Last(Vars(c)) <= Entered =>
    /\ \A x \in states[Last(Vars(c))].candidates : Stands(x, OpOf(c), Sought(c))
    /\ Last(Vars(c)) <= Selected => Stands(Bound(Last(Vars(c))), OpOf(c), Sought(c))

\* What the query has found so far, or found when it ran last, are its matches.
ResultsMatch ==
  mode # "idle" \/ todo # Queries =>
    /\ IsSequence(results)
    /\ \A i \in DOMAIN results : IsMatch(Latest, results[i])

FoundInv ==
  /\ SearchInv /\ Remaining /\ EphemeralOK /\ ResultsMatch
  /\ mode # "idle" => Looked

\* Ephemeral ids are handed out, never taken back.
EphemeralGrows ==
  ephemeral' = ephemeral \/ \E e \in [op : AcOps, args : [Ids -> Nat]] : ephemeral' = Append(ephemeral, e)

\* What an id stands for it keeps standing for.
LEMMA StandsKept ==
  ASSUME db' = db, EphemeralOK, EphemeralGrows
  PROVE  /\ EphemeralOK'
         /\ \A op, args : lookup(op, args)' = lookup(op, args)
         /\ \A id, op, args : Stands(id, op, args) => Stands(id, op, args)'
<1> DEFINE E == [op : AcOps, args : [Ids -> Nat]]
<1>1. \A op, args : lookup(op, args)' = lookup(op, args) BY DEF lookup
<1>2. ephemeral \in Seq(E) BY DEF EphemeralOK
<1>3. ephemeral' = ephemeral \/ \E e \in E : ephemeral' = Append(ephemeral, e)
  BY DEF EphemeralGrows
<1>4. /\ ephemeral' \in Seq(E)
      /\ \A j \in DOMAIN ephemeral : j \in DOMAIN ephemeral' /\ ephemeral'[j] = ephemeral[j]
  <2> HIDE DEF E
  <2>1. CASE ephemeral' = ephemeral BY <2>1, <1>2
  <2>2. CASE \E e \in E : ephemeral' = Append(ephemeral, e)
    <3>1. PICK e \in E : ephemeral' = Append(ephemeral, e) BY <2>2
    <3>2. \A u \in Seq(E) : /\ Append(u, e) \in Seq(E)
                            /\ \A j \in DOMAIN u : j \in DOMAIN Append(u, e) /\ Append(u, e)[j] = u[j]
      BY <3>1
    <3> QED BY <3>1, <3>2, <1>2
  <2> QED BY <2>1, <2>2, <1>3
<1>5. \A id, op, args : Stands(id, op, args) => Stands(id, op, args)'
  <2> SUFFICES ASSUME NEW id, NEW op, NEW args, Stands(id, op, args)
               PROVE  Stands(id, op, args)'
    OBVIOUS
  <2>1. Stands(id, op, args)' <=>
          IF lookup(op, args) # {} THEN id \in lookup(op, args)
          ELSE \E j \in DOMAIN ephemeral' : /\ id = EphemeralId(j)
                                            /\ ephemeral'[j] = [op |-> op, args |-> args]
    BY <1>1 DEF Stands, EphemeralId
  <2>2. IF lookup(op, args) # {} THEN id \in lookup(op, args)
          ELSE \E j \in DOMAIN ephemeral : /\ id = EphemeralId(j)
                                           /\ ephemeral[j] = [op |-> op, args |-> args]
    BY DEF Stands
  <2> QED BY <2>1, <2>2, <1>4
<1> QED BY <1>1, <1>4, <1>5 DEF EphemeralOK

\* A match stays a match.
LEMMA MatchKept ==
  ASSUME db' = db, EphemeralOK, EphemeralGrows, NEW q, NEW r, IsMatch(q, r)
  PROVE  IsMatch(q, r)'
<1>1. PICK s : /\ r = [i \in DOMAIN q.head |-> s[q.head[i]]]
               /\ \A c \in DOMAIN q.constraints : Satisfied(q.constraints[c], s)
  BY DEF IsMatch
<1>2. \A id, op, args : Stands(id, op, args) => Stands(id, op, args)' BY StandsKept
<1>3. \A c \in DOMAIN q.constraints : Satisfied(q.constraints[c], s)'
  <2> TAKE c \in DOMAIN q.constraints
  <2>1. Satisfied(q.constraints[c], s) BY <1>1
  <2> QED BY <2>1, <1>2 DEF Satisfied, KidCounts
<1>4. \E t : /\ r = [i \in DOMAIN q.head |-> t[q.head[i]]]
             /\ \A c \in DOMAIN q.constraints : Satisfied(q.constraints[c], t)'
  BY <1>1, <1>3
<1> QED BY <1>4 DEF IsMatch

\* What is below a smaller number is below a larger one.
LEMMA Below ==
  ASSUME NEW a \in Nat, NEW l \in Nat, l <= a
  PROVE  \A k \in 1..(l - 1) : k \in 1..(a - 1)
OBVIOUS

\* Nothing new is looked up, and the bindings before an id that has been looked up
\* stay.
LEMMA LookedKept ==
  ASSUME SearchInv, SearchInv', mode # "idle", mode' # "idle", Looked, EphemeralOK,
         db' = db, todo' = todo, ephemeral' = ephemeral, Entered' \in Nat, Entered \in Nat,
         Entered' <= Entered,
         \A k \in 1..(Entered' - 1) : states'[k].current = states[k].current,
         \A k \in 1..Entered' :
           /\ states'[k].candidates \subseteq states[k].candidates
           /\ k <= Selected' => \/ k <= Selected /\ states'[k].current = states[k].current
                               \/ states'[k].current \in states[k].candidates
  PROVE  Looked'
<1>1. /\ Constraints' = Constraints
      /\ \A c : OpOf(c)' = OpOf(c) /\ Vars(c)' = Vars(c)
  BY DEF Constraints, OpOf, Vars, query
<1>2. \A id, op, args : Stands(id, op, args) => Stands(id, op, args)'
  BY StandsKept DEF EphemeralGrows
<1>3. PICK e \in Nat : e = Entered' OBVIOUS
<1> SUFFICES ASSUME NEW c \in Constraints, OpOf(c) \in AcOps, Last(Vars(c)) <= e
             PROVE  /\ \A x \in states'[Last(Vars(c))].candidates : Stands(x, OpOf(c), Sought(c))'
                    /\ Last(Vars(c)) <= Selected' =>
                         Stands(Bound(Last(Vars(c))), OpOf(c), Sought(c))'
  <2>1. \A c : Last(Vars(c))' = Last(Vars(c)) BY <1>1 DEF Last
  <2> QED BY <2>1, <1>1, <1>3 DEF Looked
<1>4. /\ Last(Vars(c)) \in Nat \ {0}
      /\ Last(Vars(c)) \in 1..e /\ Last(Vars(c)) <= Entered
  <2>1. /\ Len(Vars(c)) \in Nat \ {0, 1}
        /\ \A i \in 1..Len(Vars(c)) : Vars(c)[i] \in Nat \ {0}
        /\ Last(Vars(c)) = Vars(c)[Len(Vars(c))]
    BY AcFacts
  <2>2. Last(Vars(c)) \in Nat \ {0} BY <2>1
  <2> QED BY <2>2, <1>3
<1>5. Sought(c)' = Sought(c)
  <2>1. PICK f \in Nat : f = Last(Vars(c)) - 1 BY <1>4
  <2>2. \A k \in 1..f : states'[k].current = states[k].current
    <3> TAKE k \in 1..f
    <3>1. k \in 1..(e - 1)
      <4>1. k \in 1..(Last(Vars(c)) - 1) BY <2>1
      <4> QED BY <4>1, <1>4, Below
    <3> QED BY <3>1, <1>3
  <2>3. Replayed(c, f)' = Replayed(c, f)
    <3>1. f \in 0..f BY <2>1
    <3> QED BY <3>1, <2>2, ReplayedThrough
  <2>4. Sought(c) = make_args(Replayed(c, f), Ids) BY <2>1 DEF Sought
  <2>5. Sought(c)' = make_args(Replayed(c, f)', Ids)
    <3>1. (Last(Vars(c)) - 1)' = f BY <2>1, <1>1 DEF Last
    <3>2. Sought(c)' = make_args(Replayed(c, Last(Vars(c)) - 1), Ids)' BY DEF Sought
    <3> QED BY <3>1, <3>2 DEF make_args, Ids
  <2> QED BY <2>3, <2>4, <2>5
<1>6. /\ \A x \in states[Last(Vars(c))].candidates : Stands(x, OpOf(c), Sought(c))
      /\ Last(Vars(c)) <= Selected =>
           Stands(states[Last(Vars(c))].current, OpOf(c), Sought(c))
  BY <1>4 DEF Looked, Bound
<1>7. /\ states'[Last(Vars(c))].candidates \subseteq states[Last(Vars(c))].candidates
      /\ Last(Vars(c)) <= Selected' =>
           \/ /\ Last(Vars(c)) <= Selected
              /\ states'[Last(Vars(c))].current = states[Last(Vars(c))].current
           \/ states'[Last(Vars(c))].current \in states[Last(Vars(c))].candidates
  BY <1>3, <1>4
<1>8. Bound(Last(Vars(c)))' = states'[Last(Vars(c))].current BY <1>1 DEF Bound, Last
<1> QED BY <1>1, <1>2, <1>5, <1>6, <1>7, <1>8

\* The e-node whose id is looked up at a variable, if any.
LEMMA SoughtNode ==
  ASSUME SearchInv, mode = "enter", level <= query.nvars, NEW c \in fd(level)
  PROVE  /\ c \in Constraints /\ OpOf(c) \in AcOps /\ Last(Vars(c)) = level
         /\ fd(level) = {c}
         /\ make_args(index[c], Ids) = Sought(c)
         /\ [op |-> OpOf(c), args |-> Sought(c)] \in [op : AcOps, args : [Ids -> Nat]]
<1>1. c \in Constraints /\ OpOf(c) \in AcOps /\ Last(Vars(c)) = level
  BY DEF fd, OpOf, Vars
<1>2. fd(level) = {c}
  <2>1. IsQuery(query) BY Running
  <2>2. \A i, j \in Constraints : i # j => Last(Vars(i)) # Last(Vars(j))
    BY <2>1 DEF IsQuery, Constraints, Vars
  <2>3. \A i \in fd(level) : i \in Constraints /\ Last(Vars(i)) = level
    BY DEF fd, Vars
  <2> QED BY <2>2, <2>3, <1>1
<1>3. Selected = level - 1 BY DEF Selected
<1>4. make_args(index[c], Ids) = Sought(c)
  <2>1. index[c] = Replayed(c, Selected) BY <1>1, Running
  <2> QED BY <2>1, <1>1, <1>3 DEF Sought
<1>5. level \in Nat
  <2>1. /\ query.nvars \in Nat \ {0} /\ level \in 1..(query.nvars + 1) BY Running
  <2> QED BY <2>1
<1>6. Sought(c) \in [Ids -> Nat]
  <2>1. Last(Vars(c)) - 1 <= Selected BY <1>1, <1>3, <1>5
  <2> QED BY <2>1, <1>1, AcSatisfied DEF Sought
<1> QED BY <1>1, <1>2, <1>4, <1>6

\* The looked up id is among the candidates, or none is.
LEMMA CandidatesLookedUp ==
  ASSUME NEW v, NEW ids, fd(v) # {}
  PROVE  Candidates(v, ids) \subseteq ids
BY DEF Candidates

\* intersect looks up the id of a constraint, or hands out an ephemeral one.
LEMMA IntersectLooks ==
  ASSUME SearchInv, SearchInv', EphemeralOK, Looked, Intersect
  PROVE  Looked' /\ EphemeralGrows
<1>1. /\ mode = "enter" /\ level <= query.nvars /\ mode' = "loop"
      /\ db' = db /\ todo' = todo /\ index' = index /\ level' = level
  BY DEF Intersect
<1> DEFINE nodes   == {[op |-> query.constraints[c].symbol, args |-> make_args(index[c], Ids)] :
                         c \in fd(level)}
           known   == UNION {lookup(e.op, e.args) : e \in nodes}
           missing == {e \in nodes : lookup(e.op, e.args) = {}}
           fresh   == EphemeralId(Len(ephemeral) + 1)
<1>2. IF missing = {}
        THEN /\ states' = [states EXCEPT ![level].candidates = Candidates(level, known)]
             /\ UNCHANGED ephemeral
        ELSE /\ states' = [states EXCEPT ![level].candidates = Candidates(level, {fresh})]
             /\ \E e \in missing : ephemeral' = Append(ephemeral, e)
  BY DEF Intersect
<1>3. \A c \in fd(level) : nodes = {[op |-> OpOf(c), args |-> Sought(c)]}
  <2> TAKE c \in fd(level)
  <2>1. fd(level) = {c} /\ make_args(index[c], Ids) = Sought(c) BY <1>1, SoughtNode
  <2> QED BY <2>1 DEF OpOf
<1>4. nodes \subseteq [op : AcOps, args : [Ids -> Nat]]
  <2>1. CASE fd(level) = {} BY <2>1
  <2>2. ASSUME NEW c \in fd(level) PROVE nodes \subseteq [op : AcOps, args : [Ids -> Nat]]
    <3>1. [op |-> OpOf(c), args |-> Sought(c)] \in [op : AcOps, args : [Ids -> Nat]]
      BY <1>1, SoughtNode
    <3> HIDE DEF nodes
    <3> QED BY <3>1, <1>3, <2>2
  <2> QED BY <2>1, <2>2
<1> HIDE DEF nodes
<1>5. EphemeralGrows BY <1>2, <1>4 DEF EphemeralGrows
<1>6. /\ query.nvars \in Nat \ {0} /\ level \in 1..query.nvars /\ level \in Nat
      /\ DOMAIN states = 1..query.nvars /\ StatesOK
  <2>1. /\ query.nvars \in Nat \ {0} /\ level \in 1..(query.nvars + 1)
        /\ DOMAIN states = 1..query.nvars /\ StatesOK
    BY <1>1, Running
  <2> QED BY <2>1, <1>1
<1>7. PICK ids : /\ states' = [states EXCEPT ![level].candidates = Candidates(level, ids)]
                 /\ IF missing = {} THEN ids = known ELSE ids = {fresh}
  BY <1>2
<1>8. /\ \A v \in 1..query.nvars : v # level => states'[v] = states[v]
      /\ \A v \in 1..query.nvars : states'[v].current = states[v].current
      /\ states'[level].candidates = Candidates(level, ids)
  <2>1. states[level] = [candidates |-> states[level].candidates, current |-> states[level].current]
    BY <1>6 DEF StatesOK
  <2>2. states'[level] = [states[level] EXCEPT !.candidates = Candidates(level, ids)]
    BY <1>6, <1>7
  <2>3. states'[level] = [candidates |-> Candidates(level, ids), current |-> states[level].current]
    BY <2>1, <2>2
  <2>4. \A v \in 1..query.nvars : v # level => states'[v] = states[v] BY <1>6, <1>7
  <2> QED BY <2>3, <2>4
<1>9. /\ Constraints' = Constraints
      /\ \A c : OpOf(c)' = OpOf(c) /\ Vars(c)' = Vars(c) /\ Last(Vars(c))' = Last(Vars(c))
  BY <1>1 DEF Constraints, OpOf, Vars, query, Last
<1>10. /\ EphemeralOK'
       /\ \A op, args : lookup(op, args)' = lookup(op, args)
       /\ \A id, op, args : Stands(id, op, args) => Stands(id, op, args)'
  BY <1>1, <1>5, StandsKept
<1>11. Entered = level - 1 /\ Entered' = level /\ Selected' = level - 1 /\ Selected = level - 1
  BY <1>1 DEF Entered, Selected
<1>12. ASSUME NEW c \in Constraints, OpOf(c) \in AcOps, Last(Vars(c)) <= level
       PROVE  /\ \A x \in states'[Last(Vars(c))].candidates : Stands(x, OpOf(c), Sought(c))'
              /\ Last(Vars(c)) <= Selected' =>
                   Stands(Bound(Last(Vars(c))), OpOf(c), Sought(c))'
  <2>1. /\ Last(Vars(c)) \in Nat \ {0} /\ Last(Vars(c)) \in 1..query.nvars
    <3>1. /\ Len(Vars(c)) \in Nat \ {0, 1}
          /\ \A i \in 1..Len(Vars(c)) : Vars(c)[i] \in Nat \ {0} /\ Vars(c)[i] \in 1..query.nvars
          /\ Last(Vars(c)) = Vars(c)[Len(Vars(c))]
      BY <1>1, <1>12, AcFacts
    <3>2. Len(Vars(c)) \in 1..Len(Vars(c)) BY <3>1
    <3> QED BY <3>1, <3>2
  <2>2. Sought(c)' = Sought(c)
    <3>1. PICK f \in Nat : f = Last(Vars(c)) - 1 BY <2>1
    <3>2. \A k \in 1..f : states'[k].current = states[k].current
      <4> TAKE k \in 1..f
      <4>1. k \in 1..query.nvars BY <3>1, <2>1, <1>6
      <4> QED BY <4>1, <1>8
    <3>3. Replayed(c, f)' = Replayed(c, f)
      <4>1. f \in 0..f BY <3>1
      <4> QED BY <4>1, <3>2, <1>1, ReplayedThrough
    <3>4. Sought(c) = make_args(Replayed(c, f), Ids) BY <3>1 DEF Sought
    <3>5. Sought(c)' = make_args(Replayed(c, f)', Ids)
      <4>1. (Last(Vars(c)) - 1)' = f BY <3>1, <1>9
      <4>2. Sought(c)' = make_args(Replayed(c, Last(Vars(c)) - 1), Ids)' BY DEF Sought
      <4> QED BY <4>1, <4>2 DEF make_args, Ids
    <3> QED BY <3>3, <3>4, <3>5
  <2>3. CASE Last(Vars(c)) = level
    <3>1. c \in fd(level) BY <2>3, <1>12 DEF fd, OpOf, Vars
    <3> DEFINE node == [op |-> OpOf(c), args |-> Sought(c)]
    <3>2. nodes = {node} BY <3>1, <1>3
    <3>3. node.op = OpOf(c) /\ node.args = Sought(c) OBVIOUS
    <3>4. states'[level].candidates \subseteq ids BY <3>1, <1>8, CandidatesLookedUp
    <3>5. \A x \in ids : Stands(x, OpOf(c), Sought(c))'
      <4>1. CASE lookup(OpOf(c), Sought(c)) # {}
        <5>1. known = lookup(OpOf(c), Sought(c))
          BY <3>2, <3>3
        <5>2. missing = {}
          <6> HIDE DEF node
          <6> QED BY <4>1, <3>2, <3>3
        <5>3. \A x \in lookup(OpOf(c), Sought(c)) : Stands(x, OpOf(c), Sought(c))
          BY <4>1 DEF Stands
        <5> HIDE DEF known, missing, fresh
        <5> QED BY <5>1, <5>2, <5>3, <1>7, <1>10, <2>2, <1>9
      <4>2. CASE lookup(OpOf(c), Sought(c)) = {}
        <5>1. missing = {node}
          <6> HIDE DEF node
          <6> QED BY <4>2, <3>2, <3>3
        <5>2. ephemeral' = Append(ephemeral, node) BY <5>1, <1>2
        <5>3. ids = {fresh} BY <5>1, <1>7
        <5>4. /\ Len(ephemeral) + 1 \in DOMAIN ephemeral'
              /\ ephemeral'[Len(ephemeral) + 1] = node
          <6>1. \A S : \A u \in Seq(S) : \A e \in S : /\ Len(u) + 1 \in DOMAIN Append(u, e)
                                                     /\ Append(u, e)[Len(u) + 1] = e
            OBVIOUS
          <6>2. node \in [op : AcOps, args : [Ids -> Nat]] BY <3>2, <1>4
          <6> HIDE DEF node
          <6> QED BY <6>1, <6>2, <5>2 DEF EphemeralOK
        <5>5. lookup(OpOf(c), Sought(c))' = {}
          <6>1. lookup(OpOf(c), Sought(c))' = lookup(OpOf(c), Sought(c))
            BY <1>1, <2>2, <1>9 DEF lookup
          <6> QED BY <6>1, <4>2
        <5>6. \A x : x = fresh => Stands(x, OpOf(c), Sought(c))'
          <6> SUFFICES ASSUME NEW x, x = fresh
                       PROVE  Stands(x, OpOf(c), Sought(c))'
            OBVIOUS
          <6>1. \E j \in DOMAIN ephemeral' : /\ x = EphemeralId(j)
                                             /\ ephemeral'[j] = [op |-> OpOf(c)', args |-> Sought(c)']
            BY <5>4, <1>9, <2>2
          <6> HIDE DEF fresh
          <6> QED BY <6>1, <5>5 DEF Stands, EphemeralId
        <5> QED BY <5>3, <5>6
      <4> QED BY <4>1, <4>2
    <3>6. ~(level <= Selected') BY <1>6, <1>11
    <3> QED BY <2>3, <3>4, <3>5, <3>6
  <2>4. CASE Last(Vars(c)) # level
    <3>1. Last(Vars(c)) <= Entered BY <2>1, <2>4, <1>6, <1>11, <1>12
    <3>2. /\ \A x \in states[Last(Vars(c))].candidates : Stands(x, OpOf(c), Sought(c))
          /\ Last(Vars(c)) <= Selected => Stands(Bound(Last(Vars(c))), OpOf(c), Sought(c))
      BY <3>1, <1>12 DEF Looked
    <3>3. states'[Last(Vars(c))] = states[Last(Vars(c))] BY <2>1, <2>4, <1>8
    <3>4. Bound(Last(Vars(c)))' = Bound(Last(Vars(c))) BY <3>3, <1>9 DEF Bound
    <3> QED BY <3>2, <3>3, <3>4, <1>9, <1>10, <1>11, <2>2
  <2> QED BY <2>3, <2>4
<1>13. Looked' BY <1>9, <1>11, <1>12 DEF Looked
<1> QED BY <1>5, <1>13
-----------------------------------------------------------------------------
\* Below the last variable the bindings satisfy every constraint.
LEMMA AllSatisfied ==
  ASSUME SearchInv, Looked, mode = "enter", level > query.nvars
  PROVE  \A c \in Constraints : Satisfied(query.constraints[c], Binding)
<1>1. /\ query.nvars \in Nat \ {0} /\ level \in 1..(query.nvars + 1) BY Running
<1>2. Selected = query.nvars /\ Entered = query.nvars BY <1>1 DEF Selected, Entered
<1>3. \A v \in 1..query.nvars : Binding[v] = Bound(v) BY DEF Binding, Bound
<1> SUFFICES ASSUME NEW c \in Constraints
             PROVE  Satisfied(query.constraints[c], Binding)
  OBVIOUS
<1>4. /\ Len(Vars(c)) \in Nat \ {0} /\ DOMAIN Vars(c) = 1..Len(Vars(c))
      /\ \A i \in 1..Len(Vars(c)) : Vars(c)[i] \in 1..query.nvars
      /\ Last(Vars(c)) = Vars(c)[Len(Vars(c))]
  BY ConstraintFacts
<1>5. Last(Vars(c)) \in 1..query.nvars BY <1>4
<1>6. \A i \in 1..Len(Vars(c)) : Binding[Vars(c)[i]] = Bound(Vars(c)[i]) BY <1>3, <1>4
<1>7. CASE OpOf(c) \notin AcOps
  <2>1. Last(Vars(c)) <= Selected BY <1>2, <1>5, <1>1
  <2>2. [i \in 1..Len(Vars(c)) |-> Bound(Vars(c)[i])] \in db.rows[OpOf(c)]
    BY <2>1, <1>7, RowSatisfied
  <2>3. [i \in DOMAIN Vars(c) |-> Binding[Vars(c)[i]]] = [i \in 1..Len(Vars(c)) |-> Bound(Vars(c)[i])]
    BY <1>4, <1>6
  <2> QED BY <2>2, <2>3, <1>7 DEF Satisfied, Vars, OpOf
<1>8. CASE OpOf(c) \in AcOps
  <2> DEFINE args == BoundKids(c)
  <2>1. Last(Vars(c)) - 1 <= Selected BY <1>1, <1>2, <1>5
  <2>2. /\ Sought(c) = args
        /\ Bound(Vars(c)[1]) \in DOMAIN db.terms[OpOf(c)]
        /\ Includes(db.terms[OpOf(c)][Bound(Vars(c)[1])], args)
        /\ \A i \in 2..(Len(Vars(c)) - 1) : Bound(Vars(c)[i]) \in Ids
    BY <2>1, <1>8, AcSatisfied DEF Sought
  <2>3. Stands(Bound(Last(Vars(c))), OpOf(c), Sought(c))
    BY <1>1, <1>2, <1>5, <1>8 DEF Looked
  <2>4. 1 \in 1..Len(Vars(c)) /\ \A i \in 2..(Len(Vars(c)) - 1) : i \in 1..Len(Vars(c)) BY <1>4
  <2>5. \A x : {i \in 2..(Len(Vars(c)) - 1) : Binding[Vars(c)[i]] = x}
               = {i \in 2..(Len(Vars(c)) - 1) : Bound(Vars(c)[i]) = x}
    BY <2>4, <1>6
  <2>6. KidCounts(Vars(c), Binding) = args BY <2>5 DEF KidCounts, BoundKids
  <2>7. /\ Binding[Vars(c)[1]] = Bound(Vars(c)[1])
        /\ Binding[Last(Vars(c))] = Bound(Last(Vars(c)))
        /\ \A i \in 2..(Len(Vars(c)) - 1) : Binding[Vars(c)[i]] = Bound(Vars(c)[i])
    BY <2>4, <1>3, <1>5, <1>6
  <2> HIDE DEF args
  <2> QED BY <2>2, <2>3, <2>6, <2>7, <1>8 DEF Satisfied, Vars, OpOf
<1> QED BY <1>7, <1>8

\* The end of a sequence.
LEMMA Suffix ==
  ASSUME NEW T, NEW q \in Seq(T), NEW n \in 0..Len(q),
         NEW s, s = SubSeq(q, n + 1, Len(q))
  PROVE  /\ Len(s) = Len(q) - n /\ s \in Seq(T)
         /\ \A i \in 1..(Len(q) - n) : s[i] = q[n + i]
<1>1. PICK L \in Nat : L = Len(q) /\ n \in 0..L /\ n \in Nat OBVIOUS
<1>2. \A i \in 1..(L - n) : /\ i \in 1..(L - (n + 1) + 1) /\ n + 1 + i - 1 = n + i
                            /\ n + i \in 1..L
  BY <1>1
<1>3. s = [i \in 1..(L - (n + 1) + 1) |-> q[(n + 1) + i - 1]] BY <1>1
<1>4. L - (n + 1) + 1 = L - n /\ L - n \in Nat BY <1>1
<1>5. s = [i \in 1..(L - n) |-> q[n + i]] BY <1>2, <1>3, <1>4
<1>6. \A i \in 1..L : q[i] \in T BY <1>1
<1>7. s \in [1..(L - n) -> T] BY <1>2, <1>5, <1>6
<1>8. s \in Seq(T) /\ Len(s) = L - n BY <1>4, <1>7
<1> QED BY <1>1, <1>5, <1>8

\* Where in the sequence of queries the running one is.
LEMMA QueryPosition ==
  ASSUME QueriesLeft, Remaining, todo # << >>
  PROVE  /\ Len(Queries) - Len(todo) + 1 \in DOMAIN Queries
         /\ query = Queries[Len(Queries) - Len(todo) + 1]
         /\ Len(Tail(todo)) = Len(todo) - 1 /\ Len(todo) \in Nat /\ Len(Queries) \in Nat
         /\ \E n \in 0..Len(Queries) : Tail(todo) = SubSeq(Queries, n + 1, Len(Queries))
         /\ Len(Tail(todo)) < Len(Queries)
<1> DEFINE T == {Queries[i] : i \in DOMAIN Queries}
           tl == Tail(todo)
<1>1. Queries \in Seq(T) BY EngineAssumption
<1> HIDE DEF T
<1>2. PICK L \in Nat : L = Len(Queries) /\ DOMAIN Queries = 1..L BY <1>1
<1>3. PICK n \in 0..L : todo = SubSeq(Queries, n + 1, L) BY <1>2 DEF Remaining
<1>5. /\ Len(todo) = L - n /\ todo \in Seq(T)
      /\ \A i \in 1..(L - n) : todo[i] = Queries[n + i]
  BY <1>1, <1>2, <1>3, Suffix
<1>6. n < L /\ n \in Nat
  <2>1. Len(todo) # 0 BY <1>5
  <2> QED BY <2>1, <1>5, <1>2, <1>3
<1>7. Head(todo) = Queries[n + 1]
  <2>1. Head(todo) = todo[1] BY <1>5
  <2>2. 1 \in 1..(L - n) BY <1>6
  <2> QED BY <2>1, <2>2, <1>5
<1>8. /\ tl \in Seq(T) /\ Len(tl) = L - n - 1 /\ \A i \in 1..(L - n - 1) : tl[i] = todo[i + 1]
  BY <1>5, <1>6, <1>2
<1>10. n + 1 \in 0..L BY <1>2, <1>6
<1>9. tl = SubSeq(Queries, n + 1 + 1, L)
  <2> DEFINE u == SubSeq(Queries, n + 1 + 1, L)
  <2>1. u \in Seq(T) /\ Len(u) = L - (n + 1) /\ \A i \in 1..(L - (n + 1)) : u[i] = Queries[n + 1 + i]
    BY <1>1, <1>2, <1>10, Suffix
  <2>2. \A i \in 1..(L - n - 1) : tl[i] = u[i]
    <3> TAKE i \in 1..(L - n - 1)
    <3>1. /\ i + 1 \in 1..(L - n) /\ n + 1 + i = n + (i + 1) /\ i \in 1..(L - (n + 1))
      BY <1>2, <1>6
    <3> QED BY <3>1, <2>1, <1>5, <1>8
  <2>3. L - n - 1 = L - (n + 1) BY <1>6
  <2> HIDE DEF u, tl
  <2>4. \A a, b \in Seq(T) : Len(a) = Len(b) /\ (\A i \in 1..Len(a) : a[i] = b[i]) => a = b
    OBVIOUS
  <2> QED BY <2>1, <2>2, <2>3, <2>4, <1>8 DEF u
<1>11. Len(Queries) - Len(todo) + 1 = n + 1 BY <1>2, <1>5, <1>6
<1>12. n + 1 \in 1..L BY <1>6
<1>13. Len(tl) = Len(todo) - 1 /\ Len(todo) \in Nat /\ Len(tl) < L BY <1>5, <1>6, <1>8
<1> QED BY <1>2, <1>7, <1>9, <1>10, <1>11, <1>12, <1>13 DEF query

\* It all holds at the start.
LEMMA InitFound == Init => FoundInv
<1> SUFFICES ASSUME Init PROVE FoundInv OBVIOUS
<1>1. todo = Queries /\ mode = "idle" /\ ephemeral = << >> BY DEF Init
<1>2. SearchInv BY InitSearch
<1>3. Remaining
  <2> DEFINE T == {Queries[i] : i \in DOMAIN Queries}
  <2>1. Queries \in Seq(T) BY EngineAssumption
  <2> HIDE DEF T
  <2>2. 0 \in 0..Len(Queries) /\ SubSeq(Queries, 0 + 1, Len(Queries)) = Queries BY <2>1
  <2> QED BY <2>2, <1>1 DEF Remaining
<1>4. EphemeralOK BY <1>1 DEF EphemeralOK
<1> QED BY <1>1, <1>2, <1>3, <1>4 DEF FoundInv, ResultsMatch

\* What has been found stays found.
LEMMA ResultsKept ==
  ASSUME ResultsMatch, EphemeralOK, EphemeralGrows, db' = db, results' = results,
         mode # "idle" \/ todo # Queries, Latest' = Latest
  PROVE  ResultsMatch'
<1>1. IsSequence(results) /\ \A i \in DOMAIN results : IsMatch(Latest, results[i])
  BY DEF ResultsMatch
<1>2. \A q, r : IsMatch(q, r) => IsMatch(q, r)' BY MatchKept
<1>3. \A i \in DOMAIN results' : IsMatch(Latest, results[i])' BY <1>1, <1>2
<1>4. IsSequence(results)' BY <1>1 DEF IsSequence
<1> QED BY <1>3, <1>4 DEF ResultsMatch

\* A query that goes on stays the latest.
LEMMA LatestKept ==
  ASSUME todo' = todo, mode' = mode \/ (mode # "idle" /\ mode' # "idle")
  PROVE  Latest' = Latest
BY DEF Latest

\* execute has found nothing yet.
LEMMA ExecuteFinds ==
  ASSUME FoundInv, SearchInv', Execute
  PROVE  FoundInv'
<1>1. /\ todo' = todo /\ db' = db /\ ephemeral' = ephemeral /\ results' = << >>
      /\ level' = 1 /\ mode' = "enter"
  BY DEF Execute
<1>2. Remaining' /\ EphemeralOK' BY <1>1 DEF FoundInv, Remaining, EphemeralOK, Ids
<1>3. ResultsMatch' BY <1>1 DEF ResultsMatch, IsSequence
<1>4. Looked'
  <2>1. Entered' = 0 BY <1>1 DEF Entered
  <2>2. \A c \in Constraints' : OpOf(c)' \in AcOps => Last(Vars(c))' \in Nat \ {0}
    <3> SUFFICES ASSUME NEW c \in Constraints, OpOf(c) \in AcOps
                 PROVE  Last(Vars(c)) \in Nat \ {0}
      BY <1>1 DEF Constraints, OpOf, Vars, query, Last
    <3>1. IsQuery(query)
      <4>1. QueriesLeft /\ todo # << >> BY DEF FoundInv, SearchInv, Execute
      <4> QED BY <4>1, RunningQuery
    <3>2. IsConstraint(query.constraints[c], query.nvars) /\ query.nvars \in Nat
      BY <3>1 DEF IsQuery, Constraints
    <3>3. Vars(c) \in Seq(1..query.nvars) /\ Vars(c) # << >>
      BY <3>2 DEF IsConstraint, Vars
    <3> DEFINE S == 1..query.nvars
    <3>4. Last(Vars(c)) \in S
      <4>1. \A T : \A u \in Seq(T) : u # << >> => u[Len(u)] \in T OBVIOUS
      <4>2. Vars(c) \in Seq(S) BY <3>3
      <4> HIDE DEF S
      <4> QED BY <4>1, <4>2, <3>3 DEF Last
    <3> QED BY <3>2, <3>4
  <2> QED BY <2>1, <2>2 DEF Looked
<1> QED BY <1>2, <1>3, <1>4 DEF FoundInv

\* An intersection finds nothing.
LEMMA IntersectFinds ==
  ASSUME FoundInv, SearchInv', Intersect
  PROVE  FoundInv'
<1>1. /\ todo' = todo /\ db' = db /\ results' = results /\ mode = "enter" /\ mode' = "loop"
  BY DEF Intersect
<1>2. SearchInv /\ Looked /\ EphemeralOK /\ ResultsMatch /\ Remaining BY <1>1 DEF FoundInv
<1>3. Looked' /\ EphemeralGrows BY <1>2, IntersectLooks
<1>4. Remaining' BY <1>1, <1>2 DEF Remaining
<1>5. EphemeralOK' BY <1>1, <1>2, <1>3, StandsKept
<1>6. ResultsMatch' BY <1>1, <1>2, <1>3, ResultsKept, LatestKept
<1> QED BY <1>3, <1>4, <1>5, <1>6 DEF FoundInv

\* Binding a variable to a candidate finds nothing.
LEMMA DescendFinds ==
  ASSUME FoundInv, SearchInv', Descend
  PROVE  FoundInv'
<1>1. /\ todo' = todo /\ db' = db /\ results' = results /\ ephemeral' = ephemeral
      /\ mode = "loop" /\ mode' = "enter" /\ level' = level + 1
  BY DEF Descend
<1>2. SearchInv /\ Looked /\ EphemeralOK /\ ResultsMatch /\ Remaining BY <1>1 DEF FoundInv
<1>3. PICK x \in states[level].candidates :
        states' = [states EXCEPT ![level] = [candidates |-> @.candidates \ {x},
                                             current    |-> x]]
  BY DEF Descend
<1>4. /\ query.nvars \in Nat \ {0} /\ level \in 1..query.nvars /\ level \in Nat
      /\ DOMAIN states = 1..query.nvars
  <2>1. /\ query.nvars \in Nat \ {0} /\ level \in 1..query.nvars
        /\ DOMAIN states = 1..query.nvars
    BY <1>1, <1>2, Running
  <2> QED BY <2>1
<1>5. Entered = level /\ Entered' = level /\ Selected = level - 1 /\ Selected' = level
  BY <1>1, <1>4 DEF Entered, Selected
<1>6. /\ \A v \in 1..query.nvars : v # level => states'[v] = states[v]
      /\ states'[level] = [candidates |-> states[level].candidates \ {x}, current |-> x]
  BY <1>3, <1>4
<1>7. \A k \in 1..(level - 1) : states'[k].current = states[k].current
  BY <1>4, <1>6
<1>8. \A k \in 1..level :
        /\ states'[k].candidates \subseteq states[k].candidates
        /\ \/ k <= level - 1 /\ states'[k].current = states[k].current
           \/ states'[k].current \in states[k].candidates
  <2> TAKE k \in 1..level
  <2>1. CASE k = level BY <2>1, <1>3, <1>6
  <2>2. CASE k # level BY <2>2, <1>4, <1>6
  <2> QED BY <2>1, <2>2
<1>9. Looked'
  <2>1. level <= level BY <1>4
  <2> QED BY <2>1, <1>1, <1>2, <1>4, <1>5, <1>7, <1>8, LookedKept
<1>10. EphemeralGrows BY <1>1 DEF EphemeralGrows
<1>11. EphemeralOK' BY <1>1, <1>2, <1>10, StandsKept
<1>12. ResultsMatch' BY <1>1, <1>2, <1>10, ResultsKept, LatestKept
<1>13. Remaining' BY <1>1, <1>2 DEF Remaining
<1> QED BY <1>9, <1>11, <1>12, <1>13 DEF FoundInv

\* The level is a number; a formula of its own because it is needed of the next
\* state.
LevelNumber == SearchInv /\ mode # "idle" => level \in Nat \ {0}

\* The level of a search is a number.
LEMMA LevelNumbered == LevelNumber
<1> SUFFICES ASSUME SearchInv, mode # "idle" PROVE level \in Nat \ {0} BY DEF LevelNumber
<1>1. level \in 1..(query.nvars + 1) /\ query.nvars \in Nat BY Running
<1> QED BY <1>1

\* Steps that leave the bindings alone.
LEMMA TurnFinds ==
  ASSUME FoundInv, SearchInv', mode # "idle", mode' # "idle", todo' = todo, db' = db,
         states' = states, ephemeral' = ephemeral, Selected' <= Selected,
         Entered' \in Nat, Entered \in Nat, Entered' <= Entered, ResultsMatch'
  PROVE  FoundInv'
<1>1. SearchInv /\ Looked /\ EphemeralOK /\ Remaining BY DEF FoundInv
<1>2. Selected \in Int /\ Selected' \in Int
  <2>1. LevelNumber /\ LevelNumber' BY LevelNumbered, PTL
  <2>2. level \in Nat \ {0} /\ level' \in Nat \ {0} BY <2>1, <1>1 DEF LevelNumber
  <2> QED BY <2>2 DEF Selected
<1>3. \A k \in 1..Entered' : k <= Selected' => k <= Selected BY <1>2
<1>4. Looked' BY <1>1, <1>3, LookedKept
<1>5. EphemeralOK' BY <1>1 DEF EphemeralOK, Ids
<1>6. Remaining' BY <1>1 DEF Remaining
<1> QED BY <1>4, <1>5, <1>6 DEF FoundInv

\* What level and mode are while a query runs, of Selected and Entered.
LEMMA Depths ==
  ASSUME SearchInv, mode # "idle"
  PROVE  /\ level \in Nat \ {0} /\ Entered \in Nat
         /\ mode = "enter" => Selected = level - 1 /\ Entered = level - 1
         /\ mode = "loop" => Selected = level - 1 /\ Entered = level
         /\ mode = "return" => Selected = level /\ Entered = level
<1>1. LevelNumber BY LevelNumbered
<1>2. level \in Nat \ {0} BY <1>1 DEF LevelNumber
<1> QED BY <1>2 DEF Selected, Entered

\* A match is reported when all constraints are satisfied.
LEMMA ReportFinds ==
  ASSUME FoundInv, SearchInv', Report
  PROVE  FoundInv'
<1> DEFINE r == [i \in DOMAIN query.head |-> states[query.head[i]].current]
<1>1. /\ todo' = todo /\ db' = db /\ states' = states /\ ephemeral' = ephemeral
      /\ mode = "enter" /\ mode' = "return" /\ level > query.nvars /\ level' = level - 1
      /\ results' = Append(results, r)
  BY DEF Report
<1>2. SearchInv /\ Looked /\ EphemeralOK /\ Remaining /\ ResultsMatch BY <1>1 DEF FoundInv
<1>3. query = Latest /\ todo # << >>
  <2>1. todo # << >> /\ QueriesLeft BY <1>1, <1>2, Running
  <2> QED BY <2>1, <1>1, <1>2, QueryPosition DEF Latest
<1>4. IsMatch(query, r)
  <2>1. \A c \in DOMAIN query.constraints : Satisfied(query.constraints[c], Binding)
    BY <1>1, <1>2, AllSatisfied DEF Constraints
  <2>2. \A i \in DOMAIN query.head : Binding[query.head[i]] = states[query.head[i]].current
    <3>1. IsQuery(query) BY <1>1, <1>2, Running
    <3> DEFINE T == 1..query.nvars
    <3>2. query.head \in Seq(T) BY <3>1 DEF IsQuery
    <3>3. \A i \in DOMAIN query.head : query.head[i] \in T
      <4> HIDE DEF T
      <4> QED BY <3>2
    <3> QED BY <3>3 DEF Binding
  <2>3. r = [i \in DOMAIN query.head |-> Binding[query.head[i]]] BY <2>2
  <2> HIDE DEF r
  <2> QED BY <2>1, <2>3 DEF IsMatch
<1> HIDE DEF r
<1>5. EphemeralGrows BY <1>1 DEF EphemeralGrows
<1>6. \A q, x : IsMatch(q, x) => IsMatch(q, x)' BY <1>1, <1>2, <1>5, MatchKept
<1>7. Latest' = query BY <1>1, <1>3, LatestKept
<1>8. ResultsMatch'
  <2>1. IsSequence(results) /\ \A i \in DOMAIN results : IsMatch(query, results[i])
    BY <1>1, <1>2, <1>3 DEF ResultsMatch
  <2>2. /\ IsSequence(results') /\ DOMAIN results = 1..Len(results) /\ Len(results) \in Nat
        /\ DOMAIN results' = 1..(Len(results) + 1)
        /\ \A i \in 1..Len(results) : results'[i] = results[i]
        /\ results'[Len(results) + 1] = r
    BY <2>1, <1>1, AppendSequence
  <2>3. \A i \in DOMAIN results' : IsMatch(query, results'[i])
    <3> TAKE i \in DOMAIN results'
    <3>1. CASE i = Len(results) + 1 BY <3>1, <2>2, <1>4
    <3>2. CASE i # Len(results) + 1
      <4>1. i \in 1..Len(results) BY <3>2, <2>2
      <4> QED BY <4>1, <2>1, <2>2
    <3> QED BY <3>1, <3>2
  <2>4. \A q : \A i \in DOMAIN results' : IsMatch(q, results'[i]) => IsMatch(q, results[i])'
    BY <1>6
  <2>5. \A i \in DOMAIN results' : IsMatch(Latest, results[i])' BY <2>3, <2>4, <1>7
  <2>6. IsSequence(results)' BY <2>2 DEF IsSequence
  <2> QED BY <2>5, <2>6 DEF ResultsMatch
<1>9. /\ level \in Nat \ {0} /\ Selected = level - 1 /\ Entered = level - 1
      /\ Entered \in Nat
  BY <1>1, <1>2, Depths
<1>10. Selected' = level - 1 /\ Entered' = level - 1 BY <1>1 DEF Selected, Entered
<1>11. Selected' <= Selected /\ Entered' <= Entered /\ Entered' \in Nat BY <1>9, <1>10
<1> QED BY <1>1, <1>8, <1>9, <1>11, TurnFinds

\* Going up finds nothing.
LEMMA UnselectFinds ==
  ASSUME FoundInv, SearchInv', Unselect
  PROVE  FoundInv'
<1>1. /\ todo' = todo /\ db' = db /\ states' = states /\ ephemeral' = ephemeral
      /\ mode = "return" /\ mode' = "loop" /\ level' = level /\ results' = results
  BY DEF Unselect
<1>2. SearchInv /\ EphemeralOK /\ ResultsMatch BY <1>1 DEF FoundInv
<1>3. level \in Nat \ {0} /\ Selected = level /\ Entered = level /\ Entered \in Nat
  BY <1>1, <1>2, Depths
<1>4. Selected' = level - 1 /\ Entered' = level BY <1>1 DEF Selected, Entered
<1>5. Selected' <= Selected /\ Entered' <= Entered /\ Entered' \in Nat BY <1>3, <1>4
<1>6. EphemeralGrows BY <1>1 DEF EphemeralGrows
<1>7. ResultsMatch' BY <1>1, <1>2, <1>6, ResultsKept, LatestKept
<1> QED BY <1>1, <1>3, <1>5, <1>7, TurnFinds

\* Leaving a level finds nothing, and at the end of a query the results are its.
LEMMA ExhaustedFinds ==
  ASSUME FoundInv, SearchInv', Exhausted
  PROVE  FoundInv'
<1>1. /\ db' = db /\ states' = states /\ ephemeral' = ephemeral
      /\ mode = "loop" /\ results' = results
  BY DEF Exhausted
<1>2. SearchInv /\ EphemeralOK /\ ResultsMatch /\ Remaining BY <1>1 DEF FoundInv
<1>3. level \in Nat \ {0} /\ Selected = level - 1 /\ Entered = level /\ Entered \in Nat
  BY <1>1, <1>2, Depths
<1>4. EphemeralGrows BY <1>1 DEF EphemeralGrows
<1>5. CASE level # 1
  <2>1. level' = level - 1 /\ mode' = "return" /\ todo' = todo BY <1>5 DEF Exhausted
  <2>2. Selected' = level - 1 /\ Entered' = level - 1 BY <2>1 DEF Selected, Entered
  <2>3. Selected' <= Selected /\ Entered' <= Entered /\ Entered' \in Nat BY <1>3, <2>2
  <2>4. ResultsMatch' BY <2>1, <1>1, <1>2, <1>4, ResultsKept, LatestKept
  <2> QED BY <1>1, <1>3, <2>1, <2>3, <2>4, TurnFinds
<1>6. CASE level = 1
  <2>1. mode' = "idle" /\ todo' = Tail(todo) BY <1>6 DEF Exhausted
  <2>2. todo # << >> /\ QueriesLeft BY <1>1, <1>2, Running
  <2>3. /\ Len(todo') = Len(todo) - 1 /\ Len(todo) \in Nat /\ Len(Queries) \in Nat
        /\ \E n \in 0..Len(Queries) : todo' = SubSeq(Queries, n + 1, Len(Queries))
    BY <2>1, <2>2, <1>2, QueryPosition
  <2>4. Latest' = Latest
    <3>1. \A a, b \in Nat : \A c : c = b - 1 => a - c + 0 = a - b + 1 OBVIOUS
    <3>2. Len(Queries) - Len(todo') + 0 = Len(Queries) - Len(todo) + 1
      <4>1. /\ Len(todo) \in Nat /\ Len(Queries) \in Nat /\ Len(todo') = Len(todo) - 1
        BY <2>3
      <4> DEFINE a == Len(Queries)
                 b == Len(todo)
                 c == Len(todo')
      <4>2. a \in Nat /\ b \in Nat /\ c = b - 1 BY <4>1
      <4> HIDE DEF a, b, c
      <4>3. a - c + 0 = a - b + 1 BY <4>2, <3>1
      <4> QED BY <4>3 DEF a, b, c
    <3> QED BY <3>2, <2>1, <1>1 DEF Latest
  <2>5. ResultsMatch' BY <2>4, <1>1, <1>2, <1>4, ResultsKept
  <2>6. EphemeralOK' BY <1>1, <1>2 DEF EphemeralOK, Ids
  <2>7. Remaining' BY <2>3 DEF Remaining
  <2> QED BY <2>1, <2>5, <2>6, <2>7 DEF FoundInv
<1> QED BY <1>5, <1>6

\* Nothing happens, nothing is found.
LEMMA StutterFinds ==
  ASSUME FoundInv, SearchInv', UNCHANGED vars
  PROVE  FoundInv'
<1>1. /\ db' = db /\ todo' = todo /\ index' = index /\ states' = states
      /\ level' = level /\ mode' = mode /\ results' = results /\ ephemeral' = ephemeral
  BY DEF vars
<1>2. SearchInv /\ EphemeralOK /\ ResultsMatch /\ Remaining BY DEF FoundInv
<1>3. EphemeralGrows BY <1>1 DEF EphemeralGrows
<1>4. Latest' = Latest BY <1>1 DEF Latest
<1>5. ResultsMatch'
  <2>1. CASE mode # "idle" \/ todo # Queries BY <2>1, <1>1, <1>2, <1>3, <1>4, ResultsKept
  <2>2. CASE ~(mode # "idle" \/ todo # Queries) BY <2>2, <1>1 DEF ResultsMatch
  <2> QED BY <2>1, <2>2
<1>6. CASE mode = "idle"
  BY <1>1, <1>2, <1>5, <1>6 DEF FoundInv, EphemeralOK, Ids, Remaining
<1>7. CASE mode # "idle"
  <2>1. level \in Nat \ {0} /\ Entered \in Nat BY <1>2, <1>7, Depths
  <2>2. Selected' = Selected /\ Entered' = Entered BY <1>1 DEF Selected, Entered
  <2>3. Selected \in Nat BY <2>1 DEF Selected
  <2>4. Selected' <= Selected /\ Entered' <= Entered /\ Entered' \in Nat BY <2>1, <2>2, <2>3
  <2> QED BY <1>1, <1>5, <1>7, <2>1, <2>4, TurnFinds
<1> QED BY <1>6, <1>7

\* Every step keeps the invariant.
LEMMA FoundStep == FoundInv /\ [Next]_vars => FoundInv'
<1>1. FoundInv => SearchInv BY DEF FoundInv
<1> QED BY <1>1, SearchStep, ExecuteFinds, IntersectFinds, DescendFinds, ReportFinds,
           UnselectFinds, ExhaustedFinds, StutterFinds
        DEF Next

\* The invariant of what the search finds holds in every state.
LEMMA FoundInvariant == Spec => []FoundInv
BY InitFound, FoundStep, PTL DEF Spec

\* Whatever a query reports is a match: the ids are those of a binding of the
\* variables that satisfies every constraint, by a tuple of the row store or by a
\* part of a term of the AC relation with the id that the memo gives it, or with
\* an ephemeral id if it has none (engine.cpp:100-147).
THEOREM ResultsSatisfy == Spec => []ResultsMatch
<1>1. FoundInv => ResultsMatch BY DEF FoundInv
<1> QED BY <1>1, FoundInvariant, PTL
-----------------------------------------------------------------------------
\* The variables of a constraint that are bound to ids, by what satisfies it.
LEMMA SatisfiedIds ==
  ASSUME IsDatabase(db), NEW q, NEW n, IsConstraint(q, n), NEW s, Satisfied(q, s), NEW v
  PROVE  /\ Searches(q, v) => s[v] \in Ids
         /\ ChildOf(q, v) =>
              s[v] \in Ids \/ (q.symbol \in AcOps /\ v = Last(q.variables))
<1> DEFINE vs == q.variables
           N == Len(vs)
<1>1. vs \in Seq(1..n) /\ vs # << >> /\ q.symbol \in RowOps \cup AcOps BY DEF IsConstraint
<1>2. DOMAIN vs = 1..N /\ N \in Nat \ {0} BY <1>1
<1>3. CASE q.symbol \notin AcOps
  <2>1. [i \in DOMAIN vs |-> s[vs[i]]] \in db.rows[q.symbol] BY <1>3 DEF Satisfied
  <2>2. [i \in DOMAIN vs |-> s[vs[i]]] \in Seq(Ids)
    <3>1. \A op \in RowOps : \A t \in db.rows[op] : t \in Seq(Ids) BY DEF IsDatabase
    <3> QED BY <3>1, <2>1, <1>1, <1>3
  <2>3. \A i \in 1..N : s[vs[i]] \in Ids
    <3>1. \A T : \A t \in Seq(T) : \A i \in DOMAIN t : t[i] \in T OBVIOUS
    <3> DEFINE t == [i \in DOMAIN vs |-> s[vs[i]]]
    <3>2. t \in Seq(Ids) /\ DOMAIN t = 1..N /\ \A i \in 1..N : t[i] = s[vs[i]] BY <2>2, <1>2
    <3> HIDE DEF t
    <3> QED BY <3>1, <3>2
  <2>4. ChildOf(q, v) => s[v] \in Ids BY <2>3, <1>2, <1>3 DEF ChildOf
  <2> QED BY <2>4 DEF Searches
<1>4. CASE q.symbol \in AcOps
  <2>1. \A i \in 2..(N - 1) : s[vs[i]] \in Ids BY <1>4 DEF Satisfied
  <2>2. ASSUME ChildOf(q, v) PROVE s[v] \in Ids \/ v = Last(vs)
    <3>1. PICK i \in 1..N : vs[i] = v /\ i > 1 BY <2>2, <1>2, <1>4 DEF ChildOf
    <3>2. CASE i = N BY <3>1, <3>2 DEF Last
    <3>3. CASE i # N
      <4>1. i \in 2..(N - 1)
        <5> HIDE DEF N
        <5> QED BY <3>1, <3>3, <1>2
      <4> QED BY <4>1, <3>1, <2>1
    <3> QED BY <3>2, <3>3
  <2> QED BY <2>2, <1>4 DEF Searches
<1> QED BY <1>3, <1>4

\* The ids of a match: those before the last are ids of the e-graph.
LEMMA MatchIds ==
  ASSUME IsDatabase(db), EphemeralOK, NEW q, IsQuery(q), NEW r, IsMatch(q, r)
  PROVE  /\ DOMAIN r = 1..Len(q.head) /\ Len(r) = Len(q.head) /\ Len(q.head) \in Nat \ {0}
         /\ \A k \in 1..(Len(r) - 1) : r[k] \in Ids
         /\ \/ Last(r) \in Ids
            \/ \E j \in DOMAIN ephemeral :
                 /\ Last(r) = EphemeralId(j) /\ j \in Nat \ {0}
                 /\ lookup(ephemeral[j].op, ephemeral[j].args) = {}
<1>1. PICK s : /\ r = [i \in DOMAIN q.head |-> s[q.head[i]]]
               /\ \A c \in DOMAIN q.constraints : Satisfied(q.constraints[c], s)
  BY DEF IsMatch
<1>2. /\ q.head \in Seq(1..q.nvars) /\ q.head # << >>
      /\ \A i \in DOMAIN q.constraints : IsConstraint(q.constraints[i], q.nvars)
      /\ \A k \in DOMAIN q.head : \E i \in DOMAIN q.constraints :
           IF k = Len(q.head) THEN ChildOf(q.constraints[i], q.head[k])
                              ELSE Searches(q.constraints[i], q.head[k])
  BY DEF IsQuery
<1>3. PICK n \in Nat \ {0} : n = Len(q.head) /\ DOMAIN q.head = 1..n BY <1>2
<1>4. Len(r) = n /\ DOMAIN r = 1..n BY <1>1, <1>3
<1>5. \A k \in 1..(n - 1) : r[k] \in Ids
  <2> TAKE k \in 1..(n - 1)
  <2>1. k \in 1..n /\ k # n BY <1>3
  <2>2. PICK i \in DOMAIN q.constraints : Searches(q.constraints[i], q.head[k])
    BY <2>1, <1>2, <1>3
  <2>3. s[q.head[k]] \in Ids BY <2>2, <1>1, <1>2, SatisfiedIds
  <2> QED BY <2>1, <2>3, <1>1, <1>3
<1>6. Last(r) \in Ids \/ \E j \in DOMAIN ephemeral :
                 /\ Last(r) = EphemeralId(j) /\ j \in Nat \ {0}
                 /\ lookup(ephemeral[j].op, ephemeral[j].args) = {}
  <2>1. n \in 1..n /\ Last(r) = s[q.head[n]] BY <1>1, <1>3, <1>4 DEF Last
  <2>2. PICK i \in DOMAIN q.constraints : ChildOf(q.constraints[i], q.head[n])
    BY <2>1, <1>2, <1>3
  <2> DEFINE op == q.constraints[i].symbol
             args == KidCounts(q.constraints[i].variables, s)
  <2>3. Last(r) \in Ids \/ (op \in AcOps /\ q.head[n] = Last(q.constraints[i].variables))
    BY <2>1, <2>2, <1>1, <1>2, SatisfiedIds
  <2>4. ASSUME op \in AcOps, q.head[n] = Last(q.constraints[i].variables)
        PROVE  Stands(Last(r), op, args)
    BY <2>1, <2>4, <1>1 DEF Satisfied
  <2>5. lookup(op, args) \subseteq Ids \/ op \notin AcOps BY DEF lookup, IsDatabase
  <2>6. ASSUME Stands(Last(r), op, args), op \in AcOps
        PROVE  Last(r) \in Ids \/ \E j \in DOMAIN ephemeral :
                 /\ Last(r) = EphemeralId(j) /\ j \in Nat \ {0}
                 /\ lookup(ephemeral[j].op, ephemeral[j].args) = {}
    <3>1. CASE lookup(op, args) # {} BY <3>1, <2>5, <2>6 DEF Stands
    <3>2. CASE lookup(op, args) = {}
      <4>1. PICK j \in DOMAIN ephemeral : /\ Last(r) = EphemeralId(j)
                                          /\ ephemeral[j] = [op |-> op, args |-> args]
        BY <3>2, <2>6 DEF Stands
      <4>2. ephemeral[j].op = op /\ ephemeral[j].args = args BY <4>1
      <4>3. j \in Nat \ {0} BY DEF EphemeralOK
      <4> QED BY <4>1, <4>2, <4>3, <3>2
    <3> QED BY <3>1, <3>2
  <2> QED BY <2>3, <2>4, <2>6
<1> QED BY <1>3, <1>4, <1>5, <1>6

\* Before the first query nothing has been found.
NothingYet == mode = "idle" /\ todo = Queries => results = << >>

\* Only the first query starts with all queries to come.
LEMMA NothingBefore == FoundInv /\ NothingYet /\ [Next]_vars => NothingYet'
<1> SUFFICES ASSUME FoundInv, NothingYet, [Next]_vars, mode' = "idle", todo' = Queries
             PROVE  results' = << >>
  BY DEF NothingYet
<1>1. CASE Execute \/ Intersect \/ Descend \/ Report \/ Unselect
  BY <1>1 DEF Execute, Intersect, Descend, Report, Unselect
<1>2. CASE Exhausted
  <2>1. level = 1 /\ todo' = Tail(todo) /\ mode = "loop" BY <1>2 DEF Exhausted
  <2>2. todo # << >> /\ QueriesLeft /\ Remaining BY <2>1, Running DEF FoundInv
  <2>3. Len(Tail(todo)) < Len(Queries) /\ Len(Queries) \in Nat BY <2>2, QueryPosition
  <2> QED BY <2>1, <2>3
<1>3. CASE UNCHANGED vars BY <1>3 DEF vars, NothingYet
<1> QED BY <1>1, <1>2, <1>3 DEF Next

\* Only the root of a match has an ephemeral id, and it stands for an e-node that
\* the memo does not know (egraph.cpp:168-177, egraph_di.cpp:21-24).
THEOREM RootsEphemeral == Spec => []EphemeralRoots
<1>1. Init => NothingYet BY DEF Init, NothingYet
<1>2. FoundInv /\ NothingYet => EphemeralRoots
  <2> SUFFICES ASSUME FoundInv, NothingYet, mode = "idle", NEW i \in DOMAIN results
               PROVE  /\ \A k \in 1..(Len(results[i]) - 1) : results[i][k] \in Ids
                      /\ Last(results[i]) \notin Ids =>
                           LET e == Meaning(Last(results[i])) IN lookup(e.op, e.args) = {}
    BY DEF EphemeralRoots
  <2>1. todo # Queries BY DEF NothingYet
  <2>2. SearchInv /\ EphemeralOK /\ Remaining /\ IsMatch(Latest, results[i])
    BY <2>1 DEF FoundInv, ResultsMatch
  <2>3. IsDatabase(db) BY <2>2 DEF SearchInv, TypeOK
  <2>4. IsQuery(Latest)
    <3>1. Latest = Queries[Len(Queries) - Len(todo)] BY DEF Latest
    <3> DEFINE T == {Queries[k] : k \in DOMAIN Queries}
    <3>2. Queries \in Seq(T) BY EngineAssumption
    <3> HIDE DEF T
    <3>3. PICK L \in Nat : L = Len(Queries) /\ DOMAIN Queries = 1..L BY <3>2
    <3>4. PICK n \in 0..L : todo = SubSeq(Queries, n + 1, L) BY <2>2, <3>3 DEF Remaining
    <3>5. Len(todo) = L - n BY <3>2, <3>3, <3>4, Suffix
    <3>6. n # 0
      <4>1. n = 0 => todo = SubSeq(Queries, 1, L) BY <3>4
      <4>2. SubSeq(Queries, 1, L) = Queries BY <3>2, <3>3
      <4> QED BY <4>1, <4>2, <2>1
    <3>7. Len(Queries) - Len(todo) \in DOMAIN Queries BY <3>3, <3>4, <3>5, <3>6
    <3> QED BY <3>1, <3>7, EngineAssumption
  <2> DEFINE r == results[i]
  <2>5. /\ \A k \in 1..(Len(r) - 1) : r[k] \in Ids
        /\ \/ Last(r) \in Ids
           \/ \E j \in DOMAIN ephemeral :
                /\ Last(r) = EphemeralId(j) /\ j \in Nat \ {0}
                /\ lookup(ephemeral[j].op, ephemeral[j].args) = {}
    BY <2>2, <2>3, <2>4, MatchIds
  <2>6. ASSUME Last(r) \notin Ids
        PROVE  LET e == Meaning(Last(r)) IN lookup(e.op, e.args) = {}
    <3>1. PICK j \in DOMAIN ephemeral :
            /\ Last(r) = EphemeralId(j) /\ j \in Nat \ {0}
            /\ lookup(ephemeral[j].op, ephemeral[j].args) = {}
      BY <2>5, <2>6
    <3>2. MaxIds \in Nat BY EngineAssumption
    <3>3. Last(r) - MaxIds = j BY <3>1, <3>2 DEF EphemeralId
    <3> QED BY <3>1, <3>3, <2>6 DEF Meaning
  <2> QED BY <2>5, <2>6
<1> QED BY <1>1, <1>2, NothingBefore, FoundInvariant, PTL DEF Spec
=============================================================================
