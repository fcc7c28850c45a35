------------------------------- MODULE Engine -------------------------------
(***************************************************************************)
(* class Engine (src/src/engine.cpp): the matches of a query, found by     *)
(* binding its variables one after the other.  For a variable, execute_rec *)
(* intersects what the indices of its constraints offer, selects each      *)
(* candidate in turn in all of them, recurses, and unselects.  The id of   *)
(* an AC constraint is not searched but looked up; an e-node nobody has    *)
(* stored gets an ephemeral id (egraph_di.cpp).                            *)
(*                                                                         *)
(* The e-graph does not change while queries run.                          *)
(***************************************************************************)
EXTENDS Permutations, Indices

CONSTANTS
  MaxIds,      \* ids are 1..MaxIds; what is above is ephemeral (bit 31 is set)
  RowOps,      \* operators stored in a RowStore
  AcOps,       \* operators stored in a RelationAC
  Arity,       \* number of children of each operator of RowOps
  Databases,   \* the contents the e-graph may have
  Queries      \* the queries that saturate executes, in order

VARIABLES
  db,          \* rows, terms, memo and union-find of the e-graph, fixed
  todo,        \* the queries not executed yet, the running one first
  index,       \* constraint -> the copy of its index that the query moves
  states,      \* variable -> candidates not tried yet, and the current one
  level,       \* depth of the recursion: the variable at which it is
  mode,        \* what execute_rec does next: "enter" the level, take the next
               \* candidate ("loop"), or "return" to a level; "idle" between
               \* queries
  results,     \* the matches of the query that runs or ran last
  ephemeral    \* ephemeral_map: what each ephemeral id stands for

vars == <<db, todo, index, states, level, mode, results, ephemeral>>

Ids == 1..MaxIds

\* What an e-graph gives to its queries: the tuples of each row store (last
\* column the id), the multisets of each AC relation by term-id, the memo of
\* the AC operators, and the canonical id of each id.
IsDatabase(d) ==
  /\ \A op \in RowOps : \A t \in d.rows[op] : t \in Seq(Ids) /\ Len(t) = Arity[op] + 1
  /\ \A op \in AcOps : d.terms[op] \in Seq([Ids -> Nat])
  /\ \A op \in AcOps : \A m \in DOMAIN d.memo[op] : d.memo[op][m] \in Ids
  /\ d.rep \in [Ids -> Ids]

\* What the engine takes for granted.  The variables of a constraint are
\* distinct, its id is the largest, and the term-id of an AC constraint the
\* smallest; no two constraints have the same id, and each variable occurs in
\* some constraint (the assertion at engine.cpp:85).  The permutation of a
\* constraint sorts its variables.  What a match reports are ids, and only the
\* last of them, the root, may be one that nothing but a lookup yields.  The
\* compiler makes no other queries: it is given linear patterns with an operator
\* at the root, and numbers ids after what is below them and term-ids before all
\* else.
Sorts(perm, variables) ==
  /\ \A i \in DOMAIN variables : perm[i] \in DOMAIN variables
  /\ \A j \in DOMAIN variables : \E i \in DOMAIN variables : perm[i] = j
  /\ \A i, j \in DOMAIN variables : i < j => variables[perm[i]] < variables[perm[j]]

IsConstraint(c, nvars) ==
  /\ c.symbol \in RowOps \cup AcOps
  /\ c.variables \in Seq(1..nvars) /\ c.variables # << >>
  /\ \A i, j \in DOMAIN c.variables : i # j => c.variables[i] # c.variables[j]
  /\ \A i \in DOMAIN c.variables :
       /\ c.variables[i] <= Last(c.variables)
       /\ c.symbol \in AcOps => c.variables[1] <= c.variables[i]
  /\ IF c.symbol \in AcOps
       THEN Len(c.variables) >= 2
       ELSE /\ Len(c.variables) = Arity[c.symbol] + 1
            /\ Sorts(index_to_permutation(c.permutation, Len(c.variables)), c.variables)

Mentions(c, v) == \E i \in DOMAIN c.variables : c.variables[i] = v

\* The children of the constraint are searched for, its id only in a trie.
ChildOf(c, v) == \E i \in DOMAIN c.variables :
                   c.variables[i] = v /\ (c.symbol \in AcOps => i > 1)
Searches(c, v) == ChildOf(c, v) /\ (c.symbol \in AcOps => v # Last(c.variables))

IsQuery(q) ==
  /\ q.nvars \in Nat \ {0}
  /\ \A i \in DOMAIN q.constraints : IsConstraint(q.constraints[i], q.nvars)
  /\ \A i, j \in DOMAIN q.constraints :
       i # j => Last(q.constraints[i].variables) # Last(q.constraints[j].variables)
  /\ \A v \in 1..q.nvars : \E i \in DOMAIN q.constraints : Mentions(q.constraints[i], v)
  /\ q.head \in Seq(1..q.nvars) /\ q.head # << >>
  /\ \A k \in DOMAIN q.head : \E i \in DOMAIN q.constraints :
       IF k = Len(q.head) THEN ChildOf(q.constraints[i], q.head[k])
                          ELSE Searches(q.constraints[i], q.head[k])

ASSUME EngineAssumption ==
  /\ MaxIds \in Nat
  /\ RowOps \cap AcOps = {}
  /\ \A op \in RowOps : Arity[op] \in Nat
  /\ \A d \in Databases : IsDatabase(d)
  /\ Queries \in Seq({Queries[i] : i \in DOMAIN Queries})
  /\ \A i \in DOMAIN Queries : IsQuery(Queries[i])

query == Head(todo)
Constraints == DOMAIN query.constraints

\* Faulty variant: the inverse of the permutation is applied.
populate_trie_Inverse(c) ==
  LET perm == index_to_permutation(c.permutation, Len(c.variables))
      Column(i) == CHOOSE j \in DOMAIN c.variables : perm[j] = i
  IN  TrieIndex({[i \in DOMAIN t |-> t[Column(i)]] : t \in db.rows[c.symbol]})

\* RowStore::populate_index: the columns in the order of the permutation.
populate_trie(c) ==
  LET perm == index_to_permutation(c.permutation, Len(c.variables))
  IN  TrieIndex({apply_permutation(perm, t) : t \in db.rows[c.symbol]})

\* RelationAC::populate_index: the position of a term is its term-id.
populate_multisets(c) == MultisetIndex(db.terms[c.symbol])

populate_index(c) ==
  IF c.symbol \in AcOps THEN populate_multisets(c) ELSE populate_trie(c)

\* prepare: the constraint that has v as the id of an AC term, if any, ...
fd(v) == {c \in Constraints : /\ query.constraints[c].symbol \in AcOps
                              /\ v = Last(query.constraints[c].variables)}

\* ... and the constraints whose index is searched for v.
Searched(v) == {c \in Constraints \ fd(v) : Mentions(query.constraints[c], v)}

\* EGraph::lookup of an AC e-node.
lookup(op, args) ==
  LET m == MapMset(args, db.rep, MaxIds)
  IN  IF m \in DOMAIN db.memo[op] THEN {db.memo[op][m]} ELSE {}

EphemeralId(i) == MaxIds + i

Init ==
  /\ db \in Databases
  /\ todo = Queries
  /\ index = << >> /\ states = << >> /\ results = << >> /\ ephemeral = << >>
  /\ level = 0
  /\ mode = "idle"

\* Faulty variant: the commented-out code clears the ephemeral map.
Execute_ClearsEphemeral ==
  /\ mode = "idle" /\ todo # << >>
  /\ index' = [c \in Constraints |-> populate_index(query.constraints[c])]
  /\ states' = [v \in 1..query.nvars |-> [candidates |-> {}, current |-> 0]]
  /\ results' = << >>
  /\ level' = 1
  /\ mode' = "enter"
  /\ ephemeral' = << >>
  /\ UNCHANGED <<db, todo>>

\* execute: prepare gives every constraint a fresh index.
Execute ==
  /\ mode = "idle" /\ todo # << >>
  /\ index' = [c \in Constraints |-> populate_index(query.constraints[c])]
  /\ states' = [v \in 1..query.nvars |-> [candidates |-> {}, current |-> 0]]
  /\ results' = << >>
  /\ level' = 1
  /\ mode' = "enter"
  /\ UNCHANGED <<db, todo, ephemeral>>

\* Faulty variant: the union.
Candidates_Union(v, ids) ==
  UNION {project(index[c]) : c \in Searched(v)} \cup (IF fd(v) = {} THEN {} ELSE ids)

\* intersect_many of the looked up ids and the projections.
Candidates(v, ids) ==
  LET offers == {project(index[c]) : c \in Searched(v)} \cup
                (IF fd(v) = {} THEN {} ELSE {ids})
  IN  {x \in UNION offers : \A s \in offers : x \in s}

\* Faulty variant: the memo is not consulted.
Intersect_NoLookup ==
  /\ mode = "enter" /\ level <= query.nvars
  /\ LET nodes == {[op |-> query.constraints[c].symbol, args |-> make_args(index[c], Ids)] :
                     c \in fd(level)}
         fresh == EphemeralId(Len(ephemeral) + 1)
     IN  /\ states' = [states EXCEPT ![level].candidates = Candidates(level, {fresh})]
         /\ IF nodes = {} THEN UNCHANGED ephemeral
            ELSE \E e \in nodes : ephemeral' = Append(ephemeral, e)
  /\ mode' = "loop"
  /\ UNCHANGED <<db, todo, index, level, results>>

\* Faulty variant: the level behind the last variable is searched as well.
Intersect_OffByOne ==
  /\ mode = "enter" /\ level <= query.nvars + 1
  /\ LET nodes   == {[op |-> query.constraints[c].symbol, args |-> make_args(index[c], Ids)] :
                       c \in fd(level)}
         known   == UNION {lookup(e.op, e.args) : e \in nodes}
         missing == {e \in nodes : lookup(e.op, e.args) = {}}
         fresh   == EphemeralId(Len(ephemeral) + 1)
     IN  IF missing = {}
           THEN /\ states' = [states EXCEPT ![level].candidates = Candidates(level, known)]
                /\ UNCHANGED ephemeral
           ELSE /\ states' = [states EXCEPT ![level].candidates = Candidates(level, {fresh})]
                /\ \E e \in missing : ephemeral' = Append(ephemeral, e)
  /\ mode' = "loop"
  /\ UNCHANGED <<db, todo, index, level, results>>

\* intersect, with lookup_or_ephemeral.
Intersect ==
  /\ mode = "enter" /\ level <= query.nvars
  /\ LET nodes   == {[op |-> query.constraints[c].symbol, args |-> make_args(index[c], Ids)] :
                       c \in fd(level)}
         known   == UNION {lookup(e.op, e.args) : e \in nodes}
         missing == {e \in nodes : lookup(e.op, e.args) = {}}
         fresh   == EphemeralId(Len(ephemeral) + 1)
     IN  IF missing = {}
           THEN /\ states' = [states EXCEPT ![level].candidates = Candidates(level, known)]
                /\ UNCHANGED ephemeral
           ELSE /\ states' = [states EXCEPT ![level].candidates = Candidates(level, {fresh})]
                /\ \E e \in missing : ephemeral' = Append(ephemeral, e)
  /\ mode' = "loop"
  /\ UNCHANGED <<db, todo, index, level, results>>

\* Faulty variant: the iterator is not advanced.
Descend_Again ==
  /\ mode = "loop"
  /\ \E x \in states[level].candidates :
       /\ \A y \in states[level].candidates : x <= y
       /\ states' = [states EXCEPT ![level].current = x]
       /\ index' = [c \in Constraints |->
                      IF c \in Searched(level) THEN select(index[c], x) ELSE index[c]]
  /\ level' = level + 1
  /\ mode' = "enter"
  /\ UNCHANGED <<db, todo, results, ephemeral>>

\* Take the next candidate, in ascending order, and recurse.
Descend ==
  /\ mode = "loop"
  /\ \E x \in states[level].candidates :
       /\ \A y \in states[level].candidates : x <= y
       /\ states' = [states EXCEPT ![level] = [candidates |-> @.candidates \ {x},
                                               current    |-> x]]
       /\ index' = [c \in Constraints |->
                      IF c \in Searched(level) THEN select(index[c], x) ELSE index[c]]
  /\ level' = level + 1
  /\ mode' = "enter"
  /\ UNCHANGED <<db, todo, results, ephemeral>>

\* Below the last variable: a match.
Report ==
  /\ mode = "enter" /\ level > query.nvars
  /\ results' = Append(results, [i \in DOMAIN query.head |-> states[query.head[i]].current])
  /\ level' = level - 1
  /\ mode' = "return"
  /\ UNCHANGED <<db, todo, index, states, ephemeral>>

\* The recursive call has returned.
Unselect ==
  /\ mode = "return"
  /\ index' = [c \in Constraints |->
                 IF c \in Searched(level) THEN unselect(index[c]) ELSE index[c]]
  /\ mode' = "loop"
  /\ UNCHANGED <<db, todo, states, level, results, ephemeral>>

\* No candidate is left: return to the level above, or from execute.
Exhausted ==
  /\ mode = "loop" /\ states[level].candidates = {}
  /\ IF level = 1
       THEN level' = 0 /\ mode' = "idle" /\ todo' = Tail(todo)
       ELSE level' = level - 1 /\ mode' = "return" /\ UNCHANGED todo
  /\ UNCHANGED <<db, index, states, results, ephemeral>>

Next == Execute \/ Intersect \/ Descend \/ Report \/ Unselect \/ Exhausted

Spec == Init /\ [][Next]_vars /\ WF_vars(Next)
-----------------------------------------------------------------------------
\* Every index is one of its kind; the search is at a variable, or just below
\* the last one.
TypeOK ==
  /\ IsDatabase(db)
  /\ mode \in {"idle", "enter", "loop", "return"}
  /\ mode # "idle" =>
       /\ todo # << >>
       /\ level \in 1..(query.nvars + 1)
       /\ mode # "enter" => level <= query.nvars
       /\ DOMAIN index = Constraints /\ DOMAIN states = 1..query.nvars
       /\ \A c \in Constraints :
            index[c].kind = IF query.constraints[c].symbol \in AcOps THEN "multiset" ELSE "trie"

\* How many variables have been selected in the indices.
Selected == IF mode = "return" THEN level ELSE level - 1

\* The index of constraint c after selecting, from the root, the current
\* candidates of the variables 1..n.
Replayed(c, n) ==
  LET r[k \in 0..n] ==
        IF k = 0 THEN populate_index(query.constraints[c])
        ELSE IF c \in Searched(k) THEN select(r[k-1], states[k].current)
        ELSE r[k-1]
  IN  r[n]

\* However deep the search has been and whatever it has undone, every index is
\* where selecting the current candidates would bring a fresh copy: unselect
\* restores exactly what select changed, multiplicities included
\* (engine.cpp:138-145, multiset_index.cpp:44-56).
IndicesTrackBindings ==
  mode # "idle" => \A c \in Constraints : index[c] = Replayed(c, Selected)

\* A key is selected only where project offers it (the assertion at
\* trie_index.cpp:58, the `at' at multiset_index.cpp:27).
SelectsOffered ==
  [][\A c \in DOMAIN index :
       level' = level + 1 /\ c \in Searched(level) =>
         states'[level].current \in project(index[c])]_vars

\* An id, or the e-node an ephemeral id stands for.
Meaning(id) == IF id \in Ids THEN [id |-> id] ELSE ephemeral[id - MaxIds]

\* Ephemeral ids: only the root of a match has one, and it stands for an e-node
\* that the memo does not know (egraph.cpp:168-177, egraph_di.cpp:21-24).
EphemeralRoots ==
  mode = "idle" =>
    \A i \in DOMAIN results :
      /\ \A k \in 1..(Len(results[i]) - 1) : results[i][k] \in Ids
      /\ Last(results[i]) \notin Ids =>
           LET e == Meaning(Last(results[i])) IN lookup(e.op, e.args) = {}

\* Every query comes to an end.
QueriesEnd == <>(todo = << >> /\ mode = "idle")
=============================================================================
