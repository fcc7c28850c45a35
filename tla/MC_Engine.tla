----------------------------- MODULE MC_Engine -----------------------------
\* Queries and small e-graphs for TLC.
EXTENDS EngineOnPatterns, TLC

Var(name) == [var |-> name]
App(f, kids) == [op |-> f, kids |-> kids]
px == Var("x")
py == Var("y")
pz == Var("z")

\* Shared and nested variables, an AC operator on top, below, twice, and a
\* ternary operator whose columns are searched in a cyclic order.  The first two
\* are rules of evaluation/groups.cpp, the last has the shape of evaluation/ring.cpp.
SomePatterns ==
  << App("mul", <<px, App("inv", <<px>>)>>),
     App("mul", <<px, App("one", << >>)>>),
     App("inv", <<App("mul", <<px, py>>)>>),
     App("mul", <<px, App("mul", <<py, pz>>)>>),
     App("h", <<App("inv", <<px>>), py, px>>),
     App("h", <<App("inv", <<px>>), px, App("inv", <<py>>)>>),
     App("mul", <<App("mul", <<px, py>>), App("mul", <<px, pz>>)>>) >>

CompiledQueries == [i \in DOMAIN SomePatterns |-> C!compile(SomePatterns[i]).query]

Arities == [one |-> 0, inv |-> 1, h |-> 3]

Msets(n) == {m \in [Ids -> 0..n] : MsetSize(m, MaxIds) = n}

\* An e-graph with AC terms s and t.  The memo knows t and, or not, s; 3 is a
\* class of its own, or has been merged with 1 since the last rebuild and still
\* stands in the tuples.
Database(s, t, knows_s, merged) ==
  [rows  |-> [one |-> {<<1>>},
              inv |-> IF merged THEN {<<3, 2>>} ELSE {<<1, 2>>, <<2, 1>>},
              h   |-> {<<2, 1, 1, 3>>, <<2, 1, 3, 3>>, <<1, 2, 3, 1>>, <<2, 3, 1, 2>>,
                       <<2, 3, 2, 1>>}],
   terms |-> [mul |-> <<s, t>>],
   memo  |-> [mul |-> IF knows_s THEN s :> 2 @@ t :> 1 ELSE t :> 1],
   rep   |-> [i \in Ids |-> IF merged /\ i = 3 THEN 1 ELSE i]]

\* All pairs of terms of two and of three elements.
SomeDatabases ==
  {Database(s, t, knows_s, merged) :
     s \in Msets(2), t \in Msets(3), knows_s \in BOOLEAN, merged \in BOOLEAN}

\* p comes before q in lexicographic order.
Before(p, q) == \E i \in DOMAIN p : p[i] < q[i] /\ \A j \in 1..(i-1) : p[j] = q[j]

\* Up to five columns the number of a permutation is its place in lexicographic
\* order, and leads back to it (utils/permutation.cpp:123-221).
ASSUME PermutationNumbers ==
  \A n \in 1..5 : \A p \in Permutations(1..n) :
    /\ permutation_to_index(p) = Cardinality({q \in Permutations(1..n) : Before(q, p)})
    /\ index_to_permutation(permutation_to_index(p), n) = p
=============================================================================
