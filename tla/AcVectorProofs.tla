--------------------------- MODULE AcVectorProofs ---------------------------
(***************************************************************************)
(* Proofs about AcVector, the AC relation as it is stored, for any number  *)
(* of ids, any operators and any hash function: the vectors stay sorted,   *)
(* collisions or not; while the multisets in use do not collide, the       *)
(* vector implements the set of tuples of module EGraph.                   *)
(***************************************************************************)
EXTENDS AcVector, EGraphProofs

\* Tuples of whatever ids there are.
Tuple == [args : Mset, id : Ids]

\* In order, equal keys allowed.
Ascending(vec) == \A i, j \in DOMAIN vec : i < j => ~ Before(vec[j], vec[i])

\* In order without equal keys.
Increasing(vec) == \A i, j \in DOMAIN vec : i < j => Before(vec[i], vec[j])
-----------------------------------------------------------------------------
\* The recursion of Weight, as equations.
LEMMA WeightType ==
  ASSUME NEW m \in Mset
  PROVE  F!Weight(m) \in Nat
<1> DEFINE h == [k \in 1..MaxIds |-> F!hashmodp(k)]
           G == [k \in 1..MaxIds |-> [a \in Nat |-> a + F!hashmodp(k) * m[k]]]
           Eq(w) == w = [k \in 0..MaxIds |->
                           IF k = 0 THEN 0 ELSE w[k-1] + F!hashmodp(k) * m[k]]
<1>1. MaxIds \in Nat BY MaxIdsAssumption
<1>2. \A k \in 1..MaxIds : F!hashmodp(k) * m[k] \in Nat
  <2> TAKE k \in 1..MaxIds
  <2>1. hash64[k] \in Nat /\ PRIME \in Nat \ {0} /\ 42 \in Nat /\ m[k] \in Nat
    BY HashAssumption DEF Ids, Mset
  <2>2. hash64[k] % PRIME \in Nat BY <2>1, Division
  <2>3. F!hashmodp(k) \in Nat BY <2>1, <2>2 DEF F!hashmodp
  <2> HIDE DEF F!hashmodp
  <2> QED BY <2>1, <2>3
<1>3. G \in [1..MaxIds -> [Nat -> Nat]] BY <1>2
<1>4. \A k \in 1..MaxIds : \A a \in Nat : G[k][a] = a + F!hashmodp(k) * m[k] OBVIOUS
<1> HIDE DEF G
<1>5. PICK g \in [0..MaxIds -> Nat] :
        g = [k \in 0..MaxIds |-> IF k = 0 THEN 0 ELSE G[k][g[k-1]]]
  <2> DEFINE S == Nat
  <2>1. 0 \in S /\ G \in [1..MaxIds -> [S -> S]] BY <1>3
  <2> HIDE DEF S
  <2>2. \E g \in [0..MaxIds -> S] : Iterates(MaxIds, 0, G, g)
    BY <1>1, <2>1, LoopExists
  <2> QED BY <2>2 DEF S, Iterates
<1>6. \A k \in 1..MaxIds : G[k][g[k-1]] = g[k-1] + F!hashmodp(k) * m[k]
  <2> TAKE k \in 1..MaxIds
  <2>1. g[k-1] \in Nat BY <1>1
  <2> QED BY <2>1, <1>4
<1>7. Eq(g)
  <2>1. \A k \in 0..MaxIds : k # 0 => k \in 1..MaxIds BY <1>1
  <2> QED BY <1>5, <1>6, <2>1
<1> DEFINE w == CHOOSE w : Eq(w)
<1>8. Eq(w) BY <1>7
<1>9. F!Weight(m) = w[MaxIds] BY DEF F!Weight
<1> HIDE DEF w
<1> DEFINE P == {k \in 0..MaxIds : w[k] \in Nat}
<1>10. w[0] = 0 BY <1>1, <1>8
<1>11. \A k \in 1..MaxIds : w[k] = w[k-1] + F!hashmodp(k) * m[k] BY <1>1, <1>8
<1>12. 0 \in P BY <1>1, <1>10
<1>13. \A k \in 1..MaxIds : k - 1 \in P => k \in P
  <2> SUFFICES ASSUME NEW k \in 1..MaxIds, k - 1 \in P PROVE k \in P OBVIOUS
  <2> DEFINE u == F!hashmodp(k) * m[k]
  <2>1. u \in Nat /\ w[k-1] \in Nat /\ w[k] = w[k-1] + u /\ k \in 0..MaxIds
    BY <1>2, <1>11
  <2> HIDE DEF u
  <2>2. w[k] \in Nat BY <2>1
  <2> QED BY <2>1, <2>2
<1> HIDE DEF P
<1>14. \A k \in 0..MaxIds : k \in P BY <1>1, <1>12, <1>13, IntervalInduction
<1>15. w[MaxIds] \in Nat BY <1>1, <1>14 DEF P
<1> QED BY <1>9, <1>15

\* Fingerprints are numbers.
LEMMA HashType ==
  ASSUME NEW m \in Mset
  PROVE  hash(m) \in Nat
<1>1. F!Weight(m) \in Nat /\ PRIME \in Nat \ {0} /\ SEED2 \in Nat
  BY WeightType, HashAssumption
<1> DEFINE a == SEED2 + F!Weight(m)
<1>2. a \in Nat BY <1>1
<1>3. hash(m) = a % PRIME BY DEF hash, F!Digest
<1> HIDE DEF a
<1> QED BY <1>1, <1>2, <1>3, Division

\* Keys are in a total order.
LEMMA KeyOrder ==
  ASSUME NEW r \in Tuple, NEW s \in Tuple, NEW t \in Tuple
  PROVE  /\ ~ Before(s, s)
         /\ Before(r, s) /\ Before(s, t) => Before(r, t)
         /\ Before(r, s) => ~ Before(s, r)
         /\ Before(r, s) \/ Before(s, r) \/ SameKey(r, s)
         /\ ~ Before(s, r) /\ Before(s, t) => Before(r, t)
         /\ Before(r, s) /\ ~ Before(t, s) => Before(r, t)
         /\ SameKey(s, s)
         /\ SameKey(r, s) => /\ SameKey(s, r) /\ ~ Before(r, s) /\ ~ Before(s, r)
                             /\ (Before(s, t) <=> Before(r, t))
                             /\ (Before(t, s) <=> Before(t, r))
                             /\ (SameKey(s, t) <=> SameKey(r, t))
<1>1. /\ r.id \in Nat /\ s.id \in Nat /\ t.id \in Nat
      /\ hash(r.args) \in Nat /\ hash(s.args) \in Nat /\ hash(t.args) \in Nat
  BY HashType, MaxIdsAssumption DEF Tuple, Ids
<1> QED BY <1>1 DEF Before, SameKey

\* The elements of a vector of tuples.
LEMMA VectorFacts ==
  ASSUME NEW vec \in Seq(Tuple)
  PROVE  /\ Len(vec) \in Nat /\ DOMAIN vec = 1..Len(vec) /\ vec \in [1..Len(vec) -> Tuple]
         /\ \A i \in 1..Len(vec) : vec[i] \in Tuple /\ vec[i] \in Tuples(vec)
         /\ Tuples(vec) \subseteq Tuple
         /\ \A t \in Tuples(vec) : \E i \in 1..Len(vec) : vec[i] = t
<1> DEFINE S == Tuple
<1> HIDE DEF S
<1>1. vec \in Seq(S) BY DEF S
<1>2. Len(vec) \in Nat /\ DOMAIN vec = 1..Len(vec) /\ vec \in [1..Len(vec) -> S]
  BY <1>1
<1> QED BY <1>2 DEF S, Tuples

\* A vector given by its elements.
LEMMA VectorMade ==
  ASSUME NEW S, NEW n \in Nat, NEW vec \in [1..n -> S]
  PROVE  vec \in Seq(S) /\ Len(vec) = n /\ DOMAIN vec = 1..n
OBVIOUS

\* Bisection in a vector in order finds the place of a tuple.
LEMMA LowerBound ==
  ASSUME NEW vec \in Seq(Tuple), Ascending(vec), NEW t \in Tuple
  PROVE  /\ lower_bound(vec, t) \in 1..(Len(vec) + 1)
         /\ \A i \in 1..Len(vec) : i < lower_bound(vec, t) <=> Before(vec[i], t)
<1> DEFINE B == {i \in DOMAIN vec : Before(vec[i], t)}
<1>1. Len(vec) \in Nat /\ DOMAIN vec = 1..Len(vec) /\ \A i \in 1..Len(vec) : vec[i] \in Tuple
  BY VectorFacts
<1>3. B \subseteq 1..Len(vec) BY <1>1
<1>4. \A i, j \in 1..Len(vec) : i < j /\ j \in B => i \in B
  <2> SUFFICES ASSUME NEW i \in 1..Len(vec), NEW j \in 1..Len(vec), i < j, j \in B
               PROVE  i \in B
    OBVIOUS
  <2>1. ~ Before(vec[j], vec[i]) /\ Before(vec[j], t) BY <1>1 DEF Ascending
  <2>2. Before(vec[i], t) BY <1>1, <2>1, KeyOrder
  <2> QED BY <1>1, <2>2
<1>5. \A i \in 1..Len(vec) : i \in B <=> Before(vec[i], t) BY <1>1
<1>6. lower_bound(vec, t) = Cardinality(B) + 1 BY DEF lower_bound
<1> HIDE DEF B
<1>7. Cardinality(B) \in 0..Len(vec) /\ B = 1..Cardinality(B)
  BY <1>1, <1>3, <1>4, InitialSegment
<1>8. \A i \in 1..Len(vec) : i < Cardinality(B) + 1 <=> i \in B
  <2> TAKE i \in 1..Len(vec)
  <2>1. Cardinality(B) \in Nat BY <1>1, <1>7
  <2> QED BY <2>1, <1>1, <1>7
<1> QED BY <1>1, <1>5, <1>6, <1>7, <1>8

\* A search finds a tuple if the vector has one with its key.
LEMMA ContainsFacts ==
  ASSUME NEW vec \in Seq(Tuple), Ascending(vec), NEW t \in Tuple
  PROVE  contains(vec, t) <=> \E u \in Tuples(vec) : SameKey(u, t)
<1> DEFINE p == lower_bound(vec, t)
<1>1. /\ Len(vec) \in Nat /\ DOMAIN vec = 1..Len(vec)
      /\ \A i \in 1..Len(vec) : vec[i] \in Tuple /\ vec[i] \in Tuples(vec)
      /\ \A u \in Tuples(vec) : \E i \in 1..Len(vec) : vec[i] = u
  BY VectorFacts
<1>2. p \in 1..(Len(vec) + 1) /\ \A i \in 1..Len(vec) : i < p <=> Before(vec[i], t)
  BY LowerBound
<1>3. contains(vec, t) <=> p \in 1..Len(vec) /\ SameKey(vec[p], t)
  BY <1>1 DEF contains
<1> HIDE DEF p
<1>4. ASSUME NEW i \in 1..Len(vec), SameKey(vec[i], t)
      PROVE  p \in 1..Len(vec) /\ SameKey(vec[p], t)
  <2>1. ~ Before(vec[i], t) BY <1>1, <1>4, KeyOrder
  <2>2. ~ (i < p) BY <1>2, <2>1
  <2>3. p \in 1..Len(vec) BY <2>2, <1>1, <1>2
  <2>4. ~ Before(vec[p], t) BY <2>3, <1>1, <1>2
  <2>5. i = p \/ p < i BY <2>2, <2>3, <1>1
  <2>6. ~ Before(vec[i], vec[p])
    <3>1. vec[p] \in Tuple /\ vec[i] \in Tuple BY <2>3, <1>1
    <3> QED BY <2>3, <2>5, <3>1, <1>1, KeyOrder DEF Ascending
  <2>7. ~ Before(t, vec[p]) BY <2>3, <2>6, <1>1, <1>4, KeyOrder
  <2>8. SameKey(vec[p], t)
    <3>1. vec[p] \in Tuple BY <2>3, <1>1
    <3> QED BY <2>4, <2>7, <3>1, KeyOrder
  <2> QED BY <2>3, <2>8
<1> QED BY <1>1, <1>3, <1>4

\* A vector holds what its tuples are.
LEMMA VectorOf ==
  ASSUME NEW vec \in Seq(Tuple), NEW R, Tuples(vec) \subseteq R
  PROVE  vec \in Seq(R)
<1>1. /\ Len(vec) \in Nat /\ vec \in [1..Len(vec) -> Tuple]
      /\ \A i \in 1..Len(vec) : vec[i] \in R
  BY VectorFacts
<1>2. vec \in [1..Len(vec) -> R] BY <1>1
<1> QED BY <1>1, <1>2, VectorMade

\* One tuple more, wherever it is put.
LEMMA InsertTupleFacts ==
  ASSUME NEW vec \in Seq(Tuple), NEW pos \in 1..(Len(vec) + 1), NEW t \in Tuple
  PROVE  /\ InsertTuple(vec, pos, t) \in Seq(Tuple)
         /\ Len(InsertTuple(vec, pos, t)) = Len(vec) + 1
         /\ \A i \in 1..(Len(vec) + 1) : InsertTuple(vec, pos, t)[i] =
              IF i < pos THEN vec[i] ELSE IF i = pos THEN t ELSE vec[i-1]
         /\ Tuples(InsertTuple(vec, pos, t)) = Tuples(vec) \cup {t}
<1> DEFINE n == Len(vec)
           v == InsertTuple(vec, pos, t)
<1>1. n \in Nat /\ \A i \in 1..n : vec[i] \in Tuple /\ vec[i] \in Tuples(vec)
  BY VectorFacts
<1>2. v = [i \in 1..(n + 1) |-> IF i < pos THEN vec[i] ELSE IF i = pos THEN t ELSE vec[i-1]]
  BY DEF InsertTuple
<1>3. \A i \in 1..(n + 1) : /\ i < pos => i \in 1..n
                            /\ ~ (i < pos) /\ i # pos => i - 1 \in 1..n
  BY <1>1
<1>4. v \in [1..(n + 1) -> Tuple] BY <1>1, <1>2, <1>3
<1>5. v \in Seq(Tuple) /\ Len(v) = n + 1 /\ DOMAIN v = 1..(n + 1)
  BY <1>1, <1>4, VectorMade
<1> HIDE DEF v
<1>6. Tuples(v) \subseteq Tuples(vec) \cup {t}
  <2> SUFFICES ASSUME NEW i \in 1..(n + 1) PROVE v[i] \in Tuples(vec) \cup {t}
    BY <1>5 DEF Tuples
  <2> QED BY <1>1, <1>2, <1>3
<1>7. t \in Tuples(v)
  <2>1. pos \in 1..(n + 1) /\ v[pos] = t BY <1>1, <1>2
  <2> QED BY <2>1, <1>5 DEF Tuples
<1>8. ASSUME NEW i \in 1..n PROVE vec[i] \in Tuples(v)
  <2>1. CASE i < pos
    <3>1. i \in 1..(n + 1) /\ v[i] = vec[i] BY <2>1, <1>1, <1>2
    <3> QED BY <3>1, <1>5 DEF Tuples
  <2>2. CASE ~ (i < pos)
    <3>1. i + 1 \in 1..(n + 1) /\ ~ (i + 1 < pos) /\ i + 1 # pos /\ (i + 1) - 1 = i
      BY <2>2, <1>1
    <3>2. v[i + 1] = vec[i] BY <3>1, <1>2
    <3> QED BY <3>1, <3>2, <1>5 DEF Tuples
  <2> QED BY <2>1, <2>2
<1>9. Tuples(vec) \subseteq Tuples(v) BY <1>8, VectorFacts
<1> QED BY <1>2, <1>5, <1>6, <1>7, <1>9 DEF v

\* Put at its place a tuple keeps the order.
LEMMA PlacedInOrder ==
  ASSUME NEW vec \in Seq(Tuple), NEW t \in Tuple
  PROVE  LET v == InsertTuple(vec, lower_bound(vec, t), t)
         IN  /\ Ascending(vec) => Ascending(v)
             /\ Increasing(vec) /\ ~ contains(vec, t) => Increasing(v)
<1> DEFINE n == Len(vec)
           p == lower_bound(vec, t)
           v == InsertTuple(vec, p, t)
<1>1. n \in Nat /\ DOMAIN vec = 1..n /\ \A i \in 1..n : vec[i] \in Tuple
  BY VectorFacts
<1>2. Increasing(vec) => Ascending(vec)
  BY <1>1, KeyOrder DEF Increasing, Ascending
<1>3. SUFFICES ASSUME Ascending(vec)
               PROVE  /\ Ascending(v)
                      /\ Increasing(vec) /\ ~ contains(vec, t) => Increasing(v)
  BY <1>2
<1>4. p \in 1..(n + 1) /\ \A i \in 1..n : i < p <=> Before(vec[i], t)
  BY <1>3, LowerBound
<1>5. contains(vec, t) <=> \E u \in Tuples(vec) : SameKey(u, t) BY <1>3, ContainsFacts
<1> HIDE DEF p
<1>6. /\ v \in Seq(Tuple) /\ Len(v) = n + 1
      /\ \A i \in 1..(n + 1) : v[i] =
              IF i < p THEN vec[i] ELSE IF i = p THEN t ELSE vec[i-1]
  BY <1>4, InsertTupleFacts
<1>7. DOMAIN v = 1..(n + 1) BY <1>6, VectorFacts
<1> HIDE DEF v
<1>8. ASSUME NEW i \in 1..(n + 1), NEW j \in 1..(n + 1), i < j
      PROVE  /\ ~ Before(v[j], v[i])
             /\ Increasing(vec) /\ ~ contains(vec, t) => Before(v[i], v[j])
  <2>1. CASE j < p
    <3>1. v[i] = vec[i] /\ v[j] = vec[j] /\ i \in 1..n /\ j \in 1..n
      BY <2>1, <1>1, <1>4, <1>6, <1>8
    <3> QED BY <3>1, <1>1, <1>3, <1>8 DEF Ascending, Increasing
  <2>2. CASE j = p
    <3>1. v[i] = vec[i] /\ v[j] = t /\ i \in 1..n /\ i < p
      BY <2>2, <1>1, <1>4, <1>6, <1>8
    <3>2. Before(vec[i], t) BY <3>1, <1>4
    <3> QED BY <3>1, <3>2, <1>1, KeyOrder
  <2>3. CASE ~ (j < p) /\ j # p
    <3>1. v[j] = vec[j-1] /\ j - 1 \in 1..n /\ ~ (j - 1 < p)
      BY <2>3, <1>1, <1>4, <1>6
    <3>2. ~ Before(vec[j-1], t) BY <3>1, <1>4
    <3>3. CASE i < p
      <4>1. v[i] = vec[i] /\ i \in 1..n /\ i < j - 1
        BY <2>3, <3>1, <3>3, <1>1, <1>4, <1>6, <1>8
      <4> QED BY <3>1, <4>1, <1>1, <1>3 DEF Ascending, Increasing
    <3>4. CASE i = p
      <4>1. v[i] = t BY <3>4, <1>6
      <4>2. ~ contains(vec, t) => ~ SameKey(vec[j-1], t) BY <1>5, <3>1, VectorFacts
      <4>3. vec[j-1] \in Tuple BY <3>1, <1>1
      <4>4. ~ contains(vec, t) => Before(t, vec[j-1])
        BY <3>2, <4>2, <4>3, KeyOrder
      <4> QED BY <3>1, <3>2, <4>1, <4>4
    <3>5. CASE ~ (i < p) /\ i # p
      <4>1. v[i] = vec[i-1] /\ i - 1 \in 1..n /\ i - 1 < j - 1
        BY <3>5, <1>1, <1>4, <1>6, <1>8
      <4> QED BY <3>1, <4>1, <1>1, <1>3 DEF Ascending, Increasing
    <3> QED BY <3>3, <3>4, <3>5
  <2> QED BY <2>1, <2>2, <2>3, <1>1, <1>4
<1> QED BY <1>7, <1>8 DEF Ascending, Increasing, v

\* insert keeps a vector sorted and adds a tuple of a key it did not have.
LEMMA InsertFacts ==
  ASSUME NEW vec \in Seq(Tuple), Increasing(vec), NEW t \in Tuple
  PROVE  /\ insert(vec, t) \in Seq(Tuple) /\ Increasing(insert(vec, t))
         /\ Tuples(vec) \subseteq Tuples(insert(vec, t))
         /\ Tuples(insert(vec, t)) =
              IF contains(vec, t) THEN Tuples(vec) ELSE Tuples(vec) \cup {t}
         /\ contains(vec, t) <=> \E u \in Tuples(vec) : SameKey(u, t)
<1>1. Ascending(vec) BY VectorFacts, KeyOrder DEF Increasing, Ascending
<1>2. contains(vec, t) <=> \E u \in Tuples(vec) : SameKey(u, t) BY <1>1, ContainsFacts
<1>3. CASE contains(vec, t)
  <2>1. insert(vec, t) = vec BY <1>3 DEF insert
  <2> QED BY <2>1, <1>2, <1>3
<1>4. CASE ~ contains(vec, t)
  <2> DEFINE p == lower_bound(vec, t)
             v == InsertTuple(vec, p, t)
  <2>1. insert(vec, t) = v BY <1>4 DEF insert
  <2>2. p \in 1..(Len(vec) + 1) BY <1>1, LowerBound
  <2>3. Increasing(v) BY <1>4, PlacedInOrder
  <2>4. v \in Seq(Tuple) /\ Tuples(v) = Tuples(vec) \cup {t} BY <2>2, InsertTupleFacts
  <2> HIDE DEF v
  <2> QED BY <2>1, <2>3, <2>4, <1>2, <1>4
<1> QED BY <1>3, <1>4

\* Nothing is in the empty vector.
LEMMA EmptyVector ==
  << >> \in Seq(Tuple) /\ Increasing(<< >>) /\ Ascending(<< >>) /\ Tuples(<< >>) = {}
BY DEF Increasing, Ascending, Tuples

\* sort puts the tuples in order and keeps them.
LEMMA SortFacts ==
  ASSUME NEW vec \in Seq(Tuple)
  PROVE  /\ sort(vec) \in Seq(Tuple) /\ Ascending(sort(vec))
         /\ Tuples(sort(vec)) = Tuples(vec)
<1> DEFINE n == Len(vec)
           S == {v \in Seq(Tuple) : Ascending(v)}
           Step(v, k) == InsertTuple(v, lower_bound(v, vec[k]), vec[k])
           b == << >>
           G == [k \in 1..n |-> [v \in S |-> Step(v, k)]]
           Eq(s) == s = [i \in 0..n |-> IF i = 0 THEN b ELSE Step(s[i-1], i)]
<1>1. n \in Nat /\ DOMAIN vec = 1..n /\ \A i \in 1..n : vec[i] \in Tuple BY VectorFacts
<1>2. b \in S BY EmptyVector
<1>3. \A k \in 1..n : \A v \in S : /\ Step(v, k) \in S
                                   /\ Tuples(Step(v, k)) = Tuples(v) \cup {vec[k]}
  <2> TAKE k \in 1..n
  <2> TAKE v \in S
  <2> DEFINE t == vec[k]
             p == lower_bound(v, t)
  <2>1. t \in Tuple /\ v \in Seq(Tuple) /\ Ascending(v) BY <1>1
  <2> HIDE DEF t
  <2>2. p \in 1..(Len(v) + 1) BY <2>1, LowerBound
  <2>3. Ascending(InsertTuple(v, p, t)) BY <2>1, PlacedInOrder
  <2> HIDE DEF p
  <2>4. /\ InsertTuple(v, p, t) \in Seq(Tuple)
        /\ Tuples(InsertTuple(v, p, t)) = Tuples(v) \cup {t}
    BY <2>1, <2>2, InsertTupleFacts
  <2> QED BY <2>3, <2>4 DEF t, p
<1>4. G \in [1..n -> [S -> S]] BY <1>3
<1>5. \A k \in 1..n : \A v \in S : G[k][v] = Step(v, k) OBVIOUS
<1>6. sort(vec) = (CHOOSE s : Eq(s))[n] BY DEF sort
<1>7. b = << >> OBVIOUS
<1>8. \A v \in S : v \in Seq(Tuple) /\ Ascending(v) OBVIOUS
<1> HIDE DEF S, G, b, n, Step
<1>9. PICK g \in [0..n -> S] : Iterates(n, b, G, g) BY <1>1, <1>2, <1>4, LoopExists
<1>10. \A k \in 0..n : k # 0 => k \in 1..n /\ g[k-1] \in S BY <1>1
<1>11. Eq(g) BY <1>5, <1>9, <1>10 DEF Iterates
<1> DEFINE s == CHOOSE s : Eq(s)
<1>12. Eq(s) BY <1>11
<1>13. sort(vec) = s[n] BY <1>6
<1> HIDE DEF s
<1>14. s[0] = b /\ \A k \in 1..n : s[k] = Step(s[k-1], k) BY <1>1, <1>12
<1> DEFINE P == {k \in 0..n : s[k] \in S /\ Tuples(s[k]) = {vec[i] : i \in 1..k}}
<1>15. 0 \in P
  <2>1. Tuples(b) = {} BY <1>7, EmptyVector
  <2> QED BY <2>1, <1>1, <1>2, <1>14
<1>16. \A k \in 1..n : k - 1 \in P => k \in P
  <2> SUFFICES ASSUME NEW k \in 1..n, k - 1 \in P PROVE k \in P OBVIOUS
  <2>1. s[k-1] \in S /\ Tuples(s[k-1]) = {vec[i] : i \in 1..(k-1)} OBVIOUS
  <2>2. s[k] \in S /\ Tuples(s[k]) = Tuples(s[k-1]) \cup {vec[k]} BY <2>1, <1>3, <1>14
  <2>3. {vec[i] : i \in 1..k} = {vec[i] : i \in 1..(k-1)} \cup {vec[k]}
    <3>1. 1..k = 1..(k-1) \cup {k} BY <1>1
    <3> QED BY <3>1
  <2> QED BY <2>1, <2>2, <2>3
<1> HIDE DEF P
<1>17. n \in P
  <2>1. \A k \in 0..n : k \in P BY <1>1, <1>15, <1>16, IntervalInduction
  <2> QED BY <2>1, <1>1
<1>18. Tuples(vec) = {vec[i] : i \in 1..n} BY <1>1 DEF Tuples
<1> QED BY <1>8, <1>13, <1>17, <1>18 DEF P

\* A larger tuple at the end.
LEMMA AppendFacts ==
  ASSUME NEW v \in Seq(Tuple), NEW t \in Tuple
  PROVE  /\ Append(v, t) \in Seq(Tuple) /\ Len(Append(v, t)) = Len(v) + 1
         /\ Append(v, t)[Len(v) + 1] = t
         /\ Tuples(Append(v, t)) = Tuples(v) \cup {t}
         /\ Increasing(v) /\ (v # << >> => Before(v[Len(v)], t)) => Increasing(Append(v, t))
<1> DEFINE n == Len(v)
           w == Append(v, t)
<1>1. /\ n \in Nat /\ DOMAIN v = 1..n
      /\ \A i \in 1..n : v[i] \in Tuple /\ v[i] \in Tuples(v)
      /\ \A u \in Tuples(v) : \E i \in 1..n : v[i] = u
  BY VectorFacts
<1>2. /\ w \in Seq(Tuple) /\ Len(w) = n + 1
      /\ \A i \in 1..n : w[i] = v[i]
  <2> DEFINE S == Tuple
  <2> HIDE DEF S
  <2>1. v \in Seq(S) /\ t \in S BY DEF S
  <2>2. w \in Seq(S) /\ Len(w) = n + 1 /\ \A i \in 1..n : w[i] = v[i] BY <2>1
  <2> QED BY <2>2 DEF S
<1>3. w[n + 1] = t
  <2> DEFINE S == Tuple
  <2> HIDE DEF S
  <2>1. v \in Seq(S) /\ t \in S BY DEF S
  <2> QED BY <2>1
<1>4. DOMAIN w = 1..(n + 1) BY <1>2, VectorFacts
<1> HIDE DEF w
<1>5. Tuples(w) = Tuples(v) \cup {t}
  <2>1. Tuples(w) \subseteq Tuples(v) \cup {t}
    <3> SUFFICES ASSUME NEW i \in 1..(n + 1) PROVE w[i] \in Tuples(v) \cup {t}
      BY <1>4 DEF Tuples
    <3>1. i \in 1..n \/ i = n + 1 BY <1>1
    <3> QED BY <3>1, <1>1, <1>2, <1>3
  <2>2. t \in Tuples(w)
    <3>1. n + 1 \in 1..(n + 1) BY <1>1
    <3> QED BY <3>1, <1>3, <1>4 DEF Tuples
  <2>3. \A i \in 1..n : v[i] \in Tuples(w)
    <3> TAKE i \in 1..n
    <3>1. i \in 1..(n + 1) BY <1>1
    <3> QED BY <3>1, <1>2, <1>4 DEF Tuples
  <2> QED BY <2>1, <2>2, <2>3, <1>1
<1>6. ASSUME Increasing(v), v # << >> => Before(v[n], t) PROVE Increasing(w)
  <2> SUFFICES ASSUME NEW i \in 1..(n + 1), NEW j \in 1..(n + 1), i < j
               PROVE  Before(w[i], w[j])
    BY <1>4 DEF Increasing
  <2>1. CASE j \in 1..n
    <3>1. i \in 1..n BY <2>1, <1>1
    <3> QED BY <2>1, <3>1, <1>1, <1>2, <1>6 DEF Increasing
  <2>2. CASE j \notin 1..n
    <3>1. j = n + 1 /\ i \in 1..n /\ n \in 1..n BY <2>2, <1>1
    <3>2. v # << >> BY <3>1, <1>1
    <3>3. i = n \/ Before(v[i], v[n])
      <4>1. i = n \/ i < n
        <5>1. n \in Nat /\ i \in 1..n BY <3>1, <1>1
        <5> HIDE DEF n
        <5> QED BY <5>1
      <4> QED BY <3>1, <4>1, <1>1, <1>6 DEF Increasing
    <3>4. Before(v[i], t)
      <4>1. v[i] \in Tuple /\ v[n] \in Tuple BY <3>1, <1>1
      <4> QED BY <3>2, <3>3, <4>1, <1>6, KeyOrder
    <3> QED BY <3>1, <3>4, <1>2, <1>3
  <2> QED BY <2>1, <2>2
<1> QED BY <1>2, <1>3, <1>5, <1>6 DEF w

\* deduplicate leaves one tuple of each key of a vector in order.
LEMMA DeduplicateFacts ==
  ASSUME NEW vec \in Seq(Tuple), Ascending(vec)
  PROVE  /\ deduplicate(vec) \in Seq(Tuple) /\ Increasing(deduplicate(vec))
         /\ Tuples(deduplicate(vec)) \subseteq Tuples(vec)
         /\ \A t \in Tuples(vec) : \E u \in Tuples(deduplicate(vec)) : SameKey(u, t)
<1> DEFINE n == Len(vec)
           S == Seq(Tuple)
           Step(v, k) == IF k > 1 /\ SameKey(v[Len(v)], vec[k]) THEN v
                         ELSE Append(v, vec[k])
           b == << >>
           G == [k \in 1..n |-> [v \in S |-> Step(v, k)]]
           Eq(s) == s = [i \in 0..n |-> IF i = 0 THEN b ELSE Step(s[i-1], i)]
<1>1. /\ n \in Nat /\ DOMAIN vec = 1..n
      /\ \A i \in 1..n : vec[i] \in Tuple /\ vec[i] \in Tuples(vec)
      /\ \A t \in Tuples(vec) : \E i \in 1..n : vec[i] = t
  BY VectorFacts
<1>2. b \in S BY EmptyVector
<1>3. \A k \in 1..n : \A v \in S :
        /\ Step(v, k) \in S
        /\ Step(v, k) = v \/ Step(v, k) = Append(v, vec[k])
        /\ k > 1 /\ SameKey(v[Len(v)], vec[k]) <=> Step(v, k) = v
  <2> TAKE k \in 1..n
  <2> TAKE v \in S
  <2>1. vec[k] \in Tuple /\ v \in Seq(Tuple) BY <1>1
  <2>2. Append(v, vec[k]) \in Seq(Tuple) /\ Len(Append(v, vec[k])) = Len(v) + 1
    BY <2>1, AppendFacts
  <2>3. Len(v) \in Nat BY <2>1, VectorFacts
  <2>4. Append(v, vec[k]) # v BY <2>2, <2>3
  <2> HIDE DEF S
  <2> QED BY <2>1, <2>2, <2>4 DEF S
<1>4. G \in [1..n -> [S -> S]] BY <1>3
<1>5. \A k \in 1..n : \A v \in S : G[k][v] = Step(v, k) OBVIOUS
<1>6. deduplicate(vec) = (CHOOSE s : Eq(s))[n] BY DEF deduplicate
<1>7. b = << >> OBVIOUS
<1>8. \A v \in S : v \in Seq(Tuple) OBVIOUS
<1> HIDE DEF S, G, b, n, Step
<1>9. PICK g \in [0..n -> S] : Iterates(n, b, G, g) BY <1>1, <1>2, <1>4, LoopExists
<1>10. \A k \in 0..n : k # 0 => k \in 1..n /\ g[k-1] \in S BY <1>1
<1>11. Eq(g) BY <1>5, <1>9, <1>10 DEF Iterates
<1> DEFINE s == CHOOSE s : Eq(s)
<1>12. Eq(s) BY <1>11
<1>13. deduplicate(vec) = s[n] BY <1>6
<1> HIDE DEF s
<1>14. s[0] = b /\ \A k \in 1..n : s[k] = Step(s[k-1], k) BY <1>1, <1>12
<1> DEFINE Last(k) == k > 0 => s[k] # << >> /\ SameKey(s[k][Len(s[k])], vec[k])
           Kept(k) == \A i \in 1..k : \E u \in Tuples(s[k]) : SameKey(u, vec[i])
           P == {k \in 0..n : /\ s[k] \in S /\ Increasing(s[k])
                              /\ Tuples(s[k]) \subseteq Tuples(vec)
                              /\ Last(k) /\ Kept(k)}
<1>15. 0 \in P
  <2>1. Tuples(b) = {} /\ Increasing(b) BY <1>7, EmptyVector
  <2> QED BY <2>1, <1>1, <1>2, <1>14
<1>16. \A k \in 1..n : k - 1 \in P => k \in P
  <2> SUFFICES ASSUME NEW k \in 1..n, k - 1 \in P PROVE k \in P OBVIOUS
  <2> DEFINE v == s[k-1]
             t == vec[k]
  <2>1. /\ v \in S /\ v \in Seq(Tuple) /\ Increasing(v) /\ Tuples(v) \subseteq Tuples(vec)
        /\ Last(k - 1) /\ Kept(k - 1) /\ k \in 0..n /\ t \in Tuple /\ t \in Tuples(vec)
    <3>1. k \in 0..n /\ t \in Tuple /\ t \in Tuples(vec) BY <1>1
    <3> HIDE DEF Last, Kept
    <3>2. v \in S /\ Increasing(v) /\ Tuples(v) \subseteq Tuples(vec)
      OBVIOUS
    <3>3. Last(k - 1) /\ Kept(k - 1) OBVIOUS
    <3>4. v \in Seq(Tuple) BY <3>2, <1>8
    <3> QED BY <3>1, <3>2, <3>3, <3>4
  <2>2. s[k] = Step(v, k) BY <1>14
  <2>3. CASE s[k] = v
    <3>1. k > 1 /\ SameKey(v[Len(v)], t) BY <2>1, <2>2, <2>3, <1>3
    <3>2. v # << >> BY <2>1, <3>1, <1>1
    <3>3. Len(v) \in 1..Len(v) /\ v[Len(v)] \in Tuples(v)
      <4> HIDE DEF v
      <4>1. Len(v) \in Nat /\ v \in [1..Len(v) -> Tuple] BY <2>1, VectorFacts
      <4>2. Len(v) # 0 BY <2>1, <3>2
      <4>3. Len(v) \in 1..Len(v) BY <4>1, <4>2
      <4> QED BY <2>1, <4>3, VectorFacts
    <3>4. Kept(k)
      <4> SUFFICES ASSUME NEW i \in 1..k
                   PROVE  \E u \in Tuples(s[k]) : SameKey(u, vec[i])
        OBVIOUS
      <4>1. CASE i = k BY <4>1, <2>3, <3>1, <3>3
      <4>2. CASE i # k
        <5>1. i \in 1..(k - 1) BY <4>2, <1>1
        <5> QED BY <5>1, <2>1, <2>3
      <4> QED BY <4>1, <4>2
    <3>5. Last(k) BY <2>3, <3>1, <3>2
    <3> HIDE DEF v
    <3> QED BY <2>1, <2>3, <3>4, <3>5
  <2>4. CASE s[k] = Append(v, t) /\ s[k] # v
    <3>1. ~ (k > 1 /\ SameKey(v[Len(v)], t)) BY <2>1, <2>2, <2>4, <1>3
    <3>2. v # << >> => Before(v[Len(v)], t)
      <4> SUFFICES ASSUME v # << >> PROVE Before(v[Len(v)], t) OBVIOUS
      <4>1. k > 1
        <5>1. k - 1 = 0 => v = << >> BY <1>7, <1>14
        <5> QED BY <5>1, <1>1
      <4>2. k - 1 \in 1..n /\ SameKey(v[Len(v)], vec[k-1]) BY <4>1, <2>1, <1>1
      <4>3. ~ Before(t, vec[k-1]) /\ vec[k-1] \in Tuple
        BY <4>2, <1>1 DEF Ascending
      <4>4. v[Len(v)] \in Tuple
        <5> HIDE DEF v
        <5>1. Len(v) \in Nat /\ v \in [1..Len(v) -> Tuple] BY <2>1, VectorFacts
        <5>2. Len(v) # 0 BY <2>1
        <5>3. Len(v) \in 1..Len(v) BY <5>1, <5>2
        <5> QED BY <5>1, <5>3
      <4>5. ~ Before(t, v[Len(v)]) BY <4>2, <4>3, <4>4, <2>1, KeyOrder
      <4>6. ~ SameKey(v[Len(v)], t) BY <3>1, <4>1
      <4> QED BY <4>4, <4>5, <4>6, <2>1, KeyOrder
    <3> DEFINE w == Append(v, t)
    <3>3. /\ w \in Seq(Tuple) /\ Len(w) = Len(v) + 1 /\ w[Len(v) + 1] = t
          /\ Tuples(w) = Tuples(v) \cup {t} /\ Increasing(w)
      <4> HIDE DEF v, t
      <4> QED BY <2>1, <3>2, AppendFacts
    <3>4. s[k] \in S BY <2>1, <2>2, <1>3
    <3>5. Kept(k)
      <4> SUFFICES ASSUME NEW i \in 1..k
                   PROVE  \E u \in Tuples(s[k]) : SameKey(u, vec[i])
        OBVIOUS
      <4>1. CASE i = k
        <5>1. SameKey(t, t) BY <2>1, KeyOrder
        <5> QED BY <4>1, <5>1, <2>4, <3>3
      <4>2. CASE i # k
        <5>1. i \in 1..(k - 1) BY <4>2, <1>1
        <5>2. PICK u \in Tuples(v) : SameKey(u, vec[i]) BY <5>1, <2>1
        <5> HIDE DEF v, t
        <5> QED BY <5>2, <2>4, <3>3
      <4> QED BY <4>1, <4>2
    <3>6. Last(k)
      <4>1. SameKey(t, t) BY <2>1, KeyOrder
      <4>2. w # << >>
        <5> HIDE DEF v, w
        <5>1. Len(v) \in Nat BY <2>1, VectorFacts
        <5>2. Len(w) # 0 BY <5>1, <3>3
        <5> QED BY <5>2
      <4> QED BY <4>1, <4>2, <2>4, <3>3
    <3>7. s[k] = w BY <2>4
    <3> HIDE DEF v, t, w
    <3> QED BY <2>1, <3>3, <3>4, <3>5, <3>6, <3>7
  <2>5. s[k] = v \/ s[k] = Append(v, t) BY <2>1, <2>2, <1>3
  <2> QED BY <2>3, <2>4, <2>5
<1> HIDE DEF P
<1>17. n \in P
  <2>1. \A k \in 0..n : k \in P BY <1>1, <1>15, <1>16, IntervalInduction
  <2> QED BY <2>1, <1>1
<1>18. /\ s[n] \in Seq(Tuple) /\ Increasing(s[n]) /\ Tuples(s[n]) \subseteq Tuples(vec)
       /\ Kept(n)
  BY <1>8, <1>17 DEF P
<1>19. \A t \in Tuples(vec) : \E u \in Tuples(s[n]) : SameKey(u, t)
  BY <1>1, <1>18
<1> QED BY <1>13, <1>18, <1>19

\* The second loop of flatten and unflatten, in the vector.
LEMMA InsertTuplesFacts ==
  ASSUME NEW vec \in Seq(Tuple), Increasing(vec), NEW worklist \in Seq(Tuple)
  PROVE  LET v == InsertTuples(vec, worklist)
         IN  /\ v \in Seq(Tuple) /\ Increasing(v)
             /\ Tuples(vec) \subseteq Tuples(v)
             /\ Tuples(v) \subseteq Tuples(vec) \cup Tuples(worklist)
             /\ \A t \in Tuples(worklist) : \E u \in Tuples(v) : SameKey(u, t)
<1> DEFINE n == Len(worklist)
           S == {v \in Seq(Tuple) : Increasing(v)}
           Step(v, k) == insert(v, worklist[k])
           G == [k \in 1..n |-> [v \in S |-> Step(v, k)]]
           Eq(s) == s = [i \in 0..n |-> IF i = 0 THEN vec ELSE Step(s[i-1], i)]
<1>1. /\ n \in Nat /\ DOMAIN worklist = 1..n
      /\ \A i \in 1..n : worklist[i] \in Tuple /\ worklist[i] \in Tuples(worklist)
      /\ \A t \in Tuples(worklist) : \E i \in 1..n : worklist[i] = t
  BY VectorFacts
<1>2. vec \in S OBVIOUS
<1>3. \A k \in 1..n : \A v \in S :
        /\ Step(v, k) \in S
        /\ Tuples(v) \subseteq Tuples(Step(v, k))
        /\ Tuples(Step(v, k)) \subseteq Tuples(v) \cup {worklist[k]}
        /\ \E u \in Tuples(Step(v, k)) : SameKey(u, worklist[k])
  <2> TAKE k \in 1..n
  <2> TAKE v \in S
  <2> DEFINE t == worklist[k]
             w == insert(v, t)
  <2>1. t \in Tuple /\ v \in Seq(Tuple) /\ Increasing(v) BY <1>1
  <2> HIDE DEF t
  <2>2. /\ w \in Seq(Tuple) /\ Increasing(w) /\ Tuples(v) \subseteq Tuples(w)
        /\ Tuples(w) = IF contains(v, t) THEN Tuples(v) ELSE Tuples(v) \cup {t}
        /\ contains(v, t) <=> \E u \in Tuples(v) : SameKey(u, t)
    BY <2>1, InsertFacts
  <2>3. SameKey(t, t) BY <2>1, KeyOrder
  <2> HIDE DEF w
  <2>4. \E u \in Tuples(w) : SameKey(u, t) BY <2>2, <2>3
  <2> QED BY <2>2, <2>4 DEF t, w
<1>4. G \in [1..n -> [S -> S]] BY <1>3
<1>5. \A k \in 1..n : \A v \in S : G[k][v] = Step(v, k) OBVIOUS
<1>6. InsertTuples(vec, worklist) = (CHOOSE s : Eq(s))[n] BY DEF InsertTuples
<1>8. \A v \in S : v \in Seq(Tuple) /\ Increasing(v) OBVIOUS
<1> HIDE DEF S, G, n, Step
<1>9. PICK g \in [0..n -> S] : Iterates(n, vec, G, g) BY <1>1, <1>2, <1>4, LoopExists
<1>10. \A k \in 0..n : k # 0 => k \in 1..n /\ g[k-1] \in S BY <1>1
<1>11. Eq(g) BY <1>5, <1>9, <1>10 DEF Iterates
<1> DEFINE s == CHOOSE s : Eq(s)
<1>12. Eq(s) BY <1>11
<1>13. InsertTuples(vec, worklist) = s[n] BY <1>6
<1> HIDE DEF s
<1>14. s[0] = vec /\ \A k \in 1..n : s[k] = Step(s[k-1], k) BY <1>1, <1>12
<1> DEFINE Kept(k) == \A i \in 1..k : \E u \in Tuples(s[k]) : SameKey(u, worklist[i])
           P == {k \in 0..n : /\ s[k] \in S /\ Tuples(vec) \subseteq Tuples(s[k])
                              /\ Tuples(s[k]) \subseteq Tuples(vec) \cup Tuples(worklist)
                              /\ Kept(k)}
<1>15. 0 \in P BY <1>1, <1>2, <1>14
<1>16. \A k \in 1..n : k - 1 \in P => k \in P
  <2> SUFFICES ASSUME NEW k \in 1..n, k - 1 \in P PROVE k \in P OBVIOUS
  <2> DEFINE v == s[k-1]
             w == s[k]
  <2>1. /\ v \in S /\ Tuples(vec) \subseteq Tuples(v)
        /\ Tuples(v) \subseteq Tuples(vec) \cup Tuples(worklist)
        /\ \A i \in 1..(k-1) : \E u \in Tuples(v) : SameKey(u, worklist[i])
        /\ k \in 0..n
    BY <1>1
  <2>2. w = Step(v, k) BY <1>14
  <2>3. /\ w \in S /\ Tuples(v) \subseteq Tuples(w)
        /\ Tuples(w) \subseteq Tuples(v) \cup {worklist[k]}
        /\ \E u \in Tuples(w) : SameKey(u, worklist[k])
    BY <2>1, <2>2, <1>3
  <2>4. Tuples(w) \subseteq Tuples(vec) \cup Tuples(worklist) BY <2>1, <2>3, <1>1
  <2>5. \A i \in 1..k : \E u \in Tuples(w) : SameKey(u, worklist[i])
    <3> SUFFICES ASSUME NEW i \in 1..k
                 PROVE  \E u \in Tuples(w) : SameKey(u, worklist[i])
      OBVIOUS
    <3>1. i = k \/ i \in 1..(k-1) BY <1>1
    <3> HIDE DEF v, w
    <3> QED BY <3>1, <2>1, <2>3
  <2> QED BY <2>1, <2>3, <2>4, <2>5
<1> HIDE DEF P
<1>17. n \in P
  <2>1. \A k \in 0..n : k \in P BY <1>1, <1>15, <1>16, IntervalInduction
  <2> QED BY <2>1, <1>1
<1>18. /\ s[n] \in Seq(Tuple) /\ Increasing(s[n]) /\ Tuples(vec) \subseteq Tuples(s[n])
       /\ Tuples(s[n]) \subseteq Tuples(vec) \cup Tuples(worklist) /\ Kept(n)
  BY <1>8, <1>17 DEF P
<1>19. \A t \in Tuples(worklist) : \E u \in Tuples(s[n]) : SameKey(u, t)
  BY <1>1, <1>18
<1> QED BY <1>13, <1>18, <1>19

\* In the order of the ids, as a worklist is.
ById(vec) == \A i, j \in DOMAIN vec : i < j => vec[i].id <= vec[j].id

\* One vector behind another.
LEMMA ConcatFacts ==
  ASSUME NEW v \in Seq(Tuple), NEW w \in Seq(Tuple)
  PROVE  /\ v \o w \in Seq(Tuple) /\ Tuples(v \o w) = Tuples(v) \cup Tuples(w)
         /\ /\ ById(v) /\ ById(w)
            /\ \A s \in Tuples(v), t \in Tuples(w) : s.id <= t.id
            => ById(v \o w)
<1> DEFINE n == Len(v)
           m == Len(w)
           c == v \o w
<1>1. /\ n \in Nat /\ DOMAIN v = 1..n
      /\ \A i \in 1..n : v[i] \in Tuple /\ v[i] \in Tuples(v)
      /\ \A t \in Tuples(v) : \E i \in 1..n : v[i] = t
  BY VectorFacts
<1>2. /\ m \in Nat /\ DOMAIN w = 1..m
      /\ \A i \in 1..m : w[i] \in Tuple /\ w[i] \in Tuples(w)
      /\ \A t \in Tuples(w) : \E i \in 1..m : w[i] = t
  BY VectorFacts
<1>3. /\ c \in Seq(Tuple) /\ Len(c) = n + m
      /\ \A i \in 1..(n + m) : c[i] = IF i <= n THEN v[i] ELSE w[i - n]
  <2> DEFINE S == Tuple
  <2> HIDE DEF S
  <2>1. v \in Seq(S) /\ w \in Seq(S) BY DEF S
  <2>2. c \in Seq(S) /\ Len(c) = n + m BY <2>1
  <2>3. \A i \in 1..(n + m) : c[i] = IF i <= n THEN v[i] ELSE w[i - n] BY <2>1
  <2> QED BY <2>2, <2>3 DEF S
<1>4. DOMAIN c = 1..(n + m) BY <1>3, VectorFacts
<1> HIDE DEF c, n, m
<1>5. \A i \in 1..(n + m) : /\ i <= n => i \in 1..n /\ c[i] = v[i]
                            /\ ~ (i <= n) => i - n \in 1..m /\ c[i] = w[i - n]
  BY <1>1, <1>2, <1>3
<1>6. Tuples(c) \subseteq Tuples(v) \cup Tuples(w)
  <2> SUFFICES ASSUME NEW i \in 1..(n + m) PROVE c[i] \in Tuples(v) \cup Tuples(w)
    BY <1>4 DEF Tuples
  <2> QED BY <1>1, <1>2, <1>5
<1>7. \A i \in 1..n : v[i] \in Tuples(c)
  <2> TAKE i \in 1..n
  <2>1. i \in 1..(n + m) /\ i <= n BY <1>1, <1>2
  <2> QED BY <2>1, <1>4, <1>5 DEF Tuples
<1>8. \A i \in 1..m : w[i] \in Tuples(c)
  <2> TAKE i \in 1..m
  <2>1. i + n \in 1..(n + m) /\ ~ (i + n <= n) /\ (i + n) - n = i BY <1>1, <1>2
  <2>2. c[i + n] = w[i] BY <2>1, <1>5
  <2> QED BY <2>1, <2>2, <1>4 DEF Tuples
<1>9. ASSUME ById(v), ById(w), \A s \in Tuples(v), t \in Tuples(w) : s.id <= t.id
      PROVE  ById(c)
  <2> SUFFICES ASSUME NEW i \in 1..(n + m), NEW j \in 1..(n + m), i < j
               PROVE  c[i].id <= c[j].id
    BY <1>4 DEF ById
  <2>1. CASE j <= n
    <3>1. i <= n BY <2>1, <1>1, <1>2
    <3> QED BY <2>1, <3>1, <1>1, <1>5, <1>9 DEF ById
  <2>2. CASE i <= n /\ ~ (j <= n)
    BY <2>2, <1>1, <1>2, <1>5, <1>9
  <2>3. CASE ~ (i <= n)
    <3>1. ~ (j <= n) /\ i - n < j - n BY <2>3, <1>1, <1>2
    <3> QED BY <2>3, <3>1, <1>2, <1>5, <1>9 DEF ById
  <2> QED BY <2>1, <2>2, <2>3
<1>10. Tuples(c) = Tuples(v) \cup Tuples(w) BY <1>1, <1>2, <1>6, <1>7, <1>8
<1> QED BY <1>3, <1>9, <1>10 DEF c

\* Vectors one behind the other hold what each of them holds, in the order of
\* the ids if that is their order.
LEMMA JoinedFacts ==
  ASSUME NEW n \in Nat, NEW parts \in [1..n -> Seq(Tuple)]
  PROVE  LET w == Joined(n, parts)
         IN  /\ w \in Seq(Tuple)
             /\ \A k \in 1..n : Tuples(parts[k]) \subseteq Tuples(w)
             /\ \A t \in Tuples(w) : \E k \in 1..n : t \in Tuples(parts[k])
             /\ /\ \A k \in 1..n : ById(parts[k])
                /\ \A i, j \in 1..n : i < j =>
                     \A s \in Tuples(parts[i]), t \in Tuples(parts[j]) : s.id <= t.id
                => ById(w)
<1> DEFINE S == Seq(Tuple)
           b == << >>
           Step(v, k) == v \o parts[k]
           G == [k \in 1..n |-> [v \in S |-> Step(v, k)]]
           Eq(s) == s = [i \in 0..n |-> IF i = 0 THEN b ELSE Step(s[i-1], i)]
           InOrder == /\ \A k \in 1..n : ById(parts[k])
                      /\ \A i, j \in 1..n : i < j =>
                           \A s \in Tuples(parts[i]), t \in Tuples(parts[j]) : s.id <= t.id
<1>0. n \in Nat OBVIOUS
<1>1. b \in S /\ Tuples(b) = {} /\ ById(b) BY EmptyVector DEF ById
<1>2. \A k \in 1..n : parts[k] \in S OBVIOUS
<1>3. \A k \in 1..n : \A v \in S :
        /\ v \o parts[k] \in S
        /\ Tuples(v \o parts[k]) = Tuples(v) \cup Tuples(parts[k])
        /\ /\ ById(v) /\ ById(parts[k])
           /\ \A s \in Tuples(v), t \in Tuples(parts[k]) : s.id <= t.id
           => ById(v \o parts[k])
  <2> TAKE k \in 1..n
  <2> TAKE v \in S
  <2> DEFINE w == parts[k]
  <2>1. v \in Seq(Tuple) /\ w \in Seq(Tuple) BY <1>2
  <2> HIDE DEF w, S
  <2>2. /\ v \o w \in Seq(Tuple) /\ Tuples(v \o w) = Tuples(v) \cup Tuples(w)
        /\ /\ ById(v) /\ ById(w)
           /\ \A s \in Tuples(v), t \in Tuples(w) : s.id <= t.id
           => ById(v \o w)
    BY <2>1, ConcatFacts
  <2> QED BY <2>2 DEF w, S
<1>4. G \in [1..n -> [S -> S]] BY <1>3
<1>5. \A k \in 1..n : \A v \in S : G[k][v] = Step(v, k) OBVIOUS
<1>6. Joined(n, parts) = (CHOOSE s : Eq(s))[n] BY DEF Joined
<1> HIDE DEF S, G, b, Step
<1>9. PICK g \in [0..n -> S] : Iterates(n, b, G, g) BY <1>1, <1>4, LoopExists
<1>10. \A k \in 0..n : k # 0 => k \in 1..n /\ g[k-1] \in S OBVIOUS
<1>11. Eq(g) BY <1>5, <1>9, <1>10 DEF Iterates
<1> DEFINE s == CHOOSE s : Eq(s)
<1>12. Eq(s) BY <1>11
<1>13. Joined(n, parts) = s[n] BY <1>6
<1> HIDE DEF s
<1>14. s[0] = b /\ \A k \in 1..n : s[k] = Step(s[k-1], k) BY <1>0, <1>12
<1> DEFINE Holds(k) == \A t : t \in Tuples(s[k]) <=> \E i \in 1..k : t \in Tuples(parts[i])
           P == {k \in 0..n : s[k] \in S /\ Holds(k) /\ (InOrder => ById(s[k]))}
<1>15. 0 \in P BY <1>1, <1>14
<1>16. \A k \in 1..n : k - 1 \in P => k \in P
  <2> SUFFICES ASSUME NEW k \in 1..n, k - 1 \in P PROVE k \in P OBVIOUS
  <2> DEFINE v == s[k-1]
             w == parts[k]
  <2>1. /\ v \in S /\ k \in 0..n /\ (InOrder => ById(v))
        /\ \A t : t \in Tuples(v) <=> \E i \in 1..(k-1) : t \in Tuples(parts[i])
    OBVIOUS
  <2>2. s[k] = v \o w BY <1>14 DEF Step
  <2>0. k \in 1..n OBVIOUS
  <2> HIDE DEF v, P
  <2>3. /\ v \o w \in S /\ Tuples(v \o w) = Tuples(v) \cup Tuples(w)
        /\ /\ ById(v) /\ ById(w)
           /\ \A r \in Tuples(v), t \in Tuples(w) : r.id <= t.id
           => ById(v \o w)
    BY <2>1, <1>3
  <2>4. 1..k = 1..(k-1) \cup {k} BY <1>0, <2>0
  <2>5. Holds(k) BY <2>1, <2>2, <2>3, <2>4
  <2>6. ASSUME InOrder PROVE ById(s[k])
    <3>1. \A r \in Tuples(v), t \in Tuples(w) : r.id <= t.id
      <4> SUFFICES ASSUME NEW r \in Tuples(v), NEW t \in Tuples(w) PROVE r.id <= t.id
        OBVIOUS
      <4>1. PICK i \in 1..(k-1) : r \in Tuples(parts[i]) BY <2>1
      <4>2. i \in 1..n /\ i < k BY <1>0
      <4> QED BY <4>1, <4>2, <2>6
    <3>2. ById(w) BY <2>6
    <3> QED BY <3>1, <3>2, <2>1, <2>2, <2>3, <2>6
  <2>7. s[k] \in S BY <2>2, <2>3
  <2> HIDE DEF Holds
  <2> QED BY <2>1, <2>5, <2>6, <2>7 DEF P
<1> HIDE DEF P
<1>17. n \in P
  <2>1. \A k \in 0..n : k \in P BY <1>0, <1>15, <1>16, IntervalInduction
  <2> QED BY <2>1, <1>0
<1>18. s[n] \in Seq(Tuple) /\ Holds(n) /\ (InOrder => ById(s[n])) BY <1>17 DEF P, S
<1> QED BY <1>13, <1>18

\* Tuples of ids that exist are tuples.
LEMMA RowsAreTuples ==
  ASSUME Live \subseteq Ids, NEW op \in AcOps
  PROVE  /\ Row(op) \subseteq Tuple
         /\ \A vec \in Seq(Row(op)) : vec \in Seq(Tuple) /\ Tuples(vec) \subseteq Row(op)
<1>1. Row(op) \subseteq Tuple BY DEF Row, Args, Tuple
<1>2. ASSUME NEW vec \in Seq(Row(op))
      PROVE  vec \in Seq(Tuple) /\ Tuples(vec) \subseteq Row(op)
  <2> DEFINE R == Row(op)
             n == Len(vec)
  <2>1. R \subseteq Tuple /\ vec \in Seq(R) BY <1>1
  <2> HIDE DEF R
  <2>2. n \in Nat /\ vec \in [1..n -> R] BY <2>1
  <2> HIDE DEF n
  <2>3. vec \in [1..n -> Tuple] BY <2>1, <2>2
  <2>4. vec \in Seq(Tuple) BY <2>2, <2>3, VectorMade
  <2>5. Tuples(vec) \subseteq R BY <2>2 DEF Tuples
  <2> QED BY <2>4, <2>5 DEF R
<1> QED BY <1>1, <1>2

\* A table of sequences of tuples; the ids of a row are the same, and larger
\* from row to row.
Table(n, ids, pushed) ==
  /\ ids \in [1..n -> Nat] /\ \A i, j \in 1..n : i < j => ids[i] <= ids[j]
  /\ pushed \in [1..n -> [1..n -> Seq(Tuple)]]
  /\ \A i, j \in 1..n : \A t \in Tuples(pushed[i][j]) : t.id = ids[i]

\* The sequence w has what the table has, in the order of the ids.
Collects(n, pushed, w) ==
  /\ w \in Seq(Tuple) /\ ById(w)
  /\ \A i, j \in 1..n : Tuples(pushed[i][j]) \subseteq Tuples(w)
  /\ \A t \in Tuples(w) : \E i, j \in 1..n : t \in Tuples(pushed[i][j])

\* The worklist holds what the pairs add, in the order of the ids.
LEMMA WorklistFacts ==
  ASSUME NEW n \in Nat, NEW ids, NEW pushed, Table(n, ids, pushed)
  PROVE  Collects(n, pushed, Worklist(n, pushed))
<1> USE DEF Table
<1> DEFINE parts == [i \in 1..n |-> Joined(n, pushed[i])]
<1>0. n \in Nat OBVIOUS
<1>1. \A i \in 1..n :
        /\ Joined(n, pushed[i]) \in Seq(Tuple) /\ ById(Joined(n, pushed[i]))
        /\ \A j \in 1..n : Tuples(pushed[i][j]) \subseteq Tuples(Joined(n, pushed[i]))
        /\ \A t \in Tuples(Joined(n, pushed[i])) :
             t.id = ids[i] /\ \E j \in 1..n : t \in Tuples(pushed[i][j])
  <2> TAKE i \in 1..n
  <2> DEFINE row == pushed[i]
             w == Joined(n, row)
  <2>1. row \in [1..n -> Seq(Tuple)] OBVIOUS
  <2>2. \A j \in 1..n : \A t \in Tuples(row[j]) : t.id = ids[i] OBVIOUS
  <2>3. \A j \in 1..n : ById(row[j])
    <3> SUFFICES ASSUME NEW j \in 1..n PROVE ById(row[j]) OBVIOUS
    <3> DEFINE v == row[j]
    <3>1. v \in Seq(Tuple) /\ \A t \in Tuples(v) : t.id = ids[i] BY <2>1, <2>2
    <3> HIDE DEF v
    <3>2. \A k \in DOMAIN v : v[k].id = ids[i] BY <3>1 DEF Tuples
    <3>3. ids[i] \in Nat OBVIOUS
    <3>4. ById(v) BY <3>2, <3>3 DEF ById
    <3> QED BY <3>4 DEF v
  <2>4. ids[i] \in Nat OBVIOUS
  <2> HIDE DEF row
  <2>5. \A j, k \in 1..n : j < k =>
          \A r \in Tuples(row[j]), t \in Tuples(row[k]) : r.id <= t.id
    <3> SUFFICES ASSUME NEW j \in 1..n, NEW k \in 1..n,
                        NEW r \in Tuples(row[j]), NEW t \in Tuples(row[k])
                 PROVE  r.id <= t.id
      OBVIOUS
    <3>1. r.id = ids[i] /\ t.id = ids[i] BY <2>2
    <3> QED BY <3>1, <2>4
  <2>6. /\ w \in Seq(Tuple) /\ ById(w)
        /\ \A j \in 1..n : Tuples(row[j]) \subseteq Tuples(w)
        /\ \A t \in Tuples(w) : \E j \in 1..n : t \in Tuples(row[j])
    BY <2>1, <2>3, <2>5, JoinedFacts
  <2> HIDE DEF w
  <2> QED BY <2>2, <2>6 DEF row, w
<1>2. parts \in [1..n -> Seq(Tuple)] BY <1>1
<1>3. \A i \in 1..n :
        /\ ById(parts[i])
        /\ \A j \in 1..n : Tuples(pushed[i][j]) \subseteq Tuples(parts[i])
        /\ \A t \in Tuples(parts[i]) :
             t.id = ids[i] /\ \E j \in 1..n : t \in Tuples(pushed[i][j])
  BY <1>1
<1>4. Worklist(n, pushed) = Joined(n, parts) BY DEF Worklist
<1> HIDE DEF parts
<1>5. \A i, j \in 1..n : i < j =>
        \A r \in Tuples(parts[i]), t \in Tuples(parts[j]) : r.id <= t.id
  <2> SUFFICES ASSUME NEW i \in 1..n, NEW j \in 1..n, i < j,
                      NEW r \in Tuples(parts[i]), NEW t \in Tuples(parts[j])
               PROVE  r.id <= t.id
    OBVIOUS
  <2>1. r.id = ids[i] /\ t.id = ids[j] BY <1>3
  <2> QED BY <2>1
<1> DEFINE w == Joined(n, parts)
<1>6. /\ w \in Seq(Tuple) /\ ById(w)
      /\ \A i \in 1..n : Tuples(parts[i]) \subseteq Tuples(w)
      /\ \A t \in Tuples(w) : \E i \in 1..n : t \in Tuples(parts[i])
  <2>1. \A i \in 1..n : ById(parts[i]) BY <1>3
  <2> QED BY <1>0, <1>2, <1>5, <2>1, JoinedFacts
<1> HIDE DEF w
<1>7. \A i, j \in 1..n : Tuples(pushed[i][j]) \subseteq Tuples(w)
  <2> TAKE i, j \in 1..n
  <2>1. Tuples(pushed[i][j]) \subseteq Tuples(parts[i]) BY <1>3
  <2>2. Tuples(parts[i]) \subseteq Tuples(w) BY <1>6
  <2> QED BY <2>1, <2>2
<1>8. \A t \in Tuples(w) : \E i, j \in 1..n : t \in Tuples(pushed[i][j])
  <2> TAKE t \in Tuples(w)
  <2>1. PICK i \in 1..n : t \in Tuples(parts[i]) BY <1>6
  <2>2. PICK j \in 1..n : t \in Tuples(pushed[i][j]) BY <2>1, <1>3
  <2> QED BY <2>2
<1> QED BY <1>4, <1>6, <1>7, <1>8 DEF w, Collects

\* A table of at most one tuple for a pair of positions, with the id of the first.
Derivations(op, vec, pairs) ==
  /\ pairs \in [1..Len(vec) -> [1..Len(vec) -> Seq(Tuple)]]
  /\ \A i, j \in 1..Len(vec) :
       \/ pairs[i][j] = << >>
       \/ \E t \in Row(op) : pairs[i][j] = <<t>> /\ t.id = vec[i].id

\* What the pairs derive, without what is not to be added.
PushedList(vec, pairs) ==
  Worklist(Len(vec), [i \in DOMAIN vec |-> [j \in DOMAIN vec |->
                        Pushed(vec, i, j, pairs[i][j])]])

Adds(vec, pairs, t) ==
  \E i, j \in 1..Len(vec) : /\ pairs[i][j] = <<t>>
                            /\ hash(vec[i].args) # hash(vec[j].args)
                            /\ ~ contains(vec, t)

\* Of what the pairs of a vector derive, the worklist takes what a pair with
\* different fingerprints derives and the vector does not contain.
LEMMA PushedFacts ==
  ASSUME Live \subseteq Ids, NEW op \in AcOps, NEW vec \in Seq(Row(op)), Increasing(vec),
         NEW pairs, Derivations(op, vec, pairs)
  PROVE  LET w == PushedList(vec, pairs)
         IN  /\ w \in Seq(Tuple) /\ Tuples(w) \subseteq Row(op) /\ ById(w)
             /\ \A t : t \in Tuples(w) <=> Adds(vec, pairs, t)
<1> DEFINE n == Len(vec)
           ids == [i \in 1..n |-> vec[i].id]
           pushed == [i \in 1..n |-> [j \in 1..n |-> Pushed(vec, i, j, pairs[i][j])]]
           w == Worklist(n, pushed)
           Add(i, j, t) == /\ pairs[i][j] = <<t>>
                           /\ hash(vec[i].args) # hash(vec[j].args)
                           /\ ~ contains(vec, t)
<1>1. /\ vec \in Seq(Tuple) /\ n \in Nat /\ DOMAIN vec = 1..n
      /\ \A i \in 1..n : vec[i] \in Tuple /\ vec[i] \in Row(op)
  BY RowsAreTuples, VectorFacts
<1>2. /\ pairs \in [1..n -> [1..n -> Seq(Tuple)]]
      /\ \A i, j \in 1..n : \/ pairs[i][j] = << >>
                            \/ \E t \in Row(op) : pairs[i][j] = <<t>> /\ t.id = vec[i].id
  BY DEF Derivations
<1> HIDE DEF n
<1>3. ids \in [1..n -> Nat]
  <2>1. \A i \in 1..n : vec[i].id \in Nat BY <1>1, MaxIdsAssumption DEF Tuple, Ids
  <2> QED BY <2>1
<1>4. \A i, j \in 1..n : i < j => ids[i] <= ids[j]
  <2> SUFFICES ASSUME NEW i \in 1..n, NEW j \in 1..n, i < j PROVE ids[i] <= ids[j]
    OBVIOUS
  <2>1. Before(vec[i], vec[j]) BY <1>1 DEF Increasing
  <2>2. vec[i].id \in Nat /\ vec[j].id \in Nat BY <1>1, MaxIdsAssumption DEF Tuple, Ids
  <2> QED BY <2>1, <2>2 DEF Before
<1>5. \A i, j \in 1..n : /\ Pushed(vec, i, j, pairs[i][j]) \in Seq(Tuple)
                         /\ \A t : t \in Tuples(Pushed(vec, i, j, pairs[i][j])) <=> Add(i, j, t)
                         /\ \A t : Add(i, j, t) => t \in Row(op) /\ t.id = vec[i].id
  <2> TAKE i, j \in 1..n
  <2> DEFINE p == pairs[i][j]
             q == Pushed(vec, i, j, p)
  <2>1. \A t, u : <<t>> = <<u>> => t = u OBVIOUS
  <2>2. \A t : <<t>> # << >> OBVIOUS
  <2>3. CASE p = << >>
    <3>1. q = << >> BY <2>3 DEF Pushed
    <3>2. << >> \in Seq(Tuple) /\ Tuples(<< >>) = {} BY EmptyVector
    <3> QED BY <2>2, <2>3, <3>1, <3>2
  <2>4. CASE \E t \in Row(op) : p = <<t>> /\ t.id = vec[i].id
    <3>1. PICK t \in Row(op) : p = <<t>> /\ t.id = vec[i].id BY <2>4
    <3>2. p # << >> /\ p[1] = t BY <3>1
    <3>3. Tuples(<<t>>) = {t} BY DEF Tuples
    <3>4. << >> \in Seq(Tuple) /\ Tuples(<< >>) = {} BY EmptyVector
    <3>5. p \in Seq(Tuple) BY <1>2
    <3>6. q = IF Add(i, j, t) THEN p ELSE << >> BY <3>1, <3>2 DEF Pushed
    <3>7. \A u : Add(i, j, u) => u = t BY <3>1, <2>1
    <3> HIDE DEF p, q, Add
    <3> QED BY <3>1, <3>3, <3>4, <3>5, <3>6, <3>7 DEF p, q
  <2> QED BY <2>3, <2>4, <1>2
<1>6. pushed \in [1..n -> [1..n -> Seq(Tuple)]] BY <1>5
<1>7. \A i, j \in 1..n : \A t : t \in Tuples(pushed[i][j]) <=> Add(i, j, t) BY <1>5
<1> HIDE DEF Add
<1>8. \A i, j \in 1..n : \A t : Add(i, j, t) => t \in Row(op) /\ t.id = ids[i] BY <1>5
<1> HIDE DEF pushed, ids
<1>9. \A i, j \in 1..n : \A t \in Tuples(pushed[i][j]) : t.id = ids[i] BY <1>7, <1>8
<1>10. Collects(n, pushed, w)
  <2>1. Table(n, ids, pushed) BY <1>3, <1>4, <1>6, <1>9 DEF Table
  <2> QED BY <1>1, <2>1, WorklistFacts
<1> HIDE DEF w
<1>11. \A t : t \in Tuples(w) <=> \E i, j \in 1..n : Add(i, j, t)
  BY <1>7, <1>10 DEF Collects
<1>12. Tuples(w) \subseteq Row(op) BY <1>8, <1>11
<1>13. w = PushedList(vec, pairs) BY <1>1 DEF w, pushed, PushedList, n
<1>14. \A t : Adds(vec, pairs, t) <=> \E i, j \in 1..n : Add(i, j, t) BY DEF Adds, Add, n
<1> QED BY <1>10, <1>11, <1>12, <1>13, <1>14 DEF Collects

\* A pair derives nothing, or one tuple with the id of the first.
LEMMA PairFacts ==
  ASSUME Live \subseteq Ids, NEW op \in AcOps, NEW a \in Row(op), NEW b \in Row(op)
  PROVE  /\ FlattenPair(a, b) \in Seq(Tuple)
         /\ \/ FlattenPair(a, b) = << >>
            \/ \E t \in Row(op) : FlattenPair(a, b) = <<t>> /\ t.id = a.id
         /\ UnflattenPair(a, b) \in Seq(Tuple)
         /\ \/ UnflattenPair(a, b) = << >>
            \/ \E t \in Row(op) : UnflattenPair(a, b) = <<t>> /\ t.id = a.id
<1> DEFINE r == [args |-> InsertAll(Remove(a.args, b.id), b.args), id |-> a.id]
           s == [args |-> Insert(MsetDiff(a.args, b.args), b.id), id |-> a.id]
<1>1. r \in Row(op) /\ s \in Row(op) BY DerivedRow
<1>2. r.id = a.id /\ s.id = a.id OBVIOUS
<1>3. FlattenPair(a, b) \in {<< >>, <<r>>} BY DEF FlattenPair
<1>4. UnflattenPair(a, b) \in {<< >>, <<s>>} BY DEF UnflattenPair
<1> HIDE DEF r, s
<1>5. << >> \in Seq(Tuple) /\ \A t \in Row(op) : <<t>> \in Seq(Tuple)
  <2>1. Row(op) \subseteq Tuple BY RowsAreTuples
  <2> DEFINE S == Tuple
             R == Row(op)
  <2>2. R \subseteq S BY <2>1
  <2> HIDE DEF S, R
  <2>3. << >> \in Seq(S) /\ \A t \in R : <<t>> \in Seq(S) BY <2>2
  <2> QED BY <2>3 DEF S, R
<1> QED BY <1>1, <1>2, <1>3, <1>4, <1>5

\* The worklist of flatten.
LEMMA FlattenFacts ==
  ASSUME Live \subseteq Ids, NEW op \in AcOps, NEW vec \in Seq(Row(op)), Increasing(vec)
  PROVE  LET w == FlattenWorklist(vec)
         IN  /\ w \in Seq(Tuple) /\ Tuples(w) \subseteq Row(op) /\ ById(w)
             /\ \A t : t \in Tuples(w) <=>
                  \E a, b \in Tuples(vec) : /\ FlattenPair(a, b) = <<t>>
                                            /\ hash(a.args) # hash(b.args)
                                            /\ ~ contains(vec, t)
<1> DEFINE n == Len(vec)
           pairs == [i \in 1..n |-> [j \in 1..n |-> FlattenPair(vec[i], vec[j])]]
           w == PushedList(vec, pairs)
           Derived(t) == \E a, b \in Tuples(vec) : /\ FlattenPair(a, b) = <<t>>
                                                   /\ hash(a.args) # hash(b.args)
                                                   /\ ~ contains(vec, t)
<1>1. /\ n \in Nat /\ DOMAIN vec = 1..n
      /\ \A i \in 1..n : vec[i] \in Row(op) /\ vec[i] \in Tuples(vec)
      /\ \A t \in Tuples(vec) : \E i \in 1..n : vec[i] = t
  BY RowsAreTuples, VectorFacts
<1> HIDE DEF n
<1>2. \A i, j \in 1..n :
        /\ FlattenPair(vec[i], vec[j]) \in Seq(Tuple)
        /\ \/ FlattenPair(vec[i], vec[j]) = << >>
           \/ \E t \in Row(op) : FlattenPair(vec[i], vec[j]) = <<t>> /\ t.id = vec[i].id
  BY <1>1, PairFacts
<1>3. pairs \in [1..n -> [1..n -> Seq(Tuple)]] BY <1>2
<1>4. \A i, j \in 1..n : pairs[i][j] = FlattenPair(vec[i], vec[j]) OBVIOUS
<1>5. FlattenWorklist(vec) = w BY <1>1, <1>4 DEF FlattenWorklist, PushedList, n
<1> HIDE DEF pairs
<1>6. Derivations(op, vec, pairs) BY <1>2, <1>3, <1>4 DEF Derivations, n
<1>7. /\ w \in Seq(Tuple) /\ Tuples(w) \subseteq Row(op) /\ ById(w)
      /\ \A t : t \in Tuples(w) <=> Adds(vec, pairs, t)
  BY <1>6, PushedFacts
<1> HIDE DEF w
<1>8. ASSUME NEW t, NEW i \in 1..n, NEW j \in 1..n, pairs[i][j] = <<t>>,
             hash(vec[i].args) # hash(vec[j].args), ~ contains(vec, t)
      PROVE  Derived(t)
  <2>1. FlattenPair(vec[i], vec[j]) = <<t>> BY <1>4, <1>8
  <2> QED BY <2>1, <1>1, <1>8
<1>9. ASSUME NEW t, NEW a \in Tuples(vec), NEW b \in Tuples(vec), FlattenPair(a, b) = <<t>>,
             hash(a.args) # hash(b.args), ~ contains(vec, t)
      PROVE  Adds(vec, pairs, t)
  <2>1. PICK i \in 1..n, j \in 1..n : vec[i] = a /\ vec[j] = b BY <1>1
  <2>2. pairs[i][j] = <<t>> BY <2>1, <1>4, <1>9
  <2> QED BY <2>1, <2>2, <1>9 DEF Adds, n
<1>10. \A t : Adds(vec, pairs, t) => Derived(t) BY <1>8 DEF Adds, n
<1>11. \A t : Derived(t) => Adds(vec, pairs, t) BY <1>9
<1> HIDE DEF Derived
<1>12. \A t : t \in Tuples(w) <=> Derived(t) BY <1>7, <1>10, <1>11
<1> QED BY <1>5, <1>7, <1>12 DEF Derived

\* The worklist of unflatten.
LEMMA UnflattenFacts ==
  ASSUME Live \subseteq Ids, NEW op \in AcOps, NEW vec \in Seq(Row(op)), Increasing(vec)
  PROVE  LET w == UnflattenWorklist(vec)
         IN  /\ w \in Seq(Tuple) /\ Tuples(w) \subseteq Row(op) /\ ById(w)
             /\ \A t : t \in Tuples(w) <=>
                  \E a, b \in Tuples(vec) : /\ UnflattenPair(a, b) = <<t>>
                                            /\ hash(a.args) # hash(b.args)
                                            /\ ~ contains(vec, t)
<1> DEFINE n == Len(vec)
           pairs == [i \in 1..n |-> [j \in 1..n |-> UnflattenPair(vec[i], vec[j])]]
           w == PushedList(vec, pairs)
           Derived(t) == \E a, b \in Tuples(vec) : /\ UnflattenPair(a, b) = <<t>>
                                                   /\ hash(a.args) # hash(b.args)
                                                   /\ ~ contains(vec, t)
<1>1. /\ n \in Nat /\ DOMAIN vec = 1..n
      /\ \A i \in 1..n : vec[i] \in Row(op) /\ vec[i] \in Tuples(vec)
      /\ \A t \in Tuples(vec) : \E i \in 1..n : vec[i] = t
  BY RowsAreTuples, VectorFacts
<1> HIDE DEF n
<1>2. \A i, j \in 1..n :
        /\ UnflattenPair(vec[i], vec[j]) \in Seq(Tuple)
        /\ \/ UnflattenPair(vec[i], vec[j]) = << >>
           \/ \E t \in Row(op) : UnflattenPair(vec[i], vec[j]) = <<t>> /\ t.id = vec[i].id
  BY <1>1, PairFacts
<1>3. pairs \in [1..n -> [1..n -> Seq(Tuple)]] BY <1>2
<1>4. \A i, j \in 1..n : pairs[i][j] = UnflattenPair(vec[i], vec[j]) OBVIOUS
<1>5. UnflattenWorklist(vec) = w BY <1>1, <1>4 DEF UnflattenWorklist, PushedList, n
<1> HIDE DEF pairs
<1>6. Derivations(op, vec, pairs) BY <1>2, <1>3, <1>4 DEF Derivations, n
<1>7. /\ w \in Seq(Tuple) /\ Tuples(w) \subseteq Row(op) /\ ById(w)
      /\ \A t : t \in Tuples(w) <=> Adds(vec, pairs, t)
  BY <1>6, PushedFacts
<1> HIDE DEF w
<1>8. ASSUME NEW t, NEW i \in 1..n, NEW j \in 1..n, pairs[i][j] = <<t>>,
             hash(vec[i].args) # hash(vec[j].args), ~ contains(vec, t)
      PROVE  Derived(t)
  <2>1. UnflattenPair(vec[i], vec[j]) = <<t>> BY <1>4, <1>8
  <2> QED BY <2>1, <1>1, <1>8
<1>9. ASSUME NEW t, NEW a \in Tuples(vec), NEW b \in Tuples(vec), UnflattenPair(a, b) = <<t>>,
             hash(a.args) # hash(b.args), ~ contains(vec, t)
      PROVE  Adds(vec, pairs, t)
  <2>1. PICK i \in 1..n, j \in 1..n : vec[i] = a /\ vec[j] = b BY <1>1
  <2>2. pairs[i][j] = <<t>> BY <2>1, <1>4, <1>9
  <2> QED BY <2>1, <2>2, <1>9 DEF Adds, n
<1>10. \A t : Adds(vec, pairs, t) => Derived(t) BY <1>8 DEF Adds, n
<1>11. \A t : Derived(t) => Adds(vec, pairs, t) BY <1>9
<1> HIDE DEF Derived
<1>12. \A t : t \in Tuples(w) <=> Derived(t) BY <1>7, <1>10, <1>11
<1> QED BY <1>5, <1>7, <1>12 DEF Derived

\* canonicalize gives a vector without equal keys that stands for the canonical
\* tuples.
LEMMA CanonicalizeFacts ==
  ASSUME UF!IsPartition, NEW op \in AcOps, NEW vec \in Seq(Row(op)), Increasing(vec)
  PROVE  LET v == canonicalize(op, vec)
         IN  /\ v \in Seq(Row(op)) /\ Increasing(v)
             /\ Tuples(v) \subseteq {CanonRow(op, r) : r \in Tuples(vec)}
             /\ \A r \in Tuples(vec) : \E u \in Tuples(v) : SameKey(u, CanonRow(op, r))
<1> DEFINE n == Len(vec)
           mapped == [i \in DOMAIN vec |-> CanonRow(op, vec[i])]
           image == {CanonRow(op, r) : r \in Tuples(vec)}
           v == canonicalize(op, vec)
<1>0. Live \subseteq Ids /\ op \in Ops BY PartitionFacts DEF Ops
<1>1. /\ n \in Nat /\ DOMAIN vec = 1..n
      /\ \A i \in 1..n : vec[i] \in Row(op) /\ vec[i] \in Tuples(vec)
      /\ \A t \in Tuples(vec) : \E i \in 1..n : vec[i] = t
  BY <1>0, RowsAreTuples, VectorFacts
<1>2. \A i \in 1..n : CanonRow(op, vec[i]) \in Row(op) BY <1>0, <1>1, CanonRowType
<1>3. mapped \in [1..n -> Row(op)] BY <1>1, <1>2
<1>4. \A i \in 1..n : mapped[i] = CanonRow(op, vec[i]) BY <1>1
<1>5. v = IF mapped = vec THEN vec ELSE deduplicate(sort(mapped)) BY DEF canonicalize
<1> HIDE DEF mapped, n, v
<1>6. mapped \in Seq(Row(op)) /\ DOMAIN mapped = 1..n BY <1>1, <1>3, VectorMade
<1>7. mapped \in Seq(Tuple) /\ image \subseteq Row(op) /\ Row(op) \subseteq Tuple
  BY <1>0, <1>1, <1>2, <1>6, RowsAreTuples
<1>8. Tuples(mapped) = image BY <1>1, <1>4, <1>6 DEF Tuples
<1> HIDE DEF image
<1>9. v \in Seq(Tuple) /\ Increasing(v) /\ Tuples(v) \subseteq image
      /\ \A t \in image : \E u \in Tuples(v) : SameKey(u, t)
  <2>1. CASE mapped = vec
    <3>1. v = vec /\ Tuples(v) = image BY <2>1, <1>5, <1>8
    <3>2. \A t \in image : SameKey(t, t) BY <1>7, KeyOrder
    <3> QED BY <2>1, <3>1, <3>2, <1>7
  <2>2. CASE mapped # vec
    <3> DEFINE s == sort(mapped)
    <3>1. s \in Seq(Tuple) /\ Ascending(s) /\ Tuples(s) = image BY <1>7, <1>8, SortFacts
    <3>2. v = deduplicate(s) BY <2>2, <1>5
    <3> HIDE DEF s
    <3> QED BY <3>1, <3>2, DeduplicateFacts
  <2> QED BY <2>1, <2>2
<1>10. v \in Seq(Row(op)) BY <1>7, <1>9, VectorOf
<1>11. \A r \in Tuples(vec) : \E u \in Tuples(v) : SameKey(u, CanonRow(op, r))
  BY <1>9 DEF image
<1> QED BY <1>9, <1>10, <1>11 DEF image, v

\* What one call of add_enode_to_memo makes of a memo m with domain D.
Emplaced(D, V, m, e, id) ==
  /\ Emplace(m, e, id) \in [D \cup {e} -> V]
  /\ \A k \in D : Emplace(m, e, id)[k] = m[k]
  /\ e \notin D => Emplace(m, e, id)[e] = id

\* add_enode_to_memo, once.
LEMMA EmplaceFacts ==
  ASSUME NEW D, NEW V, NEW m, m \in [D -> V], NEW e, NEW id \in V
  PROVE  Emplaced(D, V, m, e, id)
<1>1. CASE e \in D
  <2>1. Emplace(m, e, id) = m /\ D \cup {e} = D BY <1>1 DEF Emplace
  <2> QED BY <1>1, <2>1 DEF Emplaced
<1>2. CASE e \notin D
  <2>1. Emplace(m, e, id) = [k \in D \cup {e} |-> IF k = e THEN id ELSE m[k]]
    BY <1>2 DEF Emplace
  <2> QED BY <1>2, <2>1 DEF Emplaced
<1> QED BY <1>1, <1>2

\* A memo m that has the tuples of a worklist besides what was known: entries
\* stay, and of several tuples of one e-node the first gives the id.
Registered(op, V, known, worklist, m) ==
  LET new == {ENode(op, t.args) : t \in Tuples(worklist)}
  IN  /\ m \in [DOMAIN known \cup new -> V]
      /\ \A e \in DOMAIN known : m[e] = known[e]
      /\ \A e \in new \ DOMAIN known : \E t \in Tuples(worklist) :
           ENode(op, t.args) = e /\ m[e] = t.id
      /\ ById(worklist) =>
           \A t \in Tuples(worklist) : ENode(op, t.args) \notin DOMAIN known =>
             m[ENode(op, t.args)] <= t.id

\* The second loop of flatten and unflatten, in the memo.
LEMMA EmplaceAllFacts ==
  ASSUME NEW op, NEW V, NEW known, known \in [DOMAIN known -> V],
         NEW worklist \in Seq(Tuple), \A t \in Tuples(worklist) : t.id \in V
  PROVE  Registered(op, V, known, worklist, EmplaceAll(op, known, worklist))
<1> DEFINE n == Len(worklist)
           K == DOMAIN known
           Node(i) == ENode(op, worklist[i].args)
           E == K \cup {Node(i) : i \in 1..n}
           S == UNION {[D -> V] : D \in SUBSET E}
           Step(m, k) == Emplace(m, Node(k), worklist[k].id)
           G == [k \in 1..n |-> [m \in S |-> Step(m, k)]]
           Eq(s) == s = [i \in 0..n |-> IF i = 0 THEN known ELSE Step(s[i-1], i)]
<1>1. /\ n \in Nat /\ DOMAIN worklist = 1..n
      /\ \A i \in 1..n : worklist[i] \in Tuple /\ worklist[i].id \in V
                         /\ worklist[i] \in Tuples(worklist)
      /\ \A t \in Tuples(worklist) : \E i \in 1..n : worklist[i] = t
  BY VectorFacts
<1>2. known \in [K -> V] /\ K \in SUBSET E OBVIOUS
<1>3. \A i \in 1..n : Node(i) \in E OBVIOUS
<1>4. EmplaceAll(op, known, worklist) = (CHOOSE s : Eq(s))[n] BY DEF EmplaceAll
<1>5. \A D \in SUBSET E : \A m \in [D -> V] : m \in S OBVIOUS
<1>6. \A m \in S : \E D \in SUBSET E : m \in [D -> V] OBVIOUS
<1>7. {ENode(op, t.args) : t \in Tuples(worklist)} = {Node(i) : i \in 1..n} BY <1>1
<1>71. \A i \in 1..n : Node(i) = ENode(op, worklist[i].args) OBVIOUS
<1> HIDE DEF S, E, n, Node
<1>8. \A k \in 1..n : \A D \in SUBSET E : \A m \in [D -> V] :
        /\ Step(m, k) \in [D \cup {Node(k)} -> V]
        /\ \A e \in D : Step(m, k)[e] = m[e]
        /\ Node(k) \notin D => Step(m, k)[Node(k)] = worklist[k].id
  <2> TAKE k \in 1..n
  <2> TAKE D \in SUBSET E
  <2> TAKE m \in [D -> V]
  <2> DEFINE e == Node(k)
             id == worklist[k].id
  <2>1. id \in V /\ m \in [D -> V] BY <1>1
  <2> HIDE DEF e, id
  <2>2. Emplaced(D, V, m, e, id) BY <2>1, EmplaceFacts
  <2> QED BY <2>2 DEF e, id, Emplaced
<1>9. \A k \in 1..n : \A m \in S : Step(m, k) \in S
  <2> SUFFICES ASSUME NEW k \in 1..n, NEW m \in S PROVE Step(m, k) \in S OBVIOUS
  <2>1. PICK D \in SUBSET E : m \in [D -> V] BY <1>6
  <2>2. Step(m, k) \in [D \cup {Node(k)} -> V] BY <2>1, <1>8
  <2>3. D \cup {Node(k)} \in SUBSET E BY <2>1, <1>3
  <2> HIDE DEF Step
  <2> QED BY <2>2, <2>3, <1>5
<1>10. G \in [1..n -> [S -> S]] BY <1>9
<1>11. \A k \in 1..n : \A m \in S : G[k][m] = Step(m, k) OBVIOUS
<1>12. known \in S BY <1>2, <1>5
<1> HIDE DEF G, Step, K
<1>13. PICK g \in [0..n -> S] : Iterates(n, known, G, g)
  BY <1>1, <1>10, <1>12, LoopExists
<1>14. \A k \in 0..n : k # 0 => k \in 1..n /\ g[k-1] \in S BY <1>1
<1>15. Eq(g) BY <1>11, <1>13, <1>14 DEF Iterates
<1> DEFINE s == CHOOSE s : Eq(s)
<1>16. Eq(s) BY <1>15
<1>17. EmplaceAll(op, known, worklist) = s[n] BY <1>4
<1> HIDE DEF s
<1>18. s[0] = known /\ \A k \in 1..n : s[k] = Step(s[k-1], k)
  <2>1. n \in Nat /\ Eq(s) BY <1>1, <1>16
  <2>2. s[0] = known BY <2>1
  <2>3. \A k \in 1..n : s[k] = Step(s[k-1], k)
    <3> TAKE k \in 1..n
    <3>1. k \in 0..n /\ k # 0 BY <2>1
    <3> QED BY <2>1, <3>1
  <2> QED BY <2>2, <2>3
<1> DEFINE New(k) == {Node(i) : i \in 1..k}
           First1(k) == \A e \in New(k) \ K : \E i \in 1..k :
                          Node(i) = e /\ s[k][e] = worklist[i].id
                          /\ \A j \in 1..k : Node(j) = e => i <= j
           P == {k \in 0..n : /\ s[k] \in [K \cup New(k) -> V]
                              /\ \A e \in K : s[k][e] = known[e]
                              /\ First1(k)}
<1>19. 0 \in P
  <2>1. New(0) = {} OBVIOUS
  <2>2. First1(0) BY <2>1
  <2>3. K \cup New(0) = K BY <2>1
  <2>4. s[0] \in [K \cup New(0) -> V] BY <2>3, <1>2, <1>18
  <2>5. \A e \in K : s[0][e] = known[e] BY <1>18
  <2>6. 0 \in 0..n BY <1>1
  <2> HIDE DEF First1, New
  <2> QED BY <2>2, <2>4, <2>5, <2>6
<1>20. \A k \in 1..n : k - 1 \in P => k \in P
  <2> SUFFICES ASSUME NEW k \in 1..n, k - 1 \in P PROVE k \in P OBVIOUS
  <2> DEFINE m == s[k-1]
             D == K \cup New(k-1)
  <2>1. /\ m \in [D -> V] /\ k \in 0..n
        /\ \A e \in K : m[e] = known[e]
        /\ \A e \in New(k-1) \ K : \E i \in 1..(k-1) :
             Node(i) = e /\ m[e] = worklist[i].id
             /\ \A j \in 1..(k-1) : Node(j) = e => i <= j
    BY <1>1
  <2>2. 1..k = 1..(k-1) \cup {k} /\ \A i \in 1..(k-1) : i \in 1..n /\ i <= k BY <1>1
  <2>3. New(k) = New(k-1) \cup {Node(k)} BY <2>2
  <2>4. D \in SUBSET E BY <2>2, <1>2, <1>3
  <2>5. s[k] = Step(m, k) BY <1>18
  <2>6. /\ s[k] \in [D \cup {Node(k)} -> V]
        /\ \A e \in D : s[k][e] = m[e]
        /\ Node(k) \notin D => s[k][Node(k)] = worklist[k].id
    <3>1. m \in [D -> V] BY <2>1
    <3> HIDE DEF m, D
    <3>2. /\ Step(m, k) \in [D \cup {Node(k)} -> V]
          /\ \A e \in D : Step(m, k)[e] = m[e]
          /\ Node(k) \notin D => Step(m, k)[Node(k)] = worklist[k].id
      BY <3>1, <2>4, <1>8
    <3> QED BY <3>2, <2>5
  <2>7. s[k] \in [K \cup New(k) -> V]
    <3>1. D \cup {Node(k)} = K \cup New(k) BY <2>3
    <3> QED BY <3>1, <2>6
  <2>8. \A e \in K : s[k][e] = known[e] BY <2>1, <2>6
  <2>9. First1(k)
    <3> SUFFICES ASSUME NEW e \in New(k) \ K
                 PROVE  \E i \in 1..k : Node(i) = e /\ s[k][e] = worklist[i].id
                          /\ \A j \in 1..k : Node(j) = e => i <= j
      OBVIOUS
    <3>1. CASE e \in New(k-1)
      <4>1. PICK i \in 1..(k-1) : Node(i) = e /\ m[e] = worklist[i].id
                                  /\ \A j \in 1..(k-1) : Node(j) = e => i <= j
        BY <3>1, <2>1
      <4>2. s[k][e] = m[e] BY <3>1, <2>6
      <4>3. i \in 1..k /\ i <= k BY <2>2
      <4>4. \A j \in 1..k : Node(j) = e => i <= j BY <4>1, <4>3, <2>2
      <4> QED BY <4>1, <4>2, <4>3, <4>4
    <3>2. CASE e \notin New(k-1)
      <4>1. e = Node(k) BY <3>2, <2>3
      <4>2. e \notin D BY <3>2
      <4>3. s[k][e] = worklist[k].id BY <4>1, <4>2, <2>6
      <4>4. \A j \in 1..k : Node(j) = e => k <= j
        <5> SUFFICES ASSUME NEW j \in 1..k, Node(j) = e PROVE k <= j OBVIOUS
        <5>1. j \notin 1..(k-1) BY <3>2
        <5> QED BY <5>1, <1>1
      <4>5. k \in 1..k BY <1>1
      <4> QED BY <4>1, <4>3, <4>4, <4>5
    <3> QED BY <3>1, <3>2
  <2> HIDE DEF First1
  <2> QED BY <2>1, <2>7, <2>8, <2>9
<1> HIDE DEF P
<1>21. n \in P
  <2>1. \A k \in 0..n : k \in P BY <1>1, <1>19, <1>20, IntervalInduction
  <2> QED BY <2>1, <1>1
<1>22. /\ s[n] \in [K \cup New(n) -> V] /\ \A e \in K : s[n][e] = known[e]
       /\ First1(n)
  BY <1>21 DEF P
<1>23. \A e \in New(n) \ K : \E t \in Tuples(worklist) :
         ENode(op, t.args) = e /\ s[n][e] = t.id
  BY <1>1, <1>22, <1>71
<1>24. ASSUME ById(worklist), NEW t \in Tuples(worklist), ENode(op, t.args) \notin K
       PROVE  s[n][ENode(op, t.args)] <= t.id
  <2> DEFINE e == ENode(op, t.args)
  <2>1. PICK j \in 1..n : worklist[j] = t BY <1>1
  <2>2. Node(j) = e /\ e \in New(n) \ K BY <2>1, <1>24, <1>71
  <2> HIDE DEF e
  <2>3. PICK i \in 1..n : Node(i) = e /\ s[n][e] = worklist[i].id
                          /\ \A k \in 1..n : Node(k) = e => i <= k
    BY <2>2, <1>22
  <2>4. i <= j BY <2>2, <2>3
  <2>5. worklist[i].id \in Nat /\ worklist[j].id \in Nat
    BY <1>1, MaxIdsAssumption DEF Tuple, Ids
  <2>6. worklist[i].id <= worklist[j].id
    <3>1. i = j \/ i < j BY <2>4, <1>1
    <3> QED BY <2>5, <3>1, <1>1, <1>24 DEF ById
  <2> QED BY <2>1, <2>3, <2>6 DEF e
<1> QED BY <1>7, <1>17, <1>22, <1>23, <1>24 DEF K, Registered

-----------------------------------------------------------------------------
\* The vectors: tuples of the relation, in order, no key twice.
DataOK ==
  /\ DOMAIN data = AcOps
  /\ \A op \in AcOps : data[op] \in Seq(Row(op)) /\ Increasing(data[op])

\* The scan of congruence: the cache has an id for every multiset passed, in the
\* class of every tuple passed with that multiset.
ScanCacheOK ==
  phase = "congruence" =>
    LET vec == data[Current]
    IN  /\ next \in 1..(Len(vec) + 1)
        /\ DOMAIN cache = {vec[i].args : i \in 1..(next-1)}
        /\ \A m \in DOMAIN cache : cache[m] \in Live
        /\ \A i \in 1..(next-1) : rep[vec[i].id] = rep[cache[vec[i].args]]

\* The inductive invariant: besides, the row stores of AC operators are not used.
VecInv ==
  /\ TypeOK /\ DataOK /\ ScanCacheOK
  /\ memo = [e \in DOMAIN memo |-> memo[e]]
  /\ \A op \in AcOps : rows[op] = {}

\* A vector that stays is a vector of tuples still when there are more ids.
LEMMA DataKept ==
  ASSUME DataOK, data' = data, \A op \in Ops : Row(op) \subseteq Row(op)'
  PROVE  DataOK'
<1> SUFFICES ASSUME NEW op \in AcOps
             PROVE  data[op] \in Seq(Row(op)') /\ Increasing(data[op])
  BY DEF DataOK
<1> DEFINE R == Row(op)
           S == Row(op)'
<1>1. data[op] \in Seq(R) /\ Increasing(data[op]) BY DEF DataOK
<1>2. R \subseteq S BY DEF Ops
<1> HIDE DEF R, S
<1>3. data[op] \in Seq(S) BY <1>1, <1>2
<1> QED BY <1>1, <1>3 DEF S

\* A vector is replaced by another.
LEMMA DataPut ==
  ASSUME DataOK, \A op \in Ops : Row(op) \subseteq Row(op)',
         NEW op \in AcOps, NEW v, v \in Seq(Row(op)'), Increasing(v),
         data' = [data EXCEPT ![op] = v]
  PROVE  DataOK'
<1> SUFFICES ASSUME NEW o \in AcOps
             PROVE  data'[o] \in Seq(Row(o)') /\ Increasing(data'[o])
  BY DEF DataOK
<1>1. DOMAIN data = AcOps BY DEF DataOK
<1>2. CASE o = op
  <2>1. data'[o] = v BY <1>1, <1>2
  <2> QED BY <2>1, <1>2
<1>3. CASE o # op
  <2>1. data'[o] = data[o] BY <1>1, <1>3
  <2> DEFINE R == Row(o)
             S == Row(o)'
  <2>2. data[o] \in Seq(R) /\ Increasing(data[o]) BY DEF DataOK
  <2>3. R \subseteq S BY DEF Ops
  <2> HIDE DEF R, S
  <2>4. data[o] \in Seq(S) BY <2>2, <2>3
  <2> QED BY <2>1, <2>2, <2>4 DEF S
<1> QED BY <1>2, <1>3

\* unify keeps together what was together.
LEMMA UnionKeeps ==
  ASSUME UF!IsPartition, NEW a \in Live, NEW b \in Live, UF!Union(a, b)
  PROVE  \A x, y \in Live : rep[x] = rep[y] => rep'[x] = rep'[y]
<1> DEFINE lo == IF rep[a] < rep[b] THEN rep[a] ELSE rep[b]
           hi == IF rep[a] < rep[b] THEN rep[b] ELSE rep[a]
<1>1. Live = 1..Len(rep) BY DEF Live
<1>2. rep' = [x \in 1..Len(rep) |-> IF rep[x] = hi THEN lo ELSE rep[x]]
  BY DEF UF!Union, UF!Merged
<1> HIDE DEF lo, hi
<1> QED BY <1>1, <1>2

\* The empty e-graph.
LEMMA InitVec == VecInit => VecInv
<1> SUFFICES ASSUME VecInit PROVE VecInv OBVIOUS
<1>1. Init /\ data = [op \in AcOps |-> << >>] BY DEF VecInit
<1>2. TypeOK BY <1>1, InitType
<1>3. DataOK
  <2>1. \A op \in AcOps : << >> \in Seq(Row(op)) OBVIOUS
  <2>2. Increasing(<< >>) BY EmptyVector
  <2> QED BY <2>1, <2>2, <1>1 DEF DataOK
<1>4. ScanCacheOK /\ \A op \in AcOps : rows[op] = {}
  BY <1>1 DEF Init, ScanCacheOK, Ops
<1>5. memo = [e \in DOMAIN memo |-> memo[e]]
  <2>1. memo = << >> BY <1>1 DEF Init
  <2> QED BY <2>1
<1> QED BY <1>2, <1>3, <1>4, <1>5 DEF VecInv

\* A call of add_enode with a row operator.
LEMMA VecAddEnode ==
  ASSUME VecInv, NEW op \in RowOps, NEW args \in CallArgs(op),
         AddEnode(op, args), UNCHANGED vecvars
  PROVE  VecInv'
<1>1. op \in Ops /\ op \notin AcOps BY OpsAssumption DEF Ops
<1>2. TypeOK' BY <1>1, AddEnodeType DEF VecInv
<1>3. \A o \in Ops : Row(o) \subseteq Row(o)'
  <2>1. CASE UNCHANGED store
    <3>1. Len(rep') = Len(rep) BY <2>1 DEF store
    <3>2. Len(rep) \in Nat BY PartitionFacts DEF VecInv, TypeOK
    <3> QED BY <3>1, <3>2, StoreGrows
  <2>2. CASE UF!MakeSet
    <3>1. Len(rep) \in Nat /\ Len(rep') = Len(rep) + 1
      BY <2>2, PartitionFacts, MakeSetFacts DEF VecInv, TypeOK
    <3>2. Len(rep') \in Nat /\ Len(rep) <= Len(rep') BY <3>1
    <3> QED BY <3>1, <3>2, StoreGrows
  <2> QED BY <2>1, <2>2 DEF AddEnode
<1>4. DataOK' BY <1>3, DataKept DEF VecInv, vecvars
<1>5. ScanCacheOK' BY DEF AddEnode, ScanCacheOK
<1>6. memo' = [e \in DOMAIN memo' |-> memo'[e]] /\ \A o \in AcOps : rows'[o] = rows[o]
  <2>1. DOMAIN rows = Ops /\ memo = [e \in DOMAIN memo |-> memo[e]]
    BY DEF VecInv, TypeOK, RowsOK
  <2>2. CASE UNCHANGED store BY <2>1, <2>2 DEF store
  <2>3. CASE ~ UNCHANGED store
    <3> DEFINE e == ENode(op, CanonArgs(op, args))
               x == rows[op] \cup {[args |-> e.args, id |-> Len(rep) + 1]}
    <3>1. /\ memo' = [k \in DOMAIN memo \cup {e} |-> IF k = e THEN Len(rep) + 1 ELSE memo[k]]
          /\ rows' = [rows EXCEPT ![op] = x]
      BY <2>3 DEF AddEnode
    <3> HIDE DEF e, x
    <3>2. memo' = [k \in DOMAIN memo' |-> memo'[k]] BY <3>1
    <3>3. \A o \in AcOps : rows'[o] = rows[o] BY <3>1, <2>1, <1>1
    <3> QED BY <3>2, <3>3
  <2> QED BY <2>2, <2>3
<1> QED BY <1>2, <1>4, <1>5, <1>6 DEF VecInv

\* The vector with the tuple of a new class.
LEMMA NewTuple ==
  ASSUME UF!IsPartition, Len(rep) < MaxIds, NEW op \in AcOps, NEW vec \in Seq(Row(op)),
         Increasing(vec), NEW c \in Args(op)
  PROVE  LET t == [args |-> c, id |-> Len(rep) + 1]
         IN  /\ t \in Tuple /\ insert(vec, t) \in Seq(Tuple) /\ Increasing(insert(vec, t))
             /\ Tuples(insert(vec, t)) = Tuples(vec) \cup {t}
<1> DEFINE n == Len(rep)
           t == [args |-> c, id |-> n + 1]
<1>1. n \in Nat /\ n < MaxIds /\ Live = 1..n /\ Live \subseteq Ids
  BY PartitionFacts DEF Live
<1>2. vec \in Seq(Tuple) /\ Tuples(vec) \subseteq Row(op) BY <1>1, RowsAreTuples
<1>3. t \in Tuple
  <2>1. n + 1 \in Ids BY <1>1, MaxIdsAssumption DEF Ids
  <2>2. c \in Mset BY DEF Args
  <2> QED BY <2>1, <2>2 DEF Tuple
<1>4. \A u \in Tuples(vec) : ~ SameKey(u, t)
  <2> SUFFICES ASSUME NEW u \in Tuples(vec) PROVE u.id # t.id BY DEF SameKey
  <2>1. u.id \in Live BY <1>2 DEF Row
  <2> QED BY <2>1, <1>1
<1> HIDE DEF t
<1>5. /\ insert(vec, t) \in Seq(Tuple) /\ Increasing(insert(vec, t))
      /\ Tuples(insert(vec, t)) =
           IF contains(vec, t) THEN Tuples(vec) ELSE Tuples(vec) \cup {t}
      /\ contains(vec, t) <=> \E u \in Tuples(vec) : SameKey(u, t)
  BY <1>2, <1>3, InsertFacts
<1> QED BY <1>3, <1>4, <1>5 DEF t

\* A call of add_enode with an AC operator.
LEMMA VecAddAcEnode ==
  ASSUME VecInv, NEW op \in AcOps, NEW args \in CallArgs(op), AddAcEnode(op, args)
  PROVE  VecInv'
<1> DEFINE n == Len(rep)
           c == CanonArgs(op, args)
           e == ENode(op, c)
           t == [args |-> c, id |-> n + 1]
<1>0. /\ TypeOK /\ UF!IsPartition /\ MemoOK /\ RowsOK /\ ScanOK /\ ControlOK /\ DataOK
      /\ phase = "idle" /\ op \in Ops
      /\ memo = [k \in DOMAIN memo |-> memo[k]]
      /\ \A o \in AcOps : rows[o] = {}
      /\ UNCHANGED <<phase, pending, todo, cur, changed, did, merged, quiet, cache, next>>
  BY DEF VecInv, TypeOK, AddAcEnode, Ops
<1>1. ControlOK' /\ ScanOK' /\ ScanCacheOK'
  BY <1>0 DEF ControlOK, Current, ScanOK, ScanCacheOK
<1>2. CASE UNCHANGED <<store, data>>
  <2>1. rep' = rep /\ memo' = memo /\ rows' = rows /\ data' = data BY <1>2 DEF store
  <2>2. Live' = Live /\ \A o : Args(o)' = Args(o) /\ Row(o)' = Row(o)
    BY <2>1 DEF Live, Args, Row
  <2>3. UF!IsPartition' /\ MemoOK' /\ RowsOK'
    BY <2>1, <2>2, <1>0 DEF UF!IsPartition, UF!Live, MemoOK, RowsOK
  <2>4. DataOK' BY <2>1, <2>2, <1>0, DataKept
  <2> QED BY <2>1, <2>3, <2>4, <1>0, <1>1 DEF VecInv, TypeOK
<1>3. CASE /\ UF!MakeSet
           /\ data' = [data EXCEPT ![op] = insert(@, [args |-> e.args, id |-> n + 1])]
           /\ memo' = [k \in DOMAIN memo \cup {e} |-> IF k = e THEN n + 1 ELSE memo[k]]
           /\ UNCHANGED rows
  <2> DEFINE v == insert(data[op], t)
  <2>1. c \in Args(op) /\ e.args = c
    <3>1. args \in Args(op) BY DEF CallArgs
    <3> QED BY <3>1, <1>0, CanonArgsType DEF ENode
  <2>2. data' = [data EXCEPT ![op] = v] BY <1>3, <2>1
  <2>3. n < MaxIds BY <1>3 DEF UF!MakeSet
  <2>4. /\ UF!IsPartition' /\ MemoOK' /\ t \in Row(op)'
        /\ \A o \in Ops : Row(o) \subseteq Row(o)'
    <3> DEFINE E == e
    <3>1. E = ENode(op, c) OBVIOUS
    <3>2. memo' = [k \in DOMAIN memo \cup {E} |-> IF k = E THEN Len(rep) + 1 ELSE memo[k]]
      BY <1>3
    <3> HIDE DEF E, c
    <3> QED BY <3>1, <3>2, <2>1, <1>0, <1>3, NewClassType
  <2>5. data[op] \in Seq(Row(op)) /\ Increasing(data[op]) BY <1>0 DEF DataOK
  <2>6. v \in Seq(Tuple) /\ Increasing(v) /\ Tuples(v) = Tuples(data[op]) \cup {t}
    <3> HIDE DEF c
    <3> QED BY <2>1, <2>3, <2>5, <1>0, NewTuple
  <2> HIDE DEF v, t
  <2>7. Tuples(v) \subseteq Row(op)'
    <3>1. Tuples(data[op]) \subseteq Row(op) BY <2>5, <1>0, PartitionFacts, RowsAreTuples
    <3> QED BY <3>1, <2>4, <2>6, <1>0
  <2>8. v \in Seq(Row(op)')
    <3> DEFINE R == Row(op)'
    <3>1. Tuples(v) \subseteq R BY <2>7
    <3> HIDE DEF R
    <3>2. v \in Seq(R) BY <3>1, <2>6, VectorOf
    <3> QED BY <3>2 DEF R
  <2>9. DataOK' BY <2>2, <2>4, <2>6, <2>8, <1>0, DataPut
  <2>10. RowsOK'
    <3>1. \A o \in Ops : rows'[o] \subseteq Row(o)' BY <2>4, <1>0, <1>3 DEF RowsOK
    <3> QED BY <3>1, <1>0, <1>3 DEF RowsOK
  <2>11. memo' = [k \in DOMAIN memo' |-> memo'[k]]
    <3> HIDE DEF e
    <3> QED BY <1>3
  <2> QED BY <2>4, <2>9, <2>10, <2>11, <1>0, <1>1, <1>3 DEF VecInv, TypeOK
<1> QED BY <1>2, <1>3 DEF AddAcEnode, ENode

\* Calls of unify and rebuild.
LEMMA VecCalls ==
  ASSUME VecInv, \/ \E a, b \in Live : Unify(a, b) /\ UNCHANGED vecvars
                 \/ VecRebuild
  PROVE  VecInv'
<1>0. /\ TypeOK /\ UF!IsPartition /\ DataOK /\ memo = [e \in DOMAIN memo |-> memo[e]]
      /\ \A o \in AcOps : rows[o] = {}
  BY DEF VecInv, TypeOK
<1>1. ASSUME NEW a \in Live, NEW b \in Live, Unify(a, b), UNCHANGED vecvars
      PROVE  VecInv'
  <2>1. TypeOK' BY <1>0, <1>1, UnifyType
  <2>2. Len(rep') = Len(rep) /\ Len(rep) \in Nat
    BY <1>0, <1>1, UnionFacts, PartitionFacts DEF Unify
  <2>3. DataOK' BY <1>0, <1>1, <2>2, StoreGrows, DataKept DEF vecvars
  <2>4. ScanCacheOK' BY <1>1 DEF Unify, ScanCacheOK
  <2> QED BY <2>1, <2>3, <2>4, <1>0, <1>1 DEF VecInv, Unify
<1>2. ASSUME VecRebuild PROVE VecInv'
  <2>1. TypeOK' BY <1>0, <1>2, RebuildType DEF VecRebuild
  <2>2. rep' = rep /\ rows' = rows /\ phase' = "relation" /\ data' = data
    BY <1>2 DEF VecRebuild, Rebuild, vecvars
  <2>3. \A op \in Ops : Row(op)' = Row(op) BY <2>2 DEF Row, Args, Live
  <2>4. DataOK' BY <1>0, <2>2, <2>3, DataKept
  <2>5. ScanCacheOK' BY <2>2 DEF ScanCacheOK
  <2>6. memo' = [e \in DOMAIN memo' |-> memo'[e]]
    <3>1. PICK winners \in SUBSET DOMAIN memo :
            memo' = [k \in {CanonENode(e) : e \in winners} |->
                       rep[memo[CHOOSE e \in winners : CanonENode(e) = k]]]
      BY <1>2 DEF VecRebuild, Rebuild
    <3> DEFINE K == {CanonENode(e) : e \in winners}
               V(k) == rep[memo[CHOOSE e \in winners : CanonENode(e) = k]]
    <3>2. memo' = [k \in K |-> V(k)] BY <3>1
    <3> HIDE DEF K, V
    <3> QED BY <3>2
  <2> QED BY <2>1, <2>2, <2>4, <2>5, <2>6, <1>0 DEF VecInv
<1> QED BY <1>1, <1>2

\* RowStore::rebuild and the end of rebuild do not touch the vectors.
LEMMA VecRowStep ==
  ASSUME VecInv, RowStep \/ RebuildReturn, UNCHANGED vecvars
  PROVE  VecInv'
<1>0. /\ TypeOK /\ UF!IsPartition /\ RowsOK /\ ScanOK /\ ControlOK /\ DataOK
      /\ memo = [e \in DOMAIN memo |-> memo[e]]
      /\ \A o \in AcOps : rows[o] = {}
      /\ data' = data
  BY DEF VecInv, TypeOK, vecvars
<1>1. CASE RowCanonicalize
  <2>1. TypeOK' BY <1>0, <1>1, RowCanonicalizeType
  <2>2. rep' = rep /\ memo' = memo /\ Current \in RowOps /\ phase' # "congruence"
    BY <1>0, <1>1 DEF RowCanonicalize
  <2>3. \A op \in Ops : Row(op)' = Row(op) BY <2>2 DEF Row, Args, Live
  <2>4. DataOK' BY <1>0, <2>3, DataKept
  <2>5. \A o \in AcOps : rows'[o] = rows[o]
    <3>1. PICK x : rows' = [rows EXCEPT ![Current] = x] BY <1>1 DEF RowCanonicalize
    <3> QED BY <3>1, <2>2, <1>0, OpsAssumption DEF RowsOK, Ops
  <2> QED BY <2>1, <2>2, <2>4, <2>5, <1>0 DEF VecInv, ScanCacheOK
<1>2. CASE RowScan
  <2>1. TypeOK' BY <1>0, <1>2, RowScanType
  <2>2. memo' = memo /\ phase' = "scan" /\ Current \in RowOps
    BY <1>0, <1>2 DEF RowScan, ControlOK
  <2>3. Len(rep') = Len(rep) /\ Len(rep) \in Nat
    <3>1. CASE rep' = rep BY <3>1, <1>0, PartitionFacts
    <3>2. CASE \E c \in cur, t \in First(todo) : UF!Union(c.id, t[2].id)
      <4>1. PICK c \in cur, t \in First(todo) : UF!Union(c.id, t[2].id) BY <3>2
      <4>2. phase = "scan" BY <1>2 DEF RowScan
      <4>3. c \in Row(Current) /\ t[2] \in Row(Current)
        BY <4>2, <1>0 DEF ScanOK, First
      <4>4. c.id \in Live /\ t[2].id \in Live BY <4>3 DEF Row
      <4> QED BY <4>1, <4>4, <1>0, UnionFacts, PartitionFacts
    <3> QED BY <3>1, <3>2, <1>2 DEF RowScan
  <2>4. DataOK' BY <1>0, <2>3, StoreGrows, DataKept
  <2>5. \A o \in AcOps : rows'[o] = rows[o]
    <3>1. PICK x : rows' = [rows EXCEPT ![Current] = x] BY <1>2 DEF RowScan
    <3> QED BY <3>1, <2>2, <1>0, OpsAssumption DEF RowsOK, Ops
  <2> QED BY <2>1, <2>2, <2>4, <2>5, <1>0 DEF VecInv, ScanCacheOK
<1>3. CASE RowFinish
  <2>1. TypeOK' BY <1>0, <1>3, RowFinishType
  <2>2. rep' = rep /\ memo' = memo /\ Current \in RowOps /\ phase' = "relation"
        /\ rows' = [rows EXCEPT ![Current] = @ \cup cur]
    BY <1>0, <1>3 DEF RowFinish, ControlOK
  <2>3. \A op \in Ops : Row(op)' = Row(op) BY <2>2 DEF Row, Args, Live
  <2>4. DataOK' BY <1>0, <2>3, DataKept
  <2>5. \A o \in AcOps : rows'[o] = rows[o]
    BY <2>2, <1>0, OpsAssumption DEF RowsOK, Ops
  <2> QED BY <2>1, <2>2, <2>4, <2>5, <1>0 DEF VecInv, ScanCacheOK
<1>4. CASE RebuildReturn
  <2>1. TypeOK' BY <1>0, <1>4, RebuildReturnType
  <2>2. rep' = rep /\ memo' = memo /\ rows' = rows /\ phase' = "idle"
    BY <1>4 DEF RebuildReturn
  <2>3. \A op \in Ops : Row(op)' = Row(op) BY <2>2 DEF Row, Args, Live
  <2>4. DataOK' BY <1>0, <2>3, DataKept
  <2> QED BY <2>1, <2>2, <2>4, <1>0 DEF VecInv, ScanCacheOK
<1> QED BY <1>1, <1>2, <1>3, <1>4 DEF RowStep

\* canonicalize.
LEMMA VecCanonicalizeStep ==
  ASSUME VecInv, VecCanonicalize
  PROVE  VecInv'
<1> DEFINE op == Current
           v == canonicalize(op, data[op])
<1>0. /\ TypeOK /\ UF!IsPartition /\ MemoOK /\ RowsOK /\ ScanOK /\ ControlOK /\ DataOK
      /\ memo = [e \in DOMAIN memo |-> memo[e]]
      /\ \A o \in AcOps : rows[o] = {}
      /\ pending # << >> /\ op \in AcOps /\ phase # "scan"
      /\ data' = [data EXCEPT ![op] = v]
      /\ phase' \in {"flatten", "congruence"} /\ changed' = FALSE
      /\ cache' = << >> /\ next' = 1
      /\ UNCHANGED <<rep, memo, rows, pending, todo, cur, did, merged, quiet>>
  BY DEF VecInv, TypeOK, VecCanonicalize, ControlOK
<1>1. Live' = Live /\ op' = op /\ \A o : Args(o)' = Args(o) /\ Row(o)' = Row(o)
  BY <1>0 DEF Live, Args, Row, Current
<1>2. UF!IsPartition' /\ MemoOK' /\ RowsOK'
  BY <1>0, <1>1 DEF UF!IsPartition, UF!Live, MemoOK, RowsOK
<1>3. ScanOK' /\ ControlOK' BY <1>0, <1>1 DEF ScanOK, ControlOK
<1>4. data[op] \in Seq(Row(op)) /\ Increasing(data[op]) BY <1>0 DEF DataOK
<1> HIDE DEF op
<1>5. v \in Seq(Row(op)) /\ Increasing(v) BY <1>0, <1>4, CanonicalizeFacts
<1> HIDE DEF v
<1>6. DataOK' BY <1>0, <1>1, <1>5, DataPut
<1>7. ScanCacheOK'
  <2>1. data'[op] = v BY <1>0 DEF DataOK
  <2>2. Len(v) \in Nat
    <3> DEFINE R == Row(op)
    <3>1. v \in Seq(R) BY <1>5
    <3> HIDE DEF R
    <3> QED BY <3>1
  <2>3. 1..(next' - 1) = {} /\ next' \in 1..(Len(v) + 1) BY <2>2, <1>0
  <2>4. DOMAIN cache' = {} BY <1>0
  <2> QED BY <2>1, <2>3, <2>4, <1>1 DEF ScanCacheOK, op
<1> QED BY <1>0, <1>2, <1>3, <1>6, <1>7 DEF VecInv, TypeOK

\* A tuple of the scan.
LEMMA VecCongruenceStep ==
  ASSUME VecInv, VecCongruence
  PROVE  VecInv'
<1> DEFINE op == Current
           vec == data[op]
           t == vec[next]
           found == t.args \in DOMAIN cache
           unites == found /\ rep[t.id] # rep[cache[t.args]]
           entry == IF unites THEN rep'[t.id] ELSE IF found THEN cache[t.args] ELSE t.id
<1>0. /\ TypeOK /\ UF!IsPartition /\ MemoOK /\ RowsOK /\ ScanOK /\ ControlOK /\ DataOK
      /\ memo = [e \in DOMAIN memo |-> memo[e]]
      /\ \A o \in AcOps : rows[o] = {}
      /\ phase = "congruence" /\ next <= Len(vec) /\ op \in AcOps
      /\ IF unites
           THEN UF!Union(t.id, cache[t.args]) /\ changed' = TRUE /\ merged' = TRUE
           ELSE UNCHANGED <<rep, changed, merged>>
      /\ cache' = [m \in DOMAIN cache \cup {t.args} |->
                     IF m = t.args THEN entry ELSE cache[m]]
      /\ next' = next + 1
      /\ UNCHANGED <<memo, rows, phase, pending, todo, cur, did, quiet, data>>
  BY DEF VecInv, TypeOK, VecCongruence, ControlOK
<1>1. /\ next \in 1..(Len(vec) + 1)
      /\ DOMAIN cache = {vec[i].args : i \in 1..(next-1)}
      /\ \A m \in DOMAIN cache : cache[m] \in Live
      /\ \A i \in 1..(next-1) : rep[vec[i].id] = rep[cache[vec[i].args]]
  BY <1>0 DEF VecInv, ScanCacheOK
<1>2. /\ Len(vec) \in Nat /\ \A i \in 1..Len(vec) : vec[i].id \in Live
      /\ 1..(next-1) \subseteq 1..Len(vec) /\ next \in 1..Len(vec) /\ t.id \in Live
  <2>1. vec \in Seq(Row(op)) BY <1>0 DEF DataOK
  <2> DEFINE R == Row(op)
             w == vec
  <2>2. w \in Seq(R) BY <2>1
  <2> HIDE DEF R, w
  <2>3. Len(w) \in Nat /\ \A i \in 1..Len(w) : w[i] \in R BY <2>2
  <2>4. Len(vec) \in Nat /\ \A i \in 1..Len(vec) : vec[i] \in Row(op) BY <2>3 DEF w, R
  <2>5. \A i \in 1..Len(vec) : vec[i].id \in Live BY <2>4 DEF Row
  <2> HIDE DEF vec
  <2> QED BY <2>4, <2>5, <1>0, <1>1
<1> DEFINE root == cache[t.args]
<1>3. found => root \in Live BY <1>1
<1>4. vec' = vec /\ op' = op BY <1>0 DEF Current
<1>5. IF unites THEN UF!Union(t.id, root) ELSE rep' = rep BY <1>0
<1>6. /\ UF!IsPartition' /\ Len(rep') = Len(rep)
      /\ \A x, y \in Live : rep[x] = rep[y] => rep'[x] = rep'[y]
      /\ found => rep'[t.id] = rep'[root]
  <2> HIDE DEF t, root
  <2>1. CASE unites
    <3>1. UF!Union(t.id, root) /\ root \in Live BY <2>1, <1>3, <1>5
    <3> HIDE DEF found
    <3> QED BY <3>1, <1>0, <1>2, UnionFacts, UnionKeeps
  <2>2. CASE ~ unites
    <3>1. rep' = rep BY <2>2, <1>5
    <3>2. found => rep[t.id] = rep[root] BY <2>2 DEF root
    <3>3. UF!IsPartition' BY <3>1, <1>0 DEF UF!IsPartition, UF!Live
    <3> QED BY <3>1, <3>2, <3>3
  <2> QED BY <2>1, <2>2
<1>7. MemoOK' /\ RowsOK' /\ Live' = Live /\ \A o \in Ops : Row(o)' = Row(o)
  BY <1>0, <1>6, StoreKept
<1>8. ScanOK' BY <1>0 DEF ScanOK
<1>9. ControlOK' BY <1>0, <1>4 DEF ControlOK
<1>10. DataOK' BY <1>0, <1>7, DataKept
<1>11. entry \in Live /\ rep'[entry] = rep'[t.id]
  <2>1. \A x \in Live : rep'[x] \in Live /\ rep'[rep'[x]] = rep'[x]
    <3> SUFFICES ASSUME NEW x \in Live
                 PROVE  rep'[x] \in Live /\ rep'[rep'[x]] = rep'[x]
      OBVIOUS
    <3>1. rep'[x] <= x /\ rep'[rep'[x]] = rep'[x]
      BY <1>6, <1>7 DEF UF!IsPartition, UF!Live, Live
    <3> DEFINE n == Len(rep')
    <3>2. n \in Nat /\ rep' \in [1..n -> Ids] /\ Live = 1..n
      <4>1. rep' \in Seq(Ids) BY <1>6 DEF UF!IsPartition, UF!Ids, Ids
      <4>2. n \in Nat /\ rep' \in [1..n -> Ids] BY <4>1
      <4> QED BY <4>2, <1>7 DEF Live
    <3> HIDE DEF n
    <3>3. rep'[x] \in Ids BY <3>2
    <3>4. rep'[x] \in 1..n BY <3>1, <3>2, <3>3, MaxIdsAssumption DEF Ids
    <3> QED BY <3>1, <3>2, <3>4
  <2> HIDE DEF t
  <2>2. CASE unites BY <2>1, <2>2, <1>2
  <2>3. CASE ~ unites /\ found BY <2>3, <1>3, <1>6
  <2>4. CASE ~ found BY <2>4, <1>2
  <2> QED BY <2>2, <2>3, <2>4
<1> HIDE DEF entry, found, root
<1>12. ScanCacheOK'
  <2>1. next' \in 1..(Len(vec) + 1) /\ next' - 1 = next
        /\ 1..next = 1..(next-1) \cup {next}
    BY <1>0, <1>2
  <2>2. DOMAIN cache' = {vec[i].args : i \in 1..next}
    <3>1. DOMAIN cache' = DOMAIN cache \cup {t.args} BY <1>0
    <3> QED BY <3>1, <1>1, <2>1
  <2>3. \A m \in DOMAIN cache' : cache'[m] \in Live
    <3> HIDE DEF t
    <3> QED BY <1>0, <1>1, <1>11
  <2>4. \A i \in 1..next : rep'[vec[i].id] = rep'[cache'[vec[i].args]]
    <3> SUFFICES ASSUME NEW i \in 1..next
                 PROVE  rep'[vec[i].id] = rep'[cache'[vec[i].args]]
      OBVIOUS
    <3>1. CASE i = next
      <4>1. cache'[t.args] = entry BY <1>0
      <4> QED BY <3>1, <4>1, <1>11
    <3>2. CASE i # next
      <4>1. i \in 1..(next-1) /\ i \in 1..Len(vec) BY <3>2, <2>1, <1>2
      <4>2. vec[i].args \in DOMAIN cache BY <4>1, <1>1
      <4>3. rep[vec[i].id] = rep[cache[vec[i].args]] /\ cache[vec[i].args] \in Live
            /\ vec[i].id \in Live
        BY <4>1, <4>2, <1>1, <1>2
      <4>4. rep'[vec[i].id] = rep'[cache[vec[i].args]] BY <4>3, <1>6
      <4>5. CASE vec[i].args = t.args
        <5>1. cache'[vec[i].args] = entry BY <4>5, <1>0
        <5>2. found /\ root = cache[vec[i].args] BY <4>2, <4>5 DEF found, root
        <5> QED BY <4>4, <5>1, <5>2, <1>6, <1>11
      <4>6. CASE vec[i].args # t.args
        <5>1. cache'[vec[i].args] = cache[vec[i].args] BY <4>2, <4>6, <1>0
        <5> QED BY <4>4, <5>1
      <4> QED BY <4>5, <4>6
    <3> QED BY <3>1, <3>2
  <2>5. DOMAIN cache' = {vec[i].args : i \in 1..(next'-1)} BY <2>1, <2>2
  <2>6. \A i \in 1..(next'-1) : rep'[vec[i].id] = rep'[cache'[vec[i].args]]
    BY <2>1, <2>4
  <2>7. data'[Current'] = vec BY <1>4
  <2>8. Live' = Live BY <1>7
  <2> HIDE DEF vec
  <2> QED BY <2>1, <2>3, <2>5, <2>6, <2>7, <2>8 DEF ScanCacheOK
<1> QED BY <1>0, <1>6, <1>7, <1>8, <1>9, <1>10, <1>12 DEF VecInv, TypeOK

\* The end of a pass of congruence.
LEMMA VecCongruentStep ==
  ASSUME VecInv, VecCongruent
  PROVE  VecInv'
<1>0. /\ TypeOK /\ UF!IsPartition /\ MemoOK /\ RowsOK /\ ScanOK /\ ControlOK /\ DataOK
      /\ memo = [e \in DOMAIN memo |-> memo[e]]
      /\ \A o \in AcOps : rows[o] = {}
      /\ phase = "congruence" /\ phase' \in {"again", "flatten"} /\ data' = data
      /\ UNCHANGED <<rep, memo, rows, pending, todo, cur, changed, did, merged, quiet>>
  BY DEF VecInv, TypeOK, VecCongruent, vecvars
<1>1. Live' = Live /\ \A o : Args(o)' = Args(o) /\ Row(o)' = Row(o)
  BY <1>0 DEF Live, Args, Row
<1>2. UF!IsPartition' /\ MemoOK' /\ RowsOK'
  BY <1>0, <1>1 DEF UF!IsPartition, UF!Live, MemoOK, RowsOK
<1>3. ScanOK' /\ ControlOK' BY <1>0 DEF ScanOK, ControlOK, Current
<1>4. DataOK' BY <1>0, <1>1, DataKept
<1>5. ScanCacheOK' BY <1>0 DEF ScanCacheOK
<1> QED BY <1>0, <1>2, <1>3, <1>4, <1>5 DEF VecInv, TypeOK

\* The second loop of flatten and unflatten keeps the memo and the vectors typed.
LEMMA ApplyType ==
  ASSUME VecInv, NEW op \in AcOps, NEW worklist \in Seq(Tuple),
         Tuples(worklist) \subseteq Row(op),
         ApplyWorklist(op, worklist), UNCHANGED <<rep, rows>>
  PROVE  /\ UF!IsPartition' /\ MemoOK' /\ RowsOK' /\ DataOK'
         /\ memo' = [e \in DOMAIN memo' |-> memo'[e]]
<1>0. /\ UF!IsPartition /\ MemoOK /\ RowsOK /\ DataOK
      /\ memo = [e \in DOMAIN memo |-> memo[e]]
      /\ memo' = EmplaceAll(op, memo, worklist)
      /\ data' = [data EXCEPT ![op] = InsertTuples(data[op], worklist)]
      /\ rep' = rep /\ rows' = rows /\ op \in Ops
  BY DEF VecInv, TypeOK, ApplyWorklist, Ops
<1>1. Live' = Live /\ \A o : Args(o)' = Args(o) /\ Row(o)' = Row(o)
  BY <1>0 DEF Live, Args, Row
<1>2. UF!IsPartition' /\ RowsOK' BY <1>0, <1>1 DEF UF!IsPartition, UF!Live, RowsOK
<1>3. data[op] \in Seq(Row(op)) /\ Increasing(data[op]) BY <1>0 DEF DataOK
<1>4. data[op] \in Seq(Tuple) /\ Tuples(data[op]) \subseteq Row(op)
  BY <1>0, <1>3, PartitionFacts, RowsAreTuples
<1> DEFINE v == InsertTuples(data[op], worklist)
<1>5. /\ v \in Seq(Tuple) /\ Increasing(v)
      /\ Tuples(v) \subseteq Tuples(data[op]) \cup Tuples(worklist)
  BY <1>3, <1>4, InsertTuplesFacts
<1>6. data' = [data EXCEPT ![op] = v] BY <1>0
<1> HIDE DEF v
<1>7. v \in Seq(Row(op)) BY <1>4, <1>5, VectorOf
<1>8. DataOK' BY <1>0, <1>1, <1>5, <1>6, <1>7, DataPut
<1>9. memo \in [DOMAIN memo -> Live] BY <1>0 DEF MemoOK
<1>10. \A t \in Tuples(worklist) : t.id \in Live /\ t.args \in Args(op) BY DEF Row
<1> DEFINE m == EmplaceAll(op, memo, worklist)
           new == {ENode(op, t.args) : t \in Tuples(worklist)}
<1>11. /\ m \in [DOMAIN memo \cup new -> Live]
       /\ \A e \in DOMAIN memo : m[e] = memo[e]
  <2> DEFINE V == Live
  <2>1. memo \in [DOMAIN memo -> V] /\ \A t \in Tuples(worklist) : t.id \in V
    BY <1>9, <1>10
  <2> HIDE DEF V
  <2>2. Registered(op, V, memo, worklist, m) BY <2>1, EmplaceAllFacts
  <2> QED BY <2>2 DEF V, Registered
<1>12. memo' = m BY <1>0
<1> HIDE DEF m
<1>13. MemoOK'
  <2> SUFFICES ASSUME NEW e \in DOMAIN m
               PROVE  /\ e.op \in Ops /\ e.args \in Args(e.op)
                      /\ e = ENode(e.op, e.args) /\ m[e] \in Live
    BY <1>1, <1>12 DEF MemoOK
  <2>1. m[e] \in Live BY <1>11
  <2>2. CASE e \in DOMAIN memo BY <2>1, <2>2, <1>0 DEF MemoOK
  <2>3. CASE e \notin DOMAIN memo
    <3>1. PICK t \in Tuples(worklist) : e = ENode(op, t.args) BY <2>3, <1>11
    <3>2. e.op = op /\ e.args = t.args BY <3>1 DEF ENode
    <3> QED BY <2>1, <3>1, <3>2, <1>0, <1>10
  <2> QED BY <2>2, <2>3
<1>14. m = [e \in DOMAIN m |-> m[e]] BY <1>11
<1> QED BY <1>2, <1>8, <1>12, <1>13, <1>14

\* flatten and unflatten.
LEMMA VecDeriveStep ==
  ASSUME VecInv, VecFlatten \/ VecUnflatten
  PROVE  VecInv'
<1> DEFINE op == Current
<1>0. /\ UF!IsPartition /\ ScanOK /\ ControlOK /\ DataOK
      /\ \A o \in AcOps : rows[o] = {}
      /\ phase \in {"flatten", "unflatten"}
      /\ UNCHANGED <<rep, rows, todo, cur, merged, quiet>>
      /\ \/ phase' = "unflatten" /\ UNCHANGED <<pending, changed, did>>
         \/ /\ phase' = "relation" /\ pending' = Tail(pending)
            /\ changed' = FALSE /\ did' = TRUE
      /\ \/ ApplyWorklist(op, FlattenWorklist(data[op]))
         \/ ApplyWorklist(op, UnflattenWorklist(data[op]))
  BY DEF VecInv, TypeOK, VecFlatten, VecUnflatten
<1>1. pending # << >> /\ op \in AcOps /\ op \in Ops BY <1>0 DEF ControlOK, Ops
<1>2. data[op] \in Seq(Row(op)) /\ Increasing(data[op]) /\ Live \subseteq Ids
  BY <1>0, <1>1, PartitionFacts DEF DataOK
<1>3. /\ UF!IsPartition' /\ MemoOK' /\ RowsOK' /\ DataOK'
      /\ memo' = [e \in DOMAIN memo' |-> memo'[e]]
  <2>1. PICK w : /\ w \in Seq(Tuple) /\ Tuples(w) \subseteq Row(op)
                 /\ ApplyWorklist(op, w)
    <3>1. CASE ApplyWorklist(op, FlattenWorklist(data[op]))
      BY <3>1, <1>1, <1>2, FlattenFacts
    <3>2. CASE ApplyWorklist(op, UnflattenWorklist(data[op]))
      BY <3>2, <1>1, <1>2, UnflattenFacts
    <3> QED BY <3>1, <3>2, <1>0
  <2> HIDE DEF op
  <2> QED BY <2>1, <1>0, <1>1, ApplyType
<1>4. ScanOK' BY <1>0 DEF ScanOK
<1>5. Tail(pending) \in Seq(Ops) BY <1>0, <1>1, PendingTail
<1>6. ControlOK' BY <1>0, <1>1, <1>5 DEF ControlOK, Current
<1>7. ScanCacheOK' BY <1>0 DEF ScanCacheOK
<1> QED BY <1>0, <1>3, <1>4, <1>6, <1>7 DEF VecInv, TypeOK

\* Nothing happens.
LEMMA VecStutter ==
  ASSUME VecInv, UNCHANGED allvars
  PROVE  VecInv'
<1>1. UNCHANGED vars /\ data' = data /\ cache' = cache /\ next' = next
  BY DEF allvars, vars
<1>2. TypeOK' BY <1>1, RebuildReturnType DEF VecInv
<1>3. Live' = Live /\ \A o : Args(o)' = Args(o) /\ Row(o)' = Row(o)
  BY <1>1 DEF Live, Args, Row, vars
<1>4. DataOK' BY <1>1, <1>3, DataKept DEF VecInv
<1>5. ScanCacheOK'
  <2>1. rep' = rep /\ phase' = phase /\ pending' = pending BY <1>1 DEF vars
  <2>2. Current' = Current /\ data[Current]' = data[Current] BY <1>1, <2>1 DEF Current
  <2>3. ScanCacheOK BY DEF VecInv
  <2> QED BY <1>1, <1>3, <2>1, <2>2, <2>3 DEF ScanCacheOK
<1> QED BY <1>1, <1>2, <1>4, <1>5 DEF VecInv, vars

\* Every step keeps the invariant.
LEMMA VecNextInv == VecInv /\ [VecNext]_allvars => VecInv'
<1> SUFFICES ASSUME VecInv, [VecNext]_allvars PROVE VecInv' OBVIOUS
<1>1. ASSUME NEW op \in RowOps, NEW args \in CallArgs(op), AddEnode(op, args),
             UNCHANGED vecvars
      PROVE  VecInv'
  BY <1>1, VecAddEnode
<1>2. ASSUME NEW op \in AcOps, NEW args \in CallArgs(op), AddAcEnode(op, args)
      PROVE  VecInv'
  BY <1>2, VecAddAcEnode
<1>3. CASE (\E a, b \in Live : Unify(a, b) /\ UNCHANGED vecvars) \/ VecRebuild
  BY <1>3, VecCalls
<1>4. CASE VecCanonicalize BY <1>4, VecCanonicalizeStep
<1>5. CASE VecCongruence BY <1>5, VecCongruenceStep
<1>6. CASE VecCongruent BY <1>6, VecCongruentStep
<1>7. CASE VecFlatten \/ VecUnflatten BY <1>7, VecDeriveStep
<1>8. CASE (RowStep \/ RebuildReturn) /\ UNCHANGED vecvars BY <1>8, VecRowStep
<1>9. CASE UNCHANGED allvars BY <1>9, VecStutter
<1> QED BY <1>1, <1>2, <1>3, <1>4, <1>5, <1>6, <1>7, <1>8, <1>9 DEF VecNext, VecStep

\* What the invariant says in every state.
LEMMA VecInvariant == VecSpec => []VecInv
<1> QED BY InitVec, VecNextInv, PTL DEF VecSpec

\* The vectors that are searched by bisection are sorted without equal keys at
\* every moment, in the middle of rebuild too, also when fingerprints collide.
THEOREM SortedAlways == VecSpec => []VectorSorted
<1>1. VecInv => VectorSorted BY DEF VecInv, DataOK, VectorSorted, Increasing
<1> QED BY <1>1, VecInvariant, PTL
-----------------------------------------------------------------------------
\* What module EGraph says of the set of tuples and of the rows is the same
\* wherever it does not mention them.
LEMMA SetsSame ==
  /\ Sets!Ops = Ops /\ Sets!Live = Live /\ Sets!Ids = Ids /\ Sets!Mset = Mset
  /\ Sets!Current = Current
  /\ Sets!UF!MakeSet <=> UF!MakeSet
  /\ \A a, b : Sets!UF!Union(a, b) <=> UF!Union(a, b)
BY DEF Sets!Ops, Ops, Sets!Live, Live, Sets!Ids, Ids, Sets!Mset, Mset, Sets!Current,
       Current, Sets!UF!MakeSet, UF!MakeSet, Sets!UF!Union, UF!Union, Sets!UF!Merged,
       UF!Merged

\* So are the arguments, e-nodes and canonical forms.
LEMMA SetsOperators ==
  /\ \A op : Sets!Args(op) = Args(op) /\ Sets!Row(op) = Row(op)
             /\ Sets!CallArgs(op) = CallArgs(op)
  /\ \A op, args : /\ Sets!ENode(op, args) = ENode(op, args)
                   /\ Sets!CanonArgs(op, args) = CanonArgs(op, args)
                   /\ Sets!Lookup(op, args) = Lookup(op, args)
  /\ \A op, r : Sets!CanonRow(op, r) = CanonRow(op, r)
  /\ \A e : Sets!CanonENode(e) = CanonENode(e)
<1>1. \A op : Sets!Args(op) = Args(op)
  BY SetsSame DEF Sets!Args, Args
<1>2. \A op, args : /\ Sets!ENode(op, args) = ENode(op, args)
                    /\ Sets!CanonArgs(op, args) = CanonArgs(op, args)
  BY DEF Sets!ENode, ENode, Sets!CanonArgs, CanonArgs, Sets!MapMset, MapMset,
         Sets!EmptyMset, EmptyMset
<1>3. \A op : Sets!Row(op) = Row(op) /\ Sets!CallArgs(op) = CallArgs(op)
  BY <1>1, SetsSame DEF Sets!Row, Row, Sets!CallArgs, CallArgs
<1>4. \A op, args : Sets!Lookup(op, args) = Lookup(op, args)
  BY <1>2 DEF Sets!Lookup, Lookup
<1>5. \A op, r : Sets!CanonRow(op, r) = CanonRow(op, r)
  BY <1>2 DEF Sets!CanonRow, CanonRow
<1>6. \A e : Sets!CanonENode(e) = CanonENode(e)
  BY <1>2 DEF Sets!CanonENode, CanonENode
<1> QED BY <1>1, <1>2, <1>3, <1>4, <1>5, <1>6

\* Where the tuples of an operator are.
LEMMA StoredFacts ==
  /\ DOMAIN Stored = Ops /\ Stored = [op \in Ops |-> Stored[op]]
  /\ \A op \in AcOps : Stored[op] = Tuples(data[op])
  /\ \A op \in RowOps : Stored[op] = rows[op]
BY OpsAssumption DEF Stored, Ops

\* And where they are after a step.
LEMMA StoredNext ==
  /\ DOMAIN Stored' = Ops /\ Stored' = [op \in Ops |-> Stored'[op]]
  /\ \A op \in AcOps : Stored'[op] = Tuples(data'[op])
  /\ \A op \in RowOps : Stored'[op] = rows'[op]
BY OpsAssumption DEF Stored, Ops, Tuples

\* A step on a row store changes one entry.
LEMMA StoredRow ==
  ASSUME DOMAIN rows = Ops, data' = data, NEW op \in RowOps, NEW S,
         rows' = [rows EXCEPT ![op] = S]
  PROVE  Stored' = [Stored EXCEPT ![op] = S]
<1>1. \A o \in Ops : Stored'[o] = IF o = op THEN S ELSE Stored[o]
  BY StoredFacts, StoredNext, OpsAssumption DEF Ops
<1> QED BY <1>1, StoredFacts, StoredNext

\* So does a step on a vector.
LEMMA StoredVector ==
  ASSUME DOMAIN data = AcOps, rows' = rows, NEW op \in AcOps, NEW v,
         data' = [data EXCEPT ![op] = v]
  PROVE  Stored' = [Stored EXCEPT ![op] = Tuples(v)]
<1>1. \A o \in Ops : Stored'[o] = IF o = op THEN Tuples(v) ELSE Stored[o]
  BY StoredFacts, StoredNext, OpsAssumption DEF Ops
<1> QED BY <1>1, StoredFacts, StoredNext

\* A step on neither changes nothing.
LEMMA StoredKept ==
  ASSUME UNCHANGED <<rows, data>>
  PROVE  Stored' = Stored
BY DEF Stored, Tuples

\* The variables of the implemented specification.
LEMMA SetsVars ==
  Sets!vars = <<rep, memo, Stored, phase, pending, todo, cur, changed, did, merged, quiet>>
BY DEF Sets!vars
-----------------------------------------------------------------------------
\* No tuples at first.
LEMMA RefInit == VecInit => Sets!Init
<1> SUFFICES ASSUME VecInit PROVE Sets!Init OBVIOUS
<1>1. Stored = [op \in Ops |-> {}]
  <2>1. \A op \in Ops : Stored[op] = {}
    BY StoredFacts, EmptyVector, OpsAssumption DEF VecInit, Init, Ops
  <2> QED BY <2>1, StoredFacts
<1> QED BY <1>1, SetsSame DEF VecInit, Init, Sets!Init

\* add_enode of an operator with a row store.
LEMMA RefAddEnode ==
  ASSUME VecInv, NEW op \in RowOps, NEW args \in CallArgs(op),
         AddEnode(op, args), UNCHANGED vecvars
  PROVE  Sets!AddEnode(op, args)
<1>0. DOMAIN rows = Ops /\ data' = data /\ Stored[op] = rows[op]
  BY StoredFacts DEF VecInv, TypeOK, RowsOK, vecvars
<1>1. CASE Lookup(op, args) # {}
  BY <1>1, <1>0, StoredKept, SetsOperators DEF AddEnode, Sets!AddEnode, store, Sets!store
<1>2. CASE Lookup(op, args) = {}
  <2> DEFINE e == ENode(op, CanonArgs(op, args))
             S == rows[op] \cup {[args |-> e.args, id |-> Len(rep) + 1]}
  <2>1. /\ UF!MakeSet /\ rows' = [rows EXCEPT ![op] = S]
        /\ memo' = [k \in DOMAIN memo \cup {e} |-> IF k = e THEN Len(rep) + 1 ELSE memo[k]]
        /\ phase = "idle"
        /\ UNCHANGED <<phase, pending, todo, cur, changed, did, merged, quiet>>
    BY <1>2 DEF AddEnode
  <2>2. Stored' = [Stored EXCEPT ![op] = S]
    <3> HIDE DEF S
    <3> QED BY <2>1, <1>0, StoredRow
  <2> QED BY <2>1, <2>2, <1>0, <1>2, SetsSame, SetsOperators DEF Sets!AddEnode
<1> QED BY <1>1, <1>2

\* unify and the first part of rebuild.
LEMMA RefCalls ==
  ASSUME VecInv, \/ \E a, b \in Live : Unify(a, b) /\ UNCHANGED vecvars
                 \/ VecRebuild
  PROVE  (\E a, b \in Live : Sets!Unify(a, b)) \/ Sets!Rebuild
<1>1. CASE \E a, b \in Live : Unify(a, b) /\ UNCHANGED vecvars
  <2>1. PICK a \in Live, b \in Live : Unify(a, b) /\ UNCHANGED vecvars BY <1>1
  <2>2. Stored' = Stored BY <2>1, StoredKept DEF Unify, vecvars
  <2>3. Sets!Unify(a, b) BY <2>1, <2>2, SetsSame DEF Unify, Sets!Unify
  <2> QED BY <2>3
<1>2. CASE VecRebuild
  <2>1. Stored' = Stored BY <1>2, StoredKept DEF VecRebuild, Rebuild, vecvars
  <2>2. \A m, n : Sets!MsetSize(m, n) = MsetSize(m, n) BY DEF MsetSize, Sets!MsetSize
  <2>3. \A op \in AcOps : \A r \in Stored[op] : MsetSize(r.args, MaxIds) <= MaxMset
    BY <1>2, StoredFacts DEF VecRebuild, Tuples
  <2>4. Rebuild BY <1>2 DEF VecRebuild
  <2>5. Sets!Rebuild!3 <=> Rebuild!3
    BY Zenon DEF Sets!CanonENode, CanonENode, Sets!CanonArgs, CanonArgs, Sets!ENode, ENode,
             Sets!MapMset, MapMset, Sets!EmptyMset, EmptyMset
  <2>6. Sets!Rebuild
    BY <2>1, <2>2, <2>3, <2>4, <2>5 DEF Rebuild, Sets!Rebuild
  <2> QED BY <2>6
<1> QED BY <1>1, <1>2

\* The steps of RowStore and the end of rebuild.
LEMMA RefRowStep ==
  ASSUME VecInv, RowStep \/ RebuildReturn, UNCHANGED vecvars
  PROVE  Sets!RowStep \/ Sets!RebuildReturn
<1> DEFINE op == Current
<1>0. /\ DOMAIN rows = Ops /\ data' = data /\ ControlOK
      /\ op \in RowOps => Stored[op] = rows[op]
  BY StoredFacts DEF VecInv, TypeOK, RowsOK, vecvars
<1>1. \A s : Sets!First(s) = First(s)
  BY DEF Sets!First, First, Sets!ArgsBefore, ArgsBefore
<1>6. \A S : Sets!Cardinality(S) = Cardinality(S)
  BY DEF Sets!Cardinality, Cardinality
<1>2. CASE RowCanonicalize
  <2> DEFINE canonical == {<<r, CanonRow(op, r)>> : r \in rows[op]}
  <2>0. op \in RowOps BY <1>2 DEF RowCanonicalize
  <2>1. {<<r, Sets!CanonRow(op, r)>> : r \in Stored[op]} = canonical
    BY <2>0, <1>0, SetsOperators
  <2>2. CASE Arity[op] = 0 \/ Cardinality(rows[op]) <= 1
    <3>1. Stored' = [Stored EXCEPT ![op] = {t[2] : t \in canonical}]
      <4> DEFINE S == {t[2] : t \in canonical}
      <4>1. rows' = [rows EXCEPT ![op] = S] BY <1>2, <2>2 DEF RowCanonicalize
      <4> HIDE DEF S
      <4>2. Stored' = [Stored EXCEPT ![op] = S] BY <4>1, <2>0, <1>0, StoredRow
      <4> QED BY <4>2 DEF S
    <3>2. /\ phase = "relation" /\ pending # << >> /\ pending' = Tail(pending)
          /\ UNCHANGED <<phase, todo, cur, rep, memo, changed, did, merged, quiet>>
      BY <1>2, <2>2 DEF RowCanonicalize
    <3>3. Arity[op] = 0 \/ Sets!Cardinality(Stored[op]) <= 1 BY <2>0, <2>2, <1>0, <1>6
    <3> HIDE DEF canonical
    <3>4. Sets!RowCanonicalize
      BY <3>1, <3>2, <3>3, <2>0, <2>1, SetsSame DEF Sets!RowCanonicalize
    <3> QED BY <3>4 DEF Sets!RowStep
  <2>3. CASE ~ (Arity[op] = 0 \/ Cardinality(rows[op]) <= 1)
    <3>1. Stored' = [Stored EXCEPT ![op] = {}]
      BY <1>2, <2>3, <2>0, <1>0, StoredRow DEF RowCanonicalize
    <3>2. /\ phase = "relation" /\ pending # << >> /\ phase' = "scan"
          /\ UNCHANGED <<pending, rep, memo, changed, did, merged, quiet>>
          /\ \E t \in First(canonical) : cur' = {t[2]} /\ todo' = canonical \ {t}
      BY <1>2, <2>3 DEF RowCanonicalize
    <3>3. ~ (Arity[op] = 0 \/ Sets!Cardinality(Stored[op]) <= 1)
      BY <2>0, <2>3, <1>0, <1>6
    <3> HIDE DEF canonical
    <3>4. \E t \in Sets!First(canonical) : cur' = {t[2]} /\ todo' = canonical \ {t}
      BY <3>2, <1>1
    <3>5. PICK t \in Sets!First(canonical) : cur' = {t[2]} /\ todo' = canonical \ {t}
      BY <3>4
    <3>6. Sets!RowCanonicalize
      BY <3>1, <3>2, <3>3, <3>5, <2>0, <2>1 DEF Sets!RowCanonicalize, Sets!Current, Current
    <3> QED BY <3>6 DEF Sets!RowStep
  <2> QED BY <2>2, <2>3
<1>3. CASE RowScan
  <2>0. op \in RowOps BY <1>3, <1>0 DEF RowScan, ControlOK
  <2>1. PICK c \in cur, t \in First(todo) : RowScan!2!(c, t)
    BY <1>3 DEF RowScan
  <2> DEFINE same == t[2].args = c.args /\ t[2].id # c.id
             root == UF!Merged(rep, c.id, t[2].id)[c.id]
             fixed == [c EXCEPT !.id = root]
  <2>2. \A f, a, b : Sets!UF!Merged(f, a, b) = UF!Merged(f, a, b)
    BY DEF Sets!UF!Merged, UF!Merged
  <2>3. CASE same
    <3>1. Stored' = [Stored EXCEPT ![op] = Stored[op] \cup {fixed}]
      <4> DEFINE S == rows[op] \cup {fixed}
      <4>1. rows' = [rows EXCEPT ![op] = S] BY <2>1, <2>3
      <4> HIDE DEF S
      <4>2. Stored' = [Stored EXCEPT ![op] = S] BY <4>1, <2>0, <1>0, StoredRow
      <4> QED BY <4>2, <2>0, <1>0 DEF S
    <3>2. RowScan /\ UF!Union(c.id, t[2].id) /\ cur' = {[t[2] EXCEPT !.id = root]}
          /\ did' = TRUE /\ merged' = (merged \/ rep' # rep) /\ todo' = todo \ {t}
      BY <2>1, <2>3, <1>3
    <3>3. t \in Sets!First(todo) /\ Sets!UF!Union(c.id, t[2].id) /\ Sets!Current = op
          /\ Sets!UF!Merged(rep, c.id, t[2].id)[c.id] = root
      BY <1>1, <3>2, SetsSame, <2>2
    <3> HIDE DEF root, fixed
    <3>4. Sets!RowScan!2!(c, t)
      BY <3>1, <3>2, <3>3, <2>3 DEF fixed
    <3>5. Sets!RowScan BY <3>4, <3>2, <3>3 DEF Sets!RowScan, RowScan
    <3> QED BY <3>5 DEF Sets!RowStep
  <2>4. CASE ~ same
    <3>1. Stored' = [Stored EXCEPT ![op] = Stored[op] \cup {c}]
      <4> DEFINE S == rows[op] \cup {c}
      <4>1. rows' = [rows EXCEPT ![op] = S] BY <2>1, <2>4
      <4> HIDE DEF S
      <4>2. Stored' = [Stored EXCEPT ![op] = S] BY <4>1, <2>0, <1>0, StoredRow
      <4> QED BY <4>2, <2>0, <1>0 DEF S
    <3>2. RowScan /\ cur' = {t[2]} /\ UNCHANGED <<rep, did, merged>> /\ todo' = todo \ {t}
      BY <2>1, <2>4, <1>3
    <3>3. t \in Sets!First(todo) /\ Sets!Current = op BY <1>1, SetsSame
    <3>4. Sets!RowScan!2!(c, t) BY <3>1, <3>2, <3>3, <2>4
    <3>5. Sets!RowScan BY <3>4, <3>2, <3>3 DEF Sets!RowScan, RowScan
    <3> QED BY <3>5 DEF Sets!RowStep
  <2> QED BY <2>3, <2>4
<1>4. CASE RowFinish
  <2>0. op \in RowOps BY <1>4, <1>0 DEF RowFinish, ControlOK
  <2>1. rows' = [rows EXCEPT ![op] = rows[op] \cup cur] BY <1>4 DEF RowFinish
  <2>2. Stored' = [Stored EXCEPT ![op] = Stored[op] \cup cur]
    <3> DEFINE S == rows[op] \cup cur
    <3> HIDE DEF S
    <3>1. Stored' = [Stored EXCEPT ![op] = S] BY <2>0, <2>1, <1>0, StoredRow DEF S
    <3> QED BY <3>1, <2>0, <1>0 DEF S
  <2> QED BY <2>2, <1>4, SetsSame DEF RowFinish, Sets!RowFinish, Sets!RowStep
<1>5. CASE RebuildReturn
  <2>1. Stored' = Stored BY <1>5, <1>0, StoredKept DEF RebuildReturn
  <2> QED BY <2>1, <1>5 DEF RebuildReturn, Sets!RebuildReturn
<1> QED BY <1>2, <1>3, <1>4, <1>5 DEF RowStep

\* The current vector and what module EGraph sees of it.
LEMMA CurrentVector ==
  ASSUME VecInv, Current \in AcOps
  PROVE  LET vec == data[Current]
         IN  /\ vec \in Seq(Row(Current)) /\ vec \in Seq(Tuple) /\ Increasing(vec)
             /\ Tuples(vec) \subseteq Row(Current) /\ Live \subseteq Ids
             /\ Len(vec) \in Nat /\ DOMAIN vec = 1..Len(vec)
             /\ \A i \in 1..Len(vec) : vec[i] \in Row(Current) /\ vec[i] \in Tuples(vec)
             /\ \A r \in Tuples(vec) : \E i \in 1..Len(vec) : r = vec[i]
             /\ Stored[Current] = Tuples(vec)
<1> DEFINE vec == data[Current]
<1>1. vec \in Seq(Row(Current)) /\ Increasing(vec) /\ Live \subseteq Ids
  BY PartitionFacts DEF VecInv, TypeOK, DataOK
<1>2. vec \in Seq(Tuple) /\ Tuples(vec) \subseteq Row(Current) BY <1>1, RowsAreTuples
<1>3. Stored[Current] = Tuples(vec) BY StoredFacts
<1> HIDE DEF vec
<1> QED BY <1>1, <1>2, <1>3, VectorFacts DEF vec

\* add_enode of an AC operator: the new tuple has a new id, so nothing in the
\* vector is taken for it.
LEMMA RefAddAcEnode ==
  ASSUME VecInv, NEW op \in AcOps, NEW args \in CallArgs(op), AddAcEnode(op, args)
  PROVE  Sets!AddEnode(op, args)
<1>0. /\ DOMAIN data = AcOps /\ Stored[op] = Tuples(data[op]) /\ op \in Ops
      /\ UF!IsPartition /\ data[op] \in Seq(Row(op)) /\ Increasing(data[op])
  BY StoredFacts DEF VecInv, TypeOK, DataOK, Ops
<1>1. CASE Lookup(op, args) # {}
  <2>1. Stored' = Stored BY <1>1, StoredKept DEF AddAcEnode, store
  <2> QED BY <2>1, <1>1, SetsOperators DEF AddAcEnode, Sets!AddEnode, store, Sets!store
<1>2. CASE Lookup(op, args) = {}
  <2> DEFINE c == CanonArgs(op, args)
             e == ENode(op, c)
             t == [args |-> c, id |-> Len(rep) + 1]
             v == insert(data[op], t)
  <2>0. e.args = c BY DEF ENode
  <2>1. /\ UF!MakeSet /\ data' = [data EXCEPT ![op] = v] /\ rows' = rows
        /\ memo' = [k \in DOMAIN memo \cup {e} |-> IF k = e THEN Len(rep) + 1 ELSE memo[k]]
        /\ phase = "idle"
        /\ UNCHANGED <<phase, pending, todo, cur, changed, did, merged, quiet>>
    BY <1>2, <2>0 DEF AddAcEnode
  <2>2. c \in Args(op) BY <1>0, CanonArgsType DEF CallArgs
  <2>3. Tuples(v) = Tuples(data[op]) \cup {t}
    <3> HIDE DEF c
    <3>1. Len(rep) < MaxIds BY <2>1 DEF UF!MakeSet
    <3> QED BY <3>1, <2>2, <1>0, NewTuple
  <2>4. Stored' = [Stored EXCEPT ![op] = Stored[op] \cup {t}]
    <3> HIDE DEF v, t
    <3> QED BY <2>1, <2>3, <1>0, StoredVector
  <2>5. [args |-> e.args, id |-> Len(rep) + 1] = t BY <2>0
  <2> HIDE DEF t
  <2> QED BY <2>1, <2>4, <2>5, <1>0, <1>2, SetsSame, SetsOperators DEF Sets!AddEnode
<1> QED BY <1>1, <1>2

\* A tuple of the scan of congruence unifies two tuples or does nothing.
LEMMA RefCongruence ==
  ASSUME VecInv, VecCongruence
  PROVE  Sets!AcUnify \/ UNCHANGED Sets!vars
<1> DEFINE op == Current
           vec == data[op]
           t == vec[next]
           root == cache[t.args]
           unites == t.args \in DOMAIN cache /\ rep[t.id] # rep[root]
<1>0. /\ op \in AcOps /\ phase = "congruence" /\ next <= Len(vec)
      /\ IF unites THEN UF!Union(t.id, root) /\ changed' = TRUE /\ merged' = TRUE
                   ELSE UNCHANGED <<rep, changed, merged>>
      /\ UNCHANGED <<memo, rows, phase, pending, todo, cur, did, quiet, data>>
  BY DEF VecInv, TypeOK, VecCongruence, ControlOK
<1>1. /\ next \in 1..(Len(vec) + 1)
      /\ DOMAIN cache = {vec[i].args : i \in 1..(next-1)}
      /\ \A i \in 1..(next-1) : rep[vec[i].id] = rep[cache[vec[i].args]]
  BY <1>0 DEF VecInv, ScanCacheOK
<1>2. Stored' = Stored BY <1>0, StoredKept
<1>3. /\ Len(vec) \in Nat /\ \A i \in 1..Len(vec) : vec[i] \in Tuples(vec)
      /\ Stored[op] = Tuples(vec)
  BY <1>0, CurrentVector
<1>4. CASE unites
  <2>1. PICK i \in 1..(next-1) : vec[i].args = t.args BY <1>4, <1>1
  <2> HIDE DEF vec
  <2>2. t \in Tuples(vec) /\ vec[i] \in Tuples(vec) BY <2>1, <1>0, <1>1, <1>3
  <2>3. rep[vec[i].id] = rep[root] /\ rep[t.id] # rep[vec[i].id] BY <2>1, <1>1, <1>4
  <2>4. UF!Union(t.id, vec[i].id)
    BY <1>0, <1>4, <2>3 DEF UF!Union, UF!Merged
  <2>5. <<t, vec[i]>> \in Sets!Congruent(op)
    BY <2>1, <2>2, <2>3, <1>3 DEF Sets!Congruent
  <2> HIDE DEF t
  <2>6. Sets!UF!Union(t.id, vec[i].id) /\ Sets!Current = op BY <2>4, SetsSame
  <2>7. \E p \in Sets!Congruent(op) : Sets!UF!Union(p[1].id, p[2].id) BY <2>5, <2>6
  <2> QED BY <2>6, <2>7, <1>0, <1>2, <1>4 DEF Sets!AcUnify
<1>5. CASE ~ unites
  BY <1>5, <1>0, <1>2 DEF Sets!vars
<1> QED BY <1>4, <1>5

\* The scan is over: what is left has one class per multiset.
LEMMA RefCongruent ==
  ASSUME VecInv, VecCongruent
  PROVE  Sets!AcCongruent
<1> DEFINE op == Current
           vec == data[op]
<1>0. /\ op \in AcOps /\ phase = "congruence" /\ next > Len(vec)
      /\ phase' = IF changed THEN "again" ELSE "flatten"
      /\ UNCHANGED <<rep, memo, rows, pending, todo, cur, changed, did, merged, quiet, data>>
  BY DEF VecInv, TypeOK, VecCongruent, ControlOK, vecvars
<1>1. /\ next \in 1..(Len(vec) + 1)
      /\ \A i \in 1..(next-1) : rep[vec[i].id] = rep[cache[vec[i].args]]
  BY <1>0 DEF VecInv, ScanCacheOK
<1>2. Stored' = Stored BY <1>0, StoredKept
<1>3. /\ Len(vec) \in Nat /\ \A r \in Tuples(vec) : \E i \in 1..Len(vec) : r = vec[i]
      /\ Stored[op] = Tuples(vec)
  BY <1>0, CurrentVector
<1>4. \A r \in Tuples(vec) : rep[r.id] = rep[cache[r.args]]
  <2> HIDE DEF vec
  <2> QED BY <1>0, <1>1, <1>3
<1>5. Sets!Congruent(op) = {}
  <2> HIDE DEF vec, op
  <2> QED BY <1>3, <1>4 DEF Sets!Congruent
<1> QED BY <1>0, <1>2, <1>5, SetsSame DEF Sets!AcCongruent

\* A strictly sorted vector is a prefix of every other with the same tuples.
LEMMA SortedPrefix ==
  ASSUME NEW v \in Seq(Tuple), NEW w \in Seq(Tuple), Increasing(v), Increasing(w),
         Tuples(v) = Tuples(w)
  PROVE  Len(v) <= Len(w) /\ \A i \in 1..Len(v) : v[i] = w[i]
<1>0. /\ Len(v) \in Nat /\ \A i \in 1..Len(v) : v[i] \in Tuple
      /\ Len(w) \in Nat /\ \A i \in 1..Len(w) : w[i] \in Tuple
      /\ \A i \in 1..Len(v) : \E j \in 1..Len(w) : v[i] = w[j]
      /\ \A i \in 1..Len(w) : \E j \in 1..Len(v) : w[i] = v[j]
      /\ \A i, j \in 1..Len(v) : i < j => Before(v[i], v[j])
      /\ \A i, j \in 1..Len(w) : i < j => Before(w[i], w[j])
  BY VectorFacts DEF Increasing
<1>1. /\ \A i, j \in 1..Len(v) : v[i] = v[j] => i = j
      /\ \A i, j \in 1..Len(w) : w[i] = w[j] => i = j
  <2>1. \A i, j \in 1..Len(v) : i < j => v[i] # v[j] BY <1>0, KeyOrder
  <2>2. \A i, j \in 1..Len(w) : i < j => w[i] # w[j] BY <1>0, KeyOrder
  <2> QED BY <2>1, <2>2, <1>0
<1> DEFINE P == {k \in 0..Len(v) : k <= Len(w) /\ \A i \in 1..k : v[i] = w[i]}
<1>2. 0 \in P BY <1>0
<1>3. ASSUME NEW k \in 1..Len(v), k - 1 \in P PROVE k \in P
  <2>0. k - 1 <= Len(w) /\ \A i \in 1..(k-1) : v[i] = w[i] BY <1>3
  <2>1. PICK j \in 1..Len(w) : v[k] = w[j] BY <1>0
  <2>2. j >= k
    <3> SUFFICES ASSUME j < k PROVE FALSE BY <1>0
    <3>1. j \in 1..(k-1) /\ j \in 1..Len(v) BY <1>0
    <3> QED BY <3>1, <2>0, <2>1, <1>1
  <2>3. k \in 1..Len(w) BY <2>2, <1>0
  <2>4. PICK i \in 1..Len(v) : w[k] = v[i] BY <1>0, <2>3
  <2>5. i >= k
    <3> SUFFICES ASSUME i < k PROVE FALSE BY <1>0
    <3>1. i \in 1..(k-1) /\ i \in 1..Len(w) BY <1>0, <2>3
    <3> QED BY <3>1, <2>0, <2>3, <2>4, <1>1
  <2>6. j = k
    <3> SUFFICES ASSUME k < j PROVE FALSE BY <2>2, <1>0
    <3>1. Before(w[k], w[j]) BY <2>3, <1>0
    <3>2. Before(v[i], v[k]) BY <3>1, <2>1, <2>4
    <3>3. i = k \/ Before(v[k], v[i]) BY <2>5, <1>0
    <3> QED BY <3>2, <3>3, <1>0, KeyOrder
  <2>7. \A n \in 1..k : n \in 1..(k-1) \/ n = k BY <1>0
  <2> QED BY <2>0, <2>1, <2>3, <2>6, <2>7
<1> HIDE DEF P
<1>4. \A k \in 0..Len(v) : k \in P BY <1>0, <1>2, <1>3, IntervalInduction
<1>5. Len(v) \in P BY <1>4, <1>0
<1> QED BY <1>5 DEF P

\* The tuples determine the vector.
LEMMA SortedUnique ==
  ASSUME NEW v \in Seq(Tuple), NEW w \in Seq(Tuple), Increasing(v), Increasing(w),
         Tuples(v) = Tuples(w)
  PROVE  v = w
<1>1. Len(v) <= Len(w) /\ \A i \in 1..Len(v) : v[i] = w[i] BY SortedPrefix
<1>2. Len(w) <= Len(v) BY SortedPrefix
<1>3. Len(v) = Len(w) BY <1>1, <1>2, VectorFacts
<1> QED BY <1>1, <1>3, VectorFacts

\* Multisets that the step may compare are equal if their fingerprints are.
LEMMA ComparedFacts ==
  ASSUME NoCollision, NEW op \in AcOps
  PROVE  /\ \A r \in Tuples(data[op]) :
              r.args \in Compared(op) /\ CanonRow(op, r).args \in Compared(op)
         /\ \A a, b \in Tuples(data[op]) :
              \A t \in Tuples(FlattenPair(a, b)) \cup Tuples(UnflattenPair(a, b)) :
                t.args \in Compared(op)
         /\ \A m, o \in Compared(op) : hash(m) = hash(o) => m = o
<1> DEFINE stored == Tuples(data[op])
           derived == UNION {Tuples(FlattenPair(a, b)) \cup Tuples(UnflattenPair(a, b)) :
                               a, b \in stored}
           R == {CanonRow(op, r) : r \in stored}
<1>1. Compared(op) = {t.args : t \in stored \cup R \cup derived} BY DEF Compared
<1>2. \A m, o \in Compared(op) : hash(m) = hash(o) => m = o BY DEF NoCollision
<1>3. \A r \in stored : CanonRow(op, r) \in R OBVIOUS
<1>4. ASSUME NEW a \in stored, NEW b \in stored
      PROVE  \A t \in Tuples(FlattenPair(a, b)) \cup Tuples(UnflattenPair(a, b)) :
               t \in derived
  <2> DEFINE D == Tuples(FlattenPair(a, b)) \cup Tuples(UnflattenPair(a, b))
             parts == {Tuples(FlattenPair(x, y)) \cup Tuples(UnflattenPair(x, y)) :
                         x, y \in stored}
  <2>1. D \in parts OBVIOUS
  <2>2. derived = UNION parts OBVIOUS
  <2> HIDE DEF D, parts, derived
  <2>3. \A t \in D : t \in derived BY <2>1, <2>2
  <2> QED BY <2>3 DEF D
<1> HIDE DEF stored, derived, R
<1>5. \A t \in stored \cup R \cup derived : t.args \in Compared(op) BY <1>1
<1> QED BY <1>2, <1>3, <1>4, <1>5 DEF stored

\* Renaming merges tuples exactly if they become equal, and changes the vector
\* exactly if it changes the set.
LEMMA RefCanonicalize ==
  ASSUME VecInv, NoCollision, VecCanonicalize
  PROVE  Sets!AcCanonicalize
<1> DEFINE op == Current
           vec == data[op]
           v == canonicalize(op, vec)
           image == {CanonRow(op, r) : r \in Tuples(vec)}
<1>0. /\ op \in AcOps /\ DOMAIN data = AcOps
      /\ (phase = "relation" /\ pending # << >>) \/ phase = "again"
      /\ data' = [data EXCEPT ![op] = v]
      /\ phase' = IF phase = "again" /\ v = vec THEN "flatten" ELSE "congruence"
      /\ changed' = FALSE
      /\ UNCHANGED <<rep, memo, rows, pending, todo, cur, did, merged, quiet>>
  BY DEF VecInv, TypeOK, VecCanonicalize, ControlOK, DataOK
<1>1. /\ vec \in Seq(Row(op)) /\ vec \in Seq(Tuple) /\ Increasing(vec) /\ Live \subseteq Ids
      /\ Stored[op] = Tuples(vec)
  BY <1>0, CurrentVector
<1>2. /\ v \in Seq(Row(op)) /\ Increasing(v) /\ Tuples(v) \subseteq image
      /\ \A r \in Tuples(vec) : \E u \in Tuples(v) : SameKey(u, CanonRow(op, r))
  <2>1. UF!IsPartition BY DEF VecInv, TypeOK
  <2> HIDE DEF op, vec
  <2> QED BY <2>1, <1>0, <1>1, CanonicalizeFacts
<1>3. Tuples(v) = image
  <2> SUFFICES ASSUME NEW r \in Tuples(vec) PROVE CanonRow(op, r) \in Tuples(v)
    BY <1>2
  <2>1. PICK u \in Tuples(v) : SameKey(u, CanonRow(op, r)) BY <1>2
  <2>2. PICK s \in Tuples(vec) : u = CanonRow(op, s) BY <1>2
  <2>3. CanonRow(op, s).args = CanonRow(op, r).args
    BY <2>1, <2>2, <1>0, ComparedFacts DEF SameKey
  <2>4. CanonRow(op, s).id = CanonRow(op, r).id BY <2>1, <2>2 DEF SameKey
  <2>5. CanonRow(op, s) = CanonRow(op, r) BY <2>3, <2>4 DEF CanonRow
  <2> QED BY <2>2, <2>5
<1>4. Stored' = [Stored EXCEPT ![op] = image]
  <2> HIDE DEF v, image, op
  <2> QED BY <1>0, <1>3, StoredVector
<1>5. v = vec <=> image = Tuples(vec)
  <2> HIDE DEF v, vec, op
  <2>1. v \in Seq(Tuple) BY <1>0, <1>1, <1>2, RowsAreTuples
  <2> QED BY <2>1, <1>1, <1>2, <1>3, SortedUnique
<1>6. {Sets!CanonRow(op, r) : r \in Stored[op]} = image BY <1>1, SetsOperators
<1> HIDE DEF image, v, vec
<1> QED BY <1>0, <1>1, <1>4, <1>5, <1>6, SetsSame DEF Sets!AcCanonicalize

\* Keys tell the tuples of a set apart.
Apart(T) == \A s, t \in T : SameKey(s, t) => s = t

\* The second loop of flatten and unflatten, on the set of tuples.
LEMMA RefDerive ==
  ASSUME VecInv, NEW op \in AcOps, NEW w \in Seq(Tuple), Tuples(w) \subseteq Row(op),
         ById(w), NEW derived, \A t : t \in Tuples(w) <=> t \in derived \ Tuples(data[op]),
         Apart(Tuples(data[op]) \cup Tuples(w)),
         ApplyWorklist(op, w), rows' = rows
  PROVE  Sets!Derive(op, derived)
<1> DEFINE vec == data[op]
           v == InsertTuples(vec, w)
           new == derived \ Stored[op]
<1>0. /\ UF!IsPartition /\ MemoOK /\ DOMAIN data = AcOps /\ Live \subseteq Ids
      /\ memo = [e \in DOMAIN memo |-> memo[e]]
      /\ vec \in Seq(Tuple) /\ Increasing(vec) /\ Stored[op] = Tuples(vec)
  <2>1. UF!IsPartition /\ MemoOK /\ DataOK /\ memo = [e \in DOMAIN memo |-> memo[e]]
    BY DEF VecInv, TypeOK
  <2>2. data[op] \in Seq(Row(op)) /\ Increasing(data[op]) /\ DOMAIN data = AcOps
    BY <2>1 DEF DataOK
  <2>3. Live \subseteq Ids BY <2>1, PartitionFacts
  <2>4. data[op] \in Seq(Tuple) BY <2>2, <2>3, RowsAreTuples
  <2> QED BY <2>1, <2>2, <2>3, <2>4, StoredFacts
<1>1. new = Tuples(w)
  <2> HIDE DEF vec
  <2>1. \A t : t \in Tuples(w) <=> t \in derived \ Tuples(vec) BY DEF vec
  <2> QED BY <2>1, <1>0
<1>2. Tuples(v) = Tuples(vec) \cup Tuples(w)
  <2> HIDE DEF vec
  <2>1. /\ Tuples(vec) \subseteq Tuples(v) /\ Tuples(v) \subseteq Tuples(vec) \cup Tuples(w)
        /\ \A t \in Tuples(w) : \E u \in Tuples(v) : SameKey(u, t)
    BY <1>0, InsertTuplesFacts
  <2>2. Apart(Tuples(vec) \cup Tuples(w)) BY DEF vec
  <2> HIDE DEF v
  <2> QED BY <2>1, <2>2 DEF Apart
<1>3. Stored' = [Stored EXCEPT ![op] = Stored[op] \cup new]
  <2>1. data' = [data EXCEPT ![op] = v] BY DEF ApplyWorklist
  <2> HIDE DEF v, new
  <2> QED BY <2>1, <1>0, <1>1, <1>2, StoredVector
<1> DEFINE Owners(e) == {r.id : r \in {s \in new : ENode(op, s.args) = e}}
           Least(e) == CHOOSE x \in Owners(e) : \A y \in Owners(e) : x <= y
           D == DOMAIN memo \cup {ENode(op, r.args) : r \in new}
<1>4. Registered(op, Live, memo, w, memo')
  <2>1. memo \in [DOMAIN memo -> Live] BY <1>0 DEF MemoOK
  <2>2. \A t \in Tuples(w) : t.id \in Live BY DEF Row
  <2>3. memo' = EmplaceAll(op, memo, w) BY DEF ApplyWorklist
  <2> QED BY <2>1, <2>2, <2>3, EmplaceAllFacts
<1>5. memo' \in [D -> Live] /\ \A e \in DOMAIN memo : memo'[e] = memo[e]
  BY <1>1, <1>4 DEF Registered
<1>6. ASSUME NEW e \in D \ DOMAIN memo PROVE memo'[e] = Least(e)
  <2>1. \E t \in Tuples(w) : ENode(op, t.args) = e /\ memo'[e] = t.id
    BY <1>1, <1>4, <1>6 DEF Registered
  <2>2. memo'[e] \in Owners(e) BY <1>1, <2>1
  <2>3. \A y \in Owners(e) : memo'[e] <= y BY <1>1, <1>4, <1>6 DEF Registered
  <2>4. Owners(e) \subseteq Nat BY <1>1 DEF Row, Live
  <2> DEFINE O == Owners(e)
  <2>5. memo'[e] = CHOOSE x \in O : \A y \in O : x <= y
    <3>1. memo'[e] \in O /\ O \subseteq Nat /\ \A y \in O : memo'[e] <= y
      BY <2>2, <2>3, <2>4
    <3> HIDE DEF O
    <3>2. ASSUME NEW x \in O, \A y \in O : x <= y PROVE x = memo'[e]
      <4>1. x <= memo'[e] /\ memo'[e] <= x BY <3>1, <3>2
      <4>2. x \in Nat /\ memo'[e] \in Nat BY <3>1
      <4> QED BY <4>1, <4>2
    <3> QED BY <3>1, <3>2
  <2> QED BY <2>5
<1>7. memo' = [e \in D |-> IF e \in DOMAIN memo THEN memo[e] ELSE Least(e)]
  <2> HIDE DEF D, Least
  <2> QED BY <1>5, <1>6
<1> HIDE DEF vec, v
<1> QED BY <1>3, <1>7 DEF Sets!Derive, Sets!ENode, ENode

\* Without collisions the keys tell the tuples apart that the step may compare.
LEMMA KeysApart ==
  ASSUME NoCollision, NEW op \in AcOps, NEW T, T \subseteq Row(op),
         \A t \in T : t.args \in Compared(op)
  PROVE  Apart(T)
<1> SUFFICES ASSUME NEW s \in T, NEW t \in T, SameKey(s, t) PROVE s = t
  BY DEF Apart
<1>1. s.id = t.id /\ hash(s.args) = hash(t.args) BY DEF SameKey
<1>2. s.args = t.args BY <1>1, ComparedFacts
<1>3. s = [args |-> s.args, id |-> s.id] /\ t = [args |-> t.args, id |-> t.id]
  BY DEF Row
<1> QED BY <1>1, <1>2, <1>3

\* The worklist of a pair function, as a set: what the pairs of tuples with
\* different multisets derive, without what there is.
LEMMA WorklistIsNew ==
  ASSUME VecInv, NoCollision, NEW op \in AcOps, NEW w, w \in Seq(Tuple),
         Tuples(w) \subseteq Row(op), ById(w),
         NEW derived, NEW D,
         \A t \in D : t \in Row(op) /\ t.args \in Compared(op),
         \A t : t \in Tuples(w) <=> t \in D /\ ~ contains(data[op], t)
  PROVE  /\ Apart(Tuples(data[op]) \cup Tuples(w))
         /\ \A t : t \in Tuples(w) <=> t \in D \ Tuples(data[op])
<1> DEFINE vec == data[op]
           T == Tuples(vec) \cup D
<1>1. /\ vec \in Seq(Row(op)) /\ Increasing(vec) /\ Live \subseteq Ids
  BY PartitionFacts DEF VecInv, TypeOK, DataOK
<1>2. vec \in Seq(Tuple) /\ Tuples(vec) \subseteq Row(op) /\ Row(op) \subseteq Tuple
  BY <1>1, RowsAreTuples
<1>3. \A r \in Tuples(vec) : r.args \in Compared(op) BY ComparedFacts
<1>4. Apart(T)
  <2> HIDE DEF vec
  <2>1. T \subseteq Row(op) /\ \A t \in T : t.args \in Compared(op) BY <1>2, <1>3
  <2> HIDE DEF T
  <2> QED BY <2>1, KeysApart
<1> HIDE DEF vec
<1>5. ASSUME NEW t \in D PROVE contains(vec, t) <=> t \in Tuples(vec)
  <2>1. t \in Tuple /\ Ascending(vec)
    <3>1. Ascending(vec) BY <1>1, <1>2, VectorFacts, KeyOrder DEF Increasing, Ascending
    <3> QED BY <3>1, <1>2
  <2>2. contains(vec, t) <=> \E u \in Tuples(vec) : SameKey(u, t)
    BY <2>1, <1>2, ContainsFacts
  <2>3. \A u \in Tuples(vec) : SameKey(u, t) => u = t BY <1>4 DEF Apart
  <2>4. SameKey(t, t) BY DEF SameKey
  <2> QED BY <2>2, <2>3, <2>4
<1>6. \A t : t \in Tuples(w) <=> t \in D /\ ~ contains(vec, t) BY DEF vec
<1>7. \A t : t \in Tuples(w) <=> t \in D \ Tuples(vec) BY <1>5, <1>6
<1>8. Apart(Tuples(vec) \cup Tuples(w)) BY <1>4, <1>7 DEF Apart
<1> QED BY <1>7, <1>8 DEF vec

\* flatten.
LEMMA RefFlatten ==
  ASSUME VecInv, NoCollision, VecFlatten
  PROVE  Sets!AcFlatten
<1> DEFINE op == Current
           vec == data[op]
           w == FlattenWorklist(vec)
           D == Sets!Flattened(op)
<1>0. /\ op \in AcOps /\ phase = "flatten" /\ phase' = "unflatten" /\ ApplyWorklist(op, w)
      /\ UNCHANGED <<rep, rows, pending, todo, cur, changed, did, merged, quiet>>
  BY DEF VecInv, TypeOK, VecFlatten, ControlOK
<1>1. /\ vec \in Seq(Row(op)) /\ Increasing(vec) /\ Live \subseteq Ids
      /\ Stored[op] = Tuples(vec) /\ Tuples(vec) \subseteq Row(op)
  BY <1>0, CurrentVector
<1>2. /\ w \in Seq(Tuple) /\ Tuples(w) \subseteq Row(op) /\ ById(w)
      /\ \A t : t \in Tuples(w) <=>
           \E a, b \in Tuples(vec) : /\ FlattenPair(a, b) = <<t>>
                                     /\ hash(a.args) # hash(b.args)
                                     /\ ~ contains(vec, t)
  <2> HIDE DEF op, vec
  <2> QED BY <1>0, <1>1, FlattenFacts
<1>3. \A a, b \in Tuples(vec) : hash(a.args) = hash(b.args) <=> a.args = b.args
  BY <1>0, ComparedFacts
<1>4. \A t : t \in D <=>
        \E a, b \in Tuples(vec) : FlattenPair(a, b) = <<t>> /\ a.args # b.args
  <2> DEFINE made(a, b) == [args |-> InsertAll(Remove(a.args, b.id), b.args), id |-> a.id]
             fits(a, b) == ~ Contains(b.args, b.id) /\ Contains(a.args, b.id)
  <2>1. \A a, b : FlattenPair(a, b) = IF fits(a, b) THEN <<made(a, b)>> ELSE << >>
    BY DEF FlattenPair
  <2>2. D = {made(p[1], p[2]) :
               p \in {q \in Tuples(vec) \X Tuples(vec) : /\ q[1].args # q[2].args
                                                         /\ fits(q[1], q[2])}}
    BY <1>1 DEF Sets!Flattened, Sets!InsertAll, InsertAll, Sets!Remove, Remove,
           Sets!Contains, Contains
  <2> HIDE DEF made, fits, D, vec
  <2>3. \A a, b, t : FlattenPair(a, b) = <<t>> <=> fits(a, b) /\ t = made(a, b)
    BY <2>1
  <2>4. \A t : t \in D <=>
          \E a, b \in Tuples(vec) : a.args # b.args /\ fits(a, b) /\ t = made(a, b)
    <3>1. ASSUME NEW t \in D
          PROVE  \E a, b \in Tuples(vec) : a.args # b.args /\ fits(a, b) /\ t = made(a, b)
      <4>1. PICK p \in Tuples(vec) \X Tuples(vec) :
              p[1].args # p[2].args /\ fits(p[1], p[2]) /\ t = made(p[1], p[2])
        BY <2>2
      <4> QED BY <4>1
    <3>2. ASSUME NEW a \in Tuples(vec), NEW b \in Tuples(vec), a.args # b.args, fits(a, b)
          PROVE  made(a, b) \in D
      <4>1. <<a, b>> \in {q \in Tuples(vec) \X Tuples(vec) : /\ q[1].args # q[2].args
                                                            /\ fits(q[1], q[2])}
        BY <3>2
      <4> QED BY <4>1, <2>2
    <3> QED BY <3>1, <3>2
  <2>5. ASSUME NEW t \in D
        PROVE  \E a, b \in Tuples(vec) : FlattenPair(a, b) = <<t>> /\ a.args # b.args
    <3>1. PICK a \in Tuples(vec), b \in Tuples(vec) :
            a.args # b.args /\ fits(a, b) /\ t = made(a, b)
      BY <2>4
    <3>2. FlattenPair(a, b) = <<t>> BY <2>3, <3>1
    <3> QED BY <3>1, <3>2
  <2>6. ASSUME NEW t, NEW a \in Tuples(vec), NEW b \in Tuples(vec),
               FlattenPair(a, b) = <<t>>, a.args # b.args
        PROVE  t \in D
    <3>1. fits(a, b) /\ t = made(a, b) BY <2>3, <2>6
    <3> QED BY <2>4, <2>6, <3>1
  <2> QED BY <2>5, <2>6
<1> HIDE DEF D, w, vec
<1>5. \A t : t \in Tuples(w) <=> t \in D /\ ~ contains(vec, t) BY <1>2, <1>3, <1>4
<1>6. ASSUME NEW t \in D PROVE t \in Row(op) /\ t.args \in Compared(op)
  <2>1. PICK a \in Tuples(vec), b \in Tuples(vec) : FlattenPair(a, b) = <<t>> BY <1>4
  <2>2. t \in Tuples(FlattenPair(a, b)) BY <2>1 DEF Tuples
  <2>3. t.args \in Compared(op) BY <2>2, <1>0, ComparedFacts DEF vec
  <2>4. t \in Row(op)
    <3>1. a \in Row(op) /\ b \in Row(op) BY <1>1
    <3> HIDE DEF op
    <3>2. FlattenPair(a, b) = << >> \/ \E u \in Row(op) : FlattenPair(a, b) = <<u>>
      BY <3>1, <1>0, <1>1, PairFacts
    <3>3. <<t>> # << >> /\ \A u : <<t>> = <<u>> => t = u OBVIOUS
    <3> QED BY <3>2, <3>3, <2>1
  <2> QED BY <2>3, <2>4
<1>7. Sets!Derive(op, D)
  <2> HIDE DEF op
  <2>1. /\ Apart(Tuples(data[op]) \cup Tuples(w))
        /\ \A t : t \in Tuples(w) <=> t \in D \ Tuples(data[op])
    BY <1>0, <1>2, <1>5, <1>6, WorklistIsNew DEF vec
  <2> QED BY <2>1, <1>0, <1>2, RefDerive
<1> QED BY <1>0, <1>7, SetsSame DEF Sets!AcFlatten, D

\* unflatten.
LEMMA RefUnflatten ==
  ASSUME VecInv, NoCollision, VecUnflatten
  PROVE  Sets!AcUnflatten
<1> DEFINE op == Current
           vec == data[op]
           w == UnflattenWorklist(vec)
           D == Sets!Unflattened(op)
<1>0. /\ op \in AcOps /\ phase = "unflatten" /\ phase' = "relation" /\ ApplyWorklist(op, w)
      /\ did' = TRUE /\ pending' = Tail(pending) /\ changed' = FALSE
      /\ UNCHANGED <<rep, rows, todo, cur, merged, quiet>>
  BY DEF VecInv, TypeOK, VecUnflatten, ControlOK
<1>1. /\ vec \in Seq(Row(op)) /\ Increasing(vec) /\ Live \subseteq Ids
      /\ Stored[op] = Tuples(vec) /\ Tuples(vec) \subseteq Row(op)
  BY <1>0, CurrentVector
<1>2. /\ w \in Seq(Tuple) /\ Tuples(w) \subseteq Row(op) /\ ById(w)
      /\ \A t : t \in Tuples(w) <=>
           \E a, b \in Tuples(vec) : /\ UnflattenPair(a, b) = <<t>>
                                     /\ hash(a.args) # hash(b.args)
                                     /\ ~ contains(vec, t)
  <2> HIDE DEF op, vec
  <2> QED BY <1>0, <1>1, UnflattenFacts
<1>3. \A a, b \in Tuples(vec) : hash(a.args) = hash(b.args) <=> a.args = b.args
  BY <1>0, ComparedFacts
<1>4. \A t : t \in D <=>
        \E a, b \in Tuples(vec) : UnflattenPair(a, b) = <<t>> /\ a.args # b.args
  <2> DEFINE made(a, b) == [args |-> Insert(MsetDiff(a.args, b.args), b.id), id |-> a.id]
             fits(a, b) == Includes(a.args, b.args)
  <2>1. \A a, b : UnflattenPair(a, b) = IF fits(a, b) THEN <<made(a, b)>> ELSE << >>
    BY DEF UnflattenPair
  <2>2. D = {made(p[1], p[2]) :
               p \in {q \in Tuples(vec) \X Tuples(vec) : /\ q[1].args # q[2].args
                                                         /\ fits(q[1], q[2])}}
    BY <1>1 DEF Sets!Unflattened, Sets!Insert, Insert, Sets!MsetDiff,
           MsetDiff, Sets!Includes, Includes
  <2> HIDE DEF made, fits, D, vec
  <2>3. \A a, b, t : UnflattenPair(a, b) = <<t>> <=> fits(a, b) /\ t = made(a, b)
    BY <2>1
  <2>4. \A t : t \in D <=>
          \E a, b \in Tuples(vec) : a.args # b.args /\ fits(a, b) /\ t = made(a, b)
    <3>1. ASSUME NEW t \in D
          PROVE  \E a, b \in Tuples(vec) : a.args # b.args /\ fits(a, b) /\ t = made(a, b)
      <4>1. PICK p \in Tuples(vec) \X Tuples(vec) :
              p[1].args # p[2].args /\ fits(p[1], p[2]) /\ t = made(p[1], p[2])
        BY <2>2
      <4> QED BY <4>1
    <3>2. ASSUME NEW a \in Tuples(vec), NEW b \in Tuples(vec), a.args # b.args, fits(a, b)
          PROVE  made(a, b) \in D
      <4>1. <<a, b>> \in {q \in Tuples(vec) \X Tuples(vec) : /\ q[1].args # q[2].args
                                                            /\ fits(q[1], q[2])}
        BY <3>2
      <4> QED BY <4>1, <2>2
    <3> QED BY <3>1, <3>2
  <2>5. ASSUME NEW t \in D
        PROVE  \E a, b \in Tuples(vec) : UnflattenPair(a, b) = <<t>> /\ a.args # b.args
    <3>1. PICK a \in Tuples(vec), b \in Tuples(vec) :
            a.args # b.args /\ fits(a, b) /\ t = made(a, b)
      BY <2>4
    <3>2. UnflattenPair(a, b) = <<t>> BY <2>3, <3>1
    <3> QED BY <3>1, <3>2
  <2>6. ASSUME NEW t, NEW a \in Tuples(vec), NEW b \in Tuples(vec),
               UnflattenPair(a, b) = <<t>>, a.args # b.args
        PROVE  t \in D
    <3>1. fits(a, b) /\ t = made(a, b) BY <2>3, <2>6
    <3> QED BY <2>4, <2>6, <3>1
  <2> QED BY <2>5, <2>6
<1> HIDE DEF D, w, vec
<1>5. \A t : t \in Tuples(w) <=> t \in D /\ ~ contains(vec, t) BY <1>2, <1>3, <1>4
<1>6. ASSUME NEW t \in D PROVE t \in Row(op) /\ t.args \in Compared(op)
  <2>1. PICK a \in Tuples(vec), b \in Tuples(vec) : UnflattenPair(a, b) = <<t>> BY <1>4
  <2>2. t \in Tuples(UnflattenPair(a, b)) BY <2>1 DEF Tuples
  <2>3. t.args \in Compared(op) BY <2>2, <1>0, ComparedFacts DEF vec
  <2>4. t \in Row(op)
    <3>1. a \in Row(op) /\ b \in Row(op) BY <1>1
    <3> HIDE DEF op
    <3>2. UnflattenPair(a, b) = << >> \/ \E u \in Row(op) : UnflattenPair(a, b) = <<u>>
      BY <3>1, <1>0, <1>1, PairFacts
    <3>3. <<t>> # << >> /\ \A u : <<t>> = <<u>> => t = u OBVIOUS
    <3> QED BY <3>2, <3>3, <2>1
  <2> QED BY <2>3, <2>4
<1>7. Sets!Derive(op, D)
  <2> HIDE DEF op
  <2>1. /\ Apart(Tuples(data[op]) \cup Tuples(w))
        /\ \A t : t \in Tuples(w) <=> t \in D \ Tuples(data[op])
    BY <1>0, <1>2, <1>5, <1>6, WorklistIsNew DEF vec
  <2> QED BY <2>1, <1>0, <1>2, RefDerive
<1> QED BY <1>0, <1>7, SetsSame DEF Sets!AcUnflatten, D

\* Every step of the vectors is one of the sets, or changes nothing there.
LEMMA RefNext ==
  ASSUME VecInv, NoCollision, [VecNext]_allvars
  PROVE  [Sets!Next]_(Sets!vars)
<1>1. ASSUME NEW op \in RowOps, NEW args \in CallArgs(op), AddEnode(op, args),
             UNCHANGED vecvars
      PROVE  Sets!Next
  BY <1>1, RefAddEnode, SetsSame, SetsOperators DEF Sets!Next, Ops
<1>2. ASSUME NEW op \in AcOps, NEW args \in CallArgs(op), AddAcEnode(op, args)
      PROVE  Sets!Next
  BY <1>2, RefAddAcEnode, SetsSame, SetsOperators DEF Sets!Next, Ops
<1>3. CASE (\E a, b \in Live : Unify(a, b) /\ UNCHANGED vecvars) \/ VecRebuild
  BY <1>3, RefCalls, SetsSame DEF Sets!Next
<1>4. CASE VecCanonicalize
  BY <1>4, RefCanonicalize DEF Sets!Next, Sets!RebuildStep, Sets!AcStep
<1>5. CASE VecCongruence
  BY <1>5, RefCongruence DEF Sets!Next, Sets!RebuildStep, Sets!AcStep
<1>6. CASE VecCongruent
  BY <1>6, RefCongruent DEF Sets!Next, Sets!RebuildStep, Sets!AcStep
<1>7. CASE VecFlatten
  BY <1>7, RefFlatten DEF Sets!Next, Sets!RebuildStep, Sets!AcStep
<1>8. CASE VecUnflatten
  BY <1>8, RefUnflatten DEF Sets!Next, Sets!RebuildStep, Sets!AcStep
<1>9. CASE (RowStep \/ RebuildReturn) /\ UNCHANGED vecvars
  BY <1>9, RefRowStep DEF Sets!Next, Sets!RebuildStep
<1>10. CASE UNCHANGED allvars
  <2>1. Stored' = Stored BY <1>10, StoredKept DEF allvars
  <2> QED BY <2>1, <1>10 DEF allvars, Sets!vars
<1> QED BY <1>1, <1>2, <1>3, <1>4, <1>5, <1>6, <1>7, <1>8, <1>9, <1>10
        DEF VecNext, VecStep

\* While no two multisets in use share a fingerprint, the vectors implement the
\* sets of module EGraph: every search finds what is there, the scan with its
\* cache unifies what congruence asks for, the worklists, built in the order of
\* the vector, derive what they should.
THEOREM VectorIsSet == VecSpec /\ []NoCollision => ImplementsSets
<1>1. VecInit => Sets!Init BY RefInit
<1>2. VecInv /\ NoCollision /\ [VecNext]_allvars => [Sets!Next]_(Sets!vars) BY RefNext
<1> QED BY <1>1, <1>2, VecInvariant, PTL DEF VecSpec, ImplementsSets
=============================================================================
