-------------------------- MODULE SoundnessProofs ---------------------------
(***************************************************************************)
(* Proof that the e-graph is sound, for every algebra whose AC operators   *)
(* are commutative monoids and for every e-graph: what it equates is equal *)
(* in the algebra.  First the value of a multiset in a commutative monoid, *)
(* Times and Sum of EGraphSoundness: sums add up when multisets do, and    *)
(* renaming ids by a map that keeps their values keeps the sum.            *)
(***************************************************************************)
EXTENDS EGraphSoundness, EGraphProofs

Add(op, x, y) == Plus[op][<<x, y>>]

\* The laws of the monoid, and the exchange law that follows from them.
LEMMA MonoidLaws ==
  ASSUME NEW op \in AcOps
  PROVE  /\ Zero[op] \in Dom
         /\ \A x, y \in Dom : Add(op, x, y) \in Dom /\ Add(op, x, y) = Add(op, y, x)
         /\ \A x \in Dom : Add(op, x, Zero[op]) = x /\ Add(op, Zero[op], x) = x
         /\ \A x, y, z \in Dom : Add(op, x, Add(op, y, z)) = Add(op, Add(op, x, y), z)
<1>1. Zero[op] \in Dom /\ \A x, y \in Dom : Add(op, x, y) \in Dom
  BY AlgebraAssumption DEF Add
<1>2. \A x, y, z \in Dom :
        /\ Add(op, x, Zero[op]) = x
        /\ Add(op, x, y) = Add(op, y, x)
        /\ Add(op, x, Add(op, y, z)) = Add(op, Add(op, x, y), z)
  BY MonoidAssumption, Zenon DEF Add
<1>3. \A x \in Dom : Add(op, x, Zero[op]) = x
  BY <1>2
<1>4. \A x, y \in Dom : Add(op, x, y) = Add(op, y, x)
  <2> SUFFICES ASSUME NEW x \in Dom, NEW y \in Dom PROVE Add(op, x, y) = Add(op, y, x)
    OBVIOUS
  <2> QED BY <1>2
<1>5. \A x, y, z \in Dom : Add(op, x, Add(op, y, z)) = Add(op, Add(op, x, y), z)
  BY <1>2
<1> QED BY <1>1, <1>3, <1>4, <1>5

\* (x + y) + (z + u) = (x + z) + (y + u) and (x + y) + z = (x + z) + y.
LEMMA Exchange ==
  ASSUME NEW op \in AcOps, NEW x \in Dom, NEW y \in Dom, NEW z \in Dom, NEW u \in Dom
  PROVE  /\ Add(op, Add(op, x, y), z) = Add(op, Add(op, x, z), y)
         /\ Add(op, Add(op, x, y), Add(op, z, u)) = Add(op, Add(op, x, z), Add(op, y, u))
<1> DEFINE xy == Add(op, x, y)
           xz == Add(op, x, z)
<1>1. \A a, b \in Dom : Add(op, a, b) \in Dom /\ Add(op, a, b) = Add(op, b, a)
  BY MonoidLaws
<1>2. \A a, b, c \in Dom : Add(op, a, Add(op, b, c)) = Add(op, Add(op, a, b), c)
  BY MonoidLaws
<1>3. \A a, b, c \in Dom : Add(op, Add(op, a, b), c) = Add(op, Add(op, a, c), b)
  <2> SUFFICES ASSUME NEW a \in Dom, NEW b \in Dom, NEW c \in Dom
               PROVE  Add(op, Add(op, a, b), c) = Add(op, Add(op, a, c), b)
    OBVIOUS
  <2>1. Add(op, Add(op, a, b), c) = Add(op, a, Add(op, b, c)) BY <1>2
  <2>2. Add(op, Add(op, a, c), b) = Add(op, a, Add(op, c, b)) BY <1>2
  <2>3. Add(op, b, c) = Add(op, c, b) BY <1>1
  <2> QED BY <2>1, <2>2, <2>3
<1>4. xy \in Dom /\ xz \in Dom BY <1>1
<1>5. Add(op, xy, Add(op, z, u)) = Add(op, Add(op, xy, z), u)
  <2> HIDE DEF xy
  <2> QED BY <1>2, <1>4
<1>6. Add(op, xz, Add(op, y, u)) = Add(op, Add(op, xz, y), u)
  <2> HIDE DEF xz
  <2> QED BY <1>2, <1>4
<1>7. Add(op, xy, z) = Add(op, xz, y) BY <1>3
<1> QED BY <1>5, <1>6, <1>7

\* t[k] is k times d.
Multiples(op, n, d, t) ==
  t = [k \in 0..n |-> IF k = 0 THEN Zero[op] ELSE Add(op, t[k-1], d)]

\* The recursion of Times has a solution; any solution stays in the monoid.
LEMMA TimesMultiples ==
  ASSUME NEW op \in AcOps, NEW n \in Nat, NEW d \in Dom
  PROVE  \E t : /\ Multiples(op, n, d, t) /\ Times(op, n, d) = t[n]
                /\ \A k \in 0..n : t[k] \in Dom
<1> DEFINE G == [k \in 1..n |-> [x \in Dom |-> Add(op, x, d)]]
           b == Zero[op]
<1>1. b \in Dom BY MonoidLaws
<1>2. \A k \in 1..n : \A x \in Dom : G[k][x] = Add(op, x, d) /\ G[k][x] \in Dom
  BY MonoidLaws
<1> HIDE DEF G, b
<1>3. PICK g : Iterates(n, b, G, g) BY IteratesExist
<1>4. g \in [0..n -> Dom] BY <1>1, <1>2, <1>3, IteratesType
<1>5. Multiples(op, n, d, g)
  <2>1. g = [k \in 0..n |-> IF k = 0 THEN b ELSE G[k][g[k-1]]] BY <1>3 DEF Iterates
  <2>2. \A k \in 0..n : k # 0 => G[k][g[k-1]] = Add(op, g[k-1], d) BY <1>2, <1>4
  <2>3. g = [k \in 0..n |-> IF k = 0 THEN b ELSE Add(op, g[k-1], d)]
    BY <2>1, <2>2, Zenon
  <2> QED BY <2>3 DEF Multiples, b
<1> DEFINE t == CHOOSE t : Multiples(op, n, d, t)
<1>6. Multiples(op, n, d, t) BY <1>5
<1>7. Times(op, n, d) = t[n] BY DEF Times, Multiples, Add
<1> HIDE DEF t
<1>8. t = [k \in 0..n |-> IF k = 0 THEN b ELSE Add(op, t[k-1], d)]
  BY <1>6 DEF Multiples, b
<1> DEFINE P == {k \in 0..n : t[k] \in Dom}
<1>9. 0 \in P BY <1>8, <1>1
<1>10. ASSUME NEW k \in 1..n, k - 1 \in P PROVE k \in P
  <2>1. t[k] = Add(op, t[k-1], d) /\ t[k-1] \in Dom BY <1>8, <1>10
  <2>2. t[k] \in Dom BY <2>1, MonoidLaws
  <2> QED BY <2>2
<1> HIDE DEF P
<1>11. \A k \in 0..n : k \in P BY <1>9, <1>10, IntervalInduction
<1>12. \A k \in 0..n : t[k] \in Dom BY <1>11 DEF P
<1> QED BY <1>6, <1>7, <1>12

\* 0 d = 0, (n + 1) d = n d + d, 1 d = d.
LEMMA TimesFacts ==
  ASSUME NEW op \in AcOps, NEW n \in Nat, NEW d \in Dom
  PROVE  /\ Times(op, n, d) \in Dom
         /\ Times(op, 0, d) = Zero[op]
         /\ Times(op, n + 1, d) = Add(op, Times(op, n, d), d)
         /\ Times(op, 1, d) = d
<1>1. ASSUME NEW k \in Nat PROVE Times(op, k + 1, d) = Add(op, Times(op, k, d), d)
  <2>1. PICK t : Multiples(op, k, d, t) /\ Times(op, k, d) = t[k]
    BY TimesMultiples
  <2>2. PICK s : Multiples(op, k + 1, d, s) /\ Times(op, k + 1, d) = s[k + 1]
    <3>1. k + 1 \in Nat OBVIOUS
    <3> QED BY <3>1, TimesMultiples
  <2>3. t = [j \in 0..k |-> IF j = 0 THEN Zero[op] ELSE Add(op, t[j-1], d)]
    BY <2>1 DEF Multiples
  <2>4. s = [j \in 0..(k + 1) |-> IF j = 0 THEN Zero[op] ELSE Add(op, s[j-1], d)]
    BY <2>2 DEF Multiples
  <2> DEFINE P == {j \in 0..k : s[j] = t[j]}
  <2>5. 0 \in P BY <2>3, <2>4
  <2>6. ASSUME NEW j \in 1..k, j - 1 \in P PROVE j \in P
    <3>1. s[j] = Add(op, s[j-1], d) BY <2>4
    <3>2. t[j] = Add(op, t[j-1], d) BY <2>3
    <3>3. s[j] = t[j] BY <3>1, <3>2, <2>6
    <3> QED BY <3>3
  <2> HIDE DEF P
  <2>7. \A j \in 0..k : j \in P BY <2>5, <2>6, IntervalInduction
  <2>8. s[k] = t[k] BY <2>7 DEF P
  <2>9. s[k + 1] = Add(op, s[k], d) BY <2>4
  <2> QED BY <2>1, <2>2, <2>8, <2>9
<1>2. Times(op, 0, d) = Zero[op]
  <2>1. PICK t : Multiples(op, 0, d, t) /\ Times(op, 0, d) = t[0] BY TimesMultiples
  <2> QED BY <2>1 DEF Multiples
<1>3. Times(op, 1, d) = d
  <2>1. Times(op, 0 + 1, d) = Add(op, Times(op, 0, d), d) BY <1>1
  <2> QED BY <2>1, <1>2, MonoidLaws
<1>4. Times(op, n, d) \in Dom BY TimesMultiples
<1> QED BY <1>1, <1>2, <1>3, <1>4

\* (a + b) d = a d + b d.
LEMMA TimesAdd ==
  ASSUME NEW op \in AcOps, NEW a \in Nat, NEW b \in Nat, NEW d \in Dom
  PROVE  Times(op, a + b, d) = Add(op, Times(op, a, d), Times(op, b, d))
<1> DEFINE P == {k \in 0..b : Times(op, a + k, d)
                                = Add(op, Times(op, a, d), Times(op, k, d))}
<1>1. 0 \in P
  <2>1. Times(op, 0, d) = Zero[op] /\ Times(op, a, d) \in Dom BY TimesFacts
  <2>2. a + 0 = a OBVIOUS
  <2> DEFINE A == Times(op, a, d)
  <2> HIDE DEF A
  <2>3. Add(op, A, Zero[op]) = A BY <2>1, MonoidLaws DEF A
  <2>4. Times(op, a + 0, d) = Add(op, Times(op, a, d), Times(op, 0, d))
    BY <2>1, <2>2, <2>3, Zenon DEF A
  <2> QED BY <2>4
<1>2. ASSUME NEW k \in 1..b, k - 1 \in P PROVE k \in P
  <2> DEFINE j == k - 1
             A == Times(op, a, d)
             J == Times(op, j, d)
  <2>1. j \in Nat /\ a + j \in Nat OBVIOUS
  <2>2. k = j + 1 /\ a + k = (a + j) + 1 OBVIOUS
  <2>3. Times(op, a + j, d) = Add(op, A, J) BY <1>2
  <2> HIDE DEF j
  <2>4. Times(op, (a + j) + 1, d) = Add(op, Times(op, a + j, d), d)
    BY <2>1, TimesFacts
  <2>5. Times(op, j + 1, d) = Add(op, J, d) BY <2>1, TimesFacts
  <2>6. A \in Dom /\ J \in Dom BY <2>1, TimesFacts
  <2>7. Add(op, Add(op, A, J), d) = Add(op, A, Add(op, J, d))
    <3> HIDE DEF A, J
    <3> QED BY <2>6, MonoidLaws
  <2>8. Times(op, a + k, d) = Add(op, A, Times(op, k, d))
    BY <2>2, <2>3, <2>4, <2>5, <2>7
  <2> QED BY <2>8
<1> HIDE DEF P
<1>3. \A k \in 0..b : k \in P BY <1>1, <1>2, IntervalInduction
<1> QED BY <1>3 DEF P

\* The hypotheses of the lemmas about sums: m is a multiset of ids, v gives a
\* value to the first ids.
Weighs(op, m, v) ==
  op \in AcOps /\ IsMset(Ids, m) /\ v \in Seq(Dom) /\ Len(v) <= MaxIds

\* s[k] is the part of Sum(op, m, v) that the ids 1..k contribute.
PartialSums(op, m, v, s) ==
  s = [k \in 0..Len(v) |-> IF k = 0 THEN Zero[op]
                           ELSE Add(op, s[k-1], Times(op, m[k], v[k]))]

\* What a sum is made of.
LEMMA TermFacts ==
  ASSUME NEW op, NEW m, NEW v, Weighs(op, m, v)
  PROVE  /\ op \in AcOps /\ Len(v) \in Nat
         /\ \A k \in 1..Len(v) : /\ k \in Ids /\ m[k] \in Nat /\ v[k] \in Dom
                                 /\ Times(op, m[k], v[k]) \in Dom
<1>1. op \in AcOps /\ Len(v) \in Nat /\ Len(v) <= MaxIds /\ MaxIds \in Nat
  BY MaxIdsAssumption DEF Weighs
<1>2. \A k \in 1..Len(v) : k \in Ids BY <1>1 DEF Ids
<1>3. \A k \in 1..Len(v) : m[k] \in Nat BY <1>2 DEF Weighs, IsMset
<1>4. \A k \in 1..Len(v) : v[k] \in Dom BY DEF Weighs
<1>5. ASSUME NEW k \in 1..Len(v) PROVE Times(op, m[k], v[k]) \in Dom
  <2> DEFINE c == m[k]
             d == v[k]
  <2>1. c \in Nat /\ d \in Dom BY <1>3, <1>4
  <2> HIDE DEF c, d
  <2>2. Times(op, c, d) \in Dom BY <2>1, <1>1, TimesFacts
  <2> QED BY <2>2 DEF c, d
<1> QED BY <1>1, <1>2, <1>3, <1>4, <1>5

\* Partial sums stay in the monoid.
LEMMA PartialFacts ==
  ASSUME NEW op, NEW m, NEW v, Weighs(op, m, v), NEW s, PartialSums(op, m, v, s)
  PROVE  /\ s[0] = Zero[op]
         /\ \A k \in 1..Len(v) : s[k] = Add(op, s[k-1], Times(op, m[k], v[k]))
         /\ \A k \in 0..Len(v) : s[k] \in Dom
<1> DEFINE n == Len(v)
           P == {k \in 0..n : s[k] \in Dom}
<1>1. op \in AcOps /\ n \in Nat BY TermFacts
<1>2. s[0] = Zero[op] BY <1>1 DEF PartialSums
<1>3. \A k \in 1..n : s[k] = Add(op, s[k-1], Times(op, m[k], v[k]))
  BY <1>1 DEF PartialSums
<1>4. 0 \in P BY <1>1, <1>2, MonoidLaws
<1>5. ASSUME NEW k \in 1..n, k - 1 \in P PROVE k \in P
  <2> DEFINE a == s[k-1]
             t == Times(op, m[k], v[k])
  <2>1. a \in Dom /\ t \in Dom BY <1>5, TermFacts
  <2>2. s[k] = Add(op, a, t) BY <1>3
  <2> HIDE DEF a, t
  <2>3. s[k] \in Dom BY <2>1, <2>2, <1>1, MonoidLaws
  <2> QED BY <2>3
<1> HIDE DEF n, P
<1>6. \A k \in 0..n : k \in P BY <1>1, <1>4, <1>5, IntervalInduction
<1>7. \A k \in 0..n : s[k] \in Dom BY <1>6 DEF P
<1> QED BY <1>2, <1>3, <1>7 DEF n

\* The recursion of Sum has a solution, and Sum is its last value.
LEMMA SumPartial ==
  ASSUME NEW op, NEW m, NEW v, Weighs(op, m, v)
  PROVE  /\ \E s : PartialSums(op, m, v, s) /\ Sum(op, m, v) = s[Len(v)]
         /\ Sum(op, m, v) \in Dom
<1> DEFINE n == Len(v)
           b == Zero[op]
           G == [k \in 1..n |-> [x \in Dom |-> Add(op, x, Times(op, m[k], v[k]))]]
<1>1. op \in AcOps /\ n \in Nat BY TermFacts
<1>2. b \in Dom BY <1>1, MonoidLaws
<1>3. \A k \in 1..n : \A x \in Dom : G[k][x] = Add(op, x, Times(op, m[k], v[k]))
  OBVIOUS
<1>4. \A k \in 1..n : \A x \in Dom : G[k][x] \in Dom
  <2> SUFFICES ASSUME NEW k \in 1..n, NEW x \in Dom PROVE G[k][x] \in Dom
    OBVIOUS
  <2> DEFINE t == Times(op, m[k], v[k])
  <2>1. t \in Dom BY TermFacts
  <2>2. G[k][x] = Add(op, x, t) OBVIOUS
  <2> HIDE DEF t, G
  <2>3. Add(op, x, t) \in Dom BY <2>1, <1>1, MonoidLaws
  <2> QED BY <2>2, <2>3
<1> HIDE DEF G, b, n
<1>5. PICK g : Iterates(n, b, G, g) BY <1>1, IteratesExist
<1>6. g \in [0..n -> Dom] BY <1>1, <1>2, <1>4, <1>5, IteratesType
<1>7. PartialSums(op, m, v, g)
  <2>1. g = [k \in 0..n |-> IF k = 0 THEN b ELSE G[k][g[k-1]]] BY <1>5 DEF Iterates
  <2>2. \A k \in 0..n : k # 0 => k \in 1..n /\ g[k-1] \in Dom BY <1>1, <1>6
  <2>3. \A k \in 0..n : k # 0 => G[k][g[k-1]] = Add(op, g[k-1], Times(op, m[k], v[k]))
    BY <2>2, <1>3, Zenon
  <2>4. g = [k \in 0..n |-> IF k = 0 THEN b
                            ELSE Add(op, g[k-1], Times(op, m[k], v[k]))]
    BY <2>1, <2>3, Zenon
  <2> QED BY <2>4 DEF PartialSums, b, n
<1> DEFINE s == CHOOSE s : PartialSums(op, m, v, s)
<1>8. PartialSums(op, m, v, s) BY <1>7
<1>9. Sum(op, m, v) = s[Len(v)] BY DEF Sum, PartialSums, Add
<1> HIDE DEF s
<1>10. s[Len(v)] \in Dom BY <1>1, <1>8, PartialFacts DEF n
<1> QED BY <1>8, <1>9, <1>10

\* A sum with occurrences of x alone.
LEMMA SumSingle ==
  ASSUME NEW op, NEW v, NEW m, Weighs(op, m, v),
         NEW x \in 1..Len(v), \A k \in 1..Len(v) : k # x => m[k] = 0
  PROVE  Sum(op, m, v) = Times(op, m[x], v[x])
<1> DEFINE n == Len(v)
           t == Times(op, m[x], v[x])
<1>1. op \in AcOps /\ n \in Nat BY TermFacts
<1>2. PICK s : PartialSums(op, m, v, s) /\ Sum(op, m, v) = s[n] BY SumPartial
<1>3. s[0] = Zero[op] /\ \A k \in 0..n : s[k] \in Dom BY <1>2, PartialFacts
<1>4. \A k \in 1..n : s[k] = Add(op, s[k-1], Times(op, m[k], v[k]))
  BY <1>2, PartialFacts
<1>5. \A k \in 1..n : k # x => s[k] = s[k-1]
  <2> SUFFICES ASSUME NEW k \in 1..n, k # x PROVE s[k] = s[k-1]
    OBVIOUS
  <2> DEFINE a == s[k-1]
             d == v[k]
  <2>1. a \in Dom /\ d \in Dom BY <1>1, <1>3, TermFacts
  <2>2. m[k] = 0 OBVIOUS
  <2>3. s[k] = Add(op, a, Times(op, 0, d)) BY <2>2, <1>4
  <2> HIDE DEF a, d
  <2>4. Times(op, 0, d) = Zero[op] BY <1>1, <2>1, TimesFacts
  <2>5. Add(op, a, Zero[op]) = a BY <1>1, <2>1, MonoidLaws
  <2> QED BY <2>3, <2>4, <2>5 DEF a
<1>6. t \in Dom BY TermFacts
<1> DEFINE P == {k \in 0..n : s[k] = IF k < x THEN Zero[op] ELSE t}
<1>7. 0 \in P BY <1>1, <1>3
<1>8. ASSUME NEW k \in 1..n, k - 1 \in P PROVE k \in P
  <2>1. CASE k # x
    <3>1. s[k] = s[k-1] BY <2>1, <1>5
    <3>2. k < x <=> k - 1 < x BY <2>1, <1>1
    <3> HIDE DEF t
    <3> QED BY <3>1, <3>2, <1>8
  <2>2. CASE k = x
    <3>1. s[k-1] = Zero[op] BY <2>2, <1>8, <1>1
    <3>2. s[k] = Add(op, s[k-1], t) BY <2>2, <1>4
    <3> HIDE DEF t
    <3>3. Add(op, Zero[op], t) = t BY <1>1, <1>6, MonoidLaws
    <3> QED BY <2>2, <3>1, <3>2, <3>3
  <2> QED BY <2>1, <2>2
<1> HIDE DEF P, t
<1>9. \A k \in 0..n : k \in P
  <2> HIDE DEF n
  <2> QED BY <1>1, <1>7, <1>8, IntervalInduction
<1>10. s[n] = t BY <1>1, <1>9 DEF P
<1> QED BY <1>2, <1>10 DEF t

\* The empty sum.
LEMMA SumEmpty ==
  ASSUME NEW op \in AcOps, NEW v \in Seq(Dom), Len(v) <= MaxIds
  PROVE  Weighs(op, EmptyMset(Ids), v) /\ Sum(op, EmptyMset(Ids), v) = Zero[op]
<1> DEFINE n == Len(v)
           m == EmptyMset(Ids)
<1>1. Weighs(op, m, v) BY DEF Weighs, IsMset, EmptyMset
<1>2. \A k \in Ids : m[k] = 0 BY DEF EmptyMset
<1> HIDE DEF m
<1>3. n \in Nat BY <1>1, TermFacts
<1>4. PICK s : PartialSums(op, m, v, s) /\ Sum(op, m, v) = s[n] BY <1>1, SumPartial
<1>5. s[0] = Zero[op] BY <1>1, <1>4, PartialFacts
<1> DEFINE P == {k \in 0..n : s[k] = Zero[op]}
<1>6. 0 \in P BY <1>3, <1>5
<1>7. ASSUME NEW k \in 1..n, k - 1 \in P PROVE k \in P
  <2> DEFINE d == v[k]
  <2>1. d \in Dom /\ m[k] = 0 BY <1>1, <1>2, TermFacts
  <2>2. s[k] = Add(op, s[k-1], Times(op, m[k], d)) BY <1>1, <1>4, PartialFacts
  <2> HIDE DEF d
  <2>3. Times(op, 0, d) = Zero[op] BY <2>1, TimesFacts
  <2>4. Add(op, Zero[op], Zero[op]) = Zero[op] BY MonoidLaws
  <2>5. s[k] = Zero[op] BY <1>7, <2>1, <2>2, <2>3, <2>4
  <2> QED BY <2>5
<1> HIDE DEF P, n
<1>8. \A k \in 0..n : k \in P BY <1>3, <1>6, <1>7, IntervalInduction
<1>9. s[n] = Zero[op] BY <1>3, <1>8 DEF P
<1> QED BY <1>1, <1>4, <1>9 DEF m

\* The sum of the counts gives the sum of the sums.
LEMMA SumInsertAll ==
  ASSUME NEW op, NEW v, NEW m, Weighs(op, m, v), NEW o, Weighs(op, o, v)
  PROVE  /\ Weighs(op, InsertAll(m, o), v)
         /\ Sum(op, InsertAll(m, o), v) = Add(op, Sum(op, m, v), Sum(op, o, v))
<1> DEFINE n == Len(v)
           mo == InsertAll(m, o)
<1>1. op \in AcOps /\ n \in Nat BY TermFacts
<1>2. IsMset(Ids, mo) /\ \A y \in Ids : mo[y] = m[y] + o[y]
  BY SumDiffFacts DEF Weighs
<1> HIDE DEF mo
<1>3. Weighs(op, mo, v) BY <1>2 DEF Weighs
<1>4. PICK s : PartialSums(op, m, v, s) /\ Sum(op, m, v) = s[n] BY SumPartial
<1>5. PICK u : PartialSums(op, o, v, u) /\ Sum(op, o, v) = u[n] BY SumPartial
<1>6. PICK w : PartialSums(op, mo, v, w) /\ Sum(op, mo, v) = w[n] BY <1>3, SumPartial
<1> DEFINE P == {k \in 0..n : w[k] = Add(op, s[k], u[k])}
<1>7. 0 \in P
  <2>1. s[0] = Zero[op] /\ u[0] = Zero[op] /\ w[0] = Zero[op]
    BY <1>3, <1>4, <1>5, <1>6, PartialFacts
  <2>2. Add(op, Zero[op], Zero[op]) = Zero[op] BY <1>1, MonoidLaws
  <2> QED BY <1>1, <2>1, <2>2
<1>8. ASSUME NEW k \in 1..n, k - 1 \in P PROVE k \in P
  <2> DEFINE a == s[k-1]
             b == u[k-1]
             c == m[k]
             e == o[k]
             d == v[k]
  <2>1. d \in Dom /\ c \in Nat /\ e \in Nat /\ k \in Ids BY TermFacts
  <2>2. a \in Dom /\ b \in Dom BY <1>1, <1>4, <1>5, PartialFacts
  <2>3. w[k-1] = Add(op, a, b) BY <1>8
  <2>4. s[k] = Add(op, a, Times(op, c, d)) BY <1>4, PartialFacts
  <2>5. u[k] = Add(op, b, Times(op, e, d)) BY <1>5, PartialFacts
  <2>6. w[k] = Add(op, w[k-1], Times(op, mo[k], d)) BY <1>3, <1>6, PartialFacts
  <2>7. mo[k] = c + e BY <1>2, <2>1
  <2> HIDE DEF a, b, c, e, d
  <2> DEFINE C == Times(op, c, d)
             E == Times(op, e, d)
  <2>8. Times(op, c + e, d) = Add(op, C, E) BY <1>1, <2>1, TimesAdd
  <2>9. C \in Dom /\ E \in Dom BY <1>1, <2>1, TimesFacts
  <2> HIDE DEF C, E
  <2>10. Add(op, Add(op, a, b), Add(op, C, E)) = Add(op, Add(op, a, C), Add(op, b, E))
    BY <1>1, <2>2, <2>9, Exchange
  <2>11. w[k] = Add(op, s[k], u[k])
    BY <2>3, <2>4, <2>5, <2>6, <2>7, <2>8, <2>10, Zenon DEF C, E
  <2> QED BY <2>11
<1> HIDE DEF P, n
<1>9. \A k \in 0..n : k \in P BY <1>1, <1>7, <1>8, IntervalInduction
<1>10. w[n] = Add(op, s[n], u[n]) BY <1>1, <1>9 DEF P
<1> QED BY <1>3, <1>4, <1>5, <1>6, <1>10 DEF mo

\* c more occurrences of x add c times the value of x.
LEMMA SumAddCount ==
  ASSUME NEW op, NEW v, NEW m, Weighs(op, m, v), NEW x \in 1..Len(v), NEW c \in Nat
  PROVE  /\ Weighs(op, AddCount(m, x, c), v)
         /\ Sum(op, AddCount(m, x, c), v) = Add(op, Sum(op, m, v), Times(op, c, v[x]))
<1> DEFINE o == AddCount(EmptyMset(Ids), x, c)
           mx == AddCount(m, x, c)
<1>1. op \in AcOps /\ x \in Ids /\ c \in Nat BY TermFacts
<1>2. v \in Seq(Dom) /\ Len(v) <= MaxIds /\ IsMset(Ids, m) BY DEF Weighs
<1>3. IsMset(Ids, EmptyMset(Ids)) /\ \A y \in Ids : EmptyMset(Ids)[y] = 0
  BY DEF EmptyMset, IsMset
<1>4. /\ IsMset(Ids, o)
      /\ \A y \in Ids : o[y] = IF y = x THEN EmptyMset(Ids)[y] + c ELSE EmptyMset(Ids)[y]
  BY <1>1, <1>3 DEF AddCount, IsMset
<1>5. \A y \in Ids : o[y] = IF y = x THEN c ELSE 0 BY <1>3, <1>4
<1>6. IsMset(Ids, mx) /\ \A y \in Ids : mx[y] = IF y = x THEN m[y] + c ELSE m[y]
  BY <1>1, <1>2 DEF AddCount, IsMset
<1> HIDE DEF o, mx
<1>7. Weighs(op, o, v) /\ Weighs(op, mx, v) BY <1>1, <1>2, <1>4, <1>6 DEF Weighs
<1>8. mx = InsertAll(m, o)
  <2>1. IsMset(Ids, InsertAll(m, o)) /\ \A y \in Ids : InsertAll(m, o)[y] = m[y] + o[y]
    BY <1>2, <1>4, SumDiffFacts
  <2>2. \A y \in Ids : m[y] \in Nat BY <1>2 DEF IsMset
  <2>3. \A y \in Ids : mx[y] = InsertAll(m, o)[y] BY <1>5, <1>6, <2>1, <2>2
  <2> QED BY <1>6, <2>1, <2>3 DEF IsMset
<1>9. Sum(op, o, v) = Times(op, c, v[x])
  <2>1. \A k \in 1..Len(v) : k # x => o[k] = 0 BY <1>5, <1>7, TermFacts
  <2>2. o[x] = c BY <1>1, <1>5
  <2>3. Sum(op, o, v) = Times(op, o[x], v[x]) BY <1>7, <2>1, SumSingle
  <2> QED BY <2>2, <2>3
<1>10. Sum(op, InsertAll(m, o), v) = Add(op, Sum(op, m, v), Sum(op, o, v))
  BY <1>7, SumInsertAll
<1> QED BY <1>7, <1>8, <1>9, <1>10 DEF mx

\* Renaming the ids by a map that keeps their values keeps the sum.
LEMMA SumMap ==
  ASSUME NEW op, NEW v, NEW m, Weighs(op, m, v),
         NEW f \in [1..Len(v) -> 1..Len(v)], \A k \in 1..Len(v) : v[f[k]] = v[k]
  PROVE  /\ Weighs(op, MapMset(m, f, Len(v)), v)
         /\ Sum(op, MapMset(m, f, Len(v)), v) = Sum(op, m, v)
<1> DEFINE n == Len(v)
<1>1. op \in AcOps /\ n \in Nat /\ \A k \in 1..n : k \in Ids BY TermFacts
<1>2. v \in Seq(Dom) /\ Len(v) <= MaxIds /\ IsMset(Ids, m) BY DEF Weighs
<1>3. Renaming(Ids, n, m, f) BY <1>1, <1>2 DEF Renaming
<1> HIDE DEF n
<1>4. PICK acc : Gathers(Ids, m, f, n, acc) /\ MapMset(m, f, n) = acc[n]
  BY <1>3, MapMsetGathers
<1>5. /\ \A k \in 0..n : IsMset(Ids, acc[k])
      /\ acc[0] = EmptyMset(Ids)
      /\ \A k \in 1..n : acc[k] = AddCount(acc[k-1], f[k], m[k])
  BY <1>3, <1>4, GathersType
<1>6. \A k \in 0..n : Weighs(op, acc[k], v) BY <1>1, <1>2, <1>5 DEF Weighs
<1>7. PICK s : PartialSums(op, m, v, s) /\ Sum(op, m, v) = s[n] BY SumPartial DEF n
<1> DEFINE P == {k \in 0..n : Sum(op, acc[k], v) = s[k]}
<1>8. 0 \in P
  <2>1. Sum(op, EmptyMset(Ids), v) = Zero[op] BY <1>1, <1>2, SumEmpty
  <2>2. s[0] = Zero[op] BY <1>7, PartialFacts
  <2> QED BY <1>1, <1>5, <2>1, <2>2
<1>9. ASSUME NEW k \in 1..n, k - 1 \in P PROVE k \in P
  <2> DEFINE a == acc[k-1]
             x == f[k]
             c == m[k]
  <2>1. Weighs(op, a, v) BY <1>1, <1>6
  <2>2. x \in 1..Len(v) /\ v[x] = v[k] BY DEF n
  <2>3. c \in Nat BY TermFacts DEF n
  <2>4. acc[k] = AddCount(a, x, c) BY <1>5
  <2>5. Sum(op, a, v) = s[k-1] BY <1>9
  <2>6. s[k] = Add(op, s[k-1], Times(op, c, v[k])) BY <1>7, PartialFacts DEF n
  <2> HIDE DEF a, x, c
  <2>7. Sum(op, AddCount(a, x, c), v) = Add(op, Sum(op, a, v), Times(op, c, v[x]))
    BY <2>1, <2>2, <2>3, SumAddCount
  <2>8. Sum(op, acc[k], v) = s[k] BY <2>2, <2>4, <2>5, <2>6, <2>7, Zenon
  <2> QED BY <2>8
<1> HIDE DEF P
<1>10. \A k \in 0..n : k \in P BY <1>1, <1>8, <1>9, IntervalInduction
<1>11. Sum(op, acc[n], v) = s[n] BY <1>1, <1>10 DEF P
<1>12. Weighs(op, acc[n], v) BY <1>1, <1>6
<1> QED BY <1>4, <1>7, <1>11, <1>12 DEF n

\* A new id changes no sum in which it does not occur.
LEMMA SumAppend ==
  ASSUME NEW op, NEW v, NEW m, Weighs(op, m, v), NEW d \in Dom,
         Len(v) + 1 <= MaxIds, m[Len(v) + 1] = 0
  PROVE  Sum(op, m, Append(v, d)) = Sum(op, m, v)
<1> DEFINE n == Len(v)
           vd == Append(v, d)
<1>1. op \in AcOps /\ n \in Nat BY TermFacts
<1>2. v \in Seq(Dom) /\ IsMset(Ids, m) BY DEF Weighs
<1>3. /\ vd \in Seq(Dom) /\ Len(vd) = n + 1
      /\ \A k \in 1..n : vd[k] = v[k]
      /\ vd[n + 1] = d
  BY <1>2
<1> HIDE DEF vd
<1>4. Weighs(op, m, vd) BY <1>1, <1>2, <1>3 DEF Weighs
<1>5. PICK s : PartialSums(op, m, v, s) /\ Sum(op, m, v) = s[n] BY SumPartial
<1>6. PICK u : PartialSums(op, m, vd, u) /\ Sum(op, m, vd) = u[n + 1]
  BY <1>3, <1>4, SumPartial
<1>7. /\ u[0] = Zero[op]
      /\ \A k \in 1..(n + 1) : u[k] = Add(op, u[k-1], Times(op, m[k], vd[k]))
      /\ \A k \in 0..(n + 1) : u[k] \in Dom
  BY <1>3, <1>4, <1>6, PartialFacts
<1>8. s[0] = Zero[op] /\ \A k \in 1..n : s[k] = Add(op, s[k-1], Times(op, m[k], v[k]))
  BY <1>5, PartialFacts
<1> DEFINE P == {k \in 0..n : u[k] = s[k]}
<1> HIDE DEF n
<1>9. 0 \in P BY <1>1, <1>7, <1>8
<1>10. ASSUME NEW k \in 1..n, k - 1 \in P PROVE k \in P
  <2>1. u[k] = Add(op, u[k-1], Times(op, m[k], vd[k])) BY <1>1, <1>7
  <2>2. s[k] = Add(op, s[k-1], Times(op, m[k], v[k])) BY <1>8
  <2>3. u[k-1] = s[k-1] /\ vd[k] = v[k] BY <1>3, <1>10
  <2> QED BY <1>1, <2>1, <2>2, <2>3
<1> HIDE DEF P
<1>11. \A k \in 0..n : k \in P BY <1>1, <1>9, <1>10, IntervalInduction
<1>12. u[n] = s[n] BY <1>1, <1>11 DEF P
<1>13. u[n + 1] = u[n]
  <2> DEFINE a == u[n]
  <2>1. a \in Dom BY <1>1, <1>7
  <2>2. (n + 1) - 1 = n /\ n + 1 \in 1..(n + 1) BY <1>1
  <2>3. u[n + 1] = Add(op, u[(n + 1) - 1], Times(op, m[n + 1], vd[n + 1]))
    BY <1>7, <2>2
  <2>4. m[n + 1] = 0 BY DEF n
  <2>5. u[n + 1] = Add(op, a, Times(op, 0, d)) BY <1>3, <2>2, <2>3, <2>4
  <2> HIDE DEF a
  <2>6. Times(op, 0, d) = Zero[op] /\ Add(op, a, Zero[op]) = a
    BY <1>1, <2>1, TimesFacts, MonoidLaws
  <2>7. u[n + 1] = a BY <2>5, <2>6
  <2> QED BY <2>7 DEF a
<1> QED BY <1>5, <1>6, <1>12, <1>13 DEF vd
-----------------------------------------------------------------------------

\* Every id has a value.
Valued == val \in Seq(Dom) /\ Len(val) = Len(rep)

\* A term over ids that exist has a value.
LEMMA ValueType ==
  ASSUME UF!IsPartition, Valued, NEW op \in Ops, NEW args \in Args(op)
  PROVE  /\ Value(op, args, val) \in Dom
         /\ op \in AcOps => Weighs(op, args, val)
<1>1. CASE op \in AcOps
  <2>1. args \in Mset BY <1>1 DEF Args
  <2>2. Weighs(op, args, val)
    BY <1>1, <2>1, PartitionFacts DEF Weighs, IsMset, Mset, Valued
  <2>3. Sum(op, args, val) \in Dom BY <2>2, SumPartial
  <2> QED BY <1>1, <2>2, <2>3 DEF Value
<1>2. CASE op \notin AcOps
  <2>1. op \in RowOps BY <1>2 DEF Ops
  <2>2. args \in [1..Arity[op] -> Live] BY <1>2 DEF Args
  <2> DEFINE t == [i \in 1..Arity[op] |-> val[args[i]]]
  <2>3. t \in [1..Arity[op] -> Dom] BY <2>2 DEF Valued, Live
  <2> HIDE DEF t
  <2>4. Interp[op][t] \in Dom BY <2>1, <2>3, AlgebraAssumption
  <2> QED BY <1>2, <2>4 DEF Value, t
<1> QED BY <1>1, <1>2

\* Canonical children have the value of the children they stand for.
LEMMA ValueCanon ==
  ASSUME UF!IsPartition, Valued, ClassesHold, NEW op \in Ops, NEW args \in Args(op)
  PROVE  Value(op, CanonArgs(op, args), val) = Value(op, args, val)
<1>1. CASE op \in AcOps
  <2>1. Weighs(op, args, val) BY <1>1, ValueType
  <2>2. /\ rep \in [1..Len(val) -> 1..Len(val)]
        /\ \A k \in 1..Len(val) : val[rep[k]] = val[k]
    BY PartitionFacts DEF Valued, ClassesHold, Live
  <2>3. Sum(op, MapMset(args, rep, Len(val)), val) = Sum(op, args, val)
    BY <2>1, <2>2, SumMap
  <2> QED BY <1>1, <2>3 DEF Value, CanonArgs, Valued
<1>2. CASE op \notin AcOps
  <2>1. args \in [1..Arity[op] -> Live] BY <1>2 DEF Args
  <2> DEFINE c == [i \in 1..Arity[op] |-> rep[args[i]]]
  <2>2. \A i \in 1..Arity[op] : val[c[i]] = val[args[i]] BY <2>1 DEF ClassesHold
  <2>3. CanonArgs(op, args) = c BY <1>2 DEF CanonArgs
  <2> HIDE DEF c
  <2>4. [i \in 1..Arity[op] |-> val[c[i]]] = [i \in 1..Arity[op] |-> val[args[i]]]
    BY <2>2
  <2> QED BY <1>2, <2>3, <2>4 DEF Value
<1> QED BY <1>1, <1>2

\* A new id changes the value of no term over the old ones.
LEMMA ValueAppend ==
  ASSUME UF!IsPartition, Valued, Len(rep) < MaxIds, NEW d \in Dom,
         NEW op \in Ops, NEW args \in Args(op)
  PROVE  Value(op, args, Append(val, d)) = Value(op, args, val)
<1> DEFINE n == Len(val)
<1>1. n \in Nat /\ n + 1 <= MaxIds /\ n = Len(rep) /\ n + 1 \in Ids
  BY PartitionFacts, MaxIdsAssumption DEF Valued, Ids
<1>2. CASE op \in AcOps
  <2>1. Weighs(op, args, val) BY <1>2, ValueType
  <2>2. args[n + 1] = 0
    <3>1. args \in Mset /\ (args[n + 1] > 0 => n + 1 \in Live) BY <1>1, <1>2 DEF Args
    <3>2. n + 1 \notin Live BY <1>1 DEF Live
    <3>3. args[n + 1] \in Nat BY <1>1, <3>1 DEF Mset
    <3> QED BY <3>1, <3>2, <3>3
  <2>3. Sum(op, args, Append(val, d)) = Sum(op, args, val)
    BY <1>1, <2>1, <2>2, SumAppend
  <2> QED BY <1>2, <2>3 DEF Value
<1>3. CASE op \notin AcOps
  <2>1. args \in [1..Arity[op] -> Live] BY <1>3 DEF Args
  <2>2. \A x \in Live : Append(val, d)[x] = val[x] BY <1>1 DEF Valued, Live
  <2> DEFINE v == Append(val, d)
  <2> HIDE DEF v
  <2>3. [i \in 1..Arity[op] |-> v[args[i]]] = [i \in 1..Arity[op] |-> val[args[i]]]
    BY <2>1, <2>2 DEF v
  <2> QED BY <1>3, <2>3 DEF Value, v
<1> QED BY <1>2, <1>3

\* flatten and unflatten derive consequences of the tuples they find.
LEMMA DerivedHolds ==
  ASSUME UF!IsPartition, Valued, NEW op \in AcOps, rows[op] \subseteq Row(op),
         \A r \in rows[op] : Holds(op, r.args, r.id)
  PROVE  \A r \in Flattened(op) \cup Unflattened(op) : Holds(op, r.args, r.id)
<1>1. ASSUME NEW r \in rows[op]
      PROVE  /\ Weighs(op, r.args, val) /\ Sum(op, r.args, val) = val[r.id]
             /\ r.id \in 1..Len(val) /\ r.id \in Ids /\ val[r.id] \in Dom
  <2>1. op \in Ops /\ r.args \in Args(op) /\ r.id \in Live BY <1>1 DEF Row, Ops
  <2>2. Weighs(op, r.args, val) BY <2>1, ValueType
  <2>3. r.id \in 1..Len(val) /\ r.id \in Ids BY <2>1, PartitionFacts DEF Valued, Live
  <2>4. Sum(op, r.args, val) = val[r.id] BY <1>1 DEF Holds, Value
  <2> QED BY <2>2, <2>3, <2>4 DEF Valued
<1>2. ASSUME NEW a, NEW b, Weighs(op, a, val), Weighs(op, b, val),
             NEW i \in 1..Len(val), i \in Ids, val[i] \in Dom,
             Sum(op, b, val) = val[i], a[i] > 0
      PROVE  Sum(op, InsertAll(Remove(a, i), b), val) = Sum(op, a, val)
  <2> DEFINE c == Remove(a, i)
             ci == AddCount(c, i, 1)
             S == Sum(op, c, val)
  <2>1. IsMset(Ids, a) /\ val \in Seq(Dom) /\ Len(val) <= MaxIds BY <1>2 DEF Weighs
  <2>2. IsMset(Ids, c) /\ \A y \in Ids : c[y] = IF y = i THEN (IF a[y] > 0 THEN a[y] - 1 ELSE 0)
                                                ELSE a[y]
    BY <1>2, <2>1, InsertRemoveFacts
  <2> HIDE DEF c
  <2>3. IsMset(Ids, ci) /\ \A y \in Ids : ci[y] = IF y = i THEN c[y] + 1 ELSE c[y]
    BY <1>2, <2>2 DEF AddCount, IsMset
  <2> HIDE DEF ci
  <2>4. \A y \in Ids : ci[y] = a[y]
    <3>1. \A y \in Ids : a[y] \in Nat BY <2>1 DEF IsMset
    <3> QED BY <3>1, <2>2, <2>3, <1>2
  <2>5. ci = a BY <2>1, <2>3, <2>4 DEF IsMset
  <2>6. Weighs(op, c, val) BY <2>1, <2>2 DEF Weighs
  <2>7. Sum(op, ci, val) = Add(op, S, Times(op, 1, val[i]))
    <3>1. 1 \in Nat OBVIOUS
    <3> QED BY <3>1, <1>2, <2>6, SumAddCount DEF ci
  <2>8. Times(op, 1, val[i]) = val[i] BY <1>2, TimesFacts
  <2>9. Sum(op, InsertAll(c, b), val) = Add(op, S, val[i])
    BY <1>2, <2>6, SumInsertAll
  <2> QED BY <2>5, <2>7, <2>8, <2>9, Zenon DEF c
<1>3. ASSUME NEW a, NEW b, Weighs(op, a, val), Weighs(op, b, val),
             NEW i \in 1..Len(val), i \in Ids, val[i] \in Dom,
             Sum(op, b, val) = val[i], Includes(a, b)
      PROVE  Sum(op, Insert(MsetDiff(a, b), i), val) = Sum(op, a, val)
  <2> DEFINE c == MsetDiff(a, b)
             cb == InsertAll(c, b)
             S == Sum(op, c, val)
  <2>1. /\ IsMset(Ids, a) /\ IsMset(Ids, b)
        /\ val \in Seq(Dom) /\ Len(val) <= MaxIds
    BY <1>3 DEF Weighs
  <2>2. /\ IsMset(Ids, c)
        /\ \A y \in Ids : c[y] = IF a[y] > b[y] THEN a[y] - b[y] ELSE 0
    BY <2>1, SumDiffFacts
  <2> HIDE DEF c
  <2>3. IsMset(Ids, cb) /\ \A y \in Ids : cb[y] = c[y] + b[y]
    BY <2>1, <2>2, SumDiffFacts
  <2> HIDE DEF cb
  <2>4. \A y \in Ids : cb[y] = a[y]
    <3>1. \A y \in Ids : a[y] \in Nat /\ b[y] \in Nat BY <2>1 DEF IsMset
    <3>2. \A y \in Ids : b[y] <= a[y] BY <1>3, <2>1 DEF Includes, IsMset
    <3> QED BY <3>1, <3>2, <2>2, <2>3
  <2>5. cb = a BY <2>1, <2>3, <2>4 DEF IsMset
  <2>6. Weighs(op, c, val) BY <2>1, <2>2 DEF Weighs
  <2>7. Sum(op, cb, val) = Add(op, S, val[i])
    BY <1>3, <2>6, SumInsertAll DEF cb
  <2>8. Times(op, 1, val[i]) = val[i] BY <1>3, TimesFacts
  <2>9. Insert(c, i) = AddCount(c, i, 1) BY DEF Insert, AddCount
  <2>10. Sum(op, AddCount(c, i, 1), val) = Add(op, S, Times(op, 1, val[i]))
    <3>1. 1 \in Nat OBVIOUS
    <3> QED BY <3>1, <1>3, <2>6, SumAddCount
  <2> QED BY <2>5, <2>7, <2>8, <2>9, <2>10, Zenon DEF c
<1>4. ASSUME NEW q \in rows[op], NEW r \in rows[op], Contains(q.args, r.id)
      PROVE  Holds(op, InsertAll(Remove(q.args, r.id), r.args), q.id)
  <2> DEFINE a == q.args
             b == r.args
             i == r.id
  <2>1. /\ Weighs(op, a, val) /\ Weighs(op, b, val) /\ i \in 1..Len(val) /\ i \in Ids
        /\ val[i] \in Dom /\ Sum(op, b, val) = val[i] /\ Sum(op, a, val) = val[q.id]
    BY <1>1
  <2>2. a[i] > 0 BY <1>4 DEF Contains
  <2> HIDE DEF a, b, i
  <2>3. Sum(op, InsertAll(Remove(a, i), b), val) = val[q.id] BY <1>2, <2>1, <2>2
  <2> QED BY <2>3 DEF Holds, Value, a, b, i
<1>5. ASSUME NEW q \in rows[op], NEW r \in rows[op], Includes(q.args, r.args)
      PROVE  Holds(op, Insert(MsetDiff(q.args, r.args), r.id), q.id)
  <2> DEFINE a == q.args
             b == r.args
             i == r.id
  <2>1. /\ Weighs(op, a, val) /\ Weighs(op, b, val) /\ i \in 1..Len(val) /\ i \in Ids
        /\ val[i] \in Dom /\ Sum(op, b, val) = val[i] /\ Sum(op, a, val) = val[q.id]
    BY <1>1
  <2>2. Includes(a, b) BY <1>5
  <2> HIDE DEF a, b, i
  <2>3. Sum(op, Insert(MsetDiff(a, b), i), val) = val[q.id] BY <1>3, <2>1, <2>2
  <2> QED BY <2>3 DEF Holds, Value, a, b, i
<1> QED BY <1>4, <1>5 DEF Flattened, Unflattened

-----------------------------------------------------------------------------
\* The inductive invariant.
SoundInv == TypeOK /\ Valued /\ Sound

\* Merging classes of equal value keeps the classes sound.
LEMMA UnionSound ==
  ASSUME UF!IsPartition, Valued, ClassesHold, NEW a \in Live, NEW b \in Live,
         val[a] = val[b], UF!Union(a, b), val' = val
  PROVE  Valued' /\ ClassesHold' /\ Live' = Live
<1>1. /\ Len(rep') = Len(rep)
      /\ \A x \in Live : rep'[x] # rep[x] =>
           rep[x] \in {rep[a], rep[b]} /\ rep'[x] \in {rep[a], rep[b]}
  BY UnionFacts
<1>2. Valued' /\ Live' = Live BY <1>1 DEF Valued, Live
<1>3. val[rep[a]] = val[rep[b]] BY DEF ClassesHold
<1>4. \A x \in Live : val[rep'[x]] = val[rep[x]] BY <1>1, <1>3
<1>5. ClassesHold' BY <1>2, <1>4 DEF ClassesHold
<1> QED BY <1>2, <1>5

\* The empty e-graph is sound.
LEMMA InitSound == SoundInit => SoundInv
<1> SUFFICES ASSUME SoundInit PROVE SoundInv OBVIOUS
<1>1. Init /\ val = << >> BY DEF SoundInit
<1>2. TypeOK BY <1>1, InitType
<1>3. Valued BY <1>1 DEF Init, Valued
<1>4. ClassesHold BY <1>1 DEF Init, ClassesHold, Live
<1>5. RowsHold BY <1>1 DEF Init, RowsHold, AllRows
<1>6. MemoHolds BY <1>1 DEF Init, MemoHolds
<1> QED BY <1>2, <1>3, <1>4, <1>5, <1>6 DEF SoundInv, Sound

\* add_enode: the new id gets the value of the new term, and the term with
\* canonical children has it too.
LEMMA AddEnodeSound ==
  ASSUME SoundInv, NEW op \in Ops, NEW args \in CallArgs(op), AddEnode(op, args),
         val' = IF rep' = rep THEN val ELSE Append(val, Value(op, args, val))
  PROVE  Valued' /\ Sound'
<1> DEFINE e == ENode(op, CanonArgs(op, args))
           n == Len(rep)
           d == Value(op, args, val)
<1>0. /\ TypeOK /\ Valued /\ ClassesHold /\ RowsHold /\ MemoHolds
      /\ UF!IsPartition /\ MemoOK /\ phase = "idle"
      /\ UNCHANGED <<phase, pending, todo, cur, changed, did, merged, quiet>>
  BY DEF SoundInv, Sound, TypeOK, AddEnode
<1>1. \A o : AllRows(o) = rows[o] /\ AllRows(o)' = rows'[o] BY <1>0 DEF AllRows
<1>2. CASE UNCHANGED store
  <2>1. rep' = rep /\ memo' = memo /\ rows' = rows /\ val' = val BY <1>2 DEF store
  <2>2. Valued' /\ ClassesHold' BY <2>1, <1>0 DEF Valued, ClassesHold, Live
  <2>3. MemoHolds' BY <2>1, <1>0 DEF MemoHolds, Holds
  <2>4. RowsHold' BY <2>1, <1>0, <1>1 DEF RowsHold, Holds
  <2> QED BY <2>2, <2>3, <2>4 DEF Sound
<1>3. CASE /\ UF!MakeSet
           /\ rows' = [rows EXCEPT ![op] = @ \cup {[args |-> e.args, id |-> n + 1]}]
           /\ memo' = [k \in DOMAIN memo \cup {e} |-> IF k = e THEN n + 1 ELSE memo[k]]
  <2>1. /\ Len(rep') = n + 1 /\ n \in Nat /\ n < MaxIds
        /\ rep'[n + 1] = n + 1 /\ \A x \in Live : rep'[x] = rep[x]
    BY <1>0, <1>3, MakeSetFacts, PartitionFacts DEF UF!MakeSet
  <2>2. val' = Append(val, d)
    <3>1. rep' # rep BY <2>1
    <3> QED BY <3>1
  <2>3. args \in Args(op) BY DEF CallArgs
  <2>4. d \in Dom BY <1>0, <2>3, ValueType
  <2>5. /\ e.op = op /\ e.args = CanonArgs(op, args) /\ e.args \in Args(op)
        /\ Value(op, e.args, val) = d
    BY <1>0, <2>3, CanonArgsType, ValueCanon DEF ENode
  <2> HIDE DEF d, e
  <2>6. Valued' BY <1>0, <2>1, <2>2, <2>4 DEF Valued
  <2>7. val'[n + 1] = d /\ \A x \in Live : val'[x] = val[x]
    BY <1>0, <2>1, <2>2, <2>4 DEF Valued, Live
  <2>8. \A o \in Ops : \A a \in Args(o) : Value(o, a, val') = Value(o, a, val)
    BY <1>0, <2>1, <2>2, <2>4, ValueAppend
  <2>9. Value(op, e.args, val') = val'[n + 1] BY <2>5, <2>7, <2>8
  <2>10. ClassesHold'
    <3> SUFFICES ASSUME NEW x \in Live' PROVE val'[rep'[x]] = val'[x]
      BY DEF ClassesHold
    <3>1. CASE x = n + 1 BY <3>1, <2>1
    <3>2. CASE x # n + 1
      <4>1. x \in Live BY <3>2, <2>1 DEF Live
      <4>2. rep[x] \in Live /\ val[rep[x]] = val[x]
        BY <4>1, <1>0, PartitionFacts DEF ClassesHold
      <4> QED BY <4>1, <4>2, <2>1, <2>7
    <3> QED BY <3>1, <3>2
  <2>11. RowsHold'
    <3> SUFFICES ASSUME NEW o \in Ops, NEW r \in rows'[o]
                 PROVE  Value(o, r.args, val') = val'[r.id]
      BY <1>1 DEF RowsHold, Holds
    <3> DEFINE s == [args |-> e.args, id |-> n + 1]
    <3>1. CASE r \in rows[o]
      <4>1. r.args \in Args(o) /\ r.id \in Live BY <1>0, <3>1 DEF TypeOK, RowsOK, Row
      <4>2. Value(o, r.args, val) = val[r.id] BY <1>0, <1>1, <3>1 DEF RowsHold, Holds
      <4> QED BY <4>1, <4>2, <2>7, <2>8
    <3>2. CASE r \notin rows[o]
      <4>1. o = op /\ r = s
        <5> HIDE DEF s
        <5> QED BY <1>0, <1>3, <3>2 DEF TypeOK, RowsOK, s
      <4>2. r.args = e.args /\ r.id = n + 1 BY <4>1
      <4> QED BY <4>1, <4>2, <2>9
    <3> QED BY <3>1, <3>2
  <2>12. MemoHolds'
    <3> SUFFICES ASSUME NEW k \in DOMAIN memo'
                 PROVE  Value(k.op, k.args, val') = val'[memo'[k]]
      BY DEF MemoHolds, Holds
    <3>1. CASE k = e
      <4>1. memo'[k] = n + 1 BY <1>3, <3>1
      <4> QED BY <4>1, <3>1, <2>5, <2>9
    <3>2. CASE k # e
      <4>1. k \in DOMAIN memo /\ memo'[k] = memo[k] BY <1>3, <3>2
      <4>2. k.op \in Ops /\ k.args \in Args(k.op) /\ memo[k] \in Live
        BY <4>1, <1>0 DEF MemoOK
      <4>3. Value(k.op, k.args, val) = val[memo[k]] BY <4>1, <1>0 DEF MemoHolds, Holds
      <4> QED BY <4>1, <4>2, <4>3, <2>7, <2>8
    <3> QED BY <3>1, <3>2
  <2> QED BY <2>6, <2>10, <2>11, <2>12 DEF Sound
<1> QED BY <1>2, <1>3 DEF AddEnode, e, n

\* unify, called with ids of equal value.
LEMMA UnifySound ==
  ASSUME SoundInv, NEW a \in Live, NEW b \in Live, val[a] = val[b],
         Unify(a, b), val' = val
  PROVE  Valued' /\ Sound'
<1>0. /\ Valued /\ ClassesHold /\ RowsHold /\ MemoHolds /\ UF!IsPartition
      /\ UF!Union(a, b) /\ UNCHANGED <<memo, rows, phase, pending, todo, cur>>
  BY DEF SoundInv, Sound, TypeOK, Unify
<1>1. Valued' /\ ClassesHold' BY <1>0, UnionSound
<1>2. RowsHold' BY <1>0 DEF RowsHold, AllRows, Holds
<1>3. MemoHolds' BY <1>0 DEF MemoHolds, Holds
<1> QED BY <1>1, <1>2, <1>3 DEF Sound

\* The first part of rebuild: a memo entry with canonical children and id says
\* the same.
LEMMA RebuildSound ==
  ASSUME SoundInv, Rebuild, val' = val
  PROVE  Valued' /\ Sound'
<1>0. /\ TypeOK /\ Valued /\ ClassesHold /\ RowsHold /\ MemoHolds
      /\ UF!IsPartition /\ MemoOK
      /\ phase = "idle" /\ phase' = "relation" /\ UNCHANGED <<rep, rows, todo, cur>>
  BY DEF SoundInv, Sound, TypeOK, Rebuild
<1>1. Valued' /\ ClassesHold' BY <1>0 DEF Valued, ClassesHold, Live
<1>2. RowsHold' BY <1>0 DEF RowsHold, AllRows, Holds
<1>3. MemoHolds'
  <2>1. PICK winners \in SUBSET DOMAIN memo :
          memo' = [k \in {CanonENode(e) : e \in winners} |->
                     rep[memo[CHOOSE e \in winners : CanonENode(e) = k]]]
    BY DEF Rebuild
  <2> SUFFICES ASSUME NEW k \in DOMAIN memo'
               PROVE  Value(k.op, k.args, val) = val[memo'[k]]
    BY DEF MemoHolds, Holds
  <2>2. \E e \in winners : CanonENode(e) = k BY <2>1
  <2> DEFINE w == CHOOSE e \in winners : CanonENode(e) = k
  <2>3. w \in winners /\ CanonENode(w) = k BY <2>2
  <2>4. memo'[k] = rep[memo[w]] BY <2>1
  <2> HIDE DEF w
  <2>5. w.op \in Ops /\ w.args \in Args(w.op) /\ memo[w] \in Live
    BY <2>3, <1>0 DEF MemoOK
  <2>6. k.op = w.op /\ k.args = CanonArgs(w.op, w.args)
    BY <2>3 DEF CanonENode, ENode
  <2>7. Value(w.op, CanonArgs(w.op, w.args), val) = Value(w.op, w.args, val)
    BY <2>5, <1>0, ValueCanon
  <2>8. Value(w.op, w.args, val) = val[memo[w]] BY <2>3, <1>0 DEF MemoHolds, Holds
  <2>9. val[rep[memo[w]]] = val[memo[w]] BY <2>5, <1>0 DEF ClassesHold
  <2> QED BY <2>4, <2>6, <2>7, <2>8, <2>9
<1> QED BY <1>1, <1>2, <1>3 DEF Sound

\* A canonical tuple says what the tuple says.
LEMMA CanonRowHolds ==
  ASSUME TypeOK, Valued, ClassesHold, NEW op \in Ops, NEW r \in Row(op),
         Holds(op, r.args, r.id)
  PROVE  LET c == CanonRow(op, r) IN Holds(op, c.args, c.id)
<1>1. r.args \in Args(op) /\ r.id \in Live BY DEF Row
<1>2. Value(op, CanonArgs(op, r.args), val) = Value(op, r.args, val)
  BY <1>1, ValueCanon DEF TypeOK
<1>3. val[rep[r.id]] = val[r.id] BY <1>1 DEF ClassesHold
<1> QED BY <1>2, <1>3 DEF Holds, CanonRow

\* Making a relation canonical, at once or as the tuples of a scan.
LEMMA CanonicalizeSound ==
  ASSUME SoundInv, RowCanonicalize \/ AcCanonicalize, val' = val
  PROVE  Valued' /\ Sound'
<1> DEFINE op == Current
           canon == {CanonRow(op, r) : r \in rows[op]}
           canonical == {<<r, CanonRow(op, r)>> : r \in rows[op]}
<1>0. /\ TypeOK /\ Valued /\ ClassesHold /\ RowsHold /\ MemoHolds
      /\ ControlOK /\ UNCHANGED <<rep, memo>> /\ phase # "scan"
  BY DEF SoundInv, Sound, TypeOK, RowCanonicalize, AcCanonicalize
<1>1. op \in Ops
  BY <1>0 DEF RowCanonicalize, AcCanonicalize, ControlOK, Ops
<1>2. \A r \in canon : Value(op, r.args, val) = val[r.id]
  <2> SUFFICES ASSUME NEW r \in rows[op]
               PROVE  Holds(op, CanonRow(op, r).args, CanonRow(op, r).id)
    BY DEF Holds
  <2>1. r \in Row(op) BY <1>0, <1>1 DEF TypeOK, RowsOK
  <2>2. Holds(op, r.args, r.id) BY <1>0, <1>1 DEF RowsHold, AllRows
  <2> QED BY <2>1, <2>2, <1>0, <1>1, CanonRowHolds
<1>3. \A t \in canonical : t[2] \in canon OBVIOUS
<1> DEFINE Claim == \A o \in Ops : \A r \in AllRows(o)' :
                      (o = op /\ r \in canon) \/ r \in rows[o]
<1> HIDE DEF canon, canonical
<1>4. ASSUME RowCanonicalize PROVE Claim
  <2>1. CASE /\ rows' = [rows EXCEPT ![op] = {t[2] : t \in canonical}]
             /\ UNCHANGED <<phase, todo, cur>>
    <3> DEFINE new == {t[2] : t \in canonical}
    <3>1. new \subseteq canon BY <1>3
    <3> HIDE DEF new
    <3>2. rows' = [rows EXCEPT ![op] = new] BY <2>1 DEF new
    <3>3. \A o : AllRows(o)' = rows'[o] BY <2>1, <1>0 DEF AllRows
    <3> HIDE DEF op
    <3> QED BY <3>1, <3>2, <3>3, <1>0, <1>1 DEF TypeOK, RowsOK
  <2>2. CASE /\ \E t \in First(canonical) : cur' = {t[2]} /\ todo' = canonical \ {t}
             /\ rows' = [rows EXCEPT ![op] = {}]
             /\ phase' = "scan" /\ UNCHANGED pending
    <3>1. cur' \subseteq canon /\ \A t \in todo' : t[2] \in canon
      BY <2>2, <1>3 DEF First
    <3>2. phase' = "scan" /\ Head(pending)' = op BY <2>2 DEF Current
    <3>3. \A o : AllRows(o)' = IF o = op
                                 THEN rows'[o] \cup cur' \cup {t[2] : t \in todo'}
                                 ELSE rows'[o]
      BY <3>2 DEF AllRows
    <3>4. \A o \in Ops : rows'[o] \subseteq rows[o]
      BY <2>2, <1>0, <1>1 DEF TypeOK, RowsOK
    <3> HIDE DEF op
    <3> QED BY <3>1, <3>3, <3>4
  <2> QED BY <1>4, <2>1, <2>2 DEF RowCanonicalize, canonical
<1>5. ASSUME AcCanonicalize PROVE Claim
  <2>1. rows' = [rows EXCEPT ![op] = canon] /\ phase' # "scan"
    BY <1>5 DEF AcCanonicalize, canon
  <2>2. \A o : AllRows(o)' = rows'[o] BY <2>1 DEF AllRows
  <2> HIDE DEF op
  <2> QED BY <2>1, <2>2, <1>0, <1>1 DEF TypeOK, RowsOK
<1>6. Claim BY <1>4, <1>5
<1>7. RowsHold'
  <2> SUFFICES ASSUME NEW o \in Ops, NEW r \in AllRows(o)'
               PROVE  Value(o, r.args, val) = val[r.id]
    BY DEF RowsHold, Holds
  <2>1. CASE o = op /\ r \in canon BY <2>1, <1>2
  <2>2. CASE r \in rows[o] BY <2>2, <1>0 DEF RowsHold, Holds, AllRows
  <2> QED BY <2>1, <2>2, <1>6
<1>8. Valued' /\ ClassesHold' BY <1>0 DEF Valued, ClassesHold, Live
<1>9. MemoHolds' BY <1>0 DEF MemoHolds, Holds
<1> QED BY <1>7, <1>8, <1>9 DEF Sound

\* The scan: neighbours with equal arguments have equal values, so that
\* unifying them is sound, and both may carry the root.
LEMMA RowScanSound ==
  ASSUME SoundInv, RowScan, val' = val
  PROVE  Valued' /\ Sound'
<1> DEFINE op == Current
<1>0. /\ TypeOK /\ Valued /\ ClassesHold /\ RowsHold /\ MemoHolds
      /\ UF!IsPartition /\ ScanOK /\ ControlOK /\ RowsOK
      /\ phase = "scan" /\ UNCHANGED <<memo, phase, pending>>
  BY DEF SoundInv, Sound, TypeOK, RowScan
<1>1. PICK c \in cur, t \in First(todo) :
        /\ todo' = todo \ {t}
        /\ \/ /\ t[2].args = c.args
              /\ UF!Union(c.id, t[2].id)
              /\ rows' = [rows EXCEPT ![op] = @ \cup
                           {[c EXCEPT !.id = UF!Merged(rep, c.id, t[2].id)[c.id]]}]
              /\ cur' = {[t[2] EXCEPT !.id = UF!Merged(rep, c.id, t[2].id)[c.id]]}
           \/ /\ rows' = [rows EXCEPT ![op] = @ \cup {c}]
              /\ cur' = {t[2]}
              /\ UNCHANGED rep
  BY DEF RowScan
<1> DEFINE d == t[2]
<1>2. op \in Ops /\ op' = op /\ Head(pending) = op /\ Head(pending)' = op
  BY <1>0 DEF ControlOK, Ops, Current
<1>3. c \in Row(op) /\ d \in Row(op) /\ c \in AllRows(op) /\ d \in AllRows(op)
  BY <1>0, <1>1, <1>2 DEF ScanOK, First, AllRows
<1>4. /\ Value(op, c.args, val) = val[c.id] /\ Value(op, d.args, val) = val[d.id]
      /\ c.id \in Live /\ d.id \in Live
  BY <1>0, <1>2, <1>3 DEF RowsHold, Holds, Row
<1>5. \A o : AllRows(o)' = IF o = op THEN rows'[o] \cup cur' \cup {s[2] : s \in todo'}
                                     ELSE rows'[o]
  BY <1>0, <1>2 DEF AllRows
<1>6. \A o : AllRows(o) = IF o = op THEN rows[o] \cup cur \cup {s[2] : s \in todo}
                                    ELSE rows[o]
  BY <1>0, <1>2 DEF AllRows
<1>7. DOMAIN rows = Ops BY <1>0 DEF RowsOK
<1>8. MemoHolds' BY <1>0 DEF MemoHolds, Holds
<1>9. todo' \subseteq todo BY <1>1
<1> HIDE DEF op, d
<1>10. ASSUME NEW x, NEW y, Value(op, x.args, val) = val[x.id],
              Value(op, y.args, val) = val[y.id],
              rows' = [rows EXCEPT ![op] = @ \cup {x}], cur' = {y}
       PROVE  RowsHold'
  <2> SUFFICES ASSUME NEW o \in Ops, NEW r \in AllRows(o)'
               PROVE  Value(o, r.args, val) = val[r.id]
    BY DEF RowsHold, Holds
  <2>1. rows'[o] \subseteq rows[o] \cup {x} /\ (o # op => rows'[o] = rows[o])
    BY <1>10, <1>2, <1>7
  <2>2. r \in AllRows(o) \/ (o = op /\ r \in {x, y})
    BY <2>1, <1>5, <1>6, <1>9, <1>10
  <2> QED BY <2>2, <1>0, <1>10 DEF RowsHold, Holds
<1>11. CASE /\ d.args = c.args
            /\ UF!Union(c.id, d.id)
            /\ rows' = [rows EXCEPT ![op] = @ \cup
                         {[c EXCEPT !.id = UF!Merged(rep, c.id, d.id)[c.id]]}]
            /\ cur' = {[d EXCEPT !.id = UF!Merged(rep, c.id, d.id)[c.id]]}
  <2> DEFINE root == UF!Merged(rep, c.id, d.id)[c.id]
             x == [c EXCEPT !.id = root]
             y == [d EXCEPT !.id = root]
  <2>1. val[c.id] = val[d.id] BY <1>4, <1>11
  <2>2. Valued' /\ ClassesHold' /\ Live' = Live BY <1>0, <1>4, <1>11, <2>1, UnionSound
  <2>3. root = rep'[c.id] BY <1>11 DEF UF!Union
  <2>4. val[root] = val[c.id] BY <2>2, <2>3, <1>4 DEF ClassesHold
  <2> HIDE DEF root
  <2>5. x.args = c.args /\ x.id = root /\ y.args = d.args /\ y.id = root
    BY <1>3 DEF Row
  <2>6. rows' = [rows EXCEPT ![op] = @ \cup {x}] /\ cur' = {y} BY <1>11 DEF root
  <2> HIDE DEF x, y
  <2>7. RowsHold' BY <1>4, <1>10, <2>1, <2>4, <2>5, <2>6
  <2> QED BY <2>2, <2>7, <1>8 DEF Sound
<1>12. CASE rows' = [rows EXCEPT ![op] = @ \cup {c}] /\ cur' = {d} /\ UNCHANGED rep
  <2>1. RowsHold' BY <1>4, <1>10, <1>12
  <2>2. Valued' /\ ClassesHold' BY <1>0, <1>12 DEF Valued, ClassesHold, Live
  <2> QED BY <2>1, <2>2, <1>8 DEF Sound
<1> QED BY <1>1, <1>11, <1>12 DEF op, d

\* The end of a scan.
LEMMA RowFinishSound ==
  ASSUME SoundInv, RowFinish, val' = val
  PROVE  Valued' /\ Sound'
<1>0. /\ TypeOK /\ Valued /\ ClassesHold /\ RowsHold /\ MemoHolds
      /\ ControlOK /\ RowsOK
      /\ phase = "scan" /\ phase' = "relation" /\ UNCHANGED <<rep, memo>>
      /\ rows' = [rows EXCEPT ![Current] = @ \cup cur]
  BY DEF SoundInv, Sound, TypeOK, RowFinish
<1>1. Current \in Ops /\ DOMAIN rows = Ops BY <1>0 DEF ControlOK, RowsOK, Ops
<1>2. \A o \in Ops : AllRows(o)' \subseteq AllRows(o)
  BY <1>0, <1>1 DEF AllRows, Current
<1>3. RowsHold' BY <1>0, <1>2 DEF RowsHold, Holds
<1>4. Valued' /\ ClassesHold' BY <1>0 DEF Valued, ClassesHold, Live
<1>5. MemoHolds' BY <1>0 DEF MemoHolds, Holds
<1> QED BY <1>3, <1>4, <1>5 DEF Sound

\* Congruence of an AC relation unifies tuples of one multiset.
LEMMA AcUnifySound ==
  ASSUME SoundInv, AcUnify, val' = val
  PROVE  Valued' /\ Sound'
<1> DEFINE op == Current
<1>0. /\ TypeOK /\ Valued /\ ClassesHold /\ RowsHold /\ MemoHolds
      /\ UF!IsPartition /\ ControlOK /\ RowsOK /\ phase = "congruence"
      /\ UNCHANGED <<memo, rows, phase, pending, todo, cur>>
  BY DEF SoundInv, Sound, TypeOK, AcUnify
<1>1. PICK p \in Congruent(op) : UF!Union(p[1].id, p[2].id) BY DEF AcUnify
<1>2. op \in Ops BY <1>0 DEF ControlOK, Ops
<1> DEFINE c == p[1]
           d == p[2]
<1>3. c \in rows[op] /\ d \in rows[op] /\ c.args = d.args BY DEF Congruent
<1> HIDE DEF op, c, d
<1>4. c.id \in Live /\ d.id \in Live BY <1>0, <1>2, <1>3 DEF RowsOK, Row
<1>5. Value(op, c.args, val) = val[c.id] /\ Value(op, d.args, val) = val[d.id]
  BY <1>0, <1>2, <1>3 DEF RowsHold, Holds, AllRows
<1>6. Valued' /\ ClassesHold'
  BY <1>0, <1>1, <1>3, <1>4, <1>5, UnionSound DEF c, d
<1>7. RowsHold' BY <1>0 DEF RowsHold, AllRows, Holds
<1>8. MemoHolds' BY <1>0 DEF MemoHolds, Holds
<1> QED BY <1>6, <1>7, <1>8 DEF Sound

\* Flattening and unflattening enter consequences in relation and memo.
LEMMA DeriveSound ==
  ASSUME SoundInv, AcFlatten \/ AcUnflatten, val' = val
  PROVE  Valued' /\ Sound'
<1> DEFINE op == Current
<1>0. /\ TypeOK /\ Valued /\ ClassesHold /\ RowsHold /\ MemoHolds
      /\ UF!IsPartition /\ ControlOK /\ RowsOK
      /\ phase \in {"flatten", "unflatten"} /\ phase' # "scan" /\ UNCHANGED rep
  BY DEF SoundInv, Sound, TypeOK, AcFlatten, AcUnflatten
<1>1. op \in AcOps /\ op \in Ops BY <1>0 DEF ControlOK, Ops
<1>2. rows[op] \subseteq Row(op) /\ DOMAIN rows = Ops BY <1>0, <1>1 DEF RowsOK
<1>3. \A r \in rows[op] : Holds(op, r.args, r.id)
  BY <1>0, <1>1 DEF RowsHold, AllRows
<1>4. \A r \in Flattened(op) \cup Unflattened(op) : Holds(op, r.args, r.id)
  <2> HIDE DEF op
  <2> QED BY <1>0, <1>1, <1>2, <1>3, DerivedHolds
<1>5. PICK derived \in {Flattened(op), Unflattened(op)} : Derive(op, derived)
  BY DEF AcFlatten, AcUnflatten
<1> HIDE DEF op
<1>6. \A r \in derived : Value(op, r.args, val) = val[r.id] BY <1>4 DEF Holds
<1> DEFINE new == derived \ rows[op]
           Owners(e) == {r.id : r \in {s \in new : ENode(op, s.args) = e}}
<1>7. rows' = [rows EXCEPT ![op] = @ \cup new] BY <1>5 DEF Derive
<1>8. RowsHold'
  <2> SUFFICES ASSUME NEW o \in Ops, NEW r \in rows'[o]
               PROVE  Value(o, r.args, val) = val[r.id]
    BY <1>0 DEF RowsHold, Holds, AllRows
  <2>1. r \in rows[o] \/ (o = op /\ r \in derived) BY <1>2, <1>7
  <2>2. CASE r \in rows[o] BY <2>2, <1>0 DEF RowsHold, Holds, AllRows
  <2> QED BY <2>1, <2>2, <1>6
<1>9. memo' = [e \in DOMAIN memo \cup {ENode(op, r.args) : r \in new} |->
                 IF e \in DOMAIN memo THEN memo[e]
                 ELSE CHOOSE x \in Owners(e) : \A y \in Owners(e) : x <= y]
  BY <1>5 DEF Derive
<1>10. MemoHolds'
  <2> SUFFICES ASSUME NEW e \in DOMAIN memo'
               PROVE  Value(e.op, e.args, val) = val[memo'[e]]
    BY DEF MemoHolds, Holds
  <2>1. CASE e \in DOMAIN memo
    <3>1. memo'[e] = memo[e] BY <2>1, <1>9
    <3> QED BY <3>1, <2>1, <1>0 DEF MemoHolds, Holds
  <2>2. CASE e \notin DOMAIN memo
    <3> DEFINE T == Owners(e)
    <3>1. PICK r \in new : e = ENode(op, r.args) BY <2>2, <1>9
    <3>2. derived \subseteq Row(op)
      BY <1>1, <1>2, <1>0, DerivedType, PartitionFacts
    <3>3. r.id \in T BY <3>1
    <3>4. T \subseteq Nat BY <3>2, <1>0, PartitionFacts DEF Row, Live
    <3>5. \A x \in T : \E s \in derived : x = s.id /\ s.args = e.args /\ e.op = op
      BY DEF ENode
    <3>6. memo'[e] = CHOOSE x \in T : \A y \in T : x <= y BY <2>2, <1>9
    <3> HIDE DEF T
    <3>7. \E x \in T : \A y \in T : x <= y BY <3>3, <3>4, LeastElement
    <3>8. memo'[e] \in T BY <3>6, <3>7
    <3> QED BY <3>5, <3>8, <1>6
  <2> QED BY <2>1, <2>2
<1>11. Valued' /\ ClassesHold' BY <1>0 DEF Valued, ClassesHold, Live
<1> QED BY <1>8, <1>10, <1>11 DEF Sound

\* Steps that leave ids, memo and tuples alone.
LEMMA StutterSound ==
  ASSUME SoundInv, AcCongruent \/ RebuildReturn \/ UNCHANGED vars, val' = val
  PROVE  Valued' /\ Sound'
<1>0. /\ TypeOK /\ Valued /\ ClassesHold /\ RowsHold /\ MemoHolds
      /\ UNCHANGED <<rep, memo, rows>>
  BY DEF SoundInv, Sound, AcCongruent, RebuildReturn, vars
<1>1. \A o : AllRows(o)' = AllRows(o)
  BY DEF AllRows, AcCongruent, RebuildReturn, vars
<1>2. RowsHold' BY <1>0, <1>1 DEF RowsHold, Holds
<1>3. Valued' /\ ClassesHold' BY <1>0 DEF Valued, ClassesHold, Live
<1>4. MemoHolds' BY <1>0 DEF MemoHolds, Holds
<1> QED BY <1>2, <1>3, <1>4 DEF Sound

\* Every step keeps the invariant.
LEMMA NextSound == SoundInv /\ [SoundNext]_<<vars, val>> => SoundInv'
<1> SUFFICES ASSUME SoundInv, [SoundNext]_<<vars, val>> PROVE SoundInv' OBVIOUS
<1>1. [Next]_vars BY DEF SoundNext, Next
<1>2. TypeOK' BY <1>1, NextType DEF SoundInv
<1>3. ASSUME NEW op \in Ops, NEW args \in CallArgs(op), AddEnode(op, args),
             val' = IF rep' = rep THEN val ELSE Append(val, Value(op, args, val))
      PROVE  Valued' /\ Sound'
  BY <1>3, AddEnodeSound
<1>4. ASSUME NEW a \in Live, NEW b \in Live, val[a] = val[b], Unify(a, b), val' = val
      PROVE  Valued' /\ Sound'
  BY <1>4, UnifySound
<1>5. ASSUME Rebuild \/ RebuildStep, val' = val PROVE Valued' /\ Sound'
  <2>1. CASE Rebuild BY <2>1, <1>5, RebuildSound
  <2>2. CASE RowCanonicalize \/ AcCanonicalize BY <2>2, <1>5, CanonicalizeSound
  <2>3. CASE RowScan BY <2>3, <1>5, RowScanSound
  <2>4. CASE RowFinish BY <2>4, <1>5, RowFinishSound
  <2>5. CASE AcUnify BY <2>5, <1>5, AcUnifySound
  <2>6. CASE AcFlatten \/ AcUnflatten BY <2>6, <1>5, DeriveSound
  <2>7. CASE AcCongruent \/ RebuildReturn BY <2>7, <1>5, StutterSound
  <2> QED BY <1>5, <2>1, <2>2, <2>3, <2>4, <2>5, <2>6, <2>7
          DEF RebuildStep, RowStep, AcStep
<1>6. ASSUME UNCHANGED <<vars, val>> PROVE Valued' /\ Sound'
  BY <1>6, StutterSound
<1>7. Valued' /\ Sound' BY <1>3, <1>4, <1>5, <1>6 DEF SoundNext
<1> QED BY <1>2, <1>7 DEF SoundInv

\* Whatever the e-graph equates is equal in the algebra, at every moment, for
\* every commutative monoid and every e-graph.
THEOREM Soundness == SoundSpec => []Sound
<1>1. SoundInv => Sound BY DEF SoundInv
<1> QED BY <1>1, InitSound, NextSound, PTL DEF SoundSpec
=============================================================================
