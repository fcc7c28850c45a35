---------------------------- MODULE BasicLemmas ----------------------------
(***************************************************************************)
(* Lemmas that the proofs of several modules use.                          *)
(*                                                                         *)
(* Induction for recursive functions: the lemmas take sets and functions,  *)
(* not operators, as their parameters: the set of the arguments at which a *)
(* claim holds, the function that one step applies.  Also the initial      *)
(* segments of an interval, and division.                                  *)
(*                                                                         *)
(* What Multiset::map computes, for any set S of ids that contains 1..n:   *)
(* the result is a multiset, obtained by adding the counts m[1], ..., m[n] *)
(* one after the other to the empty multiset, and its elements are images  *)
(* of 1..n.                                                                *)
(***************************************************************************)
EXTENDS Multisets, FiniteSets, TLAPS, WellFoundedInduction, FiniteSetTheorems

\* Every non-empty set of naturals has a least element.
LEMMA LeastElement ==
  ASSUME NEW T, T \subseteq Nat, T # {}
  PROVE  \E x \in T : \A y \in T : x <= y
<1> DEFINE R == {ss \in Nat \X Nat : ss[1] < ss[2]}
<1>1. IsWellFoundedOn(R, Nat)
  BY NatLessThanWellFounded DEF OpToRel
<1>2. \A a, b \in Nat : a < b => <<a, b>> \in R
  OBVIOUS
<1> HIDE DEF R
<1>3. PICK x \in T : \A y \in T : ~ (<<y, x>> \in R)
  BY <1>1, WFMin
<1>4. \A y \in T : ~(y < x)
  BY <1>2, <1>3
<1>5. \A y \in T : x <= y
  BY <1>4
<1> QED BY <1>5

\* Induction over 0..n: a set that holds 0 and with every number its successor
\* is everything.
LEMMA IntervalInduction ==
  ASSUME NEW n \in Nat, NEW P,
         0 \in P,
         \A k \in 1..n : k - 1 \in P => k \in P
  PROVE  \A k \in 0..n : k \in P
<1> DEFINE T == {k \in 0..n : k \notin P}
<1>1. ASSUME T # {} PROVE FALSE
  <2>1. PICK k \in T : \A j \in T : k <= j
    <3> T \subseteq Nat OBVIOUS
    <3> HIDE DEF T
    <3> QED BY <1>1, LeastElement
  <2>2. k \in 1..n /\ k - 1 \in 0..n BY <2>1
  <2>3. k - 1 \in P BY <2>1, <2>2
  <2> QED BY <2>1, <2>2, <2>3
<1> QED BY <1>1

\* The values of b, then the result of applying G[1], G[2], ... in turn.
Iterates(n, b, G, g) == g = [k \in 0..n |-> IF k = 0 THEN b ELSE G[k][g[k-1]]]

\* A recursion that steps through 1..n has a solution.
LEMMA IteratesExist ==
  ASSUME NEW n \in Nat, NEW b, NEW G
  PROVE  \E g : Iterates(n, b, G, g)
<1> DEFINE P == {k \in 0..n : \E g : Iterates(k, b, G, g)}
<1>1. 0 \in P
  <2> DEFINE g == [k \in 0..0 |-> b]
  <2>1. g = [k \in 0..0 |-> IF k = 0 THEN b ELSE G[k][g[k-1]]] OBVIOUS
  <2>2. \E h : Iterates(0, b, G, h) BY <2>1 DEF Iterates
  <2> QED BY <2>2
<1>2. ASSUME NEW k \in 1..n, k - 1 \in P PROVE k \in P
  <2>1. PICK g : g = [j \in 0..(k-1) |-> IF j = 0 THEN b ELSE G[j][g[j-1]]]
    BY <1>2 DEF Iterates
  <2> DEFINE h == [j \in 0..k |-> IF j = k THEN G[k][g[k-1]] ELSE g[j]]
  <2>2. \A j \in 0..k : h[j] = IF j = 0 THEN b ELSE G[j][h[j-1]]
    <3> SUFFICES ASSUME NEW j \in 0..k
                 PROVE  h[j] = IF j = 0 THEN b ELSE G[j][h[j-1]]
      OBVIOUS
    <3>1. CASE j = k BY <3>1
    <3>2. CASE j # k
      <4>1. j \in 0..(k-1) BY <3>2
      <4>2. h[j] = IF j = 0 THEN b ELSE G[j][g[j-1]] BY <4>1, <2>1
      <4>3. j # 0 => j - 1 \in 0..k /\ j - 1 # k BY <4>1
      <4> QED BY <4>2, <4>3
    <3> QED BY <3>1, <3>2
  <2>3. h = [j \in 0..k |-> IF j = 0 THEN b ELSE G[j][h[j-1]]] BY <2>2
  <2>4. \E f : Iterates(k, b, G, f)
    <3> HIDE DEF h
    <3> QED BY <2>3 DEF Iterates
  <2> QED BY <2>4
<1> HIDE DEF P
<1>3. n \in P BY <1>1, <1>2, IntervalInduction
<1> QED BY <1>3 DEF P

\* What a recursion through 1..n computes stays in the set its steps keep.
LEMMA IteratesType ==
  ASSUME NEW n \in Nat, NEW S, NEW b \in S, NEW G,
         \A k \in 1..n : \A s \in S : G[k][s] \in S,
         NEW g, Iterates(n, b, G, g)
  PROVE  g \in [0..n -> S]
<1> DEFINE P == {k \in 0..n : g[k] \in S}
<1>1. g = [k \in 0..n |-> IF k = 0 THEN b ELSE G[k][g[k-1]]] BY DEF Iterates
<1>2. 0 \in P BY <1>1
<1>3. \A k \in 1..n : k - 1 \in P => k \in P BY <1>1
<1> HIDE DEF P
<1>4. \A k \in 0..n : k \in P BY <1>2, <1>3, IntervalInduction
<1>5. \A k \in 0..n : g[k] \in S BY <1>4 DEF P
<1> QED BY <1>1, <1>5

\* A loop over 1..n that keeps to S has a result after each pass; G[k] is what
\* pass k does.
LEMMA LoopExists ==
  ASSUME NEW n \in Nat, NEW S, NEW b \in S, NEW G, G \in [1..n -> [S -> S]]
  PROVE  \E g \in [0..n -> S] : Iterates(n, b, G, g)
<1>1. PICK g : Iterates(n, b, G, g) BY IteratesExist
<1>2. \A k \in 1..n : \A s \in S : G[k][s] \in S OBVIOUS
<1>3. g \in [0..n -> S] BY <1>1, <1>2, IteratesType
<1> QED BY <1>1, <1>3

\* A set that with every number holds the smaller ones is an interval.
LEMMA InitialSegment ==
  ASSUME NEW n \in Nat, NEW B, B \subseteq 1..n,
         \A i, j \in 1..n : i < j /\ j \in B => i \in B
  PROVE  Cardinality(B) \in 0..n /\ B = 1..Cardinality(B)
<1> DEFINE T == {k \in Nat : k + 1 \notin B}
<1>1. n \in T OBVIOUS
<1>2. T \subseteq Nat /\ T # {} BY <1>1
<1>3. PICK m \in T : \A k \in T : m <= k
  <2> HIDE DEF T
  <2> QED BY <1>2, LeastElement
<1>4. m \in Nat /\ m <= n /\ m + 1 \notin B BY <1>1, <1>3
<1>5. 1..m \subseteq B
  <2> SUFFICES ASSUME NEW i \in 1..m PROVE i \in B OBVIOUS
  <2>1. i - 1 \in Nat /\ ~ (m <= i - 1) /\ (i - 1) + 1 = i BY <1>4
  <2>2. i - 1 \notin T BY <2>1, <1>3
  <2> QED BY <2>1, <2>2
<1>6. B \subseteq 1..m
  <2> SUFFICES ASSUME NEW x \in B, x > m PROVE FALSE BY <1>4
  <2>1. x \in 1..n /\ m + 1 \in 1..n BY <1>4
  <2>2. m + 1 < x \/ m + 1 = x BY <2>1, <1>4
  <2> QED BY <2>1, <2>2, <1>4
<1>7. B = 1..m BY <1>5, <1>6
<1>8. Cardinality(1..m) = m
  <2>1. 1 \in Int /\ m \in Int BY <1>4
  <2>2. Cardinality(1..m) = IF 1 > m THEN 0 ELSE m - 1 + 1 BY <2>1, FS_Interval
  <2> QED BY <2>2, <1>4
<1> QED BY <1>4, <1>7, <1>8

\* Division with remainder.
LEMMA Division ==
  ASSUME NEW a \in Nat, NEW p \in Nat \ {0}
  PROVE  /\ a % p \in 0..(p - 1)
         /\ \E q \in Nat : a = p * q + (a % p)
<1>1. a % p \in 0..(p - 1) OBVIOUS
<1>2. a = p * (a \div p) + (a % p)
  <2>1. a \in Int /\ p \in Int /\ p > 0 OBVIOUS
  <2> QED BY <2>1, Z3
<1>3. a \div p \in Nat
  <2>1. a \in Nat /\ p \in Nat /\ p > 0 OBVIOUS
  <2> QED BY <2>1
<1> QED BY <1>1, <1>2, <1>3
-----------------------------------------------------------------------------
IsMset(S, m) == m \in [S -> Nat]

\* m is a multiset over S, f a map from 1..n to S.
Renaming(S, n, m, f) ==
  n \in Nat /\ 1..n \subseteq S /\ IsMset(S, m) /\ f \in [1..n -> S]

\* c more occurrences of x.
AddCount(a, x, c) == [a EXCEPT ![x] = @ + c]

\* acc[k] is what map has gathered after k ids.
Gathers(S, m, f, n, acc) ==
  acc = [k \in 0..n |-> IF k = 0 THEN EmptyMset(S)
                        ELSE AddCount(acc[k-1], f[k], m[k])]

\* Adding occurrences of x changes the count of x only.
LEMMA AddCountFacts ==
  ASSUME NEW S, NEW a, IsMset(S, a), NEW x \in S, NEW c \in Nat
  PROVE  /\ IsMset(S, AddCount(a, x, c))
         /\ \A y \in S : AddCount(a, x, c)[y] = IF y = x THEN a[y] + c ELSE a[y]
BY DEF AddCount, IsMset

\* Every gathering keeps to multisets.
LEMMA GathersType ==
  ASSUME NEW S, NEW n, NEW m, NEW f, Renaming(S, n, m, f),
         NEW acc, Gathers(S, m, f, n, acc)
  PROVE  /\ \A k \in 0..n : IsMset(S, acc[k])
         /\ acc[0] = EmptyMset(S)
         /\ \A k \in 1..n : /\ k \in S /\ m[k] \in Nat /\ f[k] \in S
                            /\ acc[k] = AddCount(acc[k-1], f[k], m[k])
<1>0. n \in Nat BY DEF Renaming
<1> DEFINE P == {k \in 0..n : IsMset(S, acc[k])}
<1>1. acc = [k \in 0..n |-> IF k = 0 THEN EmptyMset(S)
                            ELSE AddCount(acc[k-1], f[k], m[k])]
  BY DEF Gathers
<1>2. acc[0] = EmptyMset(S) BY <1>0, <1>1
<1>3. \A k \in 1..n : acc[k] = AddCount(acc[k-1], f[k], m[k]) BY <1>0, <1>1
<1>4. \A k \in 1..n : k \in S /\ m[k] \in Nat /\ f[k] \in S BY DEF IsMset, Renaming
<1>5. 0 \in P
  <2>1. IsMset(S, EmptyMset(S)) BY DEF EmptyMset, IsMset
  <2> QED BY <2>1, <1>2, <1>0
<1>6. ASSUME NEW k \in 1..n, k - 1 \in P PROVE k \in P
  <2>0. k - 1 \in 0..n BY <1>0
  <2>1. IsMset(S, acc[k-1]) BY <1>6
  <2>2. IsMset(S, AddCount(acc[k-1], f[k], m[k])) BY <2>1, <1>4, AddCountFacts
  <2> QED BY <2>2, <1>3, <1>0
<1> HIDE DEF P
<1>7. \A k \in 0..n : k \in P BY <1>0, <1>5, <1>6, IntervalInduction
<1>8. \A k \in 0..n : IsMset(S, acc[k]) BY <1>7 DEF P
<1> QED BY <1>2, <1>3, <1>4, <1>8

\* The recursion of map has a solution, and MapMset is its last value.
LEMMA MapMsetGathers ==
  ASSUME NEW S, NEW n, NEW m, NEW f, Renaming(S, n, m, f)
  PROVE  \E acc : Gathers(S, m, f, n, acc) /\ MapMset(m, f, n) = acc[n]
<1> DEFINE G == [k \in 1..n |-> [a \in [S -> Nat] |-> AddCount(a, f[k], m[k])]]
           b == EmptyMset(S)
<1>0. n \in Nat BY DEF Renaming
<1>1. b \in [S -> Nat] BY DEF EmptyMset
<1>2. \A k \in 1..n : k \in S /\ m[k] \in Nat /\ f[k] \in S BY DEF IsMset, Renaming
<1>3. \A k \in 1..n : \A a \in [S -> Nat] : G[k][a] = AddCount(a, f[k], m[k])
  OBVIOUS
<1>4. \A k \in 1..n : \A a \in [S -> Nat] : G[k][a] \in [S -> Nat]
  <2> SUFFICES ASSUME NEW k \in 1..n, NEW a \in [S -> Nat]
               PROVE  G[k][a] \in [S -> Nat]
    OBVIOUS
  <2>1. IsMset(S, AddCount(a, f[k], m[k])) BY <1>2, AddCountFacts DEF IsMset
  <2> QED BY <2>1, <1>3 DEF IsMset
<1> HIDE DEF G, b
<1>5. PICK g : Iterates(n, b, G, g) BY <1>0, IteratesExist
<1>6. g \in [0..n -> [S -> Nat]] BY <1>0, <1>1, <1>4, <1>5, IteratesType
<1>7. Gathers(S, m, f, n, g)
  <2>1. g = [k \in 0..n |-> IF k = 0 THEN b ELSE G[k][g[k-1]]] BY <1>5 DEF Iterates
  <2>2. \A k \in 1..n : G[k][g[k-1]] = AddCount(g[k-1], f[k], m[k])
    <3> SUFFICES ASSUME NEW k \in 1..n
                 PROVE  G[k][g[k-1]] = AddCount(g[k-1], f[k], m[k])
      OBVIOUS
    <3> DEFINE a == g[k-1]
    <3>1. a \in [S -> Nat] BY <1>0, <1>6
    <3> HIDE DEF a
    <3>2. G[k][a] = AddCount(a, f[k], m[k]) BY <3>1, <1>3
    <3> QED BY <3>2 DEF a
  <2>3. \A k \in 0..n : k # 0 => k \in 1..n BY <1>0
  <2>4. g = [k \in 0..n |-> IF k = 0 THEN b ELSE AddCount(g[k-1], f[k], m[k])]
    BY <2>1, <2>2, <2>3, Zenon
  <2> QED BY <2>4 DEF Gathers, b
<1> DEFINE acc == CHOOSE acc : Gathers(S, m, f, n, acc)
<1>8. Gathers(S, m, f, n, acc) BY <1>7
<1>9. MapMset(m, f, n) = acc[n]
  <2>1. DOMAIN m = S BY DEF IsMset, Renaming
  <2> QED BY <2>1 DEF MapMset, Gathers, AddCount
<1> QED BY <1>8, <1>9

\* Renaming a multiset yields a multiset of the new names.
LEMMA MapMsetType ==
  ASSUME NEW S, NEW n, NEW m, NEW f, Renaming(S, n, m, f)
  PROVE  /\ IsMset(S, MapMset(m, f, n))
         /\ \A x \in S : MapMset(m, f, n)[x] > 0 => \E k \in 1..n : x = f[k]
<1>0. n \in Nat BY DEF Renaming
<1>1. PICK acc : Gathers(S, m, f, n, acc) /\ MapMset(m, f, n) = acc[n]
  BY MapMsetGathers
<1>2. /\ \A k \in 0..n : IsMset(S, acc[k])
      /\ acc[0] = EmptyMset(S)
      /\ \A k \in 1..n : /\ k \in S /\ m[k] \in Nat /\ f[k] \in S
                         /\ acc[k] = AddCount(acc[k-1], f[k], m[k])
  BY <1>1, GathersType
<1> DEFINE Q(k) == \A x \in S : acc[k][x] > 0 => \E j \in 1..n : x = f[j]
           P == {k \in 0..n : Q(k)}
<1>4. 0 \in P
  <2>1. \A x \in S : EmptyMset(S)[x] = 0 BY DEF EmptyMset
  <2> QED BY <2>1, <1>2, <1>0
<1>5. ASSUME NEW k \in 1..n, k - 1 \in P PROVE k \in P
  <2> DEFINE a == acc[k-1]
  <2>1. IsMset(S, a) BY <1>0, <1>2
  <2>2. \A x \in S : a[x] > 0 => \E j \in 1..n : x = f[j] BY <1>5
  <2>3. acc[k] = AddCount(a, f[k], m[k]) BY <1>2
  <2> HIDE DEF a
  <2>4. \A x \in S : AddCount(a, f[k], m[k])[x] =
                       IF x = f[k] THEN a[x] + m[k] ELSE a[x]
    <3> DEFINE x == f[k]
               c == m[k]
    <3>1. x \in S /\ c \in Nat BY <1>2
    <3> HIDE DEF x, c
    <3>2. \A y \in S : AddCount(a, x, c)[y] = IF y = x THEN a[y] + c ELSE a[y]
      BY <2>1, <3>1, AddCountFacts
    <3> QED BY <3>2 DEF x, c
  <2>5. Q(k) BY <2>2, <2>3, <2>4
  <2> QED BY <2>5
<1> HIDE DEF P
<1>6. \A k \in 0..n : k \in P BY <1>0, <1>4, <1>5, IntervalInduction
<1>7. Q(n) BY <1>0, <1>6 DEF P
<1> QED BY <1>0, <1>1, <1>2, <1>7

\* Additions commute, and two additions of one element are one.
LEMMA AddCountOrder ==
  ASSUME NEW S, NEW a, IsMset(S, a), NEW x \in S, NEW y \in S,
         NEW c \in Nat, NEW d \in Nat
  PROVE  /\ AddCount(AddCount(a, x, c), y, d) = AddCount(AddCount(a, y, d), x, c)
         /\ AddCount(AddCount(a, x, c), x, d) = AddCount(a, x, c + d)
         /\ AddCount(a, x, 0) = a
<1>1. \A u \in S : a[u] \in Nat BY DEF IsMset
<1>2. \A u, v \in S : \A i \in Nat : \A w \in S :
        AddCount(a, u, i)[w] = IF w = u THEN a[w] + i ELSE a[w]
  BY DEF AddCount, IsMset
<1>3. \A u, v \in S : \A i, j \in Nat :
        AddCount(AddCount(a, u, i), v, j) =
          [w \in S |-> IF w = v THEN (IF w = u THEN a[w] + i ELSE a[w]) + j
                       ELSE IF w = u THEN a[w] + i ELSE a[w]]
  <2> TAKE u, v \in S
  <2> TAKE i, j \in Nat
  <2> DEFINE b == AddCount(a, u, i)
  <2>1. DOMAIN b = S /\ \A w \in S : b[w] = IF w = u THEN a[w] + i ELSE a[w]
    BY <1>2 DEF AddCount, IsMset
  <2> HIDE DEF b
  <2>2. AddCount(b, v, j) = [w \in S |-> IF w = v THEN b[w] + j ELSE b[w]]
    BY <2>1 DEF AddCount
  <2> QED BY <2>1, <2>2 DEF b
<1>4. AddCount(a, x, c + d) = [w \in S |-> IF w = x THEN a[w] + (c + d) ELSE a[w]]
  BY DEF AddCount, IsMset
<1>5. AddCount(AddCount(a, x, c), y, d) = AddCount(AddCount(a, y, d), x, c)
  <2> DEFINE l == [w \in S |-> IF w = y THEN (IF w = x THEN a[w] + c ELSE a[w]) + d
                               ELSE IF w = x THEN a[w] + c ELSE a[w]]
             r == [w \in S |-> IF w = x THEN (IF w = y THEN a[w] + d ELSE a[w]) + c
                               ELSE IF w = y THEN a[w] + d ELSE a[w]]
  <2>1. \A w \in S : l[w] = r[w] BY <1>1
  <2>2. l = r BY <2>1
  <2> HIDE DEF l, r
  <2>3. AddCount(AddCount(a, x, c), y, d) = l BY <1>3 DEF l
  <2>4. AddCount(AddCount(a, y, d), x, c) = r BY <1>3 DEF r
  <2> QED BY <2>2, <2>3, <2>4
<1>6. AddCount(AddCount(a, x, c), x, d) = AddCount(a, x, c + d)
  <2> DEFINE l == [w \in S |-> IF w = x THEN (IF w = x THEN a[w] + c ELSE a[w]) + d
                               ELSE IF w = x THEN a[w] + c ELSE a[w]]
             r == [w \in S |-> IF w = x THEN a[w] + (c + d) ELSE a[w]]
  <2>1. \A w \in S : l[w] = r[w] BY <1>1
  <2>2. l = r BY <2>1
  <2> HIDE DEF l, r
  <2>3. AddCount(AddCount(a, x, c), x, d) = l BY <1>3 DEF l
  <2>4. AddCount(a, x, c + d) = r BY <1>4 DEF r
  <2> QED BY <2>2, <2>3, <2>4
<1>7. AddCount(a, x, 0) = a BY <1>1 DEF AddCount, IsMset
<1> QED BY <1>5, <1>6, <1>7

\* Renaming after one addition is an addition after renaming.
LEMMA MapMsetAdds ==
  ASSUME NEW S, NEW n, NEW m, NEW f, Renaming(S, n, m, f),
         NEW x \in 1..n, NEW c \in Nat
  PROVE  /\ Renaming(S, n, AddCount(m, x, c), f)
         /\ MapMset(AddCount(m, x, c), f, n) = AddCount(MapMset(m, f, n), f[x], c)
<1> DEFINE m2 == AddCount(m, x, c)
<1>0. /\ n \in Nat /\ x \in 1..n /\ x \in S /\ c \in Nat
      /\ IsMset(S, m) /\ f[x] \in S
  BY DEF Renaming
<1>1. /\ IsMset(S, m2)
      /\ \A y \in S : m2[y] = IF y = x THEN m[y] + c ELSE m[y]
  BY <1>0 DEF AddCount, IsMset
<1> HIDE DEF m2
<1>2. Renaming(S, n, m2, f) BY <1>1 DEF Renaming
<1>3. PICK g : Gathers(S, m, f, n, g) /\ MapMset(m, f, n) = g[n] BY MapMsetGathers
<1>4. PICK h : Gathers(S, m2, f, n, h) /\ MapMset(m2, f, n) = h[n]
  BY <1>2, MapMsetGathers
<1>5. /\ \A k \in 0..n : IsMset(S, g[k])
      /\ g[0] = EmptyMset(S)
      /\ \A k \in 1..n : /\ k \in S /\ m[k] \in Nat /\ f[k] \in S
                         /\ g[k] = AddCount(g[k-1], f[k], m[k])
  BY <1>3, GathersType
<1>6. /\ h[0] = EmptyMset(S)
      /\ \A k \in 1..n : h[k] = AddCount(h[k-1], f[k], m2[k])
  BY <1>2, <1>4, GathersType
<1> DEFINE P == {k \in 0..n : h[k] = IF x <= k THEN AddCount(g[k], f[x], c) ELSE g[k]}
<1>7. 0 \in P BY <1>0, <1>5, <1>6
<1>8. ASSUME NEW k \in 1..n, k - 1 \in P PROVE k \in P
  <2> DEFINE a == g[k-1]
  <2>1. /\ IsMset(S, a) /\ m[k] \in Nat /\ f[k] \in S /\ k \in S
        /\ g[k] = AddCount(a, f[k], m[k]) /\ h[k] = AddCount(h[k-1], f[k], m2[k])
    BY <1>0, <1>5, <1>6
  <2>2. h[k-1] = IF x <= k - 1 THEN AddCount(a, f[x], c) ELSE a BY <1>8
  <2> HIDE DEF a, P
  <2>3. CASE x <= k - 1
    <3>1. m2[k] = m[k] BY <2>1, <2>3, <1>1
    <3>2. h[k] = AddCount(AddCount(a, f[x], c), f[k], m[k]) BY <2>1, <2>2, <2>3, <3>1
    <3>3. AddCount(AddCount(a, f[x], c), f[k], m[k]) =
            AddCount(AddCount(a, f[k], m[k]), f[x], c)
      <4> DEFINE u == f[x]
                 v == f[k]
                 d == m[k]
      <4>1. u \in S /\ v \in S /\ d \in Nat BY <1>0, <2>1
      <4> HIDE DEF u, v, d
      <4>2. AddCount(AddCount(a, u, c), v, d) = AddCount(AddCount(a, v, d), u, c)
        BY <4>1, <2>1, <1>0, AddCountOrder
      <4> QED BY <4>2 DEF u, v, d
    <3>4. x <= k BY <2>3
    <3>5. h[k] = AddCount(g[k], f[x], c) BY <3>2, <3>3, <2>1
    <3>6. k \in 0..n BY <1>0
    <3> QED BY <3>4, <3>5, <3>6 DEF P
  <2>4. CASE x = k
    <3>1. m2[k] = m[k] + c BY <2>1, <2>4, <1>1
    <3>2. ~ (x <= k - 1) BY <2>4
    <3>3. h[k] = AddCount(a, f[k], m[k] + c) BY <2>1, <2>2, <3>1, <3>2
    <3>4. AddCount(AddCount(a, f[k], m[k]), f[k], c) = AddCount(a, f[k], m[k] + c)
      <4> DEFINE v == f[k]
                 d == m[k]
      <4>1. v \in S /\ d \in Nat BY <2>1
      <4> HIDE DEF v, d
      <4>2. AddCount(AddCount(a, v, d), v, c) = AddCount(a, v, d + c)
        BY <4>1, <2>1, <1>0, AddCountOrder
      <4> QED BY <4>2 DEF v, d
    <3>5. h[k] = AddCount(g[k], f[x], c) BY <3>3, <3>4, <2>1, <2>4
    <3>6. k \in 0..n /\ x <= k BY <1>0, <2>4
    <3> QED BY <3>5, <3>6 DEF P
  <2>5. CASE x > k
    <3>1. m2[k] = m[k] BY <2>1, <2>5, <1>1
    <3>2. ~ (x <= k - 1) /\ ~ (x <= k) BY <2>5
    <3> QED BY <2>1, <2>2, <3>1, <3>2 DEF P
  <2> QED BY <2>3, <2>4, <2>5
<1> HIDE DEF P
<1>9. \A k \in 0..n : k \in P BY <1>0, <1>7, <1>8, IntervalInduction
<1>10. h[n] = AddCount(g[n], f[x], c)
  <2>1. n \in P BY <1>0, <1>9
  <2> QED BY <2>1 DEF P
<1> QED BY <1>2, <1>3, <1>4, <1>10 DEF m2

\* Nothing renamed is nothing.
LEMMA MapMsetEmpty ==
  ASSUME NEW S, NEW n, NEW f, Renaming(S, n, EmptyMset(S), f)
  PROVE  MapMset(EmptyMset(S), f, n) = EmptyMset(S)
<1> DEFINE e == EmptyMset(S)
<1>0. n \in Nat /\ IsMset(S, e) /\ \A x \in S : e[x] = 0
  BY DEF Renaming, EmptyMset
<1>1. PICK g : Gathers(S, e, f, n, g) /\ MapMset(e, f, n) = g[n] BY MapMsetGathers
<1>2. /\ g[0] = e
      /\ \A k \in 1..n : k \in S /\ f[k] \in S /\ g[k] = AddCount(g[k-1], f[k], e[k])
  BY <1>1, GathersType
<1> HIDE DEF e
<1> DEFINE P == {k \in 0..n : g[k] = e}
<1>3. 0 \in P BY <1>0, <1>2
<1>4. ASSUME NEW k \in 1..n, k - 1 \in P PROVE k \in P
  <2>1. g[k-1] = e BY <1>4
  <2>2. g[k] = AddCount(e, f[k], 0)
    <3>1. g[k] = AddCount(g[k-1], f[k], e[k]) /\ k \in S BY <1>2
    <3>2. e[k] = 0 BY <3>1, <1>0
    <3> QED BY <3>1, <3>2, <2>1
  <2>3. f[k] \in S /\ 0 \in Nat /\ IsMset(S, e) BY <1>0, <1>2
  <2>4. AddCount(e, f[k], 0) = e
    <3> DEFINE x == f[k]
    <3>1. x \in S /\ 0 \in Nat /\ IsMset(S, e) BY <2>3
    <3> HIDE DEF x
    <3>2. AddCount(e, x, 0) = e BY <3>1, AddCountOrder
    <3> QED BY <3>2 DEF x
  <2> QED BY <2>2, <2>4, <1>0
<1> HIDE DEF P
<1>5. \A k \in 0..n : k \in P BY <1>0, <1>3, <1>4, IntervalInduction
<1> QED BY <1>0, <1>1, <1>5 DEF P, e

\* h renames as f does and then as g does.
Composition(S, n, f, g, h) ==
  f \in [1..n -> 1..n] /\ g \in [1..n -> S] /\ h = [k \in 1..n |-> g[f[k]]]

\* Renaming twice is renaming once, by the composition.
LEMMA MapMsetComposes ==
  ASSUME NEW S, NEW n, NEW m, NEW f, NEW g, NEW h,
         Renaming(S, n, m, f), Composition(S, n, f, g, h)
  PROVE  MapMset(MapMset(m, f, n), g, n) = MapMset(m, h, n)
<1>0. /\ n \in Nat /\ 1..n \subseteq S /\ IsMset(S, m)
      /\ g \in [1..n -> S] /\ \A k \in 1..n : f[k] \in 1..n /\ h[k] = g[f[k]]
  BY DEF Renaming, Composition
<1>1. Renaming(S, n, m, h)
  <2>1. h \in [1..n -> S] BY DEF Composition
  <2> QED BY <2>1, <1>0 DEF Renaming
<1>2. PICK a : Gathers(S, m, f, n, a) /\ MapMset(m, f, n) = a[n] BY MapMsetGathers
<1>3. PICK b : Gathers(S, m, h, n, b) /\ MapMset(m, h, n) = b[n]
  BY <1>1, MapMsetGathers
<1>4. /\ \A k \in 0..n : IsMset(S, a[k])
      /\ a[0] = EmptyMset(S)
      /\ \A k \in 1..n : /\ k \in S /\ m[k] \in Nat /\ f[k] \in S
                         /\ a[k] = AddCount(a[k-1], f[k], m[k])
  BY <1>2, GathersType
<1>5. /\ b[0] = EmptyMset(S)
      /\ \A k \in 1..n : b[k] = AddCount(b[k-1], h[k], m[k])
  BY <1>1, <1>3, GathersType
<1> DEFINE P == {k \in 0..n : MapMset(a[k], g, n) = b[k]}
<1>6. 0 \in P
  <2>1. Renaming(S, n, EmptyMset(S), g)
    BY <1>0, <1>4 DEF Renaming
  <2> QED BY <2>1, <1>0, <1>4, <1>5, MapMsetEmpty
<1>7. ASSUME NEW k \in 1..n, k - 1 \in P PROVE k \in P
  <2> DEFINE d == a[k-1]
             x == f[k]
             c == m[k]
  <2>1. /\ IsMset(S, d) /\ x \in 1..n /\ c \in Nat
        /\ a[k] = AddCount(d, x, c) /\ b[k] = AddCount(b[k-1], g[x], c)
        /\ k \in 0..n
    BY <1>0, <1>4, <1>5
  <2>2. MapMset(d, g, n) = b[k-1] BY <1>7
  <2> HIDE DEF d, x, c, P
  <2>3. Renaming(S, n, d, g) BY <2>1, <1>0 DEF Renaming
  <2>4. MapMset(AddCount(d, x, c), g, n) = AddCount(MapMset(d, g, n), g[x], c)
    BY <2>1, <2>3, MapMsetAdds
  <2> QED BY <2>1, <2>2, <2>4 DEF P
<1> HIDE DEF P
<1>8. \A k \in 0..n : k \in P BY <1>0, <1>6, <1>7, IntervalInduction
<1>9. MapMset(a[n], g, n) = b[n] BY <1>0, <1>8 DEF P
<1> QED BY <1>2, <1>3, <1>9

\* A new id with count zero changes nothing.
LEMMA MapMsetExtends ==
  ASSUME NEW S, NEW n, NEW m, NEW f, NEW h,
         Renaming(S, n, m, f), Renaming(S, n + 1, m, h),
         \A k \in 1..n : h[k] = f[k], m[n + 1] = 0
  PROVE  MapMset(m, h, n + 1) = MapMset(m, f, n)
<1>0. n \in Nat /\ m[n + 1] = 0 BY DEF Renaming
<1>1. PICK a : Gathers(S, m, f, n, a) /\ MapMset(m, f, n) = a[n] BY MapMsetGathers
<1>2. PICK b : Gathers(S, m, h, n + 1, b) /\ MapMset(m, h, n + 1) = b[n + 1]
  BY MapMsetGathers
<1>3. /\ \A k \in 0..n : IsMset(S, a[k])
      /\ a[0] = EmptyMset(S)
      /\ \A k \in 1..n : a[k] = AddCount(a[k-1], f[k], m[k])
  BY <1>1, GathersType
<1>4. /\ b[0] = EmptyMset(S)
      /\ \A k \in 1..(n + 1) : h[k] \in S /\ b[k] = AddCount(b[k-1], h[k], m[k])
  BY <1>2, GathersType
<1>5. \A k \in 1..n : h[k] = f[k] /\ k \in 1..(n + 1) BY <1>0
<1> DEFINE P == {k \in 0..n : b[k] = a[k]}
<1>6. 0 \in P BY <1>0, <1>3, <1>4
<1>7. ASSUME NEW k \in 1..n, k - 1 \in P PROVE k \in P
  <2>1. b[k-1] = a[k-1] BY <1>7
  <2>2. b[k] = AddCount(b[k-1], f[k], m[k]) BY <1>4, <1>5
  <2>3. a[k] = AddCount(a[k-1], f[k], m[k]) BY <1>3
  <2>4. k \in 0..n BY <1>0
  <2> QED BY <2>1, <2>2, <2>3, <2>4
<1> HIDE DEF P
<1>8. \A k \in 0..n : k \in P BY <1>0, <1>6, <1>7, IntervalInduction
<1>9. b[n] = a[n] /\ IsMset(S, a[n]) BY <1>0, <1>3, <1>8 DEF P
<1>10. n + 1 \in 1..(n + 1) /\ (n + 1) - 1 = n BY <1>0
<1>11. b[n + 1] = AddCount(a[n], h[n + 1], 0) /\ h[n + 1] \in S
  BY <1>0, <1>4, <1>9, <1>10
<1> DEFINE c == a[n]
           x == h[n + 1]
<1>12. IsMset(S, c) /\ x \in S /\ 0 \in Nat BY <1>9, <1>11
<1> HIDE DEF c, x
<1>13. AddCount(c, x, 0) = c BY <1>12, AddCountOrder
<1> QED BY <1>1, <1>2, <1>11, <1>13 DEF c, x

\* Inserting and removing one occurrence.
LEMMA InsertRemoveFacts ==
  ASSUME NEW S, NEW m, IsMset(S, m), NEW x \in S
  PROVE  /\ IsMset(S, Insert(m, x)) /\ IsMset(S, Remove(m, x))
         /\ \A y \in S : /\ Insert(m, x)[y] = IF y = x THEN m[y] + 1 ELSE m[y]
                         /\ Remove(m, x)[y] =
                              IF y = x THEN (IF m[y] > 0 THEN m[y] - 1 ELSE 0)
                              ELSE m[y]
<1>1. IsMset(S, Insert(m, x)) BY DEF IsMset, Insert
<1>2. \A y \in S : Insert(m, x)[y] = IF y = x THEN m[y] + 1 ELSE m[y]
  BY DEF IsMset, Insert
<1> DEFINE c == IF m[x] > 0 THEN m[x] - 1 ELSE 0
<1>3. c \in Nat BY DEF IsMset
<1>4. Remove(m, x) = [m EXCEPT ![x] = c] BY DEF Remove
<1>5. \A y \in S : Remove(m, x)[y] = IF y = x THEN c ELSE m[y]
  <2> HIDE DEF c
  <2> QED BY <1>3, <1>4 DEF IsMset
<1>6. IsMset(S, Remove(m, x))
  <2> HIDE DEF c
  <2> QED BY <1>3, <1>4 DEF IsMset
<1> QED BY <1>1, <1>2, <1>5, <1>6

\* Adding and subtracting multisets.
LEMMA SumDiffFacts ==
  ASSUME NEW S, NEW m, IsMset(S, m), NEW o, IsMset(S, o)
  PROVE  /\ IsMset(S, InsertAll(m, o)) /\ IsMset(S, MsetDiff(m, o))
         /\ \A y \in S : /\ InsertAll(m, o)[y] = m[y] + o[y]
                         /\ MsetDiff(m, o)[y] = IF m[y] > o[y] THEN m[y] - o[y] ELSE 0
BY DEF IsMset, InsertAll, MsetDiff
=============================================================================
