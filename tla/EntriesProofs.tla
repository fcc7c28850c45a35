--------------------------- MODULE EntriesProofs ---------------------------
(***************************************************************************)
(* Proofs about MultisetEntries: the entry vector of class Multiset, its   *)
(* size and its fingerprint describe one multiset, for any number of ids,  *)
(* any hash function and any prime.  What the loops of the class compute   *)
(* is compared with what they add up to, the tally of the entries.         *)
(***************************************************************************)
EXTENDS MultisetEntries, BasicLemmas, SequenceTheorems, FiniteSetTheorems

\* The remainder is the only one.
LEMMA Remainder ==
  ASSUME NEW p \in Nat \ {0}, NEW q \in Nat, NEW r \in 0..(p - 1)
  PROVE  (p * q + r) % p = r
OBVIOUS

\* Remainders add up.
LEMMA RemainderAdds ==
  ASSUME NEW a \in Nat, NEW b \in Nat, NEW p \in Nat \ {0}
  PROVE  (a + b) % p = IF (a % p) + (b % p) < p THEN (a % p) + (b % p)
                       ELSE (a % p) + (b % p) - p
<1>1. PICK r \in 0..(p - 1), q \in Nat : r = a % p /\ a = p * q + r BY Division
<1>2. PICK s \in 0..(p - 1), t \in Nat : s = b % p /\ b = p * t + s BY Division
<1>0. \A u \in Nat : p * (u + 1) = p * u + p /\ p * u \in Nat OBVIOUS
<1>9. p * (q + t) = p * q + p * t /\ p * (q + t + 1) = p * (q + t) + p
  BY <1>0, <1>1, <1>2
<1>3. CASE r + s < p
  <2>1. a + b = p * (q + t) + (r + s) BY <1>0, <1>1, <1>2, <1>9
  <2>2. r + s \in 0..(p - 1) /\ q + t \in Nat BY <1>3
  <2>3. (a + b) % p = r + s BY <2>1, <2>2, Remainder
  <2> QED BY <2>3, <1>1, <1>2, <1>3
<1>4. CASE ~ (r + s < p)
  <2>1. a + b = p * (q + t + 1) + (r + s - p)
    <3> DEFINE u == p * q
               v == p * t
    <3>1. u \in Nat /\ v \in Nat /\ p * (q + t + 1) = u + v + p
      BY <1>0, <1>1, <1>2, <1>9
    <3>2. a = u + r /\ b = v + s BY <1>1, <1>2
    <3> HIDE DEF u, v
    <3> QED BY <3>1, <3>2
  <2>2. r + s - p \in 0..(p - 1) /\ q + t + 1 \in Nat BY <1>4
  <2>3. (a + b) % p = r + s - p
    <3> DEFINE x == q + t + 1
               y == r + s - p
    <3>1. x \in Nat /\ y \in 0..(p - 1) /\ a + b = p * x + y BY <2>1, <2>2
    <3> HIDE DEF x, y
    <3>2. (p * x + y) % p = y BY <3>1, Remainder
    <3> QED BY <3>1, <3>2 DEF y
  <2> QED BY <2>3, <1>1, <1>2, <1>4
<1> QED BY <1>3, <1>4
-----------------------------------------------------------------------------
\* What is hashed is a residue.
LEMMA HashType ==
  ASSUME NEW x \in Ids
  PROVE  hashmodp(x) \in Residues /\ hashmodp(x) \in Nat
<1>1. hash64[x] \in Nat /\ PRIME \in Nat \ {0} /\ 42 \in 0..(PRIME - 1)
  BY FingerprintAssumption DEF Ids
<1>2. hash64[x] % PRIME \in 0..(PRIME - 1) BY <1>1, Division
<1> QED BY <1>1, <1>2 DEF hashmodp, Residues

\* The recursion of Weight, as equations.
LEMMA WeightSteps ==
  ASSUME NEW m \in [Ids -> Nat]
  PROVE  \E w \in [0..MaxIds -> Nat] :
           /\ w[0] = 0
           /\ \A k \in Ids : w[k] = w[k-1] + hashmodp(k) * m[k]
           /\ Weight(m) = w[MaxIds]
<1> DEFINE G == [k \in 1..MaxIds |-> [a \in Nat |-> a + hashmodp(k) * m[k]]]
           IsWeight(w) == w = [k \in 0..MaxIds |->
                                 IF k = 0 THEN 0 ELSE w[k-1] + hashmodp(k) * m[k]]
<1>1. MaxIds \in Nat BY FingerprintAssumption
<1>2. \A k \in 1..MaxIds : hashmodp(k) * m[k] \in Nat
  <2> TAKE k \in 1..MaxIds
  <2>1. hashmodp(k) \in Nat /\ m[k] \in Nat BY HashType DEF Ids
  <2> QED BY <2>1
<1>3. G \in [1..MaxIds -> [Nat -> Nat]] BY <1>2
<1>4. \A k \in 1..MaxIds : \A a \in Nat : G[k][a] = a + hashmodp(k) * m[k] OBVIOUS
<1> HIDE DEF G
<1>5. PICK g \in [0..MaxIds -> Nat] :
        g = [k \in 0..MaxIds |-> IF k = 0 THEN 0 ELSE G[k][g[k-1]]]
  <2> DEFINE S == Nat
  <2>1. 0 \in S /\ G \in [1..MaxIds -> [S -> S]] BY <1>3
  <2> HIDE DEF S
  <2>2. \E g \in [0..MaxIds -> S] : Iterates(MaxIds, 0, G, g)
    BY <1>1, <2>1, LoopExists
  <2> QED BY <2>2 DEF S, Iterates
<1>6. \A k \in 1..MaxIds : G[k][g[k-1]] = g[k-1] + hashmodp(k) * m[k]
  <2> TAKE k \in 1..MaxIds
  <2>1. g[k-1] \in Nat BY <1>1
  <2> QED BY <2>1, <1>4
<1>7. IsWeight(g)
  <2>1. \A k \in 0..MaxIds : k # 0 => k \in 1..MaxIds BY <1>1
  <2> QED BY <1>5, <1>6, <2>1
<1> DEFINE w == CHOOSE w : IsWeight(w)
<1>8. IsWeight(w) BY <1>7
<1>9. Weight(m) = w[MaxIds] BY DEF Weight
<1> HIDE DEF w
<1> DEFINE P == {k \in 0..MaxIds : w[k] \in Nat}
<1>10. w[0] = 0 BY <1>1, <1>8
<1>11. \A k \in 1..MaxIds : w[k] = w[k-1] + hashmodp(k) * m[k] BY <1>1, <1>8
<1>12. 0 \in P BY <1>1, <1>10
<1>13. \A k \in 1..MaxIds : k - 1 \in P => k \in P BY <1>2, <1>11
<1> HIDE DEF P
<1>14. \A k \in 0..MaxIds : k \in P BY <1>1, <1>12, <1>13, IntervalInduction
<1>15. w \in [0..MaxIds -> Nat] BY <1>8, <1>14 DEF P
<1> QED BY <1>9, <1>10, <1>11, <1>15 DEF Ids

\* One more occurrence weighs what its hash says.
LEMMA WeightAdds ==
  ASSUME NEW m \in [Ids -> Nat], NEW x \in Ids, NEW c \in Nat
  PROVE  /\ AddCount(m, x, c) \in [Ids -> Nat]
         /\ Weight(m) \in Nat
         /\ Weight(AddCount(m, x, c)) = Weight(m) + hashmodp(x) * c
<1> DEFINE m2 == AddCount(m, x, c)
           h == hashmodp(x)
<1>0. MaxIds \in Nat /\ x \in 1..MaxIds /\ h \in Nat
  BY FingerprintAssumption, HashType DEF Ids
<1>1. m2 \in [Ids -> Nat] /\ \A y \in Ids : m2[y] = IF y = x THEN m[y] + c ELSE m[y]
  BY AddCountFacts DEF IsMset
<1> HIDE DEF m2, h
<1>2. PICK w \in [0..MaxIds -> Nat] :
        /\ w[0] = 0 /\ Weight(m) = w[MaxIds]
        /\ \A k \in Ids : w[k] = w[k-1] + hashmodp(k) * m[k]
  BY WeightSteps
<1>3. PICK v \in [0..MaxIds -> Nat] :
        /\ v[0] = 0 /\ Weight(m2) = v[MaxIds]
        /\ \A k \in Ids : v[k] = v[k-1] + hashmodp(k) * m2[k]
  BY <1>1, WeightSteps
<1> DEFINE P == {k \in 0..MaxIds : v[k] = IF x <= k THEN w[k] + h * c ELSE w[k]}
<1>4. 0 \in P BY <1>0, <1>2, <1>3
<1>5. ASSUME NEW k \in 1..MaxIds, k - 1 \in P PROVE k \in P
  <2>1. /\ k \in Ids /\ m[k] \in Nat /\ hashmodp(k) \in Nat /\ k - 1 \in 0..MaxIds
        /\ k \in 0..MaxIds /\ w[k-1] \in Nat /\ v[k-1] \in Nat
    <3>1. k \in Ids /\ k - 1 \in 0..MaxIds /\ k \in 0..MaxIds BY <1>0 DEF Ids
    <3>2. m[k] \in Nat /\ hashmodp(k) \in Nat BY <3>1, HashType
    <3>3. w[k-1] \in Nat /\ v[k-1] \in Nat BY <3>1
    <3> QED BY <3>1, <3>2, <3>3
  <2>2. /\ w[k] = w[k-1] + hashmodp(k) * m[k]
        /\ v[k] = v[k-1] + hashmodp(k) * m2[k]
    BY <2>1, <1>2, <1>3
  <2>3. v[k-1] = IF x <= k - 1 THEN w[k-1] + h * c ELSE w[k-1] BY <1>5
  <2>4. hashmodp(k) * m[k] \in Nat /\ h * c \in Nat
    <3> DEFINE u == hashmodp(k)
    <3>1. u \in Nat /\ m[k] \in Nat /\ h \in Nat /\ c \in Nat BY <2>1, <1>0
    <3> HIDE DEF u
    <3>2. u * m[k] \in Nat /\ h * c \in Nat BY <3>1
    <3> QED BY <3>2 DEF u
  <2>5. CASE k = x
    <3>1. hashmodp(k) * m2[k] = hashmodp(k) * m[k] + h * c
      <4>1. m2[k] = m[k] + c /\ hashmodp(k) = h BY <2>1, <2>5, <1>1 DEF h
      <4>2. h * (m[k] + c) = h * m[k] + h * c BY <2>1, <1>0
      <4> QED BY <4>1, <4>2
    <3>2. v[k] = w[k] + h * c
      BY <2>1, <2>2, <2>3, <2>4, <2>5, <3>1
    <3> QED BY <3>2, <2>1, <2>5
  <2>6. CASE k # x
    <3>1. m2[k] = m[k] BY <2>1, <2>6, <1>1
    <3>2. x <= k <=> x <= k - 1 BY <1>0, <2>6
    <3> DEFINE u == hashmodp(k) * m[k]
               z == h * c
    <3>3. v[k] = v[k-1] + u /\ w[k] = w[k-1] + u BY <2>2, <3>1
    <3>4. u \in Nat /\ z \in Nat BY <2>4
    <3> HIDE DEF u
    <3>5. v[k] = IF x <= k THEN w[k] + z ELSE w[k]
      BY <3>2, <3>3, <3>4, <2>1, <2>3
    <3> QED BY <3>5, <2>1
  <2> QED BY <2>5, <2>6
<1> HIDE DEF P
<1>6. MaxIds \in P
  <2>1. \A k \in 0..MaxIds : k \in P BY <1>0, <1>4, <1>5, IntervalInduction
  <2> QED BY <2>1, <1>0
<1>7. Weight(m2) = Weight(m) + h * c BY <1>0, <1>2, <1>3, <1>6 DEF P
<1> QED BY <1>0, <1>1, <1>2, <1>7 DEF m2, h

\* Inserting occurrences changes the digest as FpInsert says, and FpRemove takes
\* one occurrence back.
LEMMA DigestAdds ==
  ASSUME NEW m \in [Ids -> Nat], NEW x \in Ids, NEW c \in Nat
  PROVE  /\ Digest(m) \in Residues
         /\ Digest(AddCount(m, x, c)) = FpInsert(Digest(m), x, c)
         /\ FpRemove(Digest(AddCount(m, x, 1)), x) = Digest(m)
<1>0. PRIME \in Nat \ {0} /\ SEED2 \in Nat BY FingerprintAssumption
<1>1. \A k \in Nat : /\ Weight(m) \in Nat /\ hashmodp(x) * k \in Nat
                     /\ Weight(AddCount(m, x, k)) = Weight(m) + hashmodp(x) * k
  BY WeightAdds, HashType
<1> DEFINE a == SEED2 + Weight(m)
           h == hashmodp(x)
           d == a % PRIME
<1>2. a \in Nat /\ h \in Nat /\ h \in 0..(PRIME - 1)
  <2>1. Weight(m) \in Nat /\ 0 \in Nat BY <1>1
  <2>2. a \in Nat BY <1>0, <2>1
  <2> QED BY <2>2, HashType DEF Residues
<1>3. Digest(m) = d BY DEF Digest
<1>4. \A k \in Nat : h * k \in Nat /\ Digest(AddCount(m, x, k)) = (a + h * k) % PRIME
  <2> TAKE k \in Nat
  <2>1. SEED2 + (Weight(m) + h * k) = a + h * k BY <1>0, <1>1
  <2> QED BY <2>1, <1>1 DEF Digest
<1> HIDE DEF a, h
<1>5. d \in 0..(PRIME - 1) BY <1>0, <1>2, Division
<1>6. ASSUME NEW k \in Nat
      PROVE  (a + h * k) % PRIME = addmodp(d, mulmodp(h, k))
  <2> DEFINE b == h * k
             e == b % PRIME
  <2>1. b \in Nat BY <1>4
  <2> HIDE DEF b
  <2>2. (a + b) % PRIME = IF d + e < PRIME THEN d + e ELSE d + e - PRIME
    <3>1. a \in Nat /\ b \in Nat /\ PRIME \in Nat \ {0} BY <1>0, <1>2, <2>1
    <3> QED BY <3>1, RemainderAdds, Zenon
  <2>3. e = mulmodp(h, k) BY DEF mulmodp, b
  <2>4. (a + b) % PRIME = addmodp(d, e)
    <3> HIDE DEF d, e
    <3> QED BY <2>2 DEF addmodp
  <2> QED BY <2>3, <2>4 DEF b
<1>7. Digest(AddCount(m, x, c)) = FpInsert(Digest(m), x, c)
  BY <1>3, <1>4, <1>6 DEF FpInsert, h
<1>8. FpRemove(Digest(AddCount(m, x, 1)), x) = Digest(m)
  <2>1. mulmodp(h, 1) = h
    <3>1. h * 1 = h /\ PRIME * 0 + h = h BY <1>0, <1>2
    <3>2. (PRIME * 0 + h) % PRIME = h BY <1>0, <1>2, Remainder
    <3> QED BY <3>1, <3>2 DEF mulmodp
  <2>2. Digest(AddCount(m, x, 1)) = addmodp(d, h) BY <1>4, <1>6, <2>1
  <2>3. submodp(addmodp(d, h), h) = d
    <3> HIDE DEF d
    <3> QED BY <1>0, <1>2, <1>5 DEF submodp, addmodp
  <2> QED BY <2>2, <2>3, <1>3 DEF FpRemove, h
<1> QED BY <1>3, <1>5, <1>7, <1>8 DEF Residues
-----------------------------------------------------------------------------
Entries == [id : Ids, count : Nat]

\* Sorted, but neighbours may have equal ids.
Ascending(data) == \A i, j \in DOMAIN data : i < j => data[i].id <= data[j].id

\* What a vector of entries is made of.
LEMMA EntryFacts ==
  ASSUME NEW d \in Seq(Entries)
  PROVE  /\ Len(d) \in Nat /\ DOMAIN d = 1..Len(d) /\ d \in [1..Len(d) -> Entries]
         /\ \A i \in 1..Len(d) : /\ d[i] \in Entries
                                 /\ d[i].id \in Ids /\ d[i].id \in Nat /\ d[i].count \in Nat
                                 /\ d[i] = Entry(d[i].id, d[i].count)
<1>1. Len(d) \in Nat /\ DOMAIN d = 1..Len(d) /\ d \in [1..Len(d) -> Entries]
  <2> DEFINE S == Entries
  <2> HIDE DEF S
  <2>1. d \in Seq(S) BY DEF S
  <2>2. Len(d) \in Nat /\ DOMAIN d = 1..Len(d) /\ d \in [1..Len(d) -> S] BY <2>1
  <2> QED BY <2>2 DEF S
<1>2. \A e \in Entries : e.id \in Ids /\ e.id \in Nat /\ e.count \in Nat
                         /\ e = Entry(e.id, e.count)
  BY FingerprintAssumption DEF Entries, Entry, Ids
<1> QED BY <1>1, <1>2

\* Making an entry, or a vector of them.
LEMMA EntryMade ==
  /\ \A x \in Ids : \A c \in Nat : /\ Entry(x, c) \in Entries
                                   /\ Entry(x, c).id = x /\ Entry(x, c).count = c
  /\ \A n \in Nat : \A d \in [1..n -> Entries] : d \in Seq(Entries) /\ Len(d) = n
<1>1. \A x \in Ids : \A c \in Nat : /\ Entry(x, c) \in Entries
                                    /\ Entry(x, c).id = x /\ Entry(x, c).count = c
  BY DEF Entry, Entries
<1>2. ASSUME NEW n \in Nat, NEW d \in [1..n -> Entries]
      PROVE  d \in Seq(Entries) /\ Len(d) = n
  <2> DEFINE S == Entries
  <2> HIDE DEF S
  <2>1. d \in [1..n -> S] BY DEF S
  <2>2. d \in Seq(S) /\ Len(d) = n BY <2>1
  <2> QED BY <2>2 DEF S
<1> QED BY <1>1, <1>2

\* Binary search finds the place before which all entries are smaller and from
\* which on none is.
LEMMA FindPos ==
  ASSUME NEW d \in Seq(Entries), Ascending(d), NEW id \in Ids
  PROVE  /\ find_pos(d, id) \in 1..(Len(d) + 1)
         /\ \A i \in 1..Len(d) : i < find_pos(d, id) <=> d[i].id < id
<1> DEFINE B == {i \in DOMAIN d : d[i].id < id}
<1>1. Len(d) \in Nat /\ DOMAIN d = 1..Len(d) /\ \A i \in 1..Len(d) : d[i].id \in Nat
  BY EntryFacts
<1>2. id \in Nat BY FingerprintAssumption DEF Ids
<1>3. B \subseteq 1..Len(d) BY <1>1
<1>4. \A i, j \in 1..Len(d) : i < j /\ j \in B => i \in B
  BY <1>1, <1>2 DEF Ascending
<1>5. \A i \in 1..Len(d) : i \in B <=> d[i].id < id BY <1>1
<1>6. find_pos(d, id) = Cardinality(B) + 1 BY DEF find_pos
<1> HIDE DEF B
<1>7. Cardinality(B) \in 0..Len(d) /\ B = 1..Cardinality(B)
  BY <1>1, <1>3, <1>4, InitialSegment
<1>8. \A i \in 1..Len(d) : i < Cardinality(B) + 1 <=> i \in B
  <2> TAKE i \in 1..Len(d)
  <2>1. Cardinality(B) \in Nat BY <1>1, <1>7
  <2> QED BY <2>1, <1>1, <1>7
<1> QED BY <1>1, <1>5, <1>6, <1>7, <1>8

\* An entry is found if there is one, and counted.
LEMMA FoundFacts ==
  ASSUME NEW d \in Seq(Entries), Ascending(d), NEW id \in Ids
  PROVE  /\ Found(d, id) <=> \E i \in 1..Len(d) : d[i].id = id
         /\ Found(d, id) => /\ find_pos(d, id) \in 1..Len(d)
                            /\ d[find_pos(d, id)].id = id
<1> DEFINE p == find_pos(d, id)
<1>1. Len(d) \in Nat /\ DOMAIN d = 1..Len(d) /\ \A i \in 1..Len(d) : d[i].id \in Nat
  BY EntryFacts
<1>2. p \in 1..(Len(d) + 1) /\ \A i \in 1..Len(d) : i < p <=> d[i].id < id
  BY FindPos
<1>3. id \in Nat BY FingerprintAssumption DEF Ids
<1>4. Found(d, id) <=> p \in 1..Len(d) /\ d[p].id = id BY <1>1 DEF Found
<1> HIDE DEF p
<1>5. ASSUME NEW i \in 1..Len(d), d[i].id = id PROVE p \in 1..Len(d) /\ d[p].id = id
  <2>1. ~ (i < p) BY <1>2, <1>3, <1>5
  <2>2. p \in 1..Len(d) BY <2>1, <1>1, <1>2
  <2>3. ~ (d[p].id < id) BY <2>2, <1>1, <1>2
  <2>4. i = p \/ p < i BY <2>1, <2>2, <1>1
  <2>5. d[p].id <= d[i].id BY <2>2, <2>4, <1>1 DEF Ascending
  <2> QED BY <2>2, <2>3, <2>5, <1>1, <1>3, <1>5
<1> QED BY <1>4, <1>5 DEF p
-----------------------------------------------------------------------------
\* The multiset that a vector of entries adds up to, sorted or not.
Tally(d) ==
  LET t[i \in 0..Len(d)] ==
        IF i = 0 THEN EmptyMset(Ids) ELSE AddCount(t[i-1], d[i].id, d[i].count)
  IN  t[Len(d)]

\* t[i] is what the first i entries of d add up to.
IsTally(d, t) ==
  /\ t \in [0..Len(d) -> [Ids -> Nat]]
  /\ t[0] = EmptyMset(Ids)
  /\ \A i \in 1..Len(d) : t[i] = AddCount(t[i-1], d[i].id, d[i].count)

\* AddCount, for multisets of ids.
LEMMA AddType ==
  ASSUME NEW m \in [Ids -> Nat], NEW x \in Ids, NEW c \in Nat
  PROVE  /\ AddCount(m, x, c) \in [Ids -> Nat]
         /\ \A y \in Ids : AddCount(m, x, c)[y] = IF y = x THEN m[y] + c ELSE m[y]
BY AddCountFacts DEF IsMset

\* The recursion of Tally has a solution, and Tally is its last value.
LEMMA TallySteps ==
  ASSUME NEW d \in Seq(Entries)
  PROVE  \E t : IsTally(d, t) /\ Tally(d) = t[Len(d)]
<1> DEFINE n == Len(d)
           S == [Ids -> Nat]
           b == EmptyMset(Ids)
           G == [k \in 1..n |-> [a \in S |-> AddCount(a, d[k].id, d[k].count)]]
           Eq(t) == t = [i \in 0..n |-> IF i = 0 THEN b
                                        ELSE AddCount(t[i-1], d[i].id, d[i].count)]
<1>1. n \in Nat /\ \A k \in 1..n : d[k].id \in Ids /\ d[k].count \in Nat
  BY EntryFacts
<1>2. b \in S BY DEF EmptyMset
<1>3. \A k \in 1..n : \A a \in S : AddCount(a, d[k].id, d[k].count) \in S
  BY <1>1, AddType
<1>4. G \in [1..n -> [S -> S]] BY <1>3
<1>5. \A k \in 1..n : \A a \in S : G[k][a] = AddCount(a, d[k].id, d[k].count) OBVIOUS
<1> HIDE DEF S, G, b, n
<1>6. PICK g \in [0..n -> S] : Iterates(n, b, G, g)
  BY <1>1, <1>2, <1>4, LoopExists
<1>7. \A k \in 0..n : k # 0 => k \in 1..n /\ g[k-1] \in S BY <1>1
<1>8. Eq(g) BY <1>5, <1>6, <1>7 DEF Iterates
<1> DEFINE t == CHOOSE t : Eq(t)
<1>9. Eq(t) BY <1>8
<1>10. Tally(d) = t[n] BY DEF Tally, n, b
<1> HIDE DEF t
<1> DEFINE P == {k \in 0..n : t[k] \in S}
<1>11. t[0] = b BY <1>1, <1>9
<1>12. \A k \in 1..n : t[k] = AddCount(t[k-1], d[k].id, d[k].count) BY <1>1, <1>9
<1>13. 0 \in P BY <1>1, <1>2, <1>11
<1>14. \A k \in 1..n : k - 1 \in P => k \in P BY <1>3, <1>12
<1> HIDE DEF P
<1>15. \A k \in 0..n : k \in P BY <1>1, <1>13, <1>14, IntervalInduction
<1>16. t \in [0..n -> S] BY <1>9, <1>15 DEF P
<1>17. IsTally(d, t) BY <1>11, <1>12, <1>16 DEF IsTally, S, b, n
<1> QED BY <1>10, <1>17 DEF n

\* It has only one.
LEMMA TallyUnique ==
  ASSUME NEW d \in Seq(Entries), NEW t, IsTally(d, t)
  PROVE  Tally(d) = t[Len(d)] /\ Tally(d) \in [Ids -> Nat]
<1>1. PICK u : IsTally(d, u) /\ Tally(d) = u[Len(d)] BY TallySteps
<1>2. Len(d) \in Nat BY EntryFacts
<1> DEFINE P == {k \in 0..Len(d) : t[k] = u[k]}
<1>3. 0 \in P BY <1>1, <1>2 DEF IsTally
<1>4. \A k \in 1..Len(d) : k - 1 \in P => k \in P BY <1>1 DEF IsTally
<1> HIDE DEF P
<1>5. \A k \in 0..Len(d) : k \in P BY <1>2, <1>3, <1>4, IntervalInduction
<1>6. t[Len(d)] = u[Len(d)] BY <1>2, <1>5 DEF P
<1>7. u[Len(d)] \in [Ids -> Nat] BY <1>1, <1>2 DEF IsTally
<1> QED BY <1>1, <1>6, <1>7

\* A tally is a multiset.
LEMMA TallyType ==
  ASSUME NEW d \in Seq(Entries)
  PROVE  Tally(d) \in [Ids -> Nat]
BY TallySteps, TallyUnique

\* No entries.
LEMMA TallyEmpty == Tally(<< >>) = EmptyMset(Ids)
<1>1. << >> \in Seq(Entries) OBVIOUS
<1>2. PICK t : IsTally(<< >>, t) /\ Tally(<< >>) = t[Len(<< >>)] BY <1>1, TallySteps
<1>3. Len(<< >>) = 0 OBVIOUS
<1> QED BY <1>2, <1>3 DEF IsTally

\* Additions commute and join.
LEMMA AddOrder ==
  ASSUME NEW m \in [Ids -> Nat], NEW x \in Ids, NEW y \in Ids,
         NEW c \in Nat, NEW k \in Nat
  PROVE  /\ AddCount(AddCount(m, x, c), y, k) = AddCount(AddCount(m, y, k), x, c)
         /\ AddCount(AddCount(m, x, c), x, k) = AddCount(m, x, c + k)
         /\ AddCount(m, x, 0) = m
BY AddCountOrder DEF IsMset

\* An entry more, wherever it is put.
LEMMA TallyInsert ==
  ASSUME NEW d \in Seq(Entries), NEW pos \in 1..(Len(d) + 1), NEW e \in Entries
  PROVE  /\ InsertEntry(d, pos, e) \in Seq(Entries)
         /\ Len(InsertEntry(d, pos, e)) = Len(d) + 1
         /\ Tally(InsertEntry(d, pos, e)) = AddCount(Tally(d), e.id, e.count)
<1> DEFINE n == Len(d)
           x == e.id
           c == e.count
           d2 == InsertEntry(d, pos, e)
<1>1. /\ n \in Nat /\ n + 1 \in Nat /\ d \in [1..n -> Entries]
      /\ \A i \in 1..n : d[i] \in Entries /\ d[i].id \in Ids /\ d[i].count \in Nat
  BY EntryFacts
<1>2. x \in Ids /\ c \in Nat BY DEF Entries
<1>3. d2 = [i \in 1..(n + 1) |-> IF i < pos THEN d[i] ELSE IF i = pos THEN e ELSE d[i-1]]
  BY DEF InsertEntry
<1>4. d2 \in [1..(n + 1) -> Entries]
  <2>1. \A i \in 1..(n + 1) : /\ i < pos => i \in 1..n
                              /\ ~ (i < pos) /\ i # pos => i - 1 \in 1..n
    BY <1>1
  <2> QED BY <2>1, <1>1, <1>3
<1>5. d2 \in Seq(Entries) /\ Len(d2) = n + 1 BY <1>1, <1>4, EntryMade
<1> HIDE DEF d2
<1>6. PICK t : IsTally(d, t) /\ Tally(d) = t[n] BY TallySteps
<1>7. /\ \A i \in 0..n : t[i] \in [Ids -> Nat]
      /\ t[0] = EmptyMset(Ids)
      /\ \A i \in 1..n : t[i] = AddCount(t[i-1], d[i].id, d[i].count)
  BY <1>6 DEF IsTally
<1> DEFINE u == [i \in 0..(n + 1) |-> IF i < pos THEN t[i] ELSE AddCount(t[i-1], x, c)]
<1>8. u \in [0..(n + 1) -> [Ids -> Nat]]
  <2> SUFFICES ASSUME NEW i \in 0..(n + 1) PROVE u[i] \in [Ids -> Nat] OBVIOUS
  <2>1. CASE i < pos
    <3>1. i \in 0..n BY <2>1, <1>1
    <3> QED BY <2>1, <3>1, <1>7
  <2>2. CASE ~ (i < pos)
    <3>1. i - 1 \in 0..n BY <2>2, <1>1
    <3>2. AddCount(t[i-1], x, c) \in [Ids -> Nat] BY <3>1, <1>2, <1>7, AddType
    <3> QED BY <2>2, <3>2
  <2> QED BY <2>1, <2>2
<1>9. u[0] = EmptyMset(Ids) BY <1>1, <1>7
<1>10. ASSUME NEW i \in 1..(n + 1) PROVE u[i] = AddCount(u[i-1], d2[i].id, d2[i].count)
  <2>0. i - 1 \in 0..(n + 1) BY <1>1
  <2>1. CASE i < pos
    <3>1. i \in 1..n /\ i - 1 < pos BY <2>1, <1>1
    <3> QED BY <2>0, <2>1, <3>1, <1>3, <1>7
  <2>2. CASE i = pos
    <3>1. i - 1 < pos BY <2>2, <1>1
    <3> QED BY <2>0, <2>2, <3>1, <1>3
  <2>3. CASE i > pos
    <3> DEFINE j == i - 1
               m == t[j-1]
               y == d[j].id
               k == d[j].count
    <3>1. j \in 1..n /\ ~ (j < pos) /\ ~ (i < pos) /\ j \in 0..(n + 1) /\ i # pos
      BY <2>3, <1>1
    <3>2. d2[i] = d[j] BY <3>1, <1>3
    <3>3. u[i] = AddCount(t[j], x, c) /\ u[j] = AddCount(m, x, c) BY <3>1
    <3>4. t[j] = AddCount(m, y, k) BY <3>1, <1>7
    <3>5. m \in [Ids -> Nat] /\ y \in Ids /\ k \in Nat
      <4>1. j - 1 \in 0..n BY <3>1, <1>1
      <4> QED BY <4>1, <3>1, <1>1, <1>7
    <3> HIDE DEF m, y, k, u, x, c
    <3>6. AddCount(AddCount(m, y, k), x, c) = AddCount(AddCount(m, x, c), y, k)
      BY <3>5, <1>2, AddOrder
    <3> QED BY <3>2, <3>3, <3>4, <3>6 DEF y, k
  <2> QED BY <2>1, <2>2, <2>3, <1>1
<1>11. u[n + 1] = AddCount(t[n], x, c) BY <1>1
<1> HIDE DEF u
<1>12. IsTally(d2, u) BY <1>5, <1>8, <1>9, <1>10 DEF IsTally
<1>13. Tally(d2) = u[n + 1] BY <1>5, <1>12, TallyUnique
<1> QED BY <1>5, <1>6, <1>11, <1>13 DEF d2

\* An entry more at the end.
LEMMA TallyAppend ==
  ASSUME NEW d \in Seq(Entries), NEW e \in Entries
  PROVE  /\ Append(d, e) \in Seq(Entries) /\ Len(Append(d, e)) = Len(d) + 1
         /\ \A i \in 1..(Len(d) + 1) : Append(d, e)[i] = IF i <= Len(d) THEN d[i] ELSE e
         /\ Tally(Append(d, e)) = AddCount(Tally(d), e.id, e.count)
<1> DEFINE n == Len(d)
           a == Append(d, e)
           b == InsertEntry(d, n + 1, e)
<1>1. n \in Nat BY EntryFacts
<1>2. /\ a \in Seq(Entries) /\ Len(a) = n + 1
      /\ \A i \in 1..(n + 1) : a[i] = IF i <= n THEN d[i] ELSE e
  <2> DEFINE S == Entries
  <2> HIDE DEF S
  <2>1. d \in Seq(S) /\ e \in S BY DEF S
  <2> QED BY <2>1 DEF S
<1>3. a \in [1..(n + 1) -> Entries] BY <1>2, EntryFacts
<1>4. b = [i \in 1..(n + 1) |-> IF i < n + 1 THEN d[i] ELSE IF i = n + 1 THEN e ELSE d[i-1]]
  BY DEF InsertEntry
<1> HIDE DEF a, b
<1>5. \A i \in 1..(n + 1) : a[i] = b[i] BY <1>1, <1>2, <1>4
<1>6. a = b BY <1>3, <1>4, <1>5
<1>7. n + 1 \in 1..(n + 1) BY <1>1
<1>8. Tally(b) = AddCount(Tally(d), e.id, e.count) BY <1>7, TallyInsert DEF b
<1> QED BY <1>2, <1>6, <1>8 DEF a

\* The count of an entry raised.
LEMMA TallyRaise ==
  ASSUME NEW d \in Seq(Entries), NEW pos \in 1..Len(d), NEW c \in Nat,
         NEW d2, d2 = [d EXCEPT ![pos] = Entry(d[pos].id, d[pos].count + c)]
  PROVE  /\ d2 \in Seq(Entries) /\ Len(d2) = Len(d)
         /\ \A i \in 1..Len(d) : d2[i].id = d[i].id
         /\ Tally(d2) = AddCount(Tally(d), d[pos].id, c)
<1> DEFINE n == Len(d)
           x == d[pos].id
           h == d[pos].count
<1>1. /\ n \in Nat /\ d \in [1..n -> Entries]
      /\ \A i \in 1..n : d[i] \in Entries /\ d[i].id \in Ids /\ d[i].count \in Nat
  BY EntryFacts
<1>2. x \in Ids /\ h \in Nat /\ h + c \in Nat /\ pos \in 1..n BY <1>1
<1>3. Entry(x, h + c) \in Entries /\ Entry(x, h + c).id = x /\ Entry(x, h + c).count = h + c
  BY <1>2, EntryMade
<1>4. /\ d2 \in [1..n -> Entries] /\ d2[pos] = Entry(x, h + c)
      /\ \A i \in 1..n : i # pos => d2[i] = d[i]
  <2> DEFINE e == Entry(x, h + c)
  <2>1. d2 = [d EXCEPT ![pos] = e] /\ e \in Entries BY <1>3
  <2> HIDE DEF e
  <2>2. /\ d2 \in [1..n -> Entries] /\ d2[pos] = e
        /\ \A i \in 1..n : i # pos => d2[i] = d[i]
    BY <2>1, <1>1
  <2> QED BY <2>2 DEF e
<1>5. d2 \in Seq(Entries) /\ Len(d2) = n BY <1>1, <1>4, EntryMade
<1>6. PICK t : IsTally(d, t) /\ Tally(d) = t[n] BY TallySteps
<1>7. /\ \A i \in 0..n : t[i] \in [Ids -> Nat]
      /\ t[0] = EmptyMset(Ids)
      /\ \A i \in 1..n : t[i] = AddCount(t[i-1], d[i].id, d[i].count)
  BY <1>6 DEF IsTally
<1> DEFINE u == [i \in 0..n |-> IF i < pos THEN t[i] ELSE AddCount(t[i], x, c)]
<1>8. u \in [0..n -> [Ids -> Nat]]
  <2> SUFFICES ASSUME NEW i \in 0..n PROVE u[i] \in [Ids -> Nat] OBVIOUS
  <2>1. AddCount(t[i], x, c) \in [Ids -> Nat] BY <1>2, <1>7, AddType
  <2> QED BY <2>1, <1>7
<1>9. u[0] = EmptyMset(Ids) BY <1>1, <1>7
<1>10. ASSUME NEW i \in 1..n PROVE u[i] = AddCount(u[i-1], d2[i].id, d2[i].count)
  <2> DEFINE m == t[i-1]
             y == d[i].id
             k == d[i].count
  <2>0. /\ i - 1 \in 0..n /\ i \in 0..n /\ m \in [Ids -> Nat] /\ y \in Ids /\ k \in Nat
        /\ t[i] = AddCount(m, y, k)
    <3>1. i - 1 \in 0..n /\ i \in 0..n BY <1>1
    <3> QED BY <3>1, <1>1, <1>7
  <2>1. CASE i < pos
    <3>1. u[i] = t[i] /\ u[i-1] = t[i-1] BY <2>0, <2>1, <1>1
    <3>2. d2[i] = d[i] BY <2>1, <1>4
    <3> QED BY <3>1, <3>2, <1>7
  <2>2. CASE i = pos
    <3>1. u[i] = AddCount(t[i], x, c) /\ u[i-1] = m BY <2>0, <2>2, <1>1
    <3>2. d2[i].id = x /\ d2[i].count = h + c BY <2>2, <1>3, <1>4
    <3>3. y = x /\ k = h BY <2>2
    <3> HIDE DEF m, u, y, k, x, h
    <3>4. AddCount(AddCount(m, x, h), x, c) = AddCount(m, x, h + c)
      BY <2>0, <1>2, AddOrder
    <3> QED BY <3>1, <3>2, <3>3, <3>4, <2>0
  <2>3. CASE i > pos
    <3>1. u[i] = AddCount(t[i], x, c) /\ u[i-1] = AddCount(m, x, c) BY <2>0, <2>3, <1>1
    <3>2. d2[i].id = y /\ d2[i].count = k BY <2>3, <1>4
    <3> HIDE DEF m, u, y, k, x
    <3>3. AddCount(AddCount(m, y, k), x, c) = AddCount(AddCount(m, x, c), y, k)
      BY <2>0, <1>2, AddOrder
    <3> QED BY <3>1, <3>2, <3>3, <2>0
  <2> QED BY <2>1, <2>2, <2>3, <1>1
<1>11. u[n] = AddCount(t[n], x, c) BY <1>1
<1> HIDE DEF u
<1>12. IsTally(d2, u) BY <1>5, <1>8, <1>9, <1>10 DEF IsTally
<1>13. Tally(d2) = u[n] BY <1>5, <1>12, TallyUnique
<1>14. \A i \in 1..n : d2[i].id = d[i].id BY <1>3, <1>4
<1> QED BY <1>5, <1>6, <1>11, <1>13, <1>14

\* Between two entries with different ids: the tally of a sorted vector holds the
\* count of each entry and nothing else.
LEMMA TallyOfSorted ==
  ASSUME NEW d \in Seq(Entries), Sorted(d)
  PROVE  /\ \A i \in 1..Len(d) : Tally(d)[d[i].id] = d[i].count
         /\ \A x \in Ids : (\A i \in 1..Len(d) : d[i].id # x) => Tally(d)[x] = 0
<1> DEFINE n == Len(d)
<1>1. /\ n \in Nat /\ DOMAIN d = 1..n
      /\ \A i \in 1..n : d[i].id \in Ids /\ d[i].id \in Nat /\ d[i].count \in Nat
  BY EntryFacts
<1>2. PICK t : IsTally(d, t) /\ Tally(d) = t[n] BY TallySteps
<1>3. /\ \A i \in 0..n : t[i] \in [Ids -> Nat]
      /\ t[0] = EmptyMset(Ids)
      /\ \A i \in 1..n : t[i] = AddCount(t[i-1], d[i].id, d[i].count)
  BY <1>2 DEF IsTally
<1> DEFINE Q(i) == /\ \A j \in 1..i : t[i][d[j].id] = d[j].count
                   /\ \A x \in Ids : (\A j \in 1..i : d[j].id # x) => t[i][x] = 0
           P == {i \in 0..n : Q(i)}
<1>4. 0 \in P BY <1>1, <1>3 DEF EmptyMset
<1>5. ASSUME NEW i \in 1..n, i - 1 \in P PROVE i \in P
  <2> DEFINE m == t[i-1]
             y == d[i].id
             k == d[i].count
  <2>1. m \in [Ids -> Nat] /\ y \in Ids /\ k \in Nat /\ t[i] = AddCount(m, y, k)
    <3>1. i - 1 \in 0..n BY <1>1
    <3> QED BY <3>1, <1>1, <1>3
  <2>2. \A j \in 1..(i - 1) : m[d[j].id] = d[j].count BY <1>5
  <2>3. \A x \in Ids : (\A j \in 1..(i - 1) : d[j].id # x) => m[x] = 0 BY <1>5
  <2>4. \A j \in 1..(i - 1) : d[j].id # y /\ d[j].id \in Ids
    <3> TAKE j \in 1..(i - 1)
    <3>1. j \in 1..n /\ j < i BY <1>1
    <3>2. d[j].id < d[i].id BY <3>1, <1>1 DEF Sorted
    <3> QED BY <3>1, <3>2, <1>1
  <2>5. m[y] = 0 BY <2>1, <2>3, <2>4
  <2>6. \A x \in Ids : t[i][x] = IF x = y THEN m[x] + k ELSE m[x]
    <3> HIDE DEF m, y, k
    <3>1. \A x \in Ids : AddCount(m, y, k)[x] = IF x = y THEN m[x] + k ELSE m[x]
      BY <2>1, AddType
    <3> QED BY <2>1, <3>1
  <2>7. t[i][y] = k BY <2>1, <2>5, <2>6
  <2>8. \A j \in 1..i : t[i][d[j].id] = d[j].count
    <3> TAKE j \in 1..i
    <3>1. CASE j = i BY <3>1, <2>7
    <3>2. CASE j # i
      <4>1. j \in 1..(i - 1) BY <3>2, <1>1
      <4> QED BY <4>1, <2>2, <2>4, <2>6
    <3> QED BY <3>1, <3>2
  <2>9. \A x \in Ids : (\A j \in 1..i : d[j].id # x) => t[i][x] = 0
    <3> SUFFICES ASSUME NEW x \in Ids, \A j \in 1..i : d[j].id # x PROVE t[i][x] = 0
      OBVIOUS
    <3>1. i \in 1..i /\ \A j \in 1..(i - 1) : j \in 1..i BY <1>1
    <3> QED BY <3>1, <2>3, <2>6
  <2>10. i \in 0..n BY <1>1
  <2> QED BY <2>8, <2>9, <2>10
<1> HIDE DEF P
<1>6. n \in P
  <2>1. \A i \in 0..n : i \in P BY <1>1, <1>4, <1>5, IntervalInduction
  <2> QED BY <2>1, <1>1
<1> QED BY <1>2, <1>6 DEF P

\* count() answers for the tally.
LEMMA CountsTally ==
  ASSUME NEW m, m.data \in Seq(Entries), Sorted(m.data)
  PROVE  /\ Counts(m) = Tally(m.data) /\ Ascending(m.data)
         /\ \A x \in Ids : count_of(m, x) = Tally(m.data)[x]
<1> DEFINE d == m.data
<1>1. /\ Len(d) \in Nat /\ DOMAIN d = 1..Len(d)
      /\ \A i \in 1..Len(d) : d[i].id \in Ids /\ d[i].id \in Nat
  BY EntryFacts
<1>2. Ascending(d) BY <1>1 DEF Ascending, Sorted
<1>3. Tally(d) \in [Ids -> Nat] BY TallyType
<1>4. ASSUME NEW x \in Ids PROVE count_of(m, x) = Tally(d)[x]
  <2>1. CASE Found(d, x)
    <3>1. find_pos(d, x) \in 1..Len(d) /\ d[find_pos(d, x)].id = x
      BY <2>1, <1>2, FoundFacts
    <3>2. Tally(d)[x] = d[find_pos(d, x)].count BY <3>1, TallyOfSorted
    <3> QED BY <2>1, <3>2 DEF count_of
  <2>2. CASE ~ Found(d, x)
    <3>1. \A i \in 1..Len(d) : d[i].id # x BY <2>2, <1>2, FoundFacts
    <3>2. Tally(d)[x] = 0 BY <3>1, TallyOfSorted
    <3> QED BY <2>2, <3>2 DEF count_of
  <2> QED BY <2>1, <2>2
<1>5. Counts(m) = Tally(d) BY <1>3, <1>4 DEF Counts
<1> QED BY <1>2, <1>4, <1>5
-----------------------------------------------------------------------------
\* The recursion of MsetSize, as equations.
LEMMA SizeSteps ==
  ASSUME NEW m \in [Ids -> Nat]
  PROVE  \E s \in [0..MaxIds -> Nat] :
           /\ s[0] = 0
           /\ \A k \in Ids : s[k] = s[k-1] + m[k]
           /\ MsetSize(m, MaxIds) = s[MaxIds]
<1> DEFINE n == MaxIds
           S == Nat
           G == [k \in 1..n |-> [a \in S |-> a + m[k]]]
           Eq(s) == s = [k \in 0..n |-> IF k = 0 THEN 0 ELSE s[k-1] + m[k]]
<1>1. n \in Nat /\ 0 \in S /\ \A k \in 1..n : m[k] \in Nat
  BY FingerprintAssumption DEF Ids
<1>2. G \in [1..n -> [S -> S]] BY <1>1
<1>3. \A k \in 1..n : \A a \in S : G[k][a] = a + m[k] OBVIOUS
<1> HIDE DEF S, G, n
<1>4. PICK g \in [0..n -> S] : Iterates(n, 0, G, g) BY <1>1, <1>2, LoopExists
<1>5. \A k \in 0..n : k # 0 => k \in 1..n /\ g[k-1] \in S BY <1>1
<1>6. Eq(g) BY <1>3, <1>4, <1>5 DEF Iterates
<1> DEFINE s == CHOOSE s : Eq(s)
<1>7. Eq(s) BY <1>6
<1>8. MsetSize(m, MaxIds) = s[n] BY DEF MsetSize, n
<1> HIDE DEF s
<1>9. s[0] = 0 /\ \A k \in 1..n : s[k] = s[k-1] + m[k] BY <1>1, <1>7
<1> DEFINE P == {k \in 0..n : s[k] \in S}
<1>10. 0 \in P BY <1>1, <1>9
<1>13. ASSUME NEW k \in 1..n, k - 1 \in P PROVE k \in P
  <2>1. s[k-1] \in Nat /\ m[k] \in Nat /\ s[k] = s[k-1] + m[k] BY <1>1, <1>9, <1>13 DEF S
  <2>2. k \in 0..n /\ s[k] \in Nat BY <2>1, <1>1
  <2> QED BY <2>2 DEF S
<1> HIDE DEF P
<1>11. \A k \in 0..n : k \in P BY <1>1, <1>10, <1>13, IntervalInduction
<1>12. s \in [0..n -> S] BY <1>7, <1>11 DEF P
<1> QED BY <1>8, <1>9, <1>12 DEF n, S, Ids

\* The size of nothing, of a multiset with c occurrences more, of a larger one.
LEMMA SizeFacts ==
  /\ MsetSize(EmptyMset(Ids), MaxIds) = 0
  /\ \A m \in [Ids -> Nat] :
       /\ MsetSize(m, MaxIds) \in Nat
       /\ \A x \in Ids : \A c \in Nat :
            MsetSize(AddCount(m, x, c), MaxIds) = MsetSize(m, MaxIds) + c
       /\ \A o \in [Ids -> Nat] : (\A x \in Ids : o[x] <= m[x]) =>
            MsetSize(o, MaxIds) <= MsetSize(m, MaxIds)
<1> DEFINE n == MaxIds
<1>0. n \in Nat /\ \A k \in 1..n : k \in Ids /\ k \in 0..n /\ k - 1 \in 0..n
  BY FingerprintAssumption DEF Ids
<1> HIDE DEF n
<1>1. MsetSize(EmptyMset(Ids), n) = 0
  <2> DEFINE e == EmptyMset(Ids)
  <2>1. e \in [Ids -> Nat] /\ \A x \in Ids : e[x] = 0 BY DEF EmptyMset
  <2> HIDE DEF e
  <2>2. PICK s \in [0..n -> Nat] : /\ s[0] = 0 /\ \A k \in Ids : s[k] = s[k-1] + e[k]
                                   /\ MsetSize(e, n) = s[n]
    BY <2>1, SizeSteps DEF n
  <2> DEFINE P == {k \in 0..n : s[k] = 0}
  <2>3. 0 \in P BY <2>2, <1>0
  <2>4. ASSUME NEW k \in 1..n, k - 1 \in P PROVE k \in P
    <3>1. k \in Ids /\ k \in 0..n /\ s[k-1] = 0 BY <2>4, <1>0
    <3>2. s[k] = 0 + e[k] /\ e[k] = 0 BY <3>1, <2>1, <2>2
    <3> QED BY <3>1, <3>2
  <2> HIDE DEF P
  <2>5. \A k \in 0..n : k \in P BY <1>0, <2>3, <2>4, IntervalInduction
  <2> QED BY <2>2, <2>5, <1>0 DEF P, e
<1>2. ASSUME NEW m \in [Ids -> Nat]
      PROVE  /\ MsetSize(m, n) \in Nat
             /\ \A x \in Ids : \A c \in Nat :
                  MsetSize(AddCount(m, x, c), n) = MsetSize(m, n) + c
             /\ \A o \in [Ids -> Nat] : (\A x \in Ids : o[x] <= m[x]) =>
                  MsetSize(o, n) <= MsetSize(m, n)
  <2>1. PICK s \in [0..n -> Nat] : /\ s[0] = 0 /\ \A k \in Ids : s[k] = s[k-1] + m[k]
                                   /\ MsetSize(m, n) = s[n]
    BY SizeSteps DEF n
  <2>2. MsetSize(m, n) \in Nat BY <2>1, <1>0
  <2>3. ASSUME NEW x \in Ids, NEW c \in Nat
        PROVE  MsetSize(AddCount(m, x, c), n) = MsetSize(m, n) + c
    <3> DEFINE a == AddCount(m, x, c)
    <3>1. a \in [Ids -> Nat] /\ \A y \in Ids : a[y] = IF y = x THEN m[y] + c ELSE m[y]
      BY AddType
    <3> HIDE DEF a
    <3>2. PICK r \in [0..n -> Nat] : /\ r[0] = 0 /\ \A k \in Ids : r[k] = r[k-1] + a[k]
                                     /\ MsetSize(a, n) = r[n]
      BY <3>1, SizeSteps DEF n
    <3> DEFINE P == {k \in 0..n : r[k] = IF x <= k THEN s[k] + c ELSE s[k]}
    <3>3. x \in 1..n BY DEF Ids, n
    <3>4. 0 \in P BY <2>1, <3>2, <3>3, <1>0
    <3>5. ASSUME NEW k \in 1..n, k - 1 \in P PROVE k \in P
      <4>1. /\ k \in Ids /\ s[k-1] \in Nat /\ r[k-1] \in Nat /\ m[k] \in Nat
            /\ s[k] = s[k-1] + m[k] /\ r[k] = r[k-1] + a[k] /\ k \in 0..n
        BY <1>0, <2>1, <3>2
      <4>2. r[k-1] = IF x <= k - 1 THEN s[k-1] + c ELSE s[k-1] BY <3>5
      <4>3. a[k] = IF k = x THEN m[k] + c ELSE m[k] BY <4>1, <3>1
      <4> HIDE DEF P
      <4>4. r[k] = IF x <= k THEN s[k] + c ELSE s[k] BY <4>1, <4>2, <4>3, <3>3
      <4> QED BY <4>1, <4>4 DEF P
    <3> HIDE DEF P
    <3>6. \A k \in 0..n : k \in P BY <1>0, <3>4, <3>5, IntervalInduction
    <3>7. r[n] = s[n] + c BY <3>3, <3>6, <1>0 DEF P
    <3> QED BY <2>1, <3>2, <3>7 DEF a
  <2>4. ASSUME NEW o \in [Ids -> Nat], \A x \in Ids : o[x] <= m[x]
        PROVE  MsetSize(o, n) <= MsetSize(m, n)
    <3>1. PICK r \in [0..n -> Nat] : /\ r[0] = 0 /\ \A k \in Ids : r[k] = r[k-1] + o[k]
                                     /\ MsetSize(o, n) = r[n]
      BY SizeSteps DEF n
    <3> DEFINE P == {k \in 0..n : r[k] <= s[k]}
    <3>2. 0 \in P BY <2>1, <3>1, <1>0
    <3>3. ASSUME NEW k \in 1..n, k - 1 \in P PROVE k \in P
      <4>1. /\ k \in Ids /\ s[k-1] \in Nat /\ r[k-1] \in Nat /\ m[k] \in Nat /\ o[k] \in Nat
            /\ s[k] = s[k-1] + m[k] /\ r[k] = r[k-1] + o[k] /\ k \in 0..n
            /\ o[k] <= m[k]
        BY <1>0, <2>1, <2>4, <3>1
      <4>2. r[k-1] <= s[k-1] BY <3>3
      <4> QED BY <4>1, <4>2
    <3> HIDE DEF P
    <3>4. \A k \in 0..n : k \in P BY <1>0, <3>2, <3>3, IntervalInduction
    <3> QED BY <2>1, <3>1, <3>4, <1>0 DEF P
  <2> QED BY <2>2, <2>3, <2>4
<1> QED BY <1>1, <1>2 DEF n
-----------------------------------------------------------------------------
\* Raising the count of an id keeps a vector sorted.
LEMMA RaiseFacts ==
  ASSUME NEW d \in Seq(Entries), Sorted(d), NEW x \in Ids, NEW c \in Nat
  PROVE  /\ Raise(d, x, c) \in Seq(Entries) /\ Sorted(Raise(d, x, c))
         /\ Tally(Raise(d, x, c)) = AddCount(Tally(d), x, c)
<1> DEFINE n == Len(d)
           p == find_pos(d, x)
<1>1. /\ n \in Nat /\ DOMAIN d = 1..n
      /\ \A i \in 1..n : d[i].id \in Ids /\ d[i].id \in Nat /\ d[i].count \in Nat
                         /\ d[i] = Entry(d[i].id, d[i].count)
  BY EntryFacts
<1>2. x \in Nat BY FingerprintAssumption DEF Ids
<1>3. Ascending(d) BY <1>1 DEF Ascending, Sorted
<1>4. p \in 1..(n + 1) /\ \A i \in 1..n : i < p <=> d[i].id < x BY <1>3, FindPos
<1> HIDE DEF p
<1>5. CASE Found(d, x)
  <2> DEFINE d2 == [d EXCEPT ![p] = Entry(d[p].id, d[p].count + c)]
  <2>1. p \in 1..n /\ d[p].id = x BY <1>3, <1>5, FoundFacts DEF p
  <2>2. Raise(d, x, c) = d2
    <3>1. Raise(d, x, c) = [d EXCEPT ![p].count = d[p].count + c]
      BY <1>5 DEF Raise, p
    <3>2. d[p] = [id |-> d[p].id, count |-> d[p].count] BY <1>1, <2>1 DEF Entry
    <3> QED BY <3>1, <3>2 DEF Entry
  <2> HIDE DEF d2
  <2>3. /\ d2 \in Seq(Entries) /\ Len(d2) = n /\ \A i \in 1..n : d2[i].id = d[i].id
        /\ Tally(d2) = AddCount(Tally(d), d[p].id, c)
    BY <2>1, TallyRaise DEF d2
  <2>4. DOMAIN d2 = 1..n BY <2>3, EntryFacts
  <2>5. Sorted(d2) BY <2>3, <2>4, <1>1 DEF Sorted
  <2> QED BY <2>1, <2>2, <2>3, <2>5
<1>6. CASE ~ Found(d, x)
  <2> DEFINE e == Entry(x, c)
             d2 == InsertEntry(d, p, e)
  <2>1. Raise(d, x, c) = d2 BY <1>6 DEF Raise, p
  <2>2. e \in Entries /\ e.id = x /\ e.count = c BY EntryMade
  <2>3. \A i \in 1..n : d[i].id # x BY <1>3, <1>6, FoundFacts
  <2> HIDE DEF e
  <2>4. d2 = [i \in 1..(n + 1) |-> IF i < p THEN d[i] ELSE IF i = p THEN e ELSE d[i-1]]
    BY DEF InsertEntry
  <2>5. /\ d2 \in Seq(Entries) /\ Len(d2) = n + 1
        /\ Tally(d2) = AddCount(Tally(d), x, c)
    BY <2>2, <1>4, TallyInsert
  <2> HIDE DEF d2
  <2>6. ASSUME NEW i \in 1..(n + 1), NEW j \in 1..(n + 1), i < j
        PROVE  d2[i].id < d2[j].id
    <3>1. CASE j < p
      <4>1. i \in 1..n /\ j \in 1..n /\ i < p BY <3>1, <2>6, <1>1, <1>4
      <4> QED BY <4>1, <3>1, <2>4, <2>6, <1>1 DEF Sorted
    <3>2. CASE j = p
      <4>1. i \in 1..n /\ i < p BY <3>2, <2>6, <1>1, <1>4
      <4> QED BY <4>1, <3>2, <2>2, <2>4, <1>4
    <3>3. CASE p < j
      <4>1. j - 1 \in 1..n /\ ~ (j - 1 < p) /\ ~ (j < p) /\ j # p BY <3>3, <1>1, <1>4
      <4>2. d2[j] = d[j-1] BY <4>1, <2>4
      <4>3. x < d[j-1].id
        <5>1. ~ (d[j-1].id < x) /\ d[j-1].id # x BY <4>1, <1>4, <2>3
        <5> QED BY <5>1, <4>1, <1>1, <1>2
      <4>4. CASE i < p
        <5>1. i \in 1..n /\ d2[i] = d[i] /\ d[i].id < x BY <4>4, <1>1, <1>4, <2>4
        <5> QED BY <5>1, <4>1, <4>2, <4>3, <1>1, <1>2
      <4>5. CASE i = p BY <4>2, <4>3, <4>5, <2>2, <2>4
      <4>6. CASE i > p
        <5>1. i - 1 \in 1..n /\ i - 1 < j - 1 /\ ~ (i < p) /\ i # p
          BY <4>6, <2>6, <1>1, <1>4
        <5>2. d2[i] = d[i-1] BY <5>1, <2>4
        <5> QED BY <5>1, <5>2, <4>1, <4>2, <1>1 DEF Sorted
      <4> QED BY <4>4, <4>5, <4>6, <1>1, <1>4
    <3> QED BY <3>1, <3>2, <3>3, <1>1, <1>4
  <2>7. DOMAIN d2 = 1..(n + 1) BY <2>5, EntryFacts
  <2>8. Sorted(d2) BY <2>6, <2>7 DEF Sorted
  <2> QED BY <2>1, <2>5, <2>8
<1> QED BY <1>5, <1>6

\* rehash computes the digest of the tally, of any vector of entries.
LEMMA RehashFacts ==
  ASSUME NEW d \in Seq(Entries)
  PROVE  rehash(d) = Digest(Tally(d))
<1> DEFINE n == Len(d)
           Eq(fp) == fp = [i \in 0..n |->
                             IF i = 0 THEN SEED2
                             ELSE IF d[i].count > 0
                               THEN FpInsert(fp[i-1], d[i].id, d[i].count)
                             ELSE fp[i-1]]
<1>1. n \in Nat /\ \A i \in 1..n : d[i].id \in Ids /\ d[i].count \in Nat BY EntryFacts
<1>2. PICK t : IsTally(d, t) /\ Tally(d) = t[n] BY TallySteps
<1>3. /\ \A i \in 0..n : t[i] \in [Ids -> Nat]
      /\ t[0] = EmptyMset(Ids)
      /\ \A i \in 1..n : t[i] = AddCount(t[i-1], d[i].id, d[i].count)
  BY <1>2 DEF IsTally
<1>4. Digest(EmptyMset(Ids)) = SEED2
  <2> DEFINE e == EmptyMset(Ids)
  <2>1. e \in [Ids -> Nat] /\ \A x \in Ids : e[x] = 0 BY DEF EmptyMset
  <2> HIDE DEF e
  <2>2. PICK w \in [0..MaxIds -> Nat] :
          /\ w[0] = 0 /\ \A k \in Ids : w[k] = w[k-1] + hashmodp(k) * e[k]
          /\ Weight(e) = w[MaxIds]
    BY <2>1, WeightSteps
  <2>3. MaxIds \in Nat BY FingerprintAssumption
  <2> DEFINE P == {k \in 0..MaxIds : w[k] = 0}
  <2>4. 0 \in P BY <2>2, <2>3
  <2>5. ASSUME NEW k \in 1..MaxIds, k - 1 \in P PROVE k \in P
    <3>1. k \in Ids /\ e[k] = 0 /\ w[k-1] = 0 BY <2>1, <2>5 DEF Ids
    <3>2. hashmodp(k) \in Nat BY <3>1, HashType
    <3>3. hashmodp(k) * 0 = 0 BY <3>2
    <3>4. w[k] = 0 BY <3>1, <3>3, <2>2
    <3> QED BY <3>4, <2>3
  <2> HIDE DEF P
  <2>6. \A k \in 0..MaxIds : k \in P BY <2>3, <2>4, <2>5, IntervalInduction
  <2>7. Weight(e) = 0 BY <2>2, <2>3, <2>6 DEF P
  <2>8. SEED2 \in 0..(PRIME - 1) /\ PRIME \in Nat \ {0} BY FingerprintAssumption
  <2>9. PRIME * 0 + SEED2 = SEED2 /\ SEED2 + 0 = SEED2 BY <2>8
  <2>10. (PRIME * 0 + SEED2) % PRIME = SEED2 BY <2>8, Remainder
  <2> QED BY <2>7, <2>9, <2>10 DEF Digest, e
<1>5. \A i \in 1..n : /\ t[i-1] \in [Ids -> Nat]
                      /\ Digest(t[i]) = IF d[i].count > 0
                           THEN FpInsert(Digest(t[i-1]), d[i].id, d[i].count)
                           ELSE Digest(t[i-1])
  <2> TAKE i \in 1..n
  <2> DEFINE m == t[i-1]
             x == d[i].id
             c == d[i].count
  <2>1. m \in [Ids -> Nat] /\ x \in Ids /\ c \in Nat /\ t[i] = AddCount(m, x, c)
    <3>1. i - 1 \in 0..n BY <1>1
    <3> QED BY <3>1, <1>1, <1>3
  <2> HIDE DEF m, x, c
  <2>2. Digest(AddCount(m, x, c)) = FpInsert(Digest(m), x, c) BY <2>1, DigestAdds
  <2>3. c = 0 => AddCount(m, x, c) = m BY <2>1, AddOrder
  <2>4. c > 0 \/ c = 0 BY <2>1
  <2> QED BY <2>1, <2>2, <2>3, <2>4 DEF m, x, c
<1> DEFINE g == [i \in 0..n |-> Digest(t[i])]
<1>6. Eq(g)
  <2>1. \A i \in 0..n : i # 0 => i \in 1..n /\ i - 1 \in 0..n BY <1>1
  <2>2. \A i \in 0..n : g[i] = Digest(t[i]) OBVIOUS
  <2>3. g = [i \in 0..n |-> g[i]] OBVIOUS
  <2> HIDE DEF g
  <2>4. \A i \in 0..n : g[i] = IF i = 0 THEN SEED2
                               ELSE IF d[i].count > 0
                                 THEN FpInsert(g[i-1], d[i].id, d[i].count)
                               ELSE g[i-1]
    BY <2>1, <2>2, <1>3, <1>4, <1>5
  <2> QED BY <2>3, <2>4
<1> DEFINE fp == CHOOSE fp : Eq(fp)
<1>7. Eq(fp) BY <1>6
<1>8. rehash(d) = fp[n] BY DEF rehash
<1> HIDE DEF fp
<1> DEFINE P == {i \in 0..n : fp[i] = Digest(t[i])}
<1>9. 0 \in P BY <1>1, <1>3, <1>4, <1>7
<1>10. ASSUME NEW i \in 1..n, i - 1 \in P PROVE i \in P
  <2>1. fp[i-1] = Digest(t[i-1]) /\ i \in 0..n /\ i # 0 BY <1>10, <1>1
  <2>2. fp[i] = IF d[i].count > 0 THEN FpInsert(fp[i-1], d[i].id, d[i].count) ELSE fp[i-1]
    BY <2>1, <1>7
  <2> QED BY <2>1, <2>2, <1>5
<1> HIDE DEF P
<1>11. \A i \in 0..n : i \in P BY <1>1, <1>9, <1>10, IntervalInduction
<1> QED BY <1>1, <1>2, <1>8, <1>11 DEF P
-----------------------------------------------------------------------------
\* An object in order: its vector is sorted, its size and its fingerprint are
\* those of what the vector adds up to.
Good ==
  {m \in [data : Seq(Entries), nelements : Nat, fingerprint : Residues] :
     /\ Sorted(m.data)
     /\ m.nelements = MsetSize(Tally(m.data), MaxIds)
     /\ m.fingerprint = Digest(Tally(m.data))}

\* A digest is a residue.
LEMMA DigestType ==
  ASSUME NEW m \in [Ids -> Nat]
  PROVE  Digest(m) \in Residues
<1>1. PRIME \in Nat \ {0} /\ SEED2 \in Nat BY FingerprintAssumption
<1>2. PICK w \in [0..MaxIds -> Nat] : Weight(m) = w[MaxIds] BY WeightSteps
<1>3. MaxIds \in 0..MaxIds BY FingerprintAssumption
<1>4. SEED2 + Weight(m) \in Nat BY <1>1, <1>2, <1>3
<1> QED BY <1>1, <1>4, Division DEF Digest, Residues

\* What is known of an object in order, and what makes one.
LEMMA GoodFacts ==
  /\ \A m \in Good : /\ m = [data |-> m.data, nelements |-> m.nelements,
                             fingerprint |-> m.fingerprint]
                     /\ m.data \in Seq(Entries) /\ Sorted(m.data)
                     /\ m.nelements = MsetSize(Tally(m.data), MaxIds)
                     /\ m.fingerprint = Digest(Tally(m.data))
                     /\ Counts(m) = Tally(m.data)
                     /\ Counts(m) \in [Ids -> Nat]
                     /\ \A x \in Ids : count_of(m, x) = Tally(m.data)[x]
  /\ \A d \in Seq(Entries) : Sorted(d) =>
       [data |-> d, nelements |-> MsetSize(Tally(d), MaxIds),
        fingerprint |-> Digest(Tally(d))] \in Good
<1>1. ASSUME NEW m \in Good
      PROVE  /\ m = [data |-> m.data, nelements |-> m.nelements,
                     fingerprint |-> m.fingerprint]
             /\ m.data \in Seq(Entries) /\ Sorted(m.data)
             /\ m.nelements = MsetSize(Tally(m.data), MaxIds)
             /\ m.fingerprint = Digest(Tally(m.data))
             /\ Counts(m) = Tally(m.data)
             /\ Counts(m) \in [Ids -> Nat]
             /\ \A x \in Ids : count_of(m, x) = Tally(m.data)[x]
  <2>1. /\ m = [data |-> m.data, nelements |-> m.nelements,
                fingerprint |-> m.fingerprint]
        /\ m.data \in Seq(Entries) /\ Sorted(m.data)
        /\ m.nelements = MsetSize(Tally(m.data), MaxIds)
        /\ m.fingerprint = Digest(Tally(m.data))
    BY DEF Good
  <2> QED BY <2>1, CountsTally, TallyType
<1>2. ASSUME NEW d \in Seq(Entries), Sorted(d)
      PROVE  [data |-> d, nelements |-> MsetSize(Tally(d), MaxIds),
              fingerprint |-> Digest(Tally(d))] \in Good
  <2>1. Tally(d) \in [Ids -> Nat] BY TallyType
  <2>2. MsetSize(Tally(d), MaxIds) \in Nat BY <2>1, SizeFacts
  <2>3. Digest(Tally(d)) \in Residues BY <2>1, DigestType
  <2> QED BY <1>2, <2>2, <2>3 DEF Good
<1> QED BY <1>1, <1>2

\* No elements.
LEMMA EmptyGood == EmptyMultiset \in Good /\ Tally(EmptyMultiset.data) = EmptyMset(Ids)
<1>1. << >> \in Seq(Entries) /\ Sorted(<< >>) BY DEF Sorted
<1>2. MsetSize(Tally(<< >>), MaxIds) = 0 BY TallyEmpty, SizeFacts
<1>3. Digest(Tally(<< >>)) = SEED2
  <2>1. rehash(<< >>) = Digest(Tally(<< >>)) BY <1>1, RehashFacts
  <2>2. rehash(<< >>) = SEED2
    <3> DEFINE d == << >>
               Eq(fp) == fp = [i \in 0..Len(d) |->
                             IF i = 0 THEN SEED2
                             ELSE IF d[i].count > 0
                               THEN FpInsert(fp[i-1], d[i].id, d[i].count)
                             ELSE fp[i-1]]
               fp == CHOOSE fp : Eq(fp)
               g == [i \in 0..0 |-> SEED2]
    <3>1. Len(d) = 0 /\ 0..0 = {0} OBVIOUS
    <3>2. Eq(g) BY <3>1
    <3>3. Eq(fp) BY <3>2
    <3>4. fp[0] = SEED2 BY <3>1, <3>3
    <3>5. rehash(d) = fp[Len(d)] BY DEF rehash
    <3> QED BY <3>1, <3>4, <3>5
  <2> QED BY <2>1, <2>2
<1>4. EmptyMultiset \in Good BY <1>1, <1>2, <1>3, GoodFacts DEF EmptyMultiset
<1> QED BY <1>4, TallyEmpty DEF EmptyMultiset

\* insert adds occurrences.
LEMMA InsertGood ==
  ASSUME NEW m \in Good, NEW x \in Ids, NEW c \in Nat
  PROVE  /\ insert(m, x, c) \in Good
         /\ Tally(insert(m, x, c).data) = AddCount(Tally(m.data), x, c)
<1> DEFINE d == m.data
           r == Raise(d, x, c)
<1>1. /\ d \in Seq(Entries) /\ Sorted(d) /\ m.nelements = MsetSize(Tally(d), MaxIds)
      /\ m.fingerprint = Digest(Tally(d)) /\ Tally(d) \in [Ids -> Nat]
  BY GoodFacts, TallyType
<1>2. CASE c = 0
  <2> DEFINE t == Tally(d)
  <2>1. t \in [Ids -> Nat] BY <1>1
  <2> HIDE DEF t
  <2>2. AddCount(t, x, 0) = t BY <2>1, AddOrder
  <2> QED BY <1>2, <2>2 DEF insert, t
<1>3. CASE c # 0
  <2>1. r \in Seq(Entries) /\ Sorted(r) /\ Tally(r) = AddCount(Tally(d), x, c)
    BY <1>1, RaiseFacts
  <2>2. MsetSize(Tally(r), MaxIds) = m.nelements + c
    BY <1>1, <2>1, SizeFacts
  <2>3. Digest(Tally(r)) = FpInsert(m.fingerprint, x, c)
    BY <1>1, <2>1, DigestAdds
  <2>4. insert(m, x, c) = [data |-> r, nelements |-> MsetSize(Tally(r), MaxIds),
                           fingerprint |-> Digest(Tally(r))]
    BY <1>3, <2>2, <2>3 DEF insert
  <2> HIDE DEF r
  <2> QED BY <2>1, <2>4, GoodFacts
<1> QED BY <1>2, <1>3

\* remove takes one occurrence away, if there is one.
LEMMA RemoveGood ==
  ASSUME NEW m \in Good, NEW x \in Ids
  PROVE  /\ remove(m, x) \in Good
         /\ Tally(remove(m, x).data) = Remove(Tally(m.data), x)
<1> DEFINE d == m.data
           n == Len(d)
           p == find_pos(d, x)
           t == Tally(d)
<1>1. /\ d \in Seq(Entries) /\ Sorted(d) /\ m.nelements = MsetSize(t, MaxIds)
      /\ m.fingerprint = Digest(t) /\ t \in [Ids -> Nat] /\ count_of(m, x) = t[x]
      /\ m = [data |-> d, nelements |-> m.nelements, fingerprint |-> m.fingerprint]
  BY GoodFacts, TallyType
<1>2. /\ n \in Nat /\ DOMAIN d = 1..n /\ d \in [1..n -> Entries]
      /\ \A i \in 1..n : /\ d[i].id \in Ids /\ d[i].id \in Nat /\ d[i].count \in Nat
                         /\ d[i] = [id |-> d[i].id, count |-> d[i].count]
  BY <1>1, EntryFacts DEF Entry
<1>3. t[x] \in Nat BY <1>1
<1>4. CASE ~ contains(m, x)
  <2>1. t[x] = 0 BY <1>1, <1>3, <1>4 DEF contains
  <2>2. Remove(t, x) = t
    <3> HIDE DEF t
    <3>1. Remove(t, x) = [t EXCEPT ![x] = 0] BY <2>1 DEF Remove
    <3>2. Remove(t, x) \in [Ids -> Nat] /\ \A y \in Ids : Remove(t, x)[y] = t[y]
      BY <1>1, <2>1, <3>1
    <3> QED BY <1>1, <3>2
  <2> QED BY <1>4, <2>2 DEF remove
<1>5. CASE contains(m, x)
  <2>1. p \in 1..n /\ d[p].id = x /\ d[p].count > 0
    <3>1. Found(d, x) BY <1>5, <1>3 DEF contains, count_of
    <3>2. d[p].count > 0 BY <1>5, <3>1 DEF contains, count_of
    <3>3. Ascending(d) BY <1>1, CountsTally
    <3> QED BY <3>1, <3>2, <3>3, <1>1, FoundFacts
  <2> DEFINE c == d[p].count - 1
             e == Entry(x, c)
             r == [d EXCEPT ![p] = e]
  <2>17. p = find_pos(m.data, x) OBVIOUS
  <2> HIDE DEF p, d
  <2>2. c \in Nat /\ d[p].count = c + 1 BY <2>1, <1>2
  <2>3. e \in Entries /\ e.id = x /\ e.count = c BY <2>2, EntryMade
  <2>4. remove(m, x) = [data |-> r, nelements |-> m.nelements - 1,
                        fingerprint |-> FpRemove(m.fingerprint, x)]
    <3>1. r = [d EXCEPT ![p].count = d[p].count - 1]
      <4>1. d[p] = [id |-> x, count |-> d[p].count] BY <1>2, <2>1
      <4>2. [d[p] EXCEPT !.count = d[p].count - 1] = Entry(x, d[p].count - 1)
        BY <4>1 DEF Entry
      <4> QED BY <4>2, Zenon
    <3>2. remove(m, x) = [m EXCEPT !.data = r, !.nelements = m.nelements - 1,
                                   !.fingerprint = FpRemove(m.fingerprint, x)]
      BY <1>5, <3>1, <2>17 DEF remove, d
    <3> HIDE DEF r
    <3> QED BY <3>2, <1>1
  <2> HIDE DEF e, c
  <2>5. r \in [1..n -> Entries] /\ r[p] = e /\ \A i \in 1..n : i # p => r[i] = d[i]
    BY <1>2, <2>1, <2>3
  <2>6. r \in Seq(Entries) /\ Len(r) = n /\ DOMAIN r = 1..n BY <2>5, <1>2, EntryMade
  <2>7. Sorted(r)
    <3>1. \A i \in 1..n : r[i].id = d[i].id BY <2>1, <2>3, <2>5
    <3> QED BY <3>1, <2>6, <1>1, <1>2 DEF Sorted
  <2>8. d = [r EXCEPT ![p] = Entry(r[p].id, r[p].count + 1)]
    <3>1. d[p] = Entry(r[p].id, r[p].count + 1)
      BY <2>1, <2>2, <2>3, <2>5, <1>2 DEF Entry
    <3> DEFINE q == [r EXCEPT ![p] = d[p]]
    <3>2. q \in [1..n -> Entries] /\ \A i \in 1..n : q[i] = d[i]
      BY <2>1, <2>5, <1>2
    <3>3. q = d BY <3>2, <1>2
    <3> QED BY <3>1, <3>3
  <2> HIDE DEF r
  <2>9. t = AddCount(Tally(r), x, 1)
    <3>1. p \in 1..Len(r) /\ r[p].id = x BY <2>1, <2>3, <2>5, <2>6
    <3> DEFINE k == 1
    <3>2. k \in Nat /\ d = [r EXCEPT ![p] = Entry(r[p].id, r[p].count + k)] BY <2>8
    <3> HIDE DEF k
    <3>3. Tally(d) = AddCount(Tally(r), r[p].id, k)
      <4>1. r \in Seq(Entries) /\ p \in 1..Len(r) /\ k \in Nat BY <2>6, <3>1, <3>2
      <4>2. d = [r EXCEPT ![p] = Entry(r[p].id, r[p].count + k)] BY <3>2
      <4> QED BY <4>1, <4>2, TallyRaise, Zenon
    <3> QED BY <3>1, <3>3 DEF k
  <2> DEFINE u == Tally(r)
  <2>10. u \in [Ids -> Nat] BY <2>6, TallyType
  <2> HIDE DEF t, u
  <2>11. t = AddCount(u, x, 1) BY <2>9 DEF u
  <2>12. \A y \in Ids : t[y] = IF y = x THEN u[y] + 1 ELSE u[y] BY <2>10, <2>11, AddType
  <2>13. u = Remove(t, x)
    <3>1. t[x] > 0 /\ t[x] - 1 = u[x] /\ u[x] \in Nat BY <2>10, <2>12
    <3>2. Remove(t, x) = [t EXCEPT ![x] = u[x]] BY <3>1 DEF Remove
    <3>3. Remove(t, x) \in [Ids -> Nat] /\ \A y \in Ids : Remove(t, x)[y] = u[y]
      BY <3>1, <3>2, <2>12, <1>1
    <3> QED BY <3>3, <2>10
  <2>14. MsetSize(u, MaxIds) = m.nelements - 1
    <3>1. MsetSize(u, MaxIds) \in Nat /\ MsetSize(t, MaxIds) = MsetSize(u, MaxIds) + 1
      BY <2>10, <2>11, SizeFacts
    <3> QED BY <3>1, <1>1
  <2>15. Digest(u) = FpRemove(m.fingerprint, x)
    BY <2>10, <2>11, <1>1, DigestAdds
  <2>16. remove(m, x) = [data |-> r, nelements |-> MsetSize(Tally(r), MaxIds),
                         fingerprint |-> Digest(Tally(r))]
    BY <2>4, <2>14, <2>15 DEF u, r
  <2> QED BY <2>6, <2>7, <2>13, <2>16, GoodFacts DEF u, t, d
<1> QED BY <1>4, <1>5
-----------------------------------------------------------------------------
\* A vector of ids, each taken as an entry of one occurrence.
Units(vec) == [i \in DOMAIN vec |-> Entry(vec[i], 1)]

\* What such entries are.
LEMMA UnitsFacts ==
  ASSUME NEW vec \in Seq(Ids)
  PROVE  /\ Len(vec) \in Nat /\ DOMAIN vec = 1..Len(vec)
         /\ \A i \in 1..Len(vec) : vec[i] \in Ids
         /\ Units(vec) \in Seq(Entries) /\ Len(Units(vec)) = Len(vec)
         /\ \A i \in 1..Len(vec) : Units(vec)[i].id = vec[i] /\ Units(vec)[i].count = 1
<1> DEFINE n == Len(vec)
<1>1. n \in Nat /\ DOMAIN vec = 1..n /\ \A i \in 1..n : vec[i] \in Ids
  <2> DEFINE S == Ids
  <2> HIDE DEF S
  <2>1. vec \in Seq(S) BY DEF S
  <2>2. n \in Nat /\ DOMAIN vec = 1..n /\ \A i \in 1..n : vec[i] \in S BY <2>1
  <2> QED BY <2>2 DEF S
<1> DEFINE u == Units(vec)
<1>2. u = [i \in 1..n |-> Entry(vec[i], 1)] BY <1>1 DEF Units
<1> HIDE DEF u
<1>3. \A i \in 1..n : /\ Entry(vec[i], 1) \in Entries
                      /\ Entry(vec[i], 1).id = vec[i] /\ Entry(vec[i], 1).count = 1
  BY <1>1, EntryMade
<1>4. u \in [1..n -> Entries] BY <1>2, <1>3
<1>5. u \in Seq(Entries) /\ Len(u) = n BY <1>1, <1>4, EntryMade
<1> QED BY <1>1, <1>2, <1>3, <1>5 DEF u

\* construct counts the elements of a vector.
LEMMA ConstructGood ==
  ASSUME NEW vec \in Seq(Ids)
  PROVE  construct(vec) \in Good /\ Tally(construct(vec).data) = Tally(Units(vec))
<1> DEFINE n == Len(vec)
           u == Units(vec)
           S == {d \in Seq(Entries) : Sorted(d)}
           G == [k \in 1..n |-> [a \in S |-> Raise(a, vec[k], 1)]]
           Eq(d) == d = [i \in 0..n |-> IF i = 0 THEN << >> ELSE Raise(d[i-1], vec[i], 1)]
           b == << >>
<1>1. /\ n \in Nat /\ \A i \in 1..n : vec[i] \in Ids
      /\ u \in Seq(Entries) /\ Len(u) = n
      /\ \A i \in 1..n : u[i].id = vec[i] /\ u[i].count = 1
  BY UnitsFacts
<1>2. b \in S BY DEF Sorted
<1>3. \A k \in 1..n : \A a \in S : /\ Raise(a, vec[k], 1) \in S
                                   /\ Tally(Raise(a, vec[k], 1)) = AddCount(Tally(a), vec[k], 1)
  BY <1>1, RaiseFacts
<1>4. G \in [1..n -> [S -> S]] BY <1>3
<1>5. \A k \in 1..n : \A a \in S : G[k][a] = Raise(a, vec[k], 1) OBVIOUS
<1>6. \A a \in S : a \in Seq(Entries) /\ Sorted(a) OBVIOUS
<1> HIDE DEF S, G, b, n, u
<1>7. PICK g \in [0..n -> S] : Iterates(n, b, G, g)
  BY <1>1, <1>2, <1>4, LoopExists
<1>8. \A k \in 0..n : k # 0 => k \in 1..n /\ g[k-1] \in S BY <1>1
<1>9. Eq(g) BY <1>5, <1>7, <1>8 DEF Iterates, b
<1> DEFINE d == CHOOSE d : Eq(d)
<1>10. Eq(d) BY <1>9
<1>11. construct(vec) = [data |-> d[n], nelements |-> n, fingerprint |-> rehash(d[n])]
  BY DEF construct, n
<1> HIDE DEF d
<1>12. d[0] = b /\ \A k \in 1..n : d[k] = Raise(d[k-1], vec[k], 1) BY <1>1, <1>10 DEF b
<1>13. PICK t : IsTally(u, t) /\ Tally(u) = t[n] BY <1>1, TallySteps
<1>14. /\ \A i \in 0..n : t[i] \in [Ids -> Nat]
       /\ t[0] = EmptyMset(Ids)
       /\ \A i \in 1..n : t[i] = AddCount(t[i-1], vec[i], 1)
  BY <1>1, <1>13 DEF IsTally
<1> DEFINE P == {k \in 0..n : d[k] \in S /\ Tally(d[k]) = t[k]
                              /\ MsetSize(t[k], MaxIds) = k}
<1>15. 0 \in P BY <1>1, <1>2, <1>12, <1>14, TallyEmpty, SizeFacts DEF b
<1>16. ASSUME NEW k \in 1..n, k - 1 \in P PROVE k \in P
  <2>0. k \in 0..n /\ k - 1 \in 0..n BY <1>1
  <2>1. d[k-1] \in S /\ Tally(d[k-1]) = t[k-1] /\ MsetSize(t[k-1], MaxIds) = k - 1
    BY <1>16
  <2>2. d[k] \in S /\ Tally(d[k]) = t[k] BY <2>1, <1>3, <1>12, <1>14
  <2> DEFINE m == t[k-1]
  <2>3. m \in [Ids -> Nat] /\ t[k] = AddCount(m, vec[k], 1) /\ vec[k] \in Ids
        /\ MsetSize(m, MaxIds) = k - 1
    BY <2>0, <2>1, <1>1, <1>14
  <2> HIDE DEF m
  <2>4. MsetSize(t[k], MaxIds) = k BY <2>0, <2>3, SizeFacts
  <2> QED BY <2>0, <2>2, <2>4
<1> HIDE DEF P
<1>17. \A k \in 0..n : k \in P BY <1>1, <1>15, <1>16, IntervalInduction
<1> DEFINE r == d[n]
<1>18. r \in S /\ Tally(r) = Tally(u) /\ MsetSize(Tally(r), MaxIds) = n
  BY <1>1, <1>13, <1>17 DEF P
<1>19. construct(vec) = [data |-> r, nelements |-> MsetSize(Tally(r), MaxIds),
                         fingerprint |-> Digest(Tally(r))]
  BY <1>6, <1>11, <1>18, RehashFacts
<1> HIDE DEF r
<1> QED BY <1>6, <1>18, <1>19, GoodFacts DEF u

\* A run of equal ids at the end of a vector.
LEMMA BlockTally ==
  ASSUME NEW vec \in Seq(Ids), NEW x \in Ids, NEW c \in Nat
  PROVE  /\ vec \o [k \in 1..c |-> x] \in Seq(Ids)
         /\ Tally(Units(vec \o [k \in 1..c |-> x])) = AddCount(Tally(Units(vec)), x, c)
<1> DEFINE n == Len(vec)
           block == [k \in 1..c |-> x]
           w == vec \o block
           uv == Units(vec)
           uw == Units(w)
<1>1. /\ n \in Nat /\ \A i \in 1..n : vec[i] \in Ids
      /\ uv \in Seq(Entries) /\ Len(uv) = n
      /\ \A i \in 1..n : uv[i].id = vec[i] /\ uv[i].count = 1
  BY UnitsFacts
<1>2. /\ w \in Seq(Ids) /\ Len(w) = n + c
      /\ \A i \in 1..(n + c) : w[i] = IF i <= n THEN vec[i] ELSE x
  <2> DEFINE S == Ids
  <2> HIDE DEF S
  <2>1. vec \in Seq(S) /\ block \in Seq(S) /\ Len(block) = c /\ \A k \in 1..c : block[k] = x
    <3>1. x \in S BY DEF S
    <3> QED BY <3>1 DEF S
  <2> HIDE DEF block
  <2>2. /\ w \in Seq(S) /\ Len(w) = n + c
        /\ \A i \in 1..(n + c) : w[i] = IF i <= n THEN vec[i] ELSE block[i - n]
    BY <2>1
  <2>3. \A i \in 1..(n + c) : ~ (i <= n) => i - n \in 1..c BY <1>1
  <2> QED BY <2>1, <2>2, <2>3 DEF S
<1> HIDE DEF w
<1>3. /\ uw \in Seq(Entries) /\ Len(uw) = n + c
      /\ \A i \in 1..(n + c) : uw[i].id = w[i] /\ uw[i].count = 1
  BY <1>2, UnitsFacts
<1> HIDE DEF uw, uv
<1>4. PICK t : IsTally(uv, t) /\ Tally(uv) = t[n] BY <1>1, TallySteps
<1>5. /\ \A i \in 0..n : t[i] \in [Ids -> Nat]
      /\ t[0] = EmptyMset(Ids)
      /\ \A i \in 1..n : t[i] = AddCount(t[i-1], vec[i], 1)
  BY <1>1, <1>4 DEF IsTally
<1> DEFINE m == t[n]
           s == [i \in 0..(n + c) |-> IF i <= n THEN t[i] ELSE AddCount(m, x, i - n)]
<1>6. m \in [Ids -> Nat] BY <1>1, <1>5
<1> HIDE DEF m
<1>7. \A i \in n..(n + c) : /\ i - n \in Nat /\ s[i] = AddCount(m, x, i - n)
                            /\ s[i] \in [Ids -> Nat]
  <2> TAKE i \in n..(n + c)
  <2>1. i - n \in Nat /\ i \in 0..(n + c) BY <1>1
  <2>2. AddCount(m, x, i - n) \in [Ids -> Nat] BY <1>6, <2>1, AddType
  <2>3. AddCount(m, x, 0) = m BY <1>6, AddOrder
  <2>4. CASE i <= n
    <3>1. i = n /\ i - n = 0 BY <2>4, <1>1
    <3>2. s[i] = m BY <3>1, <2>1 DEF m
    <3> QED BY <3>1, <3>2, <2>1, <2>2, <2>3
  <2>5. CASE ~ (i <= n) BY <2>1, <2>2, <2>5
  <2> QED BY <2>4, <2>5
<1>8. s \in [0..(n + c) -> [Ids -> Nat]]
  <2>1. \A i \in 0..(n + c) : i \in 0..n \/ i \in n..(n + c) BY <1>1
  <2>2. \A i \in 0..n : s[i] = t[i] BY <1>1
  <2>3. s = [i \in 0..(n + c) |-> s[i]] OBVIOUS
  <2> HIDE DEF s
  <2> QED BY <2>1, <2>2, <2>3, <1>5, <1>7
<1>9. s[0] = EmptyMset(Ids) BY <1>1, <1>5
<1>10. ASSUME NEW i \in 1..(n + c) PROVE s[i] = AddCount(s[i-1], uw[i].id, uw[i].count)
  <2>1. CASE i <= n
    <3>1. i \in 1..n /\ i - 1 \in 0..(n + c) /\ i - 1 <= n /\ i \in 0..(n + c)
      BY <2>1, <1>1
    <3> QED BY <3>1, <2>1, <1>2, <1>3, <1>5
  <2>2. CASE ~ (i <= n)
    <3>1. /\ i - 1 \in n..(n + c) /\ i \in n..(n + c) /\ (i - 1) - n \in Nat
          /\ ((i - 1) - n) + 1 = i - n
      BY <2>2, <1>1
    <3>2. s[i-1] = AddCount(m, x, (i - 1) - n) /\ s[i] = AddCount(m, x, i - n)
      BY <3>1, <1>7
    <3> DEFINE k == (i - 1) - n
    <3>3. k \in Nat /\ k + 1 = i - n BY <3>1
    <3> HIDE DEF k
    <3>4. AddCount(AddCount(m, x, k), x, 1) = AddCount(m, x, k + 1)
      BY <3>3, <1>6, AddOrder
    <3>5. uw[i].id = x /\ uw[i].count = 1 BY <2>2, <1>2, <1>3
    <3> QED BY <3>2, <3>3, <3>4, <3>5 DEF k
  <2> QED BY <2>1, <2>2
<1>11. s[n + c] = AddCount(m, x, c)
  <2>1. n + c \in n..(n + c) /\ (n + c) - n = c BY <1>1
  <2>2. s[n + c] = AddCount(m, x, (n + c) - n) BY <2>1, <1>7
  <2> QED BY <2>1, <2>2
<1> HIDE DEF s
<1>12. IsTally(uw, s) BY <1>3, <1>8, <1>9, <1>10 DEF IsTally
<1>13. Tally(uw) = s[n + c] BY <1>3, <1>12, TallyUnique
<1> QED BY <1>2, <1>4, <1>11, <1>13 DEF w, uw, uv, m

\* collect lists the elements, each as often as it occurs.
LEMMA CollectFacts ==
  ASSUME NEW m, m.data \in Seq(Entries)
  PROVE  collect(m) \in Seq(Ids) /\ Tally(Units(collect(m))) = Tally(m.data)
<1> DEFINE d == m.data
           n == Len(d)
           S == Seq(Ids)
           b == << >>
           Step(a, k) == a \o [j \in 1..d[k].count |-> d[k].id]
           G == [k \in 1..n |-> [a \in S |-> Step(a, k)]]
           Eq(v) == v = [i \in 0..n |-> IF i = 0 THEN << >>
                                        ELSE v[i-1] \o [k \in 1..d[i].count |-> d[i].id]]
<1>1. n \in Nat /\ \A i \in 1..n : d[i].id \in Ids /\ d[i].count \in Nat
  BY EntryFacts
<1>2. b \in S OBVIOUS
<1>3. \A k \in 1..n : \A a \in S :
        /\ Step(a, k) \in S
        /\ Tally(Units(Step(a, k))) = AddCount(Tally(Units(a)), d[k].id, d[k].count)
  <2> SUFFICES ASSUME NEW k \in 1..n, NEW a \in S
               PROVE  /\ Step(a, k) \in S
                      /\ Tally(Units(Step(a, k))) =
                           AddCount(Tally(Units(a)), d[k].id, d[k].count)
    OBVIOUS
  <2> DEFINE x == d[k].id
             c == d[k].count
  <2>1. x \in Ids /\ c \in Nat BY <1>1
  <2> HIDE DEF x, c
  <2>2. /\ a \o [j \in 1..c |-> x] \in Seq(Ids)
        /\ Tally(Units(a \o [j \in 1..c |-> x])) = AddCount(Tally(Units(a)), x, c)
    BY <2>1, BlockTally
  <2> QED BY <2>2 DEF x, c
<1>4. G \in [1..n -> [S -> S]]
  <2> HIDE DEF Step, S
  <2> QED BY <1>3
<1>5. \A k \in 1..n : \A a \in S : G[k][a] = Step(a, k)
  <2> HIDE DEF Step, S
  <2> QED OBVIOUS
<1>6. Tally(Units(b)) = EmptyMset(Ids)
  <2>1. Units(b) = << >> BY DEF Units
  <2> QED BY <2>1, TallyEmpty
<1> HIDE DEF S, G, b, n
<1>7. PICK g \in [0..n -> S] : Iterates(n, b, G, g)
  BY <1>1, <1>2, <1>4, LoopExists
<1>8. \A k \in 0..n : k # 0 => k \in 1..n /\ g[k-1] \in S BY <1>1
<1>9. Eq(g)
  <2> HIDE DEF Step
  <2>1. g = [k \in 0..n |-> IF k = 0 THEN b ELSE G[k][g[k-1]]] BY <1>7 DEF Iterates
  <2>2. g = [k \in 0..n |-> IF k = 0 THEN b ELSE Step(g[k-1], k)]
    BY <2>1, <1>5, <1>8, Zenon
  <2> QED BY <2>2 DEF b, Step
<1> DEFINE v == CHOOSE v : Eq(v)
<1>10. Eq(v) BY <1>9
<1>11. collect(m) = v[n] BY DEF collect, n
<1>12. v[0] = b /\ \A k \in 1..n : v[k] = Step(v[k-1], k)
  <2> HIDE DEF v
  <2>1. v = [k \in 0..n |-> IF k = 0 THEN b ELSE Step(v[k-1], k)]
    BY <1>10, Zenon DEF b
  <2> HIDE DEF Step
  <2> QED BY <1>1, <2>1
<1> HIDE DEF v, Step
<1>13. PICK t : IsTally(d, t) /\ Tally(d) = t[n] BY TallySteps DEF n
<1>14. /\ t[0] = EmptyMset(Ids)
       /\ \A i \in 1..n : t[i] = AddCount(t[i-1], d[i].id, d[i].count)
  BY <1>13 DEF IsTally, n
<1> DEFINE P == {k \in 0..n : v[k] \in S /\ Tally(Units(v[k])) = t[k]}
<1>15. 0 \in P BY <1>1, <1>2, <1>6, <1>12, <1>14
<1>16. ASSUME NEW k \in 1..n, k - 1 \in P PROVE k \in P
  <2>1. k \in 0..n /\ v[k-1] \in S /\ Tally(Units(v[k-1])) = t[k-1] BY <1>1, <1>16
  <2>2. v[k] \in S /\ Tally(Units(v[k])) = t[k] BY <2>1, <1>3, <1>12, <1>14
  <2> QED BY <2>1, <2>2
<1> HIDE DEF P
<1>17. \A k \in 0..n : k \in P BY <1>1, <1>15, <1>16, IntervalInduction
<1> QED BY <1>1, <1>11, <1>13, <1>17 DEF P, S
-----------------------------------------------------------------------------
\* insert_all adds the counts of another object.
LEMMA InsertAllGood ==
  ASSUME NEW m \in Good, NEW other \in Good
  PROVE  /\ insert_all(m, other) \in Good
         /\ \A x \in Ids : Tally(insert_all(m, other).data)[x] =
                             Tally(m.data)[x] + Tally(other.data)[x]
<1> DEFINE d == other.data
           n == Len(d)
           G == [k \in 1..n |-> [a \in Good |-> insert(a, d[k].id, d[k].count)]]
           Eq(r) == r = [i \in 0..n |-> IF i = 0 THEN m
                                        ELSE insert(r[i-1], d[i].id, d[i].count)]
           b == Tally(m.data)
<1>1. /\ d \in Seq(Entries) /\ n \in Nat
      /\ \A i \in 1..n : d[i].id \in Ids /\ d[i].count \in Nat
      /\ b \in [Ids -> Nat]
  BY GoodFacts, EntryFacts, TallyType
<1>2. \A k \in 1..n : \A a \in Good :
        /\ insert(a, d[k].id, d[k].count) \in Good
        /\ Tally(insert(a, d[k].id, d[k].count).data) =
             AddCount(Tally(a.data), d[k].id, d[k].count)
  BY <1>1, InsertGood
<1>3. G \in [1..n -> [Good -> Good]] BY <1>2
<1>4. \A k \in 1..n : \A a \in Good : G[k][a] = insert(a, d[k].id, d[k].count) OBVIOUS
<1> HIDE DEF G, n, b
<1>5. PICK g \in [0..n -> Good] : Iterates(n, m, G, g) BY <1>1, <1>3, LoopExists
<1>6. \A k \in 0..n : k # 0 => k \in 1..n /\ g[k-1] \in Good BY <1>1
<1>7. Eq(g) BY <1>4, <1>5, <1>6 DEF Iterates
<1> DEFINE r == CHOOSE r : Eq(r)
<1>8. Eq(r) BY <1>7
<1>9. insert_all(m, other) = r[n] BY DEF insert_all, n
<1> HIDE DEF r
<1>10. r[0] = m /\ \A k \in 1..n : r[k] = insert(r[k-1], d[k].id, d[k].count)
  BY <1>1, <1>8
<1>11. PICK t : IsTally(d, t) /\ Tally(d) = t[n] BY <1>1, TallySteps DEF n
<1>12. /\ \A i \in 0..n : t[i] \in [Ids -> Nat]
       /\ t[0] = EmptyMset(Ids)
       /\ \A i \in 1..n : t[i] = AddCount(t[i-1], d[i].id, d[i].count)
  BY <1>11 DEF IsTally, n
<1> DEFINE Sum(k) == \A x \in Ids : Tally(r[k].data)[x] = b[x] + t[k][x]
           P == {k \in 0..n : r[k] \in Good /\ Sum(k)}
<1>13. 0 \in P
  <2>1. \A x \in Ids : t[0][x] = 0 BY <1>12 DEF EmptyMset
  <2>2. \A x \in Ids : b[x] \in Nat BY <1>1
  <2>3. r[0].data = m.data BY <1>10
  <2>4. Sum(0) BY <2>1, <2>2, <2>3 DEF b
  <2> QED BY <2>4, <1>1, <1>10
<1>14. ASSUME NEW k \in 1..n, k - 1 \in P PROVE k \in P
  <2> DEFINE a == Tally(r[k-1].data)
             s == t[k-1]
             x == d[k].id
             c == d[k].count
  <2>1. r[k-1] \in Good /\ k \in 0..n /\ \A y \in Ids : a[y] = b[y] + s[y]
    BY <1>1, <1>14
  <2>2. /\ x \in Ids /\ c \in Nat /\ s \in [Ids -> Nat] /\ a \in [Ids -> Nat]
        /\ t[k] = AddCount(s, x, c)
    <3>1. k - 1 \in 0..n BY <1>1
    <3>2. a \in [Ids -> Nat] BY <2>1, GoodFacts, TallyType
    <3> QED BY <3>1, <3>2, <1>1, <1>12
  <2>3. r[k] \in Good /\ Tally(r[k].data) = AddCount(a, x, c) BY <2>1, <1>2, <1>10
  <2> HIDE DEF a, s, x, c, P
  <2>4. \A y \in Ids : /\ AddCount(a, x, c)[y] = IF y = x THEN a[y] + c ELSE a[y]
                       /\ AddCount(s, x, c)[y] = IF y = x THEN s[y] + c ELSE s[y]
    <3>1. \A y \in Ids : AddCount(a, x, c)[y] = IF y = x THEN a[y] + c ELSE a[y]
      BY <2>2, AddType
    <3>2. \A y \in Ids : AddCount(s, x, c)[y] = IF y = x THEN s[y] + c ELSE s[y]
      BY <2>2, AddType
    <3> QED BY <3>1, <3>2
  <2>5. Sum(k)
    <3> TAKE y \in Ids
    <3>1. a[y] \in Nat /\ s[y] \in Nat /\ b[y] \in Nat /\ a[y] = b[y] + s[y]
      BY <1>1, <2>1, <2>2
    <3>2. Tally(r[k].data)[y] = IF y = x THEN a[y] + c ELSE a[y] BY <2>3, <2>4
    <3>3. t[k][y] = IF y = x THEN s[y] + c ELSE s[y] BY <2>2, <2>4
    <3> QED BY <3>1, <3>2, <3>3, <2>2
  <2> QED BY <2>1, <2>3, <2>5 DEF P
<1> HIDE DEF P
<1>15. \A k \in 0..n : k \in P BY <1>1, <1>13, <1>14, IntervalInduction
<1> QED BY <1>1, <1>9, <1>11, <1>15 DEF P, b

\* Before its entry an id has no occurrences, in a sorted vector.
LEMMA NoneBefore ==
  ASSUME NEW d \in Seq(Entries), Sorted(d), NEW t, IsTally(d, t), NEW i \in 1..Len(d)
  PROVE  t[i-1][d[i].id] = 0
<1> DEFINE x == d[i].id
           n == i - 1
           P == {k \in 0..n : t[k][x] = 0}
<1>1. /\ Len(d) \in Nat /\ DOMAIN d = 1..Len(d) /\ n \in Nat
      /\ \A j \in 1..Len(d) : d[j].id \in Ids /\ d[j].id \in Nat /\ d[j].count \in Nat
  BY EntryFacts
<1>2. /\ \A j \in 0..Len(d) : t[j] \in [Ids -> Nat]
      /\ t[0] = EmptyMset(Ids)
      /\ \A j \in 1..Len(d) : t[j] = AddCount(t[j-1], d[j].id, d[j].count)
  BY DEF IsTally
<1>3. 0 \in P BY <1>1, <1>2 DEF EmptyMset
<1>4. ASSUME NEW k \in 1..n, k - 1 \in P PROVE k \in P
  <2> DEFINE m == t[k-1]
             y == d[k].id
             c == d[k].count
  <2>1. k \in 1..Len(d) /\ k < i /\ k \in 0..n /\ k - 1 \in 0..Len(d) BY <1>1
  <2>2. m \in [Ids -> Nat] /\ y \in Ids /\ c \in Nat /\ t[k] = AddCount(m, y, c) /\ m[x] = 0
    BY <2>1, <1>1, <1>2, <1>4
  <2>3. x \in Ids /\ x # y
    <3>1. d[k].id < d[i].id BY <2>1, <1>1 DEF Sorted
    <3> QED BY <3>1, <2>1, <1>1
  <2> HIDE DEF m, y, c, x
  <2>4. AddCount(m, y, c)[x] = m[x] BY <2>2, <2>3, AddType
  <2> QED BY <2>1, <2>2, <2>4
<1> HIDE DEF P
<1>5. \A k \in 0..n : k \in P BY <1>1, <1>3, <1>4, IntervalInduction
<1> QED BY <1>1, <1>5 DEF P

\* msetdiff leaves what the other object has fewer of.
LEMMA DiffGood ==
  ASSUME NEW m \in Good, NEW other \in Good
  PROVE  /\ msetdiff(m, other) \in Good
         /\ \A x \in Ids : Tally(msetdiff(m, other).data)[x] =
                             IF Tally(m.data)[x] > Tally(other.data)[x]
                             THEN Tally(m.data)[x] - Tally(other.data)[x] ELSE 0
<1> DEFINE d == m.data
           n == Len(d)
           o == Tally(other.data)
           Step(a, k) == IF d[k].count > o[d[k].id]
                           THEN insert(a, d[k].id, d[k].count - o[d[k].id]) ELSE a
           G == [k \in 1..n |-> [a \in Good |-> Step(a, k)]]
           Eq(r) == r = [i \in 0..n |->
                           IF i = 0 THEN EmptyMultiset
                           ELSE LET e == d[i]
                                    c == count_of(other, e.id)
                                IN  IF e.count > c THEN insert(r[i-1], e.id, e.count - c)
                                    ELSE r[i-1]]
<1>1. /\ d \in Seq(Entries) /\ n \in Nat /\ Sorted(d)
      /\ \A i \in 1..n : d[i].id \in Ids /\ d[i].count \in Nat
      /\ o \in [Ids -> Nat] /\ \A x \in Ids : count_of(other, x) = o[x]
  BY GoodFacts, EntryFacts, TallyType
<1> HIDE DEF n, o
<1>2. \A k \in 1..n : \A a \in Good :
        /\ Step(a, k) \in Good
        /\ d[k].count > o[d[k].id] => Tally(Step(a, k).data) =
             AddCount(Tally(a.data), d[k].id, d[k].count - o[d[k].id])
        /\ ~ (d[k].count > o[d[k].id]) => Step(a, k) = a
  <2> SUFFICES ASSUME NEW k \in 1..n, NEW a \in Good
               PROVE  /\ Step(a, k) \in Good
                      /\ d[k].count > o[d[k].id] => Tally(Step(a, k).data) =
                           AddCount(Tally(a.data), d[k].id, d[k].count - o[d[k].id])
                      /\ ~ (d[k].count > o[d[k].id]) => Step(a, k) = a
    OBVIOUS
  <2>1. CASE d[k].count > o[d[k].id]
    <3> DEFINE x == d[k].id
               c == d[k].count - o[d[k].id]
    <3>1. x \in Ids /\ c \in Nat BY <1>1, <2>1
    <3>2. Step(a, k) = insert(a, x, c) BY <2>1
    <3> HIDE DEF x, c, Step
    <3>3. Step(a, k) \in Good /\ Tally(Step(a, k).data) = AddCount(Tally(a.data), x, c)
      BY <3>1, <3>2, InsertGood
    <3> QED BY <2>1, <3>3 DEF x, c
  <2>2. CASE ~ (d[k].count > o[d[k].id]) BY <2>2
  <2> QED BY <2>1, <2>2
<1>3. G \in [1..n -> [Good -> Good]]
  <2> HIDE DEF Step
  <2> QED BY <1>2
<1>4. \A k \in 1..n : \A a \in Good : G[k][a] = Step(a, k)
  <2> HIDE DEF Step
  <2> QED OBVIOUS
<1>5. EmptyMultiset \in Good /\ Tally(EmptyMultiset.data) = EmptyMset(Ids) BY EmptyGood
<1> HIDE DEF G
<1>6. PICK g \in [0..n -> Good] : Iterates(n, EmptyMultiset, G, g)
  BY <1>1, <1>3, <1>5, LoopExists
<1>7. \A k \in 0..n : k # 0 => k \in 1..n /\ g[k-1] \in Good BY <1>1
<1>8. Eq(g)
  <2>1. g = [k \in 0..n |-> IF k = 0 THEN EmptyMultiset ELSE G[k][g[k-1]]]
    BY <1>6 DEF Iterates
  <2>2. g = [k \in 0..n |-> IF k = 0 THEN EmptyMultiset ELSE Step(g[k-1], k)]
    <3> HIDE DEF Step
    <3> QED BY <2>1, <1>4, <1>7, Zenon
  <2> QED BY <2>2, <1>1, <1>7
<1> DEFINE r == CHOOSE r : Eq(r)
<1>9. Eq(r) BY <1>8
<1>10. msetdiff(m, other) = r[n] BY DEF msetdiff, n
<1> HIDE DEF r
<1>11. r[0] = EmptyMultiset /\ \A k \in 1..n : r[k] = Step(r[k-1], k) BY <1>1, <1>9
<1> HIDE DEF Step
<1>12. PICK t : IsTally(d, t) /\ Tally(d) = t[n] BY <1>1, TallySteps DEF n
<1>13. /\ \A i \in 0..n : t[i] \in [Ids -> Nat]
       /\ t[0] = EmptyMset(Ids)
       /\ \A i \in 1..n : t[i] = AddCount(t[i-1], d[i].id, d[i].count)
  BY <1>12 DEF IsTally, n
<1> DEFINE Diff(k) == \A x \in Ids : Tally(r[k].data)[x] =
                                       IF t[k][x] > o[x] THEN t[k][x] - o[x] ELSE 0
           P == {k \in 0..n : r[k] \in Good /\ Diff(k)}
<1>14. 0 \in P
  <2>1. \A x \in Ids : t[0][x] = 0 /\ EmptyMset(Ids)[x] = 0 BY <1>13 DEF EmptyMset
  <2>2. \A x \in Ids : o[x] \in Nat BY <1>1
  <2>3. Tally(r[0].data) = EmptyMset(Ids) BY <1>5, <1>11
  <2>4. Diff(0) BY <2>1, <2>2, <2>3
  <2> QED BY <2>4, <1>1, <1>5, <1>11
<1>15. ASSUME NEW k \in 1..n, k - 1 \in P PROVE k \in P
  <2> DEFINE a == Tally(r[k-1].data)
             s == t[k-1]
             x == d[k].id
             c == d[k].count
             w == c - o[x]
  <2>1. /\ r[k-1] \in Good /\ k \in 0..n
        /\ \A y \in Ids : a[y] = IF s[y] > o[y] THEN s[y] - o[y] ELSE 0
    BY <1>1, <1>15
  <2>2. /\ x \in Ids /\ c \in Nat /\ s \in [Ids -> Nat] /\ a \in [Ids -> Nat]
        /\ t[k] = AddCount(s, x, c) /\ s[x] = 0 /\ o[x] \in Nat
    <3>1. k - 1 \in 0..n BY <1>1
    <3>2. a \in [Ids -> Nat] BY <2>1, GoodFacts, TallyType
    <3>3. s[x] = 0 BY <1>1, <1>12, NoneBefore DEF n
    <3> QED BY <3>1, <3>2, <3>3, <1>1, <1>13
  <2>3. /\ r[k] \in Good
        /\ c > o[x] => Tally(r[k].data) = AddCount(a, x, w)
        /\ ~ (c > o[x]) => Tally(r[k].data) = a
    BY <2>1, <1>2, <1>11
  <2>4. c > o[x] => w \in Nat /\ w = c - o[x] BY <2>2
  <2> HIDE DEF a, s, x, c, P, w
  <2>5. \A y \in Ids : t[k][y] = IF y = x THEN s[y] + c ELSE s[y]
    BY <2>2, AddType
  <2>6. c > o[x] => \A y \in Ids : Tally(r[k].data)[y] = IF y = x THEN a[y] + w ELSE a[y]
    <3>1. w \in Nat => \A y \in Ids : AddCount(a, x, w)[y] = IF y = x THEN a[y] + w ELSE a[y]
      BY <2>2, AddType
    <3> QED BY <3>1, <2>3, <2>4
  <2>7. Diff(k)
    <3> SUFFICES ASSUME NEW y \in Ids
                 PROVE  Tally(r[k].data)[y] = IF t[k][y] > o[y] THEN t[k][y] - o[y] ELSE 0
      OBVIOUS
    <3>1. a[y] \in Nat /\ s[y] \in Nat /\ o[y] \in Nat BY <1>1, <2>2
    <3>2. CASE c > o[x]
      <4>1. Tally(r[k].data)[y] = IF y = x THEN a[y] + w ELSE a[y] BY <3>2, <2>6
      <4> QED BY <4>1, <3>1, <3>2, <2>1, <2>2, <2>4, <2>5
    <3>3. CASE ~ (c > o[x])
      <4>1. Tally(r[k].data)[y] = a[y] BY <3>3, <2>3
      <4> QED BY <4>1, <3>1, <3>3, <2>1, <2>2, <2>5
    <3> QED BY <3>2, <3>3
  <2> QED BY <2>1, <2>3, <2>7 DEF P
<1> HIDE DEF P
<1>16. \A k \in 0..n : k \in P BY <1>1, <1>14, <1>15, IntervalInduction
<1> QED BY <1>1, <1>10, <1>12, <1>16 DEF P, o
-----------------------------------------------------------------------------
\* An entry put in front of those that are not smaller keeps the order.
LEMMA InsertAscends ==
  ASSUME NEW d \in Seq(Entries), Ascending(d), NEW e \in Entries
  PROVE  /\ InsertEntry(d, find_pos(d, e.id), e) \in Seq(Entries)
         /\ Ascending(InsertEntry(d, find_pos(d, e.id), e))
         /\ Len(InsertEntry(d, find_pos(d, e.id), e)) = Len(d) + 1
         /\ Tally(InsertEntry(d, find_pos(d, e.id), e)) = AddCount(Tally(d), e.id, e.count)
<1> DEFINE n == Len(d)
           x == e.id
           p == find_pos(d, x)
           d2 == InsertEntry(d, p, e)
<1>1. /\ n \in Nat /\ DOMAIN d = 1..n
      /\ \A i \in 1..n : d[i].id \in Nat
  BY EntryFacts
<1>2. x \in Ids /\ x \in Nat
  <2>1. x \in Ids BY DEF Entries
  <2> QED BY <2>1, FingerprintAssumption DEF Ids
<1>3. p \in 1..(n + 1) /\ \A i \in 1..n : i < p <=> d[i].id < x BY <1>2, FindPos
<1>4. d2 = [i \in 1..(n + 1) |-> IF i < p THEN d[i] ELSE IF i = p THEN e ELSE d[i-1]]
  BY DEF InsertEntry
<1>5. /\ d2 \in Seq(Entries) /\ Len(d2) = n + 1
      /\ Tally(d2) = AddCount(Tally(d), e.id, e.count)
  BY <1>3, TallyInsert
<1>6. e.id = x OBVIOUS
<1> HIDE DEF d2, p, x
<1>7. ASSUME NEW i \in 1..(n + 1), NEW j \in 1..(n + 1), i < j
      PROVE  d2[i].id <= d2[j].id
  <2>1. CASE j < p
    <3>1. i \in 1..n /\ j \in 1..n /\ i < p BY <2>1, <1>7, <1>1, <1>3
    <3> QED BY <3>1, <2>1, <1>4, <1>7, <1>1 DEF Ascending
  <2>2. CASE j = p
    <3>1. i \in 1..n /\ i < p BY <2>2, <1>7, <1>1, <1>3
    <3>2. d2[i] = d[i] /\ d2[j] = e /\ d[i].id < x BY <3>1, <2>2, <1>3, <1>4
    <3> QED BY <3>1, <3>2, <1>1, <1>2, <1>6
  <2>3. CASE p < j
    <3>1. j - 1 \in 1..n /\ ~ (j - 1 < p) /\ ~ (j < p) /\ j # p BY <2>3, <1>1, <1>3
    <3>2. d2[j] = d[j-1] BY <3>1, <1>4
    <3>3. x <= d[j-1].id
      <4>1. ~ (d[j-1].id < x) BY <3>1, <1>3
      <4> QED BY <4>1, <3>1, <1>1, <1>2
    <3>4. CASE i < p
      <4>1. i \in 1..n /\ d2[i] = d[i] /\ d[i].id < x BY <3>4, <1>1, <1>3, <1>4
      <4> QED BY <4>1, <3>1, <3>2, <3>3, <1>1, <1>2
    <3>5. CASE i = p
      <4>1. d2[i] = e BY <3>5, <1>4
      <4> QED BY <4>1, <3>2, <3>3, <1>6
    <3>6. CASE i > p
      <4>1. i - 1 \in 1..n /\ i - 1 < j - 1 /\ ~ (i < p) /\ i # p
        BY <3>6, <1>7, <1>1, <1>3
      <4>2. d2[i] = d[i-1] BY <4>1, <1>4
      <4> QED BY <4>1, <4>2, <3>1, <3>2, <1>1 DEF Ascending
    <3> QED BY <3>4, <3>5, <3>6, <1>1, <1>3
  <2> QED BY <2>1, <2>2, <2>3, <1>1, <1>3
<1>8. DOMAIN d2 = 1..(n + 1) BY <1>5, EntryFacts
<1>9. Ascending(d2) BY <1>7, <1>8 DEF Ascending
<1> QED BY <1>5, <1>9 DEF d2, p, x

\* sort brings the entries in order and keeps them.
LEMMA SortFacts ==
  ASSUME NEW d \in Seq(Entries)
  PROVE  /\ sort(d) \in Seq(Entries) /\ Ascending(sort(d))
         /\ Tally(sort(d)) = Tally(d)
<1> DEFINE n == Len(d)
           S == {a \in Seq(Entries) : Ascending(a)}
           b == << >>
           Step(a, k) == InsertEntry(a, find_pos(a, d[k].id), d[k])
           G == [k \in 1..n |-> [a \in S |-> Step(a, k)]]
           Eq(s) == s = [i \in 0..n |->
                           IF i = 0 THEN << >>
                           ELSE InsertEntry(s[i-1], find_pos(s[i-1], d[i].id), d[i])]
<1>1. n \in Nat /\ \A i \in 1..n : d[i] \in Entries BY EntryFacts
<1>2. b \in S BY DEF Ascending
<1>3. \A k \in 1..n : \A a \in S :
        /\ Step(a, k) \in S
        /\ Tally(Step(a, k)) = AddCount(Tally(a), d[k].id, d[k].count)
  BY <1>1, InsertAscends
<1>4. \A a \in S : a \in Seq(Entries) /\ Ascending(a) OBVIOUS
<1>5. G \in [1..n -> [S -> S]]
  <2> HIDE DEF Step, S
  <2> QED BY <1>3
<1>6. \A k \in 1..n : \A a \in S : G[k][a] = Step(a, k)
  <2> HIDE DEF Step, S
  <2> QED OBVIOUS
<1> HIDE DEF S, G, b, n
<1>7. PICK g \in [0..n -> S] : Iterates(n, b, G, g)
  BY <1>1, <1>2, <1>5, LoopExists
<1>8. \A k \in 0..n : k # 0 => k \in 1..n /\ g[k-1] \in S BY <1>1
<1>9. Eq(g)
  <2> HIDE DEF Step
  <2>1. g = [k \in 0..n |-> IF k = 0 THEN b ELSE G[k][g[k-1]]] BY <1>7 DEF Iterates
  <2>2. g = [k \in 0..n |-> IF k = 0 THEN b ELSE Step(g[k-1], k)]
    BY <2>1, <1>6, <1>8, Zenon
  <2> QED BY <2>2 DEF b, Step
<1> DEFINE s == CHOOSE s : Eq(s)
<1>10. Eq(s) BY <1>9
<1>11. sort(d) = s[n] BY DEF sort, n
<1> HIDE DEF s
<1>12. s[0] = b /\ \A k \in 1..n : s[k] = Step(s[k-1], k)
  <2>1. s = [k \in 0..n |-> IF k = 0 THEN b ELSE Step(s[k-1], k)]
    BY <1>10, Zenon DEF b
  <2> HIDE DEF Step
  <2> QED BY <1>1, <2>1
<1> HIDE DEF Step
<1>13. PICK t : IsTally(d, t) /\ Tally(d) = t[n] BY TallySteps DEF n
<1>14. /\ t[0] = EmptyMset(Ids)
       /\ \A i \in 1..n : t[i] = AddCount(t[i-1], d[i].id, d[i].count)
  BY <1>13 DEF IsTally, n
<1> DEFINE P == {k \in 0..n : s[k] \in S /\ Tally(s[k]) = t[k]}
<1>15. 0 \in P BY <1>1, <1>2, <1>12, <1>14, TallyEmpty DEF b
<1>16. ASSUME NEW k \in 1..n, k - 1 \in P PROVE k \in P
  <2>1. k \in 0..n /\ s[k-1] \in S /\ Tally(s[k-1]) = t[k-1] BY <1>1, <1>16
  <2>2. s[k] \in S /\ Tally(s[k]) = t[k] BY <2>1, <1>3, <1>12, <1>14
  <2> QED BY <2>1, <2>2
<1> HIDE DEF P
<1>17. \A k \in 0..n : k \in P BY <1>1, <1>15, <1>16, IntervalInduction
<1> QED BY <1>1, <1>4, <1>11, <1>13, <1>17 DEF P

\* What merge does with one entry.
Join(a, e, first) ==
  IF ~ first /\ a[Len(a)].id = e.id
    THEN [a EXCEPT ![Len(a)].count = @ + e.count]
  ELSE Append(a, e)

\* Joining keeps to entries, with nothing to join too.
LEMMA JoinType ==
  ASSUME NEW a \in Seq(Entries), NEW e \in Entries, NEW first \in BOOLEAN
  PROVE  Join(a, e, first) \in Seq(Entries)
<1> DEFINE n == Len(a)
           z == [a[n] EXCEPT !.count = @ + e.count]
           a2 == [a EXCEPT ![n] = z]
<1>1. n \in Nat /\ a \in [1..n -> Entries] /\ e.count \in Nat
  BY EntryFacts DEF Entries
<1>2. CASE ~ first /\ a[n].id = e.id
  <2>1. Join(a, e, first) = a2 BY <1>2, Zenon DEF Join
  <2>2. n \in 1..n => z \in Entries
    <3> SUFFICES ASSUME n \in 1..n PROVE z \in Entries OBVIOUS
    <3>1. /\ a[n] = [id |-> a[n].id, count |-> a[n].count] /\ a[n].id \in Ids
          /\ a[n].count + e.count \in Nat
      <4>1. a[n] = Entry(a[n].id, a[n].count) /\ a[n].id \in Ids /\ a[n].count \in Nat
        BY EntryFacts
      <4> HIDE DEF n
      <4> QED BY <4>1, <1>1 DEF Entry
    <3> DEFINE x == a[n].id
               c == a[n].count
    <3>2. z = [[id |-> x, count |-> c] EXCEPT !.count = c + e.count] BY <3>1, Zenon
    <3> HIDE DEF x, c, z
    <3>3. z = Entry(x, c + e.count) BY <3>2 DEF Entry
    <3>4. x \in Ids /\ c + e.count \in Nat BY <3>1 DEF x, c
    <3> QED BY <3>3, <3>4, EntryMade
  <2> HIDE DEF z
  <2>3. a2 \in [1..n -> Entries] BY <1>1, <2>2
  <2>4. a2 \in Seq(Entries) BY <1>1, <2>3, EntryMade
  <2> QED BY <2>1, <2>4
<1>3. CASE ~ (~ first /\ a[n].id = e.id)
  <2>1. Join(a, e, first) = Append(a, e) BY <1>3 DEF Join
  <2> QED BY <2>1, TallyAppend
<1> QED BY <1>2, <1>3

\* Joining adds the entry.
LEMMA JoinFacts ==
  ASSUME NEW a \in Seq(Entries), NEW e \in Entries, NEW first \in BOOLEAN,
         first <=> Len(a) = 0
  PROVE  /\ Join(a, e, first) \in Seq(Entries) /\ Len(Join(a, e, first)) > 0
         /\ Join(a, e, first)[Len(Join(a, e, first))].id = e.id
         /\ Tally(Join(a, e, first)) = AddCount(Tally(a), e.id, e.count)
         /\ Sorted(a) /\ (Len(a) > 0 => a[Len(a)].id <= e.id) => Sorted(Join(a, e, first))
<1> DEFINE n == Len(a)
           x == e.id
           c == e.count
<1>1. /\ n \in Nat /\ DOMAIN a = 1..n
      /\ \A i \in 1..n : a[i].id \in Ids /\ a[i].id \in Nat /\ a[i].count \in Nat
                         /\ a[i] = Entry(a[i].id, a[i].count)
  BY EntryFacts
<1>2. x \in Nat /\ c \in Nat
  <2>1. x \in Ids /\ c \in Nat BY DEF Entries
  <2> QED BY <2>1, FingerprintAssumption DEF Ids
<1>3. CASE ~ first /\ a[n].id = x
  <2> DEFINE a2 == [a EXCEPT ![n] = Entry(a[n].id, a[n].count + c)]
  <2>1. n \in 1..n BY <1>1, <1>3
  <2>2. Join(a, e, first) = a2
    <3>1. Join(a, e, first) = [a EXCEPT ![n].count = a[n].count + c] BY <1>3 DEF Join
    <3>2. a[n] = [id |-> a[n].id, count |-> a[n].count] BY <1>1, <2>1 DEF Entry
    <3>3. [a[n] EXCEPT !.count = a[n].count + c] = Entry(a[n].id, a[n].count + c)
      BY <3>2 DEF Entry
    <3> QED BY <3>1, <3>3, Zenon
  <2> HIDE DEF a2
  <2>3. /\ a2 \in Seq(Entries) /\ Len(a2) = n /\ \A i \in 1..n : a2[i].id = a[i].id
        /\ Tally(a2) = AddCount(Tally(a), a[n].id, c)
    BY <2>1, <1>2, TallyRaise DEF a2
  <2>4. Sorted(a) => Sorted(a2)
    <3>1. DOMAIN a2 = 1..n BY <2>3, EntryFacts
    <3> QED BY <3>1, <2>3, <1>1 DEF Sorted
  <2> QED BY <1>3, <2>1, <2>2, <2>3, <2>4
<1>4. CASE ~ (~ first /\ a[n].id = x)
  <2> DEFINE a2 == Append(a, e)
  <2>1. Join(a, e, first) = a2 BY <1>4 DEF Join
  <2>2. /\ a2 \in Seq(Entries) /\ Len(a2) = n + 1
        /\ \A i \in 1..(n + 1) : a2[i] = IF i <= n THEN a[i] ELSE e
        /\ Tally(a2) = AddCount(Tally(a), x, c)
    BY TallyAppend
  <2> HIDE DEF a2
  <2>3. a2[n + 1] = e /\ n + 1 > 0 BY <1>1, <2>2
  <2>4. ASSUME Sorted(a), n > 0 => a[n].id <= x PROVE Sorted(a2)
    <3>1. DOMAIN a2 = 1..(n + 1) BY <2>2, EntryFacts
    <3>2. ASSUME NEW i \in 1..(n + 1), NEW j \in 1..(n + 1), i < j
          PROVE  a2[i].id < a2[j].id
      <4>1. CASE j <= n
        <5>1. i \in 1..n /\ j \in 1..n /\ a2[i] = a[i] /\ a2[j] = a[j]
          BY <4>1, <3>2, <1>1, <2>2
        <5> QED BY <5>1, <3>2, <2>4, <1>1 DEF Sorted
      <4>2. CASE ~ (j <= n)
        <5>1. i \in 1..n /\ n \in 1..n /\ a2[i] = a[i] /\ a2[j] = e /\ n > 0
          BY <4>2, <3>2, <1>1, <2>2
        <5>2. a[n].id < x BY <5>1, <1>1, <1>2, <1>4, <2>4
        <5>3. i = n \/ a[i].id < a[n].id
          <6>0. n \in Nat /\ i \in 1..n BY <5>1, <1>1
          <6>1. i = n \/ i < n
            <7> HIDE DEF n
            <7> QED BY <6>0
          <6>2. i \in DOMAIN a /\ n \in DOMAIN a BY <5>1, <1>1
          <6> QED BY <6>1, <6>2, <2>4 DEF Sorted
        <5> QED BY <5>1, <5>2, <5>3, <1>1, <1>2
      <4> QED BY <4>1, <4>2
    <3> QED BY <3>1, <3>2 DEF Sorted
  <2> QED BY <2>1, <2>2, <2>3, <2>4
<1> QED BY <1>3, <1>4

\* merge joins the entries of equal ids of a vector in order.
LEMMA MergeFacts ==
  ASSUME NEW d \in Seq(Entries), Ascending(d)
  PROVE  /\ merge(d) \in Seq(Entries) /\ Sorted(merge(d))
         /\ Tally(merge(d)) = Tally(d)
<1> DEFINE n == Len(d)
           S == Seq(Entries)
           b == << >>
           Step(a, k) == IF k > 1 /\ a[Len(a)].id = d[k].id
                           THEN [a EXCEPT ![Len(a)].count = @ + d[k].count]
                         ELSE Append(a, d[k])
           G == [k \in 1..n |-> [a \in S |-> Step(a, k)]]
           Eq(w) == w = [i \in 0..n |->
                           IF i = 0 THEN << >>
                           ELSE IF i > 1 /\ w[i-1][Len(w[i-1])].id = d[i].id
                             THEN [w[i-1] EXCEPT ![Len(w[i-1])].count = @ + d[i].count]
                           ELSE Append(w[i-1], d[i])]
<1>1. /\ n \in Nat /\ DOMAIN d = 1..n
      /\ \A i \in 1..n : d[i] \in Entries /\ d[i].id \in Nat
  BY EntryFacts
<1>2. b \in S OBVIOUS
<1>3. \A k \in 1..n : \A a \in S : Step(a, k) = Join(a, d[k], ~ (k > 1))
  BY Zenon DEF Join
<1> HIDE DEF Step
<1>4. \A k \in 1..n : \A a \in S : Step(a, k) \in S
  <2> SUFFICES ASSUME NEW k \in 1..n, NEW a \in S PROVE Step(a, k) \in S OBVIOUS
  <2> DEFINE first == ~ (k > 1)
  <2>1. first \in BOOLEAN /\ d[k] \in Entries BY <1>1
  <2>2. Step(a, k) = Join(a, d[k], first) BY <1>3
  <2> HIDE DEF first
  <2> QED BY <2>1, <2>2, JoinType
<1> HIDE DEF S, b, n
<1>5. G \in [1..n -> [S -> S]] BY <1>4
<1>6. \A k \in 1..n : \A a \in S : G[k][a] = Step(a, k) OBVIOUS
<1> HIDE DEF G
<1>7. PICK g \in [0..n -> S] : Iterates(n, b, G, g)
  BY <1>1, <1>2, <1>5, LoopExists
<1>8. \A k \in 0..n : k # 0 => k \in 1..n /\ g[k-1] \in S BY <1>1
<1>9. Eq(g)
  <2>1. g = [k \in 0..n |-> IF k = 0 THEN b ELSE G[k][g[k-1]]] BY <1>7 DEF Iterates
  <2>2. g = [k \in 0..n |-> IF k = 0 THEN b ELSE Step(g[k-1], k)]
    BY <2>1, <1>6, <1>8, Zenon
  <2> QED BY <2>2, Zenon DEF b, Step
<1> DEFINE w == CHOOSE w : Eq(w)
<1>10. Eq(w) BY <1>9, Zenon
<1>11. merge(d) = w[n] BY Zenon DEF merge, n
<1> HIDE DEF w
<1>12. w[0] = b /\ \A k \in 1..n : w[k] = Step(w[k-1], k)
  <2>1. w = [k \in 0..n |-> IF k = 0 THEN b ELSE Step(w[k-1], k)]
    BY <1>10, Zenon DEF b, Step
  <2> QED BY <1>1, <2>1
<1>13. PICK t : IsTally(d, t) /\ Tally(d) = t[n] BY TallySteps DEF n
<1>14. /\ t[0] = EmptyMset(Ids)
       /\ \A i \in 1..n : t[i] = AddCount(t[i-1], d[i].id, d[i].count)
  BY <1>13 DEF IsTally, n
<1> DEFINE Q(k) == /\ w[k] \in Seq(Entries) /\ Sorted(w[k]) /\ Tally(w[k]) = t[k]
                   /\ k = 0 <=> Len(w[k]) = 0
                   /\ k > 0 => w[k][Len(w[k])].id = d[k].id
           P == {k \in 0..n : Q(k)}
<1>15. 0 \in P
  <2>1. << >> \in Seq(Entries) /\ Sorted(<< >>) /\ Len(<< >>) = 0 BY DEF Sorted
  <2>2. Tally(<< >>) = t[0] BY <1>14, TallyEmpty
  <2>3. /\ b \in Seq(Entries) /\ Sorted(b) /\ Tally(b) = t[0] /\ Len(b) = 0
        /\ w[0] = b
    BY <2>1, <2>2, <1>12 DEF b
  <2>4. 0 \in 0..n /\ ~ (0 > 0) BY <1>1
  <2>5. Q(0) BY <2>3, <2>4
  <2> QED BY <2>4, <2>5
<1>16. ASSUME NEW k \in 1..n, k - 1 \in P PROVE k \in P
  <2> DEFINE a == w[k-1]
             e == d[k]
             first == ~ (k > 1)
             r == Join(a, e, first)
  <2>1. k - 1 \in Nat /\ k \in 0..n /\ k > 0 BY <1>1
  <2>2. /\ a \in Seq(Entries) /\ Sorted(a) /\ Tally(a) = t[k-1] /\ Len(a) \in Nat
        /\ first <=> Len(a) = 0
        /\ k - 1 > 0 => a[Len(a)].id = d[k-1].id
    <3>1. Q(k-1) BY <1>16
    <3>2. k - 1 = 0 <=> first BY <2>1
    <3>3. Len(a) \in Nat BY <3>1, EntryFacts
    <3> HIDE DEF a, first
    <3> QED BY <3>1, <3>2, <3>3 DEF a
  <2>3. first \in BOOLEAN /\ e \in Entries BY <1>1
  <2>4. w[k] = r
    <3>1. a \in S BY <2>2 DEF S
    <3> QED BY <3>1, <1>3, <1>12
  <2>5. Len(a) > 0 => a[Len(a)].id <= e.id
    <3> SUFFICES ASSUME Len(a) > 0 PROVE a[Len(a)].id <= e.id OBVIOUS
    <3>1. k - 1 > 0 /\ k - 1 \in 1..n /\ k - 1 < k BY <2>1, <2>2, <1>1
    <3>2. d[k-1].id <= d[k].id BY <3>1, <1>1 DEF Ascending
    <3>3. a[Len(a)].id = d[k-1].id BY <3>1, <2>2
    <3> QED BY <3>2, <3>3
  <2> HIDE DEF a, e, first, P
  <2>6. /\ r \in Seq(Entries) /\ Len(r) > 0 /\ r[Len(r)].id = e.id
        /\ Tally(r) = AddCount(Tally(a), e.id, e.count) /\ Sorted(r)
    BY <2>2, <2>3, <2>5, JoinFacts
  <2> HIDE DEF r
  <2>7. Tally(r) = t[k] BY <2>2, <2>6, <1>14 DEF e
  <2>8. Q(k)
    <3>1. k # 0 /\ Len(r) # 0 BY <2>1, <2>6, EntryFacts
    <3> QED BY <3>1, <2>4, <2>6, <2>7 DEF e
  <2> QED BY <2>1, <2>8 DEF P
<1> HIDE DEF P
<1>17. \A k \in 0..n : k \in P BY <1>1, <1>15, <1>16, IntervalInduction
<1>18. Q(n) BY <1>1, <1>17 DEF P
<1> QED BY <1>11, <1>13, <1>18

\* The entries with their ids renamed.
Renamed(d, f) == [i \in DOMAIN d |-> [d[i] EXCEPT !.id = f[@]]]

\* Renaming the entries renames what they add up to and keeps its size.
LEMMA RenamedFacts ==
  ASSUME NEW d \in Seq(Entries), NEW f \in [Ids -> Ids]
  PROVE  /\ Renamed(d, f) \in Seq(Entries)
         /\ Tally(Renamed(d, f)) = MapMset(Tally(d), f, MaxIds)
         /\ MsetSize(Tally(Renamed(d, f)), MaxIds) = MsetSize(Tally(d), MaxIds)
<1> DEFINE n == Len(d)
           r == Renamed(d, f)
           N == MaxIds
<1>1. /\ n \in Nat /\ DOMAIN d = 1..n /\ N \in Nat
      /\ \A i \in 1..n : /\ d[i].id \in Ids /\ d[i].count \in Nat
                         /\ d[i] = Entry(d[i].id, d[i].count) /\ f[d[i].id] \in Ids
  BY EntryFacts, FingerprintAssumption
<1>2. ASSUME NEW i \in 1..n
      PROVE  r[i] = Entry(f[d[i].id], d[i].count)
  <2> DEFINE x == d[i].id
             c == d[i].count
  <2>1. r[i] = [d[i] EXCEPT !.id = f[x]] BY <1>1, Zenon DEF Renamed
  <2>2. d[i] = [id |-> x, count |-> c] BY <1>1 DEF Entry
  <2> HIDE DEF x, c, r
  <2>3. r[i] = [[id |-> x, count |-> c] EXCEPT !.id = f[x]] BY <2>1, <2>2, Zenon
  <2>4. r[i] = [id |-> f[x], count |-> c] BY <2>3
  <2> QED BY <2>4 DEF Entry, x, c
<1>3. DOMAIN r = 1..n /\ r = [i \in 1..n |-> r[i]] BY <1>1, Zenon DEF Renamed
<1> HIDE DEF r, N
<1>4. \A i \in 1..n : r[i] \in Entries /\ r[i].id = f[d[i].id] /\ r[i].count = d[i].count
  BY <1>1, <1>2, EntryMade
<1>5. r \in [1..n -> Entries] BY <1>3, <1>4
<1>6. r \in Seq(Entries) /\ Len(r) = n BY <1>1, <1>5, EntryMade
<1>7. PICK t : IsTally(d, t) /\ Tally(d) = t[n] BY TallySteps
<1>8. /\ \A i \in 0..n : t[i] \in [Ids -> Nat]
      /\ t[0] = EmptyMset(Ids)
      /\ \A i \in 1..n : t[i] = AddCount(t[i-1], d[i].id, d[i].count)
  BY <1>7 DEF IsTally
<1>9. \A m \in [Ids -> Nat] : Renaming(Ids, N, m, f)
  BY <1>1 DEF Renaming, IsMset, Ids, N
<1>10. ASSUME NEW m \in [Ids -> Nat], NEW x \in Ids, NEW c \in Nat
       PROVE  /\ MapMset(m, f, N) \in [Ids -> Nat]
              /\ MapMset(AddCount(m, x, c), f, N) = AddCount(MapMset(m, f, N), f[x], c)
  <2>1. Renaming(Ids, N, m, f) /\ x \in 1..N BY <1>9 DEF Ids, N
  <2>2. MapMset(m, f, N) \in [Ids -> Nat] BY <2>1, MapMsetType DEF IsMset
  <2>3. MapMset(AddCount(m, x, c), f, N) = AddCount(MapMset(m, f, N), f[x], c)
    BY <2>1, MapMsetAdds
  <2> QED BY <2>2, <2>3
<1>11. MapMset(EmptyMset(Ids), f, N) = EmptyMset(Ids)
  <2>1. EmptyMset(Ids) \in [Ids -> Nat] BY DEF EmptyMset
  <2> QED BY <2>1, <1>9, MapMsetEmpty
<1> DEFINE u == [i \in 0..n |-> MapMset(t[i], f, N)]
<1>12. ASSUME NEW i \in 0..n PROVE MapMset(t[i], f, N) \in [Ids -> Nat]
  <2> DEFINE m == t[i]
  <2>1. m \in [Ids -> Nat] BY <1>8
  <2> HIDE DEF m
  <2>2. Renaming(Ids, N, m, f) BY <2>1, <1>9
  <2>3. MapMset(m, f, N) \in [Ids -> Nat] BY <2>2, MapMsetType DEF IsMset
  <2> QED BY <2>3 DEF m
<1>13. u \in [0..n -> [Ids -> Nat]] BY <1>12
<1>14. \A i \in 1..n : i \in 0..n /\ i - 1 \in 0..n BY <1>1
<1>15. ASSUME NEW i \in 1..n
       PROVE  /\ u[i] = AddCount(u[i-1], r[i].id, r[i].count)
              /\ MsetSize(u[i-1], N) = MsetSize(t[i-1], N) =>
                   MsetSize(u[i], N) = MsetSize(t[i], N)
  <2> DEFINE m == t[i-1]
             x == d[i].id
             c == d[i].count
             y == f[x]
             v == MapMset(m, f, N)
  <2>1. /\ m \in [Ids -> Nat] /\ x \in Ids /\ c \in Nat /\ t[i] = AddCount(m, x, c)
        /\ y \in Ids
    BY <1>1, <1>8, <1>14
  <2>2. u[i] = MapMset(t[i], f, N) /\ u[i-1] = v BY <1>14
  <2>3. y = f[x] OBVIOUS
  <2> HIDE DEF m, x, c, u, y
  <2>4. v \in [Ids -> Nat] /\ u[i] = AddCount(v, y, c) BY <2>1, <2>2, <2>3, <1>10
  <2>5. u[i] = AddCount(u[i-1], r[i].id, r[i].count)
    BY <2>2, <2>3, <2>4, <1>4 DEF x, c
  <2> HIDE DEF v
  <2>6. MsetSize(AddCount(v, y, c), N) = MsetSize(v, N) + c
    BY <2>1, <2>4, SizeFacts DEF N
  <2>7. MsetSize(AddCount(m, x, c), N) = MsetSize(m, N) + c
    BY <2>1, SizeFacts DEF N
  <2> QED BY <2>1, <2>2, <2>4, <2>5, <2>6, <2>7 DEF m
<1>16. u[0] = EmptyMset(Ids) BY <1>1, <1>8, <1>11
<1>17. u[n] = MapMset(t[n], f, N) BY <1>1
<1> HIDE DEF u
<1>18. IsTally(r, u) BY <1>6, <1>13, <1>15, <1>16 DEF IsTally
<1>19. Tally(r) = u[n] BY <1>6, <1>18, TallyUnique
<1> DEFINE P == {i \in 0..n : MsetSize(u[i], N) = MsetSize(t[i], N)}
<1>20. 0 \in P BY <1>1, <1>8, <1>16
<1>21. \A i \in 1..n : i - 1 \in P => i \in P BY <1>14, <1>15
<1> HIDE DEF P
<1>22. \A i \in 0..n : i \in P BY <1>1, <1>20, <1>21, IntervalInduction
<1>23. MsetSize(u[n], N) = MsetSize(t[n], N) BY <1>1, <1>22 DEF P
<1> QED BY <1>6, <1>7, <1>17, <1>19, <1>23 DEF r, N

\* map renames the elements; the size stays.
LEMMA MapGood ==
  ASSUME NEW m \in Good, NEW f \in [Ids -> Ids]
  PROVE  /\ map(m, f) \in Good
         /\ Tally(map(m, f).data) = MapMset(Tally(m.data), f, MaxIds)
<1> DEFINE d == m.data
           r == Renamed(d, f)
           q == merge(sort(r))
<1>1. /\ d \in Seq(Entries) /\ m.nelements = MsetSize(Tally(d), MaxIds)
      /\ m = [data |-> d, nelements |-> m.nelements, fingerprint |-> m.fingerprint]
  BY GoodFacts
<1>2. /\ r \in Seq(Entries) /\ Tally(r) = MapMset(Tally(d), f, MaxIds)
      /\ MsetSize(Tally(r), MaxIds) = MsetSize(Tally(d), MaxIds)
  BY <1>1, RenamedFacts
<1>3. map(m, f) = IF r = d THEN m ELSE [m EXCEPT !.data = q, !.fingerprint = rehash(q)]
  BY Zenon DEF map, Renamed
<1> HIDE DEF r
<1>4. sort(r) \in Seq(Entries) /\ Ascending(sort(r)) /\ Tally(sort(r)) = Tally(r)
  BY <1>2, SortFacts
<1>5. q \in Seq(Entries) /\ Sorted(q) /\ Tally(q) = Tally(r) BY <1>4, MergeFacts
<1> HIDE DEF q
<1>6. CASE r = d BY <1>2, <1>3, <1>6
<1>7. CASE r # d
  <2> DEFINE s == m.nelements
             h == m.fingerprint
  <2>1. m = [data |-> d, nelements |-> s, fingerprint |-> h] BY <1>1
  <2>2. map(m, f) = [m EXCEPT !.data = q, !.fingerprint = rehash(q)] BY <1>3, <1>7
  <2> DEFINE e == rehash(q)
  <2>3. map(m, f) = [m EXCEPT !.data = q, !.fingerprint = e] BY <2>2
  <2> HIDE DEF d, s, h, e
  <2>4. map(m, f) = [data |-> q, nelements |-> s, fingerprint |-> e]
    BY <2>1, <2>3
  <2>5. rehash(q) = Digest(Tally(q)) /\ s = MsetSize(Tally(q), MaxIds)
    BY <1>1, <1>2, <1>5, RehashFacts DEF s
  <2> QED BY <2>4, <2>5, <1>2, <1>5, GoodFacts DEF d, e
<1> QED BY <1>6, <1>7
-----------------------------------------------------------------------------
\* The operators of Multisets, under the name MultisetEntries gives them.
LEMMA MsetNames ==
  ASSUME NEW c, NEW o, NEW x, NEW f
  PROVE  /\ M!Insert(c, x) = Insert(c, x) /\ M!Remove(c, x) = Remove(c, x)
         /\ M!MapMset(c, f, MaxIds) = MapMset(c, f, MaxIds)
         /\ M!InsertAll(c, o) = InsertAll(c, o) /\ M!MsetDiff(c, o) = MsetDiff(c, o)
         /\ M!Includes(c, o) <=> Includes(c, o)
         /\ M!MsetSize(c, MaxIds) = MsetSize(c, MaxIds)
<1>1. M!Insert(c, x) = Insert(c, x) /\ M!Remove(c, x) = Remove(c, x)
  BY Zenon DEF M!Insert, Insert, M!Remove, Remove
<1>2. M!MapMset(c, f, MaxIds) = MapMset(c, f, MaxIds)
  BY Zenon DEF M!MapMset, MapMset, M!EmptyMset, EmptyMset
<1>3. M!InsertAll(c, o) = InsertAll(c, o) /\ M!MsetDiff(c, o) = MsetDiff(c, o)
  BY Zenon DEF M!InsertAll, InsertAll, M!MsetDiff, MsetDiff
<1>4. M!Includes(c, o) <=> Includes(c, o) BY Zenon DEF M!Includes, Includes
<1>5. M!MsetSize(c, MaxIds) = MsetSize(c, MaxIds) BY Zenon DEF M!MsetSize, MsetSize
<1> QED BY <1>1, <1>2, <1>3, <1>4, <1>5

\* The entries of an object in order are its counts; an id without an entry has
\* count zero.
LEMMA GoodEntries ==
  ASSUME NEW m \in Good
  PROVE  /\ Counts(m) \in [Ids -> Nat] /\ \A x \in Ids : count_of(m, x) = Counts(m)[x]
         /\ \A i \in DOMAIN m.data : /\ m.data[i].id \in Ids /\ m.data[i].count \in Nat
                                     /\ Counts(m)[m.data[i].id] = m.data[i].count
         /\ \A x \in Ids : (\A i \in DOMAIN m.data : m.data[i].id # x) => Counts(m)[x] = 0
<1> DEFINE d == m.data
<1>1. /\ d \in Seq(Entries) /\ Sorted(d) /\ Counts(m) = Tally(d)
      /\ Counts(m) \in [Ids -> Nat] /\ \A x \in Ids : count_of(m, x) = Tally(d)[x]
  BY GoodFacts
<1>2. DOMAIN d = 1..Len(d) /\ \A i \in 1..Len(d) : d[i].id \in Ids /\ d[i].count \in Nat
  BY <1>1, EntryFacts
<1>3. /\ \A i \in 1..Len(d) : Tally(d)[d[i].id] = d[i].count
      /\ \A x \in Ids : (\A i \in 1..Len(d) : d[i].id # x) => Tally(d)[x] = 0
  BY <1>1, TallyOfSorted
<1> QED BY <1>1, <1>2, <1>3

\* operator== holds of the objects with the same counts.
LEMMA EqualsExact ==
  ASSUME NEW m \in Good, NEW other \in Good
  PROVE  equals(m, other) <=> Counts(m) = Counts(other)
<1> DEFINE c == Counts(m)
           o == Counts(other)
<1>1. /\ c \in [Ids -> Nat] /\ o \in [Ids -> Nat]
      /\ \A x \in Ids : count_of(m, x) = c[x] /\ count_of(other, x) = o[x]
  BY GoodEntries
<1>2. /\ \A i \in DOMAIN m.data : m.data[i].id \in Ids /\ c[m.data[i].id] = m.data[i].count
      /\ \A x \in Ids : (\A i \in DOMAIN m.data : m.data[i].id # x) => c[x] = 0
  BY GoodEntries
<1>3. /\ \A i \in DOMAIN other.data :
           other.data[i].id \in Ids /\ o[other.data[i].id] = other.data[i].count
      /\ \A x \in Ids : (\A i \in DOMAIN other.data : other.data[i].id # x) => o[x] = 0
  BY GoodEntries
<1>4. /\ m.nelements = MsetSize(c, MaxIds) /\ m.fingerprint = Digest(c)
      /\ other.nelements = MsetSize(o, MaxIds) /\ other.fingerprint = Digest(o)
  BY GoodFacts
<1> HIDE DEF c, o
<1>5. ASSUME equals(m, other) PROVE c = o
  <2>1. /\ \A i \in DOMAIN m.data : count_of(other, m.data[i].id) = m.data[i].count
        /\ \A i \in DOMAIN other.data : count_of(m, other.data[i].id) = other.data[i].count
    BY <1>5 DEF equals
  <2>2. ASSUME NEW x \in Ids PROVE c[x] = o[x]
    <3>1. CASE \E i \in DOMAIN m.data : m.data[i].id = x BY <3>1, <2>1, <1>1, <1>2
    <3>2. CASE \E i \in DOMAIN other.data : other.data[i].id = x
      BY <3>2, <2>1, <1>1, <1>3
    <3>3. CASE /\ \A i \in DOMAIN m.data : m.data[i].id # x
               /\ \A i \in DOMAIN other.data : other.data[i].id # x
      BY <3>3, <1>2, <1>3
    <3> QED BY <3>1, <3>2, <3>3
  <2> QED BY <2>2, <1>1
<1>6. ASSUME c = o PROVE equals(m, other)
  <2>1. m.fingerprint = other.fingerprint /\ m.nelements = other.nelements
    BY <1>4, <1>6
  <2>2. \A i \in DOMAIN m.data : count_of(other, m.data[i].id) = m.data[i].count
    BY <1>1, <1>2, <1>6
  <2>3. \A i \in DOMAIN other.data : count_of(m, other.data[i].id) = other.data[i].count
    BY <1>1, <1>3, <1>6
  <2> QED BY <2>1, <2>2, <2>3 DEF equals
<1> QED BY <1>5, <1>6 DEF c, o

\* includes holds when no count is larger; the early comparison of the sizes
\* rejects nothing that is included.
LEMMA IncludesExact ==
  ASSUME NEW m \in Good, NEW other \in Good
  PROVE  includes(m, other) <=> Includes(Counts(m), Counts(other))
<1> DEFINE c == Counts(m)
           o == Counts(other)
<1>1. /\ c \in [Ids -> Nat] /\ o \in [Ids -> Nat]
      /\ \A x \in Ids : count_of(m, x) = c[x]
  BY GoodEntries
<1>2. /\ \A i \in DOMAIN other.data :
           other.data[i].id \in Ids /\ o[other.data[i].id] = other.data[i].count
      /\ \A x \in Ids : (\A i \in DOMAIN other.data : other.data[i].id # x) => o[x] = 0
  BY GoodEntries
<1>3. m.nelements = MsetSize(c, MaxIds) /\ other.nelements = MsetSize(o, MaxIds)
  BY GoodFacts
<1> HIDE DEF c, o
<1>4. Includes(c, o) <=> \A x \in Ids : o[x] <= c[x] BY <1>1 DEF Includes
<1>5. ASSUME includes(m, other), NEW x \in Ids PROVE o[x] <= c[x]
  <2>1. CASE \E i \in DOMAIN other.data : other.data[i].id = x
    <3>1. PICK i \in DOMAIN other.data : other.data[i].id = x BY <2>1
    <3>2. count_of(m, x) >= other.data[i].count BY <3>1, <1>5 DEF includes
    <3>3. c[x] >= o[x] BY <3>1, <3>2, <1>1, <1>2
    <3> QED BY <3>3, <1>1
  <2>2. CASE \A i \in DOMAIN other.data : other.data[i].id # x
    <3>1. o[x] = 0 /\ c[x] \in Nat BY <2>2, <1>1, <1>2
    <3> QED BY <3>1
  <2> QED BY <2>1, <2>2
<1>6. ASSUME \A x \in Ids : o[x] <= c[x] PROVE includes(m, other)
  <2>1. other.nelements <= m.nelements BY <1>1, <1>3, <1>6, SizeFacts
  <2>2. ASSUME NEW i \in DOMAIN other.data
        PROVE  count_of(m, other.data[i].id) >= other.data[i].count
    <3> DEFINE x == other.data[i].id
    <3>1. x \in Ids /\ o[x] = other.data[i].count BY <1>2
    <3>2. count_of(m, x) = c[x] /\ o[x] <= c[x] /\ c[x] \in Nat /\ o[x] \in Nat
      BY <3>1, <1>1, <1>6
    <3>3. c[x] >= o[x] BY <3>2
    <3> QED BY <3>1, <3>2, <3>3
  <2> QED BY <2>1, <2>2 DEF includes
<1> QED BY <1>4, <1>5, <1>6 DEF c, o

\* The operations, seen through count(), are those of Multisets.
LEMMA OperationsOfGood ==
  ASSUME NEW m \in Good
  PROVE  /\ \A x \in Ids : /\ Counts(insert(m, x, 1)) = Insert(Counts(m), x)
                           /\ Counts(remove(m, x)) = Remove(Counts(m), x)
         /\ \A f \in [Ids -> Ids] : Counts(map(m, f)) = MapMset(Counts(m), f, MaxIds)
         /\ \A other \in Good :
              /\ Counts(insert_all(m, other)) = InsertAll(Counts(m), Counts(other))
              /\ Counts(msetdiff(m, other)) = MsetDiff(Counts(m), Counts(other))
<1>1. \A u \in Good : Counts(u) = Tally(u.data) /\ Counts(u) \in [Ids -> Nat]
  BY GoodFacts
<1>2. ASSUME NEW x \in Ids PROVE Counts(insert(m, x, 1)) = Insert(Counts(m), x)
  <2>1. insert(m, x, 1) \in Good /\ Tally(insert(m, x, 1).data) = AddCount(Tally(m.data), x, 1)
    BY InsertGood
  <2>2. AddCount(Counts(m), x, 1) = Insert(Counts(m), x) BY Zenon DEF AddCount, Insert
  <2> QED BY <2>1, <2>2, <1>1
<1>3. ASSUME NEW x \in Ids PROVE Counts(remove(m, x)) = Remove(Counts(m), x)
  BY <1>1, RemoveGood
<1>4. ASSUME NEW f \in [Ids -> Ids]
      PROVE  Counts(map(m, f)) = MapMset(Counts(m), f, MaxIds)
  BY <1>1, MapGood
<1>5. ASSUME NEW other \in Good
      PROVE  Counts(insert_all(m, other)) = InsertAll(Counts(m), Counts(other))
  <2> DEFINE r == Counts(insert_all(m, other))
             c == Counts(m)
             o == Counts(other)
  <2>1. insert_all(m, other) \in Good BY InsertAllGood
  <2>2. \A x \in Ids : r[x] = c[x] + o[x] BY <2>1, <1>1, InsertAllGood
  <2>3. r \in [Ids -> Nat] /\ c \in [Ids -> Nat] BY <2>1, <1>1
  <2> HIDE DEF r, c, o
  <2>4. InsertAll(c, o) = [x \in Ids |-> c[x] + o[x]] BY <2>3 DEF InsertAll
  <2>5. r = InsertAll(c, o) BY <2>2, <2>3, <2>4
  <2> QED BY <2>5 DEF r, c, o
<1>6. ASSUME NEW other \in Good
      PROVE  Counts(msetdiff(m, other)) = MsetDiff(Counts(m), Counts(other))
  <2> DEFINE r == Counts(msetdiff(m, other))
             c == Counts(m)
             o == Counts(other)
  <2>1. msetdiff(m, other) \in Good BY DiffGood
  <2>2. \A x \in Ids : r[x] = IF c[x] > o[x] THEN c[x] - o[x] ELSE 0
    BY <2>1, <1>1, DiffGood
  <2>3. r \in [Ids -> Nat] /\ c \in [Ids -> Nat] BY <2>1, <1>1
  <2> HIDE DEF r, c, o
  <2>4. MsetDiff(c, o) = [x \in Ids |-> IF c[x] > o[x] THEN c[x] - o[x] ELSE 0]
    BY <2>3 DEF MsetDiff
  <2>5. r = MsetDiff(c, o) BY <2>2, <2>3, <2>4
  <2> QED BY <2>5 DEF r, c, o
<1> QED BY <1>2, <1>3, <1>4, <1>5, <1>6
-----------------------------------------------------------------------------
\* Every object is in order, the invariant of all that follows.
EntriesInv == msets \in [Objects -> Good]

\* One object is replaced by one in order.
LEMMA ReplaceGood ==
  ASSUME EntriesInv, NEW o \in Objects, NEW m \in Good,
         msets' = [msets EXCEPT ![o] = m]
  PROVE  EntriesInv'
BY DEF EntriesInv

\* Every operation leaves the objects in order.
LEMMA EntriesInvStep ==
  ASSUME EntriesInv, [Next]_msets
  PROVE  EntriesInv'
<1>1. CASE UNCHANGED msets BY <1>1 DEF EntriesInv
<1>2. ASSUME NEW o \in Objects,
             \/ \E vec \in Vectors : Build(o, vec)
             \/ \E id \in Ids, count \in 0..MaxCount : InsertMany(o, id, count)
             \/ \E id \in Ids : RemoveOne(o, id)
             \/ Clear(o)
             \/ \E f \in [Ids -> Ids] : Rename(o, f)
             \/ \E p \in Objects : AddAll(o, p) \/ Assign(o, p)
             \/ \E p, q \in Objects : Subtract(o, p, q)
      PROVE  EntriesInv'
  <2>1. \A p \in Objects : msets[p] \in Good BY DEF EntriesInv
  <2>2. ASSUME NEW vec \in Vectors, Build(o, vec) PROVE EntriesInv'
    <3>1. PICK n \in 0..MaxVector : vec \in [1..n -> Ids] BY DEF Vectors
    <3>2. n \in Nat BY EntriesAssumption
    <3>3. vec \in Seq(Ids)
      <4> DEFINE S == Ids
      <4>1. vec \in [1..n -> S] BY <3>1
      <4> HIDE DEF S
      <4>2. vec \in Seq(S) BY <3>2, <4>1
      <4> QED BY <4>2 DEF S
    <3>4. construct(vec) \in Good BY <3>3, ConstructGood
    <3> QED BY <3>4, <2>2, ReplaceGood DEF Build
  <2>3. ASSUME NEW id \in Ids, NEW count \in 0..MaxCount, InsertMany(o, id, count)
        PROVE  EntriesInv'
    <3>1. count \in Nat BY EntriesAssumption
    <3>2. insert(msets[o], id, count) \in Good BY <2>1, <3>1, InsertGood
    <3>3. msets' = [msets EXCEPT ![o] = insert(msets[o], id, count)]
      BY <2>3 DEF InsertMany
    <3> QED BY <3>2, <3>3, ReplaceGood
  <2>4. ASSUME NEW id \in Ids, RemoveOne(o, id) PROVE EntriesInv'
    <3>1. remove(msets[o], id) \in Good BY <2>1, RemoveGood
    <3>2. msets' = [msets EXCEPT ![o] = remove(msets[o], id)] BY <2>4 DEF RemoveOne
    <3> QED BY <3>1, <3>2, ReplaceGood
  <2>5. ASSUME Clear(o) PROVE EntriesInv'
    BY <2>5, EmptyGood, ReplaceGood DEF Clear
  <2>6. ASSUME NEW f \in [Ids -> Ids], Rename(o, f) PROVE EntriesInv'
    <3>1. map(msets[o], f) \in Good BY <2>1, MapGood
    <3>2. msets' = [msets EXCEPT ![o] = map(msets[o], f)] BY <2>6 DEF Rename
    <3> QED BY <3>1, <3>2, ReplaceGood
  <2>7. ASSUME NEW p \in Objects, AddAll(o, p) PROVE EntriesInv'
    <3>1. insert_all(msets[o], msets[p]) \in Good BY <2>1, InsertAllGood
    <3>2. msets' = [msets EXCEPT ![o] = insert_all(msets[o], msets[p])]
      BY <2>7 DEF AddAll
    <3> QED BY <3>1, <3>2, ReplaceGood
  <2>8. ASSUME NEW p \in Objects, Assign(o, p) PROVE EntriesInv'
    BY <2>1, <2>8, ReplaceGood DEF Assign
  <2>9. ASSUME NEW p \in Objects, NEW q \in Objects, Subtract(o, p, q) PROVE EntriesInv'
    <3>1. msetdiff(msets[p], msets[q]) \in Good BY <2>1, DiffGood
    <3> QED BY <3>1, <2>9, ReplaceGood DEF Subtract
  <2> QED BY <1>2, <2>2, <2>3, <2>4, <2>5, <2>6, <2>7, <2>8, <2>9
<1> QED BY <1>1, <1>2 DEF Next

\* In every state every object is in order: sorted, its size the number of its
\* elements, its fingerprint their digest.
THEOREM ObjectsInOrder == Spec => []EntriesInv
<1>1. Init => EntriesInv BY EmptyGood DEF Init, EntriesInv
<1>2. EntriesInv /\ [Next]_msets => EntriesInv' BY EntriesInvStep
<1> QED BY <1>1, <1>2, PTL DEF Spec

\* The entries of an object are well formed and sorted strictly by id, so that
\* binary search finds what is there.
THEOREM TypeCorrect == Spec => []TypeOK
<1>1. EntriesInv => TypeOK
  <2> SUFFICES ASSUME EntriesInv, NEW o \in Objects
               PROVE  /\ msets[o].data \in Seq([id : Ids, count : Nat])
                      /\ msets[o].nelements \in Nat
                      /\ msets[o].fingerprint \in Residues
                      /\ Sorted(msets[o].data)
    BY DEF TypeOK
  <2>1. msets[o] \in Good BY DEF EntriesInv
  <2> QED BY <2>1 DEF Good, Entries
<1> QED BY <1>1, ObjectsInOrder, PTL

\* Whatever the history of an object, its fingerprint is the digest of its counts.
THEOREM FingerprintsFollow == Spec => []FingerprintFollows
<1>1. EntriesInv => FingerprintFollows
  <2> SUFFICES ASSUME EntriesInv, NEW o \in Objects
               PROVE  msets[o].fingerprint = Digest(Counts(msets[o]))
    BY DEF FingerprintFollows
  <2>1. msets[o] \in Good BY DEF EntriesInv
  <2> QED BY <2>1, GoodFacts
<1> QED BY <1>1, ObjectsInOrder, PTL

\* operator==, includes, size and the round trip through collect and construct
\* answer for the counts of the objects.
THEOREM QueriesAreExact == Spec => []QueriesExact
<1>1. EntriesInv => QueriesExact
  <2> SUFFICES ASSUME EntriesInv, NEW o \in Objects, NEW p \in Objects
               PROVE  /\ equals(msets[o], msets[p]) <=> Counts(msets[o]) = Counts(msets[p])
                      /\ includes(msets[o], msets[p]) <=>
                           M!Includes(Counts(msets[o]), Counts(msets[p]))
                      /\ msets[o].nelements = M!MsetSize(Counts(msets[o]), MaxIds)
                      /\ Counts(construct(collect(msets[o]))) = Counts(msets[o])
    BY DEF QueriesExact
  <2>1. msets[o] \in Good /\ msets[p] \in Good BY DEF EntriesInv
  <2>2. msets[o].nelements = M!MsetSize(Counts(msets[o]), MaxIds)
    BY <2>1, GoodFacts, MsetNames
  <2>3. Counts(construct(collect(msets[o]))) = Counts(msets[o])
    <3> DEFINE m == msets[o]
               v == collect(m)
    <3>1. m.data \in Seq(Entries) BY <2>1, GoodFacts
    <3>2. v \in Seq(Ids) /\ Tally(Units(v)) = Tally(m.data) BY <3>1, CollectFacts
    <3>3. construct(v) \in Good /\ Tally(construct(v).data) = Tally(Units(v))
      BY <3>2, ConstructGood
    <3> QED BY <2>1, <3>2, <3>3, GoodFacts
  <2>4. equals(msets[o], msets[p]) <=> Counts(msets[o]) = Counts(msets[p])
    BY <2>1, EqualsExact
  <2>5. includes(msets[o], msets[p]) <=> M!Includes(Counts(msets[o]), Counts(msets[p]))
    BY <2>1, IncludesExact, MsetNames
  <2> QED BY <2>2, <2>3, <2>4, <2>5
<1> QED BY <1>1, ObjectsInOrder, PTL

\* insert, remove, map, insert_all and msetdiff do what module Multisets says.
THEOREM OperationsAreExact == Spec => []OperationsExact
<1>1. EntriesInv => OperationsExact
  <2> SUFFICES ASSUME EntriesInv, NEW o \in Objects
               PROVE  LET m == msets[o]
                          c == Counts(m)
                      IN  /\ \A x \in Ids : /\ Counts(insert(m, x, 1)) = M!Insert(c, x)
                                            /\ Counts(remove(m, x)) = M!Remove(c, x)
                          /\ \A f \in [Ids -> Ids] :
                               Counts(map(m, f)) = M!MapMset(c, f, MaxIds)
                          /\ \A p \in Objects : LET other == msets[p] IN
                               /\ Counts(insert_all(m, other)) = M!InsertAll(c, Counts(other))
                               /\ Counts(msetdiff(m, other)) = M!MsetDiff(c, Counts(other))
    BY Zenon DEF OperationsExact
  <2>1. \A p \in Objects : msets[p] \in Good BY DEF EntriesInv
  <2> DEFINE m == msets[o]
             c == Counts(m)
  <2>2. m \in Good BY <2>1
  <2>3. \A x \in Ids : /\ Counts(insert(m, x, 1)) = M!Insert(c, x)
                       /\ Counts(remove(m, x)) = M!Remove(c, x)
    <3> TAKE x \in Ids
    <3>1. Counts(insert(m, x, 1)) = Insert(c, x) /\ Counts(remove(m, x)) = Remove(c, x)
      BY <2>2, OperationsOfGood
    <3>2. M!Insert(c, x) = Insert(c, x) /\ M!Remove(c, x) = Remove(c, x) BY MsetNames
    <3> QED BY <3>1, <3>2
  <2>4. \A f \in [Ids -> Ids] : Counts(map(m, f)) = M!MapMset(c, f, MaxIds)
    BY <2>2, OperationsOfGood, MsetNames
  <2>5. ASSUME NEW p \in Objects
        PROVE  /\ Counts(insert_all(m, msets[p])) = M!InsertAll(c, Counts(msets[p]))
               /\ Counts(msetdiff(m, msets[p])) = M!MsetDiff(c, Counts(msets[p]))
    <3> DEFINE k == Counts(msets[p])
    <3>1. /\ Counts(insert_all(m, msets[p])) = InsertAll(c, k)
          /\ Counts(msetdiff(m, msets[p])) = MsetDiff(c, k)
      BY <2>1, <2>2, OperationsOfGood
    <3>2. M!InsertAll(c, k) = InsertAll(c, k) /\ M!MsetDiff(c, k) = MsetDiff(c, k)
      BY MsetNames
    <3> QED BY <3>1, <3>2
  <2> QED BY <2>3, <2>4, <2>5, Zenon
<1> QED BY <1>1, ObjectsInOrder, PTL
=============================================================================
