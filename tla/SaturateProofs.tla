--------------------------- MODULE SaturateProofs ---------------------------
(***************************************************************************)
(* Proof that saturate is sound: whatever it finds, however long it keeps  *)
(* it and whatever is merged meanwhile, it unifies only what is equal in   *)
(* the algebra.  By MatchFinds below and the proofs of the engine, a match *)
(* found stands for values of the variables of its rule that satisfy the   *)
(* left side, so it is justified.  The values of ids never change, hence   *)
(* it stays justified while ephemeral ids become real and the right side   *)
(* is built, and as the rule holds in the algebra both sides have one      *)
(* value.                                                                  *)
(***************************************************************************)
EXTENDS Saturate, SoundnessProofs

EP == INSTANCE EngineProofs WITH todo <- queries, Databases <- {}, Queries <- AllQueries

\* The queries of the rules are queries to the proofs of the engine.
LEMMA SameQueries ==
  \A q : E!IsQuery(q) <=> EP!IsQuery(q)
BY DEF E!IsQuery, EP!IsQuery, E!IsConstraint, EP!IsConstraint, E!Mentions, EP!Mentions,
       E!ChildOf, EP!ChildOf, E!Searches, EP!Searches, E!Sorts, EP!Sorts, E!Last, EP!Last,
       E!index_to_permutation, EP!index_to_permutation, E!factorial, EP!factorial,
       E!Nth, EP!Nth, E!Cardinality, EP!Cardinality, E!MaxLength, EP!MaxLength

\* What the proofs of the engine assume holds here.
LEMMA EngineAssumed == EP!EngineAssumption
<1>1. MaxIds \in Nat /\ RowOps \cap AcOps = {} /\ \A op \in RowOps : Arity[op] \in Nat
  BY MaxIdsAssumption, OpsAssumption
<1>2. DOMAIN AllQueries = DOMAIN Kernels /\ \A i \in DOMAIN Kernels : AllQueries[i] = Kernels[i].query
  BY DEF AllQueries
<1>3. \A i \in DOMAIN AllQueries : EP!IsQuery(AllQueries[i])
  BY <1>2, KernelsAssumption, SameQueries DEF IsKernel
<1>4. AllQueries \in Seq({AllQueries[i] : i \in DOMAIN AllQueries})
  <2> DEFINE T == {Kernels[i] : i \in DOMAIN Kernels}
             U == {AllQueries[i] : i \in DOMAIN AllQueries}
  <2>1. Kernels \in Seq(T) BY KernelsAssumption
  <2> HIDE DEF T
  <2>2. DOMAIN Kernels = 1..Len(Kernels) /\ Len(Kernels) \in Nat BY <2>1
  <2>3. AllQueries \in [1..Len(Kernels) -> U] BY <2>2 DEF AllQueries
  <2> HIDE DEF U
  <2>4. AllQueries \in Seq(U) BY <2>2, <2>3
  <2> QED BY <2>4 DEF U
<1> QED BY <1>1, <1>3, <1>4 DEF EP!EngineAssumption

\* The engine of saturate is the one that they are about.
LEMMA SameNext == E!Next <=> EP!Next
BY DEF E!Next, EP!Next, E!Execute, EP!Execute, E!Intersect, EP!Intersect, E!Descend, EP!Descend,
  E!Report, EP!Report, E!Unselect, EP!Unselect, E!Exhausted, EP!Exhausted,
  E!query, EP!query, E!Constraints, EP!Constraints, E!Searched, EP!Searched, E!fd, EP!fd,
  E!Mentions, EP!Mentions, E!Last, EP!Last, E!Candidates, EP!Candidates,
  E!EphemeralId, EP!EphemeralId, E!lookup, EP!lookup, E!MapMset, EP!MapMset, E!EmptyMset, EP!EmptyMset,
  E!make_args, EP!make_args, E!Cardinality, EP!Cardinality, E!Ids, EP!Ids,
  E!populate_index, EP!populate_index, E!populate_trie, EP!populate_trie,
  E!populate_multisets, EP!populate_multisets, E!TrieIndex, EP!TrieIndex,
  E!MultisetIndex, EP!MultisetIndex, E!apply_permutation, EP!apply_permutation,
  E!index_to_permutation, EP!index_to_permutation, E!factorial, EP!factorial,
  E!Nth, EP!Nth, E!MaxLength, EP!MaxLength, E!NoTerm, EP!NoTerm,
  E!project, EP!project, E!select, EP!select, E!unselect, EP!unselect,
  E!TrieProject, EP!TrieProject, E!TrieSelect, EP!TrieSelect, E!TrieUnselect, EP!TrieUnselect,
  E!MsetProject, EP!MsetProject, E!MsetSelect, EP!MsetSelect, E!MsetUnselect, EP!MsetUnselect,
  E!Front, EP!Front, E!Contains, EP!Contains, E!Remove, EP!Remove, E!Insert, EP!Insert

\* Hence its invariant is kept.
LEMMA Found == EP!FoundInv /\ [E!Next]_(EP!vars) => EP!FoundInv'
BY EP!FoundStep, EngineAssumed, SameNext
-----------------------------------------------------------------------------
\* s[k] is the value of an AC operator on the first k values of d.
AppliedSums(op, d, s) ==
  s = [k \in 0..Len(d) |-> IF k = 0 THEN Zero[op] ELSE Add(op, s[k-1], d[k])]

\* The recursion of Apply has a solution, and Apply is its last value.
LEMMA AppliedPartial ==
  ASSUME NEW op \in AcOps, NEW d \in Seq(Dom)
  PROVE  \E s : /\ s[0] = Zero[op] /\ \A k \in 1..Len(d) : s[k] = Add(op, s[k-1], d[k])
                /\ \A k \in 0..Len(d) : s[k] \in Dom
                /\ Apply(op, d) = s[Len(d)]
<1> DEFINE n == Len(d)
           b == Zero[op]
           G == [k \in 1..n |-> [x \in Dom |-> Add(op, x, d[k])]]
<1>1. n \in Nat /\ \A k \in 1..n : d[k] \in Dom OBVIOUS
<1>2. b \in Dom BY MonoidLaws
<1>3. \A k \in 1..n : \A x \in Dom : G[k][x] = Add(op, x, d[k]) OBVIOUS
<1>4. \A k \in 1..n : \A x \in Dom : G[k][x] \in Dom
  <2> SUFFICES ASSUME NEW k \in 1..n, NEW x \in Dom PROVE G[k][x] \in Dom OBVIOUS
  <2> DEFINE t == d[k]
  <2>1. t \in Dom BY <1>1
  <2>2. G[k][x] = Add(op, x, t) OBVIOUS
  <2> HIDE DEF t, G
  <2>3. Add(op, x, t) \in Dom BY <2>1, MonoidLaws
  <2> QED BY <2>2, <2>3
<1> HIDE DEF G, b, n
<1>5. PICK g : Iterates(n, b, G, g) BY <1>1, IteratesExist
<1>6. g \in [0..n -> Dom] BY <1>1, <1>2, <1>4, <1>5, IteratesType
<1>7. AppliedSums(op, d, g)
  <2>1. g = [k \in 0..n |-> IF k = 0 THEN b ELSE G[k][g[k-1]]] BY <1>5 DEF Iterates
  <2>2. \A k \in 0..n : k # 0 => k \in 1..n /\ g[k-1] \in Dom BY <1>1, <1>6
  <2>3. \A k \in 0..n : k # 0 => G[k][g[k-1]] = Add(op, g[k-1], d[k])
    BY <2>2, <1>3, Zenon
  <2>4. g = [k \in 0..n |-> IF k = 0 THEN b ELSE Add(op, g[k-1], d[k])]
    BY <2>1, <2>3, Zenon
  <2> QED BY <2>4 DEF AppliedSums, b, n
<1> DEFINE s == CHOOSE s : AppliedSums(op, d, s)
<1>8. AppliedSums(op, d, s) BY <1>7
<1>9. Apply(op, d) = s[n] BY DEF Apply, AppliedSums, Add, n
<1> HIDE DEF s
<1>10. s = [k \in 0..n |-> IF k = 0 THEN b ELSE Add(op, s[k-1], d[k])]
  BY <1>8 DEF AppliedSums, n, b
<1>11. s[0] = b /\ \A k \in 1..n : s[k] = Add(op, s[k-1], d[k])
  BY <1>1, <1>10
<1> DEFINE P == {k \in 0..n : s[k] \in Dom}
<1>12. 0 \in P BY <1>1, <1>2, <1>11
<1>13. ASSUME NEW k \in 1..n, k - 1 \in P PROVE k \in P
  <2> DEFINE a == s[k-1]
             t == d[k]
  <2>1. a \in Dom /\ t \in Dom /\ s[k] = Add(op, a, t) BY <1>1, <1>11, <1>13
  <2> HIDE DEF a, t
  <2>2. s[k] \in Dom BY <2>1, MonoidLaws
  <2> QED BY <2>2
<1> HIDE DEF P
<1>14. \A k \in 0..n : k \in P BY <1>1, <1>12, <1>13, IntervalInduction
<1>15. \A k \in 0..n : s[k] \in Dom BY <1>14 DEF P
<1> QED BY <1>9, <1>11, <1>15 DEF n, b

\* How often each id occurs at the positions I of t.
CountIn(t, I) == [x \in Ids |-> Cardinality({i \in I : t[i] = x})]

\* One more position is one more occurrence.
LEMMA CountInStep ==
  ASSUME NEW o \in Nat, NEW k \in Nat, NEW t, t[o + k + 1] \in Ids
  PROVE  /\ IsMset(Ids, CountIn(t, (o+1)..(o+k)))
         /\ CountIn(t, (o+1)..(o+k+1)) = AddCount(CountIn(t, (o+1)..(o+k)), t[o+k+1], 1)
<1> DEFINE I == (o+1)..(o+k)
           J == (o+1)..(o+k+1)
           y == t[o+k+1]
           In(K, x) == {i \in K : t[i] = x}
<1>1. o + k + 1 \notin I /\ J = I \cup {o + k + 1} OBVIOUS
<1>2. IsFiniteSet(I) BY FS_Interval
<1>3. \A x : IsFiniteSet(In(I, x)) /\ Cardinality(In(I, x)) \in Nat
  <2> SUFFICES ASSUME NEW x PROVE IsFiniteSet(In(I, x)) /\ Cardinality(In(I, x)) \in Nat
    OBVIOUS
  <2> HIDE DEF I
  <2>1. In(I, x) \subseteq I OBVIOUS
  <2> HIDE DEF In
  <2> QED BY <2>1, <1>2, FS_Subset, FS_CardinalityType
<1>4. In(J, y) = In(I, y) \cup {o + k + 1} /\ o + k + 1 \notin In(I, y) BY <1>1
<1>5. \A x : x # y => In(J, x) = In(I, x) BY <1>1
<1> HIDE DEF I, J, In
<1>6. Cardinality(In(J, y)) = Cardinality(In(I, y)) + 1 BY <1>3, <1>4, FS_AddElement
<1>7. /\ CountIn(t, I) = [x \in Ids |-> Cardinality(In(I, x))]
      /\ CountIn(t, J) = [x \in Ids |-> Cardinality(In(J, x))]
  BY DEF CountIn, In
<1>8. IsMset(Ids, CountIn(t, I)) BY <1>3, <1>7 DEF IsMset
<1>9. CountIn(t, J) = AddCount(CountIn(t, I), y, 1)
  BY <1>3, <1>5, <1>6, <1>7 DEF AddCount
<1> QED BY <1>8, <1>9 DEF I, J

\* No position, no occurrence.
LEMMA CountInNone ==
  ASSUME NEW t, NEW o \in Nat
  PROVE  CountIn(t, (o+1)..(o+0)) = EmptyMset(Ids)
<1>1. (o+1)..(o+0) = {} OBVIOUS
<1>2. \A x : {i \in {} : t[i] = x} = {} OBVIOUS
<1>3. Cardinality({}) = 0 BY FS_EmptySet
<1> QED BY <1>1, <1>2, <1>3 DEF CountIn, EmptyMset

\* d are the values of the ids at the positions of t behind o.
ValuesAt(t, o, d, v) == \A i \in 1..Len(d) : t[o+i] \in 1..Len(v) /\ d[i] = v[t[o+i]]

\* The sum of a multiset of ids is the operator applied to their values, one after
\* the other.
LEMMA ValueOfCounts ==
  \A t : \A op \in AcOps, v \in Seq(Dom), o \in Nat, d \in Seq(Dom) :
    Len(v) <= MaxIds /\ ValuesAt(t, o, d, v) =>
      /\ Weighs(op, CountIn(t, (o+1)..(o+Len(d))), v)
      /\ Sum(op, CountIn(t, (o+1)..(o+Len(d))), v) = Apply(op, d)
<1> SUFFICES
      ASSUME NEW t, NEW op \in AcOps, NEW v \in Seq(Dom), NEW o \in Nat, NEW d \in Seq(Dom),
             Len(v) <= MaxIds, ValuesAt(t, o, d, v)
      PROVE  /\ Weighs(op, CountIn(t, (o+1)..(o+Len(d))), v)
             /\ Sum(op, CountIn(t, (o+1)..(o+Len(d))), v) = Apply(op, d)
  OBVIOUS
<1> DEFINE n == Len(d)
           m(k) == CountIn(t, (o+1)..(o+k))
<1>1. PICK s : /\ s[0] = Zero[op] /\ \A k \in 1..n : s[k] = Add(op, s[k-1], d[k])
               /\ \A k \in 0..n : s[k] \in Dom
               /\ Apply(op, d) = s[n]
  BY AppliedPartial
<1>2. n \in Nat /\ \A i \in 1..n : d[i] \in Dom OBVIOUS
<1>3. \A i \in 1..n : t[o+i] \in 1..Len(v) /\ d[i] = v[t[o+i]] BY DEF ValuesAt
<1> HIDE DEF n
<1> DEFINE P == {k \in 0..n : Weighs(op, m(k), v) /\ Sum(op, m(k), v) = s[k]}
<1>4. 0 \in P
  <2>1. m(0) = EmptyMset(Ids) BY CountInNone
  <2> HIDE DEF m
  <2> QED BY <2>1, <1>1, <1>2, SumEmpty
<1>5. ASSUME NEW k \in 1..n, k - 1 \in P PROVE k \in P
  <2> DEFINE j == k - 1
             x == t[o+k]
  <2>1. j \in Nat /\ k = j + 1 /\ o + k = o + j + 1 /\ o + j + 1 = (o + j) + 1 OBVIOUS
  <2>2. x \in 1..Len(v) /\ d[k] = v[x] /\ x \in Ids BY <1>3, <1>5, MaxIdsAssumption DEF Ids
  <2>3. Weighs(op, m(j), v) /\ Sum(op, m(j), v) = s[j] BY <1>5
  <2>4. s[k] = Add(op, s[j], d[k]) BY <1>1
  <2>5. m(k) = AddCount(m(j), x, 1)
    <3> HIDE DEF j
    <3>1. t[o + j + 1] \in Ids BY <2>1, <2>2
    <3>2. CountIn(t, (o+1)..(o+j+1)) = AddCount(CountIn(t, (o+1)..(o+j)), t[o+j+1], 1)
      BY <2>1, <3>1, CountInStep
    <3> QED BY <3>2, <2>1
  <2> HIDE DEF m, j, x
  <2>6. /\ Weighs(op, AddCount(m(j), x, 1), v)
        /\ Sum(op, AddCount(m(j), x, 1), v) = Add(op, Sum(op, m(j), v), Times(op, 1, v[x]))
    <3>1. 1 \in Nat OBVIOUS
    <3> QED BY <3>1, <2>2, <2>3, SumAddCount
  <2>7. Times(op, 1, v[x]) = d[k]
    <3> DEFINE c == d[k]
    <3>1. c \in Dom BY <1>2
    <3> HIDE DEF c
    <3>2. Times(op, 1, c) = c
      <4>1. 1 \in Nat OBVIOUS
      <4> QED BY <4>1, <3>1, TimesFacts
    <3> QED BY <3>2, <2>2 DEF c
  <2> QED BY <2>3, <2>4, <2>5, <2>6, <2>7
<1> HIDE DEF P, m
<1>6. \A k \in 0..n : k \in P BY <1>2, <1>4, <1>5, IntervalInduction
<1>7. n \in 0..n BY <1>2
<1>8. Weighs(op, m(n), v) /\ Sum(op, m(n), v) = s[n] BY <1>6, <1>7 DEF P
<1> QED BY <1>1, <1>8 DEF m, n
-----------------------------------------------------------------------------
\* The step of Numbered.
Without(S) == S \ {CHOOSE r \in S : TRUE}

\* s[k] is what is left of the set R when k elements have been taken out.
TakenOut(R, s) ==
  s = [k \in 0..Cardinality(R) |-> IF k = 0 THEN R ELSE Without(s[k-1])]

\* The numbers of the tuples number their arguments.
LEMMA NumberedArgs ==
  ASSUME NEW R, IsFiniteSet(R)
  PROVE  /\ DOMAIN Numbered(R) = 1..Cardinality(R) /\ Cardinality(R) \in Nat
         /\ \A k \in DOMAIN Numbered(R) : \E r \in R : Numbered(R)[k] = r.args
<1> DEFINE n == Cardinality(R)
           G == [k \in 1..n |-> [S \in SUBSET R |-> Without(S)]]
           rest == CHOOSE s : TakenOut(R, s)
<1>1. n \in Nat BY FS_CardinalityType
<1>2. \A k \in 1..n : \A S \in SUBSET R :
        G[k][S] = Without(S) /\ G[k][S] \in SUBSET R
  BY DEF Without
<1>3. R \in SUBSET R OBVIOUS
<1> HIDE DEF G, n
<1>4. PICK g : Iterates(n, R, G, g) BY <1>1, IteratesExist
<1>5. g \in [0..n -> SUBSET R] BY <1>1, <1>2, <1>3, <1>4, IteratesType
<1>6. TakenOut(R, g)
  <2>1. g = [k \in 0..n |-> IF k = 0 THEN R ELSE G[k][g[k-1]]] BY <1>4 DEF Iterates
  <2>2. \A k \in 0..n : k # 0 => k \in 1..n /\ g[k-1] \in SUBSET R BY <1>1, <1>5
  <2>3. \A k \in 0..n : k # 0 => G[k][g[k-1]] = Without(g[k-1])
    BY <2>2, <1>2, Zenon
  <2>4. g = [k \in 0..n |-> IF k = 0 THEN R ELSE Without(g[k-1])]
    BY <2>1, <2>3, Zenon
  <2> QED BY <2>4 DEF TakenOut, n
<1>7. TakenOut(R, rest) BY <1>6
<1>8. Numbered(R) = [k \in 1..n |-> (CHOOSE r \in rest[k-1] : TRUE).args]
  BY DEF Numbered, TakenOut, Without, n
<1> HIDE DEF rest
<1>9. rest = [k \in 0..n |-> IF k = 0 THEN R ELSE Without(rest[k-1])]
  BY <1>7 DEF TakenOut, n
<1> DEFINE P == {k \in 0..n : rest[k] \subseteq R /\ Cardinality(rest[k]) = n - k}
<1>10. 0 \in P BY <1>1, <1>9 DEF n
<1>11. ASSUME NEW S, S \subseteq R, NEW j \in Nat, Cardinality(S) = n - j, j < n
       PROVE  LET r == CHOOSE r \in S : TRUE IN r \in S /\ Cardinality(S \ {r}) = n - (j + 1)
  <2>1. IsFiniteSet(S) BY <1>11, FS_Subset
  <2>2. S # {} BY <1>1, <1>11, FS_EmptySet
  <2> DEFINE r == CHOOSE r \in S : TRUE
  <2>3. r \in S BY <2>2
  <2> HIDE DEF r
  <2>4. Cardinality(S \ {r}) = Cardinality(S) - 1 BY <2>1, <2>3, FS_RemoveElement
  <2>5. (n - j) - 1 = n - (j + 1) BY <1>1
  <2> QED BY <2>3, <2>4, <2>5, <1>11 DEF r
<1>12. ASSUME NEW k \in 1..n, k - 1 \in P PROVE k \in P
  <2> DEFINE S == rest[k-1]
             j == k - 1
  <2>1. j \in Nat /\ j < n /\ k = j + 1 BY <1>1
  <2>2. S \subseteq R /\ Cardinality(S) = n - j BY <1>12
  <2>3. rest[k] = S \ {CHOOSE r \in S : TRUE} BY <1>1, <1>9 DEF Without
  <2> HIDE DEF S, j
  <2>4. Cardinality(rest[k]) = n - k /\ rest[k] \subseteq R BY <2>1, <2>2, <2>3, <1>11
  <2> QED BY <2>4
<1> HIDE DEF P
<1>13. \A k \in 0..n : k \in P BY <1>1, <1>10, <1>12, IntervalInduction
<1>14. ASSUME NEW k \in 1..n PROVE \E r \in R : Numbered(R)[k] = r.args
  <2> DEFINE j == k - 1
  <2>1. j \in 0..n /\ j \in Nat /\ j < n BY <1>1
  <2>2. rest[j] \subseteq R /\ Cardinality(rest[j]) = n - j BY <2>1, <1>13 DEF P
  <2>3. Numbered(R)[k] = (CHOOSE r \in rest[j] : TRUE).args BY <1>8
  <2> HIDE DEF j
  <2>4. (CHOOSE r \in rest[j] : TRUE) \in rest[j] BY <2>1, <2>2, <1>11
  <2> QED BY <2>2, <2>3, <2>4
<1> QED BY <1>1, <1>8, <1>14 DEF n

\* What a function makes of a finite set is finite.
LEMMA FiniteImage ==
  ASSUME NEW S, IsFiniteSet(S), NEW f, NEW T, T \subseteq {f[x] : x \in S}
  PROVE  IsFiniteSet(T)
<1> DEFINE U == {f[x] : x \in S}
           g == [x \in S |-> f[x]]
<1>1. g \in Surjection(S, U) BY DEF Surjection
<1> HIDE DEF g
<1>2. T \subseteq U OBVIOUS
<1> HIDE DEF U
<1>3. IsFiniteSet(U) BY <1>1, FS_Surjection
<1> QED BY <1>2, <1>3, FS_Subset

\* The AC relations are finite.
AcFinite == \A op \in AcOps : IsFiniteSet(rows[op])

\* They stay finite: flattening and unflattening derive a tuple from two.
LEMMA AcFiniteStep == TypeOK /\ AcFinite /\ [Next]_vars => AcFinite'
<1> SUFFICES ASSUME TypeOK, AcFinite, [Next]_vars, NEW op \in AcOps PROVE IsFiniteSet(rows'[op])
  BY DEF AcFinite
<1>0. IsFiniteSet(rows[op]) /\ op \in Ops /\ op \notin RowOps /\ DOMAIN rows = Ops /\ ControlOK
  BY OpsAssumption DEF AcFinite, TypeOK, RowsOK, Ops
<1>1. ASSUME NEW o \in Ops, NEW args \in CallArgs(o), AddEnode(o, args)
      PROVE  IsFiniteSet(rows'[op])
  <2>1. CASE rows' = rows BY <2>1, <1>0
  <2>2. CASE rows' # rows
    <3>1. PICK x : rows' = [rows EXCEPT ![o] = @ \cup {x}] BY <2>2, <1>1 DEF AddEnode, store
    <3>2. rows'[op] = rows[op] \/ rows'[op] = rows[op] \cup {x} BY <3>1, <1>0
    <3> QED BY <3>2, <1>0, FS_AddElement
  <2> QED BY <2>1, <2>2
<1>2. CASE \E a, b \in Live : Unify(a, b) BY <1>0, <1>2 DEF Unify
<1>3. CASE Rebuild BY <1>0, <1>3 DEF Rebuild
<1>4. CASE RowStep
  <2>1. Current \in RowOps BY <1>0, <1>4 DEF RowStep, RowCanonicalize, RowScan, RowFinish, ControlOK
  <2>2. \E new : rows' = [rows EXCEPT ![Current] = new]
    BY <1>4 DEF RowStep, RowCanonicalize, RowScan, RowFinish
  <2>3. rows'[op] = rows[op] BY <2>1, <2>2, <1>0
  <2> QED BY <2>3, <1>0
<1>5. CASE AcCanonicalize
  <2> DEFINE canonical == {CanonRow(Current, r) : r \in rows[Current]}
             f == [r \in rows[Current] |-> CanonRow(Current, r)]
  <2>1. rows' = [rows EXCEPT ![Current] = canonical] BY <1>5 DEF AcCanonicalize
  <2>2. CASE Current = op
    <3>1. rows'[op] = canonical BY <2>1, <2>2, <1>0
    <3>2. canonical \subseteq {f[x] : x \in rows[op]} BY <2>2
    <3> HIDE DEF f, canonical
    <3> QED BY <3>1, <3>2, <1>0, FiniteImage
  <2>3. CASE Current # op BY <2>1, <2>3, <1>0
  <2> QED BY <2>2, <2>3
<1>6. CASE AcUnify \/ AcCongruent BY <1>0, <1>6 DEF AcUnify, AcCongruent
<1>7. ASSUME NEW derived, Derive(Current, derived), NEW f,
             derived \subseteq {f[p] : p \in rows[Current] \X rows[Current]}
      PROVE  IsFiniteSet(rows'[op])
  <2>1. rows' = [rows EXCEPT ![Current] = @ \cup (derived \ rows[Current])]
    BY <1>7 DEF Derive
  <2>2. CASE Current = op
    <3>1. IsFiniteSet(rows[op] \X rows[op]) BY <1>0, FS_Product
    <3>2. IsFiniteSet(derived) BY <3>1, <2>2, <1>7, FiniteImage
    <3>3. IsFiniteSet(rows[op] \cup derived) BY <3>2, <1>0, FS_Union
    <3>4. rows'[op] = rows[op] \cup derived BY <2>1, <2>2, <1>0
    <3> QED BY <3>3, <3>4
  <2>3. CASE Current # op BY <2>1, <2>3, <1>0
  <2> QED BY <2>2, <2>3
<1>8. CASE AcFlatten
  <2> DEFINE f == [p \in rows[Current] \X rows[Current] |->
                     [args |-> InsertAll(Remove(p[1].args, p[2].id), p[2].args), id |-> p[1].id]]
             S == Flattened(Current)
  <2>1. S \subseteq {f[p] : p \in rows[Current] \X rows[Current]} BY DEF Flattened
  <2>2. Derive(Current, S) BY <1>8 DEF AcFlatten
  <2> HIDE DEF f, S
  <2> QED BY <2>1, <2>2, <1>7
<1>9. CASE AcUnflatten
  <2> DEFINE f == [p \in rows[Current] \X rows[Current] |->
                     [args |-> Insert(MsetDiff(p[1].args, p[2].args), p[2].id), id |-> p[1].id]]
             S == Unflattened(Current)
  <2>1. S \subseteq {f[p] : p \in rows[Current] \X rows[Current]} BY DEF Unflattened
  <2>2. Derive(Current, S) BY <1>9 DEF AcUnflatten
  <2> HIDE DEF f, S
  <2> QED BY <2>1, <2>2, <1>7
<1>10. CASE RebuildReturn \/ UNCHANGED vars BY <1>0, <1>10 DEF RebuildReturn, vars
<1> QED BY <1>1, <1>2, <1>3, <1>4, <1>5, <1>6, <1>8, <1>9, <1>10 DEF Next, RebuildStep, AcStep
-----------------------------------------------------------------------------
\* Ids that are in no multiset need no renaming.
LEMMA MapMsetLive ==
  ASSUME NEW m, IsMset(Ids, m), NEW n \in Nat, n <= MaxIds, NEW f \in [1..n -> Ids],
         NEW h \in [Ids -> Ids], \A k \in 1..n : h[k] = f[k],
         \A k \in Ids : k > n => m[k] = 0
  PROVE  MapMset(m, h, MaxIds) = MapMset(m, f, n)
<1>1. MaxIds \in Nat /\ Ids = 1..MaxIds /\ 1..n \subseteq Ids BY MaxIdsAssumption DEF Ids
<1>2. Renaming(Ids, n, m, f) /\ Renaming(Ids, MaxIds, m, h) BY <1>1 DEF Renaming
<1>3. PICK a : Gathers(Ids, m, f, n, a) /\ MapMset(m, f, n) = a[n] BY <1>2, MapMsetGathers
<1>4. PICK b : Gathers(Ids, m, h, MaxIds, b) /\ MapMset(m, h, MaxIds) = b[MaxIds]
  BY <1>2, MapMsetGathers
<1>5. /\ \A k \in 0..n : IsMset(Ids, a[k])
      /\ a[0] = EmptyMset(Ids)
      /\ \A k \in 1..n : a[k] = AddCount(a[k-1], f[k], m[k])
  BY <1>2, <1>3, GathersType
<1>6. /\ b[0] = EmptyMset(Ids)
      /\ \A k \in 1..MaxIds : h[k] \in Ids /\ b[k] = AddCount(b[k-1], h[k], m[k])
  BY <1>2, <1>4, GathersType
<1> DEFINE P == {k \in 0..MaxIds : b[k] = IF k <= n THEN a[k] ELSE a[n]}
<1>7. 0 \in P BY <1>1, <1>5, <1>6
<1>8. ASSUME NEW k \in 1..MaxIds, k - 1 \in P PROVE k \in P
  <2>1. b[k] = AddCount(b[k-1], h[k], m[k]) /\ h[k] \in Ids BY <1>6
  <2>2. CASE k <= n
    <3>1. k \in 1..n /\ k - 1 <= n BY <2>2
    <3>2. b[k-1] = a[k-1] BY <3>1, <1>8
    <3>3. a[k] = AddCount(a[k-1], f[k], m[k]) /\ h[k] = f[k] BY <3>1, <1>5
    <3> QED BY <2>1, <2>2, <3>2, <3>3
  <2>3. CASE ~(k <= n)
    <3>1. m[k] = 0 BY <2>3, <1>1
    <3>2. b[k-1] = a[n]
      <4>1. k - 1 = n \/ ~(k - 1 <= n) BY <2>3
      <4> QED BY <4>1, <1>8
    <3>3. IsMset(Ids, a[n]) BY <1>5
    <3>4. AddCount(a[n], h[k], 0) = a[n]
      <4> DEFINE c == a[n]
                 x == h[k]
      <4>1. IsMset(Ids, c) /\ x \in Ids BY <3>3, <2>1
      <4> HIDE DEF c, x
      <4>2. \A y \in Ids : c[y] \in Nat /\ c = [z \in Ids |-> c[z]] BY <4>1 DEF IsMset
      <4>3. AddCount(c, x, 0) = c BY <4>1, <4>2 DEF AddCount
      <4> QED BY <4>3 DEF c, x
    <3> QED BY <2>1, <2>3, <3>1, <3>2, <3>4
  <2> QED BY <2>2, <2>3
<1> HIDE DEF P
<1>9. \A k \in 0..MaxIds : k \in P BY <1>1, <1>7, <1>8, IntervalInduction
<1>10. b[MaxIds] = IF MaxIds <= n THEN a[MaxIds] ELSE a[n] BY <1>1, <1>9 DEF P
<1>11. MaxIds <= n => MaxIds = n BY <1>1
<1> QED BY <1>3, <1>4, <1>10, <1>11

\* Renaming the multisets of the e-graph and of the engine.
LEMMA SameMapMset == \A m, f, n : EP!MapMset(m, f, n) = MapMset(m, f, n)
BY DEF EP!MapMset, MapMset, EP!EmptyMset, EmptyMset

\* The engine looks e-nodes up as the e-graph does.
LEMMA SnapshotLookup ==
  ASSUME TypeOK, db = Snapshot, NEW op \in AcOps, NEW args \in Args(op)
  PROVE  EP!lookup(op, args) = Lookup(op, args)
<1>0. UF!IsPartition /\ MemoOK /\ MaxIds \in Nat BY MaxIdsAssumption DEF TypeOK
<1>1. /\ db.rep = [x \in Ids |-> IF x \in Live THEN rep[x] ELSE x]
      /\ db.memo = [o \in AcOps |->
                      [m \in {e.args : e \in {d \in DOMAIN memo : d.op = o}} |-> memo[ENode(o, m)]]]
  BY DEF Snapshot
<1>2. /\ rep \in [1..Len(rep) -> Ids] /\ Len(rep) \in Nat /\ Len(rep) <= MaxIds
      /\ Live \subseteq Ids
  BY <1>0, PartitionFacts
<1>3. args \in Mset /\ \A x \in Ids : args[x] > 0 => x \in Live BY DEF Args
<1> DEFINE h == db.rep
           c == CanonArgs(op, args)
<1>4. h \in [Ids -> Ids] /\ \A k \in 1..Len(rep) : h[k] = rep[k]
  BY <1>1, <1>2 DEF Live
<1>5. \A k \in Ids : k > Len(rep) => args[k] = 0
  BY <1>2, <1>3 DEF Mset, Live
<1>6. MapMset(args, h, MaxIds) = c
  <2> HIDE DEF h
  <2>1. IsMset(Ids, args) BY <1>3 DEF Mset, IsMset
  <2>2. MapMset(args, h, MaxIds) = MapMset(args, rep, Len(rep))
    BY <2>1, <1>2, <1>4, <1>5, MapMsetLive
  <2> QED BY <2>2 DEF CanonArgs
<1>7. EP!MapMset(args, h, MaxIds) = c BY <1>6, SameMapMset
<1>8. db.memo[op] = [m \in {e.args : e \in {d \in DOMAIN memo : d.op = op}} |-> memo[ENode(op, m)]]
  BY <1>1
<1> DEFINE M == db.memo[op]
<1>9. EP!lookup(op, args) = IF c \in DOMAIN M THEN {M[c]} ELSE {}
  BY <1>7 DEF EP!lookup
<1>10. c \in DOMAIN M <=> ENode(op, c) \in DOMAIN memo
  <2>1. ASSUME NEW e \in DOMAIN memo, e.op = op, e.args = c PROVE ENode(op, c) \in DOMAIN memo
    <3>1. e = ENode(e.op, e.args) BY <1>0 DEF MemoOK
    <3> QED BY <3>1, <2>1
  <2>2. ASSUME ENode(op, c) \in DOMAIN memo
        PROVE  \E e \in DOMAIN memo : e.op = op /\ e.args = c
    BY <2>2 DEF ENode
  <2> QED BY <2>1, <2>2, <1>8
<1>11. c \in DOMAIN M => M[c] = memo[ENode(op, c)] BY <1>8
<1> HIDE DEF M, c
<1> QED BY <1>9, <1>10, <1>11 DEF Lookup, c

\* What the indices are filled with is what the engine takes for granted.
LEMMA SnapshotDatabase ==
  ASSUME TypeOK, AcFinite, db = Snapshot
  PROVE  EP!IsDatabase(db)
<1>0. UF!IsPartition /\ MemoOK /\ RowsOK /\ Live \subseteq Ids /\ \A x \in Live : rep[x] \in Live
  BY PartitionFacts DEF TypeOK
<1>1. EP!Ids = Ids BY DEF EP!Ids, Ids
<1>2. ASSUME NEW op \in RowOps, NEW t \in db.rows[op]
      PROVE  t \in Seq(Ids) /\ Len(t) = Arity[op] + 1
  <2>1. PICK r \in rows[op] : t = Append(r.args, r.id) BY DEF Snapshot
  <2>2. r.args \in [1..Arity[op] -> Live] /\ r.id \in Live
    BY <1>0, OpsAssumption DEF RowsOK, Row, Args, Ops
  <2>3. Arity[op] \in Nat BY OpsAssumption
  <2>4. r.args \in Seq(Ids) /\ Len(r.args) = Arity[op] BY <2>2, <2>3, <1>0
  <2> QED BY <2>1, <2>2, <2>4, <1>0
<1>3. ASSUME NEW op \in AcOps PROVE db.terms[op] \in Seq([Ids -> Nat])
  <2> DEFINE N == Numbered(rows[op])
             M == [Ids -> Nat]
  <2>1. IsFiniteSet(rows[op]) BY DEF AcFinite
  <2>2. /\ DOMAIN N = 1..Cardinality(rows[op]) /\ Cardinality(rows[op]) \in Nat
        /\ \A k \in DOMAIN N : \E r \in rows[op] : N[k] = r.args
    BY <2>1, NumberedArgs
  <2>3. \A r \in rows[op] : r.args \in M BY <1>0 DEF RowsOK, Row, Args, Ops, Mset
  <2>4. N = [k \in DOMAIN N |-> N[k]] BY DEF Numbered
  <2>5. db.terms[op] = N BY DEF Snapshot
  <2> HIDE DEF N, M
  <2>6. \A k \in DOMAIN N : N[k] \in M BY <2>2, <2>3
  <2>7. N \in [1..Cardinality(rows[op]) -> M] BY <2>2, <2>4, <2>6
  <2>8. N \in Seq(M) BY <2>2, <2>7
  <2> QED BY <2>5, <2>8 DEF M
<1>4. ASSUME NEW op \in AcOps, NEW m \in DOMAIN db.memo[op] PROVE db.memo[op][m] \in Ids
  <2>1. db.memo[op] = [a \in {e.args : e \in {d \in DOMAIN memo : d.op = op}} |-> memo[ENode(op, a)]]
    BY DEF Snapshot
  <2>2. PICK e \in DOMAIN memo : e.op = op /\ e.args = m BY <2>1
  <2>3. e = ENode(op, m) /\ memo[e] \in Live BY <2>2, <1>0 DEF MemoOK
  <2> QED BY <2>1, <2>3, <1>0
<1>5. db.rep \in [Ids -> Ids] BY <1>0 DEF Snapshot
<1> QED BY <1>1, <1>2, <1>3, <1>4, <1>5 DEF EP!IsDatabase
-----------------------------------------------------------------------------
\* An id of the e-graph, or an ephemeral id whose e-node add_enode may be called
\* with, and the value of the id or of the e-node.
Known(id) ==
  \/ id \in Live
  \/ /\ id \in Nat /\ IsEphemeral(id) /\ id - MaxIds \in DOMAIN ephemeral
     /\ LET e == ephemeral[id - MaxIds] IN e.op \in AcOps /\ e.args \in CallArgs(e.op)

IdValue(id) ==
  IF id \in Live THEN val[id]
  ELSE LET e == ephemeral[id - MaxIds] IN Value(e.op, e.args, val)

\* A known id has a value.
LEMMA KnownValue ==
  ASSUME UF!IsPartition, Valued, NEW id, Known(id)
  PROVE  IdValue(id) \in Dom
<1>1. CASE id \in Live BY <1>1 DEF IdValue, Valued, Live
<1>2. CASE id \notin Live
  <2> DEFINE e == ephemeral[id - MaxIds]
  <2>1. e.op \in AcOps /\ e.args \in CallArgs(e.op) BY <1>2 DEF Known
  <2>2. IdValue(id) = Value(e.op, e.args, val) BY <1>2 DEF IdValue
  <2> HIDE DEF e
  <2>3. e.op \in Ops /\ e.args \in Args(e.op) BY <2>1 DEF Ops, CallArgs
  <2>4. Value(e.op, e.args, val) \in Dom BY <2>3, ValueType
  <2> QED BY <2>2, <2>4
<1> QED BY <1>1, <1>2

\* A binding that a tuple of a row store satisfies has known ids, and fits.
LEMMA RowFits ==
  ASSUME SoundInv, phase = "idle", db = Snapshot,
         NEW c, NEW n, EP!IsConstraint(c, n), c.symbol \notin AcOps,
         NEW s, EP!Satisfied(c, s)
  PROVE  /\ \A v : EP!ChildOf(c, v) => Known(s[v])
         /\ \A sigma : (\A v : EP!ChildOf(c, v) => sigma[v] = IdValue(s[v])) => Fits(c, sigma)
<1> DEFINE vs == c.variables
           N == Len(vs)
           op == c.symbol
           t == [i \in DOMAIN vs |-> s[vs[i]]]
<1>1. op \in RowOps /\ vs \in Seq(1..n) /\ vs # << >> /\ N = Arity[op] + 1
  BY DEF EP!IsConstraint
<1>2. op \in Ops /\ Arity[op] \in Nat BY <1>1, OpsAssumption DEF Ops
<1>3. DOMAIN vs = 1..N BY <1>1
<1>4. t \in db.rows[op] BY DEF EP!Satisfied
<1>5. PICK r \in rows[op] : t = Append(r.args, r.id) BY <1>1, <1>4 DEF Snapshot
<1>6. r \in Row(op) /\ r \in AllRows(op) BY <1>2, <1>5 DEF SoundInv, TypeOK, RowsOK, AllRows
<1>7. /\ r.args \in [1..Arity[op] -> Live] /\ r.id \in Live
      /\ Value(op, r.args, val) = val[r.id]
  BY <1>1, <1>2, <1>6 DEF SoundInv, Sound, RowsHold, Holds, Row, Args
<1>8. /\ \A i \in 1..Arity[op] : s[vs[i]] = r.args[i]
      /\ s[vs[N]] = r.id
  <2> DEFINE a == r.args
             k == Arity[op]
  <2>1. a \in Seq(Live) /\ Len(a) = k /\ k \in Nat BY <1>2, <1>7
  <2>2. \A i \in 1..N : t[i] = s[vs[i]] BY <1>3
  <2>3. N = k + 1 BY <1>1
  <2>4. t = Append(a, r.id) BY <1>5
  <2> HIDE DEF t, a, k, N, vs
  <2>5. \A i \in 1..k : t[i] = a[i] BY <2>1, <2>4, <1>7
  <2>6. t[k + 1] = r.id BY <2>1, <2>4, <1>7
  <2> QED BY <2>1, <2>2, <2>3, <2>5, <2>6 DEF a, k
<1>9. ASSUME NEW v, EP!ChildOf(c, v) PROVE s[v] \in Live
  <2>1. PICK i \in 1..N : vs[i] = v BY <1>3, <1>9 DEF EP!ChildOf
  <2>2. i \in 1..Arity[op] \/ i = N BY <1>1, <1>2
  <2> QED BY <2>1, <2>2, <1>7, <1>8
<1>10. ASSUME NEW sigma, \A v : EP!ChildOf(c, v) => sigma[v] = IdValue(s[v])
       PROVE  Fits(c, sigma)
  <2> DEFINE kids == SubSeq(vs, 1, N - 1)
             d == [i \in DOMAIN kids |-> sigma[kids[i]]]
  <2>1. \A i \in 1..N : EP!ChildOf(c, vs[i]) BY <1>3 DEF EP!ChildOf
  <2>2. \A i \in 1..N : sigma[vs[i]] = val[s[vs[i]]]
    BY <2>1, <1>9, <1>10 DEF IdValue
  <2>3. DOMAIN kids = 1..Arity[op] /\ \A i \in 1..Arity[op] : kids[i] = vs[i]
    <3> DEFINE k == Arity[op]
    <3>1. vs \in Seq(1..n) /\ N = k + 1 /\ k \in Nat /\ k = N - 1 BY <1>1, <1>2
    <3> HIDE DEF k, vs
    <3>2. DOMAIN SubSeq(vs, 1, k) = 1..k /\ \A i \in 1..k : SubSeq(vs, 1, k)[i] = vs[i]
      BY <3>1
    <3> QED BY <3>1, <3>2 DEF k
  <2>4. \A i \in 1..Arity[op] : sigma[kids[i]] = val[r.args[i]]
    <3> TAKE i \in 1..Arity[op]
    <3>1. i \in 1..N BY <1>1, <1>2
    <3> QED BY <3>1, <2>2, <2>3, <1>8
  <2> HIDE DEF kids
  <2>5. d = [i \in 1..Arity[op] |-> val[r.args[i]]] BY <2>3, <2>4
  <2>6. Apply(op, d) = Value(op, r.args, val) BY <2>5 DEF Apply, Value
  <2>7. sigma[vs[N]] = val[r.id]
    <3>1. N \in 1..N BY <1>1, <1>2
    <3> QED BY <3>1, <2>2, <1>8
  <2> QED BY <2>6, <2>7, <1>7 DEF Fits, kids
<1> QED BY <1>9, <1>10 DEF Known

\* The children that the bindings of an AC constraint can have are in the bound on
\* the multisets of add_enode.
AcBounded(c) ==
  c.symbol \in AcOps => \A f \in [2..(Len(c.variables) - 1) -> Ids] : Count(f) \in AcArgs

\* The engine counts as the e-graph does.
LEMMA SameCounts ==
  \A vs, s : EP!KidCounts(vs, s) = [x \in Ids |-> Cardinality({i \in 2..(Len(vs) - 1) : s[vs[i]] = x})]
BY DEF EP!KidCounts, EP!Ids, Ids, EP!Cardinality, Cardinality

\* The id of an AC e-node: the one in the memo, or an ephemeral one.
LEMMA IdStands ==
  ASSUME SoundInv, db = Snapshot, EP!EphemeralOK, NEW op \in AcOps,
         NEW args \in CallArgs(op), NEW id, EP!Stands(id, op, args)
  PROVE  Known(id) /\ IdValue(id) = Value(op, args, val)
<1>0. /\ TypeOK /\ UF!IsPartition /\ Valued /\ ClassesHold /\ MemoHolds /\ MemoOK
      /\ op \in Ops /\ args \in Args(op)
  BY DEF SoundInv, Sound, TypeOK, Ops, CallArgs
<1>1. EP!lookup(op, args) = Lookup(op, args) BY <1>0, SnapshotLookup
<1>2. CASE Lookup(op, args) # {}
  <2> DEFINE e == ENode(op, CanonArgs(op, args))
  <2>1. e \in DOMAIN memo /\ id = memo[e] BY <1>1, <1>2 DEF EP!Stands, Lookup
  <2>2. e.op = op /\ e.args = CanonArgs(op, args) BY DEF ENode
  <2>3. id \in Live /\ Value(e.op, e.args, val) = val[id]
    BY <1>0, <2>1 DEF MemoOK, MemoHolds, Holds
  <2>4. Value(op, CanonArgs(op, args), val) = Value(op, args, val) BY <1>0, ValueCanon
  <2> HIDE DEF e
  <2> QED BY <2>2, <2>3, <2>4 DEF Known, IdValue
<1>3. CASE Lookup(op, args) = {}
  <2>1. PICK j \in DOMAIN ephemeral : /\ id = EP!EphemeralId(j)
                                      /\ ephemeral[j] = [op |-> op, args |-> args]
    BY <1>1, <1>3 DEF EP!Stands
  <2>2. j \in Nat \ {0} BY DEF EP!EphemeralOK
  <2>3. id = MaxIds + j BY <2>1 DEF EP!EphemeralId
  <2>4. id \in Nat /\ id > MaxIds /\ id - MaxIds = j BY <2>2, <2>3, MaxIdsAssumption
  <2>5. id \notin Live BY <2>4, <1>0, PartitionFacts, MaxIdsAssumption DEF Live
  <2>6. ephemeral[j].op = op /\ ephemeral[j].args = args BY <2>1
  <2> QED BY <2>1, <2>4, <2>5, <2>6 DEF Known, IdValue, IsEphemeral
<1> QED BY <1>2, <1>3

\* A binding that a part of an AC tuple satisfies has known ids, and fits.
LEMMA AcFits ==
  ASSUME SoundInv, AcFinite, phase = "idle", db = Snapshot, EP!EphemeralOK,
         NEW c, NEW n, EP!IsConstraint(c, n), c.symbol \in AcOps, AcBounded(c),
         NEW s, EP!Satisfied(c, s)
  PROVE  /\ \A v : EP!ChildOf(c, v) => Known(s[v])
         /\ \A sigma : (\A v : EP!ChildOf(c, v) => sigma[v] = IdValue(s[v])) => Fits(c, sigma)
<1> DEFINE vs == c.variables
           N == Len(vs)
           op == c.symbol
           term == s[vs[1]]
           args == EP!KidCounts(vs, s)
           f == [i \in 2..(N-1) |-> s[vs[i]]]
<1>0. /\ TypeOK /\ UF!IsPartition /\ Valued /\ RowsOK /\ op \in Ops
      /\ Live \subseteq Ids /\ MaxIds \in Nat
  BY PartitionFacts, MaxIdsAssumption DEF SoundInv, TypeOK, Ops
<1>1. vs \in Seq(1..n) /\ N \in Nat /\ N >= 2 BY DEF EP!IsConstraint
<1>2. DOMAIN vs = 1..N BY <1>1
<1>2a. IsFiniteSet(2..(N-1))
  <2> HIDE DEF N
  <2>1. 2 \in Int /\ N - 1 \in Int BY <1>1
  <2> QED BY <2>1, FS_Interval
<1>3. /\ term \in DOMAIN db.terms[op]
      /\ \A i \in 2..(N-1) : s[vs[i]] \in Ids
      /\ EP!Includes(db.terms[op][term], args)
      /\ EP!Stands(s[vs[N]], op, args)
  BY DEF EP!Satisfied, EP!Last, EP!Ids, Ids
<1>4. PICK r \in rows[op] : db.terms[op][term] = r.args
  <2>1. db.terms[op] = Numbered(rows[op]) /\ IsFiniteSet(rows[op]) BY DEF Snapshot, AcFinite
  <2> QED BY <2>1, <1>3, NumberedArgs
<1>5. r.args \in Mset /\ \A x \in Ids : r.args[x] > 0 => x \in Live
  BY <1>0 DEF RowsOK, Row, Args
<1>6. args = [x \in Ids |-> Cardinality({i \in 2..(N-1) : s[vs[i]] = x})] BY SameCounts
<1>7. args = Count(f)
  <2>1. \A x : {i \in DOMAIN f : f[i] = x} = {i \in 2..(N-1) : s[vs[i]] = x} OBVIOUS
  <2> HIDE DEF f
  <2> QED BY <1>6, <2>1 DEF Count
<1>8. \A x \in Ids : args[x] \in Nat /\ args[x] <= r.args[x]
  <2> TAKE x \in Ids
  <2> DEFINE S == {i \in 2..(N-1) : s[vs[i]] = x}
  <2>1. S \subseteq 2..(N-1) /\ IsFiniteSet(2..(N-1)) BY <1>2a
  <2>2. Cardinality(S) \in Nat BY <2>1, FS_Subset, FS_CardinalityType
  <2>3. args[x] = Cardinality(S) BY <1>6
  <2>4. args[x] <= r.args[x] BY <1>3, <1>4, <1>5, <1>6 DEF EP!Includes, Mset
  <2> QED BY <2>2, <2>3, <2>4
<1>9. args \in Mset BY <1>6, <1>8 DEF Mset
<1>10. \A i \in 2..(N-1) : s[vs[i]] \in Live
  <2> TAKE i \in 2..(N-1)
  <2> DEFINE x == s[vs[i]]
             S == {j \in 2..(N-1) : s[vs[j]] = x}
  <2>1. x \in Ids BY <1>3
  <2>2. S \subseteq 2..(N-1) /\ IsFiniteSet(2..(N-1)) BY <1>2a
  <2>3. IsFiniteSet(S) BY <2>2, FS_Subset
  <2>4. i \in S OBVIOUS
  <2>5. args[x] = Cardinality(S) BY <1>6, <2>1
  <2> HIDE DEF S, x
  <2>6. Cardinality(S) # 0 BY <2>3, <2>4, FS_EmptySet
  <2>7. args[x] \in Nat /\ args[x] <= r.args[x] /\ r.args[x] \in Nat BY <1>5, <1>8, <2>1 DEF Mset
  <2>8. r.args[x] > 0 BY <2>5, <2>6, <2>7
  <2> QED BY <2>1, <2>8, <1>5 DEF x
<1>11. args \in CallArgs(op)
  <2>1. f \in [2..(N-1) -> Ids] BY <1>3
  <2>2. args \in AcArgs BY <2>1, <1>7 DEF AcBounded
  <2>3. \A x \in Ids : args[x] > 0 => x \in Live
    <3> TAKE x \in Ids
    <3>1. args[x] \in Nat /\ r.args[x] \in Nat /\ args[x] <= r.args[x] BY <1>5, <1>8 DEF Mset
    <3> QED BY <3>1, <1>5
  <2> QED BY <2>2, <2>3, <1>9 DEF CallArgs, Args
<1>12. Known(s[vs[N]]) /\ IdValue(s[vs[N]]) = Value(op, args, val)
  <2> HIDE DEF args
  <2> QED BY <1>3, <1>11, IdStands
<1>13. ASSUME NEW v, EP!ChildOf(c, v) PROVE Known(s[v])
  <2>1. PICK i \in 1..N : vs[i] = v /\ i > 1 BY <1>2, <1>13 DEF EP!ChildOf
  <2>2. i \in 2..(N-1) \/ i = N BY <1>1, <2>1
  <2> QED BY <2>1, <2>2, <1>10, <1>12 DEF Known
<1>14. ASSUME NEW sigma, \A v : EP!ChildOf(c, v) => sigma[v] = IdValue(s[v])
       PROVE  Fits(c, sigma)
  <2> DEFINE kids == SubSeq(vs, 2, N - 1)
             d == [i \in DOMAIN kids |-> sigma[kids[i]]]
             t == [i \in 2..(N-1) |-> s[vs[i]]]
  <2>1. \A i \in 2..N : EP!ChildOf(c, vs[i])
    <3> TAKE i \in 2..N
    <3>1. i \in 1..N /\ i > 1 BY <1>1
    <3> QED BY <3>1, <1>2 DEF EP!ChildOf
  <2>2. sigma[vs[N]] = Value(op, args, val)
    <3>1. N \in 2..N BY <1>1
    <3> QED BY <3>1, <2>1, <1>12, <1>14
  <2>3. \A i \in 2..(N-1) : sigma[vs[i]] = val[s[vs[i]]] /\ s[vs[i]] \in 1..Len(val)
    <3> TAKE i \in 2..(N-1)
    <3>1. i \in 2..N BY <1>1
    <3>2. s[vs[i]] \in Live BY <1>10
    <3> QED BY <3>1, <3>2, <2>1, <1>14, <1>0 DEF IdValue, Valued, Live
  <2>4. PICK m \in Nat : m = N - 2 BY <1>1
  <2>5. /\ DOMAIN kids = 1..m /\ \A i \in 1..m : kids[i] = vs[1 + i] /\ 1 + i \in 2..(N-1)
    <3>1. vs \in Seq(1..n) /\ N = m + 2 /\ Len(vs) = N BY <1>1, <2>4
    <3> HIDE DEF vs, N
    <3>2. N - 1 = m + 1 BY <3>1, <2>4
    <3>3. DOMAIN SubSeq(vs, 2, m + 1) = 1..m /\ \A i \in 1..m : SubSeq(vs, 2, m + 1)[i] = vs[1 + i]
      BY <3>1, <2>4
    <3>4. \A i \in 1..m : 1 + i \in 2..(N-1) BY <3>2
    <3> QED BY <3>2, <3>3, <3>4
  <2>6. /\ d \in Seq(Dom) /\ Len(d) = m /\ DOMAIN d = 1..m
        /\ \A i \in 1..m : t[1+i] \in 1..Len(val) /\ d[i] = val[t[1+i]]
    <3> HIDE DEF kids, vs, N
    <3>1. DOMAIN d = 1..m /\ \A i \in 1..m : d[i] = sigma[vs[1+i]] /\ t[1+i] = s[vs[1+i]]
      BY <2>5
    <3>2. \A i \in 1..m : t[1+i] \in 1..Len(val) /\ d[i] = val[t[1+i]] BY <3>1, <2>3, <2>5
    <3>3. d = [i \in 1..m |-> d[i]] BY <2>5
    <3>4. val \in Seq(Dom) BY <1>0 DEF Valued
    <3> HIDE DEF d, t
    <3>5. \A i \in 1..m : d[i] \in Dom BY <3>2, <3>4
    <3> QED BY <3>1, <3>2, <3>3, <3>5
  <2>7. val \in Seq(Dom) /\ Len(val) <= MaxIds BY <1>0, PartitionFacts DEF Valued
  <2>8. (1+1)..(1+m) = 2..(N-1) BY <1>1, <2>4
  <2> HIDE DEF d, t
  <2>9. Sum(op, CountIn(t, (1+1)..(1+Len(d))), val) = Apply(op, d)
    <3> DEFINE o == 1
    <3>1. op \in AcOps /\ o \in Nat OBVIOUS
    <3>2. ValuesAt(t, o, d, val) BY <2>6 DEF ValuesAt
    <3> HIDE DEF o, op, kids
    <3>3. Sum(op, CountIn(t, (o+1)..(o+Len(d))), val) = Apply(op, d)
      <4>1. val \in Seq(Dom) /\ Len(val) <= MaxIds BY <2>7
      <4>2. d \in Seq(Dom) BY <2>6
      <4>3. op \in AcOps /\ o \in Nat BY <3>1
      <4> QED BY <4>1, <4>2, <4>3, <3>2, ValueOfCounts
    <3> QED BY <3>3 DEF o
  <2>10. CountIn(t, 2..(N-1)) = args
    <3>1. \A x : {i \in 2..(N-1) : t[i] = x} = {i \in 2..(N-1) : s[vs[i]] = x} BY DEF t
    <3> QED BY <3>1, <1>6 DEF CountIn
  <2>11. Value(op, args, val) = Apply(op, d)
    <3> HIDE DEF args, vs, N
    <3> QED BY <2>6, <2>8, <2>9, <2>10 DEF Value
  <2>12. sigma[vs[N]] = Apply(op, d) BY <2>2, <2>11
  <2> QED BY <2>12 DEF Fits, d
<1> QED BY <1>13, <1>14

\* A match of a rule stands for values of its variables: the values of the ids of
\* the match are those of the variables in the head, and every constraint fits.
Justifies(k, m, sigma) ==
  /\ \A c \in DOMAIN k.query.constraints : Fits(k.query.constraints[c], sigma)
  /\ \A p \in DOMAIN k.query.head :
       Known(m[p]) /\ IdValue(m[p]) = sigma[k.query.head[p]]

Justified(k, m) == \E sigma \in [1..k.query.nvars -> Dom] : Justifies(k, m, sigma)

\* What the engine finds is justified.
LEMMA MatchJustified ==
  ASSUME SoundInv, AcFinite, phase = "idle", db = Snapshot, EP!EphemeralOK,
         NEW i \in DOMAIN Kernels, NEW r, EP!IsMatch(Kernels[i].query, r)
  PROVE  /\ Justified(Kernels[i], r) /\ r \in Seq(Nat)
         /\ Len(r) = Len(Kernels[i].query.head)
<1> DEFINE q == Kernels[i].query
           n == q.nvars
           h == q.head
<1>0. UF!IsPartition /\ Valued BY DEF SoundInv, TypeOK
<1>1. EP!IsQuery(q) BY KernelsAssumption, SameQueries DEF IsKernel
<1>2. /\ \A c \in DOMAIN q.constraints : EP!IsConstraint(q.constraints[c], n)
      /\ h \in Seq(1..n) /\ h # << >>
      /\ \A k \in DOMAIN h : \E c \in DOMAIN q.constraints :
           IF k = Len(h) THEN EP!ChildOf(q.constraints[c], h[k])
                         ELSE EP!Searches(q.constraints[c], h[k])
  BY <1>1 DEF EP!IsQuery
<1>3. PICK s : /\ r = [p \in DOMAIN h |-> s[h[p]]]
               /\ \A c \in DOMAIN q.constraints : EP!Satisfied(q.constraints[c], s)
  BY DEF EP!IsMatch
<1>4. ASSUME NEW c \in DOMAIN q.constraints
      PROVE  /\ \A v : EP!ChildOf(q.constraints[c], v) => Known(s[v]) /\ v \in 1..n
             /\ \A sigma : (\A v : EP!ChildOf(q.constraints[c], v) => sigma[v] = IdValue(s[v]))
                           => Fits(q.constraints[c], sigma)
  <2> DEFINE C == q.constraints[c]
  <2>1. EP!IsConstraint(C, n) /\ EP!Satisfied(C, s) BY <1>2, <1>3, Zenon
  <2>2. AcBounded(C)
    <3>1. \A k \in DOMAIN Kernels : \A e \in DOMAIN Kernels[k].query.constraints :
            AcBounded(Kernels[k].query.constraints[e])
      BY AcArgsAssumption DEF AcBounded
    <3> QED BY <3>1, Zenon
  <2>3. C.variables \in Seq(1..n) BY <2>1 DEF EP!IsConstraint
  <2>4. \A v : EP!ChildOf(C, v) => v \in 1..n
    <3>1. \A T : \A u \in Seq(T) : \A j \in DOMAIN u : u[j] \in T OBVIOUS
    <3> QED BY <3>1, <2>3 DEF EP!ChildOf
  <2> HIDE DEF C, n
  <2>5. C.symbol \in AcOps =>
          /\ \A v : EP!ChildOf(C, v) => Known(s[v])
          /\ \A sigma : (\A v : EP!ChildOf(C, v) => sigma[v] = IdValue(s[v])) => Fits(C, sigma)
    BY <2>1, <2>2, AcFits, Zenon
  <2>6. C.symbol \notin AcOps =>
          /\ \A v : EP!ChildOf(C, v) => Known(s[v])
          /\ \A sigma : (\A v : EP!ChildOf(C, v) => sigma[v] = IdValue(s[v])) => Fits(C, sigma)
    BY <2>1, RowFits, Zenon
  <2>7. /\ \A v : EP!ChildOf(C, v) => Known(s[v]) /\ v \in 1..n
        /\ \A sigma : (\A v : EP!ChildOf(C, v) => sigma[v] = IdValue(s[v])) => Fits(C, sigma)
    BY <2>4, <2>5, <2>6, Zenon
  <2> QED BY <2>7 DEF C
<1>5. \A p \in DOMAIN h : \E c \in DOMAIN q.constraints : EP!ChildOf(q.constraints[c], h[p])
  BY <1>2 DEF EP!Searches
<1>6. \A p \in DOMAIN h : Known(s[h[p]]) /\ h[p] \in 1..n BY <1>4, <1>5
<1>7. PICK d : d \in Dom
  <2>1. 1 \in DOMAIN h BY <1>2
  <2> QED BY <2>1, <1>0, <1>6, KnownValue
<1> DEFINE sigma == [v \in 1..n |-> IF Known(s[v]) THEN IdValue(s[v]) ELSE d]
<1>8. sigma \in [1..n -> Dom] BY <1>0, <1>7, KnownValue
<1>9. \A v \in 1..n : Known(s[v]) => sigma[v] = IdValue(s[v]) OBVIOUS
<1> HIDE DEF sigma
<1>10. \A c \in DOMAIN q.constraints : Fits(q.constraints[c], sigma)
  BY <1>4, <1>9
<1>11. \A p \in DOMAIN h : Known(r[p]) /\ IdValue(r[p]) = sigma[h[p]]
  BY <1>3, <1>6, <1>9
<1>12. r \in Seq(Nat) /\ Len(r) = Len(h)
  <2>1. \A id : Known(id) => id \in Nat BY <1>0, PartitionFacts DEF Known, Live
  <2>2. DOMAIN h = 1..Len(h) /\ Len(h) \in Nat BY <1>2
  <2>3. DOMAIN r = DOMAIN h /\ r = [p \in DOMAIN h |-> r[p]] BY <1>3
  <2>4. \A p \in 1..Len(h) : r[p] \in Nat BY <2>1, <2>2, <1>11
  <2> HIDE DEF h
  <2>5. r \in [1..Len(h) -> Nat] BY <2>2, <2>3, <2>4
  <2> QED BY <2>2, <2>5
<1>13. Justified(Kernels[i], r) BY <1>8, <1>10, <1>11 DEF Justified, Justifies
<1> QED BY <1>12, <1>13
-----------------------------------------------------------------------------
\* Ids and ephemeral ids are handed out, never taken back, and keep their value.
ValuesKept ==
  /\ Live \subseteq Live' /\ \A x \in Live : val'[x] = val[x]
  /\ \A op \in Ops : \A args \in CallArgs(op) :
       args \in CallArgs(op)' /\ Value(op, args, val') = Value(op, args, val)
\* The same for the e-nodes that ephemeral ids stand for.
NodesKept ==
  \A j \in DOMAIN ephemeral : j \in DOMAIN ephemeral' /\ ephemeral'[j] = ephemeral[j]

\* Every call of the e-graph keeps the values.
LEMMA CallsKeep == SoundInv /\ [SoundNext]_<<vars, val>> => SoundInv' /\ ValuesKept
<1> SUFFICES ASSUME SoundInv, [SoundNext]_<<vars, val>> PROVE SoundInv' /\ ValuesKept
  OBVIOUS
<1>1. SoundInv' BY NextSound
<1>2. UF!IsPartition /\ UF!IsPartition' /\ Valued /\ Valued' BY <1>1 DEF SoundInv, TypeOK
<1>3. Len(rep) \in Nat /\ Len(rep') \in Nat
  <2>1. Len(rep) \in Nat BY <1>2, PartitionFacts
  <2>2. Len(val') \in Nat /\ Len(val') = Len(rep') BY <1>2 DEF Valued
  <2> QED BY <2>1, <2>2
<1>4. CASE val' = val
  <2>1. Len(rep') = Len(rep) BY <1>2, <1>4 DEF Valued
  <2>2. Live' = Live BY <2>1 DEF Live
  <2>3. \A op : CallArgs(op)' = CallArgs(op) BY <2>2 DEF CallArgs, Args
  <2>4. \A op, args : Value(op, args, val') = Value(op, args, val) BY <1>4
  <2>5. \A op \in Ops : \A args \in CallArgs(op) : args \in CallArgs(op)' BY <2>3
  <2> QED BY <2>2, <2>4, <2>5, <1>1, <1>4 DEF ValuesKept
<1>5. ASSUME NEW op \in Ops, NEW args \in CallArgs(op), AddEnode(op, args),
             val' = IF rep' = rep THEN val ELSE Append(val, Value(op, args, val))
      PROVE  ValuesKept
  <2>1. CASE rep' = rep BY <2>1, <1>4, <1>5
  <2>2. CASE rep' # rep
    <3> DEFINE d == Value(op, args, val)
    <3>1. Len(rep) < MaxIds /\ val' = Append(val, d)
      BY <2>2, <1>5 DEF AddEnode, store, UF!MakeSet
    <3>2. args \in Args(op) BY DEF CallArgs
    <3>3. d \in Dom BY <3>2, <1>2, ValueType
    <3> HIDE DEF d
    <3>4. Len(val') = Len(val) + 1 /\ \A x \in 1..Len(val) : val'[x] = val[x]
      BY <3>1, <3>3, <1>2 DEF Valued
    <3>5. Len(rep) <= Len(rep') BY <3>4, <1>2, <1>3 DEF Valued
    <3>6. Live \subseteq Live' /\ \A o \in Ops : Args(o) \subseteq Args(o)'
      BY <3>5, <1>3, StoreGrows
    <3>7. \A x \in Live : val'[x] = val[x] BY <3>4, <1>2 DEF Valued, Live
    <3>8. \A o \in Ops : \A a \in CallArgs(o) : a \in Args(o) /\ a \in CallArgs(o)'
      BY <3>6 DEF CallArgs
    <3>9. \A o \in Ops : \A a \in CallArgs(o) : Value(o, a, Append(val, d)) = Value(o, a, val)
      BY <3>1, <3>3, <3>8, <1>2, ValueAppend
    <3> QED BY <3>1, <3>6, <3>7, <3>8, <3>9 DEF ValuesKept
  <2> QED BY <2>1, <2>2
<1>6. CASE UNCHANGED <<vars, val>> BY <1>4, <1>6
<1> QED BY <1>1, <1>4, <1>5, <1>6 DEF SoundNext

\* A known id stays known, with its value; a match stays justified.
LEMMA KnownKept ==
  ASSUME UF!IsPartition', ValuesKept, NodesKept, NEW id, Known(id)
  PROVE  Known(id)' /\ IdValue(id)' = IdValue(id)
<1>1. CASE id \in Live
  <2>1. id \in Live' /\ val'[id] = val[id] BY <1>1 DEF ValuesKept
  <2> QED BY <1>1, <2>1 DEF Known, IdValue
<1>2. CASE id \notin Live
  <2> DEFINE j == id - MaxIds
             e == ephemeral[j]
  <2>1. PICK op, args :
          /\ id \in Nat /\ IsEphemeral(id) /\ j \in DOMAIN ephemeral
          /\ op \in AcOps /\ args \in CallArgs(op) /\ e.op = op /\ e.args = args
    BY <1>2 DEF Known
  <2>2. j \in DOMAIN ephemeral' /\ ephemeral'[j] = e BY <2>1 DEF NodesKept
  <2>3. args \in CallArgs(op)' /\ Value(op, args, val') = Value(op, args, val)
    BY <2>1 DEF ValuesKept, Ops
  <2>4. Live' \subseteq 1..MaxIds
    <3>1. (Len(rep) \in Nat /\ Len(rep) <= MaxIds)' BY PartitionFacts, PTL
    <3> QED BY <3>1, MaxIdsAssumption DEF Live
  <2>5. id \notin Live' BY <2>1, <2>4, MaxIdsAssumption DEF IsEphemeral
  <2>6. Known(id)' BY <2>1, <2>2, <2>3 DEF Known, IsEphemeral
  <2>7. IdValue(id) = Value(op, args, val) BY <1>2, <2>1 DEF IdValue
  <2>8. IdValue(id)' = Value(op, args, val') BY <2>1, <2>2, <2>5 DEF IdValue
  <2> QED BY <2>3, <2>6, <2>7, <2>8
<1> QED BY <1>1, <1>2

\* So a match stays justified.
LEMMA JustifiedKept ==
  ASSUME UF!IsPartition', ValuesKept, NodesKept, NEW k, NEW m
  PROVE  /\ \A sigma : Justifies(k, m, sigma) => Justifies(k, m, sigma)'
         /\ Justified(k, m) => Justified(k, m)'
<1>1. ASSUME NEW sigma, Justifies(k, m, sigma) PROVE Justifies(k, m, sigma)'
  <2>1. \A p \in DOMAIN k.query.head :
          Known(m[p])' /\ IdValue(m[p])' = sigma[k.query.head[p]]
    <3>1. \A id : Known(id) => Known(id)' /\ IdValue(id)' = IdValue(id) BY KnownKept
    <3>2. \A p \in DOMAIN k.query.head : Known(m[p]) /\ IdValue(m[p]) = sigma[k.query.head[p]]
      BY <1>1 DEF Justifies
    <3> QED BY <3>1, <3>2
  <2> QED BY <2>1, <1>1 DEF Justifies
<1> QED BY <1>1 DEF Justified
-----------------------------------------------------------------------------
\* Multiples of h are h apart, and a sum is one if its first part is.
LEMMA MultiplesApart ==
  ASSUME NEW h \in Nat \ {0}
  PROVE  /\ 0 % h = 0
         /\ \A a \in Nat : (a + h) % h = a % h
         /\ \A a, b \in Nat : a % h = 0 /\ b % h = 0 /\ a < b => a + h <= b
<1>1. \A q, p \in Int : q < p => h * q + h <= h * p
  <2> SUFFICES ASSUME NEW q \in Int, NEW p \in Int, q < p PROVE h * q + h <= h * p
    OBVIOUS
  <2>1. PICK d \in Nat : p = q + 1 + d
    <3>1. p - q - 1 \in Nat /\ p = q + 1 + (p - q - 1) OBVIOUS
    <3> QED BY <3>1
  <2>2. h * (q + 1 + d) = h * q + h + h * d OBVIOUS
  <2>3. h * d \in Nat /\ h * q \in Int OBVIOUS
  <2> QED BY <2>1, <2>2, <2>3
<1>2. ASSUME NEW a \in Nat PROVE (a + h) % h = a % h
  <2>1. PICK q \in Nat : a = h * q + (a % h) BY Division
  <2>2. PICK p \in Nat : a + h = h * p + ((a + h) % h) /\ a + h \in Nat
    <3>1. a + h \in Nat OBVIOUS
    <3> QED BY <3>1, Division
  <2>3. a % h \in 0..(h-1) /\ (a + h) % h \in 0..(h-1) BY <2>2, Division
  <2> DEFINE r == a % h
             s == (a + h) % h
             x == h * q
             y == h * p
             z == h * (q + 1)
  <2>4. x \in Nat /\ y \in Nat /\ z \in Nat /\ z = x + h OBVIOUS
  <2>5. q + 1 < p => z + h <= y BY <1>1
  <2>6. p < q + 1 => y + h <= z BY <1>1
  <2>7. p = q + 1 => y = z OBVIOUS
  <2>8. a = x + r /\ a + h = y + s BY <2>1, <2>2
  <2>9. r \in 0..(h-1) /\ s \in 0..(h-1) BY <2>3
  <2> HIDE DEF r, s, x, y, z
  <2>10. r = s
    <3>1. CASE p = q + 1 BY <3>1, <2>4, <2>7, <2>8, <2>9
    <3>2. CASE q + 1 < p BY <3>2, <2>4, <2>5, <2>8, <2>9
    <3>3. CASE p < q + 1 BY <3>3, <2>4, <2>6, <2>8, <2>9
    <3> QED BY <3>1, <3>2, <3>3
  <2> QED BY <2>10 DEF r, s
<1>3. ASSUME NEW a \in Nat, NEW b \in Nat, a % h = 0, b % h = 0, a < b PROVE a + h <= b
  <2>1. PICK q \in Nat : a = h * q + (a % h) BY Division
  <2>2. PICK p \in Nat : b = h * p + (b % h) BY Division
  <2> DEFINE x == h * q
             y == h * p
  <2>3. x \in Nat /\ y \in Nat /\ (q < p => x + h <= y) BY <1>1
  <2>4. p < q => y + h <= x BY <1>1
  <2>5. p = q => y = x OBVIOUS
  <2>6. a = x /\ b = y
    <3>1. x + 0 = x /\ y + 0 = y BY <2>3
    <3> QED BY <3>1, <2>1, <2>2, <1>3
  <2> HIDE DEF x, y
  <2> QED BY <2>3, <2>4, <2>5, <2>6, <1>3
<1>4. 0 % h = 0 OBVIOUS
<1> QED BY <1>2, <1>3, <1>4, Zenon

\* The matches of a rule found so far, one after the other.
HeadSize(k) == Len(k.query.head)

\* All of them are known and justified.
MatchList(k, s) ==
  /\ s \in Seq(Nat) /\ Len(s) % HeadSize(k) = 0
  /\ \A i \in DOMAIN s : Known(s[i])
  /\ \A o \in Nat : o % HeadSize(k) = 0 /\ o + HeadSize(k) <= Len(s) =>
       Justified(k, [p \in 1..HeadSize(k) |-> s[o+p]])

\* The head of a query has at least one variable.
LEMMA HeadNonempty ==
  ASSUME NEW i \in DOMAIN Kernels
  PROVE  /\ HeadSize(Kernels[i]) \in Nat \ {0}
         /\ DOMAIN Kernels[i].query.head = 1..HeadSize(Kernels[i])
<1>1. EP!IsQuery(Kernels[i].query) BY KernelsAssumption, SameQueries DEF IsKernel
<1> QED BY <1>1 DEF EP!IsQuery, HeadSize

\* Whether a match is justified depends on its ids alone.
LEMMA JustifiedIds ==
  ASSUME NEW i \in DOMAIN Kernels, NEW m, NEW r, Justified(Kernels[i], m),
         \A p \in 1..HeadSize(Kernels[i]) : r[p] = m[p]
  PROVE  Justified(Kernels[i], r)
BY HeadNonempty DEF Justified, Justifies

\* One more match.
LEMMA MatchAppended ==
  ASSUME NEW i \in DOMAIN Kernels, NEW s, MatchList(Kernels[i], s),
         NEW r \in Seq(Nat), Len(r) = HeadSize(Kernels[i]), Justified(Kernels[i], r)
  PROVE  MatchList(Kernels[i], s \o r)
<1> DEFINE k == Kernels[i]
           h == HeadSize(k)
           n == Len(s)
           t == s \o r
<1>0. h \in Nat \ {0} /\ DOMAIN k.query.head = 1..h BY HeadNonempty
<1>1. s \in Seq(Nat) /\ n \in Nat /\ n % h = 0 BY DEF MatchList
<1>2. \A p \in 1..h : Known(r[p]) BY <1>0 DEF Justified, Justifies
<1>3. \A p \in 1..n : Known(s[p]) BY <1>1 DEF MatchList
<1>4. \A o \in Nat : o % h = 0 /\ o + h <= n => Justified(k, [p \in 1..h |-> s[o+p]])
  BY DEF MatchList
<1>5. Len(r) = h /\ Justified(k, r) OBVIOUS
<1>6. (n + h) % h = 0 /\ \A o \in Nat : o % h = 0 /\ o < n => o + h <= n
  <2> HIDE DEF h, n
  <2>1. (n + h) % h = 0 BY <1>0, <1>1, MultiplesApart
  <2>2. \A o \in Nat : o % h = 0 /\ o < n => o + h <= n BY <1>0, <1>1, MultiplesApart, Zenon
  <2> QED BY <2>1, <2>2
<1> HIDE DEF h, n, k
<1>7. /\ t \in Seq(Nat) /\ Len(t) = n + h /\ DOMAIN t = 1..(n+h)
      /\ \A p \in 1..n : t[p] = s[p]
      /\ \A p \in 1..h : t[n+p] = r[p]
  <2>1. \A u, v \in Seq(Nat) :
          /\ u \o v \in Seq(Nat) /\ Len(u \o v) = Len(u) + Len(v)
          /\ DOMAIN (u \o v) = 1..(Len(u) + Len(v))
          /\ \A p \in 1..Len(u) : (u \o v)[p] = u[p]
          /\ \A p \in 1..Len(v) : (u \o v)[Len(u) + p] = v[p]
    OBVIOUS
  <2> QED BY <2>1, <1>1, <1>5, Zenon DEF n
<1> HIDE DEF t
<1>8. ASSUME NEW p \in 1..(n+h) PROVE Known(t[p])
  <2>1. CASE p <= n
    <3>1. p \in 1..n BY <1>1, <2>1
    <3> QED BY <3>1, <1>3, <1>7
  <2>2. CASE n < p
    <3>1. PICK q \in 1..h : p = n + q
      <4>1. p - n \in 1..h /\ p = n + (p - n) BY <1>0, <1>1, <2>2
      <4> QED BY <4>1
    <3> QED BY <3>1, <1>2, <1>7
  <2> QED BY <1>1, <2>1, <2>2
<1>9. ASSUME NEW o \in Nat, o % h = 0, o + h <= n + h
      PROVE  Justified(k, [p \in 1..h |-> t[o+p]])
  <2>1. CASE o < n
    <3>1. o + h <= n BY <1>6, <1>9, <2>1
    <3>2. \A p \in 1..h : t[o+p] = s[o+p]
      <4>1. \A p \in 1..h : o + p \in 1..n BY <3>1, <1>0, <1>1
      <4> QED BY <4>1, <1>7
    <3>3. Justified(k, [p \in 1..h |-> s[o+p]]) BY <3>1, <1>4, <1>9
    <3>4. \A p \in 1..h : [q \in 1..h |-> t[o+q]][p] = [q \in 1..h |-> s[o+q]][p] BY <3>2
    <3> DEFINE u == [q \in 1..h |-> t[o+q]]
               v == [q \in 1..h |-> s[o+q]]
    <3> HIDE DEF u, v
    <3>5. Justified(k, v) /\ \A p \in 1..h : u[p] = v[p] BY <3>3, <3>4 DEF u, v
    <3>6. Justified(k, u) BY <3>5, JustifiedIds DEF k, h
    <3> QED BY <3>6 DEF u
  <2>2. CASE ~(o < n)
    <3>1. o = n BY <1>0, <1>1, <1>9, <2>2
    <3> DEFINE u == [q \in 1..h |-> t[o+q]]
    <3>2. \A p \in 1..h : u[p] = r[p] BY <3>1, <1>7
    <3> HIDE DEF u
    <3>3. Justified(k, u) BY <3>2, <1>5, JustifiedIds DEF k, h
    <3> QED BY <3>3 DEF u
  <2> QED BY <2>1, <2>2
<1> QED BY <1>6, <1>7, <1>8, <1>9 DEF MatchList, h, t, k

\* Appending lists keeps to a set that each of them keeps to.
LEMMA AfterIn ==
  ASSUME NEW S, NEW found \in S, NEW more, EP!IsSequence(more),
         \A i \in DOMAIN more : \A s \in S : s \o more[i] \in S
  PROVE  After(found, more) \in S
<1> DEFINE n == Len(more)
           G == [k \in 1..n |-> [s \in S |-> s \o more[k]]]
           Joined(s) == s = [k \in 0..n |-> IF k = 0 THEN found ELSE s[k-1] \o more[k]]
           all == CHOOSE s : Joined(s)
<1>1. n \in Nat /\ DOMAIN more = 1..n BY DEF EP!IsSequence
<1>2. \A k \in 1..n : \A s \in S : G[k][s] = s \o more[k] /\ G[k][s] \in S BY <1>1
<1> HIDE DEF G, n
<1>3. PICK g : Iterates(n, found, G, g) BY <1>1, IteratesExist
<1>4. g \in [0..n -> S] BY <1>1, <1>2, <1>3, IteratesType
<1>5. Joined(g)
  <2>1. g = [k \in 0..n |-> IF k = 0 THEN found ELSE G[k][g[k-1]]] BY <1>3 DEF Iterates
  <2>2. \A k \in 0..n : k # 0 => k \in 1..n /\ g[k-1] \in S BY <1>1, <1>4
  <2>3. \A k \in 0..n : k # 0 => G[k][g[k-1]] = g[k-1] \o more[k] BY <2>2, <1>2, Zenon
  <2> QED BY <2>1, <2>3, Zenon
<1>6. Joined(all) BY <1>5, Zenon
<1>7. After(found, more) = all[n] BY DEF After, n
<1> HIDE DEF all
<1> DEFINE P == {k \in 0..n : all[k] \in S}
<1>8. 0 \in P BY <1>1, <1>6
<1>9. \A k \in 1..n : k - 1 \in P => k \in P
  <2> TAKE k \in 1..n
  <2>1. k - 1 \in 0..n /\ k \in 0..n /\ k # 0 BY <1>1
  <2>2. all[k] = all[k-1] \o more[k] BY <2>1, <1>6
  <2> QED BY <2>1, <2>2, <1>1
<1> HIDE DEF P
<1>10. n \in P BY <1>1, <1>8, <1>9, IntervalInduction
<1> QED BY <1>7, <1>10 DEF P
-----------------------------------------------------------------------------
\* add_enode returns an id with the value of the term.
LEMMA AddTermId ==
  ASSUME SoundInv, NEW op \in Ops, NEW args \in CallArgs(op), AddTerm(op, args)
  PROVE  IdAfter(op, args) \in Live' /\ val'[IdAfter(op, args)] = Value(op, args, val)
<1>0. /\ TypeOK /\ UF!IsPartition /\ Valued /\ ClassesHold /\ MemoHolds /\ MemoOK
      /\ args \in Args(op) /\ Len(rep) \in Nat
  BY PartitionFacts DEF SoundInv, Sound, TypeOK, CallArgs
<1>1. CASE Lookup(op, args) # {}
  <2> DEFINE e == ENode(op, CanonArgs(op, args))
  <2>1. e \in DOMAIN memo /\ Lookup(op, args) = {memo[e]} BY <1>1 DEF Lookup
  <2>2. IdAfter(op, args) = memo[e] BY <1>1, <2>1 DEF IdAfter
  <2>3. rep' = rep /\ val' = val BY <1>1 DEF AddTerm, AddEnode, store
  <2>4. e.op = op /\ e.args = CanonArgs(op, args) BY DEF ENode
  <2>5. memo[e] \in Live /\ Value(e.op, e.args, val) = val[memo[e]]
    BY <1>0, <2>1 DEF MemoOK, MemoHolds, Holds
  <2>6. Value(op, CanonArgs(op, args), val) = Value(op, args, val) BY <1>0, ValueCanon
  <2>7. Live' = Live BY <2>3 DEF Live
  <2> HIDE DEF e
  <2> QED BY <2>2, <2>3, <2>4, <2>5, <2>6, <2>7
<1>2. CASE Lookup(op, args) = {}
  <2> DEFINE d == Value(op, args, val)
  <2>1. IdAfter(op, args) = Len(rep) + 1 BY <1>2 DEF IdAfter
  <2>2. rep' = Append(rep, Len(rep) + 1) BY <1>2 DEF AddTerm, AddEnode, UF!MakeSet
  <2>3. Len(rep') = Len(rep) + 1
    <3>1. rep \in Seq(Ids) BY <1>0, PartitionFacts
    <3>2. \A T : \A u \in Seq(T) : \A x : Len(Append(u, x)) = Len(u) + 1 OBVIOUS
    <3> QED BY <3>1, <3>2, <2>2
  <2>4. rep' # rep BY <2>3, <1>0
  <2>5. val' = Append(val, d) BY <2>4 DEF AddTerm
  <2>6. d \in Dom BY <1>0, ValueType
  <2> HIDE DEF d
  <2>7. val'[Len(val) + 1] = d BY <2>5, <2>6, <1>0 DEF Valued
  <2>8. Len(rep) + 1 \in Live' BY <2>3, <1>0 DEF Live
  <2> QED BY <2>1, <2>7, <2>8, <1>0 DEF Valued, d
<1> QED BY <1>1, <1>2

\* The children of a call are children add_enode may be called with, and the value
\* of the new term is that of the operator on their values.
LEMMA CallValue ==
  ASSUME SoundInv, NEW op \in Ops, NEW n \in Nat, NEW f \in [1..n -> Live],
         op \in RowOps => n = Arity[op],
         op \in AcOps => Count(f) \in AcArgs
  PROVE  /\ Children(op, f) \in CallArgs(op)
         /\ Value(op, Children(op, f), val) = Apply(op, [i \in 1..n |-> val[f[i]]])
<1>0. /\ UF!IsPartition /\ Valued /\ val \in Seq(Dom) /\ Len(val) = Len(rep) /\ Len(val) <= MaxIds
  BY PartitionFacts DEF SoundInv, TypeOK, Valued
<1> DEFINE d == [i \in 1..n |-> val[f[i]]]
<1>1. CASE op \in AcOps
  <2>1. Count(f) = CountIn(f, 1..n) BY DEF Count, CountIn
  <2>2. Count(f) \in Mset BY <1>1, BoundsAssumption
  <2>3. ASSUME NEW x \in Ids, Count(f)[x] > 0 PROVE x \in Live
    <3> DEFINE S == {i \in 1..n : f[i] = x}
    <3>1. Count(f)[x] = Cardinality(S) BY <2>1 DEF CountIn
    <3>2. S # {}
      <4> SUFFICES ASSUME S = {} PROVE FALSE OBVIOUS
      <4>1. Cardinality(S) = 0 BY FS_EmptySet
      <4> HIDE DEF S
      <4> QED BY <4>1, <3>1, <2>3
    <3> QED BY <3>2
  <2>4. Children(op, f) = Count(f) BY <1>1 DEF Children
  <2>5. Children(op, f) \in CallArgs(op) BY <1>1, <2>2, <2>3, <2>4 DEF CallArgs, Args
  <2>6. /\ d \in Seq(Dom) /\ Len(d) = n
        /\ \A i \in 1..n : f[0+i] \in 1..Len(val) /\ d[i] = val[f[0+i]]
    <3>1. \A i \in 1..n : f[i] \in 1..Len(val) BY <1>0 DEF Live
    <3>2. \A i \in 1..n : val[f[i]] \in Dom BY <3>1, <1>0
    <3>3. d \in [1..n -> Dom] /\ \A i \in 1..n : d[i] = val[f[i]] BY <3>2
    <3> HIDE DEF d
    <3>4. \A i \in 1..n : 0 + i = i OBVIOUS
    <3> QED BY <3>1, <3>3, <3>4
  <2> HIDE DEF d
  <2>7. Sum(op, CountIn(f, (0+1)..(0+n)), val) = Apply(op, d)
    <3> DEFINE o == 0
    <3>1. o \in Nat OBVIOUS
    <3>2. ValuesAt(f, o, d, val) BY <2>6 DEF ValuesAt
    <3> HIDE DEF o
    <3>4. Sum(op, CountIn(f, (o+1)..(o+Len(d))), val) = Apply(op, d)
      <4>1. val \in Seq(Dom) /\ Len(val) <= MaxIds BY <1>0
      <4>2. d \in Seq(Dom) BY <2>6
      <4>3. op \in AcOps /\ o \in Nat BY <1>1, <3>1
      <4> QED BY <4>1, <4>2, <4>3, <3>2, ValueOfCounts
    <3> QED BY <3>4, <2>6 DEF o
  <2>8. (0+1)..(0+n) = 1..n OBVIOUS
  <2>9. Value(op, Children(op, f), val) = Apply(op, d)
    BY <1>1, <2>1, <2>4, <2>7, <2>8 DEF Value
  <2> QED BY <2>5, <2>9 DEF d
<1>2. CASE op \notin AcOps
  <2>1. op \in RowOps /\ n = Arity[op] BY <1>2 DEF Ops
  <2>2. Children(op, f) = f BY <1>2 DEF Children
  <2>3. f \in CallArgs(op) BY <1>2, <2>1 DEF CallArgs, Args
  <2>4. Value(op, f, val) = Apply(op, d) BY <1>2, <2>1 DEF Value, Apply
  <2> QED BY <2>2, <2>3, <2>4
<1> QED BY <1>1, <1>2
-----------------------------------------------------------------------------
\* The e-graph is at rest while matches are looked for or applied.
StageOK ==
  /\ stage \in {"idle", "match", "apply", "first", "second"}
  /\ stage \in {"match", "apply"} => phase = "idle"

\* The engine runs on the e-graph as it was when the indices were filled, which
\* is as it still is.
SearchOK ==
  /\ EP!EphemeralOK
  /\ IF stage = "match" THEN db = Snapshot /\ EP!FoundInv ELSE mode = "idle" /\ level = 0

\* All that was found is justified.
FoundOK ==
  /\ stage = "idle" => matches = << >>
  /\ stage # "idle" =>
       /\ DOMAIN matches = Names
       /\ \A i \in DOMAIN Kernels : MatchList(Kernels[i], matches[Kernels[i].name])

\* The subterms of the right side built so far have the values they have in the
\* algebra.
BuiltValues == [j \in DOMAIN built |-> val[built[j]]]
Instantiated(sigma) ==
  \A j \in DOMAIN built :
    LET call == subst.calls[j]
    IN  BuiltValues[j] =
          Apply(call.op, [i \in DOMAIN call.refs |->
                            RefValue(subst, call.refs[i], sigma, BuiltValues)])

\* The match that is applied is justified, and goes on being so while its
\* ephemeral ids are materialized and the right side is built.
ApplyOK ==
  /\ left \subseteq Names
  /\ rule # 0 => /\ stage = "apply" /\ rule \in DOMAIN Kernels
                 /\ offset \in Nat /\ offset % HeadSize(subst) = 0
  /\ match # << >> =>
       /\ rule # 0
       /\ match \in Seq(Nat) /\ Len(match) = HeadSize(subst)
       /\ built \in Seq(Live) /\ Len(built) <= Len(subst.calls)
       /\ \E sigma \in [1..subst.query.nvars -> Dom] :
            Justifies(subst, match, sigma) /\ Instantiated(sigma)

\* The inductive invariant.
SatInv == SoundInv /\ AcFinite /\ StageOK /\ SearchOK /\ FoundOK /\ ApplyOK

\* A reference of the right side is to an id with its value.
LEMMA RefFacts ==
  ASSUME SatInv, Materialized, NEW sigma, Justifies(subst, match, sigma),
         NEW ref, RefOK(subst, ref, Len(built))
  PROVE  /\ IdOf(ref) \in Live
         /\ val[IdOf(ref)] = RefValue(subst, ref, sigma, BuiltValues)
<1>1. /\ match # << >> /\ \A p \in DOMAIN match : ~IsEphemeral(match[p])
      /\ rule \in DOMAIN Kernels /\ match \in Seq(Nat) /\ Len(match) = HeadSize(subst)
      /\ built \in Seq(Live)
  BY DEF SatInv, ApplyOK, Materialized
<1>2. /\ DOMAIN subst.query.head = 1..HeadSize(subst) /\ DOMAIN match = 1..HeadSize(subst)
      /\ IsKernel(subst)
  BY <1>1, HeadNonempty, KernelsAssumption DEF subst
<1>3. CASE "call" \in DOMAIN ref
  <2>1. ref.call \in 1..Len(built) BY <1>3 DEF RefOK
  <2>2. DOMAIN built = 1..Len(built) /\ \A j \in 1..Len(built) : built[j] \in Live BY <1>1
  <2> QED BY <1>3, <2>1, <2>2 DEF IdOf, RefValue, BuiltValues
<1>4. CASE "call" \notin DOMAIN ref
  <2> DEFINE p == subst.env[ref.var]
  <2>1. ref.var \in DOMAIN subst.env BY <1>4 DEF RefOK
  <2>2. p \in DOMAIN subst.query.head BY <2>1, <1>2 DEF IsKernel
  <2>3. Known(match[p]) /\ IdValue(match[p]) = sigma[subst.query.head[p]]
    BY <2>2 DEF Justifies
  <2>4. ~IsEphemeral(match[p]) BY <2>2, <1>1, <1>2
  <2>5. match[p] \in Live BY <2>3, <2>4 DEF Known
  <2>6. IdOf(ref) = match[p] BY <1>4, <2>1 DEF IdOf, Position
  <2>7. RefValue(subst, ref, sigma, BuiltValues) = sigma[subst.query.head[p]]
    BY <1>4 DEF RefValue
  <2> QED BY <2>3, <2>5, <2>6, <2>7 DEF IdValue
<1> QED BY <1>3, <1>4

\* The e-node behind an ephemeral id may be added.
LEMMA MaterializeCall ==
  ASSUME SatInv, NEW p \in DOMAIN match, IsEphemeral(match[p])
  PROVE  LET e == ephemeral[match[p] - MaxIds]
         IN  /\ e.op \in Ops /\ e.args \in CallArgs(e.op)
             /\ IdValue(match[p]) = Value(e.op, e.args, val)
<1>1. match # << >>
  <2> SUFFICES ASSUME match = << >> PROVE FALSE OBVIOUS
  <2> QED OBVIOUS
<1>2. PICK sigma : Justifies(subst, match, sigma) BY <1>1 DEF SatInv, ApplyOK
<1>3. /\ rule \in DOMAIN Kernels /\ DOMAIN match = 1..HeadSize(subst) BY <1>1 DEF SatInv, ApplyOK
<1>4. p \in DOMAIN subst.query.head BY <1>3, HeadNonempty DEF subst
<1>5. Known(match[p]) BY <1>2, <1>4 DEF Justifies
<1>6. match[p] \notin Live
  <2>1. Len(rep) \in Nat /\ Len(rep) <= MaxIds BY PartitionFacts DEF SatInv, SoundInv, TypeOK
  <2> QED BY <2>1, MaxIdsAssumption DEF IsEphemeral, Live
<1> QED BY <1>5, <1>6 DEF Known, IdValue, Ops

\* The next call of add_enode on the right side.
Call == subst.calls[Len(built) + 1]
CallIds == [i \in DOMAIN Call.refs |-> IdOf(Call.refs[i])]

\* It may be made, and the new term gets the value that the algebra gives it.
LEMMA InstantiateCall ==
  ASSUME SatInv, Materialized, Len(built) < Len(subst.calls),
         NEW sigma, Justifies(subst, match, sigma)
  PROVE  /\ Call.op \in Ops /\ Children(Call.op, CallIds) \in CallArgs(Call.op)
         /\ Value(Call.op, Children(Call.op, CallIds), val) =
              Apply(Call.op, [i \in DOMAIN Call.refs |->
                                RefValue(subst, Call.refs[i], sigma, BuiltValues)])
<1> DEFINE j == Len(built) + 1
           n == Len(Call.refs)
           f == CallIds
           op == Call.op
<1>1. /\ rule \in DOMAIN Kernels /\ built \in Seq(Live) /\ Len(built) \in Nat
      /\ IsKernel(subst) /\ SoundInv
  BY KernelsAssumption DEF SatInv, ApplyOK, Materialized, subst
<1>2. j \in DOMAIN subst.calls /\ j - 1 = Len(built)
  <2>1. subst.calls \in Seq({subst.calls[i] : i \in DOMAIN subst.calls}) BY <1>1 DEF IsKernel
  <2> QED BY <2>1, <1>1
<1>3. /\ op \in Ops
      /\ Call.refs \in Seq({Call.refs[i] : i \in DOMAIN Call.refs})
      /\ op \in RowOps => n = Arity[op]
      /\ \A i \in DOMAIN Call.refs : RefOK(subst, Call.refs[i], j - 1)
  BY <1>1, <1>2 DEF IsKernel, Call
<1>4. n \in Nat /\ DOMAIN Call.refs = 1..n BY <1>3
<1>5. \A i \in 1..n : RefOK(subst, Call.refs[i], Len(built)) BY <1>2, <1>3, <1>4
<1>6. \A i \in 1..n : /\ IdOf(Call.refs[i]) \in Live
                      /\ val[IdOf(Call.refs[i])] = RefValue(subst, Call.refs[i], sigma, BuiltValues)
  BY <1>5, RefFacts
<1>7. f = [i \in 1..n |-> IdOf(Call.refs[i])] BY <1>4 DEF CallIds
<1>8. f \in [1..n -> Live] BY <1>6, <1>7
<1>9. op \in AcOps => Count(f) \in AcArgs
  <2>1. Live \subseteq Ids BY <1>1, PartitionFacts DEF SoundInv, TypeOK
  <2>2. f \in [1..n -> Ids] BY <1>8, <2>1
  <2>3. op \in AcOps => \A s \in [1..n -> Ids] : Count(s) \in AcArgs
    BY <1>1, <1>2, AcArgsAssumption DEF subst, Call
  <2> QED BY <2>2, <2>3
<1>10. [i \in 1..n |-> val[f[i]]] =
         [i \in 1..n |-> RefValue(subst, Call.refs[i], sigma, BuiltValues)]
  BY <1>6, <1>7
<1> HIDE DEF f, n, op
<1>11. /\ Children(op, f) \in CallArgs(op)
       /\ Value(op, Children(op, f), val) = Apply(op, [i \in 1..n |-> val[f[i]]])
  BY <1>1, <1>3, <1>4, <1>8, <1>9, CallValue
<1> QED BY <1>3, <1>4, <1>10, <1>11 DEF f, op, n

\* At the end both sides of the rule have one value.
LEMMA SidesEqual ==
  ASSUME SatInv, Materialized, Len(built) = Len(subst.calls)
  PROVE  /\ match[Len(match)] \in Live /\ IdOf(subst.root) \in Live
         /\ val[match[Len(match)]] = val[IdOf(subst.root)]
<1> DEFINE w == BuiltValues
           h == HeadSize(subst)
<1>1. /\ rule \in DOMAIN Kernels /\ built \in Seq(Live) /\ Len(built) \in Nat
      /\ IsKernel(subst) /\ Len(match) = h /\ match \in Seq(Nat)
      /\ \A p \in DOMAIN match : ~IsEphemeral(match[p])
      /\ UF!IsPartition /\ Valued
  BY KernelsAssumption DEF SatInv, SoundInv, TypeOK, ApplyOK, Materialized, subst
<1>2. PICK sigma \in [1..subst.query.nvars -> Dom] :
        Justifies(subst, match, sigma) /\ Instantiated(sigma)
  BY DEF SatInv, ApplyOK, Materialized
<1>3. h \in Nat \ {0} /\ DOMAIN subst.query.head = 1..h /\ DOMAIN match = 1..h
  BY <1>1, HeadNonempty DEF subst
<1>4. h \in 1..h BY <1>3
<1>5. Known(match[h]) /\ IdValue(match[h]) = sigma[subst.query.head[h]]
  BY <1>2, <1>3, <1>4 DEF Justifies
<1>6. match[h] \in Live /\ val[match[h]] = sigma[subst.query.head[h]]
  <2>1. ~IsEphemeral(match[h]) BY <1>1, <1>3, <1>4
  <2> QED BY <2>1, <1>5 DEF Known, IdValue
<1>7. RefOK(subst, subst.root, Len(built)) BY <1>1 DEF IsKernel
<1>8. /\ IdOf(subst.root) \in Live
      /\ val[IdOf(subst.root)] = RefValue(subst, subst.root, sigma, w)
  BY <1>2, <1>7, RefFacts
<1>9. DOMAIN subst.calls = 1..Len(built) /\ DOMAIN built = 1..Len(built)
  <2>1. subst.calls \in Seq({subst.calls[i] : i \in DOMAIN subst.calls}) BY <1>1 DEF IsKernel
  <2> QED BY <2>1, <1>1
<1>10. w \in [DOMAIN subst.calls -> Dom]
  <2>1. \A j \in DOMAIN built : val[built[j]] \in Dom
    <3>1. \A j \in DOMAIN built : built[j] \in Live BY <1>1
    <3> QED BY <3>1, <1>1 DEF Valued, Live
  <2> QED BY <2>1, <1>9 DEF BuiltValues
<1> HIDE DEF w, h
<1>11. Fitting(subst, sigma, w)
  BY <1>2, <1>9 DEF Fitting, Justifies, Instantiated, w
<1>12. RefValue(subst, subst.root, sigma, w) = sigma[subst.query.head[Len(subst.query.head)]]
  BY <1>1, <1>2, <1>10, <1>11, RulesHold DEF subst
<1> QED BY <1>1, <1>6, <1>8, <1>12 DEF h, HeadSize

\* Every step is one that EGraphSoundness allows its caller.
LEMMA StepSound == SatInv /\ [SatNext]_<<vars, val, own>> => [SoundNext]_<<vars, val>>
<1> SUFFICES ASSUME SatInv, [SatNext]_<<vars, val, own>> PROVE [SoundNext]_<<vars, val>>
  OBVIOUS
<1>1. ASSUME NEW op \in Ops, NEW args \in CallArgs(op), AddTerm(op, args) PROVE SoundNext
  BY <1>1 DEF SoundNext, AddTerm
<1>2. CASE Setup BY <1>1, <1>2 DEF Setup, AddExpr, CallUnify, CallRebuild, SoundNext
<1>3. CASE Saturate \/ Match \/ BeginApply \/ ApplyMatches \/ ApplyMatch \/ MatchesApplied
           \/ NextIteration \/ Return \/ UNCHANGED <<vars, val, own>>
  BY <1>3 DEF Saturate, Match, BeginApply, ApplyMatches, ApplyMatch, MatchesApplied,
              NextIteration, Return
<1>4. CASE Materialize
  <2>1. PICK p \in DOMAIN match :
          /\ IsEphemeral(match[p])
          /\ LET e == ephemeral[match[p] - MaxIds] IN AddTerm(e.op, e.args)
    BY <1>4 DEF Materialize
  <2> DEFINE e == ephemeral[match[p] - MaxIds]
  <2>2. e.op \in Ops /\ e.args \in CallArgs(e.op) /\ AddTerm(e.op, e.args)
    BY <2>1, MaterializeCall
  <2> HIDE DEF e
  <2> QED BY <2>2, <1>1
<1>5. CASE Instantiate
  <2>1. Materialized /\ Len(built) < Len(subst.calls) /\ AddTerm(Call.op, Children(Call.op, CallIds))
    BY <1>5 DEF Instantiate, Call, CallIds
  <2>2. PICK sigma : Justifies(subst, match, sigma) BY <2>1 DEF SatInv, ApplyOK, Materialized
  <2>3. Call.op \in Ops /\ Children(Call.op, CallIds) \in CallArgs(Call.op)
    BY <2>1, <2>2, InstantiateCall
  <2> QED BY <2>1, <2>3, <1>1
<1>6. CASE UnifySides
  <2>1. /\ Materialized /\ Len(built) = Len(subst.calls)
        /\ Unify(match[Len(match)], IdOf(subst.root)) /\ val' = val
    BY <1>6 DEF UnifySides
  <2>2. /\ match[Len(match)] \in Live /\ IdOf(subst.root) \in Live
        /\ val[match[Len(match)]] = val[IdOf(subst.root)]
    BY <2>1, SidesEqual
  <2> QED BY <2>1, <2>2 DEF SoundNext
<1>7. CASE FirstRebuild \/ SecondRebuild \/ InRebuild
  BY <1>7 DEF FirstRebuild, SecondRebuild, InRebuild, SoundNext
<1> QED BY <1>2, <1>3, <1>4, <1>5, <1>6, <1>7 DEF SatNext, SaturateStep
-----------------------------------------------------------------------------
\* What the engine does not change, and what it hands out.
LEMMA EngineKeeps ==
  ASSUME E!Next, EP!EphemeralOK
  PROVE  /\ db' = db /\ NodesKept
         /\ queries' = queries \/ (queries' = Tail(queries) /\ mode' = "idle" /\ mode = "loop")
         /\ queries' # queries => results' = results
<1>1. ephemeral' = ephemeral \/ \E e : ephemeral' = Append(ephemeral, e)
  BY DEF E!Next, E!Execute, E!Intersect, E!Descend, E!Report, E!Unselect, E!Exhausted
<1>2. NodesKept
  <2>1. PICK T : ephemeral \in Seq(T) BY DEF EP!EphemeralOK
  <2>2. \A U : \A s \in Seq(U) : \A x : \A j \in DOMAIN s :
          j \in DOMAIN Append(s, x) /\ Append(s, x)[j] = s[j]
    OBVIOUS
  <2> QED BY <1>1, <2>1, <2>2 DEF NodesKept
<1>3. /\ db' = db
      /\ queries' = queries \/ (queries' = Tail(queries) /\ mode' = "idle" /\ mode = "loop")
      /\ queries' # queries => results' = results
  BY DEF E!Next, E!Execute, E!Intersect, E!Descend, E!Report, E!Unselect, E!Exhausted
<1> QED BY <1>2, <1>3

\* In every step the values are kept, and what ephemeral ids stand for.
LEMMA StepKeeps ==
  SatInv /\ [SatNext]_<<vars, val, own>> =>
    SoundInv' /\ AcFinite' /\ ValuesKept /\ NodesKept
<1> SUFFICES ASSUME SatInv, [SatNext]_<<vars, val, own>>
             PROVE  SoundInv' /\ AcFinite' /\ ValuesKept /\ NodesKept
  OBVIOUS
<1>1. [SoundNext]_<<vars, val>> BY StepSound
<1>2. SoundInv' /\ ValuesKept BY <1>1, CallsKeep DEF SatInv
<1>3. [Next]_vars BY <1>1 DEF SoundNext, Next
<1>4. AcFinite' BY <1>3, AcFiniteStep DEF SatInv, SoundInv
<1>5. NodesKept
  <2>1. CASE Match BY <2>1, EngineKeeps DEF Match, SatInv, SearchOK
  <2>2. CASE ephemeral' = ephemeral BY <2>2 DEF NodesKept
  <2> QED BY <2>1, <2>2 DEF SatNext, SaturateStep, Setup, Saturate, BeginApply, ApplyMatches,
             ApplyMatch, Materialize, Instantiate, UnifySides, MatchesApplied, FirstRebuild,
             SecondRebuild, InRebuild, NextIteration, Return, own, engine
<1> QED BY <1>2, <1>4, <1>5

\* Matches found stay justified.
LEMMA ListKept ==
  ASSUME UF!IsPartition', ValuesKept, NodesKept, NEW k, NEW s, MatchList(k, s)
  PROVE  MatchList(k, s)'
<1>1. \A i \in DOMAIN s : Known(s[i])'
  <2>1. \A id : Known(id) => Known(id)' BY KnownKept
  <2> QED BY <2>1 DEF MatchList
<1>2. \A o \in Nat : o % HeadSize(k) = 0 /\ o + HeadSize(k) <= Len(s) =>
        Justified(k, [p \in 1..HeadSize(k) |-> s[o+p]])'
  <2>1. \A m : Justified(k, m) => Justified(k, m)' BY JustifiedKept
  <2> QED BY <2>1, Zenon DEF MatchList
<1> QED BY <1>1, <1>2 DEF MatchList

\* The e-graph is at rest when a match is looked for or applied.
LEMMA StageKept == SatInv /\ [SatNext]_<<vars, val, own>> => StageOK'
<1> SUFFICES ASSUME SatInv, [SatNext]_<<vars, val, own>> PROVE StageOK' OBVIOUS
<1>0. StageOK BY DEF SatInv
<1>1. CASE Setup BY <1>0, <1>1 DEF Setup, Idle, StageOK
<1>2. CASE Saturate \/ NextIteration
  BY <1>0, <1>2 DEF Saturate, Idle, NextIteration, BeginIteration, IterationDone, StageOK, vars
<1>3. CASE Match \/ BeginApply \/ ApplyMatches \/ ApplyMatch \/ MatchesApplied
           \/ UNCHANGED <<vars, val, own>>
  BY <1>0, <1>3 DEF Match, BeginApply, ApplyMatches, ApplyMatch, MatchesApplied, StageOK, vars, own
<1>4. CASE Materialize BY <1>0, <1>4 DEF Materialize, AddTerm, AddEnode, StageOK
<1>5. CASE Instantiate BY <1>0, <1>5 DEF Instantiate, AddTerm, AddEnode, StageOK
<1>6. CASE UnifySides BY <1>0, <1>6 DEF UnifySides, Unify, StageOK
<1>7. CASE FirstRebuild \/ SecondRebuild \/ InRebuild
  BY <1>0, <1>7 DEF FirstRebuild, SecondRebuild, InRebuild, StageOK, own
<1>8. CASE Return BY <1>0, <1>8 DEF Return, IterationDone, StageOK, vars
<1> QED BY <1>1, <1>2, <1>3, <1>4, <1>5, <1>6, <1>7, <1>8 DEF SatNext, SaturateStep

\* Before the first query of an iteration the engine's invariant holds.
LEMMA SearchBegins ==
  TypeOK /\ AcFinite /\ db = Snapshot /\ queries = AllQueries /\ mode = "idle" /\ level = 0
    /\ EP!EphemeralOK => EP!FoundInv
<1> SUFFICES ASSUME TypeOK, AcFinite, db = Snapshot, queries = AllQueries, mode = "idle",
                    level = 0, EP!EphemeralOK
             PROVE  EP!FoundInv
  OBVIOUS
<1>1. EP!IsDatabase(db) BY SnapshotDatabase
<1>2. AllQueries \in Seq({AllQueries[i] : i \in DOMAIN AllQueries})
  BY EngineAssumed DEF EP!EngineAssumption
<1>3. EP!SearchInv
  BY <1>1, <1>2 DEF EP!SearchInv, EP!TypeOK, EP!QueriesLeft, EP!IndicesTrackBindings
<1>4. EP!Remaining
  <2> DEFINE T == {AllQueries[i] : i \in DOMAIN AllQueries}
  <2>1. AllQueries \in Seq(T) BY <1>2
  <2> HIDE DEF T
  <2>2. 0 \in 0..Len(AllQueries) /\ SubSeq(AllQueries, 0 + 1, Len(AllQueries)) = AllQueries
    BY <2>1
  <2> QED BY <2>2 DEF EP!Remaining
<1>5. EP!ResultsMatch BY DEF EP!ResultsMatch
<1> QED BY <1>3, <1>4, <1>5 DEF EP!FoundInv

\* The engine runs on the e-graph as it is.
LEMMA SearchKept == SatInv /\ [SatNext]_<<vars, val, own>> => SearchOK'
<1> SUFFICES ASSUME SatInv, [SatNext]_<<vars, val, own>> PROVE SearchOK' OBVIOUS
<1>0. SearchOK /\ SoundInv /\ AcFinite /\ SoundInv' /\ AcFinite'
  BY StepKeeps DEF SatInv
<1>1. ephemeral' = ephemeral => EP!EphemeralOK' BY <1>0 DEF SearchOK, EP!EphemeralOK, EP!Ids
<1>2. UNCHANGED vars => Snapshot' = Snapshot BY DEF vars, Snapshot, Live
<1>3. CASE Match
  <2>1. E!Next /\ stage = "match" /\ stage' = "match" /\ UNCHANGED vars BY <1>3 DEF Match
  <2>2. db' = db BY <2>1, <1>0, EngineKeeps DEF SearchOK
  <2>3. EP!FoundInv /\ db = Snapshot BY <2>1, <1>0 DEF SearchOK
  <2>4. EP!FoundInv' BY <2>1, <2>3, Found
  <2>5. EP!EphemeralOK' BY <2>4 DEF EP!FoundInv
  <2> QED BY <2>1, <2>2, <2>3, <2>4, <2>5, <1>2 DEF SearchOK
<1>4. CASE Saturate \/ NextIteration
  <2>1. /\ UNCHANGED vars /\ mode' = mode /\ level' = level /\ ephemeral' = ephemeral
        /\ stage # "match" /\ stage' = "match" /\ db' = Snapshot /\ queries' = AllQueries
    BY <1>4 DEF Saturate, Idle, NextIteration, BeginIteration, IterationDone
  <2>2. db' = Snapshot' BY <2>1, <1>2
  <2>3. mode' = "idle" /\ level' = 0 /\ EP!EphemeralOK' BY <2>1, <1>0, <1>1 DEF SearchOK
  <2>4. TypeOK' /\ AcFinite' BY <1>0 DEF SoundInv
  <2>5. queries' = AllQueries' BY <2>1 DEF AllQueries
  <2>6. (TypeOK /\ AcFinite /\ db = Snapshot /\ queries = AllQueries /\ mode = "idle" /\ level = 0
          /\ EP!EphemeralOK => EP!FoundInv)'
    BY SearchBegins, PTL
  <2>7. EP!FoundInv' BY <2>2, <2>3, <2>4, <2>5, <2>6
  <2> QED BY <2>1, <2>2, <2>3, <2>7 DEF SearchOK
<1>5. CASE BeginApply
  <2>1. /\ stage = "match" /\ stage' = "apply" /\ mode = "idle" /\ mode' = mode /\ level' = level
        /\ ephemeral' = ephemeral
    BY <1>5 DEF BeginApply, engine
  <2>2. level = 0 BY <2>1, <1>0 DEF SearchOK, EP!FoundInv, EP!SearchInv
  <2> QED BY <2>1, <2>2, <1>1 DEF SearchOK
<1>6. CASE /\ mode' = mode /\ level' = level /\ ephemeral' = ephemeral
           /\ stage # "match" /\ stage' # "match"
  BY <1>0, <1>1, <1>6 DEF SearchOK
<1>7. CASE UNCHANGED <<vars, val, own>>
  <2>1. CASE stage = "match"
    <3>1. UNCHANGED (EP!vars) BY <1>7 DEF own, engine, EP!vars
    <3>2. EP!FoundInv' BY <3>1, <2>1, <1>0, Found DEF SearchOK
    <3> QED BY <2>1, <3>2, <1>0, <1>1, <1>2, <1>7 DEF SearchOK, own, engine
  <2> QED BY <2>1, <1>6, <1>7 DEF own, engine
<1>8. CASE Setup \/ ApplyMatches \/ ApplyMatch \/ Materialize \/ Instantiate \/ UnifySides
           \/ MatchesApplied \/ FirstRebuild \/ SecondRebuild \/ InRebuild \/ Return
  <2>1. CASE Setup BY <2>1, <1>6 DEF Setup, Idle, engine
  <2>2. CASE ApplyMatches \/ ApplyMatch \/ MatchesApplied
    BY <2>2, <1>6 DEF ApplyMatches, ApplyMatch, MatchesApplied, engine
  <2>3. CASE Materialize \/ Instantiate \/ UnifySides
    <3>1. match # << >>
      <4>1. \A p : p \in DOMAIN match => match # << >> OBVIOUS
      <4> QED BY <4>1, <2>3 DEF Materialize, Instantiate, UnifySides, Materialized
    <3>2. stage = "apply" BY <3>1 DEF SatInv, ApplyOK
    <3> QED BY <3>2, <2>3, <1>6 DEF Materialize, Instantiate, UnifySides, engine
  <2>4. CASE FirstRebuild \/ SecondRebuild \/ InRebuild \/ Return
    BY <2>4, <1>6 DEF FirstRebuild, SecondRebuild, InRebuild, Return, IterationDone, own, engine
  <2> QED BY <1>8, <2>1, <2>2, <2>3, <2>4
<1> QED BY <1>3, <1>4, <1>5, <1>7, <1>8 DEF SatNext, SaturateStep

\* Names are those of one rule each.
LEMMA NamesUnique ==
  ASSUME NEW i \in DOMAIN Kernels
  PROVE  SubstNamed(Kernels[i].name) = i
<1> DEFINE Leads(n) == /\ Kernels[n].name = Kernels[i].name
                       /\ \A j \in 1..(n-1) : Kernels[j].name # Kernels[i].name
<1>1. /\ Kernels \in Seq({Kernels[j] : j \in DOMAIN Kernels})
      /\ \A a, b \in DOMAIN Kernels : Kernels[a].name = Kernels[b].name => a = b
  BY KernelsAssumption
<1>2. PICK L \in Nat : DOMAIN Kernels = 1..L BY <1>1
<1>3. Leads(i)
  <2> SUFFICES ASSUME NEW j \in 1..(i-1) PROVE Kernels[j].name # Kernels[i].name OBVIOUS
  <2>1. j \in 1..L /\ j # i BY <1>2
  <2> QED BY <2>1, <1>1, <1>2
<1>4. \A n \in DOMAIN Kernels : Leads(n) => n = i BY <1>1
<1> HIDE DEF Leads
<1>5. (CHOOSE n \in DOMAIN Kernels : Leads(n)) = i BY <1>3, <1>4
<1> QED BY <1>5 DEF SubstNamed, Leads

\* Lists of matches stay so when what a query found is put behind them.
AppendsMatches ==
  \A i \in DOMAIN Kernels : \A s, more :
    /\ MatchList(Kernels[i], s) /\ EP!IsSequence(more)
    /\ \A n \in DOMAIN more : EP!IsMatch(Kernels[i].query, more[n])
    => MatchList(Kernels[i], After(s, more))

\* What a query found is justified.
LEMMA ResultsJustified ==
  SoundInv /\ AcFinite /\ phase = "idle" /\ db = Snapshot /\ EP!EphemeralOK => AppendsMatches
<1> SUFFICES ASSUME SoundInv, AcFinite, phase = "idle", db = Snapshot, EP!EphemeralOK,
                    NEW i \in DOMAIN Kernels, NEW s, NEW more,
                    MatchList(Kernels[i], s), EP!IsSequence(more),
                    \A n \in DOMAIN more : EP!IsMatch(Kernels[i].query, more[n])
             PROVE  MatchList(Kernels[i], After(s, more))
  BY DEF AppendsMatches
<1> DEFINE S == {u \in Seq(Nat) : MatchList(Kernels[i], u)}
<1>1. s \in S BY DEF MatchList
<1>2. ASSUME NEW n \in DOMAIN more, NEW u \in S PROVE u \o more[n] \in S
  <2> DEFINE r == more[n]
  <2>1. /\ Justified(Kernels[i], r) /\ r \in Seq(Nat) /\ Len(r) = HeadSize(Kernels[i])
    BY MatchJustified DEF HeadSize
  <2> HIDE DEF r
  <2>2. MatchList(Kernels[i], u \o r) BY <2>1, MatchAppended
  <2>3. u \o r \in Seq(Nat) BY <2>2 DEF MatchList
  <2> QED BY <2>2, <2>3 DEF r
<1> HIDE DEF S
<1>3. After(s, more) \in S BY <1>1, <1>2, AfterIn
<1> QED BY <1>3 DEF S

\* No match yet.
LEMMA NoMatches == \A i \in DOMAIN Kernels : MatchList(Kernels[i], << >>)
<1> SUFFICES ASSUME NEW i \in DOMAIN Kernels PROVE MatchList(Kernels[i], << >>) OBVIOUS
<1> DEFINE h == HeadSize(Kernels[i])
<1>1. h \in Nat \ {0} BY HeadNonempty
<1> HIDE DEF h
<1>2. 0 % h = 0 BY <1>1, MultiplesApart
<1>3. \A o \in Nat : ~(o + h <= 0) BY <1>1
<1> QED BY <1>2, <1>3 DEF MatchList, h

\* At the end of a query what it found goes behind what its rule has.
LEMMA MatchFinds ==
  ASSUME SatInv, Match, SoundInv', AcFinite', ValuesKept, NodesKept, StageOK', SearchOK'
  PROVE  FoundOK'
<1>0. /\ stage = "match" /\ E!Next /\ stage' = stage /\ UNCHANGED <<vars, val>>
      /\ FoundOK /\ SearchOK /\ UF!IsPartition' /\ phase = "idle"
  BY DEF Match, SatInv, SoundInv, TypeOK, StageOK
<1>1. \A i \in DOMAIN Kernels : MatchList(Kernels[i], matches[Kernels[i].name])'
          \/ matches' # matches
  <2>1. \A k, s : MatchList(k, s) => MatchList(k, s)' BY <1>0, ListKept
  <2> QED BY <2>1, <1>0 DEF FoundOK
<1>2. CASE queries' = queries
  BY <1>0, <1>1, <1>2 DEF FoundOK, Match
<1>3. CASE queries' # queries
  <2>0. PICK n : n = Len(Kernels) - Len(queries) + 1 OBVIOUS
  <2>1. /\ queries' = Tail(queries) /\ mode' = "idle" /\ mode = "loop" /\ results' = results
    BY <1>0, <1>3, EngineKeeps DEF SearchOK
  <2>2. /\ EP!QueriesLeft /\ EP!Remaining /\ queries # << >>
    BY <1>0, <2>1 DEF SearchOK, EP!FoundInv, EP!SearchInv, EP!TypeOK
  <2>3. /\ Len(AllQueries) - Len(queries) + 1 \in DOMAIN AllQueries
        /\ Len(Tail(queries)) = Len(queries) - 1 /\ Len(queries) \in Nat
        /\ Len(AllQueries) \in Nat /\ Len(Tail(queries)) < Len(AllQueries)
    BY <2>2, EngineAssumed, EP!QueryPosition
  <2>4. Len(Kernels) = Len(AllQueries) /\ DOMAIN AllQueries = DOMAIN Kernels
    <3>1. DOMAIN AllQueries = DOMAIN Kernels BY DEF AllQueries
    <3>2. PICK T : Kernels \in Seq(T) BY KernelsAssumption
    <3>3. PICK U : AllQueries \in Seq(U) BY EngineAssumed DEF EP!EngineAssumption
    <3>4. \A V : \A u \in Seq(V) : DOMAIN u = 1..Len(u) /\ Len(u) \in Nat OBVIOUS
    <3>5. 1..Len(Kernels) = 1..Len(AllQueries) /\ Len(Kernels) \in Nat /\ Len(AllQueries) \in Nat
      BY <3>1, <3>2, <3>3, <3>4, Zenon
    <3>6. \A a, b \in Nat : 1..a = 1..b => a = b
      <4> SUFFICES ASSUME NEW a \in Nat, NEW b \in Nat, 1..a = 1..b PROVE a = b OBVIOUS
      <4>1. a \in 1..a \/ a = 0 OBVIOUS
      <4>2. b \in 1..b \/ b = 0 OBVIOUS
      <4>3. a <= b \/ a = 0 BY <4>1
      <4>4. b <= a \/ b = 0 BY <4>2
      <4> QED BY <4>3, <4>4
    <3> QED BY <3>1, <3>5, <3>6
  <2>5. n \in DOMAIN Kernels /\ AllQueries[n] = Kernels[n].query
    BY <2>0, <2>3, <2>4 DEF AllQueries
  <2>6. AllQueries' = AllQueries BY DEF AllQueries
  <2>7. (EP!Latest)' = Kernels[n].query
    <3>1. Len(AllQueries) - Len(queries') + 0 = n
      <4> DEFINE a == Len(AllQueries)
                 b == Len(queries)
                 c == Len(queries')
      <4>1. a \in Nat /\ b \in Nat /\ c = b - 1 BY <2>1, <2>3
      <4> HIDE DEF a, b, c
      <4>2. a - c + 0 = a - b + 1 BY <4>1
      <4> QED BY <4>2, <2>0, <2>4 DEF a, b, c
    <3>2. (EP!Latest)' = AllQueries[Len(AllQueries) - Len(queries') + 0]
      BY <2>1, <2>6 DEF EP!Latest
    <3> QED BY <3>1, <3>2, <2>5
  <2>8. /\ EP!IsSequence(results)
        /\ \A i \in DOMAIN results : EP!IsMatch(Kernels[n].query, results[i])'
    <3>1. EP!ResultsMatch' BY <1>0 DEF SearchOK, EP!FoundInv
    <3>2. queries' # AllQueries'
      <4>1. Len(queries') < Len(AllQueries) BY <2>1, <2>3
      <4> QED BY <4>1, <2>3, <2>6
    <3>3. /\ EP!IsSequence(results')
          /\ \A i \in DOMAIN results' : EP!IsMatch(EP!Latest, results[i])'
      BY <3>1, <3>2 DEF EP!ResultsMatch
    <3> QED BY <3>3, <2>1, <2>7
  <2>9. matches' = [matches EXCEPT ![Kernels[n].name] = After(matches[Kernels[n].name], results)]
    BY <1>0, <1>3, <2>0, <2>1 DEF Match
  <2>10. \A i \in DOMAIN Kernels : MatchList(Kernels[i], matches[Kernels[i].name])
    BY <1>0 DEF FoundOK
  <2>11. \A k, s : MatchList(k, s) => MatchList(k, s)' BY <1>0, ListKept
  <2>12. ASSUME NEW s, MatchList(Kernels[n], s)'
         PROVE  MatchList(Kernels[n], After(s, results))'
    <3>1. (SoundInv /\ AcFinite /\ phase = "idle" /\ db = Snapshot /\ EP!EphemeralOK
             => AppendsMatches)'
      BY ResultsJustified, PTL
    <3>2. (SoundInv /\ AcFinite /\ phase = "idle" /\ db = Snapshot /\ EP!EphemeralOK)'
      BY <1>0 DEF SearchOK, vars
    <3>3. PICK more : more = results OBVIOUS
    <3>4. /\ EP!IsSequence(more)
          /\ \A i \in DOMAIN more : EP!IsMatch(Kernels[n].query, more[i])'
      BY <2>1, <2>8, <3>3
    <3>5. MatchList(Kernels[n], After(s, more))' BY <3>1, <3>2, <3>4, <2>5, <2>12 DEF AppendsMatches
    <3> QED BY <3>3, <3>5, <2>1
  <2>13. ASSUME NEW i \in DOMAIN Kernels
         PROVE  MatchList(Kernels[i], matches[Kernels[i].name])'
    <3>1. Kernels[i].name \in DOMAIN matches BY <1>0 DEF FoundOK, Names
    <3>2. PICK s : s = matches[Kernels[i].name] /\ MatchList(Kernels[i], s)' BY <2>10, <2>11
    <3>3. CASE i = n
      <4>1. matches'[Kernels[i].name] = After(s, results') BY <3>1, <3>2, <3>3, <2>1, <2>9
      <4> QED BY <4>1, <3>2, <3>3, <2>1, <2>12
    <3>4. CASE i # n
      <4>1. Kernels[i].name # Kernels[n].name BY <3>4, <2>5, KernelsAssumption
      <4>2. matches'[Kernels[i].name] = s BY <4>1, <3>1, <3>2, <2>9
      <4> QED BY <4>2, <3>2
    <3> QED BY <3>3, <3>4
  <2>14. DOMAIN matches' = Names BY <1>0, <2>9 DEF FoundOK
  <2> QED BY <1>0, <2>13, <2>14 DEF FoundOK
<1> QED BY <1>2, <1>3

\* Everything found so far stays justified.
LEMMA FoundKept == SatInv /\ [SatNext]_<<vars, val, own>> => FoundOK'
<1> SUFFICES ASSUME SatInv, [SatNext]_<<vars, val, own>> PROVE FoundOK' OBVIOUS
<1>0. /\ FoundOK /\ StageOK /\ SoundInv' /\ AcFinite' /\ ValuesKept /\ NodesKept
      /\ UF!IsPartition' /\ StageOK' /\ SearchOK'
  BY StepKeeps, StageKept, SearchKept DEF SatInv, SoundInv, TypeOK
<1>1. CASE Match BY <1>0, <1>1, MatchFinds
<1>2. CASE Saturate
  <2>1. matches' = [name \in Names |-> << >>] /\ stage' = "match"
    BY <1>2 DEF Saturate, BeginIteration
  <2>2. \A i \in DOMAIN Kernels : MatchList(Kernels[i], << >>)'
    <3>1. (\A i \in DOMAIN Kernels : MatchList(Kernels[i], << >>))' BY NoMatches, PTL
    <3> QED BY <3>1
  <2>3. \A i \in DOMAIN Kernels : matches'[Kernels[i].name] = << >> BY <2>1 DEF Names
  <2>4. \A i \in DOMAIN Kernels : MatchList(Kernels[i], matches[Kernels[i].name])'
    BY <2>2, <2>3
  <2> QED BY <2>1, <2>4 DEF FoundOK
<1>3. CASE Return BY <1>3 DEF Return, FoundOK
<1>4. CASE matches' = matches /\ (stage = "idle" <=> stage' = "idle")
  <2>1. \A k, s : MatchList(k, s) => MatchList(k, s)' BY <1>0, ListKept
  <2>2. ASSUME stage # "idle", NEW i \in DOMAIN Kernels
        PROVE  MatchList(Kernels[i], matches[Kernels[i].name])'
    <3>1. PICK s : s = matches[Kernels[i].name] OBVIOUS
    <3>2. MatchList(Kernels[i], s) BY <3>1, <2>2, <1>0 DEF FoundOK
    <3>3. MatchList(Kernels[i], s)' BY <3>2, <2>1
    <3>4. s = matches'[Kernels[i].name] BY <3>1, <1>4
    <3> QED BY <3>3, <3>4
  <2> QED BY <2>2, <1>0, <1>4 DEF FoundOK
<1>5. CASE Setup \/ BeginApply \/ ApplyMatches \/ ApplyMatch \/ MatchesApplied
           \/ FirstRebuild \/ SecondRebuild \/ InRebuild \/ NextIteration
           \/ UNCHANGED <<vars, val, own>>
  BY <1>4, <1>5 DEF Setup, BeginApply, ApplyMatches, ApplyMatch, MatchesApplied, FirstRebuild,
     SecondRebuild, InRebuild, NextIteration, BeginIteration, IterationDone, own
<1>6. CASE Materialize \/ Instantiate \/ UnifySides
  BY <1>4, <1>6 DEF Materialize, Instantiate, UnifySides
<1> QED BY <1>1, <1>2, <1>3, <1>5, <1>6 DEF SatNext, SaturateStep
-----------------------------------------------------------------------------
\* While no step is made in the application of a match it stays justified.
LEMMA ApplyStays ==
  ASSUME SatInv, UF!IsPartition', ValuesKept, NodesKept, UNCHANGED applying,
         rule # 0 => stage' = "apply"
  PROVE  ApplyOK'
<1>0. /\ left' = left /\ rule' = rule /\ offset' = offset /\ match' = match /\ built' = built
      /\ ApplyOK
  BY DEF applying, SatInv
<1>1. subst' = subst /\ HeadSize(subst)' = HeadSize(subst) BY <1>0 DEF subst, HeadSize
<1>2. ASSUME match # << >>
      PROVE  /\ built \in Seq(Live')
             /\ \E sigma \in [1..subst.query.nvars -> Dom] :
                  (Justifies(subst, match, sigma) /\ Instantiated(sigma))'
  <2>1. built \in Seq(Live) /\ \A j \in DOMAIN built : built[j] \in Live
    BY <1>0, <1>2 DEF ApplyOK
  <2>2. built \in Seq(Live') BY <2>1 DEF ValuesKept
  <2>3. PICK sigma \in [1..subst.query.nvars -> Dom] :
          Justifies(subst, match, sigma) /\ Instantiated(sigma)
    BY <1>0, <1>2 DEF ApplyOK
  <2>4. PICK k, m : k = subst /\ m = match OBVIOUS
  <2>5. Justifies(k, m, sigma)' BY <2>3, <2>4, JustifiedKept
  <2>6. Justifies(subst, match, sigma)' BY <2>4, <2>5, <1>0, <1>1
  <2>7. BuiltValues' = BuiltValues BY <2>1, <1>0 DEF BuiltValues, ValuesKept
  <2>8. Instantiated(sigma)' BY <2>3, <2>7, <1>0, <1>1 DEF Instantiated
  <2> QED BY <2>2, <2>6, <2>8
<1> QED BY <1>0, <1>1, <1>2 DEF ApplyOK

\* The copy of a match is justified.
LEMMA MatchTaken ==
  ASSUME SatInv, ApplyMatch
  PROVE  ApplyOK'
<1>0. /\ stage = "apply" /\ stage' = stage /\ rule # 0 /\ match = << >>
      /\ offset + head_size <= Len(matches[subst.name])
      /\ match' = SubSeq(matches[subst.name], offset + 1, offset + head_size)
      /\ built' = << >> /\ left' = left /\ rule' = rule /\ offset' = offset
      /\ UNCHANGED <<vars, val, engine>> /\ ApplyOK /\ FoundOK
  BY DEF ApplyMatch, SatInv
<1>1. /\ rule \in DOMAIN Kernels /\ offset \in Nat /\ offset % HeadSize(subst) = 0
      /\ left \subseteq Names /\ subst' = subst
  BY <1>0 DEF ApplyOK, subst
<1> DEFINE h == HeadSize(subst)
           s == matches[subst.name]
           m == [p \in 1..h |-> s[offset+p]]
<1>2. h = head_size /\ h \in Nat \ {0} /\ DOMAIN subst.query.head = 1..h
  BY <1>1, HeadNonempty DEF head_size, HeadSize, subst
<1>3. MatchList(subst, s) BY <1>0, <1>1 DEF FoundOK, subst
<1>4. s \in Seq(Nat) /\ offset + h <= Len(s) /\ offset % h = 0
  BY <1>0, <1>1, <1>2, <1>3 DEF MatchList
<1>5. Justified(subst, m)
  BY <1>1, <1>3, <1>4 DEF MatchList
<1>6. /\ match' \in Seq(Nat) /\ Len(match') = h
      /\ \A p \in 1..h : match'[p] = s[offset+p]
  <2> DEFINE o == offset
             u == SubSeq(s, o + 1, o + h)
  <2>1. match' = u BY <1>0, <1>2
  <2>2. o \in Nat /\ o + h <= Len(s) /\ s \in Seq(Nat) BY <1>1, <1>4
  <2> HIDE DEF h, s, o, m
  <2>3. u \in Seq(Nat) /\ Len(u) = h
    <3>1. u \in Seq(Nat) BY <2>2, <1>2
    <3>2. Len(u) = (o + h) - (o + 1) + 1 BY <2>2, <1>2
    <3> QED BY <3>1, <3>2, <2>2, <1>2
  <2>4. \A p \in 1..h : u[p] = s[o+p]
    <3> TAKE p \in 1..h
    <3>1. /\ p \in 1..((o + h) - (o + 1) + 1) /\ (o + 1) + p - 1 = o + p
          /\ o + p \in 1..Len(s)
      BY <2>2, <1>2
    <3>2. u[p] = s[(o + 1) + p - 1] BY <3>1, <2>2, <1>2
    <3> QED BY <3>1, <3>2
  <2> HIDE DEF u
  <2> QED BY <2>1, <2>3, <2>4 DEF o
<1>7. PICK sigma \in [1..subst.query.nvars -> Dom] : Justifies(subst, m, sigma)
  BY <1>5 DEF Justified
<1>8. /\ \A c \in DOMAIN subst.query.constraints : Fits(subst.query.constraints[c], sigma)
      /\ \A p \in 1..h : /\ Known(match'[p])
                         /\ IdValue(match'[p]) = sigma[subst.query.head[p]]
  BY <1>2, <1>6, <1>7 DEF Justifies
<1>9. Justifies(subst, match, sigma)'
  <2>1. UNCHANGED <<rep, val, ephemeral>> BY <1>0 DEF vars, engine
  <2>2. \A id : Known(id)' = Known(id) /\ IdValue(id)' = IdValue(id)
    BY <2>1 DEF Known, IdValue, CallArgs, Args, Live
  <2>3. \A p \in 1..h : Known(match[p])' /\ IdValue(match[p])' = sigma[subst.query.head[p]]
    <3> TAKE p \in 1..h
    <3>1. PICK id : id = match'[p] OBVIOUS
    <3>2. Known(id)' /\ IdValue(id)' = sigma[subst.query.head[p]] BY <3>1, <1>8, <2>2
    <3> QED BY <3>1, <3>2
  <2> QED BY <2>3, <1>1, <1>2, <1>8 DEF Justifies
<1>10. Instantiated(sigma)' BY <1>0 DEF Instantiated
<1>11. Len(subst.calls) \in Nat
  <2>1. subst.calls \in Seq({subst.calls[i] : i \in DOMAIN subst.calls})
    BY <1>1, KernelsAssumption DEF IsKernel, subst
  <2> QED BY <2>1
<1>12. built' \in Seq(Live') /\ Len(built') <= Len(subst.calls) BY <1>0, <1>11
<1> HIDE DEF m, s
<1> QED BY <1>0, <1>1, <1>6, <1>9, <1>10, <1>12 DEF ApplyOK, HeadSize

\* The id of the e-node takes the place of the ephemeral id.
LEMMA MatchMaterialized ==
  ASSUME SatInv, Materialize, SoundInv', ValuesKept, NodesKept
  PROVE  ApplyOK'
<1>1. PICK p \in DOMAIN match :
        /\ IsEphemeral(match[p])
        /\ LET e == ephemeral[match[p] - MaxIds]
           IN  AddTerm(e.op, e.args) /\ match' = [match EXCEPT ![p] = IdAfter(e.op, e.args)]
  BY DEF Materialize
<1> DEFINE e == ephemeral[match[p] - MaxIds]
<1>2. e.op \in Ops /\ e.args \in CallArgs(e.op) /\ IdValue(match[p]) = Value(e.op, e.args, val)
  BY <1>1, MaterializeCall
<1>3. PICK op, args, y : op = e.op /\ args = e.args /\ y = IdAfter(e.op, e.args) OBVIOUS
<1>4. y \in Live' /\ val'[y] = IdValue(match[p])
  BY <1>1, <1>2, <1>3, AddTermId DEF SatInv
<1>5. match' = [match EXCEPT ![p] = y] BY <1>1, <1>3
<1> HIDE DEF e
<1>6. /\ stage' = stage /\ left' = left /\ rule' = rule /\ offset' = offset /\ built' = built
      /\ UF!IsPartition' /\ ApplyOK
  BY DEF Materialize, SatInv, SoundInv, TypeOK
<1>7. match # << >>
  <2> SUFFICES ASSUME match = << >> PROVE FALSE OBVIOUS
  <2> QED OBVIOUS
<1>8. /\ rule # 0 /\ match \in Seq(Nat) /\ Len(match) = HeadSize(subst)
      /\ built \in Seq(Live) /\ Len(built) <= Len(subst.calls)
      /\ left \subseteq Names /\ stage = "apply" /\ rule \in DOMAIN Kernels
      /\ offset \in Nat /\ offset % HeadSize(subst) = 0
  BY <1>6, <1>7 DEF ApplyOK
<1>9. subst' = subst /\ HeadSize(subst)' = HeadSize(subst) BY <1>6 DEF subst, HeadSize
<1>10. PICK sigma \in [1..subst.query.nvars -> Dom] :
         Justifies(subst, match, sigma) /\ Instantiated(sigma)
  BY <1>6, <1>7 DEF ApplyOK
<1>11. DOMAIN subst.query.head = 1..HeadSize(subst) /\ HeadSize(subst) \in Nat
  BY <1>8, HeadNonempty DEF subst
<1>12. DOMAIN match = 1..HeadSize(subst) /\ p \in 1..HeadSize(subst) BY <1>8
<1>13. /\ \A c \in DOMAIN subst.query.constraints : Fits(subst.query.constraints[c], sigma)
       /\ \A q \in 1..HeadSize(subst) :
            Known(match[q]) /\ IdValue(match[q]) = sigma[subst.query.head[q]]
  BY <1>10, <1>11 DEF Justifies
<1>14. \A id : Known(id) => Known(id)' /\ IdValue(id)' = IdValue(id)
  BY <1>6, KnownKept
<1>15. Justifies(subst, match, sigma)'
  <2>1. \A q \in 1..HeadSize(subst) :
          Known(match[q])' /\ IdValue(match[q])' = sigma[subst.query.head[q]]
    <3> TAKE q \in 1..HeadSize(subst)
    <3>1. PICK id : id = match'[q] OBVIOUS
    <3>2. CASE q = p
      <4>1. id = y BY <3>1, <3>2, <1>5, <1>12
      <4>2. Known(id)' /\ IdValue(id)' = val'[id] BY <4>1, <1>4 DEF Known, IdValue
      <4>3. IdValue(id)' = sigma[subst.query.head[q]] BY <4>1, <4>2, <3>2, <1>4, <1>12, <1>13
      <4> QED BY <3>1, <4>2, <4>3
    <3>3. CASE q # p
      <4>1. id = match[q] BY <3>1, <3>3, <1>5, <1>12
      <4>2. Known(id) /\ IdValue(id) = sigma[subst.query.head[q]] BY <4>1, <1>13
      <4>3. Known(id)' /\ IdValue(id)' = sigma[subst.query.head[q]] BY <4>2, <1>14
      <4> QED BY <3>1, <4>3
    <3> QED BY <3>2, <3>3
  <2> QED BY <2>1, <1>9, <1>11, <1>13 DEF Justifies
<1>16. \A j \in DOMAIN built : built[j] \in Live BY <1>8
<1>17. BuiltValues' = BuiltValues BY <1>16, <1>6 DEF BuiltValues, ValuesKept
<1>18. Instantiated(sigma)' BY <1>10, <1>17, <1>6, <1>9 DEF Instantiated
<1>19. built' \in Seq(Live') BY <1>8, <1>6 DEF ValuesKept
<1>20. match' \in Seq(Nat) /\ Len(match') = Len(match)
  <2>1. y \in Nat BY <1>4 DEF Live
  <2> QED BY <2>1, <1>5, <1>8, <1>12
<1> QED BY <1>6, <1>8, <1>9, <1>15, <1>18, <1>19, <1>20 DEF ApplyOK

\* A new subterm has the value that the algebra gives it.
LEMMA TermInstantiated ==
  ASSUME SatInv, Instantiate, SoundInv', ValuesKept, NodesKept
  PROVE  ApplyOK'
<1> DEFINE n == Len(built)
<1>1. /\ Materialized /\ n < Len(subst.calls)
      /\ AddTerm(Call.op, Children(Call.op, CallIds))
      /\ built' = Append(built, IdAfter(Call.op, Children(Call.op, CallIds)))
  BY DEF Instantiate, Call, CallIds
<1>2. /\ stage' = stage /\ left' = left /\ rule' = rule /\ offset' = offset /\ match' = match
      /\ UF!IsPartition' /\ ApplyOK
  BY DEF Instantiate, SatInv, SoundInv, TypeOK
<1>3. /\ match # << >> /\ rule # 0 /\ match \in Seq(Nat) /\ Len(match) = HeadSize(subst)
      /\ built \in Seq(Live) /\ n <= Len(subst.calls)
      /\ left \subseteq Names /\ stage = "apply" /\ rule \in DOMAIN Kernels
      /\ offset \in Nat /\ offset % HeadSize(subst) = 0
  BY <1>1, <1>2 DEF ApplyOK, Materialized
<1>4. subst' = subst /\ HeadSize(subst)' = HeadSize(subst) BY <1>2 DEF subst, HeadSize
<1>5. PICK sigma \in [1..subst.query.nvars -> Dom] :
        Justifies(subst, match, sigma) /\ Instantiated(sigma)
  BY <1>2, <1>3 DEF ApplyOK
<1>6. PICK k, m : k = subst /\ m = match OBVIOUS
<1>7. Justifies(subst, match, sigma)'
  <2>1. Justifies(k, m, sigma)' BY <1>2, <1>5, <1>6, JustifiedKept
  <2> QED BY <2>1, <1>6, <1>2, <1>4
<1>8. PICK y : y = IdAfter(Call.op, Children(Call.op, CallIds)) OBVIOUS
<1>9. /\ y \in Live'
      /\ val'[y] = Apply(Call.op, [i \in DOMAIN Call.refs |->
                                     RefValue(subst, Call.refs[i], sigma, BuiltValues)])
  BY <1>1, <1>5, <1>8, InstantiateCall, AddTermId DEF SatInv
<1>10. PICK b, v, w : b = built /\ v = built' /\ w = BuiltValues OBVIOUS
<1>11. /\ n \in Nat /\ DOMAIN built = 1..n /\ DOMAIN v = 1..(n+1)
       /\ v[n+1] = y /\ \A j \in 1..n : v[j] = built[j] /\ built[j] \in Live
  <2>1. v = Append(built, y) BY <1>1, <1>8, <1>10
  <2>2. \A T : \A s \in Seq(T) : \A x : \A j \in DOMAIN s : Append(s, x)[j] = s[j] OBVIOUS
  <2>3. \A T : \A s \in Seq(T) : \A x : /\ DOMAIN Append(s, x) = 1..(Len(s)+1)
                                        /\ Append(s, x)[Len(s)+1] = x
    OBVIOUS
  <2>4. n \in Nat /\ DOMAIN built = 1..n /\ \A j \in 1..n : built[j] \in Live BY <1>3
  <2> QED BY <2>1, <2>2, <2>3, <2>4, <1>3
<1>12. PICK u : u = BuiltValues' OBVIOUS
<1>13. /\ DOMAIN u = 1..(n+1) /\ u[n+1] = val'[y] /\ \A j \in 1..n : u[j] = w[j]
  <2>1. u = [j \in 1..(n+1) |-> val'[v[j]]] BY <1>10, <1>11, <1>12 DEF BuiltValues
  <2>2. w = [j \in 1..n |-> val[built[j]]] BY <1>10, <1>11 DEF BuiltValues
  <2>3. \A j \in 1..n : j \in 1..(n+1) /\ val'[built[j]] = val[built[j]]
    BY <1>11 DEF ValuesKept
  <2>4. n + 1 \in 1..(n+1) BY <1>11
  <2> QED BY <2>1, <2>2, <2>3, <2>4, <1>11
<1>14. /\ IsKernel(subst) /\ DOMAIN subst.calls = 1..Len(subst.calls) /\ Len(subst.calls) \in Nat
  <2>1. IsKernel(subst) BY <1>3, KernelsAssumption DEF subst
  <2>2. subst.calls \in Seq({subst.calls[i] : i \in DOMAIN subst.calls}) BY <2>1 DEF IsKernel
  <2> QED BY <2>1, <2>2
<1>15. \A j \in 1..(n+1) :
         [i \in DOMAIN subst.calls[j].refs |-> RefValue(subst, subst.calls[j].refs[i], sigma, u)] =
         [i \in DOMAIN subst.calls[j].refs |-> RefValue(subst, subst.calls[j].refs[i], sigma, w)]
  <2> TAKE j \in 1..(n+1)
  <2>1. j \in DOMAIN subst.calls /\ j - 1 \in Nat /\ j - 1 <= n BY <1>1, <1>11, <1>14
  <2>2. \A i \in DOMAIN subst.calls[j].refs : RefOK(subst, subst.calls[j].refs[i], j - 1)
    BY <2>1, <1>14 DEF IsKernel
  <2>3. \A i \in DOMAIN subst.calls[j].refs :
          RefValue(subst, subst.calls[j].refs[i], sigma, u)
            = RefValue(subst, subst.calls[j].refs[i], sigma, w)
    <3> TAKE i \in DOMAIN subst.calls[j].refs
    <3>1. PICK ref : ref = subst.calls[j].refs[i] OBVIOUS
    <3>2. RefOK(subst, ref, j - 1) BY <3>1, <2>2
    <3>3. CASE "call" \in DOMAIN ref
      <4>1. ref.call \in 1..(j - 1) BY <3>2, <3>3 DEF RefOK
      <4>2. ref.call \in 1..n BY <4>1, <2>1, <1>11
      <4>3. u[ref.call] = w[ref.call] BY <4>2, <1>13
      <4> QED BY <3>1, <3>3, <4>3 DEF RefValue
    <3>4. CASE "call" \notin DOMAIN ref BY <3>1, <3>4 DEF RefValue
    <3> QED BY <3>3, <3>4
  <2> QED BY <2>3
<1>16. \A j \in 1..(n+1) :
         u[j] = Apply(subst.calls[j].op,
                      [i \in DOMAIN subst.calls[j].refs |->
                         RefValue(subst, subst.calls[j].refs[i], sigma, u)])
  <2> TAKE j \in 1..(n+1)
  <2>1. u[j] = Apply(subst.calls[j].op,
                     [i \in DOMAIN subst.calls[j].refs |->
                        RefValue(subst, subst.calls[j].refs[i], sigma, w)])
    <3>1. CASE j = n + 1 BY <3>1, <1>9, <1>10, <1>13 DEF Call
    <3>2. CASE j # n + 1
      <4>1. j \in 1..n BY <3>2, <1>11
      <4> QED BY <4>1, <1>5, <1>10, <1>11, <1>13 DEF Instantiated
    <3> QED BY <3>1, <3>2
  <2> QED BY <2>1, <1>15
<1>17. Instantiated(sigma)' BY <1>16, <1>10, <1>11, <1>12, <1>4 DEF Instantiated
<1>18. built' \in Seq(Live') /\ Len(built') = n + 1
  <2>1. built \in Seq(Live') BY <1>3 DEF ValuesKept
  <2>2. \A T : \A s \in Seq(T) : \A x \in T : Append(s, x) \in Seq(T) /\ Len(Append(s, x)) = Len(s) + 1
    OBVIOUS
  <2> QED BY <2>1, <2>2, <1>1, <1>8, <1>9
<1>19. n + 1 <= Len(subst.calls) BY <1>1, <1>11, <1>14
<1> HIDE DEF n
<1> QED BY <1>2, <1>3, <1>4, <1>7, <1>17, <1>18, <1>19 DEF ApplyOK

\* The cursor goes to the next match.
LEMMA SidesUnified ==
  ASSUME SatInv, UnifySides
  PROVE  ApplyOK'
<1>1. /\ match # << >> /\ match' = << >>
      /\ stage' = stage /\ left' = left /\ rule' = rule /\ offset' = offset + head_size /\ ApplyOK
  BY DEF UnifySides, SatInv, Materialized
<1>2. /\ rule # 0 /\ left \subseteq Names /\ stage = "apply" /\ rule \in DOMAIN Kernels
      /\ offset \in Nat /\ offset % HeadSize(subst) = 0
  BY <1>1 DEF ApplyOK
<1>3. subst' = subst /\ HeadSize(subst)' = HeadSize(subst) BY <1>1 DEF subst, HeadSize
<1>4. head_size = HeadSize(subst) /\ HeadSize(subst) \in Nat \ {0}
  BY <1>2, HeadNonempty DEF head_size, HeadSize, subst
<1>5. offset' \in Nat /\ offset' % HeadSize(subst) = 0
  <2> DEFINE h == HeadSize(subst)
  <2>1. \A a \in Nat : (a + h) % h = a % h BY <1>4, MultiplesApart
  <2>2. offset' = offset + h BY <1>1, <1>4
  <2> HIDE DEF h
  <2> QED BY <2>1, <2>2, <1>2, <1>4 DEF h
<1> QED BY <1>1, <1>2, <1>3, <1>5 DEF ApplyOK

\* The position in the matches, and the match that is applied.
LEMMA ApplyKept == SatInv /\ [SatNext]_<<vars, val, own>> => ApplyOK'
<1> SUFFICES ASSUME SatInv, [SatNext]_<<vars, val, own>> PROVE ApplyOK'
  OBVIOUS
<1>1. SoundInv' /\ ValuesKept /\ NodesKept BY StepKeeps
<1>2. UF!IsPartition' BY <1>1 DEF SoundInv, TypeOK
<1>3. ApplyOK BY DEF SatInv
<1>4. stage # "apply" => rule = 0 /\ match = << >> BY <1>3 DEF ApplyOK
<1>5. CASE \/ Setup \/ Saturate \/ Match \/ SecondRebuild \/ InRebuild \/ NextIteration \/ Return
           \/ FirstRebuild \/ UNCHANGED <<vars, val, own>>
  <2>1. UNCHANGED applying
    BY <1>5 DEF Setup, Saturate, Match, SecondRebuild, InRebuild, NextIteration, Return,
                FirstRebuild, own
  <2>2. rule # 0 => stage' = "apply"
    <3>1. CASE stage # "apply" BY <3>1, <1>4
    <3>2. CASE stage = "apply"
      BY <3>2, <1>5 DEF Setup, Saturate, Match, SecondRebuild, InRebuild, NextIteration, Return,
                        IterationDone, FirstRebuild, Idle, own
    <3> QED BY <3>1, <3>2
  <2> QED BY <2>1, <2>2, <1>1, <1>2, ApplyStays
<1>6. CASE BeginApply
  <2>1. /\ rule' = rule /\ match' = match /\ rule = 0 /\ match = << >> /\ left' \subseteq Names
    BY <1>6, <1>4 DEF BeginApply
  <2> QED BY <2>1 DEF ApplyOK
<1>7. CASE ApplyMatches
  <2>1. PICK name \in left : left' = left \ {name} /\ rule' = SubstNamed(name)
    BY <1>7 DEF ApplyMatches
  <2>2. /\ stage' = "apply" /\ offset' = 0 /\ rule = 0 /\ match' = match
    BY <1>7 DEF ApplyMatches
  <2>3. match = << >> /\ left \subseteq Names BY <2>2, <1>3 DEF ApplyOK
  <2>4. PICK i \in DOMAIN Kernels : name = Kernels[i].name BY <2>1, <2>3 DEF Names
  <2>5. rule' = i BY <2>1, <2>4, NamesUnique
  <2>6. HeadSize(Kernels[i]) \in Nat \ {0} BY HeadNonempty
  <2>7. 0 % HeadSize(Kernels[i]) = 0 BY <2>6, MultiplesApart
  <2>8. HeadSize(subst)' = HeadSize(Kernels[i]) BY <2>5 DEF HeadSize, subst
  <2>9. left' \subseteq Names BY <2>1, <2>3
  <2> QED BY <2>2, <2>3, <2>5, <2>7, <2>8, <2>9 DEF ApplyOK
<1>8. CASE MatchesApplied
  <2>1. rule' = 0 /\ match = << >> /\ match' = match /\ left' = left
    BY <1>8 DEF MatchesApplied
  <2> QED BY <2>1, <1>3 DEF ApplyOK
<1>9. CASE ApplyMatch BY <1>9, MatchTaken
<1>10. CASE Materialize BY <1>10, <1>1, MatchMaterialized
<1>11. CASE Instantiate BY <1>11, <1>1, TermInstantiated
<1>12. CASE UnifySides BY <1>12, SidesUnified
<1> QED BY <1>5, <1>6, <1>7, <1>8, <1>9, <1>10, <1>11, <1>12 DEF SatNext, SaturateStep
-----------------------------------------------------------------------------
\* The invariant holds at the start.
LEMMA SatStarts == SatInit => SatInv
<1> SUFFICES ASSUME SatInit PROVE SatInv OBVIOUS
<1>1. SoundInv BY InitSound DEF SatInit
<1>2. AcFinite
  <2>1. \A op \in AcOps : rows[op] = {} BY DEF SatInit, SoundInit, Init, Ops
  <2> QED BY <2>1, FS_EmptySet DEF AcFinite
<1>3. StageOK BY DEF SatInit, SoundInit, Init, StageOK
<1>4. SearchOK
  <2>1. EP!EphemeralOK BY DEF SatInit, EP!EphemeralOK
  <2> QED BY <2>1 DEF SatInit, SearchOK
<1>5. FoundOK /\ ApplyOK BY DEF SatInit, FoundOK, ApplyOK
<1> QED BY <1>1, <1>2, <1>3, <1>4, <1>5 DEF SatInv

\* Every step keeps it.
LEMMA SatKept == SatInv /\ [SatNext]_<<vars, val, own>> => SatInv'
<1> SUFFICES ASSUME SatInv, [SatNext]_<<vars, val, own>> PROVE SatInv' OBVIOUS
<1>1. SoundInv' /\ AcFinite' BY StepKeeps
<1>2. StageOK' /\ SearchOK' /\ FoundOK' /\ ApplyOK'
  BY StageKept, SearchKept, FoundKept, ApplyKept
<1> QED BY <1>1, <1>2 DEF SatInv

\* The inductive invariant of saturate.
THEOREM SaturateInvariant == SatSpec => []SatInv
<1> QED BY SatStarts, SatKept, PTL DEF SatSpec

\* What the invariant says of the matches.
LEMMA KnownMatches == SatInv => MatchesKnown
<1> SUFFICES ASSUME SatInv, NEW name \in DOMAIN matches
             PROVE  /\ Len(matches[name]) % Len(Kernels[SubstNamed(name)].query.head) = 0
                    /\ \A i \in DOMAIN matches[name] :
                         LET id == matches[name][i]
                         IN  IF IsEphemeral(id) THEN id - MaxIds \in DOMAIN ephemeral
                                                ELSE id \in Live
  BY DEF MatchesKnown
<1>1. stage # "idle"
  <2> SUFFICES ASSUME stage = "idle" PROVE FALSE OBVIOUS
  <2>1. matches = << >> BY DEF SatInv, FoundOK
  <2> QED BY <2>1
<1>2. /\ DOMAIN matches = Names
      /\ \A i \in DOMAIN Kernels : MatchList(Kernels[i], matches[Kernels[i].name])
  BY <1>1 DEF SatInv, FoundOK
<1>3. PICK k \in DOMAIN Kernels : name = Kernels[k].name BY <1>2 DEF Names
<1>4. SubstNamed(name) = k BY <1>3, NamesUnique
<1>5. MatchList(Kernels[k], matches[name]) BY <1>2, <1>3
<1>6. Live \subseteq 1..MaxIds /\ MaxIds \in Nat
  <2>1. Len(rep) \in Nat /\ Len(rep) <= MaxIds BY PartitionFacts DEF SatInv, SoundInv, TypeOK
  <2> QED BY <2>1, MaxIdsAssumption DEF Live
<1>7. ASSUME NEW id, Known(id)
      PROVE  IF IsEphemeral(id) THEN id - MaxIds \in DOMAIN ephemeral ELSE id \in Live
  <2>1. CASE id \in Live
    <3>1. ~ IsEphemeral(id) BY <2>1, <1>6 DEF IsEphemeral
    <3> QED BY <3>1, <2>1
  <2>2. CASE id \notin Live BY <2>2, <1>7 DEF Known
  <2> QED BY <2>1, <2>2
<1>8. \A i \in DOMAIN matches[name] : Known(matches[name][i]) BY <1>5 DEF MatchList
<1>9. Len(matches[name]) % Len(Kernels[k].query.head) = 0 BY <1>5 DEF MatchList, HeadSize
<1> QED BY <1>4, <1>7, <1>8, <1>9

\* MatchesKnown, for every e-graph, every algebra and all rules that hold in it.
THEOREM KnownIds == SatSpec => []MatchesKnown
<1> QED BY SaturateInvariant, KnownMatches, PTL

\* CallsAreSound, likewise: a saturation makes no call of the e-graph that
\* EGraphSoundness does not allow.
THEOREM SoundCalls == SatSpec => CallsAreSound
<1> QED BY SaturateInvariant, StepSound, PTL DEF CallsAreSound, SatSpec

\* Hence it equates only what is equal in the algebra.
THEOREM SaturateSound == SatSpec => []Sound
<1>1. SatInv => Sound BY DEF SatInv, SoundInv
<1> QED BY <1>1, SaturateInvariant, PTL
=============================================================================
