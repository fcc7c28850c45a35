-------------------------- MODULE UnionFindProofs --------------------------
(***************************************************************************)
(* Proofs about UnionFind for every MaxIds: the type invariant, the count  *)
(* of classes, what the two loops leave behind, and that the parent vector *)
(* implements the abstract Partition.                                      *)
(***************************************************************************)
EXTENDS UnionFind, TLAPS, FiniteSetTheorems, SequenceTheorems, BasicLemmas

\* A parent vector whose links never lead upwards.
Forest(v) == v \in Seq(Nat) /\ \A x \in 1..Len(v) : v[x] \in 1..x

\* h is constant along every link and the identity on every root.
FollowsLinks(v, h) ==
  \A x \in 1..Len(v) : h[x] = IF v[x] = x THEN x ELSE h[v[x]]

\* find_root after the class of the root hi has moved below lo.
Moved(v, hi, lo) ==
  [x \in 1..Len(v) |-> IF RootOf(v)[x] = hi THEN lo ELSE RootOf(v)[x]]

\* The ids that are their own parent.
RootSet(v) == {x \in 1..Len(v) : v[x] = x}

RootStep(v, g) == [x \in 1..Len(v) |-> IF v[x] = x THEN x ELSE g[v[x]]]

\* find_root is well defined on a forest: the recursion has a solution.
LEMMA RootExists ==
  ASSUME NEW v, Forest(v)
  PROVE  \E g : g = RootStep(v, g)
<1> DEFINE n == Len(v)
           Partial(k) == \E g : g = [x \in 1..k |-> IF v[x] = x THEN x ELSE g[v[x]]]
           T == {k \in 0..n : ~ Partial(k)}
<1>0. n \in Nat /\ \A x \in 1..n : v[x] \in 1..x
  BY DEF Forest
<1> HIDE DEF n
<1>1. ASSUME T # {} PROVE FALSE
  <2>1. PICK k \in T : \A j \in T : k <= j
    <3> T \subseteq Nat BY <1>0
    <3> HIDE DEF T
    <3> QED BY <1>1, LeastElement
  <2>2. k # 0
    <3> SUFFICES Partial(0) OBVIOUS
    <3> WITNESS [x \in 1..0 |-> 0]
    <3> QED OBVIOUS
  <2>3. k \in 1..n /\ k - 1 \in 0..n /\ k-1 \notin T
    BY <2>1, <2>2, <1>0
  <2>4. PICK g : g = [x \in 1..(k-1) |-> IF v[x] = x THEN x ELSE g[v[x]]]
    BY <2>3
  <2> DEFINE h == [x \in 1..k |-> IF x = k THEN (IF v[k] = k THEN k ELSE g[v[k]])
                                          ELSE g[x]]
  <2>5. \A x \in 1..k : h[x] = IF v[x] = x THEN x ELSE h[v[x]]
    <3> SUFFICES ASSUME NEW x \in 1..k PROVE h[x] = IF v[x] = x THEN x ELSE h[v[x]]
      OBVIOUS
    <3>1. v[x] \in 1..x /\ v[x] \in 1..k BY <1>0, <2>3
    <3>2. CASE x = k BY <3>1, <3>2, <2>3
    <3>3. CASE x # k
      <4>1. x \in 1..(k-1) /\ v[x] \in 1..(k-1) /\ v[x] # k BY <3>1, <3>3, <2>3
      <4>2. h[x] = g[x] /\ h[v[x]] = g[v[x]] BY <4>1, <3>1, <3>3
      <4>3. g[x] = IF v[x] = x THEN x ELSE g[v[x]] BY <4>1, <2>4
      <4> QED BY <4>2, <4>3
    <3> QED BY <3>2, <3>3
  <2>6. h = [x \in 1..k |-> IF v[x] = x THEN x ELSE h[v[x]]]
    BY <2>5
  <2>7. Partial(k)
    <3> HIDE DEF h
    <3> QED BY <2>6
  <2> QED BY <2>7
<1>2. Partial(n)
  BY <1>0, <1>1
<1> QED BY <1>2 DEF n, RootStep

\* find_root satisfies its own defining equation.
LEMMA RootEquation ==
  ASSUME NEW v, Forest(v)
  PROVE  RootOf(v) = RootStep(v, RootOf(v))
BY RootExists DEF RootOf, RootStep

\* find_root returns a root of the forest that is no larger than its argument,
\* and takes the same value on an id and on its parent.
LEMMA RootFacts ==
  ASSUME NEW v, Forest(v)
  PROVE  /\ DOMAIN RootOf(v) = 1..Len(v)
         /\ RootOf(v) = [x \in 1..Len(v) |-> RootOf(v)[x]]
         /\ \A x \in 1..Len(v) : /\ RootOf(v)[x] \in 1..x
                                 /\ v[RootOf(v)[x]] = RootOf(v)[x]
                                 /\ RootOf(v)[v[x]] = RootOf(v)[x]
                                 /\ v[x] = x => RootOf(v)[x] = x
<1> DEFINE n == Len(v)
           g == RootOf(v)
           Good(x) == g[x] \in 1..x /\ v[g[x]] = g[x]
           T == {x \in 1..n : ~ Good(x)}
<1>0. n \in Nat /\ \A x \in 1..n : v[x] \in 1..x
  BY DEF Forest
<1>1. g = [x \in 1..n |-> IF v[x] = x THEN x ELSE g[v[x]]]
  BY RootEquation DEF RootStep
<1> HIDE DEF n, g
<1>2. \A x \in 1..n : g[x] = IF v[x] = x THEN x ELSE g[v[x]]
  BY <1>1
<1>3. ASSUME T # {} PROVE FALSE
  <2>1. PICK x \in T : \A y \in T : x <= y
    <3> T \subseteq Nat BY <1>0
    <3> HIDE DEF T
    <3> QED BY <1>3, LeastElement
  <2>2. x \in 1..n /\ v[x] \in 1..x BY <1>0
  <2>3. v[x] # x BY <2>1, <2>2, <1>2
  <2>4. v[x] \in 1..n /\ v[x] < x BY <2>2, <2>3, <1>0
  <2>5. v[x] \notin T BY <2>1, <2>4, <2>2
  <2>6. Good(v[x]) BY <2>4, <2>5
  <2>7. g[x] = g[v[x]] BY <2>2, <2>3, <1>2
  <2> QED BY <2>1, <2>2, <2>4, <2>6, <2>7
<1>4. \A x \in 1..n : Good(x) BY <1>3
<1>5. \A x \in 1..n : g[v[x]] = g[x] BY <1>2
<1>6. \A x \in 1..n : v[x] = x => g[x] = x BY <1>2
<1>7. g = [x \in 1..n |-> g[x]] BY <1>1
<1> QED BY <1>4, <1>5, <1>6, <1>7 DEF n, g

\* A map that agrees with every link and fixes every root is find_root.
LEMMA RootUnique ==
  ASSUME NEW v, Forest(v), NEW h, FollowsLinks(v, h)
  PROVE  \A x \in 1..Len(v) : RootOf(v)[x] = h[x]
<1> DEFINE n == Len(v)
           g == RootOf(v)
           T == {x \in 1..n : g[x] # h[x]}
<1>0. n \in Nat /\ \A x \in 1..n : v[x] \in 1..x
  BY DEF Forest
<1>1. \A x \in 1..n : g[x] = IF v[x] = x THEN x ELSE g[v[x]]
  BY RootEquation DEF RootStep
<1>2. \A x \in 1..n : h[x] = IF v[x] = x THEN x ELSE h[v[x]]
  BY DEF FollowsLinks
<1> HIDE DEF n, g
<1>3. ASSUME T # {} PROVE FALSE
  <2>1. PICK x \in T : \A y \in T : x <= y
    <3> T \subseteq Nat BY <1>0
    <3> HIDE DEF T
    <3> QED BY <1>3, LeastElement
  <2>2. x \in 1..n /\ v[x] \in 1..x /\ g[x] # h[x] BY <1>0
  <2>3. v[x] # x BY <2>2, <1>1, <1>2
  <2>4. v[x] \in 1..n /\ v[x] < x BY <2>2, <2>3, <1>0
  <2>5. v[x] \notin T BY <2>1, <2>4, <2>2
  <2>6. g[v[x]] = h[v[x]] BY <2>4, <2>5
  <2> QED BY <2>2, <2>3, <2>6, <1>1, <1>2
<1> QED BY <1>3 DEF n, g
-----------------------------------------------------------------------------
\* Pointing an entry at its grandparent, what both loops do, keeps the forest,
\* its roots and the root of every id.
LEMMA GrandparentStep ==
  ASSUME NEW v, Forest(v), NEW c \in 1..Len(v), NEW w,
         w = [v EXCEPT ![c] = v[v[c]]]
  PROVE  /\ Forest(w) /\ Len(w) = Len(v)
         /\ RootSet(w) = RootSet(v)
         /\ RootOf(w) = RootOf(v)
<1>0. Len(v) \in Nat /\ \A x \in 1..Len(v) : v[x] \in 1..x /\ v[x] \in 1..Len(v) /\ v[x] \in Nat
  BY DEF Forest
<1>1. Len(w) = Len(v) /\ w \in Seq(Nat)
  BY <1>0 DEF Forest
<1>2. \A x \in 1..Len(v) : w[x] = IF x = c THEN v[v[c]] ELSE v[x]
  BY <1>0 DEF Forest
<1>3. v[v[c]] \in 1..v[c] BY <1>0
<1>4. Forest(w)
  BY <1>0, <1>1, <1>2, <1>3 DEF Forest
<1>5. \A x \in 1..Len(v) : w[x] = x <=> v[x] = x
  BY <1>0, <1>2, <1>3
<1>6. FollowsLinks(w, RootOf(v))
  <2> DEFINE g == RootOf(v)
  <2>1. \A x \in 1..Len(v) : g[v[x]] = g[x] /\ (v[x] = x => g[x] = x)
    BY RootFacts
  <2> HIDE DEF g
  <2>2. \A x \in 1..Len(v) : g[w[x]] = g[x] /\ (w[x] = x => g[x] = x)
    BY <2>1, <1>0, <1>2, <1>5
  <2> QED BY <2>2, <1>1 DEF FollowsLinks, g
<1>7. \A x \in 1..Len(w) : RootOf(w)[x] = RootOf(v)[x]
  <2> DEFINE h == RootOf(v)
  <2>1. FollowsLinks(w, h) BY <1>6
  <2> HIDE DEF h
  <2>2. \A x \in 1..Len(w) : RootOf(w)[x] = h[x] BY <1>4, <2>1, RootUnique
  <2> QED BY <2>2 DEF h
<1>8. RootOf(w) = RootOf(v)
  <2>1. RootOf(w) = [x \in 1..Len(v) |-> RootOf(w)[x]] BY <1>4, <1>1, RootFacts
  <2>2. RootOf(v) = [x \in 1..Len(v) |-> RootOf(v)[x]] BY RootFacts
  <2> QED BY <2>1, <2>2, <1>7, <1>1
<1>9. RootSet(w) = RootSet(v) BY <1>1, <1>5 DEF RootSet
<1> QED BY <1>1, <1>4, <1>8, <1>9

\* Linking a root below a smaller root moves exactly its class.
LEMMA LinkStep ==
  ASSUME NEW v, Forest(v), NEW lo \in 1..Len(v), NEW hi \in 1..Len(v), NEW w,
         v[lo] = lo, v[hi] = hi, lo < hi,
         w = [v EXCEPT ![hi] = lo]
  PROVE  /\ Forest(w) /\ Len(w) = Len(v)
         /\ RootSet(w) = RootSet(v) \ {hi}
         /\ RootOf(w) = Moved(v, hi, lo)
<1> DEFINE h == [x \in 1..Len(v) |-> IF RootOf(v)[x] = hi THEN lo ELSE RootOf(v)[x]]
<1>0. Len(v) \in Nat /\ \A x \in 1..Len(v) : v[x] \in 1..x /\ v[x] \in 1..Len(v) /\ v[x] \in Nat
  BY DEF Forest
<1>1. Len(w) = Len(v) /\ w \in Seq(Nat)
  BY <1>0 DEF Forest
<1>2. \A x \in 1..Len(v) : w[x] = IF x = hi THEN lo ELSE v[x]
  BY <1>0 DEF Forest
<1>3. Forest(w)
  BY <1>0, <1>1, <1>2 DEF Forest
<1>4. \A x \in 1..Len(v) : w[x] = x <=> v[x] = x /\ x # hi
  BY <1>0, <1>2
<1>5. FollowsLinks(w, h)
  <2> SUFFICES ASSUME NEW x \in 1..Len(v)
               PROVE  h[x] = IF w[x] = x THEN x ELSE h[w[x]]
    BY <1>1 DEF FollowsLinks
  <2>1. RootOf(v)[lo] = lo /\ RootOf(v)[hi] = hi BY RootFacts
  <2>2. CASE x = hi BY <2>1, <2>2, <1>2
  <2>3. CASE x # hi /\ v[x] = x
    <3>1. RootOf(v)[x] = x /\ w[x] = x BY <2>3, <1>2, RootFacts
    <3> QED BY <3>1, <2>3
  <2>4. CASE x # hi /\ v[x] # x
    <3>1. RootOf(v)[v[x]] = RootOf(v)[x] /\ w[x] = v[x] BY <2>4, <1>2, RootFacts
    <3> QED BY <3>1, <2>4, <1>0
  <2> QED BY <2>2, <2>3, <2>4
<1>6. \A x \in 1..Len(w) : RootOf(w)[x] = h[x]
  <2> HIDE DEF h
  <2> QED BY <1>3, <1>5, RootUnique
<1>7. RootOf(w) = h
  <2>1. RootOf(w) = [x \in 1..Len(v) |-> RootOf(w)[x]] BY <1>3, <1>1, RootFacts
  <2> QED BY <2>1, <1>6, <1>1
<1> QED BY <1>1, <1>3, <1>4, <1>7 DEF RootSet, Moved

\* A fresh id is a class of its own and disturbs no other.
LEMMA AppendStep ==
  ASSUME NEW v, Forest(v), NEW w, w = Append(v, Len(v) + 1)
  PROVE  /\ Forest(w) /\ Len(w) = Len(v) + 1
         /\ RootSet(w) = RootSet(v) \cup {Len(v) + 1}
         /\ RootOf(w) = Append(RootOf(v), Len(v) + 1)
<1> DEFINE n == Len(v)
           h == [x \in 1..(n + 1) |-> IF x = n + 1 THEN n + 1 ELSE RootOf(v)[x]]
<1>0. n \in Nat /\ \A x \in 1..n : v[x] \in 1..x /\ v[x] \in 1..n /\ v[x] \in Nat
  BY DEF Forest
<1>1. Len(w) = n + 1 /\ w \in Seq(Nat)
  BY <1>0 DEF Forest
<1>2. \A x \in 1..(n + 1) : w[x] = IF x = n + 1 THEN n + 1 ELSE v[x]
  BY <1>0 DEF Forest
<1>3. Forest(w)
  BY <1>0, <1>1, <1>2 DEF Forest
<1>4. {x \in 1..Len(w) : w[x] = x} = {x \in 1..n : v[x] = x} \cup {n + 1}
  BY <1>0, <1>1, <1>2
<1>5. FollowsLinks(w, h)
  BY <1>0, <1>1, <1>2, RootFacts DEF FollowsLinks
<1>6. \A x \in 1..Len(w) : RootOf(w)[x] = h[x]
  <2> HIDE DEF h
  <2> QED BY <1>3, <1>5, RootUnique
<1>7. RootOf(w) = h
  <2>1. RootOf(w) = [x \in 1..(n + 1) |-> RootOf(w)[x]] BY <1>3, <1>1, RootFacts
  <2> QED BY <2>1, <1>6, <1>1
<1>8. RootOf(v) \in Seq(Nat) /\ Len(RootOf(v)) = n
  BY <1>0, RootFacts
<1>9. Append(RootOf(v), n + 1) = h
  BY <1>8, <1>0
<1> QED BY <1>1, <1>3, <1>4, <1>7, <1>9 DEF RootSet
-----------------------------------------------------------------------------
Roots == RootSet(vec)

\* What the loops maintain while they run: find_root_mut stays in the class of
\* its argument, normalize leaves every entry behind it pointing at a root.
LoopInv ==
  /\ pc = "find" => /\ arg \in Live /\ cursor \in Live
                    /\ RootOf(vec)[cursor] = RootOf(vec)[arg]
  /\ pc = "normalize" => /\ cursor \in 1..(Len(vec) + 1)
                         /\ \A x \in Live : x < cursor => vec[vec[x]] = vec[x]

Inv == TypeOK /\ Forest(vec) /\ CountsClasses /\ LoopInv

\* The roots are a finite set: eclasses() counts them.
LEMMA RootsFinite ==
  ASSUME Inv
  PROVE  IsFiniteSet(Roots) /\ Cardinality(Roots) = nclasses
<1>1. Len(vec) \in Nat BY DEF Inv, TypeOK
<1>2. IsFiniteSet(1..Len(vec)) BY <1>1, FS_Interval
<1>3. IsFiniteSet(Roots) BY <1>2, FS_Subset DEF Roots, RootSet
<1> QED BY <1>3 DEF Inv, CountsClasses, Roots, RootSet, Live

\* The empty union-find satisfies the invariant.
LEMMA InitInv == Init => Inv
<1> SUFFICES ASSUME Init PROVE Inv OBVIOUS
<1> USE MaxIdsAssumption DEF Init
<1>1. Len(vec) = 0 /\ vec \in Seq(Ids) /\ vec \in Seq(Nat) BY DEF Ids
<1>2. TypeOK BY <1>1 DEF TypeOK
<1>3. Forest(vec) BY <1>1 DEF Forest
<1>4. CountsClasses
  <2>1. {x \in Live : vec[x] = x} = {} BY <1>1 DEF Live
  <2> QED BY <2>1, FS_EmptySet DEF CountsClasses
<1>5. LoopInv BY DEF LoopInv
<1> QED BY <1>2, <1>3, <1>4, <1>5 DEF Inv

\* make_set adds one root and counts it.
LEMMA MakeSetInv ==
  ASSUME Inv, MakeSet
  PROVE  Inv' /\ RootOf(vec') = Append(RootOf(vec), Len(vec) + 1)
<1> USE MaxIdsAssumption
<1>0. Len(vec) \in Nat /\ Len(vec) < MaxIds /\ Forest(vec) /\ vec \in Seq(Ids)
  BY DEF Inv, TypeOK, MakeSet
<1>1. /\ Forest(vec') /\ Len(vec') = Len(vec) + 1
      /\ Roots' = Roots \cup {Len(vec) + 1}
      /\ RootOf(vec') = Append(RootOf(vec), Len(vec) + 1)
  <2> DEFINE w == vec'
  <2>1. w = Append(vec, Len(vec) + 1) BY DEF MakeSet
  <2> HIDE DEF w
  <2>2. /\ Forest(w) /\ Len(w) = Len(vec) + 1
        /\ RootSet(w) = RootSet(vec) \cup {Len(vec) + 1}
        /\ RootOf(w) = Append(RootOf(vec), Len(vec) + 1)
    BY <1>0, <2>1, AppendStep
  <2> QED BY <2>2 DEF Roots, w
<1>2. Len(vec) + 1 \notin Roots BY <1>0 DEF Roots, RootSet
<1>3. Cardinality(Roots') = nclasses + 1
  BY <1>1, <1>2, RootsFinite, FS_AddElement
<1>4. CountsClasses' BY <1>3 DEF CountsClasses, Roots, RootSet, Live, MakeSet
<1>5. IsFiniteSet(1..MaxIds) /\ Cardinality(1..MaxIds) = MaxIds BY FS_Interval
<1>6. nclasses' \in 0..MaxIds
  <2>1. Roots' \subseteq 1..MaxIds BY <1>0, <1>1 DEF Roots, RootSet
  <2>2. Cardinality(Roots') <= MaxIds BY <2>1, <1>5, FS_Subset
  <2> QED BY <2>2, <1>3 DEF MakeSet, Inv, TypeOK
<1>7. TypeOK'
  <2>1. vec' \in Seq(Ids) BY <1>0 DEF MakeSet, Ids
  <2> QED BY <2>1, <1>0, <1>1, <1>6 DEF MakeSet, Inv, TypeOK
<1>8. LoopInv' BY DEF MakeSet, LoopInv
<1> QED BY <1>1, <1>4, <1>7, <1>8 DEF Inv

\* unify removes one root and counts it, or does nothing.
LEMMA UnifyInv ==
  ASSUME Inv, NEW a \in Live, NEW b \in Live, Unify(a, b)
  PROVE  Inv' /\ RootOf(vec') = Abs!Merged(RootOf(vec), a, b)
<1> USE MaxIdsAssumption
<1> DEFINE g == RootOf(vec)
           lo == IF g[a] < g[b] THEN g[a] ELSE g[b]
           hi == IF g[a] < g[b] THEN g[b] ELSE g[a]
<1>0. Len(vec) \in Nat /\ Len(vec) <= MaxIds /\ Forest(vec) /\ vec \in Seq(Ids)
  BY DEF Inv, TypeOK
<1>1. \A x \in Live : g[x] \in Live /\ vec[g[x]] = g[x]
  BY <1>0, RootFacts DEF Live
<1>2. DOMAIN g = 1..Len(vec) /\ Len(g) = Len(vec) /\ g = [x \in 1..Len(vec) |-> g[x]]
  <2>1. g = [x \in 1..Len(vec) |-> g[x]] BY <1>0, RootFacts
  <2> HIDE DEF g
  <2> QED BY <2>1, <1>0
<1> HIDE DEF g
<1>3. lo \in Live /\ hi \in Live /\ vec[lo] = lo /\ vec[hi] = hi
  BY <1>1
<1>4. Abs!Merged(g, a, b) = [x \in 1..Len(vec) |-> IF g[x] = hi THEN lo ELSE g[x]]
  BY <1>2 DEF Abs!Merged
<1>5. CASE g[a] = g[b]
  <2>1. UNCHANGED vars BY <1>5 DEF Unify, vars, g
  <2>2. Inv' BY <2>1 DEF vars, Inv, TypeOK, Forest, CountsClasses, LoopInv, Live
  <2>3. [x \in 1..Len(vec) |-> IF g[x] = hi THEN lo ELSE g[x]] = g
    BY <1>5, <1>2
  <2> QED BY <2>1, <2>2, <2>3, <1>4 DEF g, vars
<1>6. CASE g[a] # g[b]
  <2>1. lo < hi
    <3>1. g[a] \in Nat /\ g[b] \in Nat BY <1>0, <1>1 DEF Live
    <3> QED BY <3>1, <1>6
  <2>2. vec' = [vec EXCEPT ![hi] = lo] /\ nclasses' = nclasses - 1
        /\ UNCHANGED <<pc, arg, cursor, ret>> /\ pc = "idle"
    BY <1>6 DEF Unify, g
  <2> HIDE DEF lo, hi
  <2>3. /\ Forest(vec') /\ Len(vec') = Len(vec)
        /\ Roots' = Roots \ {hi}
        /\ RootOf(vec') = [x \in 1..Len(vec) |-> IF g[x] = hi THEN lo ELSE g[x]]
    <3> DEFINE w == vec'
    <3>1. w = [vec EXCEPT ![hi] = lo] BY <2>2
    <3> HIDE DEF w
    <3>2. lo \in 1..Len(vec) /\ hi \in 1..Len(vec) BY <1>3 DEF Live
    <3>3. /\ Forest(w) /\ Len(w) = Len(vec)
          /\ RootSet(w) = RootSet(vec) \ {hi}
          /\ RootOf(w) = Moved(vec, hi, lo)
      <4>1. Forest(vec) /\ vec[lo] = lo /\ vec[hi] = hi /\ lo < hi BY <1>0, <1>3, <2>1
      <4> HIDE DEF g
      <4>2. \A u : u = [vec EXCEPT ![hi] = lo] =>
              /\ Forest(u) /\ Len(u) = Len(vec)
              /\ RootSet(u) = RootSet(vec) \ {hi}
              /\ RootOf(u) = Moved(vec, hi, lo)
        BY <4>1, <3>2, LinkStep
      <4> QED BY <4>2, <3>1
    <3>4. Roots' = RootSet(w) /\ Roots = RootSet(vec) BY DEF Roots, w
    <3>5. RootOf(w) = [x \in 1..Len(vec) |-> IF g[x] = hi THEN lo ELSE g[x]]
      BY <3>3 DEF Moved, g
    <3>6. Forest(vec') /\ Len(vec') = Len(vec) /\ RootOf(vec') = RootOf(w)
      BY <3>3 DEF w
    <3> QED BY <3>3, <3>4, <3>5, <3>6, Zenon
  <2>4. hi \in Roots BY <1>3 DEF Roots, RootSet, Live
  <2>5. IsFiniteSet(Roots) /\ Cardinality(Roots) = nclasses BY RootsFinite
  <2>6. Cardinality(Roots') = nclasses - 1 BY <2>3, <2>4, <2>5, FS_RemoveElement
  <2>7. CountsClasses' BY <2>2, <2>6 DEF CountsClasses, Roots, RootSet, Live
  <2>8. nclasses' \in 0..MaxIds
    <3>1. IsFiniteSet(Roots') BY <2>3, <2>5, FS_Subset
    <3>2. Cardinality(Roots') \in Nat BY <3>1, FS_CardinalityType
    <3> QED BY <3>2, <2>2, <2>6 DEF Inv, TypeOK
  <2>9. TypeOK'
    <3>1. lo \in Ids BY <1>3, <1>0 DEF Ids, Live
    <3>2. vec' \in Seq(Ids) BY <1>0, <1>3, <3>1, <2>2, ExceptSeq DEF Live
    <3> QED BY <3>2, <2>2, <2>3, <2>8 DEF Inv, TypeOK
  <2>10. LoopInv' BY <2>2 DEF LoopInv
  <2> QED BY <2>3, <2>7, <2>9, <2>10, <1>4 DEF Inv, g
<1> QED BY <1>5, <1>6

\* A call of find_root_mut starts its loop at the argument.
LEMMA FindRootMutInv ==
  ASSUME Inv, NEW a \in Live, FindRootMut(a)
  PROVE  Inv' /\ vec' = vec
<1>1. vec' = vec /\ nclasses' = nclasses BY DEF FindRootMut
<1>2. a \in 0..MaxIds
  <2>1. Len(vec) \in Nat /\ Len(vec) <= MaxIds BY DEF Inv, TypeOK
  <2> QED BY <2>1, MaxIdsAssumption DEF Live
<1>3. TypeOK' BY <1>1, <1>2, MaxIdsAssumption DEF FindRootMut, Inv, TypeOK
<1>4. LoopInv' BY <1>1 DEF FindRootMut, Inv, LoopInv, Live
<1> QED BY <1>1, <1>3, <1>4 DEF Inv, Forest, CountsClasses, Live

\* The part the two loop bodies share.
LEMMA LoopBody ==
  ASSUME Inv, cursor \in Live, vec' = [vec EXCEPT ![cursor] = vec[vec[cursor]]],
         nclasses' = nclasses
  PROVE  /\ Forest(vec') /\ Len(vec') = Len(vec) /\ vec' \in Seq(Ids)
         /\ CountsClasses'
         /\ RootOf(vec') = RootOf(vec)
         /\ \A x \in Live : vec'[x] = IF x = cursor THEN vec[vec[cursor]] ELSE vec[x]
<1>0. Len(vec) \in Nat /\ Forest(vec) /\ vec \in Seq(Ids)
  BY DEF Inv, TypeOK
<1> DEFINE w == vec'
<1>1. w = [vec EXCEPT ![cursor] = vec[vec[cursor]]] /\ cursor \in 1..Len(vec)
  BY DEF Live
<1>2. vec[vec[cursor]] \in Ids
  <2>1. vec[cursor] \in 1..Len(vec) BY <1>0, <1>1 DEF Forest
  <2> QED BY <1>0, <2>1, ElementOfSeq
<1> HIDE DEF w
<1>3. /\ Forest(w) /\ Len(w) = Len(vec)
      /\ RootSet(w) = RootSet(vec)
      /\ RootOf(w) = RootOf(vec)
  <2> DEFINE c == cursor
             v == vec
  <2>1. Forest(v) /\ c \in 1..Len(v) /\ w = [v EXCEPT ![c] = v[v[c]]]
    BY <1>0, <1>1
  <2> HIDE DEF c, v
  <2>2. /\ Forest(w) /\ Len(w) = Len(v)
        /\ RootSet(w) = RootSet(v)
        /\ RootOf(w) = RootOf(v)
    BY <2>1, GrandparentStep
  <2> QED BY <2>2 DEF v
<1>5. CountsClasses' BY <1>3 DEF Inv, CountsClasses, RootSet, Live, w
<1>6. /\ w \in Seq(Ids)
      /\ \A x \in 1..Len(vec) : w[x] = IF x = cursor THEN vec[vec[cursor]] ELSE vec[x]
  BY <1>0, <1>1, <1>2, ExceptSeq
<1> QED BY <1>3, <1>5, <1>6 DEF w, Live

\* An iteration of _find_root_ph stays in the class of the argument.
LEMMA HalvePathInv ==
  ASSUME Inv, HalvePath
  PROVE  Inv' /\ RootOf(vec') = RootOf(vec)
<1>0. Len(vec) \in Nat /\ Forest(vec) /\ vec \in Seq(Ids) /\ Len(vec) <= MaxIds
  BY DEF Inv, TypeOK
<1>1. cursor \in Live /\ arg \in Live /\ RootOf(vec)[cursor] = RootOf(vec)[arg]
  BY DEF HalvePath, Inv, LoopInv
<1>2. /\ Forest(vec') /\ Len(vec') = Len(vec) /\ vec' \in Seq(Ids)
      /\ CountsClasses'
      /\ RootOf(vec') = RootOf(vec)
      /\ \A x \in Live : vec'[x] = IF x = cursor THEN vec[vec[cursor]] ELSE vec[x]
  BY <1>1, LoopBody DEF HalvePath
<1>3. cursor' = vec[vec[cursor]] BY <1>1, <1>2 DEF HalvePath
<1>4. vec[cursor] \in 1..Len(vec) /\ vec[vec[cursor]] \in 1..Len(vec)
  BY <1>0, <1>1 DEF Forest, Live
<1>5. RootOf(vec)[vec[vec[cursor]]] = RootOf(vec)[cursor]
  BY <1>0, <1>1, <1>4, RootFacts DEF Live
<1>6. TypeOK' BY <1>0, <1>2, <1>3, <1>4, MaxIdsAssumption DEF HalvePath, Inv, TypeOK
<1>7. LoopInv' BY <1>1, <1>2, <1>3, <1>4, <1>5 DEF HalvePath, LoopInv, Live
<1> QED BY <1>2, <1>6, <1>7 DEF Inv

\* An iteration of normalize flattens one more entry and unflattens none.
LEMMA NormalizeEntryInv ==
  ASSUME Inv, NormalizeEntry
  PROVE  Inv' /\ RootOf(vec') = RootOf(vec)
<1>0. Len(vec) \in Nat /\ Forest(vec) /\ vec \in Seq(Ids) /\ Len(vec) <= MaxIds
  BY DEF Inv, TypeOK
<1>1. /\ cursor \in Live /\ cursor' = cursor + 1
      /\ \A x \in Live : x < cursor => vec[vec[x]] = vec[x]
  BY <1>0 DEF NormalizeEntry, Inv, LoopInv, Live
<1>2. /\ Forest(vec') /\ Len(vec') = Len(vec) /\ vec' \in Seq(Ids)
      /\ CountsClasses'
      /\ RootOf(vec') = RootOf(vec)
      /\ \A x \in Live : vec'[x] = IF x = cursor THEN vec[vec[cursor]] ELSE vec[x]
  BY <1>1, LoopBody DEF NormalizeEntry
<1>3. TypeOK' BY <1>0, <1>1, <1>2, MaxIdsAssumption DEF NormalizeEntry, Inv, TypeOK, Live
<1>4. \A x \in Live : x < cursor + 1 => vec'[vec'[x]] = vec'[x]
  <2> SUFFICES ASSUME NEW x \in Live, x < cursor + 1 PROVE vec'[vec'[x]] = vec'[x]
    OBVIOUS
  <2>0. vec[x] \in 1..x /\ vec[x] \in Live /\ x \in Nat /\ cursor \in Nat
    BY <1>0, <1>1 DEF Forest, Live
  <2>1. CASE x < cursor
    <3>1. vec'[x] = vec[x] /\ vec[x] < cursor BY <2>0, <2>1, <1>2
    <3>2. vec'[vec[x]] = vec[vec[x]] BY <2>0, <3>1, <1>2
    <3> QED BY <3>1, <3>2, <2>1, <1>1
  <2>2. CASE x = cursor /\ vec[x] = x
    BY <2>0, <2>2, <1>2
  <2>3. CASE x = cursor /\ vec[x] # x
    <3>1. vec[x] < cursor BY <2>0, <2>3
    <3>2. vec[vec[vec[x]]] = vec[vec[x]] BY <3>1, <2>0, <1>1
    <3>3. vec'[x] = vec[vec[x]] BY <2>3, <2>0, <1>2
    <3>4. vec[vec[x]] \in 1..vec[x] /\ vec[vec[x]] \in Live /\ vec[vec[x]] # cursor
      BY <2>0, <3>1, <1>0 DEF Forest, Live
    <3> QED BY <3>2, <3>3, <3>4, <1>2
  <2> QED BY <2>0, <2>1, <2>2, <2>3
<1>5. LoopInv' BY <1>0, <1>1, <1>2, <1>4 DEF NormalizeEntry, LoopInv, Live
<1> QED BY <1>2, <1>3, <1>5 DEF Inv

\* The end of a loop and the start of normalize leave the vector alone.
LEMMA ReturnInv ==
  ASSUME Inv, FindReturn \/ NormalizeReturn \/ Normalize
  PROVE  Inv' /\ vec' = vec
<1>1. vec' = vec /\ nclasses' = nclasses
  BY DEF FindReturn, NormalizeReturn, Normalize
<1>2. TypeOK'
  <2>1. pc = "find" => cursor \in 0..MaxIds
    <3>1. Len(vec) \in Nat /\ Len(vec) <= MaxIds BY DEF Inv, TypeOK
    <3> QED BY <3>1, MaxIdsAssumption DEF Inv, LoopInv, Live
  <2>2. 1 \in 0..(MaxIds + 1) BY MaxIdsAssumption
  <2> QED
    BY <1>1, <2>1, <2>2 DEF FindReturn, NormalizeReturn, Normalize, Inv, TypeOK
<1>3. LoopInv'
  <2>1. Len(vec) \in Nat /\ \A x \in Live : ~(x < 1) BY DEF Inv, TypeOK, Live
  <2> QED BY <1>1, <2>1 DEF FindReturn, NormalizeReturn, Normalize, LoopInv, Live
<1> QED BY <1>1, <1>2, <1>3 DEF Inv, Forest, CountsClasses, Live

\* Every step of the union-find keeps the invariant.
LEMMA NextInv == Inv /\ [Next]_vars => Inv'
<1> SUFFICES ASSUME Inv, [Next]_vars PROVE Inv' OBVIOUS
<1>1. CASE MakeSet BY <1>1, MakeSetInv
<1>2. ASSUME NEW a \in Live, NEW b \in Live, Unify(a, b) PROVE Inv'
  BY <1>2, UnifyInv
<1>3. ASSUME NEW a \in Live, FindRootMut(a) PROVE Inv' BY <1>3, FindRootMutInv
<1>4. CASE Normalize BY <1>4, ReturnInv
<1>5. CASE HalvePath BY <1>5, HalvePathInv
<1>6. CASE FindReturn BY <1>6, ReturnInv
<1>7. CASE NormalizeEntry BY <1>7, NormalizeEntryInv
<1>8. CASE NormalizeReturn BY <1>8, ReturnInv
<1>9. CASE UNCHANGED vars
  BY <1>9 DEF vars, Inv, TypeOK, Forest, CountsClasses, LoopInv, Live
<1> QED
  BY <1>1, <1>2, <1>3, <1>4, <1>5, <1>6, <1>7, <1>8, <1>9 DEF Next, LoopStep

\* The union-find keeps its inductive invariant, for every number of ids.
THEOREM Invariance == Spec => []Inv
BY InitInv, NextInv, PTL DEF Spec

\* Every variable keeps its type: no parent ever points outside the vector.
THEOREM TypeCorrect == Spec => []TypeOK
<1>1. Inv => TypeOK BY DEF Inv
<1> QED BY <1>1, Invariance, PTL

\* eclasses() is the number of roots in every reachable state.
THEOREM Counting == Spec => []CountsClasses
<1>1. Inv => CountsClasses BY DEF Inv
<1> QED BY <1>1, Invariance, PTL

\* find_root_mut returns the root of its argument.
THEOREM FindCorrect == Spec => FindReturnsRoot
<1>1. Inv /\ [Next]_vars => [pc = "find" /\ pc' = "idle" => ret' = RootOf(vec)[arg]]_vars
  <2> SUFFICES ASSUME Inv, Next, pc = "find", pc' = "idle"
               PROVE  ret' = RootOf(vec)[arg]
    OBVIOUS
  <2>1. FindReturn
    BY DEF Next, LoopStep, MakeSet, Unify, FindRootMut, Normalize, HalvePath,
           NormalizeEntry, NormalizeReturn
  <2>2. cursor \in Live /\ RootOf(vec)[cursor] = RootOf(vec)[arg] /\ Forest(vec)
    BY DEF Inv, LoopInv
  <2>3. RootOf(vec)[cursor] = cursor BY <2>1, <2>2, RootFacts DEF FindReturn, Live
  <2> QED BY <2>1, <2>2, <2>3 DEF FindReturn
<1> QED BY <1>1, Invariance, PTL DEF Spec, FindReturnsRoot

\* One pass of normalize leaves every id pointing at a root.
THEOREM NormalizeCorrect == Spec => NormalizeFlattens
<1>1. Inv /\ [Next]_vars =>
        [pc = "normalize" /\ pc' = "idle" => \A x \in Live : vec[vec[x]] = vec[x]]_vars
  <2> SUFFICES ASSUME Inv, Next, pc = "normalize", pc' = "idle", NEW x \in Live
               PROVE  vec[vec[x]] = vec[x]
    OBVIOUS
  <2>1. NormalizeReturn
    BY DEF Next, LoopStep, MakeSet, Unify, FindRootMut, Normalize, HalvePath,
           NormalizeEntry, FindReturn
  <2>2. Len(vec) \in Nat /\ cursor \in Nat /\ x < cursor
    BY <2>1 DEF NormalizeReturn, Inv, TypeOK, Live
  <2> QED BY <2>2 DEF Inv, LoopInv
<1> QED BY <1>1, Invariance, PTL DEF Spec, NormalizeFlattens

\* The parent vector implements the partition: every step of the union-find is
\* a step of Partition on the roots, or leaves the roots alone.
THEOREM Implementation == Spec => ImplementsPartition
<1> DEFINE g == RootOf(vec)
<1>1. Init => Abs!Init
  <2> SUFFICES ASSUME Init PROVE RootOf(vec) = << >> BY DEF Abs!Init
  <2>1. Forest(vec) /\ Len(vec) = 0 BY DEF Init, Forest
  <2>2. RootOf(vec) = [x \in 1..0 |-> RootOf(vec)[x]] BY <2>1, RootFacts
  <2> QED BY <2>2
<1>2. Inv /\ [Next]_vars => [Abs!Next]_g
  <2> SUFFICES ASSUME Inv, [Next]_vars PROVE [Abs!Next]_g OBVIOUS
  <2>0. Len(vec) \in Nat /\ Forest(vec) BY DEF Inv, TypeOK
  <2>1. Len(RootOf(vec)) = Len(vec)
    <3>1. RootOf(vec) = [x \in 1..Len(vec) |-> RootOf(vec)[x]] BY <2>0, RootFacts
    <3> QED BY <3>1, <2>0
  <2>2. CASE MakeSet
    BY <2>2, <2>1, MakeSetInv DEF MakeSet, Abs!Next, Abs!MakeSet
  <2>3. ASSUME NEW a \in Live, NEW b \in Live, Unify(a, b) PROVE Abs!Next
    BY <2>3, <2>1, UnifyInv DEF Live, Abs!Next, Abs!Union, Abs!Live
  <2>4. ASSUME NEW a \in Live, FindRootMut(a) PROVE UNCHANGED g
    BY <2>4, FindRootMutInv
  <2>5. CASE Normalize \/ FindReturn \/ NormalizeReturn BY <2>5, ReturnInv
  <2>6. CASE HalvePath BY <2>6, HalvePathInv
  <2>7. CASE NormalizeEntry BY <2>7, NormalizeEntryInv
  <2>8. CASE UNCHANGED vars BY <2>8 DEF vars
  <2> QED BY <2>2, <2>3, <2>4, <2>5, <2>6, <2>7, <2>8 DEF Next, LoopStep
<1> QED BY <1>1, <1>2, Invariance, PTL DEF Spec, ImplementsPartition, Abs!Spec
=============================================================================
