---------------------------- MODULE EGraphProofs ----------------------------
(***************************************************************************)
(* Proofs about EGraph, for every choice of operators, order of the        *)
(* relations and caller.  First the type invariant: no id in the memo, the *)
(* relations or the scan is dangling.  Then closure: flattening starts on  *)
(* a closed relation; the memo and the database describe the same e-nodes  *)
(* up to equivalence at every step of rebuild; in a row store just rebuilt *)
(* the arguments determine the class; a rebuild that returns false leaves  *)
(* the e-graph closed under congruence.                                    *)
(***************************************************************************)
EXTENDS EGraph, BasicLemmas, TLAPS, SequenceTheorems

\* What makes a union-find: the parts of UF!IsPartition.
LEMMA PartitionFacts ==
  ASSUME UF!IsPartition
  PROVE  /\ rep \in Seq(Ids) /\ Len(rep) \in Nat /\ Len(rep) <= MaxIds
         /\ rep \in [1..Len(rep) -> Ids] /\ DOMAIN rep = Live
         /\ Live \subseteq Ids
         /\ \A x \in Live : /\ rep[x] \in Live /\ rep[x] <= x
                            /\ rep[rep[x]] = rep[x]
<1>1. rep \in Seq(Ids) /\ Len(rep) <= MaxIds BY DEF UF!IsPartition, UF!Ids, Ids
<1>2. Len(rep) \in Nat /\ rep \in [1..Len(rep) -> Ids] /\ DOMAIN rep = 1..Len(rep)
  BY <1>1
<1>3. Live \subseteq Ids BY <1>1, <1>2, MaxIdsAssumption DEF Live, Ids
<1>4. \A x \in Live : rep[x] <= x /\ rep[rep[x]] = rep[x]
  BY DEF UF!IsPartition, UF!Live, Live
<1>5. \A x \in Live : rep[x] \in Live
  BY <1>2, <1>4, MaxIdsAssumption DEF Live, Ids
<1> QED BY <1>1, <1>2, <1>3, <1>4, <1>5 DEF Live

\* unify keeps a partition and moves every id of one class to the root of the
\* other.
LEMMA UnionFacts ==
  ASSUME UF!IsPartition, NEW a \in Live, NEW b \in Live, UF!Union(a, b)
  PROVE  /\ UF!IsPartition' /\ Len(rep') = Len(rep)
         /\ \A x \in Live : rep'[x] \in {rep[x], rep[a], rep[b]}
         /\ \A x \in Live : rep'[x] # rep[x] =>
              rep[x] \in {rep[a], rep[b]} /\ rep'[x] \in {rep[a], rep[b]}
         /\ rep'[a] = rep'[b] /\ rep'[a] \in {rep[a], rep[b]}
<1> DEFINE lo == IF rep[a] < rep[b] THEN rep[a] ELSE rep[b]
           hi == IF rep[a] < rep[b] THEN rep[b] ELSE rep[a]
           n  == Len(rep)
           r  == [x \in 1..n |-> IF rep[x] = hi THEN lo ELSE rep[x]]
<1>1. rep' = r BY DEF UF!Union, UF!Merged
<1>2. /\ n \in Nat /\ n <= MaxIds /\ Live = 1..n /\ Live \subseteq Ids
      /\ \A x \in 1..n : rep[x] \in 1..n /\ rep[x] <= x /\ rep[rep[x]] = rep[x]
  BY PartitionFacts DEF Live
<1>3. /\ lo \in {rep[a], rep[b]} /\ hi \in {rep[a], rep[b]} /\ lo <= hi
      /\ lo \in 1..n /\ hi \in 1..n /\ rep[lo] = lo /\ rep[hi] = hi
      /\ rep[a] \in {lo, hi} /\ rep[b] \in {lo, hi}
  BY <1>2
<1> HIDE DEF lo, hi, n
<1>4. r \in [1..n -> Ids] /\ DOMAIN r = 1..n BY <1>2, <1>3
<1>5. r \in Seq(Ids) /\ Len(r) = n BY <1>4, <1>2
<1>6. \A x \in 1..n : r[x] = IF rep[x] = hi THEN lo ELSE rep[x] OBVIOUS
<1> HIDE DEF r
<1>7. \A x \in 1..n : r[x] <= x
  <2> SUFFICES ASSUME NEW x \in 1..n PROVE r[x] <= x OBVIOUS
  <2>1. CASE rep[x] = hi
    <3>1. r[x] = lo /\ hi <= x BY <2>1, <1>6, <1>2
    <3> QED BY <3>1, <1>2, <1>3
  <2>2. CASE rep[x] # hi BY <2>2, <1>6, <1>2
  <2> QED BY <2>1, <2>2
<1>8. \A x \in 1..n : r[r[x]] = r[x]
  <2> SUFFICES ASSUME NEW x \in 1..n PROVE r[r[x]] = r[x] OBVIOUS
  <2>1. CASE rep[x] = hi BY <2>1, <1>6, <1>3
  <2>2. CASE rep[x] # hi BY <2>2, <1>6, <1>2
  <2> QED BY <2>1, <2>2
<1>9. UF!IsPartition' /\ Len(rep') = Len(rep)
  BY <1>1, <1>2, <1>5, <1>7, <1>8
     DEF UF!IsPartition, UF!Ids, UF!Live, Ids, n
<1>10. /\ \A x \in Live : r[x] \in {rep[x], rep[a], rep[b]}
       /\ \A x \in Live : r[x] # rep[x] =>
            rep[x] \in {rep[a], rep[b]} /\ r[x] \in {rep[a], rep[b]}
  BY <1>2, <1>3, <1>6
<1>11. r[a] = lo /\ r[b] = lo
  BY <1>2, <1>3, <1>6
<1> QED BY <1>1, <1>3, <1>9, <1>10, <1>11

\* make_set hands out the next id and keeps every class.
LEMMA MakeSetFacts ==
  ASSUME UF!IsPartition, UF!MakeSet
  PROVE  /\ UF!IsPartition' /\ Len(rep') = Len(rep) + 1
         /\ rep'[Len(rep) + 1] = Len(rep) + 1
         /\ \A x \in Live : rep'[x] = rep[x]
<1> DEFINE n == Len(rep)
<1>1. /\ n \in Nat /\ n < MaxIds /\ rep \in Seq(Ids) /\ rep' = Append(rep, n + 1)
      /\ \A x \in 1..n : rep[x] \in 1..n /\ rep[x] <= x /\ rep[rep[x]] = rep[x]
  BY PartitionFacts DEF UF!MakeSet, Live
<1>2. n + 1 \in Ids BY <1>1, MaxIdsAssumption DEF Ids
<1>3. /\ rep' \in Seq(Ids) /\ Len(rep') = n + 1 /\ rep'[n + 1] = n + 1
      /\ \A x \in 1..n : rep'[x] = rep[x]
  BY <1>1, <1>2
<1> HIDE DEF n
<1>4. \A x \in 1..(n + 1) : rep'[x] <= x /\ rep'[rep'[x]] = rep'[x]
  <2> SUFFICES ASSUME NEW x \in 1..(n + 1)
               PROVE  rep'[x] <= x /\ rep'[rep'[x]] = rep'[x]
    OBVIOUS
  <2>1. CASE x = n + 1 BY <2>1, <1>3, <1>1
  <2>2. CASE x # n + 1
    <3>1. x \in 1..n BY <2>2, <1>1
    <3> QED BY <3>1, <1>1, <1>3
  <2> QED BY <2>1, <2>2
<1>5. UF!IsPartition'
  BY <1>1, <1>3, <1>4, MaxIdsAssumption DEF UF!IsPartition, UF!Ids, UF!Live, Ids
<1> QED BY <1>3, <1>5 DEF n, Live

\* While no id disappears, what was well typed stays well typed.
LEMMA StoreGrows ==
  ASSUME Len(rep) \in Nat, Len(rep') \in Nat, Len(rep) <= Len(rep')
  PROVE  /\ Live \subseteq Live'
         /\ \A op \in Ops : Args(op) \subseteq Args(op)' /\ Row(op) \subseteq Row(op)'
<1>1. Live \subseteq Live' BY DEF Live
<1>2. \A op \in Ops : Args(op) \subseteq Args(op)'
  <2> SUFFICES ASSUME NEW op \in Ops PROVE Args(op) \subseteq Args(op)' OBVIOUS
  <2>1. CASE op \in AcOps BY <2>1, <1>1 DEF Args
  <2>2. CASE op \notin AcOps
    <3>1. Args(op) = [1..Arity[op] -> Live] /\ Args(op)' = [1..Arity[op] -> Live']
      BY <2>2 DEF Args
    <3> QED BY <3>1, <1>1
  <2> QED BY <2>1, <2>2
<1>3. \A op \in Ops : Row(op) \subseteq Row(op)'
  <2> SUFFICES ASSUME NEW op \in Ops, NEW r \in Row(op) PROVE r \in Row(op)' OBVIOUS
  <2>1. r \in [args : Args(op), id : Live] BY DEF Row
  <2>2. Args(op) \subseteq Args(op)' BY <1>2
  <2>3. r \in [args : Args(op)', id : Live'] BY <2>1, <2>2, <1>1
  <2> QED BY <2>3 DEF Row
<1> QED BY <1>1, <1>2, <1>3

\* Canonical children are children the operator accepts.
LEMMA CanonArgsType ==
  ASSUME UF!IsPartition, NEW op \in Ops, NEW args \in Args(op)
  PROVE  CanonArgs(op, args) \in Args(op)
<1>1. CASE op \in AcOps
  <2>1. /\ args \in Mset /\ \A x \in Ids : args[x] > 0 => x \in Live
    BY <1>1 DEF Args
  <2>2. Renaming(Ids, Len(rep), args, rep)
    BY <2>1, PartitionFacts DEF Renaming, IsMset, Mset, Live
  <2> DEFINE c == MapMset(args, rep, Len(rep))
  <2>3. /\ IsMset(Ids, c)
        /\ \A x \in Ids : c[x] > 0 => \E k \in 1..Len(rep) : x = rep[k]
    BY <2>2, MapMsetType
  <2>4. \A k \in 1..Len(rep) : rep[k] \in Live BY PartitionFacts DEF Live
  <2>5. c \in Mset /\ \A x \in Ids : c[x] > 0 => x \in Live
    <3> HIDE DEF c
    <3> QED BY <2>3, <2>4 DEF IsMset, Mset
  <2> QED BY <2>5, <1>1 DEF CanonArgs, Args
<1>2. CASE op \notin AcOps
  <2>1. args \in [1..Arity[op] -> Live] BY <1>2 DEF Args
  <2>2. [i \in 1..Arity[op] |-> rep[args[i]]] \in [1..Arity[op] -> Live]
    BY <2>1, PartitionFacts
  <2> QED BY <2>2, <1>2 DEF CanonArgs, Args
<1> QED BY <1>1, <1>2

\* Canonical tuples are tuples.
LEMMA CanonRowType ==
  ASSUME UF!IsPartition, NEW op \in Ops, NEW r \in Row(op)
  PROVE  CanonRow(op, r) \in Row(op)
<1>1. r.args \in Args(op) /\ r.id \in Live BY DEF Row
<1>2. CanonArgs(op, r.args) \in Args(op) BY <1>1, CanonArgsType
<1>3. rep[r.id] \in Live BY <1>1, PartitionFacts
<1> QED BY <1>2, <1>3 DEF CanonRow, Row

\* What flatten and unflatten derive from two tuples is a tuple.
LEMMA DerivedRow ==
  ASSUME NEW op \in AcOps, Live \subseteq Ids, NEW a0 \in Row(op), NEW b0 \in Row(op)
  PROVE  /\ [args |-> InsertAll(Remove(a0.args, b0.id), b0.args), id |-> a0.id] \in Row(op)
         /\ [args |-> Insert(MsetDiff(a0.args, b0.args), b0.id), id |-> a0.id] \in Row(op)
<1>1. ASSUME NEW r \in Row(op)
      PROVE  /\ IsMset(Ids, r.args) /\ r.id \in Live /\ r.id \in Ids
             /\ \A x \in Ids : r.args[x] \in Nat /\ (r.args[x] > 0 => x \in Live)
  BY <1>1 DEF Row, Args, Mset, IsMset
<1>2. ASSUME NEW m, IsMset(Ids, m), NEW id \in Live,
             \A x \in Ids : m[x] > 0 => x \in Live
      PROVE  [args |-> m, id |-> id] \in Row(op)
  BY <1>2 DEF Row, Args, Mset, IsMset
<1>3. ASSUME NEW q \in Row(op), NEW r \in Row(op)
      PROVE  [args |-> InsertAll(Remove(q.args, r.id), r.args), id |-> q.id] \in Row(op)
  <2> DEFINE a == q.args
             b == r.args
             i == r.id
             c == Remove(a, i)
             m == InsertAll(c, b)
  <2>1. /\ IsMset(Ids, a) /\ IsMset(Ids, b) /\ q.id \in Live /\ i \in Ids
        /\ \A x \in Ids : a[x] \in Nat /\ (a[x] > 0 => x \in Live)
        /\ \A x \in Ids : b[x] \in Nat /\ (b[x] > 0 => x \in Live)
    BY <1>1
  <2> HIDE DEF a, b, i
  <2>2. IsMset(Ids, c) /\ \A x \in Ids : c[x] \in Nat /\ (c[x] > 0 => a[x] > 0)
    <3>1. IsMset(Ids, c) BY <2>1, InsertRemoveFacts
    <3>2. \A x \in Ids : c[x] = IF x = i THEN (IF a[x] > 0 THEN a[x] - 1 ELSE 0)
                                        ELSE a[x]
      BY <2>1, InsertRemoveFacts
    <3> HIDE DEF c
    <3> QED BY <3>1, <3>2, <2>1
  <2> HIDE DEF c
  <2>3. IsMset(Ids, m) /\ \A x \in Ids : m[x] = c[x] + b[x]
    BY <2>1, <2>2, SumDiffFacts
  <2> HIDE DEF m
  <2>4. \A x \in Ids : m[x] > 0 => x \in Live BY <2>1, <2>2, <2>3
  <2>5. [args |-> m, id |-> q.id] \in Row(op) BY <1>2, <2>1, <2>3, <2>4
  <2> QED BY <2>5 DEF m, a, b, c, i
<1>4. ASSUME NEW q \in Row(op), NEW r \in Row(op)
      PROVE  [args |-> Insert(MsetDiff(q.args, r.args), r.id), id |-> q.id] \in Row(op)
  <2> DEFINE a == q.args
             b == r.args
             i == r.id
             d == MsetDiff(a, b)
             m == Insert(d, i)
  <2>1. /\ IsMset(Ids, a) /\ IsMset(Ids, b) /\ q.id \in Live
        /\ i \in Ids /\ i \in Live
        /\ \A x \in Ids : a[x] \in Nat /\ (a[x] > 0 => x \in Live)
        /\ \A x \in Ids : b[x] \in Nat
    BY <1>1
  <2> HIDE DEF a, b, i
  <2>2. IsMset(Ids, d) /\ \A x \in Ids : d[x] \in Nat /\ (d[x] > 0 => a[x] > 0)
    BY <2>1, SumDiffFacts
  <2> HIDE DEF d
  <2>3. IsMset(Ids, m) /\ \A x \in Ids : x # i => m[x] = d[x]
    BY <2>1, <2>2, InsertRemoveFacts
  <2> HIDE DEF m
  <2>4. \A x \in Ids : m[x] > 0 => x \in Live BY <2>1, <2>2, <2>3
  <2>5. [args |-> m, id |-> q.id] \in Row(op) BY <1>2, <2>1, <2>3, <2>4
  <2> QED BY <2>5 DEF m, a, b, d, i
<1> QED BY <1>3, <1>4

\* What flatten and unflatten derive are tuples of the relation.
LEMMA DerivedType ==
  ASSUME NEW op \in AcOps, rows[op] \subseteq Row(op), Live \subseteq Ids
  PROVE  Flattened(op) \subseteq Row(op) /\ Unflattened(op) \subseteq Row(op)
BY DerivedRow DEF Flattened, Unflattened

\* Inserting derived tuples keeps the memo and the relations typed.
LEMMA DeriveType ==
  ASSUME UF!IsPartition, MemoOK, RowsOK, rep' = rep,
         NEW op \in AcOps, NEW derived, derived \subseteq Row(op), Derive(op, derived)
  PROVE  MemoOK' /\ RowsOK'
<1> DEFINE new == derived \ rows[op]
           Owners(e) == {r.id : r \in {s \in new : ENode(op, s.args) = e}}
<1>1. op \in Ops BY DEF Ops
<1>2. Live' = Live /\ \A o \in Ops : Args(o)' = Args(o) /\ Row(o)' = Row(o)
  BY DEF Live, Args, Row
<1>3. RowsOK'
  <2>1. rows' = [rows EXCEPT ![op] = rows[op] \cup new] BY DEF Derive
  <2>2. rows[op] \cup new \subseteq Row(op) BY <1>1 DEF RowsOK
  <2>3. DOMAIN rows' = Ops BY <2>1 DEF RowsOK
  <2>4. \A o \in Ops : rows'[o] \subseteq Row(o)
    <3> HIDE DEF new
    <3> QED BY <2>1, <2>2, <1>1 DEF RowsOK
  <2> QED BY <2>3, <2>4, <1>2 DEF RowsOK
<1>4. memo' = [e \in DOMAIN memo \cup {ENode(op, r.args) : r \in new} |->
                 IF e \in DOMAIN memo THEN memo[e]
                 ELSE CHOOSE x \in Owners(e) : \A y \in Owners(e) : x <= y]
  BY DEF Derive
<1>5. ASSUME NEW e \in DOMAIN memo'
      PROVE  /\ e.op \in Ops /\ e.args \in Args(e.op)
             /\ e = ENode(e.op, e.args) /\ memo'[e] \in Live
  <2>1. CASE e \in DOMAIN memo
    <3>1. memo'[e] = memo[e] BY <2>1, <1>4
    <3> QED BY <3>1, <2>1 DEF MemoOK
  <2>2. CASE e \notin DOMAIN memo
    <3>1. PICK r \in new : e = ENode(op, r.args) BY <2>2, <1>4, <1>5
    <3>2. r.args \in Args(op) BY <3>1 DEF Row
    <3>3. e.op = op /\ e.args = r.args BY <3>1 DEF ENode
    <3>4. Owners(e) \subseteq Live BY DEF Row
    <3>5. r.id \in Owners(e) BY <3>1
    <3>6. Owners(e) \subseteq Nat BY <3>4, PartitionFacts DEF Live
    <3>7. memo'[e] = CHOOSE x \in Owners(e) : \A y \in Owners(e) : x <= y
      BY <2>2, <1>4, <1>5
    <3> DEFINE T == Owners(e)
    <3>8. T # {} /\ T \subseteq Nat /\ T \subseteq Live BY <3>4, <3>5, <3>6
    <3>9. memo'[e] = CHOOSE x \in T : \A y \in T : x <= y BY <3>7
    <3> HIDE DEF T
    <3>10. \E x \in T : \A y \in T : x <= y BY <3>8, LeastElement
    <3>11. memo'[e] \in T BY <3>9, <3>10
    <3> QED BY <3>1, <3>2, <3>3, <3>8, <3>11, <1>1
  <2> QED BY <2>1, <2>2
<1>6. MemoOK' BY <1>2, <1>5 DEF MemoOK
<1> QED BY <1>3, <1>6

\* Outside a scan the tuples are those stored.
LEMMA RowsOutsideScan ==
  ASSUME TypeOK
  PROVE  /\ phase # "scan" => \A op : AllRows(op) = rows[op]
         /\ \A op : rows[op] \subseteq AllRows(op)
         /\ \A op \in Ops : AllRows(op) \subseteq Row(op)
<1>1. phase # "scan" => \A op : AllRows(op) = rows[op] BY DEF AllRows
<1>2. \A op : rows[op] \subseteq AllRows(op) BY DEF AllRows
<1>3. \A op \in Ops : rows[op] \subseteq Row(op) BY DEF TypeOK, RowsOK
<1>4. \A op \in Ops : AllRows(op) \subseteq Row(op)
  <2> SUFFICES ASSUME NEW op \in Ops PROVE AllRows(op) \subseteq Row(op) OBVIOUS
  <2>1. CASE phase = "scan" /\ op = Head(pending)
    <3>1. op = Current BY <2>1 DEF Current
    <3>2. cur \subseteq Row(op) /\ todo \subseteq Row(op) \X Row(op)
      BY <2>1, <3>1 DEF TypeOK, ScanOK
    <3>3. {t[2] : t \in todo} \subseteq Row(op) BY <3>2
    <3> QED BY <2>1, <3>2, <3>3, <1>3 DEF AllRows
  <2>2. CASE ~(phase = "scan" /\ op = Head(pending)) BY <2>2, <1>3 DEF AllRows
  <2> QED BY <2>1, <2>2
<1> QED BY <1>1, <1>2, <1>4

\* The empty e-graph is well typed.
LEMMA InitType == Init => TypeOK
<1> SUFFICES ASSUME Init PROVE TypeOK OBVIOUS
<1> USE DEF Init
<1>1. UF!IsPartition
  BY MaxIdsAssumption DEF UF!IsPartition, UF!Live, UF!Ids
<1>2. MemoOK BY DEF MemoOK
<1>3. RowsOK BY DEF RowsOK
<1>4. ScanOK BY DEF ScanOK
<1>5. ControlOK
  <2>1. << >> \in Seq(Ops) OBVIOUS
  <2> QED BY <2>1 DEF ControlOK
<1> QED BY <1>1, <1>2, <1>3, <1>4, <1>5 DEF TypeOK

\* A new class with a memo entry for an e-node, and the tuple it may have.
LEMMA NewClassType ==
  ASSUME UF!IsPartition, MemoOK, UF!MakeSet, NEW op \in Ops, NEW c \in Args(op),
         NEW e, e = ENode(op, c),
         memo' = [k \in DOMAIN memo \cup {e} |-> IF k = e THEN Len(rep) + 1 ELSE memo[k]]
  PROVE  /\ UF!IsPartition' /\ MemoOK' /\ Live \subseteq Live'
         /\ \A o \in Ops : Row(o) \subseteq Row(o)'
         /\ [args |-> c, id |-> Len(rep) + 1] \in Row(op)'
<1> DEFINE n == Len(rep)
<1>1. UF!IsPartition' /\ Len(rep') = n + 1 BY MakeSetFacts
<1>2. n \in Nat BY PartitionFacts
<1>3. /\ Live \subseteq Live' /\ n + 1 \in Live'
      /\ \A o \in Ops : Args(o) \subseteq Args(o)' /\ Row(o) \subseteq Row(o)'
  <2>1. Live \subseteq Live'
        /\ \A o \in Ops : Args(o) \subseteq Args(o)' /\ Row(o) \subseteq Row(o)'
    BY <1>1, <1>2, StoreGrows
  <2> QED BY <2>1, <1>1, <1>2 DEF Live
<1>4. /\ e = ENode(e.op, e.args) /\ e.op = op /\ e.args \in Args(op) BY DEF ENode
<1> HIDE DEF n
<1>5. c \in Args(op)' /\ [args |-> c, id |-> n + 1] \in Row(op)'
  BY <1>3 DEF Row
<1>6. memo' = [k \in DOMAIN memo \cup {e} |-> IF k = e THEN n + 1 ELSE memo[k]] BY DEF n
<1>7. MemoOK'
  <2> SUFFICES ASSUME NEW k \in DOMAIN memo'
               PROVE  /\ k.op \in Ops /\ k.args \in Args(k.op)'
                      /\ k = ENode(k.op, k.args) /\ memo'[k] \in Live'
    BY DEF MemoOK
  <2>1. CASE k = e
    <3>1. memo'[k] = n + 1 BY <1>6, <2>1
    <3>2. e.args \in Args(op)' BY <1>3, <1>4
    <3> QED BY <3>1, <3>2, <2>1, <1>3, <1>4
  <2>2. CASE k # e
    <3>1. k \in DOMAIN memo /\ memo'[k] = memo[k] BY <1>6, <2>2
    <3>2. k.op \in Ops /\ k.args \in Args(k.op) /\ memo[k] \in Live
          /\ k = ENode(k.op, k.args)
      BY <3>1 DEF MemoOK
    <3> QED BY <3>1, <3>2, <1>3
  <2> QED BY <2>1, <2>2
<1> QED BY <1>1, <1>3, <1>5, <1>7 DEF n

\* A call of add_enode: nothing, or one new id, tuple and memo entry.
LEMMA AddEnodeType ==
  ASSUME TypeOK, NEW op \in Ops, NEW args \in CallArgs(op), AddEnode(op, args)
  PROVE  TypeOK'
<1> DEFINE e == ENode(op, CanonArgs(op, args))
           n == Len(rep)
<1>0. /\ UF!IsPartition /\ MemoOK /\ RowsOK /\ ScanOK /\ ControlOK
      /\ phase = "idle"
      /\ UNCHANGED <<phase, pending, todo, cur, changed, did, merged, quiet>>
  BY DEF TypeOK, AddEnode
<1>1. ControlOK' BY <1>0 DEF ControlOK, Current
<1>2. ScanOK' BY <1>0 DEF ScanOK
<1>3. CASE UNCHANGED store
  <2>1. rep' = rep /\ memo' = memo /\ rows' = rows BY <1>3 DEF store
  <2>2. UF!IsPartition' BY <2>1, <1>0 DEF UF!IsPartition, UF!Live
  <2>3. MemoOK' BY <2>1, <1>0 DEF MemoOK, Args, Live
  <2>4. RowsOK' BY <2>1, <1>0 DEF RowsOK, Row, Args, Live
  <2> QED BY <2>2, <2>3, <2>4, <1>1, <1>2 DEF TypeOK
<1>4. CASE /\ UF!MakeSet
           /\ rows' = [rows EXCEPT ![op] = @ \cup {[args |-> e.args, id |-> n + 1]}]
           /\ memo' = [k \in DOMAIN memo \cup {e} |-> IF k = e THEN n + 1 ELSE memo[k]]
  <2> DEFINE c == CanonArgs(op, args)
             r == [args |-> c, id |-> n + 1]
  <2>1. args \in Args(op) BY DEF CallArgs
  <2>2. c \in Args(op) /\ e = ENode(op, c) /\ e.args = c
    BY <2>1, <1>0, CanonArgsType DEF ENode
  <2>3. memo' = [k \in DOMAIN memo \cup {e} |-> IF k = e THEN Len(rep) + 1 ELSE memo[k]]
    BY <1>4
  <2>4. rows' = [rows EXCEPT ![op] = rows[op] \cup {r}] BY <1>4, <2>2
  <2> HIDE DEF c, e
  <2>5. /\ UF!IsPartition' /\ MemoOK' /\ \A o \in Ops : Row(o) \subseteq Row(o)'
        /\ r \in Row(op)'
    BY <2>2, <2>3, <1>0, <1>4, NewClassType
  <2> HIDE DEF r
  <2>6. DOMAIN rows = Ops /\ \A o \in Ops : rows[o] \subseteq Row(o)'
    BY <2>5, <1>0 DEF RowsOK
  <2>7. DOMAIN rows' = Ops /\ \A o \in Ops : rows'[o] \subseteq Row(o)'
    BY <2>4, <2>5, <2>6
  <2>8. RowsOK' BY <2>7 DEF RowsOK
  <2> QED BY <2>5, <2>8, <1>1, <1>2 DEF TypeOK
<1> QED BY <1>3, <1>4 DEF AddEnode

\* If no id is handed out and memo and rows stay, only the partition changes.
LEMMA StoreKept ==
  ASSUME MemoOK, RowsOK, Len(rep') = Len(rep), UNCHANGED <<memo, rows>>
  PROVE  /\ MemoOK' /\ RowsOK' /\ Live' = Live
         /\ \A op \in Ops : Args(op)' = Args(op) /\ Row(op)' = Row(op)
<1>1. Live' = Live BY DEF Live
<1>2. \A op : Args(op)' = Args(op) /\ Row(op)' = Row(op)
  BY <1>1 DEF Args, Row
<1> QED BY <1>1, <1>2 DEF MemoOK, RowsOK

\* unify keeps every type: the number of ids stays the same.
LEMMA UnifyType ==
  ASSUME TypeOK, NEW a \in Live, NEW b \in Live, Unify(a, b)
  PROVE  TypeOK'
<1>0. /\ UF!IsPartition /\ MemoOK /\ RowsOK /\ ScanOK /\ ControlOK
      /\ phase = "idle" /\ UF!Union(a, b) /\ UNCHANGED <<memo, rows>>
      /\ UNCHANGED <<phase, pending, todo, cur, changed, did, merged>>
      /\ quiet' = (quiet /\ rep[a] = rep[b])
  BY DEF TypeOK, Unify
<1>1. UF!IsPartition' /\ Len(rep') = Len(rep) BY <1>0, UnionFacts
<1>2. MemoOK' /\ RowsOK' BY <1>0, <1>1, StoreKept
<1>3. ScanOK' BY <1>0 DEF ScanOK
<1>4. ControlOK' BY <1>0 DEF ControlOK, Current
<1> QED BY <1>1, <1>2, <1>3, <1>4 DEF TypeOK

\* The memo pass of rebuild maps entries to canonical entries.
LEMMA RebuildType ==
  ASSUME TypeOK, Rebuild
  PROVE  TypeOK'
<1>0. /\ UF!IsPartition /\ MemoOK /\ RowsOK /\ ScanOK /\ ControlOK
      /\ phase = "idle" /\ phase' = "relation" /\ pending' = Relations
      /\ quiet' = FALSE
      /\ UNCHANGED <<rep, rows, todo, cur, changed, did, merged>>
  BY DEF TypeOK, Rebuild
<1>1. Live' = Live /\ \A op : Args(op)' = Args(op) /\ Row(op)' = Row(op)
  BY <1>0 DEF Live, Args, Row
<1>2. UF!IsPartition' BY <1>0 DEF UF!IsPartition, UF!Live
<1>3. RowsOK' BY <1>0, <1>1 DEF RowsOK
<1>4. ScanOK' BY <1>0 DEF ScanOK
<1>5. ControlOK'
  <2>1. Relations \in Seq(Ops) BY OpsAssumption DEF Ops
  <2> QED BY <2>1, <1>0 DEF ControlOK
<1>6. MemoOK'
  <2>1. PICK winners \in SUBSET DOMAIN memo :
          memo' = [k \in {CanonENode(e) : e \in winners} |->
                     rep[memo[CHOOSE e \in winners : CanonENode(e) = k]]]
    BY DEF Rebuild
  <2> SUFFICES ASSUME NEW k \in DOMAIN memo'
               PROVE  /\ k.op \in Ops /\ k.args \in Args(k.op)
                      /\ k = ENode(k.op, k.args) /\ memo'[k] \in Live
    BY <1>1 DEF MemoOK
  <2>2. \E e \in winners : CanonENode(e) = k BY <2>1
  <2> DEFINE w == CHOOSE e \in winners : CanonENode(e) = k
  <2>3. w \in winners /\ CanonENode(w) = k BY <2>2
  <2>4. memo'[k] = rep[memo[w]] BY <2>1
  <2> HIDE DEF w
  <2>5. w.op \in Ops /\ w.args \in Args(w.op) /\ memo[w] \in Live
    BY <2>3, <1>0 DEF MemoOK
  <2>6. CanonArgs(w.op, w.args) \in Args(w.op) BY <2>5, <1>0, CanonArgsType
  <2>7. rep[memo[w]] \in Live BY <2>5, <1>0, PartitionFacts
  <2> QED BY <2>3, <2>4, <2>5, <2>6, <2>7 DEF CanonENode, ENode
<1> QED BY <1>2, <1>3, <1>4, <1>5, <1>6 DEF TypeOK

\* The rest of a queue of relations is a queue of relations.
LEMMA PendingTail ==
  ASSUME ControlOK, pending # << >>
  PROVE  Tail(pending) \in Seq(Ops) /\ Current \in Ops
BY DEF ControlOK, Current

\* Starting on a row store: its tuples are made canonical.
LEMMA RowCanonicalizeType ==
  ASSUME TypeOK, RowCanonicalize
  PROVE  TypeOK'
<1> DEFINE op == Current
           canonical == {<<r, CanonRow(op, r)>> : r \in rows[op]}
           canon == {t[2] : t \in canonical}
<1>0. /\ UF!IsPartition /\ MemoOK /\ RowsOK /\ ScanOK /\ ControlOK
      /\ phase = "relation" /\ pending # << >> /\ op \in RowOps
      /\ UNCHANGED <<rep, memo, changed, did, merged, quiet>>
  BY DEF TypeOK, RowCanonicalize
<1>1. Live' = Live /\ \A o : Args(o)' = Args(o) /\ Row(o)' = Row(o)
  BY <1>0 DEF Live, Args, Row
<1>2. UF!IsPartition' /\ MemoOK' BY <1>0, <1>1 DEF UF!IsPartition, UF!Live, MemoOK
<1>3. op \in Ops /\ Tail(pending) \in Seq(Ops) BY <1>0, PendingTail DEF Ops
<1>4. \A r \in rows[op] : r \in Row(op) /\ CanonRow(op, r) \in Row(op)
  BY <1>0, <1>3, CanonRowType DEF RowsOK
<1>5. canonical \subseteq Row(op) \X Row(op) BY <1>4
<1> HIDE DEF canonical
<1>6. canon \subseteq Row(op) BY <1>5
<1> HIDE DEF canon
<1>7. CASE /\ rows' = [rows EXCEPT ![op] = canon]
           /\ pending' = Tail(pending)
           /\ UNCHANGED <<phase, todo, cur>>
  <2>1. RowsOK' BY <1>0, <1>1, <1>3, <1>6, <1>7 DEF RowsOK
  <2>2. ScanOK' BY <1>0, <1>7 DEF ScanOK
  <2>3. ControlOK' BY <1>0, <1>3, <1>7 DEF ControlOK
  <2> QED BY <1>2, <2>1, <2>2, <2>3 DEF TypeOK
<1>8. CASE /\ \E t \in First(canonical) : cur' = {t[2]} /\ todo' = canonical \ {t}
           /\ rows' = [rows EXCEPT ![op] = {}]
           /\ phase' = "scan" /\ UNCHANGED pending
  <2>1. RowsOK' BY <1>0, <1>1, <1>3, <1>8 DEF RowsOK
  <2>2. op' = op BY <1>8 DEF Current
  <2>3. ScanOK'
    <3>1. PICK t \in First(canonical) : cur' = {t[2]} /\ todo' = canonical \ {t}
      BY <1>8
    <3>2. t \in canonical BY DEF First
    <3>3. t[2] \in Row(op) /\ todo' \subseteq Row(op) \X Row(op)
      BY <3>1, <3>2, <1>5
    <3> HIDE DEF op
    <3>4. (\E c \in Row(op)' : cur' = {c}) /\ todo' \subseteq Row(op)' \X Row(op)'
      BY <3>1, <3>3, <1>1, <2>2
    <3> QED BY <3>4, <1>8 DEF ScanOK, op
  <2>4. ControlOK' BY <1>0, <1>8, <2>2 DEF ControlOK
  <2> QED BY <1>2, <2>1, <2>3, <2>4 DEF TypeOK
<1> QED BY <1>7, <1>8 DEF RowCanonicalize, canonical, canon

\* Comparing two neighbours: both stay tuples, whether they are unified or not.
LEMMA RowScanType ==
  ASSUME TypeOK, RowScan
  PROVE  TypeOK'
<1> DEFINE op == Current
<1>0. /\ UF!IsPartition /\ MemoOK /\ RowsOK /\ ScanOK /\ ControlOK
      /\ phase = "scan" /\ UNCHANGED <<memo, phase, pending, changed, quiet>>
  BY DEF TypeOK, RowScan
<1>1. PICK c \in cur, t \in First(todo) :
        /\ todo' = todo \ {t}
        /\ \/ /\ t[2].args = c.args /\ t[2].id # c.id
              /\ UF!Union(c.id, t[2].id)
              /\ rows' = [rows EXCEPT ![op] = @ \cup
                           {[c EXCEPT !.id = UF!Merged(rep, c.id, t[2].id)[c.id]]}]
              /\ cur' = {[t[2] EXCEPT !.id = UF!Merged(rep, c.id, t[2].id)[c.id]]}
              /\ did' = TRUE /\ merged' = (merged \/ rep' # rep)
           \/ /\ rows' = [rows EXCEPT ![op] = @ \cup {c}]
              /\ cur' = {t[2]}
              /\ UNCHANGED <<rep, did, merged>>
  BY DEF RowScan
<1> DEFINE d == t[2]
<1>2. op \in RowOps /\ op \in Ops /\ op' = op BY <1>0 DEF ControlOK, Ops, Current
<1>3. c \in Row(op) /\ t \in Row(op) \X Row(op) /\ d \in Row(op)
      /\ todo' \subseteq Row(op) \X Row(op)
  BY <1>0, <1>1 DEF ScanOK, First
<1> HIDE DEF d, op
<1>4. c.id \in Live /\ d.id \in Live BY <1>3 DEF Row
<1>5. CASE /\ UF!Union(c.id, d.id)
           /\ rows' = [rows EXCEPT ![op] = @ \cup
                        {[c EXCEPT !.id = UF!Merged(rep, c.id, d.id)[c.id]]}]
           /\ cur' = {[d EXCEPT !.id = UF!Merged(rep, c.id, d.id)[c.id]]}
           /\ did' = TRUE /\ merged' = (merged \/ rep' # rep)
  <2> DEFINE root == UF!Merged(rep, c.id, d.id)[c.id]
  <2>1. UF!IsPartition' /\ Len(rep') = Len(rep) /\ rep'[c.id] \in {rep[c.id], rep[d.id]}
    BY <1>0, <1>4, <1>5, UnionFacts
  <2>2. root = rep'[c.id] BY <1>5 DEF UF!Union
  <2>3. root \in Live BY <2>1, <2>2, <1>0, <1>4, PartitionFacts
  <2>4. Live' = Live /\ \A o : Args(o)' = Args(o) /\ Row(o)' = Row(o)
    BY <2>1 DEF Live, Args, Row
  <2>5. MemoOK' BY <2>4, <1>0 DEF MemoOK
  <2> HIDE DEF root
  <2>6. [c EXCEPT !.id = root] \in Row(op) /\ [d EXCEPT !.id = root] \in Row(op)
    BY <1>3, <2>3 DEF Row
  <2>7. rows' = [rows EXCEPT ![op] = @ \cup {[c EXCEPT !.id = root]}]
        /\ cur' = {[d EXCEPT !.id = root]}
    BY <1>5 DEF root
  <2>8. RowsOK'
    <3> DEFINE r == [c EXCEPT !.id = root]
    <3>1. r \in Row(op) /\ rows' = [rows EXCEPT ![op] = @ \cup {r}] BY <2>6, <2>7
    <3> HIDE DEF r
    <3> QED BY <3>1, <2>4, <1>0, <1>2 DEF RowsOK
  <2>9. ScanOK'
    <3>1. (\E x \in Row(op) : cur' = {x}) /\ todo' \subseteq Row(op) \X Row(op)
      BY <2>6, <2>7, <1>3
    <3>2. Row(op)' = Row(Current)' BY DEF op
    <3> QED BY <3>1, <3>2, <1>0, <1>2, <2>4 DEF ScanOK
  <2>10. ControlOK'
    <3>1. merged' \in BOOLEAN BY <1>5
    <3> QED BY <3>1, <1>0, <1>2, <1>5 DEF ControlOK, op
  <2> QED BY <2>1, <2>5, <2>8, <2>9, <2>10 DEF TypeOK
<1>6. CASE /\ rows' = [rows EXCEPT ![op] = @ \cup {c}]
           /\ cur' = {d} /\ UNCHANGED <<rep, did, merged>>
  <2>1. Live' = Live /\ \A o : Args(o)' = Args(o) /\ Row(o)' = Row(o)
    BY <1>6 DEF Live, Args, Row
  <2>2. UF!IsPartition' /\ MemoOK'
    BY <2>1, <1>0, <1>6 DEF MemoOK, UF!IsPartition, UF!Live
  <2>3. RowsOK' BY <2>1, <1>0, <1>2, <1>3, <1>6 DEF RowsOK
  <2>4. ScanOK'
    <3>1. (\E x \in Row(op) : cur' = {x}) /\ todo' \subseteq Row(op) \X Row(op)
      BY <1>3, <1>6
    <3>2. Row(op)' = Row(Current)' BY DEF op
    <3> QED BY <3>1, <3>2, <1>0, <1>2, <2>1 DEF ScanOK
  <2>5. ControlOK' BY <1>0, <1>2, <1>6 DEF ControlOK, op
  <2> QED BY <2>2, <2>3, <2>4, <2>5 DEF TypeOK
<1> QED BY <1>1, <1>5, <1>6 DEF op, d

\* The last tuple of a scan joins the others.
LEMMA RowFinishType ==
  ASSUME TypeOK, RowFinish
  PROVE  TypeOK'
<1>0. /\ UF!IsPartition /\ MemoOK /\ RowsOK /\ ScanOK /\ ControlOK
      /\ phase = "scan" /\ todo = {} /\ cur' = {} /\ phase' = "relation"
      /\ pending' = Tail(pending)
      /\ rows' = [rows EXCEPT ![Current] = @ \cup cur]
      /\ UNCHANGED <<rep, memo, todo, changed, did, merged, quiet>>
  BY DEF TypeOK, RowFinish
<1>1. Live' = Live /\ \A o : Args(o)' = Args(o) /\ Row(o)' = Row(o)
  BY <1>0 DEF Live, Args, Row
<1>2. UF!IsPartition' /\ MemoOK' BY <1>0, <1>1 DEF UF!IsPartition, UF!Live, MemoOK
<1>3. Current \in Ops /\ Tail(pending) \in Seq(Ops)
  BY <1>0, PendingTail DEF ControlOK
<1>4. cur \subseteq Row(Current) BY <1>0 DEF ScanOK
<1>5. RowsOK' BY <1>0, <1>1, <1>3, <1>4 DEF RowsOK
<1>6. ScanOK' BY <1>0 DEF ScanOK
<1>7. ControlOK' BY <1>0, <1>3 DEF ControlOK
<1> QED BY <1>2, <1>5, <1>6, <1>7 DEF TypeOK

\* Every step of RelationAC::rebuild.
LEMMA AcStepType ==
  ASSUME TypeOK, AcStep
  PROVE  TypeOK'
<1>0. /\ UF!IsPartition /\ MemoOK /\ RowsOK /\ ScanOK /\ ControlOK
  BY DEF TypeOK
<1> DEFINE op == Current
<1>1. CASE AcCanonicalize
  <2> DEFINE canonical == {CanonRow(op, r) : r \in rows[op]}
  <2>1. /\ pending # << >> /\ op \in AcOps /\ phase # "scan"
        /\ rows' = [rows EXCEPT ![op] = canonical]
        /\ phase' \in {"flatten", "congruence"} /\ changed' = FALSE
        /\ UNCHANGED <<rep, memo, pending, todo, cur, did, merged, quiet>>
    BY <1>0, <1>1 DEF AcCanonicalize, ControlOK
  <2>2. Live' = Live /\ \A o : Args(o)' = Args(o) /\ Row(o)' = Row(o)
    BY <2>1 DEF Live, Args, Row
  <2>3. op \in Ops BY <2>1 DEF Ops
  <2>4. canonical \subseteq Row(op) BY <1>0, <2>3, CanonRowType DEF RowsOK
  <2> HIDE DEF canonical
  <2>5. RowsOK' BY <1>0, <2>1, <2>2, <2>3, <2>4 DEF RowsOK
  <2>6. UF!IsPartition' /\ MemoOK' BY <1>0, <2>1, <2>2 DEF UF!IsPartition, UF!Live, MemoOK
  <2>7. ScanOK' BY <1>0, <2>1 DEF ScanOK
  <2>8. ControlOK' BY <1>0, <2>1 DEF ControlOK, Current
  <2> QED BY <2>5, <2>6, <2>7, <2>8 DEF TypeOK
<1>2. CASE AcUnify
  <2>1. PICK p \in Congruent(op) : UF!Union(p[1].id, p[2].id) BY <1>2 DEF AcUnify
  <2>2. /\ phase = "congruence" /\ changed' = TRUE /\ merged' = TRUE
        /\ UNCHANGED <<memo, rows, phase, pending, todo, cur, did, quiet>>
    BY <1>2 DEF AcUnify
  <2>3. op \in AcOps /\ op \in Ops BY <1>0, <2>2 DEF ControlOK, Ops
  <2>4. p[1] \in rows[op] /\ p[2] \in rows[op] BY <2>1 DEF Congruent
  <2>5. p[1].id \in Live /\ p[2].id \in Live BY <2>3, <2>4, <1>0 DEF RowsOK, Row
  <2>6. UF!IsPartition' /\ Len(rep') = Len(rep) BY <2>1, <2>5, <1>0, UnionFacts
  <2>7. MemoOK' /\ RowsOK' BY <2>2, <2>6, <1>0, StoreKept
  <2>8. ScanOK' BY <1>0, <2>2 DEF ScanOK
  <2>9. ControlOK' BY <1>0, <2>2 DEF ControlOK, Current
  <2> QED BY <2>6, <2>7, <2>8, <2>9 DEF TypeOK
<1>3. CASE AcCongruent
  <2>1. /\ phase = "congruence" /\ phase' \in {"again", "flatten"}
        /\ UNCHANGED <<rep, memo, rows, pending, todo, cur, changed, did, merged, quiet>>
    BY <1>3 DEF AcCongruent
  <2>2. Live' = Live /\ \A o : Args(o)' = Args(o) /\ Row(o)' = Row(o)
    BY <2>1 DEF Live, Args, Row
  <2>3. UF!IsPartition' /\ MemoOK' /\ RowsOK'
    BY <1>0, <2>1, <2>2 DEF UF!IsPartition, UF!Live, MemoOK, RowsOK
  <2>4. ScanOK' BY <1>0, <2>1 DEF ScanOK
  <2>5. ControlOK' BY <1>0, <2>1 DEF ControlOK, Current
  <2> QED BY <2>3, <2>4, <2>5 DEF TypeOK
<1>4. CASE AcFlatten \/ AcUnflatten
  <2>1. /\ phase \in {"flatten", "unflatten"} /\ UNCHANGED <<rep, todo, cur, merged, quiet>>
        /\ \/ phase' = "unflatten" /\ UNCHANGED <<pending, changed, did>>
           \/ /\ phase' = "relation" /\ pending' = Tail(pending)
              /\ changed' = FALSE /\ did' = TRUE
        /\ Derive(op, Flattened(op)) \/ Derive(op, Unflattened(op))
    BY <1>4 DEF AcFlatten, AcUnflatten
  <2>2. pending # << >> /\ op \in AcOps /\ op \in Ops BY <1>0, <2>1 DEF ControlOK, Ops
  <2>3. Flattened(op) \subseteq Row(op) /\ Unflattened(op) \subseteq Row(op)
    BY <1>0, <2>2, DerivedType, PartitionFacts DEF RowsOK
  <2>4. MemoOK' /\ RowsOK' BY <1>0, <2>1, <2>2, <2>3, DeriveType
  <2>5. UF!IsPartition' BY <1>0, <2>1 DEF UF!IsPartition, UF!Live
  <2>6. ScanOK' BY <1>0, <2>1 DEF ScanOK
  <2>7. Tail(pending) \in Seq(Ops) BY <1>0, <2>2, PendingTail
  <2>8. ControlOK' BY <1>0, <2>1, <2>2, <2>7 DEF ControlOK, Current
  <2> QED BY <2>4, <2>5, <2>6, <2>8 DEF TypeOK
<1> QED BY <1>1, <1>2, <1>3, <1>4 DEF AcStep

\* The end of rebuild leaves the store alone.
LEMMA RebuildReturnType ==
  ASSUME TypeOK, RebuildReturn \/ UNCHANGED vars
  PROVE  TypeOK'
<1>1. CASE RebuildReturn
  <2>1. Live' = Live /\ \A o : Args(o)' = Args(o) /\ Row(o)' = Row(o)
    BY <1>1 DEF Live, Args, Row, RebuildReturn
  <2> QED BY <1>1, <2>1
          DEF RebuildReturn, TypeOK, UF!IsPartition, UF!Live, MemoOK, RowsOK,
              ScanOK, ControlOK
<1>2. CASE UNCHANGED vars
  <2>1. Live' = Live /\ \A o : Args(o)' = Args(o) /\ Row(o)' = Row(o)
    BY <1>2 DEF Live, Args, Row, vars
  <2> QED BY <1>2, <2>1
          DEF vars, TypeOK, UF!IsPartition, UF!Live, MemoOK, RowsOK,
              ScanOK, ControlOK, Current
<1> QED BY <1>1, <1>2

\* Every step of the e-graph keeps the types.
LEMMA NextType == TypeOK /\ [Next]_vars => TypeOK'
<1> SUFFICES ASSUME TypeOK, [Next]_vars PROVE TypeOK' OBVIOUS
<1>1. ASSUME NEW op \in Ops, NEW args \in CallArgs(op), AddEnode(op, args) PROVE TypeOK'
  BY <1>1, AddEnodeType
<1>2. ASSUME NEW a \in Live, NEW b \in Live, Unify(a, b) PROVE TypeOK'
  BY <1>2, UnifyType
<1>3. CASE Rebuild BY <1>3, RebuildType
<1>4. CASE RowCanonicalize BY <1>4, RowCanonicalizeType
<1>5. CASE RowScan BY <1>5, RowScanType
<1>6. CASE RowFinish BY <1>6, RowFinishType
<1>7. CASE AcStep BY <1>7, AcStepType
<1>8. CASE RebuildReturn \/ UNCHANGED vars BY <1>8, RebuildReturnType
<1> QED BY <1>1, <1>2, <1>3, <1>4, <1>5, <1>6, <1>7, <1>8 DEF Next, RebuildStep, RowStep

\* No id in the memo, the relations or a running scan is ever dangling, for any
\* operators and bounds.
THEOREM TypeCorrect == Spec => []TypeOK
<1> QED BY InitType, NextType, PTL DEF Spec
-----------------------------------------------------------------------------
\* new renames every id to what g makes of its root.
Coarser(g, new) ==
  /\ g \in [Live -> Live]
  /\ new \in [Live -> Live]
  /\ \A x \in Live : new[x] = g[rep[x]]

\* Renaming the roots of canonical children is renaming the children.
LEMMA CanonAgain ==
  ASSUME UF!IsPartition, NEW op \in AcOps, NEW args \in Args(op),
         NEW g, NEW new, Coarser(g, new)
  PROVE  MapMset(CanonArgs(op, args), g, Len(rep)) = MapMset(args, new, Len(rep))
<1> DEFINE n == Len(rep)
<1>1. /\ n \in Nat /\ Live = 1..n /\ Live \subseteq Ids /\ rep \in [1..n -> 1..n]
  <2>1. /\ Len(rep) \in Nat /\ rep \in [1..Len(rep) -> Ids] /\ Live \subseteq Ids
        /\ \A x \in Live : rep[x] \in Live
    BY PartitionFacts
  <2> QED BY <2>1 DEF Live
<1>2. args \in Mset BY DEF Args
<1> HIDE DEF n
<1>3. IsMset(Ids, args) /\ Renaming(Ids, n, args, rep)
  BY <1>1, <1>2 DEF Renaming, IsMset, Mset
<1>4. Composition(Ids, n, rep, g, new)
  <2>1. g \in [1..n -> Ids] /\ new \in [1..n -> Ids] BY <1>1 DEF Coarser
  <2>2. \A x \in 1..n : new[x] = g[rep[x]] BY <1>1 DEF Coarser
  <2>3. new = [k \in 1..n |-> g[rep[k]]] BY <2>1, <2>2
  <2> QED BY <2>1, <2>3, <1>1 DEF Composition
<1>5. MapMset(MapMset(args, rep, n), g, n) = MapMset(args, new, n)
  BY <1>3, <1>4, MapMsetComposes
<1> QED BY <1>5 DEF CanonArgs, n

\* Canonical children are canonical.
LEMMA CanonArgsIdempotent ==
  ASSUME UF!IsPartition, NEW op \in Ops, NEW args \in Args(op)
  PROVE  CanonArgs(op, CanonArgs(op, args)) = CanonArgs(op, args)
<1>1. CASE op \in AcOps
  <2>1. Coarser(rep, rep)
    <3>1. rep \in [1..Len(rep) -> Ids] /\ \A x \in Live : rep[x] \in Live /\ rep[rep[x]] = rep[x]
      BY PartitionFacts
    <3>2. rep \in [Live -> Live] BY <3>1 DEF Live
    <3> QED BY <3>1, <3>2 DEF Coarser
  <2>2. MapMset(CanonArgs(op, args), rep, Len(rep)) = MapMset(args, rep, Len(rep))
    BY <1>1, <2>1, CanonAgain
  <2> QED BY <1>1, <2>2 DEF CanonArgs
<1>2. CASE op \notin AcOps
  <2>1. args \in [1..Arity[op] -> Live] BY <1>2 DEF Args
  <2>2. \A x \in Live : rep[x] \in Live /\ rep[rep[x]] = rep[x] BY PartitionFacts
  <2>3. \A i \in 1..Arity[op] : rep[rep[args[i]]] = rep[args[i]] BY <2>1, <2>2
  <2>4. CanonArgs(op, args) = [i \in 1..Arity[op] |-> rep[args[i]]] BY <1>2 DEF CanonArgs
  <2>5. CanonArgs(op, CanonArgs(op, args)) =
          [i \in 1..Arity[op] |-> rep[[j \in 1..Arity[op] |-> rep[args[j]]][i]]]
    BY <1>2, <2>4 DEF CanonArgs
  <2> QED BY <2>3, <2>4, <2>5
<1> QED BY <1>1, <1>2

\* A unification sends whole classes to classes.
LEMMA UnionCoarser ==
  ASSUME UF!IsPartition, NEW a \in Live, NEW b \in Live, UF!Union(a, b)
  PROVE  \E g : Coarser(g, rep')
<1> DEFINE lo == IF rep[a] < rep[b] THEN rep[a] ELSE rep[b]
           hi == IF rep[a] < rep[b] THEN rep[b] ELSE rep[a]
           n  == Len(rep)
           g  == [x \in Live |-> IF x = hi THEN lo ELSE x]
<1>1. rep' = [x \in 1..n |-> IF rep[x] = hi THEN lo ELSE rep[x]]
  BY DEF UF!Union, UF!Merged
<1>2. /\ Live = 1..n /\ n \in Nat
      /\ \A x \in Live : rep[x] \in Live
  BY PartitionFacts DEF Live
<1>3. lo \in Live /\ hi \in Live BY <1>2
<1> HIDE DEF lo, hi, n
<1>4. g \in [Live -> Live] BY <1>3
<1>5. rep' \in [Live -> Live] BY <1>1, <1>2, <1>3
<1>6. \A x \in Live : rep'[x] = g[rep[x]] BY <1>1, <1>2
<1> QED BY <1>4, <1>5, <1>6 DEF Coarser

\* While no id is handed out and classes only grow, canonical children of one
\* operator that agreed still agree.
LEMMA CanonKept ==
  ASSUME UF!IsPartition, Len(rep') = Len(rep), NEW g, Coarser(g, rep'),
         NEW op \in Ops, NEW s \in Args(op), NEW t \in Args(op),
         CanonArgs(op, s) = CanonArgs(op, t)
  PROVE  CanonArgs(op, s)' = CanonArgs(op, t)'
<1>1. CASE op \in AcOps
  <2>1. /\ MapMset(CanonArgs(op, s), g, Len(rep)) = MapMset(s, rep', Len(rep))
        /\ MapMset(CanonArgs(op, t), g, Len(rep)) = MapMset(t, rep', Len(rep))
    BY <1>1, CanonAgain
  <2> QED BY <1>1, <2>1 DEF CanonArgs
<1>2. CASE op \notin AcOps
  <2>1. s \in [1..Arity[op] -> Live] /\ t \in [1..Arity[op] -> Live] BY <1>2 DEF Args
  <2>2. \A i \in 1..Arity[op] : rep[s[i]] = rep[t[i]]
    BY <1>2 DEF CanonArgs
  <2>3. \A i \in 1..Arity[op] : rep'[s[i]] = rep'[t[i]]
    BY <2>1, <2>2 DEF Coarser
  <2> QED BY <1>2, <2>3 DEF CanonArgs
<1> QED BY <1>1, <1>2

\* A new id changes nothing about the children there were.
LEMMA MakeSetCanon ==
  ASSUME UF!IsPartition, UF!MakeSet, NEW op \in Ops, NEW args \in Args(op)
  PROVE  CanonArgs(op, args)' = CanonArgs(op, args)
<1> DEFINE n == Len(rep)
<1>1. /\ UF!IsPartition' /\ Len(rep') = n + 1 /\ rep'[n + 1] = n + 1
      /\ \A x \in Live : rep'[x] = rep[x]
  BY MakeSetFacts
<1>2. /\ n \in Nat /\ Live = 1..n /\ Live \subseteq Ids
      /\ rep \in [1..n -> Ids]
  BY PartitionFacts DEF Live
<1>3. n < MaxIds BY DEF UF!MakeSet
<1>4. rep' \in [1..(n + 1) -> Ids]
  <2>1. rep' \in Seq(Ids) BY <1>1 DEF UF!IsPartition, UF!Ids, Ids
  <2>2. rep' \in [1..Len(rep') -> Ids] BY <2>1
  <2> QED BY <2>2, <1>1
<1>5. CASE op \in AcOps
  <2>1. args \in Mset /\ \A x \in Ids : args[x] > 0 => x \in Live
    BY <1>5 DEF Args
  <2> HIDE DEF n
  <2>2. IsMset(Ids, args) /\ Renaming(Ids, n, args, rep)
    BY <1>2, <2>1 DEF Renaming, IsMset, Mset
  <2>3. n + 1 \in Ids /\ 1..(n + 1) \subseteq Ids
    BY <1>2, <1>3, MaxIdsAssumption DEF Ids
  <2>4. Renaming(Ids, n + 1, args, rep')
    BY <1>2, <1>4, <2>2, <2>3 DEF Renaming
  <2>5. args[n + 1] = 0
    <3>1. n + 1 \notin Live BY <1>2
    <3>2. args[n + 1] \in Nat BY <2>1, <2>3 DEF Mset
    <3> QED BY <3>1, <3>2, <2>1, <2>3
  <2>6. \A k \in 1..n : rep'[k] = rep[k] BY <1>1, <1>2
  <2>7. MapMset(args, rep', n + 1) = MapMset(args, rep, n)
    BY <2>2, <2>4, <2>5, <2>6, MapMsetExtends
  <2>8. CanonArgs(op, args)' = MapMset(args, rep', n + 1)
    BY <1>5, <1>1 DEF CanonArgs
  <2>9. CanonArgs(op, args) = MapMset(args, rep, n) BY <1>5 DEF CanonArgs, n
  <2> QED BY <2>7, <2>8, <2>9
<1>6. CASE op \notin AcOps
  <2>1. args \in [1..Arity[op] -> Live] BY <1>6 DEF Args
  <2>2. \A i \in 1..Arity[op] : rep'[args[i]] = rep[args[i]] BY <1>1, <2>1
  <2> QED BY <1>6, <2>2 DEF CanonArgs
<1> QED BY <1>5, <1>6

\* A canonical tuple is canonical, and its id names the same class.
LEMMA CanonRowFacts ==
  ASSUME UF!IsPartition, NEW op \in Ops, NEW r \in Row(op)
  PROVE  /\ CanonRow(op, r).args = CanonArgs(op, r.args)
         /\ CanonArgs(op, CanonRow(op, r).args) = CanonArgs(op, r.args)
         /\ CanonRow(op, r).id = rep[r.id]
         /\ rep[CanonRow(op, r).id] = rep[r.id]
         /\ CanonRow(op, CanonRow(op, r)) = CanonRow(op, r)
<1>1. r.args \in Args(op) /\ r.id \in Live BY DEF Row
<1>2. CanonRow(op, r).args = CanonArgs(op, r.args) /\ CanonRow(op, r).id = rep[r.id]
  BY DEF CanonRow
<1>3. CanonArgs(op, CanonArgs(op, r.args)) = CanonArgs(op, r.args)
  BY <1>1, CanonArgsIdempotent
<1>4. rep[rep[r.id]] = rep[r.id] BY <1>1, PartitionFacts
<1>5. CanonRow(op, CanonRow(op, r)) = [args |-> CanonArgs(op, r.args), id |-> rep[r.id]]
  BY <1>2, <1>3, <1>4 DEF CanonRow
<1> QED BY <1>2, <1>3, <1>4, <1>5 DEF CanonRow
-----------------------------------------------------------------------------
\* What the loop of RelationAC::rebuild knows at each of its points: a pass of
\* congruence that has unified nothing works on canonical tuples, and when a pass
\* is over equal multisets are in one class.
LoopInv ==
  /\ phase = "congruence" /\ ~ changed =>
       \A r \in rows[Current] : CanonRow(Current, r) = r
  /\ phase = "again" =>
       \A r, s \in rows[Current] : r.args = s.args => rep[r.id] = rep[s.id]

\* canonicalize leaves canonical tuples; it ends the loop only if they were
\* canonical before, so that no class has changed since the last pass.
LEMMA AcCanonicalizeCloses ==
  ASSUME TypeOK, LoopInv, AcCanonicalize
  PROVE  LoopInv' /\ FlattenSeesClosed'
<1> DEFINE op == Current
           canonical == {CanonRow(op, r) : r \in rows[op]}
<1>1. /\ UF!IsPartition /\ RowsOK /\ ControlOK
      /\ op \in AcOps /\ op \in Ops /\ op' = op
      /\ rows' = [rows EXCEPT ![op] = canonical]
      /\ phase' = (IF phase = "again" /\ canonical = rows[op] THEN "flatten" ELSE "congruence")
      /\ rep' = rep
  BY DEF TypeOK, ControlOK, AcCanonicalize, Ops, Current
<1>2. ASSUME NEW r \in canonical PROVE CanonRow(op, r) = r
  <2>1. PICK s \in rows[op] : r = CanonRow(op, s) BY <1>2
  <2>2. s \in Row(op) BY <2>1, <1>1 DEF RowsOK
  <2> QED BY <2>1, <2>2, <1>1, CanonRowFacts
<1>3. rows'[op] = canonical BY <1>1 DEF RowsOK
<1>4. \A r : CanonRow(op, r)' = CanonRow(op, r) BY <1>1 DEF CanonRow, CanonArgs
<1> HIDE DEF canonical
<1>5. \A r \in rows'[op] : CanonRow(op, r)' = r BY <1>2, <1>3, <1>4
<1>6. LoopInv'
  <2>1. \A r \in rows'[Current'] : CanonRow(Current, r)' = r BY <1>1, <1>5
  <2>2. phase' # "again" BY <1>1
  <2> QED BY <2>1, <2>2 DEF LoopInv
<1>7. FlattenSeesClosed'
  <2> SUFFICES ASSUME phase' = "flatten", NEW r \in rows'[op], NEW s \in rows'[op]
               PROVE  CanonRow(op, r)' = r /\ (r.args = s.args => r.id = s.id)
    BY <1>1 DEF FlattenSeesClosed
  <2>1. phase = "again" /\ canonical = rows[op] BY <1>1
  <2>2. r \in rows[op] /\ s \in rows[op] BY <2>1, <1>3
  <2>3. r.args = s.args => rep[r.id] = rep[s.id] BY <2>1, <2>2 DEF LoopInv
  <2>4. r.id = rep[r.id] /\ s.id = rep[s.id]
    BY <2>1, <2>2, <1>2 DEF CanonRow
  <2> QED BY <2>3, <2>4, <1>5
<1> QED BY <1>6, <1>7

\* When a pass of congruence is over, equal multisets are in one class.
LEMMA AcCongruentCloses ==
  ASSUME TypeOK, LoopInv, AcCongruent
  PROVE  LoopInv' /\ FlattenSeesClosed'
<1> DEFINE op == Current
<1>1. /\ phase = "congruence" /\ Congruent(op) = {}
      /\ phase' = (IF changed THEN "again" ELSE "flatten")
      /\ UNCHANGED <<rep, rows, pending, changed>>
  BY DEF AcCongruent
<1>2. op' = op /\ \A r : CanonRow(op, r)' = CanonRow(op, r)
  BY <1>1 DEF CanonRow, CanonArgs, Current
<1>3. ASSUME NEW r \in rows[op], NEW s \in rows[op], r.args = s.args
      PROVE  rep[r.id] = rep[s.id]
  <2>1. <<r, s>> \notin Congruent(op) BY <1>1
  <2> QED BY <2>1, <1>3 DEF Congruent
<1>4. LoopInv'
  <2>1. phase' # "congruence" BY <1>1
  <2>2. \A r, s \in rows'[Current'] : r.args = s.args => rep'[r.id] = rep'[s.id]
    BY <1>1, <1>2, <1>3
  <2> QED BY <2>1, <2>2 DEF LoopInv
<1>5. FlattenSeesClosed'
  <2> SUFFICES ASSUME phase' = "flatten", NEW r \in rows[op], NEW s \in rows[op]
               PROVE  CanonRow(op, r) = r /\ (r.args = s.args => r.id = s.id)
    BY <1>1, <1>2 DEF FlattenSeesClosed
  <2>1. ~ changed BY <1>1
  <2>2. CanonRow(op, r) = r /\ CanonRow(op, s) = s BY <1>1, <2>1 DEF LoopInv
  <2>3. r.id = rep[r.id] /\ s.id = rep[s.id] BY <2>2 DEF CanonRow
  <2> QED BY <2>2, <2>3, <1>3
<1> QED BY <1>4, <1>5

\* The loop invariant is kept by every step, and flattening starts closed.
LEMMA NextCloses == TypeOK /\ LoopInv /\ FlattenSeesClosed /\ [Next]_vars
                      => LoopInv' /\ FlattenSeesClosed'
<1> SUFFICES ASSUME TypeOK, LoopInv, FlattenSeesClosed, [Next]_vars
             PROVE  LoopInv' /\ FlattenSeesClosed'
  OBVIOUS
<1>1. ASSUME phase' \notin {"congruence", "again", "flatten"}
      PROVE  LoopInv' /\ FlattenSeesClosed'
  BY <1>1 DEF LoopInv, FlattenSeesClosed
<1>2. ASSUME NEW op \in Ops, NEW args \in CallArgs(op), AddEnode(op, args)
      PROVE  LoopInv' /\ FlattenSeesClosed'
  BY <1>1, <1>2 DEF AddEnode
<1>3. ASSUME NEW a \in Live, NEW b \in Live, Unify(a, b)
      PROVE  LoopInv' /\ FlattenSeesClosed'
  BY <1>1, <1>3 DEF Unify
<1>4. CASE Rebuild \/ RebuildReturn
  BY <1>1, <1>4 DEF Rebuild, RebuildReturn
<1>5. CASE RowStep
  <2>1. phase' \in {"scan", "relation"}
    BY <1>5 DEF RowStep, RowCanonicalize, RowScan, RowFinish
  <2> QED BY <2>1, <1>1
<1>6. CASE AcCanonicalize BY <1>6, AcCanonicalizeCloses
<1>7. CASE AcUnify
  <2>1. phase' = "congruence" /\ changed' = TRUE BY <1>7 DEF AcUnify
  <2> QED BY <2>1 DEF LoopInv, FlattenSeesClosed
<1>8. CASE AcCongruent BY <1>8, AcCongruentCloses
<1>9. CASE AcFlatten \/ AcUnflatten
  BY <1>1, <1>9 DEF AcFlatten, AcUnflatten
<1>10. CASE UNCHANGED vars
  <2>1. \A r : CanonRow(Current, r)' = CanonRow(Current, r)
    BY <1>10 DEF CanonRow, CanonArgs, Current, vars
  <2> QED BY <2>1, <1>10 DEF LoopInv, FlattenSeesClosed, Current, vars
<1> QED BY <1>2, <1>3, <1>4, <1>5, <1>6, <1>7, <1>8, <1>9, <1>10
        DEF Next, RebuildStep, AcStep

\* flatten and unflatten always start on a closed relation (relation_ac.cpp:156,
\* :274): canonical tuples, one id per multiset.
THEOREM FlattenClosed == Spec => []FlattenSeesClosed
<1>1. Init => LoopInv /\ FlattenSeesClosed BY DEF Init, LoopInv, FlattenSeesClosed
<1>2. Init => TypeOK BY InitType
<1>3. TypeOK /\ [Next]_vars => TypeOK' BY NextType
<1> QED BY <1>1, <1>2, <1>3, NextCloses, PTL DEF Spec
-----------------------------------------------------------------------------
\* No id is handed out, and what was equal stays equal.
ClassesGrow == Len(rep') = Len(rep) /\ \E g : Coarser(g, rep')

\* The tuples change only within their classes.
RowsFollow ==
  /\ \A op \in Ops : \A r \in AllRows(op) : \E s \in AllRows(op)' :
       CanonArgs(op, s.args)' = CanonArgs(op, r.args)' /\ rep'[s.id] = rep'[r.id]
  /\ \A op \in Ops : \A s \in AllRows(op)' : \E r \in AllRows(op) :
       CanonArgs(op, s.args)' = CanonArgs(op, r.args)' /\ rep'[s.id] = rep'[r.id]

\* A step that leaves the union-find alone.
LEMMA SameClasses ==
  ASSUME UF!IsPartition, rep' = rep
  PROVE  /\ ClassesGrow
         /\ \A op, args : CanonArgs(op, args)' = CanonArgs(op, args)
<1>1. rep \in [1..Len(rep) -> Ids] /\ \A x \in Live : rep[x] \in Live /\ rep[rep[x]] = rep[x]
  BY PartitionFacts
<1>2. rep \in [Live -> Live] BY <1>1 DEF Live
<1>3. Coarser(rep, rep) BY <1>1, <1>2 DEF Coarser
<1> QED BY <1>3 DEF ClassesGrow, CanonArgs

\* If the memo stays and the tuples follow their classes, both go on agreeing.
LEMMA MemoFollows ==
  ASSUME TypeOK, MemoMatchesRows, memo' = memo, ClassesGrow, RowsFollow
  PROVE  MemoMatchesRows'
<1>1. UF!IsPartition /\ MemoOK /\ Len(rep') = Len(rep) BY DEF TypeOK, ClassesGrow
<1>2. PICK g : Coarser(g, rep') BY DEF ClassesGrow
<1>3. ASSUME NEW op \in Ops, NEW s \in Args(op), NEW t \in Args(op),
             CanonArgs(op, s) = CanonArgs(op, t)
      PROVE  CanonArgs(op, s)' = CanonArgs(op, t)'
  BY <1>1, <1>2, <1>3, CanonKept
<1>4. \A op \in Ops : \A r \in AllRows(op) : r.args \in Args(op) /\ r.id \in Live
  BY RowsOutsideScan DEF Row
<1>5. \A x, y \in Live : rep[x] = rep[y] => rep'[x] = rep'[y] BY <1>2 DEF Coarser
<1>6. ASSUME NEW e \in DOMAIN memo
      PROVE  \E r \in AllRows(e.op)' :
               /\ CanonArgs(e.op, r.args)' = CanonArgs(e.op, e.args)'
               /\ rep'[r.id] = rep'[memo[e]]
  <2>1. e.op \in Ops /\ e.args \in Args(e.op) /\ memo[e] \in Live BY <1>1 DEF MemoOK
  <2>2. PICK r \in AllRows(e.op) : /\ CanonArgs(e.op, r.args) = CanonArgs(e.op, e.args)
                                   /\ rep[r.id] = rep[memo[e]]
    BY DEF MemoMatchesRows
  <2>3. r.args \in Args(e.op) /\ r.id \in Live BY <1>4, <2>1
  <2>4. CanonArgs(e.op, r.args)' = CanonArgs(e.op, e.args)' BY <1>3, <2>1, <2>2, <2>3
  <2>5. PICK s \in AllRows(e.op)' : /\ CanonArgs(e.op, s.args)' = CanonArgs(e.op, r.args)'
                                    /\ rep'[s.id] = rep'[r.id]
    BY <2>1 DEF RowsFollow
  <2>6. rep'[r.id] = rep'[memo[e]] BY <1>5, <2>1, <2>2, <2>3
  <2> QED BY <2>4, <2>5, <2>6
<1>7. ASSUME NEW op \in Ops, NEW s \in AllRows(op)'
      PROVE  \E e \in DOMAIN memo :
               e.op = op /\ CanonArgs(op, e.args)' = CanonArgs(op, s.args)'
  <2>1. PICK r \in AllRows(op) : CanonArgs(op, s.args)' = CanonArgs(op, r.args)'
    BY DEF RowsFollow
  <2>2. PICK e \in DOMAIN memo : e.op = op /\ CanonArgs(op, e.args) = CanonArgs(op, r.args)
    BY DEF MemoMatchesRows
  <2>3. e.args \in Args(op) /\ r.args \in Args(op) BY <1>1, <1>4, <2>2 DEF MemoOK
  <2>4. CanonArgs(op, e.args)' = CanonArgs(op, r.args)' BY <1>3, <2>2, <2>3
  <2> QED BY <2>1, <2>2, <2>4
<1> QED BY <1>6, <1>7 DEF MemoMatchesRows

\* A new e-node gets a memo entry and a tuple with one id.
LEMMA AddEnodeMatches ==
  ASSUME TypeOK, MemoMatchesRows, NEW op \in Ops, NEW args \in CallArgs(op),
         AddEnode(op, args)
  PROVE  MemoMatchesRows'
<1> DEFINE e == ENode(op, CanonArgs(op, args))
           n == Len(rep)
           new == [args |-> e.args, id |-> n + 1]
<1>0. UF!IsPartition /\ MemoOK /\ RowsOK /\ phase = "idle" /\ UNCHANGED <<phase, pending, todo, cur>>
  BY DEF TypeOK, AddEnode
<1>1. \A o : AllRows(o) = rows[o] /\ AllRows(o)' = rows'[o] BY <1>0 DEF AllRows
<1>2. CASE UNCHANGED store
  <2>1. rep' = rep /\ memo' = memo /\ rows' = rows BY <1>2 DEF store
  <2>2. \A o, a : CanonArgs(o, a)' = CanonArgs(o, a) BY <2>1 DEF CanonArgs
  <2> QED BY <1>1, <2>1, <2>2 DEF MemoMatchesRows
<1>3. CASE /\ UF!MakeSet
           /\ rows' = [rows EXCEPT ![op] = @ \cup {new}]
           /\ memo' = [k \in DOMAIN memo \cup {e} |-> IF k = e THEN n + 1 ELSE memo[k]]
  <2>1. /\ \A o \in Ops : \A a \in Args(o) : CanonArgs(o, a)' = CanonArgs(o, a)
        /\ \A x \in Live : rep'[x] = rep[x]
    BY <1>0, <1>3, MakeSetCanon, MakeSetFacts
  <2>2. \A o \in Ops : \A r \in rows[o] : r.args \in Args(o) /\ r.id \in Live
    BY <1>0 DEF RowsOK, Row
  <2>3. e.op = op /\ new.args = e.args /\ new.id = n + 1 BY DEF ENode
  <2> HIDE DEF e, n, new
  <2>4. new \in rows'[op] /\ \A o \in Ops : rows[o] \subseteq rows'[o]
    BY <1>0, <1>3 DEF RowsOK
  <2>5. \A o \in Ops : \A r \in rows'[o] : r \in rows[o] \/ (o = op /\ r = new)
    BY <1>0, <1>3 DEF RowsOK
  <2>6. ASSUME NEW k \in DOMAIN memo'
        PROVE  \E r \in rows'[k.op] : /\ CanonArgs(k.op, r.args)' = CanonArgs(k.op, k.args)'
                                      /\ rep'[r.id] = rep'[memo'[k]]
    <3>1. CASE k = e
      <4>1. memo'[k] = n + 1 BY <3>1, <1>3
      <4> QED BY <4>1, <3>1, <2>3, <2>4
    <3>2. CASE k # e
      <4>1. k \in DOMAIN memo /\ memo'[k] = memo[k] BY <3>2, <1>3
      <4>2. k.op \in Ops /\ k.args \in Args(k.op) /\ memo[k] \in Live
        BY <4>1, <1>0 DEF MemoOK
      <4>3. PICK r \in rows[k.op] : /\ CanonArgs(k.op, r.args) = CanonArgs(k.op, k.args)
                                    /\ rep[r.id] = rep[memo[k]]
        BY <4>1, <1>1 DEF MemoMatchesRows
      <4>4. r \in rows'[k.op] BY <4>2, <2>4
      <4>5. /\ CanonArgs(k.op, r.args)' = CanonArgs(k.op, k.args)'
            /\ rep'[r.id] = rep'[memo'[k]]
        BY <4>1, <4>2, <4>3, <2>1, <2>2
      <4> QED BY <4>4, <4>5
    <3> QED BY <3>1, <3>2
  <2>7. ASSUME NEW o \in Ops, NEW r \in rows'[o]
        PROVE  \E k \in DOMAIN memo' :
                 k.op = o /\ CanonArgs(o, k.args)' = CanonArgs(o, r.args)'
    <3>1. CASE r \in rows[o]
      <4>1. PICK k \in DOMAIN memo : k.op = o /\ CanonArgs(o, k.args) = CanonArgs(o, r.args)
        BY <3>1, <1>1 DEF MemoMatchesRows
      <4>2. k \in DOMAIN memo' /\ k.args \in Args(o) BY <4>1, <1>0, <1>3 DEF MemoOK
      <4>3. CanonArgs(o, k.args)' = CanonArgs(o, r.args)'
        BY <3>1, <4>1, <4>2, <2>1, <2>2
      <4> QED BY <4>1, <4>2, <4>3
    <3>2. CASE o = op /\ r = new
      <4>1. e \in DOMAIN memo' BY <1>3
      <4> QED BY <4>1, <3>2, <2>3
    <3> QED BY <3>1, <3>2, <2>5
  <2> QED BY <2>6, <2>7, <1>1 DEF MemoMatchesRows
<1> QED BY <1>2, <1>3 DEF AddEnode

\* The memo pass of rebuild keeps one entry per canonical e-node.
LEMMA RebuildMatches ==
  ASSUME TypeOK, MemoMatchesRows, Rebuild
  PROVE  MemoMatchesRows'
<1>0. UF!IsPartition /\ MemoOK /\ phase # "scan" /\ phase' # "scan" /\ UNCHANGED <<rep, rows>>
  BY DEF TypeOK, Rebuild
<1>1. \A o : AllRows(o) = rows[o] /\ AllRows(o)' = rows[o] BY <1>0 DEF AllRows
<1>2. \A o, a : CanonArgs(o, a)' = CanonArgs(o, a) BY <1>0 DEF CanonArgs
<1>3. PICK winners \in SUBSET DOMAIN memo :
        /\ {CanonENode(e) : e \in winners} = {CanonENode(e) : e \in DOMAIN memo}
        /\ memo' = [k \in {CanonENode(e) : e \in winners} |->
                      rep[memo[CHOOSE e \in winners : CanonENode(e) = k]]]
  BY DEF Rebuild
<1>4. ASSUME NEW e \in DOMAIN memo
      PROVE  /\ e.op \in Ops /\ e.args \in Args(e.op) /\ memo[e] \in Live
             /\ CanonENode(e).op = e.op
             /\ CanonENode(e).args = CanonArgs(e.op, e.args)
             /\ CanonArgs(e.op, CanonENode(e).args) = CanonArgs(e.op, e.args)
  <2>1. e.op \in Ops /\ e.args \in Args(e.op) /\ memo[e] \in Live BY <1>0 DEF MemoOK
  <2>2. CanonENode(e).op = e.op /\ CanonENode(e).args = CanonArgs(e.op, e.args)
    BY DEF CanonENode, ENode
  <2> QED BY <2>1, <2>2, <1>0, CanonArgsIdempotent
<1>5. ASSUME NEW k \in DOMAIN memo'
      PROVE  \E r \in rows[k.op] : /\ CanonArgs(k.op, r.args) = CanonArgs(k.op, k.args)
                                   /\ rep[r.id] = rep[memo'[k]]
  <2> DEFINE w == CHOOSE e \in winners : CanonENode(e) = k
  <2>1. \E e \in winners : CanonENode(e) = k BY <1>3, <1>5
  <2>2. w \in winners /\ CanonENode(w) = k BY <2>1
  <2>3. memo'[k] = rep[memo[w]] BY <1>3, <1>5
  <2> HIDE DEF w
  <2>4. w \in DOMAIN memo BY <2>2
  <2>5. PICK r \in rows[w.op] : /\ CanonArgs(w.op, r.args) = CanonArgs(w.op, w.args)
                                /\ rep[r.id] = rep[memo[w]]
    BY <2>4, <1>1 DEF MemoMatchesRows
  <2>6. /\ k.op = w.op /\ CanonArgs(k.op, k.args) = CanonArgs(w.op, w.args)
        /\ memo[w] \in Live
    BY <2>2, <2>4, <1>4
  <2>7. rep[memo'[k]] = rep[memo[w]] BY <2>3, <2>6, <1>0, PartitionFacts
  <2> QED BY <2>5, <2>6, <2>7
<1>6. ASSUME NEW op \in Ops, NEW r \in rows[op]
      PROVE  \E k \in DOMAIN memo' : k.op = op /\ CanonArgs(op, k.args) = CanonArgs(op, r.args)
  <2>1. PICK e \in DOMAIN memo : e.op = op /\ CanonArgs(op, e.args) = CanonArgs(op, r.args)
    BY <1>1 DEF MemoMatchesRows
  <2>2. CanonENode(e) \in DOMAIN memo' BY <1>3
  <2> QED BY <2>1, <2>2, <1>4
<1> QED BY <1>0, <1>1, <1>2, <1>5, <1>6 DEF MemoMatchesRows

\* Derived tuples come with memo entries.
LEMMA DeriveMatches ==
  ASSUME TypeOK, MemoMatchesRows, rep' = rep, phase # "scan", phase' # "scan",
         NEW op \in AcOps, NEW derived, derived \subseteq Row(op), Derive(op, derived)
  PROVE  MemoMatchesRows'
<1> DEFINE new == derived \ rows[op]
           Owners(e) == {r.id : r \in {s \in new : ENode(op, s.args) = e}}
<1>0. op \in Ops /\ UF!IsPartition /\ RowsOK BY DEF Ops, TypeOK
<1>1. \A o : AllRows(o) = rows[o] /\ AllRows(o)' = rows'[o] BY DEF AllRows
<1>2. \A o, a : CanonArgs(o, a)' = CanonArgs(o, a) BY DEF CanonArgs
<1>3. /\ rows' = [rows EXCEPT ![op] = rows[op] \cup new]
      /\ memo' = [e \in DOMAIN memo \cup {ENode(op, r.args) : r \in new} |->
                    IF e \in DOMAIN memo THEN memo[e]
                    ELSE CHOOSE x \in Owners(e) : \A y \in Owners(e) : x <= y]
  BY DEF Derive
<1>4. ASSUME NEW e \in DOMAIN memo', e \notin DOMAIN memo
      PROVE  \E r \in new : e = ENode(op, r.args) /\ memo'[e] = r.id
  <2> DEFINE T == Owners(e)
  <2>1. PICK r \in new : e = ENode(op, r.args) BY <1>3, <1>4
  <2>2. r.id \in T BY <2>1
  <2>3. T \subseteq Live BY DEF Row
  <2>4. T \subseteq Nat BY <2>3, <1>0, PartitionFacts DEF Live
  <2>5. memo'[e] = CHOOSE x \in T : \A y \in T : x <= y BY <1>3, <1>4
  <2>6. memo'[e] \in T
    <3> HIDE DEF T
    <3>1. \E x \in T : \A y \in T : x <= y BY <2>2, <2>4, LeastElement
    <3> QED BY <3>1, <2>5
  <2>7. PICK s \in new : ENode(op, s.args) = e /\ memo'[e] = s.id BY <2>6
  <2> QED BY <2>7
<1> HIDE DEF new
<1>5. rows'[op] = rows[op] \cup new /\ \A o \in Ops : rows[o] \subseteq rows'[o]
  BY <1>0, <1>3 DEF RowsOK
<1>6. \A o \in Ops : o # op => rows'[o] = rows[o] BY <1>0, <1>3 DEF RowsOK
<1>7. ASSUME NEW e \in DOMAIN memo'
      PROVE  \E r \in rows'[e.op] : /\ CanonArgs(e.op, r.args) = CanonArgs(e.op, e.args)
                                    /\ rep[r.id] = rep[memo'[e]]
  <2>1. CASE e \in DOMAIN memo
    <3>1. memo'[e] = memo[e] BY <1>3, <2>1
    <3>2. e.op \in Ops BY <2>1 DEF TypeOK, MemoOK
    <3> QED BY <3>1, <3>2, <2>1, <1>1, <1>5 DEF MemoMatchesRows
  <2>2. CASE e \notin DOMAIN memo
    <3>1. PICK r \in new : e = ENode(op, r.args) /\ memo'[e] = r.id BY <2>2, <1>4
    <3>2. e.op = op /\ e.args = r.args BY <3>1 DEF ENode
    <3> QED BY <3>1, <3>2, <1>5
  <2> QED BY <2>1, <2>2
<1>8. ASSUME NEW o \in Ops, NEW r \in rows'[o]
      PROVE  \E e \in DOMAIN memo' : e.op = o /\ CanonArgs(o, e.args) = CanonArgs(o, r.args)
  <2>1. DOMAIN memo \subseteq DOMAIN memo' BY <1>3
  <2>2. CASE r \in rows[o] BY <2>1, <2>2, <1>1 DEF MemoMatchesRows
  <2>3. CASE o = op /\ r \in new
    <3>1. ENode(op, r.args) \in DOMAIN memo' BY <2>3, <1>3
    <3>2. ENode(op, r.args).op = op /\ ENode(op, r.args).args = r.args BY DEF ENode
    <3> QED BY <3>1, <3>2, <2>3
  <2> QED BY <2>2, <2>3, <1>5, <1>6
<1> QED BY <1>1, <1>2, <1>7, <1>8 DEF MemoMatchesRows

\* Starting on a relation, a scan included, replaces its tuples by the canonical
\* ones.
LEMMA RowsCanonicalized ==
  ASSUME TypeOK, RowCanonicalize \/ AcCanonicalize
  PROVE  \A o \in Ops : AllRows(o)' =
           IF o = Current THEN {CanonRow(Current, r) : r \in rows[Current]} ELSE rows[o]
<1> DEFINE op == Current
           canon == {CanonRow(op, r) : r \in rows[op]}
           canonical == {<<r, CanonRow(op, r)>> : r \in rows[op]}
<1>0. /\ UF!IsPartition /\ RowsOK /\ op \in Ops /\ phase # "scan" /\ rep' = rep
  BY DEF TypeOK, RowCanonicalize, AcCanonicalize, ControlOK, Ops
<1>1. \A r \in rows[op] : <<r, CanonRow(op, r)>> \in canonical OBVIOUS
<1>2. \A t \in canonical : t[2] \in canon OBVIOUS
<1>3. {t[2] : t \in canonical} = canon
  <2>1. ASSUME NEW r \in rows[op] PROVE CanonRow(op, r) \in {t[2] : t \in canonical}
    <3>1. <<r, CanonRow(op, r)>>[2] = CanonRow(op, r) OBVIOUS
    <3> HIDE DEF canonical
    <3> QED BY <3>1, <1>1
  <2>2. \A x \in canon : x \in {t[2] : t \in canonical}
    <3> HIDE DEF canonical
    <3> QED BY <2>1
  <2> HIDE DEF canon, canonical
  <2> QED BY <2>2, <1>2
<1> DEFINE Claim == \A o \in Ops : AllRows(o)' = IF o = op THEN canon ELSE rows[o]
<1> HIDE DEF canonical
<1>4. ASSUME RowCanonicalize PROVE Claim
  <2>1. CASE /\ rows' = [rows EXCEPT ![op] = {t[2] : t \in canonical}]
             /\ UNCHANGED <<phase, todo, cur>>
    <3>1. rows' = [rows EXCEPT ![op] = canon] BY <2>1, <1>3
    <3>2. \A o : AllRows(o)' = rows'[o] BY <2>1, <1>0 DEF AllRows
    <3> HIDE DEF canon, op
    <3> QED BY <3>1, <3>2, <1>0 DEF RowsOK
  <2>2. CASE /\ \E t \in First(canonical) : cur' = {t[2]} /\ todo' = canonical \ {t}
             /\ rows' = [rows EXCEPT ![op] = {}]
             /\ phase' = "scan" /\ UNCHANGED pending
    <3>1. PICK t \in canonical : cur' = {t[2]} /\ todo' = canonical \ {t}
      BY <2>2 DEF First
    <3>2. cur' \cup {u[2] : u \in todo'} = {u[2] : u \in canonical} BY <3>1
    <3>3. cur' \cup {u[2] : u \in todo'} = canon BY <3>2, <1>3
    <3>4. phase' = "scan" /\ Head(pending') = op BY <2>2 DEF Current
    <3> HIDE DEF canon, op
    <3>5. rows'[op] = {} /\ \A o \in Ops : o # op => rows'[o] = rows[o]
      BY <2>2, <1>0 DEF RowsOK
    <3>6. \A o : AllRows(o)' = IF o = op THEN rows'[o] \cup cur' \cup {u[2] : u \in todo'}
                                        ELSE rows'[o]
      BY <3>4 DEF AllRows
    <3> QED BY <3>3, <3>5, <3>6
  <2> QED BY <1>4, <2>1, <2>2 DEF RowCanonicalize, canonical
<1>5. ASSUME AcCanonicalize PROVE Claim
  <2>1. rows' = [rows EXCEPT ![op] = canon] /\ phase' # "scan"
    BY <1>5 DEF AcCanonicalize
  <2>2. \A o : AllRows(o)' = rows'[o] BY <2>1 DEF AllRows
  <2> HIDE DEF canon, op
  <2> QED BY <2>1, <2>2, <1>0 DEF RowsOK
<1> QED BY <1>4, <1>5

\* Canonical tuples stay in their classes; none is lost.
LEMMA CanonicalizeFollows ==
  ASSUME TypeOK, RowCanonicalize \/ AcCanonicalize
  PROVE  RowsFollow
<1> DEFINE op == Current
           canon == {CanonRow(op, r) : r \in rows[op]}
<1>0. /\ UF!IsPartition /\ RowsOK /\ op \in Ops /\ phase # "scan" /\ rep' = rep
  BY DEF TypeOK, RowCanonicalize, AcCanonicalize, ControlOK, Ops
<1>1. \A o : AllRows(o) = rows[o] BY <1>0 DEF AllRows
<1>2. \A o \in Ops : AllRows(o)' = IF o = op THEN canon ELSE rows[o]
  BY RowsCanonicalized
<1>3. ASSUME NEW r \in rows[op]
      PROVE  /\ CanonArgs(op, CanonRow(op, r).args) = CanonArgs(op, r.args)
             /\ rep[CanonRow(op, r).id] = rep[r.id]
  <2>1. r \in Row(op) BY <1>0 DEF RowsOK
  <2> QED BY <2>1, <1>0, CanonRowFacts
<1>4. \A o, a : CanonArgs(o, a)' = CanonArgs(o, a) BY <1>0 DEF CanonArgs
<1>5. ASSUME NEW o \in Ops, NEW r \in rows[o]
       PROVE  \E s \in AllRows(o)' :
                CanonArgs(o, s.args) = CanonArgs(o, r.args) /\ rep[s.id] = rep[r.id]
  <2>1. CASE o = op
    <3>1. CanonRow(op, r) \in AllRows(o)' BY <2>1, <1>2
    <3> QED BY <3>1, <2>1, <1>3
  <2>2. CASE o # op BY <2>2, <1>2
  <2> QED BY <2>1, <2>2
<1>6. ASSUME NEW o \in Ops, NEW s \in AllRows(o)'
       PROVE  \E r \in rows[o] :
                CanonArgs(o, s.args) = CanonArgs(o, r.args) /\ rep[s.id] = rep[r.id]
  <2>1. CASE o = op
    <3>1. PICK r \in rows[op] : s = CanonRow(op, r) BY <2>1, <1>2
    <3> QED BY <3>1, <2>1, <1>3
  <2>2. CASE o # op BY <2>2, <1>2
  <2> QED BY <2>1, <2>2
<1> QED BY <1>0, <1>1, <1>4, <1>5, <1>6 DEF RowsFollow

\* Comparing two neighbours changes the id of a tuple only within its class.
LEMMA RowScanFollows ==
  ASSUME TypeOK, RowScan
  PROVE  ClassesGrow /\ RowsFollow
<1> DEFINE op == Current
<1>0. /\ UF!IsPartition /\ RowsOK /\ ScanOK /\ ControlOK
      /\ phase = "scan" /\ UNCHANGED <<phase, pending>> /\ op \in Ops
  BY DEF TypeOK, RowScan, ControlOK, Ops
<1>1. PICK c \in cur, t \in First(todo) :
        /\ todo' = todo \ {t}
        /\ \/ /\ t[2].args = c.args /\ t[2].id # c.id
              /\ UF!Union(c.id, t[2].id)
              /\ rows' = [rows EXCEPT ![op] = @ \cup
                           {[c EXCEPT !.id = UF!Merged(rep, c.id, t[2].id)[c.id]]}]
              /\ cur' = {[t[2] EXCEPT !.id = UF!Merged(rep, c.id, t[2].id)[c.id]]}
           \/ /\ rows' = [rows EXCEPT ![op] = @ \cup {c}]
              /\ cur' = {t[2]} /\ rep' = rep
  BY DEF RowScan
<1> DEFINE d == t[2]
           rest == {u[2] : u \in todo \ {t}}
<1>2. t \in todo /\ cur = {c} /\ c \in Row(op) /\ d \in Row(op)
  BY <1>0, <1>1 DEF ScanOK, First
<1>3. \A o : AllRows(o) = IF o = op THEN rows[o] \cup {c} \cup {d} \cup rest ELSE rows[o]
  BY <1>0, <1>2 DEF AllRows, Current
<1>4. \A o : AllRows(o)' = IF o = op THEN rows'[o] \cup cur' \cup rest ELSE rows'[o]
  BY <1>0, <1>1 DEF AllRows, Current
<1> HIDE DEF d, op, rest
<1>5. c.id \in Live /\ d.id \in Live BY <1>2 DEF Row
<1>6. CASE /\ d.args = c.args /\ UF!Union(c.id, d.id)
           /\ rows' = [rows EXCEPT ![op] = @ \cup
                        {[c EXCEPT !.id = UF!Merged(rep, c.id, d.id)[c.id]]}]
           /\ cur' = {[d EXCEPT !.id = UF!Merged(rep, c.id, d.id)[c.id]]}
  <2> DEFINE root == UF!Merged(rep, c.id, d.id)[c.id]
             c2 == [c EXCEPT !.id = root]
             d2 == [d EXCEPT !.id = root]
  <2>1. UF!IsPartition' /\ Len(rep') = Len(rep) /\ rep'[c.id] = rep'[d.id]
    BY <1>0, <1>5, <1>6, UnionFacts
  <2>2. root = rep'[c.id] BY <1>6 DEF UF!Union
  <2>3. rep'[root] = root
    <3>1. Live' = Live BY <2>1 DEF Live
    <3>2. \A x \in Live : rep'[rep'[x]] = rep'[x]
      BY <2>1, <3>1 DEF UF!IsPartition, UF!Live, Live
    <3> QED BY <3>2, <2>2, <1>5
  <2>4. ClassesGrow
    <3>1. \E g : Coarser(g, rep') BY <1>0, <1>5, <1>6, UnionCoarser
    <3> QED BY <3>1, <2>1 DEF ClassesGrow
  <2>5. /\ c2.args = c.args /\ c2.id = root /\ d2.args = d.args /\ d2.id = root
    BY <1>2 DEF Row
  <2>6. rows' = [rows EXCEPT ![op] = rows[op] \cup {c2}] /\ cur' = {d2}
    BY <1>6
  <2>7. rep'[c2.id] = rep'[c.id] /\ rep'[d2.id] = rep'[d.id]
    BY <2>1, <2>2, <2>3, <2>5
  <2> HIDE DEF root, c2, d2
  <2>8. \A o \in Ops : AllRows(o)' =
          IF o = op THEN rows[o] \cup {c2} \cup {d2} \cup rest ELSE rows[o]
    BY <2>6, <1>0, <1>4 DEF RowsOK
  <2>9. \A o \in Ops : \A r \in AllRows(o) : \E s \in AllRows(o)' :
          s.args = r.args /\ rep'[s.id] = rep'[r.id]
    BY <2>5, <2>7, <2>8, <1>3
  <2>10. \A o \in Ops : \A s \in AllRows(o)' : \E r \in AllRows(o) :
           s.args = r.args /\ rep'[s.id] = rep'[r.id]
    BY <2>5, <2>7, <2>8, <1>3
  <2> QED BY <2>4, <2>9, <2>10 DEF RowsFollow
<1>7. CASE rows' = [rows EXCEPT ![op] = @ \cup {c}] /\ cur' = {d} /\ rep' = rep
  <2>1. \A o \in Ops : AllRows(o)' = AllRows(o)
    BY <1>0, <1>3, <1>4, <1>7 DEF RowsOK
  <2> QED BY <2>1, <1>0, <1>7, SameClasses DEF RowsFollow
<1> QED BY <1>1, <1>6, <1>7 DEF d

\* Any other step of rebuild leaves the tuples alone, or moves them from the scan
\* back to the relation.
LEMMA TuplesStay ==
  ASSUME TypeOK,
         \/ RowFinish \/ AcUnify \/ AcCongruent \/ RebuildReturn \/ UNCHANGED vars
         \/ \E a, b \in Live : Unify(a, b)
  PROVE  RowsFollow
<1>1. \A o \in Ops : AllRows(o)' = AllRows(o)
  <2>1. CASE RowFinish
    <3>1. /\ phase = "scan" /\ todo = {} /\ phase' = "relation"
          /\ rows' = [rows EXCEPT ![Current] = @ \cup cur] /\ DOMAIN rows = Ops
      BY <2>1 DEF RowFinish, TypeOK, RowsOK
    <3>2. \A o : AllRows(o) = IF o = Current THEN rows[o] \cup cur ELSE rows[o]
      BY <3>1 DEF AllRows, Current
    <3>3. \A o : AllRows(o)' = rows'[o] BY <3>1 DEF AllRows
    <3> QED BY <3>1, <3>2, <3>3
  <2>2. CASE AcUnify \/ AcCongruent \/ RebuildReturn \/ \E a, b \in Live : Unify(a, b)
    <3>1. rows' = rows /\ phase # "scan" /\ phase' # "scan"
      BY <2>2 DEF AcUnify, AcCongruent, RebuildReturn, Unify
    <3> QED BY <3>1 DEF AllRows
  <2>3. CASE UNCHANGED vars BY <2>3 DEF vars, AllRows
  <2> QED BY <2>1, <2>2, <2>3
<1> QED BY <1>1 DEF RowsFollow

\* Steps that enter no e-node: classes grow, tuples follow, the memo stays.
Moves == \/ RowStep \/ AcCanonicalize \/ AcUnify \/ AcCongruent \/ RebuildReturn
         \/ \E a, b \in Live : Unify(a, b)
         \/ UNCHANGED vars

\* The classes grow, every tuple has a congruent successor, the memo stays.
LEMMA MovesFollow ==
  ASSUME TypeOK, Moves
  PROVE  ClassesGrow /\ RowsFollow /\ memo' = memo
<1>0. UF!IsPartition /\ RowsOK /\ ControlOK BY DEF TypeOK
<1>1. CASE \E a, b \in Live : Unify(a, b)
  <2>1. PICK a \in Live, b \in Live : Unify(a, b) BY <1>1
  <2>2. UF!Union(a, b) /\ memo' = memo BY <2>1 DEF Unify
  <2>3. Len(rep') = Len(rep) /\ \E g : Coarser(g, rep')
    BY <2>2, <1>0, UnionFacts, UnionCoarser
  <2>4. RowsFollow BY <1>1, TuplesStay
  <2> QED BY <2>2, <2>3, <2>4 DEF ClassesGrow
<1>2. CASE RowCanonicalize \/ AcCanonicalize
  <2>1. rep' = rep /\ memo' = memo BY <1>2 DEF RowCanonicalize, AcCanonicalize
  <2> QED BY <2>1, <1>0, <1>2, SameClasses, CanonicalizeFollows
<1>3. CASE RowScan
  <2>1. memo' = memo BY <1>3 DEF RowScan
  <2> QED BY <2>1, <1>3, RowScanFollows
<1>4. CASE AcUnify
  <2>1. PICK p \in Congruent(Current) : UF!Union(p[1].id, p[2].id) BY <1>4 DEF AcUnify
  <2>2. phase = "congruence" /\ memo' = memo BY <1>4 DEF AcUnify
  <2>3. Current \in Ops BY <1>0, <2>2 DEF ControlOK, Ops
  <2>4. p[1].id \in Live /\ p[2].id \in Live
    BY <2>3, <1>0 DEF Congruent, RowsOK, Row
  <2>5. Len(rep') = Len(rep) /\ \E g : Coarser(g, rep')
    BY <2>1, <2>4, <1>0, UnionFacts, UnionCoarser
  <2>6. RowsFollow BY <1>4, TuplesStay
  <2> QED BY <2>2, <2>5, <2>6 DEF ClassesGrow
<1>5. CASE RowFinish \/ AcCongruent \/ RebuildReturn \/ UNCHANGED vars
  <2>1. rep' = rep /\ memo' = memo
    BY <1>5 DEF RowFinish, AcCongruent, RebuildReturn, vars
  <2>2. RowsFollow BY <1>5, TuplesStay
  <2> QED BY <2>1, <2>2, <1>0, SameClasses
<1> QED BY <1>1, <1>2, <1>3, <1>4, <1>5 DEF Moves, RowStep

\* Every step keeps the memo and the tuples in agreement.
LEMMA NextMatches == TypeOK /\ MemoMatchesRows /\ [Next]_vars => MemoMatchesRows'
<1> SUFFICES ASSUME TypeOK, MemoMatchesRows, [Next]_vars PROVE MemoMatchesRows' OBVIOUS
<1>0. UF!IsPartition /\ RowsOK /\ ControlOK BY DEF TypeOK
<1>1. ASSUME NEW op \in Ops, NEW args \in CallArgs(op), AddEnode(op, args)
      PROVE  MemoMatchesRows'
  BY <1>1, AddEnodeMatches
<1>2. CASE Rebuild BY <1>2, RebuildMatches
<1>3. CASE Moves BY <1>3, MovesFollow, MemoFollows
<1>4. CASE AcFlatten \/ AcUnflatten
  <2> DEFINE op == Current
  <2>1. /\ phase \in {"flatten", "unflatten"} /\ phase' # "scan" /\ rep' = rep
        /\ Derive(op, Flattened(op)) \/ Derive(op, Unflattened(op))
    BY <1>4 DEF AcFlatten, AcUnflatten
  <2>2. op \in AcOps /\ op \in Ops BY <1>0, <2>1 DEF ControlOK, Ops
  <2>3. Flattened(op) \subseteq Row(op) /\ Unflattened(op) \subseteq Row(op)
    BY <1>0, <2>2, DerivedType, PartitionFacts DEF RowsOK
  <2> HIDE DEF op
  <2>4. phase # "scan" BY <2>1
  <2> QED BY <2>1, <2>2, <2>3, <2>4, DeriveMatches
<1> QED BY <1>1, <1>2, <1>3, <1>4 DEF Next, RebuildStep, AcStep, Moves

\* At every step, also in the middle of rebuild, every memo entry has a tuple in
\* the same class and every tuple has an entry (egraph.cpp:102-118, 190-213,
\* relation_ac.cpp:219).
THEOREM MemoAgrees == Spec => []MemoMatchesRows
<1>1. Init => MemoMatchesRows
  <2> SUFFICES ASSUME Init PROVE MemoMatchesRows OBVIOUS
  <2>1. \A o \in Ops : AllRows(o) = {} BY DEF Init, AllRows
  <2>2. DOMAIN memo = {} BY DEF Init
  <2> QED BY <2>1, <2>2 DEF MemoMatchesRows
<1>2. Init => TypeOK BY InitType
<1>3. TypeOK /\ [Next]_vars => TypeOK' BY NextType
<1> QED BY <1>1, <1>2, <1>3, NextMatches, PTL DEF Spec
-----------------------------------------------------------------------------

\* The relation of op is still to be rebuilt by the running call.
Waiting(op) == \E i \in DOMAIN pending : pending[i] = op

\* Among these tuples the arguments determine the class.
Functional(S) == \A r, s \in S : r.args = s.args => rep[r.id] = rep[s.id]

Canonical(op, S) == \A r \in S : CanonArgs(op, r.args) = r.args

MemoCanonical == \A e \in DOMAIN memo : CanonENode(e) = e

\* What is behind the scan does not belong before it.
Sorted ==
  /\ \A c \in cur : /\ \A r \in rows[Current] : ~ ArgsBefore(c.args, r.args)
                    /\ \A t \in todo : ~ ArgsBefore(t[2].args, c.args)
  /\ \A r \in rows[Current], t \in todo : ~ ArgsBefore(t[2].args, r.args)

\* Operators without arguments have one class, although their relations are
\* never scanned; relations rebuilt by the running call are functional, and so
\* is the part of a relation that a scan has passed.
OneConstant ==
  \A op \in RowOps : Arity[op] = 0 =>
    \A r, s \in AllRows(op) : rep[r.id] = rep[s.id]

Passed ==
  /\ phase # "idle" => \A op \in RowOps : Waiting(op) \/ Functional(rows[op])
  /\ phase = "scan" => Sorted /\ Functional(rows[Current] \cup cur)

\* As long as a rebuild has merged nothing, the memo stays canonical and so does
\* every relation it is done with.
QuietInv ==
  /\ quiet => /\ phase = "idle" /\ MemoCanonical
              /\ \A op \in Ops : Functional(rows[op]) /\ Canonical(op, rows[op])
  /\ phase \in {"relation", "scan"} /\ ~ did =>
       /\ MemoCanonical
       /\ \A op \in Ops : Waiting(op) \/ (op \in RowOps /\ Canonical(op, rows[op]))
  /\ phase = "scan" /\ ~ did => Canonical(Current, AllRows(Current))
-----------------------------------------------------------------------------
\* The order that a row store is sorted by is total.
LEMMA ArgsTotal ==
  ASSUME NEW n \in Nat, NEW s \in [1..n -> Nat], NEW t \in [1..n -> Nat],
         ~ ArgsBefore(s, t), ~ ArgsBefore(t, s)
  PROVE  s = t
<1> DEFINE D == {i \in 1..n : s[i] # t[i]}
<1>1. CASE D = {}
  <2>1. \A i \in 1..n : s[i] = t[i] BY <1>1
  <2> QED BY <2>1
<1>2. CASE D # {}
  <2>1. D \subseteq Nat OBVIOUS
  <2> HIDE DEF D
  <2>2. PICK x \in D : \A y \in D : x <= y BY <1>2, <2>1, LeastElement
  <2>3. x \in 1..n /\ s[x] # t[x] BY DEF D
  <2>4. \A j \in 1..(x-1) : s[j] = t[j]
    <3> SUFFICES ASSUME NEW j \in 1..(x-1) PROVE s[j] = t[j] OBVIOUS
    <3>1. j \in 1..n /\ ~(x <= j) BY <2>3
    <3>2. j \notin D BY <2>2, <3>1
    <3> QED BY <3>1, <3>2 DEF D
  <2>5. s[x] \in Nat /\ t[x] \in Nat BY <2>3
  <2>6. DOMAIN s = 1..n /\ DOMAIN t = 1..n OBVIOUS
  <2>7. s[x] < t[x] \/ t[x] < s[x] BY <2>3, <2>5
  <2> QED BY <2>3, <2>4, <2>6, <2>7 DEF ArgsBefore
<1> QED BY <1>1, <1>2

\* A set of at most one element.
LEMMA AtMostOne ==
  ASSUME NEW S, IsFiniteSet(S), Cardinality(S) <= 1
  PROVE  \A r, s \in S : r = s
<1>1. Cardinality(S) \in Nat BY FS_CardinalityType
<1>2. CASE Cardinality(S) = 0
  <2>1. S = {} BY <1>2, FS_EmptySet
  <2> QED BY <2>1
<1>3. CASE Cardinality(S) = 1
  <2>1. \E x : S = {x} BY <1>3, FS_Singleton
  <2> QED BY <2>1
<1> QED BY <1>1, <1>2, <1>3

\* A row store is finite.
LEMMA RowsFinite ==
  ASSUME UF!IsPartition, RowsOK, NEW op \in RowOps
  PROVE  IsFiniteSet(rows[op])
<1> DEFINE n == Arity[op]
           A == [1..n -> Live]
           graph == [a \in A |-> {<<i, a[i]>> : i \in 1..n}]
           pair == [r \in Row(op) |-> <<r.args, r.id>>]
<1>1. op \in Ops /\ op \notin AcOps /\ n \in Nat BY OpsAssumption DEF Ops
<1>2. IsFiniteSet(Live)
  <2>1. Len(rep) \in Nat BY PartitionFacts
  <2> QED BY <2>1, FS_Interval DEF Live
<1>3. IsFiniteSet(1..n) BY <1>1, FS_Interval
<1> HIDE DEF n
<1>4. IsFiniteSet(SUBSET ((1..n) \X Live)) BY <1>2, <1>3, FS_Product, FS_SUBSET
<1>5. graph \in Injection(A, SUBSET ((1..n) \X Live))
  <2>1. \A a \in A : graph[a] \subseteq (1..n) \X Live OBVIOUS
  <2>2. ASSUME NEW a \in A, NEW b \in A, graph[a] = graph[b] PROVE a = b
    <3>1. ASSUME NEW i \in 1..n PROVE a[i] = b[i]
      <4>1. <<i, a[i]>> \in graph[a] OBVIOUS
      <4>2. <<i, a[i]>> \in {<<j, b[j]>> : j \in 1..n} BY <4>1, <2>2
      <4> QED BY <4>2
    <3>2. a = [i \in 1..n |-> a[i]] /\ b = [i \in 1..n |-> b[i]] OBVIOUS
    <3>3. [i \in 1..n |-> a[i]] = [i \in 1..n |-> b[i]] BY <3>1
    <3> QED BY <3>2, <3>3, Zenon
  <2>3. graph \in [A -> SUBSET ((1..n) \X Live)] BY <2>1
  <2> HIDE DEF graph
  <2> QED BY <2>2, <2>3 DEF Injection, IsInjective
<1>6. IsFiniteSet(A) BY <1>4, <1>5, FS_Injection
<1>7. Args(op) = A BY <1>1 DEF Args, n
<1>8. IsFiniteSet(Args(op) \X Live) BY <1>2, <1>6, <1>7, FS_Product
<1>9. pair \in Injection(Row(op), Args(op) \X Live)
  BY DEF Injection, IsInjective, Row
<1>10. IsFiniteSet(Row(op)) BY <1>8, <1>9, FS_Injection
<1>11. rows[op] \subseteq Row(op) BY <1>1 DEF RowsOK
<1> QED BY <1>10, <1>11, FS_Subset
-----------------------------------------------------------------------------
\* The arguments of the tuples of a row store can be sorted.
LEMMA RowArgs ==
  ASSUME UF!IsPartition, NEW op \in RowOps, NEW r \in Row(op)
  PROVE  /\ Arity[op] \in Nat /\ r.args \in [1..Arity[op] -> Nat]
         /\ r.args \in Args(op) /\ r.id \in Live
<1>1. op \notin AcOps /\ Arity[op] \in Nat BY OpsAssumption
<1>2. r.args \in [1..Arity[op] -> Live] /\ r.args \in Args(op) /\ r.id \in Live
  BY <1>1 DEF Row, Args
<1>3. Live \subseteq Nat BY PartitionFacts DEF Live
<1> QED BY <1>1, <1>2, <1>3

\* Ids in one class stay in one class.
LEMMA ClassesKept ==
  ASSUME ClassesGrow
  PROVE  \A x, y \in Live : rep[x] = rep[y] => rep'[x] = rep'[y]
BY DEF ClassesGrow, Coarser

\* A relation that does not take its turn now goes on waiting.
LEMMA WaitingTail ==
  ASSUME ControlOK, pending # << >>, pending' = Tail(pending),
         NEW op, op # Current, Waiting(op)
  PROVE  Waiting(op)'
<1>1. PICK i \in DOMAIN pending : pending[i] = op BY DEF Waiting
<1>2. pending \in Seq(Ops) BY DEF ControlOK
<1>3. i # 1 BY <1>1, <1>2 DEF Current
<1>4. i \in 1..Len(pending) /\ Len(pending) \in Nat BY <1>1, <1>2
<1>5. i - 1 \in DOMAIN Tail(pending) /\ Tail(pending)[i - 1] = pending[i]
  BY <1>2, <1>3, <1>4
<1> QED BY <1>1, <1>5 DEF Waiting

\* The relation whose turn it is waits.
LEMMA CurrentWaits ==
  ASSUME ControlOK, pending # << >>
  PROVE  Waiting(Current)
<1>1. pending \in Seq(Ops) BY DEF ControlOK
<1>2. 1 \in DOMAIN pending /\ pending[1] = Current BY <1>1 DEF Current
<1> QED BY <1>2 DEF Waiting

\* An operator without arguments keeps one class, and gets one.
LEMMA OneConstantKept ==
  ASSUME TypeOK, MemoMatchesRows, OneConstant, [Next]_vars
  PROVE  OneConstant'
<1>0. UF!IsPartition /\ MemoOK /\ RowsOK /\ ControlOK BY DEF TypeOK
<1>1. CASE Moves
  <2>1. ClassesGrow /\ RowsFollow BY <1>1, MovesFollow
  <2> SUFFICES ASSUME NEW op \in RowOps, Arity[op] = 0,
                      NEW r \in AllRows(op)', NEW s \in AllRows(op)'
               PROVE  rep'[r.id] = rep'[s.id]
    BY DEF OneConstant
  <2>2. op \in Ops BY DEF Ops
  <2>3. PICK u \in AllRows(op) : rep'[r.id] = rep'[u.id] BY <2>1, <2>2 DEF RowsFollow
  <2>4. PICK v \in AllRows(op) : rep'[s.id] = rep'[v.id] BY <2>1, <2>2 DEF RowsFollow
  <2>5. u.id \in Live /\ v.id \in Live BY <2>2, RowsOutsideScan DEF Row
  <2>6. rep[u.id] = rep[v.id] BY DEF OneConstant
  <2>7. rep'[u.id] = rep'[v.id] BY <2>1, <2>5, <2>6, ClassesKept
  <2> QED BY <2>3, <2>4, <2>7
<1>2. CASE Rebuild
  <2>1. rep' = rep /\ rows' = rows /\ phase = "idle" /\ phase' = "relation"
    BY <1>2 DEF Rebuild
  <2>2. \A op : AllRows(op)' = AllRows(op) BY <2>1 DEF AllRows
  <2> QED BY <2>1, <2>2 DEF OneConstant
<1>3. CASE AcFlatten \/ AcUnflatten
  <2>1. /\ phase \in {"flatten", "unflatten"} /\ phase' # "scan" /\ rep' = rep
        /\ Derive(Current, Flattened(Current)) \/ Derive(Current, Unflattened(Current))
    BY <1>3 DEF AcFlatten, AcUnflatten
  <2>2. Current \in AcOps BY <1>0, <2>1 DEF ControlOK
  <2>3. \A op \in RowOps : rows'[op] = rows[op]
    BY <2>1, <2>2, <1>0, OpsAssumption DEF Derive, RowsOK, Ops
  <2>4. \A op \in RowOps : AllRows(op)' = AllRows(op) BY <2>1, <2>3 DEF AllRows
  <2> QED BY <2>1, <2>4 DEF OneConstant
<1>4. ASSUME NEW op \in Ops, NEW args \in CallArgs(op), AddEnode(op, args)
      PROVE  OneConstant'
  <2> DEFINE e == ENode(op, CanonArgs(op, args))
             n == Len(rep)
             new == [args |-> e.args, id |-> n + 1]
  <2>0. phase = "idle" /\ phase' = "idle" BY <1>4 DEF AddEnode
  <2>1. \A o : AllRows(o) = rows[o] /\ AllRows(o)' = rows'[o] BY <2>0 DEF AllRows
  <2>2. CASE UNCHANGED store
    BY <2>1, <2>2 DEF store, OneConstant
  <2>3. CASE /\ Lookup(op, args) = {} /\ UF!MakeSet
             /\ rows' = [rows EXCEPT ![op] = @ \cup {new}]
    <3>1. \A x \in Live : rep'[x] = rep[x] BY <1>0, <2>3, MakeSetFacts
    <3>2. \A o \in Ops : \A r \in rows[o] : r.id \in Live BY <1>0 DEF RowsOK, Row
    <3>3. e \notin DOMAIN memo BY <2>3 DEF Lookup
    <3>4. ASSUME op \in RowOps, Arity[op] = 0 PROVE rows[op] = {}
      <4> SUFFICES ASSUME NEW r \in rows[op] PROVE FALSE OBVIOUS
      <4>1. PICK k \in DOMAIN memo : k.op = op
        BY <2>1 DEF MemoMatchesRows
      <4>2. op \notin AcOps BY <3>4, OpsAssumption
      <4>3. k.args \in [1..0 -> Live] /\ k = ENode(op, k.args)
        BY <4>1, <4>2, <3>4, <1>0 DEF MemoOK, Args
      <4>4. CanonArgs(op, args) = [i \in 1..0 |-> rep[args[i]]]
        BY <4>2, <3>4 DEF CanonArgs
      <4>5. k.args = CanonArgs(op, args) BY <4>3, <4>4
      <4> QED BY <3>3, <4>3, <4>5
    <3> HIDE DEF new, e
    <3>5. \A o \in Ops : rows'[o] = IF o = op THEN rows[o] \cup {new} ELSE rows[o]
      BY <2>3, <1>0 DEF RowsOK
    <3> SUFFICES ASSUME NEW o \in RowOps, Arity[o] = 0,
                        NEW r \in rows'[o], NEW s \in rows'[o]
                 PROVE  rep'[r.id] = rep'[s.id]
      BY <2>1 DEF OneConstant
    <3>6. o \in Ops BY DEF Ops
    <3>7. CASE o = op
      <4>1. r = new /\ s = new BY <3>4, <3>5, <3>6, <3>7
      <4> QED BY <4>1
    <3>8. CASE o # op
      <4>1. r \in rows[o] /\ s \in rows[o] BY <3>5, <3>6, <3>8
      <4>2. rep[r.id] = rep[s.id] BY <4>1, <2>1 DEF OneConstant
      <4> QED BY <4>1, <4>2, <3>1, <3>2, <3>6
    <3> QED BY <3>7, <3>8
  <2> QED BY <1>4, <2>2, <2>3 DEF AddEnode
<1> QED BY <1>1, <1>2, <1>3, <1>4 DEF Next, RebuildStep, AcStep, Moves

\* A relation that is not scanned, because it has no columns or no two tuples, is
\* functional; a scan starts with a least tuple.
LEMMA RowCanonicalizePassed ==
  ASSUME TypeOK, OneConstant, Passed, RowCanonicalize
  PROVE  Passed'
<1> DEFINE op == Current
           canonical == {<<r, CanonRow(op, r)>> : r \in rows[op]}
           canon == {CanonRow(op, r) : r \in rows[op]}
<1>0. /\ UF!IsPartition /\ RowsOK /\ ControlOK /\ phase = "relation" /\ rep' = rep
      /\ pending # << >> /\ op \in RowOps /\ op \in Ops
  BY DEF TypeOK, RowCanonicalize, Ops
<1>1. \A o \in Ops : AllRows(o)' = IF o = op THEN canon ELSE rows[o]
  BY RowsCanonicalized
<1>2. \A o \in RowOps : o \in Ops BY DEF Ops
<1>3. CASE /\ Arity[op] = 0 \/ Cardinality(rows[op]) <= 1
           /\ pending' = Tail(pending)
           /\ UNCHANGED <<phase, todo, cur>>
  <2>1. phase' # "scan" BY <1>0, <1>3
  <2>2. \A o : AllRows(o)' = rows'[o] BY <2>1 DEF AllRows
  <2>3. ASSUME NEW o \in RowOps PROVE Waiting(o)' \/ Functional(rows[o])'
    <3>1. CASE o # op
      <4>1. rows'[o] = rows[o] BY <3>1, <1>1, <1>2, <2>2
      <4>2. Waiting(o) \/ Functional(rows[o]) BY <1>0 DEF Passed
      <4>3. Waiting(o) => Waiting(o)' BY <3>1, <1>0, <1>3, WaitingTail
      <4> QED BY <4>1, <4>2, <4>3, <1>0 DEF Functional
    <3>2. CASE o = op
      <4>1. \A r, s \in rows[op] : rep[r.id] = rep[s.id]
        <5>1. CASE Arity[op] = 0
          <6>1. AllRows(op) = rows[op] BY <1>0 DEF AllRows
          <6> QED BY <5>1, <6>1, <1>0 DEF OneConstant
        <5>2. CASE Cardinality(rows[op]) <= 1
          <6>1. IsFiniteSet(rows[op]) BY <1>0, RowsFinite
          <6>2. \A r, s \in rows[op] : r = s BY <5>2, <6>1, AtMostOne
          <6> QED BY <6>2
        <5> QED BY <5>1, <5>2, <1>3
      <4>2. \A r \in rows[op] : rep[CanonRow(op, r).id] = rep[r.id]
        BY <1>0, CanonRowFacts DEF RowsOK
      <4>3. rows'[op] = canon BY <1>0, <1>1, <2>2
      <4>4. \A r, s \in canon : rep[r.id] = rep[s.id] BY <4>1, <4>2
      <4> QED BY <3>2, <4>3, <4>4, <1>0 DEF Functional
    <3> QED BY <3>1, <3>2
  <2> QED BY <2>1, <2>3 DEF Passed
<1>4. CASE /\ \E t \in First(canonical) : cur' = {t[2]} /\ todo' = canonical \ {t}
           /\ rows' = [rows EXCEPT ![op] = {}]
           /\ phase' = "scan" /\ UNCHANGED pending
  <2>1. PICK t \in First(canonical) : cur' = {t[2]} /\ todo' = canonical \ {t} BY <1>4
  <2>2. \A u \in canonical : ~ ArgsBefore(u[2].args, t[2].args)
    BY <2>1 DEF First
  <2>3. op' = op BY <1>4 DEF Current
  <2> HIDE DEF canonical, canon
  <2>4. rows'[op] = {} /\ \A o \in Ops : o # op => rows'[o] = rows[o]
    BY <1>0, <1>4 DEF RowsOK
  <2>5. Sorted'
    <3>1. \A u \in todo' : ~ ArgsBefore(u[2].args, t[2].args) BY <2>1, <2>2
    <3>2. rows'[Current'] = {} BY <2>3, <2>4
    <3> QED BY <2>1, <3>1, <3>2 DEF Sorted
  <2>6. Functional(rows[Current] \cup cur)'
    <3>1. rows'[Current'] \cup cur' = {t[2]} BY <2>1, <2>3, <2>4
    <3> QED BY <3>1 DEF Functional
  <2>7. ASSUME NEW o \in RowOps PROVE Waiting(o)' \/ Functional(rows[o])'
    <3>1. CASE o = op
      <4>1. Waiting(op) BY <1>0, CurrentWaits
      <4> QED BY <3>1, <4>1, <1>4 DEF Waiting
    <3>2. CASE o # op
      <4>1. rows'[o] = rows[o] BY <3>2, <1>2, <2>4
      <4>2. Waiting(o) \/ Functional(rows[o]) BY <1>0 DEF Passed
      <4>3. Waiting(o)' = Waiting(o) BY <1>4 DEF Waiting
      <4> QED BY <4>1, <4>2, <4>3, <1>0 DEF Functional
    <3> QED BY <3>1, <3>2
  <2> QED BY <2>5, <2>6, <2>7 DEF Passed
<1> QED BY <1>3, <1>4 DEF RowCanonicalize, canonical

\* The scan: a tuple with the arguments of one that was passed comes next to it,
\* because the tuples are sorted, and is unified with it.
LEMMA RowScanPassed ==
  ASSUME TypeOK, Passed, RowScan
  PROVE  Passed'
<1> DEFINE op == Current
<1>0. /\ UF!IsPartition /\ RowsOK /\ ScanOK /\ ControlOK
      /\ phase = "scan" /\ UNCHANGED <<phase, pending>>
      /\ op \in RowOps /\ op \in Ops /\ op' = op
  BY DEF TypeOK, RowScan, ControlOK, Ops, Current
<1>1. PICK c \in cur, t \in First(todo) :
        /\ todo' = todo \ {t}
        /\ \/ /\ t[2].args = c.args /\ t[2].id # c.id
              /\ UF!Union(c.id, t[2].id)
              /\ rows' = [rows EXCEPT ![op] = @ \cup
                           {[c EXCEPT !.id = UF!Merged(rep, c.id, t[2].id)[c.id]]}]
              /\ cur' = {[t[2] EXCEPT !.id = UF!Merged(rep, c.id, t[2].id)[c.id]]}
           \/ /\ ~ (t[2].args = c.args /\ t[2].id # c.id)
              /\ rows' = [rows EXCEPT ![op] = @ \cup {c}]
              /\ cur' = {t[2]} /\ rep' = rep
  BY DEF RowScan
<1> DEFINE d == t[2]
<1>2. cur = {c} /\ c \in Row(op) /\ d \in Row(op) /\ t \in todo
  BY <1>0, <1>1 DEF ScanOK, First
<1>3. rows[op] \subseteq Row(op) BY <1>0 DEF RowsOK
<1>4. /\ \A r \in rows[op] : ~ ArgsBefore(c.args, r.args) /\ ~ ArgsBefore(d.args, r.args)
      /\ \A u \in todo : /\ ~ ArgsBefore(u[2].args, c.args)
                         /\ ~ ArgsBefore(u[2].args, d.args)
                         /\ \A r \in rows[op] : ~ ArgsBefore(u[2].args, r.args)
      /\ Functional(rows[op] \cup {c})
  BY <1>0, <1>1, <1>2 DEF Passed, Sorted, First
<1> HIDE DEF d, op
<1>5. ClassesGrow BY RowScanFollows
<1>6. c.id \in Live /\ d.id \in Live /\ \A r \in rows[op] : r.id \in Live
  BY <1>2, <1>3 DEF Row
\* What was passed with the arguments of the next tuple has those of the current.
<1>7. \A r \in rows[op] : r.args = d.args => r.args = c.args
  <2> SUFFICES ASSUME NEW r \in rows[op], r.args = d.args PROVE r.args = c.args OBVIOUS
  <2>1. ~ ArgsBefore(c.args, r.args) /\ ~ ArgsBefore(r.args, c.args)
    BY <1>2, <1>4 DEF d
  <2>2. /\ Arity[op] \in Nat
        /\ r.args \in [1..Arity[op] -> Nat] /\ c.args \in [1..Arity[op] -> Nat]
    BY <1>0, <1>2, <1>3, RowArgs
  <2> QED BY <2>1, <2>2, ArgsTotal
<1>8. ASSUME NEW c2, NEW d2, c2.args = c.args, d2.args = d.args,
             rep'[c2.id] = rep'[c.id], rep'[d2.id] = rep'[d.id],
             d.args = c.args => rep'[d.id] = rep'[c.id],
             rows' = [rows EXCEPT ![op] = rows[op] \cup {c2}], cur' = {d2}
      PROVE  Passed'
  <2>1. rows'[op] = rows[op] \cup {c2} /\ \A o \in Ops : o # op => rows'[o] = rows[o]
    BY <1>0, <1>8 DEF RowsOK
  <2>2. Sorted'
    <3>1. \A r \in rows'[op] : ~ ArgsBefore(d2.args, r.args)
      BY <2>1, <1>2, <1>4, <1>8 DEF d
    <3>2. \A u \in todo' : /\ ~ ArgsBefore(u[2].args, d2.args)
                           /\ \A r \in rows'[op] : ~ ArgsBefore(u[2].args, r.args)
      BY <2>1, <1>1, <1>4, <1>8
    <3> QED BY <3>1, <3>2, <1>0, <1>8 DEF Sorted, op
  <2>3. Functional(rows[Current] \cup cur)'
    <3>1. \A r, s \in rows[op] \cup {c} : r.args = s.args => rep'[r.id] = rep'[s.id]
      BY <1>4, <1>5, <1>6, ClassesKept DEF Functional
    <3>2. \A r, s \in rows[op] \cup {c2} : r.args = s.args => rep'[r.id] = rep'[s.id]
      BY <3>1, <1>8
    <3>3. \A r \in rows[op] \cup {c2} : r.args = d2.args => rep'[r.id] = rep'[d2.id]
      <4> SUFFICES ASSUME NEW r \in rows[op] \cup {c2}, r.args = d2.args
                   PROVE  rep'[r.id] = rep'[d2.id]
        OBVIOUS
      <4>1. r.args = c2.args BY <1>7, <1>8
      <4>2. rep'[r.id] = rep'[c2.id] BY <3>2, <4>1
      <4>3. d.args = c.args BY <4>1, <1>8
      <4> QED BY <4>2, <4>3, <1>8
    <3>4. rows'[Current'] \cup cur' = rows[op] \cup {c2} \cup {d2}
      BY <2>1, <1>0, <1>8 DEF op
    <3> QED BY <3>2, <3>3, <3>4 DEF Functional
  <2>4. ASSUME NEW o \in RowOps PROVE Waiting(o)' \/ Functional(rows[o])'
    <3>1. o \in Ops BY DEF Ops
    <3>2. CASE o = op
      <4>1. pending # << >> BY <1>0 DEF ControlOK
      <4>2. Waiting(op) BY <4>1, <1>0, CurrentWaits DEF op
      <4> QED BY <3>2, <4>2, <1>0 DEF Waiting
    <3>3. CASE o # op
      <4>1. rows'[o] = rows[o] BY <3>1, <3>3, <2>1
      <4>2. Waiting(o) \/ Functional(rows[o]) BY <1>0 DEF Passed
      <4>3. Waiting(o)' = Waiting(o) BY <1>0 DEF Waiting
      <4>4. \A r \in rows[o] : r.id \in Live BY <3>1, <1>0 DEF RowsOK, Row
      <4>5. Functional(rows[o]) => Functional(rows[o])'
        BY <4>1, <4>4, <1>5, ClassesKept DEF Functional
      <4> QED BY <4>2, <4>3, <4>5
    <3> QED BY <3>2, <3>3
  <2> QED BY <2>2, <2>3, <2>4 DEF Passed
<1>9. CASE /\ d.args = c.args /\ UF!Union(c.id, d.id)
           /\ rows' = [rows EXCEPT ![op] = @ \cup
                        {[c EXCEPT !.id = UF!Merged(rep, c.id, d.id)[c.id]]}]
           /\ cur' = {[d EXCEPT !.id = UF!Merged(rep, c.id, d.id)[c.id]]}
  <2> DEFINE root == UF!Merged(rep, c.id, d.id)[c.id]
             c2 == [c EXCEPT !.id = root]
             d2 == [d EXCEPT !.id = root]
  <2>1. UF!IsPartition' /\ Len(rep') = Len(rep) /\ rep'[c.id] = rep'[d.id]
    BY <1>0, <1>6, <1>9, UnionFacts
  <2>2. root = rep'[c.id] BY <1>9 DEF UF!Union
  <2>3. rep'[root] = root
    <3>1. Live' = Live BY <2>1 DEF Live
    <3>2. \A x \in Live : rep'[rep'[x]] = rep'[x]
      BY <2>1, <3>1 DEF UF!IsPartition, UF!Live, Live
    <3> QED BY <3>2, <2>2, <1>6
  <2>4. c2.args = c.args /\ c2.id = root /\ d2.args = d.args /\ d2.id = root
    BY <1>2 DEF Row
  <2>5. rows' = [rows EXCEPT ![op] = rows[op] \cup {c2}] /\ cur' = {d2} BY <1>9
  <2>6. rep'[c2.id] = rep'[c.id] /\ rep'[d2.id] = rep'[d.id]
    BY <2>1, <2>2, <2>3, <2>4
  <2> HIDE DEF root, c2, d2
  <2> QED BY <2>1, <2>4, <2>5, <2>6, <1>8
<1>10. CASE /\ ~ (d.args = c.args /\ d.id # c.id)
            /\ rows' = [rows EXCEPT ![op] = @ \cup {c}] /\ cur' = {d} /\ rep' = rep
  <2>1. d.args = c.args => rep'[d.id] = rep'[c.id] BY <1>10
  <2> QED BY <2>1, <1>8, <1>10
<1> QED BY <1>1, <1>9, <1>10 DEF d

\* The last tuple of a scan: the relation is functional.
LEMMA RowFinishPassed ==
  ASSUME TypeOK, Passed, RowFinish
  PROVE  Passed'
<1> DEFINE op == Current
<1>0. /\ RowsOK /\ ControlOK /\ phase = "scan" /\ phase' = "relation"
      /\ rows' = [rows EXCEPT ![op] = @ \cup cur]
      /\ pending' = Tail(pending) /\ pending # << >> /\ rep' = rep /\ op \in Ops
  BY DEF TypeOK, RowFinish, ControlOK, Ops
<1>1. Functional(rows[op] \cup cur) BY <1>0 DEF Passed
<1>2. ASSUME NEW o \in RowOps PROVE Waiting(o)' \/ Functional(rows[o])'
  <2>1. o \in Ops BY DEF Ops
  <2>2. CASE o = op
    <3>1. rows'[o] = rows[op] \cup cur BY <2>2, <1>0 DEF RowsOK
    <3> QED BY <3>1, <1>0, <1>1 DEF Functional
  <2>3. CASE o # op
    <3>1. rows'[o] = rows[o] BY <2>1, <2>3, <1>0 DEF RowsOK
    <3>2. Waiting(o) \/ Functional(rows[o]) BY <1>0 DEF Passed
    <3>3. Waiting(o) => Waiting(o)' BY <2>3, <1>0, WaitingTail
    <3> QED BY <3>1, <3>2, <3>3, <1>0 DEF Functional
  <2> QED BY <2>2, <2>3
<1> QED BY <1>0, <1>2 DEF Passed

\* The steps of an AC relation leave the row stores alone; they merge classes.
LEMMA AcStepPassed ==
  ASSUME TypeOK, Passed, AcStep
  PROVE  Passed'
<1>0. UF!IsPartition /\ RowsOK /\ ControlOK BY DEF TypeOK
<1>1. /\ phase \notin {"idle", "scan"} /\ phase' # "scan"
      /\ pending # << >> /\ Current \in AcOps
      /\ pending' = pending \/ pending' = Tail(pending)
      /\ \/ rows' = rows
         \/ \E S : rows' = [rows EXCEPT ![Current] = S]
  BY <1>0 DEF AcStep, AcCanonicalize, AcUnify, AcCongruent, AcFlatten, AcUnflatten,
              Derive, ControlOK
<1>2. ClassesGrow
  <2>1. CASE AcFlatten \/ AcUnflatten
    BY <2>1, <1>0, SameClasses DEF AcFlatten, AcUnflatten
  <2>2. CASE AcCanonicalize \/ AcUnify \/ AcCongruent BY <2>2, MovesFollow DEF Moves
  <2> QED BY <2>1, <2>2 DEF AcStep
<1>3. ASSUME NEW o \in RowOps PROVE Waiting(o)' \/ Functional(rows[o])'
  <2>1. o \in Ops /\ o # Current BY <1>1, OpsAssumption DEF Ops
  <2>2. rows'[o] = rows[o] BY <1>0, <1>1, <2>1 DEF RowsOK
  <2>3. Waiting(o) \/ Functional(rows[o]) BY <1>1 DEF Passed
  <2>4. Waiting(o) => Waiting(o)'
    <3>1. CASE pending' = pending BY <3>1 DEF Waiting
    <3>2. CASE pending' = Tail(pending) BY <3>2, <1>0, <1>1, <2>1, WaitingTail
    <3> QED BY <3>1, <3>2, <1>1
  <2>5. \A r \in rows[o] : r.id \in Live BY <2>1, <1>0 DEF RowsOK, Row
  <2>6. Functional(rows[o]) => Functional(rows[o])'
    BY <2>2, <2>5, <1>2, ClassesKept DEF Functional
  <2> QED BY <2>3, <2>4, <2>6
<1> QED BY <1>1, <1>3 DEF Passed

\* Every step keeps what the running rebuild has achieved.
LEMMA NextPassed ==
  TypeOK /\ OneConstant /\ Passed /\ [Next]_vars => Passed'
<1> SUFFICES ASSUME TypeOK, OneConstant, Passed, [Next]_vars PROVE Passed' OBVIOUS
<1>1. ASSUME phase' = "idle" PROVE Passed' BY <1>1 DEF Passed
<1>2. ASSUME NEW op \in Ops, NEW args \in CallArgs(op), AddEnode(op, args) PROVE Passed'
  <2>1. phase' = "idle" BY <1>2 DEF AddEnode
  <2> QED BY <2>1, <1>1
<1>3. ASSUME NEW a \in Live, NEW b \in Live, Unify(a, b) PROVE Passed'
  <2>1. phase' = "idle" BY <1>3 DEF Unify
  <2> QED BY <2>1, <1>1
<1>4. CASE Rebuild
  <2>1. phase' = "relation" /\ pending' = Relations BY <1>4 DEF Rebuild
  <2>2. \A op \in RowOps : Waiting(op)' BY <2>1, RelationsAssumption DEF Waiting
  <2> QED BY <2>1, <2>2 DEF Passed
<1>5. CASE RowCanonicalize BY <1>5, RowCanonicalizePassed
<1>6. CASE RowScan BY <1>6, RowScanPassed
<1>7. CASE RowFinish BY <1>7, RowFinishPassed
<1>8. CASE AcStep BY <1>8, AcStepPassed
<1>9. CASE RebuildReturn
  <2>1. phase' = "idle" BY <1>9 DEF RebuildReturn
  <2> QED BY <2>1, <1>1
<1>10. CASE UNCHANGED vars
  <2> USE <1>10 DEF vars
  <2>1. \A op : Waiting(op)' = Waiting(op) BY DEF Waiting
  <2>2. \A op : Functional(rows[op])' = Functional(rows[op]) BY DEF Functional
  <2>3. Functional(rows[Current] \cup cur)' = Functional(rows[Current] \cup cur)
    BY DEF Functional, Current
  <2>4. Sorted' = Sorted BY DEF Sorted, Current
  <2> QED BY <2>1, <2>2, <2>3, <2>4 DEF Passed
<1> QED BY <1>2, <1>3, <1>4, <1>5, <1>6, <1>7, <1>8, <1>9, <1>10
        DEF Next, RebuildStep, RowStep

\* What FunctionalDependency says of a step follows from the invariant before it.
LEMMA ReturnIsFunctional ==
  ASSUME TypeOK, Passed, AcOps = {}, [Next]_vars, phase # "idle", phase' = "idle",
         NEW op \in Ops, NEW r \in rows[op], NEW s \in rows[op], r.args = s.args
  PROVE  rep[r.id] = rep[s.id]
<1>1. ~ (\E o \in Ops : \E args \in CallArgs(o) : AddEnode(o, args))
      /\ ~ (\E a, b \in Live : Unify(a, b)) /\ ~ Rebuild
  BY DEF AddEnode, Unify, Rebuild
<1>2. ~ RowStep /\ ~ AcStep
  BY DEF RowStep, RowCanonicalize, RowScan, RowFinish, AcStep, AcCanonicalize, AcUnify,
         AcCongruent, AcFlatten, AcUnflatten
<1>3. ~ UNCHANGED vars BY DEF vars
<1>4. RebuildReturn BY <1>1, <1>2, <1>3 DEF Next, RebuildStep
<1>5. pending = << >> BY <1>4 DEF RebuildReturn
<1>6. ~ Waiting(op) BY <1>5 DEF Waiting
<1>7. op \in RowOps BY DEF Ops
<1>8. Functional(rows[op]) BY <1>6, <1>7 DEF Passed
<1> QED BY <1>8 DEF Functional

\* In a rebuild that runs row stores only, equal arguments mean equal classes when
\* it returns (row_store.cpp:118-165); for AC relations the code does not promise
\* it (run ac_dependency).
THEOREM Dependency == ASSUME AcOps = {} PROVE Spec => FunctionalDependency
<1>1. Init => TypeOK /\ MemoMatchesRows /\ OneConstant /\ Passed
  <2> SUFFICES ASSUME Init PROVE MemoMatchesRows /\ OneConstant /\ Passed
    BY InitType
  <2>1. \A op \in Ops : AllRows(op) = {} BY DEF Init, AllRows
  <2>2. DOMAIN memo = {} /\ phase = "idle" BY DEF Init
  <2>3. MemoMatchesRows BY <2>1, <2>2 DEF MemoMatchesRows
  <2>4. OneConstant BY <2>1 DEF OneConstant, Ops
  <2> QED BY <2>2, <2>3, <2>4 DEF Passed
<1>2. TypeOK /\ MemoMatchesRows /\ OneConstant /\ Passed /\ [Next]_vars
        => (TypeOK /\ MemoMatchesRows /\ OneConstant /\ Passed)'
  BY NextType, NextMatches, OneConstantKept, NextPassed
<1>3. TypeOK /\ Passed /\ [Next]_vars
        => (phase # "idle" /\ phase' = "idle" =>
              \A op \in Ops : \A r, s \in rows[op] :
                r.args = s.args => rep[r.id] = rep[s.id])
  BY ReturnIsFunctional
<1> QED BY <1>1, <1>2, <1>3, PTL DEF Spec, FunctionalDependency
-----------------------------------------------------------------------------
\* The memo pass of rebuild leaves canonical e-nodes only.
LEMMA RebuildCanonical ==
  ASSUME TypeOK, Rebuild
  PROVE  MemoCanonical'
<1>0. UF!IsPartition /\ MemoOK /\ rep' = rep BY DEF TypeOK, Rebuild
<1>1. PICK winners \in SUBSET DOMAIN memo :
        memo' = [k \in {CanonENode(e) : e \in winners} |->
                   rep[memo[CHOOSE e \in winners : CanonENode(e) = k]]]
  BY DEF Rebuild
<1>2. \A k : CanonENode(k)' = CanonENode(k)
  BY <1>0 DEF CanonENode, ENode, CanonArgs
<1>3. ASSUME NEW k \in DOMAIN memo' PROVE CanonENode(k) = k
  <2>1. PICK e \in DOMAIN memo : k = CanonENode(e) BY <1>1
  <2>2. e.op \in Ops /\ e.args \in Args(e.op) BY <1>0 DEF MemoOK
  <2>3. k.op = e.op /\ k.args = CanonArgs(e.op, e.args)
    BY <2>1 DEF CanonENode, ENode
  <2>4. CanonArgs(e.op, k.args) = k.args BY <2>2, <2>3, <1>0, CanonArgsIdempotent
  <2> QED BY <2>1, <2>3, <2>4 DEF CanonENode, ENode
<1> QED BY <1>2, <1>3 DEF MemoCanonical

\* A new e-node is canonical, and no tuple has its arguments.
LEMMA AddEnodeQuiet ==
  ASSUME TypeOK, MemoMatchesRows, QuietInv,
         NEW op \in Ops, NEW args \in CallArgs(op), AddEnode(op, args)
  PROVE  QuietInv'
<1> DEFINE e == ENode(op, CanonArgs(op, args))
           n == Len(rep)
           new == [args |-> e.args, id |-> n + 1]
<1>0. /\ UF!IsPartition /\ MemoOK /\ RowsOK
      /\ phase = "idle" /\ phase' = "idle" /\ quiet' = quiet
  BY DEF TypeOK, AddEnode
<1>1. \A o : AllRows(o) = rows[o] BY <1>0 DEF AllRows
<1>2. args \in Args(op) BY DEF CallArgs
<1> SUFFICES ASSUME quiet
             PROVE  /\ MemoCanonical'
                    /\ \A o \in Ops : Functional(rows[o])' /\ Canonical(o, rows[o])'
  BY <1>0 DEF QuietInv
<1>3. /\ MemoCanonical
      /\ \A o \in Ops : Functional(rows[o]) /\ Canonical(o, rows[o])
  BY DEF QuietInv
<1>4. CASE UNCHANGED store
  <2>1. rep' = rep /\ memo' = memo /\ rows' = rows BY <1>4 DEF store
  <2>2. \A o, a : CanonArgs(o, a)' = CanonArgs(o, a) BY <2>1 DEF CanonArgs
  <2>3. MemoCanonical' BY <1>3, <2>1, <2>2 DEF MemoCanonical, CanonENode
  <2>4. \A o \in Ops : Functional(rows[o])' BY <1>3, <2>1 DEF Functional
  <2>5. \A o \in Ops : Canonical(o, rows[o])' BY <1>3, <2>1, <2>2 DEF Canonical
  <2> QED BY <2>3, <2>4, <2>5
<1>5. CASE /\ Lookup(op, args) = {} /\ UF!MakeSet
           /\ rows' = [rows EXCEPT ![op] = @ \cup {new}]
           /\ memo' = [k \in DOMAIN memo \cup {e} |-> IF k = e THEN n + 1 ELSE memo[k]]
  <2>1. /\ \A o \in Ops : \A a \in Args(o) : CanonArgs(o, a)' = CanonArgs(o, a)
        /\ \A x \in Live : rep'[x] = rep[x]
    BY <1>0, <1>5, MakeSetCanon, MakeSetFacts
  <2>2. \A o \in Ops : \A r \in rows[o] : r.args \in Args(o) /\ r.id \in Live
    BY <1>0 DEF RowsOK, Row
  <2>3. e.op = op /\ new.args = e.args /\ e.args = CanonArgs(op, args) BY DEF ENode
  <2>4. e.args \in Args(op) /\ CanonArgs(op, e.args) = e.args
    BY <2>3, <1>0, <1>2, CanonArgsType, CanonArgsIdempotent
  <2>5. e \notin DOMAIN memo /\ e = ENode(op, e.args) BY <1>5 DEF Lookup, ENode
  <2> HIDE DEF e, n, new
  <2>6. MemoCanonical'
    <3> SUFFICES ASSUME NEW k \in DOMAIN memo' PROVE CanonENode(k)' = k
      BY DEF MemoCanonical
    <3>1. CASE k = e
      <4>1. k.op = op /\ k = ENode(op, k.args) /\ k.args \in Args(op)
            /\ CanonArgs(op, k.args) = k.args
        BY <3>1, <2>3, <2>4, <2>5
      <4>2. CanonArgs(op, k.args)' = k.args BY <2>1, <4>1
      <4> QED BY <4>1, <4>2 DEF CanonENode, ENode
    <3>2. CASE k \in DOMAIN memo
      <4>1. k.op \in Ops /\ k.args \in Args(k.op) BY <3>2, <1>0 DEF MemoOK
      <4>2. CanonArgs(k.op, k.args)' = CanonArgs(k.op, k.args) BY <4>1, <2>1
      <4>3. CanonENode(k) = k BY <3>2, <1>3 DEF MemoCanonical
      <4> QED BY <4>2, <4>3 DEF CanonENode
    <3> QED BY <3>1, <3>2, <1>5
  <2>7. \A o \in Ops : rows'[o] = IF o = op THEN rows[op] \cup {new} ELSE rows[o]
    BY <1>0, <1>5 DEF RowsOK
  <2>8. \A r \in rows[op] : r.args # new.args
    <3> SUFFICES ASSUME NEW r \in rows[op], r.args = e.args PROVE FALSE BY <2>3
    <3>1. PICK k \in DOMAIN memo : k.op = op /\ CanonArgs(op, k.args) = CanonArgs(op, r.args)
      BY <1>1 DEF MemoMatchesRows
    <3>2. CanonArgs(op, k.args) = e.args BY <3>1, <2>4
    <3>3. CanonENode(k) = k BY <1>3 DEF MemoCanonical
    <3>4. k = e BY <3>1, <3>2, <3>3, <2>5 DEF CanonENode
    <3> QED BY <3>4, <2>5
  <2>9. ASSUME NEW o \in Ops PROVE Functional(rows[o])' /\ Canonical(o, rows[o])'
    <3>1. \A r, s \in rows[o] : r.args = s.args => rep'[r.id] = rep'[s.id]
      BY <1>3, <2>1, <2>2 DEF Functional
    <3>2. \A r \in rows[o] : CanonArgs(o, r.args)' = r.args
      BY <1>3, <2>1, <2>2 DEF Canonical
    <3>3. CASE o # op
      BY <3>1, <3>2, <3>3, <2>7 DEF Functional, Canonical
    <3>4. CASE o = op
      <4>1. PICK x : x = new OBVIOUS
      <4>2. rows'[o] = rows[op] \cup {x} BY <3>4, <2>7, <4>1
      <4>3. CanonArgs(op, x.args)' = x.args
        <5>1. x.args \in Args(op) /\ CanonArgs(op, x.args) = x.args
          BY <4>1, <2>3, <2>4
        <5> QED BY <5>1, <2>1
      <4>4. Functional(rows[o])'
        <5>1. \A r, s \in rows[op] \cup {x} : r.args = s.args => rep'[r.id] = rep'[s.id]
          BY <3>1, <3>4, <2>8, <4>1
        <5> QED BY <4>2, <5>1 DEF Functional
      <4>5. Canonical(o, rows[o])' BY <4>2, <4>3, <3>2, <3>4 DEF Canonical
      <4> QED BY <4>4, <4>5
    <3> QED BY <3>3, <3>4
  <2> QED BY <2>6, <2>9
<1> QED BY <1>4, <1>5 DEF AddEnode

\* Unifying what is equal already changes nothing; anything else ends the quiet.
LEMMA UnifyQuiet ==
  ASSUME TypeOK, QuietInv, NEW a \in Live, NEW b \in Live, Unify(a, b)
  PROVE  QuietInv'
<1>0. /\ UF!IsPartition /\ phase' = "idle" /\ quiet' = (quiet /\ rep[a] = rep[b])
      /\ memo' = memo /\ rows' = rows /\ rep' = UF!Merged(rep, a, b)
  BY DEF TypeOK, Unify, UF!Union
<1> SUFFICES ASSUME quiet, rep[a] = rep[b]
             PROVE  /\ MemoCanonical'
                    /\ \A o \in Ops : Functional(rows[o])' /\ Canonical(o, rows[o])'
  BY <1>0 DEF QuietInv
<1>1. rep' = rep
  <2>1. rep \in [1..Len(rep) -> Ids] BY PartitionFacts, <1>0
  <2>2. rep' = [x \in 1..Len(rep) |-> IF rep[x] = rep[a] THEN rep[a] ELSE rep[x]]
    BY <1>0 DEF UF!Merged
  <2>3. rep = [x \in 1..Len(rep) |-> rep[x]] BY <2>1
  <2>4. [x \in 1..Len(rep) |-> IF rep[x] = rep[a] THEN rep[a] ELSE rep[x]]
          = [x \in 1..Len(rep) |-> rep[x]]
    OBVIOUS
  <2> QED BY <2>2, <2>3, <2>4, Zenon
<1>2. \A o, args : CanonArgs(o, args)' = CanonArgs(o, args) BY <1>1 DEF CanonArgs
<1>3. MemoCanonical /\ \A o \in Ops : Functional(rows[o]) /\ Canonical(o, rows[o])
  BY DEF QuietInv
<1>4. MemoCanonical' BY <1>0, <1>2, <1>3 DEF MemoCanonical, CanonENode
<1>5. \A o \in Ops : Functional(rows[o])' BY <1>0, <1>1, <1>3 DEF Functional
<1>6. \A o \in Ops : Canonical(o, rows[o])' BY <1>0, <1>2, <1>3 DEF Canonical
<1> QED BY <1>4, <1>5, <1>6

\* A rebuild begins with every relation waiting.
LEMMA RebuildQuiet ==
  ASSUME TypeOK, QuietInv, Rebuild
  PROVE  QuietInv'
<1>1. phase' = "relation" /\ pending' = Relations /\ quiet' = FALSE BY DEF Rebuild
<1>2. \A op \in Ops : Waiting(op)' BY <1>1, RelationsAssumption DEF Waiting, Ops
<1> QED BY <1>1, <1>2, RebuildCanonical DEF QuietInv

\* A relation whose turn comes is canonical from then on.
LEMMA RowCanonicalizeQuiet ==
  ASSUME TypeOK, QuietInv, RowCanonicalize
  PROVE  QuietInv'
<1> DEFINE op == Current
           canon == {CanonRow(op, r) : r \in rows[op]}
<1>0. /\ UF!IsPartition /\ RowsOK /\ ControlOK /\ phase = "relation"
      /\ rep' = rep /\ memo' = memo /\ did' = did /\ quiet' = quiet
      /\ pending # << >> /\ op \in RowOps /\ op \in Ops /\ phase' \in {"relation", "scan"}
      /\ \/ phase' = "relation" /\ pending' = Tail(pending)
         \/ phase' = "scan" /\ pending' = pending
  BY DEF TypeOK, RowCanonicalize, Ops
<1>1. \A o \in Ops : AllRows(o)' = IF o = op THEN canon ELSE rows[o]
  BY RowsCanonicalized
<1>2. ~ quiet BY <1>0 DEF QuietInv
<1> SUFFICES ASSUME ~ did
             PROVE  /\ MemoCanonical'
                    /\ \A o \in Ops : Waiting(o)' \/ (o \in RowOps /\ Canonical(o, rows[o])')
                    /\ phase' = "scan" => Canonical(Current, AllRows(Current))'
  BY <1>0, <1>2 DEF QuietInv
<1>3. \A o, args : CanonArgs(o, args)' = CanonArgs(o, args) BY <1>0 DEF CanonArgs
<1>4. MemoCanonical /\ \A o \in Ops : Waiting(o) \/ (o \in RowOps /\ Canonical(o, rows[o]))
  BY <1>0 DEF QuietInv
<1>5. MemoCanonical' BY <1>0, <1>3, <1>4 DEF MemoCanonical, CanonENode
<1>6. \A r \in canon : CanonArgs(op, r.args) = r.args
  <2> SUFFICES ASSUME NEW r \in canon PROVE CanonArgs(op, r.args) = r.args OBVIOUS
  <2>1. PICK u \in rows[op] : r = CanonRow(op, u) OBVIOUS
  <2>2. u \in Row(op) BY <1>0 DEF RowsOK
  <2> QED BY <2>1, <2>2, <1>0, CanonRowFacts
<1> HIDE DEF canon
<1>7. ASSUME NEW o \in Ops PROVE Waiting(o)' \/ (o \in RowOps /\ Canonical(o, rows[o])')
  <2>1. CASE phase' = "scan"
    <3>1. pending' = pending BY <2>1, <1>0
    <3>2. Waiting(o)' = Waiting(o) BY <3>1 DEF Waiting
    <3>3. CASE o = op
      <4>1. Waiting(op) BY <1>0, CurrentWaits
      <4> QED BY <3>2, <3>3, <4>1
    <3>4. CASE o # op
      <4>1. rows'[o] = rows[o] BY <3>1, <3>4, <1>1 DEF AllRows, Current
      <4> QED BY <3>2, <4>1, <1>3, <1>4 DEF Canonical
    <3> QED BY <3>3, <3>4
  <2>2. CASE phase' = "relation" /\ pending' = Tail(pending)
    <3>1. rows'[o] = IF o = op THEN canon ELSE rows[o] BY <2>2, <1>1 DEF AllRows
    <3>2. CASE o = op
      <4>1. \A r \in rows'[o] : CanonArgs(o, r.args) = r.args BY <3>1, <3>2, <1>6
      <4> QED BY <3>2, <4>1, <1>0, <1>3 DEF Canonical
    <3>3. CASE o # op
      <4>1. Waiting(o) => Waiting(o)' BY <3>3, <2>2, <1>0, WaitingTail
      <4> QED BY <3>1, <3>3, <4>1, <1>3, <1>4 DEF Canonical
    <3> QED BY <3>2, <3>3
  <2> QED BY <2>1, <2>2, <1>0
<1>8. ASSUME phase' = "scan" PROVE Canonical(Current, AllRows(Current))'
  <2>1. pending' = pending BY <1>8, <1>0
  <2>2. Current' = op BY <2>1 DEF Current
  <2>3. AllRows(Current)' = canon BY <1>0, <1>1, <2>1, <2>2 DEF AllRows, Current
  <2>4. \A r \in AllRows(Current)' : CanonArgs(Current, r.args)' = r.args
    BY <1>3, <1>6, <2>2, <2>3
  <2> QED BY <2>4 DEF Canonical
<1> QED BY <1>5, <1>7, <1>8

\* A scan that has merged nothing has only moved canonical tuples.
LEMMA RowScanQuiet ==
  ASSUME TypeOK, QuietInv, RowScan
  PROVE  QuietInv'
<1> DEFINE op == Current
<1>0. /\ RowsOK /\ ScanOK /\ ControlOK /\ phase = "scan" /\ phase' = "scan"
      /\ pending' = pending /\ memo' = memo /\ quiet' = quiet
      /\ op \in RowOps /\ op \in Ops /\ op' = op /\ pending # << >>
  BY DEF TypeOK, RowScan, ControlOK, Ops, Current
<1>1. ~ quiet BY <1>0 DEF QuietInv
<1> SUFFICES ASSUME ~ did'
             PROVE  /\ MemoCanonical'
                    /\ \A o \in Ops : Waiting(o)' \/ (o \in RowOps /\ Canonical(o, rows[o])')
                    /\ Canonical(Current, AllRows(Current))'
  BY <1>0, <1>1 DEF QuietInv
<1>2. PICK c \in cur, t \in First(todo) :
        /\ todo' = todo \ {t}
        /\ rows' = [rows EXCEPT ![op] = @ \cup {c}]
        /\ cur' = {t[2]} /\ rep' = rep /\ did' = did
  BY DEF RowScan
<1>3. \A o, args : CanonArgs(o, args)' = CanonArgs(o, args) BY <1>2 DEF CanonArgs
<1>4. /\ MemoCanonical /\ Canonical(op, AllRows(op))
      /\ \A o \in Ops : Waiting(o) \/ (o \in RowOps /\ Canonical(o, rows[o]))
  BY <1>0, <1>2 DEF QuietInv
<1>5. MemoCanonical' BY <1>0, <1>3, <1>4 DEF MemoCanonical, CanonENode
<1>6. t \in todo BY <1>2 DEF First
<1>7. AllRows(op) = rows[op] \cup cur \cup {u[2] : u \in todo}
  BY <1>0 DEF AllRows, Current
<1>8. /\ rows'[op] = rows[op] \cup {c}
      /\ \A o \in Ops : o # op => rows'[o] = rows[o]
  BY <1>0, <1>2 DEF RowsOK
<1>9. Canonical(Current, AllRows(Current))'
  <2>1. AllRows(Current)' = rows'[op] \cup cur' \cup {u[2] : u \in todo'}
    BY <1>0 DEF AllRows, Current
  <2>2. AllRows(Current)' \subseteq AllRows(op)
    BY <2>1, <1>2, <1>6, <1>7, <1>8
  <2> HIDE DEF op
  <2>3. \A r \in AllRows(op) : CanonArgs(op, r.args) = r.args BY <1>4 DEF Canonical
  <2>4. \A r \in AllRows(Current)' : CanonArgs(Current, r.args)' = r.args
    BY <2>2, <2>3, <1>3, <1>0 DEF op
  <2> QED BY <2>4 DEF Canonical
<1>10. ASSUME NEW o \in Ops PROVE Waiting(o)' \/ (o \in RowOps /\ Canonical(o, rows[o])')
  <2>1. Waiting(o)' = Waiting(o) BY <1>0 DEF Waiting
  <2>2. CASE o = op
    <3>1. Waiting(op) BY <1>0, CurrentWaits
    <3> QED BY <2>1, <2>2, <3>1
  <2>3. CASE o # op
    <3>1. rows'[o] = rows[o] BY <2>3, <1>8
    <3> QED BY <2>1, <3>1, <1>3, <1>4 DEF Canonical
  <2> QED BY <2>2, <2>3
<1> QED BY <1>5, <1>9, <1>10

\* When the scan ends all the tuples are back in the relation.
LEMMA RowFinishQuiet ==
  ASSUME TypeOK, QuietInv, RowFinish
  PROVE  QuietInv'
<1> DEFINE op == Current
<1>0. /\ RowsOK /\ ControlOK /\ phase = "scan" /\ phase' = "relation"
      /\ rows' = [rows EXCEPT ![op] = @ \cup cur] /\ rep' = rep /\ memo' = memo
      /\ did' = did /\ quiet' = quiet
      /\ pending' = Tail(pending) /\ pending # << >> /\ op \in RowOps /\ op \in Ops
  BY DEF TypeOK, RowFinish, ControlOK, Ops
<1>1. ~ quiet BY <1>0 DEF QuietInv
<1> SUFFICES ASSUME ~ did
             PROVE  /\ MemoCanonical'
                    /\ \A o \in Ops : Waiting(o)' \/ (o \in RowOps /\ Canonical(o, rows[o])')
  BY <1>0, <1>1 DEF QuietInv
<1>2. \A o, args : CanonArgs(o, args)' = CanonArgs(o, args) BY <1>0 DEF CanonArgs
<1>3. /\ MemoCanonical /\ Canonical(op, AllRows(op))
      /\ \A o \in Ops : Waiting(o) \/ (o \in RowOps /\ Canonical(o, rows[o]))
  BY <1>0 DEF QuietInv
<1>4. MemoCanonical' BY <1>0, <1>2, <1>3 DEF MemoCanonical, CanonENode
<1>5. ASSUME NEW o \in Ops PROVE Waiting(o)' \/ (o \in RowOps /\ Canonical(o, rows[o])')
  <2>1. CASE o = op
    <3>1. rows'[o] = rows[op] \cup cur BY <2>1, <1>0 DEF RowsOK
    <3>2. rows'[o] \subseteq AllRows(op) BY <3>1, <1>0 DEF AllRows, Current
    <3> QED BY <2>1, <3>2, <1>0, <1>2, <1>3 DEF Canonical
  <2>2. CASE o # op
    <3>1. rows'[o] = rows[o] BY <2>2, <1>0 DEF RowsOK
    <3>2. Waiting(o) => Waiting(o)' BY <2>2, <1>0, WaitingTail
    <3> QED BY <3>1, <3>2, <1>2, <1>3 DEF Canonical
  <2> QED BY <2>1, <2>2
<1> QED BY <1>4, <1>5

\* An AC relation makes the call return true.
LEMMA AcStepQuiet ==
  ASSUME TypeOK, QuietInv, AcStep
  PROVE  QuietInv'
<1>1. ControlOK BY DEF TypeOK
<1>2. /\ phase # "idle" /\ quiet' = quiet /\ phase' # "scan"
      /\ phase' = "relation" => did'
  BY <1>1 DEF AcStep, AcCanonicalize, AcUnify, AcCongruent, AcFlatten, AcUnflatten, ControlOK
<1>3. ~ quiet BY <1>2 DEF QuietInv
<1> QED BY <1>2, <1>3 DEF QuietInv

\* A call that returns false is done with every relation and merged nothing.
LEMMA ReturnQuiet ==
  ASSUME TypeOK, Passed, QuietInv, RebuildReturn
  PROVE  QuietInv'
<1>1. /\ phase = "relation" /\ phase' = "idle" /\ pending = << >> /\ quiet' = ~ did
      /\ rep' = rep /\ memo' = memo /\ rows' = rows
  BY DEF RebuildReturn
<1> SUFFICES ASSUME ~ did
             PROVE  /\ MemoCanonical'
                    /\ \A o \in Ops : Functional(rows[o])' /\ Canonical(o, rows[o])'
  BY <1>1 DEF QuietInv
<1>2. \A o, args : CanonArgs(o, args)' = CanonArgs(o, args) BY <1>1 DEF CanonArgs
<1>3. \A o : ~ Waiting(o) BY <1>1 DEF Waiting
<1>4. MemoCanonical /\ \A o \in Ops : o \in RowOps /\ Canonical(o, rows[o])
  BY <1>1, <1>3 DEF QuietInv
<1>5. \A o \in Ops : Functional(rows[o]) BY <1>1, <1>3, <1>4 DEF Passed
<1>6. MemoCanonical' BY <1>1, <1>2, <1>4 DEF MemoCanonical, CanonENode
<1>7. \A o \in Ops : Functional(rows[o])' BY <1>1, <1>5 DEF Functional
<1>8. \A o \in Ops : Canonical(o, rows[o])' BY <1>1, <1>2, <1>4 DEF Canonical
<1> QED BY <1>6, <1>7, <1>8

\* Every step keeps QuietInv.
LEMMA NextQuiet ==
  TypeOK /\ MemoMatchesRows /\ Passed /\ QuietInv /\ [Next]_vars => QuietInv'
<1> SUFFICES ASSUME TypeOK, MemoMatchesRows, Passed, QuietInv, [Next]_vars
             PROVE  QuietInv'
  OBVIOUS
<1>1. ASSUME NEW op \in Ops, NEW args \in CallArgs(op), AddEnode(op, args)
      PROVE  QuietInv'
  BY <1>1, AddEnodeQuiet
<1>2. ASSUME NEW a \in Live, NEW b \in Live, Unify(a, b) PROVE QuietInv'
  BY <1>2, UnifyQuiet
<1>3. CASE Rebuild BY <1>3, RebuildQuiet
<1>4. CASE RowCanonicalize BY <1>4, RowCanonicalizeQuiet
<1>5. CASE RowScan BY <1>5, RowScanQuiet
<1>6. CASE RowFinish BY <1>6, RowFinishQuiet
<1>7. CASE AcStep BY <1>7, AcStepQuiet
<1>8. CASE RebuildReturn BY <1>8, ReturnQuiet
<1>9. CASE UNCHANGED vars
  <2> USE <1>9 DEF vars
  <2>1. \A o, args : CanonArgs(o, args)' = CanonArgs(o, args) BY DEF CanonArgs
  <2>2. MemoCanonical' = MemoCanonical BY <2>1 DEF MemoCanonical, CanonENode
  <2>3. \A o : Waiting(o)' = Waiting(o) BY DEF Waiting
  <2>4. \A o : Functional(rows[o])' = Functional(rows[o]) BY DEF Functional
  <2>5. \A o : Canonical(o, rows[o])' = Canonical(o, rows[o]) BY <2>1 DEF Canonical
  <2>6. Current' = Current /\ AllRows(Current)' = AllRows(Current)
    BY DEF Current, AllRows
  <2>7. Canonical(Current, AllRows(Current))' = Canonical(Current, AllRows(Current))
    BY <2>1, <2>6 DEF Canonical
  <2> QED BY <2>2, <2>3, <2>4, <2>5, <2>7 DEF QuietInv
<1> QED BY <1>1, <1>2, <1>3, <1>4, <1>5, <1>6, <1>7, <1>8, <1>9
        DEF Next, RebuildStep, RowStep

\* What lookup finds in a quiet e-graph is the class of the tuple.
LEMMA QuietCloses ==
  ASSUME TypeOK, MemoMatchesRows, QuietInv
  PROVE  QuietIsClosed
<1> SUFFICES ASSUME quiet, NEW op \in Ops, NEW r \in rows[op]
             PROVE  \E id \in Lookup(op, r.args) : rep[id] = rep[r.id]
  BY DEF QuietInv, QuietIsClosed, MemoCanonical, Functional, Canonical
<1>1. /\ phase = "idle" /\ MemoCanonical /\ Functional(rows[op])
      /\ Canonical(op, rows[op]) /\ MemoOK
  BY DEF QuietInv, TypeOK
<1>2. AllRows(op) = rows[op] BY <1>1 DEF AllRows
<1>3. PICK e \in DOMAIN memo : e.op = op /\ CanonArgs(op, e.args) = CanonArgs(op, r.args)
  BY <1>2 DEF MemoMatchesRows
<1>4. e = ENode(op, CanonArgs(op, r.args))
  BY <1>1, <1>3 DEF MemoCanonical, CanonENode
<1>5. Lookup(op, r.args) = {memo[e]} BY <1>4 DEF Lookup
<1>6. PICK s \in rows[op] : /\ CanonArgs(op, s.args) = CanonArgs(op, e.args)
                            /\ rep[s.id] = rep[memo[e]]
  BY <1>2, <1>3 DEF MemoMatchesRows
<1>7. s.args = r.args BY <1>1, <1>3, <1>6 DEF Canonical
<1>8. rep[s.id] = rep[r.id] BY <1>1, <1>7 DEF Functional
<1> QED BY <1>5, <1>6, <1>8

\* After a rebuild that returned false, and until classes are unified, memo and
\* tuples are canonical, congruent tuples are in one class and lookup finds each
\* tuple (egraph.cpp:43-103, row_store.cpp:118-165).
THEOREM QuietClosed == Spec => []QuietIsClosed
<1>1. Init => TypeOK /\ MemoMatchesRows /\ OneConstant /\ Passed /\ QuietInv
  <2> SUFFICES ASSUME Init PROVE MemoMatchesRows /\ OneConstant /\ Passed /\ QuietInv
    BY InitType
  <2>1. \A op \in Ops : AllRows(op) = {} /\ rows[op] = {} BY DEF Init, AllRows
  <2>2. DOMAIN memo = {} /\ phase = "idle" BY DEF Init
  <2>3. MemoMatchesRows BY <2>1, <2>2 DEF MemoMatchesRows
  <2>4. OneConstant BY <2>1 DEF OneConstant, Ops
  <2>5. QuietInv BY <2>1, <2>2 DEF QuietInv, MemoCanonical, Functional, Canonical
  <2> QED BY <2>2, <2>3, <2>4, <2>5 DEF Passed
<1>2. TypeOK /\ MemoMatchesRows /\ OneConstant /\ Passed /\ QuietInv /\ [Next]_vars
        => (TypeOK /\ MemoMatchesRows /\ OneConstant /\ Passed /\ QuietInv)'
  BY NextType, NextMatches, OneConstantKept, NextPassed, NextQuiet
<1>3. TypeOK /\ MemoMatchesRows /\ QuietInv => QuietIsClosed BY QuietCloses
<1> QED BY <1>1, <1>2, <1>3, PTL DEF Spec
-----------------------------------------------------------------------------
\* did_something is what the running call has merged.  A scan that has merged
\* nothing compares roots, so that different ids are different classes; later
\* ids may be stale and differ although their classes are one.
ReportsInv ==
  /\ did = merged
  /\ phase = "idle" => ~ did
  /\ phase = "scan" /\ ~ merged =>
       \A r \in cur \cup {t[2] : t \in todo} : rep[r.id] = r.id

\* A scan starts on roots.
LEMMA CanonicalizeReports ==
  ASSUME TypeOK, ReportsInv, RowCanonicalize
  PROVE  ReportsInv'
<1> DEFINE op == Current
           canonical == {<<r, CanonRow(op, r)>> : r \in rows[op]}
<1>1. /\ UF!IsPartition /\ rows[op] \subseteq Row(op) /\ op \in Ops
      /\ phase = "relation" /\ rep' = rep /\ did' = did /\ merged' = merged
      /\ \/ phase' = "relation"
         \/ phase' = "scan" /\ \E t \in First(canonical) :
                                 cur' = {t[2]} /\ todo' = canonical \ {t}
  BY DEF TypeOK, RowCanonicalize, Ops, RowsOK
<1>2. \A t \in canonical : rep[t[2].id] = t[2].id
  <2> SUFFICES ASSUME NEW r \in rows[op]
               PROVE  rep[CanonRow(op, r).id] = CanonRow(op, r).id
    OBVIOUS
  <2> QED BY <1>1, CanonRowFacts
<1> HIDE DEF canonical
<1>3. CASE phase' = "relation" BY <1>1, <1>3 DEF ReportsInv
<1>4. ASSUME phase' = "scan", NEW t \in First(canonical),
             cur' = {t[2]}, todo' = canonical \ {t}
      PROVE  ReportsInv'
  <2>1. t \in canonical BY <1>4 DEF First
  <2>2. \A r \in cur' \cup {u[2] : u \in todo'} : rep[r.id] = r.id BY <2>1, <1>2, <1>4
  <2> QED BY <2>2, <1>1, <1>4 DEF ReportsInv
<1> QED BY <1>1, <1>3, <1>4

\* A step of the scan that records a merge has merged, unless an earlier one has.
LEMMA ScanReports ==
  ASSUME TypeOK, ReportsInv, RowScan
  PROVE  ReportsInv'
<1>0. /\ UF!IsPartition /\ ScanOK /\ phase = "scan" /\ phase' = "scan"
      /\ merged \in BOOLEAN /\ did \in BOOLEAN
  BY DEF TypeOK, RowScan, ControlOK
<1>1. PICK c \in cur, t \in First(todo) :
        /\ todo' = todo \ {t}
        /\ \/ /\ t[2].id # c.id /\ UF!Union(c.id, t[2].id)
              /\ did' = TRUE /\ merged' = (merged \/ rep' # rep)
           \/ cur' = {t[2]} /\ rep' = rep /\ did' = did /\ merged' = merged
  BY DEF RowScan
<1>2. t \in todo BY <1>1 DEF First
<1>3. c.id \in Live /\ t[2].id \in Live BY <1>0, <1>1, <1>2 DEF ScanOK, Row
<1>4. CASE t[2].id # c.id /\ UF!Union(c.id, t[2].id) /\ did' = TRUE
           /\ merged' = (merged \/ rep' # rep)
  <2>1. ASSUME ~ merged PROVE rep' # rep
    <3>1. rep[c.id] = c.id /\ rep[t[2].id] = t[2].id
      BY <2>1, <1>0, <1>1, <1>2 DEF ReportsInv
    <3>2. rep'[c.id] = rep'[t[2].id] BY <1>0, <1>3, <1>4, UnionFacts
    <3> QED BY <3>1, <3>2, <1>4
  <2>2. merged' = TRUE BY <2>1, <1>4
  <2> QED BY <2>2, <1>0, <1>4 DEF ReportsInv
<1>5. CASE cur' = {t[2]} /\ rep' = rep /\ did' = did /\ merged' = merged
  <2>1. cur' \cup {u[2] : u \in todo'} \subseteq {u[2] : u \in todo}
    BY <1>1, <1>2, <1>5
  <2> QED BY <2>1, <1>0, <1>5 DEF ReportsInv
<1> QED BY <1>1, <1>4, <1>5

\* Without AC relations every step keeps ReportsInv.
LEMMA NextReports ==
  ASSUME AcOps = {}, TypeOK, ReportsInv, [Next]_vars
  PROVE  ReportsInv'
<1>1. CASE RowCanonicalize BY <1>1, CanonicalizeReports
<1>2. CASE RowScan BY <1>2, ScanReports
<1>3. CASE RowFinish
  BY <1>3 DEF RowFinish, ReportsInv
<1>4. CASE RebuildReturn BY <1>4 DEF RebuildReturn, ReportsInv
<1>5. CASE Rebuild BY <1>5 DEF Rebuild, ReportsInv
<1>6. ASSUME NEW op \in Ops, NEW args \in CallArgs(op), AddEnode(op, args)
      PROVE  ReportsInv'
  BY <1>6 DEF AddEnode, ReportsInv
<1>7. ASSUME NEW a \in Live, NEW b \in Live, Unify(a, b) PROVE ReportsInv'
  BY <1>7 DEF Unify, ReportsInv
<1>8. CASE UNCHANGED vars BY <1>8 DEF vars, ReportsInv
<1>9. ~ AcStep
  BY DEF TypeOK, ControlOK, AcStep, AcCanonicalize, AcUnify, AcCongruent, AcFlatten,
         AcUnflatten
<1> QED BY <1>1, <1>2, <1>3, <1>4, <1>5, <1>6, <1>7, <1>8, <1>9
        DEF Next, RebuildStep, RowStep

\* A rebuild that runs row stores only returns true exactly if it merged classes
\* (database.h:94-97), over all relations together; an AC relation makes it
\* return true in any case (run ac_reports).
THEOREM Reports == ASSUME AcOps = {} PROVE Spec => RebuildReports
<1>1. Init => TypeOK /\ ReportsInv BY InitType DEF Init, ReportsInv
<1>2. TypeOK /\ ReportsInv /\ [Next]_vars => (TypeOK /\ ReportsInv)'
  BY NextType, NextReports
<1>3. TypeOK /\ ReportsInv /\ [Next]_vars
        => (phase # "idle" /\ phase' = "idle" => did = merged)
  BY DEF ReportsInv
<1> QED BY <1>1, <1>2, <1>3, PTL DEF Spec, RebuildReports
=============================================================================
