---------------------------- MODULE EGraphState ----------------------------
(***************************************************************************)
(* The state the parts of the e-graph share (class EGraph, src/src/egraph.h*)
(* and the Database it owns) and how ids, e-nodes and tuples are brought   *)
(* to canonical form.  The union-find appears by its abstract              *)
(* specification Partition, which module UnionFind implements.             *)
(***************************************************************************)
EXTENDS Naturals, Sequences, FiniteSets, Multisets

CONSTANTS
  MaxIds,     \* how many ids id_t can hold
  RowOps,     \* operators with a fixed arity, stored in a RowStore
  AcOps,      \* associative-commutative operators, stored in a RelationAC
  Arity,      \* number of children of each operator of RowOps
  Relations   \* the operators in the order Database::rebuild visits them

ASSUME MaxIdsAssumption == MaxIds \in Nat
ASSUME OpsAssumption == /\ RowOps \cap AcOps = {}
                        /\ Arity \in [RowOps -> Nat]
                        /\ Relations \in Seq(RowOps \cup AcOps)
\* The constructor of EGraph creates a relation for every operator.
ASSUME RelationsAssumption ==
  \A op \in RowOps \cup AcOps : \E i \in DOMAIN Relations : Relations[i] = op

VARIABLES
  rep,      \* the union-find: id -> root
  memo,     \* hashcons: e-node -> id
  rows,     \* operator -> the set of its tuples [args, id]
  phase,    \* what the running call of rebuild does next; "idle" if none
  pending,  \* the relations that call has still to rebuild, current one first
  todo,     \* RowStore: tuples behind the scan, <<stored, canonical>> pairs
  cur,      \* RowStore: the tuple under the scan, if any, as a set
  changed,  \* RelationAC: has this pass of congruence unified anything?
  did,      \* did_something, the value that rebuild will return
  merged,   \* history: did this rebuild really merge two classes?
  quiet     \* history: the last rebuild returned false and nothing was
            \* unified since

store == <<rep, memo, rows>>
vars == <<rep, memo, rows, phase, pending, todo, cur, changed, did, merged, quiet>>

UF == INSTANCE Partition

Ops == RowOps \cup AcOps
Ids == 1..MaxIds
Live == 1..Len(rep)
Mset == [Ids -> Nat]

\* Children are a sequence of ids that exist, or a multiset of them below an
\* AC operator: the code keeps those sorted, so equal multisets are equal
\* vectors.
Args(op) == IF op \in AcOps
              THEN {m \in Mset : \A x \in Ids : m[x] > 0 => x \in Live}
              ELSE [1..Arity[op] -> Live]

Row(op) == [args : Args(op), id : Live]
ENode(op, args) == [op |-> op, args |-> args]

\* Children with every id replaced by its root.
CanonArgs(op, args) ==
  IF op \in AcOps THEN MapMset(args, rep, Len(rep))
                  ELSE [i \in 1..Arity[op] |-> rep[args[i]]]

CanonENode(e) == ENode(e.op, CanonArgs(e.op, e.args))
CanonRow(op, r) == [args |-> CanonArgs(op, r.args), id |-> rep[r.id]]

\* All tuples of op, those in the middle of a RowStore::rebuild included.
AllRows(op) ==
  IF phase = "scan" /\ op = Head(pending)
    THEN rows[op] \cup cur \cup {t[2] : t \in todo}
    ELSE rows[op]

\* The relation whose turn it is in Database::rebuild.
Current == Head(pending)
=============================================================================
