------------------------------ MODULE RowStore ------------------------------
(***************************************************************************)
(* RowStore::rebuild (src/src/relations/row_store.cpp): make the tuples    *)
(* canonical, sort them by arguments, and unify the ids of neighbours with *)
(* equal arguments, one pair of neighbours per step.  qsort_r leaves the   *)
(* order of equal arguments open.                                          *)
(***************************************************************************)
EXTENDS EGraphState

\* tuple_compare: lexicographic on the arguments, the id plays no part.
ArgsBefore(s, t) ==
  \E i \in DOMAIN s : s[i] < t[i] /\ \A j \in 1..(i-1) : s[j] = t[j]

\* Faulty variant: the relation is not sorted.
First_Unsorted(tuples) == tuples

\* The tuples a sort may put first.
First(tuples) ==
  {t \in tuples : \A u \in tuples : ~ ArgsBefore(u[2].args, t[2].args)}

\* Faulty variant: did_something is overwritten by each relation.
RowCanonicalize_LastResult ==
  LET op == Current
      canonical == {<<r, CanonRow(op, r)>> : r \in rows[op]}
  IN  /\ phase = "relation"
      /\ pending # << >> /\ op \in RowOps
      /\ IF Arity[op] = 0 \/ Cardinality(rows[op]) <= 1
           THEN /\ rows' = [rows EXCEPT ![op] = {t[2] : t \in canonical}]
                /\ pending' = Tail(pending)
                /\ UNCHANGED <<phase, todo, cur>>
           ELSE /\ \E t \in First(canonical) :
                     /\ cur' = {t[2]}
                     /\ todo' = canonical \ {t}
                /\ rows' = [rows EXCEPT ![op] = {}]
                /\ phase' = "scan"
                /\ UNCHANGED pending
      /\ did' = FALSE
      /\ UNCHANGED <<rep, memo, changed, merged, quiet>>

\* Start on the current relation.  Only relations with arguments and with two
\* tuples or more are sorted and scanned.
RowCanonicalize ==
  LET op == Current
      canonical == {<<r, CanonRow(op, r)>> : r \in rows[op]}
  IN  /\ phase = "relation"
      /\ pending # << >> /\ op \in RowOps
      /\ IF Arity[op] = 0 \/ Cardinality(rows[op]) <= 1
           THEN /\ rows' = [rows EXCEPT ![op] = {t[2] : t \in canonical}]
                /\ pending' = Tail(pending)
                /\ UNCHANGED <<phase, todo, cur>>
           ELSE /\ \E t \in First(canonical) :
                     /\ cur' = {t[2]}
                     /\ todo' = canonical \ {t}
                /\ rows' = [rows EXCEPT ![op] = {}]
                /\ phase' = "scan"
                /\ UNCHANGED pending
      /\ UNCHANGED <<rep, memo, changed, did, merged, quiet>>

\* Faulty variant: a merge is not recorded in did_something.
RowScan_Silent ==
  /\ phase = "scan"
  /\ \E c \in cur, t \in First(todo) :
       LET next == t[2]
           same == next.args = c.args /\ next.id # c.id
           root == UF!Merged(rep, c.id, next.id)[c.id]
       IN  /\ todo' = todo \ {t}
           /\ IF same
                THEN /\ UF!Union(c.id, next.id)
                     /\ rows' = [rows EXCEPT ![Current] = @ \cup {[c EXCEPT !.id = root]}]
                     /\ cur' = {[next EXCEPT !.id = root]}
                     /\ merged' = (merged \/ rep' # rep)
                ELSE /\ rows' = [rows EXCEPT ![Current] = @ \cup {c}]
                     /\ cur' = {next}
                     /\ UNCHANGED <<rep, merged>>
  /\ UNCHANGED <<memo, phase, pending, changed, did, quiet>>

\* Compare the tuple under the scan with its successor.  Equal arguments and
\* different ids: unify, and both tuples carry the surviving root from here.
RowScan ==
  /\ phase = "scan"
  /\ \E c \in cur, t \in First(todo) :
       LET next == t[2]
           same == next.args = c.args /\ next.id # c.id
           root == UF!Merged(rep, c.id, next.id)[c.id]
       IN  /\ todo' = todo \ {t}
           /\ IF same
                THEN /\ UF!Union(c.id, next.id)
                     /\ rows' = [rows EXCEPT ![Current] = @ \cup {[c EXCEPT !.id = root]}]
                     /\ cur' = {[next EXCEPT !.id = root]}
                     /\ did' = TRUE
                     /\ merged' = (merged \/ rep' # rep)
                ELSE /\ rows' = [rows EXCEPT ![Current] = @ \cup {c}]
                     /\ cur' = {next}
                     /\ UNCHANGED <<rep, did, merged>>
  /\ UNCHANGED <<memo, phase, pending, changed, quiet>>

RowFinish ==
  /\ phase = "scan"
  /\ todo = {}
  /\ rows' = [rows EXCEPT ![Current] = @ \cup cur]
  /\ cur' = {}
  /\ phase' = "relation"
  /\ pending' = Tail(pending)
  /\ UNCHANGED <<rep, memo, todo, changed, did, merged, quiet>>

RowStep == RowCanonicalize \/ RowScan \/ RowFinish
=============================================================================
