----------------------------- MODULE RelationAC -----------------------------
(***************************************************************************)
(* RelationAC::rebuild (src/src/relations/relation_ac.cpp): alternate      *)
(* canonicalize and congruence until a pass unifies nothing, then add the  *)
(* tuples that flattening and unflattening derive.                         *)
(***************************************************************************)
EXTENDS EGraphState

\* Faulty variant: the loop tests a flag that nothing clears.
AcCanonicalize_Sticky ==
  LET op == Current
      canonical == {CanonRow(op, r) : r \in rows[op]}
  IN  /\ \/ phase = "relation" /\ pending # << >> /\ op \in AcOps
         \/ phase = "again"
      /\ rows' = [rows EXCEPT ![op] = canonical]
      /\ phase' = "congruence"
      /\ UNCHANGED <<rep, memo, pending, todo, cur, changed, did, merged, quiet>>

\* canonicalize; in the loop, an unchanged relation ends the loop.
AcCanonicalize ==
  LET op == Current
      canonical == {CanonRow(op, r) : r \in rows[op]}
  IN  /\ \/ phase = "relation" /\ pending # << >> /\ op \in AcOps
         \/ phase = "again"
      /\ rows' = [rows EXCEPT ![op] = canonical]
      /\ phase' = IF phase = "again" /\ canonical = rows[op]
                    THEN "flatten" ELSE "congruence"
      /\ changed' = FALSE
      /\ UNCHANGED <<rep, memo, pending, todo, cur, did, merged, quiet>>

\* Pairs of tuples that congruence unifies: same multiset, different class.
Congruent(op) ==
  {p \in rows[op] \X rows[op] : /\ p[1].args = p[2].args
                                /\ rep[p[1].id] # rep[p[2].id]}

AcUnify ==
  /\ phase = "congruence"
  /\ \E p \in Congruent(Current) : UF!Union(p[1].id, p[2].id)
  /\ changed' = TRUE
  /\ merged' = TRUE
  /\ UNCHANGED <<memo, rows, phase, pending, todo, cur, did, quiet>>

\* Faulty variant: one pass of congruence only.
AcCongruent_OnePass ==
  /\ phase = "congruence"
  /\ Congruent(Current) = {}
  /\ phase' = "flatten"
  /\ UNCHANGED <<rep, memo, rows, pending, todo, cur, changed, did, merged, quiet>>

\* The pass is over.  The loop has no other bound than `changed': its second
\* condition, i >= 0 for an unsigned i, always holds.
AcCongruent ==
  /\ phase = "congruence"
  /\ Congruent(Current) = {}
  /\ phase' = IF changed THEN "again" ELSE "flatten"
  /\ UNCHANGED <<rep, memo, rows, pending, todo, cur, changed, did, merged, quiet>>

\* Faulty variant: b is not taken out of the arguments of a.
Flattened_KeepsChild(op) ==
  {[args |-> InsertAll(p[1].args, p[2].args), id |-> p[1].id] :
     p \in {q \in rows[op] \X rows[op] :
              /\ q[1].args # q[2].args
              /\ ~ Contains(q[2].args, q[2].id)
              /\ Contains(q[1].args, q[2].id)}}

\* a = f(X + b), b = f(Y)  ~~>  a = f(X + Y), unless b occurs in Y.
Flattened(op) ==
  {[args |-> InsertAll(Remove(p[1].args, p[2].id), p[2].args), id |-> p[1].id] :
     p \in {q \in rows[op] \X rows[op] :
              /\ q[1].args # q[2].args
              /\ ~ Contains(q[2].args, q[2].id)
              /\ Contains(q[1].args, q[2].id)}}

\* a = f(X + Y), b = f(Y)  ~~>  a = f(X + b).
Unflattened(op) ==
  {[args |-> Insert(MsetDiff(p[1].args, p[2].args), p[2].id), id |-> p[1].id] :
     p \in {q \in rows[op] \X rows[op] :
              /\ q[1].args # q[2].args
              /\ Includes(q[1].args, q[2].args)}}

\* Faulty variant: the derived e-nodes are not entered in the memo.
Derive_NoMemo(op, derived) ==
  /\ rows' = [rows EXCEPT ![op] = @ \cup (derived \ rows[op])]
  /\ UNCHANGED memo

\* The worklist: insert every new tuple and emplace its e-node in the memo.
\* An e-node the memo knows keeps its id; otherwise the first tuple of the
\* worklist wins, and the worklist is sorted by id.
Derive(op, derived) ==
  LET new == derived \ rows[op]
      Owners(e) == {r.id : r \in {s \in new : ENode(op, s.args) = e}}
  IN  /\ rows' = [rows EXCEPT ![op] = @ \cup new]
      /\ memo' = [e \in DOMAIN memo \cup {ENode(op, r.args) : r \in new} |->
                    IF e \in DOMAIN memo THEN memo[e]
                    ELSE CHOOSE x \in Owners(e) : \A y \in Owners(e) : x <= y]

AcFlatten ==
  /\ phase = "flatten"
  /\ Derive(Current, Flattened(Current))
  /\ phase' = "unflatten"
  /\ UNCHANGED <<rep, pending, todo, cur, changed, did, merged, quiet>>

\* rebuild of an AC relation returns true, whatever it did.
AcUnflatten ==
  /\ phase = "unflatten"
  /\ Derive(Current, Unflattened(Current))
  /\ did' = TRUE
  /\ phase' = "relation"
  /\ pending' = Tail(pending)
  /\ changed' = FALSE
  /\ UNCHANGED <<rep, todo, cur, merged, quiet>>

AcStep == AcCanonicalize \/ AcUnify \/ AcCongruent \/ AcFlatten \/ AcUnflatten
=============================================================================
