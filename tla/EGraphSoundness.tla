--------------------------- MODULE EGraphSoundness ---------------------------
(***************************************************************************)
(* Is what the e-graph concludes true?  Interpret the operators in any     *)
(* algebra whose AC operators are commutative monoids (flatten and         *)
(* unflatten in relation_ac.cpp assume no more), give every id the value   *)
(* of the e-node it was created for, and let callers unify only ids of     *)
(* equal value, as a rewrite rule that holds in the algebra does.  `val'   *)
(* is a history variable: the e-graph itself computes no values.           *)
(***************************************************************************)
EXTENDS EGraph

CONSTANTS
  Dom,     \* the values
  Interp,  \* meaning of an operator with fixed arity: tuple of values -> value
  Zero,    \* unit of each AC operator
  Plus     \* operation of each AC operator: <<value, value>> -> value

ASSUME AlgebraAssumption ==
  /\ \A op \in RowOps : Interp[op] \in [[1..Arity[op] -> Dom] -> Dom]
  /\ \A op \in AcOps : Zero[op] \in Dom /\ Plus[op] \in [Dom \X Dom -> Dom]

ASSUME MonoidAssumption ==
  \A op \in AcOps : \A x, y, z \in Dom :
    /\ Plus[op][<<x, Zero[op]>>] = x
    /\ Plus[op][<<x, y>>] = Plus[op][<<y, x>>]
    /\ Plus[op][<<x, Plus[op][<<y, z>>]>>] = Plus[op][<<Plus[op][<<x, y>>], z>>]

VARIABLE val  \* id -> value of the e-node it was created for

\* n times the value d.
Times(op, n, d) ==
  LET t[k \in 0..n] == IF k = 0 THEN Zero[op] ELSE Plus[op][<<t[k-1], d>>]
  IN  t[n]

\* The value of an AC operator on a multiset of the ids 1..Len(v).
Sum(op, m, v) ==
  LET s[k \in 0..Len(v)] ==
        IF k = 0 THEN Zero[op] ELSE Plus[op][<<s[k-1], Times(op, m[k], v[k])>>]
  IN  s[Len(v)]

Value(op, args, v) ==
  IF op \in AcOps THEN Sum(op, args, v)
                  ELSE Interp[op][[i \in 1..Arity[op] |-> v[args[i]]]]

SoundInit == Init /\ val = << >>

SoundNext ==
  \/ \E op \in Ops : \E args \in CallArgs(op) :
       /\ AddEnode(op, args)
       /\ val' = IF rep' = rep THEN val ELSE Append(val, Value(op, args, val))
  \/ \E a, b \in Live : val[a] = val[b] /\ Unify(a, b) /\ UNCHANGED val
  \/ Rebuild /\ UNCHANGED val
  \/ RebuildStep /\ UNCHANGED val

SoundSpec == SoundInit /\ [][SoundNext]_<<vars, val>>
-----------------------------------------------------------------------------
Holds(op, args, id) == Value(op, args, val) = val[id]

\* Ids of one class have one value.
ClassesHold == \A x \in Live : val[rep[x]] = val[x]

RowsHold == \A op \in Ops : \A r \in AllRows(op) : Holds(op, r.args, r.id)
MemoHolds == \A e \in DOMAIN memo : Holds(e.op, e.args, memo[e])

\* Whatever the e-graph equates is equal in the algebra, and every tuple and
\* memo entry, at every moment of rebuild, is a true equation between a term
\* and its class.
Sound == ClassesHold /\ RowsHold /\ MemoHolds
=============================================================================
