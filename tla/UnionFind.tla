----------------------------- MODULE UnionFind -----------------------------
(***************************************************************************)
(* The union-find of the e-graph (src/src/union_find.h, union_find.cpp): a *)
(* parent vector, unify by smallest id, path halving in find_root_mut and  *)
(* the in-place pass normalize.  The two operations that rewrite parents   *)
(* in a loop are modelled one iteration per step, so the invariants also   *)
(* speak of the vector half way through a loop.                            *)
(***************************************************************************)
EXTENDS Naturals, Sequences, FiniteSets

CONSTANT MaxIds

ASSUME MaxIdsAssumption == MaxIds \in Nat

VARIABLES
  vec,       \* parent of every id
  nclasses,  \* number of classes, counted by make_set and unify
  pc,        \* which loop is running: "idle", "find" or "normalize"
  arg,       \* the argument of the last find_root_mut
  cursor,    \* the loop variable (x of _find_root_ph, i of normalize)
  ret        \* the id the last find_root_mut returned

vars == <<vec, nclasses, pc, arg, cursor, ret>>

Ids == 1..MaxIds
Live == 1..Len(vec)

\* find_root: follow parents up to an id that is its own parent.
RootOf(v) ==
  LET root[x \in 1..Len(v)] == IF v[x] = x THEN x ELSE root[v[x]]
  IN  root

Init == /\ vec = << >>
        /\ nclasses = 0
        /\ pc = "idle"
        /\ arg = 0 /\ cursor = 0 /\ ret = 0

\* Faulty variant: make_set forgets to count the new class.
MakeSet_Uncounted ==
  /\ pc = "idle"
  /\ Len(vec) < MaxIds
  /\ vec' = Append(vec, Len(vec) + 1)
  /\ UNCHANGED <<nclasses, pc, arg, cursor, ret>>

MakeSet == /\ pc = "idle"
           /\ Len(vec) < MaxIds
           /\ vec' = Append(vec, Len(vec) + 1)
           /\ nclasses' = nclasses + 1
           /\ UNCHANGED <<pc, arg, cursor, ret>>

\* Faulty variant: the larger root survives.
Unify_LargerWins(a, b) ==
  LET ra == RootOf(vec)[a]
      rb == RootOf(vec)[b]
      lo == IF ra < rb THEN ra ELSE rb
      hi == IF ra < rb THEN rb ELSE ra
  IN  /\ pc = "idle"
      /\ vec' = [vec EXCEPT ![lo] = hi]
      /\ nclasses' = IF ra = rb THEN nclasses ELSE nclasses - 1
      /\ UNCHANGED <<pc, arg, cursor, ret>>

\* Faulty variant: no early return for two ids of one class.
Unify_NoEarlyReturn(a, b) ==
  LET ra == RootOf(vec)[a]
      rb == RootOf(vec)[b]
      lo == IF ra < rb THEN ra ELSE rb
      hi == IF ra < rb THEN rb ELSE ra
  IN  /\ pc = "idle"
      /\ vec' = [vec EXCEPT ![hi] = lo]
      /\ nclasses' = nclasses - 1
      /\ UNCHANGED <<pc, arg, cursor, ret>>

\* Link the larger of the two roots below the smaller; nothing if they agree.
Unify(a, b) ==
  LET ra == RootOf(vec)[a]
      rb == RootOf(vec)[b]
      lo == IF ra < rb THEN ra ELSE rb
      hi == IF ra < rb THEN rb ELSE ra
  IN  /\ pc = "idle"
      /\ IF ra = rb
           THEN UNCHANGED <<vec, nclasses>>
           ELSE /\ vec' = [vec EXCEPT ![hi] = lo]
                /\ nclasses' = nclasses - 1
      /\ UNCHANGED <<pc, arg, cursor, ret>>

\* find_root_mut tests its argument first and enters the loop only if the
\* argument is not a root.
FindRootMut(a) ==
  /\ pc = "idle"
  /\ arg' = a
  /\ IF vec[a] = a
       THEN ret' = a /\ UNCHANGED <<pc, cursor>>
       ELSE pc' = "find" /\ cursor' = a /\ UNCHANGED ret
  /\ UNCHANGED <<vec, nclasses>>

\* Faulty variant: the loop rewrites the entry but does not advance.
HalvePath_Stays ==
  /\ pc = "find"
  /\ vec[cursor] # cursor
  /\ vec' = [vec EXCEPT ![cursor] = vec[vec[cursor]]]
  /\ UNCHANGED <<nclasses, pc, arg, cursor, ret>>

\* One iteration of _find_root_ph: point cursor at its grandparent, go there.
HalvePath ==
  /\ pc = "find"
  /\ vec[cursor] # cursor
  /\ vec' = [vec EXCEPT ![cursor] = vec[vec[cursor]]]
  /\ cursor' = vec'[cursor]
  /\ UNCHANGED <<nclasses, pc, arg, ret>>

\* Faulty variant: stops at a child of the root.
FindReturn_Early ==
  /\ pc = "find"
  /\ vec[vec[cursor]] = vec[cursor]
  /\ ret' = cursor
  /\ pc' = "idle"
  /\ UNCHANGED <<vec, nclasses, arg, cursor>>

FindReturn ==
  /\ pc = "find"
  /\ vec[cursor] = cursor
  /\ ret' = cursor
  /\ pc' = "idle"
  /\ UNCHANGED <<vec, nclasses, arg, cursor>>

Normalize ==
  /\ pc = "idle"
  /\ pc' = "normalize"
  /\ cursor' = 1
  /\ UNCHANGED <<vec, nclasses, arg, ret>>

\* One iteration of normalize, in ascending order of ids.
NormalizeEntry ==
  /\ pc = "normalize"
  /\ cursor <= Len(vec)
  /\ vec' = [vec EXCEPT ![cursor] = vec[vec[cursor]]]
  /\ cursor' = cursor + 1
  /\ UNCHANGED <<nclasses, pc, arg, ret>>

\* Faulty variant: the last entry is left out.
NormalizeReturn_OffByOne ==
  /\ pc = "normalize"
  /\ cursor >= Len(vec)
  /\ pc' = "idle"
  /\ UNCHANGED <<vec, nclasses, arg, cursor, ret>>

NormalizeReturn ==
  /\ pc = "normalize"
  /\ cursor > Len(vec)
  /\ pc' = "idle"
  /\ UNCHANGED <<vec, nclasses, arg, cursor, ret>>

LoopStep == HalvePath \/ FindReturn \/ NormalizeEntry \/ NormalizeReturn

Next == \/ MakeSet
        \/ \E a, b \in Live : Unify(a, b)
        \/ \E a \in Live : FindRootMut(a)
        \/ Normalize
        \/ LoopStep

\* A call runs to completion: the loops are fair, the caller is not.
Spec == Init /\ [][Next]_vars /\ WF_vars(LoopStep)
-----------------------------------------------------------------------------
TypeOK == /\ vec \in Seq(Ids) /\ Len(vec) <= MaxIds
          /\ nclasses \in 0..MaxIds
          /\ pc \in {"idle", "find", "normalize"}
          /\ arg \in 0..MaxIds
          /\ cursor \in 0..(MaxIds + 1)
          /\ ret \in 0..MaxIds

\* eclasses() is the number of roots, at every point of every operation: the
\* counter that make_set and unify maintain never drifts from the vector.
CountsClasses ==
  nclasses = Cardinality({x \in Live : vec[x] = x})

\* find_root_mut returns what find_root returns, although it rewrites the
\* path it walks: the cursor never leaves the class of the argument.
FindReturnsRoot ==
  [][pc = "find" /\ pc' = "idle" => ret' = RootOf(vec)[arg]]_vars

\* One ascending pass is enough: when normalize returns, every parent is a
\* root, even where the path was arbitrarily long before.
NormalizeFlattens ==
  [][pc = "normalize" /\ pc' = "idle" =>
       \A x \in Live : vec[vec[x]] = vec[x]]_vars

\* Both loops end, whatever the shape of the forest.
LoopsEnd == pc # "idle" ~> pc = "idle"

\* The vector implements a partition: make_set and unify are the steps of
\* the abstract specification, the loops never change it.
Abs == INSTANCE Partition WITH rep <- RootOf(vec)
ImplementsPartition == Abs!Spec
=============================================================================
