----------------------------- MODULE Partition -----------------------------
(***************************************************************************)
(* What class UnionFind (src/src/union_find.h, union_find.cpp) promises:   *)
(* a partition of the ids handed out so far.  `rep' maps every id to the   *)
(* representative of its class, which is always the smallest id in it.     *)
(* Ids are numbered from 1 (the code numbers them from 0); MaxIds is the   *)
(* number of ids id_t can hold.                                            *)
(***************************************************************************)
EXTENDS Naturals, Sequences

CONSTANT MaxIds

VARIABLE rep  \* id -> representative of its class, i.e. find_root

Ids == 1..MaxIds

\* The ids that exist: UnionFind::size() of them.
Live == 1..Len(rep)

\* Merge the classes of a and b: the smaller representative survives.
Merged(r, a, b) ==
  LET lo == IF r[a] < r[b] THEN r[a] ELSE r[b]
      hi == IF r[a] < r[b] THEN r[b] ELSE r[a]
  IN  [x \in 1..Len(r) |-> IF r[x] = hi THEN lo ELSE r[x]]

MakeSet == /\ Len(rep) < MaxIds
           /\ rep' = Append(rep, Len(rep) + 1)

Union(a, b) == rep' = Merged(rep, a, b)

Init == rep = << >>
Next == MakeSet \/ \E a, b \in Live : Union(a, b)
Spec == Init /\ [][Next]_rep
-----------------------------------------------------------------------------
\* Every id's representative exists, is no larger than the id and represents
\* itself: rep is the canonical map of a partition, rooted at the minimum.
IsPartition ==
  /\ rep \in Seq(Ids)
  /\ Len(rep) <= MaxIds
  /\ \A x \in Live : rep[x] <= x /\ rep[rep[x]] = rep[x]
=============================================================================
