----------------------------- MODULE Multisets -----------------------------
(***************************************************************************)
(* class Multiset (src/src/utils/multiset.h), the arguments of an AC       *)
(* operator: a function from ids to counts.  The entries with count zero   *)
(* that the class keeps make no difference here, every id has a count.     *)
(* Two multisets are the same when their fingerprints are: the             *)
(* fingerprint is taken to be injective.                                   *)
(***************************************************************************)
EXTENDS Naturals

EmptyMset(S) == [x \in S |-> 0]

Contains(m, x) == m[x] > 0

Includes(m, other) == \A x \in DOMAIN m : other[x] <= m[x]

Insert(m, x) == [m EXCEPT ![x] = @ + 1]

\* Removing an element that is not there changes nothing.
Remove(m, x) == [m EXCEPT ![x] = IF @ > 0 THEN @ - 1 ELSE 0]

MsetDiff(m, other) ==
  [x \in DOMAIN m |-> IF m[x] > other[x] THEN m[x] - other[x] ELSE 0]

InsertAll(m, other) == [x \in DOMAIN m |-> m[x] + other[x]]

\* Multiset::map: rename the ids 1..n by f; the counts of ids that become
\* equal are added up.
MapMset(m, f, n) ==
  LET acc[k \in 0..n] ==
        IF k = 0 THEN EmptyMset(DOMAIN m)
                 ELSE [acc[k-1] EXCEPT ![f[k]] = @ + m[k]]
  IN  acc[n]

\* Multiset::size over the ids 1..n: the sum of the counts.
MsetSize(m, n) ==
  LET sum[k \in 0..n] == IF k = 0 THEN 0 ELSE sum[k-1] + m[k]
  IN  sum[n]
=============================================================================
