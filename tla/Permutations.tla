---------------------------- MODULE Permutations ----------------------------
(***************************************************************************)
(* src/src/utils/permutation.cpp: permutations of 1..n and their numbers   *)
(* in lexicographic order (factorial number system).  The code counts      *)
(* positions from 0 and accepts at most 12 of them.                        *)
(***************************************************************************)
EXTENDS Integers, Sequences, FiniteSets

MaxLength == 12   \* 12! is the largest factorial below 2^32

factorial[n \in 0..MaxLength] == IF n = 0 THEN 1 ELSE n * factorial[n-1]

\* Each position contributes the number of smaller elements still available.
permutation_to_index(p) ==
  LET n == Len(p)
      pos(i) == Cardinality({j \in (i+1)..n : p[j] < p[i]})
      sum[i \in 0..n] == IF i = 0 THEN 0 ELSE sum[i-1] + pos(i) * factorial[n-i]
  IN  sum[n]

\* The element of S with k smaller ones.
Nth(S, k) == CHOOSE x \in S : Cardinality({y \in S : y < x}) = k

\* index_to_permutation on the elements 1..n: the digits of the index say which
\* of the elements still available is next.
index_to_permutation(index, n) ==
  LET pos(i) == (index % factorial[n-i+1]) \div factorial[n-i]
      perm[i \in 1..n] == Nth((1..n) \ {perm[j] : j \in 1..(i-1)}, pos(i))
  IN  perm

apply_permutation(perm, vec) == [i \in DOMAIN vec |-> vec[perm[i]]]
=============================================================================
