------------------------- MODULE MC_MultisetEntries -------------------------
\* MultisetEntries for TLC.
EXTENDS MultisetEntries

\* One id hashes to zero, one to a multiple of PRIME, one such that the seed plus it is PRIME.
SmallHash == [x \in Ids |-> IF x = 1 THEN 0 ELSE IF x = 2 THEN PRIME ELSE 1034 + x]
=============================================================================
