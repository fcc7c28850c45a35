---------------------------- MODULE Fingerprint ----------------------------
(***************************************************************************)
(* Arithmetic modulo a prime (src/src/utils/hash.h) and the fingerprint    *)
(* of a multiset (MultisetFingerprint, src/src/utils/multiset.h): a seed   *)
(* plus the hash of each element times its count.  PRIME is below 2^63,    *)
(* so sums fit 64 bits; products are taken in 128 bits.                    *)
(***************************************************************************)
EXTENDS Naturals

CONSTANTS
  MaxIds,  \* how many ids there are
  PRIME,
  SEED2,
  hash64   \* the hash function (wyhash), id -> 64 bits

ASSUME FingerprintAssumption ==
  /\ MaxIds \in Nat
  /\ PRIME \in Nat /\ 42 < PRIME
  /\ SEED2 \in 0..(PRIME - 1)
  /\ hash64 \in [1..MaxIds -> Nat]

Ids == 1..MaxIds
Residues == 0..(PRIME - 1)

hashmodp(x) == IF hash64[x] = 0 THEN 42 ELSE hash64[x] % PRIME

\* Faulty variant: a sum of exactly PRIME is left as it is.
addmodp_OffByOne(x, y) == IF x + y <= PRIME THEN x + y ELSE x + y - PRIME

addmodp(x, y) == IF x + y < PRIME THEN x + y ELSE x + y - PRIME
submodp(x, y) == IF x >= y THEN x - y ELSE x + (PRIME - y)
mulmodp(x, y) == (x * y) % PRIME

\* MultisetFingerprint: insert count occurrences of x, remove one.
FpInsert(fp, x, count) == addmodp(fp, mulmodp(hashmodp(x), count))
FpRemove(fp, x) == submodp(fp, hashmodp(x))

\* What a fingerprint is meant to be: a function of the counts.
Weight(m) ==
  LET w[k \in 0..MaxIds] == IF k = 0 THEN 0 ELSE w[k-1] + hashmodp(k) * m[k]
  IN  w[MaxIds]

Digest(m) == (SEED2 + Weight(m)) % PRIME
=============================================================================
