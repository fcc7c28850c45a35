---------------------------- MODULE MC_Soundness ----------------------------
\* EGraphSoundness in the integers modulo Modulus.
EXTENDS EGraphSoundness

CONSTANTS a, b, f, g, Modulus

SumRelations == <<a, b, g, f>>
SumArity == [op \in RowOps |-> IF op = g THEN 1 ELSE 0]
PairMsets == {m \in [Ids -> 0..2] : MsetSize(m, MaxIds) = 2}

Residues == 0..(Modulus - 1)

\* a = 1, b = 2 % Modulus, g(x) = 2x + 1, f = +.
SumInterp ==
  [op \in RowOps |->
     [s \in [1..SumArity[op] -> Residues] |->
        IF op = a THEN 1
        ELSE IF op = b THEN 2 % Modulus
        ELSE (2 * s[1] + 1) % Modulus]]
SumZero == [op \in AcOps |-> 0]
SumPlus == [op \in AcOps |-> [p \in Residues \X Residues |-> (p[1] + p[2]) % Modulus]]
=============================================================================
