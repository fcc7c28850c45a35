---------------------------- MODULE MC_Saturate ----------------------------
\* Saturate on the rules of evaluation/groups.cpp, for TLC.
EXTENDS SaturateOnPatterns

CONSTANTS a, one, inv, mul, Modulus

Var(name) == [var |-> name]
App(op, kids) == [op |-> op, kids |-> kids]
px == Var("x")

GroupRules ==
  << [name |-> "identity", lhs |-> App(mul, <<px, App(one, << >>)>>), rhs |-> px],
     [name |-> "inverse", lhs |-> App(mul, <<px, App(inv, <<px>>)>>), rhs |-> App(one, << >>)] >>

\* What the constructor makes of them, written out for speed (KernelsCompiled).
\* Variable 1 is the term-id, 2 is x, 4 the root.
Product == [symbol |-> mul, variables |-> <<1, 2, 3, 4>>, permutation |-> C!AC]

GroupKernels ==
  << [name  |-> "identity",
      query |-> [constraints |->
                   <<[symbol |-> one, variables |-> <<3>>, permutation |-> 0], Product>>,
                 head |-> <<2, 4>>, nvars |-> 4],
      env   |-> [x |-> 1],
      calls |-> << >>,
      root  |-> px],
     [name  |-> "inverse",
      query |-> [constraints |->
                   <<[symbol |-> inv, variables |-> <<2, 3>>, permutation |-> 0], Product>>,
                 head |-> <<2, 4>>, nvars |-> 4],
      env   |-> [x |-> 1],
      calls |-> <<[op |-> one, refs |-> << >>]>>,
      root  |-> [call |-> 1]] >>

GroupRelations == <<one, a, inv, mul>>
GroupArity == [op \in RowOps |-> IF op = inv THEN 1 ELSE 0]
PairMsets == {Insert(Insert(EmptyMset(Ids), x), y) : x, y \in Ids}

\* The integers modulo Modulus.
Residues == 0..(Modulus - 1)
GroupInterp ==
  [op \in RowOps |->
     [s \in [1..GroupArity[op] -> Residues] |->
        IF op = a THEN 1 ELSE IF op = one THEN 0 ELSE (Modulus - s[1]) % Modulus]]
GroupZero == [op \in AcOps |-> 0]
GroupPlus == [op \in AcOps |-> [p \in Residues \X Residues |-> (p[1] + p[2]) % Modulus]]
=============================================================================
