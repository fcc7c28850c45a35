---------------------------- MODULE MC_AcVector ----------------------------
\* AcVector for TLC: two constants and an AC operator.
EXTENDS AcVector

CONSTANTS a, b, f

NoArity == [op \in RowOps |-> 0]
Order == <<a, b, f>>
SmallMsets == {m \in [Ids -> 0..2] : MsetSize(m, MaxIds) = 2}

\* Different for all multisets of the instance, not in the order of the ids.
Powers == [x \in Ids |-> 10^(MaxIds - x)]

\* So NoCollision, under which ImplementsSets is proved, holds here.
ASSUME Injective == LET S == [Ids -> 0..7]
                    IN  Cardinality({hash(m) : m \in S}) = Cardinality(S)
=============================================================================
