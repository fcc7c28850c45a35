----------------------------- MODULE MC_EGraph -----------------------------
\* Instances of EGraph for TLC.
EXTENDS EGraph

CONSTANTS a, b, f, g, h

RowArity == [op \in RowOps |-> IF op \in {g, h} THEN 1 ELSE 0]

\* One constant and two unary operators: terms like g(h(a)), and a relation
\* that is rebuilt before the one that merges its arguments.
RowRelations == <<a, g, h>>
NoMsets == {}

\* Two constants, a unary and an AC operator, called with two children.
AcRelations == <<a, b, g, f>>
PairMsets == {m \in [Ids -> 0..2] : MsetSize(m, MaxIds) = 2}

\* One constant and an AC operator, called with two or three children.
NestRelations == <<a, f>>
SmallMsets == {m \in [Ids -> 0..3] : MsetSize(m, MaxIds) \in 2..3}
=============================================================================
