----------------------------- MODULE MC_Theory -----------------------------
\* Theory for TLC: one operator f, declared unary or AC.
EXTENDS Theory

TheoryNames == {<<"f">>}
TheoryArities == {1, AC}
BothOwners == {THEORY, EGRAPH}

X    == <<"?", "x">>
F    == <<"(", "f", ")">>
FX   == <<"(", "f", " ", "?", "x", ")">>
FXX  == <<"(", "f", " ", "?", "x", " ", "?", "x", ")">>
FXFX == <<"(", "f", " ", "?", "x", " ", "(", "f", " ", "?", "x", ")", ")">>
FFX  == <<"(", "f", " ", "(", "f", ")", " ", "?", "x", ")">>
FG   == <<"(", "f", " ", "(", "g", ")", ")">>
Open == <<"(", "f", " ", "?", "y">>

\* Linear, twice the same variable below one operator and below two, a right
\* side that does not parse.
SomeRules == {<<FX, X>>, <<FXX, X>>, <<FXFX, F>>, <<FX, Open>>}

\* A term, one with a subterm before a variable, one with an operator nobody
\* declared.
SomeExprs == {F, FFX, FG}
=============================================================================
