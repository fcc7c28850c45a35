-------------------------- MODULE EngineOnPatterns --------------------------
(***************************************************************************)
(* The engine on compiled patterns.  What a pattern matches is defined on  *)
(* the pattern itself, without query, index or order of variables, and     *)
(* compared with what compiler, indices and engine together find.          *)
(***************************************************************************)
EXTENDS Engine

CONSTANT Patterns   \* the left sides of the rules, Queries those compiled

C == INSTANCE Compiler

ASSUME PatternsAssumption ==
  /\ \A i \in DOMAIN Patterns : ~C!IsVariable(Patterns[i]) /\ C!is_linear(Patterns[i])
  /\ Queries = [i \in DOMAIN Patterns |-> C!compile(Patterns[i]).query]

\* The pattern of the query that has just ended.
LastPattern == Patterns[Len(Queries) - Len(todo)]

Count(s) == [x \in Ids |-> Cardinality({i \in DOMAIN s : s[i] = x})]

\* What the ids in the e-graph say that the pattern may stand for, when its
\* variables stand for the ids beta: for an operator the ids of its tuples,
\* for an AC operator the id of any part of one of its terms, or that part
\* itself when it has no id.
RECURSIVE Denote(_, _)
Denote(pat, beta) ==
  IF C!IsVariable(pat) THEN {[id |-> beta[pat.var]]}
  ELSE
    LET n == Len(pat.kids)
        kids == {s \in [1..n -> Ids] :
                   \A i \in 1..n : [id |-> s[i]] \in Denote(pat.kids[i], beta)}
    IN  IF pat.op \in AcOps
          THEN LET parts == {m \in {Count(s) : s \in kids} :
                               \E t \in DOMAIN db.terms[pat.op] :
                                 Includes(db.terms[pat.op][t], m)}
               IN  UNION {IF lookup(pat.op, m) = {} THEN {[op |-> pat.op, args |-> m]}
                          ELSE {[id |-> x] : x \in lookup(pat.op, m)} : m \in parts}
          ELSE {[id |-> Last(t)] : t \in {u \in db.rows[pat.op] : Front(u) \in kids}}

\* The results of a query are exactly the matches of its pattern: the ids of
\* its variables, where env says they are, and the root.  None is missed, none
\* is made up, in whatever order the compiler numbers the variables and
\* whichever permutations the indices have (compiler.h:28-42, engine.cpp:15-30).
MatchesExact ==
  mode = "idle" /\ todo # Queries =>
    LET env == C!compile(LastPattern).env
    IN  {<<[v \in DOMAIN env |-> r[env[v]]], Meaning(Last(r))>> :
           r \in {results[i] : i \in DOMAIN results}}
        = UNION {{<<beta, x>> : x \in Denote(LastPattern, beta)} :
                   beta \in [DOMAIN env -> Ids]}
=============================================================================
