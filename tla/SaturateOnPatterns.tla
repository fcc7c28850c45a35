------------------------- MODULE SaturateOnPatterns -------------------------
(***************************************************************************)
(* saturate on the rules of a theory: what the constructor of EGraph makes *)
(* of them, and what the matches of a rule should lead to, defined on its  *)
(* patterns.                                                               *)
(***************************************************************************)
EXTENDS Saturate

CONSTANT Rules   \* the rewrite rules [name, lhs, rhs], Kernels those compiled

C == INSTANCE Compiler

Lhs == [i \in DOMAIN Rules |-> Rules[i].lhs]

\* The value of a pattern whose variables have the values sigma.
RECURSIVE Eval(_, _)
Eval(pat, sigma) ==
  IF C!IsVariable(pat) THEN sigma[pat.var]
  ELSE LET d == [i \in DOMAIN pat.kids |-> Eval(pat.kids[i], sigma)]
       IN  Apply(pat.op, d)

RECURSIVE VariablesOf(_)
VariablesOf(pat) ==
  IF C!IsVariable(pat) THEN {pat.var}
  ELSE UNION {VariablesOf(pat.kids[i]) : i \in DOMAIN pat.kids}

\* Left sides are linear and not a bare variable, right sides have no other
\* variables, a name names one rule, and the rules hold in the algebra.
ASSUME RulesAssumption ==
  \A i \in DOMAIN Rules :
    /\ ~ C!IsVariable(Rules[i].lhs) /\ C!is_linear(Rules[i].lhs)
    /\ VariablesOf(Rules[i].rhs) \subseteq VariablesOf(Rules[i].lhs)
    /\ \A j \in DOMAIN Rules : Rules[i].name = Rules[j].name => i = j
    /\ \A sigma \in [VariablesOf(Rules[i].lhs) -> Dom] :
         Eval(Rules[i].lhs, sigma) = Eval(Rules[i].rhs, sigma)

ASSUME KernelsCompiled == Kernels = [i \in DOMAIN Rules |-> C!Kernel(Rules[i])]
-----------------------------------------------------------------------------
\* The classes in which the e-graph has a tuple for the pattern, when the
\* variables stand for the ids beta.
RECURSIVE Classes(_, _)
Classes(pat, beta) ==
  IF C!IsVariable(pat) THEN {rep[beta[pat.var]]}
  ELSE LET n == Len(pat.kids)
           kids == {s \in [1..n -> Live] : \A i \in 1..n : s[i] \in Classes(pat.kids[i], beta)}
           args == {Children(pat.op, s) : s \in kids}
       IN  {rep[r.id] : r \in {q \in rows[pat.op] : CanonArgs(pat.op, q.args) \in args}}

RootClasses(id) ==
  IF IsEphemeral(id)
    THEN LET e == ephemeral[id - MaxIds]
         IN  {rep[r.id] : r \in {q \in rows[e.op] :
                CanonArgs(e.op, q.args) = CanonArgs(e.op, e.args)}}
    ELSE {rep[id]}

\* At the end of an iteration every match found so far has been acted on: the
\* right side is in the e-graph, in the class of the left side, although most
\* of it was built on ids that have been merged since.
MatchesActedOn ==
  IterationDone =>
    \A name \in Names :
      LET i == SubstNamed(name)
          n == Len(Kernels[i].query.head)
      IN  \A j \in 0..(Len(matches[name]) \div n - 1) :
            LET m    == SubSeq(matches[name], j * n + 1, j * n + n)
                beta == [v \in DOMAIN Kernels[i].env |-> m[Kernels[i].env[v]]]
            IN  RootClasses(m[n]) \cap Classes(Rules[i].rhs, beta) # {}

\* The e-graph as a database, at any time.
Now == INSTANCE EngineOnPatterns WITH
         todo <- queries, Patterns <- Lhs, Databases <- {},
         Queries <- AllQueries, db <- Snapshot

\* An iteration that leaves the e-graph as it was has saturated it: whatever
\* matches the left side of a rule is in the class of the right side.
SaturatedIsClosed ==
  IterationDone /\ store = start =>
    \A i \in DOMAIN Rules : \A beta \in [VariablesOf(Rules[i].lhs) -> Live] :
      \A x \in Now!Denote(Rules[i].lhs, beta) :
        "id" \in DOMAIN x /\ rep[x.id] \in Classes(Rules[i].rhs, beta)
=============================================================================
