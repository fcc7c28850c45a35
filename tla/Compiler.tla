------------------------------ MODULE Compiler ------------------------------
(***************************************************************************)
(* From the pattern of a rewrite rule to a conjunctive query, and from the *)
(* other pattern to the calls that build it (src/src/compiler.cpp,         *)
(* query.cpp).  A pattern is a variable                                    *)
(*    [var |-> name]  or an operator with patterns  [op |-> f, kids |-> s] *)
(* Query variables are numbered from 1.                                    *)
(***************************************************************************)
EXTENDS Permutations, SequencesExt

CONSTANT AcOps    \* the associative-commutative operators

AC == -1          \* the permutation that marks an AC constraint

IsVariable(pat) == "var" \in DOMAIN pat

\* Expr::is_linear: no operator has the same variable twice as a direct child.
RECURSIVE is_linear(_)
is_linear(pat) ==
  \/ IsVariable(pat)
  \/ /\ \A i, j \in DOMAIN pat.kids :
          i # j /\ IsVariable(pat.kids[i]) => pat.kids[i] # pat.kids[j]
     /\ \A i \in DOMAIN pat.kids : is_linear(pat.kids[i])

RECURSIVE count_ac_operators(_)
count_ac_operators(pat) ==
  IF IsVariable(pat) THEN 0
  ELSE FoldLeft(LAMBDA n, kid : n + count_ac_operators(kid),
                IF pat.op \in AcOps THEN 1 ELSE 0, pat.kids)

\* For each variable in ascending order, its position in the constraint.
SortingPermutation(vars) ==
  [k \in DOMAIN vars |->
     CHOOSE i \in DOMAIN vars :
       Cardinality({j \in DOMAIN vars : vars[j] <= vars[i]}) = k]

\* Both constructors of Constraint.
Constraint(op, vars) ==
  [symbol      |-> op,
   variables   |-> vars,
   permutation |-> IF op \in AcOps THEN AC
                   ELSE permutation_to_index(SortingPermutation(vars))]

\* compile_rec.  s is the state of the compiler: the counters next_id and
\* next_term_id, the variable of each pattern variable met (env), the head, the
\* constraints and, in var, the variable that stands for the last pattern.
RECURSIVE compile_rec(_, _)
compile_rec(s, pat) ==
  IF IsVariable(pat) /\ pat.var \in DOMAIN s.env
    THEN [s EXCEPT !.var = s.env[pat.var]]
  ELSE IF IsVariable(pat)
    THEN [s EXCEPT !.next_id = @ + 1,
                   !.env  = [v \in DOMAIN s.env \cup {pat.var} |->
                               IF v = pat.var THEN s.next_id ELSE s.env[v]],
                   !.head = Append(@, s.next_id),
                   !.var  = s.next_id]
  ELSE LET is_ac == pat.op \in AcOps
           start == [state |-> IF is_ac THEN [s EXCEPT !.next_term_id = @ + 1] ELSE s,
                     vars  |-> IF is_ac THEN <<s.next_term_id>> ELSE << >>]
           Child(acc, kid) ==
             LET t == compile_rec(acc.state, kid)
             IN  [state |-> t, vars |-> Append(acc.vars, t.var)]
           done == FoldLeft(Child, start, pat.kids)
           t    == done.state
       IN  [t EXCEPT !.next_id = @ + 1,
                     !.var = t.next_id,
                     !.constraints =
                        Append(@, Constraint(pat.op, Append(done.vars, t.next_id)))]

\* What add_constraint makes of nvars: the largest variable of the constraints.
nvars(constraints) ==
  Max({0} \cup UNION {Range(constraints[c].variables) : c \in DOMAIN constraints})

\* compile: the query, and where in its head each pattern variable is.  The
\* term-ids of the AC operators come before all other variables.
compile(pat) ==
  LET s == compile_rec([next_id |-> count_ac_operators(pat) + 1, next_term_id |-> 1,
                        env |-> << >>, head |-> << >>, constraints |-> << >>,
                        var |-> 0], pat)
      head == Append(s.head, s.var)
  IN  [query |-> [constraints |-> s.constraints, head |-> head,
                  nvars |-> nvars(s.constraints)],
       env   |-> [v \in DOMAIN s.env |->
                    Max({i \in DOMAIN head : head[i] = s.env[v]})]]

\* The calls of add_enode in instantiate_rec, in order: an operator and, for
\* each child, the pattern variable or the call that yields it.
RECURSIVE Calls(_, _)
Calls(code, pat) ==
  IF IsVariable(pat) THEN [code |-> code, ref |-> pat]
  ELSE LET Child(acc, kid) == LET r == Calls(acc.code, kid)
                              IN  [code |-> r.code, refs |-> Append(acc.refs, r.ref)]
           done == FoldLeft(Child, [code |-> code, refs |-> << >>], pat.kids)
       IN  [code |-> Append(done.code, [op |-> pat.op, refs |-> done.refs]),
            ref  |-> [call |-> Len(done.code) + 1]]

\* The constructor of EGraph compiles a rule.
Kernel(r) ==
  LET k == compile(r.lhs)
      p == Calls(<< >>, r.rhs)
  IN  [name |-> r.name, query |-> k.query, env |-> k.env, calls |-> p.code, root |-> p.ref]
=============================================================================
