------------------------------- MODULE Theory -------------------------------
(***************************************************************************)
(* class Theory (src/src/theory.h, theory.cpp) with its symbol table, the  *)
(* rules it reads from texts, the e-graph that is made from a copy of it,  *)
(* and the terms the e-graph is then given as texts.  A call that reads a  *)
(* text takes the steps of the parser; it may end in an exception at any   *)
(* of them.                                                                *)
(***************************************************************************)
EXTENDS Parser, Integers

CONSTANTS
  Names, Arities,  \* what add_operator is called with
  RuleTexts,       \* the pairs of texts rules are read from
  ExprTexts,       \* the texts of terms
  MaxSymbols,      \* bound: no opaque symbol beyond
  MaxRules         \* bound: number of rules

VARIABLES
  operators,      \* owner -> function from symbols to arities
  rewrite_rules,  \* sequence of [name, lhs, rhs]
  call,           \* the running call that reads texts
  copied,         \* next_id of the theory when the e-graph was made, -1 before
  terms           \* the terms in the e-graph

theoryvars == <<operators, rewrite_rules, call, copied, terms>>
vars == <<tables, parser, theoryvars>>

THEORY == "theory"
EGRAPH == "egraph"

C == INSTANCE Compiler WITH AcOps <- {}

AC == C!AC

NoCall == [kind |-> "none"]

RuleName == <<"r">>  \* one name will do for all rules

get_arity(o, sym) == IF sym \in DOMAIN operators[o] THEN operators[o][sym] ELSE -1

Declare(o, sym, arity) ==
  operators' = [operators EXCEPT ![o] =
                  [s \in DOMAIN @ \cup {sym} |-> IF s = sym THEN arity ELSE @[s]]]

RECURSIVE add_expr(_, _)

\* Faulty variant: an exception from a child is swallowed.
add_expr_Swallows(known, expr) ==
  IF IsVariable(expr) THEN [known |-> known, outcome |-> "throws"]
  ELSE [known   |-> known \cup {expr}
                      \cup UNION {add_expr(known, expr.kids[i]).known : i \in DOMAIN expr.kids},
        outcome |-> "ok"]

\* EGraph::add_expr: children first; a term enters the e-graph even if an
\* exception follows.  An operator without a relation and a wrong number of
\* children are caught by assertions only, which a Debug build has.
add_expr(known, expr) ==
  IF IsVariable(expr) THEN [known |-> known, outcome |-> "throws"]
  ELSE LET Child(acc, kid) ==
             IF acc.outcome = "ok" THEN add_expr(acc.known, kid) ELSE acc
           done == SX!FoldLeft(Child, [known |-> known, outcome |-> "ok"], expr.kids)
           arity == get_arity(EGRAPH, expr.op)
       IN  IF done.outcome # "ok" \/ expr \in done.known THEN done
           ELSE IF \/ expr.op \notin DOMAIN operators[EGRAPH]
                   \/ arity # AC /\ Len(expr.kids) # arity
             THEN [done EXCEPT !.outcome = "aborts"]
           ELSE [done EXCEPT !.known = @ \cup {expr}]
-----------------------------------------------------------------------------
Init ==
  /\ ParserInit /\ owner = THEORY
  /\ operators = [o \in Owners |-> << >>]
  /\ rewrite_rules = << >>
  /\ call = NoCall
  /\ copied = -1
  /\ terms = {}

AddOperator(str, arity) ==
  /\ call = NoCall
  /\ tables' = [tables EXCEPT ![THEORY] = intern(@, str)]
  /\ Declare(THEORY, SymbolOf(tables[THEORY], str), arity)
  /\ UNCHANGED <<parser, rewrite_rules, call, copied, terms>>

AddOpaqueOperator(arity) ==
  /\ call = NoCall /\ tables[THEORY].next_id < MaxSymbols
  /\ tables' = [tables EXCEPT ![THEORY] = create_opaque(@)]
  /\ Declare(THEORY, tables[THEORY].next_id, arity)
  /\ UNCHANGED <<parser, rewrite_rules, call, copied, terms>>

\* add_rewrite_rule with two expressions: refused if the left one is not linear.
AddRule(lhs, rhs) ==
  IF C!is_linear(lhs)
    THEN /\ tables' = [tables EXCEPT ![THEORY] = intern(@, RuleName)]
         /\ rewrite_rules' = Append(rewrite_rules,
              [name |-> SymbolOf(tables[THEORY], RuleName), lhs |-> lhs, rhs |-> rhs])
    ELSE UNCHANGED <<tables, rewrite_rules>>

\* Expressions built by hand: constants of the declared operators.
AddRuleOfConstants ==
  /\ call = NoCall /\ Len(rewrite_rules) < MaxRules
  /\ \E s, t \in DOMAIN operators[THEORY] :
       AddRule(make_operator(s, << >>), make_operator(t, << >>))
  /\ UNCHANGED <<parser, operators, call, copied, terms>>

\* add_rewrite_rule with two texts: the same parser reads one after the other.
AddRuleText(lhs, rhs) ==
  /\ call = NoCall /\ Len(rewrite_rules) < MaxRules
  /\ parse_sexpr(THEORY, lhs)
  /\ call' = [kind |-> "rule", lhs |-> lhs, rhs |-> rhs, parsed |-> << >>]
  /\ UNCHANGED <<tables, operators, rewrite_rules, copied, terms>>

\* Faulty variant: the rule is stored as soon as its left side is read.
ParseRhs_StoresRule ==
  /\ call.kind = "rule" /\ call.parsed = << >> /\ status = "done"
  /\ parse_sexpr(THEORY, call.rhs)
  /\ call' = [call EXCEPT !.parsed = <<result>>]
  /\ AddRule(result, result)
  /\ UNCHANGED <<operators, copied, terms>>

ParseRhs ==
  /\ call.kind = "rule" /\ call.parsed = << >> /\ status = "done"
  /\ parse_sexpr(THEORY, call.rhs)
  /\ call' = [call EXCEPT !.parsed = <<result>>]
  /\ UNCHANGED <<tables, operators, rewrite_rules, copied, terms>>

\* The call returns: its parser is gone.
EndCall ==
  /\ call' = NoCall
  /\ owner' = THEORY /\ tokens' = << >> /\ current' = 1 /\ frames' = << >>
  /\ status' = "idle" /\ result' = << >>

AddParsedRule ==
  /\ call.kind = "rule" /\ call.parsed # << >> /\ status = "done"
  /\ AddRule(call.parsed[1], result)
  /\ EndCall
  /\ UNCHANGED <<operators, copied, terms>>

\* Faulty variant: the numbers are copied, the names are not.
MakeEGraph_NoNames ==
  /\ call = NoCall /\ copied = -1
  /\ tables' = [tables EXCEPT ![EGRAPH].next_id = tables[THEORY].next_id]
  /\ operators' = [operators EXCEPT ![EGRAPH] = operators[THEORY]]
  /\ copied' = tables[THEORY].next_id
  /\ UNCHANGED <<parser, rewrite_rules, call, terms>>

\* EGraph::EGraph: the e-graph has a copy of the theory, symbols included.
MakeEGraph ==
  /\ call = NoCall /\ copied = -1
  /\ tables' = [tables EXCEPT ![EGRAPH] = tables[THEORY]]
  /\ operators' = [operators EXCEPT ![EGRAPH] = operators[THEORY]]
  /\ copied' = tables[THEORY].next_id
  /\ UNCHANGED <<parser, rewrite_rules, call, terms>>

\* add_expr with a text: names it does not know are interned in the copy.
AddExprText(text) ==
  /\ call = NoCall /\ copied # -1
  /\ parse_sexpr(EGRAPH, text)
  /\ call' = [kind |-> "expr"]
  /\ UNCHANGED <<tables, operators, rewrite_rules, copied, terms>>

AddParsedExpr ==
  /\ call.kind = "expr" /\ status = "done"
  /\ LET added == add_expr(terms, result)
     IN  /\ terms' = added.known
         /\ IF added.outcome = "aborts"
              THEN call' = [kind |-> "aborted"] /\ UNCHANGED parser
              ELSE EndCall
  /\ UNCHANGED <<tables, operators, rewrite_rules, copied>>

\* An exception of the parser ends the call.
ParserThrows ==
  /\ call.kind \in {"rule", "expr"} /\ status = "failed"
  /\ EndCall
  /\ UNCHANGED <<tables, operators, rewrite_rules, copied, terms>>

Next ==
  \/ \E str \in Names, arity \in Arities : AddOperator(str, arity)
  \/ \E arity \in Arities : AddOpaqueOperator(arity)
  \/ AddRuleOfConstants
  \/ \E p \in RuleTexts : AddRuleText(p[1], p[2])
  \/ ParseRhs \/ AddParsedRule
  \/ MakeEGraph
  \/ \E text \in ExprTexts : AddExprText(text)
  \/ AddParsedExpr
  \/ ParserThrows
  \/ ParseStep /\ UNCHANGED theoryvars

Spec == Init /\ [][Next]_vars
-----------------------------------------------------------------------------
\* What symbols an expression mentions.
RECURSIVE Symbols(_)
Symbols(expr) ==
  IF IsVariable(expr) THEN {expr.var}
  ELSE {expr.op} \cup UNION {Symbols(expr.kids[i]) : i \in DOMAIN expr.kids}

\* No dangling and no shared symbol: two names never have one symbol, and
\* whatever operators, rules and terms mention was handed out by their table.
SymbolsInUse ==
  /\ \A o \in Owners : LET t == tables[o] IN
       /\ \A r, s \in DOMAIN t.map : t.map[r] = t.map[s] => r = s
       /\ \A s \in DOMAIN t.map : t.map[s] < t.next_id
       /\ \A sym \in DOMAIN operators[o] : sym < t.next_id
  /\ \A i \in DOMAIN rewrite_rules : LET r == rewrite_rules[i] IN
       \A sym \in {r.name} \cup Symbols(r.lhs) \cup Symbols(r.rhs) :
         sym < tables[THEORY].next_id
  /\ \A t \in terms : \A sym \in Symbols(t) : sym < tables[EGRAPH].next_id

\* A symbol keeps its name for good, and an opaque one never gets a name
\* (symbol_table.h:29-31), whatever is interned later or by calls that fail.
NamesStable ==
  [][\A o \in Owners : \A sym \in 0..(tables[o].next_id - 1) :
       get_string(tables'[o], sym) = get_string(tables[o], sym)
         \/ (o = EGRAPH /\ copied = -1)]_vars

\* The e-graph reads its terms with a copy of the symbol table.  On the symbols
\* that existed when it was made both tables agree for ever; later ones are
\* handed out twice, for different names.
TablesAgree ==
  copied # -1 =>
    \A sym \in 0..(copied - 1) :
      get_string(tables[THEORY], sym) = get_string(tables[EGRAPH], sym)

\* A call of add_rewrite_rule with texts is all or nothing as far as rules go: it
\* stores one, made of both sides, exactly if both texts parse and the left one
\* is linear.
RuleCallsAtomic ==
  [][call.kind = "rule" =>
       LET rules == rewrite_rules' IN
       IF call' = NoCall /\ WellFormed(call.lhs) /\ WellFormed(call.rhs)
            /\ C!is_linear(call.parsed[1])
         THEN /\ Len(rules) = Len(rewrite_rules) + 1
              /\ LET new == rules[Len(rules)]
                     Reads(expr, text) ==
                       tokenize(to_sexpr(expr, tables'[THEORY])).tokens
                         = tokenize(text).tokens
                 IN  Reads(new.lhs, call.lhs) /\ Reads(new.rhs, call.rhs)
         ELSE rules = rewrite_rules]_vars

\* However calls of add_expr end, the e-graph holds terms without variables, each
\* with all its subterms, over operators it has relations for and with as many
\* children as the relation has columns (row_store.h:46-53).
TermsClosed ==
  \A t \in terms : /\ ~ IsVariable(t)
                   /\ t.op \in DOMAIN operators[EGRAPH]
                   /\ operators[EGRAPH][t.op] \in {AC, Len(t.kids)}
                   /\ \A i \in DOMAIN t.kids : t.kids[i] \in terms

=============================================================================
