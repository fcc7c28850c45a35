------------------------------- MODULE Parser -------------------------------
(***************************************************************************)
(* class Parser (src/src/parser.h, parser.cpp): from the characters of an  *)
(* s-expression to an expression tree, interning the names it meets.  A    *)
(* text and a name are sequences of characters.  Each running call of      *)
(* parse_expr that reads an operator is a frame; an exception ends all of  *)
(* them.  Expressions are those of module Compiler, with symbols for names.*)
(***************************************************************************)
EXTENDS SymbolTable, Sequences

CONSTANTS
  Owners,           \* who has a symbol table
  IdentifierChars,  \* the characters of names, "?" among them
  Whitespace

VARIABLES
  tables,   \* the symbol table of each owner
  owner,    \* whose table the parser refers to
  tokens,
  current,  \* current_token
  frames,   \* the operators being read, innermost last: [op, kids]
  status,   \* "idle", "parsing", "done", or "failed" after an exception
  result    \* what parse_sexpr returned

parser == <<owner, tokens, current, frames, status, result>>

SX == INSTANCE SequencesExt

IDENTIFIER == "identifier"
END_OF_INPUT == "end"
Token(type, value) == [type |-> type, value |-> value]

\* One character: `open' says that a name is being read, `bad' that an unknown
\* character was met.
Lex(acc, c) ==
  LET toks == acc.tokens
  IN  IF acc.bad THEN acc
      ELSE IF c \in Whitespace THEN [acc EXCEPT !.open = FALSE]
      ELSE IF c \in {"(", ")"}
        THEN [acc EXCEPT !.tokens = Append(toks, Token(c, <<c>>)), !.open = FALSE]
      ELSE IF c \notin IdentifierChars THEN [acc EXCEPT !.bad = TRUE]
      ELSE IF acc.open
        THEN [acc EXCEPT !.tokens[Len(toks)].value = Append(@, c)]
      ELSE [acc EXCEPT !.tokens = Append(toks, Token(IDENTIFIER, <<c>>)), !.open = TRUE]

tokenize(input) ==
  LET lexed == SX!FoldLeft(Lex, [tokens |-> << >>, open |-> FALSE, bad |-> FALSE], input)
  IN  [lexed EXCEPT !.tokens = Append(@, Token(END_OF_INPUT, << >>))]

make_variable(sym) == [var |-> sym]
make_operator(sym, kids) == [op |-> sym, kids |-> kids]

IsVariable(expr) == "var" \in DOMAIN expr

\* Expr::to_sexpr.  An opaque symbol prints as a text that is not a name.
RECURSIVE to_sexpr(_, _)
to_sexpr(expr, table) ==
  IF IsVariable(expr) THEN <<"?">> \o get_string(table, expr.var)
  ELSE LET AddKid(text, kid) == text \o <<" ">> \o to_sexpr(kid, table)
       IN  SX!FoldLeft(AddKid, <<"(">> \o get_string(table, expr.op), expr.kids) \o <<")">>
-----------------------------------------------------------------------------
ParserInit ==
  /\ tables = [o \in Owners |-> EmptyTable]
  /\ owner \in Owners
  /\ tokens = << >> /\ current = 1 /\ frames = << >>
  /\ status = "idle" /\ result = << >>

\* parse_sexpr: nothing to parse and unknown characters fail at once.
parse_sexpr(o, input) ==
  LET lexed == tokenize(input)
  IN  /\ owner' = o
      /\ tokens' = IF lexed.bad THEN << >> ELSE lexed.tokens
      /\ current' = 1 /\ frames' = << >> /\ result' = << >>
      /\ status' = IF input = << >> \/ lexed.bad THEN "failed" ELSE "parsing"

peek == tokens[current]

\* advance: the end marker is never passed.
advance(cursor) == IF tokens[cursor].type = END_OF_INPUT THEN cursor ELSE cursor + 1

Intern(str) == tables' = [tables EXCEPT ![owner] = intern(@, str)]

\* A call of parse_expr returns to its caller, the innermost of the frames
\* given or parse_sexpr, which wants all tokens consumed.
Return(expr, outer, cursor) ==
  /\ current' = cursor
  /\ IF outer # << >>
       THEN /\ frames' = [outer EXCEPT ![Len(outer)].kids = Append(@, expr)]
            /\ UNCHANGED <<status, result>>
       ELSE /\ frames' = << >>
            /\ result' = expr
            /\ status' = IF tokens[cursor].type = END_OF_INPUT THEN "done" ELSE "failed"

\* Faulty variant: a name of no characters is let through.
AtVariable_EmptyName == peek.type = IDENTIFIER /\ peek.value[1] = "?"

AtVariable == peek.type = IDENTIFIER /\ peek.value[1] = "?" /\ Len(peek.value) > 1

ParseVariable ==
  /\ status = "parsing" /\ AtVariable
  /\ LET name == Tail(peek.value)
     IN  /\ Intern(name)
         /\ Return(make_variable(SymbolOf(tables[owner], name)), frames, advance(current))
  /\ UNCHANGED <<owner, tokens>>

AtOperator ==
  /\ peek.type = "("
  /\ LET next == tokens[advance(current)] IN next.type = IDENTIFIER /\ next.value[1] # "?"

OpenOperator ==
  /\ status = "parsing" /\ AtOperator
  /\ LET name == tokens[advance(current)].value
     IN  /\ Intern(name)
         /\ frames' = Append(frames, [op |-> SymbolOf(tables[owner], name), kids |-> << >>])
  /\ current' = advance(advance(current))
  /\ UNCHANGED <<owner, tokens, status, result>>

AtClose == peek.type = ")" /\ frames # << >>

\* Faulty variant: the arguments come out last one first.
CloseOperator_Reversed ==
  /\ status = "parsing" /\ AtClose
  /\ LET top == frames[Len(frames)]
     IN  Return(make_operator(top.op, SX!Reverse(top.kids)), SX!Front(frames), advance(current))
  /\ UNCHANGED <<tables, owner, tokens>>

CloseOperator ==
  /\ status = "parsing" /\ AtClose
  /\ LET top == frames[Len(frames)]
     IN  Return(make_operator(top.op, top.kids), SX!Front(frames), advance(current))
  /\ UNCHANGED <<tables, owner, tokens>>

\* Every other token is an exception; names interned so far stay.
ParseError ==
  /\ status = "parsing"
  /\ ~ AtVariable /\ ~ AtOperator /\ ~ AtClose
  /\ status' = "failed" /\ frames' = << >>
  /\ UNCHANGED <<tables, owner, tokens, current, result>>

ParseStep == ParseVariable \/ OpenOperator \/ CloseOperator \/ ParseError
-----------------------------------------------------------------------------
\* The grammar (parser.cpp:113-164), as a reference: is this stretch of tokens
\* one expression?  A list of expressions?
RECURSIVE IsExpr(_), AreExprs(_)
IsExpr(toks) ==
  LET n == Len(toks)
  IN  \/ /\ n = 1
         /\ toks[1].type = IDENTIFIER /\ toks[1].value[1] = "?" /\ Len(toks[1].value) > 1
      \/ /\ n >= 3
         /\ toks[1].type = "(" /\ toks[n].type = ")"
         /\ toks[2].type = IDENTIFIER /\ toks[2].value[1] # "?"
         /\ AreExprs(SubSeq(toks, 3, n - 1))
AreExprs(toks) ==
  \/ toks = << >>
  \/ \E k \in 1..Len(toks) :
       IsExpr(SubSeq(toks, 1, k)) /\ AreExprs(SubSeq(toks, k + 1, Len(toks)))

WellFormed(input) ==
  LET lexed == tokenize(input)
  IN  ~ lexed.bad /\ IsExpr(SX!Front(lexed.tokens))
=============================================================================
