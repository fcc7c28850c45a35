CONSTANTS
  Owners <- BothOwners
  IdentifierChars = {"f", "g", "r", "x", "y", "?"}
  Whitespace = {" "}
  Names <- TheoryNames
  Arities <- TheoryArities
  RuleTexts <- SomeRules
  ExprTexts <- SomeExprs
  MaxSymbols = 2
  MaxRules = 1
SPECIFICATION Spec
INVARIANTS SymbolsInUse TablesAgree TermsClosed
PROPERTIES NamesStable RuleCallsAtomic
CHECK_DEADLOCK FALSE
