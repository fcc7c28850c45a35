CONSTANTS
  Owners = {t}
  IdentifierChars = {"a", "b", "?"}
  Whitespace = {" "}
  Chars = {"(", ")", "a", "?", " ", "<"}
  MaxText = 5
  MaxPieces = 7
SPECIFICATION Spec
INVARIANTS TypeOK AcceptsGrammar RoundTrip
CHECK_DEADLOCK FALSE
