CONSTANTS
  MaxIds = 3
  RowOps = {"one", "inv", "h"}
  AcOps = {"mul"}
  Arity <- Arities
  Databases <- SomeDatabases
  Patterns <- SomePatterns
  Queries <- CompiledQueries
SPECIFICATION Spec
INVARIANTS TypeOK IndicesTrackBindings MatchesExact EphemeralRoots
PROPERTIES SelectsOffered QueriesEnd
CHECK_DEADLOCK FALSE
