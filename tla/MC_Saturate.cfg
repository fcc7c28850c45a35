CONSTANTS
  a = a  one = one  inv = inv  mul = mul
  MaxIds = 8
  MaxSetup = 4
  MaxCalls = 6
  MaxOwnMset = 2
  MaxIters = 2
  MaxMset = 16
  Modulus = 3
  RowOps = {one, a, inv}
  AcOps = {mul}
  Arity <- GroupArity
  Relations <- GroupRelations
  AcArgs <- PairMsets
  Rules <- GroupRules
  Kernels <- GroupKernels
  Dom <- Residues
  Interp <- GroupInterp
  Zero <- GroupZero
  Plus <- GroupPlus
SPECIFICATION SatSpec
INVARIANTS MatchesKnown MatchesActedOn SaturatedIsClosed
PROPERTIES CallsAreSound SaturateReturns
CHECK_DEADLOCK FALSE
