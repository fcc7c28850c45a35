CONSTANTS
  a = a  b = b  f = f
  MaxIds = 4
  PRIME = 32749
  SEED2 = 32000
  hash64 <- Powers
  RowOps = {a, b}
  AcOps = {f}
  Arity <- NoArity
  Relations <- Order
  AcArgs <- SmallMsets
  MaxMset = 2
SPECIFICATION VecSpec
INVARIANT VectorSorted
PROPERTY ImplementsSets
