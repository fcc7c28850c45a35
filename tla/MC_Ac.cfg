CONSTANTS
  a = a  b = b  f = f  g = g  h = h
  MaxIds = 4
  RowOps = {a, b, g}
  AcOps = {f}
  Arity <- RowArity
  Relations <- AcRelations
  AcArgs <- PairMsets
  MaxMset = 3
SPECIFICATION Spec
INVARIANTS TypeOK MemoMatchesRows FlattenSeesClosed
PROPERTY RebuildEnds
