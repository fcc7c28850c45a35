CONSTANTS
  a = a  b = b  f = f  g = g  h = h
  MaxIds = 4
  RowOps = {a}
  AcOps = {f}
  Arity <- RowArity
  Relations <- NestRelations
  AcArgs <- SmallMsets
  MaxMset = 3
SPECIFICATION Spec
PROPERTY RebuildReports
