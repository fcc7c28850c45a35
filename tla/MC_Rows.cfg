CONSTANTS
  a = a  b = b  f = f  g = g  h = h
  MaxIds = 5
  RowOps = {a, g, h}
  AcOps = {}
  Arity <- RowArity
  Relations <- RowRelations
  AcArgs <- NoMsets
  MaxMset = 0
SPECIFICATION Spec
INVARIANTS QuietIsClosed
PROPERTIES FunctionalDependency RebuildReports Converges
