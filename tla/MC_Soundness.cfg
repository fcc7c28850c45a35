CONSTANTS
  a = a  b = b  f = f  g = g
  MaxIds = 4
  Modulus = 2
  RowOps = {a, b, g}
  AcOps = {f}
  Arity <- SumArity
  Relations <- SumRelations
  AcArgs <- PairMsets
  MaxMset = 3
  Dom <- Residues
  Interp <- SumInterp
  Zero <- SumZero
  Plus <- SumPlus
SPECIFICATION SoundSpec
INVARIANTS Sound
