SPECIFICATION EitherSpec
CONSTANTS
  Null = Null
  Key = {k1, k2, k3}
  Val = {v1, v2}
  String = {s1, s2, s3}
  Text = {x, y, z}
  Hashes = {0, 3, 7}
  MaxOps = 6
SYMMETRY Symmetric
INVARIANTS
  ProbesEnd
  EachOnce
  SymbolsKeep
PROPERTY ImplementsMap
CHECK_DEADLOCK FALSE
