SPECIFICATION PartSpec
CONSTANTS
  Obj = {o1, o2, o3}
  Text = {t1}
  Kinds = {"pair", "weak", "string", "symbol", "error"}
  MaxArena = 2
  MaxFields = 1
  MaxRoots = 2
  MaxEntries = 2
  NoObj = NoObj
  Imm = Imm
  Dummy = Dummy
  Wild = Wild
SYMMETRY Symmetric
INVARIANT TypeOK
INVARIANT ClosedIsEmpty
PROPERTY KeepsPromise
CHECK_DEADLOCK FALSE
