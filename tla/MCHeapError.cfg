SPECIFICATION PartSpec
CONSTANTS
  Obj = {o1, o2, o3, o4}
  Text = {t1}
  Kinds = {"string", "symbol", "error"}
  MaxArena = 3
  MaxFields = 1
  MaxRoots = 2
  MaxEntries = 0
  NoObj = NoObj
  Imm = Imm
  Dummy = Dummy
  Wild = Wild
SYMMETRY Symmetric
INVARIANT MarksWrittenFields
CHECK_DEADLOCK FALSE
