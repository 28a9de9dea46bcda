SPECIFICATION PartSpec
CONSTANTS
  Obj = {o1, o2, o3, o4}
  Text = {t1, t2}
  Kinds = {"weak", "string", "symbol", "error"}
  MaxArena = 3
  MaxFields = 1
  MaxRoots = 2
  MaxEntries = 2
  NoObj = NoObj
  Imm = Imm
  Dummy = Dummy
  Wild = Wild
  UNIT_SIZE = 3
  PAGE_UNITS = 7
  Span = 9
  Sizes = {2, 3}
  MaxPages = 2
  Bases = {7, 18}
SYMMETRY Symmetric
INVARIANT MarkedIsReachable
INVARIANT NoDangling
INVARIANT SymbolsUnique
INVARIANT MemoryWhole
PROPERTY ImplementsStore
CHECK_DEADLOCK FALSE
