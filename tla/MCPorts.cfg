SPECIFICATION PartSpec
CONSTANTS
  Length = 6
  BufSize = 3
  MaxWant = 5
  MaxPast = 2
  MaxWrite = 7
  MaxBytes = 9
  Obj = {o1, o2, o3}
  Text = {t1}
  Kinds = {"weak"}
  MaxArena = 1
  MaxFields = 0
  MaxRoots = 2
  MaxEntries = 2
  NoObj = NoObj
  Imm = Imm
  Dummy = Dummy
  Wild = Wild
INVARIANTS
  InOrder
  NothingLost
  ClosedIsComplete
PROPERTIES
  EndIsFinal
  ReadEnds
  WriteEnds
  CollectionEnds
CHECK_DEADLOCK FALSE
