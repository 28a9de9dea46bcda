SPECIFICATION PartSpec
CONSTANTS
  Val = {v1, v2}
  MaxDepth = 3
  MaxIds = 3
  Addr = {a1, a2, a3}
  Null = Null
  MaxActive = 4
  MaxEntered = 5
  MaxCalls = 7
  MaxMade = 3
SYMMETRY Symmetric
INVARIANTS
  OneVariable
  NoStaleRegisters
  ChainIsTheStack
  ArenaProtectsChain
  DynIsTheStack
  HandlersLive
  LiveEscapes
  WindsNest
CHECK_DEADLOCK FALSE
