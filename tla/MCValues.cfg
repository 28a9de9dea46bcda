SPECIFICATION Spec
CONSTANTS
  Char = {"x"}
  MaxObj = 2
  MaxLen = 4
  MaxRopes = 8
  MaxOps = 4
  MaxLost = 5
  Garbage = "?"
  Given = 3
  MaxPair = 15
  Atom <- Atoms
  Calls <- AllCalls
  Mutating = {"map", "for-each"}
  SeenDepth = 10
  MaxDepth = 200
  MaxText = 40
  MaxCommented = 2
  MaxArgs = 5
  MaxOperands = 3
  IntBits = 4
  WideBits = 9
  Radixes = {2, 3, 10, 16}
  MaxLetters = 4
INVARIANTS
  Texts
  CountsHolders
  HeldIsLive
  OutcomeAgrees
  EqualAgrees
  ReadBack
  CallsAnswer
  NumbersAgree
PROPERTY CallsEnd
CHECK_DEADLOCK FALSE
