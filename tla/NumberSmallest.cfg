SPECIFICATION Spec
CONSTANTS
  IntBits = 4
  WideBits = 9
  Radixes = {2, 10, 16}
  Operands = {}
  MaxArgs = 0
  Letters = {}
  MaxLetters = 0
INVARIANT SmallestReadsBack
CHECK_DEADLOCK FALSE
