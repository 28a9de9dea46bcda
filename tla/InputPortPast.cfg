SPECIFICATION Spec
CONSTANTS
  Length = 2
  BufSize = 2
  MaxWant = 2
  MaxPast = 2
INVARIANTS
  CharactersLeft
CHECK_DEADLOCK FALSE
