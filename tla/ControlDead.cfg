SPECIFICATION ControlSpec
CONSTANTS
  Addr = {a1, a2}
  Null = Null
  MaxActive = 3
  MaxEntered = 4
INVARIANT DeadEscapesRefused
CHECK_DEADLOCK FALSE
