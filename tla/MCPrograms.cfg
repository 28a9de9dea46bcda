SPECIFICATION Spec
CONSTANTS
  Programs <- MCProgramSet
  StackSize = 32
INVARIANT ResultsAgree
INVARIANT StacksBalanced
INVARIANT FramesApart
PROPERTY FormsEnd
CHECK_DEADLOCK FALSE
