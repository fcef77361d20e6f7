CONSTANTS
  Messages = {m1, m2}
  WithArg = {m1}
  Size = 8
  None = None
  NoSwap = NoSwap
SPECIFICATION Spec
INVARIANTS
  SlotsOwnTheirArguments
  SwapStaysInWindow
PROPERTIES
  ImplementsQueue
  SwapTerminates
