SPECIFICATION Spec
CONSTANTS
  Detours = {d1, d2, d3, d4}
  Function = Function
  Game = Game
  None = None
  Dangling = Dangling
  OtherThreads = {redis}
INVARIANTS TypeOK Chain Once Accounted GameCallSafe
PROPERTIES KeepsList
CHECK_DEADLOCK FALSE
