SPECIFICATION Spec
CONSTANTS
  None = None
  gui = gui
  other = other
  Callers = {gui, other}
  LastAddress = 1
  MaxOperations = 3
  MaxFrames = 2
INVARIANTS
  TypeOK
  CancelCutsOff
  ListedAnswered
PROPERTIES
  KeepsFlight
CHECK_DEADLOCK FALSE
