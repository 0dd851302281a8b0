SPECIFICATION Spec
CONSTANTS
  p1 = p1
  p2 = p2
  Payloads = {p1, p2, bad}
  Invalid = {bad}
  SlotCount = 2
  SequenceCount = 5
  None = None
  Blank = Blank
  Torn = Torn
SYMMETRY Symmetry
INVARIANTS
  ConfirmedIsLoaded
  NothingInvented
PROPERTIES
  StoreSpec
