SPECIFICATION Spec
CONSTANTS
  None = None
  Travel = 3
  MinTilt = 2
  MaxTilt = 4
  Tolerance = 0
  DefaultMin = 1
  DefaultMax = 2
  MinimumSpan = 2
  Noticed = 1
  Mountings = {TRUE, FALSE}
  Troubles = {"none", "jammed", "driver fault", "switch closed"}
  Saves = {"ok", "failed", "lost"}
INVARIANTS
  TypeOK
  DrivenUnderCommand
  CalibratedAgree
PROPERTIES
  NeverIntoLimit
  KeepsContract
