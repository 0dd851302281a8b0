SPECIFICATION Spec
CONSTANTS
  None = None
  a = a
  b = b
  c = c
  Devices = {a, b, c}
  Width = 4
  Vendor = 1
  Benches <- MCBenches
  Profiles = {"aisg2", "aisg3"}
  Echoes = {TRUE, FALSE}
  Resets = {TRUE, FALSE}
  LastAddress = 2
  MaxQueries = 9
  MaxFaults = 2
INVARIANTS
  TypeOK
  UniqueAddresses
  AddressedAreListed
  FindsAll
