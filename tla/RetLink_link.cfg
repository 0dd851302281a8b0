SPECIFICATION Spec
CONSTANTS
  None = None
  DeviceType = "multi"
  AntennaCount = 1
  MinTilt = 2
  MaxTilt = 3
  Values = {0}
  Alarms = {"HARDWARE_ERROR"}
  QueueDepth = 2
  MaxSegment = 1
  ConfigSize = 1
  Modulus = 2
  Addresses = {1}
  Requests <- LinkRequests
  Outcomes <- MCOutcomes
  PollOutcomes <- IdlePolls
  Fallback <- MCFallback
  Factory <- MCFactory
  Raised <- MCRaised
INVARIANTS
  TypeOK
  OnlyCurrentIFrame
  ResetHasItsTrigger
  QuietBeforeAddress
PROPERTIES
  AlarmChangeReported
