SPECIFICATION Spec
CONSTANTS
  None = None
  DeviceType = "single"
  AntennaCount = 1
  MinTilt = 2
  MaxTilt = 3
  Values = {0}
  Alarms = {}
  QueueDepth = 2
  MaxSegment = 1
  ConfigSize = 1
  Modulus = 3
  Addresses = {1}
  Requests <- LinkRequests
  Outcomes <- MCOutcomes
  PollOutcomes <- IdlePolls
  Fallback <- MCFallback
  Factory <- MCFactory
  Raised = {}
PROPERTIES
  ResetAfterItsAnswer
