SPECIFICATION SystemSpec
CONSTANTS
  None = None
  DeviceType = "single"
  AntennaCount = 1
  MinTilt = 2
  MaxTilt = 3
  Values = {0}
  Alarms = {"HARDWARE_ERROR"}
  QueueDepth = 3
  MaxSegment = 1
  ConfigSize = 1
  Modulus = 8
  Addresses = {1}
  Requests <- CommandRequests
  Outcomes <- MCOutcomes
  PollOutcomes <- MovePolls
  Fallback <- MCFallback
  Factory <- MCFactory
  Raised = {}
  Jobs = {"scan", "moveRet"}
  DriverFaults = {TRUE, FALSE}
  LineDepth = 1
  Patience = 4
INVARIANTS
  MoveReportedIsDone
