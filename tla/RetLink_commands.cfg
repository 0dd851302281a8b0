SPECIFICATION Spec
CONSTANTS
  None = None
  DeviceType = "single"
  AntennaCount = 1
  MinTilt = 2
  MaxTilt = 3
  Values = {0, 1}
  Alarms = {}
  QueueDepth = 1
  MaxSegment = 1
  ConfigSize = 1
  Modulus = 2
  Addresses = {1}
  Requests <- CommandRequests
  Outcomes <- MCOutcomes
  PollOutcomes <- CommandPolls
  Fallback <- MCFallback
  Factory <- MCFactory
  Raised = {}
INVARIANTS
  MotorSupervised
  LegalMove
  UnfinishedTransfer
PROPERTIES
  TccNeverReplaced
