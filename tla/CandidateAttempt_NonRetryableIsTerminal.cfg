SPECIFICATION Spec
CONSTANTS
  Behavior = 3
  MAX_OWNER_RETRIES = 1
  MAX_COMPLETION_LENGTH_RETRIES = 1
  PrebehaviorReports <- MCPrebehaviorReports
  AdmissionReports <- MCAdmissionReports
  MaxCrashes = 1
INVARIANTS
  NonRetryableIsTerminal
CHECK_DEADLOCK FALSE
