SPECIFICATION FairSpec
CONSTANTS
  Behavior = 3
  MAX_OWNER_RETRIES = 1
  MAX_COMPLETION_LENGTH_RETRIES = 1
  PrebehaviorReports <- MCPrebehaviorReports
  AdmissionReports <- MCAdmissionReports
  MaxCrashes = 2
INVARIANTS
  TypeOK
  MachineMatchesTrace
  CallLogMatchesTrace
  UnknownOutcomeIsTerminal
  AdmittedIsComplete
  SemanticBudgetKept
  CrashFreeRetryBudgets
PROPERTIES
  TraceContinues
  CallsAreCalledFor
  EventuallyDecided
CHECK_DEADLOCK FALSE
