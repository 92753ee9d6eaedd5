SPECIFICATION Spec
CONSTANTS
  MaxCrashes <- MCMaxCrashes
  MaxFailures <- MCMaxFailures
  MaxLives <- MCMaxLives
INVARIANTS
  FilterWarningKept
CHECK_DEADLOCK FALSE
