SPECIFICATION FairSpec
CONSTANTS
  MaxCrashes <- MCMaxCrashes
  MaxFailures <- MCMaxFailures
  MaxLives <- MCMaxLives
INVARIANTS
  TypeOK
  FinalInventoryIsExact
  ProductsAreOfOnePass
  FailedManifestIsEvidence
  PlanPersistedIsResumable
  WarningsDeclared
PROPERTIES
  FinalRunUntouched
  ResumableRunSettles
CHECK_DEADLOCK FALSE
