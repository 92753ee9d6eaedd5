SPECIFICATION FairSpec
CONSTANTS
  t1 = t1
  t2 = t2
  t3 = t3
  c1 = c1
  c2 = c2
  c3 = c3
  c4 = c4
  c5 = c5
  Targets <- MCTargets
  TargetOrder <- MCTargetOrder
  Candidates <- MCCandidates
  OrderedChoices <- MCOrderedChoices
  MAX_TARGET_CHOICES = 3
  MaxCrashes = 4
INVARIANTS
  TypeOK
  OneAttemptOpen
  MachineMatchesTrace
  ValidatorsAccept
PROPERTIES
  ImplementsTargetSettlement
CHECK_DEADLOCK FALSE
