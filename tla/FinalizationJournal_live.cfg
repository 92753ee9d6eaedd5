SPECIFICATION FairSpec
CONSTANTS
  t1 = t1
  t2 = t2
  c1 = c1
  c2 = c2
  c3 = c3
  Targets <- MCTargets
  Candidates <- MCCandidates
  OrderedChoices <- MCOrderedChoices
  MAX_TARGET_CHOICES = 3
  Contents = {x1, x2}
  NoDoc = NoDoc
  MaxRecords = 6
  MaxCrashes = 2
  MaxErrors = 1
PROPERTIES
  OpeningEnds
CHECK_DEADLOCK FALSE
