SPECIFICATION Spec
CONSTANTS
  t1 = t1
  t2 = t2
  c1 = c1
  c2 = c2
  c3 = c3
  Targets <- MCTargets
  Candidates <- MCCandidates
  OrderedChoices <- MCOrderedChoices
  MAX_TARGET_CHOICES = 3
  Contents = {x1, x2}
  NoDoc = NoDoc
  MaxRecords = 12
  MaxCrashes = 3
  MaxErrors = 2
SYMMETRY Symmetry
INVARIANTS
  TypeOK
  QuiescentConsistent
  NoOrphanPublication
  NoImmutableCollision
  ResumeNeverRefused
  FailedManifestSettled
PROPERTIES
  JournalCompletedFirst
  ImplementsAtomicInventory
CHECK_DEADLOCK FALSE
