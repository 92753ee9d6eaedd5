SPECIFICATION Spec
CONSTANTS
  s1 = s1
  s2 = s2
  c1 = c1
  c2 = c2
  c3 = c3
  stranger = stranger
  Seeds <- MCSeeds
  Candidates <- MCCandidates
  SeedOf <- MCSeedOf
  Batches <- MCBatches
  Garbage = Garbage
  Failure = Failure
  Unavailable = Unavailable
  Workers = 2
INVARIANTS
  TypeOK
  EveryCandidateDecided
  OutputIsEvidenced
  EveryCallEvidenced
