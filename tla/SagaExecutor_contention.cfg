SPECIFICATION SagaSpec
CONSTANTS
  s1 = s1
  s2 = s2
  r1 = r1
  r2 = r2
  i1 = i1
  i2 = i2
  Nobody = Nobody
  NoKey = NoKey
  Holders <- TwoSagas
  Keys <- OneRecord
  IdemKeys <- TwoOperations
  NSteps = 2
  Compensatable <- DbOnly
  Critical <- DbOnly
  SagaTimeout = 1
  LockTimeout = 2
  KeyTtl = 1
  Staleness = 2
  StuckTimeout = 3
  Scannable <- NoSagas
  Crashable <- TwoSagas
  Extension = 1
  MaxAttempts = 1
  MaxLeft = 0
SYMMETRY SagaSymmetry
INVARIANTS
  ExclusiveInTime
  CachedIsComplete
  NoPhantomExecuting

  
