SPECIFICATION SagaFairSpec
CONSTANTS
  s1 = s1
  s2 = s2
  r1 = r1
  r2 = r2
  i1 = i1
  i2 = i2
  Nobody = Nobody
  NoKey = NoKey
  Holders <- OneSaga
  Keys <- OneRecord
  IdemKeys <- OneOperation
  NSteps = 4
  Compensatable <- DbThenFileThenDraft
  Critical <- DraftIsCritical
  SagaTimeout = 1
  LockTimeout = 2
  KeyTtl = 1
  Staleness = 2
  StuckTimeout = 3
  Scannable <- OneSaga
  Crashable <- OneSaga
  Extension = 1
  MaxAttempts = 1
  MaxLeft = 0
INVARIANTS
  SagaInv
  CompensationUndoesPrefix
PROPERTIES
  OrphanResolved
  CallReturns
  
