SPECIFICATION LockFairSpec
CONSTANTS
  h1 = h1
  h2 = h2
  h3 = h3
  k1 = k1
  k2 = k2
  Nobody = Nobody
  Holders <- ThreeHolders
  Keys <- OneKey
  LockTimeout = 1
  Extension = 1
  MaxAttempts = 2
  MaxLeft = 2
INVARIANTS
  LockInv
PROPERTIES
  AcquireEnds
  KeysAreLeased
