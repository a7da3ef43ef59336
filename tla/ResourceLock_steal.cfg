SPECIFICATION LockSpec
CONSTANTS
  h1 = h1
  h2 = h2
  h3 = h3
  k1 = k1
  k2 = k2
  Nobody = Nobody
  Holders <- ThreeHolders
  Keys <- OneKey
  LockTimeout = 1
  Extension = 1
  MaxAttempts = 1
  MaxLeft = 0
PROPERTIES
  StealTakesOnlyExpired
