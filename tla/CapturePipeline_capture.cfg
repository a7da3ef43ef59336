SPECIFICATION Spec
CONSTANTS
  k1 = k1
  k2 = k2
  f1 = f1
  f2 = f2
  m1 = m1
  o1 = o1
  w1 = w1
  w2 = w2
  None = None
  Chunks = {k1}
  Oversized = {k2}
  Files = {f1, f2}
  Manifests = {m1}
  Overrides = {}
  Workers = {w1, w2}
  Slow = {m1}
  SegKinds = {"mixed", "closed"}
  MaxAttempts = 2
  MaxFaults = 1
CHECK_DEADLOCK FALSE
INVARIANTS
  CaptureInv
  StoredIsWhole
  StaleOnlyIfRaced
PROPERTIES
  MergeKeepsFields
  CompletedRedactionStands
