SPECIFICATION Spec
CONSTANTS
  a = a
  b = b
  v1 = v1
  v2 = v2
  None = None
  Records <- OneRecord
  Versions <- TwoVersions
  MaxOps = 4
SYMMETRY RecordSymmetry
CHECK_DEADLOCK FALSE

  
  
  
PROPERTIES
  DraftOutlivesCommit
