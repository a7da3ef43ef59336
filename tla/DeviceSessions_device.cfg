SPECIFICATION FairSpec
CONSTANTS
  s1 = s1
  s2 = s2
  c1 = c1
  None = None
  Sessions <- TwoSessions
  Conns <- OneConn
CHECK_DEADLOCK FALSE
INVARIANTS
  SessionInv
  RecordingIsAcked
  RecordingIsKnown
PROPERTIES
  StartReturns
  BlockedDeviceRecovers
