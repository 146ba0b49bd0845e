SPECIFICATION FairSpec
CONSTANTS
  s1 = s1
  s2 = s2
  d1 = d1
  NoSession = NoSession
  Session <- MCSession
  Device <- MCDevice
  PeerOf <- MCPeerOf
  Preferred <- MCPreferred
  MaxRevision = 2
  MaxToken = 3
  MayThrow = FALSE
CHECK_DEADLOCK FALSE
PROPERTIES
  EraseOnlyStale
  RevokedSessionStops
  StoppedSessionIsCleaned
