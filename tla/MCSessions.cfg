SPECIFICATION Spec
CONSTANTS
  s1 = s1
  s2 = s2
  d1 = d1
  NoSession = NoSession
  Session <- MCSession
  Device <- MCDevice
  PeerOf <- MCPeerOf
  Preferred <- MCPreferred
  MaxRevision = 3
  MaxToken = 4
  MayThrow = TRUE
CHECK_DEADLOCK FALSE
INVARIANTS
  StaleIsNoticed
  ReadyIsWatched
  OneOwner
  ReadyIsOwner
  CleanedIsGone
  OnlyPreferredDisplaces
