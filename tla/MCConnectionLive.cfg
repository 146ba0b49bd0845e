SPECIFICATION FairSpec
CONSTANT Callers = {"auth", "closer"}
CHECK_DEADLOCK FALSE
PROPERTIES
  StoppedIsClosed
  HandshakeIsBounded
