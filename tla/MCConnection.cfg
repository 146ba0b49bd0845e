SPECIFICATION Spec
CONSTANT Callers = {"auth", "sender", "closer"}
CHECK_DEADLOCK FALSE
INVARIANTS
  ClosedIsUnused
  FramesAreWhole
  PrivilegedIsAuthorized
PROPERTIES
  ReadyExcludesStopping
