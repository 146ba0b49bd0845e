SPECIFICATION Spec
CONSTANT Callers = {"auth", "sender", "closer"}
CHECK_DEADLOCK FALSE
INVARIANT DeadlineSparesReady
