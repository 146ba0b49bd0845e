CHECK_DEADLOCK FALSE
SPECIFICATION Spec
CONSTANTS
  Prologue = {p}
  MaxSessions = 2
  MaxNonce = 2
  MaxRekeys = 1
INVARIANTS DeliveredInOrder NonceUsedOnce NextIsExpected
PROPERTIES RejectionIsFinal HashIsFinal
