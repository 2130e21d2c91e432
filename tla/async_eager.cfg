SPECIFICATION Spec
CONSTANTS
  Blocking = FALSE
  EagerClose = TRUE
  Kinds = {"connect", "connectSSL", "exec", "close"}
  Features = {"md5", "other_auth", "reject", "null", "copy", "notice", "fatal", "crash", "refuse"}
  MaxOps = 3
  Budget = 1
INVARIANTS RowsDescribed RowHasHome CloseOkMeansClosed
PROPERTIES EndIsFinal NoLateResult
CHECK_DEADLOCK FALSE
