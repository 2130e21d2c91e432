SPECIFICATION Spec
CONSTANTS
  Blocking = TRUE
  EagerClose = FALSE
  Kinds = {"connect", "connectSSL", "exec", "execQuery", "prepare", "close"}
  Features = {"other_auth", "reject", "parse_error", "null", "copy", "notice", "fatal", "crash", "refuse"}
  MaxOps = 3
  Budget = 1
INVARIANTS OneChain RowsDescribed RowHasHome NoOtherDeadlock
CHECK_DEADLOCK FALSE
