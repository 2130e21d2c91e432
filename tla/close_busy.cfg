SPECIFICATION FairSpec
CONSTANTS
  Blocking = FALSE
  EagerClose = TRUE
  Kinds = {"connect", "exec", "close"}
  Features = {}
  MaxOps = 3
  Budget = 0
PROPERTY Completes
CHECK_DEADLOCK FALSE
