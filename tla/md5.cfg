SPECIFICATION Spec
CONSTANTS
  Blocking = FALSE
  EagerClose = FALSE
  Kinds = {"connect"}
  Features = {"md5"}
  MaxOps = 1
  Budget = 0
INVARIANT StreamContract
