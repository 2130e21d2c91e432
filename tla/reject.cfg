SPECIFICATION Spec
CONSTANTS
  Blocking = FALSE
  EagerClose = FALSE
  Kinds = {"connect"}
  Features = {"reject"}
  MaxOps = 1
  Budget = 0
INVARIANT ConnectOkMeansReady
