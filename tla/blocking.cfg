SPECIFICATION FairSpec
CONSTANTS
  Blocking = TRUE
  EagerClose = FALSE
  Kinds = {"connect", "connectSSL", "exec", "execQuery", "prepare", "close"}
  Features = {"notice"}
  MaxOps = 3
  Budget = 2
INVARIANTS Synchronised OkMeansComplete
PROPERTIES Returns NoLateResult ImplementsSession
