SPECIFICATION FairSpec
CONSTANTS
  Blocking = FALSE
  EagerClose = FALSE
  Kinds = {"connect", "exec", "close"}
  Features = {"notice", "fatal", "crash"}
  MaxOps = 3
  Budget = 2
INVARIANTS TypeOK Synchronised OkMeansComplete ResultIsolation NoEscape ErrorIsFinal Framed HandlerOnce SafeToDrop
PROPERTIES Completes ImplementsSession
