SPECIFICATION Spec
CONSTANTS
  Blocking = TRUE
  EagerClose = FALSE
  Kinds = {"connect", "prepare"}
  Features = {"parse_error"}
  MaxOps = 2
  Budget = 0
INVARIANT PrepareOkMeansParsed
