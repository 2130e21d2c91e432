SPECIFICATION Spec
CONSTANTS
  Queries = {"u", "v", "s", "t", "p"}
  Name <- MCName
  Text <- MCText
  MaxBind <- MCMaxBind
INVARIANTS Understood ServerGetsOptions NothingSkipped ErrorMeansProblem VerifiedPeer NameMeansOneText DescribedIsRun
PROPERTIES RunsAsAsked
CHECK_DEADLOCK FALSE
