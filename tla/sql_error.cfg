SPECIFICATION Spec
CONSTANT MaxMsgs = 2
INVARIANT ErrorVisible
CHECK_DEADLOCK FALSE
