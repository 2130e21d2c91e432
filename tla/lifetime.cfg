SPECIFICATION Spec
CONSTANT MaxCalls = 7
INVARIANTS MachineOutlivesCallbacks ClosureOutlivesHandler
CHECK_DEADLOCK FALSE
