SPECIFICATION Spec
CONSTANT MaxMsgs = 5
INVARIANTS Faithful ValuesKept ReadToTheEnd RowsWhole ByName
CHECK_DEADLOCK FALSE
