CONSTANT MaxObjects = 3
SPECIFICATION MetasSpec
INVARIANT EntriesBelong
CHECK_DEADLOCK FALSE
