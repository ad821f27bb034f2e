SPECIFICATION Spec
CONSTANTS
    None = None
    MaxSeq = 2
    MaxOut = 1
    MaxGen = 2
    MaxCalls = 2
INVARIANTS ReleasedWasShown NoLostWakeup NothingStranded
PROPERTIES EventsInOrder
CHECK_DEADLOCK FALSE
