CONSTANTS
    Ops <- MCOps
    KindOf <- MCKindOf
    ActionOf <- MCActionOf
    MaxEpoch = 1
    JournalLimit = 4
    OutputSlots = 2
SPECIFICATION Spec
INVARIANT CompletionKept
CHECK_DEADLOCK FALSE
