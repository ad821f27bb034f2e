CONSTANTS
    Ops <- MCOps
    KindOf <- MCKindOf
    ActionOf <- MCActionOf
    MaxEpoch = 2
    JournalLimit = 4
    OutputSlots = 2
SPECIFICATION FairSpec
INVARIANTS ExecutesOnce OutputsReserved EventsNamed ShutdownAlone
PROPERTY PendingResolves
CHECK_DEADLOCK FALSE
