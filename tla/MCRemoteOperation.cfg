SPECIFICATION Spec
CONSTANTS
    Ops = {"run", "sudo", "halt"}
    MaxOps = 1
    NoOp = "no"
    Epochs <- MCEpochs
    Sessions <- MCSessions
    Outputs <- AllOutputs
    Requests = {r1, r2}
    Reads = {"query", "events", "release"}
    KindOf <- MCKindOf
    ActionOf <- MCActionOf
    MaxEpoch = 2
    JournalLimit = 3
    OutputSlots = 2
    HoldOutput = TRUE
    HubRestarts = 1
INVARIANTS AtMostOnce RetiredIsSettled KnownIsReal CurrentIsInFlight UnsignedHasNoEffect
PROPERTIES RetiredNeverStarts
SYMMETRY MCSymmetry
CHECK_DEADLOCK FALSE
