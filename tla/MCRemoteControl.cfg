SPECIFICATION Spec
CONSTANTS
    Ops = {"run", "write", "watch"}
    MaxOps = 3
    NoOp = "no"
    Epochs <- MCEpochs
    Sessions <- MCSessions
    Outputs <- AllOutputs
    Requests = {r1, r2}
    Reads = {"query"}
    KindOf <- MCKindOf
    ActionOf <- MCActionOf
    MaxEpoch = 1
    JournalLimit = 3
    OutputSlots = 2
    HoldOutput = TRUE
    HubRestarts = 0
INVARIANTS OneMutationPerSession
SYMMETRY MCSymmetry
CHECK_DEADLOCK FALSE
