SPECIFICATION Spec
CONSTANTS
    Ops = {"run"}
    MaxOps = 1
    NoOp = "no"
    Epochs <- MCEpochs
    Sessions <- MCSessions
    Outputs <- AllOutputs
    Requests = {r1, r2}
    Reads = {"query", "events", "release"}
    KindOf <- MCKindOf
    ActionOf <- MCActionOf
    MaxEpoch = 2
    JournalLimit = 3
    OutputSlots = 2
    HoldOutput = TRUE
    HubRestarts = 0
INVARIANTS SubmittingIsInFlight
SYMMETRY MCSymmetry
CHECK_DEADLOCK FALSE
