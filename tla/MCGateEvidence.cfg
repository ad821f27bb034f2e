CONSTANTS
    Ops <- MCOps
    NoOp = NoOp
    Epochs <- MCEpochs
    Sessions <- MCSessions
    Outputs <- MCOutputs
    Snapshots <- MCSnapshots
    Records <- MCRecords
SPECIFICATION Spec
PROPERTIES RetirementIrreversible SigningIrreversible BindingStable OldEpochFenced
CHECK_DEADLOCK FALSE
