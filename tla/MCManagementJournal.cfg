CONSTANTS
    Grants = {"a", "b"}
    NoGrant = "none"
    Helpers = {h1, h2}
    Limit = 1
SPECIFICATION Spec
INVARIANTS AttemptedOnce ReportTruthful ChildOnRecord
SYMMETRY MCSymmetry
