SPECIFICATION FairSpec
CONSTANTS
    Ops = {1, 2}
    Views = {all, some}
    Everything = all
    MaxChanges = 1
    MaxCrashes = 1
    MaxLate = 1
    None = None
INVARIANTS OneRunnable RejectedNeverRuns
PROPERTIES ImplementsLifecycle RunsAsDispatched LockReleased
CHECK_DEADLOCK FALSE
