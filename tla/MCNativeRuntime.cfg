CONSTANTS
    Ids = {s1, s2}
    Reads = {r1}
    NoId = NoId
    Capacity = 1
    Waits = {0, 1}
    Budgets <- MCBudgets
    MaxBudget = 2
    MaxWatches = 1
SPECIFICATION FairSpec
INVARIANTS SlotsReserved AnsweredOnce TimedOutIsDue
PROPERTIES  TimersEnd CloseEnds
CHECK_DEADLOCK FALSE
