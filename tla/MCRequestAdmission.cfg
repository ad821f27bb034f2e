CONSTANTS
    Callers <- CallersValue
    Capacity = 2
    QueueLimit = 2
SPECIFICATION FairSpec
INVARIANTS
    PermitsAccounted
    NoWaiterLost
PROPERTIES
    NoStarvation
