SPECIFICATION MCFairSpec
CONSTANTS
    Pushers = {p1, p2}
    Poppers = {c1, c2, c3}
    MaxSize = 2
    Quota = 2
INVARIANTS
    TypeOK
    WakeupsSuffice
PROPERTIES
    WorkersEnd
    ImplementsContract
