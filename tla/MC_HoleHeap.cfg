SPECIFICATION HoleHeapSpec
CONSTANTS
    Start = 100
    InitSize = 36
    Requests = {0, 5, 12}
    MaxSlots = 5
INVARIANTS
    
    HolesAreIndexed
    BlocksAreApart
PROPERTIES
    FreedJoinsTheHoleBefore
\* The program stops at a fault, and nothing is followed once it is astray.
CHECK_DEADLOCK FALSE
