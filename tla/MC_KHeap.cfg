SPECIFICATION HeapSpec
CONSTANT Linked = 6
\* The machine stops at a page fault.
CHECK_DEADLOCK FALSE
INVARIANTS
    HeapTypeOK
    BackwardListIsFreeList
    TakeListIsSound
    SlabCountIsExact
PROPERTIES
    HeapIsAPool
