SPECIFICATION HeapSpec
CONSTANT Linked = 6
CHECK_DEADLOCK FALSE
INVARIANTS
    FreedBlocksAreListed
