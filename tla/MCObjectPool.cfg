SPECIFICATION Spec
CONSTANTS
    PoolSize = 2
    MaxBlocks = 2
INVARIANTS FreeListIntact NoRoomWasted
PROPERTIES ImplementsAllocator
CHECK_DEADLOCK FALSE
