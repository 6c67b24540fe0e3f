CONSTANTS
    Chunks = {c1, c2, c3, c4, c5}
    NULL = null
    N = 2
    MaxLive = 5
SPECIFICATION Spec
SYMMETRY Addresses
INVARIANTS TypeOK OneQueue MemorySafe
CHECK_DEADLOCK FALSE
