CONSTANTS
    Pipes = {"p", "q", "r"}
    MaxRoom = 2
    MaxParts = 3
SPECIFICATION Spec
INVARIANTS TypeOK NotForgotten AtomicDelivery
CHECK_DEADLOCK FALSE
