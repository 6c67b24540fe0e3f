CONSTANTS
    Pipes = {"p", "q", "r"}
    MaxWhole = 1
    MaxParts = 2
SPECIFICATION FairSpec
INVARIANTS TypeOK NotForgotten AtomicDelivery
PROPERTY Served
CHECK_DEADLOCK FALSE
