CONSTANTS
    Kinds <- SessionAndSocket
    Hwms <- SmallHwms
    Boosts <- NoBoost
    HwmChoices <- Smaller
    Delays = {TRUE, FALSE}
    Sockets = {"b"}
    MaxDelims = 1
    MaxCmds = 2
    Bounds <- EachInTurn
SPECIFICATION Spec
INVARIANTS TypeOK Protocol PipesShared NoLostActivation FlowControl AtomicDelivery
CHECK_DEADLOCK FALSE
