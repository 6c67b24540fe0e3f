CONSTANTS
    App = {"c", "b", "d"}
    Connecters = {"c"}
    Binders = {"b", "d"}
    Helper <- HelperOf
    None = None
    MaxSockets = 2
    MaxInterrupts = 1
SPECIFICATION FairSpec
INVARIANTS TypeOK ReaperEndsLast SlotsOwned InprocSafe
PROPERTY TermReturnsUnlessPending
CHECK_DEADLOCK FALSE
