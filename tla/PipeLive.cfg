CONSTANTS
    Kinds <- SessionAndSocket
    Hwms <- SmallHwms
    Boosts <- NoBoost
    HwmChoices <- Smaller
    Delays = {TRUE, FALSE}
    Sockets = {"b"}
    MaxDelims = 1
    MaxCmds = 1
    Bounds <- Traffic
SPECIFICATION FairSpec
PROPERTIES TerminationCompletes WriterResumes
CHECK_DEADLOCK FALSE
