CONSTANTS
    Objects = {"socket", "listener", "accepted", "session", "connecter"}
    Root = "socket"
    Threads = {"app", "io1", "io2"}
    Owner <- Tree
    Thread <- Lives
    Attached = {"accepted"}
    Sessions = {"accepted", "session"}
    Connecters = {"connecter"}
    Trees <- EachInTurn
SPECIFICATION FairSpec
INVARIANTS TypeOK AssertsHold NoDangling
PROPERTY ShutdownCompletes
CHECK_DEADLOCK FALSE
