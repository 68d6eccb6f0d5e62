SPECIFICATION FairSpec
CONSTANTS
    Main = main
    Io = io
    Dog = dog
    Worker = worker
    Replay = FALSE
CHECK_DEADLOCK FALSE
PROPERTY Reconnects
