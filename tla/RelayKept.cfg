SPECIFICATION ConnSpec
CONSTANTS
    Roles = {"relay"}
    WriteWait = 1
    PingPeriod = 2
    PongWait = 4
    SendCap = 1
    MaxParts = 2
    MaxFrames = 1
    MaxUp = 1
    MaxStalls = 1
INVARIANT AnsweringClientKept
CHECK_DEADLOCK FALSE
