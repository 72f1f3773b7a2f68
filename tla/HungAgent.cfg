SPECIFICATION FairSpec
CONSTANTS
    s1 = s1
    s2 = s2
    s3 = s3
    s4 = s4
    None = None
    Sockets <- MCSockets
    MaxCalls = 2
CHECK_DEADLOCK FALSE
PROPERTY LeavesConnecting
