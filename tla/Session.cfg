SPECIFICATION FairSpec
CONSTANTS
    Capabilities = {"cpu", "memory", "disk"}
    Supported = {"cpu", "memory", "disk", "docker"}
    Requests <- MCRequests
    Capacity = 1
    MaxSent = 4
    None = None
CHECK_DEADLOCK FALSE
INVARIANTS
    TypeOK
    NothingLost
    PushedAsSubscribed
    AnsweredOnce
    NothingBeforeHello
PROPERTIES
    ReaderEnds
    SessionEnds
