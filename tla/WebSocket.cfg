SPECIFICATION FairSpec
CONSTANTS
    Bytes <- MCBytes
    IsUTF8 <- MCIsUTF8
    IsStatus <- MCIsStatus
    MaxPayload = 2
    Word = 256
    MaxHigh = 1
    Scripts <- MCScripts
    HighWater = 4
CHECK_DEADLOCK FALSE
INVARIANTS
    TypeOK
    MessagesIntact
PROPERTIES
    ContractHolds
    FairContractHolds
