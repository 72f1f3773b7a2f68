SPECIFICATION Spec
CONSTANTS
    t1 = t1
    t2 = t2
    c1 = c1
    c2 = c2
    c3 = c3
    Tile <- MCTile
    Host = {h1}
    a = a
    b = b
    Token <- MCToken
    Conns <- MCConns
    Value = {v}
    NoConn = NoConn
    NoValue = NoValue
    Invalid = Invalid
    MaxPresses = 1
SYMMETRY Symmetry
CONSTRAINT OnePressed
CHECK_DEADLOCK FALSE
INVARIANTS
    TypeOK
    SubscriptionsMatch
    ListensAsConfigured
    OneRunningPerHost
    FrozenOnlyIfReplaced
    ImageIsTrue
    RememberedIsShown
PROPERTIES
    OnlyLateAnswersMislead
