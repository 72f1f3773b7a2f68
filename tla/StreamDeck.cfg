SPECIFICATION FairSpec
CONSTANTS
    Key = {k1, k2}
    Settings = {s1}
    Invalid = Invalid
    Request = {r1, r2}
    MaxEvents = 2
INVARIANTS
    PressesHaveAnswers
PROPERTIES
    EventsHold
    PressesEnd
