\* Two controllers in turn, two frames each, every fault once.
SPECIFICATION LiveSpec
CONSTANTS
    MaxEpoch = 2
    MaxInput = 2
    Pending = 2
    Retained = 1
    MaxStops = 1
    MaxAlarms = 1
    MaxCrashes = 1
    MaxLost = 2
INVARIANTS
    TypeOK
    TypedInOrder
    HonestInput
PROPERTIES
    StopsAtDoubt
    InputSettles
CHECK_DEADLOCK FALSE
