\* Two kinds of schedule over a short day, with two requests or mishaps.
SPECIFICATION LiveSpec
CONSTANTS
    Due = {1, 2, 4}
    Ends = {"uncertain"}
    Config <- MCConfig
    Grace = 1
    Limit = 1
    Window = 3
    Horizon = 4
    MaxRuns = 2
    MaxEvents = 2
INVARIANTS
    TypeOK
    OncePerMinute
    Accounted
    OneAtWork
PROPERTIES
    HaltedStays
    OccurrenceSettles
CHECK_DEADLOCK FALSE
