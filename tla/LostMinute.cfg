\* A rule of consecutive minutes, seen as the grace of one of them runs out.
SPECIFICATION Spec
CONSTANTS
    Due = {1, 2, 4}
    Ends = {"uncertain"}
    Config <- MCConfig
    Grace = 1
    Limit = 1
    Window = 3
    Horizon = 4
    MaxRuns = 2
    MaxEvents = 2
INVARIANTS
    NoGapLost
CHECK_DEADLOCK FALSE
