\* Liveness, and the ledger of turns, without faults.
SPECIFICATION LiveSpec
CONSTANTS
    s1 = s1
    s2 = s2
    Session <- OneSession
    SessionOf <- Pair
    MaxTurns = 2
    MaxActive = 1
    MaxRuntimes = 1
    NativeStatus = {"completed"}
    Emergencies = FALSE
    MaxCrashes = 0
    MaxLost = 0
    ReuseAborts = TRUE
PROPERTIES
    LedgerKept
    NoTurnStranded
