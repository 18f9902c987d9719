\* Two turns of one conversation: reuse, retirement, the emergency stop and one
\* failed transaction.
SPECIFICATION Spec
CONSTANTS
    s1 = s1
    s2 = s2
    Session <- OneSession
    SessionOf <- Pair
    MaxTurns = 2
    MaxActive = 1
    MaxRuntimes = 1
    NativeStatus = {"completed", "interrupted"}
    Emergencies = TRUE
    MaxCrashes = 0
    MaxLost = 1
    ReuseAborts = TRUE
INVARIANTS
    TypeOK
    SentOnce
    HonestOutcome
    UncertaintyShown
PROPERTIES
    SendFenced
    HealthySpared
    UncertainFinal
