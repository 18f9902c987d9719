\* Two conversations compete for one place, with one crash of the supervisor and
\* one failed transaction, anywhere.
SPECIFICATION Spec
CONSTANTS
    s1 = s1
    s2 = s2
    Session <- MCSessions
    SessionOf <- PairCross
    MaxTurns = 2
    MaxActive = 1
    MaxRuntimes = 1
    NativeStatus = {"completed"}
    Emergencies = FALSE
    MaxCrashes = 1
    MaxLost = 1
    ReuseAborts = TRUE
INVARIANTS
    LiveReserved
    RuntimeCeiling
    ActiveCeiling
    RetainedNamesMember
    SentOnce
PROPERTIES
    UncertainFinal
