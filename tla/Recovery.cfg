\* Liveness across two crashes and an emergency stop.
SPECIFICATION LiveSpec
CONSTANTS
    s1 = s1
    s2 = s2
    Session <- OneSession
    SessionOf <- Single
    MaxTurns = 1
    MaxActive = 1
    MaxRuntimes = 1
    NativeStatus = {"completed", "failed", "interrupted"}
    Emergencies = TRUE
    MaxCrashes = 2
    MaxLost = 0
    ReuseAborts = TRUE
PROPERTIES
    CapacityReturns
    EmergencySettles
