\* Liveness: one of each kind of work that is started, stopped and settled.
SPECIFICATION LiveSpec
CONSTANTS
    w1 = w1
    w2 = w2
    w3 = w3
    s1 = s1
    s2 = s2
    g1 = g1
    g2 = g2
    t1 = t1
    p1 = p1
    r1 = r1
    c1 = c1
    n1 = n1
    d1 = d1
    Workspace = {w1, w2, w3}
    Save = {s1}
    Commit = {}
    Terminal = {t1}
    Preview = {p1}
    Reader = {}
    Conversation = {}
    Creation = {}
    Removal = {d1}
    Home <- MCHome
    Nobody = Nobody
    TerminalLimit = 2
    PreviewLimit = 2
    MaxRequests = 2
    MaxCrashes = 1
    MaxLost = 1
    Emergencies = TRUE
PROPERTIES
    FileSettles
    StopHeard
    EmergencyHeard
    ProjectReopens
CHECK_DEADLOCK FALSE
