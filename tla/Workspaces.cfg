\* Three workspaces of a project, and one or two of each kind of work in them.
SPECIFICATION Spec
CONSTANTS
    w1 = w1
    w2 = w2
    w3 = w3
    s1 = s1
    s2 = s2
    g1 = g1
    g2 = g2
    t1 = t1
    p1 = p1
    r1 = r1
    c1 = c1
    n1 = n1
    d1 = d1
    Workspace = {w1, w2, w3}
    Save = {s1, s2}
    Commit = {g1, g2}
    Terminal = {t1}
    Preview = {p1}
    Reader = {r1}
    Conversation = {c1}
    Creation = {n1}
    Removal = {d1}
    Home <- MCHome
    Nobody = Nobody
    TerminalLimit = 2
    PreviewLimit = 2
    MaxRequests = 2
    MaxCrashes = 1
    MaxLost = 1
    Emergencies = TRUE
INVARIANTS
    TypeOK
    GitAlone
    StorageAlone
    HonestFile
    DoubtReserved
    NoOrphan
PROPERTIES
    OneWriter
    NoSecondStart
CHECK_DEADLOCK FALSE
