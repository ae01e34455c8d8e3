SPECIFICATION RuntimeSpec
CONSTANTS
    c1 = c1
    c2 = c2
    None = None
    Torn = Torn
    Caller = {c1, c2}
    Session = {"red", "blue", "bad"}
    Publishable = {"red", "blue"}
    Name = {"app", "api"}
    MaxDots = 1
    HostOf <- MCHostOf
    MaxToken = 1
    MaxAttempts = 2
    MaxStarts = 2
    Faults = {"write", "reload", "lost_reload", "cancel", "boot", "crash"}
INVARIANTS
    RuntimeTypeOK
    NoLostUpdate
    QuietMeansConsistent
PROPERTIES
    CommitFollowsReload
    ImplementsRouteTable
CHECK_DEADLOCK FALSE
