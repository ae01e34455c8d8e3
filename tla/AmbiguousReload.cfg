SPECIFICATION Spec
CONSTANTS
    h1 = h1
    h2 = h2
    None = None
    Torn = Torn
    Caller = {h1, h2}
    Session = {"red", "blue"}
    Publishable = {"red", "blue"}
    Name = {"app"}
    MaxDots = 1
    HostOf <- MCHostOf
    MaxToken = 1
    MaxAttempts = 2
    MaxStarts = 1
    Faults = {"reload", "lost_reload"}
INVARIANTS
    LiveRouteOwned
CHECK_DEADLOCK FALSE
