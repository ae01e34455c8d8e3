SPECIFICATION FairSpec
CONSTANTS
    h1 = h1
    h2 = h2
    None = None
    Torn = Torn
    Caller = {h1, h2}
    Session = {"red", "blue"}
    Publishable = {"red"}
    Name = {"app"}
    MaxDots = 0
    HostOf <- MCHostOf
    MaxToken = 2
    MaxAttempts = 2
    MaxStarts = 1
    Faults = {"reload", "cancel", "crash"}
PROPERTIES
    RequestsAnswered
CHECK_DEADLOCK FALSE
