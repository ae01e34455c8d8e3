SPECIFICATION Spec
CONSTANTS
    h1 = h1
    h2 = h2
    None = None
    Torn = Torn
    Caller = {h1, h2}
    Session = {"red", "blue"}
    Publishable = {"red", "blue"}
    Name = {"app"}
    MaxDots = 1
    HostOf <- MCHostOf
    MaxToken = 2
    MaxAttempts = 1
    MaxStarts = 2
    Faults = {"write", "reload", "cancel", "boot", "crash"}
INVARIANTS
    TypeOK
    CommittedRouteOwned
    LiveRouteOwned
    PublishedIsServed
    ReleasingHasWorker
    OneOwnerPerName
PROPERTIES
    OnlyBearerChangesClaim
    AnswersAreTrue
    ImplementsHostClaims
CHECK_DEADLOCK FALSE
