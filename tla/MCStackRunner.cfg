SPECIFICATION Spec
CONSTANTS
    red = red
    blue = blue
    None = None
    Run = {red, blue}
    Composed = {red}
    NProc = 1
    Mishaps = {"compose", "exec", "reject", "withdraw", "slow", "kill"}
INVARIANTS
    RunnerTypeOK
    CleanExit
    LeftoversReported
    RouteHasStack
    ForegroundExclusive
PROPERTIES
    TeardownOrder
    ImplementsHostClaims
CHECK_DEADLOCK FALSE
