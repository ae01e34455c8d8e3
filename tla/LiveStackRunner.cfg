SPECIFICATION FairSpec
CONSTANTS
    red = red
    blue = blue
    None = None
    Run = {red}
    Composed = {red}
    NProc = 2
    Mishaps = {"stale", "compose", "exec", "reject", "withdraw", "slow", "daemon", "kill"}
PROPERTIES
    StartupEnds
    SignalReturns
CHECK_DEADLOCK FALSE
