SPECIFICATION Spec
CONSTANTS
    red = red
    blue = blue
    None = None
    Run = {red}
    Composed = {red}
    NProc = 1
    Mishaps = {"stale"}
INVARIANTS
    RoutedAfterReadiness
CHECK_DEADLOCK FALSE
