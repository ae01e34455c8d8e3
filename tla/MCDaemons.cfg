SPECIFICATION FairSpec
CONSTANTS
    a1 = a1
    a2 = a2
    b1 = b1
    a = a
    b = b
    None = None
    Foreign = Foreign
    Daemon = {a1, a2, b1}
    Home = {a, b}
    homeOf <- MCHomeOf
    Contested = {a}
    Docker = {a1, b1}
    Faults = {"write", "docker", "listen"}
INVARIANTS
    DaemonsTypeOK
    ReachableAtHome
    OneRouter
    FreshTable
    OrphansExplained
PROPERTIES
    StartAnswers
CHECK_DEADLOCK FALSE
