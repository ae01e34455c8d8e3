SPECIFICATION FairSpec
CONSTANTS
    N = 2
INVARIANTS
    GroupTypeOK
    NoLeaderSurvives
    CulpritGroupDies
PROPERTIES
    RunEnds
CHECK_DEADLOCK FALSE
