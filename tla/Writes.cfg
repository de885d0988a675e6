CONSTANTS
    f1 = f1
    f2 = f2
    Sessions = {s1, s2}
    Externals = {e1}
    Files <- MCFiles
    Present0 <- MCPresent0
    WriteSets <- MCWriteSets
    Initial = Initial
    Absent = Absent
    Keep = Keep
    Nobody = Nobody
    Retries = 4
    MaxRootFailures = 1
    MaxFailures = 1
    MaxCrashes = 1
SPECIFICATION WriteSpec
SYMMETRY Symmetry
INVARIANTS
    TypeOK
    RootFollowsBranch
    FirstCommitterWins
    AtMostOnce
    AckedOrOvertaken
    NoDirtyReads
PROPERTIES
    OnlyRecoveryRewrites
    ImplementsSI
CHECK_DEADLOCK FALSE
