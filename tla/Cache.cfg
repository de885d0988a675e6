CONSTANTS
    f1 = f1
    f2 = f2
    Sessions = {s1}
    Externals = {e1}
    Files <- MCFiles
    Present0 <- MCPresent0
    WriteSets <- MCWriteSets
    Initial = Initial
    Absent = Absent
    Keep = Keep
    Nobody = Nobody
    Retries = 4
    MaxRootFailures = 2
    MaxFailures = 1
    MaxCrashes = 1
SPECIFICATION FairSpec
INVARIANT AnswerInductive
PROPERTIES
    EveryRequestAnswered
    PollHeals
CHECK_DEADLOCK FALSE
