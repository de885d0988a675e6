CONSTANTS
    f1 = f1
    f2 = f2
    Sessions = {s1}
    Externals = {e1}
    Files <- MCFiles
    Present0 <- MCPresent0
    WriteSets = {}
    Initial = Initial
    Absent = Absent
    Keep = Keep
    Nobody = Nobody
    Retries = 4
    MaxRootFailures = 0
    MaxFailures = 0
    MaxCrashes = 0
SPECIFICATION FairSpec
PROPERTY Converges
CHECK_DEADLOCK FALSE
