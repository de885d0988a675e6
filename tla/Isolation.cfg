CONSTANTS
    t1 = t1
    w1 = w1
    k1 = k1
    b1 = b1
    a1 = a1
    Requests = {q1}
    Teams <- MCTeams
    Workloads <- MCWorkloads
    CodeRepos = {r1, r2}
    KnowledgeBases <- MCKnowledgeBases
    Items <- MCBuilds
    Builds <- MCBuilds
    BuildApps <- MCBuildApps
    Apps <- MCApps
    Urls = {u1}
    Present0 <- MCPresent0
    Initial = Initial
    Gone = Gone
    Keep = Keep
SPECIFICATION Spec

INVARIANT CompleteIsolation
CHECK_DEADLOCK FALSE
