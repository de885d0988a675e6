CONSTANTS
    m1 = m1
    e1 = e1
    new1 = new1
    Old = Old
    Requests = {e1}
    Editors = {e1}
    Migrations <- MCMigrations
    Timer = Timer
    Remotes <- MCRemotes
    Target <- MCTarget
    Empty = Empty
    None = None
    MaxAttempts = 2
    MaxFailures = 2
    MaxRestarts = 1
SPECIFICATION MCSpec
INVARIANTS
    TypeOK
    AckedSomewhere
    LossBounded
    Inductive
PROPERTIES
    LockReleased
    FollowsSecret
CHECK_DEADLOCK FALSE
