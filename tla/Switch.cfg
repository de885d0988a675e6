CONSTANTS
    m1 = m1
    e1 = e1
    new1 = new1
    Old = Old
    Requests = {}
    Editors = {}
    Migrations <- MCMigrations
    Timer = Timer
    Remotes <- MCRemotes
    Target <- MCOnlyMigration
    Empty = Empty
    None = None
    MaxAttempts = 2
    MaxFailures = 1
    MaxRestarts = 0
SPECIFICATION MCSpec
PROPERTY SwitchesRemote
CHECK_DEADLOCK FALSE
