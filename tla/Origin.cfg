CONSTANTS
    Parts = {"catalog"}
    admin = admin
    bob = bob
    ea = ea
    eb = eb
    t1 = t1
    Residents = {admin, bob}
    Admin = admin
    Undeletable = {r2}
    UserRequests = {r1, r2}
    Actors <- MCActors
    Emails = {ea, eb, ec}
    MailOf <- MCMailOf
    UserTeams = {t1}
    Nobody = Nobody
    s1 = s1
    s2 = s2
    b1 = b1
    Shells = {s1, s2}
    Bindings = {b1}
    BindingsOf <- MCBindingsOf
    c1 = c1
    c2 = c2
    Callers = {c1, c2}
    ShellsOf <- MCShellsOf
    MaxCalls = 3
    MaxFaults = 1
    NoShell = NoShell
    Catalogs = {n1}
    Urls = {u1, u2}
    Timer = Timer
    Visitors = {j1}
    MaxChanges = 1
    MaxMishaps = 0
    MaxVisits = 3
    NoUrl = NoUrl
    Teams = {"admin", "a"}
    TeamOf <- MCTeamOf
    Groups = {"platform-admin", "team-admin", "a"}
    MaxGroups = 2
    Schemas = {"Service", "Team", "Cloudtty"}
    Acl <- MCAcl
    Props <- MCProps
    PropAcl <- MCPropAcl
    Nested = {"selfService"}
    SelfService <- MCSelfService
    FlagSets = {{"createServices"}}
    NoFlags = NoFlags
    NoTeam = NoTeam
SPECIFICATION ServicesSpec
PROPERTY
    RefreshedIsRight
CHECK_DEADLOCK FALSE
