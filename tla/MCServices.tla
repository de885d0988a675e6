------------------------------ MODULE MCServices ------------------------------
(***************************************************************************)
(* Users, the cloud shell, the catalogs and authorization share no state:  *)
(* TLC checks them side by side.  `part` says whose behaviour this is; the *)
(* others stay as they are at first, where none of them has anything to do *)
(* that fairness would ask for.                                            *)
(***************************************************************************)
EXTENDS Users, CloudTty, Catalog, Authz

CONSTANTS
    Parts,                  \* those to check
    admin, bob, ea, eb, t1, \* users, their addresses and a team
    s1, s2, b1,             \* shells of one user, and the binding of a team
    c1, c2                  \* the user's browser windows, for one team and for both

VARIABLE part

-----------------------------------------------------------------------------
MCMailOf == [u \in {admin, bob} |-> IF u = admin THEN ea ELSE eb]

\* The shells share the binding of one team, which the user's tokens name at times only.
MCBindingsOf == [s \in {s1, s2} |-> {<<>>, <<b1>>}]

MCShellsOf == [c \in {c1, c2} |-> IF c = c1 THEN {s1} ELSE {s1, s2}]

MCActors ==
    {[platform |-> TRUE, email |-> ea, teams |-> {}],
     [platform |-> FALSE, email |-> eb, teams |-> {t1}],
     [platform |-> FALSE, email |-> eb, teams |-> {}]}

\* src/src/openapi: service.yaml, team.yaml and cloudtty.yaml.
MCCrud(r) == Actions \X {r}

MCAcl ==
    [Service  |-> [platformAdmin |-> MCCrud("any"), teamAdmin |-> MCCrud("own"),
                   teamMember |-> MCCrud("own")],
     Team     |-> [platformAdmin |-> MCCrud("any"), teamAdmin |-> {"read", "update"} \X {"own"},
                   teamMember |-> {<<"read", "own">>}],
     Cloudtty |-> [platformAdmin |-> MCCrud("any"), teamAdmin |-> MCCrud("any"),
                   teamMember |-> MCCrud("own")]]

MCProps == [s \in Schemas |-> IF s = "Team" THEN {"selfService"} ELSE {}]

MCPropAcl ==
    [selfService |-> [platformAdmin |-> {"read", "update"} \X {"any"},
                      teamAdmin |-> {"read", "update"} \X {"own"},
                      teamMember |-> {<<"read", "own">>}]]

MCTeamOf ==
    [g \in Groups |-> CASE g = "platform-admin" -> NoTeam
                        [] g = "team-admin"     -> "admin"
                        [] OTHER                -> g]

MCSelfService ==
    [a \in Actions, s \in Schemas |->
        CASE a = "create" /\ s = "Service"  -> "createServices"
          [] a = "create" /\ s = "Cloudtty" -> "useCloudShell"
          [] OTHER                          -> "none"]

-----------------------------------------------------------------------------
servicesVars == <<part, usersVars, ttyVars, catalogVars, authzVars>>

\* What is arbitrary at first is so for the part that is checked only.
ServicesInit ==
    /\ part \in Parts
    /\ UsersInit /\ TtyInit /\ CatalogInit /\ AuthzInit
    /\ part = "users" \/ actor = [r \in UserRequests |-> CHOOSE a \in Actors : TRUE]
    /\ part = "authz" \/ teams = {}

ServicesNext ==
    /\ UNCHANGED part
    /\ \/ part = "users" /\ UsersNext /\ UNCHANGED <<ttyVars, catalogVars, authzVars>>
       \/ part = "tty" /\ TtyNext /\ UNCHANGED <<usersVars, catalogVars, authzVars>>
       \/ part = "catalog" /\ CatalogNext /\ UNCHANGED <<usersVars, ttyVars, authzVars>>
       \/ part = "authz" /\ AuthzNext /\ UNCHANGED <<usersVars, ttyVars, catalogVars>>

ServicesSpec ==
    ServicesInit /\ [][ServicesNext]_servicesVars /\ CatalogFairness
=============================================================================
