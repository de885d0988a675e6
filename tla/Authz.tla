--------------------------------- MODULE Authz ---------------------------------
(***************************************************************************)
(* Who may do what: the groups of a token become roles and teams when a    *)
(* request comes in, and later, after the waits of the middleware, the     *)
(* access lists of the API's schemas become rules that decide about it.    *)
(*                                                                         *)
(*   src/src/middleware/jwt.ts                getUser                      *)
(*   src/src/middleware/security-handlers.ts  groupAuthzSecurityHandler    *)
(*   src/src/middleware/authz.ts              authorize                    *)
(*   src/src/authz.ts                         Authz, getTeamSelfServiceAuthz *)
(*                                                                         *)
(* Requests share nothing but the teams, so one at a time is enough.  The  *)
(* last rule that matches decides, as in CASL, the library used.  Bodies   *)
(* matter for the properties with an access list of their own only.        *)
(***************************************************************************)
EXTENDS Integers, SequencesExt

CONSTANTS
    Teams,
    TeamOf,         \* the team a group stands for by its name, or NoTeam
    Groups,
    MaxGroups,      \* bound on the groups of a token
    Schemas,
    Acl,            \* what a schema grants each role
    Props,          \* properties with an access list, by schema
    PropAcl,        \* what it grants
    Nested,         \* those that have properties themselves
    SelfService,    \* the self-service permission an action on a schema needs, if any
    FlagSets,       \* permissions a team may give its members
    NoFlags,
    NoTeam

Roles   == {"platformAdmin", "teamAdmin", "teamMember"}
Actions == {"create", "read", "update", "delete"}
Reach   == {"own", "any"}
Grants  == SUBSET (Actions \X Reach)
TeamRoles == Roles \ {"platformAdmin"}

ASSUME AuthzAssumption ==
    /\ TeamOf \in [Groups -> Teams \cup {NoTeam}] /\ NoTeam \notin Teams
    /\ MaxGroups \in Nat
    /\ Acl \in [Schemas -> [Roles -> Grants]]
    /\ \A s \in Schemas : \A p \in Props[s] : PropAcl[p] \in [Roles -> Grants]

\* The access lists of src/src/openapi.  Those of properties give both roles of a team the
\* same, but for one that has properties itself and gives them something for own teams only
\* (the self-service of a team); a platform administrator has what a team can be permitted.
ASSUME AccessListsAssumption ==
    /\ \A s \in Schemas : \A p \in Props[s] :
         \/ \A a, b \in TeamRoles : PropAcl[p][a] = PropAcl[p][b]
         \/ p \in Nested /\ \A a \in TeamRoles : PropAcl[p][a] \subseteq Actions \X {"own"}
    /\ \A a \in Actions, s \in Schemas :
         SelfService[a, s] # "none" => <<a, "any">> \in Acl[s]["platformAdmin"]

VARIABLES
    teams,      \* teams there are
    flags,      \* what a team permits its members, or NoFlags
    request     \* the request on its way

authzVars == <<teams, flags, request>>

NoRequest == [pc |-> "none"]

AuthzInit ==
    /\ teams \in SUBSET Teams
    /\ flags = [t \in Teams |-> NoFlags]
    /\ request = NoRequest

-----------------------------------------------------------------------------
\* getUser: roles in the order of the groups that give them first.
RoleOf(g) ==
    CASE g \in {"platform-admin", "all-teams-admin"} -> "platformAdmin"
      [] g = "team-admin"                            -> "teamAdmin"
      [] OTHER                                       -> "teamMember"

RolesOf(groups) ==
    [i \in {i \in DOMAIN groups : \A j \in 1..(i - 1) : RoleOf(groups[j]) # RoleOf(groups[i])} |->
       RoleOf(groups[i])]

TeamsOf(groups) == ({TeamOf[g] : g \in ToSet(groups)} \ {NoTeam}) \cap teams

\* A rule with a reach of "own" has one of the user's teams for its condition.
Matches(grants, action, team, own) ==
    \/ <<action, "any">> \in grants
    \/ <<action, "own">> \in grants /\ team \in own

\* The rules for a property: in the turn of a role what it is granted, then what it is
\* denied, and then, if the property has properties itself, for which createRules goes
\* through all roles once more, what each of them is granted.
Rule(i, step, role, prop) ==
    [turn |-> i, step |-> step, denies |-> FALSE, what |-> PropAcl[prop][role]]

Denial(i, role, prop) ==
    [turn |-> i, step |-> 2, denies |-> TRUE,
     what |-> {g \in {"read", "update"} \X {"own"} :
                 \A r \in Reach : <<g[1], r>> \notin PropAcl[prop][role]}]

\* Fault: a property's own properties are not looked at.
FlatRules(roles, prop) ==
    UNION {{Rule(i, 1, roles[i], prop), Denial(i, roles[i], prop)} : i \in DOMAIN roles}

PropertyRules(roles, prop) ==
    UNION {{Rule(i, 1, roles[i], prop), Denial(i, roles[i], prop)}
             \cup {Rule(i, 3, roles[j], prop) : j \in IF prop \in Nested THEN DOMAIN roles ELSE {}}
           : i \in DOMAIN roles}

ComesAfter(a, b) == a.turn > b.turn \/ (a.turn = b.turn /\ a.step > b.step)

\* validateWithCasl: a schema's own rules all allow.
ResourceAllowed(q) ==
    \E i \in DOMAIN q.roles : Matches(Acl[q.schema][q.roles[i]], q.action, q.team, q.teams)

\* validatePropertyWithCasl: without any rule of its own the resource's decide.
PropertyAllowed(q, prop) ==
    LET rules      == PropertyRules(q.roles, prop)
        Applies(r) == Matches(r.what, q.action, q.team, q.teams)
    IN  \/ \A r \in rules : \A g \in r.what : g[2] = "own" /\ q.teams = {}
        \/ \E r \in rules : /\ Applies(r) /\ ~r.denies
                            /\ \A d \in rules : d.denies /\ Applies(d) => ComesAfter(r, d)

IsPlatformAdmin(q) == "platformAdmin" \in ToSet(q.roles)

\* getTeamSelfServiceAuthz and hasSelfService.
Permits(q, permission) == flags[q.team] # NoFlags /\ permission \in flags[q.team]

\* authorize: members need permission for some actions, whatever the rules say.
Authorized(q) ==
    LET permission == SelfService[q.action, q.schema]
    IN  /\ IF ~IsPlatformAdmin(q) /\ q.team \in q.teams /\ permission # "none"
           THEN Permits(q, permission)
           ELSE ResourceAllowed(q)
        /\ \/ q.action \notin {"create", "update"}
           \/ IsPlatformAdmin(q)
           \/ \A prop \in q.props : PropertyAllowed(q, prop)

-----------------------------------------------------------------------------
\* The token is verified; its groups are looked up among the teams of this moment.
Identify(groups, action, schema, team, props) ==
    /\ request.pc = "none"
    /\ request' = [pc |-> "identified", roles |-> RolesOf(groups), teams |-> TeamsOf(groups),
                   action |-> action, schema |-> schema, team |-> team, props |-> props]
    /\ UNCHANGED <<teams, flags>>

\* Fault: a team that is gone has no flags, which is no error.
DecideAnyway ==
    /\ request.pc = "identified"
    /\ request' = [request EXCEPT !.pc = IF Authorized(request) THEN "allowed" ELSE "denied"]
    /\ UNCHANGED <<teams, flags>>

\* groupAuthzSecurityHandler: asks for the flags of every team of the user, which fails
\* for one that is gone, and decides.
Decide ==
    /\ request.pc = "identified"
    /\ request' = [request EXCEPT !.pc =
         CASE ~(request.teams \subseteq teams) -> "error"
           [] OTHER -> IF Authorized(request) THEN "allowed" ELSE "denied"]
    /\ UNCHANGED <<teams, flags>>

\* The handler has run.
Handled ==
    /\ request.pc \in {"allowed", "denied", "error"}
    /\ request' = NoRequest
    /\ UNCHANGED <<teams, flags>>

\* Meanwhile others create and delete teams, and change what a team permits.
ChangeTeam(t, f) ==
    /\ teams' = teams \cup {t}
    /\ flags' = [flags EXCEPT ![t] = f]
    /\ UNCHANGED request

DropTeam(t) ==
    /\ t \in teams
    /\ teams' = teams \ {t}
    /\ flags' = [flags EXCEPT ![t] = NoFlags]
    /\ UNCHANGED request

AuthzNext ==
    \/ \E groups \in BoundedSeq(Groups, MaxGroups), action \in Actions, schema \in Schemas,
          team \in Teams \cup {NoTeam} :
         \E props \in SUBSET Props[schema] : Identify(groups, action, schema, team, props)
    \/ Decide \/ Handled
    \/ \E t \in Teams : (\E f \in FlagSets \cup {NoFlags} : ChangeTeam(t, f)) \/ DropTeam(t)

AuthzSpec == AuthzInit /\ [][AuthzNext]_authzVars

-----------------------------------------------------------------------------
\* Whatever one of the roles in a token would allow alone, all of them allow, in whatever
\* order the token has its groups: no role's denials take away what another one grants.
RolesAddUp ==
    [][request.pc = "identified" /\ request'.pc = "denied" =>
         \A role \in ToSet(request.roles) :
           ~Authorized([request EXCEPT !.roles = <<role>>])]_authzVars

\* A request that no role may make for just any team is let through for a team of the user
\* that is still there, although the teams were looked up before the waits.
AllowedTeamExists ==
    [][/\ request.pc = "identified" /\ request'.pc = "allowed"
       /\ \A role \in ToSet(request.roles) :
            <<request.action, "any">> \notin Acl[request.schema][role]
       => request.team \in request.teams \cap teams]_authzVars
=============================================================================
