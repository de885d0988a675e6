--------------------------------- MODULE Users ---------------------------------
(***************************************************************************)
(* Platform users.  A user is a SealedSecret manifest on the branch, named *)
(* by its id, from which controllers in the cluster make a secret and a    *)
(* Keycloak account some time later.                                       *)
(*                                                                         *)
(*   src/src/otomi-stack.ts      createUser, editUser, deleteUser,         *)
(*                               editTeamUsers, saveUser                   *)
(*   src/src/utils/userUtils.ts  listUserSecretData, getKeycloakUsers      *)
(*   src/src/k8s-operations.ts   the secrets of namespace apl-users        *)
(*                                                                         *)
(* The handlers compare with, and edit, what the cluster's secrets say,    *)
(* which may be older or newer than the worktree the request writes to.    *)
(* Encryption is randomized: a manifest written again is another manifest, *)
(* so a user record tells who wrote it.  That authorize lets only platform *)
(* and team administrators change users is from the schema's x-acl.        *)
(***************************************************************************)
EXTENDS FiniteSets

CONSTANTS
    Residents,      \* ids of the users there are at first
    Admin,          \* the one with DEFAULT_PLATFORM_ADMIN_EMAIL
    Undeletable,    \* ids that ID_NAME_PATTERN does not match
    UserRequests,   \* write requests; a creation uses the request as its new id
    Actors,         \* who makes them
    Emails,
    MailOf,         \* e-mail addresses of the residents
    UserTeams,
    Nobody          \* no user, no secret

UserIds == Residents \cup UserRequests

ASSUME UsersAssumption ==
    /\ Admin \in Residents
    /\ Residents \cap UserRequests = {}
    /\ MailOf \in [Residents -> Emails]
    /\ Nobody \notin Emails
    /\ \A a \in Actors : /\ a.platform \in BOOLEAN
                         /\ a.email \in Emails
                         /\ a.teams \in SUBSET UserTeams

User == [email : Emails, teams : SUBSET UserTeams, teamAdmin : BOOLEAN, by : UserIds]

ASSUME NobodyAssumption == Nobody \notin User

\* One version of all users, in git or in the cluster.
Users == [UserIds -> User \cup {Nobody}]

VARIABLES
    manifests,  \* the manifests on the branch
    secrets,    \* the secrets in the cluster
    accounts,   \* e-mail addresses Keycloak knows
    step,       \* where a request is
    actor,      \* who makes it
    base,       \* the manifests its worktree was created from
    draft,      \* those in its worktree
    listed,     \* the users a creation found in the cluster
    known,      \* the e-mail addresses it compares with
    behind,     \* users whose secret was not what the worktree has when it was read
    mail,       \* the first e-mail address of each user
    moved       \* users whose e-mail address was ever edited

usersVars ==
    <<manifests, secrets, accounts, step, actor, base, draft, listed, known, behind, mail, moved>>

FirstUsers ==
    [u \in UserIds |-> IF u \in Residents
                       THEN [email |-> MailOf[u], teams |-> {}, teamAdmin |-> FALSE, by |-> u]
                       ELSE Nobody]

UsersInit ==
    /\ manifests = FirstUsers
    /\ secrets = FirstUsers
    /\ accounts = {MailOf[u] : u \in Residents}
    /\ step = [r \in UserRequests |-> "idle"]
    /\ actor \in [UserRequests -> Actors]
    /\ base = [r \in UserRequests |-> FirstUsers]
    /\ draft = [r \in UserRequests |-> FirstUsers]
    /\ listed = [r \in UserRequests |-> {}]
    /\ known = [r \in UserRequests |-> {}]
    /\ behind = [r \in UserRequests |-> {}]
    /\ mail = [u \in UserIds |-> IF u \in Residents THEN MailOf[u] ELSE Nobody]
    /\ moved = {}

StepTo(r, s) == step' = [step EXCEPT ![r] = s]

\* The session's worktree is the branch as it is now.
UserBegin(r) ==
    /\ step[r] = "idle"
    /\ base' = [base EXCEPT ![r] = manifests]
    /\ draft' = [draft EXCEPT ![r] = manifests]
    /\ StepTo(r, "handle")
    /\ UNCHANGED <<manifests, secrets, accounts, actor, listed, known, behind, mail, moved>>

-----------------------------------------------------------------------------
Existing(s) == {u \in UserIds : s[u] # Nobody}

\* What a creation compares with so far.
Learn(r, ids, addresses) ==
    /\ listed' = [listed EXCEPT ![r] = @ \cup ids]
    /\ known' = [known EXCEPT ![r] = @ \cup addresses]
    /\ UNCHANGED <<manifests, secrets, accounts, actor, base, draft, behind, mail, moved>>

\* listUserSecretData: a call that fails finds no users.
ListUsers(r) ==
    /\ step[r] = "handle" /\ actor[r].platform
    /\ StepTo(r, "listed")
    /\ \/ Learn(r, Existing(secrets), {secrets[u].email : u \in Existing(secrets)})
       \/ Learn(r, {}, {})

\* getKeycloakUsers: likewise.
AskKeycloak(r) ==
    /\ step[r] = "listed"
    /\ StepTo(r, "known")
    /\ \/ Learn(r, {}, accounts)
       \/ Learn(r, {}, {})

\* saveUser: the manifest of u is written to the worktree.
SaveUser(r, u, user) == draft' = [draft EXCEPT ![r][u] = user]

\* Fault: addresses are compared with those of Keycloak only.
CreateUserUnlisted(r, e, ts) ==
    /\ step[r] = "known"
    /\ e \notin known[r] \cap accounts
    /\ SaveUser(r, r, [email |-> e, teams |-> ts, teamAdmin |-> FALSE, by |-> r])
    /\ mail' = [mail EXCEPT ![r] = e]
    /\ StepTo(r, "save")
    /\ UNCHANGED <<manifests, secrets, accounts, actor, base, listed, known, behind, moved>>

\* createUser, with a new id.
CreateUser(r, e, ts) ==
    /\ step[r] = "known"
    /\ e \notin known[r]
    /\ SaveUser(r, r, [email |-> e, teams |-> ts, teamAdmin |-> FALSE, by |-> r])
    /\ mail' = [mail EXCEPT ![r] = e]
    /\ StepTo(r, "save")
    /\ UNCHANGED <<manifests, secrets, accounts, actor, base, listed, known, behind, moved>>

\* getUserSecretData: the secret of u, which has to exist.
ReadSecret(r, u) ==
    /\ secrets[u] # Nobody
    /\ behind' = [behind EXCEPT ![r] = IF secrets[u] = base[r][u] THEN @ ELSE @ \cup {u}]

\* editUser: everything but the id and the initial password may change.
EditUser(r, u, e, ts, adm) ==
    /\ step[r] = "handle" /\ actor[r].platform
    /\ ReadSecret(r, u)
    /\ SaveUser(r, u, [email |-> e, teams |-> ts, teamAdmin |-> adm, by |-> r])
    /\ moved' = IF e = secrets[u].email THEN moved ELSE moved \cup {u}
    /\ StepTo(r, "save")
    /\ UNCHANGED <<manifests, secrets, accounts, actor, base, listed, known, mail>>

\* Fault: the default administrator is not told apart.
DeleteUserAny(r, u) ==
    /\ step[r] = "handle" /\ actor[r].platform
    /\ ReadSecret(r, u)
    /\ u \notin Undeletable
    /\ SaveUser(r, u, Nobody)
    /\ StepTo(r, "save")
    /\ UNCHANGED <<manifests, secrets, accounts, actor, base, listed, known, mail, moved>>

\* deleteUser: the path of the user's legacy file exists for well-formed names only; for
\* another id getResourceFilePath throws.
DeleteUser(r, u) ==
    /\ step[r] = "handle" /\ actor[r].platform
    /\ ReadSecret(r, u)
    /\ secrets[u].email # MailOf[Admin]
    /\ u \notin Undeletable
    /\ SaveUser(r, u, Nobody)
    /\ StepTo(r, "save")
    /\ UNCHANGED <<manifests, secrets, accounts, actor, base, listed, known, mail, moved>>

\* Fault: teams a user is taken out of are not looked at.
CanTeamAdminAdd(a, user, ts) == (ts \ user.teams) \subseteq a.teams

\* canTeamAdminUpdateUserTeams: only own teams, and nobody removes himself or another
\* administrator from them.
CanTeamAdminUpdate(a, user, ts) ==
    /\ (ts \ user.teams) \cup (user.teams \ ts) \subseteq a.teams
    /\ user.email = a.email \/ user.teamAdmin => user.teams \ ts = {}

\* Fault: what the client sent is saved as it is, an id and teams.
EditTeamUserBare(r, u, ts) ==
    /\ step[r] \in {"handle", "teams"}
    /\ ReadSecret(r, u)
    /\ actor[r].platform \/ CanTeamAdminUpdate(actor[r], secrets[u], ts)
    /\ SaveUser(r, u, [teams |-> ts, by |-> r])
    /\ StepTo(r, "teams")
    /\ UNCHANGED <<manifests, secrets, accounts, actor, base, listed, known, mail, moved>>

\* editTeamUsers, one user of the request's list; the teams need not exist.
EditTeamUser(r, u, ts) ==
    /\ step[r] \in {"handle", "teams"}
    /\ ReadSecret(r, u)
    /\ actor[r].platform \/ CanTeamAdminUpdate(actor[r], secrets[u], ts)
    /\ SaveUser(r, u, [secrets[u] EXCEPT !.teams = ts, !.by = r])
    /\ StepTo(r, "teams")
    /\ UNCHANGED <<manifests, secrets, accounts, actor, base, listed, known, mail, moved>>

\* The request is refused, or nothing of it is pushed.
UserFail(r) ==
    /\ step[r] \notin {"idle", "done"}
    /\ StepTo(r, "done")
    /\ UNCHANGED <<manifests, secrets, accounts, actor, base, draft, listed, known, behind,
                   mail, moved>>

\* doDeployments and doDeleteDeployment: the changed manifests are rebased and pushed.
Changed(r) == {u \in UserIds : draft[r][u] # base[r][u]}

UserLandOver(r) ==
    /\ step[r] \in {"save", "teams"}
    /\ manifests' = [u \in UserIds |-> IF u \in Changed(r) THEN draft[r][u] ELSE manifests[u]]
    /\ StepTo(r, "done")
    /\ UNCHANGED <<secrets, accounts, actor, base, draft, listed, known, behind, mail, moved>>

\* Fault: manifests are written over whatever the branch has by now.
UserLandBlindly(r) == UserLandOver(r)

UserLand(r) ==
    /\ \A u \in Changed(r) : manifests[u] \in {base[r][u], draft[r][u]}
    /\ UserLandOver(r)

-----------------------------------------------------------------------------
\* Argo CD and the sealed-secrets controller bring a user to the cluster.
SyncSecret(u) ==
    /\ secrets' = [secrets EXCEPT ![u] = manifests[u]]
    /\ UNCHANGED <<manifests, accounts, step, actor, base, draft, listed, known, behind, mail,
                   moved>>

\* The Keycloak operator makes an account of it; one is never taken away.
Provision(u) ==
    /\ secrets[u] # Nobody
    /\ accounts' = accounts \cup {secrets[u].email}
    /\ UNCHANGED <<manifests, secrets, step, actor, base, draft, listed, known, behind, mail,
                   moved>>

UserStep(r) ==
    \/ UserBegin(r) \/ ListUsers(r) \/ AskKeycloak(r)
    \/ \E e \in Emails, ts \in SUBSET UserTeams : CreateUser(r, e, ts)
    \/ \E u \in UserIds, e \in Emails, ts \in SUBSET UserTeams, adm \in BOOLEAN :
         EditUser(r, u, e, ts, adm)
    \/ \E u \in UserIds : DeleteUser(r, u)
    \/ \E u \in UserIds, ts \in SUBSET UserTeams : EditTeamUser(r, u, ts)
    \/ UserFail(r) \/ UserLand(r)

UsersNext ==
    \/ \E r \in UserRequests : UserStep(r)
    \/ \E u \in UserIds : SyncSecret(u) \/ Provision(u)

UsersSpec == UsersInit /\ [][UsersNext]_usersVars

-----------------------------------------------------------------------------
UserSteps == {"idle", "handle", "listed", "known", "teams", "save", "done"}

\* Types of all variables.
UsersTypeOK ==
    /\ manifests \in Users /\ secrets \in Users
    /\ accounts \in SUBSET Emails
    /\ step \in [UserRequests -> UserSteps]
    /\ actor \in [UserRequests -> Actors]
    /\ base \in [UserRequests -> Users] /\ draft \in [UserRequests -> Users]
    /\ listed \in [UserRequests -> SUBSET UserIds]
    /\ known \in [UserRequests -> SUBSET Emails]
    /\ behind \in [UserRequests -> SUBSET UserIds]
    /\ mail \in [UserIds -> Emails \cup {Nobody}]
    /\ moved \in SUBSET UserIds

\* Two users with one e-mail address, never edited, can only be there if neither creation
\* saw the other user in the cluster: they overlapped, or the list could not be had.
UniqueEmails ==
    \A u \in UserIds, r \in UserRequests :
      /\ u # r /\ {u, r} \cap moved = {}
      /\ manifests[u] # Nobody /\ manifests[r] # Nobody
      /\ manifests[u].email = manifests[r].email
      => u \notin listed[r]

\* The default administrator is never deleted, whatever the cluster has been told by
\* then, unless its e-mail address was edited: deleteUser knows it by that only.
DefaultAdminStays == Admin \in moved \/ manifests[Admin] # Nobody

Lands(r) == step[r] \in {"save", "teams"} /\ manifests' # manifests /\ step'[r] = "done"

\* What a team administrator's request does to a user it read as it was in the worktree
\* is within the administrator's teams on the branch too, at the time it lands.
TeamAdminScope ==
    [][\A r \in UserRequests, u \in UserIds :
         /\ Lands(r) /\ ~actor[r].platform /\ u \notin behind[r]
         /\ manifests'[u] # manifests[u]
         => LET old == manifests[u]
                new == manifests'[u]
            IN  /\ old # Nobody /\ new # Nobody
                /\ new.email = old.email /\ new.teamAdmin = old.teamAdmin
                /\ \A t \in UserTeams \ actor[r].teams : t \in new.teams <=> t \in old.teams
                /\ old.email = actor[r].email \/ old.teamAdmin => old.teams \subseteq new.teams
      ]_usersVars

\* A deleted user comes back only by a request that read its secret when the cluster had
\* not heard of the deletion its own worktree had.
NoComeback ==
    [][\A u \in UserIds :
         manifests[u] = Nobody /\ manifests'[u] # Nobody =>
           \E r \in UserRequests : Lands(r) /\ (u = r \/ u \in behind[r])]_usersVars
=============================================================================
