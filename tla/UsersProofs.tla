----------------------------- MODULE UsersProofs -----------------------------
(***************************************************************************)
(* Users and what they may do.                                             *)
(*                                                                         *)
(* Users: for every set of users, requests, actors, addresses and teams.   *)
(* The invariant follows a user through all copies of the manifests: the   *)
(* branch, the cluster, and the worktrees of all requests.                 *)
(*                                                                         *)
(* Authz: for every access list and every choice of groups and teams.      *)
(***************************************************************************)
EXTENDS Users, Authz, TLAPS

\* A version of the users that could have come about: whoever is in it was created,
\* has the first address, as m says, unless that was edited, as for those in d, and the
\* default administrator is in it.
Genuine(s, m, d) ==
    /\ \A u \in UserIds : s[u] # Nobody => m[u] # Nobody /\ (u \in d \/ s[u].email = m[u])
    /\ Admin \in d \/ s[Admin] # Nobody

\* What a creation remembers of the users it found, and that its own address is none
\* of theirs.
Remembers(r) ==
    /\ step[r] \in {"idle", "handle", "listed", "known"} => mail[r] = Nobody
    /\ step[r] \in {"listed", "known"} => actor[r].platform
    /\ \A u \in listed[r] : mail[u] # Nobody
    /\ \A u \in listed[r] \ moved : mail[u] \in known[r] /\ mail[u] # mail[r]

\* What a team administrator may make of a user.
InScope(a, old, new) ==
    /\ old # Nobody /\ new # Nobody
    /\ new.email = old.email /\ new.teamAdmin = old.teamAdmin
    /\ \A t \in UserTeams \ a.teams : t \in new.teams <=> t \in old.teams
    /\ old.email = a.email \/ old.teamAdmin => old.teams \subseteq new.teams

\* What a worktree has of the users whose secrets were what it began with.
Drafted(r) ==
    \A u \in UserIds \ behind[r] :
        /\ u # r /\ draft[r][u] # Nobody => base[r][u] # Nobody
        /\ \/ actor[r].platform \/ draft[r][u] = base[r][u]
           \/ InScope(actor[r], base[r][u], draft[r][u])

UsersInductive ==
    /\ UsersTypeOK
    /\ Genuine(manifests, mail, moved) /\ Genuine(secrets, mail, moved)
    /\ \A r \in UserRequests : Genuine(base[r], mail, moved) /\ Genuine(draft[r], mail, moved)
    /\ \A u \in Residents : mail[u] = MailOf[u]
    /\ \A r \in UserRequests : Remembers(r) /\ Drafted(r)

-----------------------------------------------------------------------------
LEMMA Ids ==
    /\ Admin \in UserIds /\ Admin \notin UserRequests
    /\ \A r \in UserRequests : r \in UserIds
  BY UsersAssumption DEF UserIds

\* A version stays genuine when more addresses are edited and users created ...
LEMMA GenuineKept ==
    ASSUME NEW s, NEW m, NEW d, Genuine(s, m, d), NEW m2, NEW d2, d \subseteq d2,
           \A u \in UserIds : m[u] # Nobody => m2[u] = m[u]
    PROVE  Genuine(s, m2, d2)
  BY DEF Genuine

\* ... and when one user is replaced.
LEMMA GenuinePut ==
    ASSUME NEW s \in Users, NEW m, NEW d, Genuine(s, m, d), NEW u \in UserIds, NEW x,
           x # Nobody => m[u] # Nobody /\ (u \in d \/ x.email = m[u]),
           u = Admin => Admin \in d \/ x # Nobody
    PROVE  Genuine([s EXCEPT ![u] = x], m, d)
  BY Ids DEF Genuine, Users

LEMMA UserType ==
    ASSUME UsersTypeOK
    PROVE  /\ \A u \in UserIds : manifests[u] \in User \cup {Nobody}
                                 /\ secrets[u] \in User \cup {Nobody}
           /\ \A r \in UserRequests, u \in UserIds : base[r][u] \in User \cup {Nobody}
                                                     /\ draft[r][u] \in User \cup {Nobody}
  BY DEF UsersTypeOK, Users

\* A handler writes x for u into the worktree of r.
LEMMA DraftStep ==
    ASSUME UsersInductive, NEW r \in UserRequests, NEW u \in UserIds,
           NEW x \in User \cup {Nobody}, NEW st \in {"save", "teams"},
           UNCHANGED <<manifests, secrets, accounts, actor, base, listed, known>>,
           SaveUser(r, u, x), StepTo(r, st),
           mail' \in [UserIds -> Emails \cup {Nobody}],
           \A v \in UserIds : mail[v] # Nobody => mail'[v] = mail[v],
           \A q \in UserRequests \ {r} : mail'[q] = mail[q],
           moved \subseteq moved', moved' \subseteq UserIds,
           behind' \in [UserRequests -> SUBSET UserIds],
           \A q \in UserRequests : behind[q] \subseteq behind'[q],
           x # Nobody => mail'[u] # Nobody /\ (u \in moved' \/ x.email = mail'[u]),
           u = Admin => Admin \in moved' \/ x # Nobody,
           \A v \in listed[r] \ moved : mail[v] # mail'[r],
           u \notin behind'[r] => /\ u # r /\ x # Nobody => base[r][u] # Nobody
                                  /\ actor[r].platform \/ InScope(actor[r], base[r][u], x)
    PROVE  UsersInductive'
<1> USE DEF UsersInductive
<1>1. UsersTypeOK'
  <2>1. draft' \in [UserRequests -> Users]
    BY DEF SaveUser, UsersTypeOK, Users
  <2>2. step' \in [UserRequests -> UserSteps]
    BY DEF StepTo, UsersTypeOK, UserSteps
  <2> QED
    BY <2>1, <2>2 DEF UsersTypeOK
<1>2. /\ \A q \in UserRequests \ {r} : draft'[q] = draft[q]
      /\ draft'[r] = [draft[r] EXCEPT ![u] = x]
      /\ \A q \in UserRequests : draft[q] \in Users
  BY DEF SaveUser, UsersTypeOK
<1>3. ASSUME NEW s, Genuine(s, mail, moved) PROVE Genuine(s, mail', moved')
  BY <1>3, GenuineKept
<1>4. /\ Genuine(manifests', mail', moved') /\ Genuine(secrets', mail', moved')
      /\ \A q \in UserRequests : Genuine(base'[q], mail', moved')
  BY <1>3
<1>5. ASSUME NEW q \in UserRequests PROVE Genuine(draft'[q], mail', moved')
  <2>1. Genuine(draft[q], mail', moved')
    BY <1>3
  <2>2. CASE q = r
    <3>1. draft[q] \in Users /\ draft'[q] = [draft[q] EXCEPT ![u] = x]
      BY <1>2, <2>2
    <3>2. Genuine([draft[q] EXCEPT ![u] = x], mail', moved')
      <4> DEFINE s == draft[q]
      <4>1. s \in Users /\ Genuine(s, mail', moved')
        BY <2>1, <3>1
      <4> HIDE DEF s
      <4>2. Genuine([s EXCEPT ![u] = x], mail', moved')
        BY <4>1, GenuinePut
      <4> QED
        BY <4>2 DEF s
    <3> QED
      BY <3>1, <3>2
  <2>3. CASE q # r
    BY <1>2, <2>1, <2>3
  <2> QED
    BY <2>2, <2>3
<1>6. \A v \in Residents : mail'[v] = MailOf[v]
  BY UsersAssumption DEF UserIds
<1>7. ASSUME NEW q \in UserRequests PROVE Remembers(q)'
  <2>1. listed[q] \subseteq UserIds /\ \A v \in listed[q] : mail'[v] = mail[v]
    BY DEF Remembers, UsersTypeOK
  <2>2. CASE q = r
    BY <2>1, <2>2 DEF Remembers, StepTo, UsersTypeOK
  <2>3. CASE q # r
    BY <2>1, <2>3 DEF Remembers, StepTo, UsersTypeOK
  <2> QED
    BY <2>2, <2>3
<1>8. ASSUME NEW q \in UserRequests PROVE Drafted(q)'
  <2> SUFFICES ASSUME NEW v \in UserIds \ behind'[q]
               PROVE  /\ v # q /\ draft'[q][v] # Nobody => base[q][v] # Nobody
                      /\ \/ actor[q].platform \/ draft'[q][v] = base[q][v]
                         \/ InScope(actor[q], base[q][v], draft'[q][v])
    BY DEF Drafted
  <2>1. CASE q = r /\ v = u
    BY <1>2, <2>1 DEF Users
  <2>2. CASE q # r \/ v # u
    <3>1. draft'[q][v] = draft[q][v]
      BY <1>2, <2>2 DEF Users
    <3> QED
      BY <3>1 DEF Drafted
  <2> QED
    BY <2>1, <2>2
<1> QED
  BY <1>1, <1>4, <1>5, <1>6, <1>7, <1>8

LEMMA CreateInductive ==
    ASSUME UsersInductive, NEW r \in UserRequests, NEW e \in Emails, NEW ts \in SUBSET UserTeams,
           CreateUser(r, e, ts)
    PROVE  UsersInductive'
<1> DEFINE x == [email |-> e, teams |-> ts, teamAdmin |-> FALSE, by |-> r]
<1>1. step[r] = "known" /\ e \notin known[r] /\ mail' = [mail EXCEPT ![r] = e]
  BY DEF CreateUser
<1>2. r \in UserIds /\ r # Admin /\ Nobody \notin Emails
  BY Ids, UsersAssumption
<1>3. x \in User /\ x.email = e
  BY <1>2 DEF User
<1>4. mail[r] = Nobody /\ actor[r].platform
  BY <1>1 DEF UsersInductive, Remembers
<1>5. \A v \in listed[r] \ moved : mail[v] # e
  BY <1>1 DEF UsersInductive, Remembers
<1>6. /\ mail \in [UserIds -> Emails \cup {Nobody}]
      /\ moved \subseteq UserIds /\ behind \in [UserRequests -> SUBSET UserIds]
  BY DEF UsersInductive, UsersTypeOK
<1>7. SaveUser(r, r, x) /\ StepTo(r, "save")
      /\ UNCHANGED <<manifests, secrets, accounts, actor, base, listed, known, behind, moved>>
  BY DEF CreateUser
<1> HIDE DEF x
<1> QED
  BY <1>1, <1>2, <1>3, <1>4, <1>5, <1>6, <1>7, DraftStep

\* A handler that read the secret of u knows what its worktree has of u, unless behind.
LEMMA ReadLemma ==
    ASSUME UsersInductive, NEW r \in UserRequests, NEW u \in UserIds, ReadSecret(r, u)
    PROVE  /\ secrets[u] # Nobody /\ secrets[u] \in User
           /\ mail[u] # Nobody /\ (u \in moved \/ secrets[u].email = mail[u])
           /\ behind' \in [UserRequests -> SUBSET UserIds]
           /\ \A q \in UserRequests : behind[q] \subseteq behind'[q]
           /\ u \notin behind'[r] => secrets[u] = base[r][u]
           /\ mail \in [UserIds -> Emails \cup {Nobody}] /\ moved \subseteq UserIds
           /\ r \in UserIds
<1>1. behind \in [UserRequests -> SUBSET UserIds]
  BY DEF UsersInductive, UsersTypeOK
<1>2. behind' \in [UserRequests -> SUBSET UserIds]
  BY <1>1 DEF ReadSecret
<1>3. /\ \A q \in UserRequests : behind[q] \subseteq behind'[q]
      /\ u \notin behind'[r] => secrets[u] = base[r][u]
  BY <1>1 DEF ReadSecret
<1>4. secrets[u] # Nobody /\ secrets[u] \in User
  BY UserType DEF ReadSecret, UsersInductive
<1>5. mail[u] # Nobody /\ (u \in moved \/ secrets[u].email = mail[u])
  BY <1>4 DEF UsersInductive, Genuine
<1> QED
  BY <1>2, <1>3, <1>4, <1>5, Ids DEF UsersInductive, UsersTypeOK

\* What a handler that creates nobody has of the users it listed.
LEMMA OwnAddress ==
    ASSUME UsersInductive, NEW r \in UserRequests
    PROVE  \A v \in listed[r] \ moved : mail[v] # mail[r]
  BY DEF UsersInductive, Remembers

LEMMA EditInductive ==
    ASSUME UsersInductive, NEW r \in UserRequests, NEW u \in UserIds, NEW e \in Emails,
           NEW ts \in SUBSET UserTeams, NEW adm \in BOOLEAN, EditUser(r, u, e, ts, adm)
    PROVE  UsersInductive'
<1> DEFINE x == [email |-> e, teams |-> ts, teamAdmin |-> adm, by |-> r]
<1>1. ReadSecret(r, u) /\ actor[r].platform
      /\ moved' = (IF e = secrets[u].email THEN moved ELSE moved \cup {u})
      /\ SaveUser(r, u, x) /\ StepTo(r, "save")
      /\ UNCHANGED <<manifests, secrets, accounts, actor, base, listed, known, mail>>
  BY DEF EditUser
<1>2. x \in User /\ x.email = e /\ x # Nobody
  BY Ids, NobodyAssumption DEF User
<1>3. u \in moved' \/ e = mail[u]
  BY <1>1, ReadLemma
<1> HIDE DEF x
<1> QED
  BY <1>1, <1>2, <1>3, ReadLemma, OwnAddress, DraftStep

LEMMA DeleteInductive ==
    ASSUME UsersInductive, NEW r \in UserRequests, NEW u \in UserIds, DeleteUser(r, u)
    PROVE  UsersInductive'
<1>1. ReadSecret(r, u) /\ actor[r].platform /\ secrets[u].email # MailOf[Admin]
      /\ SaveUser(r, u, Nobody) /\ StepTo(r, "save")
      /\ UNCHANGED <<manifests, secrets, accounts, actor, base, listed, known, mail, moved>>
  BY DEF DeleteUser
<1>2. mail[Admin] = MailOf[Admin]
  BY UsersAssumption DEF UsersInductive
<1>3. u = Admin => Admin \in moved
  BY <1>1, <1>2, ReadLemma
<1> QED
  BY <1>1, <1>3, ReadLemma, OwnAddress, DraftStep

LEMMA TeamInductive ==
    ASSUME UsersInductive, NEW r \in UserRequests, NEW u \in UserIds,
           NEW ts \in SUBSET UserTeams, EditTeamUser(r, u, ts)
    PROVE  UsersInductive'
<1> DEFINE x == [secrets[u] EXCEPT !.teams = ts, !.by = r]
<1>1. ReadSecret(r, u)
      /\ (actor[r].platform \/ CanTeamAdminUpdate(actor[r], secrets[u], ts))
      /\ SaveUser(r, u, x) /\ StepTo(r, "teams")
      /\ UNCHANGED <<manifests, secrets, accounts, actor, base, listed, known, mail, moved>>
  BY DEF EditTeamUser
<1>2. /\ x \in User /\ x # Nobody /\ x.email = secrets[u].email
      /\ x.teamAdmin = secrets[u].teamAdmin /\ x.teams = ts
  <2>1. /\ secrets[u] \in [email : Emails, teams : SUBSET UserTeams, teamAdmin : BOOLEAN,
                           by : UserIds]
        /\ r \in UserIds
    BY <1>1, ReadLemma DEF User
  <2>2. x \in User
    BY <2>1 DEF User
  <2>3. x.email = secrets[u].email /\ x.teamAdmin = secrets[u].teamAdmin /\ x.teams = ts
    BY <2>1
  <2> QED
    BY <2>2, <2>3, NobodyAssumption
<1>3. CanTeamAdminUpdate(actor[r], secrets[u], ts) => InScope(actor[r], secrets[u], x)
  <2>1. secrets[u].teams \subseteq UserTeams
    BY <1>1, ReadLemma DEF User
  <2> HIDE DEF x
  <2> QED
    BY <1>1, <1>2, <2>1, ReadLemma DEF CanTeamAdminUpdate, InScope
<1> HIDE DEF x
<1> QED
  BY <1>1, <1>2, <1>3, ReadLemma, OwnAddress, DraftStep

-----------------------------------------------------------------------------
LEMMA BeginInductive ==
    ASSUME UsersInductive, NEW r \in UserRequests, UserBegin(r)
    PROVE  UsersInductive'
<1> USE DEF UsersInductive, UserBegin
<1>1. UsersTypeOK'
  BY DEF UsersTypeOK, StepTo, UserSteps
<1>2. \A q \in UserRequests : Genuine(base'[q], mail', moved') /\ Genuine(draft'[q], mail', moved')
  BY DEF UsersTypeOK
<1>3. \A q \in UserRequests : Remembers(q)'
  BY DEF Remembers, StepTo, UsersTypeOK
<1>4. \A q \in UserRequests : Drafted(q)'
  BY DEF Drafted, UsersTypeOK
<1> QED
  BY <1>1, <1>2, <1>3, <1>4

LEMMA ListInductive ==
    ASSUME UsersInductive, NEW r \in UserRequests, ListUsers(r) \/ AskKeycloak(r)
    PROVE  UsersInductive'
<1> USE DEF UsersInductive
<1>1. PICK ids \in SUBSET UserIds, addresses \in SUBSET Emails :
        /\ Learn(r, ids, addresses)
        /\ \A u \in ids : secrets[u] # Nobody /\ secrets[u].email \in addresses
  <2>1. /\ Existing(secrets) \subseteq UserIds
        /\ \A u \in Existing(secrets) : secrets[u] # Nobody /\ secrets[u].email \in Emails
    BY UserType DEF Existing, User
  <2>2. {secrets[u].email : u \in Existing(secrets)} \subseteq Emails
    BY <2>1
  <2>3. accounts \subseteq Emails
    BY DEF UsersTypeOK
  <2>4. Learn(r, Existing(secrets), {secrets[u].email : u \in Existing(secrets)})
        \/ Learn(r, {}, {}) \/ Learn(r, {}, accounts)
    BY DEF ListUsers, AskKeycloak
  <2> QED
    BY <2>1, <2>2, <2>3, <2>4
<1>2. /\ step[r] \in {"handle", "listed"} /\ actor[r].platform
      /\ step' = [step EXCEPT ![r] = IF step[r] = "handle" THEN "listed" ELSE "known"]
  BY DEF ListUsers, AskKeycloak, StepTo, Remembers
<1>3. /\ listed' = [listed EXCEPT ![r] = @ \cup ids]
      /\ known' = [known EXCEPT ![r] = @ \cup addresses]
      /\ UNCHANGED <<manifests, secrets, accounts, actor, base, draft, behind, mail, moved>>
  BY <1>1 DEF Learn
<1>4. UsersTypeOK'
  BY <1>2, <1>3 DEF UsersTypeOK, UserSteps
<1>5. mail[r] = Nobody
  BY <1>2 DEF Remembers
<1>6. \A u \in ids : mail[u] # Nobody /\ (u \in moved \/ mail[u] \in addresses)
  BY <1>1 DEF Genuine
<1>7. ASSUME NEW q \in UserRequests PROVE Remembers(q)'
  <2>1. CASE q = r
    BY <1>2, <1>3, <1>5, <1>6, <2>1 DEF Remembers, UsersTypeOK
  <2>2. CASE q # r
    BY <1>2, <1>3, <2>2 DEF Remembers, UsersTypeOK
  <2> QED
    BY <2>1, <2>2
<1>8. \A q \in UserRequests : Drafted(q)'
  BY <1>3 DEF Drafted
<1> QED
  BY <1>3, <1>4, <1>7, <1>8

LEMMA FailInductive ==
    ASSUME UsersInductive, NEW r \in UserRequests, UserFail(r)
    PROVE  UsersInductive'
<1> USE DEF UsersInductive, UserFail
<1>1. UsersTypeOK'
  BY DEF UsersTypeOK, StepTo, UserSteps
<1>2. \A q \in UserRequests : Remembers(q)' /\ Drafted(q)'
  BY DEF Remembers, Drafted, StepTo, UsersTypeOK
<1> QED
  BY <1>1, <1>2

\* What a landing makes of each user.
LEMMA Landing ==
    ASSUME UsersInductive, NEW r \in UserRequests, UserLand(r), NEW u \in UserIds
    PROVE  \/ manifests'[u] = manifests[u]
           \/ manifests'[u] = draft[r][u] /\ manifests[u] = base[r][u]
  BY DEF UserLand, UserLandOver, Changed

LEMMA LandInductive ==
    ASSUME UsersInductive, NEW r \in UserRequests, UserLand(r)
    PROVE  UsersInductive'
<1> USE DEF UsersInductive
<1>1. StepTo(r, "done") /\ manifests' = [u \in UserIds |-> manifests'[u]]
      /\ UNCHANGED <<secrets, accounts, actor, base, draft, listed, known, behind, mail, moved>>
  BY DEF UserLand, UserLandOver
<1>2. manifests' \in Users
  BY <1>1, Landing, UserType DEF Users
<1>3. UsersTypeOK'
  BY <1>1, <1>2 DEF UsersTypeOK, StepTo, UserSteps
<1>4. Genuine(manifests', mail', moved')
  BY <1>1, Landing, Ids DEF Genuine
<1>5. \A q \in UserRequests : Remembers(q)' /\ Drafted(q)'
  BY <1>1 DEF Remembers, Drafted, StepTo, UsersTypeOK
<1> QED
  BY <1>1, <1>3, <1>4, <1>5

LEMMA ClusterInductive ==
    ASSUME UsersInductive, NEW u \in UserIds, SyncSecret(u) \/ Provision(u)
    PROVE  UsersInductive'
<1> USE DEF UsersInductive
<1>1. UNCHANGED <<manifests, step, actor, base, draft, listed, known, behind, mail, moved>>
  BY DEF SyncSecret, Provision
<1>2. /\ secrets' \in Users /\ accounts' \in SUBSET Emails
      /\ Genuine(secrets', mail, moved)
  <2>1. CASE SyncSecret(u)
    <3>1. /\ secrets' = [secrets EXCEPT ![u] = manifests[u]] /\ accounts' = accounts
          /\ secrets \in Users /\ manifests[u] \in User \cup {Nobody}
      BY <2>1, UserType DEF SyncSecret, UsersTypeOK
    <3>2. /\ manifests[u] # Nobody => mail[u] # Nobody /\ (u \in moved \/ manifests[u].email = mail[u])
          /\ u = Admin => Admin \in moved \/ manifests[u] # Nobody
      BY DEF Genuine
    <3>3. Genuine([secrets EXCEPT ![u] = manifests[u]], mail, moved)
      BY <3>1, <3>2, GenuinePut
    <3> QED
      BY <3>1, <3>3 DEF Users, UsersTypeOK
  <2>2. CASE Provision(u)
    BY <2>2, UserType DEF Provision, User, UsersTypeOK
  <2> QED
    BY <2>1, <2>2
<1>3. UsersTypeOK'
  BY <1>1, <1>2 DEF UsersTypeOK
<1>4. \A q \in UserRequests : Remembers(q)' /\ Drafted(q)'
  BY <1>1 DEF Remembers, Drafted
<1> QED
  BY <1>1, <1>2, <1>3, <1>4

\* The invariant behind the theorems below.
THEOREM InductiveInvariant == UsersSpec => []UsersInductive
<1>1. UsersInit => UsersInductive
  <2> SUFFICES ASSUME UsersInit PROVE UsersInductive
    OBVIOUS
  <2>1. FirstUsers \in Users
    BY UsersAssumption DEF FirstUsers, Users, User, UserIds
  <2>2. UsersTypeOK
    <3>1. accounts \in SUBSET Emails
      BY UsersAssumption DEF UsersInit
    <3>2. mail \in [UserIds -> Emails \cup {Nobody}]
      BY UsersAssumption DEF UsersInit, UserIds
    <3> QED
      BY <2>1, <3>1, <3>2 DEF UsersInit, UsersTypeOK, UserSteps
  <2>3. Genuine(FirstUsers, mail, moved)
    <3>1. \A u \in UserIds : FirstUsers[u] # Nobody =>
            u \in Residents /\ FirstUsers[u].email = MailOf[u]
      BY DEF FirstUsers
    <3>2. \A u \in Residents : mail[u] = MailOf[u] /\ mail[u] # Nobody
      BY UsersAssumption DEF UsersInit, UserIds
    <3>3. FirstUsers[Admin] # Nobody
      <4>1. FirstUsers[Admin] \in User
        BY UsersAssumption DEF FirstUsers, User, UserIds
      <4> QED
        BY <4>1, NobodyAssumption
    <3> QED
      BY <3>1, <3>2, <3>3 DEF Genuine
  <2>4. \A u \in Residents : mail[u] = MailOf[u]
    BY DEF UsersInit, UserIds
  <2>5. \A r \in UserRequests : Remembers(r) /\ Drafted(r)
    BY Ids, UsersAssumption DEF UsersInit, Remembers, Drafted
  <2> QED
    BY <2>2, <2>3, <2>4, <2>5 DEF UsersInductive, UsersInit
<1>2. UsersInductive /\ [UsersNext]_usersVars => UsersInductive'
  <2> SUFFICES ASSUME UsersInductive, [UsersNext]_usersVars PROVE UsersInductive'
    OBVIOUS
  <2>1. CASE UNCHANGED usersVars
    BY <2>1 DEF usersVars, UsersInductive, UsersTypeOK, Remembers, Drafted
  <2>2. ASSUME NEW r \in UserRequests, UserStep(r) PROVE UsersInductive'
    BY <2>2, BeginInductive, ListInductive, CreateInductive, EditInductive, DeleteInductive,
       TeamInductive, FailInductive, LandInductive DEF UserStep
  <2> QED
    BY <2>1, <2>2, ClusterInductive DEF UsersNext
<1> QED
  BY <1>1, <1>2, PTL DEF UsersSpec

-----------------------------------------------------------------------------
\* UsersTypeOK holds in every state of every instance.
THEOREM TypeCorrect == UsersSpec => []UsersTypeOK
<1>1. UsersInductive => UsersTypeOK
  BY DEF UsersInductive
<1> QED
  BY <1>1, InductiveInvariant, PTL

\* createUser: two users never edited have one e-mail address on the branch only if
\* neither creation found the other user, in every instance.
THEOREM DistinctEmails == UsersSpec => []UniqueEmails
<1>1. UsersInductive => UniqueEmails
  <2> SUFFICES ASSUME UsersInductive, NEW u \in UserIds, NEW r \in UserRequests,
                      {u, r} \cap moved = {}, u \in listed[r],
                      manifests[u] # Nobody, manifests[r] # Nobody
               PROVE  manifests[u].email # manifests[r].email
    BY DEF UniqueEmails
  <2>1. manifests[u].email = mail[u] /\ manifests[r].email = mail[r]
    BY Ids DEF UsersInductive, Genuine
  <2>2. mail[u] # mail[r]
    BY DEF UsersInductive, Remembers
  <2> QED
    BY <2>1, <2>2
<1> QED
  BY <1>1, InductiveInvariant, PTL

\* deleteUser: unless its e-mail address is edited the default administrator stays, on
\* the branch and in every copy of it, in every instance.
THEOREM AdminStays == UsersSpec => []DefaultAdminStays
<1>1. UsersInductive => DefaultAdminStays
  BY DEF UsersInductive, Genuine, DefaultAdminStays
<1> QED
  BY <1>1, InductiveInvariant, PTL

\* A step that changes the branch is the landing of a request, which ends no other.
LEMMA SomeLands ==
    ASSUME UsersInductive, UsersNext, manifests' # manifests
    PROVE  \E r \in UserRequests : UserLand(r) /\ Lands(r)
                                   /\ \A q \in UserRequests : Lands(q) => q = r
<1>1. ASSUME NEW q \in UserRequests, UserStep(q), ~UserLand(q) PROVE manifests' = manifests
  BY <1>1 DEF UserStep, UserBegin, ListUsers, AskKeycloak, Learn, CreateUser, EditUser,
     DeleteUser, EditTeamUser, UserFail
<1>2. ASSUME NEW u \in UserIds, SyncSecret(u) \/ Provision(u) PROVE manifests' = manifests
  BY <1>2 DEF SyncSecret, Provision
<1>3. PICK r \in UserRequests : UserLand(r)
  BY <1>1, <1>2 DEF UsersNext
<1>4. /\ step \in [UserRequests -> UserSteps]
      /\ step[r] \in {"save", "teams"} /\ step' = [step EXCEPT ![r] = "done"]
  BY <1>3 DEF UserLand, UserLandOver, StepTo, UsersInductive, UsersTypeOK
<1>5. Lands(r) /\ \A q \in UserRequests : Lands(q) => q = r
  BY <1>4 DEF Lands
<1> QED
  BY <1>3, <1>5

\* editTeamUsers: what lands of a team administrator's request is within the
\* administrator's teams, for every user it read up to date, in every instance.
THEOREM TeamAdminsKeepScope == UsersSpec => TeamAdminScope
<1>1. ASSUME UsersInductive, [UsersNext]_usersVars, NEW r \in UserRequests, NEW u \in UserIds,
             Lands(r), ~actor[r].platform, u \notin behind[r], manifests'[u] # manifests[u]
      PROVE  InScope(actor[r], manifests[u], manifests'[u])
  <2>1. UsersNext /\ manifests' # manifests
    BY <1>1 DEF Lands, usersVars
  <2>2. manifests'[u] = draft[r][u] /\ manifests[u] = base[r][u]
    BY <1>1, <2>1, SomeLands, Landing
  <2>3. InScope(actor[r], base[r][u], draft[r][u])
    BY <1>1, <2>2 DEF UsersInductive, Drafted
  <2> QED
    BY <2>2, <2>3
<1>2. UsersInductive /\ [UsersNext]_usersVars =>
        [\A r \in UserRequests, u \in UserIds :
           /\ Lands(r) /\ ~actor[r].platform /\ u \notin behind[r]
           /\ manifests'[u] # manifests[u]
           => LET old == manifests[u]
                  new == manifests'[u]
              IN  /\ old # Nobody /\ new # Nobody
                  /\ new.email = old.email /\ new.teamAdmin = old.teamAdmin
                  /\ \A t \in UserTeams \ actor[r].teams : t \in new.teams <=> t \in old.teams
                  /\ old.email = actor[r].email \/ old.teamAdmin => old.teams \subseteq new.teams
        ]_usersVars
  BY <1>1 DEF InScope
<1> QED
  BY <1>2, InductiveInvariant, PTL DEF UsersSpec, TeamAdminScope

\* A deleted user comes back to the branch only by a request that read it from a cluster
\* which had not heard of what its worktree had, in every instance.
THEOREM DeletedStaysDeleted == UsersSpec => NoComeback
<1>1. ASSUME UsersInductive, [UsersNext]_usersVars, NEW u \in UserIds,
             manifests[u] = Nobody, manifests'[u] # Nobody
      PROVE  \E r \in UserRequests : Lands(r) /\ (u = r \/ u \in behind[r])
  <2>1. manifests' # manifests /\ UsersNext
    BY <1>1 DEF usersVars
  <2>2. PICK r \in UserRequests : UserLand(r) /\ Lands(r)
    BY <1>1, <2>1, SomeLands
  <2>3. draft[r][u] # Nobody /\ base[r][u] = Nobody
    BY <1>1, <2>2, Landing
  <2>4. u = r \/ u \in behind[r]
    BY <1>1, <2>3 DEF UsersInductive, Drafted
  <2> QED
    BY <2>2, <2>4
<1>2. UsersInductive /\ [UsersNext]_usersVars =>
        [\A u \in UserIds : manifests[u] = Nobody /\ manifests'[u] # Nobody =>
           \E r \in UserRequests : Lands(r) /\ (u = r \/ u \in behind[r])]_usersVars
  BY <1>1
<1> QED
  BY <1>2, InductiveInvariant, PTL DEF UsersSpec, NoComeback

-----------------------------------------------------------------------------
\* Where a request is can be told in every state, so a decision is a decision.
LEMMA OnItsWay == AuthzSpec => []("pc" \in DOMAIN request)
<1>1. AuthzInit => "pc" \in DOMAIN request
  BY DEF AuthzInit, NoRequest
<1>2. ASSUME "pc" \in DOMAIN request, [AuthzNext]_authzVars PROVE ("pc" \in DOMAIN request)'
  <2>1. CASE Decide
    BY <1>2, <2>1 DEF Decide
  <2>2. CASE Handled
    BY <2>2 DEF Handled, NoRequest
  <2>3. ASSUME NEW groups \in BoundedSeq(Groups, MaxGroups), NEW action \in Actions,
               NEW schema \in Schemas, NEW team \in Teams \cup {NoTeam},
               NEW props \in SUBSET Props[schema], Identify(groups, action, schema, team, props)
        PROVE  ("pc" \in DOMAIN request)'
    BY <2>3 DEF Identify
  <2>4. CASE UNCHANGED request
    BY <1>2, <2>4
  <2> QED
    BY <1>2, <2>1, <2>2, <2>3, <2>4 DEF AuthzNext, authzVars, ChangeTeam, DropTeam
<1> QED
  BY <1>1, <1>2, PTL DEF AuthzSpec

\* Of an allowance only the user's own teams can be the ground where no role of the user
\* has the action for any team.
LEMMA OwnTeamOnly ==
    ASSUME NEW q, Authorized(q),
           \A role \in ToSet(q.roles) : <<q.action, "any">> \notin Acl[q.schema][role]
    PROVE  q.team \in q.teams
<1>1. CASE q.team \in q.teams
  BY <1>1
<1>2. CASE q.team \notin q.teams
  <2>1. ResourceAllowed(q)
    BY <1>2 DEF Authorized
  <2>2. PICK i \in DOMAIN q.roles : Matches(Acl[q.schema][q.roles[i]], q.action, q.team, q.teams)
    BY <2>1 DEF ResourceAllowed
  <2>3. q.roles[i] \in ToSet(q.roles)
    BY DEF ToSet
  <2> QED
    BY <2>2, <2>3 DEF Matches
<1> QED
  BY <1>1, <1>2

LEMMA DecideStep ==
    ASSUME "pc" \in DOMAIN request, [AuthzNext]_authzVars,
           request.pc = "identified", request'.pc = "allowed",
           \A role \in ToSet(request.roles) :
             <<request.action, "any">> \notin Acl[request.schema][role]
    PROVE  request.team \in request.teams \cap teams
<1>1. Decide
  <2>1. request' # request
    OBVIOUS
  <2>2. ~Handled /\ \A t \in Teams : ~DropTeam(t) /\ \A f : ~ChangeTeam(t, f)
    BY <2>1 DEF Handled, ChangeTeam, DropTeam
  <2>3. \A groups, action, schema, team, props : ~Identify(groups, action, schema, team, props)
    BY DEF Identify
  <2> QED
    BY <2>1, <2>2, <2>3 DEF AuthzNext, authzVars
<1>2. request.teams \subseteq teams /\ Authorized(request)
  BY <1>1 DEF Decide
<1> QED
  BY <1>2, OwnTeamOnly

\* authorize after the waits of groupAuthzSecurityHandler: what no role may do for just
\* any team is allowed for a team the user is in and that is still there, whatever the
\* access lists and the self-service permissions say.
THEOREM AllowedForOwnTeam == AuthzSpec => AllowedTeamExists
<1>1. ("pc" \in DOMAIN request) /\ [AuthzNext]_authzVars =>
        [/\ request.pc = "identified" /\ request'.pc = "allowed"
         /\ \A role \in ToSet(request.roles) :
              <<request.action, "any">> \notin Acl[request.schema][role]
         => request.team \in request.teams \cap teams]_authzVars
  BY DecideStep
<1> QED
  BY <1>1, OnItsWay, PTL DEF AuthzSpec, AllowedTeamExists

\* A request that awaits its decision.
Identified(q) ==
    \E roles, own, action, schema, team, props :
        /\ q = [pc |-> "identified", roles |-> roles, teams |-> own, action |-> action,
                schema |-> schema, team |-> team, props |-> props]
        /\ action \in Actions /\ schema \in Schemas /\ props \subseteq Props[schema]
        /\ DOMAIN roles \subseteq Nat
        /\ \A i \in DOMAIN roles : roles[i] \in Roles
        /\ \A i, j \in DOMAIN roles : roles[i] = roles[j] => i = j

\* getUser adds no role twice.
LEMMA RolesLemma ==
    ASSUME NEW groups \in BoundedSeq(Groups, MaxGroups)
    PROVE  /\ DOMAIN RolesOf(groups) \subseteq Nat
           /\ \A i \in DOMAIN RolesOf(groups) : RolesOf(groups)[i] \in Roles
           /\ \A i, j \in DOMAIN RolesOf(groups) : RolesOf(groups)[i] = RolesOf(groups)[j] => i = j
<1>1. PICK n \in Nat : groups \in [1..n -> Groups]
  BY AuthzAssumption DEF BoundedSeq, SeqOf
<1>2. \A g : RoleOf(g) \in Roles
  BY DEF RoleOf, Roles
<1>3. /\ DOMAIN RolesOf(groups) \subseteq 1..n
      /\ \A i \in DOMAIN RolesOf(groups) :
           /\ RolesOf(groups)[i] = RoleOf(groups[i])
           /\ \A j \in 1..(i - 1) : RoleOf(groups[j]) # RoleOf(groups[i])
  BY <1>1 DEF RolesOf
<1>4. ASSUME NEW i \in DOMAIN RolesOf(groups), NEW j \in DOMAIN RolesOf(groups),
             RolesOf(groups)[i] = RolesOf(groups)[j], i < j
      PROVE  FALSE
  <2>1. i \in 1..(j - 1)
    BY <1>3, <1>4
  <2> QED
    BY <1>3, <1>4, <2>1
<1>5. ASSUME NEW i \in DOMAIN RolesOf(groups), NEW j \in DOMAIN RolesOf(groups),
             RolesOf(groups)[i] = RolesOf(groups)[j]
      PROVE  i = j
  <2>1. i \in Nat /\ j \in Nat
    BY <1>3
  <2> QED
    BY <1>4, <1>5, <2>1
<1> QED
  BY <1>2, <1>3, <1>5

LEMMA Waiting == AuthzSpec => [](request.pc = "identified" => Identified(request))
<1>1. AuthzInit => (request.pc = "identified" => Identified(request))
  BY DEF AuthzInit, NoRequest
<1>2. ASSUME "pc" \in DOMAIN request, request.pc = "identified" => Identified(request),
             [AuthzNext]_authzVars
      PROVE  (request.pc = "identified" => Identified(request))'
  <2> SUFFICES ASSUME request'.pc = "identified" PROVE Identified(request)'
    OBVIOUS
  <2>1. ~Decide
    BY <1>2 DEF Decide
  <2>2. ~Handled
    BY <1>2 DEF Handled, NoRequest
  <2>3. ASSUME NEW groups \in BoundedSeq(Groups, MaxGroups), NEW action \in Actions,
               NEW schema \in Schemas, NEW team \in Teams \cup {NoTeam},
               NEW props \in SUBSET Props[schema], Identify(groups, action, schema, team, props)
        PROVE  Identified(request)'
    <3> PICK roles, own : roles = RolesOf(groups) /\ own = TeamsOf(groups)
      OBVIOUS
    <3>1. request' = [pc |-> "identified", roles |-> roles, teams |-> own, action |-> action,
                      schema |-> schema, team |-> team, props |-> props]
      BY <2>3 DEF Identify
    <3>2. /\ DOMAIN roles \subseteq Nat
          /\ \A i \in DOMAIN roles : roles[i] \in Roles
          /\ \A i, j \in DOMAIN roles : roles[i] = roles[j] => i = j
      BY RolesLemma
    <3>3. props \subseteq Props[schema]
      OBVIOUS
    <3> QED
      BY <3>1, <3>2, <3>3 DEF Identified
  <2>4. CASE UNCHANGED request
    BY <1>2, <2>4 DEF Identified
  <2> QED
    BY <1>2, <2>1, <2>2, <2>3, <2>4 DEF AuthzNext, authzVars, ChangeTeam, DropTeam
<1> QED
  BY <1>1, <1>2, OnItsWay, PTL DEF AuthzSpec

\* Of the roles of a team one comes last.
LEMMA LastRole ==
    ASSUME NEW roles, DOMAIN roles \subseteq Nat, DOMAIN roles # {},
           \A i \in DOMAIN roles : roles[i] \in TeamRoles,
           \A i, j \in DOMAIN roles : roles[i] = roles[j] => i = j
    PROVE  \E n \in DOMAIN roles : \A i \in DOMAIN roles : i <= n
<1>1. PICK i \in DOMAIN roles : TRUE
  OBVIOUS
<1>2. TeamRoles = {"teamAdmin", "teamMember"}
  BY DEF TeamRoles, Roles
<1>3. CASE \E j \in DOMAIN roles : j > i
  <2>1. PICK j \in DOMAIN roles : j > i
    BY <1>3
  <2>2. ASSUME NEW k \in DOMAIN roles, k > j PROVE FALSE
    <3>1. i \in Nat /\ j \in Nat /\ k \in Nat
      OBVIOUS
    <3>2. i # j /\ j # k /\ i # k
      BY <2>1, <2>2, <3>1
    <3>3. roles[i] # roles[j] /\ roles[j] # roles[k] /\ roles[i] # roles[k]
      BY <3>2
    <3> QED
      BY <1>2, <3>3
  <2> QED
    BY <2>2
<1>4. CASE ~\E j \in DOMAIN roles : j > i
  BY <1>1, <1>4
<1> QED
  BY <1>3, <1>4

\* What createRules makes of an access list of a property.
LEMMA RulesOfAProperty ==
    ASSUME NEW roles, NEW prop, NEW r \in PropertyRules(roles, prop)
    PROVE  \E i, j \in DOMAIN roles :
             \/ r = Rule(i, 1, roles[i], prop)
             \/ r = Denial(i, roles[i], prop)
             \/ prop \in Nested /\ r = Rule(i, 3, roles[j], prop)
  BY DEF PropertyRules

\* A grant of one role of a team prevails over the denials of the other.
LEMMA PropertyAddsUp ==
    ASSUME NEW q, NEW p, NEW role, NEW prop,
           DOMAIN q.roles \subseteq Nat, \A i \in DOMAIN q.roles : q.roles[i] \in TeamRoles,
           \A i, j \in DOMAIN q.roles : q.roles[i] = q.roles[j] => i = j,
           role \in ToSet(q.roles),
           p.roles = <<role>>, p.action = q.action, p.team = q.team, p.teams = q.teams,
           q.action \in {"create", "update"},
           NEW schema \in Schemas, prop \in Props[schema],
           PropertyAllowed(p, prop)
    PROVE  PropertyAllowed(q, prop)
<1> DEFINE Agree == \A a, b \in TeamRoles : PropAcl[prop][a] = PropAcl[prop][b]
           OwnOnly == /\ prop \in Nested
                      /\ \A a \in TeamRoles : PropAcl[prop][a] \subseteq Actions \X {"own"}
           Applies(r) == Matches(r.what, q.action, q.team, q.teams)
<1>1. Agree \/ OwnOnly
  BY AccessListsAssumption
<1>2. PICK m \in DOMAIN q.roles : q.roles[m] = role
  BY DEF ToSet
<1>3. role \in TeamRoles /\ DOMAIN p.roles = {1} /\ p.roles[1] = role
  BY <1>2
<1>4. \A a \in TeamRoles : PropAcl[prop][a] \subseteq Actions \X Reach
  BY AuthzAssumption DEF TeamRoles, Grants
<1>5. CASE \E r \in PropertyRules(p.roles, prop) : Applies(r) /\ ~r.denies
  <2>1. Matches(PropAcl[prop][role], q.action, q.team, q.teams)
    BY <1>3, <1>5, RulesOfAProperty DEF Rule, Denial
  <2>2. CASE Agree
    <3>1. Rule(m, 1, role, prop) \in PropertyRules(q.roles, prop)
      BY <1>2 DEF PropertyRules
    <3>2. ASSUME NEW d \in PropertyRules(q.roles, prop), d.denies, Applies(d) PROVE FALSE
      <4>1. PICK i \in DOMAIN q.roles : d = Denial(i, q.roles[i], prop)
        BY <3>2, RulesOfAProperty DEF Rule
      <4>2. PropAcl[prop][q.roles[i]] = PropAcl[prop][role]
        BY <1>3, <2>2
      <4>3. <<q.action, "own">> \in d.what /\ <<q.action, "any">> \notin d.what
        BY <3>2, <4>1 DEF Denial, Matches
      <4>4. \A r \in Reach : <<q.action, r>> \notin PropAcl[prop][role]
        BY <4>1, <4>2, <4>3 DEF Denial
      <4> QED
        BY <2>1, <4>4 DEF Matches, Reach
    <3> QED
      BY <2>1, <3>1, <3>2 DEF PropertyAllowed, Rule
  <2>3. CASE OwnOnly
    <3>1. PICK n \in DOMAIN q.roles : \A i \in DOMAIN q.roles : i <= n
      BY <1>2, LastRole
    <3>2. Rule(n, 3, role, prop) \in PropertyRules(q.roles, prop)
      BY <1>2, <2>3 DEF PropertyRules
    <3>3. ASSUME NEW d \in PropertyRules(q.roles, prop), d.denies
          PROVE  ComesAfter(Rule(n, 3, role, prop), d)
      <4>1. PICK i \in DOMAIN q.roles : d = Denial(i, q.roles[i], prop)
        BY <3>3, RulesOfAProperty DEF Rule
      <4>2. i <= n /\ i \in Nat /\ n \in Nat
        BY <3>1
      <4> QED
        BY <4>1, <4>2 DEF ComesAfter, Rule, Denial
    <3> QED
      BY <2>1, <3>2, <3>3 DEF PropertyAllowed, Rule
  <2> QED
    BY <1>1, <2>2, <2>3
<1>6. CASE \A r \in PropertyRules(p.roles, prop) : \A g \in r.what : g[2] = "own" /\ q.teams = {}
  <2>1. Rule(1, 1, role, prop) \in PropertyRules(p.roles, prop)
        /\ Denial(1, role, prop) \in PropertyRules(p.roles, prop)
    BY <1>3 DEF PropertyRules
  <2>2. q.teams = {}
    <3>1. CASE \A r \in Reach : <<"read", r>> \notin PropAcl[prop][role]
      <4>1. <<"read", "own">> \in Denial(1, role, prop).what
        BY <3>1 DEF Denial
      <4> QED
        BY <1>6, <2>1, <4>1
    <3>2. CASE \E r \in Reach : <<"read", r>> \in PropAcl[prop][role]
      BY <1>6, <2>1, <3>2 DEF Rule
    <3> QED
      BY <3>1, <3>2
  <2>3. \A g \in PropAcl[prop][role] : g[2] = "own"
    BY <1>6, <2>1 DEF Rule
  <2>4. \A a \in TeamRoles : \A g \in PropAcl[prop][a] : g[2] = "own"
    BY <1>1, <1>3, <2>3
  <2>5. ASSUME NEW r \in PropertyRules(q.roles, prop), NEW g \in r.what PROVE g[2] = "own"
    <3>1. PICK i, j \in DOMAIN q.roles :
             \/ r = Rule(i, 1, q.roles[i], prop)
             \/ r = Denial(i, q.roles[i], prop)
             \/ r = Rule(i, 3, q.roles[j], prop)
      BY RulesOfAProperty
    <3> QED
      BY <2>4, <2>5, <3>1 DEF Rule, Denial
  <2> QED
    BY <2>2, <2>5 DEF PropertyAllowed
<1> QED
  BY <1>5, <1>6 DEF PropertyAllowed

\* What a role alone is allowed, the role in company is allowed.
LEMMA RolesJoin ==
    ASSUME NEW q, Identified(q), NEW role \in ToSet(q.roles),
           Authorized([q EXCEPT !.roles = <<role>>])
    PROVE  Authorized(q)
<1>1. PICK p : p = [q EXCEPT !.roles = <<role>>]
  OBVIOUS
<1>2. /\ p.roles = <<role>> /\ p.teams = q.teams /\ p.action = q.action
      /\ p.schema = q.schema /\ p.team = q.team /\ p.props = q.props
      /\ q.action \in Actions /\ q.schema \in Schemas /\ q.props \subseteq Props[q.schema]
      /\ DOMAIN q.roles \subseteq Nat
      /\ \A i \in DOMAIN q.roles : q.roles[i] \in Roles
      /\ \A i, j \in DOMAIN q.roles : q.roles[i] = q.roles[j] => i = j
  BY <1>1 DEF Identified
<1>3. ResourceAllowed(p) => ResourceAllowed(q)
  <2>1. PICK m \in DOMAIN q.roles : q.roles[m] = role
    BY DEF ToSet
  <2> QED
    BY <1>2, <2>1 DEF ResourceAllowed
<1>4. IsPlatformAdmin(p) => IsPlatformAdmin(q)
  BY <1>2 DEF IsPlatformAdmin, ToSet
<1>5. Authorized(p)
  BY <1>1
<1>6. CASE IsPlatformAdmin(q)
  <2>1. SelfService[q.action, q.schema] # "none" => ResourceAllowed(q)
    <3>1. PICK i \in DOMAIN q.roles : q.roles[i] = "platformAdmin"
      BY <1>6 DEF IsPlatformAdmin, ToSet
    <3> QED
      BY <1>2, <3>1, AccessListsAssumption DEF ResourceAllowed, Matches
  <2>2. ResourceAllowed(p) \/ SelfService[q.action, q.schema] # "none"
    BY <1>2, <1>5 DEF Authorized
  <2> QED
    BY <1>3, <1>6, <2>1, <2>2 DEF Authorized
<1>7. CASE ~IsPlatformAdmin(q)
  <2>1. \A i \in DOMAIN q.roles : q.roles[i] \in TeamRoles
    BY <1>2, <1>7 DEF IsPlatformAdmin, ToSet, TeamRoles
  <2>2. \/ q.action \notin {"create", "update"}
        \/ \A prop \in q.props : PropertyAllowed(p, prop)
    BY <1>2, <1>4, <1>5, <1>7 DEF Authorized
  <2>3. \/ q.action \notin {"create", "update"}
        \/ \A prop \in q.props : PropertyAllowed(q, prop)
    BY <1>2, <2>1, <2>2, PropertyAddsUp
  <2>4. Permits(p, SelfService[q.action, q.schema]) = Permits(q, SelfService[q.action, q.schema])
    BY <1>2 DEF Permits
  <2> QED
    BY <1>2, <1>3, <1>4, <1>5, <1>7, <2>3, <2>4 DEF Authorized
<1> QED
  BY <1>6, <1>7

\* Whatever one of the roles in a token would allow alone, all of them allow, in whatever
\* order and for all access lists like those of src/src/openapi: a denial createRules makes
\* for one role takes nothing from another.
THEOREM RolesAreAddedUp == AuthzSpec => RolesAddUp
<1>1. ASSUME "pc" \in DOMAIN request, request.pc = "identified" => Identified(request),
             [AuthzNext]_authzVars, request.pc = "identified", request'.pc = "denied"
      PROVE  \A role \in ToSet(request.roles) :
               ~Authorized([request EXCEPT !.roles = <<role>>])
  <2>1. ~Handled /\ \A t \in Teams : ~DropTeam(t) /\ \A f : ~ChangeTeam(t, f)
    BY <1>1 DEF Handled, ChangeTeam, DropTeam
  <2>2. \A groups, action, schema, team, props : ~Identify(groups, action, schema, team, props)
    BY <1>1 DEF Identify
  <2>3. Decide
    BY <1>1, <2>1, <2>2 DEF AuthzNext, authzVars
  <2>4. ~Authorized(request)
    BY <1>1, <2>3 DEF Decide
  <2> QED
    BY <1>1, <2>4, RolesJoin
<1>2. ("pc" \in DOMAIN request) /\ (request.pc = "identified" => Identified(request))
        /\ [AuthzNext]_authzVars =>
        [request.pc = "identified" /\ request'.pc = "denied" =>
           \A role \in ToSet(request.roles) :
             ~Authorized([request EXCEPT !.roles = <<role>>])]_authzVars
  BY <1>1
<1> QED
  BY <1>2, OnItsWay, Waiting, PTL DEF AuthzSpec, RolesAddUp
=============================================================================
