------------------------------ MODULE Resources ------------------------------
(***************************************************************************)
(* What the write handlers do to the resources of the platform: the team   *)
(* with its settings, its workloads of three files each, its knowledge     *)
(* bases of two, its code repositories and other resources of one file     *)
(* each, and the applications that can be toggled.                         *)
(*                                                                         *)
(*   src/src/otomi-stack.ts            handlers, save and delete helpers,  *)
(*                                     doDeployment(s), doDeleteDeployment *)
(*   src/src/fileStore/file-store.ts   the in-memory store, copyFrom       *)
(*   src/src/fileStore/file-map.ts     which files a resource has          *)
(*   src/src/middleware/session.ts     set-up of the session               *)
(*                                                                         *)
(* GitOps models how one commit gets to the branch.  Here that is one step *)
(* with the outcomes GitOps found for it, and what matters is which files  *)
(* a handler writes, which of them it puts into the root store, and which  *)
(* objects in memory belong to several stores at once.                     *)
(***************************************************************************)
EXTENDS FiniteSets

CONSTANTS
    Requests,   \* write requests, each with a session of its own
    Teams, Workloads, CodeRepos, Apps, Urls,
    KnowledgeBases,
    Items,      \* netpols, services, builds, policies, sealed secrets and agents
    Builds,     \* those of them that are builds ...
    BuildApps,  \* ... which need these applications: tekton and harbor
    Present0,   \* files on the branch at first
    Initial,    \* who wrote them
    Gone,       \* "there is no such file"
    Keep        \* "the change leaves this file alone"

Settings(t)   == <<"settings", t, t>>
Workload(t, w) == <<"workloads", t, w>>
Values(t, w)  == <<"workloadValues", t, w>>
Managed(t, w) == <<"managed", t, w>>
CodeRepo(t, r) == <<"codeRepos", t, r>>
Item(t, i)    == <<"items", t, i>>
Base(t, k)    == <<"knowledgebases", t, k>>
Database(t, k) == <<"databases", t, k>>
App(a)        == <<"apps", a, a>>

WorkloadFiles(t, w) == {Workload(t, w), Values(t, w), Managed(t, w)}
BaseFiles(t, k)     == {Base(t, k), Database(t, k)}

\* The resources of several files.
WorkloadBundles == {WorkloadFiles(t, w) : t \in Teams, w \in Workloads}
BaseBundles     == {BaseFiles(t, k) : t \in Teams, k \in KnowledgeBases}

\* Everything under env/teams/<t>/ .
TeamFiles(t) ==
    {Settings(t)} \cup (UNION {WorkloadFiles(t, w) : w \in Workloads})
                  \cup (UNION {BaseFiles(t, k) : k \in KnowledgeBases})
                  \cup {CodeRepo(t, r) : r \in CodeRepos}
                  \cup {Item(t, i) : i \in Items}

Files == (UNION {TeamFiles(t) : t \in Teams}) \cup {App(a) : a \in Apps}

\* A content: who wrote it, and what of it others look at: the URL of a code
\* repository, whether an application is enabled, or nothing.
Plain   == {"plain", "empty", "on", "off"}
Content == [by : Requests \cup {Initial}, what : Plain \cup Urls]
OnOff   == {"on", "off"}

ASSUME ResourcesAssumption ==
    /\ Present0 \subseteq Files
    /\ \A FS \in WorkloadBundles \cup BaseBundles : FS \cap Present0 \in {{}, FS}
    /\ Initial \notin Requests
    /\ Gone \notin Requests \cup {Initial} \cup Content
    /\ Keep \notin Requests \cup {Initial, Gone} \cup Content

\* Objects in memory.  A request makes at most one object for a file, so its name
\* and the file's say which object is meant.
Objects == Requests \cup {Initial}

VARIABLES
    branch,    \* the files on the git server
    heap,      \* content of the objects made for each file
    root,      \* readOnlyStack.fileStore: which object it has for a file
    phase,     \* where a request is
    start,     \* the branch a request's worktree was created from
    change,    \* what its worktree changes
    records,   \* what its deployment puts into the root store
    outcome,   \* how it was answered
    before,    \* requests answered before it began
    pushed,    \* requests whose commit reached the branch
    stale,     \* requests whose worktree and store disagreed on a workload
    edited,    \* requests that edited a code repository
    remover    \* request whose commit last took the settings of a team away

vars == <<branch, heap, root, phase, start, change, records, outcome, before,
          pushed, stale, edited, remover>>

NoChange == [f \in Files |-> Keep]

\* Git compares contents: some writes of different requests are the same bytes.
Same(c, d) ==
    \/ c = d
    \/ Gone \notin {c, d} /\ c.what = d.what /\ c.what \in {"empty", "on", "off"}

\* What a store with these objects shows for a file.
Shown(store, f) == IF store[f] = Gone THEN Gone ELSE heap[f][store[f]]

First(f) ==
    CASE f[1] = "apps"                   -> [by |-> Initial, what |-> "off"]
      [] f[1] \in {"managed", "databases"} -> [by |-> Initial, what |-> "empty"]
      [] OTHER                           -> [by |-> Initial, what |-> "plain"]

FirstTree == [f \in Files |-> IF f \in Present0 THEN First(f) ELSE Gone]

Init ==
    /\ branch = FirstTree
    /\ heap = [f \in Files |-> [o \in Objects |-> IF o = Initial THEN FirstTree[f]
                                                                ELSE Gone]]
    /\ root = [f \in Files |-> IF f \in Present0 /\ f[1] # "databases" THEN Initial ELSE Gone]
    /\ phase = [s \in Requests |-> "idle"]
    /\ start = [s \in Requests |-> FirstTree]
    /\ change = [s \in Requests |-> NoChange]
    /\ records = [s \in Requests |-> NoChange]
    /\ outcome = [s \in Requests |-> "none"]
    /\ before = [s \in Requests |-> {}]
    /\ pushed = {}
    /\ stale = {}
    /\ edited = {}
    /\ remover = [t \in Teams |-> Initial]

-----------------------------------------------------------------------------
\* initGitWorktree: the worktree is the branch as it is now.
Begin(s) ==
    /\ phase[s] = "idle"
    /\ phase' = [phase EXCEPT ![s] = "handle"]
    /\ start' = [start EXCEPT ![s] = branch]
    /\ before' = [before EXCEPT ![s] = {r \in Requests : phase[r] = "done"}]
    /\ UNCHANGED <<branch, heap, root, change, records, outcome, pushed, stale,
                   edited, remover>>

\* The session's store is a copy of the root's map, with the same objects in it,
\* taken just before the handler runs; so the handlers below read root.  Each
\* writes some files into the worktree and hands some records to the deployment.

\* s has disagreeing views of a workload: its worktree's and its store's.
SeesStale(s) ==
    \E t \in Teams, w \in Workloads :
        ~Same(Shown(root, Workload(t, w)), start[s][Workload(t, w)])

\* The handler is through: the worktree has the files of new with their contents,
\* those of removed are gone.
Wrote(s, new, removed) ==
    /\ phase[s] = "handle"
    /\ phase' = [phase EXCEPT ![s] = "save"]
    /\ change' = [change EXCEPT ![s] =
                    [f \in Files |->
                       IF f \in DOMAIN new /\ ~Same(new[f], start[s][f]) THEN new[f]
                       ELSE IF f \in removed /\ start[s][f] # Gone THEN Gone
                       ELSE Keep]]
    /\ stale' = IF SeesStale(s) THEN stale \cup {s} ELSE stale
    /\ UNCHANGED <<branch, root, start, outcome, before, pushed, remover>>

\* The deployment will put the new objects for the files FS into the root store ...
Stores(s, new, FS) ==
    /\ heap' = [f \in Files |-> IF f \in FS THEN [heap[f] EXCEPT ![s] = new[f]]
                                            ELSE heap[f]]
    /\ records' = [records EXCEPT ![s] = [f \in Files |-> IF f \in FS THEN s ELSE Keep]]

\* ... or will delete them from it.
Forgets(s, FS) ==
    /\ records' = [records EXCEPT ![s] = [f \in Files |-> IF f \in FS THEN Gone ELSE Keep]]
    /\ UNCHANGED heap

Exists(f) == root[f] # Gone
By(s, v)  == [by |-> s, what |-> v]

\* saveTeam and saveTeamConfigItem: one file, in the worktree and in the store.
SaveTeamConfigItem(s, f, v) ==
    LET new == [g \in {f} |-> By(s, v)] IN Wrote(s, new, {}) /\ Stores(s, new, {f})

\* createAplTeam does not look whether the team exists.
CreateTeam(s, t) ==
    /\ SaveTeamConfigItem(s, Settings(t), "plain")
    /\ UNCHANGED edited

EditTeam(s, t) ==
    /\ Exists(Settings(t))
    /\ SaveTeamConfigItem(s, Settings(t), "plain")
    /\ UNCHANGED edited

\* Fault: the files the store knows are removed, not the directory.
DeleteTeamKnownFiles(s, t) ==
    LET known == {f \in TeamFiles(t) : Exists(f)}
    IN  /\ Wrote(s, <<>>, known)
        /\ Forgets(s, known)
        /\ UNCHANGED edited

\* Fault: the deployment stores what it should delete.
DeleteTeamStored(s, t) ==
    LET known == {f \in TeamFiles(t) : Exists(f)}
    IN  /\ Wrote(s, <<>>, TeamFiles(t))
        /\ records' = [records EXCEPT ![s] = [f \in Files |-> IF f \in known THEN s ELSE Keep]]
        /\ UNCHANGED <<heap, edited>>

\* deleteTeamObjects: the store forgets the files it knows, the worktree loses the
\* whole directory.
DeleteTeam(s, t) ==
    /\ Wrote(s, <<>>, TeamFiles(t))
    /\ Forgets(s, {f \in TeamFiles(t) : Exists(f)})
    /\ UNCHANGED edited

\* Three files, two records: the managed values are not put into the store.
CreateWorkload(s, t, w) ==
    LET new == [f \in WorkloadFiles(t, w) |->
                  By(s, IF f = Managed(t, w) THEN "empty" ELSE "plain")]
    IN  /\ ~Exists(Workload(t, w))
        /\ Wrote(s, new, {})
        /\ Stores(s, new, {Workload(t, w), Values(t, w)})
        /\ UNCHANGED edited

\* editAplWorkload with or without values, editWorkloadValues with them alone.
EditWorkload(s, t, w) ==
    \E FS \in {{Workload(t, w)}, {Workload(t, w), Values(t, w)}, {Values(t, w)}} :
        LET new == [f \in FS |-> By(s, "plain")]
        IN  /\ Exists(Workload(t, w))
            /\ Wrote(s, new, {})
            /\ Stores(s, new, FS)
            /\ UNCHANGED edited

\* Fault: the managed values are forgotten in the worktree.
DeleteWorkloadLeavingManaged(s, t, w) ==
    /\ Wrote(s, <<>>, {Workload(t, w), Values(t, w)})
    /\ Forgets(s, {Workload(t, w)})
    /\ UNCHANGED edited

\* Three files removed, one record: the values stay in the root store.
DeleteWorkload(s, t, w) ==
    /\ Wrote(s, <<>>, WorkloadFiles(t, w))
    /\ Forgets(s, {Workload(t, w)})
    /\ UNCHANGED edited

\* Fault: only the name is compared.
CreateCodeRepoAnyUrl(s, t, r, u) ==
    /\ ~Exists(CodeRepo(t, r))
    /\ SaveTeamConfigItem(s, CodeRepo(t, r), u)
    /\ UNCHANGED edited

CreateCodeRepo(s, t, r, u) ==
    /\ \A q \in CodeRepos : Exists(CodeRepo(t, q)) => Shown(root, CodeRepo(t, q)).what # u
    /\ ~Exists(CodeRepo(t, r))
    /\ SaveTeamConfigItem(s, CodeRepo(t, r), u)
    /\ UNCHANGED edited

\* editAplCodeRepo compares the new URL with nothing.
EditCodeRepo(s, t, r, u) ==
    /\ Exists(CodeRepo(t, r))
    /\ SaveTeamConfigItem(s, CodeRepo(t, r), u)
    /\ edited' = edited \cup {s}

\* deleteTeamConfigItem: gone from the worktree if it is there, no check.
DeleteCodeRepo(s, t, r) ==
    /\ Wrote(s, <<>>, {CodeRepo(t, r)})
    /\ Forgets(s, {CodeRepo(t, r)})
    /\ UNCHANGED edited

\* createAplNetpol, createAplService, createAplSealedSecret, createAplAgent and
\* createAplBuild, which looks at two applications as well.
CreateItem(s, t, i) ==
    /\ ~Exists(Item(t, i))
    /\ i \in Builds => \A a \in BuildApps : Exists(App(a)) /\ Shown(root, App(a)).what = "on"
    /\ SaveTeamConfigItem(s, Item(t, i), "plain")
    /\ UNCHANGED edited

EditItem(s, t, i) ==
    /\ Exists(Item(t, i))
    /\ SaveTeamConfigItem(s, Item(t, i), "plain")
    /\ UNCHANGED edited

DeleteItem(s, t, i) ==
    /\ Wrote(s, <<>>, {Item(t, i)})
    /\ Forgets(s, {Item(t, i)})
    /\ UNCHANGED edited

\* saveTeamKnowledgeBase: two files, one record.  The database is the same for every
\* knowledge base of that name; no store ever has it, its kind is not in the file map.
SaveKnowledgeBase(s, t, k) ==
    LET new == [f \in BaseFiles(t, k) |->
                  By(s, IF f = Database(t, k) THEN "empty" ELSE "plain")]
    IN  /\ Wrote(s, new, {})
        /\ Stores(s, new, {Base(t, k)})
        /\ UNCHANGED edited

CreateKnowledgeBase(s, t, k) == ~Exists(Base(t, k)) /\ SaveKnowledgeBase(s, t, k)

EditKnowledgeBase(s, t, k) == Exists(Base(t, k)) /\ SaveKnowledgeBase(s, t, k)

\* Fault: the database is left.
DeleteKnowledgeBaseOnly(s, t, k) ==
    /\ Wrote(s, <<>>, {Base(t, k)})
    /\ Forgets(s, {Base(t, k)})
    /\ UNCHANGED edited

\* Two files removed, one record.
DeleteKnowledgeBase(s, t, k) ==
    /\ Wrote(s, <<>>, BaseFiles(t, k))
    /\ Forgets(s, {Base(t, k)})
    /\ UNCHANGED edited

\* editApp makes a new object.
EditApp(s, a, v) ==
    /\ Exists(App(a))
    /\ SaveTeamConfigItem(s, App(a), v)
    /\ UNCHANGED edited

\* toggleApps sets spec.enabled in the objects of the store, which are the root
\* store's own.
SetInPlace(s, A, v) ==
    heap' = [f \in Files |->
               IF \E a \in A : f = App(a) /\ Exists(f)
               THEN [heap[f] EXCEPT ![root[f]] = By(s, v)] ELSE heap[f]]

ToggleApps(s, A, v) ==
    /\ \A a \in A : Exists(App(a))
    /\ SetInPlace(s, A, v)
    /\ Wrote(s, [f \in {App(a) : a \in A} |-> By(s, v)], {})
    /\ records' = [records EXCEPT ![s] =
                     [f \in Files |-> IF \E a \in A : f = App(a) THEN root[f] ELSE Keep]]
    /\ UNCHANGED edited

Fails(s) ==
    /\ phase' = [phase EXCEPT ![s] = "done"]
    /\ outcome' = [outcome EXCEPT ![s] = "error"]
    /\ start' = [start EXCEPT ![s] = FirstTree]
    /\ change' = [change EXCEPT ![s] = NoChange]
    /\ records' = [records EXCEPT ![s] = NoChange]

\* Another application is named that is unknown: those of A have been set when
\* Promise.all rejects.
ToggleAppsUnknown(s, A, v) ==
    /\ phase[s] = "handle"
    /\ SetInPlace(s, A, v)
    /\ Fails(s)
    /\ UNCHANGED <<branch, root, before, pushed, stale, edited, remover>>

\* Validation, authorization or an existence check fails.
Reject(s) ==
    /\ phase[s] = "handle"
    /\ Fails(s)
    /\ UNCHANGED <<branch, heap, root, before, pushed, stale, edited, remover>>

-----------------------------------------------------------------------------
\* doDeployment(s), doDeleteDeployment.

\* Fault: git merges without looking.
ConflictsIgnored(s) == {}

Conflicts(s) ==
    {f \in Files : /\ change[s][f] # Keep
                   /\ ~Same(branch[f], start[s][f])
                   /\ ~Same(branch[f], change[s][f])}

\* The push reaches the branch with the changes to the files FS.
Push(s, FS) ==
    /\ branch' = [f \in Files |-> IF f \in FS /\ change[s][f] # Keep THEN change[s][f]
                                                                     ELSE branch[f]]
    /\ pushed' = pushed \cup {s}
    /\ remover' = [t \in Teams |-> IF Settings(t) \in FS /\ change[s][Settings(t)] = Gone
                                   THEN s ELSE remover[t]]

ToSet(s) ==
    /\ phase' = [phase EXCEPT ![s] = "set"]
    /\ UNCHANGED <<start, change, records, outcome>>

SaveUnchanged == UNCHANGED <<heap, root, before, stale, edited>>

\* save succeeds.
Land(s) ==
    /\ phase[s] = "save"
    /\ Conflicts(s) = {}
    /\ Push(s, Files)
    /\ ToSet(s)
    /\ SaveUnchanged

\* Fault: the recovery settles deletions against edits as well.
LandInPartUnsettled(s) ==
    /\ phase[s] = "save"
    /\ Conflicts(s) # {}
    /\ Push(s, Files \ Conflicts(s))
    /\ ToSet(s)
    /\ SaveUnchanged

\* A conflict met by the recovery of an advanced attempt: this side of the
\* conflicting files is dropped (GitOps!SaveRecover).
LandInPart(s) ==
    /\ phase[s] = "save"
    /\ Conflicts(s) # {}
    /\ \A f \in Conflicts(s) : Gone \notin {branch[f], change[s][f]}
    /\ Push(s, Files \ Conflicts(s))
    /\ ToSet(s)
    /\ SaveUnchanged

\* A conflict that leaves the worktree detached: a later attempt pushes nothing
\* and succeeds (GitOps!SavePullDetached).
LandNothing(s) ==
    /\ phase[s] = "save"
    /\ Conflicts(s) # {}
    /\ ToSet(s)
    /\ SaveUnchanged
    /\ UNCHANGED <<branch, pushed, remover>>

\* GitPullError, or an error after the push.
SaveFails(s) ==
    /\ phase[s] = "save"
    /\ \/ UNCHANGED <<branch, pushed, remover>>
       \/ Conflicts(s) = {} /\ Push(s, Files)
    /\ Fails(s)
    /\ SaveUnchanged

\* Fault: records of deleted files are skipped.
SetRootOnly(s) ==
    /\ phase[s] = "set"
    /\ root' = [f \in Files |-> IF records[s][f] \in {Keep, Gone} THEN root[f]
                                                                  ELSE records[s][f]]
    /\ phase' = [phase EXCEPT ![s] = "done"]
    /\ outcome' = [outcome EXCEPT ![s] = "ok"]
    /\ start' = [start EXCEPT ![s] = FirstTree]
    /\ change' = [change EXCEPT ![s] = NoChange]
    /\ records' = [records EXCEPT ![s] = NoChange]
    /\ UNCHANGED <<branch, heap, before, pushed, stale, edited, remover>>

\* rootStack.fileStore.set or delete for each record, then cleanSession.
SetRoot(s) ==
    /\ phase[s] = "set"
    /\ root' = [f \in Files |-> IF records[s][f] = Keep THEN root[f] ELSE records[s][f]]
    /\ phase' = [phase EXCEPT ![s] = "done"]
    /\ outcome' = [outcome EXCEPT ![s] = "ok"]
    /\ start' = [start EXCEPT ![s] = FirstTree]
    /\ change' = [change EXCEPT ![s] = NoChange]
    /\ records' = [records EXCEPT ![s] = NoChange]
    /\ UNCHANGED <<branch, heap, before, pushed, stale, edited, remover>>

-----------------------------------------------------------------------------
Handle(s) ==
    /\ phase[s] = "handle"
    /\ \/ \E t \in Teams :
            \/ CreateTeam(s, t) \/ EditTeam(s, t) \/ DeleteTeam(s, t)
            \/ \E w \in Workloads :
                 CreateWorkload(s, t, w) \/ EditWorkload(s, t, w) \/ DeleteWorkload(s, t, w)
            \/ \E r \in CodeRepos :
                 \/ DeleteCodeRepo(s, t, r)
                 \/ \E u \in Urls : CreateCodeRepo(s, t, r, u) \/ EditCodeRepo(s, t, r, u)
            \/ \E i \in Items : CreateItem(s, t, i) \/ EditItem(s, t, i) \/ DeleteItem(s, t, i)
            \/ \E k \in KnowledgeBases : \/ CreateKnowledgeBase(s, t, k)
                                         \/ EditKnowledgeBase(s, t, k)
                                         \/ DeleteKnowledgeBase(s, t, k)
       \/ \E v \in OnOff :
            \/ \E a \in Apps : EditApp(s, a, v)
            \/ \E A \in (SUBSET Apps) \ {{}} : ToggleApps(s, A, v) \/ ToggleAppsUnknown(s, A, v)
       \/ Reject(s)

Save(s) == Land(s) \/ LandInPart(s) \/ LandNothing(s) \/ SaveFails(s)

Next == \E s \in Requests : Begin(s) \/ Handle(s) \/ Save(s) \/ SetRoot(s)

Spec == Init /\ [][Next]_vars

-----------------------------------------------------------------------------
(* Properties *)

\* Every variable holds a value of its kind; what the root store and the
\* records to put into it refer to exists.
TypeOK ==
    /\ branch \in [Files -> Content \cup {Gone}]
    /\ heap \in [Files -> [Objects -> Content \cup {Gone}]]
    /\ root \in [Files -> Objects \cup {Gone}]
    /\ phase \in [Requests -> {"idle", "handle", "save", "set", "done"}]
    /\ start \in [Requests -> [Files -> Content \cup {Gone}]]
    /\ change \in [Requests -> [Files -> Content \cup {Gone, Keep}]]
    /\ records \in [Requests -> [Files -> Objects \cup {Gone, Keep}]]
    /\ \A f \in Files : root[f] # Gone => heap[f][root[f]] # Gone
    /\ \A s \in Requests, f \in Files :
         records[s][f] \notin {Gone, Keep} => heap[f][records[s][f]] # Gone
    /\ outcome \in [Requests -> {"none", "ok", "error"}]
    /\ before \in [Requests -> SUBSET Requests]
    /\ pushed \subseteq Requests
    /\ stale \subseteq Requests
    /\ edited \subseteq Requests
    /\ remover \in [Teams -> Requests \cup {Initial}]

Began == {s \in Requests : phase[s] # "idle"}

\* No two requests ever ran at the same time.
OneByOne == \A r, s \in Began : r = s \/ r \in before[s] \/ s \in before[r]

Whole(FS) == {f \in FS : branch[f] # Gone} \in {{}, FS}

\* Create and delete write all files of a workload or a knowledge base together, an
\* edit writes both of a knowledge base, one or two of a workload: on the branch each
\* has all of its files or none, whatever overlaps, loses a conflict or lands in part.
\* For workloads this takes that nobody pushes what was decided on a store that is not
\* what the worktree is; knowledge bases stay whole even then.
ResourcesWhole ==
    /\ \A FS \in BaseBundles : Whole(FS)
    /\ stale \cap pushed = {} => \A FS \in WorkloadBundles : Whole(FS)

WholeIn(tree, FS) ==
    \/ \A f \in FS : tree[f] = Gone
    \/ \A f \in FS : tree[f] # Gone

\* What a request that is saving does to a resource: create or delete all of it, edit
\* part of what is there, or nothing.
WholeChange(s, FS) ==
    \/ \A f \in FS : change[s][f] \notin {Gone, Keep}
    \/ \A f \in FS : change[s][f] = Gone
    \/ \A f \in FS : start[s][f] # Gone /\ change[s][f] # Gone
    \/ \A f \in FS : change[s][f] = Keep

\* The resource is whole on the branch and where requests start from, and those of Q
\* change it as above.
KeptWhole(FS, Q) ==
    /\ WholeIn(branch, FS)
    /\ \A s \in Requests : WholeIn(start[s], FS)
    /\ \A s \in Q : phase[s] = "save" => WholeChange(s, FS)

\* The strengthening of ResourcesWhole that every step preserves.
WholeInductive ==
    /\ \A FS \in BaseBundles : KeptWhole(FS, Requests)
    /\ stale \cap pushed = {} => \A FS \in WorkloadBundles : KeptWhole(FS, Requests \ stale)

\* A deleted team's directory holds nothing older than its deletion: what is
\* there was written by a request that had not been answered when the deleting
\* one began.
DeletionSweeps ==
    \A t \in Teams : \A f \in TeamFiles(t) :
        /\ branch[Settings(t)] = Gone
        /\ remover[t] \in Requests
        /\ branch[f] # Gone
        => branch[f].by \notin before[remover[t]] \cup {Initial}

\* The records of a deployment are what the handler wrote: one request at a time
\* and none failing, the store shows what is on the branch, but for the values a
\* deleted workload leaves and the files no record is made of.
StoreFollowsBranch ==
    (OneByOne /\ \A s \in Began : outcome[s] = "ok") =>
        \A f \in Files : f[1] \notin {"workloadValues", "managed", "databases"} =>
            Same(Shown(root, f), branch[f])

\* "Code repository URL already exists": one request at a time, two repositories
\* of a team share a URL only if one of them was edited or was created by a
\* request that was answered with an error after its push.
UniqueUrls ==
    OneByOne => \A t \in Teams, q, r \in CodeRepos :
        LET a == branch[CodeRepo(t, q)]
            b == branch[CodeRepo(t, r)]
        IN  q # r /\ a # Gone /\ b # Gone /\ a.what = b.what =>
              \E s \in {a.by, b.by} : s \in edited \/ s = Initial \/ outcome[s] = "error"

\* "complete isolation between concurrent operations": the root store, which
\* readers and later requests see, shows only what was deployed.
CompleteIsolation ==
    \A f \in Files : root[f] # Gone =>
        LET a == heap[f][root[f]].by IN a = Initial \/ outcome[a] = "ok"
=============================================================================
