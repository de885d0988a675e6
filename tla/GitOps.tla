------------------------------- MODULE GitOps -------------------------------
(***************************************************************************)
(* The write path of the API: how a request that changes the values        *)
(* repository travels from the session middleware through a git worktree,  *)
(* commit, pull and push, back into the in-memory file store of the root   *)
(* stack, while external committers push to the same branch and a timer    *)
(* compares the root clone with the remote and reloads the store.          *)
(*                                                                         *)
(*   src/src/middleware/session.ts   session set-up and clean-up           *)
(*   src/src/git.ts                  pull, push, pushWithRetry, save       *)
(*   src/src/otomi-stack.ts          initGitWorktree, doDeployment(s)      *)
(*   src/src/app.ts                  checkAgainstGit                       *)
(*                                                                         *)
(* One action is the code between two awaits whose order other actors can  *)
(* observe.  A file of the values repository is a member of Files, its     *)
(* content the name of the actor that wrote it (every write is unique), so *)
(* a content also says whose work it is.  Git merges whole files: two      *)
(* different changes of one file conflict.                                 *)
(***************************************************************************)
EXTENDS Naturals, Sequences, FiniteSets

CONSTANTS
    Sessions,      \* uuids of write requests (each request is its own session)
    Externals,     \* commits pushed to the branch by somebody else
    Files,         \* paths of the values repository
    WriteSets,     \* the sets of files one request may write together
    Initial,       \* the content every present file starts with
    Absent,        \* "the file does not exist"
    Keep,          \* "the change leaves this file alone"
    Nobody,        \* author of the first commit
    Present0,      \* files of the first commit
    Retries,       \* env.GIT_PUSH_RETRIES
    MaxRootFailures, \* bound on transient git failures in the root clone
    MaxFailures,     \* bound on transient git failures in session worktrees
    MaxCrashes       \* bound on restarts of the process

ASSUME SetsAssumption ==
    /\ Present0 \subseteq Files
    /\ WriteSets \subseteq (SUBSET Files) \ {{}}

ASSUME NumbersAssumption ==
    /\ Retries \in Nat \ {0}
    /\ MaxRootFailures \in Nat
    /\ MaxFailures \in Nat
    /\ MaxCrashes \in Nat

ASSUME NamesAssumption ==
    /\ Sessions \cap Externals = {}
    /\ Initial \notin Sessions \cup Externals
    /\ Absent \notin Sessions \cup Externals \cup {Initial}
    /\ Keep \notin Sessions \cup Externals \cup {Initial, Absent}
    /\ Nobody \notin Sessions \cup Externals

VARIABLES
    commits,     \* every commit object ever pushed, in order of creation
    remote,      \* tip of the branch on the git server
    rootHead,    \* HEAD of the root clone (/tmp/otomi/values/main)
    commitSha,   \* readOnlyStack.git.commitSha
    store,       \* readOnlyStack.fileStore
    poll,        \* where checkAgainstGit is
    latest,      \* its latestOtomiVersion (1 when out of scope)
    loaded,      \* what its FileStore.load has read so far
    rootFailures, \* transient failures used up in the root clone
    failures,    \* transient failures used up in session worktrees
    crashes,     \* restarts used up
    pc,          \* where the request of a session is
    attempt,     \* loop counter of pushWithRetry
    tree,        \* state of the session's worktree: clean, unmerged, detached
    start,       \* commit the worktree was created from
    base,        \* commit the session's own commit currently sits on
    snap,        \* the session's copy of the root file store
    request,     \* what the handler wrote into the worktree
    change,      \* what the session's commit (still) changes
    worktrees,   \* sessions with a worktree and an entry in `sessions`
    outcome      \* result of the request

rootVars == <<rootHead, commitSha, store>>
pollVars == <<poll, latest, loaded>>
fails    == <<rootFailures, failures, crashes>>
wtVars   == <<attempt, tree, start, base, snap, request, change>>
vars     == <<commits, remote, rootVars, pollVars, fails, pc, wtVars,
              worktrees, outcome>>

Content  == Sessions \cup Externals \cup {Initial, Absent}
Tree     == [Files -> Content]
Change   == [Files -> Content \cup {Keep}]
NoChange == [f \in Files |-> Keep]

CommitIds == 1..Len(commits)
Commit == [tree : Tree, by : Sessions \cup Externals \cup {Nobody},
           parent : Nat, anc : SUBSET Nat]

TreeOf(c)   == commits[c].tree
History(c)  == commits[c].anc          \* c and everything it descends from
Apply(t, d) == [f \in Files |-> IF d[f] = Keep THEN t[f] ELSE d[f]]

\* Has the worktree of s been created?  (A request that a restart interrupts before
\* that leaves nothing behind: its session may come again.)
Begun(s) == pc[s] \notin {"idle", "recover", "force", "add"}

\* Is a commit of session s part of the history of c?
LandedIn(s, c) == \E i \in History(c) \cap CommitIds : commits[i].by = s

-----------------------------------------------------------------------------
Init ==
    /\ commits = << [tree   |-> [f \in Files |-> IF f \in Present0 THEN Initial
                                                                   ELSE Absent],
                     by     |-> Nobody,
                     parent |-> 0,
                     anc    |-> {1}] >>
    /\ remote = 1
    /\ rootHead = 1
    /\ commitSha = 1
    /\ store = commits[1].tree
    /\ poll = "idle"
    /\ latest = 1
    /\ loaded = NoChange
    /\ rootFailures = 0
    /\ failures = 0
    /\ crashes = 0
    /\ pc = [s \in Sessions |-> "idle"]
    /\ attempt = [s \in Sessions |-> 1]
    /\ tree = [s \in Sessions |-> "clean"]
    /\ start = [s \in Sessions |-> 1]
    /\ base = [s \in Sessions |-> 1]
    /\ snap = [s \in Sessions |-> commits[1].tree]
    /\ request = [s \in Sessions |-> NoChange]
    /\ change = [s \in Sessions |-> NoChange]
    /\ worktrees = {}
    /\ outcome = [s \in Sessions |-> "none"]

-----------------------------------------------------------------------------
\* The git server.  A push is accepted when it fast-forwards the branch, or is
\* forced.

PushNew(t, author, onto) ==
    /\ commits' = Append(commits, [tree   |-> t,
                                   by     |-> author,
                                   parent |-> onto,
                                   anc    |-> History(onto) \cup {Len(commits) + 1}])
    /\ remote' = Len(commits) + 1

\* Fault: sessions push with --force.
FastForwardsForced(c) == c \in CommitIds
FastForwards(c) == remote \in History(c)

\* A git command fails for a passing reason: network, timeout, index.lock.
RootTransient ==
    /\ rootFailures < MaxRootFailures
    /\ rootFailures' = rootFailures + 1
    /\ UNCHANGED <<failures, crashes>>

Transient ==
    /\ failures < MaxFailures
    /\ failures' = failures + 1
    /\ UNCHANGED <<rootFailures, crashes>>

\* Somebody else commits to the values repository.
ExternalCommit(e) ==
    /\ \A i \in CommitIds : commits[i].by # e
    /\ \E f \in Files, v \in {e, Absent} :
         /\ TreeOf(remote)[f] # v
         /\ PushNew([TreeOf(remote) EXCEPT ![f] = v], e, remote)
    /\ UNCHANGED <<rootVars, pollVars, fails, pc, wtVars, worktrees, outcome>>

-----------------------------------------------------------------------------
\* Session set-up: nextHandler, setSessionStack, initGitWorktree.

\* mainRepo.pull succeeds: the root clone and its commitSha advance, the root
\* file store does not.
InitPull(s) ==
    /\ pc[s] = "idle"
    /\ rootHead' = remote
    /\ commitSha' = remote
    /\ pc' = [pc EXCEPT ![s] = "add"]
    /\ UNCHANGED <<commits, remote, store, pollVars, fails, wtVars, worktrees,
                   outcome>>

\* mainRepo.pull fails: Git.pull enters its recovery branch.
InitPullFail(s) ==
    /\ pc[s] = "idle"
    /\ RootTransient
    /\ pc' = [pc EXCEPT ![s] = "recover"]
    /\ UNCHANGED <<commits, remote, rootVars, pollVars, wtVars, worktrees, outcome>>

\* Recovery of the root clone: reset, checkout, clean, fetch and merge ...
InitRecover(s) ==
    /\ pc[s] = "recover"
    /\ rootHead' = remote
    /\ pc' = [pc EXCEPT ![s] = "force"]
    /\ UNCHANGED <<commits, remote, commitSha, store, pollVars, fails, wtVars,
                   worktrees, outcome>>

\* ... and push --force, whatever the branch has become meanwhile.
InitForcePush(s) ==
    /\ pc[s] = "force"
    /\ remote' = rootHead
    /\ pc' = [pc EXCEPT ![s] = "add"]
    /\ UNCHANGED <<commits, rootVars, pollVars, fails, wtVars, worktrees, outcome>>

\* A failing recovery is logged and ignored: "could not pull latest".
InitRecoverFail(s) ==
    /\ pc[s] \in {"recover", "force"}
    /\ RootTransient
    /\ pc' = [pc EXCEPT ![s] = "add"]
    /\ UNCHANGED <<commits, remote, rootVars, pollVars, wtVars, worktrees, outcome>>

\* git worktree add -b <session> <path> <branch>
AddWorktree(s) ==
    /\ pc[s] = "add"
    /\ start' = [start EXCEPT ![s] = rootHead]
    /\ base' = [base EXCEPT ![s] = rootHead]
    /\ worktrees' = worktrees \cup {s}
    /\ pc' = [pc EXCEPT ![s] = "copy"]
    /\ UNCHANGED <<commits, remote, rootVars, pollVars, fails, attempt, tree,
                   snap, request, change, outcome>>

\* sessions[sessionId].fileStore.copyFrom(readOnlyStack.fileStore)
CopyStore(s) ==
    /\ pc[s] = "copy"
    /\ snap' = [snap EXCEPT ![s] = store]
    /\ pc' = [pc EXCEPT ![s] = "handle"]
    /\ UNCHANGED <<commits, remote, rootVars, pollVars, fails, attempt, tree,
                   start, base, request, change, worktrees, outcome>>

-----------------------------------------------------------------------------
\* The handler: validate against the session's file store, write the files into
\* the worktree, commit.  A file whose content is already there yields no diff.

\* Fault: copyFrom hands out the root's own map, so handlers write into it.
WriteAndCommitShared(s, req) ==
    /\ request' = [request EXCEPT ![s] = req]
    /\ change' = [change EXCEPT ![s] = req]
    /\ store' = Apply(store, req)
    /\ pc' = [pc EXCEPT ![s] = "pull"]
    /\ UNCHANGED <<commits, remote, rootHead, commitSha, pollVars, fails, attempt,
                   tree, start, base, snap, worktrees, outcome>>

WriteAndCommit(s, req) ==
    /\ request' = [request EXCEPT ![s] = req]
    /\ change' = [change EXCEPT ![s] =
                    [f \in Files |-> IF req[f] = TreeOf(start[s])[f] THEN Keep
                                                                     ELSE req[f]]]
    /\ pc' = [pc EXCEPT ![s] = "pull"]
    /\ UNCHANGED <<commits, remote, rootVars, pollVars, fails, attempt, tree,
                   start, base, snap, worktrees, outcome>>

Writing(FS, v) == [f \in Files |-> IF f \in FS THEN v ELSE Keep]

\* createApl...: AlreadyExists is checked first.
HandleCreate(s, f, FS) ==
    /\ pc[s] = "handle"
    /\ snap[s][f] = Absent
    /\ WriteAndCommit(s, Writing(FS, s))

\* editApl...: the current object must exist.
HandleEdit(s, f, FS) ==
    /\ pc[s] = "handle"
    /\ snap[s][f] # Absent
    /\ WriteAndCommit(s, Writing(FS, s))

\* deleteApl...: no check.
HandleDelete(s, FS) ==
    /\ pc[s] = "handle"
    /\ WriteAndCommit(s, Writing(FS, Absent))

\* Validation, authorization or existence check fails: errorMiddleware answers
\* and cleans the session.
HandleReject(s) ==
    /\ pc[s] = "handle"
    /\ outcome' = [outcome EXCEPT ![s] = "error"]
    /\ pc' = [pc EXCEPT ![s] = "finally"]
    /\ UNCHANGED <<commits, remote, rootVars, pollVars, fails, wtVars, worktrees>>

\* A write method whose handler deploys nothing (cloud shell, catalog refresh,
\* repository tests) answers without cleaning its session.
HandleOnly(s) ==
    /\ pc[s] = "handle"
    /\ outcome' = [outcome EXCEPT ![s] = "ok"]
    /\ pc' = [pc EXCEPT ![s] = "done"]
    /\ UNCHANGED <<commits, remote, rootVars, pollVars, fails, wtVars, worktrees>>

-----------------------------------------------------------------------------
\* pushWithRetry: attempt 1..Retries, each a pull and a push.

Advanced(n) == n % 3 = 0

\* Fault: every pull resolves conflicts in favour of the session.
ConflictsIgnored(s) == {}

\* Files on which rebasing the session's commit onto the remote tip conflicts.
Conflicts(s) ==
    {f \in Files : /\ change[s][f] # Keep
                   /\ TreeOf(remote)[f] # TreeOf(base[s])[f]
                   /\ TreeOf(remote)[f] # change[s][f]}

\* -X ours settles content against content, not modify against delete.
Unsettled(s) == {f \in Conflicts(s) : Absent \in {TreeOf(remote)[f], change[s][f]}}

\* Fault: the loop runs once too often.
RetryOffByOne(s) ==
    /\ attempt' = [attempt EXCEPT ![s] = @ + 1]
    /\ pc' = [pc EXCEPT ![s] = IF attempt[s] <= Retries THEN "pull" ELSE "finally"]
    /\ outcome' = [outcome EXCEPT ![s] = IF attempt[s] <= Retries THEN @ ELSE "error"]

\* Fault: the loop counter is not advanced.
RetryForever(s) ==
    /\ pc' = [pc EXCEPT ![s] = "pull"]
    /\ UNCHANGED <<attempt, outcome>>

\* The next attempt, or GitPullError after the last one.
Retry(s) ==
    IF attempt[s] < Retries
    THEN /\ attempt' = [attempt EXCEPT ![s] = @ + 1]
         /\ pc' = [pc EXCEPT ![s] = "pull"]
         /\ UNCHANGED outcome
    ELSE /\ pc' = [pc EXCEPT ![s] = "finally"]
         /\ outcome' = [outcome EXCEPT ![s] = "error"]
         /\ UNCHANGED attempt

PullUnchanged == UNCHANGED <<commits, remote, rootVars, pollVars, start, snap, request,
                             worktrees>>

\* Fault: a commit that is already upstream is replayed once more.
RebasedAgain(s, kept) ==
    /\ base' = [base EXCEPT ![s] = remote]
    /\ change' = [change EXCEPT ![s] = kept]
    /\ pc' = [pc EXCEPT ![s] = "push"]
    /\ UNCHANGED <<attempt, outcome>>

\* The commit now sits on the remote tip; one that is already there is dropped.
Rebased(s, kept) ==
    /\ base' = [base EXCEPT ![s] = remote]
    /\ change' = [change EXCEPT ![s] = IF LandedIn(s, remote) THEN NoChange ELSE kept]
    /\ pc' = [pc EXCEPT ![s] = "push"]
    /\ UNCHANGED <<attempt, outcome>>

\* git pull --rebase without conflict, in a clean worktree.
SavePull(s) ==
    /\ pc[s] = "pull"
    /\ tree[s] = "clean"
    /\ LandedIn(s, remote) \/ Conflicts(s) = {}
    /\ Rebased(s, change[s])
    /\ PullUnchanged
    /\ UNCHANGED <<fails, tree>>

\* git pull --rebase with a conflict: the rebase stops with unmerged files.  A
\* plain attempt leaves them; an advanced one resets them away, which leaves
\* HEAD detached at the upstream tip, and its own rebase then refuses to start
\* because one is already in progress.
SavePullConflict(s) ==
    /\ pc[s] = "pull"
    /\ tree[s] = "clean"
    /\ ~LandedIn(s, remote)
    /\ Conflicts(s) # {}
    /\ base' = [base EXCEPT ![s] = remote]
    /\ tree' = [tree EXCEPT ![s] = IF Advanced(attempt[s]) THEN "detached"
                                                           ELSE "unmerged"]
    /\ Retry(s)
    /\ PullUnchanged
    /\ UNCHANGED <<fails, change>>

\* With unmerged files git pull refuses; an advanced attempt resets them.
SavePullUnmerged(s) ==
    /\ pc[s] = "pull"
    /\ tree[s] = "unmerged"
    /\ tree' = [tree EXCEPT ![s] = IF Advanced(attempt[s]) THEN "detached" ELSE @]
    /\ Retry(s)
    /\ PullUnchanged
    /\ UNCHANGED <<fails, base, change>>

\* With HEAD detached at an upstream commit git pull just fast-forwards ...
SavePullDetached(s) ==
    /\ pc[s] = "pull"
    /\ tree[s] = "detached"
    /\ base[s] \in History(remote)
    /\ base' = [base EXCEPT ![s] = remote]
    /\ pc' = [pc EXCEPT ![s] = "push"]
    /\ PullUnchanged
    /\ UNCHANGED <<fails, attempt, tree, change, outcome>>

\* ... unless that commit has been forced off the branch: a rebase would be
\* needed, and one is still in progress.
SavePullStuck(s) ==
    /\ pc[s] = "pull"
    /\ tree[s] = "detached"
    /\ base[s] \notin History(remote)
    /\ Retry(s)
    /\ PullUnchanged
    /\ UNCHANGED <<fails, tree, base, change>>

\* The pull of a plain attempt, or the recovery of an advanced one, fails.
SavePullFail(s) ==
    /\ pc[s] = "pull"
    /\ tree[s] # "unmerged"
    /\ Transient
    /\ Retry(s)
    /\ PullUnchanged
    /\ UNCHANGED <<tree, base, change>>

\* The first pull of an advanced attempt fails for a passing reason and the
\* recovery gets through: rebase --strategy-option=ours.  In a rebase "ours" is
\* the branch rebased onto, so the session's side of a conflict is dropped.
\* (Where a forced push took the base off the branch the recovery is left out.)
SaveRecover(s) ==
    /\ pc[s] = "pull"
    /\ Advanced(attempt[s])
    /\ tree[s] = "clean"
    /\ base[s] \in History(remote)
    /\ Transient
    /\ IF ~LandedIn(s, remote) /\ Unsettled(s) # {}
       THEN /\ base' = [base EXCEPT ![s] = remote]
            /\ tree' = [tree EXCEPT ![s] = "unmerged"]
            /\ Retry(s)
            /\ UNCHANGED change
       ELSE /\ Rebased(s, [f \in Files |-> IF f \in Conflicts(s) THEN Keep
                                                                 ELSE change[s][f]])
            /\ UNCHANGED tree
    /\ PullUnchanged

\* Fault: every attempt pushes a commit, empty or not.
OwnCommitAllowEmpty(s) == tree[s] = "clean"

\* What `git push origin HEAD's-branch:main` sends: the session's own commit on
\* top of base, or just base when the commit is gone or was left behind.
OwnCommit(s) ==
    /\ tree[s] = "clean"
    /\ Apply(TreeOf(base[s]), change[s]) # TreeOf(base[s])

PushUnchanged == UNCHANGED <<rootVars, pollVars, tree, start, base, snap, request,
                             change, worktrees>>

SavePush(s) ==
    /\ pc[s] = "push"
    /\ FastForwards(base[s])
    /\ IF OwnCommit(s)
       THEN PushNew(Apply(TreeOf(base[s]), change[s]), s, base[s])
       ELSE remote' = base[s] /\ UNCHANGED commits
    /\ pc' = [pc EXCEPT ![s] = "rootpull"]
    /\ PushUnchanged
    /\ UNCHANGED <<fails, attempt, outcome>>

\* Not a fast-forward: somebody pushed since this attempt's pull.
SavePushRejected(s) ==
    /\ pc[s] = "push"
    /\ ~FastForwards(base[s])
    /\ Retry(s)
    /\ PushUnchanged
    /\ UNCHANGED <<commits, remote, fails>>

\* Fault: the error of a push is logged and the push taken to have happened.
SavePushFailSwallowed(s) ==
    /\ pc[s] = "push"
    /\ Transient
    /\ UNCHANGED <<commits, remote>>
    /\ pc' = [pc EXCEPT ![s] = "rootpull"]
    /\ PushUnchanged
    /\ UNCHANGED <<attempt, outcome>>

\* The push does not get through, or it does and its answer is lost.
SavePushFail(s) ==
    /\ pc[s] = "push"
    /\ Transient
    /\ \/ UNCHANGED <<commits, remote>>
       \/ /\ FastForwards(base[s])
          /\ OwnCommit(s)
          /\ PushNew(Apply(TreeOf(base[s]), change[s]), s, base[s])
    /\ Retry(s)
    /\ PushUnchanged

-----------------------------------------------------------------------------
\* doDeployment, doDeployments, doDeleteDeployment after git.save.

\* rootStack.git.git.pull(): simple-git's pull, which leaves commitSha alone.
RootPull(s) ==
    /\ pc[s] = "rootpull"
    /\ rootHead' = remote
    /\ pc' = [pc EXCEPT ![s] = "set"]
    /\ UNCHANGED <<commits, remote, commitSha, store, pollVars, fails, wtVars,
                   worktrees, outcome>>

RootPullFail(s) ==
    /\ pc[s] = "rootpull"
    /\ RootTransient
    /\ outcome' = [outcome EXCEPT ![s] = "error"]
    /\ pc' = [pc EXCEPT ![s] = "finally"]
    /\ UNCHANGED <<commits, remote, rootVars, pollVars, wtVars, worktrees>>

\* rootStack.fileStore.set / delete of what the request wrote.
SetStore(s) ==
    /\ pc[s] = "set"
    /\ store' = Apply(store, request[s])
    /\ outcome' = [outcome EXCEPT ![s] = "ok"]
    /\ pc' = [pc EXCEPT ![s] = "finally"]
    /\ UNCHANGED <<commits, remote, rootHead, commitSha, pollVars, fails, wtVars,
                   worktrees>>

\* cleanSession, then the answer to the client; what the session held is gone.
Finish(s) ==
    /\ pc[s] = "finally"
    /\ worktrees' = worktrees \ {s}
    /\ pc' = [pc EXCEPT ![s] = "done"]
    /\ attempt' = [attempt EXCEPT ![s] = 1]
    /\ tree' = [tree EXCEPT ![s] = "clean"]
    /\ base' = [base EXCEPT ![s] = start[s]]
    /\ snap' = [snap EXCEPT ![s] = commits[1].tree]
    /\ change' = [change EXCEPT ![s] = NoChange]
    /\ UNCHANGED <<commits, remote, rootVars, pollVars, fails, start, request, outcome>>

-----------------------------------------------------------------------------
\* checkAgainstGit, run by a timer.

PollLsRemote ==
    /\ poll = "idle"
    /\ latest' = remote
    /\ poll' = "compare"
    /\ UNCHANGED <<commits, remote, rootVars, loaded, fails, pc, wtVars, worktrees,
                   outcome>>

PollCompare ==
    /\ poll = "compare"
    /\ poll' = IF latest # commitSha THEN "pull" ELSE "idle"
    /\ latest' = 1
    /\ UNCHANGED <<commits, remote, rootVars, loaded, fails, pc, wtVars,
                   worktrees, outcome>>

\* Fault: the new values are pulled but not loaded.
PollPullOnly ==
    /\ poll = "pull"
    /\ rootHead' = remote
    /\ commitSha' = remote
    /\ poll' = "idle"
    /\ UNCHANGED <<commits, remote, store, latest, loaded, fails, pc, wtVars,
                   worktrees, outcome>>

PollPull ==
    /\ poll = "pull"
    /\ rootHead' = remote
    /\ commitSha' = remote
    /\ poll' = "load"
    /\ UNCHANGED <<commits, remote, store, latest, loaded, fails, pc, wtVars,
                   worktrees, outcome>>

PollPullFail ==
    /\ poll = "pull"
    /\ RootTransient
    /\ poll' = "recover"
    /\ UNCHANGED <<commits, remote, rootVars, latest, loaded, pc, wtVars, worktrees,
                   outcome>>

PollRecover ==
    /\ poll = "recover"
    /\ rootHead' = remote
    /\ poll' = "force"
    /\ UNCHANGED <<commits, remote, commitSha, store, latest, loaded, fails, pc,
                   wtVars, worktrees, outcome>>

\* The recovery does not set commitSha.
PollForcePush ==
    /\ poll = "force"
    /\ remote' = rootHead
    /\ poll' = "load"
    /\ UNCHANGED <<commits, rootVars, latest, loaded, fails, pc, wtVars, worktrees,
                   outcome>>

\* GitPullError: the loop tries again.  (The rejection after the last attempt is
\* not handled and ends the process: Restart.)
PollRecoverFail ==
    /\ poll \in {"recover", "force"}
    /\ RootTransient
    /\ poll' = "pull"
    /\ UNCHANGED <<commits, remote, rootVars, latest, loaded, pc, wtVars, worktrees,
                   outcome>>

\* loadValues: FileStore.load reads the files of the root clone one by one ...
LoadFile(f) ==
    /\ poll = "load"
    /\ loaded[f] = Keep
    /\ loaded' = [loaded EXCEPT ![f] = TreeOf(rootHead)[f]]
    /\ UNCHANGED <<commits, remote, rootVars, poll, latest, fails, pc, wtVars,
                   worktrees, outcome>>

\* ... and the new store replaces the old one.
LoadSwap ==
    /\ poll = "load"
    /\ \A f \in Files : loaded[f] # Keep
    /\ store' = loaded
    /\ loaded' = NoChange
    /\ poll' = "idle"
    /\ UNCHANGED <<commits, remote, rootHead, commitSha, latest, fails, pc, wtVars,
                   worktrees, outcome>>

-----------------------------------------------------------------------------
\* The process ends and starts again: requests and sessions are gone, initGit
\* clones, pulls and loads the values before the next request is let in.

Restart ==
    /\ crashes < MaxCrashes
    /\ crashes' = crashes + 1
    /\ rootHead' = remote
    /\ commitSha' = remote
    /\ store' = TreeOf(remote)
    /\ poll' = "idle"
    /\ latest' = 1
    /\ loaded' = NoChange
    /\ pc' = [s \in Sessions |-> IF Begun(s) THEN "done" ELSE "idle"]
    /\ outcome' = [s \in Sessions |-> IF Begun(s) /\ pc[s] # "done" THEN "error"
                                                                  ELSE outcome[s]]
    /\ attempt' = [s \in Sessions |-> 1]
    /\ tree' = [s \in Sessions |-> "clean"]
    /\ base' = start
    /\ snap' = [s \in Sessions |-> commits[1].tree]
    /\ change' = [s \in Sessions |-> NoChange]
    /\ worktrees' = {}
    /\ UNCHANGED <<commits, remote, rootFailures, failures, start, request>>

-----------------------------------------------------------------------------
Setup(s) ==
    \/ InitPull(s) \/ InitPullFail(s) \/ InitRecover(s) \/ InitForcePush(s)
    \/ InitRecoverFail(s) \/ AddWorktree(s) \/ CopyStore(s)

Handle(s) ==
    \/ \E FS \in WriteSets : \/ \E f \in FS : HandleCreate(s, f, FS) \/ HandleEdit(s, f, FS)
                             \/ HandleDelete(s, FS)
    \/ HandleReject(s)
    \/ HandleOnly(s)

Save(s) ==
    \/ SavePull(s) \/ SavePullConflict(s) \/ SavePullUnmerged(s) \/ SavePullDetached(s)
    \/ SavePullStuck(s)
    \/ SavePullFail(s) \/ SaveRecover(s)
    \/ SavePush(s) \/ SavePushRejected(s) \/ SavePushFail(s)

Deploy(s) == RootPull(s) \/ RootPullFail(s) \/ SetStore(s) \/ Finish(s)

Poll ==
    \/ PollLsRemote \/ PollCompare \/ PollPull \/ PollPullFail \/ PollRecover
    \/ PollForcePush \/ PollRecoverFail
    \/ \E f \in Files : LoadFile(f)
    \/ LoadSwap

Session(s) == Setup(s) \/ Handle(s) \/ Save(s) \/ Deploy(s)

Next ==
    \/ \E e \in Externals : ExternalCommit(e)
    \/ \E s \in Sessions : Session(s)
    \/ Poll
    \/ Restart

Spec == Init /\ [][Next]_vars
-----------------------------------------------------------------------------
(* Properties *)

Phases == {"idle", "recover", "force", "add", "copy", "handle", "pull", "push",
           "rootpull", "set", "finally", "done"}

\* Every variable holds a value of its kind; ids of commits exist.
TypeOK ==
    /\ commits \in Seq(Commit)
    /\ {remote, rootHead, commitSha, latest} \subseteq CommitIds
    /\ store \in Tree
    /\ poll \in {"idle", "compare", "pull", "recover", "force", "load"}
    /\ loaded \in Change
    /\ rootFailures \in 0..MaxRootFailures
    /\ failures \in 0..MaxFailures
    /\ crashes \in 0..MaxCrashes
    /\ pc \in [Sessions -> Phases]
    /\ attempt \in [Sessions -> 1..Retries]
    /\ tree \in [Sessions -> {"clean", "unmerged", "detached"}]
    /\ start \in [Sessions -> CommitIds]
    /\ base \in [Sessions -> CommitIds]
    /\ snap \in [Sessions -> Tree]
    /\ request \in [Sessions -> Change]
    /\ change \in [Sessions -> Change]
    /\ worktrees \subseteq Sessions
    /\ outcome \in [Sessions -> {"none", "ok", "error"}]

\* The root clone never holds history of its own: its HEAD is on the branch, and
\* the commitSha the poll compares with is HEAD or an ancestor of it.  Git.pull
\* and the raw pull of a deployment move HEAD concurrently from every request.
RootFollowsBranch ==
    /\ rootHead \in History(remote)
    /\ commitSha \in History(rootHead)

\* First committer wins: when the commit of a session changes a file, that file
\* had not been touched on the branch since the session's worktree was created,
\* through every retry, rebase and recovery of pushWithRetry.
FirstCommitterWins ==
    \A i \in CommitIds : \A f \in Files :
        LET s == commits[i].by
            p == commits[i].parent
        IN  s \in Sessions /\ TreeOf(i)[f] # TreeOf(p)[f]
                => TreeOf(p)[f] = TreeOf(start[s])[f]

\* Retrying a push whose answer was lost does not deploy twice.
AtMostOnce ==
    \A i, j \in History(remote) \cap CommitIds :
        commits[i].by = commits[j].by /\ commits[i].by \in Sessions => i = j

\* The files of a request whose content was never on the branch from its start on.
Missing(s) ==
    {f \in Files : /\ request[s][f] # Keep
                   /\ \A i \in CommitIds : i >= start[s] => TreeOf(i)[f] # request[s][f]}

\* Somebody else has changed f since the worktree of s was created.
Overtaken(s, f) ==
    \E i \in CommitIds \ History(start[s]) :
        /\ commits[i].by # s
        /\ TreeOf(i)[f] # TreeOf(commits[i].parent)[f]

\* A request is answered with success only if everything it wrote was pushed (or
\* was already there), unless a file of it was changed by somebody else since its
\* worktree was created: success is never reported out of exhausted retries.
AckedOrOvertaken ==
    \A s \in Sessions : outcome[s] = "ok" /\ Missing(s) # {} =>
        \E f \in Files : request[s][f] # Keep /\ Overtaken(s, f)

\* Readers of the root store never see the content of a request that is still
\* being pushed or has failed without reaching the branch.
NoDirtyReads ==
    \A f \in Files : store[f] \in Sessions =>
        \/ outcome[store[f]] = "ok"
        \/ \E i \in CommitIds : TreeOf(i)[f] = store[f]

\* Only the forced push of a recovering root clone may take commits off the
\* branch; the pushes of sessions, retried as they are, extend it.
ForcedPush ==
    \/ \E s \in Sessions : pc[s] = "force" /\ pc'[s] = "add"
    \/ poll = "force" /\ poll' = "load"

OnlyRecoveryRewrites == [][ForcedPush \/ remote \in commits'[remote'].anc]_vars

\* Whoever runs is scheduled again: the timer fires and the awaits of a request
\* settle.  Requests and external commits need not arrive.
Continue(s) == pc[s] # "idle" /\ Session(s)
Fairness    == WF_vars(Poll) /\ \A s \in Sessions : WF_vars(Continue(s))
FairSpec    == Spec /\ Fairness

\* No request waits forever: the retry loop of pushWithRetry ends, however often
\* others push in between, and a restart ends the connection.
EveryRequestAnswered ==
    \A s \in Sessions : pc[s] # "idle" ~> pc[s] \in {"idle", "done"}

\* Once requests are over, a root clone that is behind the remote is noticed by
\* the poll and the whole branch becomes visible to readers, whatever reloads
\* and deployments overlapped before.
PollHeals ==
    (\A s \in Sessions : pc[s] = "done") /\ commitSha # remote
        ~> store = TreeOf(remote)

-----------------------------------------------------------------------------
(* What the repository says of itself and the code does not do *)

\* "Worktree recovery: rebase session branch on top of remote; our changes win
\* conflicts" (src/src/git.ts:237): a deployed request is on the branch.
AckedIsOnBranch == \A s \in Sessions : outcome[s] = "ok" => Missing(s) = {}

\* "check the local version against the latest online version / if the latest
\* online is newer it will be pulled locally" (src/src/app.ts:63): readers get to
\* see what is on the branch.
Converges == <>[](store = TreeOf(remote))
=============================================================================
