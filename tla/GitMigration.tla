---------------------------- MODULE GitMigration ----------------------------
(***************************************************************************)
(* The migration of the values repository to another git remote, and the   *)
(* switch of the running API to it, while requests are being deployed and  *)
(* a timer compares configuration and branch.                              *)
(*                                                                         *)
(*   src/src/api/v2/git.ts          migrateGit                             *)
(*   src/src/otomi-stack.ts         migrateGitSettings, storeGitConfig,    *)
(*                                  editSettings (git of otomi),           *)
(*                                  refreshGitClient, initGit              *)
(*   src/src/middleware/session.ts  lockApi, cleanAllSessions, the lock    *)
(*   src/src/app.ts                 checkAgainstGit                        *)
(*                                                                         *)
(* A remote is a repository and branch.  What is on it is the set of       *)
(* requests deployed there: conflicts, retries and the recoveries of       *)
(* Git.pull are the subject of GitOps and left out here.                   *)
(***************************************************************************)
EXTENDS Naturals

CONSTANTS
    Requests,    \* requests that deploy something
    Editors,     \* those of them that may edit the settings of otomi and name a remote
    Migrations,  \* requests PUT /v2/git that name a remote
    Timer,       \* the interval that runs checkAgainstGit
    Remotes, Old, Target,
    Empty,       \* "the branch does not exist on this remote"
    None,        \* "there is no such directory", "no such remote is configured"
    MaxAttempts, \* env.GIT_INIT_MAX_RETRIES
    MaxFailures, \* bound on failing calls to Kubernetes and failing git commands
    MaxRestarts  \* bound on restarts of the process

Actors    == Requests \cup Migrations
Switchers == Migrations \cup Editors   \* those that call storeGitConfig
Movers    == Switchers \cup {Timer}    \* those that may run refreshGitClient

ASSUME MigrationAssumption ==
    /\ Requests \cap Migrations = {}
    /\ Editors \subseteq Requests
    /\ Timer \notin Actors
    /\ Old \in Remotes
    /\ Target \in [Switchers -> Remotes]
    /\ \A S \in SUBSET Requests : Empty # S
    /\ None \notin Remotes
    /\ \A c \in [of : Remotes, head : (SUBSET Requests) \cup {Empty}] : None # c
    /\ MaxAttempts \in Nat \ {0}
    /\ MaxFailures \in Nat
    /\ MaxRestarts \in Nat

VARIABLES
    remote,    \* what is on each remote
    secret,    \* the git configuration stored in the cluster
    config,    \* readOnlyStack.gitConfig
    client,    \* the remote readOnlyStack.git was made for
    clone,     \* the root clone: the remote it was cloned from and the HEAD of the
               \* branch (Empty: cloned, but the branch is not checked out)
    named,     \* what `migration-remote` is in its configuration
    locked,    \* readOnlyStack.locked
    isLoaded,  \* readOnlyStack.isLoaded
    pc,        \* where a request or the timer is
    sessions,  \* requests with an entry in `sessions`
    worktree,  \* the worktree of a request: its remote and its HEAD
    read,      \* the configuration the poll, or an attempt of initGit, has read
               \* (Old when out of scope)
    attempt,   \* the attempt of initGit (1 when out of scope)
    course,    \* history: since the process started no attempt has failed and no two
               \* initGit have met (straight), one has failed (retried), two have met
    outcome,   \* how a request was answered
    before,    \* requests that had been answered when this one was admitted
    failures, restarts

apiVars == <<config, client, clone, named, locked, isLoaded>>
initVars == <<read, attempt, course>>
bounds  == <<failures, restarts>>
vars    == <<remote, secret, apiVars, pc, sessions, worktree, initVars, outcome, before,
             bounds>>

Checkout == [of : Remotes, head : (SUBSET Requests) \cup {Empty}]

Init ==
    /\ remote = [r \in Remotes |-> IF r = Old THEN {} ELSE Empty]
    /\ secret = Old
    /\ config = Old
    /\ client = Old
    /\ clone = [of |-> Old, head |-> {}]
    /\ named = None
    /\ locked = FALSE
    /\ isLoaded = TRUE
    /\ pc = [a \in Actors \cup {Timer} |-> "idle"]
    /\ sessions = {}
    /\ worktree = [a \in Actors |-> None]
    /\ read = [p \in Movers |-> Old]
    /\ attempt = [p \in Movers |-> 1]
    /\ course = "straight"
    /\ outcome = [a \in Actors |-> "none"]
    /\ before = [a \in Actors |-> {}]
    /\ failures = 0
    /\ restarts = 0

On(r) == IF remote[r] = Empty THEN {} ELSE remote[r]

Goes(a, from, to) == pc[a] = from /\ pc' = [pc EXCEPT ![a] = to]

\* The answer; the session is cleaned by the deployment or by errorMiddleware.
Answer(a, from, result) ==
    /\ Goes(a, from, "done")
    /\ outcome' = [outcome EXCEPT ![a] = result]
    /\ sessions' = sessions \ {a}
    /\ worktree' = [worktree EXCEPT ![a] = None]
    /\ UNCHANGED <<initVars, before>>

Session(a) == UNCHANGED <<secret, config, client, locked, isLoaded, initVars, bounds>>

CheckedOut == clone # None /\ clone.head # Empty

Pulled == [clone EXCEPT !.head = remote[clone.of]]

-----------------------------------------------------------------------------
(* Every write request *)

\* nextHandler reads the lock once, before it sets up the session.
Admit(a) ==
    /\ isLoaded
    /\ ~locked
    /\ Goes(a, "idle", "setup")
    /\ before' = [before EXCEPT ![a] = {b \in Actors : pc[b] = "done"}]
    /\ sessions' = sessions \cup {a}
    /\ UNCHANGED <<remote, clone, named, worktree, outcome>> /\ Session(a)

\* initGitWorktree: a missing branch or a failing `worktree add` is an error, a failing
\* pull is not, an entry that cleanAllSessions has taken away meanwhile is.
Setup(a) ==
    /\ CheckedOut
    /\ a \in sessions
    /\ \/ Goes(a, "setup", IF a \in Migrations THEN "test" ELSE "save")
       \/ a \in Editors /\ Goes(a, "setup", "store")
    /\ \E c \in {clone, Pulled} : clone' = c /\ worktree' = [worktree EXCEPT ![a] = c]
    /\ UNCHANGED <<remote, named, sessions, outcome, before>> /\ Session(a)

SetupFails(a) ==
    /\ Answer(a, "setup", "error")
    /\ UNCHANGED <<remote, secret, apiVars, bounds>>

-----------------------------------------------------------------------------
(* A deployment *)

Pushed(s) == [remote EXCEPT ![worktree[s].of] = @ \cup {s}]

\* Fault: git in a directory that is gone pushes nothing and reports no error.
SaveAnyway(s) ==
    /\ Goes(s, "save", "finish")
    /\ remote' = IF worktree[s] = None THEN remote ELSE Pushed(s)
    /\ UNCHANGED <<clone, named, sessions, worktree, outcome, before>> /\ Session(s)

Save(s) ==
    /\ worktree[s] # None
    /\ Goes(s, "save", "finish")
    /\ remote' = Pushed(s)
    /\ UNCHANGED <<clone, named, sessions, worktree, outcome, before>> /\ Session(s)

\* Retries exhausted, or the answer to the push lost.
SaveFails(s) ==
    /\ Answer(s, "save", "error")
    /\ \/ UNCHANGED remote
       \/ worktree[s] # None /\ remote' = Pushed(s)
    /\ UNCHANGED <<secret, apiVars, bounds>>

\* Fault: the root clone is not pulled before the answer.
FinishUnpulled(s) ==
    /\ Answer(s, "finish", "ok")
    /\ UNCHANGED <<remote, secret, apiVars, bounds>>

\* The root clone pulls, the root store is set, the session is cleaned.
Finish(s) ==
    /\ clone # None
    /\ Answer(s, "finish", "ok")
    /\ clone' = IF CheckedOut THEN Pulled ELSE clone
    /\ UNCHANGED <<remote, secret, config, client, named, locked, isLoaded, bounds>>

FinishFails(s) ==
    /\ Answer(s, "finish", "error")
    /\ UNCHANGED <<remote, secret, apiVars, bounds>>

Deployment(s) == Save(s) \/ SaveFails(s) \/ Finish(s) \/ FinishFails(s)

-----------------------------------------------------------------------------
(* refreshGitClient, in a request that names a remote or in the timer *)

\* The process starts again: it reads the configuration, clones, loads, unlocks; its
\* attempts read one configuration and are one step.  If there is no such branch it
\* ends and starts for ever, and serves nobody.
Restarted ==
    /\ pc' = [a \in Actors \cup {Timer} |->
                IF a = Timer THEN "idle"
                ELSE IF pc[a] = "idle" THEN "idle" ELSE "done"]
    /\ outcome' = [a \in Actors |-> IF pc[a] \in {"idle", "done"} THEN outcome[a] ELSE "lost"]
    /\ sessions' = {}
    /\ worktree' = [a \in Actors |-> None]
    /\ config' = secret
    /\ client' = secret
    /\ clone' = IF remote[secret] = Empty THEN None
                ELSE [of |-> secret, head |-> remote[secret]]
    /\ named' = None
    /\ locked' = FALSE
    /\ isLoaded' = (remote[secret] # Empty)
    /\ read' = [p \in Movers |-> Old]
    /\ attempt' = [p \in Movers |-> 1]
    /\ course' = "straight"
    /\ UNCHANGED <<remote, secret, before>>

Failure == failures < MaxFailures /\ failures' = failures + 1 /\ UNCHANGED restarts

\* Something in it throws: an error for a request, an unhandled rejection, and with
\* it the end of the process, in the timer.
Throws(p, from) ==
    /\ pc[p] = from
    /\ Failure
    /\ IF p = Timer THEN Restarted
       ELSE Answer(p, from, "error") /\ UNCHANGED <<remote, secret, apiVars>>

\* Where a mover goes on after it.
Onward(p) == IF p = Timer THEN "compare" ELSE IF p \in Editors THEN "save" ELSE "answer"

\* The comparison, and setLocked before the first await.
Refresh(p, from) ==
    \/ client = config' /\ Goes(p, from, Onward(p)) /\ UNCHANGED locked
    \/ client # config' /\ Goes(p, from, "lock") /\ locked' = TRUE

LockFails(p) == Throws(p, "lock")

Cloning == {"clone", "sync", "retry", "reread"}

\* cleanAllSessions removes the worktrees of all and the root clone; initGit takes the
\* configuration as it is.
Clean(p) ==
    /\ Goes(p, "lock", "clone")
    /\ clone' = None
    /\ named' = None
    /\ sessions' = {}
    /\ worktree' = [a \in Actors |-> None]
    /\ isLoaded' = FALSE
    /\ read' = [read EXCEPT ![p] = config]
    /\ course' = IF \E q \in Movers \ {p} : pc[q] \in Cloning THEN "met" ELSE course
    /\ UNCHANGED <<remote, secret, config, client, locked, attempt, outcome, before, bounds>>

\* What getRepo works on: a clone it finds, wherever that came from, or one it makes.
Origin(p) == IF clone = None THEN read[p] ELSE clone.of

Attempting == UNCHANGED <<remote, secret, named, locked, isLoaded, sessions, worktree,
                          outcome, before>>

\* getRepo: this.git is for the configuration the attempt has taken.
Clone(p) ==
    /\ remote[Origin(p)] # Empty
    /\ Goes(p, "clone", "sync")
    /\ client' = read[p]
    /\ clone' = [of |-> Origin(p), head |-> remote[Origin(p)]]
    /\ read' = [read EXCEPT ![p] = Old]
    /\ UNCHANGED <<config, attempt, course, bounds>> /\ Attempting

\* The pull and the look for the cluster's settings.
Sync(p) ==
    /\ clone # None
    /\ remote[clone.of] # Empty
    /\ Goes(p, "sync", "load")
    /\ clone' = Pulled
    /\ attempt' = [attempt EXCEPT ![p] = 1]
    /\ UNCHANGED <<config, client, read, course, bounds>> /\ Attempting

Hopeless(p) ==
    /\ pc[p] = "clone" => remote[Origin(p)] = Empty
    /\ pc[p] = "sync" /\ clone # None => remote[clone.of] = Empty

\* An attempt fails: for once, or because there is no such branch, or no clone any more.
\* A clone may have been made all the same.  After the last one the process ends.
AttemptFails(p) ==
    /\ pc[p] \in {"clone", "sync"}
    /\ \/ Failure
       \/ Hopeless(p) /\ UNCHANGED bounds
    /\ IF attempt[p] = MaxAttempts THEN Restarted
       ELSE /\ Goes(p, pc[p], "retry")
            /\ attempt' = [attempt EXCEPT ![p] = @ + 1]
            /\ course' = IF course = "met" THEN "met" ELSE "retried"
            /\ \/ clone' = clone
               \/ /\ pc[p] = "clone" /\ clone = None
                  /\ \E head \in {remote[read[p]], Empty} :
                       clone' = [of |-> read[p], head |-> head]
            /\ read' = [read EXCEPT ![p] = Old]
            /\ UNCHANGED <<config, client>> /\ Attempting

\* The next attempt takes what is configured in the cluster by then, or the
\* configuration as it is when the cluster does not answer.
Reread(p) ==
    /\ \/ Goes(p, "retry", "reread") /\ read' = [read EXCEPT ![p] = secret]
       \/ Goes(p, "retry", "clone") /\ read' = [read EXCEPT ![p] = config]
    /\ UNCHANGED <<config, client, clone, attempt, course, bounds>> /\ Attempting

\* The answer of the cluster is the configuration, and the attempt's.
TakeOver(p) ==
    /\ Goes(p, "reread", "clone")
    /\ config' = read[p]
    /\ UNCHANGED <<client, clone, initVars, bounds>> /\ Attempting

\* Fault: only a start of the process unlocks.
LoadLocked(p) ==
    /\ Goes(p, "load", Onward(p))
    /\ isLoaded' = TRUE
    /\ UNCHANGED <<remote, secret, config, client, clone, named, locked, sessions,
                   worktree, initVars, outcome, before, bounds>>

\* loadValues, unlockApi.
Load(p) ==
    /\ Goes(p, "load", Onward(p))
    /\ isLoaded' = TRUE
    /\ locked' = FALSE
    /\ UNCHANGED <<remote, secret, config, client, clone, named, sessions, worktree,
                   initVars, outcome, before, bounds>>

\* The lock cannot be taken off the config map.
UnlockFails(p) == Throws(p, Onward(p))

RefreshStep(p) ==
    \/ LockFails(p) \/ Clean(p) \/ Clone(p) \/ Sync(p) \/ AttemptFails(p) \/ Reread(p)
    \/ TakeOver(p) \/ Load(p) \/ UnlockFails(p)

-----------------------------------------------------------------------------
(* storeGitConfig *)

\* The secret is created or replaced.
StoreSecret(p) ==
    /\ Goes(p, "store", "config")
    /\ secret' = Target[p]
    /\ UNCHANGED <<remote, apiVars, sessions, worktree, initVars, outcome, before, bounds>>

\* Not so, or the answer is lost.
StoreFails(p) ==
    /\ Answer(p, "store", "error")
    /\ secret' \in {secret, Target[p]}
    /\ UNCHANGED <<remote, apiVars, bounds>>

SetConfig(p) ==
    /\ config' = Target[p]
    /\ Refresh(p, "config")
    /\ UNCHANGED <<remote, secret, client, clone, named, isLoaded, sessions, worktree,
                   initVars, outcome, before, bounds>>

Switch(p) == StoreSecret(p) \/ StoreFails(p) \/ SetConfig(p) \/ RefreshStep(p)

-----------------------------------------------------------------------------
(* migrateGit *)

\* testRemoteConnection, and migrateGitSettings up to its first await.
Test(m) ==
    /\ worktree[m] # None
    /\ \/ config # Target[m] /\ remote[Target[m]] = Empty /\ Goes(m, "test", "name")
       \/ config = Target[m] /\ Goes(m, "test", "store")
    /\ UNCHANGED <<remote, clone, named, sessions, worktree, outcome, before>> /\ Session(m)

\* No connection, or the branch is not empty.
TestFails(m) ==
    /\ Answer(m, "test", "error")
    /\ UNCHANGED <<remote, secret, apiVars, bounds>>

\* `remote add migration-remote`, in the configuration all worktrees share.
Name(m) ==
    /\ worktree[m] # None
    /\ named = None
    /\ Goes(m, "name", "push")
    /\ named' = Target[m]
    /\ UNCHANGED <<remote, clone, sessions, worktree, outcome, before>> /\ Session(m)

\* The clean-up after an error removes the name, whoever gave it.
Unname(m) == named' = IF worktree[m] = None THEN named ELSE None

NameFails(m) ==
    /\ Answer(m, "name", "error")
    /\ Unname(m)
    /\ UNCHANGED <<remote, secret, config, client, clone, locked, isLoaded, bounds>>

\* The branch is created or fast-forwarded.
MayPush(m) ==
    /\ worktree[m] # None
    /\ named # None
    /\ On(named) \subseteq worktree[m].head

PushedNew(m) == [remote EXCEPT ![named] = worktree[m].head]

PushNew(m) ==
    /\ MayPush(m)
    /\ Goes(m, "push", "store")
    /\ remote' = PushedNew(m)
    /\ named' = None
    /\ sessions' = sessions \ {m}
    /\ worktree' = [worktree EXCEPT ![m] = None]
    /\ UNCHANGED <<clone, outcome, before>> /\ Session(m)

PushNewFails(m) ==
    /\ Answer(m, "push", "error")
    /\ UNCHANGED remote \/ (MayPush(m) /\ remote' = PushedNew(m))
    /\ Unname(m)
    /\ UNCHANGED <<secret, config, client, clone, locked, isLoaded, bounds>>

Succeed(m) ==
    /\ Answer(m, "answer", "ok")
    /\ UNCHANGED <<remote, secret, apiVars, bounds>>

Migration(m) ==
    \/ Test(m) \/ TestFails(m) \/ Name(m) \/ NameFails(m) \/ PushNew(m)
    \/ PushNewFails(m) \/ Switch(m) \/ Succeed(m)

-----------------------------------------------------------------------------
(* checkAgainstGit *)

TimerOnly == UNCHANGED <<remote, secret, sessions, worktree, outcome, before>>

\* Fault: the configuration is assigned, the client stays.
PollAssignOnly ==
    /\ config' = read[Timer]
    /\ Goes(Timer, "assign", "compare")
    /\ read' = [read EXCEPT ![Timer] = Old]
    /\ UNCHANGED <<client, clone, named, locked, isLoaded, attempt, course, bounds>>
    /\ TimerOnly

\* updateGitConfig: the answer of the cluster ...
PollRead ==
    /\ Goes(Timer, "idle", "assign")
    /\ read' = [read EXCEPT ![Timer] = secret]
    /\ UNCHANGED <<apiVars, attempt, course, bounds>> /\ TimerOnly

\* ... is the configuration from now on, whatever it was set to meanwhile.
PollAssign ==
    /\ config' = read[Timer]
    /\ Refresh(Timer, "assign")
    /\ read' = [read EXCEPT ![Timer] = Old]
    /\ UNCHANGED <<client, clone, named, isLoaded, attempt, course, bounds>> /\ TimerOnly

\* Fault: it is lost.
PollReadForgets ==
    /\ Failure
    /\ config' = None
    /\ Refresh(Timer, "idle")
    /\ UNCHANGED <<client, clone, named, isLoaded, initVars>> /\ TimerOnly

\* The cluster does not answer: the existing configuration is kept.
PollReadFails ==
    /\ Failure
    /\ UNCHANGED config
    /\ Refresh(Timer, "idle")
    /\ UNCHANGED <<client, clone, named, isLoaded, initVars>> /\ TimerOnly

PollCompare ==
    /\ Goes(Timer, "compare",
            IF clone # None /\ remote[clone.of] \notin {clone.head, Empty} THEN "pull"
            ELSE "idle")
    /\ UNCHANGED <<apiVars, initVars, bounds>> /\ TimerOnly

PollPull ==
    /\ clone # None
    /\ remote[clone.of] # Empty
    /\ Goes(Timer, "pull", "reload")
    /\ clone' = Pulled
    /\ UNCHANGED <<config, client, named, locked, isLoaded, initVars, bounds>> /\ TimerOnly

\* The directory or the branch is gone, and so is the process.
PollPullFails ==
    /\ pc[Timer] = "pull"
    /\ clone # None => remote[clone.of] = Empty
    /\ Restarted
    /\ UNCHANGED bounds

PollReload ==
    /\ Goes(Timer, "reload", "idle")
    /\ isLoaded' = TRUE
    /\ UNCHANGED <<config, client, clone, named, locked, initVars, bounds>> /\ TimerOnly

Poll ==
    \/ PollRead \/ PollReadFails \/ PollAssign \/ RefreshStep(Timer)
    \/ PollCompare \/ PollPull \/ PollPullFails \/ PollReload

-----------------------------------------------------------------------------
Restart ==
    /\ restarts < MaxRestarts
    /\ restarts' = restarts + 1
    /\ UNCHANGED failures
    /\ Restarted

Act(a) ==
    \/ Setup(a) \/ SetupFails(a)
    \/ a \in Requests /\ Deployment(a)
    \/ a \in Editors /\ Switch(a)
    \/ a \in Migrations /\ Migration(a)

Next == (\E a \in Actors : Admit(a) \/ Act(a)) \/ Poll \/ Restart

Spec == Init /\ [][Next]_vars

\* Awaits settle and the timer fires; requests need not arrive.
FairSpec == Spec /\ (\A a \in Actors : WF_vars(Act(a))) /\ WF_vars(Poll)

-----------------------------------------------------------------------------
(* Properties *)

Stages == {"idle", "setup", "save", "finish", "test", "name", "push", "store", "config",
           "lock", "clone", "sync", "retry", "reread", "load", "answer", "done"}

\* Every variable holds a value of its kind.
TypeOK ==
    /\ remote \in [Remotes -> (SUBSET Requests) \cup {Empty}]
    /\ secret \in Remotes
    /\ config \in Remotes
    /\ client \in Remotes
    /\ clone \in Checkout \cup {None}
    /\ named \in Remotes \cup {None}
    /\ locked \in BOOLEAN
    /\ isLoaded \in BOOLEAN
    /\ pc \in [Actors \cup {Timer} -> Stages \cup {"assign", "compare", "pull", "reload"}]
    /\ sessions \subseteq Actors
    /\ worktree \in [Actors -> Checkout \cup {None}]
    /\ read \in [Movers -> Remotes]
    /\ attempt \in [Movers -> 1..MaxAttempts]
    /\ course \in {"straight", "retried", "met"}
    /\ outcome \in [Actors -> {"none", "ok", "error", "lost"}]
    /\ before \in [Actors -> SUBSET Actors]
    /\ failures \in 0..MaxFailures
    /\ restarts \in 0..MaxRestarts

\* Removing worktrees under requests in flight never makes one of them succeed
\* without having been deployed somewhere.
AckedSomewhere ==
    \A s \in Requests : outcome[s] = "ok" => \E r \in Remotes : s \in On(r)

\* Acknowledged before any migration was admitted.
Early ==
    {s \in Requests : /\ outcome[s] = "ok"
                      /\ \A m \in Migrations : pc[m] # "idle" => s \in before[m]}

\* A remote that has the branch lacks of what was acknowledged only what a migration
\* may have run into: what was there when the first migration came is on every remote
\* anything was ever moved to, whatever fails, overlaps or restarts.
LossBounded == \A r \in Remotes : remote[r] # Empty => Early \subseteq remote[r]

Moved == \E m \in Migrations : pc[m] # "idle"

\* The strengthening of both that every step preserves: the root clone and the
\* worktrees of migrations have the early requests as well.
Inductive ==
    /\ TypeOK
    /\ AckedSomewhere
    /\ LossBounded
    /\ \A r \in Remotes : ~Moved /\ remote[r] # Empty => r = Old
    /\ CheckedOut => remote[clone.of] # Empty /\ Early \subseteq clone.head
    /\ \A a \in Actors : worktree[a] # None => /\ pc[a] # "idle"
                                             /\ worktree[a].head # Empty
                                             /\ remote[worktree[a].of] # Empty
    /\ \A m \in Migrations : worktree[m] # None => Early \subseteq worktree[m].head
    /\ \A s \in Requests : pc[s] = "finish" => \E r \in Remotes : s \in On(r)
    /\ \A a, b \in Actors : b \in before[a] => pc[b] = "done"
    /\ \A a \in Actors : outcome[a] # "none" => pc[a] = "done"

\* Some two requests that name a remote ran at the same time.
Overlap ==
    \E m, n \in Switchers :
        /\ m # n /\ pc[m] # "idle" /\ pc[n] # "idle"
        /\ m \notin before[n] /\ n \notin before[m]

\* A lock does not stay, though what was to take it off may fail.
LockReleased == locked ~> (~locked \/ Overlap)

\* The client ends up being for the remote that is configured in the cluster, and, if
\* initGit has gone straight, with a clone of that remote: the poll makes up for
\* configurations it assigned late, for failures and for restarts.
FollowsSecret ==
    <>[](\/ Overlap
         \/ remote[secret] = Empty
         \/ /\ client = secret
            /\ clone # None
            /\ course = "straight" => clone.of = secret)

-----------------------------------------------------------------------------
(* What the repository says of itself and the code does not do *)

\* "refresh from K8s on retries to pick up ESO credential syncs that happen after pod
\* startup (e.g. git provider switch)" (src/src/otomi-stack.ts:347): where initGit ran
\* alone, a remote that was switched to between two attempts is the one that is cloned.
SwitchesRemote ==
    <>[](course = "met" \/ (client = secret => clone # None /\ clone.of = secret))
=============================================================================
