# A TLA+ model of the APL API

This directory models the APL API (`src/src`): its write path, its handlers, the git migration, settings and their
secrets, users, chart catalogs, the cloud shell and authorization. TLC checks the models on small instances, and TLAPS
proves safety properties of most of them for every instance. The API is a stateless-looking HTTP server over one piece
of shared state: the *values repository*, a git branch that other programs and people also push to. A write
request becomes a git commit; a read request is answered from an in-memory copy of the branch.

## 1. The system

### Components, their state and operations

| component | source | state | operations |
|---|---|---|---|
| session middleware | `middleware/session.ts`, `middleware/error.ts` | `readOnlyStack`, `sessions` | `nextHandler`, `setSessionStack`, `cleanSession`, `lockApi`, `cleanAllSessions`, `errorMiddleware` |
| git client | `git.ts` | root clone, worktrees, session branches, `commitSha` | `pull` (two recoveries), `push`, `pushWithRetry`, `commit`, `save`, `createWorktree`, `removeWorktree`, `pushToNewRemote` |
| stack | `otomi-stack.ts` | `fileStore`, `git`, `locked`, `isLoaded` | some 150 handlers; `initGit`, `initGitWorktree`, `loadValues`, `doDeployment(s)`, `doDeleteDeployment` |
| remote poll | `app.ts`, `git/connect.ts` | timer | `checkAgainstGit`, `getLatestRemoteCommitSha` |
| file store | `fileStore/*.ts` | map from paths to objects | `load`, `copyFrom`, get/set/delete by kind |
| git migration and API lock | `api/v2/git.ts`, `otomi-stack.ts` | `locked`, git configuration in cluster secrets | `migrateGit`, `lockApi`, `storeGitConfig`, `refreshGitClient` |
| settings and sealed secrets | `otomi-stack.ts`, `utils/sealedSecretUtils.ts` | settings file, sealed secret manifests | `editSettings`, `saveSettings`, `encryptAndMergeSecrets` |
| users | `otomi-stack.ts`, `utils/userUtils.ts` | user secrets | create, edit, delete, `editTeamUsers` |
| authorization | `authz.ts`, `middleware/authz.ts` | none | `validateWithCasl`, self-service checks |
| catalog cache | `utils/workloadUtils.ts`, `app.ts` | directories of cloned charts | `ensureLatest`, periodic refresh |
| cloud shell | `tty.ts`, `k8s-operations.ts` | Kubernetes objects, idle timers | create, delete, watch |
| agents and knowledge bases | `otomi-stack.ts`, `ai/` | files of a team | create, edit, delete |
| others | `middleware/rate-limit.ts`, `jwt*.ts`, `api/` | none of their own | library configuration, verification of tokens, route adapters |

### How they interact

A write request (`patch`, `post`, `put`, `delete`) passes the session middleware. It gets a uuid, the
*root clone* is pulled, a git *worktree* on a branch of its own is added, and the root file store is
copied into the session. The handler checks the request against that copy and writes files into the
worktree. `git.save` commits and then, up to `GIT_PUSH_RETRIES` times, pulls with `--rebase` and pushes
the session branch to the main branch; each third pull has a recovery of its own. When the push has
succeeded the root clone is pulled again, what the request wrote is set in the root file store, and the
session is removed. Meanwhile a timer compares the tip of the remote branch with `commitSha` of the
root clone and, when they differ, pulls and reloads the whole store from disk.

### What is hard

* Every request, every deployment and the timer pull in **one root clone** and replace or update **one
  store**; between any two awaits another request, a reload or a commit of somebody else can intervene.
* The worktree and the store a request works on are taken **at different times from different places**.
* A push may be rejected, lost, or done with its answer lost; a rebase may stop half way; the recovery
  of a pull may find the worktree in the middle of one, and that of the root clone **forces** its view on
  the branch.
* The process may end at any point; it then rebuilds its memory from the branch.
* What a handler compares a request with may be **older than what it writes to**: ciphertexts shown to a client
  earlier, user secrets that controllers bring to the cluster some time after the commit, teams a token's groups were
  looked up among before several waits, the phase of a pod, the age of a marker file.
* Directories of catalogs and objects in Kubernetes are worked on by several requests and a timer **without a lock**, one
  call at a time, and any call may fail.

What makes the write path correct: the commits of requests are atomic, happen at most once and never
replace unseen work of others; success is answered only for what was deployed; readers see only
deployed content and eventually all of it; every request is answered. What makes the handlers correct: the
files of one resource come and go together, whatever overlaps or fails; a deleted team leaves nothing behind;
what a handler puts into the root store is what it wrote; names and URLs that must be unique are; sessions do
not see each other's unfinished work. `PROJECT.json` lists the hazards with their source lines.

What makes a migration correct: what was deployed before it is on the new remote, a request it interrupts is not
answered with success unless it was deployed, and whatever fails in between, the lock comes off and the API ends up
on the remote the cluster names.

What makes the rest correct. Settings: secret values never reach the settings file, are encrypted once, and survive an
edit of another setting. Users: an e-mail address is not given twice where the API could have known, the default
administrator stays, a team administrator changes nothing beyond the own teams, what was deleted stays deleted.
Authorization: the roles of one token add up, and a team that is gone gives no rights. Catalogs: what is read comes from
the catalog's own repository, a directory marked as up to date has a clone, and a clone gets new commits. Cloud shell:
a shell is there with all its parts or not at all, and nobody is sent to half of one.

## 2. Modules

| module | content |
|---|---|
| `GitOps` | the write path: one action per stretch of code between two awaits; its properties |
| `SnapshotIsolation` | what the branch promises: a versioned store under generalized snapshot isolation |
| `GitOpsInvariant` | the inductive invariants: of the commits, and of what an answer means |
| `GitOpsRefinement` | the refinement mapping from `GitOps` to `SnapshotIsolation` |
| `MCGitOps` | the small repository TLC works on |
| `GitOpsProofs` | proofs: type correctness, the inductive invariants and the safety properties |
| `GitOpsRefinementProofs` | proofs: `GitOps` implements `SnapshotIsolation` |
| `Resources` | the write handlers: which files they write, which objects they put into the root store; one commit is one step |
| `MCResources` | one team with a workload, a knowledge base and a build, two code repositories, one application, for TLC |
| `ResourcesProofs` | proofs: type correctness, resources of several files, deleted teams, and what holds of requests that do not overlap |
| `GitMigration` | the migration to another remote: lock, push to it, stored configuration, `refreshGitClient`, against deployments, the poll and restarts |
| `MCGitMigration` | one migration from one remote to another, with another request, which may be an edit of the settings that goes back, for TLC |
| `GitMigrationProofs` | proofs: type correctness, the inductive invariant, and that nothing acknowledged early is lost |
| `Settings` | settings and the sealed secrets that belong to them: reads that merge, edits that extract and encrypt, handlers of namespace secrets, landing, reload |
| `MCSettings` | three settings for TLC: with sealed secrets, with legacy ones, and `otomi` |
| `SettingsProofs` | proofs: types, the inductive invariant, the three properties |
| `Users` | users as manifests on the branch, as secrets in the cluster and as Keycloak accounts, each behind the other |
| `UsersProofs` | proofs: types, the inductive invariant and the four properties of `Users`; the two of `Authz` |
| `CloudTty` | shells: objects created and deleted one by one, pods, shared bindings |
| `CloudTtyProofs` | proofs: the inductive invariant, whole shells |
| `Catalog` | chart catalogs: one directory each, with readers, first clones, refreshes and deletions in it |
| `CatalogProofs` | proofs: types, the inductive invariant, whole clones of the right repository |
| `Authz` | from the groups of a token to a decision about a request |
| `MCServices` | `Users`, `CloudTty`, `Catalog` and `Authz` side by side for TLC |

`GitOps` and `Resources` look at one write path from two sides. `GitOps` has every step between two awaits and
opaque files. `Resources` has files and objects of different kinds and the handlers that tell them apart, and
takes from `GitOps` the ways a commit can end: on the branch (`Land`), on the branch without the files it
conflicts on (`LandInPart`), nowhere but answered with success (`LandNothing`), or answered with an error before or
after its push (`SaveFails`). `GitMigration` looks at what is around both: which remote it is that requests and the poll work
on, and what becomes of them when it changes; of a deployment it keeps whether and where it was pushed. `Settings` and
`Users` are about handlers whose worktree is only half of what they look at (a store with ciphertexts in it, the
cluster), with the landing of a commit as one step that a conflict refuses.

`Users`, `CloudTty`, `Catalog` and `Authz` share no state with each other in the code. `MCServices` composes them as
alternatives, not as a product: its variable `part` is chosen at first and says whose behaviour this is, and the other three
stay in a single initial state. What is checked of each is what would be checked of it alone.

### State of `GitOps` and the code

`commits` and `remote` are the git server: every commit object with its tree, author, parent and
ancestry, and the tip of the branch. `rootHead` is HEAD of the root clone, `commitSha` the field of
`readOnlyStack.git`, `store` its file store. `poll`, `latest`, `loaded` are the program counter and locals of
`checkAgainstGit` and `FileStore.load`. For each session, `pc` says where its request is, `attempt` is
the loop counter of `pushWithRetry`, `tree` the condition of the worktree (clean; stopped in a rebase with
unmerged files; HEAD detached by a reset in the middle of a rebase), `start` the commit the worktree was
created from, `base` the commit its own commit currently sits on, `snap` the copied store, `request`
what was written and `change` what its commit still changes after rebases. `worktrees` are the entries
of `sessions`; `outcome` is the answer.

### Actions and the code

| actions | code |
|---|---|
| `InitPull`, `InitPullFail`, `InitRecover`, `InitForcePush`, `InitRecoverFail` | `initGitWorktree` calling `Git.pull` on the root clone, with its recovery |
| `AddWorktree`, `CopyStore` | `createWorktree`; `copyFrom` in `setSessionStack` |
| `HandleCreate`, `HandleEdit`, `HandleDelete` | the three shapes of a deploying handler, over one or more files, and `commit` |
| `HandleReject`, `HandleOnly` | a refused request; a write method that deploys nothing and never cleans its session |
| `SavePull`, `SavePullConflict`, `SavePullUnmerged`, `SavePullDetached`, `SavePullStuck`, `SavePullFail`, `SaveRecover` | one pull of `pushWithRetry`, by the condition of the worktree and the kind of attempt |
| `SavePush`, `SavePushRejected`, `SavePushFail` | one push: accepted, rejected, failed or answered too late |
| `RootPull`, `RootPullFail`, `SetStore`, `Finish` | the rest of `doDeployment(s)` and `doDeleteDeployment`; `cleanSession` |
| `PollLsRemote` ... `PollRecoverFail`, `LoadFile`, `LoadSwap` | `checkAgainstGit`, `loadValues` |
| `ExternalCommit` | somebody else pushes |
| `Restart` | the process ends (`process.exit`, an unhandled rejection of the poll, an eviction) and starts again |

What git does was established with git itself on repositories in the states the code produces: after a
pull that stopped on a conflict the next pulls refuse; `reset --hard` in an advanced attempt leaves HEAD
detached on the upstream commit with the rebase still recorded; the `rebase` that follows fails; the next
`pull --rebase` reports success, and the push of `HEAD` sends nothing and succeeds. `rebase
--strategy-option=ours` settles content against content for the side rebased onto and leaves
modify-against-delete unmerged.

### Abstractions

* A file's content is the name of who wrote it. Two changes of one file conflict; git's merge of separate
  hunks within one file is left out, which only adds conflicts.
* A session's answer and its local state are reset in `Finish`: nothing reads them afterwards.
* The second `cleanSession` of `errorMiddleware` repeats the one of the deployment and is not a step.
* The setting of several records in the store has no await in between and is one step.
* `SaveRecover` is left out where a forced push has taken the session's base off the branch; git would
  then replay the commits of others along with the session's own.
* One poll runs at a time. A `ls-remote` that fails changes nothing and is no step.
* A request whose set-up throws before the worktree exists is one that never arrived.
* A restarted process clones or pulls and loads before it serves; that is one step, since commits of others
  in between are as good as right after it.

### State of `Resources` and the code

`branch` holds the files on the git server, each with who wrote it and what of it others look at: the URL of a
code repository, the flag of an application. `heap` holds the objects in memory and `root` says which of them
`readOnlyStack.fileStore` has for a file; the two are apart because `FileStore.copyFrom` copies references.
For each request, `phase` says how far it is, `start` what its worktree was created from, `change` what it changed
there, `records` the `AplRecord`s or paths its deployment will set in or delete from the root store, `outcome` its
answer. Nothing in the code reads `before`, `pushed`, `stale`, `edited` and `remover`: they remember what happened, for the
properties to speak of.

| actions | code |
|---|---|
| `Begin` | `setSessionStack`: pull, worktree |
| `CreateTeam`, `EditTeam`, `DeleteTeam` | `createAplTeam`, `editAplTeam`, `deleteAplTeam` |
| `CreateWorkload`, `EditWorkload`, `DeleteWorkload` | `createAplWorkload`; `editAplWorkload` and `editWorkloadValues`; `deleteAplWorkload` |
| `CreateCodeRepo`, `EditCodeRepo`, `DeleteCodeRepo` | `createAplCodeRepo`, `editAplCodeRepo`, `deleteAplCodeRepo` |
| `CreateKnowledgeBase`, `EditKnowledgeBase`, `DeleteKnowledgeBase` (with `SaveKnowledgeBase`) | the handlers of knowledge bases, which write a manifest and a database |
| `CreateItem`, `EditItem`, `DeleteItem` | the handlers that write one file and one record: network policies, services, builds, sealed secrets, agents, and the edit of a policy |
| `EditApp`, `ToggleApps`, `ToggleAppsUnknown` | `editApp`; `toggleApps`, and its failure when one application is unknown |
| `Reject` | any refusal before something was changed |
| `Land`, `LandInPart`, `LandNothing`, `SaveFails` | `save` |
| `SetRoot` | `set` and `delete` on the root store, `cleanSession` |

The copy of the store and the handler are one step: from the copy on a handler reads and writes what is its own, so it
can be taken to happen at the time of the copy. Root store reloads by the poll and at a restart are left out here (`GitOps`
has them): they bring the store closer to the branch, and no property below relies on their absence but
`StoreFollowsBranch`, which speaks of deployments alone. A change of the git merge within one file is a conflict, as in
`GitOps`; two writes with the same bytes (an empty file, the same flag of an application) are no conflict. The merge
of old and new attributes by `PUT` and `PATCH` is left out. Of a build it is kept that its name is taken by the workload
made for it. The database of a knowledge base is in no entry of the map from files to kinds, so a reload does not see
it; the handlers address it by its path. `getAllTeamResourcesByKind` finds files by a part of their path and could
return those of another kind whose path contains it; the names in use have no such pair.

### State of `GitMigration` and the code

`remote` says what is on each remote (a repository and branch): the requests deployed there, or `Empty` when there is no such
branch. `secret` is the git configuration in the cluster, `config` and `client` are `readOnlyStack.gitConfig` and the remote
`readOnlyStack.git` was made for, `clone` is the directory of the root clone with the remote it came from and its HEAD,
`named` the remote that `migration-remote` stands for in its git configuration, `locked` and `isLoaded` are fields of
`readOnlyStack`. Each request has `pc`, an entry in `sessions` or none, a `worktree` or none (it may be removed under it),
and an `outcome`; `read` is the configuration that the timer, or an attempt of `initGit`, has read and not used yet,
`attempt` the number of that attempt. `Editors` are requests that edit the settings of `otomi`. One that brings a repository
with its password stores it as a migration does (`storeGitConfig` in `editSettings`), before it is saved; one that does not
is a deployment like any other. Two variables are for the properties only: `before`, who had been answered when a request was
admitted, and `course`, whether `initGit` has gone `straight` since the process started, has had to try again (`retried`), or
was run by two at once (`met`).

| actions | code |
|---|---|
| `Admit`, `Setup`, `SetupFails` | `nextHandler` with the lock; `setSessionStack`, `initGitWorktree` |
| `Save`, `SaveFails`, `Finish`, `FinishFails` | `save`, and the rest of `doDeployments` |
| `Test`, `TestFails` | `testRemoteConnection`, and `migrateGitSettings` up to its first await |
| `Name`, `PushNew`, `NameFails`, `PushNewFails` | `pushToNewRemote`, `cleanSession` in `commitAndPushMigration` |
| `StoreSecret`, `StoreFails`, `SetConfig` | `storeGitConfig`, by a migration or an editor; the secret may be written although the call fails |
| `Refresh` (in `SetConfig`, `PollAssign`, `PollReadFails`), `LockFails`, `Clean`, `Load`, `UnlockFails` | `refreshGitClient`: comparison, `lockApi`, `cleanAllSessions`, and `loadValues`, `unlockApi` at the end of `initGit`; by a migration, an editor or the timer |
| `Clone`, `Sync`, `AttemptFails`, `Reread`, `TakeOver` | one attempt of `initGit`: `getRepo`; `pull` and the look for the cluster's settings; what fails in between, with or without a clone left behind; the configuration read again, and assigned |
| `PollRead`, `PollReadFails`, `PollAssign` | `updateGitConfig`: the await and the assignment after it |
| `PollCompare`, `PollPull`, `PollPullFails`, `PollReload` | the rest of `checkAgainstGit` |
| `Restart` | a restart of the container at any point; `Restarted` is also what a failure in the timer ends in, an unhandled rejection |

Left out here: conflicts and retries (`GitOps`), the content of the root store, a change of credentials or identity alone (it
moves nothing, though it recreates the client), environment variables that override the stored configuration, and
two polls at once. A restarted container has an empty `/tmp` and clones anew; while the configured branch does not exist
it exits and starts again, and serves nobody (`isLoaded` false).

`getRepo` works on the clone it finds, whatever remote that is of, and makes one only if there is none (`Origin`). So after
an attempt that failed with a clone made, or after two `initGit` that met, client and clone can be of different remotes;
`SwitchesRemote` shows it (section 5). An edit of `otomi` also writes its settings and is deployed; that is a deployment
here, in the worktree the refresh may have removed, and one of `Settings` there.

Three things one meets in the model and might not expect. A poll that read the old configuration before a migration
stored the new one assigns it afterwards: the migration's own refresh then clones the old remote again, or does not refresh at
all, and answers success; a later poll puts it right (`FollowsSecret`). The comment of `migrateGit` (`api/v2/git.ts:25`)
speaks of a push to the current remote as well, which the code does not make. And `migration-remote` is a name that all
worktrees share: when migrations overlap, one can push to the target of another and leave its own without a branch,
which is why `LossBounded` is about the remotes that have one.

### State of `Settings` and the code

`branch` is the tree on the git server: for each setting who wrote its attributes, which of those that reads add are in it
(`extra`), what secret its file has, and the sealed secret that belongs to it. `root` is the root store as it shows the same,
`start` and `work` are a request's worktree when it was made and when the handler is done, `seen` the secrets its client was
shown by an earlier `GET`, `target` the records its deployment will set. A secret is who chose or encrypted it and how many
times it is encrypted, which is all the code's comparison of a returned ciphertext with the sealed one depends on. `stale`
and `changed` remember what happened, for the properties: whose store had other settings than the worktree, and who has
landed a change of a sealed secret. A session's store shares the settings objects with the root store, so a read by a session
changes `root` (section 2, `Resources`, and `CompleteIsolation`).

| actions | code |
|---|---|
| `GetSettings`, `Fetch` (with `Merged`) | `getSettings`, for some keys or for all, which changes the objects of the store: `mergeEncryptedSecretsIntoSettings`, and the git configuration and the node selectors set in those of `otomi` |
| `Begin` | `setSessionStack` |
| `EditSettings` | `editSettings`, `extractAndStoreSettingsSecrets`, `saveSettings`: one secret blank, new or returned as shown |
| `ObjWizard` | `createObjWizard`, which ends in the same edit |
| `CreateNamespaceSecret`, `EditNamespaceSecret`, `DeleteNamespaceSecret` | the handlers of namespace sealed secrets |
| `Land`, `Fail`, `SetRoot`, `SetRootFails` | `save`, and the rest of `doDeployment(s)` |
| `Reload` | `loadValues` with the merge of legacy files `secrets.<id>.yaml` (`FileStore.load`) |
| `OtherCommit` | somebody else pushes |

Every operation that looks something up calls `getSettings`, and saving writes all settings from the objects it has
changed. So an edit of `dns` can commit a `git` block and a list of node selectors to the file of `otomi`, though an edit of
`otomi` takes the first out on purpose. `storeGitConfig` in an edit of `otomi` is in `GitMigration`.

Left out: several secret values in one setting (they are extracted one by one in the same way), the certificate used to
encrypt (`getSealedSecretsCertificate` takes the first of those the cluster lists, `k8s-operations.ts:369`), and the
deletion of a setting, which there is not.

### State of `Users` and the code

`manifests` are the user manifests on the branch, `secrets` what the cluster has made of them, `accounts` the addresses
Keycloak knows; `SyncSecret` and `Provision` are the controllers in between, at their own pace and with no
promise of order. A request has a `base` and a `draft` of the manifests (its worktree when it began, and now),
and an `actor`, who may be a platform administrator or a team administrator. `listed` and `known` are what a creation has
found to compare with; both calls that find it return nothing when they fail. `behind`, `mail` and `moved` remember, for the
properties, whose secret was not what the worktree has, first addresses, and which addresses were edited.

| actions | code |
|---|---|
| `UserBegin` | `setSessionStack` |
| `ListUsers`, `AskKeycloak`, `CreateUser` | `createUser`: `listUserSecretData`, `getKeycloakUsers`, comparison, `saveUser` |
| `EditUser`, `DeleteUser` | `editUser`, `deleteUser`: from the user's secret in the cluster |
| `EditTeamUser` | one user of `editTeamUsers` with `canTeamAdminUpdateUserTeams` |
| `UserLand`, `UserFail` | `doDeployment(s)`, `doDeleteDeployment`; a refusal, a conflict, a failure |

### State of `CloudTty` and the code

`objects` are the Kubernetes objects of each shell that exist, `pod` what the cluster says of its pod, `holder` the shell
whose service account a role binding names. A binding's name does not tell the namespace, so shells share it. Each caller
comes with a token, whose teams (or administrator's role) say which bindings its call goes through: `rights`, one of the
possible `BindingsOf` the shell, another one each time. `todo` is what is left to create or delete, in the order of
`createTty` and `deleteTty`; `taken` remembers, for `AllOrNothing`, the bindings of the token a shell was last deleted with.
`Connect`, `Reconnect`, `DeleteCloudtty` are the handlers' beginnings, `CreateNext`, `CreateFails`, `DeleteNext`,
`DeleteFails` one call each, `WatchPod` is `watchPodUntilRunning`; `PodStarts`, `PodEnds`, `PodFails` are the cluster,
`TtyRestart` ends the API. The half-hourly callback that would delete idle shells is left out: it asks for the log of a
container `po` (`k8s-operations.ts:108`) in pods whose container is `tty` (`tty.ts:168`), gets an error and deletes nothing.

### State of `Catalog` and the code

`tip` is the tip of each repository, as a number of commits since its history was last rewritten; `catalog` the
repository of each catalog in the root store; `dir` the catalog's directory: whether it is there, what clone is in it and of
what, and whether the marker file is there and younger than the refresh interval. `job` is one call of
`getBYOWorkloadCatalog`, by a request, by the first clone nobody awaits, or by the timer, and `queue` what a refresh
will turn to after it.

| actions | code |
|---|---|
| `CreateCatalog`, `EditCatalog`, `DeleteCatalog`, `RemoveDir` | the handlers of catalogs; a deletion removes the directory later than the record |
| `ReadCatalog`, `Refresh`, `RefreshNext` | readers; `refreshBYOCatalogCache`, on request or by the timer |
| `Look`, `StartClone`, `EndClone`, `CloneFails`, `Fetch`, `FetchFails`, `Mark`, `ReadCharts` | `fetchWorkloadCatalog` and `ensureLatest` |
| `Expire`, `Commit`, `Rewrite` | time, and the owners of the repositories |

Left out: a change of a catalog's branch (another directory), disabled catalogs, which are not visited, and a catalog
whose `metadata.name` and `spec.name` differ.

### State of `Authz` and the code

`teams` and `flags` are the teams of the root store and what each permits its members; `request` is the one request on
its way. `Identify` is `getUser`: roles in the order of the token's groups, and teams. `Decide` is
`groupAuthzSecurityHandler`, some awaits later: the self-service flags of all of the user's teams, the rules of
`authz.ts` as CASL evaluates them (the last that matches decides), and the check of properties with an access list of their
own. A rule has its place in the list `createRules` makes: the turn of a role, and in it grants, denials, and the grants for the
properties of a property. The access lists in `MCServices` are those of three schemas of `src/src/openapi`;
`AccessListsAssumption` says what all of them there have in common. `ChangeTeam` and `DropTeam` are other requests.

## 3. What TLC checks

The runs of `GitOps` use module `MCGitOps`: two files, one present at first; requests write the present file or both.

| run | bounds | shows |
|---|---|---|
| `writes` | 2 requests, 1 external commit, 4 attempts, 1 failure in the root clone, 1 in a worktree, 1 restart; timer off | the safety properties below and `ImplementsSI` |
| `cache` | 1 request, 1 external commit, 2 failures in the root clone, 1 in worktrees, 1 restart, timer on, fair scheduling | `EveryRequestAnswered`, `PollHeals`; the inductive invariant of section 4, `AnswerInductive` |
| `acked` | 1 request, 1 external commit, no failures | a violated expectation (section 5) |
| `stale` | 1 request that deploys nothing, 1 external commit, no failures, fair scheduling | a violated expectation (section 5) |
| `resources` | 3 requests; 1 team with 1 workload, 1 knowledge base, 1 build, 2 code repositories and 1 URL; 1 application | the safety properties of `Resources` and its inductive invariant |
| `isolation` | 1 request | a violated expectation (section 5) |
| `migration` | 1 migration to 1 new remote, 1 other request, 2 attempts of `initGit`, timer on, fair scheduling; 2 failing calls or commands and 1 restart, or none of these and a request that names the old remote | the properties of `GitMigration` and its inductive invariant |
| `switch` | 1 migration, 2 attempts, 1 failure, timer on, fair scheduling | a violated expectation (section 5) |
| `settings` | 2 requests, 1 external commit, 3 settings: with sealed secrets, with legacy ones (the wizard's), and `otomi` | the properties of `Settings` |
| `ciphertext` | 1 request, no external commit | a violated expectation (section 5) |
| `services` | users: 2 requests, 2 residents, 3 addresses, 1 team; shells: 2, tokens with and without the binding they share, 2 callers, 3 calls, 1 fault; catalogs: 1, 2 repositories, the timer and 1 job of requests, 1 change, 1 failing command, 3 requests; authorization: 2 teams, tokens of up to 2 groups, 3 schemas | the properties of `Users`, `CloudTty`, `Catalog`, `Authz` |
| `origin` | catalogs only, no failing command | a violated expectation (section 5) |

Four attempts reach everything `pushWithRetry` can do: plain attempts 1 and 2, the advanced third, and the
fourth, the first that meets what the recovery left behind. The default is twelve; attempts five and up
repeat this. One external commit suffices to conflict, to be forced away and to be missed by a reload; two
requests suffice for either to be the other's concurrent committer. One failure of each kind already starts
each recovery. What holds beyond these bounds is the subject of section 4. The timer is off in `writes`
because it neither commits nor touches worktrees; `cache` has it, and the theorems
cover all actions.

Safety: `RootFollowsBranch` (the root clone never has history of its own), `FirstCommitterWins` (no
deployment replaces what others changed in a file since the worktree was created), `AtMostOnce` (a retried
push lands once), `AckedOrOvertaken` (success only for what was pushed, unless somebody overtook the
request), `NoDirtyReads` (readers see nothing that failed or is not yet pushed), `OnlyRecoveryRewrites`
(an action property: only the forced push of a recovering root clone removes commits from the branch),
`ImplementsSI` (under the mapping of `GitOpsRefinement` every step is a step of the versioned store `SnapshotIsolation` or
leaves it alone, until a root clone fails for the first time; from then on history can be forced away, which that store
does not know).

Safety of `Resources`: `ResourcesWhole` (a knowledge base has both of its files on the branch or none, always; a workload all
of its three or none, as long as nobody pushes what was decided on a store that is not what the worktree is; without that
condition TLC finds an edit that writes back one file of a workload deleted meanwhile, which cannot happen to knowledge bases
because every handler of theirs writes or removes both files), `DeletionSweeps` (what is in a deleted team's directory was
written by a request that had not been answered when the deleting one began), `StoreFollowsBranch` (one request at a time and
none failing, the root store shows the branch, but for the values a deleted workload leaves and the managed values a new one
brings, of which the handlers make no record), `UniqueUrls` (one request at a time, two repositories of a team share a URL
only after an edit, which compares nothing, or after a creation answered with an error although pushed, which later ones do
not see). That concurrent creations share a URL is what two overlapping requests do by design of the check, which is why the
property is stated for one at a time.

In `resources` a third request is what it takes to delete, create anew and meet a late one; a fourth adds no new pair of
overlapping requests. A second team or workload would only be independent files. Two repositories and one URL are the
smallest instance of a duplicate; a known application and an unknown one are those of a toggle that half fails. One
knowledge base and one build are enough since their handlers look at nothing but their own files and at the names the
build's workload takes. Requests and repositories are symmetric. The run may stop: requests are limited, here and in
the runs below.

Safety of `GitMigration`: `AckedSomewhere` (a deployment whose worktree is removed under it is not acknowledged unless it was
pushed), `LossBounded` (a remote that has the branch has everything acknowledged before the first migration was admitted;
what is acknowledged during one may be on the old remote only, since the lock is read once, at admission). `Inductive` is the
strengthening proved in section 4. One migration, one request and two failures bring about every order of the two refreshes
(the migration's and the poll's), of the request's steps among them, and a failure on either side of each; two attempts are
enough for one to fail and the next to meet what it left, and for the last to end the process. In half of the run (`names` of
`MCGitMigration`) the other request is an edit of `otomi` that stores the old remote again, after the migration or beside it:
the bounds on failures and restarts are 0 there, but each call of a request may still fail. What holds of any number of them
is proved. `LockReleased` and `FollowsSecret` are stated for migrations that do not overlap: two at once can take off each
other's lock and directory.

Liveness of `GitMigration`: `LockReleased` (a lock comes off: by `initGit`, by the next refresh, or with the process) and
`FollowsSecret` (in the end the client is that of the remote named in the cluster and there is a clone; and where `initGit` went
straight since the process started, the clone is of that remote too. It is not after an attempt that failed or two that met,
which is what `switch` shows of the first). Fairness is that of `GitOps`: a request that has begun and the timer take their
steps. Failures are bounded, and nothing is assumed of restarts.

Safety of `Settings`: `PlaintextStaysOut` (a readable secret in a settings file comes from a legacy file), `SealedOnce` (if a
sealed secret opens to another ciphertext, then a request other than the one that sealed it has landed a change of that
secret: reading, reloading and saving alone never do it. That a race does is said in section 5), `OnlyItsSetting` (landing an
edit leaves all other settings and their secrets as they were, although every file is written, but for what reads have added
to the file of `otomi`, which loses nothing either; unless the store lacked something its worktree had). Two requests and one
other commit give every order of two edits, of an edit and a namespace secret, and of either with a reload.

Safety of `Users`: `UniqueEmails` (two users with one address, never edited, mean that neither creation saw the other user),
`DefaultAdminStays`, `TeamAdminScope` (a team administrator's commit changes nothing else of a user than membership in the
own teams, as the branch has the user when the commit lands), `NoComeback` (a deleted user returns only through a request
that read a secret the deletion had not reached). The conditions about edited addresses and secrets that are behind are
needed: TLC finds a default administrator who is renamed and deleted, and an edit that brings a deleted user back. Two
requests overlap in every way; three addresses let two creations choose the same new one; one user whose id is not well
formed has the failing deletion.

`CloudTty`: `AllOrNothing` (a shell nobody works on is whole, or it is gone and so are the bindings of the token it was
deleted with, unless something failed or two callers met; a binding of a team that its user left before the deletion stays,
since `deleteTty` does not know it), `WholeShell` (a user is sent to a shell that has all its objects). Two callers, two
shells and a shared binding bring about every meeting; three calls are a creation, a deletion and a second creation.

`Catalog`: `RightRepository` (charts are of the repository the reader's catalog had, unless it was edited, or deleted with
jobs in its directory), `MarkedIsWhole` (the marker says that there is a clone, unless the directory was emptied under somebody),
`CatalogCatchesUp` (a clone gets its repository's commits). One catalog suffices, since directories are
independent; two repositories tell right from wrong, and the timer and a request meet in every step. Fairness
(`CatalogFairness`): a job goes on (git ends or times out), and the timer comes again.

`Authz`: `RolesAddUp` (what one role of a token would be allowed alone, the token is allowed, whatever the order of its groups),
`AllowedTeamExists` (a request let through for a team of the user, that no role may make for any team, is for a team that
still exists). One request suffices: requests share only the teams, which others change at any time.

Liveness of `GitOps`: `EveryRequestAnswered` and `PollHeals`. Fairness is weak fairness of the timer's process and of each
request that has begun: the event loop runs whatever is ready, every git command ends or times out. Nothing is
assumed of requests to come, external commits, failures or restarts.

## 4. What TLAPS proves

For every set of sessions, others, files and write sets and every bound on attempts, failures and restarts
(assumptions `SetsAssumption`, `NumbersAssumption`, `NamesAssumption` of `GitOps`: names are distinct, numbers are
naturals, at least one attempt):

* `TypeCorrect`: `Spec => []TypeOK`, by one lemma per group of actions.
* `InductiveInvariant`: `Spec => []Inductive`. `FirstCommitterWins` alone is not inductive. A push is the
  moment it could break, and what makes it hold there was established by earlier pulls: `Rebasable` carries from
  rebase to rebase that whatever the session still changes is, at its base, as its worktree found it.
  `AtMostOnce` needs `NotYetLanded` (a session with something left to push has not landed below its own commit)
  and must be stated for every history (`SingleLanding`), because a forced push may bring any of them back.
  Both need `GraphOK`, the shape of the commit graph, and `BeforeCommit`. The proof has one lemma per group of
  actions over two lemmas about commits: `QuietLemma` when none is added, `PushedLemma` when one is; `FrameLemma`
  takes care of the sessions that do not move.
* `RootOnBranch`, `NoLostUpdate`, `PushedOnce`, `BranchOnlyGrows` follow.
* `AnswerInvariant`: `Spec => []AnswerInductive`, the invariant of what an answer means. That two versions of one
  history differ in a file only if a commit between them changed it would be an induction over the history; `EditsBetween`
  says it of all histories at once, and a new commit adds itself to one that has it. `StartsStay`: the root clone never
  goes back, and a forced push pushes what it has, so a worktree's first commit is in every history the session is rebased on.
  A file drops out of a session's change because a pull resolved a conflict or found it already there; `ConflictLemma`
  shows that a conflict is somebody else's doing, so `Accounted` (still to be pushed, pushed, or overtaken) survives
  every pull. `Delivered` never ceases to hold, since it speaks of all commits there ever were.
* `AckedIsDelivered` and `ReadersSeePushed` (`AckedOrOvertaken`, `NoDirtyReads`) follow; the second also needs
  `LoadedIsPushed`, for reloads that are under way when a deployment ends.
* `Implementation`: `Spec => ImplementsSI`. The further invariant `Linear` says that, until a root clone fails for the first
  time, nothing was ever forced and the commits form one line; pushes map to commits of the abstract store,
  `AddWorktree` to the beginning of a transaction, and everything else is invisible. `Refinement` concludes that with
  `MaxRootFailures = 0` `GitOps` implements the whole of `SnapshotIsolation`. With a forced push the mapping fails,
  since the store would have to forget a version.

For `Resources`, every set of requests, teams, workloads, repositories, applications and URLs (assumption
`ResourcesAssumption`: names are distinct, and at first a workload has all of its files or none):

* `TypeCorrect`: `Spec => []TypeOK`, which includes that no record or entry of the root store refers to an object that
  was never made.
* `WholeInvariant`: `Spec => []WholeInductive`. `ResourcesWhole` is not inductive: what a push does to the files of one
  resource depends on what the request found when it started and on which of them conflict. `WholeChange` says what a
  handler's change can be, for a workload and for a knowledge base; a push of it keeps the resource whole because a conflict on
  one file of a deletion or a creation is one on all that differ, or one that `LandInPart` cannot settle. `KeptStep` is for
  handlers that touch no file of a bundle, `SaveInductive` for the ends of a commit, `OtherStep` for the rest.
* `WholeResources` (`ResourcesWhole`) follows.
* `SweepInvariant`: `Spec => []SweepInductive`, and `SweptClean` (`DeletionSweeps`) from it. A deletion of a team removes what its
  worktree has; what else is on the branch when it lands has come since it began (`Since`), and by nobody who had been
  answered before. That stays true of who removed the settings last, until they are written again.
* `AloneInvariant`: of requests that never overlapped all others are answered when one takes a step (`OnlyOne`), so its
  worktree is the branch. On it rest the two invariants that relate the store to the branch through a request, by what each
  would be afterwards (`Stored`, `Merged`): `FollowInvariant`, that the records do to the store what the change does to the
  branch, and `UrlsInvariant`, that the store knows every URL on the branch that nothing excuses. They need one fact of every
  handler: `HandlerLemma` sorts them into those that put, those that take, `toggleApps`, and those that give up.
* `RecordsFollow` and `NoUrlTwice` (`StoreFollowsBranch`, `UniqueUrls`) follow. These three invariants are not among those of
  a run; TLC found no violation of them with the constants of `resources`.

For `GitMigration`, every set of requests, editors, migrations and remotes and every bound on attempts, failures and restarts
(assumption `MigrationAssumption`: names are distinct, bounds are naturals, at least one attempt):

* `InductiveCorrect`: `Spec => []Inductive`. `LossBounded` is not inductive: a new remote receives the HEAD of a worktree,
  so that must have what is early (acknowledged before any migration was admitted), and so must the root clone it was
  made from; an acknowledgement adds to what is early only while nothing was ever moved, and then there is one
  remote that has the branch. The proof calls `Quiet` what all steps but `Admit` and `Finish` have in common
  (branches only grow, a branch that is created and every checkout that is made have what is early), shows that
  such steps keep the invariant (`QuietKeeps`), and treats these two on their own.
* `TypeCorrect`, `NothingEarlyIsLost` and `AckedIsSomewhere` follow.

For `Settings`, every set of settings, requests and other committers (assumption `SettingsAssumption`: those with legacy or
sealed secrets have secret attributes, names are distinct):

* `TypeCorrect`, and `InductiveInvariant`: `Spec => []Inductive`. The invariant says of every copy of the tree that could
  reach the branch (the root store, the worktrees as they were and as they are) what the properties say of the
  branch, and of a request about to land that its worktree differs from where it began only in what it is about and in what
  reads add to `otomi` (`Narrow`).
  For `SealedOnce` that is not enough: a client returns what it was shown before, and nothing compares that with what the worktree
  has by then. `OriginalEverywhere` says that as long as nobody has landed a change of a sealed secret the one of the beginning
  is the only ciphertext in the branch, the stores, the worktrees and the hands of clients; so whoever seals a
  ciphertext does so after a change that somebody else has landed, as a request has landed nothing before it is done.
* `NoPlaintext`, `NoDoubleSealing` and `EditsStayLocal` (`PlaintextStaysOut`, `SealedOnce`, `OnlyItsSetting`) follow; for the last
  the guard of `Land` is what keeps the others' settings.

For `Users`, every set of residents, requests, actors, addresses and teams (assumptions `UsersAssumption`: the default
administrator is a resident, residents have addresses, names are distinct; `NobodyAssumption`: no user is `Nobody`):

* `TypeCorrect`, and `InductiveInvariant`: `Spec => []UsersInductive`. `Genuine` says of each copy (branch, cluster, worktrees)
  that its users were created, have their first address unless it was edited, and that the default administrator is
  among them; `Remembers` what a creation knows of those it listed; `Drafted` what the worktree of a team
  administrator's request may have made of users it read in time.
* `DistinctEmails`, `AdminStays`, `TeamAdminsKeepScope` and `DeletedStaysDeleted` (`UniqueEmails`, `DefaultAdminStays`,
  `TeamAdminScope`, `NoComeback`) follow.

For `Catalog`, every set of catalogs, repositories and jobs and all bounds (assumption `CatalogAssumption`: names are
distinct, bounds are naturals):

* `TypeCorrect`, and `InductiveInvariant`: `Spec => []CatalogInductive`. A job about to write the marker has a whole clone
  (`MarkerEarned`); catalog, jobs, queues and directory agree on one repository (`Agreed`), and of a catalog that is gone
  with its directory nothing is left (`Cleared`), which is what makes creating it anew safe.
* `MarkersTellTheTruth` and `ReadersGetTheirOwn` (`MarkedIsWhole`, `RightRepository`) follow.

For `CloudTty`, every set of shells, bindings and callers and all bounds (assumption `CloudTtyAssumption`):

* `InductiveInvariant`: `TtySpec => []TtyInductive`. Nothing in the code tells two callers of one shell apart, so
  `AllOrNothing` excuses shells they met at or a call failed for (`torn`). The invariant says of who works alone that
  everything its list is through with is there, or is gone (`Progress`), and of who does not that the shell is torn
  (`NotAlone`); at the end of the list `Progress` is `Complete` or `Clear`. The list is that of the token at hand, so the
  rights that must be gone are those `taken` remembers, and no later call of another shell's gives them back.
* `WholeOrGone` and `WholeShellShown` (`AllOrNothing`, `WholeShell`) follow.

For `Authz`, every set of teams, groups and schemas (assumptions `AuthzAssumption`: kinds; `AccessListsAssumption`, which all
access lists of `src/src/openapi` satisfy: a property's list gives both roles of a team the same, or it is a property with
properties whose list gives them something for own teams only; for the five actions that need self-service a platform
administrator has the right for any team):

* `AllowedForOwnTeam` (`AllowedTeamExists`) needs neither assumption.
* `RolesAreAddedUp` (`RolesAddUp`): a denial made for one role could override what another is granted, since the last rule that
  matches decides. Where both roles have the same list it denies nothing of it; where the property has properties, every role's
  grants are repeated in the turn of the last role, after all denials. With other access lists the property fails: a
  property without properties that a team administrator may change and a member may not would be denied to who is both.

Only model-checked are the liveness properties: `LockReleased`, `FollowsSecret`, `EveryRequestAnswered`, `PollHeals` and
`CatalogCatchesUp`. Liveness under fairness and `ENABLED` are out of the prover's reach here. Induction over data and recursive
operators are too; the modules above use neither, and where an argument is an induction over a history the invariant states
its conclusion for all histories.

## 5. Where the code differs from what is said of it

| run | expectation | what happens |
|---|---|---|
| `acked` | `git.ts:237` "our changes win conflicts" | conflict on attempt 1, refused pull on 2, `reset --hard` and failed rebase on 3; on 4 the detached worktree pulls and pushes nothing: answered with success, set in the store, on no branch |
| `stale` | `app.ts:63-64` "if the latest online is newer it will be pulled locally" | somebody pushes; the pull of a request that is refused, or deploys nothing, advances `commitSha` without a load; the poll sees no difference and the store never gets the commit |
| `isolation` | `docs/gitops.md:218` "complete isolation between concurrent operations" | `toggleApps` changes the object its session shares with the root store: visible before the push, and after its failure |
| `ciphertext` | `otomi-stack.ts:2734-2735` settings are read "without secrets" "to avoid writing encrypted ciphertext into settings YAML files" | `getSettings` (`:574`) has merged ciphertexts into the objects the store holds; a later edit of any setting writes them to the branch |
| `switch` | `otomi-stack.ts:346-347` "refresh from K8s on retries to pick up ESO credential syncs [...] (e.g. git provider switch)" | an attempt of `initGit` fails after `getRepo` has cloned; the next takes the new configuration and works on the clone it finds: client and configuration are new, pulls and pushes go to the old remote for ever |
| `origin` | `openapi/api.yaml:1395` "Successfully refreshed catalog cache(s)" | a catalog's URL was edited: `ensureLatest` (`workloadUtils.ts:261`) finds a `.git` and fetches from the old repository, for ever |

Others were met while modelling and have no run of their own.

* "Every editor gets their own folder to detect conflicts upon deploy" (`otomi-stack.ts:337`): the worktree can be newer than
  the copied store, and then a handler overwrites a content it was never shown, without conflict; `FirstCommitterWins` speaks
  of the worktree for this reason.
* "To ensure that GET requests can obtain the updated resources" (`docs/gitops.md:123`): a reload that had read its files
  before a deployment replaces the store after it, until a poll finds the branch ahead (`PollHeals`).
* "If the latest online is newer it will be pulled locally" (`app.ts:63-64`) fails in a second way: of two deployments of one
  file the one that pushed first sets the store last (`otomi-stack.ts:2155`), after the poll has loaded the branch; the poll sees
  no difference and readers keep the older content. `Converges` is violated by it with two requests.
* "Preventing double encryption of unchanged secrets" (`sealedSecretUtils.ts:303-304`): a client returns the ciphertext it was
  shown, which another request has replaced; it is no longer the sealed one (`:312`) and is encrypted. `SealedOnce` excuses
  this race and nothing else.
* "Migration successful. API is now locked." (`openapi/api.yaml:2081`): `storeGitConfig` awaits `refreshGitClient`, whose
  `initGit` unlocks, so success is answered with the API unlocked (`LockReleased`).

## 6. What is not modelled, and the plan

Hazards without a property, and why: `getAplTeam` takes the password out of the object the store holds
(`otomi-stack.ts:1031`): objects of `Resources` have one attribute, and `Settings` shows the same kind of read that writes.
Two deployments set the store in the other order than they pushed (`otomi-stack.ts:2155`): section 5. `watchPodUntilRunning`
asks for ever after a pod that failed or is gone (`k8s-operations.ts:27`): no document promises an end. `deleteUser` writes
to the worktree and then fails for an id that is no well-formed name (`otomi-stack.ts:1365`): `DeleteUser` has the guard, and
no document says otherwise. Shells share role bindings, and a deletion or a second creation takes them from another
(`tty.ts:413`): `CloudTty` has the holder, and the code makes no promise about it.

Hazards a property covers in part, and what it leaves open (`PROJECT.json` says it of each): two creations that run at the
same time can take one URL or one e-mail address, as each is checked against what it can see; a renamed default administrator
can be deleted; a user can be sent to a shell whose creation failed half way once its pod runs; the binding of a team a user
has left outlives the shell; what reads add to `otomi` reaches its file; after an `initGit` that failed in between, or two
that met, the clone may be of another remote than the client.

Not modelled: verification of tokens and calls to the identity provider, rate limiting, route adapters and schema validation,
object conversions, probes of external repositories, status queries and their broadcast, the custom resources made for AI
agents (templates), and the development mode without a remote. They keep no state or decide nothing across requests. Within
modelled components: two ticks of the timer at once, sockets, sessions of write methods that deploy nothing (but for
`HandleOnly`), and the idle callback of the shell. Nothing in the code bounds the branches of sessions, which stay when a
worktree goes, nor the sessions of methods that deploy nothing (`git.ts:314`), so there is no bound to state.

What would come next, in this order:

1. Theorems: the implementation of `SnapshotIsolation` with forced pushes, for an abstract store that may forget versions.
2. `SessionLifecycle`: entries, worktrees and branches from set-up to clean-up, with the methods that never clean up.
3. Two overlapping polls in `GitOps`.
