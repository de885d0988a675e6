-------------------------------- MODULE Catalog --------------------------------
(***************************************************************************)
(* The cache of chart catalogs.  Each catalog names a git repository; its  *)
(* charts are read from a clone in a directory named after the catalog,    *)
(* which readers, refreshes and deletions work in at the same time.        *)
(*                                                                         *)
(*   src/src/utils/workloadUtils.ts  ensureLatest, fetchWorkloadCatalog    *)
(*   src/src/otomi-stack.ts          catalogs, refreshBYOCatalogCache      *)
(*   src/src/app.ts                  cloneCatalogRepositories              *)
(*                                                                         *)
(* A catalog's branch is part of its directory's name and never changes    *)
(* here; its definition is what the root store has.  Fetch, checkout and   *)
(* pull of a refresh are one step that fails or not.                       *)
(***************************************************************************)
EXTENDS Naturals

CONSTANTS
    Catalogs,       \* names of catalogs, and of their directories
    Urls,           \* git repositories
    Timer,          \* the job of the periodic refresh
    Visitors,       \* jobs of requests, and those nobody awaits
    MaxChanges,     \* bound on commits and rewritten histories, of all repositories
    MaxMishaps,     \* bound on git commands that fail
    MaxVisits,      \* bound on requests
    NoUrl

Jobs == Visitors \cup {Timer}

ASSUME CatalogAssumption ==
    /\ Timer \notin Visitors
    /\ NoUrl \notin Urls \cup Catalogs
    /\ MaxChanges \in Nat /\ MaxMishaps \in Nat /\ MaxVisits \in Nat

\* The tip of a repository: commits, since its history was last rewritten.
Tip == [history : 0..MaxChanges, version : 0..MaxChanges]

\* A directory: whether it is there, the clone in it and the marker file's age.
Dir == [there : BOOLEAN, git : {"none", "partial", "whole"}, origin : Urls \cup {NoUrl},
        at : Tip, marker : {"none", "old", "fresh"}]

VARIABLES
    tip,        \* the tip of each repository
    catalog,    \* the repository of each catalog in the store
    dir,        \* the directory of each catalog
    job,        \* where a job is, at which catalog, with the repository that had then, and
                \* whether it trusts the marker
    queue,      \* catalogs, as they were, a job will turn to
    deleting,   \* deletions that have not removed their directory yet
    mixed,      \* catalogs given another repository while there was a clone, or jobs
    swept,      \* catalogs whose directory was emptied while jobs worked in it
    changes,    \* changes of repositories so far
    mishaps,    \* git commands that failed
    visits      \* requests so far

catalogVars == <<tip, catalog, dir, job, queue, deleting, mixed, swept, changes,
                 mishaps, visits>>

Start0 == [history |-> 0, version |-> 0]
Empty  == [there |-> TRUE, git |-> "none", origin |-> NoUrl, at |-> Start0, marker |-> "none"]
Absent == [Empty EXCEPT !.there = FALSE]

Resting == [pc |-> "rest", at |-> NoUrl, wants |-> NoUrl, force |-> FALSE]

CatalogInit ==
    /\ tip = [u \in Urls |-> Start0]
    /\ catalog = [n \in Catalogs |-> NoUrl]
    /\ dir = [n \in Catalogs |-> Absent]
    /\ job = [j \in Jobs |-> Resting]
    /\ queue = [j \in Jobs |-> {}]
    /\ deleting = {}
    /\ mixed = {}
    /\ swept = {}
    /\ changes = 0
    /\ mishaps = 0
    /\ visits = 0

At(n)     == {j \in Jobs : job[j].at = n}
Unused(j) == job[j] = Resting /\ queue[j] = {}
Go(j, p)  == job' = [job EXCEPT ![j].pc = p]
Leave(j)  == job' = [job EXCEPT ![j] = Resting]

Request == visits < MaxVisits /\ visits' = visits + 1

\* getBYOWorkloadCatalog for a catalog as it is, or was when the job began.
Visit(j, n, u, forced) ==
    job' = [job EXCEPT ![j] = [pc |-> "look", at |-> n, wants |-> u, force |-> forced]]

-----------------------------------------------------------------------------
\* createAplCatalog: nobody waits for the first clone.
CreateCatalog(n, u, j) ==
    /\ Request
    /\ catalog[n] = NoUrl
    /\ Unused(j)
    /\ catalog' = [catalog EXCEPT ![n] = u]
    /\ mixed' = IF n \in deleting THEN mixed \cup {n} ELSE mixed
    /\ Visit(j, n, u, TRUE)
    /\ UNCHANGED <<tip, changes, dir, queue, deleting, swept, mishaps>>

\* editAplCatalog: likewise; the directory stays.
EditCatalog(n, u, j) ==
    /\ Request
    /\ catalog[n] # NoUrl
    /\ Unused(j)
    /\ catalog' = [catalog EXCEPT ![n] = u]
    /\ mixed' = IF u = catalog[n] THEN mixed ELSE mixed \cup {n}
    /\ Visit(j, n, u, TRUE)
    /\ UNCHANGED <<tip, changes, dir, queue, deleting, swept, mishaps>>

\* deleteAplCatalog: the store first.
DeleteCatalog(n) ==
    /\ Request
    /\ catalog[n] # NoUrl
    /\ catalog' = [catalog EXCEPT ![n] = NoUrl]
    /\ deleting' = deleting \cup {n}
    /\ UNCHANGED <<tip, changes, dir, job, queue, mixed, swept, mishaps>>

Swept(n, others) == IF others = {} THEN swept \ {n} ELSE swept \cup {n}

\* Jobs that may still turn to n.
Bound(n) == {j \in Jobs : \E u \in Urls : <<n, u>> \in queue[j]}

\* Fault: the directory is kept.
KeepDir(n) ==
    /\ n \in deleting
    /\ deleting' = deleting \ {n}
    /\ mixed' = IF At(n) \cup Bound(n) = {} /\ catalog[n] = NoUrl THEN mixed \ {n}
                                                                 ELSE mixed \cup {n}
    /\ UNCHANGED <<tip, changes, dir, catalog, job, queue, swept, mishaps, visits>>

\* deleteAplCatalog: then the directory, whoever works there.
RemoveDir(n) ==
    /\ n \in deleting
    /\ deleting' = deleting \ {n}
    /\ dir' = [dir EXCEPT ![n] = Absent]
    /\ swept' = Swept(n, At(n))
    /\ mixed' = IF At(n) \cup Bound(n) = {} /\ catalog[n] = NoUrl THEN mixed \ {n}
                                                                 ELSE mixed \cup {n}
    /\ UNCHANGED <<tip, changes, catalog, job, queue, mishaps, visits>>

\* getAplCatalogCharts, getAplCatalogChart.
ReadCatalog(n, j) ==
    /\ Request
    /\ j \in Visitors
    /\ catalog[n] # NoUrl
    /\ Unused(j)
    /\ Visit(j, n, catalog[n], FALSE)
    /\ UNCHANGED <<tip, changes, catalog, dir, queue, deleting, mixed, swept, mishaps>>

\* refreshBYOCatalogCache: on request, or by the timer if its last run has ended.
Refresh(j) ==
    /\ IF j = Timer THEN UNCHANGED visits ELSE Request
    /\ Unused(j)
    /\ queue' = [queue EXCEPT ![j] = {<<n, catalog[n]>> :
                                         n \in {m \in Catalogs : catalog[m] # NoUrl}}]
    /\ queue'[j] # {}
    /\ UNCHANGED <<tip, changes, catalog, dir, job, deleting, mixed, swept, mishaps>>

RefreshNext(j) ==
    /\ job[j].pc = "rest"
    /\ \E q \in queue[j] : /\ Visit(j, q[1], q[2], TRUE)
                           /\ queue' = [queue EXCEPT ![j] = @ \ {q}]
    /\ UNCHANGED <<tip, changes, catalog, dir, deleting, mixed, swept, mishaps, visits>>

-----------------------------------------------------------------------------
\* fetchWorkloadCatalog makes the directory; ensureLatest looks what is in it.
Look(j) ==
    LET n == job[j].at
    IN  /\ job[j].pc = "look"
        /\ dir' = [dir EXCEPT ![n].there = TRUE]
        /\ Go(j, IF dir[n].git = "none" THEN "clone"
                   ELSE IF ~job[j].force /\ dir[n].marker = "fresh" THEN "read" ELSE "fetch")
        /\ UNCHANGED <<tip, changes, catalog, queue, deleting, mixed, swept, mishaps, visits>>

\* clone: git runs in the directory, which has to be there and empty.
StartClone(j) ==
    LET n == job[j].at
    IN  /\ job[j].pc = "clone"
        /\ IF dir[n] = Empty
           THEN /\ dir' = [dir EXCEPT ![n].git = "partial", ![n].origin = job[j].wants]
                /\ Go(j, "cloning")
           ELSE Leave(j) /\ UNCHANGED dir
        /\ UNCHANGED <<tip, changes, catalog, queue, deleting, mixed, swept, mishaps, visits>>

EndClone(j) ==
    LET n == job[j].at
    IN  /\ job[j].pc = "cloning"
        /\ IF dir[n].git = "none"
           THEN Leave(j) /\ UNCHANGED dir
           ELSE /\ dir' = [dir EXCEPT ![n].git = "whole", ![n].at = tip[dir[n].origin]]
                /\ Go(j, "mark")
        /\ UNCHANGED <<tip, changes, catalog, queue, deleting, mixed, swept, mishaps, visits>>

\* Fault: the marker is written whatever became of the clone.
CloneFailsMarked(j) ==
    /\ job[j].pc = "cloning"
    /\ mishaps < MaxMishaps
    /\ mishaps' = mishaps + 1
    /\ dir' = [dir EXCEPT ![job[j].at] = [Empty EXCEPT !.marker = "fresh"]]
    /\ swept' = Swept(job[j].at, At(job[j].at) \ {j})
    /\ Leave(j)
    /\ UNCHANGED <<tip, changes, catalog, queue, deleting, mixed, visits>>

\* git removes what is in the directory when it cannot complete a clone.
CloneFails(j) ==
    /\ job[j].pc = "cloning"
    /\ mishaps < MaxMishaps
    /\ mishaps' = mishaps + 1
    /\ dir' = [dir EXCEPT ![job[j].at] = [Empty EXCEPT !.there = dir[job[j].at].there]]
    /\ swept' = Swept(job[j].at, At(job[j].at) \ {j})
    /\ Leave(j)
    /\ UNCHANGED <<tip, changes, catalog, queue, deleting, mixed, visits>>

\* Fault: the marker is taken for the state of the clone, forced or not.
FetchMarked(j) ==
    LET n == job[j].at
    IN  /\ job[j].pc = "fetch"
        /\ Go(j, "mark")
        /\ UNCHANGED <<tip, catalog, dir, queue, deleting, mixed, swept, changes,
                       mishaps, visits>>

\* A pull with --ff-only needs the history it has; in the middle of a clone it may work.
Pulls(n) ==
    CASE dir[n].git = "whole"   -> {dir[n].at.history = tip[dir[n].origin].history}
      [] dir[n].git = "partial" -> BOOLEAN
      [] OTHER                  -> {FALSE}

\* fetch, checkout and pull, from wherever the clone came from.
Fetch(j) ==
    LET n == job[j].at
    IN  /\ job[j].pc = "fetch"
        /\ \E pulls \in Pulls(n) :
             IF pulls
             THEN /\ dir' = [dir EXCEPT ![n].git = "whole", ![n].at = tip[dir[n].origin]]
                  /\ Go(j, "mark")
             ELSE Leave(j) /\ UNCHANGED dir
        /\ UNCHANGED <<tip, changes, catalog, queue, deleting, mixed, swept, mishaps, visits>>

FetchFails(j) ==
    /\ job[j].pc = "fetch"
    /\ mishaps < MaxMishaps
    /\ mishaps' = mishaps + 1
    /\ Leave(j)
    /\ UNCHANGED <<tip, changes, catalog, dir, queue, deleting, mixed, swept, visits>>

\* The marker is written if its directory is there.
Mark(j) ==
    LET n == job[j].at
    IN  /\ job[j].pc = "mark"
        /\ IF dir[n].there
           THEN dir' = [dir EXCEPT ![n].marker = "fresh"] /\ Go(j, "read")
           ELSE Leave(j) /\ UNCHANGED dir
        /\ UNCHANGED <<tip, changes, catalog, queue, deleting, mixed, swept, mishaps, visits>>

\* The charts are read; without any the answer is an empty list.
ReadCharts(j) ==
    /\ job[j].pc = "read"
    /\ Leave(j)
    /\ UNCHANGED <<tip, changes, catalog, dir, queue, deleting, mixed, swept, mishaps, visits>>

-----------------------------------------------------------------------------
\* Time passes; repositories get commits or another history.
Expire(n) ==
    /\ dir[n].marker = "fresh"
    /\ dir' = [dir EXCEPT ![n].marker = "old"]
    /\ UNCHANGED <<tip, changes, catalog, job, queue, deleting, mixed, swept, mishaps, visits>>

Commit(u) ==
    /\ changes < MaxChanges
    /\ changes' = changes + 1
    /\ tip' = [tip EXCEPT ![u].version = @ + 1]
    /\ UNCHANGED <<catalog, dir, job, queue, deleting, mixed, swept, mishaps, visits>>

Rewrite(u) ==
    /\ changes < MaxChanges
    /\ changes' = changes + 1
    /\ tip' = [tip EXCEPT ![u].history = @ + 1]
    /\ UNCHANGED <<catalog, dir, job, queue, deleting, mixed, swept, mishaps, visits>>

Work(j) ==
    \/ RefreshNext(j) \/ Look(j) \/ StartClone(j) \/ EndClone(j) \/ Fetch(j) \/ Mark(j)
    \/ ReadCharts(j)

CatalogNext ==
    \/ \E n \in Catalogs : \/ \E u \in Urls, j \in Visitors : CreateCatalog(n, u, j)
                                                             \/ EditCatalog(n, u, j)
                           \/ \E j \in Visitors : ReadCatalog(n, j)
                           \/ DeleteCatalog(n) \/ RemoveDir(n) \/ Expire(n)
    \/ \E j \in Jobs : Refresh(j) \/ Work(j) \/ CloneFails(j) \/ FetchFails(j)
    \/ \E u \in Urls : Commit(u) \/ Rewrite(u)

\* Jobs go on, and the timer's comes again.
CatalogFairness == WF_catalogVars(Refresh(Timer)) /\ \A j \in Jobs : WF_catalogVars(Work(j))

CatalogSpec == CatalogInit /\ [][CatalogNext]_catalogVars /\ CatalogFairness

-----------------------------------------------------------------------------
\* What a reader gets comes from the repository its catalog has, after a deletion and a new
\* creation as well, unless an edit gave it another, or jobs were there when it was deleted.
RightRepository ==
    [][\A j \in Jobs :
         /\ job[j].pc = "read" /\ job'[j].pc = "rest"
         /\ dir[job[j].at].git # "none" /\ job[j].at \notin mixed
         => dir[job[j].at].origin = job[j].wants]_catalogVars

\* A directory with a marker holds a whole clone (one without could never be cloned into
\* again), unless it was emptied while somebody worked in it.
MarkedIsWhole ==
    \A n \in Catalogs : n \notin swept /\ dir[n].marker # "none" => dir[n].git = "whole"

Behind(n) ==
    /\ catalog[n] # NoUrl
    /\ dir[n].git = "whole"
    /\ dir[n].origin = catalog[n]
    /\ dir[n].at.history = tip[catalog[n]].history

\* A clone of the right repository gets its commits, unless its history was rewritten,
\* the catalog edited or deleted.
CatalogCatchesUp ==
    \A n \in Catalogs : Behind(n) ~> ~Behind(n) \/ dir[n].at = tip[catalog[n]]

\* What the API promises of a refresh, "Successfully refreshed catalog cache(s)": after it
\* a catalog nobody else is at shows its own repository.  The timer's does what a
\* request's does.
RefreshedIsRight ==
    [][LET n == job[Timer].at
       IN  /\ job[Timer].pc = "read" /\ job'[Timer].pc = "rest"
           /\ job[Timer].wants = catalog[n] /\ At(n) = {Timer}
           => dir[n].origin = catalog[n]]_catalogVars
=============================================================================
