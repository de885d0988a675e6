---------------------------- MODULE CatalogProofs ----------------------------
(***************************************************************************)
(* Catalog: for every set of catalogs, repositories and jobs, whatever     *)
(* overlaps or fails.  The invariant says what a job may rely on in a      *)
(* directory others work in: its repository, as long as nobody gave the    *)
(* catalog another one, and its clone, as long as nobody emptied it.       *)
(***************************************************************************)
EXTENDS Catalog, TLAPS

Places == {"rest", "look", "clone", "cloning", "fetch", "mark", "read"}

Job == [pc : Places, at : Catalogs \cup {NoUrl}, wants : Urls \cup {NoUrl}, force : BOOLEAN]

CatalogTypeOK ==
    /\ tip \in [Urls -> Tip]
    /\ changes \in 0..MaxChanges
    /\ \A u \in Urls : tip[u].history <= changes /\ tip[u].version <= changes
    /\ catalog \in [Catalogs -> Urls \cup {NoUrl}]
    /\ dir \in [Catalogs -> Dir]
    /\ \A n \in Catalogs : dir[n].git # "none" => dir[n].origin \in Urls
    /\ job \in [Jobs -> Job]
    /\ \A j \in Jobs : job[j].pc # "rest" => job[j].at \in Catalogs /\ job[j].wants \in Urls
    /\ \A j \in Jobs : job[j].pc = "rest" => job[j].at = NoUrl
    /\ queue \in [Jobs -> SUBSET (Catalogs \X Urls)]
    /\ deleting \subseteq Catalogs /\ mixed \subseteq Catalogs /\ swept \subseteq Catalogs

\* Who writes the marker has a whole clone.
MarkerEarned ==
    \A n \in Catalogs \ swept :
      /\ dir[n].marker # "none" => dir[n].git = "whole"
      /\ \A j \in At(n) : job[j].pc = "mark" => dir[n].git = "whole"

\* A catalog, the jobs at it or about to turn to it, and its directory mean repository u.
AgreeOn(n, u) ==
    /\ catalog[n] \in {u, NoUrl}
    /\ \A j \in At(n) : job[j].wants = u
    /\ \A j \in Jobs, x \in Urls : <<n, x>> \in queue[j] => x = u
    /\ dir[n].git # "none" => dir[n].origin = u

Agreed == \A n \in Catalogs \ mixed : \E u \in Urls \cup {NoUrl} : AgreeOn(n, u)

\* Of a catalog that is gone with its directory nothing is left.
Cleared ==
    \A n \in Catalogs \ mixed :
      /\ n \in deleting => catalog[n] = NoUrl
      /\ n \notin deleting /\ catalog[n] = NoUrl =>
           dir[n].git = "none" /\ At(n) = {} /\ Bound(n) = {}

\* The inductive invariant.
CatalogInductive == CatalogTypeOK /\ MarkerEarned /\ Agreed /\ Cleared

-----------------------------------------------------------------------------
\* A step of job j in the directory it is at: what is there afterwards is of the
\* repository it was of, or of the job's.
Moved(j) ==
    LET n == job[j].at
    IN  /\ job[j].pc # "rest"
        /\ job' \in [Jobs -> Job] /\ \A i \in Jobs \ {j} : job'[i] = job[i]
        /\ \/ job'[j] = Resting
           \/ job'[j].pc # "rest" /\ job'[j].at = n /\ job'[j].wants = job[j].wants
        /\ dir' \in [Catalogs -> Dir] /\ \A m \in Catalogs \ {n} : dir'[m] = dir[m]
        /\ dir'[n].git # "none" =>
             \/ dir'[n].origin = job[j].wants
             \/ dir[n].git # "none" /\ dir'[n].origin = dir[n].origin
        /\ UNCHANGED <<tip, changes, catalog, queue, deleting, mixed>>
        /\ swept' \subseteq Catalogs

\* A job that does something is at a catalog, for a repository.
LEMMA JobType ==
    ASSUME CatalogTypeOK, NEW j \in Jobs, job[j].pc # "rest"
    PROVE  /\ job[j] \in Job /\ job[j].at \in Catalogs /\ job[j].wants \in Urls
           /\ dir[job[j].at] \in Dir
  BY DEF CatalogTypeOK

\* Constants are of their types.
LEMMA RestingType == Resting \in Job
  BY DEF Resting, Job, Places

LEMMA EmptyType == Empty \in Dir /\ Empty.git = "none" /\ Empty.marker = "none"
  BY CatalogAssumption DEF Empty, Dir, Start0, Tip

\* The job goes on or leaves.
LEMMA JobMoves ==
    ASSUME CatalogTypeOK, NEW j \in Jobs, job[j].pc # "rest",
           Leave(j) \/ \E p \in Places \ {"rest"} : Go(j, p)
    PROVE  /\ job' \in [Jobs -> Job] /\ \A i \in Jobs \ {j} : job'[i] = job[i]
           /\ \/ job'[j] = Resting
              \/ /\ job'[j].pc # "rest" /\ job'[j].at = job[j].at
                 /\ job'[j].wants = job[j].wants
<1>1. CASE Leave(j)
  BY <1>1, RestingType DEF Leave, CatalogTypeOK
<1>2. ASSUME NEW p \in Places \ {"rest"}, Go(j, p) PROVE
         /\ job' \in [Jobs -> Job] /\ \A i \in Jobs \ {j} : job'[i] = job[i]
         /\ job'[j].pc # "rest" /\ job'[j].at = job[j].at /\ job'[j].wants = job[j].wants
  BY <1>2 DEF Go, CatalogTypeOK, Job
<1> QED
  BY <1>1, <1>2

\* A directory gets another content.
LEMMA DirPut ==
    ASSUME CatalogTypeOK, NEW n \in Catalogs, NEW d \in Dir, dir' = [dir EXCEPT ![n] = d]
    PROVE  /\ dir' \in [Catalogs -> Dir] /\ dir'[n] = d
           /\ \A m \in Catalogs \ {n} : dir'[m] = dir[m]
  BY DEF CatalogTypeOK

\* Every step of a job is such a one: git works where the job is, and nowhere else.
LEMMA WorkMoves ==
    ASSUME CatalogTypeOK, NEW j \in Jobs,
           \/ Look(j) \/ StartClone(j) \/ EndClone(j) \/ CloneFails(j) \/ Fetch(j)
           \/ FetchFails(j) \/ Mark(j) \/ ReadCharts(j)
    PROVE  Moved(j)
<1> DEFINE n == job[j].at
           old == dir[n]
           part == [old EXCEPT !.git = "partial", !.origin = job[j].wants]
           whole == [old EXCEPT !.git = "whole", !.at = tip[old.origin]]
<1>1. job[j].pc # "rest"
  BY DEF Look, StartClone, EndClone, CloneFails, Fetch, FetchFails, Mark, ReadCharts
<1>2. /\ n \in Catalogs /\ old \in Dir /\ job[j].wants \in Urls
      /\ old.git # "none" => old.origin \in Urls
  BY <1>1, JobType DEF CatalogTypeOK
<1>3. UNCHANGED <<tip, changes, catalog, queue, deleting, mixed>>
  BY DEF Look, StartClone, EndClone, CloneFails, Fetch, FetchFails, Mark, ReadCharts
<1>4. Leave(j) \/ \E p \in Places \ {"rest"} : Go(j, p)
  BY DEF
       Look, StartClone, EndClone, CloneFails, Fetch, FetchFails, Mark, ReadCharts,
       Places
<1>5. swept' \subseteq Catalogs
  BY <1>2 DEF Look, StartClone, EndClone, CloneFails, Fetch, FetchFails, Mark, ReadCharts,
             Swept, CatalogTypeOK
<1>6. /\ [old EXCEPT !.there = TRUE] \in Dir
      /\ [old EXCEPT !.marker = "fresh"] \in Dir
      /\ [Empty EXCEPT !.there = old.there] \in Dir
      /\ part \in Dir /\ part.origin = job[j].wants
      /\ old.git # "none" => whole \in Dir /\ whole.origin = old.origin
  BY <1>2, EmptyType DEF Dir, CatalogTypeOK
<1>7. \/ dir' = [dir EXCEPT ![n] = [old EXCEPT !.there = TRUE]]
      \/ dir' = [dir EXCEPT ![n] = [old EXCEPT !.marker = "fresh"]]
      \/ dir' = [dir EXCEPT ![n] = [Empty EXCEPT !.there = old.there]]
      \/ dir' = [dir EXCEPT ![n] = part]
      \/ old.git # "none" /\ dir' = [dir EXCEPT ![n] = whole]
      \/ dir' = dir
  <2>1. CASE Look(j)
    BY <2>1 DEF Look
  <2>2. CASE StartClone(j)
    BY <2>2 DEF StartClone
  <2>3. CASE EndClone(j)
    BY <2>3 DEF EndClone
  <2>4. CASE CloneFails(j)
    BY <2>4 DEF CloneFails
  <2>5. CASE Fetch(j)
    BY <2>5 DEF Fetch, Pulls
  <2>6. CASE FetchFails(j)
    BY <2>6 DEF FetchFails
  <2>7. CASE Mark(j)
    BY <2>7 DEF Mark
  <2>8. CASE ReadCharts(j)
    BY <2>8 DEF ReadCharts
  <2> QED
    BY <2>1, <2>2, <2>3, <2>4, <2>5, <2>6, <2>7, <2>8
<1>8. /\ dir' \in [Catalogs -> Dir] /\ \A m \in Catalogs \ {n} : dir'[m] = dir[m]
      /\ dir'[n].git # "none" => \/ dir'[n].origin = job[j].wants
                                 \/ old.git # "none" /\ dir'[n].origin = old.origin
  <2> HIDE DEF part, whole
  <2>1. CASE dir' = [dir EXCEPT ![n] = [old EXCEPT !.there = TRUE]]
    BY <1>2, <1>6, <2>1, DirPut DEF Dir
  <2>2. CASE dir' = [dir EXCEPT ![n] = [old EXCEPT !.marker = "fresh"]]
    BY <1>2, <1>6, <2>2, DirPut DEF Dir
  <2>3. CASE dir' = [dir EXCEPT ![n] = [Empty EXCEPT !.there = old.there]]
    BY <1>2, <1>6, <2>3, DirPut, EmptyType DEF Dir
  <2>4. CASE dir' = [dir EXCEPT ![n] = part]
    BY <1>2, <1>6, <2>4, DirPut
  <2>5. CASE old.git # "none" /\ dir' = [dir EXCEPT ![n] = whole]
    BY <1>2, <1>6, <2>5, DirPut
  <2>6. CASE dir' = dir
    BY <2>6 DEF CatalogTypeOK
  <2> QED
    BY <1>7, <2>1, <2>2, <2>3, <2>4, <2>5, <2>6
<1>9. /\ job' \in [Jobs -> Job] /\ \A i \in Jobs \ {j} : job'[i] = job[i]
      /\ \/ job'[j] = Resting
         \/ job'[j].pc # "rest" /\ job'[j].at = n /\ job'[j].wants = job[j].wants
  BY <1>1, <1>4, JobMoves
<1> QED
  BY <1>1, <1>3, <1>5, <1>8, <1>9 DEF Moved

\* So it keeps types ...
LEMMA MovedType ==
    ASSUME CatalogTypeOK, NEW j \in Jobs, Moved(j)
    PROVE  CatalogTypeOK'
<1>1. job[j].at \in Catalogs /\ job[j].wants \in Urls
  BY JobType DEF Moved
<1>2. /\ \A i \in Jobs : job'[i].pc # "rest" => job'[i].at \in Catalogs /\ job'[i].wants \in Urls
      /\ \A i \in Jobs : job'[i].pc = "rest" => job'[i].at = NoUrl
  BY <1>1 DEF Moved, CatalogTypeOK, Resting
<1>3. \A m \in Catalogs : dir'[m].git # "none" => dir'[m].origin \in Urls
  BY <1>1 DEF Moved, CatalogTypeOK
<1> QED
  BY <1>2, <1>3 DEF Moved, CatalogTypeOK

\* ... as all steps do.
LEMMA TypeStep ==
    ASSUME CatalogTypeOK, [CatalogNext]_catalogVars
    PROVE  CatalogTypeOK'
<1>1. ASSUME NEW n \in Catalogs, NEW u \in Urls, NEW j \in Visitors, CreateCatalog(n, u, j)
      PROVE  CatalogTypeOK'
  BY <1>1, CatalogAssumption DEF
       CreateCatalog, Request, Visit, Unused, Jobs, CatalogTypeOK, Dir, Job, Places
<1>2. ASSUME NEW n \in Catalogs, NEW u \in Urls, NEW j \in Visitors, EditCatalog(n, u, j)
      PROVE  CatalogTypeOK'
  BY <1>2, CatalogAssumption DEF
       EditCatalog, Request, Visit, Unused, Jobs, CatalogTypeOK, Dir, Job, Places
<1>3. ASSUME NEW n \in Catalogs, DeleteCatalog(n) PROVE CatalogTypeOK'
  BY <1>3, CatalogAssumption DEF DeleteCatalog, Request, CatalogTypeOK, Dir, Job, Places
<1>4. ASSUME NEW n \in Catalogs, RemoveDir(n) PROVE CatalogTypeOK'
  <2>1. dir' = [dir EXCEPT ![n] = Absent] /\ Absent \in Dir /\ Absent.git = "none"
    BY <1>4, EmptyType DEF RemoveDir, Absent, Dir
  <2>2. /\ dir' \in [Catalogs -> Dir] /\ dir'[n] = Absent
        /\ \A m \in Catalogs \ {n} : dir'[m] = dir[m]
    BY <2>1, DirPut
  <2>3. deleting' \subseteq Catalogs /\ mixed' \subseteq Catalogs /\ swept' \subseteq Catalogs
    BY <1>4 DEF RemoveDir, Swept, CatalogTypeOK
  <2> QED
    BY <1>4, <2>1, <2>2, <2>3 DEF RemoveDir, CatalogTypeOK
<1>5. ASSUME NEW n \in Catalogs, NEW j \in Visitors, ReadCatalog(n, j)
      PROVE  CatalogTypeOK'
  BY <1>5, CatalogAssumption DEF
       ReadCatalog, Request, Visit, Unused, Jobs, CatalogTypeOK, Dir, Job, Places
<1>6. ASSUME NEW j \in Jobs, Refresh(j) PROVE CatalogTypeOK'
  BY <1>6, CatalogAssumption DEF Refresh, Request, Unused, CatalogTypeOK, Dir, Job, Places
<1>7. ASSUME NEW j \in Jobs, RefreshNext(j) PROVE CatalogTypeOK'
  BY <1>7, CatalogAssumption DEF RefreshNext, Visit, CatalogTypeOK, Dir, Job, Places
<1>8. ASSUME NEW n \in Catalogs, Expire(n) PROVE CatalogTypeOK'
  BY <1>8, CatalogAssumption DEF Expire, CatalogTypeOK, Dir, Job, Places
<1>9. ASSUME NEW u \in Urls, Commit(u) PROVE CatalogTypeOK'
  BY <1>9, CatalogAssumption DEF Commit, Tip, CatalogTypeOK, Dir, Job, Places
<1>10. ASSUME NEW u \in Urls, Rewrite(u) PROVE CatalogTypeOK'
  BY <1>10, CatalogAssumption DEF Rewrite, Tip, CatalogTypeOK, Dir, Job, Places
<1>11. ASSUME NEW j \in Jobs, Look(j) \/ StartClone(j) \/ EndClone(j) \/ CloneFails(j) \/ Fetch(j)
                          \/ FetchFails(j) \/ Mark(j) \/ ReadCharts(j)
      PROVE  CatalogTypeOK'
  BY <1>11, WorkMoves, MovedType
<1>12. CASE UNCHANGED catalogVars
  BY <1>12 DEF catalogVars, CatalogTypeOK, Dir, Job, Places
<1> QED
  BY <1>1, <1>2, <1>3, <1>4, <1>5, <1>6, <1>7, <1>8, <1>9, <1>10, <1>11, <1>12 DEF
       CatalogNext, Work

\* A job's step earns its marker if it makes a whole clone, or changes neither clone nor marker.
LEMMA MovedMarker ==
    ASSUME CatalogTypeOK, MarkerEarned, NEW j \in Jobs, Moved(j), swept' = swept,
           LET n == job[j].at
           IN  \/ dir'[n].git = dir[n].git /\ dir'[n].marker = dir[n].marker
                    /\ job'[j].pc # "mark"
               \/ dir[n].git = "none" /\ dir[n].marker = "none" /\ dir'[n].marker = "none"
                    /\ job'[j].pc # "mark"
               \/ dir'[n].git = "whole"
    PROVE  MarkerEarned'
<1> DEFINE n == job[j].at
<1>1. n \in Catalogs
  BY JobType DEF Moved
<1>2. ASSUME NEW m \in Catalogs \ swept' PROVE
         /\ dir'[m].marker # "none" => dir'[m].git = "whole"
         /\ \A i \in At(m)' : job'[i].pc = "mark" => dir'[m].git = "whole"
  <2>1. \A i \in At(m)' \ {j} : i \in At(m) /\ job'[i].pc = job[i].pc
    BY DEF At, Moved
  <2>2. j \in At(m)' => m = n
    BY <1>2, CatalogAssumption DEF At, Moved, Resting
  <2>3. CASE m # n
    BY <1>2, <2>1, <2>2, <2>3 DEF MarkerEarned, Moved
  <2>4. CASE m = n
    BY <1>1, <1>2, <2>1, <2>4 DEF MarkerEarned, Moved
  <2> QED
    BY <2>3, <2>4
<1> QED
  BY <1>2 DEF MarkerEarned

\* The steps that empty a directory put it into swept, unless no other job is there.
LEMMA MarkerStep ==
    ASSUME CatalogTypeOK, MarkerEarned, [CatalogNext]_catalogVars
    PROVE  MarkerEarned'
<1>1. ASSUME NEW n \in Catalogs, NEW u \in Urls, NEW j \in Visitors, CreateCatalog(n, u, j)
      PROVE  MarkerEarned'
  BY <1>1, CatalogAssumption DEF
       CreateCatalog, Request, Visit, Unused, Jobs, CatalogTypeOK, MarkerEarned, At
<1>2. ASSUME NEW n \in Catalogs, NEW u \in Urls, NEW j \in Visitors, EditCatalog(n, u, j)
      PROVE  MarkerEarned'
  BY <1>2, CatalogAssumption DEF
       EditCatalog, Request, Visit, Unused, Jobs, CatalogTypeOK, MarkerEarned, At
<1>3. ASSUME NEW n \in Catalogs, DeleteCatalog(n) PROVE MarkerEarned'
  BY <1>3, CatalogAssumption DEF DeleteCatalog, Request, CatalogTypeOK, MarkerEarned, At
<1>4. ASSUME NEW n \in Catalogs, RemoveDir(n) PROVE MarkerEarned'
  BY <1>4, CatalogAssumption DEF
       RemoveDir, Swept, Absent, Empty, Start0, CatalogTypeOK, MarkerEarned, At
<1>5. ASSUME NEW n \in Catalogs, NEW j \in Visitors, ReadCatalog(n, j)
      PROVE  MarkerEarned'
  BY <1>5, CatalogAssumption DEF
       ReadCatalog, Request, Visit, Unused, Jobs, CatalogTypeOK, MarkerEarned, At
<1>6. ASSUME NEW j \in Jobs, Refresh(j) PROVE MarkerEarned'
  BY <1>6, CatalogAssumption DEF Refresh, Request, Unused, CatalogTypeOK, MarkerEarned, At
<1>7. ASSUME NEW j \in Jobs, RefreshNext(j) PROVE MarkerEarned'
  BY <1>7, CatalogAssumption DEF RefreshNext, Visit, CatalogTypeOK, MarkerEarned, At
<1>8. ASSUME NEW n \in Catalogs, Expire(n) PROVE MarkerEarned'
  BY <1>8, CatalogAssumption DEF Expire, CatalogTypeOK, MarkerEarned, At
<1>9. ASSUME NEW u \in Urls, Commit(u) PROVE MarkerEarned'
  BY <1>9, CatalogAssumption DEF Commit, Tip, CatalogTypeOK, MarkerEarned, At
<1>10. ASSUME NEW u \in Urls, Rewrite(u) PROVE MarkerEarned'
  BY <1>10, CatalogAssumption DEF Rewrite, Tip, CatalogTypeOK, MarkerEarned, At
<1>11. ASSUME NEW j \in Jobs, Look(j) \/ StartClone(j) \/ EndClone(j) \/ CloneFails(j) \/ Fetch(j)
                          \/ FetchFails(j) \/ Mark(j) \/ ReadCharts(j)
      PROVE  MarkerEarned'
  <2> DEFINE n == job[j].at
  <2>1. Moved(j) /\ n \in Catalogs /\ dir[n] \in Dir /\ job[j] \in Job
    BY <1>11, WorkMoves, JobType DEF Moved
  <2>2. CASE Look(j)
    <3>1. job'[j].pc # "mark"
      BY <2>1, <2>2 DEF Look, Go, CatalogTypeOK, Job
    <3>2. dir'[n].git = dir[n].git /\ dir'[n].marker = dir[n].marker /\ swept' = swept
      BY <2>1, <2>2 DEF Look, CatalogTypeOK, Dir
    <3> QED
      BY <2>1, <3>1, <3>2, MovedMarker
  <2>3. CASE StartClone(j)
    <3>1. job'[j].pc # "mark" /\ swept' = swept
      BY <2>1, <2>3 DEF StartClone, Go, Leave, Resting, CatalogTypeOK, Job
    <3>2. CASE dir[n] = Empty
      BY <2>1, <2>3, <3>1, <3>2, EmptyType, MovedMarker DEF StartClone, CatalogTypeOK, Dir
    <3>3. CASE dir[n] # Empty
      BY <2>1, <2>3, <3>1, <3>3, MovedMarker DEF StartClone
    <3> QED
      BY <3>2, <3>3
  <2>4. CASE EndClone(j)
    <3>1. CASE dir[n].git = "none"
      <4>1. dir' = dir /\ job'[j].pc # "mark" /\ swept' = swept
        BY <2>1, <2>4, <3>1 DEF EndClone, Leave, Resting, CatalogTypeOK
      <4> QED
        BY <2>1, <4>1, MovedMarker
    <3>2. CASE dir[n].git # "none"
      <4>1. dir'[n].git = "whole" /\ swept' = swept
        BY <2>1, <2>4, <3>2 DEF EndClone, CatalogTypeOK, Dir
      <4> QED
        BY <2>1, <4>1, MovedMarker
    <3> QED
      BY <3>1, <3>2
  <2>5. CASE CloneFails(j)
    <3>1. /\ dir'[n].marker = "none" /\ job'[j].pc = "rest"
          /\ swept' = Swept(n, At(n) \ {j})
      BY <2>1, <2>5 DEF CloneFails, Leave, Resting, Empty, CatalogTypeOK
    <3>2. ASSUME NEW m \in Catalogs \ swept' PROVE
             /\ dir'[m].marker # "none" => dir'[m].git = "whole"
             /\ \A i \in At(m)' : job'[i].pc = "mark" => dir'[m].git = "whole"
      <4>1. \A i \in At(m)' \ {j} : i \in At(m) /\ job'[i].pc = job[i].pc
        BY <2>1 DEF At, Moved
      <4>2. CASE m = n
        BY <3>1, <3>2, <4>1, <4>2 DEF Swept, At
      <4>3. CASE m # n
        BY <2>1, <3>1, <3>2, <4>1, <4>3 DEF Swept, MarkerEarned, Moved
      <4> QED
        BY <4>2, <4>3
    <3> QED
      BY <3>2 DEF MarkerEarned
  <2>6. CASE Fetch(j)
    <3>1. swept' = swept
      BY <2>6 DEF Fetch
    <3>2. PICK pulls \in Pulls(n) :
             IF pulls
             THEN /\ dir' = [dir EXCEPT ![n].git = "whole", ![n].at = tip[dir[n].origin]]
                  /\ Go(j, "mark")
             ELSE Leave(j) /\ UNCHANGED dir
      BY <2>6 DEF Fetch
    <3>3. CASE pulls
      BY <2>1, <3>1, <3>2, <3>3, MovedMarker DEF CatalogTypeOK, Dir
    <3>4. CASE ~pulls
      <4>1. job'[j].pc # "mark"
        BY <2>1, <3>2, <3>4 DEF Leave, Resting, CatalogTypeOK
      <4> QED
        BY <2>1, <3>1, <3>2, <3>4, <4>1, MovedMarker
    <3> QED
      BY <3>3, <3>4
  <2>7. CASE FetchFails(j)
    BY <2>1, <2>7, MovedMarker DEF FetchFails, Leave, Resting, CatalogTypeOK
  <2>8. CASE Mark(j)
    <3>1. job'[j].pc # "mark" /\ swept' = swept
      BY <2>1, <2>8 DEF Mark, Go, Leave, Resting, CatalogTypeOK, Job
    <3>2. CASE dir[n].there
      <4>1. dir'[n].git = dir[n].git /\ \A m \in Catalogs \ {n} : dir'[m] = dir[m]
        BY <2>1, <2>8, <3>2 DEF Mark, CatalogTypeOK, Dir
      <4>2. n \notin swept => dir[n].git = "whole"
        BY <2>1, <2>8 DEF Mark, MarkerEarned, At
      <4>3. CASE n \in swept
        <5>1. ASSUME NEW m \in Catalogs \ swept' PROVE
                 /\ dir'[m].marker # "none" => dir'[m].git = "whole"
                 /\ \A i \in At(m)' : job'[i].pc = "mark" => dir'[m].git = "whole"
          BY <2>1, <3>1, <4>1, <4>3, <5>1 DEF MarkerEarned, Moved, At
        <5> QED
          BY <5>1 DEF MarkerEarned
      <4>4. CASE n \notin swept
        BY <2>1, <3>1, <4>1, <4>2, <4>4, MovedMarker
      <4> QED
        BY <4>3, <4>4
    <3>3. CASE ~dir[n].there
      BY <2>1, <2>8, <3>1, <3>3, MovedMarker DEF Mark
    <3> QED
      BY <3>2, <3>3
  <2>9. CASE ReadCharts(j)
    BY <2>1, <2>9, MovedMarker DEF ReadCharts, Leave, Resting, CatalogTypeOK
  <2> QED
    BY <1>11, <2>2, <2>3, <2>4, <2>5, <2>6, <2>7, <2>8, <2>9
<1>12. CASE UNCHANGED catalogVars
  BY <1>12 DEF catalogVars, CatalogTypeOK, MarkerEarned, Dir, Job, Places, At
<1> QED
  BY <1>1, <1>2, <1>3, <1>4, <1>5, <1>6, <1>7, <1>8, <1>9, <1>10, <1>11, <1>12 DEF
       CatalogNext, Work

\* All there is of catalog n derives from what there was of it.
Derives(n) ==
    /\ catalog'[n] \in {catalog[n], NoUrl}
    /\ \A j \in Jobs : job'[j].at = n =>
         \/ job[j].at = n /\ job'[j].wants = job[j].wants
         \/ catalog[n] # NoUrl /\ job'[j].wants = catalog[n]
         \/ job'[j].wants \in Urls /\ <<n, job'[j].wants>> \in queue[j]
    /\ \A j \in Jobs, x \in Urls : <<n, x>> \in queue'[j] =>
         \/ <<n, x>> \in queue[j]
         \/ catalog[n] # NoUrl /\ x = catalog[n]
    /\ dir'[n].git # "none" =>
         \/ dir[n].git # "none" /\ dir'[n].origin = dir[n].origin
         \/ \E j \in At(n) : dir'[n].origin = job[j].wants

\* It does, and the catalog is about to be removed, or gone, only if it was before, or
\* a deletion begins.
Kept(n) ==
    /\ n \notin mixed /\ Derives(n)
    /\ n \in deleting' => catalog'[n] = NoUrl
    /\ n \notin deleting' /\ catalog'[n] = NoUrl => n \notin deleting /\ catalog[n] = NoUrl

Nothing(n) == dir[n].git = "none" /\ At(n) = {} /\ Bound(n) = {}

\* Or it has just been created or removed.
Anew(n) ==
    /\ n \notin deleting'
    /\ \E u \in Urls \cup {NoUrl} : AgreeOn(n, u)'
    /\ catalog'[n] = NoUrl => Nothing(n)'

\* Agreement goes on to what derives from it ...
LEMMA AgreeKept ==
    ASSUME NEW n \in Catalogs, NEW u \in Urls \cup {NoUrl}, AgreeOn(n, u), Derives(n)
    PROVE  AgreeOn(n, u)'
  BY DEF AgreeOn, Derives, At

\* ... and nothing derives from nothing.
LEMMA NothingKept ==
    ASSUME CatalogTypeOK', NEW n \in Catalogs, Nothing(n), catalog[n] = NoUrl, Derives(n)
    PROVE  Nothing(n)'
<1>1. dir'[n].git = "none"
  BY DEF Nothing, Derives
<1>2. At(n)' = {}
  BY DEF Nothing, Derives, At, Bound
<1>3. Bound(n)' = {}
  BY DEF Nothing, Derives, Bound
<1> QED
  BY <1>1, <1>2, <1>3 DEF Nothing

\* So it is enough to show that what a step leaves is kept or anew.
LEMMA KeptOrAnew ==
    ASSUME CatalogInductive, CatalogTypeOK', \A n \in Catalogs \ mixed' : Kept(n) \/ Anew(n)
    PROVE  Agreed' /\ Cleared'
<1>1. ASSUME NEW n \in Catalogs \ mixed'
      PROVE  \E u \in Urls \cup {NoUrl} : AgreeOn(n, u)'
  <2>1. CASE Kept(n)
    <3>1. PICK u \in Urls \cup {NoUrl} : AgreeOn(n, u)
      BY <1>1, <2>1 DEF Kept, CatalogInductive, Agreed
    <3>2. AgreeOn(n, u)'
      BY <1>1, <2>1, <3>1, AgreeKept DEF Kept
    <3> QED
      BY <3>2
  <2>2. CASE Anew(n)
    BY <2>2 DEF Anew
  <2> QED
    BY <1>1, <2>1, <2>2
<1>2. ASSUME NEW n \in Catalogs \ mixed' PROVE
         /\ n \in deleting' => catalog'[n] = NoUrl
         /\ n \notin deleting' /\ catalog'[n] = NoUrl => Nothing(n)'
  <2>1. CASE Kept(n)
    BY <1>2, <2>1, NothingKept DEF Kept, CatalogInductive, Cleared, Nothing
  <2>2. CASE Anew(n)
    BY <2>2 DEF Anew
  <2> QED
    BY <1>2, <2>1, <2>2
<1> QED
  BY <1>1, <1>2 DEF Agreed, Cleared, Nothing

\* What the steps that touch neither catalogs nor deletions have in common.
LEMMA SettledKept ==
    ASSUME CatalogInductive, UNCHANGED <<catalog, deleting, mixed>>,
           \A n \in Catalogs : Derives(n)
    PROVE  \A n \in Catalogs \ mixed' : Kept(n) \/ Anew(n)
  BY DEF Kept, CatalogInductive, Cleared

\* A job's step takes no repository to a directory but its own.
LEMMA MovedKept ==
    ASSUME CatalogInductive, NEW j \in Jobs, Moved(j)
    PROVE  \A n \in Catalogs \ mixed' : Kept(n) \/ Anew(n)
<1>1. job[j].at \in Catalogs /\ job[j].wants \in Urls
  BY JobType DEF Moved, CatalogInductive
<1>2. ASSUME NEW n \in Catalogs PROVE Derives(n)
  <2>1. \A i \in Jobs : job'[i].at = n => job[i].at = n /\ job'[i].wants = job[i].wants
    BY CatalogAssumption DEF Moved, Resting
  <2>2. dir'[n].git # "none" =>
           \/ dir[n].git # "none" /\ dir'[n].origin = dir[n].origin
           \/ \E i \in At(n) : dir'[n].origin = job[i].wants
    BY <1>1 DEF Moved, At
  <2> QED
    BY <2>1, <2>2 DEF Derives, Moved
<1> QED
  BY <1>2, SettledKept DEF Moved

\* Likewise all others: those that bring another repository put the catalog into mixed.
LEMMA RequestsKept ==
    ASSUME CatalogInductive, [CatalogNext]_catalogVars
    PROVE  \A m \in Catalogs \ mixed' : Kept(m) \/ Anew(m)
<1> DEFINE Goal == \A m \in Catalogs \ mixed' : Kept(m) \/ Anew(m)
<1>1. ASSUME NEW n \in Catalogs, NEW u \in Urls, NEW j \in Visitors, CreateCatalog(n, u, j)
      PROVE  Goal
  <2>1. /\ \A i \in Jobs \ {j} : job'[i] = job[i]
        /\ job'[j].at = n /\ job'[j].wants = u /\ j \in Jobs
    BY <1>1 DEF CreateCatalog, Visit, CatalogInductive, CatalogTypeOK, Jobs
  <2>2. /\ catalog[n] = NoUrl /\ catalog' = [catalog EXCEPT ![n] = u]
        /\ mixed' = IF n \in deleting THEN mixed \cup {n} ELSE mixed
        /\ UNCHANGED <<dir, queue, deleting>>
    BY <1>1 DEF CreateCatalog
  <2>3. ASSUME NEW m \in Catalogs \ mixed', m # n PROVE Kept(m)
    <3>1. m \notin mixed /\ catalog'[m] = catalog[m]
      BY <2>2, <2>3 DEF CatalogInductive, CatalogTypeOK
    <3>2. Derives(m)
      BY <2>1, <2>2, <2>3, <3>1 DEF Derives
    <3> QED
      BY <2>2, <3>1, <3>2 DEF Kept, CatalogInductive, Cleared
  <2>4. ASSUME n \notin mixed' PROVE Anew(n)
    <3>1. n \notin deleting /\ n \notin mixed
      BY <2>2, <2>4
    <3>2. Nothing(n) /\ catalog'[n] = u /\ u # NoUrl
      BY <2>2, <3>1, CatalogAssumption DEF
           CatalogInductive, CatalogTypeOK, Cleared, Nothing
    <3>3. AgreeOn(n, u)'
      BY <2>1, <2>2, <3>2 DEF AgreeOn, Nothing, At, Bound
    <3> QED
      BY <2>2, <3>1, <3>2, <3>3 DEF Anew
  <2> QED
    BY <2>3, <2>4
<1>2. ASSUME NEW n \in Catalogs, NEW u \in Urls, NEW j \in Visitors, EditCatalog(n, u, j)
      PROVE  Goal
  <2>1. /\ \A i \in Jobs \ {j} : job'[i] = job[i]
        /\ job'[j].at = n /\ job'[j].wants = u /\ j \in Jobs
    BY <1>2 DEF EditCatalog, Visit, CatalogInductive, CatalogTypeOK, Jobs
  <2>2. /\ catalog[n] # NoUrl /\ catalog' = [catalog EXCEPT ![n] = u]
        /\ mixed' = IF u = catalog[n] THEN mixed ELSE mixed \cup {n}
        /\ UNCHANGED <<dir, queue, deleting>>
    BY <1>2 DEF EditCatalog
  <2>3. ASSUME NEW m \in Catalogs \ mixed' PROVE Kept(m)
    <3>1. m \notin mixed /\ catalog'[m] = catalog[m] /\ (m = n => u = catalog[n])
      BY <2>2, <2>3 DEF CatalogInductive, CatalogTypeOK
    <3>2. Derives(m)
      BY <2>1, <2>2, <2>3, <3>1 DEF Derives
    <3> QED
      BY <2>2, <3>1, <3>2 DEF Kept, CatalogInductive, Cleared
  <2> QED
    BY <2>3
<1>3. ASSUME NEW n \in Catalogs, DeleteCatalog(n) PROVE Goal
  <2>1. /\ catalog' = [catalog EXCEPT ![n] = NoUrl] /\ deleting' = deleting \cup {n}
        /\ UNCHANGED <<dir, job, queue, mixed>>
    BY <1>3 DEF DeleteCatalog
  <2>2. \A m \in Catalogs : catalog'[m] = IF m = n THEN NoUrl ELSE catalog[m]
    BY <2>1 DEF CatalogInductive, CatalogTypeOK
  <2>3. ASSUME NEW m \in Catalogs PROVE Derives(m)
    BY <2>1, <2>2 DEF Derives
  <2> QED
    BY <2>1, <2>2, <2>3 DEF Kept, CatalogInductive, Cleared
<1>4. ASSUME NEW n \in Catalogs, RemoveDir(n) PROVE Goal
  <2>1. /\ deleting' = deleting \ {n} /\ UNCHANGED <<catalog, job, queue>>
        /\ mixed' = IF At(n) \cup Bound(n) = {} /\ catalog[n] = NoUrl THEN mixed \ {n}
                                                                     ELSE mixed \cup {n}
        /\ dir' = [dir EXCEPT ![n] = Absent]
    BY <1>4 DEF RemoveDir
  <2>2. /\ \A m \in Catalogs \ {n} : dir'[m] = dir[m]
        /\ dir'[n].git = "none"
    BY <2>1 DEF CatalogInductive, CatalogTypeOK, Absent, Empty
  <2>3. ASSUME NEW m \in Catalogs \ mixed', m # n PROVE Kept(m)
    <3>1. m \notin mixed
      BY <2>1, <2>3
    <3>2. Derives(m)
      BY <2>1, <2>2, <2>3 DEF Derives
    <3> QED
      BY <2>1, <2>3, <3>1, <3>2 DEF Kept, CatalogInductive, Cleared
  <2>4. ASSUME n \notin mixed' PROVE Anew(n)
    <3>1. At(n) = {} /\ Bound(n) = {} /\ catalog[n] = NoUrl
      BY <2>1, <2>4
    <3>2. At(n)' = {} /\ Bound(n)' = {} /\ catalog'[n] = NoUrl
      BY <2>1, <3>1 DEF At, Bound
    <3>3. AgreeOn(n, NoUrl)'
      BY <2>2, <3>2 DEF AgreeOn, Bound
    <3> QED
      BY <2>1, <2>2, <3>2, <3>3 DEF Anew, Nothing
  <2> QED
    BY <2>3, <2>4
<1>5. ASSUME NEW n \in Catalogs, NEW j \in Visitors, ReadCatalog(n, j) PROVE Goal
  <2>1. /\ \A i \in Jobs \ {j} : job'[i] = job[i]
        /\ job'[j].at = n /\ job'[j].wants = catalog[n] /\ j \in Jobs
    BY <1>5 DEF ReadCatalog, Visit, CatalogInductive, CatalogTypeOK, Jobs
  <2>2. catalog[n] # NoUrl /\ UNCHANGED <<catalog, dir, queue, deleting, mixed>>
    BY <1>5 DEF ReadCatalog
  <2>3. ASSUME NEW m \in Catalogs PROVE Derives(m)
    BY <2>1, <2>2 DEF Derives
  <2> QED
    BY <2>2, <2>3, SettledKept
<1>6. ASSUME NEW j \in Jobs, Refresh(j) PROVE Goal
  <2>1. UNCHANGED <<catalog, dir, job, deleting, mixed>>
    BY <1>6 DEF Refresh
  <2>2. \A i \in Jobs, m \in Catalogs, x \in Urls : <<m, x>> \in queue'[i] =>
           <<m, x>> \in queue[i] \/ (catalog[m] # NoUrl /\ x = catalog[m])
    <3>1. queue' = [queue EXCEPT ![j] = {<<n, catalog[n]>> :
                                           n \in {m \in Catalogs : catalog[m] # NoUrl}}]
      BY <1>6 DEF Refresh
    <3>2. queue \in [Jobs -> SUBSET (Catalogs \X Urls)]
      BY DEF CatalogInductive, CatalogTypeOK
    <3>3. \A i \in Jobs \ {j} : queue'[i] = queue[i]
      BY <3>1, <3>2
    <3>4. \A m \in Catalogs, x \in Urls :
             <<m, x>> \in queue'[j] => catalog[m] # NoUrl /\ x = catalog[m]
      BY <3>1, <3>2
    <3> QED
      BY <3>3, <3>4
  <2>3. ASSUME NEW m \in Catalogs PROVE Derives(m)
    BY <2>1, <2>2 DEF Derives
  <2> QED
    BY <2>1, <2>3, SettledKept
<1>7. ASSUME NEW j \in Jobs, RefreshNext(j) PROVE Goal
  <2>1. UNCHANGED <<catalog, dir, deleting, mixed>>
    BY <1>7 DEF RefreshNext
  <2>2. PICK q \in queue[j] : /\ Visit(j, q[1], q[2], TRUE)
                              /\ queue' = [queue EXCEPT ![j] = @ \ {q}]
    BY <1>7 DEF RefreshNext
  <2>3. PICK n \in Catalogs, u \in Urls : q = <<n, u>>
    BY <2>2 DEF CatalogInductive, CatalogTypeOK
  <2>4. /\ \A i \in Jobs \ {j} : job'[i] = job[i]
        /\ job'[j].at = n /\ job'[j].wants = u
    BY <2>2, <2>3 DEF Visit, CatalogInductive, CatalogTypeOK
  <2>5. \A i \in Jobs : queue'[i] \subseteq queue[i]
    BY <2>2 DEF CatalogInductive, CatalogTypeOK
  <2>6. ASSUME NEW m \in Catalogs PROVE Derives(m)
    BY <2>1, <2>2, <2>3, <2>4, <2>5 DEF Derives
  <2> QED
    BY <2>1, <2>6, SettledKept
<1>8. ASSUME NEW j \in Jobs, Look(j) \/ StartClone(j) \/ EndClone(j) \/ CloneFails(j) \/ Fetch(j)
                          \/ FetchFails(j) \/ Mark(j) \/ ReadCharts(j)
      PROVE  Goal
  BY <1>8, WorkMoves, MovedKept DEF CatalogInductive
<1>9. ASSUME NEW n \in Catalogs, Expire(n) PROVE Goal
  <2>1. UNCHANGED <<catalog, job, queue, deleting, mixed>>
    BY <1>9 DEF Expire
  <2>2. \A m \in Catalogs : dir'[m].git = dir[m].git /\ dir'[m].origin = dir[m].origin
    BY <1>9 DEF Expire, CatalogInductive, CatalogTypeOK, Dir
  <2>3. ASSUME NEW m \in Catalogs PROVE Derives(m)
    BY <2>1, <2>2 DEF Derives
  <2> QED
    BY <2>1, <2>3, SettledKept
<1>10. CASE UNCHANGED <<catalog, dir, job, queue, deleting, mixed>>
  <2>1. ASSUME NEW m \in Catalogs PROVE Derives(m)
    BY <1>10 DEF Derives
  <2> QED
    BY <1>10, <2>1, SettledKept
<1>11. ASSUME NEW u \in Urls, Commit(u) \/ Rewrite(u) PROVE Goal
  BY <1>10, <1>11 DEF Commit, Rewrite
<1>12. CASE UNCHANGED catalogVars
  BY <1>10, <1>12 DEF catalogVars
<1> QED
  BY <1>1, <1>2, <1>3, <1>4, <1>5, <1>6, <1>7, <1>8, <1>9, <1>11, <1>12 DEF
       CatalogNext, Work

-----------------------------------------------------------------------------
\* At first there are no catalogs and no directories.
LEMMA InitHolds == CatalogInit => CatalogInductive
<1> SUFFICES ASSUME CatalogInit PROVE CatalogInductive
  OBVIOUS
<1>1. \A n \in Catalogs : dir[n] = Absent /\ Absent.git = "none" /\ Absent.marker = "none"
  BY DEF CatalogInit, Absent, Empty
<1>2. \A n \in Catalogs : At(n) = {} /\ Bound(n) = {} /\ catalog[n] = NoUrl
  BY CatalogAssumption DEF CatalogInit, At, Bound, Resting
<1>3. CatalogTypeOK
  <2>1. Absent \in Dir
    BY EmptyType DEF Absent, Dir
  <2>2. Start0 \in Tip
    BY CatalogAssumption DEF Start0, Tip
  <2> QED
    BY <1>1, <2>1, <2>2, RestingType, CatalogAssumption DEF
         CatalogInit, CatalogTypeOK, Resting, Start0
<1>4. MarkerEarned
  BY <1>1, <1>2 DEF MarkerEarned
<1>5. \A n \in Catalogs : AgreeOn(n, NoUrl)
  BY <1>1, <1>2 DEF AgreeOn, Bound
<1> QED
  BY <1>1, <1>2, <1>3, <1>4, <1>5 DEF CatalogInductive, Agreed, Cleared

\* The invariant: whatever jobs meet in a directory, a marker is earned, and a catalog
\* has one repository unless it was given another.
THEOREM InductiveInvariant == CatalogSpec => []CatalogInductive
<1>1. CatalogInductive /\ [CatalogNext]_catalogVars => CatalogInductive'
  <2> SUFFICES ASSUME CatalogInductive, [CatalogNext]_catalogVars PROVE CatalogInductive'
    OBVIOUS
  <2>1. CatalogTypeOK'
    BY TypeStep DEF CatalogInductive
  <2>2. MarkerEarned'
    BY MarkerStep DEF CatalogInductive
  <2>3. Agreed' /\ Cleared'
    BY <2>1, RequestsKept, KeptOrAnew
  <2> QED
    BY <2>1, <2>2, <2>3 DEF CatalogInductive
<1> QED
  BY <1>1, InitHolds, PTL DEF CatalogSpec

\* Types of all variables.
THEOREM TypeCorrect == CatalogSpec => []CatalogTypeOK
<1>1. CatalogInductive => CatalogTypeOK
  BY DEF CatalogInductive
<1> QED
  BY <1>1, InductiveInvariant, PTL

\* A directory with a marker, as ensureLatest writes it, holds a whole clone, unless it
\* was emptied while somebody worked in it.
THEOREM MarkersTellTheTruth == CatalogSpec => []MarkedIsWhole
<1>1. CatalogInductive => MarkedIsWhole
  BY DEF CatalogInductive, MarkerEarned, MarkedIsWhole
<1> QED
  BY <1>1, InductiveInvariant, PTL

\* What a reader of the cache gets comes from the repository its catalog has, unless that
\* was edited, or deleted with jobs in its directory.
THEOREM ReadersGetTheirOwn == CatalogSpec => RightRepository
<1>1. CatalogInductive /\ [CatalogNext]_catalogVars =>
        [\A j \in Jobs :
           /\ job[j].pc = "read" /\ job'[j].pc = "rest"
           /\ dir[job[j].at].git # "none" /\ job[j].at \notin mixed
           => dir[job[j].at].origin = job[j].wants]_catalogVars
  <2> SUFFICES ASSUME CatalogInductive, NEW j \in Jobs, job[j].pc = "read",
                      dir[job[j].at].git # "none", job[j].at \notin mixed
               PROVE  dir[job[j].at].origin = job[j].wants
    OBVIOUS
  <2>1. job[j].at \in Catalogs
    BY DEF CatalogInductive, CatalogTypeOK
  <2>2. PICK u \in Urls \cup {NoUrl} : AgreeOn(job[j].at, u)
    BY <2>1 DEF CatalogInductive, Agreed
  <2> QED
    BY <2>2 DEF AgreeOn, At
<1> QED
  BY <1>1, InductiveInvariant, PTL DEF CatalogSpec, RightRepository
=============================================================================
