--------------------------- MODULE ResourcesProofs ---------------------------
(***************************************************************************)
(* Resources, for every set of requests, teams, resources and              *)
(* applications: type correctness; workloads and knowledge bases that stay *)
(* whole; deleted teams that leave nothing old; and, of requests that do   *)
(* not overlap, that the root store follows the branch and that no URL of  *)
(* a code repository is there twice.                                       *)
(***************************************************************************)
EXTENDS Resources, TLAPS

LEMMA FilesLemma ==
    ASSUME NEW t \in Teams, NEW w \in Workloads, NEW r \in CodeRepos
    PROVE  /\ TeamFiles(t) \subseteq Files
           /\ Settings(t) \in Files
           /\ WorkloadFiles(t, w) \subseteq Files
           /\ CodeRepo(t, r) \in Files
<1>1. /\ \A f \in WorkloadFiles(t, w) : f \in UNION {WorkloadFiles(t, v) : v \in Workloads}
      /\ CodeRepo(t, r) \in {CodeRepo(t, q) : q \in CodeRepos}
  OBVIOUS
<1>2. \A f \in TeamFiles(t) : f \in UNION {TeamFiles(u) : u \in Teams}
  OBVIOUS
<1>3. TeamFiles(t) \subseteq Files
  BY <1>2 DEF Files
<1>4. WorkloadFiles(t, w) \subseteq TeamFiles(t) /\ Settings(t) \in TeamFiles(t)
      /\ CodeRepo(t, r) \in TeamFiles(t)
  BY <1>1 DEF TeamFiles
<1> QED
  BY <1>3, <1>4

LEMMA AppFile == ASSUME NEW a \in Apps PROVE App(a) \in Files
<1>1. App(a) \in {App(b) : b \in Apps}
  OBVIOUS
<1> QED
  BY <1>1 DEF Files

LEMMA ByLemma ==
    ASSUME NEW s \in Requests, NEW v \in Plain \cup Urls
    PROVE  By(s, v) \in Content
  BY DEF By, Content

\* A handler that is through leaves every variable it writes well-typed ...
LEMMA WroteType ==
    ASSUME TypeOK, NEW s \in Requests, NEW new, NEW removed,
           \A f \in DOMAIN new : new[f] \in Content,
           Wrote(s, new, removed)
    PROVE  /\ branch' \in [Files -> Content \cup {Gone}]
           /\ root' = root
           /\ phase' \in [Requests -> {"idle", "handle", "save", "set", "done"}]
           /\ start' \in [Requests -> [Files -> Content \cup {Gone}]]
           /\ change' \in [Requests -> [Files -> Content \cup {Gone, Keep}]]
           /\ outcome' \in [Requests -> {"none", "ok", "error"}]
           /\ before' \in [Requests -> SUBSET Requests]
           /\ pushed' \subseteq Requests
           /\ stale' \subseteq Requests
           /\ remover' \in [Teams -> Requests \cup {Initial}]
<1>1. stale' \subseteq Requests
  BY DEF Wrote, TypeOK
<1>2. change' \in [Requests -> [Files -> Content \cup {Gone, Keep}]]
  BY DEF Wrote, TypeOK
<1>3. phase' \in [Requests -> {"idle", "handle", "save", "set", "done"}]
  BY DEF Wrote, TypeOK
<1> QED
  BY <1>1, <1>2, <1>3 DEF Wrote, TypeOK

\* ... and so do its new objects, which never replace another request's.
LEMMA StoresType ==
    ASSUME TypeOK, NEW s \in Requests, NEW new, NEW FS,
           \A f \in FS : new[f] \in Content,
           Stores(s, new, FS)
    PROVE  /\ heap' \in [Files -> [Objects -> Content \cup {Gone}]]
           /\ records' \in [Requests -> [Files -> Objects \cup {Gone, Keep}]]
           /\ \A f \in Files, o \in Objects : heap[f][o] # Gone => heap'[f][o] # Gone
           /\ \A q \in Requests, f \in Files :
                records'[q][f] \notin {Gone, Keep} => heap'[f][records'[q][f]] # Gone
<1>1. s \in Objects
  BY DEF Objects
<1>2. heap' \in [Files -> [Objects -> Content \cup {Gone}]]
  BY <1>1 DEF Stores, TypeOK
<1>3. records' \in [Requests -> [Files -> Objects \cup {Gone, Keep}]]
  BY <1>1 DEF Stores, TypeOK
<1>6. Gone \notin Content
  BY ResourcesAssumption
<1>4. \A f \in Files, o \in Objects : heap[f][o] # Gone => heap'[f][o] # Gone
  BY <1>1, <1>6 DEF Stores, TypeOK
<1>5. ASSUME NEW q \in Requests, NEW f \in Files, records'[q][f] \notin {Gone, Keep}
      PROVE  heap'[f][records'[q][f]] # Gone
  <2>1. CASE q = s
    <3>1. f \in FS /\ records'[q][f] = s
      BY <1>5, <2>1 DEF Stores, TypeOK
    <3>2. heap'[f][s] = new[f]
      BY <1>1, <3>1 DEF Stores, TypeOK
    <3> QED
      BY <1>6, <3>1, <3>2
  <2>2. CASE q # s
    <3>1. records'[q][f] = records[q][f]
      BY <2>2 DEF Stores, TypeOK
    <3>2. records[q][f] \in Objects
      BY <1>5, <3>1 DEF TypeOK
    <3> QED
      BY <1>4, <1>5, <3>1, <3>2 DEF TypeOK
  <2> QED
    BY <2>1, <2>2
<1> QED
  BY <1>2, <1>3, <1>4, <1>5

LEMMA SaveStep ==
    ASSUME TypeOK, NEW s \in Requests, NEW new, NEW removed, NEW FS,
           \A f \in DOMAIN new : new[f] \in Content,
           FS \subseteq DOMAIN new,
           Wrote(s, new, removed), Stores(s, new, FS), edited' \subseteq Requests
    PROVE  TypeOK'
<1>1. \A f \in Files : root[f] # Gone => root[f] \in Objects
  BY DEF TypeOK
<1>2. \A f \in Files : root'[f] # Gone => heap'[f][root'[f]] # Gone
  BY <1>1, StoresType, WroteType DEF TypeOK
<1>3. root' \in [Files -> Objects \cup {Gone}]
  BY WroteType DEF TypeOK
<1> QED
  BY <1>2, <1>3, StoresType, WroteType DEF TypeOK

LEMMA ForgetStep ==
    ASSUME TypeOK, NEW s \in Requests, NEW removed, NEW FS,
           Wrote(s, <<>>, removed), Forgets(s, FS), UNCHANGED edited
    PROVE  TypeOK'
<1>1. records' \in [Requests -> [Files -> Objects \cup {Gone, Keep}]]
  BY DEF Forgets, TypeOK
<1>2. \A q \in Requests, f \in Files :
        records'[q][f] \notin {Gone, Keep} => records'[q][f] = records[q][f]
  BY DEF Forgets, TypeOK
<1>3. heap' = heap
  BY DEF Forgets
<1>4. DOMAIN <<>> = {}
  OBVIOUS
<1>5. root' \in [Files -> Objects \cup {Gone}]
  BY <1>4, WroteType DEF TypeOK
<1> QED
  BY <1>1, <1>2, <1>3, <1>4, <1>5, WroteType DEF TypeOK

\* saveTeam, saveTeamConfigItem and editApp.
LEMMA ItemStep ==
    ASSUME TypeOK, NEW s \in Requests, NEW f, NEW v \in Plain \cup Urls,
           SaveTeamConfigItem(s, f, v), edited' \subseteq Requests
    PROVE  TypeOK'
<1> DEFINE new == [g \in {f} |-> By(s, v)]
<1>1. Wrote(s, new, {}) /\ Stores(s, new, {f})
  BY DEF SaveTeamConfigItem
<1>2. DOMAIN new = {f} /\ \A g \in {f} : new[g] \in Content
  BY ByLemma
<1> HIDE DEF new
<1> QED
  BY <1>1, <1>2, SaveStep

LEMMA WorkloadStep ==
    ASSUME TypeOK, NEW s \in Requests, NEW t \in Teams, NEW w \in Workloads,
           CreateWorkload(s, t, w) \/ EditWorkload(s, t, w) \/ DeleteWorkload(s, t, w)
    PROVE  TypeOK'
<1>1. CASE CreateWorkload(s, t, w)
  <2> DEFINE FS == WorkloadFiles(t, w)
             new == [f \in FS |-> By(s, IF f = Managed(t, w) THEN "empty" ELSE "plain")]
  <2>1. Wrote(s, new, {}) /\ Stores(s, new, {Workload(t, w), Values(t, w)})
    BY <1>1 DEF CreateWorkload
  <2>2. DOMAIN new = FS /\ \A f \in FS : new[f] \in Content
    BY ByLemma DEF Plain
  <2>3. {Workload(t, w), Values(t, w)} \subseteq FS
    BY DEF WorkloadFiles
  <2>4. edited' \subseteq Requests
    BY <1>1 DEF CreateWorkload, TypeOK
  <2> HIDE DEF new, FS
  <2> QED
    BY <2>1, <2>2, <2>3, <2>4, SaveStep
<1>2. CASE EditWorkload(s, t, w)
  <2>1. PICK FS : LET new == [f \in FS |-> By(s, "plain")]
                  IN  Wrote(s, new, {}) /\ Stores(s, new, FS) /\ UNCHANGED edited
    BY <1>2 DEF EditWorkload
  <2> DEFINE new == [f \in FS |-> By(s, "plain")]
  <2>2. DOMAIN new = FS /\ \A f \in FS : new[f] \in Content
    BY ByLemma DEF Plain
  <2>3. Wrote(s, new, {}) /\ Stores(s, new, FS) /\ edited' \subseteq Requests
    BY <2>1 DEF TypeOK
  <2> HIDE DEF new
  <2> QED
    BY <2>2, <2>3, SaveStep
<1>3. CASE DeleteWorkload(s, t, w)
  BY <1>3, ForgetStep DEF DeleteWorkload
<1> QED
  BY <1>1, <1>2, <1>3

LEMMA InPlaceType ==
    ASSUME TypeOK, NEW s \in Requests, NEW A, NEW v \in OnOff, SetInPlace(s, A, v)
    PROVE  /\ heap' \in [Files -> [Objects -> Content \cup {Gone}]]
           /\ \A f \in Files, o \in Objects : heap[f][o] # Gone => heap'[f][o] # Gone
<1>1. By(s, v) \in Content
  BY ByLemma DEF OnOff, Plain
<1>2. \A f \in Files : Exists(f) => root[f] \in Objects
  BY DEF TypeOK, Exists
<1>3. Gone \notin Content
  BY ResourcesAssumption
<1>4. heap' \in [Files -> [Objects -> Content \cup {Gone}]]
  BY <1>1, <1>2 DEF SetInPlace, TypeOK
<1>5. \A f \in Files, o \in Objects : heap[f][o] # Gone => heap'[f][o] # Gone
  BY <1>1, <1>2, <1>3 DEF SetInPlace, TypeOK
<1> QED
  BY <1>4, <1>5

LEMMA ToggleStep ==
    ASSUME TypeOK, NEW s \in Requests, NEW A \in SUBSET Apps, NEW v \in OnOff,
           ToggleApps(s, A, v)
    PROVE  TypeOK'
<1> DEFINE new == [f \in {App(a) : a \in A} |-> By(s, v)]
<1>1. /\ SetInPlace(s, A, v)
      /\ Wrote(s, new, {})
      /\ \A a \in A : Exists(App(a))
      /\ edited' = edited
      /\ records' = [records EXCEPT ![s] =
                       [f \in Files |-> IF \E a \in A : f = App(a) THEN root[f] ELSE Keep]]
  BY DEF ToggleApps
<1>2. \A f \in DOMAIN new : new[f] \in Content
  BY ByLemma DEF OnOff, Plain
<1> HIDE DEF new
<1>3. \A f \in Files : root[f] # Gone => root[f] \in Objects
  BY DEF TypeOK
<1>4. records' \in [Requests -> [Files -> Objects \cup {Gone, Keep}]]
  BY <1>1, <1>3 DEF TypeOK
<1>5. root' = root
  BY <1>1, <1>2, WroteType
<1>6. \A f \in Files : root[f] # Gone => heap'[f][root[f]] # Gone
  BY <1>1, <1>3, InPlaceType DEF TypeOK
<1>7. ASSUME NEW q \in Requests, NEW f \in Files, records'[q][f] \notin {Gone, Keep}
      PROVE  heap'[f][records'[q][f]] # Gone
  <2>1. CASE records'[q][f] = records[q][f]
    BY <1>1, <1>7, <2>1, InPlaceType DEF TypeOK
  <2>2. CASE records'[q][f] = root[f]
    BY <1>6, <1>7, <2>2
  <2> QED
    BY <1>1, <1>7, <2>1, <2>2 DEF TypeOK
<1>8. root' \in [Files -> Objects \cup {Gone}] /\ edited' \subseteq Requests
  BY <1>1, <1>5 DEF TypeOK
<1> QED
  BY <1>1, <1>2, <1>4, <1>5, <1>6, <1>7, <1>8, InPlaceType, WroteType DEF TypeOK

\* What is common to the steps that end a request with an error.
LEMMA FailsType ==
    ASSUME TypeOK, NEW s \in Requests, Fails(s)
    PROVE  /\ phase' \in [Requests -> {"idle", "handle", "save", "set", "done"}]
           /\ outcome' \in [Requests -> {"none", "ok", "error"}]
           /\ start' \in [Requests -> [Files -> Content \cup {Gone}]]
           /\ change' \in [Requests -> [Files -> Content \cup {Gone, Keep}]]
           /\ records' \in [Requests -> [Files -> Objects \cup {Gone, Keep}]]
           /\ \A q \in Requests, f \in Files :
                records'[q][f] \in {Keep, records[q][f]}
<1>1. FirstTree \in [Files -> Content \cup {Gone}]
  BY DEF FirstTree, First, Content, Plain
<1>2. NoChange \in [Files -> Content \cup {Gone, Keep}]
      /\ NoChange \in [Files -> Objects \cup {Gone, Keep}]
  BY DEF NoChange
<1> QED
  BY <1>1, <1>2 DEF Fails, TypeOK, NoChange

LEMMA ErrorStep ==
    ASSUME TypeOK, NEW s \in Requests, NEW A \in SUBSET Apps, NEW v \in OnOff,
           ToggleAppsUnknown(s, A, v) \/ Reject(s)
    PROVE  TypeOK'
<1>1. /\ heap' \in [Files -> [Objects -> Content \cup {Gone}]]
      /\ \A f \in Files, o \in Objects : heap[f][o] # Gone => heap'[f][o] # Gone
  BY InPlaceType DEF ToggleAppsUnknown, Reject, TypeOK
<1>2. Fails(s) /\ UNCHANGED <<branch, root, before, pushed, stale, edited, remover>>
  BY DEF ToggleAppsUnknown, Reject
<1>3. \A f \in Files : root'[f] # Gone => heap'[f][root'[f]] # Gone
  BY <1>1, <1>2 DEF TypeOK
<1>4. \A q \in Requests, f \in Files :
        records'[q][f] \notin {Gone, Keep} => heap'[f][records'[q][f]] # Gone
  BY <1>1, <1>2, FailsType DEF TypeOK
<1> QED
  BY <1>1, <1>2, <1>3, <1>4, FailsType DEF TypeOK

LEMMA KnowledgeBaseStep ==
    ASSUME TypeOK, NEW s \in Requests, NEW t \in Teams, NEW k \in KnowledgeBases,
           SaveKnowledgeBase(s, t, k)
    PROVE  TypeOK'
<1> DEFINE FS == BaseFiles(t, k)
           new == [f \in FS |-> By(s, IF f = Database(t, k) THEN "empty" ELSE "plain")]
<1>1. Wrote(s, new, {}) /\ Stores(s, new, {Base(t, k)})
  BY DEF SaveKnowledgeBase
<1>2. DOMAIN new = FS /\ \A f \in FS : new[f] \in Content
  BY ByLemma DEF Plain
<1>3. {Base(t, k)} \subseteq FS
  BY DEF BaseFiles
<1>4. edited' \subseteq Requests
  BY DEF SaveKnowledgeBase, TypeOK
<1> HIDE DEF new, FS
<1> QED
  BY <1>1, <1>2, <1>3, <1>4, SaveStep

LEMMA HandleType ==
    ASSUME TypeOK, NEW s \in Requests, Handle(s) PROVE TypeOK'
<1> USE DEF Plain
<1>1. ASSUME NEW t \in Teams, CreateTeam(s, t) \/ EditTeam(s, t) PROVE TypeOK'
  BY <1>1, ItemStep DEF CreateTeam, EditTeam, TypeOK
<1>2. ASSUME NEW t \in Teams, DeleteTeam(s, t) PROVE TypeOK'
  BY <1>2, ForgetStep DEF DeleteTeam
<1>3. ASSUME NEW t \in Teams, NEW r \in CodeRepos, DeleteCodeRepo(s, t, r) PROVE TypeOK'
  BY <1>3, ForgetStep DEF DeleteCodeRepo
<1>4. ASSUME NEW t \in Teams, NEW r \in CodeRepos, NEW u \in Urls,
             CreateCodeRepo(s, t, r, u) \/ EditCodeRepo(s, t, r, u)
      PROVE  TypeOK'
  BY <1>4, ItemStep DEF CreateCodeRepo, EditCodeRepo, TypeOK
<1>5. ASSUME NEW a \in Apps, NEW v \in OnOff, EditApp(s, a, v) PROVE TypeOK'
  BY <1>5, ItemStep DEF EditApp, OnOff, TypeOK
<1>6. Reject(s) => TypeOK'
  <2>1. "on" \in OnOff /\ {} \in SUBSET Apps
    BY DEF OnOff
  <2> QED
    BY <2>1, ErrorStep
<1>7. ASSUME NEW t \in Teams, NEW i \in Items,
             CreateItem(s, t, i) \/ EditItem(s, t, i) \/ DeleteItem(s, t, i)
      PROVE  TypeOK'
  BY <1>7, ItemStep, ForgetStep DEF CreateItem, EditItem, DeleteItem, TypeOK
<1>8. ASSUME NEW t \in Teams, NEW k \in KnowledgeBases,
             \/ CreateKnowledgeBase(s, t, k) \/ EditKnowledgeBase(s, t, k)
             \/ DeleteKnowledgeBase(s, t, k)
      PROVE  TypeOK'
  BY <1>8, KnowledgeBaseStep, ForgetStep
     DEF CreateKnowledgeBase, EditKnowledgeBase, DeleteKnowledgeBase
<1> QED
  BY <1>1, <1>2, <1>3, <1>4, <1>5, <1>6, <1>7, <1>8, WorkloadStep, ToggleStep, ErrorStep
     DEF Handle

LEMMA PushType ==
    ASSUME TypeOK, NEW s \in Requests, NEW FS, Push(s, FS)
    PROVE  /\ branch' \in [Files -> Content \cup {Gone}]
           /\ pushed' \subseteq Requests
           /\ remover' \in [Teams -> Requests \cup {Initial}]
  BY DEF Push, TypeOK

LEMMA SaveType ==
    ASSUME TypeOK, NEW s \in Requests, Save(s) PROVE TypeOK'
<1>1. SaveUnchanged
  BY DEF Save, Land, LandInPart, LandNothing, SaveFails
<1>2. /\ branch' \in [Files -> Content \cup {Gone}]
      /\ pushed' \subseteq Requests
      /\ remover' \in [Teams -> Requests \cup {Initial}]
  BY PushType DEF Save, Land, LandInPart, LandNothing, SaveFails, TypeOK
<1>3. CASE ToSet(s)
  BY <1>1, <1>2, <1>3 DEF ToSet, SaveUnchanged, TypeOK
<1>4. CASE Fails(s)
  <2>1. \A q \in Requests, f \in Files :
          records'[q][f] \notin {Gone, Keep} => heap'[f][records'[q][f]] # Gone
    BY <1>1, <1>4, FailsType DEF SaveUnchanged, TypeOK
  <2> QED
    BY <1>1, <1>2, <1>4, <2>1, FailsType DEF SaveUnchanged, TypeOK
<1> QED
  BY <1>3, <1>4 DEF Save, Land, LandInPart, LandNothing, SaveFails

LEMMA SetRootType ==
    ASSUME TypeOK, NEW s \in Requests, SetRoot(s) PROVE TypeOK'
<1>1. FirstTree \in [Files -> Content \cup {Gone}]
  BY DEF FirstTree, First, Content, Plain
<1>2. root' \in [Files -> Objects \cup {Gone}]
      /\ \A f \in Files : root'[f] # Gone => heap'[f][root'[f]] # Gone
  BY DEF SetRoot, TypeOK
<1>3. records' \in [Requests -> [Files -> Objects \cup {Gone, Keep}]]
      /\ \A q \in Requests, f \in Files :
           records'[q][f] \notin {Gone, Keep} => heap'[f][records'[q][f]] # Gone
  BY DEF SetRoot, NoChange, TypeOK
<1> QED
  BY <1>1, <1>2, <1>3 DEF SetRoot, NoChange, TypeOK

\* TypeOK holds in every state of every instance.
THEOREM TypeCorrect == Spec => []TypeOK
<1>1. Init => TypeOK
  <2>1. FirstTree \in [Files -> Content \cup {Gone}]
    BY DEF FirstTree, First, Content, Plain
  <2>2. \A f \in Present0 : First(f) # Gone
    BY ResourcesAssumption DEF First, Content, Plain
  <2> SUFFICES ASSUME Init PROVE TypeOK
    OBVIOUS
  <2>3. /\ heap \in [Files -> [Objects -> Content \cup {Gone}]]
        /\ root \in [Files -> Objects \cup {Gone}]
    BY <2>1 DEF Init, Objects
  <2>4. \A f \in Files : root[f] # Gone => heap[f][root[f]] # Gone
    BY <2>2 DEF Init, Objects, FirstTree
  <2>5. /\ records \in [Requests -> [Files -> Objects \cup {Gone, Keep}]]
        /\ \A s \in Requests, f \in Files : records[s][f] = Keep
    BY DEF Init, NoChange
  <2> QED
    BY <2>1, <2>3, <2>4, <2>5 DEF Init, NoChange, TypeOK
<1>2. TypeOK /\ [Next]_vars => TypeOK'
  <2> SUFFICES ASSUME TypeOK, [Next]_vars PROVE TypeOK'
    OBVIOUS
  <2>1. ASSUME NEW s \in Requests, Begin(s) PROVE TypeOK'
    BY <2>1 DEF Begin, TypeOK
  <2>2. CASE UNCHANGED vars
    BY <2>2 DEF vars, TypeOK
  <2> QED
    BY <2>1, <2>2, HandleType, SaveType, SetRootType DEF Next
<1> QED
  BY <1>1, <1>2, PTL DEF Spec

-----------------------------------------------------------------------------
(* Resources of several files stay whole *)

Bundles == WorkloadBundles \cup BaseBundles

\* The files of a workload, and what else there is that they are not.
LEMMA WorkloadBundle ==
    ASSUME NEW t \in Teams, NEW w \in Workloads
    PROVE  /\ WorkloadFiles(t, w) \in Bundles
           /\ WorkloadFiles(t, w) \subseteq TeamFiles(t)
           /\ \A u \in Teams : u # t => TeamFiles(u) \cap WorkloadFiles(t, w) = {}
           /\ \A u \in Teams, v \in Workloads :
                <<u, v>> # <<t, w>> => WorkloadFiles(t, w) \cap WorkloadFiles(u, v) = {}
           /\ \A u \in Teams, k \in KnowledgeBases : WorkloadFiles(t, w) \cap BaseFiles(u, k) = {}
           /\ \A u \in Teams : Settings(u) \notin WorkloadFiles(t, w)
           /\ \A u \in Teams, r \in CodeRepos : CodeRepo(u, r) \notin WorkloadFiles(t, w)
           /\ \A u \in Teams, i \in Items : Item(u, i) \notin WorkloadFiles(t, w)
           /\ \A a \in Apps : App(a) \notin WorkloadFiles(t, w)
<1>1. WorkloadFiles(t, w) \subseteq TeamFiles(t)
  <2>1. \A f \in WorkloadFiles(t, w) : f \in UNION {WorkloadFiles(t, v) : v \in Workloads}
    OBVIOUS
  <2> QED
    BY <2>1 DEF TeamFiles
<1>2. WorkloadFiles(t, w) \in Bundles
  BY DEF Bundles, WorkloadBundles
<1> USE DEF WorkloadFiles, Workload, Values, Managed
<1>3. ASSUME NEW u \in Teams, u # t, NEW f \in TeamFiles(u), f \in WorkloadFiles(t, w)
      PROVE  FALSE
  <2>1. f[2] = t
    BY <1>3
  <2>2. f[2] = u
    BY <1>3 DEF TeamFiles, BaseFiles, Base, Database, Settings, CodeRepo, Item
  <2> QED
    BY <1>3, <2>1, <2>2
<1>4. \A u \in Teams, v \in Workloads :
        <<u, v>> # <<t, w>> => WorkloadFiles(t, w) \cap WorkloadFiles(u, v) = {}
  OBVIOUS
<1>5. \A u \in Teams, k \in KnowledgeBases : WorkloadFiles(t, w) \cap BaseFiles(u, k) = {}
  BY DEF BaseFiles, Base, Database
<1>6. \A u \in Teams : Settings(u) \notin WorkloadFiles(t, w)
  BY DEF Settings
<1>7. \A u \in Teams, r \in CodeRepos : CodeRepo(u, r) \notin WorkloadFiles(t, w)
  BY DEF CodeRepo
<1>8. \A u \in Teams, i \in Items : Item(u, i) \notin WorkloadFiles(t, w)
  BY DEF Item
<1>9. \A a \in Apps : App(a) \notin WorkloadFiles(t, w)
  BY DEF App
<1> HIDE DEF WorkloadFiles, Workload, Values, Managed
<1> QED
  BY <1>1, <1>2, <1>3, <1>4, <1>5, <1>6, <1>7, <1>8, <1>9

\* The files of a knowledge base, likewise.
LEMMA BaseBundle ==
    ASSUME NEW t \in Teams, NEW k \in KnowledgeBases
    PROVE  /\ BaseFiles(t, k) \in Bundles
           /\ BaseFiles(t, k) \subseteq TeamFiles(t)
           /\ \A u \in Teams : u # t => TeamFiles(u) \cap BaseFiles(t, k) = {}
           /\ \A u \in Teams, j \in KnowledgeBases :
                <<u, j>> # <<t, k>> => BaseFiles(t, k) \cap BaseFiles(u, j) = {}
           /\ \A u \in Teams, w \in Workloads : BaseFiles(t, k) \cap WorkloadFiles(u, w) = {}
           /\ \A u \in Teams : Settings(u) \notin BaseFiles(t, k)
           /\ \A u \in Teams, r \in CodeRepos : CodeRepo(u, r) \notin BaseFiles(t, k)
           /\ \A u \in Teams, i \in Items : Item(u, i) \notin BaseFiles(t, k)
           /\ \A a \in Apps : App(a) \notin BaseFiles(t, k)
<1>1. BaseFiles(t, k) \subseteq TeamFiles(t)
  <2>1. \A f \in BaseFiles(t, k) : f \in UNION {BaseFiles(t, j) : j \in KnowledgeBases}
    OBVIOUS
  <2> QED
    BY <2>1 DEF TeamFiles
<1>2. BaseFiles(t, k) \in Bundles
  BY DEF Bundles, BaseBundles
<1>5. \A u \in Teams, w \in Workloads : BaseFiles(t, k) \cap WorkloadFiles(u, w) = {}
  BY WorkloadBundle
<1> USE DEF BaseFiles, Base, Database
<1>3. ASSUME NEW u \in Teams, u # t, NEW f \in TeamFiles(u), f \in BaseFiles(t, k)
      PROVE  FALSE
  <2>1. f[2] = t
    BY <1>3
  <2>2. f[2] = u
    BY <1>3 DEF TeamFiles, WorkloadFiles, Workload, Values, Managed, Settings, CodeRepo, Item
  <2> QED
    BY <1>3, <2>1, <2>2
<1>4. \A u \in Teams, j \in KnowledgeBases :
        <<u, j>> # <<t, k>> => BaseFiles(t, k) \cap BaseFiles(u, j) = {}
  OBVIOUS
<1>6. \A u \in Teams : Settings(u) \notin BaseFiles(t, k)
  BY DEF Settings
<1>7. \A u \in Teams, r \in CodeRepos : CodeRepo(u, r) \notin BaseFiles(t, k)
  BY DEF CodeRepo
<1>8. \A u \in Teams, i \in Items : Item(u, i) \notin BaseFiles(t, k)
  BY DEF Item
<1>9. \A a \in Apps : App(a) \notin BaseFiles(t, k)
  BY DEF App
<1> HIDE DEF BaseFiles, Base, Database
<1> QED
  BY <1>1, <1>2, <1>3, <1>4, <1>5, <1>6, <1>7, <1>8, <1>9

\* What the two have in common.
LEMMA BundleFiles ==
    ASSUME NEW FS \in Bundles
    PROVE  /\ FS \subseteq Files
           /\ \A u \in Teams : FS \subseteq TeamFiles(u) \/ TeamFiles(u) \cap FS = {}
           /\ \A u \in Teams : Settings(u) \notin FS
           /\ \A u \in Teams, r \in CodeRepos : CodeRepo(u, r) \notin FS
           /\ \A u \in Teams, i \in Items : Item(u, i) \notin FS
           /\ \A a \in Apps : App(a) \notin FS
<1>1. \A t \in Teams : TeamFiles(t) \subseteq Files
  <2>1. \A t \in Teams : \A f \in TeamFiles(t) : f \in UNION {TeamFiles(u) : u \in Teams}
    OBVIOUS
  <2> QED
    BY <2>1 DEF Files
<1>2. CASE FS \in WorkloadBundles
  <2>1. PICK t \in Teams, w \in Workloads : FS = WorkloadFiles(t, w)
    BY <1>2 DEF WorkloadBundles
  <2> QED
    BY <1>1, <2>1, WorkloadBundle
<1>3. CASE FS \in BaseBundles
  <2>1. PICK t \in Teams, k \in KnowledgeBases : FS = BaseFiles(t, k)
    BY <1>3 DEF BaseBundles
  <2> QED
    BY <1>1, <2>1, BaseBundle
<1> QED
  BY <1>2, <1>3 DEF Bundles

\* A handler that writes and removes no file of a resource leaves it alone.
LEMMA LeavesAlone ==
    ASSUME TypeOK, NEW s \in Requests, NEW new, NEW removed, Wrote(s, new, removed),
           NEW FS \in Bundles, FS \cap (DOMAIN new \cup removed) = {}
    PROVE  WholeChange(s, FS)'
<1>1. \A f \in FS : f \in Files /\ f \notin DOMAIN new /\ f \notin removed
  BY BundleFiles
<1>2. \A f \in FS : change'[s][f] = Keep
  BY <1>1 DEF Wrote, TypeOK
<1> QED
  BY <1>2 DEF WholeChange

LEMMA RemovesAll ==
    ASSUME TypeOK, NEW s \in Requests, NEW removed, Wrote(s, <<>>, removed),
           NEW FS \in Bundles, WholeIn(start[s], FS), FS \subseteq removed
    PROVE  WholeChange(s, FS)'
<1>1. \A f \in FS : f \in Files /\ f \in removed /\ f \notin DOMAIN <<>>
  BY BundleFiles
<1>2. \A f \in FS : change'[s][f] = IF start[s][f] # Gone THEN Gone ELSE Keep
  BY <1>1 DEF Wrote, TypeOK
<1>3. \/ \A f \in FS : start[s][f] = Gone
      \/ \A f \in FS : start[s][f] # Gone
  BY DEF WholeIn
<1> QED
  BY <1>2, <1>3 DEF WholeChange

\* A handler that writes all files creates the resource or edits it.
LEMMA WritesAll ==
    ASSUME TypeOK, NEW s \in Requests, NEW new, Wrote(s, new, {}),
           NEW FS \in Bundles, WholeIn(start[s], FS),
           FS \subseteq DOMAIN new, \A f \in FS : new[f] \in Content
    PROVE  WholeChange(s, FS)'
<1>1. \A f \in FS : f \in Files /\ f \in DOMAIN new /\ new[f] \notin {Gone, Keep}
  BY BundleFiles, ResourcesAssumption
<1>2. \A f \in FS :
        change'[s][f] = IF Same(new[f], start[s][f]) THEN Keep ELSE new[f]
  BY <1>1 DEF Wrote, TypeOK
<1>3. CASE \A f \in FS : start[s][f] = Gone
  <2>1. \A f \in FS : change'[s][f] = new[f]
    BY <1>1, <1>2, <1>3 DEF Same
  <2> QED
    BY <1>1, <2>1 DEF WholeChange
<1>4. CASE \A f \in FS : start[s][f] # Gone
  <2>1. \A f \in FS : change'[s][f] # Gone
    BY <1>1, <1>2, ResourcesAssumption
  <2>2. start' = start
    BY DEF Wrote
  <2> QED
    BY <1>4, <2>1, <2>2 DEF WholeChange
<1> QED
  BY <1>3, <1>4 DEF WholeIn

LEMMA ItemLeavesAlone ==
    ASSUME TypeOK, NEW s \in Requests, NEW f, NEW x, SaveTeamConfigItem(s, f, x),
           NEW FS \in Bundles, f \notin FS
    PROVE  WholeChange(s, FS)'
<1> DEFINE new == [g \in {f} |-> By(s, x)]
<1>1. Wrote(s, new, {}) /\ DOMAIN new = {f}
  BY DEF SaveTeamConfigItem
<1> HIDE DEF new
<1> QED
  BY <1>1, LeavesAlone

\* A request whose views agree and that edits a workload finds all of it in its
\* worktree.
LEMMA EditsPart ==
    ASSUME TypeOK, NEW s \in Requests, NEW t \in Teams, NEW w \in Workloads,
           EditWorkload(s, t, w), ~SeesStale(s), WholeIn(start[s], WorkloadFiles(t, w))
    PROVE  WholeChange(s, WorkloadFiles(t, w))'
<1>1. PICK FS \in {{Workload(t, w)}, {Workload(t, w), Values(t, w)}, {Values(t, w)}} :
        Wrote(s, [f \in FS |-> By(s, "plain")], {}) /\ Exists(Workload(t, w))
  BY DEF EditWorkload
<1> DEFINE new == [f \in FS |-> By(s, "plain")]
<1>2. \A f \in DOMAIN new : new[f] \notin {Gone, Keep}
  BY ByLemma, ResourcesAssumption DEF Plain
<1>3. Workload(t, w) \in WorkloadFiles(t, w)
  BY DEF WorkloadFiles
<1>4. \A f \in WorkloadFiles(t, w) : f \in Files
  BY WorkloadBundle, BundleFiles
<1>5. Wrote(s, new, {})
  BY <1>1
<1> HIDE DEF new
<1>6. start[s][Workload(t, w)] # Gone
  <2>1. Same(Shown(root, Workload(t, w)), start[s][Workload(t, w)])
    BY DEF SeesStale
  <2>2. Shown(root, Workload(t, w)) # Gone
    BY <1>1, <1>3, <1>4 DEF Exists, Shown, TypeOK
  <2> QED
    BY <2>1, <2>2 DEF Same
<1>7. \A f \in WorkloadFiles(t, w) : start[s][f] # Gone
  BY <1>3, <1>6 DEF WholeIn
<1>8. \A f \in WorkloadFiles(t, w) : change'[s][f] # Gone
  BY <1>2, <1>4, <1>5, <1>7, ResourcesAssumption DEF Wrote, TypeOK
<1>9. start' = start
  BY <1>5 DEF Wrote
<1> QED
  BY <1>7, <1>8, <1>9 DEF WholeChange

\* The handlers of one workload and any resource.
LEMMA WorkloadWholeChange ==
    ASSUME TypeOK, NEW s \in Requests, NEW FS \in Bundles, WholeIn(start[s], FS),
           FS \in WorkloadBundles => ~SeesStale(s),
           NEW u \in Teams, NEW v \in Workloads,
           CreateWorkload(s, u, v) \/ EditWorkload(s, u, v) \/ DeleteWorkload(s, u, v)
    PROVE  WholeChange(s, FS)'
<1>1. FS = WorkloadFiles(u, v) \/ FS \cap WorkloadFiles(u, v) = {}
  <2>1. CASE FS \in WorkloadBundles
    <3>1. PICK t \in Teams, w \in Workloads : FS = WorkloadFiles(t, w)
      BY <2>1 DEF WorkloadBundles
    <3>2. CASE <<u, v>> = <<t, w>>
      BY <3>1, <3>2
    <3>3. CASE <<u, v>> # <<t, w>>
      BY <3>1, <3>3, WorkloadBundle
    <3> QED
      BY <3>2, <3>3
  <2>2. CASE FS \in BaseBundles
    <3>1. PICK t \in Teams, k \in KnowledgeBases : FS = BaseFiles(t, k)
      BY <2>2 DEF BaseBundles
    <3> QED
      BY <3>1, BaseBundle
  <2> QED
    BY <2>1, <2>2 DEF Bundles
<1>2. ASSUME CreateWorkload(s, u, v) PROVE WholeChange(s, FS)'
  <2> DEFINE new == [f \in WorkloadFiles(u, v) |->
                       By(s, IF f = Managed(u, v) THEN "empty" ELSE "plain")]
  <2>1. Wrote(s, new, {})
    BY <1>2 DEF CreateWorkload
  <2>2. DOMAIN new = WorkloadFiles(u, v) /\ \A f \in DOMAIN new : new[f] \in Content
    BY ByLemma DEF Plain
  <2> HIDE DEF new
  <2> QED
    BY <1>1, <2>1, <2>2, WritesAll, LeavesAlone
<1>3. ASSUME EditWorkload(s, u, v) PROVE WholeChange(s, FS)'
  <2>1. CASE FS = WorkloadFiles(u, v)
    <3>1. FS \in WorkloadBundles
      BY <2>1 DEF WorkloadBundles
    <3> QED
      BY <1>3, <2>1, <3>1, EditsPart
  <2>2. CASE FS \cap WorkloadFiles(u, v) = {}
    <3>1. PICK WS \in {{Workload(u, v)}, {Workload(u, v), Values(u, v)}, {Values(u, v)}} :
            Wrote(s, [f \in WS |-> By(s, "plain")], {})
      BY <1>3 DEF EditWorkload
    <3> DEFINE new == [f \in WS |-> By(s, "plain")]
    <3>2. DOMAIN new \subseteq WorkloadFiles(u, v)
      BY DEF WorkloadFiles
    <3>3. Wrote(s, new, {})
      BY <3>1
    <3> HIDE DEF new
    <3> QED
      BY <2>2, <3>2, <3>3, LeavesAlone
  <2> QED
    BY <1>1, <2>1, <2>2
<1>4. ASSUME DeleteWorkload(s, u, v) PROVE WholeChange(s, FS)'
  <2>1. DOMAIN <<>> = {} /\ Wrote(s, <<>>, WorkloadFiles(u, v))
    BY <1>4 DEF DeleteWorkload
  <2> QED
    BY <1>1, <2>1, LeavesAlone, RemovesAll
<1> QED
  BY <1>2, <1>3, <1>4

\* The handlers of one knowledge base and any resource: no view matters.
LEMMA KnowledgeBaseWholeChange ==
    ASSUME TypeOK, NEW s \in Requests, NEW FS \in Bundles, WholeIn(start[s], FS),
           NEW u \in Teams, NEW k \in KnowledgeBases,
           SaveKnowledgeBase(s, u, k) \/ DeleteKnowledgeBase(s, u, k)
    PROVE  WholeChange(s, FS)'
<1>1. FS = BaseFiles(u, k) \/ FS \cap BaseFiles(u, k) = {}
  <2>1. CASE FS \in BaseBundles
    <3>1. PICK t \in Teams, j \in KnowledgeBases : FS = BaseFiles(t, j)
      BY <2>1 DEF BaseBundles
    <3>2. CASE <<u, k>> = <<t, j>>
      BY <3>1, <3>2
    <3>3. CASE <<u, k>> # <<t, j>>
      BY <3>1, <3>3, BaseBundle
    <3> QED
      BY <3>2, <3>3
  <2>2. CASE FS \in WorkloadBundles
    <3>1. PICK t \in Teams, w \in Workloads : FS = WorkloadFiles(t, w)
      BY <2>2 DEF WorkloadBundles
    <3> QED
      BY <3>1, WorkloadBundle
  <2> QED
    BY <2>1, <2>2 DEF Bundles
<1>2. ASSUME SaveKnowledgeBase(s, u, k) PROVE WholeChange(s, FS)'
  <2> DEFINE new == [f \in BaseFiles(u, k) |->
                       By(s, IF f = Database(u, k) THEN "empty" ELSE "plain")]
  <2>1. Wrote(s, new, {})
    BY <1>2 DEF SaveKnowledgeBase
  <2>2. DOMAIN new = BaseFiles(u, k) /\ \A f \in DOMAIN new : new[f] \in Content
    BY ByLemma DEF Plain
  <2> HIDE DEF new
  <2> QED
    BY <1>1, <2>1, <2>2, WritesAll, LeavesAlone
<1>3. ASSUME DeleteKnowledgeBase(s, u, k) PROVE WholeChange(s, FS)'
  <2>1. DOMAIN <<>> = {} /\ Wrote(s, <<>>, BaseFiles(u, k))
    BY <1>3 DEF DeleteKnowledgeBase
  <2> QED
    BY <1>1, <2>1, LeavesAlone, RemovesAll
<1> QED
  BY <1>2, <1>3

LEMMA HandleWhole ==
    ASSUME TypeOK, NEW s \in Requests, Handle(s), phase'[s] = "save",
           NEW FS \in Bundles, WholeIn(start[s], FS),
           FS \in WorkloadBundles => ~SeesStale(s)
    PROVE  WholeChange(s, FS)'
<1>1. DOMAIN <<>> = {}
  OBVIOUS
<1>2. ASSUME NEW u \in Teams, CreateTeam(s, u) \/ EditTeam(s, u)
      PROVE  WholeChange(s, FS)'
  BY <1>2, ItemLeavesAlone, BundleFiles DEF CreateTeam, EditTeam
<1>3. ASSUME NEW u \in Teams, DeleteTeam(s, u) PROVE WholeChange(s, FS)'
  <2>1. CASE FS \subseteq TeamFiles(u)
    BY <1>3, <2>1, RemovesAll DEF DeleteTeam
  <2>2. CASE TeamFiles(u) \cap FS = {}
    <3>1. FS \cap (DOMAIN <<>> \cup TeamFiles(u)) = {}
      BY <1>1, <2>2
    <3> QED
      BY <1>3, <3>1, LeavesAlone DEF DeleteTeam
  <2> QED
    BY <2>1, <2>2, BundleFiles
<1>4. ASSUME NEW f, f \notin FS, Wrote(s, <<>>, {f}) PROVE WholeChange(s, FS)'
  <2>1. FS \cap (DOMAIN <<>> \cup {f}) = {}
    BY <1>1, <1>4
  <2> QED
    BY <1>4, <2>1, LeavesAlone
<1>5. ASSUME NEW u \in Teams, NEW r \in CodeRepos, NEW x \in Urls,
             CreateCodeRepo(s, u, r, x) \/ EditCodeRepo(s, u, r, x)
      PROVE  WholeChange(s, FS)'
  BY <1>5, ItemLeavesAlone, BundleFiles DEF CreateCodeRepo, EditCodeRepo
<1>6. ASSUME NEW u \in Teams, NEW r \in CodeRepos, DeleteCodeRepo(s, u, r)
      PROVE  WholeChange(s, FS)'
  BY <1>4, <1>6, BundleFiles DEF DeleteCodeRepo
<1>7. ASSUME NEW u \in Teams, NEW i \in Items,
             CreateItem(s, u, i) \/ EditItem(s, u, i) \/ DeleteItem(s, u, i)
      PROVE  WholeChange(s, FS)'
  BY <1>4, <1>7, ItemLeavesAlone, BundleFiles DEF CreateItem, EditItem, DeleteItem
<1>8. ASSUME NEW u \in Teams, NEW k \in KnowledgeBases,
             \/ CreateKnowledgeBase(s, u, k) \/ EditKnowledgeBase(s, u, k)
             \/ DeleteKnowledgeBase(s, u, k)
      PROVE  WholeChange(s, FS)'
  BY <1>8, KnowledgeBaseWholeChange DEF CreateKnowledgeBase, EditKnowledgeBase
<1>9. ASSUME NEW a \in Apps, NEW x \in OnOff, EditApp(s, a, x)
      PROVE  WholeChange(s, FS)'
  BY <1>9, ItemLeavesAlone, BundleFiles DEF EditApp
<1>10. ASSUME NEW A \in SUBSET Apps, NEW x \in OnOff, ToggleApps(s, A, x)
       PROVE  WholeChange(s, FS)'
  <2> DEFINE new == [f \in {App(a) : a \in A} |-> By(s, x)]
  <2>1. Wrote(s, new, {})
    BY <1>10 DEF ToggleApps
  <2>2. FS \cap (DOMAIN new \cup {}) = {}
    BY BundleFiles
  <2> HIDE DEF new
  <2> QED
    BY <2>1, <2>2, LeavesAlone
<1>11. ASSUME Fails(s) PROVE FALSE
  BY <1>11 DEF Fails, TypeOK
<1> QED
  BY <1>2, <1>3, <1>5, <1>6, <1>7, <1>8, <1>9, <1>10, <1>11, WorkloadWholeChange
     DEF Handle, Reject, ToggleAppsUnknown

\* A push keeps a resource whole when it has no conflict, or leaves out conflicts
\* of content with content.
LEMMA PushWhole ==
    ASSUME TypeOK, NEW s \in Requests, NEW P, Push(s, P),
           \/ Conflicts(s) = {} /\ P = Files
           \/ /\ P = Files \ Conflicts(s)
              /\ \A f \in Conflicts(s) : Gone \notin {branch[f], change[s][f]},
           NEW FS \in Bundles,
           WholeIn(branch, FS), WholeIn(start[s], FS), WholeChange(s, FS)
    PROVE  WholeIn(branch', FS)
<1> SUFFICES \/ \A f \in FS : branch'[f] = Gone
             \/ \A f \in FS : branch'[f] # Gone
  BY DEF WholeIn
<1>1. \A f \in FS : f \in Files
  BY BundleFiles
<1>2. \A f \in FS : branch'[f] = IF f \in P /\ change[s][f] # Keep THEN change[s][f]
                                                                  ELSE branch[f]
  BY <1>1 DEF Push
<1>3. (\A f \in FS : branch[f] = Gone) \/ (\A f \in FS : branch[f] # Gone)
  BY DEF WholeIn
<1>4. \A f \in FS : f \notin P => branch[f] # Gone /\ change[s][f] # Gone
  BY <1>1
<1>5. \A f \in FS : f \in P /\ change[s][f] # Keep =>
        Same(branch[f], start[s][f]) \/ Same(branch[f], change[s][f])
  BY <1>1 DEF Conflicts
<1>6. CASE \A f \in FS : change[s][f] \notin {Gone, Keep}
  <2>1. CASE \A f \in FS : f \in P
    BY <1>2, <1>6, <2>1
  <2>2. CASE \E f \in FS : f \notin P
    BY <1>2, <1>3, <1>4, <1>6, <2>2
  <2> QED
    BY <2>1, <2>2
<1>7. CASE \A f \in FS : change[s][f] = Gone
  BY <1>2, <1>4, <1>7, ResourcesAssumption
<1>8. CASE \A f \in FS : start[s][f] # Gone /\ change[s][f] # Gone
  <2>1. CASE \A f \in FS : change[s][f] = Keep \/ f \notin P
    BY <1>2, <1>3, <2>1
  <2>2. CASE \E f \in FS : change[s][f] # Keep /\ f \in P
    <3>1. PICK f \in FS : change[s][f] # Keep /\ f \in P
      BY <2>2
    <3>2. branch[f] # Gone
      BY <1>5, <1>8, <3>1 DEF Same
    <3> QED
      BY <1>2, <1>3, <1>8, <3>2
  <2> QED
    BY <2>1, <2>2
<1>9. CASE \A f \in FS : change[s][f] = Keep
  BY <1>2, <1>3, <1>9
<1> QED
  BY <1>6, <1>7, <1>8, <1>9 DEF WholeChange

LEMMA FirstWhole == \A FS \in Bundles : WholeIn(FirstTree, FS)
<1> SUFFICES ASSUME NEW FS \in Bundles
             PROVE  \/ \A f \in FS : FirstTree[f] = Gone
                    \/ \A f \in FS : FirstTree[f] # Gone
  BY DEF WholeIn
<1>1. \A f \in Files : First(f) # Gone
  BY ResourcesAssumption DEF First, Content, Plain
<1>2. \A f \in FS : f \in Files /\ (FirstTree[f] = Gone <=> f \notin Present0)
  BY <1>1, BundleFiles DEF FirstTree
<1>3. FS \cap Present0 \in {{}, FS}
  BY ResourcesAssumption DEF Bundles
<1> QED
  BY <1>2, <1>3

\* A step of s that leaves the resource whole on the branch and where s started from,
\* and changes it as a whole if s is one of R, keeps it whole.
LEMMA KeptStep ==
    ASSUME NEW FS, NEW Q, KeptWhole(FS, Q), NEW R, R \subseteq Q, R \subseteq Requests,
           NEW s \in Requests,
           \A q \in Requests \ {s} : /\ phase'[q] = phase[q]
                                     /\ start'[q] = start[q]
                                     /\ change'[q] = change[q],
           WholeIn(branch', FS), WholeIn(start'[s], FS),
           s \in R /\ phase'[s] = "save" => WholeChange(s, FS)'
    PROVE  /\ WholeIn(branch', FS)
           /\ \A q \in Requests : WholeIn(start'[q], FS)
           /\ \A q \in R : phase'[q] = "save" => WholeChange(q, FS)'
<1>1. \A q \in Requests \ {s} : WholeIn(start'[q], FS)
  BY DEF KeptWhole
<1>2. ASSUME NEW q \in R, q # s, phase'[q] = "save" PROVE WholeChange(q, FS)'
  <2>1. WholeChange(q, FS)
    BY <1>2 DEF KeptWhole
  <2> QED
    BY <1>2, <2>1 DEF WholeChange
<1> QED
  BY <1>1, <1>2

\* A handler is through, or the request has failed.
LEMMA HandleCases ==
    ASSUME TypeOK, NEW s \in Requests, Handle(s)
    PROVE  /\ UNCHANGED <<branch, pushed>>
           /\ \A q \in Requests \ {s} : /\ phase'[q] = phase[q]
                                        /\ start'[q] = start[q]
                                        /\ change'[q] = change[q]
           /\ \/ /\ phase'[s] = "save" /\ start'[s] = start[s]
                 /\ stale' = IF SeesStale(s) THEN stale \cup {s} ELSE stale
              \/ phase'[s] = "done" /\ start'[s] = FirstTree /\ stale' = stale
<1>1. ASSUME NEW new, NEW removed, Wrote(s, new, removed)
      PROVE  /\ UNCHANGED <<branch, pushed, start>> /\ phase'[s] = "save"
             /\ stale' = IF SeesStale(s) THEN stale \cup {s} ELSE stale
             /\ \A q \in Requests \ {s} : phase'[q] = phase[q] /\ change'[q] = change[q]
  BY <1>1 DEF Wrote, TypeOK
<1>2. ASSUME Fails(s)
      PROVE  /\ phase'[s] = "done" /\ start'[s] = FirstTree
             /\ \A q \in Requests \ {s} : /\ phase'[q] = phase[q]
                                          /\ start'[q] = start[q]
                                          /\ change'[q] = change[q]
  BY <1>2 DEF Fails, TypeOK
<1>3. \/ \E new, removed : Wrote(s, new, removed)
      \/ Fails(s) /\ UNCHANGED <<branch, pushed, stale>>
  BY DEF Handle, CreateTeam, EditTeam, DeleteTeam, CreateWorkload, EditWorkload,
         DeleteWorkload, CreateCodeRepo, EditCodeRepo, DeleteCodeRepo, CreateItem, EditItem,
         DeleteItem, CreateKnowledgeBase, EditKnowledgeBase, SaveKnowledgeBase,
         DeleteKnowledgeBase, EditApp, SaveTeamConfigItem, ToggleApps, ToggleAppsUnknown, Reject
<1>4. CASE \E new, removed : Wrote(s, new, removed)
  <2>1. PICK new, removed : Wrote(s, new, removed)
    BY <1>4
  <2> QED
    BY <1>1, <2>1
<1>5. CASE Fails(s) /\ UNCHANGED <<branch, pushed, stale>>
  BY <1>2, <1>5
<1> QED
  BY <1>3, <1>4, <1>5

LEMMA HandleInductive ==
    ASSUME TypeOK, WholeInductive, NEW s \in Requests, Handle(s)
    PROVE  WholeInductive'
<1>1. ASSUME NEW FS \in Bundles, NEW Q, KeptWhole(FS, Q), NEW R, R \subseteq Q,
             R \subseteq Requests,
             s \in R /\ phase'[s] = "save" /\ FS \in WorkloadBundles => ~SeesStale(s)
      PROVE  /\ WholeIn(branch', FS)
             /\ \A q \in Requests : WholeIn(start'[q], FS)
             /\ \A q \in R : phase'[q] = "save" => WholeChange(q, FS)'
  <2>1. WholeIn(branch', FS) /\ WholeIn(start[s], FS)
    BY <1>1, HandleCases DEF KeptWhole
  <2>2. WholeIn(start'[s], FS)
    BY <2>1, HandleCases, FirstWhole
  <2>3. s \in R /\ phase'[s] = "save" => WholeChange(s, FS)'
    BY <1>1, <2>1, HandleWhole
  <2> QED
    BY <1>1, <2>1, <2>2, <2>3, HandleCases, KeptStep
<1>2. ASSUME NEW FS \in BaseBundles PROVE KeptWhole(FS, Requests)'
  <2>1. FS \in Bundles /\ FS \notin WorkloadBundles
    <3>1. PICK t \in Teams, k \in KnowledgeBases : FS = BaseFiles(t, k)
      BY DEF BaseBundles
    <3>2. \A u \in Teams, w \in Workloads : FS \cap WorkloadFiles(u, w) = {} /\ FS # {}
      BY <3>1, BaseBundle DEF BaseFiles
    <3> QED
      BY <3>2 DEF Bundles, WorkloadBundles
  <2>2. KeptWhole(FS, Requests)
    BY DEF WholeInductive
  <2> QED
    BY <1>1, <2>1, <2>2 DEF KeptWhole
<1>3. ASSUME stale' \cap pushed' = {}, NEW FS \in WorkloadBundles
      PROVE  KeptWhole(FS, Requests \ stale)'
  <2>1. /\ stale \subseteq stale' /\ pushed' = pushed
        /\ s \notin stale' /\ phase'[s] = "save" => ~SeesStale(s)
    BY HandleCases
  <2>2. FS \in Bundles /\ KeptWhole(FS, Requests \ stale)
    BY <1>3, <2>1 DEF WholeInductive, Bundles
  <2>3. /\ WholeIn(branch', FS)
        /\ \A q \in Requests : WholeIn(start'[q], FS)
        /\ \A q \in Requests \ stale' : phase'[q] = "save" => WholeChange(q, FS)'
    <3> DEFINE Q == Requests \ stale
               R == Requests \ stale'
    <3>1. R \subseteq Q /\ R \subseteq Requests
      BY <2>1
    <3>2. s \in R /\ phase'[s] = "save" => ~SeesStale(s)
      BY <2>1
    <3>3. KeptWhole(FS, Q)
      BY <2>2
    <3> HIDE DEF Q, R
    <3>4. /\ WholeIn(branch', FS)
          /\ \A q \in Requests : WholeIn(start'[q], FS)
          /\ \A q \in R : phase'[q] = "save" => WholeChange(q, FS)'
      BY <1>1, <2>2, <3>1, <3>2, <3>3
    <3> QED
      BY <3>4 DEF R
  <2> QED
    BY <2>3 DEF KeptWhole
<1> QED
  BY <1>2, <1>3 DEF WholeInductive

\* A step of s that is no handler: it leaves the branch and the start of s whole if
\* the branch, all starts and, when it pushes, the change of s were.
LEMMA OtherStep ==
    ASSUME TypeOK, WholeInductive, NEW s \in Requests,
           pushed \subseteq pushed', stale' = stale, phase'[s] # "save",
           \A q \in Requests \ {s} : /\ phase'[q] = phase[q]
                                     /\ start'[q] = start[q]
                                     /\ change'[q] = change[q],
           branch' = branch \/ (s \in pushed' /\ phase[s] = "save"),
           \A FS \in Bundles : /\ WholeIn(branch, FS)
                               /\ WholeIn(start[s], FS)
                               /\ branch' = branch \/ WholeChange(s, FS)
                               => WholeIn(branch', FS) /\ WholeIn(start'[s], FS)
    PROVE  WholeInductive'
<1>1. ASSUME NEW FS \in Bundles, NEW Q, Q \subseteq Requests, KeptWhole(FS, Q),
             branch' = branch \/ s \in Q
      PROVE  /\ WholeIn(branch', FS)
             /\ \A q \in Requests : WholeIn(start'[q], FS)
             /\ \A q \in Q : phase'[q] = "save" => WholeChange(q, FS)'
  <2>1. WholeIn(branch', FS) /\ WholeIn(start'[s], FS)
    BY <1>1 DEF KeptWhole
  <2> QED
    BY <1>1, <2>1, KeptStep
<1>2. ASSUME NEW FS \in BaseBundles PROVE KeptWhole(FS, Requests)'
  <2>1. FS \in Bundles /\ KeptWhole(FS, Requests)
    BY DEF WholeInductive, Bundles
  <2> QED
    BY <1>1, <2>1 DEF KeptWhole
<1>3. ASSUME stale' \cap pushed' = {}, NEW FS \in WorkloadBundles
      PROVE  KeptWhole(FS, Requests \ stale)'
  <2> DEFINE Q == Requests \ stale
  <2>1. FS \in Bundles /\ KeptWhole(FS, Q)
    BY <1>3 DEF WholeInductive, Bundles
  <2>2. Q \subseteq Requests /\ (branch' = branch \/ s \in Q)
    BY <1>3
  <2>3. Requests \ stale' = Q
    OBVIOUS
  <2> HIDE DEF Q
  <2>4. /\ WholeIn(branch', FS)
        /\ \A q \in Requests : WholeIn(start'[q], FS)
        /\ \A q \in Q : phase'[q] = "save" => WholeChange(q, FS)'
    BY <1>1, <2>1, <2>2
  <2> QED
    BY <2>3, <2>4 DEF KeptWhole
<1> QED
  BY <1>2, <1>3 DEF WholeInductive

LEMMA SaveInductive ==
    ASSUME TypeOK, WholeInductive, NEW s \in Requests, Save(s)
    PROVE  WholeInductive'
<1>1. /\ phase[s] = "save" /\ stale' = stale /\ phase'[s] # "save"
      /\ start'[s] \in {start[s], FirstTree}
      /\ \A q \in Requests \ {s} : /\ phase'[q] = phase[q]
                                   /\ start'[q] = start[q]
                                   /\ change'[q] = change[q]
  BY DEF Save, Land, LandInPart, LandNothing, SaveFails, SaveUnchanged, ToSet, Fails, TypeOK
<1>2. \/ UNCHANGED <<branch, pushed>>
      \/ \E P : /\ Push(s, P)
                /\ \/ Conflicts(s) = {} /\ P = Files
                   \/ /\ P = Files \ Conflicts(s)
                      /\ \A f \in Conflicts(s) : Gone \notin {branch[f], change[s][f]}
  BY DEF Save, Land, LandInPart, LandNothing, SaveFails
<1>3. pushed \subseteq pushed' /\ (branch' = branch \/ s \in pushed')
  BY <1>2 DEF Push
<1>4. ASSUME NEW FS \in Bundles, WholeIn(branch, FS), WholeIn(start[s], FS),
             branch' = branch \/ WholeChange(s, FS)
      PROVE  WholeIn(branch', FS) /\ WholeIn(start'[s], FS)
  <2>1. WholeIn(start'[s], FS)
    BY <1>1, <1>4, FirstWhole
  <2>2. CASE branch' = branch
    BY <1>4, <2>1, <2>2
  <2>3. CASE branch' # branch
    BY <1>2, <1>4, <2>1, <2>3, PushWhole
  <2> QED
    BY <2>2, <2>3
<1> QED
  BY <1>1, <1>3, <1>4, OtherStep

\* The invariant behind WholeResources.
THEOREM WholeInvariant == Spec => []WholeInductive
<1>1. Init => WholeInductive
  <2> SUFFICES ASSUME Init PROVE WholeInductive
    OBVIOUS
  <2>1. ASSUME NEW FS \in Bundles, NEW Q, Q \subseteq Requests PROVE KeptWhole(FS, Q)
    BY <2>1, FirstWhole DEF Init, KeptWhole
  <2> QED
    BY <2>1 DEF WholeInductive, Bundles
<1>2. TypeOK /\ WholeInductive /\ [Next]_vars => WholeInductive'
  <2> SUFFICES ASSUME TypeOK, WholeInductive, [Next]_vars PROVE WholeInductive'
    OBVIOUS
  <2>1. ASSUME NEW s \in Requests, Begin(s) PROVE WholeInductive'
    <3>1. /\ UNCHANGED <<branch, pushed, stale, change>>
          /\ start'[s] = branch
          /\ phase'[s] = "handle"
          /\ \A q \in Requests \ {s} : phase'[q] = phase[q] /\ start'[q] = start[q]
      BY <2>1 DEF Begin, TypeOK
    <3> QED
      BY <3>1, OtherStep
  <2>2. ASSUME NEW s \in Requests, SetRoot(s) PROVE WholeInductive'
    <3>1. /\ UNCHANGED <<branch, pushed, stale>>
          /\ start'[s] = FirstTree
          /\ phase'[s] = "done"
          /\ \A q \in Requests \ {s} : /\ phase'[q] = phase[q]
                                       /\ start'[q] = start[q]
                                       /\ change'[q] = change[q]
      BY <2>2 DEF SetRoot, TypeOK
    <3> QED
      BY <3>1, FirstWhole, OtherStep
  <2>3. CASE UNCHANGED vars
    BY <2>3 DEF vars, WholeInductive, KeptWhole, WholeIn, WholeChange
  <2> QED
    BY <2>1, <2>2, <2>3, HandleInductive, SaveInductive DEF Next
<1> QED
  BY <1>1, <1>2, TypeCorrect, PTL DEF Spec

\* On the branch a knowledge base has both of its files or none and a workload all
\* three, in every instance and whatever overlaps, conflicts or fails; workloads
\* unless a request pushed what it had decided on disagreeing views.
THEOREM WholeResources == Spec => []ResourcesWhole
<1>1. ASSUME NEW FS, NEW Q, KeptWhole(FS, Q) PROVE Whole(FS)
  <2>1. CASE \A f \in FS : branch[f] = Gone
    BY <2>1 DEF Whole
  <2>2. CASE \A f \in FS : branch[f] # Gone
    BY <2>2 DEF Whole
  <2> QED
    BY <1>1, <2>1, <2>2 DEF KeptWhole, WholeIn
<1>2. WholeInductive => ResourcesWhole
  BY <1>1 DEF WholeInductive, ResourcesWhole
<1> QED
  BY <1>2, WholeInvariant, PTL

-----------------------------------------------------------------------------
(* What a handler writes, and what it puts into the root store *)

\* The files a record is made of.
Followed == {f \in Files : f[1] \notin {"workloadValues", "managed", "databases"}}

Puts(s, new, FS) ==
    /\ Wrote(s, new, {})
    /\ Stores(s, new, FS)
    /\ FS \subseteq DOMAIN new
    /\ DOMAIN new \cap Followed \subseteq FS
    /\ \A f \in DOMAIN new : new[f] \in Content /\ new[f].by = s

Takes(s, removed, FS) ==
    /\ Wrote(s, <<>>, removed)
    /\ Forgets(s, FS)
    /\ FS \subseteq removed
    /\ \A f \in removed \cap Followed : f \in FS \/ ~Exists(f)
    /\ \A t \in Teams : Settings(t) \in removed => TeamFiles(t) \subseteq removed
    /\ UNCHANGED edited

\* An error, after which nobody but the readers of the applications sees a difference.
GivesUp(s) ==
    /\ Fails(s)
    /\ UNCHANGED <<branch, root, before, pushed, stale, edited, remover>>
    /\ \A f \in Files : heap'[f] # heap[f] => \E a \in Apps : f = App(a)

LEMMA ByIs ==
    ASSUME NEW s \in Requests, NEW v \in Plain \cup Urls
    PROVE  By(s, v) \in Content /\ By(s, v).by = s /\ By(s, v).what = v
  BY ByLemma DEF By

\* The team is in the name of every file of it.
LEMMA TeamOfFile == ASSUME NEW t, NEW f \in TeamFiles(t) PROVE f[2] = t
  BY DEF TeamFiles, Settings, WorkloadFiles, Workload, Values, Managed, BaseFiles, Base,
         Database, CodeRepo, Item

LEMMA PutsItem ==
    ASSUME NEW s \in Requests, NEW f, NEW v \in Plain \cup Urls, SaveTeamConfigItem(s, f, v)
    PROVE  Puts(s, [g \in {f} |-> By(s, v)], {f})
  BY ByIs DEF SaveTeamConfigItem, Puts

LEMMA PutsWorkload ==
    ASSUME NEW s \in Requests, NEW t \in Teams, NEW w \in Workloads,
           CreateWorkload(s, t, w) \/ EditWorkload(s, t, w)
    PROVE  \E new, FS : Puts(s, new, FS) /\ DOMAIN new \subseteq WorkloadFiles(t, w)
<1>1. CASE CreateWorkload(s, t, w)
  <2> DEFINE new == [f \in WorkloadFiles(t, w) |->
                       By(s, IF f = Managed(t, w) THEN "empty" ELSE "plain")]
             FS == {Workload(t, w), Values(t, w)}
  <2>1. Wrote(s, new, {}) /\ Stores(s, new, FS)
    BY <1>1 DEF CreateWorkload
  <2>2. DOMAIN new = WorkloadFiles(t, w) /\ \A f \in DOMAIN new : new[f] \in Content /\ new[f].by = s
    BY ByIs DEF Plain
  <2>3. FS \subseteq WorkloadFiles(t, w) /\ WorkloadFiles(t, w) \cap Followed \subseteq FS
    BY DEF WorkloadFiles, Workload, Values, Managed, Followed
  <2> HIDE DEF new, FS
  <2> QED
    BY <2>1, <2>2, <2>3 DEF Puts
<1>2. CASE EditWorkload(s, t, w)
  <2>1. PICK FS \in {{Workload(t, w)}, {Workload(t, w), Values(t, w)}, {Values(t, w)}} :
          Wrote(s, [f \in FS |-> By(s, "plain")], {}) /\ Stores(s, [f \in FS |-> By(s, "plain")], FS)
    BY <1>2 DEF EditWorkload
  <2> DEFINE new == [f \in FS |-> By(s, "plain")]
  <2>2. DOMAIN new = FS /\ \A f \in DOMAIN new : new[f] \in Content /\ new[f].by = s
    BY ByIs DEF Plain
  <2>3. Wrote(s, new, {}) /\ Stores(s, new, FS) /\ FS \subseteq WorkloadFiles(t, w)
    BY <2>1 DEF WorkloadFiles
  <2> HIDE DEF new
  <2> QED
    BY <2>2, <2>3 DEF Puts
<1> QED
  BY <1>1, <1>2

LEMMA PutsKnowledgeBase ==
    ASSUME NEW s \in Requests, NEW t \in Teams, NEW k \in KnowledgeBases,
           SaveKnowledgeBase(s, t, k)
    PROVE  \E new, FS : Puts(s, new, FS) /\ DOMAIN new \subseteq BaseFiles(t, k)
<1> DEFINE new == [f \in BaseFiles(t, k) |->
                     By(s, IF f = Database(t, k) THEN "empty" ELSE "plain")]
<1>1. Wrote(s, new, {}) /\ Stores(s, new, {Base(t, k)})
  BY DEF SaveKnowledgeBase
<1>2. DOMAIN new = BaseFiles(t, k) /\ \A f \in DOMAIN new : new[f] \in Content /\ new[f].by = s
  BY ByIs DEF Plain
<1>3. {Base(t, k)} \subseteq BaseFiles(t, k) /\ BaseFiles(t, k) \cap Followed \subseteq {Base(t, k)}
  BY DEF BaseFiles, Base, Database, Followed
<1> HIDE DEF new
<1> QED
  BY <1>1, <1>2, <1>3 DEF Puts

LEMMA TakesTeam ==
    ASSUME NEW s \in Requests, NEW t \in Teams, DeleteTeam(s, t)
    PROVE  \E removed, FS : Takes(s, removed, FS)
<1>1. ASSUME NEW u \in Teams, Settings(u) \in TeamFiles(t) PROVE u = t
  BY <1>1, TeamOfFile DEF Settings
<1> QED
  BY <1>1 DEF DeleteTeam, Takes

\* One file gone, or a resource of several of which only FS is in the root store.
LEMMA TakesFiles ==
    ASSUME NEW s \in Requests, NEW removed, NEW FS, Wrote(s, <<>>, removed), Forgets(s, FS),
           FS \subseteq removed, removed \cap Followed \subseteq FS, UNCHANGED edited,
           \A u \in Teams : Settings(u) \notin removed
    PROVE  Takes(s, removed, FS)
  BY DEF Takes

LEMMA Taken ==
    ASSUME NEW s \in Requests, NEW t \in Teams,
           \/ \E w \in Workloads : DeleteWorkload(s, t, w)
           \/ \E r \in CodeRepos : DeleteCodeRepo(s, t, r)
           \/ \E i \in Items : DeleteItem(s, t, i)
           \/ \E k \in KnowledgeBases : DeleteKnowledgeBase(s, t, k)
    PROVE  \E removed, FS : Takes(s, removed, FS)
<1>1. ASSUME NEW w \in Workloads, DeleteWorkload(s, t, w)
      PROVE  Takes(s, WorkloadFiles(t, w), {Workload(t, w)})
  <2>1. /\ {Workload(t, w)} \subseteq WorkloadFiles(t, w)
        /\ WorkloadFiles(t, w) \cap Followed \subseteq {Workload(t, w)}
    BY DEF WorkloadFiles, Workload, Values, Managed, Followed
  <2> QED
    BY <1>1, <2>1, TakesFiles, WorkloadBundle DEF DeleteWorkload
<1>2. ASSUME NEW k \in KnowledgeBases, DeleteKnowledgeBase(s, t, k)
      PROVE  Takes(s, BaseFiles(t, k), {Base(t, k)})
  <2>1. /\ {Base(t, k)} \subseteq BaseFiles(t, k)
        /\ BaseFiles(t, k) \cap Followed \subseteq {Base(t, k)}
    BY DEF BaseFiles, Base, Database, Followed
  <2> QED
    BY <1>2, <2>1, TakesFiles, BaseBundle DEF DeleteKnowledgeBase
<1>3. ASSUME NEW f, Wrote(s, <<>>, {f}), Forgets(s, {f}), UNCHANGED edited,
             \A u \in Teams : Settings(u) # f
      PROVE  Takes(s, {f}, {f})
  BY <1>3, TakesFiles
<1>4. ASSUME NEW r \in CodeRepos, DeleteCodeRepo(s, t, r) PROVE Takes(s, {CodeRepo(t, r)}, {CodeRepo(t, r)})
  BY <1>3, <1>4 DEF DeleteCodeRepo, CodeRepo, Settings
<1>5. ASSUME NEW i \in Items, DeleteItem(s, t, i) PROVE Takes(s, {Item(t, i)}, {Item(t, i)})
  BY <1>3, <1>5 DEF DeleteItem, Item, Settings
<1> QED
  BY <1>1, <1>2, <1>4, <1>5

\* The ways a handler ends.  Only those of code repositories write one.
LEMMA HandlerLemma ==
    ASSUME NEW s \in Requests, Handle(s)
    PROVE  \/ \E new, FS : /\ Puts(s, new, FS)
                           /\ UNCHANGED edited
                           /\ \A t \in Teams, r \in CodeRepos : CodeRepo(t, r) \notin DOMAIN new
           \/ \E t \in Teams, r \in CodeRepos, u \in Urls :
                CreateCodeRepo(s, t, r, u) \/ EditCodeRepo(s, t, r, u)
           \/ \E removed, FS : Takes(s, removed, FS)
           \/ \E A \in SUBSET Apps, v \in OnOff : ToggleApps(s, A, v)
           \/ GivesUp(s)
<1> DEFINE PutsElse == \E new, FS : /\ Puts(s, new, FS)
                                   /\ UNCHANGED edited
                                   /\ \A t \in Teams, r \in CodeRepos : CodeRepo(t, r) \notin DOMAIN new
<1>1. ASSUME NEW f, NEW v \in Plain \cup Urls, SaveTeamConfigItem(s, f, v), UNCHANGED edited,
             \A t \in Teams, r \in CodeRepos : CodeRepo(t, r) # f
      PROVE  PutsElse
  <2> DEFINE new == [g \in {f} |-> By(s, v)]
  <2>1. Puts(s, new, {f}) /\ DOMAIN new = {f}
    BY <1>1, PutsItem
  <2> HIDE DEF new
  <2> QED
    BY <1>1, <2>1
<1>2. ASSUME NEW t \in Teams, CreateTeam(s, t) \/ EditTeam(s, t) PROVE PutsElse
  <2>1. \A u \in Teams, r \in CodeRepos : CodeRepo(u, r) # Settings(t)
    BY DEF CodeRepo, Settings
  <2> HIDE DEF PutsElse
  <2> QED
    BY <1>1, <1>2, <2>1 DEF CreateTeam, EditTeam, Plain
<1>3. ASSUME NEW t \in Teams, NEW i \in Items, CreateItem(s, t, i) \/ EditItem(s, t, i) PROVE PutsElse
  <2>1. \A u \in Teams, r \in CodeRepos : CodeRepo(u, r) # Item(t, i)
    BY DEF CodeRepo, Item
  <2> HIDE DEF PutsElse
  <2> QED
    BY <1>1, <1>3, <2>1 DEF CreateItem, EditItem, Plain
<1>4. ASSUME NEW a \in Apps, NEW v \in OnOff, EditApp(s, a, v) PROVE PutsElse
  <2>1. \A u \in Teams, r \in CodeRepos : CodeRepo(u, r) # App(a)
    BY DEF CodeRepo, App
  <2> HIDE DEF PutsElse
  <2> QED
    BY <1>1, <1>4, <2>1 DEF EditApp, Plain, OnOff
<1>5. ASSUME NEW t \in Teams, NEW w \in Workloads, CreateWorkload(s, t, w) \/ EditWorkload(s, t, w)
      PROVE  PutsElse
  <2>1. PICK new, FS : Puts(s, new, FS) /\ DOMAIN new \subseteq WorkloadFiles(t, w)
    BY <1>5, PutsWorkload
  <2>2. \A u \in Teams, r \in CodeRepos : CodeRepo(u, r) \notin DOMAIN new
    BY <2>1, WorkloadBundle
  <2> QED
    BY <1>5, <2>1, <2>2 DEF CreateWorkload, EditWorkload
<1>6. ASSUME NEW t \in Teams, NEW k \in KnowledgeBases,
             CreateKnowledgeBase(s, t, k) \/ EditKnowledgeBase(s, t, k)
      PROVE  PutsElse
  <2>1. SaveKnowledgeBase(s, t, k)
    BY <1>6 DEF CreateKnowledgeBase, EditKnowledgeBase
  <2>2. PICK new, FS : Puts(s, new, FS) /\ DOMAIN new \subseteq BaseFiles(t, k)
    BY <2>1, PutsKnowledgeBase
  <2>3. \A u \in Teams, r \in CodeRepos : CodeRepo(u, r) \notin DOMAIN new
    BY <2>2, BaseBundle
  <2> QED
    BY <2>1, <2>2, <2>3 DEF SaveKnowledgeBase
<1>7. ASSUME NEW A \in SUBSET Apps, NEW v \in OnOff, ToggleAppsUnknown(s, A, v) PROVE GivesUp(s)
  <2>1. \A f \in Files : heap'[f] # heap[f] => \E a \in Apps : f = App(a)
    BY <1>7 DEF ToggleAppsUnknown, SetInPlace
  <2> QED
    BY <1>7, <2>1 DEF ToggleAppsUnknown, GivesUp
<1>8. Reject(s) => GivesUp(s)
  BY DEF Reject, GivesUp
<1> HIDE DEF PutsElse
<1>9. \/ PutsElse
      \/ \E t \in Teams, r \in CodeRepos, u \in Urls :
           CreateCodeRepo(s, t, r, u) \/ EditCodeRepo(s, t, r, u)
      \/ \E removed, FS : Takes(s, removed, FS)
      \/ \E A \in SUBSET Apps, v \in OnOff : ToggleApps(s, A, v)
      \/ GivesUp(s)
  BY <1>2, <1>3, <1>4, <1>5, <1>6, <1>7, <1>8, TakesTeam, Taken DEF Handle
<1> QED
  BY <1>9 DEF PutsElse

\* Unless it gives up, a handler has written.
LEMMA HandleEnds ==
    ASSUME NEW s \in Requests, Handle(s)
    PROVE  (\E new, removed : Wrote(s, new, removed)) \/ GivesUp(s)
  BY HandlerLemma, PutsItem DEF Puts, Takes, ToggleApps, CreateCodeRepo, EditCodeRepo

-----------------------------------------------------------------------------
(* Requests that overlap, and requests that do not *)

Step(s) == Begin(s) \/ Handle(s) \/ Save(s) \/ SetRoot(s)

\* A request takes its steps without touching another one's, and only before it is
\* answered.
LEMMA Frame ==
    ASSUME TypeOK, NEW s \in Requests, Step(s)
    PROVE  /\ phase[s] # "done" /\ phase'[s] # "idle"
           /\ \A q \in Requests \ {s} :
                /\ phase'[q] = phase[q] /\ start'[q] = start[q] /\ change'[q] = change[q]
                /\ records'[q] = records[q] /\ outcome'[q] = outcome[q]
                /\ before'[q] = before[q]
           /\ \/ Begin(s) /\ phase[s] = "idle" /\ phase'[s] = "handle"
              \/ Handle(s) /\ phase[s] = "handle" /\ phase'[s] \in {"save", "done"}
                 /\ before' = before
              \/ Save(s) /\ phase[s] = "save" /\ phase'[s] \in {"set", "done"}
                 /\ before' = before
              \/ SetRoot(s) /\ phase[s] = "set" /\ phase'[s] = "done" /\ before' = before
<1>1. CASE Begin(s)
  BY <1>1 DEF Begin, TypeOK
<1>2. CASE SetRoot(s)
  BY <1>2 DEF SetRoot, TypeOK
<1>3. CASE Save(s)
  BY <1>3 DEF Save, Land, LandInPart, LandNothing, SaveFails, SaveUnchanged, ToSet, Fails, TypeOK
<1>4. CASE Handle(s)
  <2>1. ASSUME NEW new, NEW removed, Wrote(s, new, removed)
        PROVE  /\ phase'[s] = "save" /\ UNCHANGED <<start, outcome, before>>
               /\ \A q \in Requests \ {s} : phase'[q] = phase[q] /\ change'[q] = change[q]
    BY <2>1 DEF Wrote, TypeOK
  <2>2. ASSUME NEW new, NEW FS, Stores(s, new, FS)
        PROVE  \A q \in Requests \ {s} : records'[q] = records[q]
    BY <2>2 DEF Stores, TypeOK
  <2>3. ASSUME NEW FS, Forgets(s, FS)
        PROVE  \A q \in Requests \ {s} : records'[q] = records[q]
    BY <2>3 DEF Forgets, TypeOK
  <2>4. ASSUME NEW new, NEW FS, Puts(s, new, FS)
        PROVE  \E n, r : Wrote(s, n, r) /\ \A q \in Requests \ {s} : records'[q] = records[q]
    BY <2>2, <2>4 DEF Puts
  <2>5. ASSUME NEW removed, NEW FS, Takes(s, removed, FS)
        PROVE  \E n, r : Wrote(s, n, r) /\ \A q \in Requests \ {s} : records'[q] = records[q]
    BY <2>3, <2>5 DEF Takes
  <2>6. ASSUME NEW A \in SUBSET Apps, NEW v \in OnOff, ToggleApps(s, A, v)
        PROVE  \E n, r : Wrote(s, n, r) /\ \A q \in Requests \ {s} : records'[q] = records[q]
    BY <2>6 DEF ToggleApps, TypeOK
  <2>7. ASSUME NEW t \in Teams, NEW r \in CodeRepos, NEW u \in Urls,
               CreateCodeRepo(s, t, r, u) \/ EditCodeRepo(s, t, r, u)
        PROVE  \E new, FS : Puts(s, new, FS)
    BY <2>7, PutsItem DEF CreateCodeRepo, EditCodeRepo
  <2>8. CASE GivesUp(s)
    BY <1>4, <2>8 DEF GivesUp, Fails, Handle, TypeOK
  <2>9. CASE \E n, r : Wrote(s, n, r) /\ \A q \in Requests \ {s} : records'[q] = records[q]
    BY <1>4, <2>1, <2>9 DEF Handle
  <2> QED
    BY <1>4, <2>4, <2>5, <2>6, <2>7, <2>8, <2>9, HandlerLemma
<1> QED
  BY <1>1, <1>2, <1>3, <1>4 DEF Step

\* A request on its way is new to those that were answered before it, and so is what is
\* on the branch and was not when it began.
Since(s, f) == branch[f] = Gone \/ branch[f].by \in Requests \ before[s]

\* The strengthening of DeletionSweeps.  Who removes the settings of a team removes every
\* file of it that its worktree has.
SweepInductive ==
    /\ \A s \in Requests : \A r \in before[s] : phase[r] = "done"
    /\ \A s \in Requests, f \in Files :
         phase[s] \in {"handle", "save"} => branch[f] = start[s][f] \/ Since(s, f)
    /\ \A s \in Requests, f \in Files : change[s][f] \in Content => change[s][f].by = s
    /\ \A s \in Requests, t \in Teams :
         phase[s] = "save" /\ change[s][Settings(t)] = Gone =>
           \A f \in TeamFiles(t) :
             change[s][f] = Gone \/ (change[s][f] = Keep /\ start[s][f] = Gone)
    /\ \A t \in Teams : remover[t] \in Requests =>
         /\ phase[remover[t]] # "idle"
         /\ branch[Settings(t)] = Gone => \A f \in TeamFiles(t) : Since(remover[t], f)

\* What a handler leaves to be pushed.
LEMMA HandleChange ==
    ASSUME TypeOK, SweepInductive, NEW s \in Requests, Handle(s)
    PROVE  /\ \A f \in Files : change'[s][f] \in Content => change'[s][f].by = s
           /\ \A t \in Teams :
                phase'[s] = "save" /\ change'[s][Settings(t)] = Gone =>
                  \A f \in TeamFiles(t) :
                    change'[s][f] = Gone \/ (change'[s][f] = Keep /\ start'[s][f] = Gone)
<1> DEFINE Conclusion ==
           /\ \A f \in Files : change'[s][f] \in Content => change'[s][f].by = s
           /\ \A t \in Teams :
                phase'[s] = "save" /\ change'[s][Settings(t)] = Gone =>
                  \A f \in TeamFiles(t) :
                    change'[s][f] = Gone \/ (change'[s][f] = Keep /\ start'[s][f] = Gone)
<1>1. \A t \in Teams : Settings(t) \in Files /\ TeamFiles(t) \subseteq Files
  <2>1. \A t \in Teams : Settings(t) \in TeamFiles(t) /\ TeamFiles(t) \in {TeamFiles(u) : u \in Teams}
    BY DEF TeamFiles
  <2> QED
    BY <2>1 DEF Files
<1>2. Gone \notin Content /\ Keep \notin Content /\ Keep # Gone
  BY ResourcesAssumption
<1>3. ASSUME NEW new, Wrote(s, new, {}), \A f \in DOMAIN new : new[f] \in Content /\ new[f].by = s
      PROVE  Conclusion
  <2>1. \A f \in Files : change'[s][f] = Keep \/ (f \in DOMAIN new /\ change'[s][f] = new[f])
    BY <1>3 DEF Wrote, TypeOK
  <2> QED
    BY <1>1, <1>2, <1>3, <2>1
<1>4. ASSUME NEW removed, NEW FS, Takes(s, removed, FS) PROVE Conclusion
  <2>1. /\ \A f \in Files : change'[s][f] = IF f \in removed /\ start[s][f] # Gone THEN Gone ELSE Keep
        /\ start' = start
    BY <1>4 DEF Takes, Wrote, TypeOK
  <2>2. \A t \in Teams : Settings(t) \in removed => TeamFiles(t) \subseteq removed
    BY <1>4 DEF Takes
  <2> QED
    BY <1>1, <1>2, <2>1, <2>2
<1>5. ASSUME NEW A \in SUBSET Apps, NEW v \in OnOff, ToggleApps(s, A, v) PROVE Conclusion
  <2> DEFINE new == [f \in {App(a) : a \in A} |-> By(s, v)]
  <2>1. Wrote(s, new, {})
    BY <1>5 DEF ToggleApps
  <2>2. \A f \in DOMAIN new : new[f] \in Content /\ new[f].by = s
    BY ByIs DEF OnOff, Plain
  <2> HIDE DEF new, Conclusion
  <2> QED
    BY <1>3, <2>1, <2>2
<1>6. ASSUME GivesUp(s) PROVE Conclusion
  <2>1. phase'[s] = "done" /\ \A f \in Files : change'[s][f] = Keep
    BY <1>6 DEF GivesUp, Fails, NoChange, TypeOK
  <2> QED
    BY <1>2, <2>1
<1> HIDE DEF Conclusion
<1>7. ASSUME NEW new, NEW FS, Puts(s, new, FS) PROVE Conclusion
  BY <1>3, <1>7 DEF Puts
<1>8. ASSUME NEW t \in Teams, NEW r \in CodeRepos, NEW u \in Urls,
             CreateCodeRepo(s, t, r, u) \/ EditCodeRepo(s, t, r, u)
      PROVE  Conclusion
  <2>1. \E new, FS : Puts(s, new, FS)
    BY <1>8, PutsItem DEF CreateCodeRepo, EditCodeRepo
  <2> QED
    BY <1>7, <2>1
<1>9. Conclusion
  BY <1>4, <1>5, <1>6, <1>7, <1>8, HandlerLemma
<1> QED
  BY <1>9 DEF Conclusion

\* What a step does to the branch: the push of a change that has no conflict, or leaves out
\* conflicts of content with content.
Pushes(s) ==
    /\ phase[s] = "save"
    /\ \E P \in SUBSET Files :
         /\ Push(s, P)
         /\ \A f \in Files : change[s][f] = Gone => f \in P

LEMMA BranchStep ==
    ASSUME TypeOK, NEW s \in Requests, Step(s)
    PROVE  Pushes(s) \/ UNCHANGED <<branch, remover>>
<1>1. \/ UNCHANGED <<branch, remover>>
      \/ phase[s] = "save" /\ Push(s, Files)
      \/ /\ phase[s] = "save" /\ Push(s, Files \ Conflicts(s))
         /\ \A f \in Conflicts(s) : Gone \notin {branch[f], change[s][f]}
  <2>1. CASE Begin(s)
    BY <2>1 DEF Begin
  <2>2. CASE SetRoot(s)
    BY <2>2 DEF SetRoot
  <2>3. CASE Save(s)
    BY <2>3 DEF Save, Land, LandInPart, LandNothing, SaveFails
  <2>4. CASE Handle(s)
    BY <2>4, HandleEnds DEF Wrote, GivesUp
  <2> QED
    BY <2>1, <2>2, <2>3, <2>4 DEF Step
<1>2. Files \in SUBSET Files /\ Files \ Conflicts(s) \in SUBSET Files
  OBVIOUS
<1> QED
  BY <1>1, <1>2 DEF Pushes

\* On the branch s changes only what is then its own.
LEMMA BranchOwn ==
    ASSUME TypeOK, SweepInductive, NEW s \in Requests, Step(s), NEW f \in Files
    PROVE  branch'[f] = branch[f] \/ branch'[f] = Gone \/ branch'[f].by = s
<1>1. CASE Pushes(s)
  <2>1. branch'[f] = branch[f] \/ (change[s][f] # Keep /\ branch'[f] = change[s][f])
    BY <1>1 DEF Pushes, Push
  <2>2. change[s][f] \in Content \cup {Gone, Keep}
    BY DEF TypeOK
  <2> QED
    BY <2>1, <2>2 DEF SweepInductive
<1>2. CASE UNCHANGED branch
  BY <1>2
<1> QED
  BY <1>1, <1>2, BranchStep

LEMMA SweepStep ==
    ASSUME TypeOK, SweepInductive, NEW s \in Requests, Step(s)
    PROVE  SweepInductive'
<1>1. \A q \in Requests : \A r \in before'[q] : phase'[r] = "done" /\ r # s
  <2>1. before' \in [Requests -> SUBSET Requests] /\ before \in [Requests -> SUBSET Requests]
    <3>1. Begin(s) => before' \in [Requests -> SUBSET Requests]
      BY DEF Begin, TypeOK
    <3>2. before \in [Requests -> SUBSET Requests]
      BY DEF TypeOK
    <3> QED
      BY <3>1, <3>2, Frame
  <2>2. ASSUME NEW q \in Requests, NEW r \in before'[q] PROVE r \in Requests /\ phase[r] = "done"
    <3>1. CASE before'[q] = before[q]
      BY <2>1, <2>2, <3>1 DEF SweepInductive
    <3>2. CASE q = s /\ Begin(s)
      BY <2>1, <2>2, <3>2 DEF Begin, TypeOK
    <3> QED
      BY <3>1, <3>2, Frame
  <2> QED
    BY <2>2, Frame
<1>2. ASSUME NEW q \in Requests, before'[q] = before[q], NEW f \in Files,
             Since(q, f) \/ branch'[f] # branch[f]
      PROVE  Since(q, f)'
  <2>1. s \notin before[q]
    BY <1>1, <1>2
  <2> QED
    BY <1>2, <2>1, BranchOwn DEF Since
<1>3. ASSUME NEW q \in Requests, NEW f \in Files, phase'[q] \in {"handle", "save"}
      PROVE  branch'[f] = start'[q][f] \/ Since(q, f)'
  <2>1. CASE Begin(s) /\ q = s
    BY <2>1 DEF Begin, TypeOK
  <2>2. CASE ~(Begin(s) /\ q = s)
    <3>1. before'[q] = before[q] /\ start'[q] = start[q] /\ phase[q] \in {"handle", "save"}
      <4>1. CASE q # s
        BY <1>3, <4>1, Frame
      <4>2. CASE q = s
        BY <1>3, <2>2, <4>2, Frame, HandleCases
      <4> QED
        BY <4>1, <4>2
    <3>2. branch[f] = start[q][f] \/ Since(q, f)
      BY <3>1 DEF SweepInductive
    <3> QED
      BY <1>2, <3>1, <3>2
  <2> QED
    BY <2>1, <2>2
<1>4. \A f \in Files : change'[s][f] \in Content => change'[s][f].by = s
  <2>1. CASE Handle(s)
    BY <2>1, HandleChange
  <2>2. CASE ~Handle(s)
    <3>1. change'[s] = change[s] \/ change'[s] = NoChange
      BY <2>2, Frame
         DEF Begin, Save, Land, LandInPart, LandNothing, SaveFails, ToSet, Fails, SetRoot, TypeOK
    <3> QED
      BY <3>1, ResourcesAssumption DEF SweepInductive, NoChange
  <2> QED
    BY <2>1, <2>2
<1>5. \A q \in Requests, f \in Files : change'[q][f] \in Content => change'[q][f].by = q
  BY <1>4, Frame DEF SweepInductive
<1>6. ASSUME NEW q \in Requests, NEW t \in Teams,
             phase'[q] = "save", change'[q][Settings(t)] = Gone
      PROVE  \A f \in TeamFiles(t) :
               change'[q][f] = Gone \/ (change'[q][f] = Keep /\ start'[q][f] = Gone)
  <2>1. CASE q = s
    <3>1. Handle(s)
      BY <1>6, <2>1, Frame
    <3> QED
      BY <1>6, <2>1, <3>1, HandleChange
  <2>2. CASE q # s
    BY <1>6, <2>2, Frame DEF SweepInductive
  <2> QED
    BY <2>1, <2>2
<1>7. ASSUME NEW t \in Teams, NEW r \in Requests, remover'[t] = r
      PROVE  /\ phase'[r] # "idle"
             /\ branch'[Settings(t)] = Gone => \A f \in TeamFiles(t) : Since(r, f)'
  <2>1. Settings(t) \in Files /\ TeamFiles(t) \subseteq Files
    <3>1. Settings(t) \in TeamFiles(t) /\ TeamFiles(t) \in {TeamFiles(u) : u \in Teams}
      BY DEF TeamFiles
    <3> QED
      BY <3>1 DEF Files
  <2>2. CASE remover'[t] = remover[t] /\ (branch'[Settings(t)] = Gone => branch[Settings(t)] = Gone)
    <3>1. r = remover[t] /\ phase[r] # "idle"
      BY <1>7, <2>2 DEF SweepInductive
    <3>2. phase'[r] # "idle" /\ before'[r] = before[r]
      BY <3>1, Frame
    <3>3. branch[Settings(t)] = Gone => \A f \in TeamFiles(t) : Since(r, f)
      BY <3>1 DEF SweepInductive
    <3> QED
      BY <1>2, <2>1, <2>2, <3>2, <3>3
  <2>3. CASE Pushes(s) /\ remover'[t] = s /\ change[s][Settings(t)] = Gone
    <3>1. phase[s] = "save" /\ phase'[s] # "idle" /\ before'[s] = before[s]
      BY <2>3, Frame DEF Pushes
    <3>2. ASSUME NEW f \in TeamFiles(t) PROVE Since(s, f)'
      <4>1. change[s][f] = Gone \/ (change[s][f] = Keep /\ start[s][f] = Gone)
        BY <2>3, <3>1 DEF SweepInductive
      <4>2. CASE change[s][f] = Gone
        <5>1. branch'[f] = Gone
          BY <2>1, <2>3, <4>2, ResourcesAssumption DEF Pushes, Push
        <5> QED
          BY <5>1 DEF Since
      <4>3. CASE change[s][f] = Keep /\ start[s][f] = Gone
        <5>1. Since(s, f)
          BY <2>1, <3>1, <4>3 DEF SweepInductive, Since
        <5> QED
          BY <1>2, <2>1, <3>1, <5>1
      <4> QED
        BY <4>1, <4>2, <4>3
    <3> QED
      BY <1>7, <2>3, <3>1, <3>2
  <2>4. CASE Pushes(s)
    <3>1. \/ remover'[t] = s /\ change[s][Settings(t)] = Gone
          \/ /\ remover'[t] = remover[t]
             /\ branch'[Settings(t)] = branch[Settings(t)] \/ branch'[Settings(t)] # Gone
      BY <2>1, <2>4 DEF Pushes, Push, TypeOK
    <3> QED
      BY <2>2, <2>3, <2>4, <3>1
  <2>5. CASE UNCHANGED <<branch, remover>>
    BY <2>2, <2>5
  <2> QED
    BY <2>4, <2>5, BranchStep
<1>8. \A t \in Teams : remover'[t] \in Requests =>
         /\ phase'[remover'[t]] # "idle"
         /\ branch'[Settings(t)] = Gone => \A f \in TeamFiles(t) :
              branch'[f] = Gone \/ branch'[f].by \in Requests \ before'[remover'[t]]
  BY <1>7 DEF Since
<1> QED
  BY <1>1, <1>3, <1>5, <1>6, <1>8 DEF SweepInductive, Since, TeamFiles

\* The invariant behind SweptClean.
THEOREM SweepInvariant == Spec => []SweepInductive
<1>1. Init => SweepInductive
  <2>1. Init => \A s \in Requests, f \in Files : change[s][f] = Keep
    BY DEF Init, NoChange
  <2>2. \A t \in Teams : Settings(t) \in Files
    BY FilesLemma DEF Files, TeamFiles
  <2> QED
    BY <2>1, <2>2, ResourcesAssumption DEF Init, SweepInductive
<1>2. TypeOK /\ SweepInductive /\ [Next]_vars => SweepInductive'
  <2>1. ASSUME TypeOK, SweepInductive, UNCHANGED vars PROVE SweepInductive'
    BY <2>1 DEF vars, SweepInductive, Since
  <2> QED
    BY <2>1, SweepStep DEF Next, Step
<1> QED
  BY <1>1, <1>2, TypeCorrect, PTL DEF Spec

\* A deleted team's directory holds nothing older than its deletion: whatever overlaps,
\* what is in it was written by a request that had not been answered when the deleting one
\* began, in every instance.
THEOREM SweptClean == Spec => []DeletionSweeps
<1>1. SweepInductive => DeletionSweeps
  BY ResourcesAssumption DEF SweepInductive, DeletionSweeps, Since
<1> QED
  BY <1>1, SweepInvariant, PTL

-----------------------------------------------------------------------------
(* One request at a time *)

\* A request that is not answered has no outcome yet, and alone with the branch it starts
\* from what is there; the root store has objects of answered requests only.
AloneInductive ==
    /\ \A s \in Requests : phase[s] # "done" => outcome[s] = "none"
    /\ \A f \in Files : root[f] \in Requests => phase[root[f]] = "done"
    /\ \A s \in Requests, f \in Files :
         records[s][f] \in Requests \ {s} => phase[records[s][f]] = "done"
    /\ OneByOne => \A s \in Requests : phase[s] \in {"handle", "save"} => start[s] = branch

\* Of requests that never overlapped the others are done when one takes a step, unless they
\* have not begun.
LEMMA OnlyOne ==
    ASSUME TypeOK, SweepInductive, SweepInductive', NEW s \in Requests, Step(s), OneByOne'
    PROVE  /\ OneByOne
           /\ \A q \in Requests \ {s} : phase[q] \in {"idle", "done"}
<1>1. \A q \in Requests : phase[q] \in {"idle", "handle", "save", "set", "done"}
  BY DEF TypeOK
<1>2. /\ s \in Began' /\ \A q \in Began \ {s} : q \in Began'
      /\ \A q \in Began : q # s => before'[q] = before[q]
      /\ s \in Began => before' = before
  BY Frame DEF Began
<1>3. ASSUME NEW q \in Requests \ {s}, phase[q] \notin {"idle", "done"} PROVE FALSE
  <2>1. q \in Began' /\ q \in Began
    BY <1>2, <1>3 DEF Began
  <2>2. q \in before'[s] \/ s \in before'[q]
    BY <1>2, <1>3, <2>1 DEF OneByOne
  <2>3. phase'[q] # "done"
    BY <1>3, Frame
  <2>4. s \in before[q]
    BY <1>2, <1>3, <2>1, <2>2, <2>3 DEF SweepInductive
  <2> QED
    BY <2>4, Frame DEF SweepInductive
<1>4. OneByOne
  <2>1. ASSUME NEW q \in Began, NEW r \in Began, q # r PROVE q \in before[r] \/ r \in before[q]
    <3>1. q \in Began' /\ r \in Began'
      BY <1>2, <2>1
    <3>2. q \in before'[r] \/ r \in before'[q]
      BY <2>1, <3>1 DEF OneByOne
    <3>3. before'[q] = before[q] /\ before'[r] = before[r]
      BY <1>2, <2>1
    <3> QED
      BY <3>2, <3>3
  <2> QED
    BY <2>1 DEF OneByOne
<1> QED
  BY <1>1, <1>3, <1>4

\* A handler's records: its own objects, or such as the root store has.
LEMMA HandleRecords ==
    ASSUME TypeOK, NEW s \in Requests, Handle(s)
    PROVE  \A f \in Files : \/ records'[s][f] \in {s, Gone, Keep}
                            \/ records'[s][f] = root[f]
<1>1. ASSUME NEW new, NEW FS, Puts(s, new, FS)
      PROVE  \A f \in Files : records'[s][f] \in {s, Gone, Keep}
  BY <1>1 DEF Puts, Stores, TypeOK
<1>2. ASSUME NEW removed, NEW FS, Takes(s, removed, FS)
      PROVE  \A f \in Files : records'[s][f] \in {s, Gone, Keep}
  BY <1>2 DEF Takes, Forgets, TypeOK
<1>3. ASSUME NEW A \in SUBSET Apps, NEW v \in OnOff, ToggleApps(s, A, v)
      PROVE  \A f \in Files : records'[s][f] \in {root[f], Keep}
  BY <1>3 DEF ToggleApps, TypeOK
<1>4. GivesUp(s) => \A f \in Files : records'[s][f] = Keep
  BY DEF GivesUp, Fails, NoChange, TypeOK
<1>5. ASSUME NEW t \in Teams, NEW r \in CodeRepos, NEW u \in Urls,
             CreateCodeRepo(s, t, r, u) \/ EditCodeRepo(s, t, r, u)
      PROVE  \E new, FS : Puts(s, new, FS)
  BY <1>5, PutsItem DEF CreateCodeRepo, EditCodeRepo
<1> QED
  BY <1>1, <1>2, <1>3, <1>4, <1>5, HandlerLemma

LEMMA AloneStep ==
    ASSUME TypeOK, SweepInductive, SweepInductive', AloneInductive, NEW s \in Requests, Step(s)
    PROVE  AloneInductive'
<1>1. \A r \in Requests : phase[r] = "done" => phase'[r] = "done" /\ r # s
  BY Frame
<1>2. Gone \notin Requests /\ Keep \notin Requests
  BY ResourcesAssumption
<1>3. ASSUME NEW q \in Requests, phase'[q] # "done" PROVE outcome'[q] = "none"
  <2>1. CASE q # s
    BY <1>3, <2>1, Frame DEF AloneInductive
  <2>2. CASE q = s
    <3>1. outcome[s] = "none"
      BY Frame DEF AloneInductive
    <3>2. outcome'[s] = outcome[s]
      <4>1. CASE Begin(s)
        BY <4>1 DEF Begin
      <4>2. CASE Save(s)
        BY <1>3, <2>2, <4>2
           DEF Save, Land, LandInPart, LandNothing, SaveFails, ToSet, Fails, TypeOK
      <4>3. CASE Handle(s)
        BY <1>3, <2>2, <4>3, HandleEnds DEF Wrote, GivesUp, Fails, TypeOK
      <4>4. ~SetRoot(s)
        BY <1>3, <2>2 DEF SetRoot, TypeOK
      <4> QED
        BY <4>1, <4>2, <4>3, <4>4 DEF Step
    <3> QED
      BY <2>2, <3>1, <3>2
  <2> QED
    BY <2>1, <2>2
<1>4. ASSUME NEW f \in Files, root'[f] \in Requests PROVE phase'[root'[f]] = "done"
  <2>1. CASE root'[f] = root[f]
    BY <1>1, <1>4, <2>1 DEF AloneInductive
  <2>2. CASE root'[f] # root[f]
    <3>1. SetRoot(s)
      <4>1. Begin(s) => root' = root
        BY DEF Begin
      <4>2. Save(s) => root' = root
        BY DEF Save, Land, LandInPart, LandNothing, SaveFails, SaveUnchanged
      <4>3. Handle(s) => root' = root
        BY HandleEnds DEF Wrote, GivesUp
      <4> QED
        BY <2>2, <4>1, <4>2, <4>3 DEF Step
    <3>2. root'[f] = records[s][f] /\ phase'[s] = "done"
      BY <2>2, <3>1 DEF SetRoot, TypeOK
    <3> QED
      BY <1>1, <1>4, <3>2 DEF AloneInductive
  <2> QED
    BY <2>1, <2>2
<1>5. ASSUME NEW q \in Requests, NEW f \in Files, records'[q][f] \in Requests \ {q}
      PROVE  phase'[records'[q][f]] = "done"
  <2>1. CASE records'[q][f] = records[q][f]
    BY <1>1, <1>5, <2>1 DEF AloneInductive
  <2>2. CASE records'[q][f] # records[q][f]
    <3>1. q = s
      BY <2>2, Frame
    <3>2. Handle(s)
      <4>1. records'[s] \in {records[s], NoChange} \/ Handle(s)
        BY DEF Step, Begin, Save, Land, LandInPart, LandNothing, SaveFails, ToSet, Fails,
               SetRoot, TypeOK
      <4>2. NoChange[f] = Keep
        BY DEF NoChange
      <4> QED
        BY <1>2, <1>5, <2>2, <3>1, <4>1, <4>2
    <3>3. records'[s][f] = root[f]
      BY <1>2, <1>5, <3>1, <3>2, HandleRecords
    <3> QED
      BY <1>1, <1>5, <3>1, <3>3 DEF AloneInductive
  <2> QED
    BY <2>1, <2>2
<1>6. ASSUME OneByOne', NEW q \in Requests, phase'[q] \in {"handle", "save"}
      PROVE  start'[q] = branch'
  <2>1. q = s
    BY <1>6, OnlyOne, Frame
  <2>2. CASE Begin(s)
    BY <2>1, <2>2 DEF Begin, TypeOK
  <2>3. CASE Handle(s)
    BY <1>6, <2>1, <2>3, HandleCases, OnlyOne, Frame DEF AloneInductive
  <2> QED
    BY <1>6, <2>1, <2>2, <2>3, Frame
<1> QED
  BY <1>3, <1>4, <1>5, <1>6 DEF AloneInductive

\* What an object says; what the root store has once s is done; what the branch has once
\* the change of s is on it.
View(f, o)   == IF o = Gone THEN Gone ELSE heap[f][o]
Stored(s, f) == IF records[s][f] = Keep THEN root[f] ELSE records[s][f]
Merged(s, f) == IF change[s][f] = Keep THEN branch[f] ELSE change[s][f]

\* The strengthening of StoreFollowsBranch: the records of a request do to the store what
\* its change does to the branch.
FollowInductive ==
    OneByOne /\ (\A s \in Requests : outcome[s] # "error") =>
      \A f \in Followed :
        /\ (\A s \in Requests : phase[s] \notin {"save", "set"}) => Same(View(f, root[f]), branch[f])
        /\ \A s \in Requests : phase[s] = "save" => Same(View(f, Stored(s, f)), Merged(s, f))
        /\ \A s \in Requests : phase[s] = "set" => Same(View(f, Stored(s, f)), branch[f])

\* A handler that starts from a store like its worktree leaves a change and records that
\* agree.
LEMMA HandleFollows ==
    ASSUME TypeOK, NEW s \in Requests, Handle(s), start[s] = branch, phase'[s] = "save",
           NEW f \in Followed, Same(View(f, root[f]), branch[f])
    PROVE  Same(View(f, Stored(s, f)), Merged(s, f))'
<1>1. f \in Files /\ Gone \notin Content /\ Keep \notin Content /\ Keep # Gone
      /\ Keep \notin Objects /\ Gone \notin Objects /\ s \in Objects
  BY ResourcesAssumption DEF Followed, Objects
<1>2. ASSUME NEW new, NEW FS, Puts(s, new, FS)
      PROVE  Same(View(f, Stored(s, f)), Merged(s, f))'
  <2>1. /\ root' = root /\ branch' = branch
        /\ change'[s][f] = IF f \in DOMAIN new /\ ~Same(new[f], branch[f]) THEN new[f] ELSE Keep
        /\ records'[s][f] = IF f \in FS THEN s ELSE Keep
        /\ heap'[f] = IF f \in FS THEN [heap[f] EXCEPT ![s] = new[f]] ELSE heap[f]
    BY <1>1, <1>2 DEF Puts, Wrote, Stores, TypeOK
  <2>2. CASE f \in FS
    <3>1. f \in DOMAIN new /\ new[f] \in Content
      BY <1>2, <2>2 DEF Puts
    <3>2. heap'[f][s] = new[f] /\ Stored(s, f)' = s
      BY <1>1, <2>1, <2>2 DEF TypeOK, Stored
    <3>3. View(f, Stored(s, f))' = new[f]
      BY <1>1, <3>2 DEF View
    <3>4. Merged(s, f)' = IF Same(new[f], branch[f]) THEN branch[f] ELSE new[f]
      BY <1>1, <2>1, <3>1 DEF Merged
    <3> QED
      BY <3>3, <3>4 DEF Same
  <2>3. CASE f \notin FS
    <3>1. f \notin DOMAIN new
      BY <1>2, <2>3 DEF Puts
    <3>2. Stored(s, f)' = root[f] /\ Merged(s, f)' = branch[f] /\ heap'[f] = heap[f]
      BY <2>1, <2>3, <3>1 DEF Stored, Merged
    <3> QED
      BY <3>2 DEF View, Same
  <2> QED
    BY <2>2, <2>3
<1>3. ASSUME NEW removed, NEW FS, Takes(s, removed, FS)
      PROVE  Same(View(f, Stored(s, f)), Merged(s, f))'
  <2>1. /\ root' = root /\ branch' = branch /\ heap' = heap
        /\ change'[s][f] = IF f \in removed /\ branch[f] # Gone THEN Gone ELSE Keep
        /\ records'[s][f] = IF f \in FS THEN Gone ELSE Keep
    BY <1>1, <1>3 DEF Takes, Wrote, Forgets, TypeOK
  <2>2. CASE f \in FS
    <3>1. f \in removed
      BY <1>3, <2>2 DEF Takes
    <3> QED
      BY <1>1, <2>1, <2>2, <3>1 DEF Stored, Merged, View, Same
  <2>3. CASE f \in removed /\ f \notin FS
    <3>1. root[f] = Gone
      BY <1>3, <2>3 DEF Takes, Exists
    <3>2. branch[f] = Gone
      BY <3>1 DEF View, Same
    <3> QED
      BY <2>1, <2>3, <3>1, <3>2 DEF Stored, Merged, View, Same
  <2>4. CASE f \notin removed /\ f \notin FS
    BY <2>1, <2>4 DEF Stored, Merged, View, Same
  <2> QED
    BY <2>2, <2>3, <2>4
<1>4. ASSUME NEW A \in SUBSET Apps, NEW v \in OnOff, ToggleApps(s, A, v)
      PROVE  Same(View(f, Stored(s, f)), Merged(s, f))'
  <2> DEFINE new == [g \in {App(a) : a \in A} |-> By(s, v)]
  <2>1. Wrote(s, new, {})
    BY <1>4 DEF ToggleApps
  <2>2. By(s, v) \in Content
    BY ByIs DEF OnOff, Plain
  <2>3. CASE \E a \in A : f = App(a)
    <3>1. f \in DOMAIN new /\ new[f] = By(s, v)
      BY <2>3
    <3> HIDE DEF new
    <3>2. /\ branch' = branch
          /\ change'[s][f] = IF ~Same(new[f], branch[f]) THEN new[f] ELSE Keep
      BY <1>1, <2>1, <3>1 DEF Wrote, TypeOK
    <3>3. root[f] \in Objects /\ records'[s][f] = root[f]
      BY <1>1, <1>4, <2>3 DEF ToggleApps, Exists, TypeOK
    <3>4. heap'[f][root[f]] = By(s, v)
      BY <1>1, <1>4, <2>3, <3>3 DEF ToggleApps, SetInPlace, Exists, TypeOK
    <3>5. View(f, Stored(s, f))' = new[f]
      BY <1>1, <3>1, <3>3, <3>4 DEF View, Stored
    <3>6. Merged(s, f)' = IF Same(new[f], branch[f]) THEN branch[f] ELSE new[f]
      BY <1>1, <2>2, <3>1, <3>2 DEF Merged
    <3> QED
      BY <3>5, <3>6 DEF Same
  <2>4. CASE ~\E a \in A : f = App(a)
    <3>1. f \notin DOMAIN new
      BY <2>4
    <3> HIDE DEF new
    <3>2. root' = root /\ branch' = branch /\ change'[s][f] = Keep
      BY <1>1, <2>1, <3>1 DEF Wrote, TypeOK
    <3>3. records'[s][f] = Keep /\ heap'[f] = heap[f]
      BY <1>1, <1>4, <2>4 DEF ToggleApps, SetInPlace, TypeOK
    <3> QED
      BY <3>2, <3>3 DEF View, Stored, Merged, Same
  <2> QED
    BY <2>3, <2>4
<1>5. ~GivesUp(s)
  BY DEF GivesUp, Fails, TypeOK
<1>6. ASSUME NEW t \in Teams, NEW r \in CodeRepos, NEW u \in Urls,
             CreateCodeRepo(s, t, r, u) \/ EditCodeRepo(s, t, r, u)
      PROVE  \E new, FS : Puts(s, new, FS)
  BY <1>6, PutsItem DEF CreateCodeRepo, EditCodeRepo
<1> QED
  BY <1>2, <1>3, <1>4, <1>5, <1>6, HandlerLemma

\* Alone a request meets no conflict.
LEMMA AloneLands ==
    ASSUME TypeOK, AloneInductive, NEW s \in Requests, Save(s), OneByOne
    PROVE  Conflicts(s) = {} /\ (Land(s) \/ SaveFails(s))
<1>1. phase[s] = "save"
  BY DEF Save, Land, LandInPart, LandNothing, SaveFails
<1>2. start[s] = branch
  BY <1>1 DEF AloneInductive
<1>3. Conflicts(s) = {}
  BY <1>2 DEF Conflicts, Same
<1> QED
  BY <1>3 DEF Save, LandInPart, LandNothing

LEMMA FollowStep ==
    ASSUME TypeOK, SweepInductive, SweepInductive', AloneInductive, FollowInductive,
           NEW s \in Requests, Step(s)
    PROVE  FollowInductive'
<1>1. SUFFICES ASSUME OneByOne', \A q \in Requests : outcome'[q] # "error", NEW f \in Followed
               PROVE  /\ (\A q \in Requests : phase'[q] \notin {"save", "set"}) =>
                           Same(View(f, root[f]), branch[f])'
                      /\ \A q \in Requests : phase'[q] = "save" =>
                           Same(View(f, Stored(q, f)), Merged(q, f))'
                      /\ \A q \in Requests : phase'[q] = "set" =>
                           Same(View(f, Stored(q, f)), branch[f])'
  BY DEF FollowInductive, Followed, Files
<1>2. /\ OneByOne /\ \A q \in Requests \ {s} : phase[q] \in {"idle", "done"}
      /\ \A q \in Requests \ {s} : phase'[q] \notin {"save", "set"}
  BY <1>1, OnlyOne, Frame
<1>3. \A q \in Requests : outcome[q] # "error"
  BY <1>1, Frame DEF AloneInductive
<1>4. /\ (\A q \in Requests : phase[q] \notin {"save", "set"}) => Same(View(f, root[f]), branch[f])
      /\ phase[s] = "save" => Same(View(f, Stored(s, f)), Merged(s, f))
      /\ phase[s] = "set" => Same(View(f, Stored(s, f)), branch[f])
  BY <1>2, <1>3 DEF FollowInductive
<1>5. ~Fails(s)
  BY <1>1 DEF Fails, TypeOK
<1>6. CASE Begin(s)
  <2>1. UNCHANGED <<heap, root, branch>> /\ phase[s] = "idle" /\ phase'[s] = "handle"
    BY <1>6, Frame DEF Begin
  <2> QED
    BY <1>2, <1>4, <2>1 DEF View
<1>7. CASE Handle(s)
  <2>1. phase[s] = "handle" /\ phase'[s] = "save"
    BY <1>5, <1>7, HandleEnds DEF Handle, Wrote, GivesUp, TypeOK
  <2>2. start[s] = branch
    BY <1>2, <2>1 DEF AloneInductive
  <2>3. Same(View(f, root[f]), branch[f])
    BY <1>2, <1>4, <2>1
  <2>4. Same(View(f, Stored(s, f)), Merged(s, f))'
    BY <1>7, <2>1, <2>2, <2>3, HandleFollows
  <2> QED
    BY <1>2, <2>1, <2>4
<1>8. CASE Save(s)
  <2>1. Land(s) /\ phase[s] = "save"
    BY <1>2, <1>5, <1>8, AloneLands DEF SaveFails, Land
  <2>2. /\ UNCHANGED <<heap, root, records>> /\ phase'[s] = "set"
        /\ branch'[f] = Merged(s, f)
    BY <2>1 DEF Land, Push, SaveUnchanged, ToSet, Merged, Followed, TypeOK
  <2>3. View(f, Stored(s, f))' = View(f, Stored(s, f))
    BY <2>2 DEF View, Stored
  <2> QED
    BY <1>2, <1>4, <2>1, <2>2, <2>3
<1>9. CASE SetRoot(s)
  <2>1. /\ UNCHANGED <<heap, branch>> /\ phase[s] = "set" /\ phase'[s] = "done"
        /\ root'[f] = Stored(s, f)
    BY <1>9 DEF SetRoot, Stored, Followed, TypeOK
  <2> QED
    BY <1>2, <1>4, <2>1 DEF View
<1> QED
  BY <1>6, <1>7, <1>8, <1>9 DEF Step

\* The strengthening of UniqueUrls: of every URL that counts the root store knows, or will
\* once the request on its way is done.
Excused(c) == c.by = Initial \/ c.by \in edited \/ outcome[c.by] = "error"

Knows(f, o, c) == c = Gone \/ Excused(c) \/ (o # Gone /\ heap[f][o].what = c.what)

Apart(a, b) == a = Gone \/ b = Gone \/ a.what # b.what \/ Excused(a) \/ Excused(b)

UrlsKnown(f) ==
    /\ (\A s \in Requests : phase[s] # "set") => Knows(f, root[f], branch[f])
    /\ \A s \in Requests : phase[s] = "save" => Knows(f, Stored(s, f), Merged(s, f))
    /\ \A s \in Requests : phase[s] = "set" => Knows(f, Stored(s, f), branch[f])

UrlsApart(f, g) ==
    /\ Apart(branch[f], branch[g])
    /\ \A s \in Requests : phase[s] = "save" => Apart(Merged(s, f), Merged(s, g))

UrlsInductive ==
    OneByOne => \A t \in Teams :
      /\ \A r \in CodeRepos : UrlsKnown(CodeRepo(t, r))
      /\ \A q, r \in CodeRepos : q # r => UrlsApart(CodeRepo(t, q), CodeRepo(t, r))

\* What is excused stays excused.
LEMMA ExcusedStays ==
    ASSUME TypeOK, AloneInductive, NEW s \in Requests, Step(s), NEW c \in Content, Excused(c)
    PROVE  Excused(c)'
<1>1. edited \subseteq edited'
  <2>1. CASE Begin(s)
    BY <2>1 DEF Begin
  <2>2. CASE SetRoot(s)
    BY <2>2 DEF SetRoot
  <2>3. CASE Save(s)
    BY <2>3 DEF Save, Land, LandInPart, LandNothing, SaveFails, SaveUnchanged
  <2>4. CASE Handle(s)
    BY <2>4, HandlerLemma DEF Takes, ToggleApps, GivesUp, CreateCodeRepo, EditCodeRepo
  <2> QED
    BY <2>1, <2>2, <2>3, <2>4 DEF Step
<1>2. c.by \in Requests \cup {Initial}
  BY DEF Content
<1>3. outcome[s] # "error"
  BY Frame DEF AloneInductive
<1>4. c.by \in Requests /\ outcome[c.by] = "error" => outcome'[c.by] = "error"
  BY <1>3, Frame
<1> QED
  BY <1>1, <1>2, <1>4 DEF Excused

LEMMA KnowsStays ==
    ASSUME TypeOK, AloneInductive, NEW s \in Requests, Step(s), NEW f, NEW o,
           NEW c \in Content \cup {Gone}, Knows(f, o, c), o = Gone \/ heap'[f][o] = heap[f][o]
    PROVE  Knows(f, o, c)'
  BY ExcusedStays DEF Knows

LEMMA ApartStays ==
    ASSUME TypeOK, AloneInductive, NEW s \in Requests, Step(s),
           NEW a \in Content \cup {Gone}, NEW b \in Content \cup {Gone}, Apart(a, b)
    PROVE  Apart(a, b)'
  BY ExcusedStays DEF Apart

LEMMA MergedType ==
    ASSUME TypeOK, NEW s \in Requests, NEW f \in Files
    PROVE  Merged(s, f) \in Content \cup {Gone} /\ branch[f] \in Content \cup {Gone}
  BY DEF TypeOK, Merged

\* A handler of anything else leaves a code repository as it is, or deletes it.
LEMMA RepoLeftAlone ==
    ASSUME TypeOK, NEW s \in Requests, Handle(s), start[s] = branch, phase'[s] = "save",
           ~\E t \in Teams, r \in CodeRepos, u \in Urls :
              CreateCodeRepo(s, t, r, u) \/ EditCodeRepo(s, t, r, u),
           NEW t \in Teams, NEW r \in CodeRepos, NEW f \in Files, f = CodeRepo(t, r)
    PROVE  /\ heap'[f] = heap[f]
           /\ \/ Merged(s, f)' = Gone
              \/ Merged(s, f)' = branch[f] /\ Stored(s, f)' = root[f]
<1>1. Keep # Gone /\ \A a \in Apps : f # App(a)
  BY ResourcesAssumption DEF CodeRepo, App
<1>2. ASSUME NEW new, NEW FS, Puts(s, new, FS), f \notin DOMAIN new
      PROVE  /\ heap'[f] = heap[f]
             /\ Merged(s, f)' = branch[f] /\ Stored(s, f)' = root[f]
  <2>1. f \notin FS
    BY <1>2 DEF Puts
  <2> QED
    BY <1>2, <2>1 DEF Puts, Wrote, Stores, Merged, Stored, TypeOK
<1>3. ASSUME NEW removed, NEW FS, Takes(s, removed, FS)
      PROVE  /\ heap'[f] = heap[f]
             /\ \/ Merged(s, f)' = Gone
                \/ Merged(s, f)' = branch[f] /\ Stored(s, f)' = root[f]
  <2>1. /\ root' = root /\ branch' = branch /\ heap' = heap /\ FS \subseteq removed
        /\ change'[s][f] = IF f \in removed /\ branch[f] # Gone THEN Gone ELSE Keep
        /\ records'[s][f] = IF f \in FS THEN Gone ELSE Keep
    BY <1>3 DEF Takes, Wrote, Forgets, TypeOK
  <2> QED
    BY <1>1, <2>1 DEF Merged, Stored
<1>4. ASSUME NEW A \in SUBSET Apps, NEW v \in OnOff, ToggleApps(s, A, v)
      PROVE  /\ heap'[f] = heap[f]
             /\ Merged(s, f)' = branch[f] /\ Stored(s, f)' = root[f]
  <2> DEFINE new == [g \in {App(a) : a \in A} |-> By(s, v)]
  <2>1. Wrote(s, new, {}) /\ f \notin DOMAIN new
    BY <1>1, <1>4 DEF ToggleApps
  <2> HIDE DEF new
  <2>2. root' = root /\ branch' = branch /\ change'[s][f] = Keep
    BY <2>1 DEF Wrote, TypeOK
  <2>3. records'[s][f] = Keep /\ heap'[f] = heap[f]
    BY <1>1, <1>4 DEF ToggleApps, SetInPlace, TypeOK
  <2> QED
    BY <2>2, <2>3 DEF Merged, Stored
<1>5. ~GivesUp(s)
  BY DEF GivesUp, Fails, TypeOK
<1> QED
  BY <1>2, <1>3, <1>4, <1>5, HandlerLemma

\* The handlers of a code repository.
LEMMA RepoSaved ==
    ASSUME TypeOK, NEW s \in Requests, start[s] = branch,
           NEW g \in Files, NEW u \in Urls, SaveTeamConfigItem(s, g, u)
    PROVE  /\ root' = root /\ branch' = branch /\ phase'[s] = "save"
           /\ By(s, u) \in Content /\ By(s, u).by = s /\ By(s, u).what = u
           /\ heap'[g] = [heap[g] EXCEPT ![s] = By(s, u)] /\ heap'[g][s] = By(s, u)
           /\ Stored(s, g)' = s /\ s # Gone
           /\ Merged(s, g)' = IF Same(By(s, u), branch[g]) THEN branch[g] ELSE By(s, u)
<1> DEFINE new == [f \in {g} |-> By(s, u)]
<1>1. Puts(s, new, {g}) /\ DOMAIN new = {g} /\ new[g] = By(s, u)
  BY PutsItem
<1> HIDE DEF new
<1>2. By(s, u) \in Content /\ By(s, u).by = s /\ By(s, u).what = u
  BY ByIs
<1>3. s \in Objects /\ s # Gone /\ s # Keep /\ Keep \notin Content
  BY ResourcesAssumption DEF Objects
<1>4. /\ root' = root /\ branch' = branch /\ phase'[s] = "save"
      /\ change'[s][g] = IF ~Same(By(s, u), branch[g]) THEN By(s, u) ELSE Keep
  BY <1>1 DEF Puts, Wrote, TypeOK
<1>5. records'[s][g] = s /\ heap'[g] = [heap[g] EXCEPT ![s] = By(s, u)]
  BY <1>1 DEF Puts, Stores, TypeOK
<1>6. heap'[g][s] = By(s, u)
  BY <1>3, <1>5 DEF TypeOK
<1> QED
  BY <1>2, <1>3, <1>4, <1>5, <1>6 DEF Stored, Merged

LEMMA RepoElse ==
    ASSUME TypeOK, NEW s \in Requests,
           NEW g, NEW u \in Urls, SaveTeamConfigItem(s, g, u), NEW f \in Files, f # g
    PROVE  heap'[f] = heap[f] /\ Merged(s, f)' = branch[f] /\ Stored(s, f)' = root[f]
<1> DEFINE new == [h \in {g} |-> By(s, u)]
<1>1. Puts(s, new, {g}) /\ f \notin DOMAIN new
  BY PutsItem
<1> HIDE DEF new
<1>2. root' = root /\ branch' = branch /\ change'[s][f] = Keep
  BY <1>1 DEF Puts, Wrote, TypeOK
<1>3. records'[s][f] = Keep /\ heap'[f] = heap[f]
  BY <1>1 DEF Puts, Stores, TypeOK
<1> QED
  BY <1>2, <1>3 DEF Stored, Merged

LEMMA RepoFiles ==
    ASSUME NEW t \in Teams, NEW r \in CodeRepos
    PROVE  /\ CodeRepo(t, r) \in Files
           /\ \A u \in Teams, q \in CodeRepos : CodeRepo(u, q) = CodeRepo(t, r) => u = t /\ q = r
<1>1. CodeRepo(t, r) \in TeamFiles(t) /\ TeamFiles(t) \in {TeamFiles(u) : u \in Teams}
  BY DEF TeamFiles
<1> QED
  BY <1>1 DEF Files, CodeRepo

\* What a handler leaves: the root store as knowing as it was, and records that go with
\* the change.
LEMMA HandleKnows ==
    ASSUME TypeOK, AloneInductive, NEW s \in Requests, Handle(s), Step(s), phase[s] = "handle",
           phase'[s] = "save", start[s] = branch,
           NEW t \in Teams,
           \A r \in CodeRepos : Knows(CodeRepo(t, r), root[CodeRepo(t, r)], branch[CodeRepo(t, r)]),
           NEW f, NEW r \in CodeRepos, f = CodeRepo(t, r)
    PROVE  /\ branch'[f] = branch[f] /\ root'[f] = root[f]
           /\ Knows(f, root[f], branch[f])'
           /\ Knows(f, Stored(s, f), Merged(s, f))'
           /\ \/ Merged(s, f)' \in {Gone, branch[f]}
              \/ \E u \in Urls :
                   /\ Merged(s, f)' = By(s, u)
                   /\ \/ EditCodeRepo(s, t, r, u)
                      \/ CreateCodeRepo(s, t, r, u)
<1>1. f \in Files /\ branch' = branch /\ root' = root
  BY RepoFiles, HandleEnds DEF Wrote, GivesUp
<1> PICK c, o : c = branch[f] /\ o = root[f]
  OBVIOUS
<1>2. c \in Content \cup {Gone} /\ Knows(f, o, c) /\ (o = Gone \/ o \in Objects \ {s})
  BY <1>1 DEF TypeOK, AloneInductive, Objects
<1>3. ASSUME heap'[f] = heap[f] \/ heap'[f] = [heap[f] EXCEPT ![s] = heap'[f][s]]
      PROVE  Knows(f, root[f], branch[f])' /\ (Knows(f, o, c))'
  <2>1. o = Gone \/ heap'[f][o] = heap[f][o]
    BY <1>1, <1>2, <1>3 DEF TypeOK
  <2>2. Knows(f, o, c)'
    BY <1>2, <2>1, KnowsStays
  <2> QED
    BY <1>1, <2>2 DEF Knows, Excused
<1>4. ASSUME heap'[f] = heap[f],
             \/ Merged(s, f)' = Gone
             \/ Merged(s, f)' = c /\ Stored(s, f)' = o
      PROVE  Knows(f, Stored(s, f), Merged(s, f))'
  BY <1>3, <1>4 DEF Knows, Excused
<1>5. CASE ~\E v \in Teams, q \in CodeRepos, u \in Urls :
              CreateCodeRepo(s, v, q, u) \/ EditCodeRepo(s, v, q, u)
  <2>1. /\ heap'[f] = heap[f]
        /\ \/ Merged(s, f)' = Gone
           \/ Merged(s, f)' = c /\ Stored(s, f)' = o
    BY <1>1, <1>5, RepoLeftAlone
  <2> QED
    BY <1>1, <1>3, <1>4, <2>1
<1>6. ASSUME NEW v \in Teams, NEW q \in CodeRepos, NEW u \in Urls,
             CreateCodeRepo(s, v, q, u) \/ EditCodeRepo(s, v, q, u)
      PROVE  /\ Knows(f, root[f], branch[f])'
             /\ Knows(f, Stored(s, f), Merged(s, f))'
             /\ \/ Merged(s, f)' \in {Gone, branch[f]}
                \/ \E x \in Urls :
                     /\ Merged(s, f)' = By(s, x)
                     /\ EditCodeRepo(s, t, r, x) \/ CreateCodeRepo(s, t, r, x)
  <2> PICK g : g = CodeRepo(v, q)
    OBVIOUS
  <2>1. g \in Files /\ SaveTeamConfigItem(s, g, u)
    BY <1>6, RepoFiles DEF CreateCodeRepo, EditCodeRepo
  <2>2. CASE f # g
    <3>1. heap'[f] = heap[f] /\ Merged(s, f)' = c /\ Stored(s, f)' = o
      BY <1>1, <2>1, <2>2, RepoElse
    <3> QED
      BY <1>3, <1>4, <3>1
  <2>3. CASE f = g
    <3>1. /\ By(s, u) \in Content /\ By(s, u).by = s /\ By(s, u).what = u
          /\ heap'[f] = [heap[f] EXCEPT ![s] = By(s, u)] /\ heap'[f][s] = By(s, u)
          /\ Stored(s, f)' = s /\ s # Gone
          /\ Merged(s, f)' = IF Same(By(s, u), c) THEN c ELSE By(s, u)
      BY <1>1, <2>1, <2>3, RepoSaved
    <3>2. v = t /\ q = r
      BY <2>3 DEF CodeRepo
    <3>3. heap'[f][Stored(s, f)'].what = u
      BY <3>1
    <3>4. Merged(s, f)' = By(s, u) \/ (Same(By(s, u), c) /\ Merged(s, f)' = c)
      BY <3>1
    <3>5. Same(By(s, u), c) => c.what = u
      BY <3>1 DEF Same
    <3>6. Knows(f, Stored(s, f), Merged(s, f))'
      BY <3>1, <3>3, <3>4, <3>5 DEF Knows
    <3> QED
      BY <1>3, <1>6, <3>1, <3>2, <3>4, <3>6
  <2> QED
    BY <2>2, <2>3
<1> QED
  BY <1>1, <1>5, <1>6

\* And no URL twice.
LEMMA HandleApart ==
    ASSUME TypeOK, AloneInductive, NEW s \in Requests, Handle(s), Step(s), phase[s] = "handle",
           phase'[s] = "save", start[s] = branch,
           NEW t \in Teams,
           \A r \in CodeRepos : Knows(CodeRepo(t, r), root[CodeRepo(t, r)], branch[CodeRepo(t, r)]),
           NEW q \in CodeRepos, NEW r \in CodeRepos, q # r,
           Apart(branch[CodeRepo(t, q)], branch[CodeRepo(t, r)])
    PROVE  /\ Apart(branch[CodeRepo(t, q)], branch[CodeRepo(t, r)])'
           /\ Apart(Merged(s, CodeRepo(t, q)), Merged(s, CodeRepo(t, r)))'
<1> PICK f, g, a, b : /\ f = CodeRepo(t, q) /\ g = CodeRepo(t, r)
                      /\ a = branch[f] /\ b = branch[g]
  OBVIOUS
<1>1. /\ f \in Files /\ g \in Files /\ f # g
      /\ a \in Content \cup {Gone} /\ b \in Content \cup {Gone}
  BY RepoFiles DEF TypeOK
<1>2. branch'[f] = a /\ branch'[g] = b
  BY HandleKnows
<1>3. Apart(a, b)' /\ Apart(b, a)'
  BY <1>1, ApartStays DEF Apart
\* A URL that is created is none the store knows.
<1>4. ASSUME NEW x \in CodeRepos, NEW y \in CodeRepos, x # y, NEW h, h = CodeRepo(t, y),
             NEW u \in Urls, CreateCodeRepo(s, t, x, u) \/ EditCodeRepo(s, t, x, u),
             NEW d, d = branch[h]
      PROVE  Apart(By(s, u), d)' /\ Apart(d, By(s, u))' /\ Merged(s, h)' = d
  <2>1. h \in Files /\ h # CodeRepo(t, x) /\ CodeRepo(t, x) \in Files
    BY <1>4, RepoFiles
  <2>2. Merged(s, h)' = d /\ By(s, u).by = s /\ By(s, u).what = u
    <3>1. SaveTeamConfigItem(s, CodeRepo(t, x), u)
      BY <1>4 DEF CreateCodeRepo, EditCodeRepo
    <3>2. Merged(s, h)' = branch[h]
      BY <2>1, <3>1, RepoElse
    <3> QED
      BY <1>4, <3>2, ByIs
  <2>3. CASE EditCodeRepo(s, t, x, u)
    <3>1. s \in edited'
      BY <2>3 DEF EditCodeRepo
    <3> QED
      BY <2>2, <3>1 DEF Apart, Excused
  <2>4. CASE CreateCodeRepo(s, t, x, u)
    <3>1. d = Gone \/ Excused(d) \/ d.what # u
      <4>1. Knows(h, root[h], d)
        BY <1>4
      <4>2. root[h] # Gone => heap[h][root[h]].what # u
        BY <1>4, <2>4 DEF CreateCodeRepo, Exists, Shown
      <4> QED
        BY <4>1, <4>2 DEF Knows
    <3>2. d \in Content /\ Excused(d) => Excused(d)'
      BY ExcusedStays
    <3>3. d \in Content \cup {Gone}
      BY <1>4, <2>1 DEF TypeOK
    <3> QED
      BY <2>2, <3>1, <3>2, <3>3 DEF Apart
  <2> QED
    BY <1>4, <2>3, <2>4
<1>5. Apart(Merged(s, f), Merged(s, g))'
  <2>1. \/ Merged(s, f)' \in {Gone, a}
        \/ \E u \in Urls : /\ Merged(s, f)' = By(s, u)
                           /\ CreateCodeRepo(s, t, q, u) \/ EditCodeRepo(s, t, q, u)
    BY HandleKnows
  <2>2. \/ Merged(s, g)' \in {Gone, b}
        \/ \E u \in Urls : /\ Merged(s, g)' = By(s, u)
                           /\ CreateCodeRepo(s, t, r, u) \/ EditCodeRepo(s, t, r, u)
    BY HandleKnows
  <2>3. ASSUME NEW u \in Urls, Merged(s, f)' = By(s, u),
               CreateCodeRepo(s, t, q, u) \/ EditCodeRepo(s, t, q, u)
        PROVE  Apart(Merged(s, f), Merged(s, g))'
    BY <1>4, <2>3 DEF Apart, Excused
  <2>4. ASSUME NEW u \in Urls, Merged(s, g)' = By(s, u),
               CreateCodeRepo(s, t, r, u) \/ EditCodeRepo(s, t, r, u)
        PROVE  Apart(Merged(s, f), Merged(s, g))'
    BY <1>4, <2>4 DEF Apart, Excused
  <2>5. CASE Merged(s, f)' \in {Gone, a} /\ Merged(s, g)' \in {Gone, b}
    BY <1>3, <2>5 DEF Apart, Excused
  <2> QED
    BY <2>1, <2>2, <2>3, <2>4, <2>5
<1> QED
  BY <1>2, <1>3, <1>5 DEF Apart, Excused

\* A save that fails may have pushed: what it left on the branch is its own.
LEMMA FailedSave ==
    ASSUME TypeOK, SweepInductive, NEW s \in Requests, SaveFails(s), NEW f \in Files
    PROVE  /\ UNCHANGED <<heap, root, edited>> /\ phase'[s] = "done" /\ outcome'[s] = "error"
           /\ \/ branch'[f] = branch[f]
              \/ branch'[f] = Gone
              \/ branch'[f] = change[s][f] /\ change[s][f] \in Content /\ Excused(branch[f])'
<1>1. UNCHANGED <<heap, root, edited>> /\ phase'[s] = "done" /\ outcome'[s] = "error"
  BY DEF SaveFails, SaveUnchanged, Fails, TypeOK
<1>2. branch'[f] = branch[f] \/ (change[s][f] # Keep /\ branch'[f] = change[s][f])
  BY DEF SaveFails, Push
<1>3. change[s][f] \in Content \cup {Gone, Keep}
  BY DEF TypeOK
<1>4. change[s][f] \in Content => change[s][f].by = s
  BY DEF SweepInductive
<1> QED
  BY <1>1, <1>2, <1>3, <1>4 DEF Excused

LEMMA KnownStep ==
    ASSUME TypeOK, SweepInductive, SweepInductive', AloneInductive, NEW s \in Requests, Step(s),
           OneByOne', NEW t \in Teams, \A r \in CodeRepos : UrlsKnown(CodeRepo(t, r)),
           NEW r \in CodeRepos, NEW f, f = CodeRepo(t, r)
    PROVE  UrlsKnown(f)'
<1>1. f \in Files /\ UrlsKnown(f)
  BY RepoFiles
<1>2. /\ OneByOne
      /\ \A q \in Requests \ {s} : phase'[q] = phase[q] /\ phase[q] \in {"idle", "done"}
  BY OnlyOne, Frame
<1>3. SUFFICES /\ phase'[s] # "set" => Knows(f, root[f], branch[f])'
               /\ phase'[s] = "save" => Knows(f, Stored(s, f), Merged(s, f))'
               /\ phase'[s] = "set" => Knows(f, Stored(s, f), branch[f])'
  BY <1>2 DEF UrlsKnown
<1>4. /\ phase[s] # "set" => Knows(f, root[f], branch[f])
      /\ phase[s] = "save" => Knows(f, Stored(s, f), Merged(s, f))
      /\ phase[s] = "set" => Knows(f, Stored(s, f), branch[f])
  BY <1>1, <1>2 DEF UrlsKnown
<1>5. ASSUME NEW c \in Content \cup {Gone}, NEW o, Knows(f, o, c), heap'[f] = heap[f]
      PROVE  Knows(f, o, c)'
  BY <1>5, KnowsStays
<1>6. branch[f] \in Content \cup {Gone} /\ Merged(s, f) \in Content \cup {Gone}
  BY <1>1, MergedType
<1> PICK c, o, d, p : /\ c = branch[f] /\ o = root[f]
                      /\ d = Merged(s, f) /\ p = Stored(s, f)
  OBVIOUS
<1>7. CASE Begin(s)
  <2>1. /\ heap' = heap /\ root'[f] = o /\ branch'[f] = c
        /\ phase[s] = "idle" /\ phase'[s] = "handle"
    BY <1>7, Frame DEF Begin
  <2>2. Knows(f, o, c)'
    BY <1>4, <1>5, <1>6, <2>1
  <2> QED
    BY <2>1, <2>2 DEF Knows, Excused
<1>8. CASE Handle(s) /\ phase'[s] = "save"
  <2>1. phase[s] = "handle"
    BY <1>8 DEF Handle
  <2>2. start[s] = branch
    BY <1>2, <2>1 DEF AloneInductive
  <2>3. \A x \in CodeRepos : Knows(CodeRepo(t, x), root[CodeRepo(t, x)], branch[CodeRepo(t, x)])
    BY <1>2, <2>1 DEF UrlsKnown
  <2> QED
    BY <1>8, <2>1, <2>2, <2>3, HandleKnows
<1>9. CASE Handle(s) /\ phase'[s] # "save"
  <2>1. GivesUp(s) /\ phase[s] = "handle" /\ phase'[s] = "done"
    BY <1>9, HandleEnds, Frame DEF Wrote, Handle, GivesUp, Fails, TypeOK
  <2>2. heap'[f] = heap[f] /\ root'[f] = o /\ branch'[f] = c
    BY <1>1, <2>1 DEF GivesUp, CodeRepo, App
  <2>3. Knows(f, o, c)'
    BY <1>4, <1>5, <1>6, <2>1, <2>2
  <2> QED
    BY <2>1, <2>2, <2>3 DEF Knows, Excused
<1>10. CASE Land(s)
  <2>1. /\ UNCHANGED <<heap, root, records>> /\ phase[s] = "save" /\ phase'[s] = "set"
        /\ branch'[f] = d
    BY <1>1, <1>10 DEF Land, Push, SaveUnchanged, ToSet, Merged, TypeOK
  <2>2. Stored(s, f)' = p
    BY <2>1 DEF Stored
  <2>3. Knows(f, p, d)'
    BY <1>4, <1>5, <1>6, <2>1
  <2> QED
    BY <2>1, <2>2, <2>3 DEF Knows, Excused
<1>11. CASE SaveFails(s)
  <2>1. /\ heap' = heap /\ root'[f] = o /\ phase'[s] = "done" /\ phase[s] = "save"
        /\ branch'[f] = c \/ branch'[f] = Gone \/ Excused(branch[f])'
    BY <1>1, <1>11, FailedSave DEF SaveFails
  <2>2. Knows(f, o, c)'
    BY <1>4, <1>5, <1>6, <2>1
  <2> QED
    BY <2>1, <2>2 DEF Knows, Excused
<1>12. CASE SetRoot(s)
  <2>1. /\ heap' = heap /\ branch'[f] = c /\ phase[s] = "set" /\ phase'[s] = "done"
        /\ root'[f] = p
    BY <1>1, <1>12 DEF SetRoot, Stored, TypeOK
  <2>2. Knows(f, p, c)'
    BY <1>4, <1>5, <1>6, <2>1
  <2> QED
    BY <2>1, <2>2 DEF Knows, Excused
<1>13. Save(s) => Land(s) \/ SaveFails(s)
  BY <1>2, AloneLands DEF Save, Land, LandInPart, LandNothing, SaveFails
<1> QED
  BY <1>7, <1>8, <1>9, <1>10, <1>11, <1>12, <1>13 DEF Step

LEMMA ApartStep ==
    ASSUME TypeOK, SweepInductive, SweepInductive', AloneInductive, NEW s \in Requests, Step(s),
           OneByOne', NEW t \in Teams, \A r \in CodeRepos : UrlsKnown(CodeRepo(t, r)),
           NEW q \in CodeRepos, NEW r \in CodeRepos, q # r,
           NEW f, f = CodeRepo(t, q), NEW g, g = CodeRepo(t, r), UrlsApart(f, g)
    PROVE  UrlsApart(f, g)'
<1>1. f \in Files /\ g \in Files
  BY RepoFiles
<1>2. /\ OneByOne
      /\ \A x \in Requests \ {s} : phase'[x] \in {"idle", "done"} /\ phase[x] \in {"idle", "done"}
  BY OnlyOne, Frame
<1>3. SUFFICES /\ Apart(branch[f], branch[g])'
               /\ phase'[s] = "save" => Apart(Merged(s, f), Merged(s, g))'
  BY <1>2 DEF UrlsApart
<1>4. /\ Apart(branch[f], branch[g])
      /\ phase[s] = "save" => Apart(Merged(s, f), Merged(s, g))
  BY DEF UrlsApart
<1>5. ASSUME NEW a \in Content \cup {Gone}, NEW b \in Content \cup {Gone}, Apart(a, b)
      PROVE  Apart(a, b)'
  BY <1>5, ApartStays
<1>6. /\ branch[f] \in Content \cup {Gone} /\ Merged(s, f) \in Content \cup {Gone}
      /\ branch[g] \in Content \cup {Gone} /\ Merged(s, g) \in Content \cup {Gone}
  BY <1>1, MergedType
<1> PICK a, b, c, d : /\ a = branch[f] /\ b = branch[g]
                      /\ c = Merged(s, f) /\ d = Merged(s, g)
  OBVIOUS
<1>7. Apart(a, b)'
  BY <1>4, <1>5, <1>6
<1>8. CASE Begin(s) \/ SetRoot(s)
  <2>1. branch' = branch /\ phase'[s] # "save"
    BY <1>8, Frame DEF Begin, SetRoot, TypeOK
  <2> QED
    BY <1>7, <2>1 DEF Apart, Excused
<1>9. CASE Handle(s) /\ phase'[s] = "save"
  <2>1. phase[s] = "handle"
    BY <1>9 DEF Handle
  <2>2. start[s] = branch
    BY <1>2, <2>1 DEF AloneInductive
  <2>3. \A x \in CodeRepos : Knows(CodeRepo(t, x), root[CodeRepo(t, x)], branch[CodeRepo(t, x)])
    BY <1>2, <2>1 DEF UrlsKnown
  <2> QED
    BY <1>4, <1>9, <2>1, <2>2, <2>3, HandleApart
<1>10. CASE Handle(s) /\ phase'[s] # "save"
  <2>1. branch' = branch
    BY <1>10, HandleEnds DEF Wrote, GivesUp
  <2> QED
    BY <1>7, <1>10, <2>1 DEF Apart, Excused
<1>11. CASE Land(s)
  <2>1. phase[s] = "save" /\ phase'[s] = "set" /\ branch'[f] = c /\ branch'[g] = d
    BY <1>1, <1>11 DEF Land, Push, ToSet, Merged, TypeOK
  <2>2. Apart(c, d)'
    BY <1>4, <1>5, <1>6, <2>1
  <2> QED
    BY <2>1, <2>2 DEF Apart, Excused
<1>12. CASE SaveFails(s)
  <2>1. /\ phase'[s] = "done"
        /\ branch'[f] = a \/ branch'[f] = Gone \/ Excused(branch[f])'
        /\ branch'[g] = b \/ branch'[g] = Gone \/ Excused(branch[g])'
    BY <1>1, <1>12, FailedSave
  <2> QED
    BY <1>7, <2>1 DEF Apart, Excused
<1>13. Save(s) => Land(s) \/ SaveFails(s)
  BY <1>2, AloneLands
<1> QED
  BY <1>8, <1>9, <1>10, <1>11, <1>12, <1>13 DEF Step

LEMMA UrlsStep ==
    ASSUME TypeOK, SweepInductive, SweepInductive', AloneInductive, UrlsInductive,
           NEW s \in Requests, Step(s)
    PROVE  UrlsInductive'
<1>1. ASSUME OneByOne', NEW t \in Teams
      PROVE  /\ \A r \in CodeRepos : UrlsKnown(CodeRepo(t, r))'
             /\ \A q, r \in CodeRepos : q # r => UrlsApart(CodeRepo(t, q), CodeRepo(t, r))'
  <2>1. /\ \A r \in CodeRepos : UrlsKnown(CodeRepo(t, r))
        /\ \A q, r \in CodeRepos : q # r => UrlsApart(CodeRepo(t, q), CodeRepo(t, r))
    BY <1>1, OnlyOne DEF UrlsInductive
  <2>2. ASSUME NEW r \in CodeRepos PROVE UrlsKnown(CodeRepo(t, r))'
    <3> PICK f : f = CodeRepo(t, r)
      OBVIOUS
    <3>1. UrlsKnown(f)'
      BY <1>1, <2>1, KnownStep
    <3> QED
      BY <3>1
  <2>3. ASSUME NEW q \in CodeRepos, NEW r \in CodeRepos, q # r
        PROVE  UrlsApart(CodeRepo(t, q), CodeRepo(t, r))'
    <3> PICK f, g : f = CodeRepo(t, q) /\ g = CodeRepo(t, r)
      OBVIOUS
    <3>1. UrlsApart(f, g)'
      BY <1>1, <2>1, <2>3, ApartStep
    <3> QED
      BY <3>1
  <2> QED
    BY <2>2, <2>3
<1> QED
  BY <1>1 DEF UrlsInductive

-----------------------------------------------------------------------------
(* What holds of requests that do not overlap *)

\* The first tree is the root store's, but for the databases no store has.
LEMMA FirstView ==
    ASSUME Init, NEW f \in Followed
    PROVE  View(f, root[f]) = branch[f]
<1>1. f \in Files /\ f[1] # "databases" /\ Initial \in Objects
  BY DEF Followed, Objects
<1>2. Initial # Gone
  BY ResourcesAssumption
<1> QED
  BY <1>1, <1>2 DEF Init, View, FirstTree

\* The invariant on which the two below rest: one request at a time starts from the branch,
\* and the root store has objects of answered requests only.
THEOREM AloneInvariant == Spec => []AloneInductive
<1>1. Init => AloneInductive
  BY ResourcesAssumption DEF Init, AloneInductive, NoChange
<1>2. TypeOK /\ SweepInductive /\ SweepInductive' /\ AloneInductive /\ [Next]_vars => AloneInductive'
  <2>1. ASSUME AloneInductive, UNCHANGED vars PROVE AloneInductive'
    BY <2>1 DEF vars, AloneInductive, OneByOne, Began
  <2> QED
    BY <2>1, AloneStep DEF Next, Step
<1> QED
  BY <1>1, <1>2, TypeCorrect, SweepInvariant, PTL DEF Spec

\* The invariant behind RecordsFollow.
THEOREM FollowInvariant == Spec => []FollowInductive
<1>1. Init => FollowInductive
  <2>1. Init => \A s \in Requests : phase[s] = "idle"
    BY DEF Init
  <2> QED
    BY <2>1, FirstView DEF FollowInductive, Same
<1>2. TypeOK /\ SweepInductive /\ SweepInductive' /\ AloneInductive /\ FollowInductive /\ [Next]_vars
        => FollowInductive'
  <2>1. ASSUME FollowInductive, UNCHANGED vars PROVE FollowInductive'
    BY <2>1 DEF vars, FollowInductive, OneByOne, Began, View, Stored, Merged, Followed
  <2> QED
    BY <2>1, FollowStep DEF Next, Step
<1> QED
  BY <1>1, <1>2, TypeCorrect, SweepInvariant, AloneInvariant, PTL DEF Spec

\* One request at a time and none failing, the root store shows what is on the branch, in
\* every instance: the records a handler makes say what it wrote.
THEOREM RecordsFollow == Spec => []StoreFollowsBranch
<1>1. TypeOK /\ AloneInductive /\ FollowInductive => StoreFollowsBranch
  <2> SUFFICES ASSUME TypeOK, AloneInductive, FollowInductive,
                      OneByOne, \A s \in Began : outcome[s] = "ok", NEW f \in Followed
               PROVE  Same(Shown(root, f), branch[f])
    BY DEF StoreFollowsBranch, Followed
  <2>1. \A s \in Requests : phase[s] \in {"idle", "done"} /\ outcome[s] # "error"
    BY DEF AloneInductive, Began, TypeOK
  <2>2. Same(View(f, root[f]), branch[f])
    BY <2>1 DEF FollowInductive
  <2> QED
    BY <2>2 DEF View, Shown
<1> QED
  BY <1>1, TypeCorrect, AloneInvariant, FollowInvariant, PTL

\* The invariant behind NoUrlTwice.
THEOREM UrlsInvariant == Spec => []UrlsInductive
<1>1. Init => UrlsInductive
  <2> SUFFICES ASSUME Init PROVE UrlsInductive
    OBVIOUS
  <2>1. \A s \in Requests : phase[s] = "idle"
    BY DEF Init
  <2>2. ASSUME NEW t \in Teams, NEW r \in CodeRepos
        PROVE  branch[CodeRepo(t, r)] = Gone \/ Excused(branch[CodeRepo(t, r)])
    <3>1. branch[CodeRepo(t, r)] = Gone \/ branch[CodeRepo(t, r)] = First(CodeRepo(t, r))
      BY RepoFiles DEF Init, FirstTree
    <3>2. First(CodeRepo(t, r)).by = Initial
      BY DEF First, CodeRepo
    <3> QED
      BY <3>1, <3>2 DEF Excused
  <2> QED
    BY <2>1, <2>2 DEF UrlsInductive, UrlsKnown, UrlsApart, Knows, Apart
<1>2. TypeOK /\ SweepInductive /\ SweepInductive' /\ AloneInductive /\ UrlsInductive /\ [Next]_vars
        => UrlsInductive'
  <2>1. ASSUME UrlsInductive, UNCHANGED vars PROVE UrlsInductive'
    BY <2>1 DEF vars, UrlsInductive, UrlsKnown, UrlsApart, Knows, Apart, Excused, Stored, Merged,
                OneByOne, Began
  <2> QED
    BY <2>1, UrlsStep DEF Next, Step
<1> QED
  BY <1>1, <1>2, TypeCorrect, SweepInvariant, AloneInvariant, PTL DEF Spec

\* "Code repository URL already exists": one request at a time, no team has a URL twice, but
\* by an edit, which does not compare, or by a request answered with an error after its
\* push, whose record the root store never got; in every instance.
THEOREM NoUrlTwice == Spec => []UniqueUrls
<1>1. TypeOK /\ UrlsInductive => UniqueUrls
  <2> SUFFICES ASSUME TypeOK, UrlsInductive, OneByOne, NEW t \in Teams,
                      NEW q \in CodeRepos, NEW r \in CodeRepos, q # r,
                      NEW a, a = branch[CodeRepo(t, q)], NEW b, b = branch[CodeRepo(t, r)],
                      a # Gone, b # Gone, a.what = b.what
               PROVE  \E s \in {a.by, b.by} : s \in edited \/ s = Initial \/ outcome[s] = "error"
    BY DEF UniqueUrls
  <2>1. Apart(a, b)
    BY DEF UrlsInductive, UrlsApart
  <2> QED
    BY <2>1 DEF Apart, Excused
<1> QED
  BY <1>1, TypeCorrect, UrlsInvariant, PTL
=============================================================================
