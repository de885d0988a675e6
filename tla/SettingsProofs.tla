---------------------------- MODULE SettingsProofs ----------------------------
(***************************************************************************)
(* Proofs about Settings: the inductive invariant, and from it that no      *)
(* secret stays readable and none is sealed twice without a race, that the  *)
(* types are right, and that an edit changes its setting only.              *)
(*                                                                         *)
(* What the operators on trees preserve comes first; then a step is looked  *)
(* at as what it does to the four kinds of trees there are.                 *)
(***************************************************************************)
EXTENDS Settings, TLAPS

\* A tree is made of settings files and sealed secrets.
LEMMA MakeTree ==
    ASSUME NEW F \in [Ids -> Setting], NEW S \in [Ids -> Secret],
           \A i \in Ids \ SecretIds : F[i].secret = None /\ S[i] = None
    PROVE  /\ [file |-> F, sealed |-> S] \in Tree
           /\ [file |-> F, sealed |-> S].file = F
           /\ [file |-> F, sealed |-> S].sealed = S
    BY DEF Tree

\* A value is encrypted one more time than before.
LEMMA EncryptValue ==
    ASSUME NEW w \in Writers, NEW v \in Value
    PROVE  /\ Encrypt(w, v) \in Value
           /\ Encrypt(w, v).by = w
           /\ Encrypt(w, v).depth = v.depth + 1
           /\ Encrypt(w, v).depth > 0
    BY DEF Encrypt, Value

\* A readable value is a value, and not the absence of one.
LEMMA PlainValue ==
    ASSUME NEW w \in Writers
    PROVE  Plain(w) \in Value /\ Plain(w).depth = 0
    BY DEF Plain, Value

\* What is not a ciphertext is original.
LEMMA OriginalValue ==
    ASSUME NEW i
    PROVE  /\ Original(None, i) /\ Original(FirstTree.sealed[i], i)
           /\ \A w \in Writers : Original(Plain(w), i)
    BY PlainValue DEF Original, IsCipher

\* What was safe stays so when more requests have changed something.
LEMMA SafeGrows ==
    ASSUME NEW t, NEW A, NEW B, \A i \in Ids : A[i] \subseteq B[i], Safe(t, A)
    PROVE  Safe(t, B)
    BY DEF Safe, SealedAgain

\* Reading settings merges sealed values in, adds something to otomi, and changes no
\* other attribute (getSettings).
LEMMA MergedTree ==
    ASSUME NEW t \in Tree, NEW K \in SUBSET Ids
    PROVE  /\ Merged(t, K) \in Tree
           /\ Merged(t, K).sealed = t.sealed
           /\ \A i \in Ids : /\ Merged(t, K).file[i].plain = t.file[i].plain
                             /\ t.file[i].extra \subseteq Merged(t, K).file[i].extra
           /\ \A i \in Ids : OriginalIn(t, i) => OriginalIn(Merged(t, K), i)
           /\ \A A : Safe(t, A) => Safe(Merged(t, K), A)
  <1> DEFINE extra(i) == IF i = Otomi THEN t.file[i].extra \cup Adding(K)
                                      ELSE t.file[i].extra
             secret(i) == IF i \in Keyed(K) \cap SecretIds /\ t.sealed[i] # None
                          THEN t.sealed[i] ELSE t.file[i].secret
             new(i) == [t.file[i] EXCEPT !.extra = extra(i), !.secret = secret(i)]
             F == [i \in Ids |-> new(i)]
  <1>1. t.file \in [Ids -> Setting] /\ t.sealed \in [Ids -> Secret]
    BY DEF Tree
  <1>2. Merged(t, K) = [file |-> F, sealed |-> t.sealed]
    <2>1. Merged(t, K) = [t EXCEPT !.file = F]
      BY Zenon DEF Merged
    <2> HIDE DEF F
    <2> QED BY <2>1 DEF Tree
  <1>3. Adding(K) \subseteq Added
    BY DEF Adding, Added
  <1>4. \A i \in Ids : /\ new(i) \in Setting
                       /\ new(i).plain = t.file[i].plain
                       /\ new(i).extra = extra(i)
                       /\ new(i).secret = secret(i)
    BY <1>1, <1>3 DEF Setting
  <1>5. \A i \in Ids : \/ secret(i) = t.file[i].secret
                       \/ i \in SecretIds /\ t.sealed[i] # None /\ secret(i) = t.sealed[i]
    OBVIOUS
  <1>6. \A i \in Ids : t.file[i].extra \subseteq extra(i) /\ (i # Otomi => extra(i) = t.file[i].extra)
    OBVIOUS
  <1> HIDE DEF extra, secret, new
  <1>7. Merged(t, K) \in Tree /\ Merged(t, K).sealed = t.sealed
        /\ \A i \in Ids : Merged(t, K).file[i] = new(i)
    <2>1. F \in [Ids -> Setting] /\ \A i \in Ids : F[i] = new(i)
      BY <1>4
    <2>2. \A i \in Ids \ SecretIds : F[i].secret = None /\ t.sealed[i] = None
      BY <1>4, <1>5 DEF Tree
    <2> HIDE DEF F
    <2> QED BY <1>1, <1>2, <2>1, <2>2, MakeTree
  <1>8. ASSUME NEW i \in Ids, OriginalIn(t, i)
        PROVE  OriginalIn(Merged(t, K), i)
    BY <1>4, <1>5, <1>7, <1>8, OriginalValue DEF OriginalIn
  <1>9. ASSUME NEW A, Safe(t, A)
        PROVE  Safe(Merged(t, K), A)
    <2>1. \A i \in Ids : t.sealed[i] # None => t.sealed[i].depth > 0
      BY <1>9 DEF Safe
    <2>2. \A i \in Ids : IsPlain(secret(i)) => IsPlain(t.file[i].secret)
      BY <1>1, <1>5, <2>1 DEF IsPlain, Secret, Value
    <2> QED BY <1>4, <1>6, <1>7, <1>9, <2>2 DEF Safe
  <1> QED BY <1>4, <1>6, <1>7, <1>8, <1>9

\* Loading the branch adds legacy secrets to the settings that have some.
LEMMA LoadedTree ==
    ASSUME NEW t \in Tree
    PROVE  /\ Loaded(t) \in Tree
           /\ \A i \in Ids : OriginalIn(t, i) => OriginalIn(Loaded(t), i)
           /\ \A A : Safe(t, A) => Safe(Loaded(t), A)
  <1> DEFINE new(i) == IF i \in Legacy THEN [t.file[i] EXCEPT !.secret = Plain(Initial)]
                                       ELSE t.file[i]
             F == [i \in Ids |-> new(i)]
  <1>1. t.file \in [Ids -> Setting] /\ t.sealed \in [Ids -> Secret]
    BY DEF Tree
  <1>2. Loaded(t) = [file |-> F, sealed |-> t.sealed]
    BY DEF Loaded, Tree
  <1>3. \A i \in Ids : /\ new(i) \in Setting
                       /\ i \notin Legacy => new(i) = t.file[i]
                       /\ i \in Legacy => new(i).secret = Plain(Initial)
                       /\ new(i).extra = t.file[i].extra
    BY <1>1, PlainValue DEF Setting, Secret, Writers
  <1> HIDE DEF new
  <1>4. Loaded(t) \in Tree /\ Loaded(t).sealed = t.sealed
        /\ \A i \in Ids : Loaded(t).file[i] = new(i)
    <2>1. F \in [Ids -> Setting] /\ \A i \in Ids : F[i] = new(i)
      BY <1>3
    <2>2. \A i \in Ids \ SecretIds : F[i].secret = None /\ t.sealed[i] = None
      BY <1>3, SettingsAssumption DEF Tree
    <2> HIDE DEF F
    <2> QED BY <1>1, <1>2, <2>1, <2>2, MakeTree
  <1>5. ASSUME NEW i \in Ids, OriginalIn(t, i)
        PROVE  OriginalIn(Loaded(t), i)
    BY <1>3, <1>4, <1>5, OriginalValue DEF OriginalIn, Writers
  <1>6. ASSUME NEW A, Safe(t, A)
        PROVE  Safe(Loaded(t), A)
    BY <1>3, <1>4, <1>6 DEF Safe
  <1> QED BY <1>4, <1>5, <1>6

\* At first the secrets that are sealed are sealed once.
LEMMA FirstTreeSafe ==
    /\ FirstTree \in Tree
    /\ \A i \in Ids : OriginalIn(FirstTree, i)
    /\ \A A : Safe(FirstTree, A)
  <1>1. /\ Initial \in Writers /\ Plain(Initial) \in Value /\ None \notin Writers
        /\ Encrypt(Initial, Plain(Initial)) \in Value
        /\ Encrypt(Initial, Plain(Initial)).depth = 1
    BY PlainValue, EncryptValue, SettingsAssumption DEF Writers
  <1>2. FirstTree \in Tree
    BY <1>1, SettingsAssumption DEF FirstTree, Tree, Setting, Secret
  <1>3. \A i \in Ids : FirstTree.file[i].secret = None /\ FirstTree.file[i].extra = {}
    BY DEF FirstTree
  <1>4. \A i \in Ids : FirstTree.sealed[i] # None => FirstTree.sealed[i].depth = 1
    BY <1>1 DEF FirstTree
  <1>5. \A i \in Ids : OriginalIn(FirstTree, i)
    BY <1>3, OriginalValue DEF OriginalIn
  <1>6. ASSUME NEW A PROVE Safe(FirstTree, A)
    <2>1. \A i \in Ids : ~SealedAgain(FirstTree.sealed[i], A[i])
      <3> SUFFICES ASSUME NEW i \in Ids PROVE ~SealedAgain(FirstTree.sealed[i], A[i])
        OBVIOUS
      <3>1. FirstTree.sealed[i] # None => ~(FirstTree.sealed[i].depth > 1)
        BY <1>4
      <3> QED BY <3>1 DEF SealedAgain
    <2>2. \A i \in Ids : FirstTree.sealed[i] # None => FirstTree.sealed[i].depth > 0
      BY <1>4
    <2> QED BY <1>3, <2>1, <2>2 DEF Safe, IsPlain
  <1> QED BY <1>2, <1>5, <1>6

LEMMA InitInductive == Init => Inductive
  <1> SUFFICES ASSUME Init PROVE Inductive
    OBVIOUS
  <1>1. FirstTree \in Tree /\ Loaded(FirstTree) \in Tree
    BY FirstTreeSafe, LoadedTree
  <1>2. TypeOK
    BY <1>1 DEF Init, TypeOK, Phases, NoTarget, Secret
  <1>3. /\ Safe(branch, changed) /\ Safe(root, changed)
        /\ \A r \in Requests : Safe(start[r], changed) /\ Safe(work[r], changed)
    BY FirstTreeSafe, LoadedTree DEF Init
  <1>4. \A r \in Requests : phase[r] = "idle"
    BY DEF Init
  <1>5. ASSUME NEW i \in Ids
        PROVE  OriginalEverywhere(i)
    <2>1. OriginalIn(FirstTree, i) /\ OriginalIn(Loaded(FirstTree), i)
      BY FirstTreeSafe, LoadedTree
    <2>2. \A r \in Requests : start[r] = FirstTree /\ work[r] = FirstTree /\ seen[r][i] = None
      BY DEF Init
    <2>3. branch = FirstTree /\ root = Loaded(FirstTree)
      BY DEF Init
    <2> QED BY <1>4, <2>1, <2>2, <2>3, OriginalValue DEF OriginalEverywhere, OriginalIn
  <1>6. \A r \in Requests, i \in Ids : r \notin changed[i]
    BY DEF Init
  <1> QED BY <1>2, <1>3, <1>4, <1>5, <1>6 DEF Inductive

-----------------------------------------------------------------------------
\* A step that changes the root store only, to something safe.
LEMMA RootStep ==
    ASSUME Inductive, root' \in Tree, Safe(root', changed),
           \A i \in Ids : changed[i] = {} => OriginalIn(root', i),
           phase' \in [Requests \cup Others -> Phases],
           seen' \in [Requests -> [Ids -> Secret]],
           \A i \in Ids, r \in Requests : changed[i] = {} => Original(seen'[r][i], i),
           \A r \in Requests : /\ phase'[r] \in {"save", "set"} => phase[r] = phase'[r]
                               /\ phase'[r] \notin {"set", "done"} => phase[r] \notin {"set", "done"},
           UNCHANGED <<branch, start, work, target, stale, changed>>
    PROVE  Inductive'
  <1>1. TypeOK'
    BY DEF Inductive, TypeOK
  <1>2. ASSUME NEW r \in Requests, phase'[r] = "save", r \notin stale'
        PROVE  Narrow(r)'
    <2>1. phase[r] = "save"
      BY <1>2
    <2> QED BY <1>2, <2>1 DEF Inductive, Narrow
  <1>3. /\ Safe(branch, changed)' /\ Safe(root, changed)'
        /\ \A r \in Requests : Safe(start[r], changed)' /\ Safe(work[r], changed)'
    BY DEF Inductive
  <1>4. \A r \in Requests : phase'[r] \notin {"set", "done"} => \A i \in Ids : r \notin changed'[i]
    BY DEF Inductive
  <1>5. ASSUME NEW i \in Ids, changed'[i] = {}
        PROVE  OriginalEverywhere(i)'
    BY <1>5 DEF Inductive, OriginalEverywhere, OriginalIn
  <1> QED BY <1>1, <1>2, <1>3, <1>4, <1>5 DEF Inductive

\* While nobody has changed it, what the root store shows of a secret is original.
LEMMA RootOriginal ==
    ASSUME Inductive, NEW i \in Ids, changed[i] = {}
    PROVE  /\ OriginalIn(branch, i) /\ OriginalIn(root, i)
           /\ \A r \in Requests : Original(seen[r][i], i)
    BY DEF Inductive, OriginalEverywhere

LEMMA GetSettingsInductive ==
    ASSUME Inductive, NEW K \in SUBSET Ids, GetSettings(K)
    PROVE  Inductive'
    BY MergedTree, RootOriginal, RootStep DEF GetSettings, Inductive, TypeOK

LEMMA ReloadInductive == Inductive /\ Reload => Inductive'
    BY LoadedTree, RootOriginal, RootStep DEF Reload, Inductive, TypeOK

LEMMA FetchInductive ==
    ASSUME Inductive, NEW r \in Requests, Fetch(r)
    PROVE  Inductive'
  <1>1. /\ root' \in Tree /\ Safe(root', changed)
        /\ \A i \in Ids : changed[i] = {} => OriginalIn(root', i)
    BY MergedTree, RootOriginal DEF Fetch, Inductive, TypeOK
  <1>2. \A i \in Ids : root'.file[i].secret \in Secret
    BY <1>1 DEF Tree, Setting
  <1>3. seen' = [seen EXCEPT ![r] = [i \in Ids |-> root'.file[i].secret]]
        /\ seen \in [Requests -> [Ids -> Secret]]
    BY DEF Fetch, Inductive, TypeOK
  <1>4. seen' \in [Requests -> [Ids -> Secret]]
    BY <1>2, <1>3
  <1>5. \A i \in Ids, q \in Requests : changed[i] = {} => Original(seen'[q][i], i)
    BY <1>1, <1>3, RootOriginal DEF OriginalIn
  <1>6. /\ phase' \in [Requests \cup Others -> Phases]
        /\ \A q \in Requests : /\ phase'[q] \in {"save", "set"} => phase[q] = phase'[q]
                               /\ phase'[q] \notin {"set", "done"} => phase[q] \notin {"set", "done"}
    BY DEF Fetch, Goto, Phases, Inductive, TypeOK
  <1> QED BY <1>1, <1>4, <1>5, <1>6, RootStep DEF Fetch

LEMMA BeginInductive ==
    ASSUME Inductive, NEW r \in Requests, Begin(r)
    PROVE  Inductive'
  <1>1. /\ phase' \in [Requests \cup Others -> Phases]
        /\ \A q \in Requests : /\ phase'[q] \in {"save", "set"} => phase[q] = phase'[q] /\ q # r
                               /\ phase'[q] \notin {"set", "done"} => phase[q] \notin {"set", "done"}
    BY DEF Begin, Goto, Phases, Inductive, TypeOK
  <1>2. TypeOK'
    BY <1>1 DEF Begin, Inductive, TypeOK
  <1>3. \A q \in Requests : start'[q] = IF q = r THEN branch ELSE start[q]
    BY DEF Begin, Inductive, TypeOK
  <1>4. /\ Safe(branch, changed)' /\ Safe(root, changed)'
        /\ \A q \in Requests : Safe(start[q], changed)' /\ Safe(work[q], changed)'
    BY <1>3 DEF Begin, Inductive
  <1>5. ASSUME NEW q \in Requests, phase'[q] = "save", q \notin stale'
        PROVE  Narrow(q)'
    <2>1. phase[q] = "save" /\ q # r /\ q \notin stale
      BY <1>1, <1>5 DEF Begin
    <2>2. start'[q] = start[q] /\ work' = work /\ target' = target
      BY <2>1, <1>3 DEF Begin
    <2>3. Narrow(q)
      BY <2>1 DEF Inductive
    <2> QED BY <2>2, <2>3 DEF Narrow
  <1>6. ASSUME NEW i \in Ids, changed'[i] = {}
        PROVE  OriginalEverywhere(i)'
    <2>1. OriginalEverywhere(i)
      BY <1>6 DEF Begin, Inductive
    <2>2. \A q \in Requests : OriginalIn(start'[q], i)
      BY <1>3, <2>1 DEF OriginalEverywhere
    <2> QED BY <1>1, <2>1, <2>2 DEF Begin, OriginalEverywhere, OriginalIn
  <1>7. \A q \in Requests : phase'[q] \notin {"set", "done"} => \A i \in Ids : q \notin changed'[i]
    BY <1>1 DEF Begin, Inductive
  <1> QED BY <1>2, <1>4, <1>5, <1>6, <1>7 DEF Inductive

\* Failing, or finishing without the root store, changes no tree.
LEMMA EndInductive ==
    ASSUME Inductive, NEW r \in Requests, Fail(r) \/ SetRootFails(r)
    PROVE  Inductive'
  <1>1. /\ phase' \in [Requests \cup Others -> Phases]
        /\ \A q \in Requests : /\ phase'[q] \in {"save", "set"} => phase[q] = phase'[q]
                               /\ phase'[q] \notin {"set", "done"} => phase[q] \notin {"set", "done"}
    BY DEF Fail, SetRootFails, Goto, Phases, Inductive, TypeOK
  <1> QED BY <1>1, RootOriginal, RootStep DEF Fail, SetRootFails, Inductive, TypeOK

-----------------------------------------------------------------------------
\* Writing a worktree that is safe, and narrow if the request's store was not stale.
LEMMA WriteStep ==
    ASSUME Inductive, NEW r \in Requests, NEW W \in Tree, NEW T,
           T \in SUBSET ({"file", "sealed"} \X Ids),
           phase[r] = "handle",
           Safe(W, changed), work' = [work EXCEPT ![r] = W],
           target' = [target EXCEPT ![r] = T],
           root' \in Tree, Safe(root', changed),
           \A i \in Ids : changed[i] = {} => /\ OriginalIn(root', i)
                                             /\ Original(W.file[i].secret, i),
           stale' \in SUBSET Requests, stale \subseteq stale',
           r \notin stale' =>
             \A i \in Ids :
               /\ <<"file", i>> \notin T =>
                    /\ W.file[i].plain = start[r].file[i].plain
                    /\ start[r].file[i].extra \subseteq W.file[i].extra
               /\ <<"sealed", i>> \notin T => W.sealed[i] = start[r].sealed[i],
           Goto(r, "save"), UNCHANGED <<branch, start, seen, changed>>
    PROVE  Inductive'
  <1>1. TypeOK'
    BY DEF Inductive, TypeOK, Goto, Phases
  <1>2. /\ \A q \in Requests : q # r => /\ work'[q] = work[q] /\ target'[q] = target[q]
                                       /\ phase'[q] = phase[q]
        /\ work'[r] = W /\ target'[r] = T /\ phase'[r] = "save"
    BY SettingsAssumption DEF Inductive, TypeOK, Goto
  <1>3. /\ Safe(branch', changed') /\ Safe(root', changed')
        /\ \A q \in Requests : Safe(start'[q], changed') /\ Safe(work'[q], changed')
    BY <1>2 DEF Inductive
  <1>4. ASSUME NEW q \in Requests, phase'[q] = "save", q \notin stale'
        PROVE  Narrow(q)'
    <2>1. CASE q = r
      <3>1. start'[r] = start[r] /\ work'[r] = W /\ target'[r] = T /\ r \notin stale'
        BY <1>2, <1>4, <2>1
      <3>2. \A i \in Ids :
              /\ <<"file", i>> \notin T =>
                   /\ W.file[i].plain = start[r].file[i].plain
                   /\ start[r].file[i].extra \subseteq W.file[i].extra
              /\ <<"sealed", i>> \notin T => W.sealed[i] = start[r].sealed[i]
        BY <3>1
      <3> QED BY <2>1, <3>1, <3>2, Zenon DEF Narrow
    <2>2. CASE q # r
      <3>1. phase[q] = "save" /\ q \notin stale
        BY <1>2, <1>4, <2>2
      <3>2. Narrow(q)
        BY <3>1 DEF Inductive
      <3>3. start'[q] = start[q] /\ work'[q] = work[q] /\ target'[q] = target[q]
        BY <1>2, <2>2
      <3> QED BY <3>2, <3>3 DEF Narrow
    <2> QED BY <2>1, <2>2
  <1>5. ASSUME NEW i \in Ids, changed'[i] = {}
        PROVE  OriginalEverywhere(i)'
    <2>1. OriginalEverywhere(i) /\ OriginalIn(root', i) /\ Original(W.file[i].secret, i)
      BY <1>5 DEF Inductive
    <2>2. \A q \in Requests : /\ Original(work'[q].file[i].secret, i)
                              /\ phase'[q] = "set" => work'[q].sealed[i] = FirstTree.sealed[i]
      BY <1>2, <2>1 DEF OriginalEverywhere
    <2> QED BY <2>1, <2>2 DEF OriginalEverywhere, OriginalIn
  <1>6. \A q \in Requests : phase'[q] \notin {"set", "done"} => \A i \in Ids : q \notin changed'[i]
    BY <1>2 DEF Inductive
  <1> QED BY <1>1, <1>3, <1>4, <1>5, <1>6 DEF Inductive

\* What editSettings seals when the client sends v: it is new, or what is sealed already,
\* or it shows that another request has changed the secret.
LEMMA SealingSafe ==
    ASSUME NEW r \in Requests, NEW i, NEW v \in Secret, NEW old \in Secret, NEW who,
           old # None => old.depth > 0, ~SealedAgain(old, who), r \notin who,
           who = {} => old = FirstTree.sealed[i] /\ Original(v, i)
    PROVE  LET new == Sealing(r, v, old)
           IN  /\ new \in Secret
               /\ new # None => new.depth > 0
               /\ ~SealedAgain(new, who)
               /\ v = None => new = old
               /\ v = None /\ old = None => new = None
  <1>1. CASE v = None \/ v = old
    BY <1>1 DEF Sealing
  <1>2. CASE v # None /\ v # old
    <2>1. v \in Value /\ v.depth \in Nat /\ r \in Writers
      BY <1>2 DEF Secret, Value, Writers
    <2>2. Sealing(r, v, old) = Encrypt(r, v)
      BY <1>2 DEF Sealing
    <2>3. /\ Encrypt(r, v) \in Secret /\ Encrypt(r, v).by = r
          /\ Encrypt(r, v).depth = v.depth + 1 /\ Encrypt(r, v).depth > 0
      BY <2>1, EncryptValue DEF Secret
    <2>4. Encrypt(r, v).depth > 1 => IsCipher(v)
      BY <1>2, <2>1, <2>3 DEF IsCipher
    <2>5. IsCipher(v) => who # {}
      BY <1>2 DEF Original
    <2>6. ~SealedAgain(Encrypt(r, v), who)
      BY <2>3, <2>4, <2>5 DEF SealedAgain
    <2> QED BY <1>2, <2>2, <2>3, <2>6
  <1> QED BY <1>1, <1>2

LEMMA EditInductive ==
    ASSUME Inductive, NEW r \in Requests, NEW i \in Ids, NEW v \in Secret,
           i \in SecretIds \/ v = None, changed[i] = {} => Original(v, i), Edit(r, i, v)
    PROVE  Inductive'
  <1> DEFINE all == Merged(root, {})
             new == [plain |-> r, extra |-> {}, secret |-> None]
             old == start[r].sealed[i]
             F == [all.file EXCEPT ![i] = new]
             S == [start[r].sealed EXCEPT ![i] = Sealing(r, v, old)]
             T == {<<"file", i>>} \cup (IF v = None THEN {} ELSE {<<"sealed", i>>})
  <1>1. /\ root \in Tree /\ start[r] \in Tree /\ stale \in SUBSET Requests
        /\ Safe(root, changed) /\ Safe(start[r], changed)
    BY DEF Inductive, TypeOK
  <1>2. /\ all \in Tree /\ Safe(all, changed) /\ all.file \in [Ids -> Setting]
        /\ \A j \in Ids : changed[j] = {} => OriginalIn(all, j)
        /\ \A j \in Ids \ SecretIds : all.file[j].secret = None
    BY <1>1, MergedTree, RootOriginal DEF Tree
  <1>3. /\ start[r].sealed \in [Ids -> Secret] /\ old \in Secret
        /\ \A j \in Ids \ SecretIds : start[r].sealed[j] = None
    BY <1>1 DEF Tree
  <1>4. phase[r] = "handle" /\ \A j \in Ids : r \notin changed[j]
    BY DEF Inductive, Edit, EditWith
  <1>5. /\ Sealing(r, v, old) \in Secret
        /\ Sealing(r, v, old) # None => Sealing(r, v, old).depth > 0
        /\ ~SealedAgain(Sealing(r, v, old), changed[i])
        /\ v = None => Sealing(r, v, old) = old
        /\ v = None /\ old = None => Sealing(r, v, old) = None
    <2>1. /\ old # None => old.depth > 0
          /\ ~SealedAgain(old, changed[i]) /\ r \notin changed[i]
      BY <1>1, <1>4 DEF Safe
    <2>2. changed[i] = {} => old = FirstTree.sealed[i] /\ Original(v, i)
      BY DEF Inductive, OriginalEverywhere, OriginalIn
    <2> QED BY <1>3, <2>1, <2>2, SealingSafe
  <1>6. /\ F \in [Ids -> Setting] /\ S \in [Ids -> Secret]
        /\ F[i] = new /\ S[i] = Sealing(r, v, old)
        /\ \A j \in Ids : j # i => F[j] = all.file[j] /\ S[j] = start[r].sealed[j]
    BY <1>2, <1>3, <1>5 DEF Setting, Secret, Writers
  <1>7. \A j \in Ids \ SecretIds : F[j].secret = None /\ S[j] = None
    BY <1>2, <1>3, <1>5, <1>6
  <1> DEFINE W == [file |-> F, sealed |-> S]
  <1>8. W \in Tree /\ W.file = F /\ W.sealed = S
    <2> HIDE DEF F, S
    <2> QED BY <1>6, <1>7, MakeTree
  <1>9. Safe(W, changed)
    <2>1. \A j \in Ids : /\ IsPlain(F[j].secret) => j \in Legacy
                         /\ j # Otomi => F[j].extra = {}
      BY <1>2, <1>6 DEF Safe, IsPlain
    <2>2. \A j \in Ids : S[j] # None => S[j].depth > 0
      BY <1>1, <1>5, <1>6 DEF Safe
    <2>3. \A j \in Ids : ~SealedAgain(S[j], changed[j])
      BY <1>1, <1>5, <1>6 DEF Safe
    <2> HIDE DEF F, S
    <2> QED BY <2>1, <2>2, <2>3, <1>8 DEF Safe
  <1>10. \A j \in Ids : changed[j] = {} => Original(W.file[j].secret, j)
    BY <1>2, <1>6, <1>8, OriginalValue DEF OriginalIn
  <1>11. /\ work' = [work EXCEPT ![r] = W] /\ target' = [target EXCEPT ![r] = T]
         /\ root' = all /\ Goto(r, "save")
         /\ UNCHANGED <<branch, start, seen, changed>>
         /\ stale' = IF \A j \in Ids : /\ all.file[j].plain = start[r].file[j].plain
                                       /\ start[r].file[j].extra \subseteq all.file[j].extra
                     THEN stale ELSE stale \cup {r}
    BY DEF Edit, EditWith
  <1>12. T \in SUBSET ({"file", "sealed"} \X Ids)
    OBVIOUS
  <1>13. stale' \in SUBSET Requests /\ stale \subseteq stale'
    BY <1>1, <1>11
  <1>14. r \notin stale' =>
           \A j \in Ids :
             /\ <<"file", j>> \notin T => /\ W.file[j].plain = start[r].file[j].plain
                                          /\ start[r].file[j].extra \subseteq W.file[j].extra
             /\ <<"sealed", j>> \notin T => W.sealed[j] = start[r].sealed[j]
    <2> SUFFICES ASSUME r \notin stale', NEW j \in Ids
                 PROVE  /\ <<"file", j>> \notin T =>
                             /\ W.file[j].plain = start[r].file[j].plain
                             /\ start[r].file[j].extra \subseteq W.file[j].extra
                        /\ <<"sealed", j>> \notin T => W.sealed[j] = start[r].sealed[j]
      OBVIOUS
    <2>1. /\ all.file[j].plain = start[r].file[j].plain
          /\ start[r].file[j].extra \subseteq all.file[j].extra
      BY <1>11
    <2>2. CASE j = i
      <3>1. <<"file", j>> \in T /\ (<<"sealed", j>> \notin T => v = None)
        BY <2>2
      <3>2. v = None => S[j] = start[r].sealed[j]
        BY <1>5, <1>6, <2>2
      <3> QED BY <1>8, <3>1, <3>2
    <2>3. CASE j # i
      BY <1>6, <1>8, <2>1, <2>3
    <2> QED BY <2>2, <2>3
  <1> HIDE DEF W, T, all
  <1> QED BY <1>2, <1>4, <1>8, <1>9, <1>10, <1>11, <1>12, <1>13, <1>14, WriteStep

\* The handlers of namespace secrets write one manifest, encrypted or none.
LEMMA WriteSealedInductive ==
    ASSUME Inductive, NEW r \in Requests, NEW i \in SecretIds,
           NEW v \in {None, Encrypt(r, Plain(r))}, WriteSealed(r, i, v)
    PROVE  Inductive'
  <1> DEFINE S == [start[r].sealed EXCEPT ![i] = v]
             W == [file |-> start[r].file, sealed |-> S]
             T == {<<"sealed", i>>}
  <1>1. /\ start[r] \in Tree /\ root \in Tree /\ stale \in SUBSET Requests
        /\ Safe(start[r], changed) /\ Safe(root, changed)
    BY DEF Inductive, TypeOK
  <1>2. /\ start[r].file \in [Ids -> Setting] /\ start[r].sealed \in [Ids -> Secret]
        /\ start[r] = [file |-> start[r].file, sealed |-> start[r].sealed]
        /\ \A j \in Ids \ SecretIds : start[r].file[j].secret = None
                                      /\ start[r].sealed[j] = None
        /\ i \in Ids
    BY <1>1, SettingsAssumption DEF Tree
  <1>3. r \in Writers /\ Plain(r) \in Value /\ Plain(r).depth = 0
    BY PlainValue DEF Writers
  <1>4. v \in Secret /\ (v # None => v.depth = 1)
    BY <1>3, EncryptValue DEF Secret
  <1>5. /\ S \in [Ids -> Secret] /\ S[i] = v
        /\ \A j \in Ids : j # i => S[j] = start[r].sealed[j]
    BY <1>2, <1>4
  <1>6. W \in Tree /\ W.file = start[r].file /\ W.sealed = S
    <2>1. \A j \in Ids \ SecretIds : start[r].file[j].secret = None /\ S[j] = None
      BY <1>2, <1>5
    <2> HIDE DEF S
    <2> QED BY <1>2, <1>5, <2>1, MakeTree
  <1>7. Safe(W, changed)
    <2>1. v # None => v.depth > 0 /\ ~(v.depth > 1)
      BY <1>4
    <2>2. ~SealedAgain(v, changed[i])
      BY <2>1 DEF SealedAgain
    <2>3. \A j \in Ids : /\ S[j] # None => S[j].depth > 0
                         /\ ~SealedAgain(S[j], changed[j])
      BY <1>1, <1>5, <2>1, <2>2 DEF Safe
    <2>4. \A j \in Ids : /\ IsPlain(start[r].file[j].secret) => j \in Legacy
                         /\ j # Otomi => start[r].file[j].extra = {}
      BY <1>1 DEF Safe
    <2> HIDE DEF S
    <2> QED BY <1>6, <2>3, <2>4 DEF Safe
  <1>8. /\ work' = [work EXCEPT ![r] = W] /\ target' = [target EXCEPT ![r] = T]
        /\ Goto(r, "save") /\ UNCHANGED <<branch, root, start, seen, stale, changed>>
        /\ phase[r] = "handle"
    <2>1. [start[r] EXCEPT !.sealed[i] = v] = W
      BY <1>2
    <2> QED BY <2>1 DEF WriteSealed
  <1>9. T \in SUBSET ({"file", "sealed"} \X Ids)
    BY <1>2
  <1>10. \A j \in Ids :
           /\ <<"file", j>> \notin T => /\ W.file[j].plain = start[r].file[j].plain
                                        /\ start[r].file[j].extra \subseteq W.file[j].extra
           /\ <<"sealed", j>> \notin T => W.sealed[j] = start[r].sealed[j]
    BY <1>5, <1>6
  <1>11. \A j \in Ids : changed[j] = {} => OriginalIn(root, j) /\ Original(W.file[j].secret, j)
    BY <1>6 DEF Inductive, OriginalEverywhere, OriginalIn
  <1> HIDE DEF W, T
  <1> QED BY <1>1, <1>6, <1>7, <1>8, <1>9, <1>10, <1>11, WriteStep

\* Files of two safe trees make a safe tree, which is original where both are.
LEMMA MixedTree ==
    ASSUME NEW P \in Tree, NEW Q \in Tree, NEW A, Safe(P, A), Safe(Q, A),
           NEW F, NEW S,
           F = [i \in Ids |-> F[i]], S = [i \in Ids |-> S[i]],
           \A i \in Ids : /\ F[i] \in {P.file[i], Q.file[i]}
                          /\ S[i] \in {P.sealed[i], Q.sealed[i]}
    PROVE  LET M == [file |-> F, sealed |-> S]
           IN  /\ M \in Tree /\ Safe(M, A)
               /\ \A i \in Ids : OriginalIn(P, i) /\ OriginalIn(Q, i) => OriginalIn(M, i)
  <1>1. /\ P.file \in [Ids -> Setting] /\ P.sealed \in [Ids -> Secret]
        /\ Q.file \in [Ids -> Setting] /\ Q.sealed \in [Ids -> Secret]
        /\ \A i \in Ids \ SecretIds : /\ P.file[i].secret = None /\ P.sealed[i] = None
                                      /\ Q.file[i].secret = None /\ Q.sealed[i] = None
    BY DEF Tree
  <1>2. F \in [Ids -> Setting]
    <2>1. \A i \in Ids : F[i] \in Setting
      BY <1>1
    <2> QED BY <2>1
  <1>3. S \in [Ids -> Secret]
    <2>1. \A i \in Ids : S[i] \in Secret
      BY <1>1
    <2> QED BY <2>1
  <1>4. \A i \in Ids \ SecretIds : F[i].secret = None /\ S[i] = None
    <2> SUFFICES ASSUME NEW i \in Ids \ SecretIds PROVE F[i].secret = None /\ S[i] = None
      OBVIOUS
    <2>1. F[i] \in {P.file[i], Q.file[i]} /\ S[i] \in {P.sealed[i], Q.sealed[i]}
      OBVIOUS
    <2> QED BY <1>1, <2>1
  <1>5. Safe([file |-> F, sealed |-> S], A)
    <2> SUFFICES ASSUME NEW i \in Ids
                 PROVE  /\ IsPlain(F[i].secret) => i \in Legacy
                        /\ S[i] # None => S[i].depth > 0
                        /\ ~SealedAgain(S[i], A[i])
                        /\ i # Otomi => F[i].extra = {}
      BY DEF Safe
    <2>1. F[i] \in {P.file[i], Q.file[i]} /\ S[i] \in {P.sealed[i], Q.sealed[i]}
      OBVIOUS
    <2> QED BY <2>1 DEF Safe
  <1>6. ASSUME NEW i \in Ids, OriginalIn(P, i), OriginalIn(Q, i)
        PROVE  OriginalIn([file |-> F, sealed |-> S], i)
    <2>1. F[i] \in {P.file[i], Q.file[i]} /\ S[i] \in {P.sealed[i], Q.sealed[i]}
      OBVIOUS
    <2> QED BY <1>6, <2>1 DEF OriginalIn
  <1> QED BY <1>2, <1>3, <1>4, <1>5, <1>6, MakeTree

LEMMA LandInductive ==
    ASSUME Inductive, NEW r \in Requests, Land(r)
    PROVE  Inductive'
  <1>1. branch \in Tree /\ work[r] \in Tree /\ Safe(branch, changed) /\ Safe(work[r], changed)
    BY DEF Inductive, TypeOK
  <1>2. /\ branch' \in Tree /\ Safe(branch', changed)
        /\ \A i \in Ids : OriginalIn(branch, i) /\ OriginalIn(work[r], i) => OriginalIn(branch', i)
    <2> DEFINE F == Overlay(r, "file")
               S == Overlay(r, "sealed")
    <2>1. /\ F = [i \in Ids |-> F[i]] /\ S = [i \in Ids |-> S[i]]
          /\ \A i \in Ids : /\ F[i] \in {branch["file"][i], work[r]["file"][i]}
                            /\ S[i] \in {branch["sealed"][i], work[r]["sealed"][i]}
      BY DEF Overlay
    <2>2. /\ branch["file"] = branch.file /\ branch["sealed"] = branch.sealed
          /\ work[r]["file"] = work[r].file /\ work[r]["sealed"] = work[r].sealed
      OBVIOUS
    <2>3. branch' = [file |-> F, sealed |-> S]
      BY DEF Land, LandOver
    <2> HIDE DEF F, S
    <2> QED BY <1>1, <2>1, <2>2, <2>3, MixedTree
  <1>3. /\ phase' \in [Requests \cup Others -> Phases]
        /\ phase[r] = "save" /\ phase'[r] = "set"
        /\ \A q \in Requests : q # r => phase'[q] = phase[q]
    BY SettingsAssumption DEF Land, LandOver, Goto, Phases, Inductive, TypeOK
  <1>4. /\ changed' \in [Ids -> SUBSET Requests]
        /\ \A i \in Ids : changed'[i] = IF work[r].sealed[i] # start[r].sealed[i]
                                        THEN changed[i] \cup {r} ELSE changed[i]
    BY DEF Land, LandOver, Inductive, TypeOK
  <1>5. TypeOK'
    BY <1>2, <1>3, <1>4 DEF Land, LandOver, Inductive, TypeOK
  <1>6. ASSUME NEW q \in Requests, phase'[q] = "save", q \notin stale'
        PROVE  Narrow(q)'
    <2>1. phase[q] = "save" /\ q \notin stale
      BY <1>3, <1>6 DEF Land, LandOver
    <2>2. Narrow(q)
      BY <2>1 DEF Inductive
    <2> QED BY <2>2 DEF Land, LandOver, Narrow
  <1>7. /\ Safe(branch, changed)' /\ Safe(root, changed)'
        /\ \A q \in Requests : Safe(start[q], changed)' /\ Safe(work[q], changed)'
    <2>1. \A i \in Ids : changed[i] \subseteq changed'[i]
      BY <1>4
    <2>2. /\ root' = root /\ start' = start /\ work' = work
          /\ Safe(root, changed)
          /\ \A q \in Requests : Safe(start[q], changed) /\ Safe(work[q], changed)
      BY DEF Land, LandOver, Inductive
    <2>3. Safe(branch', changed') /\ Safe(root, changed')
      BY <1>2, <2>1, <2>2, SafeGrows
    <2>4. \A q \in Requests : Safe(start[q], changed') /\ Safe(work[q], changed')
      BY <2>1, <2>2, SafeGrows
    <2> QED BY <2>2, <2>3, <2>4
  <1>8. ASSUME NEW i \in Ids, changed'[i] = {}
        PROVE  OriginalEverywhere(i)'
    <2>1. changed[i] = {} /\ work[r].sealed[i] = start[r].sealed[i]
      BY <1>4, <1>8
    <2>2. OriginalEverywhere(i)
      BY <2>1 DEF Inductive
    <2>3. work[r].sealed[i] = FirstTree.sealed[i] /\ OriginalIn(branch', i)
      BY <1>2, <2>1, <2>2 DEF OriginalEverywhere, OriginalIn
    <2>4. \A q \in Requests : phase'[q] = "set" => work[q].sealed[i] = FirstTree.sealed[i]
      BY <1>3, <2>2, <2>3 DEF OriginalEverywhere
    <2> QED BY <2>2, <2>3, <2>4 DEF Land, LandOver, OriginalEverywhere, OriginalIn
  <1>9. \A q \in Requests : phase'[q] \notin {"set", "done"} => \A i \in Ids : q \notin changed'[i]
    BY <1>3, <1>4 DEF Inductive
  <1> QED BY <1>5, <1>6, <1>7, <1>8, <1>9 DEF Inductive

LEMMA SetRootInductive ==
    ASSUME Inductive, NEW r \in Requests, SetRoot(r)
    PROVE  Inductive'
  <1>1. root \in Tree /\ work[r] \in Tree /\ Safe(root, changed) /\ Safe(work[r], changed)
    BY DEF Inductive, TypeOK
  <1>2. /\ root' \in Tree /\ Safe(root', changed)
        /\ \A i \in Ids : OriginalIn(root, i) /\ OriginalIn(work[r], i) => OriginalIn(root', i)
    <2> DEFINE F == Records(r, "file")
               S == Records(r, "sealed")
    <2>1. /\ F = [i \in Ids |-> F[i]] /\ S = [i \in Ids |-> S[i]]
          /\ \A i \in Ids : /\ F[i] \in {root["file"][i], work[r]["file"][i]}
                            /\ S[i] \in {root["sealed"][i], work[r]["sealed"][i]}
      BY DEF Records
    <2>2. /\ root["file"] = root.file /\ root["sealed"] = root.sealed
          /\ work[r]["file"] = work[r].file /\ work[r]["sealed"] = work[r].sealed
      OBVIOUS
    <2>3. root' = [file |-> F, sealed |-> S]
      BY DEF SetRoot
    <2> HIDE DEF F, S
    <2> QED BY <1>1, <2>1, <2>2, <2>3, MixedTree
  <1>3. /\ phase' \in [Requests \cup Others -> Phases]
        /\ \A q \in Requests : /\ phase'[q] \in {"save", "set"} => phase[q] = phase'[q]
                               /\ phase'[q] \notin {"set", "done"} => phase[q] \notin {"set", "done"}
    BY DEF SetRoot, Goto, Phases, Inductive, TypeOK
  <1>4. ASSUME NEW i \in Ids, changed[i] = {}
        PROVE  OriginalIn(root', i)
    <2>1. OriginalEverywhere(i) /\ phase[r] = "set"
      BY <1>4 DEF Inductive, SetRoot
    <2>2. OriginalIn(root, i) /\ OriginalIn(work[r], i)
      BY <2>1 DEF OriginalEverywhere, OriginalIn
    <2> QED BY <1>2, <2>2
  <1> QED BY <1>2, <1>3, <1>4, RootOriginal, RootStep DEF SetRoot, Inductive, TypeOK

LEMMA OtherCommitInductive ==
    ASSUME Inductive, NEW o \in Others, NEW i \in Ids, OtherCommit(o, i)
    PROVE  Inductive'
  <1>1. branch \in Tree /\ Safe(branch, changed)
    BY DEF Inductive, TypeOK
  <1> DEFINE F == [branch.file EXCEPT ![i].plain = o]
  <1>2. /\ branch.file \in [Ids -> Setting] /\ branch.sealed \in [Ids -> Secret]
        /\ branch = [file |-> branch.file, sealed |-> branch.sealed]
        /\ \A j \in Ids \ SecretIds : branch.file[j].secret = None /\ branch.sealed[j] = None
    BY <1>1 DEF Tree
  <1>3. /\ F \in [Ids -> Setting]
        /\ \A j \in Ids : /\ F[j].secret = branch.file[j].secret
                          /\ F[j].extra = branch.file[j].extra
    BY <1>2 DEF Setting, Writers
  <1>4. branch' = [file |-> F, sealed |-> branch.sealed]
    BY <1>2 DEF OtherCommit
  <1> HIDE DEF F
  <1>5. branch' \in Tree /\ branch'.file = F /\ branch'.sealed = branch.sealed
    BY <1>2, <1>3, <1>4, MakeTree
  <1>6. Safe(branch', changed)
    BY <1>1, <1>3, <1>5 DEF Safe
  <1>7. /\ phase' \in [Requests \cup Others -> Phases]
        /\ \A q \in Requests : phase'[q] = phase[q]
    BY SettingsAssumption DEF OtherCommit, Goto, Phases, Inductive, TypeOK
  <1>8. TypeOK'
    BY <1>5, <1>7 DEF OtherCommit, Inductive, TypeOK
  <1>9. ASSUME NEW q \in Requests, phase'[q] = "save", q \notin stale'
        PROVE  Narrow(q)'
    <2>1. Narrow(q)
      BY <1>7, <1>9 DEF OtherCommit, Inductive
    <2> QED BY <2>1 DEF OtherCommit, Narrow
  <1>10. /\ Safe(branch, changed)' /\ Safe(root, changed)'
         /\ \A q \in Requests : Safe(start[q], changed)' /\ Safe(work[q], changed)'
    BY <1>6 DEF OtherCommit, Inductive
  <1>11. ASSUME NEW j \in Ids, changed'[j] = {}
         PROVE  OriginalEverywhere(j)'
    <2>1. OriginalEverywhere(j)
      BY <1>11 DEF OtherCommit, Inductive
    <2>2. OriginalIn(branch', j)
      BY <1>3, <1>5, <2>1 DEF OriginalEverywhere, OriginalIn
    <2> QED BY <1>7, <2>1, <2>2 DEF OtherCommit, OriginalEverywhere, OriginalIn
  <1>12. \A q \in Requests : phase'[q] \notin {"set", "done"} => \A j \in Ids : q \notin changed'[j]
    BY <1>7 DEF OtherCommit, Inductive
  <1> QED BY <1>8, <1>9, <1>10, <1>11, <1>12 DEF Inductive

-----------------------------------------------------------------------------
LEMMA EditSettingsInductive ==
    ASSUME Inductive, NEW r \in Requests, EditSettings(r)
    PROVE  Inductive'
  <1>1. seen[r] \in [Ids -> Secret] /\ Plain(r) \in Secret
    BY PlainValue DEF Inductive, TypeOK, Writers, Secret
  <1>2. CASE \E i \in Ids : Edit(r, i, None)
    <2>1. PICK i \in Ids : Edit(r, i, None)
      BY <1>2
    <2> QED BY <2>1, OriginalValue, EditInductive DEF Secret
  <1>3. CASE \E i \in SecretIds : \E v \in {Plain(r), seen[r][i]} \ {None} : Edit(r, i, v)
    <2>1. PICK i \in SecretIds : \E v \in {Plain(r), seen[r][i]} \ {None} : Edit(r, i, v)
      BY <1>3
    <2>2. PICK v \in {Plain(r), seen[r][i]} \ {None} : Edit(r, i, v)
      BY <2>1
    <2>3. i \in Ids /\ v \in Secret
      BY <1>1, SettingsAssumption
    <2>4. changed[i] = {} => Original(v, i)
      BY <2>3, OriginalValue, RootOriginal DEF Writers
    <2> QED BY <2>2, <2>3, <2>4, EditInductive
  <1> QED BY <1>2, <1>3 DEF EditSettings

\* What the wizard saves is new, or what the store shows, or nothing.
LEMMA ObjWizardInductive ==
    ASSUME Inductive, NEW r \in Requests, ObjWizard(r)
    PROVE  Inductive'
  <1> DEFINE shown == Merged(root, {Wizard}).file[Wizard].secret
  <1>1. Wizard \in SecretIds /\ Wizard \in Ids /\ root \in Tree
    BY SettingsAssumption DEF Inductive, TypeOK
  <1>2. shown \in Secret
    BY <1>1, MergedTree DEF Tree, Setting
  <1>3. changed[Wizard] = {} => Original(shown, Wizard)
    BY <1>1, MergedTree, RootOriginal DEF OriginalIn
  <1>4. Plain(r) \in Secret /\ Original(Plain(r), Wizard)
    BY PlainValue, OriginalValue DEF Writers, Secret
  <1>5. Edit(r, Wizard, Plain(r)) \/ Edit(r, Wizard, shown)
    BY DEF ObjWizard
  <1> HIDE DEF shown
  <1> QED BY <1>1, <1>2, <1>3, <1>4, <1>5, EditInductive

LEMMA StepInductive ==
    ASSUME Inductive, NEW r \in Requests, Step(r)
    PROVE  Inductive'
  <1>1. ASSUME NEW i \in SecretIds,
               \/ CreateNamespaceSecret(r, i) \/ EditNamespaceSecret(r, i)
               \/ DeleteNamespaceSecret(r, i)
        PROVE  Inductive'
    BY <1>1, WriteSealedInductive
       DEF CreateNamespaceSecret, EditNamespaceSecret, DeleteNamespaceSecret
  <1> QED BY <1>1, FetchInductive, BeginInductive, EditSettingsInductive, ObjWizardInductive,
             EndInductive, LandInductive, SetRootInductive DEF Step

LEMMA NextInductive == Inductive /\ [Next]_vars => Inductive'
  <1> SUFFICES ASSUME Inductive, [Next]_vars PROVE Inductive'
    OBVIOUS
  <1>1. CASE UNCHANGED vars
    BY <1>1 DEF vars, Inductive, TypeOK, Narrow, OriginalEverywhere
  <1>2. CASE Next
    BY <1>2, StepInductive, GetSettingsInductive, ReloadInductive, OtherCommitInductive DEF Next
  <1> QED BY <1>1, <1>2

\* The inductive invariant: all trees, also those requests hold, are safe; a ciphertext
\* that is not the first one shows that somebody has landed a change; and what is
\* committed by a request whose store was not stale is narrow.
THEOREM InductiveInvariant == Spec => []Inductive
    BY InitInductive, NextInductive, PTL DEF Spec

\* All variables keep their types.
THEOREM TypeCorrect == Spec => []TypeOK
    BY InductiveInvariant, PTL DEF Inductive

\* No secret is left readable in a settings file, except one of a legacy file.
THEOREM NoPlaintext == Spec => []PlaintextStaysOut
  <1>1. Inductive => PlaintextStaysOut
    BY DEF Inductive, Safe, PlaintextStaysOut
  <1> QED BY <1>1, InductiveInvariant, PTL

\* No secret is sealed twice, unless another request has landed a change of it.
THEOREM NoDoubleSealing == Spec => []SealedOnce
  <1>1. Inductive => SealedOnce
    BY DEF Inductive, Safe, SealedOnce
  <1> QED BY <1>1, InductiveInvariant, PTL

\* Landing a request changes its setting only, but for what reads have added to otomi.
THEOREM EditsStayLocal == Spec => OnlyItsSetting
  <1>1. ASSUME Inductive, [Next]_vars, NEW r \in Requests, NEW i \in Ids,
               phase[r] = "save", phase'[r] = "set", r \notin stale
        PROVE  Untouched(r, i)
    <2>1. Land(r)
      <3>1. phase \in [Requests \cup Others -> Phases] /\ phase'[r] # phase[r]
        BY <1>1 DEF Inductive, TypeOK
      <3>2. Next
        BY <1>1, <3>1 DEF vars
      <3>3. \A K \in SUBSET Ids : ~GetSettings(K)
        BY <3>1 DEF GetSettings
      <3>4. ~Reload
        BY <3>1 DEF Reload
      <3>5. \A o \in Others, j \in Ids : ~OtherCommit(o, j)
        BY <3>1, SettingsAssumption DEF OtherCommit, Goto
      <3>6. PICK q \in Requests : Step(q)
        BY <3>2, <3>3, <3>4, <3>5 DEF Next
      <3>7. \A p : Goto(q, p) => r = q /\ p = "set"
        BY <3>1, <1>1 DEF Goto
      <3>8. ~Goto(q, "fetched") /\ ~Goto(q, "handle") /\ ~Goto(q, "save") /\ ~Goto(q, "done")
        BY <3>7
      <3>9. ~Fetch(q) /\ ~Begin(q) /\ ~Fail(q) /\ ~SetRoot(q) /\ ~SetRootFails(q)
        BY <3>8 DEF Fetch, Begin, Fail, SetRoot, SetRootFails
      <3>10. \A j, v : ~Edit(q, j, v) /\ ~WriteSealed(q, j, v)
        BY <3>8 DEF Edit, EditWith, WriteSealed
      <3>11. Land(q)
        BY <3>6, <3>9, <3>10 DEF Step, EditSettings, ObjWizard, CreateNamespaceSecret,
           EditNamespaceSecret, DeleteNamespaceSecret
      <3>12. q = r
        BY <3>7, <3>11 DEF Land, LandOver
      <3> QED BY <3>11, <3>12
    <2>2. Narrow(r) /\ Safe(branch, changed) /\ Safe(work[r], changed)
      BY <1>1 DEF Inductive
    <2>3. /\ branch'.file[i] = IF work[r].file[i] # start[r].file[i]
                               THEN work[r].file[i] ELSE branch.file[i]
          /\ branch'.sealed[i] = IF work[r].sealed[i] # start[r].sealed[i]
                                 THEN work[r].sealed[i] ELSE branch.sealed[i]
      BY <2>1 DEF Land, LandOver, Overlay
    <2>4. /\ work[r].file[i] # start[r].file[i] =>
               branch.file[i] \in {start[r].file[i], work[r].file[i]}
          /\ work[r].sealed[i] # start[r].sealed[i] =>
               branch.sealed[i] \in {start[r].sealed[i], work[r].sealed[i]}
      BY <2>1 DEF Land, Unharmed
    <2>5. i # Otomi => branch'.file[i].extra = branch.file[i].extra
      BY <2>2, <2>3 DEF Safe
    <2> QED BY <2>2, <2>3, <2>4, <2>5 DEF Narrow, Untouched
  <1>2. Inductive /\ [Next]_vars =>
          [\A r \in Requests : phase[r] = "save" /\ phase'[r] = "set" /\ r \notin stale =>
             \A i \in Ids : Untouched(r, i)]_vars
    BY <1>1
  <1> QED BY <1>2, InductiveInvariant, PTL DEF Spec, OnlyItsSetting
=============================================================================
