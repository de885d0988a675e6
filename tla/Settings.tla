------------------------------- MODULE Settings -------------------------------
(***************************************************************************)
(* The settings of the platform and the secrets that belong to them.  A    *)
(* setting is a file under env/settings; its secret values are kept out of *)
(* that file, encrypted, in a SealedSecret manifest of namespace           *)
(* apl-secrets.                                                            *)
(*                                                                         *)
(*   src/src/otomi-stack.ts             getSettings, editSettings,         *)
(*                                      saveSettings, namespace secrets    *)
(*   src/src/utils/sealedSecretUtils.ts extraction, merge and encryption   *)
(*   src/src/fileStore/*.ts             load with its legacy secret files  *)
(*                                                                         *)
(* A setting's secrets are one value, its other attributes are the name of *)
(* who wrote them and, apart, those that reading it has added: getSettings *)
(* changes the very objects of the root store, also when a session asks,   *)
(* since the stores share them (GitOps and Resources tell how).            *)
(*                                                                         *)
(* An edit of otomi that brings a git repository and its password also     *)
(* stores them by storeGitConfig: that is a step of GitMigration.          *)
(***************************************************************************)
EXTENDS Naturals

CONSTANTS
    Ids,        \* settings: cluster, dns, otomi, ...
    Otomi,      \* the one called otomi
    SecretIds,  \* those whose schema has x-secret attributes
    Legacy,     \* those with a file secrets.<id>.yaml from before sealed secrets
    Sealed0,    \* those whose secrets are sealed at first
    Wizard,     \* the one the wizard fills in: obj, object storage
    Requests,   \* write requests
    Others,     \* commits pushed by somebody else
    Initial,    \* who wrote what is there at first
    None        \* no secret

Writers == Requests \cup Others \cup {Initial}

ASSUME SettingsAssumption ==
    /\ Legacy \subseteq SecretIds /\ Sealed0 \subseteq SecretIds /\ SecretIds \subseteq Ids
    /\ Wizard \in SecretIds /\ Otomi \in Ids
    /\ Requests \cap Others = {} /\ Initial \notin Requests \cup Others
    /\ None \notin Writers

\* A secret value: who chose or encrypted it, and how often it is encrypted.
Value  == [by : Writers, depth : Nat]
Secret == Value \cup {None}

Plain(w)      == [by |-> w, depth |-> 0]
Encrypt(w, v) == [by |-> w, depth |-> v.depth + 1]

\* A version of everything: the settings files and the sealed secrets.  Of what reads
\* add, git is the configuration without its password, and nodeSelector is empty: the
\* settings have none of their own here.
Added   == {"git", "nodeSelector"}
Setting == [plain : Writers, extra : SUBSET Added, secret : Secret]

\* Only settings with secret attributes have secrets.
Tree ==
    {t \in [file : [Ids -> Setting], sealed : [Ids -> Secret]] :
       \A i \in Ids \ SecretIds : t.file[i].secret = None /\ t.sealed[i] = None}

VARIABLES
    branch,     \* the tree on the git server
    root,       \* what the root store shows
    phase,      \* where a request, or a commit of somebody else, is
    start,      \* the tree a request's worktree was created from
    work,       \* the tree in its worktree
    seen,       \* the secrets its client was shown
    target,     \* the setting it is about, and what of it its deployment stores
    stale,      \* requests whose store had other settings than their worktree
    changed     \* history: who has landed a change of a sealed secret

vars == <<branch, root, phase, start, work, seen, target, stale, changed>>

\* Fault: the legacy secrets of one setting are merged into others as well.
LoadedAll(t) ==
    [t EXCEPT !.file = [i \in Ids |-> [t.file[i] EXCEPT !.secret = Plain(Initial)]]]

\* FileStore.load: secrets.<id>.yaml is merged over <id>.yaml.
Loaded(t) ==
    [t EXCEPT !.file = [i \in Ids |-> IF i \in Legacy
                                      THEN [t.file[i] EXCEPT !.secret = Plain(Initial)]
                                      ELSE t.file[i]]]

\* getSettings for some keys, or for none of them, which means all.  The objects of the
\* store are what it changes: it merges the secrets in (mergeEncryptedSecretsIntoSettings),
\* and gives otomi a list of node selectors and, if asked for by its key, the git settings.
Keyed(K) == IF K = {} THEN Ids ELSE K

Adding(K) ==
    IF K = {} THEN {"nodeSelector"} ELSE IF Otomi \in K THEN Added ELSE {}

Merged(t, K) ==
    [t EXCEPT !.file = [i \in Ids |->
        [t.file[i] EXCEPT
           !.extra  = IF i = Otomi THEN @ \cup Adding(K) ELSE @,
           !.secret = IF i \in Keyed(K) \cap SecretIds /\ t.sealed[i] # None
                      THEN t.sealed[i] ELSE @]]]

FirstTree ==
    [file   |-> [i \in Ids |-> [plain |-> Initial, extra |-> {}, secret |-> None]],
     sealed |-> [i \in Ids |-> IF i \in Sealed0 THEN Encrypt(Initial, Plain(Initial)) ELSE None]]

NoTarget == {}

Init ==
    /\ branch = FirstTree
    /\ root = Loaded(FirstTree)
    /\ phase = [r \in Requests \cup Others |-> "idle"]
    /\ start = [r \in Requests |-> FirstTree]
    /\ work = [r \in Requests |-> FirstTree]
    /\ seen = [r \in Requests |-> [i \in Ids |-> None]]
    /\ target = [r \in Requests |-> NoTarget]
    /\ stale = {}
    /\ changed = [i \in Ids |-> {}]

Goto(r, p) == phase' = [phase EXCEPT ![r] = p]

-----------------------------------------------------------------------------
\* GET /settings, settingsInfo, and all that looks something up in the settings.
GetSettings(K) ==
    /\ root' = Merged(root, K)
    /\ UNCHANGED <<branch, phase, start, work, seen, target, stale, changed>>

\* The client looks at all of them before it changes one.
Fetch(r) ==
    /\ phase[r] = "idle"
    /\ root' = Merged(root, {})
    /\ seen' = [seen EXCEPT ![r] = [i \in Ids |-> root'.file[i].secret]]
    /\ Goto(r, "fetched")
    /\ UNCHANGED <<branch, start, work, target, stale, changed>>

\* setSessionStack: the worktree is the branch as it is now.
Begin(r) ==
    /\ phase[r] = "fetched"
    /\ start' = [start EXCEPT ![r] = branch]
    /\ Goto(r, "handle")
    /\ UNCHANGED <<branch, root, work, seen, target, stale, changed>>

\* Fault: unchanged values are encrypted again.
SealingAgain(r, v, old) == IF v = None THEN old ELSE Encrypt(r, v)

\* extractAndStoreSettingsSecrets: what is sealed when the client sends v.  A value
\* equal to the sealed one is what the client was shown, and not encrypted again.
Sealing(r, v, old) == IF v = None \/ v = old THEN old ELSE Encrypt(r, v)

\* editSettings with saveSettings: all settings are read with their secrets, the
\* edited one is replaced without them (and otomi without git), and then every setting
\* is written.  The store is stale if it has not all that the worktree has.
EditWith(r, i, v, kept) ==
    LET all == Merged(root, {})
        old == start[r].sealed[i]
        new == [plain |-> r, extra |-> {}, secret |-> kept]
    IN  /\ phase[r] = "handle"
        /\ root' = all
        /\ work' = [work EXCEPT ![r] =
                      [file   |-> [all.file EXCEPT ![i] = new],
                       sealed |-> [start[r].sealed EXCEPT ![i] = Sealing(r, v, old)]]]
        /\ target' = [target EXCEPT ![r] =
                        {<<"file", i>>} \cup (IF v = None THEN {} ELSE {<<"sealed", i>>})]
        /\ stale' = IF \A j \in Ids : /\ all.file[j].plain = start[r].file[j].plain
                                       /\ start[r].file[j].extra \subseteq all.file[j].extra
                    THEN stale ELSE stale \cup {r}
        /\ Goto(r, "save")
        /\ UNCHANGED <<branch, start, seen, changed>>

\* Fault: the edited setting is stored with the secret the client sent.
EditUnstripped(r, i, v) == EditWith(r, i, v, v)

Edit(r, i, v) == EditWith(r, i, v, None)

\* The client leaves the secret blank, gives a new one, or returns what it was shown.
EditSettings(r) ==
    \/ \E i \in Ids : Edit(r, i, None)
    \/ \E i \in SecretIds : \E v \in {Plain(r), seen[r][i]} \ {None} : Edit(r, i, v)

\* createObjWizard: with a token, keys are made at Linode and saved (if that fails, so
\* does the request).  Without one, the setting is saved as the store shows it, where
\* its secrets may be sealed ones the worktree no longer has.
ObjWizard(r) ==
    \/ Edit(r, Wizard, Plain(r))
    \/ Edit(r, Wizard, Merged(root, {Wizard}).file[Wizard].secret)

\* The handlers of namespace secrets replace or remove the manifest itself; the
\* client encrypts.  An edit looks the manifest up in the store, a removal does not.
WriteSealed(r, i, v) ==
    /\ phase[r] = "handle"
    /\ work' = [work EXCEPT ![r] = [start[r] EXCEPT !.sealed[i] = v]]
    /\ target' = [target EXCEPT ![r] = {<<"sealed", i>>}]
    /\ Goto(r, "save")
    /\ UNCHANGED <<branch, root, start, seen, stale, changed>>

CreateNamespaceSecret(r, i) ==
    /\ root.sealed[i] = None
    /\ WriteSealed(r, i, Encrypt(r, Plain(r)))

EditNamespaceSecret(r, i) ==
    /\ root.sealed[i] # None
    /\ WriteSealed(r, i, Encrypt(r, Plain(r)))

DeleteNamespaceSecret(r, i) == WriteSealed(r, i, None)

\* The request is refused, or its commit meets a conflict or a failure before its push.
Fail(r) ==
    /\ phase[r] \in {"handle", "save"}
    /\ Goto(r, "done")
    /\ UNCHANGED <<branch, root, start, work, seen, target, stale, changed>>

\* save: the files that differ from where the worktree came from go to the branch, if
\* nobody has changed them in between.
Unharmed(r, part) ==
    \A i \in Ids : work[r][part][i] # start[r][part][i] =>
                     branch[part][i] \in {start[r][part][i], work[r][part][i]}

Overlay(r, part) ==
    [i \in Ids |-> IF work[r][part][i] # start[r][part][i] THEN work[r][part][i]
                                                            ELSE branch[part][i]]

LandOver(r) ==
    /\ phase[r] = "save"
    /\ branch' = [file |-> Overlay(r, "file"), sealed |-> Overlay(r, "sealed")]
    /\ changed' = [i \in Ids |-> IF work[r].sealed[i] # start[r].sealed[i]
                                 THEN changed[i] \cup {r} ELSE changed[i]]
    /\ Goto(r, "set")
    /\ UNCHANGED <<root, start, work, seen, target, stale>>

\* Fault: files are written over whatever the branch has by now.
LandBlindly(r) == LandOver(r)

Land(r) ==
    /\ Unharmed(r, "file") /\ Unharmed(r, "sealed")
    /\ LandOver(r)

\* The root store receives the records; or the pull before that fails.
Records(r, part) ==
    [i \in Ids |-> IF <<part, i>> \in target[r] THEN work[r][part][i] ELSE root[part][i]]

SetRoot(r) ==
    /\ phase[r] = "set"
    /\ root' = [file |-> Records(r, "file"), sealed |-> Records(r, "sealed")]
    /\ Goto(r, "done")
    /\ UNCHANGED <<branch, start, work, seen, target, stale, changed>>

SetRootFails(r) ==
    /\ phase[r] = "set"
    /\ Goto(r, "done")
    /\ UNCHANGED <<branch, root, start, work, seen, target, stale, changed>>

-----------------------------------------------------------------------------
\* The poll, or a restart, loads the branch.
Reload ==
    /\ root' = Loaded(branch)
    /\ UNCHANGED <<branch, phase, start, work, seen, target, stale, changed>>

\* Somebody else pushes another version of a setting.
OtherCommit(o, i) ==
    /\ phase[o] = "idle"
    /\ branch' = [branch EXCEPT !.file[i].plain = o]
    /\ Goto(o, "done")
    /\ UNCHANGED <<root, start, work, seen, target, stale, changed>>

Step(r) ==
    \/ Fetch(r) \/ Begin(r) \/ EditSettings(r) \/ ObjWizard(r)
    \/ \E i \in SecretIds : \/ CreateNamespaceSecret(r, i)
                            \/ EditNamespaceSecret(r, i)
                            \/ DeleteNamespaceSecret(r, i)
    \/ Fail(r) \/ Land(r) \/ SetRoot(r) \/ SetRootFails(r)

Next ==
    \/ \E r \in Requests : Step(r)
    \/ \E K \in SUBSET Ids : GetSettings(K)
    \/ Reload
    \/ \E o \in Others, i \in Ids : OtherCommit(o, i)

Spec == Init /\ [][Next]_vars

-----------------------------------------------------------------------------
Phases == {"idle", "fetched", "handle", "save", "set", "done"}

\* Types of all variables; sealed secrets belong to settings that have some.
TypeOK ==
    /\ branch \in Tree
    /\ root \in Tree
    /\ phase \in [Requests \cup Others -> Phases]
    /\ start \in [Requests -> Tree]
    /\ work \in [Requests -> Tree]
    /\ seen \in [Requests -> [Ids -> Secret]]
    /\ target \in [Requests -> SUBSET ({"file", "sealed"} \X Ids)]
    /\ stale \in SUBSET Requests
    /\ changed \in [Ids -> SUBSET Requests]

IsPlain(v)  == v # None /\ v.depth = 0
IsCipher(v) == v # None /\ v.depth > 0

\* No secret a client sends ends up readable in a settings file: what is readable
\* there was so in a legacy file (editSettings removes secrets before it stores).
PlaintextStaysOut ==
    \A i \in Ids : IsPlain(branch.file[i].secret) => i \in Legacy

\* A ciphertext of a ciphertext, and nobody but who made it has landed a change of it.
SealedAgain(v, who) == v # None /\ v.depth > 1 /\ who \subseteq {v.by}

\* Only a race of two requests seals a secret twice.  A client may send back what it was
\* shown, and the wizard saves what the store shows: however often settings are read,
\* reloaded and edited, that is what is sealed in the worktree (filterChangedSecrets),
\* unless another request has changed it meanwhile.
SealedOnce == \A i \in Ids : ~SealedAgain(branch.sealed[i], changed[i])

\* What landing a request may do to a settings file and a sealed secret it is not about:
\* nothing, but for otomi's file.  That one gets what reads have left in the store's
\* object (getSettings changes it, saveSettings writes it), and loses nothing.
Untouched(r, i) ==
    /\ <<"file", i>> \notin target[r] =>
         /\ branch'.file[i].plain = branch.file[i].plain
         /\ branch.file[i].extra \subseteq branch'.file[i].extra
         /\ i # Otomi => branch'.file[i].extra = branch.file[i].extra
    /\ <<"sealed", i>> \notin target[r] => branch'.sealed[i] = branch.sealed[i]

\* Landing a request touches the setting it is about, although every settings file is
\* written, as long as its store had all that its worktree has.
OnlyItsSetting ==
    [][\A r \in Requests : phase[r] = "save" /\ phase'[r] = "set" /\ r \notin stale =>
         \A i \in Ids : Untouched(r, i)]_vars

\* A tree nothing of the above can go wrong with, when who[i] have changed secret i.
Safe(t, who) ==
    \A i \in Ids :
      /\ IsPlain(t.file[i].secret) => i \in Legacy
      /\ t.sealed[i] # None => t.sealed[i].depth > 0
      /\ ~SealedAgain(t.sealed[i], who[i])
      /\ i # Otomi => t.file[i].extra = {}

\* A value that is readable, or the ciphertext of the beginning.
Original(v, i) == IsCipher(v) => v = FirstTree.sealed[i]

OriginalIn(t, i) == t.sealed[i] = FirstTree.sealed[i] /\ Original(t.file[i].secret, i)

\* As long as nobody has landed a change of a sealed secret, the one of the beginning is
\* the only ciphertext that is about.
OriginalEverywhere(i) ==
    /\ OriginalIn(branch, i) /\ OriginalIn(root, i)
    /\ \A r \in Requests :
         /\ OriginalIn(start[r], i)
         /\ Original(work[r].file[i].secret, i) /\ Original(seen[r][i], i)
         /\ phase[r] = "set" => work[r].sealed[i] = FirstTree.sealed[i]

\* The worktree of a request whose store was not stale changes its setting only.
Narrow(r) ==
    \A i \in Ids :
      /\ <<"file", i>> \notin target[r] =>
           /\ work[r].file[i].plain = start[r].file[i].plain
           /\ start[r].file[i].extra \subseteq work[r].file[i].extra
      /\ <<"sealed", i>> \notin target[r] => work[r].sealed[i] = start[r].sealed[i]

\* The inductive invariant: all trees are safe, also those a request holds, and a
\* request has changed nothing before it lands.
Inductive ==
    /\ TypeOK
    /\ Safe(branch, changed) /\ Safe(root, changed)
    /\ \A i \in Ids : changed[i] = {} => OriginalEverywhere(i)
    /\ \A r \in Requests :
         /\ Safe(start[r], changed) /\ Safe(work[r], changed)
         /\ phase[r] = "save" /\ r \notin stale => Narrow(r)
         /\ phase[r] \notin {"set", "done"} => \A i \in Ids : r \notin changed[i]

\* What the comment in saveSettings promises: settings are read without their secrets
\* "to avoid writing encrypted ciphertext into settings YAML files".
CiphertextStaysOut == \A i \in Ids : ~IsCipher(branch.file[i].secret)
=============================================================================
