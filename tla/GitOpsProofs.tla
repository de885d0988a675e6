---------------------------- MODULE GitOpsProofs ----------------------------
(***************************************************************************)
(* For every set of sessions, commits of others and files, every number of *)
(* retries and of failures: the types, the safety properties of the branch *)
(* and what an answer of the API means.  GitOps preserves TypeOK and the   *)
(* invariants Inductive and AnswerInductive of GitOpsInvariant.            *)
(***************************************************************************)
EXTENDS GitOpsInvariant, TLAPS

\* Appending a commit keeps the commits there are, and the branch points to it.
LEMMA PushNewLemma ==
    ASSUME TypeOK, NEW t \in Tree, NEW a \in Sessions \cup Externals \cup {Nobody},
           NEW onto \in CommitIds, PushNew(t, a, onto)
    PROVE  /\ commits' \in Seq(Commit)
           /\ Len(commits') = Len(commits) + 1
           /\ CommitIds' = CommitIds \cup {Len(commits) + 1}
           /\ Len(commits) + 1 \notin CommitIds
           /\ remote' = Len(commits) + 1
           /\ \A i \in CommitIds : commits'[i] = commits[i]
           /\ commits'[Len(commits) + 1] =
                [tree |-> t, by |-> a, parent |-> onto,
                 anc |-> History(onto) \cup {Len(commits) + 1}]
<1>1. /\ commits \in Seq(Commit) /\ Len(commits) \in Nat
      /\ onto \in Nat /\ onto \in 1..Len(commits)
  BY DEF TypeOK, CommitIds
<1>2. commits[onto] \in Commit
  BY <1>1
<1>3. History(onto) \cup {Len(commits) + 1} \in SUBSET Nat
  BY <1>1, <1>2 DEF History, Commit
<1>. DEFINE c == [tree |-> t, by |-> a, parent |-> onto,
                  anc |-> History(onto) \cup {Len(commits) + 1}]
<1>4. c \in Commit
  BY <1>1, <1>3 DEF Commit
<1>5. commits' = Append(commits, c) /\ remote' = Len(commits) + 1
  BY DEF PushNew
<1>. HIDE DEF c
<1>6. QED
  BY <1>1, <1>4, <1>5 DEF CommitIds, c

LEMMA ValuesLemma ==
    /\ NoChange \in Change
    /\ \A t \in Tree, d \in Change : Apply(t, d) \in Tree
    /\ \A t \in Tree : t \in Change
    /\ \A FS \in SUBSET Files, v \in Content : Writing(FS, v) \in Change
    /\ Initial \in Content /\ Absent \in Content
    /\ Sessions \subseteq Content /\ Externals \subseteq Content
<1>1. Initial \in Content /\ Absent \in Content
      /\ Sessions \subseteq Content /\ Externals \subseteq Content
  BY DEF Content
<1>2. NoChange \in Change
  BY DEF NoChange, Change
<1>3. ASSUME NEW t \in Tree, NEW d \in Change PROVE Apply(t, d) \in Tree
  BY <1>3 DEF Apply, Tree, Change
<1>4. \A t \in Tree : t \in Change
  BY DEF Tree, Change
<1>5. \A FS \in SUBSET Files, v \in Content : Writing(FS, v) \in Change
  BY DEF Writing, Change
<1>6. QED
  BY <1>1, <1>2, <1>3, <1>4, <1>5

LEMMA CommitLemma ==
    ASSUME TypeOK, NEW c \in CommitIds
    PROVE  /\ commits[c] \in Commit
           /\ TreeOf(c) \in Tree
           /\ History(c) \in SUBSET Nat
           /\ Len(commits) \in Nat
           /\ c \in Nat
<1>1. commits \in Seq(Commit) /\ Len(commits) \in Nat /\ c \in 1..Len(commits)
  BY DEF TypeOK, CommitIds
<1>2. commits[c] \in Commit
  BY <1>1
<1>3. TreeOf(c) \in Tree /\ History(c) \in SUBSET Nat
  BY <1>2 DEF TreeOf, History, Commit
<1>4. QED
  BY <1>1, <1>2, <1>3

LEMMA InitType == Init => TypeOK
<1>1. SUFFICES ASSUME Init PROVE TypeOK
  OBVIOUS
<1>2. commits[1].tree \in Tree /\ commits \in Seq(Commit) /\ Len(commits) = 1
  BY <1>1, ValuesLemma DEF Init, Tree, Commit
<1>3. CommitIds = {1}
  BY <1>2 DEF CommitIds
<1>4. 1 \in 1..Retries /\ 0 \in 0..MaxRootFailures /\ 0 \in 0..MaxFailures /\ 0 \in 0..MaxCrashes
  BY NumbersAssumption
<1>5. QED
  BY <1>1, <1>2, <1>3, <1>4, ValuesLemma DEF Init, TypeOK, Phases

\* The part of TypeOK about the commits and the branch survives a step that
\* leaves them alone, or that adds a commit.
LEMMA SetupType ==
    ASSUME TypeOK, NEW s \in Sessions, Setup(s) PROVE TypeOK'
<1>. USE CommitLemma DEF Setup, TypeOK, Phases, CommitIds, rootVars, pollVars, fails, wtVars
<1>1. CASE InitPull(s)
  BY <1>1 DEF InitPull
<1>2. CASE InitPullFail(s)
  BY <1>2, NumbersAssumption DEF InitPullFail, RootTransient
<1>3. CASE InitRecover(s)
  BY <1>3 DEF InitRecover
<1>4. CASE InitForcePush(s)
  BY <1>4 DEF InitForcePush
<1>5. CASE InitRecoverFail(s)
  BY <1>5, NumbersAssumption DEF InitRecoverFail, RootTransient
<1>6. CASE AddWorktree(s)
  BY <1>6 DEF AddWorktree
<1>7. CASE CopyStore(s)
  BY <1>7 DEF CopyStore
<1>8. QED
  BY <1>1, <1>2, <1>3, <1>4, <1>5, <1>6, <1>7

LEMMA WriteType ==
    ASSUME TypeOK, NEW s \in Sessions, NEW req \in Change, WriteAndCommit(s, req)
    PROVE  TypeOK'
<1>1. TreeOf(start[s]) \in Tree
  BY CommitLemma DEF TypeOK
<1>2. [f \in Files |-> IF req[f] = TreeOf(start[s])[f] THEN Keep ELSE req[f]] \in Change
  BY <1>1 DEF Change, Tree
<1>3. QED
  BY <1>2 DEF WriteAndCommit, TypeOK, Phases, CommitIds, rootVars, pollVars, fails

LEMMA HandleType ==
    ASSUME TypeOK, NEW s \in Sessions, Handle(s) PROVE TypeOK'
<1>1. ASSUME NEW FS \in WriteSets, NEW f \in FS, HandleCreate(s, f, FS) \/ HandleEdit(s, f, FS)
      PROVE  TypeOK'
  BY <1>1, WriteType, ValuesLemma, SetsAssumption DEF HandleCreate, HandleEdit
<1>2. ASSUME NEW FS \in WriteSets, HandleDelete(s, FS) PROVE TypeOK'
  BY <1>2, WriteType, ValuesLemma, SetsAssumption DEF HandleDelete
<1>3. CASE HandleReject(s)
  BY <1>3 DEF HandleReject, TypeOK, Phases, CommitIds, rootVars, pollVars, fails, wtVars
<1>4. CASE HandleOnly(s)
  BY <1>4 DEF HandleOnly, TypeOK, Phases, CommitIds, rootVars, pollVars, fails, wtVars
<1>5. QED
  BY <1>1, <1>2, <1>3, <1>4 DEF Handle

\* The retry loop keeps its counter within bounds.
LEMMA RetryType ==
    ASSUME TypeOK, NEW s \in Sessions, Retry(s)
    PROVE  /\ attempt' \in [Sessions -> 1..Retries]
           /\ pc' \in [Sessions -> Phases]
           /\ outcome' \in [Sessions -> {"none", "ok", "error"}]
<1>1. Retries \in Nat /\ attempt[s] \in 1..Retries
  BY NumbersAssumption DEF TypeOK
<1>2. CASE attempt[s] < Retries
  <2>1. attempt[s] + 1 \in 1..Retries
    BY <1>1, <1>2
  <2>2. QED
    BY <1>2, <2>1 DEF Retry, TypeOK, Phases
<1>3. CASE ~(attempt[s] < Retries)
  BY <1>3 DEF Retry, TypeOK, Phases
<1>4. QED
  BY <1>2, <1>3

LEMMA RebasedType ==
    ASSUME TypeOK, NEW s \in Sessions, NEW kept \in Change, Rebased(s, kept)
    PROVE  /\ base' \in [Sessions -> CommitIds]
           /\ change' \in [Sessions -> Change]
           /\ pc' \in [Sessions -> Phases]
           /\ UNCHANGED <<attempt, outcome>>
  BY ValuesLemma DEF Rebased, TypeOK, Phases

LEMMA TransientType ==
    ASSUME TypeOK
    PROVE  /\ Transient => failures' \in 0..MaxFailures /\ UNCHANGED <<rootFailures, crashes>>
           /\ RootTransient => rootFailures' \in 0..MaxRootFailures /\ UNCHANGED <<failures, crashes>>
  BY NumbersAssumption DEF TypeOK, Transient, RootTransient

\* A push, of a new commit or of the tip itself, keeps commits and tip well typed.
LEMMA PushType ==
    ASSUME TypeOK, NEW s \in Sessions,
           PushNew(Apply(TreeOf(base[s]), change[s]), s, base[s])
    PROVE  /\ commits' \in Seq(Commit)
           /\ {remote', rootHead, commitSha, latest} \subseteq CommitIds'
           /\ CommitIds \subseteq CommitIds'
<1>1. base[s] \in CommitIds /\ change[s] \in Change
  BY DEF TypeOK
<1>2. Apply(TreeOf(base[s]), change[s]) \in Tree
  BY <1>1, CommitLemma, ValuesLemma
<1>3. QED
  BY <1>1, <1>2, PushNewLemma DEF TypeOK

LEMMA SaveType ==
    ASSUME TypeOK, NEW s \in Sessions, Save(s) PROVE TypeOK'
<1>. USE DEF rootVars, pollVars, fails
<1>1. CASE SavePull(s)
  <2>1. change[s] \in Change
    BY DEF TypeOK
  <2>2. QED
    BY <1>1, <2>1, RebasedType DEF SavePull, PullUnchanged, TypeOK, CommitIds
<1>2. CASE SavePullConflict(s)
  BY <1>2, RetryType DEF SavePullConflict, PullUnchanged, TypeOK, CommitIds
<1>3. CASE SavePullUnmerged(s)
  BY <1>3, RetryType DEF SavePullUnmerged, PullUnchanged, TypeOK, CommitIds
<1>4. CASE SavePullDetached(s)
  BY <1>4 DEF SavePullDetached, PullUnchanged, TypeOK, CommitIds, Phases
<1>5. CASE SavePullStuck(s)
  BY <1>5, RetryType DEF SavePullStuck, PullUnchanged, TypeOK, CommitIds
<1>6. CASE SavePullFail(s)
  BY <1>6, RetryType, TransientType DEF SavePullFail, PullUnchanged, TypeOK, CommitIds
<1>7. CASE SaveRecover(s)
  <2>. DEFINE kept == [f \in Files |-> IF f \in Conflicts(s) THEN Keep ELSE change[s][f]]
  <2>1. kept \in Change
    BY DEF TypeOK, Change
  <2>2. CASE ~LandedIn(s, remote) /\ Unsettled(s) # {}
    BY <1>7, <2>2, RetryType, TransientType DEF SaveRecover, PullUnchanged, TypeOK, CommitIds
  <2>3. CASE ~(~LandedIn(s, remote) /\ Unsettled(s) # {})
    <3>1. Rebased(s, kept) /\ UNCHANGED tree /\ Transient /\ PullUnchanged
      BY <1>7, <2>3 DEF SaveRecover
    <3>. HIDE DEF kept
    <3>2. QED
      BY <2>1, <3>1, RebasedType, TransientType DEF PullUnchanged, TypeOK, CommitIds
  <2>4. QED
    BY <2>2, <2>3
<1>8. CASE SavePush(s)
  <2>1. pc' \in [Sessions -> Phases]
    BY <1>8 DEF SavePush, TypeOK, Phases
  <2>2. CASE OwnCommit(s)
    BY <1>8, <2>1, <2>2, PushType DEF SavePush, PushUnchanged, TypeOK
  <2>3. CASE ~OwnCommit(s)
    BY <1>8, <2>1, <2>3 DEF SavePush, PushUnchanged, TypeOK, CommitIds
  <2>4. QED
    BY <2>2, <2>3
<1>9. CASE SavePushRejected(s)
  BY <1>9, RetryType DEF SavePushRejected, PushUnchanged, TypeOK, CommitIds
<1>10. CASE SavePushFail(s)
  <2>1. CASE UNCHANGED <<commits, remote>>
    BY <1>10, <2>1, RetryType, TransientType DEF SavePushFail, PushUnchanged, TypeOK, CommitIds
  <2>2. CASE PushNew(Apply(TreeOf(base[s]), change[s]), s, base[s])
    BY <1>10, <2>2, PushType, RetryType, TransientType DEF SavePushFail, PushUnchanged, TypeOK
  <2>3. QED
    BY <1>10, <2>1, <2>2 DEF SavePushFail
<1>11. QED
  BY <1>1, <1>2, <1>3, <1>4, <1>5, <1>6, <1>7, <1>8, <1>9, <1>10 DEF Save

LEMMA DeployType ==
    ASSUME TypeOK, NEW s \in Sessions, Deploy(s) PROVE TypeOK'
<1>. USE DEF rootVars, pollVars, fails, wtVars, TypeOK, CommitIds, Phases
<1>1. CASE RootPull(s)
  BY <1>1 DEF RootPull
<1>2. CASE RootPullFail(s)
  BY <1>2, TransientType DEF RootPullFail
<1>3. CASE SetStore(s)
  BY <1>3, ValuesLemma DEF SetStore
<1>4. CASE Finish(s)
  <2>1. 1 \in CommitIds /\ 1 \in 1..Retries
    BY NumbersAssumption
  <2>2. commits[1].tree \in Tree
    BY <2>1, CommitLemma DEF TreeOf
  <2>3. QED
    BY <1>4, <2>1, <2>2, ValuesLemma DEF Finish
<1>5. QED
  BY <1>1, <1>2, <1>3, <1>4 DEF Deploy

LEMMA PollType ==
    ASSUME TypeOK, Poll PROVE TypeOK'
<1>. USE DEF rootVars, pollVars, fails, wtVars, TypeOK, CommitIds
<1>1. CASE PollLsRemote
  BY <1>1 DEF PollLsRemote
<1>2. CASE PollCompare
  BY <1>2 DEF PollCompare
<1>3. CASE PollPull
  BY <1>3 DEF PollPull
<1>4. CASE PollPullFail
  BY <1>4, TransientType DEF PollPullFail
<1>5. CASE PollRecover
  BY <1>5 DEF PollRecover
<1>6. CASE PollForcePush
  BY <1>6 DEF PollForcePush
<1>7. CASE PollRecoverFail
  BY <1>7, TransientType DEF PollRecoverFail
<1>8. ASSUME NEW f \in Files, LoadFile(f) PROVE TypeOK'
  <2>1. TreeOf(rootHead) \in Tree
    BY CommitLemma
  <2>2. loaded' \in Change
    BY <1>8, <2>1 DEF LoadFile, Tree, Change
  <2>3. QED
    BY <1>8, <2>2 DEF LoadFile
<1>9. CASE LoadSwap
  <2>1. loaded \in Tree
    BY <1>9 DEF LoadSwap, Tree, Change
  <2>2. QED
    BY <1>9, <2>1, ValuesLemma DEF LoadSwap
<1>10. QED
  BY <1>1, <1>2, <1>3, <1>4, <1>5, <1>6, <1>7, <1>8, <1>9 DEF Poll

LEMMA ExternalType ==
    ASSUME TypeOK, NEW e \in Externals, ExternalCommit(e) PROVE TypeOK'
<1>1. PICK f \in Files, v \in {e, Absent} :
        PushNew([TreeOf(remote) EXCEPT ![f] = v], e, remote)
  BY DEF ExternalCommit
<1>2. remote \in CommitIds /\ TreeOf(remote) \in Tree
  BY CommitLemma DEF TypeOK
<1>3. [TreeOf(remote) EXCEPT ![f] = v] \in Tree
  BY <1>2, ValuesLemma DEF Tree
<1>4. commits' \in Seq(Commit) /\ CommitIds \subseteq CommitIds' /\ remote' \in CommitIds'
  BY <1>1, <1>2, <1>3, PushNewLemma
<1>5. QED
  BY <1>4 DEF ExternalCommit, TypeOK, rootVars, pollVars, fails, wtVars

LEMMA RestartType ==
    ASSUME TypeOK, Restart PROVE TypeOK'
<1>1. 1 \in CommitIds /\ 1 \in 1..Retries /\ remote \in CommitIds /\ crashes + 1 \in 0..MaxCrashes
  BY NumbersAssumption DEF TypeOK, CommitIds, Restart
<1>2. commits[1].tree \in Tree /\ TreeOf(remote) \in Tree
  BY <1>1, CommitLemma DEF TreeOf
<1>3. pc' \in [Sessions -> Phases]
  BY DEF Restart, Phases
<1>4. outcome' \in [Sessions -> {"none", "ok", "error"}]
  BY DEF Restart, TypeOK
<1>5. QED
  BY <1>1, <1>2, <1>3, <1>4, ValuesLemma DEF Restart, TypeOK, CommitIds

LEMMA NextType == TypeOK /\ [Next]_vars => TypeOK'
<1>1. SUFFICES ASSUME TypeOK, [Next]_vars PROVE TypeOK'
  OBVIOUS
<1>2. CASE UNCHANGED vars
  BY <1>1, <1>2 DEF vars, rootVars, pollVars, fails, wtVars, TypeOK, CommitIds
<1>3. CASE Next
  BY <1>1, <1>3, ExternalType, SetupType, HandleType, SaveType, DeployType, PollType,
     RestartType DEF Next, Session
<1>4. QED
  BY <1>1, <1>2, <1>3

\* Whatever the requests, the external commits, the failures and the timer do,
\* every variable of the write path keeps a value of its kind.
THEOREM TypeCorrect == Spec => []TypeOK
<1>1. QED
  BY InitType, NextType, PTL DEF Spec

-----------------------------------------------------------------------------
(* The branch: GitOps preserves Inductive.                                 *)

\* The commits there were stay as they were; new ones are by a.
Grows(a) ==
    /\ CommitIds \subseteq CommitIds'
    /\ \A i \in CommitIds : commits'[i] = commits[i]
    /\ \A i \in CommitIds' \ CommitIds : commits'[i].by = a

\* What SessionOK(r) depends on besides the commits.
Own(r) == <<pc[r], tree[r], start[r], base[r], change[r]>>

LEMMA NobodyLemma == Nobody \notin Sessions /\ Nobody \notin Externals
  BY NamesAssumption

LEMMA HistoryLemma ==
    ASSUME TypeOK, GraphOK, NEW c \in CommitIds
    PROVE  History(c) \subseteq CommitIds
<1>1. c \in 1..Len(commits) /\ Len(commits) \in Nat /\ History(c) \subseteq 1..c
  BY CommitLemma DEF GraphOK, CommitIds
<1>2. QED
  BY <1>1 DEF CommitIds

LEMMA GrowsLemma ==
    ASSUME TypeOK, GraphOK, NEW a, Grows(a), NEW c \in CommitIds
    PROVE  /\ c \in CommitIds'
           /\ TreeOf(c)' = TreeOf(c)
           /\ History(c)' = History(c)
           /\ \A r \in Sessions : LandedIn(r, c)' <=> LandedIn(r, c)
<1>1. c \in CommitIds' /\ commits'[c] = commits[c]
  BY DEF Grows
<1>2. TreeOf(c)' = TreeOf(c) /\ History(c)' = History(c)
  BY <1>1 DEF TreeOf, History
<1>3. History(c) \subseteq CommitIds /\ History(c) \subseteq CommitIds'
  BY HistoryLemma DEF Grows
<1>4. ASSUME NEW r \in Sessions PROVE LandedIn(r, c)' <=> LandedIn(r, c)
  BY <1>2, <1>3 DEF LandedIn, Grows
<1>5. QED
  BY <1>1, <1>2, <1>4

\* A session that takes no step is not disturbed by what others commit.
LEMMA FrameLemma ==
    ASSUME Inductive, NEW a, Grows(a), NEW r \in Sessions, r # a, UNCHANGED Own(r)
    PROVE  SessionOK(r)'
<1>1. TypeOK /\ GraphOK /\ SessionOK(r)
  BY DEF Inductive
<1>2. base[r] \in CommitIds /\ start[r] \in CommitIds
  BY <1>1 DEF TypeOK
<1>3. /\ pc'[r] = pc[r] /\ tree'[r] = tree[r] /\ start'[r] = start[r]
      /\ base'[r] = base[r] /\ change'[r] = change[r]
  BY DEF Own
<1>4. BeforeCommit(r)'
  BY <1>1, <1>3 DEF SessionOK, BeforeCommit, Grows
<1>5. /\ TreeOf(base[r])' = TreeOf(base[r])
      /\ TreeOf(start[r])' = TreeOf(start[r])
      /\ LandedIn(r, base[r])' <=> LandedIn(r, base[r])
  <2>1. ASSUME NEW c \in CommitIds
        PROVE  commits'[c].tree = TreeOf(c)
    BY <1>1, GrowsLemma DEF TreeOf
  <2>2. TreeOf(base[r])' = TreeOf(base[r]) /\ TreeOf(start[r])' = TreeOf(start[r])
    BY <1>2, <1>3, <2>1 DEF TreeOf
  <2>3. LandedIn(r, base[r])' <=> LandedIn(r, base[r])
    BY <1>1, <1>2, <1>3, HistoryLemma DEF LandedIn, Grows, History
  <2>4. QED
    BY <2>2, <2>3
<1>6. Rebasable(r)'
  BY <1>1, <1>3, <1>5 DEF SessionOK, Rebasable, Saving
<1>7. NotYetLanded(r)'
  BY <1>1, <1>3, <1>5 DEF SessionOK, NotYetLanded, Saving, NoChange
<1>8. QED
  BY <1>4, <1>6, <1>7 DEF SessionOK

\* What holds of the commits goes on to hold while none is added; a session that
\* has committed never gets another worktree.
LEMMA QuietLemma ==
    ASSUME Inductive, UNCHANGED commits,
           \A r \in Sessions : start'[r] # start[r] => \A i \in CommitIds : commits[i].by # r
    PROVE  /\ GraphOK' /\ FirstCommitterWins' /\ SingleLanding'
           /\ Grows(Nobody)
<1>1. CommitIds' = CommitIds
  BY DEF CommitIds
<1>2. GraphOK'
  BY <1>1 DEF Inductive, GraphOK, History
<1>3. SingleLanding'
  BY <1>1 DEF Inductive, SingleLanding, History
<1>4. FirstCommitterWins'
  BY <1>1 DEF Inductive, FirstCommitterWins, TreeOf
<1>5. Grows(Nobody)
  BY <1>1 DEF Grows
<1>6. QED
  BY <1>2, <1>3, <1>4, <1>5

\* What holds of the commits goes on to hold when one is pushed on top of the
\* branch: by somebody else, or by a session that has not landed there yet and
\* that changes only files which are still as its worktree found them.
LEMMA PushedLemma ==
    ASSUME Inductive, NEW t \in Tree, NEW a \in Sessions \cup Externals,
           NEW onto \in CommitIds, PushNew(t, a, onto),
           remote \in History(onto),
           UNCHANGED <<rootHead, commitSha, start>>,
           a \in Sessions =>
              /\ ~LandedIn(a, onto)
              /\ \A f \in Files : t[f] # TreeOf(onto)[f] =>
                                   TreeOf(onto)[f] = TreeOf(start[a])[f]
    PROVE  /\ GraphOK' /\ RootFollowsBranch' /\ FirstCommitterWins' /\ SingleLanding'
           /\ Grows(a)
<1>. PICK n : n = Len(commits) + 1
  OBVIOUS
<1>1. TypeOK /\ GraphOK /\ RootFollowsBranch /\ FirstCommitterWins /\ SingleLanding
  BY DEF Inductive
<1>2. /\ CommitIds' = CommitIds \cup {n} /\ n \notin CommitIds /\ remote' = n
      /\ \A i \in CommitIds : commits'[i] = commits[i]
      /\ commits'[n] = [tree |-> t, by |-> a, parent |-> onto,
                        anc |-> History(onto) \cup {n}]
      /\ Len(commits) \in Nat /\ onto \in 1..Len(commits)
  BY <1>1, PushNewLemma, CommitLemma DEF CommitIds
<1>3. Grows(a)
  BY <1>2 DEF Grows
<1>4. \A c \in CommitIds : TreeOf(c)' = TreeOf(c) /\ History(c)' = History(c)
  BY <1>1, <1>3, GrowsLemma
<1>5. TreeOf(n)' = t /\ History(n)' = History(onto) \cup {n}
  BY <1>2 DEF TreeOf, History
<1>6. History(onto) \subseteq CommitIds /\ History(onto) \subseteq 1..onto
  BY <1>1, HistoryLemma DEF GraphOK
<1>7. GraphOK'
  <2>1. ASSUME NEW i \in CommitIds
        PROVE  /\ i \in History(i)' /\ History(i)' \subseteq 1..i
               /\ \A j \in History(i)' : History(j)' \subseteq History(i)'
               /\ commits'[i].by # Nobody => commits'[i].parent \in History(i)' \ {i}
    BY <1>1, <1>2, <1>4, HistoryLemma DEF GraphOK
  <2>2. n \in History(n)' /\ onto \in History(n)' \ {n}
    BY <1>1, <1>2, <1>5 DEF GraphOK
  <2>3. History(n)' \subseteq 1..n
    BY <1>2, <1>5, <1>6
  <2>4. \A j \in History(n)' : History(j)' \subseteq History(n)'
    BY <1>1, <1>4, <1>5, <1>6 DEF GraphOK
  <2>5. commits'[n].parent = onto
    BY <1>2
  <2>6. QED
    BY <1>2, <2>1, <2>2, <2>3, <2>4, <2>5 DEF GraphOK
<1>8. RootFollowsBranch'
  <2>1. rootHead \in CommitIds /\ remote \in CommitIds
    BY <1>1 DEF TypeOK
  <2>2. rootHead \in History(onto)
    BY <1>1, <2>1 DEF GraphOK, RootFollowsBranch
  <2>3. rootHead' \in History(n)' /\ commitSha' \in History(rootHead)'
    BY <1>1, <1>4, <1>5, <2>1, <2>2 DEF RootFollowsBranch
  <2>4. QED
    BY <1>2, <2>3 DEF RootFollowsBranch, History
<1>9. FirstCommitterWins'
  <2>1. SUFFICES ASSUME NEW i \in CommitIds', NEW f \in Files,
                        commits'[i].by \in Sessions,
                        (TreeOf(i)')[f] # commits'[commits'[i].parent].tree[f]
                 PROVE  commits'[commits'[i].parent].tree[f]
                            = commits'[start[commits'[i].by]].tree[f]
    BY DEF FirstCommitterWins, TreeOf
  <2>2. \A s \in Sessions : start[s] \in CommitIds
    BY <1>1 DEF TypeOK
  <2>3. CASE i \in CommitIds
    <3>1. commits'[i] = commits[i] /\ commits[i].by \in Sessions
      BY <1>2, <2>1, <2>3
    <3>2. PICK p, s : p = commits[i].parent /\ s = commits[i].by
      OBVIOUS
    <3>3. p \in CommitIds /\ start[s] \in CommitIds
      BY <1>1, <2>2, <2>3, <3>1, <3>2, HistoryLemma, NobodyLemma DEF GraphOK
    <3>4. commits'[p] = commits[p] /\ commits'[start[s]] = commits[start[s]]
      BY <1>2, <3>3
    <3>5. commits'[i].parent = p /\ commits'[i].by = s
      BY <3>1, <3>2
    <3>6. commits[i].tree[f] # commits[p].tree[f]
      BY <2>1, <3>1, <3>4, <3>5 DEF TreeOf
    <3>7. commits[p].tree[f] = commits[start[s]].tree[f]
      BY <1>1, <2>3, <3>1, <3>2, <3>6 DEF FirstCommitterWins, TreeOf
    <3>8. QED
      BY <3>4, <3>5, <3>7
  <2>4. CASE i = n
    <3>1. commits'[i].tree = t /\ commits'[i].parent = onto /\ commits'[i].by = a
      BY <1>2, <2>4
    <3>2. a \in Sessions /\ start[a] \in CommitIds
      BY <2>1, <2>2, <3>1
    <3>3. commits'[onto] = commits[onto] /\ commits'[start[a]] = commits[start[a]]
      BY <1>2, <3>2
    <3>4. t[f] # commits[onto].tree[f]
      BY <2>1, <3>1, <3>3 DEF TreeOf
    <3>5. commits[onto].tree[f] = commits[start[a]].tree[f]
      BY <3>2, <3>4 DEF TreeOf
    <3>6. QED
      BY <3>1, <3>3, <3>5
  <2>5. QED
    BY <1>2, <2>3, <2>4
<1>10. SingleLanding'
  <2>1. SUFFICES ASSUME NEW c \in CommitIds', NEW i \in History(c)' \cap CommitIds',
                        NEW j \in History(c)' \cap CommitIds',
                        commits'[i].by = commits'[j].by, commits'[i].by \in Sessions
                 PROVE  i = j
    BY DEF SingleLanding, History
  <2>2. CASE c \in CommitIds
    BY <1>1, <1>2, <1>4, <2>1, <2>2, HistoryLemma DEF SingleLanding
  <2>3. CASE c = n
    <3>1. CASE i = n /\ j # n
      BY <1>2, <1>5, <1>6, <2>1, <2>3, <3>1 DEF LandedIn
    <3>2. CASE i # n /\ j = n
      BY <1>2, <1>5, <1>6, <2>1, <2>3, <3>2 DEF LandedIn
    <3>3. CASE i # n /\ j # n
      BY <1>1, <1>2, <1>5, <1>6, <2>1, <2>3, <3>3 DEF SingleLanding
    <3>4. QED
      BY <3>1, <3>2, <3>3
  <2>4. QED
    BY <1>2, <2>2, <2>3
<1>11. QED
  BY <1>3, <1>7, <1>8, <1>9, <1>10

\* A step of a that pushes no commit preserves Inductive if a keeps its part.
LEMMA QuietStep ==
    ASSUME Inductive, TypeOK', UNCHANGED commits, RootFollowsBranch', NEW a,
           \A r \in Sessions \ {a} : UNCHANGED Own(r),
           a \in Sessions => SessionOK(a)' /\ (start'[a] # start[a] => pc[a] = "add")
    PROVE  Inductive'
<1>1. ASSUME NEW r \in Sessions, start'[r] # start[r]
      PROVE  \A i \in CommitIds : commits[i].by # r
  <2>1. r = a /\ pc[r] = "add"
    BY <1>1 DEF Own
  <2>2. QED
    BY <2>1 DEF Inductive, SessionOK, BeforeCommit
<1>2. GraphOK' /\ FirstCommitterWins' /\ SingleLanding' /\ Grows(Nobody)
  BY <1>1, QuietLemma
<1>3. ASSUME NEW r \in Sessions PROVE SessionOK(r)'
  BY <1>2, <1>3, FrameLemma, NobodyLemma
<1>4. QED
  BY <1>2, <1>3 DEF Inductive

\* A step that moves neither branch, root clone nor commits.
LEMMA RootQuiet ==
    ASSUME RootFollowsBranch, UNCHANGED <<commits, remote, rootHead, commitSha>>
    PROVE  RootFollowsBranch'
  BY DEF RootFollowsBranch, History

\* The root clone catches up, and with it commitSha or not.
LEMMA RootCatchesUp ==
    ASSUME Inductive, UNCHANGED <<commits, remote>>, rootHead' = remote,
           commitSha' \in {commitSha, remote}
    PROVE  RootFollowsBranch'
<1>1. remote \in CommitIds /\ rootHead \in CommitIds
  BY DEF Inductive, TypeOK
<1>2. remote \in History(remote) /\ commitSha \in History(remote)
  BY <1>1 DEF Inductive, GraphOK, RootFollowsBranch
<1>3. QED
  BY <1>2 DEF RootFollowsBranch, History

\* The forced push of the root clone leaves the root clone on the branch.
LEMMA RootForces ==
    ASSUME Inductive, UNCHANGED <<commits, rootHead, commitSha>>, remote' = rootHead
    PROVE  RootFollowsBranch'
<1>1. rootHead \in History(rootHead) /\ commitSha \in History(rootHead)
  BY DEF Inductive, TypeOK, GraphOK, RootFollowsBranch
<1>2. QED
  BY <1>1 DEF RootFollowsBranch, History

LEMMA SetupStep ==
    ASSUME Inductive, NEW s \in Sessions, Setup(s) PROVE Inductive'
<1>1. TypeOK /\ TypeOK' /\ RootFollowsBranch /\ SessionOK(s)
  BY SetupType DEF Inductive
<1>2. UNCHANGED commits
  BY DEF Setup, InitPull, InitPullFail, InitRecover, InitForcePush, InitRecoverFail,
         AddWorktree, CopyStore
<1>3. pc \in [Sessions -> Phases] /\ start \in [Sessions -> CommitIds]
      /\ base \in [Sessions -> CommitIds]
  BY <1>1 DEF TypeOK
<1>4. /\ UNCHANGED <<tree, change>>
      /\ pc[s] \in {"idle", "recover", "force", "add", "copy"}
      /\ pc'[s] \in {"recover", "force", "add", "copy", "handle"}
      /\ \A r \in Sessions \ {s} : UNCHANGED Own(r)
  BY <1>3 DEF Setup, InitPull, InitPullFail, InitRecover, InitForcePush, InitRecoverFail,
         AddWorktree, CopyStore, Own, wtVars
<1>5. /\ start'[s] # start[s] => pc[s] = "add"
      /\ pc'[s] \in {"copy", "handle"} => base'[s] = start'[s]
  BY <1>1, <1>3 DEF Setup, InitPull, InitPullFail, InitRecover, InitForcePush, InitRecoverFail,
         AddWorktree, CopyStore, wtVars, SessionOK, BeforeCommit
<1>6. RootFollowsBranch'
  <2>1. CASE InitPull(s) \/ InitRecover(s)
    BY <2>1, RootCatchesUp DEF InitPull, InitRecover
  <2>2. CASE InitForcePush(s)
    BY <2>2, RootForces DEF InitForcePush, rootVars
  <2>3. CASE InitPullFail(s) \/ InitRecoverFail(s) \/ AddWorktree(s) \/ CopyStore(s)
    BY <1>1, <2>3, RootQuiet DEF InitPullFail, InitRecoverFail, AddWorktree, CopyStore, rootVars
  <2>4. QED
    BY <2>1, <2>2, <2>3 DEF Setup
<1>7. SessionOK(s)'
  <2>1. tree'[s] = "clean" /\ \A i \in CommitIds' : commits'[i].by # s
    BY <1>1, <1>2, <1>4 DEF SessionOK, BeforeCommit, CommitIds
  <2>2. QED
    BY <1>4, <1>5, <2>1 DEF SessionOK, BeforeCommit, Rebasable, NotYetLanded, Saving
<1>8. QED
  BY <1>1, <1>2, <1>4, <1>5, <1>6, <1>7, QuietStep

LEMMA WriteStep ==
    ASSUME Inductive, TypeOK', NEW s \in Sessions, NEW req \in Change, pc[s] = "handle",
           WriteAndCommit(s, req)
    PROVE  Inductive'
<1>1. TypeOK /\ RootFollowsBranch /\ SessionOK(s) /\ GraphOK
  BY DEF Inductive
<1>2. /\ UNCHANGED <<commits, remote, rootHead, commitSha, tree, start, base>>
      /\ pc'[s] = "pull"
      /\ \A r \in Sessions \ {s} : UNCHANGED Own(r)
      /\ \A f \in Files : change'[s][f] # Keep => change'[s][f] = req[f]
  BY <1>1 DEF WriteAndCommit, rootVars, Own, TypeOK
<1>3. tree[s] = "clean" /\ base[s] = start[s] /\ \A i \in CommitIds : commits[i].by # s
  BY <1>1 DEF SessionOK, BeforeCommit
<1>4. SessionOK(s)'
  <2>1. BeforeCommit(s)'
    BY <1>2 DEF BeforeCommit
  <2>2. Rebasable(s)'
    BY <1>2, <1>3 DEF Rebasable, TreeOf
  <2>3. NotYetLanded(s)'
    BY <1>2, <1>3 DEF NotYetLanded, LandedIn, CommitIds
  <2>4. QED
    BY <2>1, <2>2, <2>3 DEF SessionOK
<1>5. RootFollowsBranch'
  BY <1>1, <1>2, RootQuiet
<1>6. QED
  BY <1>2, <1>4, <1>5, QuietStep

LEMMA HandleStep ==
    ASSUME Inductive, NEW s \in Sessions, Handle(s) PROVE Inductive'
<1>1. TypeOK /\ TypeOK' /\ RootFollowsBranch
  BY HandleType DEF Inductive
<1>2. ASSUME NEW FS \in WriteSets, NEW f \in FS, HandleCreate(s, f, FS) \/ HandleEdit(s, f, FS)
      PROVE  Inductive'
  BY <1>1, <1>2, WriteStep, ValuesLemma, SetsAssumption DEF HandleCreate, HandleEdit
<1>3. ASSUME NEW FS \in WriteSets, HandleDelete(s, FS) PROVE Inductive'
  BY <1>1, <1>3, WriteStep, ValuesLemma, SetsAssumption DEF HandleDelete
<1>4. CASE HandleReject(s) \/ HandleOnly(s)
  <2>1. /\ UNCHANGED <<commits, remote, rootHead, commitSha, start>>
        /\ pc'[s] \in {"finally", "done"}
        /\ \A r \in Sessions \ {s} : UNCHANGED Own(r)
    BY <1>1, <1>4 DEF HandleReject, HandleOnly, rootVars, wtVars, Own, TypeOK
  <2>2. SessionOK(s)'
    BY <2>1 DEF SessionOK, BeforeCommit, Rebasable, NotYetLanded, Saving
  <2>3. QED
    BY <1>1, <2>1, <2>2, RootQuiet, QuietStep
<1>5. QED
  BY <1>2, <1>3, <1>4 DEF Handle

LEMMA DeployStep ==
    ASSUME Inductive, NEW s \in Sessions, Deploy(s) PROVE Inductive'
<1>1. TypeOK /\ TypeOK' /\ RootFollowsBranch
  BY DeployType DEF Inductive
<1>2. /\ UNCHANGED <<commits, remote, start>>
      /\ pc'[s] \in {"set", "finally", "done"}
      /\ \A r \in Sessions \ {s} : UNCHANGED Own(r)
  BY <1>1 DEF Deploy, RootPull, RootPullFail, SetStore, Finish, rootVars, wtVars, Own, TypeOK
<1>3. RootFollowsBranch'
  <2>1. CASE RootPull(s)
    BY <2>1, RootCatchesUp DEF RootPull
  <2>2. CASE RootPullFail(s) \/ SetStore(s) \/ Finish(s)
    BY <1>1, <2>2, RootQuiet DEF RootPullFail, SetStore, Finish, rootVars
  <2>3. QED
    BY <2>1, <2>2 DEF Deploy
<1>4. SessionOK(s)'
  BY <1>2 DEF SessionOK, BeforeCommit, Rebasable, NotYetLanded, Saving
<1>5. QED
  BY <1>1, <1>2, <1>3, <1>4, QuietStep

LEMMA PollStep ==
    ASSUME Inductive, Poll PROVE Inductive'
<1>1. TypeOK /\ TypeOK' /\ RootFollowsBranch
  BY PollType DEF Inductive
<1>2. UNCHANGED <<commits, pc, tree, start, base, change>>
  BY DEF Poll, PollLsRemote, PollCompare, PollPull, PollPullFail, PollRecover,
         PollForcePush, PollRecoverFail, LoadFile, LoadSwap, wtVars
<1>3. RootFollowsBranch'
  <2>1. CASE PollPull \/ PollRecover
    BY <2>1, RootCatchesUp DEF PollPull, PollRecover
  <2>2. CASE PollForcePush
    BY <2>2, RootForces DEF PollForcePush, rootVars
  <2>3. CASE \/ PollLsRemote \/ PollCompare \/ PollPullFail \/ PollRecoverFail
             \/ LoadSwap \/ \E f \in Files : LoadFile(f)
    BY <1>1, <2>3, RootQuiet DEF PollLsRemote, PollCompare, PollPullFail, PollRecoverFail,
       LoadSwap, LoadFile, rootVars
  <2>4. QED
    BY <2>1, <2>2, <2>3 DEF Poll
<1>4. QED
  BY <1>1, <1>2, <1>3, QuietStep, NobodyLemma DEF Own

LEMMA RestartStep ==
    ASSUME Inductive, Restart PROVE Inductive'
<1>1. TypeOK /\ TypeOK' /\ RootFollowsBranch /\ GraphOK
  BY RestartType DEF Inductive
<1>2. /\ UNCHANGED <<commits, remote, start>>
      /\ rootHead' = remote /\ commitSha' = remote /\ base' = start
      /\ \A s \in Sessions : /\ pc'[s] = IF Begun(s) THEN "done" ELSE "idle"
                             /\ tree'[s] = "clean"
  BY DEF Restart
<1>3. RootFollowsBranch'
  BY <1>2, RootCatchesUp
<1>4. GraphOK' /\ FirstCommitterWins' /\ SingleLanding'
  BY <1>2, QuietLemma
<1>5. ASSUME NEW s \in Sessions PROVE SessionOK(s)'
  <2>1. pc[s] \in Phases /\ SessionOK(s)
    BY <1>1 DEF TypeOK, Inductive
  <2>2. ~Begun(s) => \A i \in CommitIds : commits[i].by # s
    BY <2>1 DEF Begun, SessionOK, BeforeCommit
  <2>3. QED
    BY <1>2, <2>2 DEF SessionOK, BeforeCommit, Rebasable, NotYetLanded, Saving, CommitIds
<1>6. QED
  BY <1>1, <1>3, <1>4, <1>5 DEF Inductive

LEMMA ExternalStep ==
    ASSUME Inductive, NEW e \in Externals, ExternalCommit(e) PROVE Inductive'
<1>1. TypeOK /\ TypeOK' /\ GraphOK
  BY ExternalType DEF Inductive
<1>2. PICK f \in Files, v \in {e, Absent} :
        PushNew([TreeOf(remote) EXCEPT ![f] = v], e, remote)
  BY DEF ExternalCommit
<1>3. remote \in CommitIds /\ [TreeOf(remote) EXCEPT ![f] = v] \in Tree
  BY <1>1, CommitLemma, ValuesLemma DEF TypeOK, Tree
<1>4. remote \in History(remote) /\ e \notin Sessions
  BY <1>1, <1>3, NamesAssumption DEF GraphOK
<1>5. UNCHANGED <<rootHead, commitSha, pc, tree, start, base, change>>
  BY DEF ExternalCommit, rootVars, wtVars
<1>6. GraphOK' /\ RootFollowsBranch' /\ FirstCommitterWins' /\ SingleLanding' /\ Grows(e)
  BY <1>2, <1>3, <1>4, <1>5, PushedLemma
<1>7. \A r \in Sessions : SessionOK(r)'
  BY <1>4, <1>5, <1>6, FrameLemma DEF Own
<1>8. QED
  BY <1>1, <1>6, <1>7 DEF Inductive

LEMMA RetryLemma ==
    ASSUME TypeOK, NEW s \in Sessions, Retry(s)
    PROVE  /\ pc'[s] \in {"pull", "finally"}
           /\ \A r \in Sessions \ {s} : pc'[r] = pc[r]
  BY DEF Retry, TypeOK

\* A session whose worktree is left as it is keeps its part of Inductive.
LEMMA SameWorktree ==
    ASSUME Inductive, NEW a, Grows(a), NEW s \in Sessions, pc[s] \in {"pull", "push"},
           pc'[s] \notin {"idle", "recover", "force", "add", "copy", "handle"},
           UNCHANGED <<tree, start, base, change>>
    PROVE  SessionOK(s)'
<1>1. TypeOK /\ GraphOK /\ SessionOK(s)
  BY DEF Inductive
<1>2. base[s] \in CommitIds /\ start[s] \in CommitIds
  BY <1>1 DEF TypeOK
<1>3. BeforeCommit(s)'
  BY DEF BeforeCommit
<1>4. TreeOf(base[s])' = TreeOf(base[s]) /\ TreeOf(start[s])' = TreeOf(start[s])
  BY <1>2 DEF Grows, TreeOf
<1>5. LandedIn(s, base[s])' <=> LandedIn(s, base[s])
  BY <1>1, <1>2, HistoryLemma DEF LandedIn, Grows, History
<1>6. Rebasable(s)'
  BY <1>1, <1>4 DEF SessionOK, Rebasable, Saving
<1>7. NotYetLanded(s)'
  BY <1>1, <1>5 DEF SessionOK, NotYetLanded, Saving, NoChange
<1>8. QED
  BY <1>3, <1>6, <1>7 DEF SessionOK

\* A rebase that keeps only changes the remote tip does not contradict.
LEMMA RebasedStep ==
    ASSUME Inductive, TypeOK', NEW s \in Sessions, NEW kept \in Change, Rebased(s, kept),
           UNCHANGED <<commits, remote, rootHead, commitSha, tree, start>>,
           \A f \in Files : kept[f] # Keep =>
               TreeOf(remote)[f] \in {TreeOf(start[s])[f], kept[f]}
    PROVE  Inductive'
<1>1. TypeOK /\ RootFollowsBranch
  BY DEF Inductive
<1>2. /\ pc'[s] = "push" /\ base'[s] = remote
      /\ change'[s] = IF LandedIn(s, remote) THEN NoChange ELSE kept
      /\ \A r \in Sessions \ {s} : UNCHANGED Own(r)
  BY <1>1 DEF Rebased, TypeOK, Own
<1>3. BeforeCommit(s)'
  BY <1>2 DEF BeforeCommit
<1>4. Rebasable(s)'
  BY <1>2 DEF Rebasable, TreeOf, NoChange
<1>5. NotYetLanded(s)'
  BY <1>2 DEF NotYetLanded, LandedIn, CommitIds, History, NoChange
<1>6. RootFollowsBranch'
  BY <1>1, RootQuiet
<1>7. QED
  BY <1>2, <1>3, <1>4, <1>5, <1>6, QuietStep DEF SessionOK

\* A push of the session's own commit, whether its answer arrives or not.
LEMMA OwnPushStep ==
    ASSUME Inductive, TypeOK', NEW s \in Sessions, pc[s] = "push", FastForwards(base[s]),
           OwnCommit(s), PushNew(Apply(TreeOf(base[s]), change[s]), s, base[s]),
           PushUnchanged, pc'[s] \in {"pull", "rootpull", "finally"},
           \A r \in Sessions \ {s} : pc'[r] = pc[r]
    PROVE  Inductive'
<1>. DEFINE t == Apply(TreeOf(base[s]), change[s])
<1>1. TypeOK /\ GraphOK /\ SessionOK(s)
  BY DEF Inductive
<1>2. base[s] \in CommitIds /\ change[s] \in Change /\ t \in Tree
  BY <1>1, CommitLemma, ValuesLemma DEF TypeOK
<1>3. UNCHANGED <<rootHead, commitSha, tree, start, base, change>>
  BY DEF PushUnchanged, rootVars
<1>4. Saving(s)
  BY DEF OwnCommit, Saving
<1>5. t # TreeOf(base[s])
  BY DEF OwnCommit
<1>6. change[s] # NoChange
  <2>1. SUFFICES ASSUME change[s] = NoChange PROVE t = TreeOf(base[s])
    BY <1>5
  <2>2. TreeOf(base[s]) \in Tree
    BY <1>1, <1>2, CommitLemma
  <2>3. QED
    BY <2>1, <2>2 DEF Apply, NoChange, Tree
<1>7. ~LandedIn(s, base[s])
  BY <1>1, <1>4, <1>6 DEF SessionOK, NotYetLanded
<1>8. \A f \in Files : t[f] # TreeOf(base[s])[f] =>
                       TreeOf(base[s])[f] = TreeOf(start[s])[f]
  BY <1>1, <1>4 DEF SessionOK, Rebasable, Apply
<1>9. remote \in History(base[s])
  BY DEF FastForwards
<1>. HIDE DEF t
<1>10. GraphOK' /\ RootFollowsBranch' /\ FirstCommitterWins' /\ SingleLanding' /\ Grows(s)
  <2>1. PushNew(t, s, base[s])
    BY DEF t
  <2>2. QED
    BY <1>2, <1>3, <1>7, <1>8, <1>9, <2>1, PushedLemma
<1>11. SessionOK(s)'
  BY <1>3, <1>10, SameWorktree
<1>12. \A r \in Sessions \ {s} : SessionOK(r)'
  BY <1>3, <1>10, FrameLemma DEF Own
<1>13. QED
  BY <1>10, <1>11, <1>12 DEF Inductive

LEMMA SaveStep ==
    ASSUME Inductive, NEW s \in Sessions, Save(s) PROVE Inductive'
<1>1. TypeOK /\ TypeOK' /\ GraphOK /\ RootFollowsBranch /\ SessionOK(s)
  BY SaveType DEF Inductive
<1>2. CASE SavePull(s)
  <2>1. /\ Saving(s) /\ change[s] \in Change /\ Rebased(s, change[s])
        /\ UNCHANGED <<commits, remote, rootHead, commitSha, tree, start>>
    BY <1>1, <1>2 DEF SavePull, PullUnchanged, rootVars, Saving, TypeOK
  <2>2. CASE Conflicts(s) = {}
    <3>1. \A f \in Files : change[s][f] # Keep =>
             TreeOf(remote)[f] \in {TreeOf(start[s])[f], change[s][f]}
      BY <1>1, <2>1, <2>2 DEF Conflicts, SessionOK, Rebasable
    <3>2. QED
      BY <1>1, <2>1, <3>1, RebasedStep
  <2>3. CASE LandedIn(s, remote)
    <3>1. NoChange \in Change /\ Rebased(s, NoChange)
      BY <2>1, <2>3, ValuesLemma DEF Rebased
    <3>2. QED
      BY <1>1, <2>1, <3>1, RebasedStep DEF NoChange
  <2>4. QED
    BY <1>2, <2>2, <2>3 DEF SavePull
<1>3. CASE SavePullConflict(s) \/ SavePullUnmerged(s) \/ SavePullDetached(s) \/ SavePullStuck(s)
  <2>1. /\ tree'[s] # "clean"
        /\ pc'[s] \in {"pull", "push", "finally"}
        /\ UNCHANGED <<commits, remote, rootHead, commitSha, start>>
        /\ \A r \in Sessions \ {s} : UNCHANGED Own(r)
    BY <1>1, <1>3, RetryLemma DEF SavePullConflict, SavePullUnmerged, SavePullDetached,
       SavePullStuck, PullUnchanged, rootVars, TypeOK, Own
  <2>2. SessionOK(s)'
    BY <2>1 DEF SessionOK, BeforeCommit, Rebasable, NotYetLanded, Saving
  <2>3. QED
    BY <1>1, <2>1, <2>2, RootQuiet, QuietStep
<1>4. CASE \/ SavePullFail(s)
           \/ SavePushRejected(s)
           \/ SavePushFail(s) /\ UNCHANGED <<commits, remote>>
  <2>1. /\ pc[s] \in {"pull", "push"} /\ pc'[s] \in {"pull", "finally"}
        /\ UNCHANGED <<commits, remote, rootHead, commitSha, tree, start, base, change>>
        /\ \A r \in Sessions \ {s} : pc'[r] = pc[r]
    BY <1>1, <1>4, RetryLemma DEF SavePullFail, SavePushRejected, SavePushFail, PullUnchanged,
       PushUnchanged, rootVars
  <2>2. SessionOK(s)'
    BY <2>1, QuietLemma, SameWorktree
  <2>3. QED
    BY <1>1, <2>1, <2>2, RootQuiet, QuietStep DEF Own
<1>5. CASE SaveRecover(s)
  <2>. DEFINE kept == [f \in Files |-> IF f \in Conflicts(s) THEN Keep ELSE change[s][f]]
  <2>1. Saving(s) /\ UNCHANGED <<commits, remote, rootHead, commitSha, start>>
    BY <1>5 DEF SaveRecover, PullUnchanged, rootVars, Saving
  <2>2. CASE ~LandedIn(s, remote) /\ Unsettled(s) # {}
    <3>1. /\ tree'[s] # "clean" /\ pc'[s] \in {"pull", "finally"}
          /\ \A r \in Sessions \ {s} : UNCHANGED Own(r)
      BY <1>1, <1>5, <2>1, <2>2, RetryLemma DEF SaveRecover, TypeOK, Own
    <3>2. SessionOK(s)'
      BY <3>1 DEF SessionOK, BeforeCommit, Rebasable, NotYetLanded, Saving
    <3>3. QED
      BY <1>1, <2>1, <3>1, <3>2, RootQuiet, QuietStep
  <2>3. CASE ~(~LandedIn(s, remote) /\ Unsettled(s) # {})
    <3>1. Rebased(s, kept) /\ UNCHANGED tree
      BY <1>5, <2>3 DEF SaveRecover
    <3>2. kept \in Change
      BY <1>1 DEF TypeOK, Change
    <3>3. \A f \in Files : kept[f] # Keep =>
             TreeOf(remote)[f] \in {TreeOf(start[s])[f], kept[f]}
      BY <1>1, <2>1 DEF Conflicts, SessionOK, Rebasable
    <3>. HIDE DEF kept
    <3>4. QED
      BY <1>1, <2>1, <3>1, <3>2, <3>3, RebasedStep
  <2>4. QED
    BY <2>2, <2>3
<1>6. CASE (SavePush(s) \/ SavePushFail(s)) /\ OwnCommit(s) /\ FastForwards(base[s])
           /\ PushNew(Apply(TreeOf(base[s]), change[s]), s, base[s])
  <2>1. /\ pc[s] = "push" /\ PushUnchanged /\ pc'[s] \in {"pull", "rootpull", "finally"}
        /\ \A r \in Sessions \ {s} : pc'[r] = pc[r]
    BY <1>1, <1>6, RetryLemma DEF SavePush, SavePushFail, TypeOK
  <2>2. QED
    BY <1>1, <1>6, <2>1, OwnPushStep
<1>7. CASE SavePush(s) /\ ~OwnCommit(s)
  <2>1. /\ pc[s] = "push" /\ pc'[s] = "rootpull"
        /\ remote' = base[s] /\ remote \in History(base[s])
        /\ UNCHANGED <<commits, rootHead, commitSha, tree, start, base, change>>
        /\ \A r \in Sessions \ {s} : pc'[r] = pc[r]
    BY <1>1, <1>7 DEF SavePush, PushUnchanged, rootVars, FastForwards, TypeOK
  <2>2. SessionOK(s)'
    BY <2>1, QuietLemma, SameWorktree
  <2>3. RootFollowsBranch'
    <3>1. base[s] \in CommitIds
      BY <1>1 DEF TypeOK
    <3>2. rootHead \in History(base[s])
      BY <1>1, <2>1, <3>1 DEF GraphOK, RootFollowsBranch
    <3>3. QED
      BY <1>1, <2>1, <3>2 DEF RootFollowsBranch, History
  <2>4. QED
    BY <1>1, <2>1, <2>2, <2>3, QuietStep DEF Own
<1>8. SavePush(s) => Inductive'
  BY <1>6, <1>7 DEF SavePush
<1>9. SavePushFail(s) => Inductive'
  BY <1>4, <1>6 DEF SavePushFail
<1>10. QED
  BY <1>2, <1>3, <1>4, <1>5, <1>8, <1>9 DEF Save

LEMMA InitInductive == Init => Inductive
<1>1. SUFFICES ASSUME Init PROVE Inductive
  OBVIOUS
<1>2. TypeOK
  BY <1>1, InitType
<1>3. /\ CommitIds = {1} /\ commits[1].by = Nobody /\ History(1) = {1}
      /\ remote = 1 /\ rootHead = 1 /\ commitSha = 1
      /\ \A s \in Sessions : pc[s] = "idle" /\ tree[s] = "clean"
  BY <1>1 DEF Init, CommitIds, History
<1>4. GraphOK /\ RootFollowsBranch /\ SingleLanding
  BY <1>3 DEF GraphOK, RootFollowsBranch, SingleLanding
<1>5. FirstCommitterWins
  BY <1>3, NobodyLemma DEF FirstCommitterWins
<1>6. \A s \in Sessions : SessionOK(s)
  BY <1>3, NobodyLemma DEF SessionOK, BeforeCommit, Rebasable, NotYetLanded, Saving
<1>7. QED
  BY <1>2, <1>4, <1>5, <1>6 DEF Inductive

LEMMA NextInductive == Inductive /\ [Next]_vars => Inductive'
<1>1. SUFFICES ASSUME Inductive, [Next]_vars PROVE Inductive'
  OBVIOUS
<1>2. CASE UNCHANGED vars
  <2>1. TypeOK' /\ RootFollowsBranch
    BY <1>1, NextType DEF Inductive
  <2>2. /\ UNCHANGED <<commits, remote, rootHead, commitSha>>
        /\ UNCHANGED <<pc, tree, start, base, change>>
    BY <1>2 DEF vars, rootVars, wtVars
  <2>3. QED
    BY <1>1, <2>1, <2>2, RootQuiet, QuietStep, NobodyLemma DEF Own
<1>3. CASE Next
  BY <1>1, <1>3, ExternalStep, SetupStep, HandleStep, SaveStep, DeployStep, PollStep,
     RestartStep DEF Next, Session
<1>4. QED
  BY <1>1, <1>2, <1>3

\* The invariant holds for any number of sessions, files, retries and failures.
THEOREM InductiveInvariant == Spec => []Inductive
<1>1. QED
  BY InitInductive, NextInductive, PTL DEF Spec

\* Between concurrent pulls, recoveries and forced pushes the root clone never
\* holds history that is not on the branch.
THEOREM RootOnBranch == Spec => []RootFollowsBranch
<1>1. Inductive => RootFollowsBranch
  BY DEF Inductive
<1>2. QED
  BY <1>1, InductiveInvariant, PTL

\* No deployment of a session replaces what somebody else has committed to a file
\* since the session's worktree was created, whatever pushWithRetry went through.
THEOREM NoLostUpdate == Spec => []FirstCommitterWins
<1>1. Inductive => FirstCommitterWins
  BY DEF Inductive
<1>2. QED
  BY <1>1, InductiveInvariant, PTL

\* However often a push is retried, the branch holds one commit of the session.
THEOREM PushedOnce == Spec => []AtMostOnce
<1>1. Inductive => AtMostOnce
  BY DEF Inductive, TypeOK, SingleLanding, AtMostOnce
<1>2. QED
  BY <1>1, InductiveInvariant, PTL

\* A push on top of a commit that descends from the tip extends the branch.
LEMMA PushExtends ==
    ASSUME TypeOK, NEW t \in Tree, NEW a \in Sessions \cup Externals,
           NEW onto \in CommitIds, PushNew(t, a, onto), remote \in History(onto)
    PROVE  remote \in commits'[remote'].anc
<1>1. PICK n : n = Len(commits) + 1
  OBVIOUS
<1>2. /\ remote' = n
      /\ commits'[n] = [tree |-> t, by |-> a, parent |-> onto, anc |-> History(onto) \cup {n}]
  BY <1>1, PushNewLemma
<1>3. commits'[n].anc = History(onto) \cup {n}
  BY <1>2
<1>4. QED
  BY <1>2, <1>3

LEMMA BranchStep ==
    ASSUME Inductive, Next PROVE ForcedPush \/ remote \in commits'[remote'].anc
<1>1. TypeOK /\ GraphOK /\ remote \in CommitIds
  BY DEF Inductive, TypeOK
<1>2. remote \in History(remote)
  BY <1>1 DEF GraphOK
<1>3. ASSUME UNCHANGED <<commits, remote>> PROVE remote \in commits'[remote'].anc
  BY <1>2, <1>3 DEF History
<1>4. ASSUME NEW e \in Externals, ExternalCommit(e)
      PROVE  remote \in commits'[remote'].anc
  <2>1. PICK f \in Files, v \in {e, Absent} :
          PushNew([TreeOf(remote) EXCEPT ![f] = v], e, remote)
    BY <1>4 DEF ExternalCommit
  <2>2. [TreeOf(remote) EXCEPT ![f] = v] \in Tree
    BY <1>1, <1>4, CommitLemma, ValuesLemma DEF Tree
  <2>3. QED
    BY <1>1, <1>2, <2>1, <2>2, PushExtends
<1>5. ASSUME NEW s \in Sessions, Setup(s)
      PROVE  ForcedPush \/ remote \in commits'[remote'].anc
  <2>1. CASE InitForcePush(s)
    BY <1>1, <1>5, <2>1 DEF InitForcePush, ForcedPush, TypeOK
  <2>2. CASE ~InitForcePush(s)
    BY <1>3, <1>5, <2>2 DEF Setup, InitPull, InitPullFail, InitRecover, InitRecoverFail,
       AddWorktree, CopyStore
  <2>3. QED
    BY <2>1, <2>2
<1>6. ASSUME NEW s \in Sessions, Handle(s) \/ Deploy(s)
      PROVE  remote \in commits'[remote'].anc
  BY <1>3, <1>6 DEF Handle, HandleCreate, HandleEdit, HandleDelete, HandleReject, HandleOnly,
     WriteAndCommit, Deploy, RootPull, RootPullFail, SetStore, Finish
<1>7. ASSUME NEW s \in Sessions, Save(s)
      PROVE  remote \in commits'[remote'].anc
  <2>1. base[s] \in CommitIds /\ Apply(TreeOf(base[s]), change[s]) \in Tree
    BY <1>1, CommitLemma, ValuesLemma DEF TypeOK
  <2>2. CASE UNCHANGED <<commits, remote>>
    BY <1>3, <2>2
  <2>3. CASE /\ FastForwards(base[s])
             /\ PushNew(Apply(TreeOf(base[s]), change[s]), s, base[s])
    BY <1>1, <2>1, <2>3, PushExtends DEF FastForwards
  <2>4. CASE FastForwards(base[s]) /\ remote' = base[s] /\ UNCHANGED commits
    BY <2>4 DEF FastForwards, History
  <2>5. CASE ~SavePush(s) /\ ~SavePushFail(s)
    BY <1>7, <2>2, <2>5 DEF Save, SavePull, SavePullConflict, SavePullUnmerged,
       SavePullDetached, SavePullStuck, SavePullFail, SaveRecover, SavePushRejected, PullUnchanged
  <2>6. QED
    BY <2>2, <2>3, <2>4, <2>5 DEF SavePush, SavePushFail
<1>8. ASSUME Poll PROVE ForcedPush \/ remote \in commits'[remote'].anc
  BY <1>3, <1>8 DEF Poll, PollLsRemote, PollCompare, PollPull, PollPullFail, PollRecover,
     PollForcePush, PollRecoverFail, LoadFile, LoadSwap, ForcedPush
<1>9. Restart => remote \in commits'[remote'].anc
  BY <1>3 DEF Restart
<1>10. QED
  BY <1>4, <1>5, <1>6, <1>7, <1>8, <1>9 DEF Next, Session

\* Only the forced push of a recovering root clone takes commits off the branch.
THEOREM BranchOnlyGrows == Spec => OnlyRecoveryRewrites
<1>1. Inductive /\ [Next]_vars => [ForcedPush \/ remote \in commits'[remote'].anc]_vars
  BY BranchStep
<1>2. QED
  BY <1>1, InductiveInvariant, PTL DEF Spec, OnlyRecoveryRewrites

-----------------------------------------------------------------------------
(* What an answer of the API means: GitOps preserves AnswerInductive.      *)

\* What DeliveryOK(r) depends on besides the commits.
OwnAnswer(r) ==
    <<pc[r], tree[r], start[r], base[r], change[r], request[r], outcome[r]>>

Early == {"idle", "recover", "force", "add", "copy", "handle"}

\* Nothing is forgotten while no commit is added.
LEMMA SameCommits ==
    ASSUME AnswerInductive, UNCHANGED commits
    PROVE  Rooted' /\ EditsBetween' /\ \A a : Grows(a)
<1>1. CommitIds' = CommitIds
  BY DEF CommitIds
<1>2. Rooted' /\ EditsBetween'
  BY <1>1 DEF AnswerInductive, Rooted, EditsBetween, Edits, History, TreeOf
<1>3. QED
  BY <1>1, <1>2 DEF Grows

\* The commit an edit is compared with exists.
LEMMA EditLemma ==
    ASSUME AnswerInductive, NEW a, Grows(a), NEW i \in CommitIds, i # 1, NEW f \in Files
    PROVE  /\ commits[i].parent \in CommitIds
           /\ Edits(i, f)' <=> Edits(i, f)
<1>1. TypeOK /\ GraphOK
  BY DEF AnswerInductive, Inductive
<1>2. commits[i].parent \in History(i)
  BY <1>1 DEF AnswerInductive, Rooted, GraphOK
<1>3. commits[i].parent \in CommitIds
  BY <1>1, <1>2, HistoryLemma
<1>4. commits'[i] = commits[i] /\ commits'[commits[i].parent] = commits[commits[i].parent]
  BY <1>3 DEF Grows
<1>5. commits'[commits'[i].parent] = commits[commits[i].parent]
  BY <1>4
<1>6. QED
  BY <1>3, <1>4, <1>5 DEF Edits, TreeOf

\* A commit on top of another one goes back to the first as that does, and
\* differs from its ancestors by what it edits itself or by what they differ in.
LEMMA NewCommit ==
    ASSUME AnswerInductive, NEW t \in Tree, NEW a \in Sessions \cup Externals,
           NEW onto \in CommitIds, PushNew(t, a, onto)
    PROVE  Rooted' /\ EditsBetween' /\ Grows(a)
<1>. PICK n : n = Len(commits) + 1
  OBVIOUS
<1>1. TypeOK /\ GraphOK
  BY DEF AnswerInductive, Inductive
<1>2. /\ CommitIds' = CommitIds \cup {n} /\ n \notin CommitIds
      /\ \A i \in CommitIds : commits'[i] = commits[i]
      /\ commits'[n] = [tree |-> t, by |-> a, parent |-> onto,
                        anc |-> History(onto) \cup {n}]
  BY <1>1, PushNewLemma
<1>3. Grows(a)
  BY <1>2 DEF Grows
<1>4. \A c \in CommitIds : TreeOf(c)' = TreeOf(c) /\ History(c)' = History(c)
  BY <1>1, <1>3, GrowsLemma
<1>5. TreeOf(n)' = t /\ History(n)' = History(onto) \cup {n} /\ a # Nobody
  BY <1>2, NobodyLemma DEF TreeOf, History
<1>6. Rooted'
  <2>1. \A i \in CommitIds : 1 \in History(i)' /\ (i # 1 => commits'[i].by # Nobody)
    BY <1>2, <1>4 DEF AnswerInductive, Rooted
  <2>2. 1 \in History(n)' /\ commits'[n].by # Nobody
    BY <1>2, <1>5 DEF AnswerInductive, Rooted
  <2>3. QED
    BY <1>2, <2>1, <2>2 DEF Rooted
<1>7. ASSUME NEW c \in CommitIds, NEW b \in History(c), NEW f \in Files,
             TreeOf(c)[f] # TreeOf(b)[f]
      PROVE  \E i \in History(c) \ History(b) : Edits(i, f)'
  <2>1. PICK i \in History(c) \ History(b) : Edits(i, f)
    BY <1>7 DEF AnswerInductive, EditsBetween
  <2>2. b \in CommitIds /\ i \in CommitIds
    BY <1>1, HistoryLemma
  <2>3. i # 1
    BY <2>1, <2>2 DEF AnswerInductive, Rooted
  <2>4. QED
    BY <1>3, <2>1, <2>2, <2>3, EditLemma
<1>8. ASSUME NEW c \in CommitIds', NEW b \in History(c)', NEW f \in Files,
             (TreeOf(c)')[f] # (TreeOf(b)')[f]
      PROVE  \E i \in History(c)' \ History(b)' : Edits(i, f)'
  <2>1. CASE c \in CommitIds
    <3>1. b \in History(c) /\ b \in CommitIds
      BY <1>1, <1>4, <1>8, <2>1, HistoryLemma
    <3>2. QED
      BY <1>4, <1>7, <1>8, <2>1, <3>1
  <2>2. CASE c = n
    <3>1. b \in History(onto)
      BY <1>5, <1>8, <2>2
    <3>2. b \in CommitIds /\ onto \in CommitIds /\ n \notin History(b)
      BY <1>1, <1>2, <3>1, HistoryLemma
    <3>3. CASE t[f] # TreeOf(onto)[f]
      <4>1. Edits(n, f)'
        BY <1>2, <1>4, <1>5, <3>3 DEF Edits, TreeOf
      <4>2. QED
        BY <1>4, <1>5, <2>2, <3>2, <4>1
    <3>4. CASE t[f] = TreeOf(onto)[f]
      <4>1. TreeOf(onto)[f] # TreeOf(b)[f]
        BY <1>4, <1>5, <1>8, <2>2, <3>2, <3>4
      <4>2. PICK i \in History(onto) \ History(b) : Edits(i, f)'
        BY <1>7, <3>1, <4>1
      <4>3. QED
        BY <1>4, <1>5, <2>2, <3>2, <4>2
    <3>5. QED
      BY <3>3, <3>4
  <2>3. QED
    BY <1>2, <2>1, <2>2
<1>9. EditsBetween'
  BY <1>8 DEF EditsBetween, History, TreeOf, CommitIds, Edits
<1>10. QED
  BY <1>3, <1>6, <1>9

\* What has been delivered stays so, whoever commits what.
LEMMA DeliveredStays ==
    ASSUME AnswerInductive, NEW a, Grows(a), NEW r \in Sessions,
           start'[r] = start[r], request'[r] = request[r]
    PROVE  /\ Missing(r)' \subseteq Missing(r)
           /\ Delivered(r) => Delivered(r)'
<1>1. TypeOK /\ GraphOK /\ start[r] \in CommitIds
  BY DEF AnswerInductive, Inductive, TypeOK
<1>2. \A i \in CommitIds : i \in CommitIds' /\ TreeOf(i)' = TreeOf(i) /\ commits'[i] = commits[i]
  BY <1>1, GrowsLemma DEF Grows
<1>3. Missing(r)' \subseteq Missing(r)
  BY <1>2 DEF Missing
<1>4. ASSUME NEW f \in Files, Overtaken(r, f) PROVE Overtaken(r, f)'
  <2>1. PICK i \in CommitIds \ History(start[r]) : commits[i].by # r /\ Edits(i, f)
    BY <1>4 DEF Overtaken, Edits
  <2>2. i # 1
    BY <1>1, <2>1 DEF AnswerInductive, Rooted
  <2>3. Edits(i, f)' /\ i \in CommitIds' /\ commits'[i].by # r
    BY <1>2, <2>1, <2>2, EditLemma
  <2>4. History(start[r])' = History(start[r])
    BY <1>1, <1>2 DEF History
  <2>5. QED
    BY <2>1, <2>3, <2>4 DEF Overtaken, Edits
<1>5. QED
  BY <1>3, <1>4 DEF Delivered

\* A session whose step drops nothing of its change before it has delivered, or
\* that has delivered, stays in order.
LEMMA OwnDelivery ==
    ASSUME AnswerInductive, NEW a, Grows(a), NEW r \in Sessions,
           start'[r] = start[r], request'[r] = request[r],
           pc'[r] \notin Early,
           pc'[r] \notin {"finally", "done"} => outcome'[r] = "none",
           \A f \in Files : change'[r][f] \in {Keep, change[r][f]},
           \/ Delivered(r)
           \/ Delivered(r)'
           \/ /\ a # r
              /\ tree'[r] = "clean" /\ pc'[r] \notin {"rootpull", "set"} /\ outcome'[r] # "ok"
              /\ Saving(r)' => Saving(r) /\ change'[r] = change[r]
    PROVE  DeliveryOK(r)'
<1>1. DeliveryOK(r)
  BY DEF AnswerInductive
<1>2. /\ pc'[r] \in Early => request'[r] = NoChange
      /\ pc'[r] \notin {"finally", "done"} => outcome'[r] = "none"
      /\ \A f \in Files : /\ request'[r][f] \in {Keep, Absent, r}
                          /\ change'[r][f] \in {Keep, request'[r][f]}
  BY <1>1 DEF DeliveryOK
<1>3. CASE Delivered(r) \/ Delivered(r)'
  <2>1. Delivered(r)'
    BY <1>3, DeliveredStays
  <2>2. QED
    BY <1>2, <2>1 DEF DeliveryOK, Accounted, Early, NoChange
<1>4. CASE ~Delivered(r) /\ ~Delivered(r)'
  <2>1. \A i \in CommitIds : commits[i].by # r
    BY <1>1, <1>4 DEF DeliveryOK
  <2>2. \A i \in CommitIds' : commits'[i].by # r
    BY <1>4, <2>1 DEF Grows
  <2>3. Saving(r)' => Accounted(r)'
    <3>1. SUFFICES ASSUME Saving(r)' PROVE Accounted(r)'
      OBVIOUS
    <3>2. \A f \in Missing(r) : change[r][f] = request[r][f]
      BY <1>1, <1>4, <3>1 DEF DeliveryOK, Accounted
    <3>3. \A f \in Missing(r)' : change'[r][f] = request'[r][f]
      BY <1>4, <3>1, <3>2, DeliveredStays
    <3>4. QED
      BY <3>3 DEF Accounted
  <2>4. QED
    BY <1>2, <1>4, <2>2, <2>3 DEF DeliveryOK, Early, NoChange
<1>5. QED
  BY <1>3, <1>4

\* A session that takes no step stays in order, whoever else commits.
LEMMA AnswerFrame ==
    ASSUME AnswerInductive, NEW a, Grows(a), NEW r \in Sessions, a # r, UNCHANGED OwnAnswer(r)
    PROVE  DeliveryOK(r)'
<1>1. /\ pc'[r] = pc[r] /\ tree'[r] = tree[r] /\ start'[r] = start[r] /\ base'[r] = base[r]
      /\ change'[r] = change[r] /\ request'[r] = request[r] /\ outcome'[r] = outcome[r]
  BY DEF OwnAnswer
<1>2. DeliveryOK(r)
  BY DEF AnswerInductive
<1>3. CASE pc[r] \in Early
  <2>1. BeforeCommit(r)
    BY DEF AnswerInductive, Inductive, SessionOK
  <2>2. tree'[r] = "clean" /\ outcome'[r] = "none" /\ \A i \in CommitIds' : commits'[i].by # r
    BY <1>1, <1>2, <1>3, <2>1 DEF DeliveryOK, BeforeCommit, Early, Grows
  <2>3. QED
    BY <1>1, <1>2, <1>3, <2>2 DEF DeliveryOK, Saving, Early, NoChange
<1>4. CASE pc[r] \notin Early
  <2>1. \A f \in Files : change'[r][f] \in {Keep, change[r][f]}
    BY <1>1
  <2>2. pc'[r] \notin {"finally", "done"} => outcome'[r] = "none"
    BY <1>1, <1>2 DEF DeliveryOK
  <2>3. \/ Delivered(r)
        \/ /\ tree[r] = "clean" /\ pc[r] \notin {"rootpull", "set"} /\ outcome[r] # "ok"
    BY <1>2 DEF DeliveryOK
  <2>4. Saving(r)' => Saving(r)
    BY <1>1 DEF Saving
  <2>5. QED
    BY <1>1, <1>4, <2>1, <2>2, <2>3, <2>4, OwnDelivery
<1>5. QED
  BY <1>3, <1>4

\* A conflict is somebody else's doing.
LEMMA ConflictLemma ==
    ASSUME AnswerInductive, NEW s \in Sessions, Saving(s), ~LandedIn(s, remote),
           NEW f \in Conflicts(s)
    PROVE  request[s][f] # Keep /\ Overtaken(s, f)
<1>1. TypeOK /\ GraphOK /\ RootFollowsBranch /\ SessionOK(s) /\ DeliveryOK(s)
  BY DEF AnswerInductive, Inductive
<1>2. /\ f \in Files /\ change[s][f] # Keep
      /\ TreeOf(remote)[f] # TreeOf(base[s])[f]
      /\ TreeOf(remote)[f] # change[s][f]
  BY DEF Conflicts
<1>3. request[s][f] # Keep
  BY <1>1, <1>2 DEF DeliveryOK
<1>4. /\ start[s] \in CommitIds /\ base[s] \in CommitIds
      /\ remote \in CommitIds /\ rootHead \in CommitIds
  BY <1>1 DEF TypeOK
<1>5. start[s] \in History(base[s]) /\ start[s] \in History(remote)
  BY <1>1, <1>4 DEF AnswerInductive, StartsStay, RootFollowsBranch, GraphOK
<1>6. ~LandedIn(s, base[s])
  BY <1>1, <1>2 DEF SessionOK, NotYetLanded, NoChange
<1>7. ASSUME NEW c \in {base[s], remote}, TreeOf(c)[f] # TreeOf(start[s])[f]
      PROVE  Overtaken(s, f)
  <2>1. PICK i \in History(c) \ History(start[s]) : Edits(i, f)
    BY <1>2, <1>4, <1>5, <1>7 DEF AnswerInductive, EditsBetween
  <2>2. i \in CommitIds /\ commits[i].by # s
    BY <1>1, <1>4, <1>6, HistoryLemma DEF LandedIn
  <2>3. QED
    BY <2>1, <2>2 DEF Overtaken, Edits
<1>8. TreeOf(base[s])[f] # TreeOf(start[s])[f] \/ TreeOf(remote)[f] # TreeOf(start[s])[f]
  BY <1>2
<1>9. QED
  BY <1>3, <1>7, <1>8

\* No worktree and no pull of the root clone loses what a worktree began with.
LEMMA StartsStep ==
    ASSUME AnswerInductive, NEW a, Grows(a), rootHead' \in {rootHead, remote},
           \A r \in Sessions :
              \/ start'[r] = start[r] /\ base'[r] \in {base[r], remote, start[r]}
              \/ start'[r] = rootHead /\ base'[r] = rootHead
    PROVE  StartsStay'
<1>1. TypeOK /\ GraphOK /\ RootFollowsBranch
  BY DEF AnswerInductive, Inductive
<1>2. remote \in CommitIds /\ rootHead \in CommitIds
  BY <1>1 DEF TypeOK
<1>3. \A c \in CommitIds : History(c)' = History(c) /\ c \in History(c)
  BY <1>1, GrowsLemma DEF GraphOK
<1>4. ASSUME NEW r \in Sessions
      PROVE  start'[r] \in History(rootHead)' \cap commits'[base'[r]].anc
  <2>1. start[r] \in CommitIds /\ base[r] \in CommitIds
    BY <1>1 DEF TypeOK
  <2>2. start[r] \in History(rootHead) /\ start[r] \in History(base[r])
    BY DEF AnswerInductive, StartsStay
  <2>3. start[r] \in History(remote) /\ rootHead \in History(remote)
    BY <1>1, <1>2, <2>2 DEF RootFollowsBranch, GraphOK
  <2>4. History(rootHead)' \in {History(rootHead), History(remote)}
    BY <1>2, <1>3 DEF History
  <2>5. \A c \in CommitIds : commits'[c].anc = History(c)
    BY <1>3 DEF History
  <2>6. QED
    BY <1>2, <1>3, <2>1, <2>2, <2>3, <2>4, <2>5
<1>5. QED
  BY <1>4 DEF StartsStay, History

\* What readers and the timer have seen goes on to be on the branch or answered.
LEMMA StoreQuiet ==
    ASSUME AnswerInductive, NEW a, Grows(a), UNCHANGED <<store, loaded>>,
           \A r \in Sessions : outcome[r] = "ok" => outcome'[r] = "ok"
    PROVE  LoadedIsPushed' /\ NoDirtyReads'
<1>1. TypeOK /\ GraphOK
  BY DEF AnswerInductive, Inductive
<1>2. \A i \in CommitIds : i \in CommitIds' /\ TreeOf(i)' = TreeOf(i)
  BY <1>1, GrowsLemma
<1>3. LoadedIsPushed'
  BY <1>2 DEF AnswerInductive, LoadedIsPushed
<1>4. NoDirtyReads'
  BY <1>2 DEF AnswerInductive, NoDirtyReads
<1>5. QED
  BY <1>3, <1>4

\* A step of the request of s, apart from those that touch the store.
LEMMA SessionAnswer ==
    ASSUME AnswerInductive, Inductive', NEW s \in Sessions, Grows(s), Rooted', EditsBetween',
           rootHead' \in {rootHead, remote}, UNCHANGED loaded,
           \A r \in Sessions \ {s} : UNCHANGED OwnAnswer(r),
           \/ start'[s] = start[s] /\ base'[s] \in {base[s], remote, start[s]}
           \/ start'[s] = rootHead /\ base'[s] = rootHead,
           DeliveryOK(s)',
           \/ NoDirtyReads'
           \/ UNCHANGED store /\ (outcome[s] = "ok" => outcome'[s] = "ok")
    PROVE  AnswerInductive'
<1>1. \A r \in Sessions : DeliveryOK(r)'
  BY AnswerFrame
<1>2. StartsStay'
  BY StartsStep DEF OwnAnswer
<1>3. LoadedIsPushed'
  <2>1. TypeOK /\ GraphOK
    BY DEF AnswerInductive, Inductive
  <2>2. \A i \in CommitIds : i \in CommitIds' /\ TreeOf(i)' = TreeOf(i)
    BY <2>1, GrowsLemma
  <2>3. QED
    BY <2>2 DEF AnswerInductive, LoadedIsPushed
<1>4. NoDirtyReads'
  BY StoreQuiet DEF OwnAnswer
<1>5. QED
  BY <1>1, <1>2, <1>3, <1>4 DEF AnswerInductive

LEMMA SetupAnswer ==
    ASSUME AnswerInductive, NEW s \in Sessions, Setup(s) PROVE AnswerInductive'
<1>1. TypeOK /\ BeforeCommit(s) /\ DeliveryOK(s)
  BY DEF AnswerInductive, Inductive, SessionOK
<1>2. Inductive'
  BY SetupStep DEF AnswerInductive
<1>3. UNCHANGED <<commits, store, loaded, tree, change, request, outcome>>
  BY DEF Setup, InitPull, InitPullFail, InitRecover, InitForcePush, InitRecoverFail,
         AddWorktree, CopyStore, rootVars, pollVars, wtVars
<1>4. /\ pc[s] \in Early /\ pc'[s] \in Early
      /\ \A r \in Sessions \ {s} : UNCHANGED OwnAnswer(r)
  BY <1>1 DEF Setup, InitPull, InitPullFail, InitRecover, InitForcePush, InitRecoverFail,
         AddWorktree, CopyStore, OwnAnswer, wtVars, TypeOK, Early
<1>5. /\ rootHead' \in {rootHead, remote}
      /\ \/ start'[s] = start[s] /\ base'[s] \in {base[s], remote, start[s]}
         \/ start'[s] = rootHead /\ base'[s] = rootHead
  BY <1>1 DEF Setup, InitPull, InitPullFail, InitRecover, InitForcePush, InitRecoverFail,
         AddWorktree, CopyStore, rootVars, wtVars, TypeOK
<1>6. Rooted' /\ EditsBetween' /\ Grows(s)
  BY <1>3, SameCommits
<1>7. DeliveryOK(s)'
  <2>1. tree'[s] = "clean" /\ outcome'[s] = "none" /\ \A i \in CommitIds' : commits'[i].by # s
    BY <1>1, <1>3, <1>4 DEF BeforeCommit, DeliveryOK, Early, CommitIds
  <2>2. QED
    BY <1>1, <1>3, <1>4, <2>1 DEF DeliveryOK, Saving, Early
<1>8. QED
  BY <1>2, <1>3, <1>4, <1>5, <1>6, <1>7, SessionAnswer

\* What a handler writes and the worktree does not have yet is left to be pushed.
LEMMA WriteAnswer ==
    ASSUME AnswerInductive, Inductive', NEW s \in Sessions, pc[s] = "handle",
           NEW req \in Change, \A f \in Files : req[f] \in {Keep, Absent, s},
           WriteAndCommit(s, req)
    PROVE  AnswerInductive'
<1>1. TypeOK /\ BeforeCommit(s) /\ DeliveryOK(s)
  BY DEF AnswerInductive, Inductive, SessionOK
<1>2. /\ UNCHANGED <<commits, store, loaded, rootHead, start, base, outcome>>
      /\ \A r \in Sessions \ {s} : UNCHANGED OwnAnswer(r)
      /\ pc'[s] = "pull" /\ tree'[s] = "clean" /\ request'[s] = req
      /\ change'[s] = [f \in Files |-> IF req[f] = TreeOf(start[s])[f] THEN Keep ELSE req[f]]
  BY <1>1 DEF WriteAndCommit, rootVars, pollVars, OwnAnswer, TypeOK, BeforeCommit
<1>3. Rooted' /\ EditsBetween' /\ Grows(s)
  BY <1>2, SameCommits
<1>4. outcome'[s] = "none" /\ \A i \in CommitIds' : commits'[i].by # s
  BY <1>1, <1>2 DEF DeliveryOK, BeforeCommit, CommitIds
<1>5. start[s] \in CommitIds /\ start[s] \in Nat
  BY <1>1, CommitLemma DEF TypeOK
<1>6. Accounted(s)'
  BY <1>2, <1>5 DEF Accounted, Missing, TreeOf, CommitIds
<1>7. DeliveryOK(s)'
  BY <1>2, <1>4, <1>6 DEF DeliveryOK
<1>8. QED
  BY <1>2, <1>3, <1>7, SessionAnswer

LEMMA HandleAnswer ==
    ASSUME AnswerInductive, NEW s \in Sessions, Handle(s) PROVE AnswerInductive'
<1>1. TypeOK /\ BeforeCommit(s) /\ DeliveryOK(s)
  BY DEF AnswerInductive, Inductive, SessionOK
<1>2. Inductive'
  BY HandleStep DEF AnswerInductive
<1>3. ASSUME NEW FS \in WriteSets, NEW v \in {s, Absent}
      PROVE  /\ Writing(FS, v) \in Change
             /\ \A f \in Files : Writing(FS, v)[f] \in {Keep, Absent, s}
  <2>1. FS \in SUBSET Files /\ v \in Content
    BY SetsAssumption, ValuesLemma
  <2>2. Writing(FS, v) \in Change
    BY <2>1, ValuesLemma
  <2>3. QED
    BY <2>2 DEF Writing
<1>4. ASSUME NEW FS \in WriteSets, NEW f \in FS, HandleCreate(s, f, FS) \/ HandleEdit(s, f, FS)
      PROVE  AnswerInductive'
  BY <1>2, <1>3, <1>4, WriteAnswer DEF HandleCreate, HandleEdit
<1>5. ASSUME NEW FS \in WriteSets, HandleDelete(s, FS) PROVE AnswerInductive'
  BY <1>2, <1>3, <1>5, WriteAnswer DEF HandleDelete
<1>6. CASE HandleReject(s) \/ HandleOnly(s)
  <2>1. /\ UNCHANGED <<commits, store, loaded, rootHead, tree, start, base, change, request>>
        /\ \A r \in Sessions \ {s} : UNCHANGED OwnAnswer(r)
        /\ pc[s] = "handle" /\ pc'[s] \in {"finally", "done"}
    BY <1>1, <1>6 DEF HandleReject, HandleOnly, rootVars, pollVars, wtVars, OwnAnswer, TypeOK
  <2>2. request[s] = NoChange /\ outcome[s] = "none"
    BY <1>1, <2>1 DEF DeliveryOK
  <2>3. Delivered(s)
    BY <2>2 DEF Delivered, Missing, NoChange
  <2>4. Rooted' /\ EditsBetween' /\ Grows(s)
    BY <2>1, SameCommits
  <2>5. DeliveryOK(s)'
    BY <2>1, <2>3, <2>4, OwnDelivery DEF Early
  <2>6. QED
    BY <1>2, <2>1, <2>2, <2>4, <2>5, SessionAnswer
<1>7. QED
  BY <1>4, <1>5, <1>6 DEF Handle

\* Giving up an attempt: the request may end with an error, never with success.
LEMMA RetryOutcome ==
    ASSUME TypeOK, NEW s \in Sessions, Retry(s)
    PROVE  /\ pc'[s] \in {"pull", "finally"}
           /\ outcome'[s] \in {outcome[s], "error"}
           /\ pc'[s] = "pull" => outcome'[s] = outcome[s]
           /\ \A r \in Sessions \ {s} : pc'[r] = pc[r] /\ outcome'[r] = outcome[r]
  BY DEF Retry, TypeOK

\* A step of pull or push that commits nothing.
LEMMA SavingAnswer ==
    ASSUME AnswerInductive, Inductive', NEW s \in Sessions, pc[s] \in {"pull", "push"},
           UNCHANGED <<commits, rootHead, start, request, store, loaded>>,
           pc'[s] \in {"pull", "push", "rootpull", "finally"},
           pc'[s] # "finally" => outcome'[s] = outcome[s],
           outcome'[s] \in {outcome[s], "error"},
           base'[s] \in {base[s], remote},
           \A f \in Files : change'[s][f] \in {Keep, change[s][f]},
           \/ Delivered(s)
           \/ /\ tree[s] = "clean" => tree'[s] = "clean" /\ change'[s] = change[s]
              /\ pc'[s] # "rootpull",
           \A r \in Sessions \ {s} : UNCHANGED OwnAnswer(r)
    PROVE  AnswerInductive'
<1>1. DeliveryOK(s) /\ outcome[s] = "none"
  BY DEF AnswerInductive, DeliveryOK
<1>2. Rooted' /\ EditsBetween' /\ Grows(s) /\ Grows(Nobody)
  BY SameCommits
<1>3. \/ Delivered(s)
      \/ /\ tree'[s] = "clean" /\ pc'[s] # "rootpull" /\ change'[s] = change[s] /\ Saving(s)
  BY <1>1 DEF DeliveryOK, Saving
<1>4. DeliveryOK(s)'
  BY <1>1, <1>2, <1>3, NobodyLemma, OwnDelivery DEF Early
<1>5. QED
  BY <1>1, <1>2, <1>4, SessionAnswer

LEMMA PullAnswer ==
    ASSUME AnswerInductive, NEW s \in Sessions,
           \/ SavePull(s) \/ SavePullConflict(s) \/ SavePullUnmerged(s) \/ SavePullDetached(s)
           \/ SavePullStuck(s) \/ SavePullFail(s) \/ SaveRecover(s)
    PROVE  AnswerInductive'
<1>1. TypeOK /\ DeliveryOK(s)
  BY DEF AnswerInductive, Inductive
<1>2. Inductive'
  BY SaveStep DEF AnswerInductive, Save
<1>3. /\ pc[s] = "pull"
      /\ UNCHANGED <<commits, remote, rootHead, start, request, store, loaded>>
  BY DEF SavePull, SavePullConflict, SavePullUnmerged, SavePullDetached, SavePullStuck,
         SavePullFail, SaveRecover, PullUnchanged, rootVars, pollVars
<1>4. ASSUME NEW kept \in Change, Rebased(s, kept), UNCHANGED tree, tree[s] = "clean",
             \A f \in Files : kept[f] \in {Keep, change[s][f]},
             \/ LandedIn(s, remote) \/ Delivered(s) \/ kept = change[s]
      PROVE  AnswerInductive'
  <2>1. /\ pc'[s] = "push" /\ outcome'[s] = outcome[s] /\ base'[s] = remote
        /\ change'[s] = IF LandedIn(s, remote) THEN NoChange ELSE kept
        /\ \A r \in Sessions \ {s} : UNCHANGED OwnAnswer(r)
    BY <1>1, <1>3, <1>4 DEF Rebased, OwnAnswer, TypeOK
  <2>2. LandedIn(s, remote) => Delivered(s)
    BY <1>1 DEF LandedIn, DeliveryOK
  <2>3. \A f \in Files : change'[s][f] \in {Keep, change[s][f]}
    BY <1>4, <2>1 DEF NoChange
  <2>4. Delivered(s) \/ change'[s] = change[s]
    BY <1>4, <2>1, <2>2
  <2>5. QED
    BY <1>2, <1>3, <1>4, <2>1, <2>3, <2>4, SavingAnswer
<1>5. CASE SavePull(s)
  BY <1>1, <1>4, <1>5 DEF SavePull, TypeOK
<1>6. ASSUME base' = [base EXCEPT ![s] = remote], tree[s] = "clean", ~LandedIn(s, remote),
             NEW f \in Conflicts(s), Retry(s), UNCHANGED change,
             \A r \in Sessions \ {s} : tree'[r] = tree[r]
      PROVE  AnswerInductive'
  <2>1. Delivered(s)
    BY <1>3, <1>6, ConflictLemma DEF Delivered, Conflicts, Saving
  <2>2. \A r \in Sessions \ {s} : UNCHANGED OwnAnswer(r)
    BY <1>1, <1>3, <1>6, RetryOutcome DEF OwnAnswer, TypeOK
  <2>3. base'[s] = remote
    BY <1>1, <1>6 DEF TypeOK
  <2>4. QED
    BY <1>1, <1>2, <1>3, <1>6, <2>1, <2>2, <2>3, RetryOutcome, SavingAnswer
<1>7. CASE SavePullConflict(s)
  BY <1>1, <1>6, <1>7 DEF SavePullConflict, TypeOK
<1>8. CASE SavePullUnmerged(s) \/ SavePullDetached(s) \/ SavePullStuck(s)
  <2>1. tree[s] # "clean" /\ Delivered(s)
    BY <1>1, <1>8 DEF SavePullUnmerged, SavePullDetached, SavePullStuck, DeliveryOK
  <2>2. /\ pc'[s] \in {"pull", "push", "finally"}
        /\ outcome'[s] \in {outcome[s], "error"}
        /\ pc'[s] # "finally" => outcome'[s] = outcome[s]
        /\ base'[s] \in {base[s], remote} /\ UNCHANGED change
        /\ \A r \in Sessions \ {s} : UNCHANGED OwnAnswer(r)
    BY <1>1, <1>3, <1>8, RetryOutcome
    DEF SavePullUnmerged, SavePullDetached, SavePullStuck, OwnAnswer, TypeOK
  <2>3. QED
    BY <1>2, <1>3, <2>1, <2>2, SavingAnswer
<1>9. CASE SavePullFail(s)
  <2>1. UNCHANGED <<tree, base, change>> /\ Retry(s)
    BY <1>9 DEF SavePullFail
  <2>2. \A r \in Sessions \ {s} : UNCHANGED OwnAnswer(r)
    BY <1>1, <1>3, <2>1, RetryOutcome DEF OwnAnswer
  <2>3. QED
    BY <1>1, <1>2, <1>3, <2>1, <2>2, RetryOutcome, SavingAnswer
<1>10. CASE SaveRecover(s)
  <2>. DEFINE kept == [f \in Files |-> IF f \in Conflicts(s) THEN Keep ELSE change[s][f]]
  <2>1. tree[s] = "clean" /\ Saving(s)
    BY <1>3, <1>10 DEF SaveRecover, Saving
  <2>2. CASE ~LandedIn(s, remote) /\ Unsettled(s) # {}
    <3>1. PICK f \in Conflicts(s) : TRUE
      BY <2>2 DEF Unsettled
    <3>2. /\ base' = [base EXCEPT ![s] = remote] /\ Retry(s) /\ UNCHANGED change
          /\ \A r \in Sessions \ {s} : tree'[r] = tree[r]
      BY <1>1, <1>10, <2>2 DEF SaveRecover, TypeOK
    <3>3. QED
      BY <1>6, <2>1, <2>2, <3>1, <3>2
  <2>3. CASE ~(~LandedIn(s, remote) /\ Unsettled(s) # {})
    <3>1. Rebased(s, kept) /\ UNCHANGED tree
      BY <1>10, <2>3 DEF SaveRecover
    <3>2. change[s] \in Change /\ kept \in Change
      BY <1>1 DEF TypeOK, Change
    <3>3. ASSUME ~LandedIn(s, remote) PROVE Delivered(s) \/ kept = change[s]
      <4>1. CASE Conflicts(s) = {}
        BY <3>2, <4>1 DEF Change
      <4>2. ASSUME NEW f \in Conflicts(s) PROVE Delivered(s)
        BY <2>1, <3>3, <4>2, ConflictLemma DEF Delivered, Conflicts
      <4>3. QED
        BY <4>1, <4>2
    <3>4. \A f \in Files : kept[f] \in {Keep, change[s][f]}
      OBVIOUS
    <3>. HIDE DEF kept
    <3>5. QED
      BY <1>4, <2>1, <3>1, <3>2, <3>3, <3>4
  <2>4. QED
    BY <2>2, <2>3
<1>11. QED
  BY <1>5, <1>7, <1>8, <1>9, <1>10

\* A session's own commit has whatever was left to be pushed.
LEMMA OwnPushAnswer ==
    ASSUME AnswerInductive, Inductive', NEW s \in Sessions, pc[s] = "push", OwnCommit(s),
           PushNew(Apply(TreeOf(base[s]), change[s]), s, base[s]),
           PushUnchanged, pc'[s] \in {"pull", "rootpull", "finally"},
           pc'[s] # "finally" => outcome'[s] = outcome[s],
           outcome'[s] \in {outcome[s], "error"},
           \A r \in Sessions \ {s} : pc'[r] = pc[r] /\ outcome'[r] = outcome[r]
    PROVE  AnswerInductive'
<1>. DEFINE t == Apply(TreeOf(base[s]), change[s])
<1>. PICK n : n = Len(commits) + 1
  OBVIOUS
<1>1. TypeOK /\ GraphOK /\ DeliveryOK(s)
  BY DEF AnswerInductive, Inductive
<1>2. base[s] \in CommitIds /\ change[s] \in Change /\ t \in Tree
  BY <1>1, CommitLemma, ValuesLemma DEF TypeOK
<1>3. UNCHANGED <<rootHead, store, loaded, tree, start, base, change, request>>
  BY DEF PushUnchanged, rootVars, pollVars
<1>4. \A f \in Files : change[s][f] # Keep => t[f] = change[s][f]
  BY DEF Apply
<1>5. PushNew(t, s, base[s])
  OBVIOUS
<1>. HIDE DEF t
<1>6. Rooted' /\ EditsBetween' /\ Grows(s)
  BY <1>2, <1>5, NewCommit
<1>7. n \in CommitIds' /\ commits'[n].tree = t /\ n >= start[s]
  <2>1. start[s] \in CommitIds
    BY <1>1 DEF TypeOK
  <2>2. start[s] \in 1..Len(commits) /\ Len(commits) \in Nat
    BY <1>1, <2>1, CommitLemma DEF CommitIds
  <2>3. n >= start[s]
    BY <2>2
  <2>4. /\ CommitIds' = CommitIds \cup {n}
        /\ commits'[n] = [tree |-> t, by |-> s, parent |-> base[s],
                          anc |-> History(base[s]) \cup {n}]
    BY <1>1, <1>2, <1>5, PushNewLemma
  <2>5. QED
    BY <2>3, <2>4
<1>8. Delivered(s)'
  <2>1. CASE Delivered(s)
    BY <1>3, <1>6, <2>1, DeliveredStays
  <2>2. CASE ~Delivered(s)
    <3>1. \A f \in Missing(s) : change[s][f] = request[s][f]
      BY <1>1, <2>2 DEF DeliveryOK, Accounted, Saving, OwnCommit
    <3>2. ASSUME NEW f \in Missing(s)' PROVE FALSE
      <4>1. f \in Missing(s) /\ f \in Files /\ request[s][f] # Keep
        BY <1>3, <1>6, <3>2, DeliveredStays DEF Missing
      <4>2. t[f] = request'[s][f]
        BY <1>3, <1>4, <3>1, <4>1
      <4>3. QED
        BY <1>3, <1>7, <3>2, <4>2 DEF Missing, TreeOf
    <3>3. QED
      BY <3>2 DEF Delivered
  <2>3. QED
    BY <2>1, <2>2
<1>9. outcome[s] = "none"
  BY <1>1 DEF DeliveryOK
<1>10. DeliveryOK(s)'
  BY <1>3, <1>6, <1>8, <1>9, OwnDelivery DEF Early
<1>11. \A r \in Sessions \ {s} : UNCHANGED OwnAnswer(r)
  BY <1>3 DEF OwnAnswer
<1>12. QED
  BY <1>3, <1>6, <1>9, <1>10, <1>11, SessionAnswer

LEMMA PushAnswer ==
    ASSUME AnswerInductive, NEW s \in Sessions,
           SavePush(s) \/ SavePushRejected(s) \/ SavePushFail(s)
    PROVE  AnswerInductive'
<1>1. TypeOK /\ GraphOK /\ DeliveryOK(s) /\ pc[s] = "push" /\ PushUnchanged
  BY DEF AnswerInductive, Inductive, SavePush, SavePushRejected, SavePushFail
<1>2. Inductive'
  BY SaveStep DEF AnswerInductive, Save
<1>3. UNCHANGED <<rootHead, store, loaded, tree, start, base, change, request>>
  BY <1>1 DEF PushUnchanged, rootVars, pollVars
<1>4. /\ pc'[s] \in {"pull", "rootpull", "finally"}
      /\ pc'[s] # "finally" => outcome'[s] = outcome[s]
      /\ outcome'[s] \in {outcome[s], "error"}
      /\ \A r \in Sessions \ {s} : pc'[r] = pc[r] /\ outcome'[r] = outcome[r]
      /\ pc'[s] = "rootpull" => SavePush(s)
  BY <1>1, RetryOutcome DEF SavePush, SavePushRejected, SavePushFail, TypeOK
<1>5. CASE OwnCommit(s) /\ PushNew(Apply(TreeOf(base[s]), change[s]), s, base[s])
  BY <1>1, <1>2, <1>4, <1>5, OwnPushAnswer
<1>6. CASE UNCHANGED commits /\ (SavePush(s) => ~OwnCommit(s))
  <2>1. ASSUME SavePush(s), tree[s] = "clean" PROVE Delivered(s)
    <3>1. Apply(TreeOf(base[s]), change[s]) = TreeOf(base[s])
      BY <1>6, <2>1 DEF OwnCommit
    <3>2. base[s] \in CommitIds /\ base[s] >= start[s]
      <4>1. base[s] \in CommitIds /\ start[s] \in History(base[s])
        BY <1>1 DEF TypeOK, AnswerInductive, StartsStay
      <4>2. start[s] \in 1..base[s] /\ base[s] \in Nat
        BY <1>1, <4>1, CommitLemma DEF GraphOK
      <4>3. QED
        BY <4>1, <4>2
    <3>3. Accounted(s)
      BY <1>1, <2>1 DEF DeliveryOK, Saving
    <3>4. ASSUME NEW f \in Missing(s), change[s][f] = request[s][f] PROVE FALSE
      <4>1. f \in Files /\ request[s][f] # Keep /\ TreeOf(base[s])[f] # request[s][f]
        BY <3>2 DEF Missing
      <4>2. Apply(TreeOf(base[s]), change[s])[f] = request[s][f]
        BY <3>4, <4>1 DEF Apply
      <4>3. QED
        BY <3>1, <4>1, <4>2
    <3>5. QED
      BY <3>3, <3>4 DEF Accounted, Delivered
  <2>2. tree[s] # "clean" => Delivered(s)
    BY <1>1 DEF DeliveryOK
  <2>3. \A r \in Sessions \ {s} : UNCHANGED OwnAnswer(r)
    BY <1>3, <1>4 DEF OwnAnswer
  <2>4. \A f \in Files : change'[s][f] \in {Keep, change[s][f]}
    BY <1>3
  <2>5. Delivered(s) \/ (tree[s] = "clean" /\ pc'[s] # "rootpull")
    BY <1>4, <2>1, <2>2
  <2>6. QED
    BY <1>1, <1>2, <1>3, <1>4, <1>6, <2>3, <2>4, <2>5, SavingAnswer
<1>7. QED
  BY <1>5, <1>6 DEF SavePush, SavePushRejected, SavePushFail

LEMMA DeployAnswer ==
    ASSUME AnswerInductive, NEW s \in Sessions, Deploy(s) PROVE AnswerInductive'
<1>1. TypeOK /\ DeliveryOK(s)
  BY DEF AnswerInductive, Inductive
<1>2. Inductive'
  BY DeployStep DEF AnswerInductive
<1>3. /\ UNCHANGED <<commits, loaded, start, request>> /\ rootHead' \in {rootHead, remote}
      /\ base'[s] \in {base[s], remote, start[s]}
      /\ pc'[s] \in {"set", "finally", "done"}
      /\ \A r \in Sessions \ {s} : UNCHANGED OwnAnswer(r)
      /\ \A f \in Files : change'[s][f] \in {Keep, change[s][f]}
  BY <1>1 DEF Deploy, RootPull, RootPullFail, SetStore, Finish, rootVars, pollVars, wtVars,
         OwnAnswer, TypeOK, NoChange
<1>4. Rooted' /\ EditsBetween' /\ Grows(s) /\ Grows(Nobody)
  BY <1>3, SameCommits
<1>5. CASE RootPull(s) \/ RootPullFail(s) \/ Finish(s)
  <2>1. UNCHANGED store /\ (outcome[s] = "ok" => outcome'[s] = "ok")
    BY <1>1, <1>5 DEF RootPull, RootPullFail, Finish, rootVars, DeliveryOK
  <2>2. pc'[s] \notin {"finally", "done"} => outcome'[s] = "none"
    BY <1>1, <1>5 DEF RootPull, RootPullFail, Finish, DeliveryOK, TypeOK
  <2>3. Delivered(s) \/ (tree'[s] = "clean" /\ pc'[s] # "set" /\ outcome'[s] # "ok")
    BY <1>1, <1>5 DEF RootPull, RootPullFail, Finish, wtVars, DeliveryOK, TypeOK
  <2>4. DeliveryOK(s)'
    BY <1>3, <1>4, <2>2, <2>3, OwnDelivery, NobodyLemma DEF Early, Saving
  <2>5. QED
    BY <1>2, <1>3, <1>4, <2>1, <2>4, SessionAnswer
<1>6. CASE SetStore(s)
  <2>1. /\ Delivered(s) /\ outcome'[s] = "ok" /\ pc'[s] = "finally"
        /\ store' = Apply(store, request[s])
    BY <1>1, <1>6 DEF SetStore, DeliveryOK, TypeOK
  <2>2. DeliveryOK(s)'
    BY <1>3, <1>4, <2>1, OwnDelivery DEF Early
  <2>3. ASSUME NEW f \in Files, store'[f] \in Sessions
        PROVE  \/ outcome'[store'[f]] = "ok"
               \/ \E i \in CommitIds' : commits'[i].tree[f] = store'[f]
    <3>1. store'[f] = s \/ store'[f] = store[f]
      BY <1>1, <2>1, <2>3, NamesAssumption DEF Apply, DeliveryOK
    <3>2. CASE store'[f] = store[f]
      BY <1>3, <2>1, <2>3, <3>2 DEF AnswerInductive, NoDirtyReads, TreeOf, CommitIds, OwnAnswer
    <3>3. QED
      BY <2>1, <3>1, <3>2
  <2>4. NoDirtyReads'
    BY <2>3 DEF NoDirtyReads, TreeOf
  <2>5. QED
    BY <1>2, <1>3, <1>4, <2>2, <2>4, SessionAnswer
<1>7. QED
  BY <1>5, <1>6 DEF Deploy

LEMMA ExternalAnswer ==
    ASSUME AnswerInductive, NEW e \in Externals, ExternalCommit(e) PROVE AnswerInductive'
<1>1. TypeOK /\ e \notin Sessions
  BY NamesAssumption DEF AnswerInductive, Inductive
<1>2. Inductive'
  BY ExternalStep DEF AnswerInductive
<1>3. PICK f \in Files, v \in {e, Absent} :
        PushNew([TreeOf(remote) EXCEPT ![f] = v], e, remote)
  BY DEF ExternalCommit
<1>4. remote \in CommitIds /\ [TreeOf(remote) EXCEPT ![f] = v] \in Tree
  BY <1>1, CommitLemma, ValuesLemma DEF TypeOK, Tree
<1>5. Rooted' /\ EditsBetween' /\ Grows(e)
  BY <1>3, <1>4, NewCommit
<1>6. /\ UNCHANGED <<rootHead, store, loaded, start, base, outcome>>
      /\ \A r \in Sessions : UNCHANGED OwnAnswer(r)
  BY DEF ExternalCommit, rootVars, pollVars, wtVars, OwnAnswer
<1>7. \A r \in Sessions : DeliveryOK(r)'
  BY <1>1, <1>5, <1>6, AnswerFrame
<1>8. StartsStay' /\ LoadedIsPushed' /\ NoDirtyReads'
  BY <1>5, <1>6, StartsStep, StoreQuiet
<1>9. QED
  BY <1>2, <1>5, <1>7, <1>8 DEF AnswerInductive

LEMMA PollAnswer ==
    ASSUME AnswerInductive, Poll PROVE AnswerInductive'
<1>1. TypeOK /\ LoadedIsPushed
  BY DEF AnswerInductive, Inductive
<1>2. Inductive'
  BY PollStep DEF AnswerInductive
<1>3. UNCHANGED <<commits, pc, wtVars, outcome>> /\ rootHead' \in {rootHead, remote}
  BY DEF Poll, PollLsRemote, PollCompare, PollPull, PollPullFail, PollRecover,
         PollForcePush, PollRecoverFail, LoadFile, LoadSwap, rootVars
<1>4. Rooted' /\ EditsBetween' /\ Grows(Nobody)
  BY <1>3, SameCommits
<1>5. \A r \in Sessions : UNCHANGED OwnAnswer(r)
  BY <1>3 DEF wtVars, OwnAnswer
<1>6. (\A r \in Sessions : DeliveryOK(r)') /\ StartsStay'
  BY <1>3, <1>4, <1>5, NobodyLemma, AnswerFrame, StartsStep DEF wtVars
<1>7. LoadedIsPushed' /\ NoDirtyReads'
  <2>1. CASE \/ PollLsRemote \/ PollCompare \/ PollPull \/ PollPullFail \/ PollRecover
             \/ PollForcePush \/ PollRecoverFail
    <3>1. UNCHANGED <<store, loaded>>
      BY <2>1 DEF PollLsRemote, PollCompare, PollPull, PollPullFail, PollRecover,
         PollForcePush, PollRecoverFail, rootVars
    <3>2. QED
      BY <1>3, <1>4, <3>1, StoreQuiet
  <2>2. ASSUME NEW g \in Files, LoadFile(g) PROVE LoadedIsPushed' /\ NoDirtyReads'
    <3>1. /\ loaded \in Change /\ rootHead \in CommitIds /\ store' = store
          /\ loaded' = [loaded EXCEPT ![g] = TreeOf(rootHead)[g]]
      BY <1>1, <2>2 DEF TypeOK, LoadFile, rootVars
    <3>2. \A f \in Files : loaded'[f] # Keep => \E i \in CommitIds : TreeOf(i)[f] = loaded'[f]
      BY <1>1, <3>1 DEF LoadedIsPushed, Change
    <3>3. QED
      BY <1>3, <3>1, <3>2 DEF LoadedIsPushed, NoDirtyReads, AnswerInductive, TreeOf, CommitIds
  <2>3. CASE LoadSwap
    BY <1>1, <1>3, <2>3 DEF LoadSwap, LoadedIsPushed, NoDirtyReads, TreeOf, CommitIds, NoChange
  <2>4. QED
    BY <2>1, <2>2, <2>3 DEF Poll
<1>8. QED
  BY <1>2, <1>4, <1>6, <1>7 DEF AnswerInductive

LEMMA RestartAnswer ==
    ASSUME AnswerInductive, Restart PROVE AnswerInductive'
<1>1. TypeOK
  BY DEF AnswerInductive, Inductive
<1>2. Inductive'
  BY RestartStep DEF AnswerInductive
<1>3. /\ UNCHANGED <<commits, start, request>> /\ rootHead' = remote /\ base' = start
      /\ store' = TreeOf(remote) /\ loaded' = NoChange
  BY DEF Restart
<1>4. Rooted' /\ EditsBetween' /\ Grows(Nobody)
  BY <1>3, SameCommits
<1>5. StartsStay'
  BY <1>3, <1>4, StartsStep
<1>6. LoadedIsPushed' /\ NoDirtyReads'
  <2>1. remote \in CommitIds'
    BY <1>1, <1>3 DEF TypeOK, CommitIds
  <2>2. QED
    BY <1>3, <2>1 DEF LoadedIsPushed, NoDirtyReads, NoChange, TreeOf
<1>7. ASSUME NEW r \in Sessions PROVE DeliveryOK(r)'
  <2>1. DeliveryOK(r) /\ BeforeCommit(r) /\ pc[r] \in Phases
    BY <1>1 DEF AnswerInductive, Inductive, SessionOK, TypeOK
  <2>2. /\ pc'[r] = IF Begun(r) THEN "done" ELSE "idle"
        /\ outcome'[r] = IF Begun(r) /\ pc[r] # "done" THEN "error" ELSE outcome[r]
        /\ tree'[r] = "clean" /\ change'[r] = NoChange
    BY DEF Restart
  <2>3. CASE Begun(r)
    <3>1. Delivered(r) \/ outcome'[r] # "ok"
      BY <2>1, <2>2 DEF DeliveryOK
    <3>2. \A f \in Files : change'[r][f] \in {Keep, change[r][f]}
      BY <2>2 DEF NoChange
    <3>3. QED
      BY <1>3, <1>4, <2>2, <2>3, <3>1, <3>2, OwnDelivery, NobodyLemma DEF Early, Saving
  <2>4. CASE ~Begun(r)
    <3>1. /\ pc[r] \in {"idle", "recover", "force", "add"}
          /\ request'[r] = NoChange /\ outcome'[r] = "none" /\ pc'[r] = "idle"
      BY <1>3, <2>1, <2>2, <2>4 DEF Begun, DeliveryOK
    <3>2. \A i \in CommitIds' : commits'[i].by # r
      BY <1>3, <2>1, <3>1 DEF BeforeCommit, CommitIds
    <3>3. QED
      BY <2>1, <2>2, <3>1, <3>2 DEF DeliveryOK, Saving, NoChange
  <2>5. QED
    BY <2>3, <2>4
<1>8. QED
  BY <1>2, <1>4, <1>5, <1>6, <1>7 DEF AnswerInductive

LEMMA InitAnswer == Init => AnswerInductive
<1>1. SUFFICES ASSUME Init PROVE AnswerInductive
  OBVIOUS
<1>2. Inductive
  BY <1>1, InitInductive
<1>3. /\ CommitIds = {1} /\ commits[1].by = Nobody /\ History(1) = {1}
      /\ rootHead = 1 /\ store = TreeOf(1) /\ loaded = NoChange
      /\ \A s \in Sessions : /\ pc[s] = "idle" /\ tree[s] = "clean" /\ outcome[s] = "none"
                             /\ start[s] = 1 /\ base[s] = 1
                             /\ request[s] = NoChange /\ change[s] = NoChange
  BY <1>1 DEF Init, CommitIds, History, TreeOf
<1>4. Rooted /\ EditsBetween /\ StartsStay
  BY <1>3 DEF Rooted, EditsBetween, StartsStay
<1>5. LoadedIsPushed /\ NoDirtyReads
  BY <1>3 DEF LoadedIsPushed, NoDirtyReads, NoChange
<1>6. \A s \in Sessions : DeliveryOK(s)
  BY <1>3, NobodyLemma DEF DeliveryOK, Saving, NoChange
<1>7. QED
  BY <1>2, <1>4, <1>5, <1>6 DEF AnswerInductive

LEMMA NextAnswer == AnswerInductive /\ [Next]_vars => AnswerInductive'
<1>1. SUFFICES ASSUME AnswerInductive, [Next]_vars PROVE AnswerInductive'
  OBVIOUS
<1>2. CASE UNCHANGED vars
  <2>1. Inductive'
    BY <1>1, NextInductive DEF AnswerInductive
  <2>2. UNCHANGED <<commits, rootHead, store, loaded, pc, tree, start, base, change, request,
                    outcome>>
    BY <1>2 DEF vars, rootVars, pollVars, wtVars
  <2>3. Rooted' /\ EditsBetween' /\ Grows(Nobody)
    BY <1>1, <2>2, SameCommits
  <2>4. \A r \in Sessions : DeliveryOK(r)'
    BY <1>1, <2>2, <2>3, NobodyLemma, AnswerFrame DEF OwnAnswer
  <2>5. StartsStay' /\ LoadedIsPushed' /\ NoDirtyReads'
    BY <1>1, <2>2, <2>3, StartsStep, StoreQuiet
  <2>6. QED
    BY <2>1, <2>3, <2>4, <2>5 DEF AnswerInductive
<1>3. CASE Next
  BY <1>1, <1>3, ExternalAnswer, SetupAnswer, HandleAnswer, PullAnswer, PushAnswer,
     DeployAnswer, PollAnswer, RestartAnswer DEF Next, Session, Save
<1>4. QED
  BY <1>1, <1>2, <1>3

\* What requests, retries, forced pushes, reloads and restarts leave behind goes on to
\* explain every answer that is given and every content that readers see.
THEOREM AnswerInvariant == Spec => []AnswerInductive
<1>1. QED
  BY InitAnswer, NextAnswer, PTL DEF Spec

\* Success is never reported out of exhausted retries: what a request wrote has been
\* on the branch since its worktree was created, or somebody else changed one of its files.
THEOREM AckedIsDelivered == Spec => []AckedOrOvertaken
<1>1. AnswerInductive => AckedOrOvertaken
  BY DEF AnswerInductive, DeliveryOK, Delivered, AckedOrOvertaken
<1>2. QED
  BY <1>1, AnswerInvariant, PTL

\* Readers of the root store never see the content of a request that is still being
\* pushed or has failed without reaching the branch.
THEOREM ReadersSeePushed == Spec => []NoDirtyReads
<1>1. AnswerInductive => NoDirtyReads
  BY DEF AnswerInductive
<1>2. QED
  BY <1>1, AnswerInvariant, PTL
=============================================================================
