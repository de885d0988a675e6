----------------------- MODULE GitOpsRefinementProofs -----------------------
(***************************************************************************)
(* GitOps implements SnapshotIsolation until a root clone has to recover:  *)
(* nothing has been forced, so the commits form one line and the branch is *)
(* all of it.                                                              *)
(***************************************************************************)
EXTENDS GitOpsRefinement, GitOpsProofs

\* Without failures of the root clone there is one line of history.
Linear ==
    /\ rootFailures = 0
    /\ poll \notin {"recover", "force"}
    /\ \A s \in Sessions : pc[s] \notin {"recover", "force"}
    /\ remote = Len(commits)
    /\ \A i \in CommitIds : History(i) = 1..i

LEMMA InitLinear == Init => Linear
<1>1. SUFFICES ASSUME Init PROVE Linear
  OBVIOUS
<1>2. Len(commits) = 1 /\ CommitIds = {1} /\ History(1) = {1}
  BY <1>1 DEF Init, CommitIds, History
<1>3. QED
  BY <1>1, <1>2 DEF Init, Linear

LEMMA LinearQuiet ==
    ASSUME Linear, UNCHANGED <<commits, remote, rootFailures>>,
           poll' \notin {"recover", "force"},
           \A s \in Sessions : pc'[s] \notin {"recover", "force"}
    PROVE  Linear'
  BY DEF Linear, CommitIds, History

LEMMA LinearPush ==
    ASSUME TypeOK, Linear, NEW t \in Tree, NEW a \in Sessions \cup Externals,
           NEW onto \in CommitIds, PushNew(t, a, onto), remote \in History(onto),
           UNCHANGED <<rootFailures, poll>>,
           \A s \in Sessions : pc'[s] \notin {"recover", "force"}
    PROVE  Linear' /\ onto = Len(commits)
<1>1. PICK n : n = Len(commits) + 1
  OBVIOUS
<1>2. /\ CommitIds' = CommitIds \cup {n} /\ remote' = n /\ Len(commits') = n
      /\ \A i \in CommitIds : commits'[i] = commits[i]
      /\ commits'[n] = [tree |-> t, by |-> a, parent |-> onto, anc |-> History(onto) \cup {n}]
      /\ Len(commits) \in Nat /\ onto \in 1..Len(commits)
  BY <1>1, PushNewLemma, CommitLemma DEF CommitIds
<1>3. onto = Len(commits)
  BY <1>2 DEF Linear
<1>4. commits'[n].anc = 1..n
  <2>1. commits'[n].anc = History(onto) \cup {n}
    BY <1>2
  <2>2. History(onto) = 1..onto
    BY DEF Linear
  <2>3. QED
    BY <1>1, <1>2, <1>3, <2>1, <2>2
<1>5. \A i \in CommitIds' : commits'[i].anc = 1..i
  BY <1>2, <1>4 DEF Linear, History
<1>6. QED
  BY <1>2, <1>3, <1>5 DEF Linear, History

\* What the next steps need of a push: where it lands and whose it is.
LEMMA SavePushes ==
    ASSUME TypeOK, NEW s \in Sessions, Save(s)
    PROVE  \/ UNCHANGED <<commits, remote>>
           \/ /\ FastForwards(base[s]) /\ remote' = base[s] /\ UNCHANGED commits
           \/ /\ pc[s] = "push" /\ OwnCommit(s) /\ FastForwards(base[s])
              /\ PushNew(Apply(TreeOf(base[s]), change[s]), s, base[s])
<1>1. CASE ~SavePush(s) /\ ~SavePushFail(s)
  BY <1>1 DEF Save, SavePull, SavePullConflict, SavePullUnmerged, SavePullDetached,
     SavePullStuck, SavePullFail, SaveRecover, SavePushRejected, PullUnchanged
<1>2. CASE SavePush(s) \/ SavePushFail(s)
  BY <1>2 DEF SavePush, SavePushFail
<1>3. QED
  BY <1>1, <1>2

\* The program counters of a save.
LEMMA SaveMoves ==
    ASSUME TypeOK, NEW s \in Sessions, Save(s)
    PROVE  /\ pc[s] \in {"pull", "push"} /\ pc'[s] \in {"pull", "push", "rootpull", "finally"}
           /\ \A r \in Sessions \ {s} : pc'[r] = pc[r]
           /\ UNCHANGED <<poll, rootFailures, start>>
<1>. USE RetryLemma DEF pollVars, fails, TypeOK
<1>1. CASE SavePull(s) \/ SavePullDetached(s)
  BY <1>1 DEF SavePull, SavePullDetached, Rebased, PullUnchanged
<1>2. CASE SavePullConflict(s) \/ SavePullUnmerged(s) \/ SavePullStuck(s)
  BY <1>2 DEF SavePullConflict, SavePullUnmerged, SavePullStuck, PullUnchanged
<1>3. CASE SavePullFail(s)
  BY <1>3 DEF SavePullFail, PullUnchanged, Transient
<1>4. CASE SaveRecover(s)
  BY <1>4 DEF SaveRecover, PullUnchanged, Transient, Rebased
<1>5. CASE SavePush(s)
  BY <1>5 DEF SavePush, PushUnchanged
<1>6. CASE SavePushRejected(s)
  BY <1>6 DEF SavePushRejected, PushUnchanged
<1>7. CASE SavePushFail(s)
  BY <1>7 DEF SavePushFail, PushUnchanged, Transient
<1>8. QED
  BY <1>1, <1>2, <1>3, <1>4, <1>5, <1>6, <1>7 DEF Save

\* Failures of the root clone are counted.
LEMMA NoRootFailure ==
    ASSUME rootFailures' = 0, TypeOK PROVE ~RootTransient
  BY DEF TypeOK, RootTransient

LEMMA NextLinear ==
    ASSUME rootFailures' = 0, Inductive, Linear, [Next]_vars PROVE Linear'
<1>1. TypeOK /\ GraphOK /\ ~RootTransient
  BY NoRootFailure DEF Inductive
<1>2. CASE UNCHANGED vars
  BY <1>2, LinearQuiet DEF vars, pollVars, fails, Linear
<1>3. ASSUME NEW e \in Externals, ExternalCommit(e) PROVE Linear'
  <2>1. PICK f \in Files, v \in {e, Absent} :
          PushNew([TreeOf(remote) EXCEPT ![f] = v], e, remote)
    BY <1>3 DEF ExternalCommit
  <2>2. /\ remote \in CommitIds /\ remote \in History(remote)
        /\ [TreeOf(remote) EXCEPT ![f] = v] \in Tree
    BY <1>1, <1>3, CommitLemma, ValuesLemma DEF TypeOK, Tree, GraphOK
  <2>3. UNCHANGED <<rootFailures, poll, pc>>
    BY <1>3 DEF ExternalCommit, fails, pollVars
  <2>4. QED
    BY <1>1, <1>3, <2>1, <2>2, <2>3, LinearPush DEF Linear
<1>4. ASSUME NEW s \in Sessions, Setup(s) \/ Handle(s) \/ Deploy(s) PROVE Linear'
  <2>1. pc[s] \notin {"recover", "force"} /\ pc \in [Sessions -> Phases]
    BY <1>1 DEF Linear, TypeOK
  <2>2. UNCHANGED <<commits, remote, rootFailures, poll>>
    BY <1>1, <1>4, <2>1 DEF Setup, InitPull, InitPullFail, InitRecover, InitForcePush,
       InitRecoverFail, AddWorktree, CopyStore, Handle, HandleCreate, HandleEdit, HandleDelete,
       HandleReject, HandleOnly, WriteAndCommit, Deploy, RootPull, RootPullFail, SetStore,
       Finish, fails, pollVars
  <2>3. /\ pc'[s] \notin {"recover", "force"}
        /\ \A r \in Sessions \ {s} : pc'[r] = pc[r]
    BY <1>1, <1>4, <2>1 DEF Setup, InitPull, InitPullFail, InitRecover, InitForcePush,
       InitRecoverFail, AddWorktree, CopyStore, Handle, HandleCreate, HandleEdit, HandleDelete,
       HandleReject, HandleOnly, WriteAndCommit, Deploy, RootPull, RootPullFail, SetStore,
       Finish
  <2>4. QED
    BY <2>2, <2>3, LinearQuiet DEF Linear
<1>5. ASSUME NEW s \in Sessions, Save(s) PROVE Linear'
  <2>1. /\ UNCHANGED <<poll, rootFailures>>
        /\ \A r \in Sessions : pc'[r] \notin {"recover", "force"}
    BY <1>1, <1>5, SaveMoves DEF Linear
  <2>2. base[s] \in CommitIds /\ Apply(TreeOf(base[s]), change[s]) \in Tree
    BY <1>1, CommitLemma, ValuesLemma DEF TypeOK
  <2>3. CASE UNCHANGED <<commits, remote>>
    BY <2>1, <2>3, LinearQuiet DEF Linear
  <2>4. CASE FastForwards(base[s]) /\ remote' = base[s] /\ UNCHANGED commits
    <3>1. base[s] = remote
      BY <1>1, <2>2, <2>4, CommitLemma DEF FastForwards, Linear, CommitIds
    <3>2. QED
      BY <2>1, <2>4, <3>1, LinearQuiet DEF Linear
  <2>5. CASE /\ FastForwards(base[s])
             /\ PushNew(Apply(TreeOf(base[s]), change[s]), s, base[s])
    BY <1>1, <2>1, <2>2, <2>5, LinearPush DEF FastForwards
  <2>6. QED
    BY <1>1, <1>5, <2>3, <2>4, <2>5, SavePushes
<1>6. CASE Poll
  <2>1. UNCHANGED <<commits, remote, rootFailures, pc>> /\ poll' \notin {"recover", "force"}
    BY <1>1, <1>6 DEF Poll, PollLsRemote, PollCompare, PollPull, PollPullFail, PollRecover,
       PollForcePush, PollRecoverFail, LoadFile, LoadSwap, fails, Linear
  <2>2. QED
    BY <2>1, LinearQuiet DEF Linear
<1>7. CASE Restart
  <2>1. /\ UNCHANGED <<commits, remote, rootFailures>> /\ poll' = "idle"
        /\ \A s \in Sessions : pc'[s] \in {"done", "idle"}
    BY <1>7 DEF Restart
  <2>2. QED
    BY <2>1, LinearQuiet
<1>8. QED
  BY <1>2, <1>3, <1>4, <1>5, <1>6, <1>7 DEF Next, Session

-----------------------------------------------------------------------------
\* The variables of SnapshotIsolation, as GitOpsRefinement maps them.
Versions  == [i \in CommitIds |-> TreeOf(i)]
Snapshot  == [s \in Sessions |-> IF Begun(s) THEN start[s] ELSE 0]
Committed == {s \in Sessions : \E i \in CommitIds : commits[i].by = s}

LEMMA TreesLemma ==
    ASSUME NEW cs \in Seq(Commit)
    PROVE  /\ [i \in 1..Len(cs) |-> cs[i].tree] \in Seq(Tree)
           /\ Len([i \in 1..Len(cs) |-> cs[i].tree]) = Len(cs)
<1>1. Len(cs) \in Nat
  OBVIOUS
<1>2. \A i \in 1..Len(cs) : cs[i].tree \in Tree
  <2>1. SUFFICES ASSUME NEW i \in 1..Len(cs) PROVE cs[i].tree \in Tree
    OBVIOUS
  <2>2. cs[i] \in Commit
    OBVIOUS
  <2>3. QED
    BY <2>2 DEF Commit
<1>3. QED
  BY <1>1, <1>2

LEMMA VersionsLemma ==
    ASSUME TypeOK
    PROVE  /\ Versions \in Seq(Tree) /\ Len(Versions) = Len(commits)
           /\ \A i \in CommitIds : Versions[i] = commits[i].tree
<1>1. commits \in Seq(Commit)
  BY DEF TypeOK
<1>2. QED
  BY <1>1, TreesLemma DEF Versions, CommitIds, TreeOf

LEMMA AppendLemma ==
    ASSUME NEW S, NEW q \in Seq(S), NEW r \in Seq(S), NEW x \in S, Len(r) = Len(q) + 1,
           \A i \in 1..Len(q) : r[i] = q[i], r[Len(q) + 1] = x
    PROVE  r = Append(q, x)
<1>1. /\ Append(q, x) \in Seq(S) /\ Len(Append(q, x)) = Len(q) + 1
      /\ \A i \in 1..Len(q) : Append(q, x)[i] = q[i]
      /\ Append(q, x)[Len(q) + 1] = x
  OBVIOUS
<1>2. \A i \in 1..Len(r) : r[i] = Append(q, x)[i]
  BY <1>1
<1>3. QED
  BY <1>1, <1>2

\* A pushed commit is the next version.
LEMMA PushAppends ==
    ASSUME TypeOK, NEW t \in Tree, NEW a \in Sessions \cup Externals,
           NEW onto \in CommitIds, PushNew(t, a, onto)
    PROVE  /\ Versions' = Append(Versions, t)
           /\ Committed' = Committed \cup ({a} \cap Sessions)
<1>1. PICK n : n = Len(commits) + 1
  OBVIOUS
<1>2. /\ Len(commits) \in Nat /\ CommitIds = 1..Len(commits)
      /\ CommitIds' = CommitIds \cup {n} /\ CommitIds' = 1..n
      /\ \A i \in CommitIds : commits'[i] = commits[i]
      /\ commits'[n].tree = t /\ commits'[n].by = a
  <2>1. commits'[n] = [tree |-> t, by |-> a, parent |-> onto, anc |-> History(onto) \cup {n}]
    BY <1>1, PushNewLemma
  <2>2. QED
    BY <1>1, <2>1, PushNewLemma, CommitLemma DEF CommitIds
<1>3. /\ Versions' \in Seq(Tree) /\ Len(Versions') = n
      /\ \A i \in CommitIds' : Versions'[i] = commits'[i].tree
  <2>1. Len(commits') = n /\ commits' \in Seq(Commit)
    BY <1>1, PushNewLemma
  <2>2. QED
    BY <2>1, TreesLemma DEF Versions, CommitIds, TreeOf
<1>4. /\ Versions \in Seq(Tree) /\ Len(Versions) = Len(commits)
      /\ \A i \in CommitIds : Versions[i] = commits[i].tree
  BY VersionsLemma
<1>5. Versions' = Append(Versions, t)
  <2>1. \A i \in 1..Len(Versions) : Versions'[i] = Versions[i]
    BY <1>2, <1>3, <1>4
  <2>2. Versions'[Len(Versions) + 1] = t /\ Len(Versions') = Len(Versions) + 1
    BY <1>1, <1>2, <1>3, <1>4
  <2>3. QED
    BY <1>3, <1>4, <2>1, <2>2, AppendLemma
<1>6. Committed' = Committed \cup ({a} \cap Sessions)
  BY <1>2 DEF Committed
<1>7. QED
  BY <1>5, <1>6

LEMMA Unbegun ==
    ASSUME UNCHANGED <<commits, start>>, \A s \in Sessions : Begun(s)' <=> Begun(s)
    PROVE  UNCHANGED <<Versions, Snapshot, Committed>>
  BY DEF Versions, Snapshot, Committed, CommitIds, TreeOf

LEMMA InitMaps == Init => SI!Init
<1>1. SUFFICES ASSUME Init PROVE SI!Init
  OBVIOUS
<1>2. /\ TypeOK /\ CommitIds = {1} /\ Len(commits) = 1 /\ commits[1].by = Nobody
      /\ \A s \in Sessions : pc[s] = "idle"
  BY <1>1, InitType DEF Init, CommitIds
<1>3. Versions = <<TreeOf(1)>> /\ TreeOf(1) \in Tree
  BY <1>2, VersionsLemma, CommitLemma DEF TreeOf
<1>4. Snapshot = [s \in Sessions |-> 0]
  BY <1>2 DEF Snapshot, Begun
<1>5. Committed = {}
  BY <1>2, NobodyLemma DEF Committed
<1>6. QED
  BY <1>3, <1>4, <1>5 DEF SI!Init, Versions, Snapshot, Committed

\* A step that adds no commit and begins no session is invisible.
LEMMA Invisible ==
    ASSUME UNCHANGED <<Versions, Snapshot, Committed>> PROVE UNCHANGED SI!vars
  BY DEF SI!vars, Versions, Snapshot, Committed

LEMMA BeginMaps ==
    ASSUME Inductive, Linear, NEW s \in Sessions, AddWorktree(s) PROVE SI!Begin(s)
<1>1. TypeOK
  BY DEF Inductive
<1>2. rootHead \in 1..Len(Versions)
  BY <1>1, VersionsLemma DEF TypeOK, CommitIds
<1>3. /\ pc[s] = "add" /\ pc' = [pc EXCEPT ![s] = "copy"]
      /\ start' = [start EXCEPT ![s] = rootHead]
      /\ UNCHANGED commits
  BY DEF AddWorktree
<1>4. Snapshot[s] = 0
  BY <1>3 DEF Snapshot, Begun
<1>5. Snapshot' = [Snapshot EXCEPT ![s] = rootHead]
  BY <1>1, <1>3 DEF Snapshot, Begun, TypeOK
<1>6. UNCHANGED <<Versions, Committed>>
  BY <1>3 DEF Versions, Committed, CommitIds, TreeOf
<1>7. QED
  BY <1>2, <1>4, <1>5, <1>6 DEF SI!Begin, Versions, Snapshot, Committed

LEMMA OthersMap ==
    ASSUME Inductive, NEW e \in Externals, ExternalCommit(e) PROVE SI!OthersCommit
<1>1. TypeOK /\ e \notin Sessions
  BY NamesAssumption DEF Inductive
<1>2. PICK f \in Files, v \in {e, Absent} :
        PushNew([TreeOf(remote) EXCEPT ![f] = v], e, remote)
  BY DEF ExternalCommit
<1>3. PICK t \in Tree : t = [TreeOf(remote) EXCEPT ![f] = v]
  BY <1>1, CommitLemma, ValuesLemma DEF TypeOK, Tree
<1>4. Versions' = Append(Versions, t) /\ Committed' = Committed
  <2>1. PushNew(t, e, remote) /\ remote \in CommitIds
    BY <1>1, <1>2, <1>3 DEF TypeOK
  <2>2. Versions' = Append(Versions, t) /\ Committed' = Committed \cup ({e} \cap Sessions)
    BY <1>1, <2>1, PushAppends
  <2>3. QED
    BY <1>1, <2>2
<1>5. UNCHANGED Snapshot
  BY DEF ExternalCommit, wtVars, Snapshot, Begun
<1>6. QED
  BY <1>4, <1>5 DEF SI!OthersCommit, Versions, Snapshot, Committed

LEMMA CommitMaps ==
    ASSUME Inductive, Linear, NEW s \in Sessions, pc[s] = "push",
           pc'[s] \in {"pull", "push", "rootpull", "finally"},
           \A r \in Sessions \ {s} : pc'[r] = pc[r], UNCHANGED start,
           OwnCommit(s), FastForwards(base[s]),
           PushNew(Apply(TreeOf(base[s]), change[s]), s, base[s])
    PROVE  SI!Commit(s)
<1>1. TypeOK /\ GraphOK /\ SessionOK(s)
  BY DEF Inductive
<1>2. base[s] \in CommitIds /\ change[s] \in Change /\ start[s] \in CommitIds
  BY <1>1 DEF TypeOK
<1>3. PICK t \in Tree : t = Apply(TreeOf(base[s]), change[s])
  BY <1>1, <1>2, CommitLemma, ValuesLemma
<1>4. TreeOf(base[s]) \in Tree /\ TreeOf(start[s]) \in Tree /\ Len(commits) \in Nat
  BY <1>1, <1>2, CommitLemma
<1>5. base[s] = Len(commits)
  BY <1>2, <1>4 DEF Linear, FastForwards, CommitIds
<1>6. Versions[Len(Versions)] = TreeOf(base[s]) /\ Versions[start[s]] = TreeOf(start[s])
  BY <1>1, <1>2, <1>5, VersionsLemma DEF TreeOf
<1>7. t # TreeOf(base[s]) /\ Saving(s)
  BY <1>3 DEF OwnCommit, Saving
<1>8. \E f \in Files : t[f] # TreeOf(base[s])[f]
  BY <1>3, <1>4, <1>7 DEF Tree
<1>9. \A f \in Files : t[f] # TreeOf(base[s])[f] => TreeOf(base[s])[f] = TreeOf(start[s])[f]
  BY <1>1, <1>3, <1>7 DEF SessionOK, Rebasable, Apply
<1>10. change[s] # NoChange
  BY <1>3, <1>4, <1>7 DEF Apply, NoChange, Tree
<1>11. s \notin Committed
  <2>1. ~LandedIn(s, base[s])
    BY <1>1, <1>7, <1>10 DEF SessionOK, NotYetLanded
  <2>2. History(base[s]) = CommitIds
    BY <1>2, <1>5 DEF Linear, CommitIds
  <2>3. QED
    BY <2>1, <2>2 DEF LandedIn, Committed
<1>12. Versions' = Append(Versions, t) /\ Committed' = Committed \cup {s}
  BY <1>1, <1>2, <1>3, PushAppends
<1>13. Snapshot[s] = start[s] /\ start[s] # 0 /\ UNCHANGED Snapshot
  BY <1>2 DEF Snapshot, Begun, CommitIds
<1>14. SI!Latest = TreeOf(base[s])
  BY <1>6 DEF SI!Latest, Versions
<1>15. SI!Changed(t) # {} /\ \A f \in SI!Changed(t) : SI!Latest[f] = Versions[Snapshot[s]][f]
  BY <1>6, <1>8, <1>9, <1>13, <1>14 DEF SI!Changed
<1>16. /\ Snapshot[s] # 0 /\ s \notin Committed
       /\ \E u \in Tree : /\ SI!Changed(u) # {}
                          /\ \A f \in SI!Changed(u) : SI!Latest[f] = Versions[Snapshot[s]][f]
                         /\ Versions' = Append(Versions, u)
       /\ Committed' = Committed \cup {s} /\ UNCHANGED Snapshot
  BY <1>11, <1>12, <1>13, <1>15
<1>17. QED
  BY <1>16 DEF SI!Commit, Versions, Snapshot, Committed

LEMMA StepMaps ==
    ASSUME rootFailures' = 0, Inductive, Linear, [Next]_vars
    PROVE  [SI!Next]_SI!vars
<1>1. TypeOK /\ ~RootTransient
  BY NoRootFailure DEF Inductive
<1>2. CASE UNCHANGED vars
  BY <1>2, Unbegun, Invisible DEF vars, wtVars, Begun
<1>3. ASSUME NEW e \in Externals, ExternalCommit(e) PROVE SI!Next
  BY <1>3, OthersMap DEF SI!Next
<1>4. ASSUME NEW s \in Sessions, AddWorktree(s) PROVE SI!Next
  BY <1>4, BeginMaps DEF SI!Next
<1>5. ASSUME NEW s \in Sessions, Setup(s) \/ Handle(s) \/ Deploy(s), ~AddWorktree(s)
      PROVE  UNCHANGED SI!vars
  <2>1. pc[s] \notin {"recover", "force"} /\ pc \in [Sessions -> Phases]
    BY <1>1 DEF Linear, TypeOK
  <2>2. UNCHANGED <<commits, start>>
    BY <1>5 DEF Setup, InitPull, InitPullFail, InitRecover, InitForcePush,
       InitRecoverFail, CopyStore, Handle, HandleCreate, HandleEdit, HandleDelete,
       HandleReject, HandleOnly, WriteAndCommit, Deploy, RootPull, RootPullFail, SetStore,
       Finish, wtVars
  <2>3. /\ Begun(s)' <=> Begun(s)
        /\ \A r \in Sessions \ {s} : pc'[r] = pc[r]
    BY <1>1, <1>5, <2>1 DEF Setup, InitPull, InitPullFail, InitRecover, InitForcePush,
       InitRecoverFail, CopyStore, Handle, HandleCreate, HandleEdit, HandleDelete,
       HandleReject, HandleOnly, WriteAndCommit, Deploy, RootPull, RootPullFail, SetStore,
       Finish, Begun
  <2>4. \A r \in Sessions : Begun(r)' <=> Begun(r)
    BY <2>3 DEF Begun
  <2>5. QED
    BY <2>2, <2>4, Unbegun, Invisible
<1>6. ASSUME NEW s \in Sessions, Save(s) PROVE [SI!Next]_SI!vars
  <2>1. /\ pc[s] \in {"pull", "push"} /\ pc'[s] \in {"pull", "push", "rootpull", "finally"}
        /\ \A r \in Sessions \ {s} : pc'[r] = pc[r]
        /\ UNCHANGED start
    BY <1>1, <1>6, SaveMoves
  <2>2. CASE UNCHANGED commits
    BY <2>1, <2>2, Unbegun, Invisible DEF Begun
  <2>3. CASE /\ pc[s] = "push" /\ OwnCommit(s) /\ FastForwards(base[s])
             /\ PushNew(Apply(TreeOf(base[s]), change[s]), s, base[s])
    BY <2>1, <2>3, CommitMaps DEF SI!Next
  <2>4. QED
    BY <1>1, <1>6, <2>2, <2>3, SavePushes
<1>7. CASE Poll
  BY <1>7, Unbegun, Invisible DEF Poll, PollLsRemote, PollCompare, PollPull, PollPullFail,
     PollRecover, PollForcePush, PollRecoverFail, LoadFile, LoadSwap, wtVars, Begun
<1>8. CASE Restart
  BY <1>8, Unbegun, Invisible DEF Restart, Begun
<1>9. QED
  BY <1>2, <1>3, <1>4, <1>5, <1>6, <1>7, <1>8 DEF Next, Session

\* Nothing takes a failure back.
LEMMA FailuresStay ==
    ASSUME TypeOK, [Next]_vars PROVE rootFailures' = 0 => rootFailures = 0
<1>. rootFailures \in Nat
  BY NumbersAssumption DEF TypeOK
<1>1. CASE UNCHANGED vars
  BY <1>1 DEF vars, fails
<1>2. ASSUME NEW e \in Externals, ExternalCommit(e) PROVE UNCHANGED rootFailures
  BY <1>2 DEF ExternalCommit, fails
<1>3. ASSUME NEW s \in Sessions, Setup(s) \/ Handle(s) \/ Deploy(s)
      PROVE  rootFailures' \in {rootFailures, rootFailures + 1}
  BY <1>3 DEF Setup, InitPull, InitPullFail, InitRecover, InitForcePush, InitRecoverFail,
     AddWorktree, CopyStore, Handle, HandleCreate, HandleEdit, HandleDelete, HandleReject,
     HandleOnly, WriteAndCommit, Deploy, RootPull, RootPullFail, SetStore, Finish, fails,
     RootTransient
<1>4. ASSUME NEW s \in Sessions, Save(s) PROVE UNCHANGED rootFailures
  BY <1>4, SaveMoves
<1>5. CASE Poll
  <2>1. rootFailures' \in {rootFailures, rootFailures + 1}
    BY <1>5 DEF Poll, PollLsRemote, PollCompare, PollPull, PollPullFail, PollRecover,
       PollForcePush, PollRecoverFail, LoadFile, LoadSwap, fails, RootTransient
  <2>2. QED
    BY <2>1
<1>6. CASE Restart
  BY <1>6 DEF Restart
<1>7. QED
  BY <1>1, <1>2, <1>3, <1>4, <1>5, <1>6 DEF Next, Session

\* Until a root clone first fails, the branch is a versioned store under generalized
\* snapshot isolation: every deployment commits atomically, at most once per session,
\* and only over files nobody changed since its worktree was created.
THEOREM Implementation == Spec => ImplementsSI
<1>. DEFINE Unfailed == rootFailures = 0 => Linear
<1>1. Init => Unfailed
  BY InitLinear
<1>2. Inductive /\ Unfailed /\ [Next]_vars => Unfailed'
  <2>1. SUFFICES ASSUME Inductive, Unfailed, [Next]_vars, rootFailures' = 0 PROVE Linear'
    OBVIOUS
  <2>2. Linear
    BY <2>1, FailuresStay DEF Inductive
  <2>3. QED
    BY <2>1, <2>2, NextLinear
<1>3. Inductive /\ Unfailed /\ [Next]_vars
        => [rootFailures' = 0 /\ SI!vars' # SI!vars => SI!Next]_(SI!vars)
  <2>1. SUFFICES ASSUME Inductive, Unfailed, [Next]_vars, rootFailures' = 0
                 PROVE  [SI!Next]_(SI!vars)
    OBVIOUS
  <2>2. Linear
    BY <2>1, FailuresStay DEF Inductive
  <2>3. QED
    BY <2>1, <2>2, StepMaps
<1>4. QED
  BY <1>1, <1>2, <1>3, InitMaps, InductiveInvariant, PTL DEF Spec, ImplementsSI

\* If root clones cannot fail at all, GitOps implements SnapshotIsolation as a whole.
THEOREM Refinement == ASSUME MaxRootFailures = 0 PROVE Spec => SI!Spec
<1>1. Inductive' => rootFailures' = 0
  BY DEF Inductive, TypeOK
<1>2. Inductive /\ Inductive' /\ Linear /\ [Next]_vars => Linear'
  BY <1>1, NextLinear
<1>3. Inductive /\ Inductive' /\ Linear /\ [Next]_vars => [SI!Next]_(SI!vars)
  BY <1>1, StepMaps
<1>4. QED
  BY <1>2, <1>3, InitMaps, InitLinear, InductiveInvariant, PTL DEF Spec, SI!Spec
=============================================================================
