-------------------------- MODULE GitOpsInvariant ---------------------------
(***************************************************************************)
(* The inductive invariant behind the safety properties of GitOps, checked *)
(* by TLC before it is proved in GitOpsProofs.                             *)
(***************************************************************************)
EXTENDS GitOps

\* The commit graph: a commit descends from itself, from older commits only and
\* from everything its ancestors descend from; only the first has no parent.
GraphOK ==
    \A i \in CommitIds :
        /\ i \in History(i)
        /\ History(i) \subseteq 1..i
        /\ \A j \in History(i) : History(j) \subseteq History(i)
        /\ commits[i].by # Nobody => commits[i].parent \in History(i) \ {i}

\* Before its handler has written, a session has committed nothing and its
\* worktree is as `git worktree add` made it.
BeforeCommit(s) ==
    /\ pc[s] \in {"idle", "recover", "force", "add", "copy", "handle"} =>
          /\ tree[s] = "clean"
          /\ \A i \in CommitIds : commits[i].by # s
    /\ pc[s] \in {"copy", "handle"} => base[s] = start[s]

Saving(s) == pc[s] \in {"pull", "push"} /\ tree[s] = "clean"

\* What a session is still going to change is, at the commit its own commit sits
\* on, as it was when the worktree was created, or already as it shall become.
Rebasable(s) ==
    Saving(s) => \A f \in Files : change[s][f] # Keep =>
        TreeOf(base[s])[f] \in {TreeOf(start[s])[f], change[s][f]}

\* A session with something left to push has not pushed it below its own commit.
NotYetLanded(s) ==
    Saving(s) /\ change[s] # NoChange => ~LandedIn(s, base[s])

SessionOK(s) == BeforeCommit(s) /\ Rebasable(s) /\ NotYetLanded(s)

\* No history holds two commits of one session; AtMostOnce is the case c = remote.
SingleLanding ==
    \A c \in CommitIds : \A i, j \in History(c) \cap CommitIds :
        commits[i].by = commits[j].by /\ commits[i].by \in Sessions => i = j

\* The strengthening that every step preserves: the three safety properties of the
\* branch, and what worktrees and commit graph must satisfy for them to persist
\* through rebases, lost answers and forced pushes.
Inductive ==
    /\ TypeOK
    /\ GraphOK
    /\ RootFollowsBranch
    /\ \A s \in Sessions : SessionOK(s)
    /\ FirstCommitterWins
    /\ SingleLanding

-----------------------------------------------------------------------------
(* What an answer means: the strengthening behind AckedOrOvertaken and     *)
(* NoDirtyReads, on top of Inductive.                                      *)

\* Every history goes back to the first commit, the only one that nobody made.
Rooted == \A i \in CommitIds : 1 \in History(i) /\ (i # 1 => commits[i].by # Nobody)

Edits(i, f) == TreeOf(i)[f] # TreeOf(commits[i].parent)[f]

\* What two versions of one history differ in was edited by a commit between them.
EditsBetween ==
    \A c \in CommitIds : \A b \in History(c) : \A f \in Files :
        TreeOf(c)[f] # TreeOf(b)[f] => \E i \in History(c) \ History(b) : Edits(i, f)

\* A forced push takes nothing off the branch that a worktree was created from.
StartsStay ==
    \A s \in Sessions : start[s] \in History(rootHead) \cap History(base[s])

\* What AckedOrOvertaken promises whom it answers with success.
Delivered(s) ==
    Missing(s) # {} => \E f \in Files : request[s][f] # Keep /\ Overtaken(s, f)

\* A file of a request is still to be pushed with the session's commit, unless it
\* has been on the branch or somebody else's edit is why it is not.
Accounted(s) ==
    Delivered(s) \/ \A f \in Missing(s) : change[s][f] = request[s][f]

\* Who has been in a conflict, has committed, or is past the push has delivered;
\* a request writes its own content or nothing, and is answered last.
DeliveryOK(s) ==
    /\ pc[s] \in {"idle", "recover", "force", "add", "copy", "handle"} => request[s] = NoChange
    /\ pc[s] \notin {"finally", "done"} => outcome[s] = "none"
    /\ \A f \in Files : /\ request[s][f] \in {Keep, Absent, s}
                        /\ change[s][f] \in {Keep, request[s][f]}
    /\ \/ tree[s] # "clean"
       \/ pc[s] \in {"rootpull", "set"}
       \/ outcome[s] = "ok"
       \/ \E i \in CommitIds : commits[i].by = s
       => Delivered(s)
    /\ Saving(s) => Accounted(s)

\* The timer reads files of commits only.
LoadedIsPushed ==
    \A f \in Files : loaded[f] # Keep => \E i \in CommitIds : TreeOf(i)[f] = loaded[f]

AnswerInductive ==
    /\ Inductive
    /\ Rooted
    /\ EditsBetween
    /\ StartsStay
    /\ \A s \in Sessions : DeliveryOK(s)
    /\ LoadedIsPushed
    /\ NoDirtyReads
=============================================================================
