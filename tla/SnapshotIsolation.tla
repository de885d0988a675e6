-------------------------- MODULE SnapshotIsolation --------------------------
(***************************************************************************)
(* What git promises the API about the values branch: an atomic, versioned *)
(* store under generalized snapshot isolation.  A writer works on some     *)
(* version of the store and commits at most once, and only while nobody    *)
(* has changed, since that version, a file that it changes (the first      *)
(* committer wins).  Others may commit anything.  GitOpsRefinement shows   *)
(* that worktrees, rebases, retries and lost answers of GitOps implement   *)
(* this as long as no root clone forces its view on the branch.            *)
(***************************************************************************)
EXTENDS Naturals, Sequences

CONSTANTS Writers, Tree, Files

VARIABLES versions,   \* the contents of the store, oldest first
          snapshot,   \* version a writer works on, 0 before it began
          committed   \* writers that have committed

vars == <<versions, snapshot, committed>>

Latest == versions[Len(versions)]

Changed(t) == {f \in Files : t[f] # Latest[f]}

Init ==
    /\ \E t \in Tree : versions = <<t>>
    /\ snapshot = [w \in Writers |-> 0]
    /\ committed = {}

Begin(w) ==
    /\ snapshot[w] = 0
    /\ \E v \in 1..Len(versions) : snapshot' = [snapshot EXCEPT ![w] = v]
    /\ UNCHANGED <<versions, committed>>

Commit(w) ==
    /\ snapshot[w] # 0
    /\ w \notin committed
    /\ \E t \in Tree :
         /\ Changed(t) # {}
         /\ \A f \in Changed(t) : Latest[f] = versions[snapshot[w]][f]
         /\ versions' = Append(versions, t)
    /\ committed' = committed \cup {w}
    /\ UNCHANGED snapshot

OthersCommit ==
    /\ \E t \in Tree : versions' = Append(versions, t)
    /\ UNCHANGED <<snapshot, committed>>

Next ==
    \/ \E w \in Writers : Begin(w) \/ Commit(w)
    \/ OthersCommit

Spec == Init /\ [][Next]_vars
=============================================================================
