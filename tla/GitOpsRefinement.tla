-------------------------- MODULE GitOpsRefinement --------------------------
(***************************************************************************)
(* GitOps implements SnapshotIsolation.  The versions of the store are the *)
(* commits of the branch; a session begins when its worktree is added and  *)
(* has committed when a commit of it exists.                               *)
(***************************************************************************)
EXTENDS GitOpsInvariant

SI == INSTANCE SnapshotIsolation WITH
        Writers   <- Sessions,
        versions  <- [i \in CommitIds |-> TreeOf(i)],
        snapshot  <- [s \in Sessions |-> IF Begun(s) THEN start[s] ELSE 0],
        committed <- {s \in Sessions : \E i \in CommitIds : commits[i].by = s}

\* Until a root clone fails for the first time, every step of the write path is a step
\* of the versioned store or invisible to it: the branch has a linear history of atomic,
\* conflict-free commits.  (A root clone that failed may force its view on the branch.
\* That the step is visible is said twice for TLC, which then need not try the others.)
ImplementsSI ==
    SI!Init /\ [][rootFailures' = 0 /\ SI!vars' # SI!vars => SI!Next]_(SI!vars)
=============================================================================
