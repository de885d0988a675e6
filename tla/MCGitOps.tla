------------------------------ MODULE MCGitOps ------------------------------
(* GitOps on a small values repository, for TLC. *)
EXTENDS GitOpsRefinement, TLC

CONSTANTS f1, f2

MCFiles     == {f1, f2}
MCPresent0  == {f1}
MCWriteSets == {{f1}, {f1, f2}}

\* Writers and external committers only; the timer is covered by the runs of Spec.
WriteNext ==
    \/ \E e \in Externals : ExternalCommit(e)
    \/ \E s \in Sessions : Session(s)
    \/ Restart
WriteSpec == Init /\ [][WriteNext]_vars

Symmetry == Permutations(Sessions)
=============================================================================
