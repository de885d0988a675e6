--------------------------- MODULE MCGitMigration ---------------------------
(***************************************************************************)
(* GitMigration to one new remote, for TLC, with one request beside it:    *)
(* an edit of the settings, which names the old remote or none.            *)
(***************************************************************************)
EXTENDS GitMigration, TLC

CONSTANTS m1, e1, new1

VARIABLE names   \* the edits that name a remote

MCMigrations == {m1}
MCRemotes == {Old, new1}
MCOnlyMigration == m1 :> new1
MCTarget == MCOnlyMigration @@ e1 :> Old

\* Where an edit names a remote, MaxFailures and MaxRestarts are 0.
MCNext ==
    /\ Next
    /\ UNCHANGED names
    /\ \A e \in Editors \ names : pc'[e] # "store"
    /\ \A e \in names : pc'[e] # "save" \/ pc[e] # "setup"
    /\ names # {} => failures' + restarts' = 0

MCInit == Init /\ names \in SUBSET Editors

MCSpec ==
    /\ MCInit
    /\ [][MCNext]_<<vars, names>>
    /\ (\A a \in Actors : WF_vars(Act(a))) /\ WF_vars(Poll)
=============================================================================
