----------------------------- MODULE MCResources -----------------------------
(* Resources on one team and one application, for TLC: the item is a build and *)
(* needs the application.                                                      *)
EXTENDS Resources, TLC

CONSTANTS t1, w1, k1, b1, a1

MCTeams == {t1}
MCWorkloads == {w1}
MCKnowledgeBases == {k1}
MCBuilds == {b1}
MCApps == {a1}
MCBuildApps == {a1}
MCPresent0 == {Settings(t1), App(a1)} \cup WorkloadFiles(t1, w1) \cup BaseFiles(t1, k1)

Symmetry == Permutations(Requests) \cup Permutations(CodeRepos)
=============================================================================
