----------------------------- MODULE MCSettings -----------------------------
(* Settings of three kinds, for TLC: dns has sealed secrets, obj legacy ones, *)
(* otomi none.                                                                *)
EXTENDS Settings, TLC

CONSTANTS dns, obj, otomi

MCIds == {dns, obj, otomi}
MCSecretIds == {dns, obj}
MCLegacy == {obj}
MCSealed0 == {dns}

Symmetry == Permutations(Requests)
=============================================================================
