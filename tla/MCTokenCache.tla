---------------------------- MODULE MCTokenCache ----------------------------
(* Two instances of the service, each with one call at a time. *)
EXTENDS TokenCache, TLC
CONSTANTS i1, i2
TwoInstances == {i1, i2}
AheadOrBehind == {-1, 1}
InstanceSymmetry == Permutations(TwoInstances)
=============================================================================
