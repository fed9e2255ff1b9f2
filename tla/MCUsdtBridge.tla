---------------------------- MODULE MCUsdtBridge ----------------------------
(* Instances of UsdtBridge small enough for TLC.                            *)
EXTENDS UsdtBridge, TLC

Symmetry == Permutations(Hash) \cup Permutations(Call)
=============================================================================
