---------------------------- MODULE MCUsdtSweep ----------------------------
(* Instances of UsdtSweep small enough for TLC.                             *)
EXTENDS UsdtSweep, TLC

Symmetry == Permutations(Hash) \cup Permutations(Dep) \cup Permutations(Call)
=============================================================================
