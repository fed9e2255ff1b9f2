--------------------------- MODULE MCUsdtWithdraw ---------------------------
(* Instances of UsdtWithdraw small enough for TLC.                          *)
EXTENDS UsdtWithdraw, TLC

Symmetry == Permutations(Op) \cup Permutations(Mobile)
              \cup Permutations(Hash)
=============================================================================
