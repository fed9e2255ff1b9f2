--------------------------- MODULE MCUsdtInternal ---------------------------
(* Instances of UsdtInternal small enough for TLC: keys 1 and 2.             *)
EXTENDS UsdtInternal, TLC

CONSTANTS a, b, c

\* two customers paying each other
CrossSender == <<a, b>>
CrossReceiver == <<b, a>>

\* two customers paying a third
JoinSender == <<a, b>>
JoinReceiver == <<c, c>>

Symmetry == Permutations(Req)
=============================================================================
