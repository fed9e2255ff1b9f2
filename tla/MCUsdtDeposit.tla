--------------------------- MODULE MCUsdtDeposit ---------------------------
(* Instances of UsdtDeposit small enough for TLC.                           *)
EXTENDS UsdtDeposit, TLC

CONSTANTS h1, h2, k1, k2

\* h1 is reported under both keys; k1 is used again for another transaction
SharedKeys == {<<h1, k1>>, <<h1, k2>>, <<h2, k1>>}
\* one transaction under the watcher's key and under a client's own
OneDeposit == {<<h1, k1>>, <<h1, k2>>}

Symmetry == Permutations(Call)
=============================================================================
