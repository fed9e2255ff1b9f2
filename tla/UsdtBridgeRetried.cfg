\* A transfer from a browser wallet, its retry and a wallet transfer under fairness,
\* beside the reconcile loop, with a failed call and a restart; no symmetry, for
\* liveness.
CONSTANTS
  Op = {o1}
  ToBrowser = {}
  Req = {r1, r2}
  Wal = {x1}
  Call = {}
  Rec = {c1}
  Hash = {h1, h2}
  Deposit = Deposit
  Wallet = Wallet
  None = None
  Gross = 5
  Fee = 1
  Opening = 12
  MaxFaults = 1
  MaxCrashes = 1
SPECIFICATION FairSpec
INVARIANTS
  DoneIsAccounted
PROPERTIES
  SettledIsConfirmed
