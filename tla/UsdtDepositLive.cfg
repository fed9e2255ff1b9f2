\* One deposit delivered twice, under fairness; no symmetry, for liveness.
CONSTANTS
  h1 = h1
  h2 = h2
  k1 = k1
  k2 = k2
  None = None
  Hash = {h1}
  Key = {k1, k2}
  Notice <- OneDeposit
  Call = {w1, w2}
  Rec = {c1}
  MaxFaults = 1
  MaxCrashes = 1
SPECIFICATION FairSpec
PROPERTIES
  MinedIsConfirmed
