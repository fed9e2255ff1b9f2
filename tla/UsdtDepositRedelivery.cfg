\* Three deliveries that mix two transactions and two keys, beside the reconcile loop.
CONSTANTS
  h1 = h1
  h2 = h2
  k1 = k1
  k2 = k2
  None = None
  Hash = {h1, h2}
  Key = {k1, k2}
  Notice <- SharedKeys
  Call = {w1, w2, w3}
  Rec = {c1}
  MaxFaults = 0
  MaxCrashes = 0
SPECIFICATION Spec
SYMMETRY Symmetry
INVARIANTS
  ConfirmedIsCredited
PROPERTIES
  LateNeverCredits
  CreditStaysWithOperation
