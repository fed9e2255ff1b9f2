\* One deposit, a reconcile run and a rescan under fairness, with a failed call and
\* a restart; no symmetry, for liveness.
CONSTANTS
  Dep = {d1}
  Amount = 20
  Call = {w1}
  Rec = {c1}
  Cron = {n1}
  Hash = {h1, h2}
  None = None
  Threshold = 10
  MaxFaults = 1
  MaxCrashes = 1
SPECIFICATION FairSpec
INVARIANTS
  SweepsAreSound
PROPERTIES
  SweepIsSettled
