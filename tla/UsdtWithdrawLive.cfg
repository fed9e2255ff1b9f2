\* One key and one request under fairness, with a failed call and a restart; no
\* symmetry, for liveness.
CONSTANTS
  m1 = m1
  None = None
  Op = {o1}
  Req = {m1}
  Mobile = {m1}
  Rec = {c1}
  Hash = {h1, h2, h3}
  Gross = 5
  Fee = 1
  Opening = 12
  MaxFaults = 1
  MaxCrashes = 1
SPECIFICATION FairSpec
INVARIANTS
  ConfirmedHasHistory
  ResendsAreBounded
PROPERTIES
  InterruptedIsResumed
  MinedIsSettled
