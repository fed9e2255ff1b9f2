\* A treasury that can pay once: three tries of one key, one of them through the
\* browser wallet's route, beside the reconcile loop and a restart.
CONSTANTS
  m1 = m1
  m2 = m2
  b1 = b1
  None = None
  Op = {o1}
  Req = {m1, m2, b1}
  Mobile = {m1, m2}
  Rec = {c1}
  Hash = {h1}
  Gross = 5
  Fee = 1
  Opening = 12
  MaxFaults = 0
  MaxCrashes = 1
SPECIFICATION Spec
SYMMETRY Symmetry
INVARIANTS
  TypeOK
  BalanceMatchesLedger
  CommittedMeansDebited
  RefundsAreBounded
PROPERTIES
  HashNeverCleared
  KeepsLedgerPromise
