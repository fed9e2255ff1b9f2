\* A bridge transfer to a browser wallet, a transfer between browser wallets, two
\* reports of their transactions and the reconcile loop.
CONSTANTS
  Op = {o1}
  ToBrowser = {o1}
  Req = {r1}
  Wal = {x1}
  Call = {w1, w2}
  Rec = {c1}
  Hash = {h1, h2}
  Deposit = Deposit
  Wallet = Wallet
  None = None
  Gross = 5
  Fee = 1
  Opening = 12
  MaxFaults = 0
  MaxCrashes = 0
SPECIFICATION Spec
SYMMETRY Symmetry
INVARIANTS
  ReportsAreBounded
PROPERTIES
  LateNeverCredits
