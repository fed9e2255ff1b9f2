\* A deposit that is swept and nothing paid out.
CONSTANTS
  Dep = {d1}
  Amount = 20
  Call = {w1}
  Rec = {}
  Cron = {}
  Hash = {h1}
  None = None
  Threshold = 10
  MaxFaults = 0
  MaxCrashes = 0
SPECIFICATION Spec
INVARIANTS
  CreditIsKept
CHECK_DEADLOCK FALSE
