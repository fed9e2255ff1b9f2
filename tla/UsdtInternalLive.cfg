\* Two customers paying each other, and a retry, under fairness.
CONSTANTS
  a = a
  b = b
  c = c
  Cust = {a, b}
  Holding = {a, b}
  Key = {1, 2}
  Sender <- CrossSender
  Receiver <- CrossReceiver
  Req = {r1, r2, r3}
  Mobile = {}
  Rec = {k1}
  None = None
  Gross = 5
  Fee = 1
  Opening = 8
  MaxFaults = 1
  MaxCrashes = 1
SPECIFICATION FairSpec
PROPERTIES
  TransfersEnd
  PaidIsConfirmed
