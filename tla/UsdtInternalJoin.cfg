\* Two senders, four tries that nothing coalesces, and a receiver that has no
\* balance row yet.
CONSTANTS
  a = a
  b = b
  c = c
  Cust = {a, b, c}
  Holding = {a, b}
  Key = {1, 2}
  Sender <- JoinSender
  Receiver <- JoinReceiver
  Req = {r1, r2, r3, r4}
  Mobile = {}
  Rec = {k1}
  None = None
  Gross = 5
  Fee = 1
  Opening = 14
  MaxFaults = 2
  MaxCrashes = 1
SPECIFICATION Spec
SYMMETRY Symmetry
INVARIANTS
  TransfersAddUp
  PaysOnceInTurn
