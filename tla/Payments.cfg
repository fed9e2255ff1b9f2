\* Two requests at a time of two customers, one-leg and two-leg conversions and
\* transfers against each other, with a lost answer or a failed query; the fee
\* eats the smallest amount.  Answered requests stop, so states without a
\* successor are expected.
CONSTANTS
  alice = alice
  bob = bob
  r1 = r1
  r2 = r2
  None = None
  Customer <- MCCustomer
  Req <- MCReq
  Asks <- MCAsks
  Opening <- MCOpening
  Fee = 1
  Platform = 1
  MaxFaults = 1
SPECIFICATION Spec
CHECK_DEADLOCK FALSE
INVARIANTS
  HistoryIsComplete
  ShortfallHasCause
  PaidOrRefunded
  SecondLegIsOwn
  SomRowTellsTheBank
PROPERTIES
  OverdraftNeedsRace
