\* Each component around the payments in turn; calls end, so states without a
\* successor are expected.
CONSTANTS
  None = None
  u1 = u1
  u2 = u2
  u3 = u3
  e1 = e1
  k1 = k1
  k2 = k2
  Sender <- MCThree
  Replier <- MCReply
  Closer <- MCKey
  Attempt <- MCThree
  Scenarios <- MCScenarios
  Adjusted <- MCAdjusted
  Suspect = "c"
  Peer <- MCPeers
  Address <- MCAddress
  Rate = 2
  Customer <- MCCustomers
  Fresh <- MCFresh
  Login <- MCTwo
  Buyer <- MCThird
  Giver <- MCReply
  Browser <- MCKeys
  Casts <- MCCasts
  Naming <- MCNaming
  Blank = "blank"
  Amounts <- MCAmounts
  MaxEntries = 2
  Agreements <- MCAgreements
  PlatformPercent = 10
  Run <- MCTwo
  Op <- MCOps
  Stuck <- MCKey
  Batch = 2
  Patience = 1
  MaxFaults = 1
  Reader <- MCTwo
  Refresh <- MCThird
  Treasury <- MCKey
  Plain <- MCOther
  Person <- MCTwo
  Device <- MCKeys
  Sending <- MCReply
  Everyone = "everyone"
  MaxSteps = 3
  Request <- MCKeys
  Visitor <- MCFirst
  Changer <- MCReply
  Secret <- MCSecret
SPECIFICATION Spec
CHECK_DEADLOCK FALSE
INVARIANTS
  TicketsAccounted
  CasesAccounted
  CoinsReachable
  BooksExplained
  OverlapNeedsSlowRun
  StaleIsExplained
  OnlyTheAddressee
  RecordsAreTrue
PROPERTIES
  StatusMovesForCause
  EveryOperationIsVisited
