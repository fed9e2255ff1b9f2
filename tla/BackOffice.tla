----------------------------- MODULE BackOffice -----------------------------
(*****************************************************************************)
(* The components around the payments, for any calls, customers and bounds.  *)
(* They share no state that their properties speak of, so a behaviour is one *)
(* of the component in focus and the others stay off: the state spaces add   *)
(* up instead of multiplying.                                                *)
(*****************************************************************************)
EXTENDS Integers, Sequences, FiniteSets

CONSTANTS
  None,
  Sender, Replier, Closer,                          \* Support
  Attempt, Scenarios, Adjusted, Suspect, Peer,      \* AntiFraud
  Address, Rate,
  Customer, Fresh, Login, Buyer, Giver, Browser,
  Casts, Naming, Blank,                             \* Wallets
  Amounts, MaxEntries, Agreements, PlatformPercent, \* Books
  Run, Op, Stuck, Batch, Patience, MaxFaults,       \* ReconcileLoop
  Reader, Refresh, Treasury, Plain,                 \* BalanceCache
  Person, Device, Sending, Everyone, MaxSteps,      \* PushTokens
  Request, Visitor, Changer, Secret                 \* Administration

VARIABLES focus, tickets, talk,
          ledger, status, enabled, listed, pay, check, editor, spent,
          wallets, hand, coins, broken,
          accounts, agreement, tally,
          shared, lock, runs, ops, closed, visited, slow, faults,
          row, entry, desk, unannounced,
          token, wants, user, dead, mail, changes, wrong,
          setting, puts, trail, password, gate

Desk == INSTANCE Support
Watch == INSTANCE AntiFraud WITH Payer <- Suspect
Safe == INSTANCE Wallets WITH Payer <- Giver
Ledger == INSTANCE Books
Loop == INSTANCE ReconcileLoop
Cache == INSTANCE BalanceCache
Push == INSTANCE PushTokens
Admin == INSTANCE Administration

\* each call brings a key of its own, and no key is the empty one
ASSUME KeysAssumption ==
  {None, Blank} \cap (Login \cup Buyer \cup Giver \cup Browser) = {}

ASSUME ScenariosAssumption ==
  /\ Suspect \in Peer /\ Rate \in Nat \ {0}
  /\ \A s \in Scenarios : Watch!IsScenario(s)

\* what is written to the settings is not the lack of a row
ASSUME SettingsAssumption == None \notin Request \cup {"default"}

\* amounts are whole numbers of a unit in which fees can be shared out
ASSUME AgreementsAssumption ==
  /\ Amounts \subseteq Nat /\ PlatformPercent \in 0 .. 100
  /\ \A deal \in Agreements : Ledger!IsAgreement(deal)
  /\ \A deal \in Agreements, amount \in Amounts : Ledger!IsExact(deal, amount)

deskVars == <<tickets, talk>>
watchVars == <<ledger, status, enabled, listed, pay, check, editor, spent>>
safeVars == <<wallets, hand, coins, broken>>
booksVars == <<accounts, agreement, tally>>
loopVars == <<shared, lock, runs, ops, closed, visited, slow, faults>>
cacheVars == <<row, entry, desk, unannounced>>
pushVars == <<token, wants, user, dead, mail, changes, wrong>>
adminVars == <<setting, puts, trail, password, gate>>
vars == <<focus, deskVars, watchVars, safeVars, booksVars, loopVars, cacheVars,
          pushVars, adminVars>>

DeskOff == tickets = None /\ talk = None
WatchOff == /\ ledger = None /\ status = None /\ enabled = None /\ listed = None
            /\ pay = None /\ check = None /\ editor = None /\ spent = None
SafeOff == wallets = None /\ hand = None /\ coins = None /\ broken = None
BooksOff == accounts = None /\ agreement = None /\ tally = None
LoopOff == /\ shared = None /\ lock = None /\ runs = None /\ ops = None /\ closed = None
           /\ visited = None /\ slow = None /\ faults = None
CacheOff == row = None /\ entry = None /\ desk = None /\ unannounced = None
PushOff == /\ token = None /\ wants = None /\ user = None /\ dead = None
           /\ mail = None /\ changes = None /\ wrong = None
AdminOff == /\ setting = None /\ puts = None /\ trail = None
            /\ password = None /\ gate = None

Init == /\ focus \in {"support", "antifraud", "wallets", "books", "loop",
                      "cache", "push", "admin"}
        /\ IF focus = "support" THEN Desk!Init ELSE DeskOff
        /\ IF focus = "antifraud" THEN Watch!Init ELSE WatchOff
        /\ IF focus = "wallets" THEN Safe!Init ELSE SafeOff
        /\ IF focus = "books" THEN Ledger!Init ELSE BooksOff
        /\ IF focus = "loop" THEN Loop!Init ELSE LoopOff
        /\ IF focus = "cache" THEN Cache!Init ELSE CacheOff
        /\ IF focus = "push" THEN Push!Init ELSE PushOff
        /\ IF focus = "admin" THEN Admin!Init ELSE AdminOff

Still(component, its) == IF focus = component THEN TRUE ELSE UNCHANGED its
Next == /\ UNCHANGED focus
        /\ Still("support", deskVars) /\ Still("antifraud", watchVars)
        /\ Still("wallets", safeVars) /\ Still("books", booksVars)
        /\ Still("loop", loopVars) /\ Still("cache", cacheVars)
        /\ Still("push", pushVars) /\ Still("admin", adminVars)
        /\ \/ focus = "support" /\ Desk!Next
           \/ focus = "antifraud" /\ Watch!Next
           \/ focus = "wallets" /\ Safe!Next
           \/ focus = "books" /\ Ledger!Next
           \/ focus = "loop" /\ Loop!Next
           \/ focus = "cache" /\ Cache!Next
           \/ focus = "push" /\ Push!Next
           \/ focus = "admin" /\ Admin!Next

InLoop == focus = "loop"
Fairness == /\ WF_loopVars(InLoop /\ Loop!Tick)
            /\ WF_loopVars(InLoop /\ Loop!Timer)
            /\ \A r \in Run : WF_loopVars(InLoop /\ Loop!Work(r))
Spec == Init /\ [][Next]_vars /\ Fairness

\* Support.tla: messages go to one open ticket, and a closed one names who closed
\* it.
TicketsAccounted == focus = "support" => Desk!TicketsAccounted

\* AntiFraud.tla: a customer marked FRAUD has a case to decide, and an approval
\* lets one payment through.
CasesAccounted ==
  focus = "antifraud" => Watch!FraudIsExplained /\ Watch!ApprovalIsSpent

\* AntiFraud.tla: a block is lifted by an administrator or by a request begun
\* before it, and no edit changes the status it saw without a comment.
StatusMovesForCause ==
  [][focus = "antifraud" => Watch!BlockLifted /\ Watch!SilentChange]_vars

\* Wallets.tla: what was paid to a customer's address can be spent.
CoinsReachable == focus = "wallets" => Safe!CoinsReachable

\* Books.tla: what the transit accounts and the liability are off by has its
\* causes, and both services share a fee alike.
BooksExplained ==
  focus = "books" => /\ Ledger!TransitExplained /\ Ledger!LiabilityExplained
                     /\ Ledger!ServicesAgree

\* ReconcileLoop.tla: two runs overlap only after one outlived its lock.
OverlapNeedsSlowRun == InLoop => Loop!OverlapNeedsSlowRun

\* BalanceCache.tla: a stale balance is served only where nobody announced the
\* change or a read was under way.
StaleIsExplained == focus = "cache" => Cache!StaleIsExplained

\* PushTokens.tla: a message reaches the device of a customer it is for.
OnlyTheAddressee == focus = "push" => Push!OnlyTheAddressee

\* Administration.tla: the log says what changed, and the password last chosen
\* is the one that opens.
RecordsAreTrue ==
  focus = "admin" => Admin!LogIsTrue /\ Admin!PasswordIsLastChosen

\* Where the timer runs, every open operation is looked at sooner or later, even
\* if runs hang: the lock is taken over, and the operations that never close do
\* not fill the batch.  (They do when there are as many as the batch takes.)
EveryOperationIsVisited ==
  \A op \in Op :
    (InLoop /\ Loop!Waits(op)) ~> (InLoop /\ Loop!Seen(op))
=============================================================================
