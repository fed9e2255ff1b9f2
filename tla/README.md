# A specification of brics-pay-backend

`brics-pay-backend` is a NestJS server that keeps customers' money in four
assets: SOM at a bank, ESOM on an Ethereum chain, USDT (TRC20) on TRON and other
coins quoted at an exchange. This directory holds TLA+ modules of the parts that
move money and of those that decide about them, the TLC configurations that
check them on small instances, and proofs, checked by TLAPS, that the most
important properties hold for every number of requests, operations and
transactions.

Line numbers are those of `src/`; `orchestrator` stands for
`src/src/payments/usdt-treasury-orchestrator.service.ts` and `payments` for
`src/src/payments/payments.service.ts`. `PROJECT.json` maps every definition to
the lines it stands for, and lists the hazards and the findings.

## 1. Inventory

The server is one Node process. Requests run concurrently: each `await` gives
way to every other request, to the reconcile loop and to the daily balance
rescan. PostgreSQL
runs at READ COMMITTED, so a transaction of Prisma is atomic in its writes but
each of its statements reads what was committed when it ran. A restart loses
whatever a request had still to do. The chain, the bank and the exchange are
calls that may fail, or succeed and have their answer lost.

One thing about the process is easy to miss. `BricsService` is built for each
request (`Scope.REQUEST`, brics.service.ts:19), and in Nest that scope spreads to
whatever injects it: the orchestrator (103), payments (145), the users and the
settings services, and their controllers. So the timer that `onModuleInit`
(109-122) starts has no instance to start it; the lock of the reconcile loop
(88) and the in-flight map of the payments controller (38) belong to one
request. The loop runs when an administrator calls
`POST /payments/usdt/reconcile`. The modules take this into account where it
matters: safety is stated for any number of runs and for requests that nothing
coalesces, `ReconcileLoop` checks the lock both shared and private, and the
liveness of the Usdt modules assumes that somebody keeps starting the loop.

| Component | Source | State | Operations | What makes it correct |
|---|---|---|---|---|
| USDT withdrawal | orchestrator 2434-2803 | `payment_operations` (WITHDRAW, COMPENSATION), balance, `ledger_entries`, `blockchain_transactions`, `transactions` | withdraw, compensate, finalize | no lost update of the balance; a key pays once; a refund answers a failure of a debited operation; what is confirmed is shown in the history |
| USDT deposit | orchestrator 1226-1348, 2834-2931 | the same tables (DEPOSIT) | webhook, finalize | a transaction is credited once, and in the end |
| Reconcile loop | orchestrator 109-122, 2933-3109 | single-flight flag, batch of 50 | resume, finalize, fail, compensate | it ends what a request left undone and reaches every open row; two runs do not overlap |
| USDT sweep | orchestrator 1824-1943, 2805-2832 | SWEEP operations | sweep after a deposit or a bridge | a sweep is sent before it is confirmed, by nobody twice, and does not stay open |
| USDT internal transfer | orchestrator 1945-2094 | INTERNAL_TRANSFER operations, two balances | transfer | what leaves one balance reaches the other, once per key |
| USDT browser-wallet bridge | orchestrator 2096-2432, payments 497-640 | INTERNAL_TRANSFER operations, two balances, the chain | send, record, watch | coins and ledger agree, whoever else reports the hash |
| Reserve snapshot | orchestrator 600-760 | a cached view | read | (read-only) |
| Commission and tariffs | orchestrator 1540-1822, payments, settings service | `accounting_postings` | fee, split, postings | what transit and liability hold is explained by what the operations moved; both services share a fee alike |
| Conversion, SOM purchase and redemption | payments 1650-3160 | several `transactions`, bank, ESOM chain, balances | up to two legs, each several steps | SUCCESS means done; what was taken is paid or given back once; the second leg spends what the first left |
| ESOM and SOM transfers | payments 3168-3937 | balances, bank, ESOM chain | transfer by phone, wallet, QR | the row says what bank, chain and ledger did |
| Payment history, receipts | payments, `transactions.service.ts` | none | queries | (read-only) |
| Controllers | `*.controller.ts` | in-flight map of `POST /payments/transfer` | forward, coalesce | calls with one key share one run |
| Anti-fraud | `antifraud.service.ts` | `fraud_cases`, customer status | check, open, approve, reject | a FRAUD mark has a case to decide; a check that begins under a block does not lift it; an approval is used once |
| Balance cache and refresh | `user-management/*` | balances, TTL cache | fetch, cache, invalidate, rescan | a stale balance has a writer that did not announce itself; a refresh does not undo the ledger |
| Support tickets | `support.service.ts` | tickets, messages | open, reply, close | one open ticket per customer; a closed one names its closer |
| Notifications | `notifications/*` | push tokens | register, list, send | a message reaches only whom it is for |
| Users and wallets | `users.service.ts` | customers | sign up, repair wallets | no key is lost while its address holds coins |
| Settings, administrators, audit | `config/settings`, `admin-management`, `audit` | single rows, action log | read, update, log in | the log tells what changed; the password last chosen opens |
| Adapters | `config/crypto`, `config/ethereum`, `config/brics`, `config/exchange` | ABS session, nonce | send, read | no nonce is used twice |

Hard to test, and what the models are for: two requests with the same
idempotency key; a request beside the reconcile loop; a webhook beside either;
rows that are written from copies read several `await`s before; the process
dying, or one call failing, between any two steps; a call whose answer is lost
although it did its work; and whether something that was stopped half-way is
ever finished. `PROJECT.json` lists each at its line.

## 2. Plan

The USDT treasury came first: its operations outlive the request that started
them, so requests, deliveries, the reconcile loop and restarts all write the same
rows. Then the payments that work on bank, chain and ledger in one request, and
then what surrounds both.

| Order | Modules | Say |
|---|---|---|
| done | `UsdtWithdraw`, implements `WithdrawLedger` | withdrawal, compensation, finalization, reconcile |
| done | `UsdtDeposit` | deposit webhook, finalization, reconcile |
| done | `UsdtBridge` | browser-wallet bridge, its watcher, transfers between browser wallets, and the webhook on the same transactions |
| done | `UsdtInternal` | transfer between two customers, statement by statement under row locks |
| done | `UsdtSweep` | sweep of a deposit address, the refresh after it and the nightly rescan |
| done | `PaymentRails`, `Conversions`, `Transfers`; composed in `Payments` | conversions of one and two legs, ESOM and SOM transfers, on the same nonce, wallets, accounts, ledger and history |
| done | `ReconcileLoop`, `BalanceCache`, `AntiFraud`, `Wallets`, `Books`, `Support`, `PushTokens`, `Administration`; composed in `BackOffice` | the components around the payments |
| left | the kinds of operation over one `payment_operations` | keys are global across customers and kinds; hashes of one kind found by another |
| left | an abstract specification of a conversion, one of a deposit | taken once, paid or given back once; each transaction credited under one operation |
| left | SOM to outside accounts, AML sources, the bank's session, the price cache | see section 7 |

Theorems: every invariant and every action property that a passing run checks is
proved (section 5). What is left is the refinement of an abstract conversion and of an
abstract deposit, once they are stated.

## 3. Modules and code

**What a step is.** Each module cuts its handler at every `await`: a database
transaction of the ORM (or, where a statement inside it reads what a later one
relies on, each statement), a single query, and an RPC call are steps. `pc[a]`
names the call the actor `a` is about to make, and the other per-actor variables are
the locals it still holds. Actors are HTTP requests (`Req`), deliveries of the
deposit webhook (`Call`), wallet transfers (`Wal`), reconcile runs (`Rec`) and
rescans (`Cron`). `Mobile` are requests of `POST /payments/transfer` that share one
controller and so coalesce on customer and key (`InFlight`); the others do
not. `internal_join` and `internal_live` have no `Mobile` request at all, which is
what the request scope amounts to.

**What may go wrong.** `Fault` makes any call throw, and the continuation is the one
the surrounding `try` gives it. `SendLost` is a broadcast the node took although the call
failed. `Crash` ends every actor and keeps the rows and the chain. A
transaction is mined or expires when the network pleases.

**`UsdtWithdraw`.** One customer; `op` holds the WITHDRAW rows by key, `comp` the
`comp:<id>` rows. `WithdrawFind` to `WithdrawConfirm` are `processWithdraw` in
order; `MarkFailed` and `Compensate*` its catch block, shared with the reconcile
loop; `Reconcile*` the WITHDRAW and COMPENSATION branches, which work on the rows
as they were picked (`snap`). `markBroadcasted` writes back the payload the actor read
at its start, so `MarkBroadcasted` may lose the reference to the debit; the model
keeps that (`ref`, `seen`). A request refunds amount and fee, the loop the
amount (`RefundOf`).

**`WithdrawLedger`.** What the ledger of one customer may see: a debit, a failure, a refund
that answers a failure. `UsdtWithdraw` refines it with the variables of the same names.

**`UsdtDeposit`.** Rows by idempotency key, transactions by hash; a `Notice` is the
pair a delivery carries. `Webhook*` look the operation up by key and by hash, create it
and store the hash; `Finalize*` are `finalizeDepositOperation`: read the history
and chain rows, then commit. The commit throws where a unique index of
`transactions` or `blockchain_transactions` would (`Throws`). `late` marks an actor
that began after the first credit; no step reads it.

**`UsdtBridge`.** `Bridge*` are `processBrowserWalletBridgeTransfer` (send, store the
hash, settle both customers), `Watcher*` the detached poll, `Wallet*`
`transferBrowserWalletOnChain`; `Webhook*`, `Finalize*` and `Reconcile*` meet them on
the same hashes. A hash belongs to one operation at most across both kinds
(`Holders`, `Collides`). The fee of a wallet transfer is left out.

**`UsdtInternal`.** `processInternalTransfer` under PostgreSQL: `lock` holds the
row locks on balances and operations until commit or rollback, increments take effect at the
commit, an insert of a row that another transaction has just inserted throws
(`Duplicate`), and a cycle of waits ends with one victim (`DeadlockVictim`).

**`UsdtSweep`.** `coins` are on the deposit address, `balance` is the row customers are
shown. A deposit is credited in one step here (`UsdtDeposit` has the
detail). `Sweep*` and `Send*` are `maybeSweepCustomerWallet` and its copy in the
reconcile loop, `Refresh*` is `refreshAllBalancesForUser` for USDT, and
`RescanStart` the nightly run over every customer. The key of a sweep contains the balance it saw.
`payer` and `sender` remember for which sweep a transaction was sent, and by whom.

The runs of the Usdt modules take their rows in any order, which includes the order by
age the code uses; `ReconcileLoop` has the batch limit. `isConfirmedTx`
accepts a transaction the node merely knows and one that reverted, and the models let it (`Known`).

**`PaymentRails`, `Conversions`, `Transfers`, `Payments`.** A request follows the
`Route` of its leg: the sequence of the handler's awaits that read or change what
others see. An external call is done, refused, or done and its answer lost
(`Answered`); a query fails (`Fails`); `Threw` is the continuation each handler gives an
exception. `ticket` is the admin account's nonce, read when a mint or a gas
top-up begins: when another request's transaction is mined first it goes stale and the
node refuses it (`NonceRefused`). `Conversions` has `convert` with
`fiatToCrypto` and `cryptoToFiat`, and the look-up between two legs, which takes the customer's
newest SUCCESS row of the kind (`Latest`); `Payout` is `createBankPayout` with its
second try and the refund. `Transfers` has `transferSom`, `transferESom` by phone and
`transferCryptoInternal`. Exchange rates are 1 and one fee stands for all
tariffs. `did`, `lost` and `beaten` are history: the effects a request had, those
whose answer it missed, and who lost a nonce.

**`AntiFraud`.** `checkTransactionDetailed` await by await (`Evaluate` to `OpenCase`), with
every rule over the rows as the queries see them. `Plan` is what each caller hands to the
check and `Stored` what it stores afterwards; `hasApprovedIdentical` compares kind,
assets, amount and receiver (`Identical`), so transfers that go different ways may be identical, and a
filter Prisma drops matches everybody (`Asks`). `Checks` says which check each way of
paying makes. A payment leaves the row of a success or of a failure, or none (`Leaves`, `PayLate`),
and the check finds either as the newest; SOM and USDT are converted in two legs
(`Continue`), each with a check of its own. Administrators approve and reject a
case however often and whatever it was decided before, and edit the customer's status from a form
read earlier. Amounts are in units of 100,000 SOM.

**`Wallets`.** The key and the address in a customer's row and the four handlers
that find, create, repair or register them. `coins` are the keys whose addresses
received something.

**`Books`.** Every `createMany` of postings as a sequence of entries whose effects
are summed on `accounts` (`Effect`, `After`): fees and shares as each service computes them (`Split`,
`PaymentShares`, `TreasuryShares`) under settings an administrator may change between two operations.
Only purchases and redemptions post to the liability. Trades against USDT, transfers by phone and
operations that fail after a mint or a burn move Salam without doing so, a mint keeps
`PlatformPercent` of what it is asked for, and a redemption that its fee eats is booked
although it burns nothing. `tally` is what the operations moved in reality, by cause
(`Causes`). The code divides
floating-point numbers; the model counts in a unit so small that a fee which is
shared out completely leaves no remainder (`IsExact`).

**`ReconcileLoop`.** `reconcileRunning`, its start (as an age in intervals), the
batch, and runs that end, throw or hang; `shared` chooses one service for the
process or one per request.

**`BalanceCache`, `Support`, `PushTokens`, `Administration`.** Small tables with the calls
that read and write them an await apart. `Administration` has the interceptor's
unawaited snapshot of the settings, the settings row, and the login that replaces a
plain password by its hash. In `PushTokens` a message to one customer reads the setting (`Ask`) and
then the tokens (`List`), while a broadcast reads both at once.

**`BackOffice`** composes these eight. They share nothing their
properties speak of, so `focus` picks one per behaviour and the state spaces add
up; its properties are those of the modules under the guard that the component is in
focus. `MCBackOffice` gives its constants their values.

## 4. Runs

The passing runs of the Usdt modules check for deadlock: the reconcile loop never
stops, so no state without a step is acceptable. In `payments` and `back_office`
every call ends and nothing starts another one, so they may stop; so may
`sweep_lost`, which has no reconcile loop.

| Run | Instance | Distinct states | Shows |
|---|---|---|---|
| `withdraw_retry` | one key, two mobile requests, one browser request, one run, one transaction, one restart | 1.9 M | consistency of balance, ledger, rows; refunds; refinement |
| `withdraw_live` | one request, one run, three transactions, one failed call, one restart | 335 k | resends, history, progress |
| `deposit_redelivery` | two transactions and two keys mixed over three deliveries, one run | 2.7 M | who may credit, and under which operation |
| `deposit_live` | one transaction, two keys, one run, one failed call, one restart | 170 k | a stored deposit is confirmed for good |
| `bridge_reported` | a bridge and a wallet transfer, two reports, one run | 1.8 M | where a second credit can come from |
| `bridge_retried` | one key, two requests, a wallet transfer, one run, one failed call, one restart | 428 k | stale payloads; progress past a dead watcher |
| `internal_join` | two senders, one receiver without a row, four requests, two failed calls, one restart | 780 k | no lost update; what repeats a payment |
| `internal_live` | two customers paying each other, three requests, one failed call, one restart | 236 k | deadlocks end; paid means confirmed |
| `sweep_race` | one deposit, one delivery, one run, one rescan, one failed call, one restart | 288 k | a sweep is sent before it is confirmed, by nobody twice, and is settled |
| `payments` | two customers, two requests out of seven kinds in one or two legs, one lost answer, refusal or failed query | 125 k | history against bank, chain and ledger; refunds; second legs |
| `back_office` | eight components, see below | 456 k | one property or two of each |
| `sweep_lost` | one deposit, one delivery | stops early | the refresh erases the credit |

Some properties are conjunctions of named parts, which fail alone and are
explained in their modules: `ReportsAreBounded` (`TwiceOnlyUnderBridge`),
`TransfersAddUp` (`BalancesAddUp`, `DoneIsPaid`), `SweepsAreSound`
(`ConfirmedWasSent`, `RecordedOncePerSender`), `HistoryIsComplete` (`SuccessIsComplete`, `EffectsAreRecorded`), each with
the type invariant, and `TicketsAccounted`, `CasesAccounted`,
`StatusMovesForCause`, `BooksExplained`, `RecordsAreTrue`.

**Instances of `back_office`.** Support: three senders, one reply, one close.
Anti-fraud: seven scenarios of past rows, rules and one edit, with two or three
requests, some of two legs, and decisions without a bound. Wallets: an old customer and two free ids, three sets of four or three
calls. Books: seven settings (percents of a whole, not of a whole, out of range,
fixed; missing accounts), three amounts (the smallest is all fee), two operations of eight kinds. Loop: two runs, three
operations of which one never closes, a batch of two, a lock stale after
one interval, one fault. Cache: two readers and one writer of each kind. Push: two
customers, two devices, three sign-ins or switches. Administration: two PUTs, one
login, one change of password.

**Why these bounds are enough.** What makes actors interact in the Usdt modules
is one row written by a stale copy, and for that two actors of a kind and one of the
other suffice; the third try in `withdraw_retry` is there for the refunds, which need
three actors between failure and refund to exceed their bound. One restart
ends all actors at once; a second one meets the rows the first one left. One
failed call takes every `catch` and meets the next try of the same key too;
`withdraw_retry` needs none, since a treasury that has paid refuses the other tries.
Amounts are constants: 5 with a fee of 1, opening balances that cover one, two or
no debits. In `payments` the amounts make each guard go both ways: a fee that
eats a whole conversion, a wallet that covers the coins but not the fee, two
requests that together exceed a balance either of them fits in. Every race there is between
two requests (one nonce, one wallet, one balance, one newest row), and one
fault reaches each exception. In the components around the payments a hazard takes a look-up
and one other call in between, or two.

**Symmetry** is used for safety only, over requests of one route, deliveries and hashes; liveness
runs have none.

**Fairness.** One event loop runs every actor that has begun: weak fairness of
the steps of a request, a delivery and a reconcile run. `ReconcileStart` is fair
too, which stands for the timer where it runs and for the administrators' calls
where it does not; no safety property relies on it. Clients owe nothing: starting a
request is never fair, except a delivery in `UsdtSweep`, which stands for the reconcile
loop's own DEPOSIT branch there. Strong fairness of `ReconcileSeesTx` (`SeesTx`) says the
node, which may fail to answer any one time, answers again some day. PostgreSQL
looks for deadlocks (`DeadlockVictim`), and in `UsdtSweep` the network decides on each
transaction in the end. In `back_office` time passes, the timer of a shared
service fires, and runs that do not hang go on; nothing else is fair.

## 5. Proofs

TLAPS checks seven `...Proofs` modules and `Sums`, for any number of customers,
operations, requests, runs, calls and transactions and any bounds. They assume what
the ASSUMEs of the modules name, which TLC evaluates on every run:

- amounts, fees and bounds are naturals; kinds of actors are disjoint; NULL (`None`) is no key,
  hash, leg or customer (`KeysAssumption`, `NamesAssumption`, `ActorsAssumption`, `RailsAssumption`);
- the sets that are counted or summed over are finite: requests and runs of
  `UsdtWithdraw`, keys of `UsdtInternal` (`TransfersAssumption`), deposits of `UsdtSweep`;
- what the controllers let through (`AsksAssumption`): two legs only between SOM
  and USDT, amounts that leave the platform its share, transfers to a customer;
- past rows and rules of the anti-fraud checks have the shape of the tables
  (`ScenariosAssumption`), what is written to the settings is not the lack of a row
  (`SettingsAssumption`);
- percents and tariffs are numbers, the tariffs not negative, the platform keeps between none
  and all of a mint, and the unit is small enough (`AgreementsAssumption`).

Nearly all of the proofs meet the same difficulty: rows are written from copies read
several steps earlier, so no invariant of the rows alone is inductive. The
strengthening says of every copy what the property says of the row, and that
what makes it true only grows.

**Sums.** The library's `SumFunctionOnSet` is a CHOOSE of a recursive function. `Sums` shows
that the function exists and is unique on a finite set, by looking at a smallest
subset on which it is not, and from there that a sum is an integer and follows the
change of one term. `UsdtInternalProofs` and `BackOfficeProofs` use it.

**Withdrawals.**
- `Typed`: `TypeInv` adds to `TypeOK` which locals are set at which `pc`
  (`LocalsOK`): an actor that works has an operation, one past the broadcast a hash.
- `BalanceIsLedger`: every write of the balance is relative and posts the same
  sum, so the equation is inductive once typed.
- `CommittedIsDebited`, `HashIsOwn`, `ConfirmedIsShown`: `Provenance`
  speaks of every copy: fresh rows are unpaid (`FreshUnpaid`), rows, reconcile
  snapshots and actors' locals are each backed by ledger entries and broadcasts
  (`RowsBacked`, `SnapBacked`, `LocalsBacked`), and confirmed rows are in the
  history (`ConfirmedShown`). What backs them only grows (lemma `Grows`), so
  a copy that was backed stays so until it is written.
- `RefundsStayBounded`: once a compensation is closed, its refunds and those about to post
  one are at most one request that the in-flight map lets through (`OneMobile`) and the actors it
  does not hold back; before that there is none (`PostsCounted`).
- `ResendsStayBounded`: a run visits an operation once per batch (`VisitsApart`). While
  no hash is stored, each broadcast of the loop is excused by a failed call or a
  restart, or its run is about to store the hash (`Holders`); once one is stored, only the runs that
  picked the row before may still send (`Chances`). `SendsCounted` adds this up.
- `RefundsAnswerFailures`: refunds plus the actors between `MarkFailed`
  and `CompensatePost` never exceed the failures (`RefundsCovered`).
- `PromiseKept`: each step maps to a debit, a failure or a refund of
  `WithdrawLedger`, or changes none of its variables.
- `HashKept`: only a row that does not exist yet is created, and it has no hash
  to lose (`AbsentUnhashed`).

**Deposits.**
- `Typed`: as above, with what an actor at the commit knows about its row (`Stored`).
- `ConfirmedDeposit`: `CreditInv`, that a credited transaction has a chain row of an
  operation (`Linked`), that confirmed or finished operations were credited
  (`ConfirmedIsCredited`), and that a late actor saw the history row if it looked (`SawTrue`).
- `LateAddsNothing`, `CreditStays`: action properties, from `CreditInv` at the commit.

**Bridge.** `DoneStaysAccounted`, `ReportsStayBounded`, `LateAddsNothing`. In `Inv`, `RowTells` says of each hash
what its chain row and history prove, `LocalSound` what an actor's copies prove
at its place, and `DoneSound`, `WatchSound` and `ReadsSound` what finished
operations, watchers and the loop's copies stand on. Most steps leave chain rows and
history as they are (`RowsKept`, lemma `StepKeeps`); the few that write them
(`Settles`, `WalletRecords`, `Finalizes`) carry the argument: a hash has one chain row.
For `LateAddsNothing`, what an actor came too late for is in the history and stays
there, so the look-up it makes before crediting sees it (`LatesSound`).

**Internal transfers.** `PaysInTurn`, `NothingUnpaidIsDone`. `OneAtATime`: for a key no two requests
have overlapped on, at most one is at work, and the payments are
accounted for by the failed calls and by where it stands; `SaidIsPaid`: what a
row or a copy of it calls done was paid. `BalancesAreWhatWasPaid` adds `Booked`: each balance
is its opening amount and a sum over all keys of what was paid, and a customer without a row has
nothing. Only the commit changes a balance, and with it the one term of its key (`KnowsTheRow`,
`SenderHolds`: under its locks it knows which rows there are).

**Sweeps.** `SweepsStaySound`. `SweepInv`: the coins are a multiple of the deposit
(`CoinsAddUp`), every broadcast transaction has the sweep that paid for it
(`PayersKnown`), and each hash an actor, a row or a run's copy holds was
broadcast for the operation it is held for (`ActorSound`, `RowSound`, `ReadSound`).
`OnceInv` says why nobody records two transactions for one operation. A hash that is recorded, or that an
actor, a row or a run's copy can still record, is `Held`; whoever sent it will not send for that
operation again (`SentOnce`), for a delivery sends once and a run visits an operation once per batch (`BatchOnce`) and
sends only where the copy it picked has no hash, which a recorded one rules out (`RowsKnown`). So each sender holds one
hash per operation at most (`HeldOnce`). Most steps neither send nor take an operation up (`Onward`).

**Payments.** `Inv` is `Typed`, `SuccessIsComplete` and, for each request, `Known(r)`: its
place on its route tells which effects it has had, which row it has written and with
which status (`Passed`, `Recorded`), what was drawn, redeemed, found, stamped or checked
before (`Drawn`, `Redeemed`, `Found`, `Stamped`, `Covered`). `Places` lists the places of
each route once. A step of another request adds rows of its own and
at most spends this one's nonce (`OthersWait`), so each action is argued for the request that
takes it. From `Inv` follow `TheHistoryIsComplete`, `AShortfallHasACause`,
`ARedemptionIsPaidOrRefunded`, `TheSecondLegIsOwn`, `TheSomRowTellsTheBank` and, for the
step that debits, `AnOverdraftNeedsARace`.

**Around the payments.** `BackOfficeProofs` has one inductive invariant per component,
which holds while the component is in focus (`StepInFocus`: a step is one of the component in focus).
- `TicketsStayAccounted` (`DeskInv`): each open ticket beyond the first has the sender that
  created it and had looked earlier (`HasStarter`); a reply still at work on a closed
  ticket was under way when it was closed (`LateReplies`).
- `CasesStayAccounted`, `TheStatusMovesForCause` (`FraudInv`): the rows a check
  holds are there, and the one that lets a payment through is older than the one it leaves, of a failure too
  (`RowsAreThere`) and the newest identical one there was when it began (`NewestIsAsked`); under a block
  no check is fresh (`BlockIsNewer`), and an editor without a comment writes the status
  it read (`EditorLooked`). Rows are only appended or decided (`Extends`).
- `PaidCoinsAreReachable` (`SafeInv`): unless a call replaced a key unseen, every key that received
  coins, and every key a call is about to use, is in a row (`PaidKeysAreKept`); a repair whose row
  was not written since it looked stores the key it found (`RepairsKeepTheKey`).
- `BooksStayExplained` (`BooksInv`): the accounts after an operation are the accounts before
  plus at most six effects (`Booked`, `Appended`). What the shares take from transit is the
  fee when fees are shared out completely (`SharesOfWhole`, `FeeLeavesTransit`), and what
  the entries before them move is known (`EntriesTyped`); an operation that moves the one, takes the
  other and tells the tally by which causes so keeps the books (`OperationKeeps`), and each of the eight does. That both services agree
  follows from the settings alone (`NobodyMissing`).
- `OneRunAtATime` (`LockInv`): where no lock was taken over, an active run is the
  only one and holds the lock (`OneHoldsTheLock`).
- `StaleHasCause` (`CacheInv`): what a reader has seen was once the row (`SeenWasWritten`), so
  the writes it missed are the ones after it.
- `MailReachesItsAddressee` (`PushInv`): a token is its device's last user's
  (`TokenFollowsUser`), and until somebody signs in or switches, what is left of a list are
  devices of customers it is for (`ListIsFresh`).
- `RecordsStayTrue` (`AdminInv`): a snapshot that nothing came between is what was there
  when the request wrote (`WrittenIsThere`, `SnapshotIsCurrent`), the log has what its requests read
  (`LoggedIsOver`), and a password still plain is the first one (`PlainIsOld`).

## 6. Only model-checked

The liveness properties, for fairness and ENABLED are beyond the prover:
`InterruptedIsResumed`, `MinedIsSettled`, `MinedIsConfirmed`, `SettledIsConfirmed`,
`TransfersEnd`, `PaidIsConfirmed`, `SweepIsSettled` and `EveryOperationIsVisited`. And
`CreditIsKept`, which does not hold. Every other property of a run is a theorem.

## 7. Not modelled, and why

- Reserve snapshot, payment history, receipts, `transactions.service.ts`: they change nothing.
- The price cache and the SOM branch of the refresh: external quotes and a
  read of the bank, written as the ESOM branch is.
- How AML sources are downloaded and parsed; the stored broadcasts and
  the lists of administrators, customers and tickets: create, read and delete of single rows.
- The bank's HTTP session and exchange rates, the node and exchange protocols:
  external; what their callers see is modelled.
- `contracts/LocalUsdt.sol` and `scripts/`: a token for private test chains, and
  programs run by hand against a running system.
- In the modelled parts: simulation mode, transfers to addresses of no
  customer, SOM to accounts outside the bank's customers, notifications and log messages.
- One `payment_operations` with all kinds in it. Each module models the other
  kinds as far as they take its keys or hashes (`Collides`, `Holders`), but a key used
  for two kinds is in none.

## 8. What the runs and the models say against the code

One run refutes what the repository says of itself (`PROJECT.json` quotes the
lines): `CreditIsKept` (orchestrator 1927). After a sweep the refresh writes the
emptied address's coins over the balance.

The passing properties are stated with the exceptions the code makes, and those are
worth a reader's attention.

USDT:

- The check at 471 and the decrement are two statements, so two withdrawals pass
  the check together; nothing in `UsdtWithdraw` bounds the balance from below.
- Only a confirmed operation answers a retry (2456); a retry of any other is debited and
  broadcast again, which `ResendsAreBounded` counts.
- `RefundsFollowFailures`, the refinement of `WithdrawLedger`, is as much as holds: refunds answer failures, not
  debits. The catch block of `processWithdraw` (2638) also compensates a
  withdrawal that was refused for lack of funds. And a failure need not be
  answered: after a restart at 2638 the reconcile loop (3038) has no branch for the FAILED withdrawal.
- `LateNeverCredits`: two deliveries that both began before the first credit may each add one (1311).
- `TwiceOnlyUnderBridge`: a report of a bridge transfer delivered between 2231 and its settlement
  credits the receiver beside it.
- `SettledIsConfirmed` excludes a second broadcast: a settled bridge transfer is
  BROADCASTED until its watcher confirms it, and a retry meanwhile sends again (2139).
- The bridge sends (2222) before it looks at the sender's balance (2272): an
  uncovered transfer stays sent and unrecorded.
- `SweepIsSettled` counts FAILED as settled: a failed sweep is never sent again.
- `RecordedOncePerSender`: a delivery and the loop may each send a sweep of the same operation (3043), and
  a broadcast whose answer was lost is sent again; what holds is that nobody repeats a sweep whose hash it stored.
- `PaysOnceInTurn` grants one more payment per failed call: a commit whose answer is lost leaves
  the operation FAILED, and the retry pays again (2091).
- `ReconcileLoop`: a run that hangs keeps its lock for five intervals, FAILED withdrawals
  never leave the batch of 50, and an operation whose `markFailed` throws ends the run
  before the younger ones.

Payments:

- `PaidOrRefunded` adds one per lost answer of the bank: an exception is taken for
  a payout that did not happen, and the payout is tried again or the ESOM given back.
  A redemption the fee eats burns nothing and may still be refunded.
- `ShortfallHasCause`: SOM that were drawn are not given back when the mint fails or
  another request has used the nonce.
- `EffectsAreRecorded`: `transferESom` forgets the coins when the wallet cannot pay the fee
  after them.
- `SecondLegIsOwn` allows the row of another conversion of the same customer,
  written between the first leg's row and the look-up.
- `OverdraftNeedsRace`: checked, not locked, then debited.
- brics.service.ts:945 numbers a transfer at the bank by `Date.now()`.

Around them:

- `ApprovalIsSpent` excepts rows the comparison overlooks: a wallet transfer is
  checked with its fee (payments 3183) and stored without (3221-3235), a purchase is checked with a
  receiver (2514-2523) and stored without (2563-2580), so one approval lets any number
  of those through. A payment that fails and stores nothing keeps its approval, one that stores its
  failure uses it up. The newest identical row counts whatever way it was paid: the approval of a
  transfer to an address serves one by phone (antifraud.service.ts:751-785).
  Transfers to a browser wallet and on chain by address make no check at all (`Checks`).
- `BlockLifted`: a check that began before a block still sets FRAUD over it, and the approval of
  any case of the customer, decided already or not, makes him ACTIVE (antifraud.service.ts:471-516).
  `FraudIsExplained`: a restart after the mark leaves it
  without a case. A retry of a payment after long inactivity passes, for the refused
  row counts as activity.
- `LiabilityExplained`: the liability is not the Salam that customers hold. Trades against USDT burn
  and mint (payments 2049, 2148) and post the shares of their fee alone (2074, 2169); a mint keeps
  PLATFORM_FEE (ethereum.service.ts:128-130) of what the purchase booked; a redemption debits
  the liability with the gross amount and again with the fee, and one whose fee exceeds the amount burns
  nothing (2791) and is booked (2912); a transfer by phone burns its fee unposted. `TransitExplained`: the fee of
  a redemption is credited to transit in SOM and shared out in
  ESOM, and no fee but these two is credited to transit at all. Fixed shares do not depend on the
  fee; the central bank's percent is not normalised with the others.
- `ServicesAgree` needs every account: `targets` in payments renumbers
  the shares when the central bank has none.
- `StaleIsExplained`: `applyLedgerDelta` invalidates the cache before its transaction commits, and the upserts of
  payments never do.
- `PasswordIsLastChosen`: a login that rehashes a plain password can write an old one over a
  new one. `LogIsTrue`: the snapshot the log compares with is not awaited.
- `OnlyTheAddressee`: a token that changes its owner after the listing gets the message.
- `OneOpenTicket`: two first messages sent together open two tickets.
- Code that cannot run: payments 2366-2477, 3529-3566, 3896-3936.
