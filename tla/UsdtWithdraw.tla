---------------------------- MODULE UsdtWithdraw ----------------------------
(***************************************************************************)
(* The USDT withdrawal of one customer, as UsdtTreasuryOrchestratorService *)
(* runs it: processWithdraw (one actor per HTTP request), the reconcile    *)
(* loop that resumes payment operations behind the requests' back, the     *)
(* compensation both of them fall into, and the TRON chain underneath.     *)
(*                                                                         *)
(* Every await of the code is a point where other actors run, so every     *)
(* database transaction, single statement and RPC call is a step of its    *)
(* own.  Postgres runs at READ COMMITTED: the balance is read in one step  *)
(* (WithdrawRead) and decremented in another (WithdrawDebit).              *)
(***************************************************************************)
EXTENDS Integers, FiniteSets

CONSTANTS
  Op,          \* idempotency keys, each the key of one payment operation
  Req,         \* HTTP requests to withdraw
  Mobile,      \* those that share in-flight calls: POST /payments/transfer
               \* where one controller serves them all
  Rec,         \* reconcile runs that may be active together (one, normally)
  Hash,        \* TRON transactions the treasury can still afford to send
  None,        \* SQL NULL
  Gross,       \* the amount withdrawn
  Fee,         \* the tariff fee charged on top of it
  Opening,     \* the customer's balance at the start
  MaxFaults,   \* bound: database and RPC calls that fail
  MaxCrashes   \* bound: restarts of the server

ASSUME AmountsAssumption ==
  Gross \in Nat \ {0} /\ Fee \in Nat /\ Opening \in Nat
ASSUME ActorsAssumption ==
  /\ Mobile \subseteq Req /\ Req \cap Rec = {} /\ None \notin Op \cup Hash
  /\ IsFiniteSet(Req) /\ IsFiniteSet(Rec)
ASSUME BoundsAssumption == MaxFaults \in Nat /\ MaxCrashes \in Nat

Actor == Req \cup Rec
TotalDebit == Gross + Fee

VARIABLES
  balance,   \* user_asset_balances row of the customer, asset USDT_TRC20
  posted,    \* sum of the ledger entries posted, debits negative
  debits,    \* per operation, its DEBIT ledger entries
  refunds,   \* per operation, the COMPENSATION entries posted for it
  failures,  \* per operation, how often markFailed was recorded on it
  op,        \* payment_operations rows of type WITHDRAW
  comp,      \* status of the comp:<id> COMPENSATION operation
  chainRow,  \* blockchain_transactions rows: status per hash
  history,   \* transactions rows (WITHDRAW_CRYPTO) per hash
  chain,     \* external: state of each TRON transaction
  payer,     \* external: the operation a broadcast transaction pays
  pc, cur, seen, mine, before,  \* the actors' program counters and locals
  snap, batch, compBatch,       \* the rows a reconcile run has still to visit
  resends,   \* per operation, broadcasts made by the reconcile loop
  faults, crashes

ledgerVars == <<balance, posted, debits, refunds>>
rowVars    == <<failures, op, comp, chainRow, history>>
chainVars  == <<chain, payer, resends>>
procVars   == <<pc, cur, seen, mine, before>>
batchVars  == <<snap, batch, compBatch>>
boundVars  == <<faults, crashes>>
vars == <<ledgerVars, rowVars, chainVars, procVars, batchVars, boundVars>>

-----------------------------------------------------------------------------
(* Rows and values                                                         *)

Status == {"ABSENT", "NEW", "DB_COMMITTED", "BROADCASTED",
           "CONFIRMED", "FAILED", "COMPENSATED"}
\* ref: the payload carries debit_ledger_entry_id
Row == [status : Status, hash : Hash \cup {None}, ref : BOOLEAN]
NoRow == [status |-> "ABSENT", hash |-> None, ref |-> FALSE]

\* statuses of the operations a reconcile run picks up
PickedWithoutCommitted == {"NEW", "BROADCASTED", "FAILED"}
PickedWithoutBroadcasted == {"NEW", "DB_COMMITTED", "FAILED"}
Picked == {"NEW", "DB_COMMITTED", "BROADCASTED", "FAILED"}

Working == {"create", "read", "debit", "send", "mark", "row", "wait",
            "confirm", "failRow", "check", "finalize",
            "markFailed", "compFind", "compCreate", "compPost"}
Ended == {"answered", "threw"}
Pc == Working \cup Ended \cup {"idle"}

\* A request is over when it answers or throws; a reconcile run goes back to
\* its loop.
Resting(a, end) == IF a \in Req THEN end ELSE "idle"

Rest(a, end) ==
  /\ pc' = [pc EXCEPT ![a] = Resting(a, end)]
  /\ cur' = [cur EXCEPT ![a] = None]
  /\ seen' = [seen EXCEPT ![a] = NoRow]
  /\ mine' = [mine EXCEPT ![a] = None]
  /\ before' = [before EXCEPT ![a] = 0]

Goto(a, l) ==
  /\ pc' = [pc EXCEPT ![a] = l]
  /\ UNCHANGED <<cur, seen, mine, before>>

SetStatus(o, s) == op' = [op EXCEPT ![o].status = s]

\* isConfirmedTx accepts a transaction the node merely knows, and a mined one
\* whether or not it reverted; it also answers FALSE when the RPC calls fail.
Known(h) == chain[h] \in {"mempool", "mined"}

Init ==
  /\ balance = Opening
  /\ posted = 0
  /\ debits = [o \in Op |-> 0]
  /\ refunds = [o \in Op |-> 0]
  /\ failures = [o \in Op |-> 0]
  /\ op = [o \in Op |-> NoRow]
  /\ comp = [o \in Op |-> "ABSENT"]
  /\ chainRow = [h \in Hash |-> "ABSENT"]
  /\ history = [h \in Hash |-> 0]
  /\ chain = [h \in Hash |-> "unsent"]
  /\ payer = [h \in Hash |-> None]
  /\ pc = [a \in Actor |-> "idle"]
  /\ cur = [a \in Actor |-> None]
  /\ seen = [a \in Actor |-> NoRow]
  /\ mine = [a \in Actor |-> None]
  /\ before = [a \in Actor |-> 0]
  /\ snap = [c \in Rec |-> [o \in Op |-> NoRow]]
  /\ batch = [c \in Rec |-> {}]
  /\ compBatch = [c \in Rec |-> {}]
  /\ resends = [o \in Op |-> 0]
  /\ faults = 0
  /\ crashes = 0

-----------------------------------------------------------------------------
(* processWithdraw                                                         *)

InFlight(o) == \E r \in Mobile : cur[r] = o /\ pc[r] \in Working

\* findOperationByIdempotencyKey and the early return on a CONFIRMED one.  A
\* mobile request whose key is in flight gets the other call's promise instead.
WithdrawFind(r, o) ==
  /\ pc[r] = "idle"
  /\ r \in Mobile => ~InFlight(o)
  /\ IF op[o].status = "CONFIRMED" /\ op[o].hash # None
     THEN Rest(r, "answered")
     ELSE /\ pc' = [pc EXCEPT ![r] =
                      IF op[o].status = "ABSENT" THEN "create" ELSE "read"]
          /\ cur' = [cur EXCEPT ![r] = o]
          /\ seen' = [seen EXCEPT ![r] = op[o]]
          /\ UNCHANGED <<mine, before>>
  /\ UNCHANGED <<ledgerVars, rowVars, chainVars, batchVars, boundVars>>

\* createOperation; idempotency_key is unique, so a second insert throws
CreatedCommitted == [NoRow EXCEPT !.status = "DB_COMMITTED"]
CreatedRow == [NoRow EXCEPT !.status = "NEW"]

WithdrawCreate(r) ==
  LET o == cur[r]
  IN /\ pc[r] = "create"
     /\ IF op[o].status = "ABSENT"
        THEN /\ op' = [op EXCEPT ![o] = CreatedRow]
             /\ pc' = [pc EXCEPT ![r] = "read"]
             /\ seen' = [seen EXCEPT ![r] = CreatedRow]
             /\ UNCHANGED <<cur, mine, before>>
        ELSE Rest(r, "threw") /\ UNCHANGED op
     /\ UNCHANGED <<ledgerVars, failures, comp, chainRow, history, chainVars,
                    batchVars, boundVars>>

\* applyLedgerDelta reads the balance and throws 'Insufficient USDT balance'
WithdrawRead(r) ==
  /\ pc[r] = "read"
  /\ pc' = [pc EXCEPT ![r] =
              IF balance - TotalDebit < 0 THEN "markFailed" ELSE "debit"]
  /\ before' = [before EXCEPT ![r] = balance]
  /\ UNCHANGED <<cur, seen, mine>>
  /\ UNCHANGED <<ledgerVars, rowVars, chainVars, batchVars, boundVars>>

\* the update decrements the balance where it is, not the one read before
DebitedFromRead(r) == before[r] - TotalDebit
DebitedBalance(r) == balance - TotalDebit

\* and keeps the rest of the operation's row
DebitedAfresh(row) == [NoRow EXCEPT !.status = "DB_COMMITTED", !.ref = TRUE]
DebitedRow(row) == [row EXCEPT !.status = "DB_COMMITTED", !.ref = TRUE]

\* the rest of that transaction: decrement, ledger entry, DB_COMMITTED
WithdrawDebit(r) ==
  LET o == cur[r] IN
  /\ pc[r] = "debit"
  /\ balance' = DebitedBalance(r)
  /\ posted' = posted - TotalDebit
  /\ debits' = [debits EXCEPT ![o] = @ + 1]
  /\ op' = [op EXCEPT ![o] = DebitedRow(@)]
  /\ pc' = [pc EXCEPT ![r] = "send"]
  /\ before' = [before EXCEPT ![r] = 0]
  /\ UNCHANGED <<cur, seen, mine>>
  /\ UNCHANGED <<refunds, failures, comp, chainRow, history, chainVars,
                 batchVars, boundVars>>

\* waitForConfirmation saw the transaction; without that the request answers
\* with the operation's id and leaves the rest to the reconcile loop
WithdrawWait(r) ==
  /\ pc[r] = "wait"
  /\ \/ Known(mine[r]) /\ Goto(r, "confirm")
     \/ Rest(r, "answered")
  /\ UNCHANGED <<ledgerVars, rowVars, chainVars, batchVars, boundVars>>

\* the confirming transaction: it inserts the history row unconditionally
WithdrawConfirm(r) ==
  LET o == cur[r]
      h == mine[r]
  IN /\ pc[r] = "confirm"
     /\ chainRow' = [chainRow EXCEPT ![h] = "CONFIRMED"]
     /\ history' = [history EXCEPT ![h] = @ + 1]
     /\ op' = [op EXCEPT ![o].status = "CONFIRMED", ![o].ref = TRUE]
     /\ Rest(r, "answered")
     /\ UNCHANGED <<ledgerVars, failures, comp, chainVars, batchVars,
                    boundVars>>

\* the catch block first fails the broadcast's chain row
WithdrawFailRow(r) ==
  /\ pc[r] = "failRow"
  /\ chainRow' = [chainRow EXCEPT ![mine[r]] = "FAILED"]
  /\ Goto(r, "markFailed")
  /\ UNCHANGED <<ledgerVars, failures, op, comp, history, chainVars,
                 batchVars, boundVars>>

-----------------------------------------------------------------------------
(* Steps shared by processWithdraw and the reconcile loop                  *)

\* sendUsdt from the treasury: a hash comes back
Send(a, h) ==
  /\ pc[a] = "send"
  /\ chain[h] = "unsent"
  /\ chain' = [chain EXCEPT ![h] = "mempool"]
  /\ payer' = [payer EXCEPT ![h] = cur[a]]
  /\ resends' = IF a \in Rec THEN [resends EXCEPT ![cur[a]] = @ + 1]
                             ELSE resends
  /\ mine' = [mine EXCEPT ![a] = h]
  /\ pc' = [pc EXCEPT ![a] = "mark"]
  /\ UNCHANGED <<cur, seen, before>>
  /\ UNCHANGED <<ledgerVars, rowVars, batchVars, boundVars>>

\* the node accepted the transaction but the call failed (timeout, reset)
SendLost(a, h) ==
  /\ pc[a] = "send"
  /\ faults < MaxFaults
  /\ chain[h] = "unsent"
  /\ chain' = [chain EXCEPT ![h] = "mempool"]
  /\ payer' = [payer EXCEPT ![h] = cur[a]]
  /\ resends' = IF a \in Rec THEN [resends EXCEPT ![cur[a]] = @ + 1]
                             ELSE resends
  /\ faults' = faults + 1
  /\ Goto(a, "markFailed")
  /\ UNCHANGED <<ledgerVars, rowVars, batchVars, crashes>>

\* the treasury has nothing left to send
SendRejected(a) ==
  /\ pc[a] = "send"
  /\ \A h \in Hash : chain[h] # "unsent"
  /\ Goto(a, "markFailed")
  /\ UNCHANGED <<ledgerVars, rowVars, chainVars, batchVars, boundVars>>

\* markBroadcasted writes the hash and the payload of the row the actor read
\* earlier, so a debit_ledger_entry_id written since then is lost
MarkBroadcasted(a) ==
  LET o == cur[a] IN
  /\ pc[a] = "mark"
  /\ op' = [op EXCEPT ![o] = [status |-> "BROADCASTED", hash |-> mine[a],
                              ref |-> seen[a].ref]]
  /\ Goto(a, "row")
  /\ UNCHANGED <<ledgerVars, failures, comp, chainRow, history, chainVars,
                 batchVars, boundVars>>

\* upsertBlockchainTransaction; the reconcile loop then takes its next row
InsertChainRow(a) ==
  /\ pc[a] = "row"
  /\ chainRow' = [chainRow EXCEPT ![mine[a]] = "BROADCASTED"]
  /\ IF a \in Req THEN Goto(a, "wait") ELSE Rest(a, "answered")
  /\ UNCHANGED <<ledgerVars, failures, op, comp, history, chainVars,
                 batchVars, boundVars>>

MarkFailed(a) ==
  /\ pc[a] = "markFailed"
  /\ SetStatus(cur[a], "FAILED")
  /\ failures' = [failures EXCEPT ![cur[a]] = @ + 1]
  /\ Goto(a, "compFind")
  /\ UNCHANGED <<ledgerVars, comp, chainRow, history, chainVars, batchVars,
                 boundVars>>

\* An exception out of the catch block: a request throws, a reconcile run is
\* abandoned with the rest of its batch.
Escape(a) ==
  /\ Rest(a, "threw")
  /\ IF a \in Rec
     THEN /\ batch' = [batch EXCEPT ![a] = {}]
          /\ compBatch' = [compBatch EXCEPT ![a] = {}]
          /\ snap' = [snap EXCEPT ![a] = [o \in Op |-> NoRow]]
     ELSE UNCHANGED batchVars

CompensateFind(a) ==
  LET o == cur[a] IN
  /\ pc[a] = "compFind"
  /\ CASE comp[o] = "CONFIRMED" -> Rest(a, "threw")
       [] comp[o] = "NEW"       -> Goto(a, "compPost")
       [] comp[o] = "ABSENT"    -> Goto(a, "compCreate")
  /\ UNCHANGED <<ledgerVars, rowVars, chainVars, batchVars, boundVars>>

CompensateCreate(a) ==
  LET o == cur[a] IN
  /\ pc[a] = "compCreate"
  /\ IF comp[o] = "ABSENT"
     THEN /\ comp' = [comp EXCEPT ![o] = "NEW"]
          /\ Goto(a, "compPost")
          /\ UNCHANGED batchVars
     ELSE Escape(a) /\ UNCHANGED comp
  /\ UNCHANGED <<ledgerVars, failures, op, chainRow, history, chainVars,
                 boundVars>>

\* the status a compensation that has been posted ends with
CompClosedUnknown == "COMPENSATED"
CompLeftOpen == "NEW"
CompClosed == "CONFIRMED"

\* a request refunds what it debited, the reconcile loop only op.amount
RefundOf(a) == IF a \in Req THEN TotalDebit ELSE Gross

CompensatePost(a) ==
  LET o == cur[a] IN
  /\ pc[a] = "compPost"
  /\ balance' = balance + RefundOf(a)
  /\ posted' = posted + RefundOf(a)
  /\ refunds' = [refunds EXCEPT ![o] = @ + 1]
  /\ op' = [op EXCEPT ![o].status = "COMPENSATED", ![o].ref = seen[a].ref]
  /\ comp' = [comp EXCEPT ![o] = CompClosed]
  /\ Rest(a, "threw")
  /\ UNCHANGED <<debits, failures, chainRow, history, chainVars, batchVars,
                 boundVars>>

-----------------------------------------------------------------------------
(* reconcileUsdtOperations                                                 *)

ReconcileStart(c) ==
  /\ pc[c] = "idle" /\ batch[c] = {} /\ compBatch[c] = {}
  /\ LET rows == {o \in Op : op[o].status \in Picked} IN
     /\ batch' = [batch EXCEPT ![c] = rows]
     /\ snap' = [snap EXCEPT ![c] =
                   [o \in Op |-> IF o \in rows THEN op[o] ELSE NoRow]]
     /\ compBatch' = [compBatch EXCEPT ![c] = {o \in Op : comp[o] = "NEW"}]
  /\ UNCHANGED <<ledgerVars, rowVars, chainVars, procVars, boundVars>>

\* a row nothing was broadcast for
ToSendWhateverHash(row) == row.status \in {"NEW", "DB_COMMITTED", "BROADCASTED"}
ToSend(row) == row.status \in {"NEW", "DB_COMMITTED"} /\ row.hash = None

\* take a WITHDRAW row; what to do follows from the row as it was picked
ReconcileTake(c, o) ==
  LET row == snap[c][o] IN
  /\ pc[c] = "idle" /\ o \in batch[c]
  /\ batch' = [batch EXCEPT ![c] = @ \ {o}]
  /\ snap' = [snap EXCEPT ![c][o] = NoRow]
  /\ IF ToSend(row)
     THEN pc' = [pc EXCEPT ![c] = "send"]
     ELSE IF row.status = "BROADCASTED" /\ row.hash # None
     THEN pc' = [pc EXCEPT ![c] = "check"]
     ELSE UNCHANGED pc
  /\ IF pc'[c] = "idle"
     THEN UNCHANGED <<cur, seen>>
     ELSE /\ cur' = [cur EXCEPT ![c] = o]
          /\ seen' = [seen EXCEPT ![c] = row]
  /\ UNCHANGED <<mine, before, compBatch>>
  /\ UNCHANGED <<ledgerVars, rowVars, chainVars, boundVars>>

\* writing last_reconciled_at throws: the row is failed and compensated although
\* nothing had been tried.  (On a COMPENSATION row that leaves FAILED, which no
\* step tells from NEW.)
ReconcileTouchFails(c, o) ==
  /\ pc[c] = "idle" /\ o \in batch[c]
  /\ faults < MaxFaults
  /\ faults' = faults + 1
  /\ batch' = [batch EXCEPT ![c] = @ \ {o}]
  /\ snap' = [snap EXCEPT ![c][o] = NoRow]
  /\ pc' = [pc EXCEPT ![c] = "markFailed"]
  /\ cur' = [cur EXCEPT ![c] = o]
  /\ seen' = [seen EXCEPT ![c] = snap[c][o]]
  /\ UNCHANGED <<mine, before, compBatch, crashes>>
  /\ UNCHANGED <<ledgerVars, rowVars, chainVars>>

\* a COMPENSATION row still open is closed, with no ledger entry
ReconcileCompensationPosts(c, o) ==
  /\ pc[c] = "idle" /\ o \in compBatch[c]
  /\ compBatch' = [compBatch EXCEPT ![c] = @ \ {o}]
  /\ comp' = [comp EXCEPT ![o] = "CONFIRMED"]
  /\ balance' = balance + Gross /\ posted' = posted + Gross
  /\ refunds' = [refunds EXCEPT ![o] = @ + 1]
  /\ UNCHANGED <<debits, snap, batch>>
  /\ UNCHANGED <<failures, op, chainRow, history, chainVars, procVars,
                 boundVars>>

ReconcileCompensation(c, o) ==
  /\ pc[c] = "idle" /\ o \in compBatch[c]
  /\ compBatch' = [compBatch EXCEPT ![c] = @ \ {o}]
  /\ comp' = [comp EXCEPT ![o] = "CONFIRMED"]
  /\ UNCHANGED <<snap, batch>>
  /\ UNCHANGED <<ledgerVars, failures, op, chainRow, history, chainVars,
                 procVars, boundVars>>

ReconcileSeesTx(c) ==
  /\ pc[c] = "check"
  /\ Known(seen[c].hash)
  /\ Goto(c, "finalize")
  /\ UNCHANGED <<ledgerVars, rowVars, chainVars, batchVars, boundVars>>

ReconcileSeesNothing(c) ==
  /\ pc[c] = "check"
  /\ Rest(c, "answered")
  /\ UNCHANGED <<ledgerVars, rowVars, chainVars, batchVars, boundVars>>

\* finalizeWithdrawOperation looks for a history row before it inserts one
FinalizedWithoutHistory(n) == n
FinalizedHistory(n) == IF n = 0 THEN 1 ELSE n

ReconcileFinalize(c) ==
  LET o == cur[c]
      h == seen[c].hash
  IN /\ pc[c] = "finalize"
     /\ chainRow' = [chainRow EXCEPT ![h] = "CONFIRMED"]
     /\ history' = [history EXCEPT ![h] = FinalizedHistory(@)]
     /\ op' = [op EXCEPT ![o].status = "CONFIRMED", ![o].ref = seen[c].ref]
     /\ Rest(c, "answered")
     /\ UNCHANGED <<ledgerVars, failures, comp, chainVars, batchVars,
                    boundVars>>

-----------------------------------------------------------------------------
(* Faults, crashes and the chain                                           *)

InTry == {"read", "debit", "send", "mark", "row", "finalize"}
OutsideTry == {"create", "read", "failRow", "markFailed", "compFind",
               "compCreate", "compPost"}

\* A database or RPC call throws: inside the try block the catch block runs,
\* anywhere else the exception leaves the function.  ("read" is both: the
\* tariff lookup precedes the try block, the balance read is in it.)
Fault(a) ==
  /\ faults < MaxFaults
  /\ faults' = faults + 1
  /\ \/ pc[a] \in InTry /\ Goto(a, "markFailed") /\ UNCHANGED batchVars
     \/ pc[a] = "confirm" /\ Goto(a, "failRow") /\ UNCHANGED batchVars
     \/ pc[a] \in OutsideTry /\ Escape(a)
  /\ UNCHANGED <<ledgerVars, rowVars, chainVars, crashes>>

\* the process dies: the database and the chain remain
Crash ==
  /\ crashes < MaxCrashes
  /\ crashes' = crashes + 1
  /\ pc' = [a \in Actor |-> IF pc[a] \in Working THEN Resting(a, "threw")
                                                 ELSE pc[a]]
  /\ cur' = [a \in Actor |-> None]
  /\ seen' = [a \in Actor |-> NoRow]
  /\ mine' = [a \in Actor |-> None]
  /\ before' = [a \in Actor |-> 0]
  /\ snap' = [c \in Rec |-> [o \in Op |-> NoRow]]
  /\ batch' = [c \in Rec |-> {}]
  /\ compBatch' = [c \in Rec |-> {}]
  /\ UNCHANGED <<ledgerVars, rowVars, chainVars, faults>>

\* a transaction is mined (successful or reverted: no step of the server tells
\* them apart), or expires without being mined
ChainSettles(h) ==
  /\ chain[h] = "mempool"
  /\ \E s \in {"mined", "expired"} :
       chain' = [chain EXCEPT ![h] = s]
  /\ UNCHANGED <<payer, resends>>
  /\ UNCHANGED <<ledgerVars, rowVars, procVars, batchVars, boundVars>>

-----------------------------------------------------------------------------
RequestStep(r) ==
  \/ \E o \in Op : WithdrawFind(r, o)
  \/ WithdrawCreate(r) \/ WithdrawRead(r) \/ WithdrawDebit(r)
  \/ WithdrawWait(r) \/ WithdrawConfirm(r) \/ WithdrawFailRow(r)

ReconcileStep(c) ==
  \/ ReconcileStart(c)
  \/ \E o \in Op : \/ ReconcileTake(c, o) \/ ReconcileTouchFails(c, o)
                    \/ ReconcileCompensation(c, o)
  \/ ReconcileSeesTx(c) \/ ReconcileSeesNothing(c) \/ ReconcileFinalize(c)

SharedStep(a) ==
  \/ \E h \in Hash : Send(a, h)
  \/ SendRejected(a) \/ MarkBroadcasted(a) \/ InsertChainRow(a)
  \/ MarkFailed(a) \/ CompensateFind(a) \/ CompensateCreate(a)
  \/ CompensatePost(a)

Environment ==
  \/ \E a \in Actor : Fault(a) \/ \E h \in Hash : SendLost(a, h)
  \/ \E h \in Hash : ChainSettles(h)
  \/ Crash

Next ==
  \/ \E r \in Req : RequestStep(r)
  \/ \E c \in Rec : ReconcileStep(c)
  \/ \E a \in Actor : SharedStep(a)
  \/ Environment

Spec == Init /\ [][Next]_vars

-----------------------------------------------------------------------------
(* Safety                                                                  *)

\* Every variable has its type.
TypeOK ==
  /\ balance \in Int /\ posted \in Int
  /\ debits \in [Op -> Nat] /\ refunds \in [Op -> Nat]
  /\ failures \in [Op -> Nat] /\ resends \in [Op -> Nat]
  /\ op \in [Op -> Row]
  /\ comp \in [Op -> {"ABSENT", "NEW", "CONFIRMED"}]
  /\ chainRow \in [Hash -> {"ABSENT", "BROADCASTED", "CONFIRMED", "FAILED"}]
  /\ history \in [Hash -> Nat]
  /\ chain \in [Hash -> {"unsent", "mempool", "mined", "expired"}]
  /\ payer \in [Hash -> Op \cup {None}]
  /\ pc \in [Actor -> Pc]
  /\ cur \in [Actor -> Op \cup {None}]
  /\ seen \in [Actor -> Row]
  /\ mine \in [Actor -> Hash \cup {None}]
  /\ before \in [Actor -> Int]
  /\ snap \in [Rec -> [Op -> Row]]
  /\ batch \in [Rec -> SUBSET Op] /\ compBatch \in [Rec -> SUBSET Op]
  /\ faults \in 0 .. MaxFaults /\ crashes \in 0 .. MaxCrashes

\* The balance is the opening balance plus the posted ledger entries: requests,
\* compensations and the reconcile loop write it relative to its value at the
\* update, so no interleaving loses an update (applyLedgerDelta).
BalanceMatchesLedger == balance = Opening + posted

\* The hash stored on an operation is that of a transaction broadcast for this
\* very operation, whichever of its actors wrote the row last.
HashPaysItsOperation ==
  \A o \in Op : op[o].hash # None => payer[op[o].hash] = o

\* An operation that claims to be debited (DB_COMMITTED, or a debit entry id in
\* its payload) has a DEBIT entry in the ledger.
CommittedMeansDebited ==
  \A o \in Op : op[o].status = "DB_COMMITTED" \/ op[o].ref => debits[o] > 0

\* A CONFIRMED withdrawal shows in the customer's history with a transaction
\* broadcast for it, whether the request or the reconcile loop confirmed it.
ConfirmedHasHistory ==
  \A o \in Op : op[o].status = "CONFIRMED" =>
    \E h \in Hash : payer[h] = o /\ history[h] > 0

\* Each refund answers a failure recorded on its operation: over any number of
\* requests and reconcile runs the refunds never outnumber the failures.
RefundsFollowFailures == \A o \in Op : refunds[o] <= failures[o]

\* However often a key is retried, its operation is refunded at most once, and
\* once more for each reconcile run and each request not in Mobile that had
\* looked up the compensation before it was closed.
RefundsAreBounded ==
  \A o \in Op : refunds[o] <= 1 + Cardinality(Rec \cup (Req \ Mobile))

\* A reconcile run broadcasts an operation once, and once more at most for each
\* failed call and each restart that kept its hash from being stored.  Runs that
\* are active together count apart: each sends on the copy it picked.
ResendsAreBounded ==
  \A o \in Op : resends[o] <= Cardinality(Rec) * (1 + crashes) + faults

\* The only record of a broadcast is the stored hash: no step forgets it.
HashNeverCleared ==
  [][\A o \in Op : op[o].hash # None => op'[o].hash # None]_vars

\* All of it together does to the ledger what WithdrawLedger promises: refunds
\* only for unanswered failures, and no entry for anything else.
Ledger == INSTANCE WithdrawLedger WITH
  Op <- Op, Gross <- Gross, Fee <- Fee, Opening <- Opening,
  balance <- balance, posted <- posted, debits <- debits,
  refunds <- refunds, failures <- failures
KeepsLedgerPromise == Ledger!Spec

-----------------------------------------------------------------------------
(* Liveness.  Requests and reconcile runs are scheduled by one event loop   *)
(* and the timer, or administrators, restart the latter for ever; whether a client    *)
(* (re)tries is up to the client.  The node is assumed to answer again some *)
(* day, which is what strong fairness of ReconcileSeesTx says.              *)

RequestProgress(r) == RequestStep(r) /\ pc[r] # "idle"

Fairness ==
  /\ \A r \in Req : WF_vars(RequestProgress(r) \/ SharedStep(r))
  /\ \A c \in Rec : /\ WF_vars(ReconcileStep(c) \/ SharedStep(c))
                   /\ SF_vars(ReconcileSeesTx(c))

FairSpec == Spec /\ Fairness

\* A withdrawal debited but not yet broadcast does not stay so, even when its
\* request died with the process: the reconcile loop broadcasts or fails it.
InterruptedIsResumed ==
  \A o \in Op : (op[o].status = "DB_COMMITTED" /\ op[o].hash = None)
                 ~> (op[o].status # "DB_COMMITTED")

\* A broadcast withdrawal whose transaction is mined does not stay BROADCASTED:
\* it is confirmed, or a failure takes it to FAILED.
MinedIsSettled ==
  \A o \in Op, h \in Hash :
    (op[o].status = "BROADCASTED" /\ op[o].hash = h /\ chain[h] = "mined")
      ~> (op[o].status # "BROADCASTED" \/ op[o].hash # h)
=============================================================================
