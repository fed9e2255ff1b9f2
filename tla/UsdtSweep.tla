----------------------------- MODULE UsdtSweep -----------------------------
(***************************************************************************)
(* The sweep of a customer's TRON address into the treasury                *)
(* (maybeSweepCustomerWallet and the SWEEP branch of                       *)
(* reconcileUsdtOperations) beside the refresh that copies the on-chain    *)
(* balance into user_asset_balances (refreshAllBalancesForUser, also run   *)
(* nightly).  One customer, who pays nothing out; deposits are credited in *)
(* a step of their own (UsdtDeposit models that in full).                  *)
(***************************************************************************)
EXTENDS Integers, FiniteSets

CONSTANTS
  Dep,         \* deposits to the customer's address
  Amount,      \* of each of them
  Call,        \* deliveries of their webhook, or reconcile runs finalizing them
  Rec,         \* reconcile runs visiting SWEEP operations
  Cron,        \* other refreshes of the balance: the nightly rescan
  Hash,        \* TRON transactions the address can still pay the fees of
  None,        \* SQL NULL
  Threshold,   \* SWEEP_THRESHOLD
  MaxFaults,   \* bound: database and RPC calls that fail
  MaxCrashes   \* bound: restarts of the server

ASSUME AmountsAssumption ==
  Amount \in Nat \ {0} /\ Threshold \in Nat
ASSUME NamesAssumption ==
  /\ IsFiniteSet(Dep) /\ None \notin Hash /\ None \notin Dep
  /\ Call \cap Rec = {} /\ Call \cap Cron = {} /\ Rec \cap Cron = {}
ASSUME BoundsAssumption == MaxFaults \in Nat /\ MaxCrashes \in Nat

Actor == Call \cup Rec \cup Cron

\* usdt-sweep:<hint>:<live balance>; the customer and the address are fixed
Live == {n * Amount : n \in 0 .. Cardinality(Dep)}
Key == Dep \X Live

VARIABLES
  coins,     \* external: USDT on the customer's address
  chain,     \* external: state of each sweep transaction
  payer,     \* external: the operation it was broadcast for
  sender,    \* history variable: the delivery or run that broadcast it
  arrived,   \* external: deposits on the address
  credited,  \* deposits credited to the ledger
  balance,   \* user_asset_balances
  op,        \* payment_operations of type SWEEP
  rows,      \* hashes with a row in blockchain_transactions
  pc, cur, tx, sawRow, fresh,  \* the actors' locals
  batch,     \* operations a reconcile run has to visit, as they were read
  faults, crashes

chainVars == <<coins, chain, payer, sender, arrived>>
ledger    == <<credited, balance>>
sweepVars == <<op, rows>>
procVars  == <<pc, cur, tx, sawRow, fresh>>
boundVars == <<faults, crashes>>
vars == <<chainVars, ledger, sweepVars, procVars, batch, boundVars>>

-----------------------------------------------------------------------------
Status == {"ABSENT", "NEW", "BROADCASTED", "CONFIRMED", "FAILED"}
Row == [status : Status, hash : Hash \cup {None}]
NoRow == [status |-> "ABSENT", hash |-> None]

PickedWithoutNew == {"BROADCASTED", "FAILED"}
Picked == {"NEW", "BROADCASTED", "FAILED"}

Working == {"credit", "read", "find", "create", "send", "mark", "findRow",
            "row", "check", "finFindRow", "finRow", "confirm", "markFailed",
            "refresh", "write"}
Pc == Working \cup {"idle", "over"}

\* a reconcile run goes on to its next operation
Resting(a) == IF a \in Rec THEN "idle" ELSE "over"

Rest(a) ==
  /\ pc' = [pc EXCEPT ![a] = Resting(a)]
  /\ cur' = [cur EXCEPT ![a] = None]
  /\ tx' = [tx EXCEPT ![a] = None]
  /\ sawRow' = [sawRow EXCEPT ![a] = FALSE]
  /\ fresh' = [fresh EXCEPT ![a] = 0]

Goto(a, l) ==
  pc' = [pc EXCEPT ![a] = l] /\ UNCHANGED <<cur, tx, sawRow, fresh>>

\* isConfirmedTx accepts a transaction the node merely knows, a reverted one too
Known(h) == chain[h] \in {"mempool", "mined", "reverted"}

Init ==
  /\ coins = 0
  /\ chain = [h \in Hash |-> "unsent"]
  /\ payer = [h \in Hash |-> None] /\ sender = [h \in Hash |-> None]
  /\ arrived = {} /\ credited = {}
  /\ balance = 0
  /\ op = [k \in Key |-> NoRow]
  /\ rows = {}
  /\ pc = [a \in Actor |-> "idle"]
  /\ cur = [a \in Actor |-> None]
  /\ tx = [a \in Actor |-> None]
  /\ sawRow = [a \in Actor |-> FALSE]
  /\ fresh = [a \in Actor |-> 0]
  /\ batch = [c \in Rec |-> {}]
  /\ faults = 0 /\ crashes = 0

-----------------------------------------------------------------------------
(* The ledger                                                              *)

\* only a deposit that is not finalized yet goes on to the sweep
WebhookStart(w, d) ==
  /\ pc[w] = "idle" /\ d \in arrived \ credited
  /\ pc' = [pc EXCEPT ![w] = "credit"]
  /\ cur' = [cur EXCEPT ![w] = <<d, 0>>]
  /\ UNCHANGED <<tx, sawRow, fresh>>
  /\ UNCHANGED <<chainVars, ledger, sweepVars, batch, boundVars>>

WebhookCredit(w) ==
  LET d == cur[w][1]
  IN /\ pc[w] = "credit"
     /\ credited' = credited \cup {d}
     /\ balance' = IF d \in credited THEN balance ELSE balance + Amount
     /\ Goto(w, "read")
     /\ UNCHANGED <<chainVars, sweepVars, batch, boundVars>>

-----------------------------------------------------------------------------
(* maybeSweepCustomerWallet                                                *)

SweepRead(w) ==
  /\ pc[w] = "read"
  /\ IF coins <= Threshold
     THEN Rest(w)
     ELSE /\ pc' = [pc EXCEPT ![w] = "find"]
          /\ cur' = [cur EXCEPT ![w] = <<cur[w][1], coins>>]
          /\ UNCHANGED <<tx, sawRow, fresh>>
  /\ UNCHANGED <<chainVars, ledger, sweepVars, batch, boundVars>>

SweepFind(w) ==
  LET found == op[cur[w]].status
  IN /\ pc[w] = "find"
     /\ IF found = "CONFIRMED" THEN Rest(w)
        ELSE Goto(w, IF found = "ABSENT" THEN "create" ELSE "send")
     /\ UNCHANGED <<chainVars, ledger, sweepVars, batch, boundVars>>

\* idempotency_key is unique: a second insert throws
SweepCreate(w) ==
  /\ pc[w] = "create"
  /\ IF op[cur[w]].status = "ABSENT"
     THEN /\ op' = [op EXCEPT ![cur[w]].status = "NEW"] /\ Goto(w, "send")
     ELSE Rest(w) /\ UNCHANGED op
  /\ UNCHANGED <<chainVars, ledger, rows, batch, boundVars>>

\* sendUsdt, from the webhook or the reconcile loop.  Nothing compares the
\* amount with what is left on the address; the contract does when it runs.
Broadcast(a, h) ==
  /\ pc[a] = "send" /\ chain[h] = "unsent"
  /\ chain' = [chain EXCEPT ![h] = "mempool"]
  /\ payer' = [payer EXCEPT ![h] = cur[a]]
  /\ sender' = [sender EXCEPT ![h] = a]
  /\ UNCHANGED <<coins, arrived, ledger, sweepVars, batch, crashes>>

Send(a, h) ==
  /\ Broadcast(a, h)
  /\ pc' = [pc EXCEPT ![a] = "mark"]
  /\ tx' = [tx EXCEPT ![a] = h]
  /\ UNCHANGED <<cur, sawRow, fresh, faults>>

\* the node accepted the transaction but the call failed
SendLost(a, h) ==
  /\ faults < MaxFaults /\ faults' = faults + 1
  /\ Broadcast(a, h) /\ Goto(a, "markFailed")

SendRejected(a) ==
  /\ pc[a] = "send" /\ \A h \in Hash : chain[h] # "unsent"
  /\ Goto(a, "markFailed")
  /\ UNCHANGED <<chainVars, ledger, sweepVars, batch, boundVars>>

\* markBroadcasted
MarkedRow(a) == [status |-> "BROADCASTED", hash |-> tx[a]]

Mark(a) ==
  /\ pc[a] = "mark"
  /\ op' = [op EXCEPT ![cur[a]] = MarkedRow(a)]
  /\ Goto(a, "findRow")
  /\ UNCHANGED <<chainVars, ledger, rows, batch, boundVars>>

\* upsertBlockchainTransaction looks the row up and then updates or inserts it;
\* tx_hash is unique, so an insert throws when the other actor was quicker
FindRow(a) ==
  /\ pc[a] \in {"findRow", "finFindRow"}
  /\ pc' = [pc EXCEPT ![a] = IF pc[a] = "findRow" THEN "row" ELSE "finRow"]
  /\ sawRow' = [sawRow EXCEPT ![a] = tx[a] \in rows]
  /\ UNCHANGED <<cur, tx, fresh>>
  /\ UNCHANGED <<chainVars, ledger, sweepVars, batch, boundVars>>

PutRow(a) ==
  /\ pc[a] \in {"row", "finRow"}
  /\ IF ~sawRow[a] /\ tx[a] \in rows
     THEN Goto(a, "markFailed") /\ UNCHANGED rows
     ELSE /\ rows' = rows \cup {tx[a]}
          /\ \/ pc[a] = "finRow" /\ Goto(a, "confirm")
             \/ pc[a] = "row" /\ a \in Call /\ Goto(a, "check")
             \/ pc[a] = "row" /\ a \in Rec /\ Rest(a)
  /\ UNCHANGED <<chainVars, ledger, op, batch, boundVars>>

\* waitForConfirmation, or the reconcile loop's single look
SeesTx(a) ==
  /\ pc[a] = "check" /\ Known(tx[a])
  /\ Goto(a, IF a \in Rec THEN "finFindRow" ELSE "confirm")
  /\ UNCHANGED <<chainVars, ledger, sweepVars, batch, boundVars>>

SeesNothing(a) ==
  /\ pc[a] = "check"
  /\ Rest(a)
  /\ UNCHANGED <<chainVars, ledger, sweepVars, batch, boundVars>>

\* markConfirmed; only the webhook refreshes the balance afterwards
ConfirmedAfresh(row) == [status |-> "CONFIRMED", hash |-> None]
Confirmed(row) == [row EXCEPT !.status = "CONFIRMED"]

MarkConfirmed(a) ==
  /\ pc[a] = "confirm"
  /\ op' = [op EXCEPT ![cur[a]] = Confirmed(op[cur[a]])]
  /\ IF a \in Rec THEN Rest(a) ELSE Goto(a, "refresh")
  /\ UNCHANGED <<chainVars, ledger, rows, batch, boundVars>>

MarkFailed(a) ==
  /\ pc[a] = "markFailed"
  /\ op' = [op EXCEPT ![cur[a]].status = "FAILED"]
  /\ Rest(a)
  /\ UNCHANGED <<chainVars, ledger, rows, batch, boundVars>>

-----------------------------------------------------------------------------
(* refreshAllBalancesForUser                                               *)

RescanStart(x) ==
  /\ pc[x] = "idle" /\ Goto(x, "refresh")
  /\ UNCHANGED <<chainVars, ledger, sweepVars, batch, boundVars>>

RefreshRead(a) ==
  /\ pc[a] = "refresh"
  /\ pc' = [pc EXCEPT ![a] = "write"]
  /\ fresh' = [fresh EXCEPT ![a] = coins]
  /\ UNCHANGED <<cur, tx, sawRow>>
  /\ UNCHANGED <<chainVars, ledger, sweepVars, batch, boundVars>>

\* upsertBalance: whatever the ledger says, the row becomes what was read
RefreshWrite(a) ==
  /\ pc[a] = "write"
  /\ balance' = fresh[a]
  /\ Rest(a)
  /\ UNCHANGED <<chainVars, credited, sweepVars, batch, boundVars>>

-----------------------------------------------------------------------------
(* reconcileUsdtOperations, SWEEP branch                                    *)

ReconcileStart(c) ==
  /\ pc[c] = "idle" /\ batch[c] = {}
  /\ batch' = [batch EXCEPT ![c] =
       {<<k, op[k]>> : k \in {j \in Key : op[j].status \in Picked}}]
  /\ UNCHANGED <<chainVars, ledger, sweepVars, procVars, boundVars>>

ToSendWhateverHash(row) == row.status \in {"NEW", "BROADCASTED"}
ToSend(row) == row.status = "NEW" /\ row.hash = None
ToCheck(row) == row.status = "BROADCASTED" /\ row.hash # None

\* the branches test the row as it was read when the run began
ReconcileTake(c, k, row) ==
  /\ pc[c] = "idle" /\ <<k, row>> \in batch[c]
  /\ batch' = [batch EXCEPT ![c] = @ \ {<<k, row>>}]
  /\ IF ToSend(row) \/ ToCheck(row)
     THEN /\ pc' = [pc EXCEPT ![c] = IF ToSend(row) THEN "send" ELSE "check"]
          /\ cur' = [cur EXCEPT ![c] = k]
          /\ tx' = [tx EXCEPT ![c] = row.hash]
          /\ UNCHANGED <<sawRow, fresh>>
     ELSE UNCHANGED procVars
  /\ UNCHANGED <<chainVars, ledger, sweepVars, boundVars>>

-----------------------------------------------------------------------------
(* Faults, crashes and the chain                                           *)

\* A call throws.  What precedes the try block, the refresh and a failing
\* markFailed end the actor (and a reconcile run); the rest is recorded.
InTry == {"send", "mark", "findRow", "row", "finFindRow", "finRow", "confirm"}

Fault(a) ==
  /\ faults < MaxFaults /\ faults' = faults + 1
  /\ \/ pc[a] \in InTry /\ Goto(a, "markFailed") /\ UNCHANGED batch
     \/ pc[a] \in Working \ (InTry \cup {"check"})
        /\ Rest(a)
        /\ batch' = [c \in Rec |-> IF c = a THEN {} ELSE batch[c]]
  /\ UNCHANGED <<chainVars, ledger, sweepVars, crashes>>

\* last_reconciled_at could not be written: the operation is set FAILED
ReconcileTouchFails(c, k, row) ==
  /\ faults < MaxFaults /\ faults' = faults + 1
  /\ pc[c] = "idle" /\ <<k, row>> \in batch[c]
  /\ batch' = [batch EXCEPT ![c] = @ \ {<<k, row>>}]
  /\ op' = [op EXCEPT ![k].status = "FAILED"]
  /\ UNCHANGED <<chainVars, ledger, rows, procVars, crashes>>

Crash ==
  /\ crashes < MaxCrashes /\ crashes' = crashes + 1
  /\ pc' = [a \in Actor |-> IF pc[a] \in Working THEN Resting(a) ELSE pc[a]]
  /\ cur' = [a \in Actor |-> None]
  /\ tx' = [a \in Actor |-> None]
  /\ sawRow' = [a \in Actor |-> FALSE]
  /\ fresh' = [a \in Actor |-> 0]
  /\ batch' = [c \in Rec |-> {}]
  /\ UNCHANGED <<chainVars, ledger, sweepVars, faults>>

DepositArrives(d) ==
  /\ d \notin arrived
  /\ arrived' = arrived \cup {d} /\ coins' = coins + Amount
  /\ UNCHANGED <<chain, payer, sender, ledger, sweepVars, procVars, batch,
                 boundVars>>

\* the token contract moves the amount or reverts
ChainMines(h) ==
  /\ chain[h] = "mempool"
  /\ IF coins >= payer[h][2]
     THEN /\ chain' = [chain EXCEPT ![h] = "mined"]
          /\ coins' = coins - payer[h][2]
     ELSE chain' = [chain EXCEPT ![h] = "reverted"] /\ UNCHANGED coins
  /\ UNCHANGED <<payer, sender, arrived, ledger, sweepVars, procVars, batch,
                 boundVars>>

ChainExpires(h) ==
  /\ chain[h] = "mempool"
  /\ chain' = [chain EXCEPT ![h] = "expired"]
  /\ UNCHANGED <<coins, payer, sender, arrived, ledger, sweepVars, procVars,
                 batch, boundVars>>

-----------------------------------------------------------------------------
SweepStep(w) ==
  \/ WebhookCredit(w) \/ SweepRead(w) \/ SweepFind(w) \/ SweepCreate(w)

SendStep(a) ==
  \/ \E h \in Hash : Send(a, h)
  \/ SendRejected(a) \/ Mark(a) \/ FindRow(a) \/ PutRow(a)
  \/ SeesTx(a) \/ SeesNothing(a) \/ MarkConfirmed(a) \/ MarkFailed(a)

RefreshStep(a) == RefreshRead(a) \/ RefreshWrite(a)

ReconcileStep(c) ==
  \/ ReconcileStart(c)
  \/ \E k \in Key, row \in Row : ReconcileTake(c, k, row)

Environment ==
  \/ \E a \in Actor : Fault(a) \/ \E h \in Hash : SendLost(a, h)
  \/ \E c \in Rec, k \in Key, row \in Row : ReconcileTouchFails(c, k, row)
  \/ \E d \in Dep : DepositArrives(d)
  \/ \E h \in Hash : ChainMines(h) \/ ChainExpires(h)
  \/ Crash

Next ==
  \/ \E w \in Call : SweepStep(w) \/ \E d \in Dep : WebhookStart(w, d)
  \/ \E a \in Call \cup Rec : SendStep(a)
  \/ \E a \in Call \cup Cron : RefreshStep(a)
  \/ \E x \in Cron : RescanStart(x)
  \/ \E c \in Rec : ReconcileStep(c)
  \/ Environment

Spec == Init /\ [][Next]_vars

-----------------------------------------------------------------------------
(* Safety                                                                  *)

\* Every variable has its type.
TypeOK ==
  /\ coins \in Nat
  /\ chain \in [Hash -> {"unsent", "mempool", "mined", "reverted", "expired"}]
  /\ payer \in [Hash -> Key \cup {None}]
  /\ sender \in [Hash -> Actor \cup {None}]
  /\ arrived \subseteq Dep /\ credited \subseteq Dep
  /\ balance \in Nat
  /\ op \in [Key -> Row]
  /\ rows \subseteq Hash
  /\ pc \in [Actor -> Pc]
  /\ cur \in [Actor -> Key \cup {None}]
  /\ tx \in [Actor -> Hash \cup {None}]
  /\ sawRow \in [Actor -> BOOLEAN]
  /\ fresh \in [Actor -> Nat]
  /\ batch \in [Rec -> SUBSET (Key \X Row)]
  /\ faults \in 0 .. MaxFaults /\ crashes \in 0 .. MaxCrashes

\* A CONFIRMED sweep names a transaction that was broadcast for it, although the
\* webhook and the reconcile loop may both have sent one and both write the row.
ConfirmedWasSent ==
  \A k \in Key : op[k].status = "CONFIRMED" =>
    op[k].hash # None /\ payer[op[k].hash] = k

\* Two deliveries, or a delivery and a run, may sweep under one operation twice,
\* because each looks before the other has stored a hash.  None of them does so
\* alone: of the transactions one of them sent for an operation and recorded
\* there is one, whatever failed in between and however often the loop returns.
RecordedOncePerSender ==
  \A h, g \in rows : payer[h] = payer[g] /\ sender[h] = sender[g] => h = g

\* Both together: what two actors write to one row stays well-formed and true,
\* and a sweep is repeated only by another actor.
SweepsAreSound == TypeOK /\ ConfirmedWasSent /\ RecordedOncePerSender

-----------------------------------------------------------------------------
(* Liveness.  One event loop schedules everything, something restarts the   *)
(* reconcile loop, whose DEPOSIT branch takes up a deposit no delivery       *)
(* finished, the node answers again some day and the network decides.       *)

Fairness ==
  /\ \A a \in Call : WF_vars(\E d \in Dep : WebhookStart(a, d))
  /\ \A h \in Hash : WF_vars(ChainMines(h) \/ ChainExpires(h))
  /\ \A a \in Call : WF_vars(SweepStep(a) \/ SendStep(a) \/ RefreshStep(a))
  /\ \A c \in Rec : WF_vars(ReconcileStep(c) \/ SendStep(c))
  /\ \A c \in Rec : SF_vars(SeesTx(c))

FairSpec == Spec /\ Fairness

\* A sweep that was recorded does not stay NEW or BROADCASTED: it ends CONFIRMED
\* or FAILED unless its transaction expired, whatever call failed or process died.
SweepIsSettled ==
  \A k \in Key : op[k].status \in {"NEW", "BROADCASTED"} ~>
    \/ op[k].status \in {"CONFIRMED", "FAILED"}
    \/ op[k].hash # None /\ chain[op[k].hash] = "expired"

-----------------------------------------------------------------------------
(* What the repository says, and what a run refutes                        *)

\* The local balance is 'authoritative': a customer who pays nothing out keeps
\* what was credited.
CreditIsKept == balance >= Amount * Cardinality(credited)
=============================================================================
