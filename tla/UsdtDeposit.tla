---------------------------- MODULE UsdtDeposit ----------------------------
(***************************************************************************)
(* USDT deposits: handleUsdtDepositWebhook (one actor per delivery of the  *)
(* webhook), the reconcile loop's DEPOSIT branch beside it, and the        *)
(* finalizeDepositOperation both of them run.                              *)
(*                                                                         *)
(* The two lookups finalizeDepositOperation decides on (is there a history *)
(* row?  is there a chain row?) are statements of one READ COMMITTED       *)
(* transaction: each sees what was committed when it ran, and other        *)
(* finalizers commit in between.  They are steps of their own; the writes  *)
(* become visible together, at the commit.                                 *)
(***************************************************************************)
EXTENDS Integers

CONSTANTS
  Hash,        \* TRON transactions that pay a customer
  Key,         \* idempotency keys, each the key of one payment operation
  Notice,      \* what the webhook is told: <<hash, key>>
  Call,        \* deliveries of the webhook
  Rec,         \* reconcile runs that may be active together
  None,        \* SQL NULL
  MaxFaults,   \* bound: database and RPC calls that fail
  MaxCrashes   \* bound: restarts of the server

ASSUME NoticeAssumption == Notice \subseteq Hash \X Key
ASSUME ActorsAssumption == Call \cap Rec = {} /\ None \notin Hash \cup Key
ASSUME BoundsAssumption == MaxFaults \in Nat /\ MaxCrashes \in Nat

Actor == Call \cup Rec

VARIABLES
  op,        \* payment_operations rows of type DEPOSIT, by idempotency key
  chainRow,  \* blockchain_transactions: the operation each hash's row is of
  credits,   \* per hash, the transactions row and CREDIT entries posted
  chain,     \* external: state of each TRON transaction
  pc,        \* per actor: what it does next
  cur,       \* its operation, None while it has none
  tx, key,   \* the hash and the idempotency key it works for
  sawTx,     \* whether finalize's lookup found a transactions row
  sawRow,    \* whether finalize's lookup found the operation's chain row
  late,      \* history: the hash was credited before the actor began
  batch,     \* rows a reconcile run has still to visit, as it read them
  faults, crashes

rowVars   == <<op, chainRow, credits>>
procVars  == <<pc, cur, tx, key, sawTx, sawRow, late>>
boundVars == <<faults, crashes>>
vars == <<rowVars, chain, procVars, batch, boundVars>>

-----------------------------------------------------------------------------
(* Rows and values                                                         *)

Status == {"ABSENT", "NEW", "BROADCASTED", "CONFIRMED", "FAILED"}
\* done: the payload carries transaction_id
Row == [status : Status, hash : Hash \cup {None}, done : BOOLEAN]
NoRow == [status |-> "ABSENT", hash |-> None, done |-> FALSE]

PickedWithoutFailed == {"NEW", "BROADCASTED"}
Picked == {"NEW", "BROADCASTED", "FAILED"}

Working == {"byHash", "check", "createConfirmed", "createPending", "mark",
            "finTx", "finRow", "finCommit", "sweep", "markFailed"}
Pc == Working \cup {"idle", "answered", "threw"}

\* A delivery is over when it answers or throws; a reconcile run goes back to
\* its loop.
Resting(a, end) == IF a \in Call THEN end ELSE "idle"

Rest(a, end) ==
  /\ pc' = [pc EXCEPT ![a] = Resting(a, end)]
  /\ cur' = [cur EXCEPT ![a] = None]
  /\ tx' = [tx EXCEPT ![a] = None]
  /\ key' = [key EXCEPT ![a] = None]
  /\ sawTx' = [sawTx EXCEPT ![a] = FALSE]
  /\ sawRow' = [sawRow EXCEPT ![a] = FALSE]
  /\ late' = [late EXCEPT ![a] = FALSE]

Goto(a, l) ==
  /\ pc' = [pc EXCEPT ![a] = l]
  /\ UNCHANGED <<cur, tx, key, sawTx, sawRow, late>>

\* isConfirmedTx accepts a transaction the node merely knows; it answers FALSE
\* when the RPC calls fail, too
Known(h) == chain[h] \in {"mempool", "mined"}

\* findOperationByTxHash
Holds(k, h) == op[k].status # "ABSENT" /\ op[k].hash = h

Init ==
  /\ op = [k \in Key |-> NoRow]
  /\ chainRow = [h \in Hash |-> None]
  /\ credits = [h \in Hash |-> 0]
  /\ chain = [h \in Hash |-> "mempool"]
  /\ pc = [a \in Actor |-> "idle"]
  /\ cur = [a \in Actor |-> None]
  /\ tx = [a \in Actor |-> None]
  /\ key = [a \in Actor |-> None]
  /\ sawTx = [a \in Actor |-> FALSE]
  /\ sawRow = [a \in Actor |-> FALSE]
  /\ late = [a \in Actor |-> FALSE]
  /\ batch = [c \in Rec |-> {}]
  /\ faults = 0
  /\ crashes = 0

-----------------------------------------------------------------------------
(* handleUsdtDepositWebhook                                                *)

\* an operation that is CONFIRMED or carries a transaction_id is answered
AlreadyDone(row) == row.status = "CONFIRMED" \/ row.done

\* the delivery is told of n; it looks the key up
WebhookByKey(w, n) ==
  LET h == n[1]
      k == n[2]
  IN /\ pc[w] = "idle"
     /\ IF AlreadyDone(op[k])
        THEN Rest(w, "answered")
        ELSE /\ pc' = [pc EXCEPT ![w] = IF op[k].status = "ABSENT"
                                        THEN "byHash" ELSE "check"]
             /\ cur' = [cur EXCEPT ![w] = IF op[k].status = "ABSENT"
                                          THEN None ELSE k]
             /\ tx' = [tx EXCEPT ![w] = h]
             /\ key' = [key EXCEPT ![w] = k]
             /\ late' = [late EXCEPT ![w] = credits[h] > 0]
             /\ UNCHANGED <<sawTx, sawRow>>
     /\ UNCHANGED <<rowVars, chain, batch, boundVars>>

\* no such key: it looks the hash up
FoundByHash(w) == {k \in Key : Holds(k, tx[w])}

WebhookByHash(w) ==
  /\ pc[w] = "byHash"
  /\ \/ /\ FoundByHash(w) = {}
        /\ Goto(w, "check")
     \/ \E k \in FoundByHash(w) :
          IF AlreadyDone(op[k])
          THEN Rest(w, "answered")
          ELSE /\ pc' = [pc EXCEPT ![w] = "check"]
               /\ cur' = [cur EXCEPT ![w] = k]
               /\ UNCHANGED <<tx, key, sawTx, sawRow, late>>
  /\ UNCHANGED <<rowVars, chain, batch, boundVars>>

\* isConfirmedTx saw the transaction
WebhookSeesTx(w) ==
  /\ pc[w] = "check"
  /\ Known(tx[w])
  /\ Goto(w, IF cur[w] = None THEN "createConfirmed" ELSE "finTx")
  /\ UNCHANGED <<rowVars, chain, batch, boundVars>>

WebhookSeesNothing(w) ==
  /\ pc[w] = "check"
  /\ Goto(w, IF cur[w] = None THEN "createPending" ELSE "mark")
  /\ UNCHANGED <<rowVars, chain, batch, boundVars>>

\* idempotency_key and tx_hash are unique: one of two inserts throws
Insertable(w) ==
  op[key[w]].status = "ABSENT" /\ \A k \in Key : ~Holds(k, tx[w])

CreatedAsConfirmed(w) ==
  [status |-> IF pc[w] = "createConfirmed" THEN "CONFIRMED" ELSE "NEW",
   hash |-> tx[w], done |-> FALSE]
CreatedRow(w) ==
  [status |-> IF pc[w] = "createConfirmed" THEN "BROADCASTED" ELSE "NEW",
   hash |-> tx[w], done |-> FALSE]

WebhookCreate(w) ==
  /\ pc[w] \in {"createConfirmed", "createPending"}
  /\ IF Insertable(w)
     THEN /\ op' = [op EXCEPT ![key[w]] = CreatedRow(w)]
          /\ pc' = [pc EXCEPT ![w] = IF pc[w] = "createConfirmed"
                                      THEN "finTx" ELSE "mark"]
          /\ cur' = [cur EXCEPT ![w] = key[w]]
          /\ UNCHANGED <<tx, key, sawTx, sawRow, late>>
     ELSE Rest(w, "threw") /\ UNCHANGED op
  /\ UNCHANGED <<chainRow, credits, chain, batch, boundVars>>

\* markBroadcasted, with the payload of the row as it was read or created, which
\* had no transaction_id; a hash another operation holds violates its unique
\* index
WebhookMark(w) ==
  /\ pc[w] = "mark"
  /\ IF \E k \in Key \ {cur[w]} : Holds(k, tx[w])
     THEN Rest(w, "threw") /\ UNCHANGED op
     ELSE /\ op' = [op EXCEPT ![cur[w]] =
                      [status |-> "BROADCASTED", hash |-> tx[w],
                       done |-> FALSE]]
          /\ Rest(w, "answered")
  /\ UNCHANGED <<chainRow, credits, chain, batch, boundVars>>

-----------------------------------------------------------------------------
(* finalizeDepositOperation, for both callers                              *)

\* the lookup in transactions, by hash and receiver
TxFoundOnlyByOperation(a) == chainRow[tx[a]] = cur[a] /\ op[cur[a]].done
TxFound(a) == credits[tx[a]] > 0

FinalizeFindTx(a) ==
  /\ pc[a] = "finTx"
  /\ pc' = [pc EXCEPT ![a] = "finRow"]
  /\ sawTx' = [sawTx EXCEPT ![a] = TxFound(a)]
  /\ UNCHANGED <<cur, tx, key, sawRow, late>>
  /\ UNCHANGED <<rowVars, chain, batch, boundVars>>

\* the lookup in blockchain_transactions, by hash and operation
FinalizeFindRow(a) ==
  /\ pc[a] = "finRow"
  /\ pc' = [pc EXCEPT ![a] = "finCommit"]
  /\ sawRow' = [sawRow EXCEPT ![a] = chainRow[tx[a]] = cur[a]]
  /\ UNCHANGED <<cur, tx, key, sawTx, late>>
  /\ UNCHANGED <<rowVars, chain, batch, boundVars>>

\* Inserting a second chain row for a hash violates its unique index; the
\* transaction is rolled back and the caller gets the exception.
ThrowsNever(a) == FALSE
Throws(a) == ~sawRow[a] /\ chainRow[tx[a]] # None

FinalizeThrows(a) ==
  /\ pc[a] = "finCommit"
  /\ Throws(a)
  /\ IF a \in Call THEN Rest(a, "threw") ELSE Goto(a, "markFailed")
  /\ UNCHANGED <<rowVars, chain, batch, boundVars>>

Credited(a) == IF sawTx[a] THEN credits[tx[a]] ELSE credits[tx[a]] + 1

ConfirmedRow(row) == [row EXCEPT !.status = "CONFIRMED", !.done = TRUE]

\* The commit: chain row, history row and CREDIT entry, operation CONFIRMED.
\* The webhook then sweeps and swallows what the sweep throws; the reconcile
\* loop sweeps inside its try block.
FinalizeCommit(a) ==
  LET h == tx[a]
      k == cur[a]
  IN /\ pc[a] = "finCommit"
     /\ ~Throws(a)
     /\ chainRow' = [chainRow EXCEPT ![h] = k]
     /\ credits' = [credits EXCEPT ![h] = Credited(a)]
     /\ op' = [op EXCEPT ![k] = ConfirmedRow(@)]
     /\ IF a \in Call THEN Rest(a, "answered") ELSE Goto(a, "sweep")
     /\ UNCHANGED <<chain, batch, boundVars>>

-----------------------------------------------------------------------------
(* reconcileUsdtOperations, DEPOSIT branch                                 *)

ReconcileStart(c) ==
  /\ pc[c] = "idle" /\ batch[c] = {}
  /\ LET rows == {k \in Key : op[k].status \in Picked} IN
     batch' = [batch EXCEPT ![c] = {<<k, op[k].hash>> : k \in rows}]
  /\ UNCHANGED <<rowVars, chain, procVars, boundVars>>

\* take a row and write its last_reconciled_at
ReconcileTake(c, k, h) ==
  /\ pc[c] = "idle" /\ <<k, h>> \in batch[c]
  /\ batch' = [batch EXCEPT ![c] = @ \ {<<k, h>>}]
  /\ pc' = [pc EXCEPT ![c] = "check"]
  /\ cur' = [cur EXCEPT ![c] = k]
  /\ tx' = [tx EXCEPT ![c] = h]
  /\ key' = [key EXCEPT ![c] = k]
  /\ late' = [late EXCEPT ![c] = credits[h] > 0]
  /\ UNCHANGED <<sawTx, sawRow>>
  /\ UNCHANGED <<rowVars, chain, boundVars>>

ReconcileSeesTx(c) ==
  /\ pc[c] = "check"
  /\ Known(tx[c])
  /\ Goto(c, "finTx")
  /\ UNCHANGED <<rowVars, chain, batch, boundVars>>

ReconcileSeesNothing(c) ==
  /\ pc[c] = "check"
  /\ Rest(c, "answered")
  /\ UNCHANGED <<rowVars, chain, batch, boundVars>>

\* maybeSweepCustomerWallet came back
ReconcileSwept(c) ==
  /\ pc[c] = "sweep"
  /\ Rest(c, "answered")
  /\ UNCHANGED <<rowVars, chain, batch, boundVars>>

\* the catch block, which for a deposit only records the failure
ReconcileMarkFailed(c) ==
  /\ pc[c] = "markFailed"
  /\ op' = [op EXCEPT ![cur[c]].status = "FAILED"]
  /\ Rest(c, "answered")
  /\ UNCHANGED <<chainRow, credits, chain, batch, boundVars>>

-----------------------------------------------------------------------------
(* Faults, crashes and the chain                                           *)

\* A database call throws.  Nothing of a webhook is in a try block but its
\* sweep; a reconcile run fails the row ("check" stands for last_reconciled_at
\* too), and is abandoned when that fails as well.
Fault(a) ==
  /\ faults < MaxFaults
  /\ faults' = faults + 1
  /\ \/ /\ a \in Call /\ pc[a] \in Working \ {"check", "sweep"}
        /\ Rest(a, "threw") /\ UNCHANGED batch
     \/ /\ a \in Rec /\ pc[a] \in Working \ {"markFailed"}
        /\ Goto(a, "markFailed") /\ UNCHANGED batch
     \/ /\ a \in Rec /\ pc[a] = "markFailed"
        /\ Rest(a, "threw") /\ batch' = [batch EXCEPT ![a] = {}]
  /\ UNCHANGED <<rowVars, chain, crashes>>

\* the process dies: the database and the chain remain
Crash ==
  /\ crashes < MaxCrashes
  /\ crashes' = crashes + 1
  /\ pc' = [a \in Actor |-> IF pc[a] \in Working THEN Resting(a, "threw")
                                                 ELSE pc[a]]
  /\ cur' = [a \in Actor |-> None]
  /\ tx' = [a \in Actor |-> None]
  /\ key' = [a \in Actor |-> None]
  /\ sawTx' = [a \in Actor |-> FALSE]
  /\ sawRow' = [a \in Actor |-> FALSE]
  /\ late' = [a \in Actor |-> FALSE]
  /\ batch' = [c \in Rec |-> {}]
  /\ UNCHANGED <<rowVars, chain, faults>>

\* a transaction is mined, or expires without being mined
ChainSettles(h) ==
  /\ chain[h] = "mempool"
  /\ \E s \in {"mined", "expired"} : chain' = [chain EXCEPT ![h] = s]
  /\ UNCHANGED <<rowVars, procVars, batch, boundVars>>

-----------------------------------------------------------------------------
WebhookStep(w) ==
  \/ WebhookByHash(w)
  \/ WebhookSeesTx(w) \/ WebhookSeesNothing(w)
  \/ WebhookCreate(w) \/ WebhookMark(w)

FinalizeStep(a) ==
  \/ FinalizeFindTx(a) \/ FinalizeFindRow(a)
  \/ FinalizeThrows(a) \/ FinalizeCommit(a)

ReconcileStep(c) ==
  \/ ReconcileStart(c)
  \/ \E k \in Key, h \in Hash : ReconcileTake(c, k, h)
  \/ ReconcileSeesTx(c) \/ ReconcileSeesNothing(c)
  \/ ReconcileSwept(c) \/ ReconcileMarkFailed(c)

Environment ==
  \/ \E a \in Actor : Fault(a)
  \/ \E h \in Hash : ChainSettles(h)
  \/ Crash

Next ==
  \/ \E w \in Call : WebhookStep(w) \/ \E n \in Notice : WebhookByKey(w, n)
  \/ \E a \in Actor : FinalizeStep(a)
  \/ \E c \in Rec : ReconcileStep(c)
  \/ Environment

Spec == Init /\ [][Next]_vars

-----------------------------------------------------------------------------
(* Safety                                                                  *)

\* Every variable has its type.
TypeOK ==
  /\ op \in [Key -> Row]
  /\ chainRow \in [Hash -> Key \cup {None}]
  /\ credits \in [Hash -> Nat]
  /\ chain \in [Hash -> {"mempool", "mined", "expired"}]
  /\ pc \in [Actor -> Pc]
  /\ cur \in [Actor -> Key \cup {None}]
  /\ tx \in [Actor -> Hash \cup {None}]
  /\ key \in [Actor -> Key \cup {None}]
  /\ sawTx \in [Actor -> BOOLEAN] /\ sawRow \in [Actor -> BOOLEAN]
  /\ late \in [Actor -> BOOLEAN]
  /\ batch \in [Rec -> SUBSET (Key \X Hash)]
  /\ faults \in 0 .. MaxFaults /\ crashes \in 0 .. MaxCrashes

\* A CONFIRMED deposit, and one that carries a transaction_id, has been credited
\* under a chain row of its own: answering a delivery for it with OK drops
\* nothing, whatever else wrote to the operation.
ConfirmedIsCredited ==
  \A k \in Key : (op[k].status = "CONFIRMED" \/ op[k].done) =>
    \E h \in Hash : chainRow[h] = k /\ credits[h] > 0

\* Redelivery is safe once a deposit is credited: only an actor that began
\* before the first credit adds one.  One that comes later, even one that has to
\* finalize an operation a slow delivery set back to BROADCASTED or a failed
\* sweep set to FAILED, credits nothing.  (Two early ones may each add a credit.)
ByEarlyActor ==
  \A h \in Hash : credits'[h] > credits[h] =>
    \E a \in Actor : /\ tx[a] = h /\ ~late[a]
                     /\ pc[a] = "finCommit" /\ pc'[a] # "finCommit"
LateNeverCredits == [][ByEarlyActor]_vars

\* No transaction is credited under two operations, and its credit never moves
\* to another one, whichever keys its deliveries carry.
CreditStaysWithOperation ==
  [][\A h \in Hash : chainRow[h] # None => chainRow'[h] = chainRow[h]]_vars

-----------------------------------------------------------------------------
(* Liveness.  Deliveries and reconcile runs are scheduled by one event loop *)
(* and the timer, or administrators, restart the latter for ever; nobody need *)
(* deliver anything.  The node is assumed to answer again some day, which   *)
(* is what strong fairness of ReconcileSeesTx says.                        *)

Fairness ==
  /\ \A w \in Call : WF_vars(WebhookStep(w) \/ FinalizeStep(w))
  /\ \A c \in Rec : /\ WF_vars(ReconcileStep(c) \/ FinalizeStep(c))
                   /\ SF_vars(ReconcileSeesTx(c))

FairSpec == Spec /\ Fairness

\* A deposit the server has once stored is CONFIRMED for good in the end if its
\* transaction is mined: after lost answers, failed sweeps, restarts and slow
\* deliveries that overwrite its status.
MinedIsConfirmed ==
  \A k \in Key, h \in Hash :
    (Holds(k, h) /\ chain[h] = "mined") ~> [](op[k].status = "CONFIRMED")
=============================================================================
