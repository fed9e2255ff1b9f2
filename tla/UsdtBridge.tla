----------------------------- MODULE UsdtBridge -----------------------------
(*****************************************************************************)
(* USDT transfers that move coins on the TRON chain first and the ledger     *)
(* afterwards: the bridge between a bank customer and a browser wallet       *)
(* (processBrowserWalletBridgeTransfer) and the transfer between two browser *)
(* wallets (transferBrowserWalletOnChain).  The chain watcher reports the    *)
(* same transaction to the deposit webhook when the receiver is a browser    *)
(* wallet, and the reconcile loop picks the operations up beside both.       *)
(*                                                                           *)
(* As in UsdtDeposit, the lookups a database transaction decides on are      *)
(* steps of their own and its writes become visible at the commit.           *)
(*****************************************************************************)
EXTENDS Integers

CONSTANTS
  Op,          \* idempotency keys of bridge transfers
  ToBrowser,   \* those that pay a browser wallet from the treasury
  Req,         \* HTTP requests for a bridge transfer
  Wal,         \* HTTP requests for a transfer between browser wallets
  Call,        \* deliveries of the deposit webhook
  Rec,         \* reconcile runs that may be active together
  Hash,        \* TRON transactions the senders can still afford
  Deposit, Wallet,  \* the owners of rows that are no bridge operation's
  None,        \* SQL NULL
  Gross,       \* the amount transferred
  Fee,         \* the tariff fee charged on top of it
  Opening,     \* each sender's balance at the start
  MaxFaults,   \* bound: database and RPC calls that fail
  MaxCrashes   \* bound: restarts of the server

ASSUME AmountsAssumption ==
  Gross \in Nat \ {0} /\ Fee \in Nat /\ Opening \in Nat
ASSUME NamesAssumption ==
  /\ ToBrowser \subseteq Op /\ None \notin Op \cup Hash
  /\ Deposit \notin Op /\ Wallet \notin Op /\ Deposit # Wallet
  /\ None \notin {Deposit, Wallet}
ASSUME ActorsAssumption ==
  /\ Req \cap Wal = {} /\ Req \cap Call = {} /\ Req \cap Rec = {}
  /\ Wal \cap Call = {} /\ Wal \cap Rec = {} /\ Call \cap Rec = {}
ASSUME BoundsAssumption == MaxFaults \in Nat /\ MaxCrashes \in Nat

Actor == Req \cup Wal \cup Call \cup Rec
Owner == Op \cup {Deposit, Wallet}

VARIABLES
  balance,   \* user_asset_balances of the bank and the browser customer
  bridge,    \* payment_operations rows of the bridge
  dep,       \* DEPOSIT operations, their key derived from the hash
  wallet,    \* hashes with an operation of a browser wallet transfer
  chainRow,  \* blockchain_transactions: the owner of each hash's row
  settled,   \* per hash: sender debited and receiver credited by a transfer
  credited,  \* per hash: receiver credited by the deposit's finalizer
  chain,     \* external: state of each TRON transaction
  payer,     \* external: what a transaction was broadcast for
  watch,     \* confirmation watchers that bridge requests left behind
  pc, cur, tx, seen, sawTx, sawRow, late,  \* the actors' locals
  bridges, deposits,                       \* rows a reconcile run has to visit
  faults, crashes

rowVars   == <<bridge, dep, wallet, chainRow, settled, credited>>
chainVars == <<chain, payer>>
procVars  == <<pc, cur, tx, seen, sawTx, sawRow, late>>
batchVars == <<bridges, deposits>>
boundVars == <<faults, crashes>>
vars == <<balance, rowVars, chainVars, watch, procVars, batchVars, boundVars>>

-----------------------------------------------------------------------------
(* Rows and values                                                         *)

Status == {"ABSENT", "NEW", "BROADCASTED", "CONFIRMED", "FAILED"}
\* done: the payload carries transaction_id
Row == [status : Status, hash : Hash \cup {None}, done : BOOLEAN]
NoRow == [status |-> "ABSENT", hash |-> None, done |-> FALSE]
NoDeposit == [status |-> "ABSENT", done |-> FALSE]

PickedWithoutBroadcasted == {"NEW", "FAILED"}
Picked == {"NEW", "BROADCASTED", "FAILED"}

Working == {"create", "send", "mark", "read", "findRow", "commit",
            "check", "createConfirmed", "createPending", "finTx", "finRow",
            "finCommit", "sweep", "markFailed"}
Pc == Working \cup {"idle", "answered", "threw"}

Resting(a, end) == IF a \in Rec THEN "idle" ELSE end

Rest(a, end) ==
  /\ pc' = [pc EXCEPT ![a] = Resting(a, end)]
  /\ cur' = [cur EXCEPT ![a] = None]
  /\ tx' = [tx EXCEPT ![a] = None]
  /\ seen' = [seen EXCEPT ![a] = NoRow]
  /\ sawTx' = [sawTx EXCEPT ![a] = FALSE]
  /\ sawRow' = [sawRow EXCEPT ![a] = FALSE]
  /\ late' = [late EXCEPT ![a] = FALSE]

Goto(a, l) ==
  /\ pc' = [pc EXCEPT ![a] = l]
  /\ UNCHANGED <<cur, tx, seen, sawTx, sawRow, late>>

\* isConfirmedTx accepts a transaction the node merely knows; it answers FALSE
\* when the RPC calls fail, too
Known(h) == chain[h] \in {"mempool", "mined"}

\* payment_operations.tx_hash is unique: the operations that hold h
Holders(h) ==
  {o \in Op : bridge[o].hash = h}
    \cup (IF dep[h].status # "ABSENT" THEN {Deposit} ELSE {})
    \cup (IF h \in wallet THEN {Wallet} ELSE {})

\* transactions rows that name h and its receiver
InHistory(h) == settled[h] + credited[h] > 0

SenderOf(o) == IF o \in ToBrowser THEN "bank" ELSE "browser"
TotalDebit == Gross + Fee

Init ==
  /\ balance = [s \in {"bank", "browser"} |-> Opening]
  /\ bridge = [o \in Op |-> NoRow]
  /\ dep = [h \in Hash |-> NoDeposit]
  /\ wallet = {}
  /\ chainRow = [h \in Hash |-> None]
  /\ settled = [h \in Hash |-> 0]
  /\ credited = [h \in Hash |-> 0]
  /\ chain = [h \in Hash |-> "unsent"]
  /\ payer = [h \in Hash |-> None]
  /\ watch = {}
  /\ pc = [a \in Actor |-> "idle"]
  /\ cur = [a \in Actor |-> None]
  /\ tx = [a \in Actor |-> None]
  /\ seen = [a \in Actor |-> NoRow]
  /\ sawTx = [a \in Actor |-> FALSE]
  /\ sawRow = [a \in Actor |-> FALSE]
  /\ late = [a \in Actor |-> FALSE]
  /\ bridges = [c \in Rec |-> {}]
  /\ deposits = [c \in Rec |-> {}]
  /\ faults = 0
  /\ crashes = 0

-----------------------------------------------------------------------------
(* processBrowserWalletBridgeTransfer                                      *)

\* only a CONFIRMED operation that carries a transaction_id is answered
Answered(row) == row.status = "CONFIRMED" /\ row.done

BridgeFind(r, o) ==
  /\ pc[r] = "idle"
  /\ IF Answered(bridge[o])
     THEN Rest(r, "answered")
     ELSE /\ pc' = [pc EXCEPT ![r] =
                      IF bridge[o].status = "ABSENT" THEN "create" ELSE "send"]
          /\ cur' = [cur EXCEPT ![r] = o]
          /\ seen' = [seen EXCEPT ![r] = bridge[o]]
          /\ UNCHANGED <<tx, sawTx, sawRow, late>>
  /\ UNCHANGED <<balance, rowVars, chainVars, watch, batchVars, boundVars>>

\* createOperation; idempotency_key is unique, so a second insert throws
BridgeCreate(r) ==
  LET o == cur[r]
  IN /\ pc[r] = "create"
     /\ IF bridge[o].status = "ABSENT"
        THEN /\ bridge' = [bridge EXCEPT ![o].status = "NEW"]
             /\ seen' = [seen EXCEPT ![r].status = "NEW"]
             /\ pc' = [pc EXCEPT ![r] = "send"]
             /\ UNCHANGED <<cur, tx, sawTx, sawRow, late>>
        ELSE Rest(r, "threw") /\ UNCHANGED bridge
     /\ UNCHANGED <<balance, dep, wallet, chainRow, settled, credited,
                    chainVars, watch, batchVars, boundVars>>

\* the coins leave: from the treasury or from the sender's own wallet
Broadcast(a, h) ==
  /\ pc[a] = "send" /\ chain[h] = "unsent"
  /\ chain' = [chain EXCEPT ![h] = "mempool"]
  /\ payer' = [payer EXCEPT ![h] = cur[a]]
  /\ UNCHANGED <<balance, rowVars, watch, batchVars, crashes>>

SendFails(a) == IF a \in Req THEN Goto(a, "markFailed") ELSE Rest(a, "threw")

Send(a, h) ==
  /\ Broadcast(a, h)
  /\ pc' = [pc EXCEPT ![a] = IF a \in Req THEN "mark" ELSE "read"]
  /\ tx' = [tx EXCEPT ![a] = h]
  /\ UNCHANGED <<cur, seen, sawTx, sawRow, late, faults>>

\* the node accepted the transaction but the call failed
SendLost(a, h) ==
  /\ Broadcast(a, h)
  /\ faults < MaxFaults /\ faults' = faults + 1
  /\ SendFails(a)

SendRejected(a) ==
  /\ pc[a] = "send"
  /\ \A h \in Hash : chain[h] # "unsent"
  /\ SendFails(a)
  /\ UNCHANGED <<balance, rowVars, chainVars, watch, batchVars, boundVars>>

\* markBroadcasted, with the payload of the row as the request read it; a hash
\* that another operation holds violates the unique index
MarkedRow(a) ==
  [status |-> "BROADCASTED", hash |-> tx[a], done |-> seen[a].done]

BridgeMark(r) ==
  /\ pc[r] = "mark"
  /\ IF Holders(tx[r]) \subseteq {cur[r]}
     THEN /\ bridge' = [bridge EXCEPT ![cur[r]] = MarkedRow(r)]
          /\ Goto(r, "read")
     ELSE Goto(r, "markFailed") /\ UNCHANGED bridge
  /\ UNCHANGED <<balance, dep, wallet, chainRow, settled, credited, chainVars,
                 watch, batchVars, boundVars>>

\* applyLedgerDelta checks the sender's balance, now that the coins are gone
BridgeRead(r) ==
  /\ pc[r] = "read" /\ r \in Req
  /\ Goto(r, IF balance[SenderOf(cur[r])] < TotalDebit THEN "markFailed"
                                                       ELSE "findRow")
  /\ UNCHANGED <<balance, rowVars, chainVars, watch, batchVars, boundVars>>

\* upsertBlockchainTransaction's lookup, by operation and hash
BridgeFindRow(r) ==
  /\ pc[r] = "findRow"
  /\ pc' = [pc EXCEPT ![r] = "commit"]
  /\ sawRow' = [sawRow EXCEPT ![r] = chainRow[tx[r]] = cur[r]]
  /\ UNCHANGED <<cur, tx, seen, sawTx, late>>
  /\ UNCHANGED <<balance, rowVars, chainVars, watch, batchVars, boundVars>>

\* both tables have a unique tx_hash: a second chain row, which a missed lookup
\* makes the transaction insert, or a second operation with the hash throws
RowCollides(a) == ~sawRow[a] /\ chainRow[tx[a]] # None
CollidesNever(a) == FALSE
Collides(a) == RowCollides(a) \/ ~(Holders(tx[a]) \subseteq {cur[a]})

\* both ledger entries, history, chain row and operation; a watcher is left
SettledRow(r) == [status |-> "BROADCASTED", hash |-> tx[r], done |-> TRUE]

BridgeSettle(r) ==
  LET o == cur[r]
      h == tx[r]
  IN /\ pc[r] = "commit" /\ r \in Req
     /\ IF Collides(r)
        THEN /\ Goto(r, "markFailed")
             /\ UNCHANGED <<balance, bridge, chainRow, settled, watch>>
        ELSE /\ balance' = [balance EXCEPT ![SenderOf(o)] = @ - TotalDebit]
             /\ settled' = [settled EXCEPT ![h] = @ + 1]
             /\ chainRow' = [chainRow EXCEPT ![h] = o]
             /\ bridge' = [bridge EXCEPT ![o] = SettledRow(r)]
             /\ watch' = watch \cup {<<o, h>>}
             /\ Rest(r, "answered")
     /\ UNCHANGED <<dep, wallet, credited, chainVars, batchVars, boundVars>>

BridgeMarkFailed(r) ==
  /\ pc[r] = "markFailed" /\ r \in Req
  /\ bridge' = [bridge EXCEPT ![cur[r]].status = "FAILED"]
  /\ Rest(r, "threw")
  /\ UNCHANGED <<balance, dep, wallet, chainRow, settled, credited, chainVars,
                 watch, batchVars, boundVars>>

\* the watcher saw the transaction within its twelve tries, or gave up
WatcherConfirms(o, h) ==
  /\ <<o, h>> \in watch /\ Known(h)
  /\ watch' = watch \ {<<o, h>>}
  /\ bridge' = [bridge EXCEPT ![o] =
                   [status |-> "CONFIRMED", hash |-> bridge[o].hash, done |-> TRUE]]
  /\ UNCHANGED <<balance, dep, wallet, chainRow, settled, credited, chainVars,
                 procVars, batchVars, boundVars>>

WatcherGivesUp(o, h) ==
  /\ <<o, h>> \in watch
  /\ watch' = watch \ {<<o, h>>}
  /\ UNCHANGED <<balance, rowVars, chainVars, procVars, batchVars, boundVars>>

-----------------------------------------------------------------------------
(* transferBrowserWalletOnChain                                            *)

WalletStart(x) ==
  /\ pc[x] = "idle"
  /\ pc' = [pc EXCEPT ![x] = "send"]
  /\ cur' = [cur EXCEPT ![x] = Wallet]
  /\ UNCHANGED <<tx, seen, sawTx, sawRow, late>>
  /\ UNCHANGED <<balance, rowVars, chainVars, watch, batchVars, boundVars>>

\* createOnChainUsdtWalletTransferRecord inserts the operation and the chain
\* row first, which throws when the webhook was quicker, and then checks the
\* balance; all of it is undone when a step throws
WalletRead(x) ==
  /\ pc[x] = "read" /\ x \in Wal
  /\ IF balance["browser"] < Gross THEN Rest(x, "threw") ELSE Goto(x, "commit")
  /\ UNCHANGED <<balance, rowVars, chainVars, watch, batchVars, boundVars>>

WalletRecord(x) ==
  LET h == tx[x]
  IN /\ pc[x] = "commit" /\ x \in Wal
     /\ IF Collides(x)
        THEN UNCHANGED <<balance, wallet, chainRow, settled>>
        ELSE /\ balance' = [balance EXCEPT !["browser"] = @ - Gross]
             /\ wallet' = wallet \cup {h}
             /\ chainRow' = [chainRow EXCEPT ![h] = Wallet]
             /\ settled' = [settled EXCEPT ![h] = @ + 1]
     /\ Rest(x, IF h \in wallet' THEN "answered" ELSE "threw")
     /\ UNCHANGED <<bridge, dep, credited, chainVars, watch, batchVars,
                    boundVars>>

-----------------------------------------------------------------------------
(* handleUsdtDepositWebhook, told of a transfer's own transaction           *)

\* Only a browser wallet receives on an address the server knows.
Reported(h) == chain[h] # "unsent" /\ payer[h] \in ToBrowser \cup {Wallet}

RowOf(k, h) ==
  IF k = Deposit THEN [status |-> dep[h].status, hash |-> h, done |-> dep[h].done]
  ELSE IF k = Wallet THEN [status |-> "CONFIRMED", hash |-> h, done |-> TRUE]
  ELSE bridge[k]

AlreadyDone(row) == row.status = "CONFIRMED" \/ row.done

WebhookFind(w, h) ==
  /\ pc[w] = "idle" /\ Reported(h)
  /\ IF \E k \in Holders(h) : AlreadyDone(RowOf(k, h))
     THEN Rest(w, "answered")
     ELSE /\ pc' = [pc EXCEPT ![w] = "check"]
          /\ tx' = [tx EXCEPT ![w] = h]
          /\ late' = [late EXCEPT ![w] = InHistory(h)]
          /\ \/ Holders(h) = {} /\ UNCHANGED cur
             \/ \E k \in Holders(h) : cur' = [cur EXCEPT ![w] = k]
          /\ UNCHANGED <<seen, sawTx, sawRow>>
  /\ UNCHANGED <<balance, rowVars, chainVars, watch, batchVars, boundVars>>

\* isConfirmedTx saw the transaction, for the webhook or the reconcile loop
SeesTx(a) ==
  /\ pc[a] = "check" /\ Known(tx[a])
  /\ Goto(a, IF cur[a] = None THEN "createConfirmed" ELSE "finTx")
  /\ UNCHANGED <<balance, rowVars, chainVars, watch, batchVars, boundVars>>

SeesNothing(a) ==
  /\ pc[a] = "check"
  /\ IF a \in Rec THEN Rest(a, "answered")
     ELSE Goto(a, IF cur[a] = None THEN "createPending" ELSE "mark")
  /\ UNCHANGED <<balance, rowVars, chainVars, watch, batchVars, boundVars>>

\* the key is derived from the hash here, so one test covers both unique keys
WebhookCreate(w) ==
  LET h == tx[w]
      new == IF pc[w] = "createConfirmed" THEN "BROADCASTED" ELSE "NEW"
  IN /\ pc[w] \in {"createConfirmed", "createPending"}
     /\ IF Holders(h) = {}
        THEN /\ dep' = [dep EXCEPT ![h].status = new]
             /\ pc' = [pc EXCEPT ![w] = IF new = "NEW" THEN "mark" ELSE "finTx"]
             /\ cur' = [cur EXCEPT ![w] = Deposit]
             /\ UNCHANGED <<tx, seen, sawTx, sawRow, late>>
        ELSE Rest(w, "threw") /\ UNCHANGED dep
     /\ UNCHANGED <<balance, bridge, wallet, chainRow, settled, credited,
                    chainVars, watch, batchVars, boundVars>>

\* markBroadcasted with a payload that had no transaction_id when it was read,
\* on the webhook's own operation or on the bridge's
WebhookMark(w) ==
  LET h == tx[w]
      k == cur[w]
  IN /\ pc[w] = "mark"
     /\ IF ~(Holders(h) \subseteq {k})
        THEN Rest(w, "threw") /\ UNCHANGED <<bridge, dep>>
        ELSE /\ IF k = Deposit
                THEN /\ dep' = [dep EXCEPT ![h] =
                                  [status |-> "BROADCASTED", done |-> FALSE]]
                     /\ UNCHANGED bridge
                ELSE /\ bridge' = [bridge EXCEPT ![k] = MarkedRow(w)]
                     /\ UNCHANGED dep
             /\ Rest(w, "answered")
     /\ UNCHANGED <<balance, wallet, chainRow, settled, credited, chainVars,
                    watch, batchVars, boundVars>>

FinalizeFindTx(a) ==
  /\ pc[a] = "finTx"
  /\ pc' = [pc EXCEPT ![a] = "finRow"]
  /\ sawTx' = [sawTx EXCEPT ![a] = InHistory(tx[a])]
  /\ UNCHANGED <<cur, tx, seen, sawRow, late>>
  /\ UNCHANGED <<balance, rowVars, chainVars, watch, batchVars, boundVars>>

FinalizeFindRow(a) ==
  /\ pc[a] = "finRow"
  /\ pc' = [pc EXCEPT ![a] = "finCommit"]
  /\ sawRow' = [sawRow EXCEPT ![a] = chainRow[tx[a]] = cur[a]]
  /\ UNCHANGED <<cur, tx, seen, sawTx, late>>
  /\ UNCHANGED <<balance, rowVars, chainVars, watch, batchVars, boundVars>>

FinalizeThrows(a) ==
  /\ pc[a] = "finCommit" /\ RowCollides(a)
  /\ IF a \in Call THEN Rest(a, "threw") ELSE Goto(a, "markFailed")
  /\ UNCHANGED <<balance, rowVars, chainVars, watch, batchVars, boundVars>>

\* finalizeDepositOperation credits the receiver unless it saw a history row,
\* whatever kind of operation it was given
CreditedAlways(a) == credited[tx[a]] + 1
Credited(a) == IF sawTx[a] THEN credited[tx[a]] ELSE credited[tx[a]] + 1

FinalizeCommit(a) ==
  LET h == tx[a]
      k == cur[a]
  IN /\ pc[a] = "finCommit" /\ ~RowCollides(a)
     /\ chainRow' = [chainRow EXCEPT ![h] = k]
     /\ credited' = [credited EXCEPT ![h] = Credited(a)]
     /\ IF k = Deposit
        THEN /\ dep' = [dep EXCEPT ![h] =
                          [status |-> "CONFIRMED", done |-> TRUE]]
             /\ UNCHANGED bridge
        ELSE /\ bridge' = [bridge EXCEPT ![k] = [status |-> "CONFIRMED",
                                 hash |-> bridge[k].hash, done |-> TRUE]]
             /\ UNCHANGED dep
     /\ IF a \in Call THEN Rest(a, "answered") ELSE Goto(a, "sweep")
     /\ UNCHANGED <<balance, wallet, settled, chainVars, watch, batchVars,
                    boundVars>>

-----------------------------------------------------------------------------
(* reconcileUsdtOperations, INTERNAL_TRANSFER and DEPOSIT branches          *)

ReconcileStart(c) ==
  /\ pc[c] = "idle" /\ bridges[c] = {} /\ deposits[c] = {}
  /\ bridges' = [bridges EXCEPT ![c] =
       {<<o, bridge[o].done>> : o \in {p \in Op : bridge[p].status \in Picked}}]
  /\ deposits' = [deposits EXCEPT ![c] =
       {h \in Hash : dep[h].status \in Picked}]
  /\ UNCHANGED <<balance, rowVars, chainVars, watch, procVars, boundVars>>

\* an operation that carried a transaction_id when it was read is CONFIRMED
PromotedAlways(done) == TRUE
Promoted(done) == done

ReconcileBridge(c, o, done) ==
  /\ pc[c] = "idle" /\ <<o, done>> \in bridges[c]
  /\ bridges' = [bridges EXCEPT ![c] = @ \ {<<o, done>>}]
  /\ bridge' = IF Promoted(done)
               THEN [bridge EXCEPT ![o].status = "CONFIRMED"] ELSE bridge
  /\ UNCHANGED <<balance, dep, wallet, chainRow, settled, credited, chainVars,
                 watch, procVars, deposits, boundVars>>

ReconcileDeposit(c, h) ==
  /\ pc[c] = "idle" /\ h \in deposits[c]
  /\ deposits' = [deposits EXCEPT ![c] = @ \ {h}]
  /\ pc' = [pc EXCEPT ![c] = "check"]
  /\ cur' = [cur EXCEPT ![c] = Deposit]
  /\ tx' = [tx EXCEPT ![c] = h]
  /\ late' = [late EXCEPT ![c] = InHistory(h)]
  /\ UNCHANGED <<seen, sawTx, sawRow, bridges>>
  /\ UNCHANGED <<balance, rowVars, chainVars, watch, boundVars>>

ReconcileSwept(c) ==
  /\ pc[c] = "sweep"
  /\ Rest(c, "answered")
  /\ UNCHANGED <<balance, rowVars, chainVars, watch, batchVars, boundVars>>

ReconcileMarkFailed(c) ==
  /\ pc[c] = "markFailed" /\ c \in Rec
  /\ dep' = [dep EXCEPT ![tx[c]].status = "FAILED"]
  /\ Rest(c, "answered")
  /\ UNCHANGED <<balance, bridge, wallet, chainRow, settled, credited,
                 chainVars, watch, batchVars, boundVars>>

-----------------------------------------------------------------------------
(* Faults, crashes and the chain                                           *)

InTry == {"send", "mark", "read", "findRow", "commit"}

\* A database or RPC call throws: a bridge request in its try block records the
\* failure, a reconcile run fails the row, everything else leaves the function.
\* ("send" is both: the tariff lookup of a known key precedes the try block.)
Fault(a) ==
  /\ faults < MaxFaults /\ faults' = faults + 1
  /\ \/ /\ \/ a \in Req /\ pc[a] \in InTry
           \/ a \in Rec /\ pc[a] \in Working \ {"markFailed"}
        /\ Goto(a, "markFailed") /\ UNCHANGED batchVars
     \/ /\ \/ a \in Req /\ pc[a] \in {"create", "send", "markFailed"}
           \/ a \in Wal /\ pc[a] \in Working
           \/ a \in Call /\ pc[a] \in Working \ {"check"}
        /\ Rest(a, "threw") /\ UNCHANGED batchVars
     \/ /\ a \in Rec /\ pc[a] = "markFailed"
        /\ Rest(a, "threw")
        /\ bridges' = [bridges EXCEPT ![a] = {}]
        /\ deposits' = [deposits EXCEPT ![a] = {}]
  /\ UNCHANGED <<balance, rowVars, chainVars, watch, crashes>>

\* last_reconciled_at of a bridge's row could not be written: it is FAILED
ReconcileTouchFails(c, o, done) ==
  /\ faults < MaxFaults /\ faults' = faults + 1
  /\ pc[c] = "idle" /\ <<o, done>> \in bridges[c]
  /\ bridges' = [bridges EXCEPT ![c] = @ \ {<<o, done>>}]
  /\ bridge' = [bridge EXCEPT ![o].status = "FAILED"]
  /\ UNCHANGED <<balance, dep, wallet, chainRow, settled, credited, chainVars,
                 watch, procVars, deposits, crashes>>

\* the process dies: the database and the chain remain
Crash ==
  /\ crashes < MaxCrashes /\ crashes' = crashes + 1
  /\ watch' = {}
  /\ pc' = [a \in Actor |-> IF pc[a] \in Working THEN Resting(a, "threw")
                                                 ELSE pc[a]]
  /\ cur' = [a \in Actor |-> None]
  /\ tx' = [a \in Actor |-> None]
  /\ seen' = [a \in Actor |-> NoRow]
  /\ sawTx' = [a \in Actor |-> FALSE]
  /\ sawRow' = [a \in Actor |-> FALSE]
  /\ late' = [a \in Actor |-> FALSE]
  /\ bridges' = [c \in Rec |-> {}]
  /\ deposits' = [c \in Rec |-> {}]
  /\ UNCHANGED <<balance, rowVars, chainVars, faults>>

ChainSettles(h) ==
  /\ chain[h] = "mempool"
  /\ \E s \in {"mined", "expired"} : chain' = [chain EXCEPT ![h] = s]
  /\ UNCHANGED <<balance, rowVars, payer, watch, procVars, batchVars,
                 boundVars>>

-----------------------------------------------------------------------------
BridgeStep(r) ==
  \/ BridgeCreate(r) \/ \E h \in Hash : Send(r, h)
  \/ SendRejected(r) \/ BridgeMark(r) \/ BridgeRead(r) \/ BridgeFindRow(r)
  \/ BridgeSettle(r) \/ BridgeMarkFailed(r)

WalletStep(x) ==
  \/ \E h \in Hash : Send(x, h)
  \/ SendRejected(x) \/ WalletRead(x) \/ WalletRecord(x)

WebhookStep(w) ==
  \/ SeesTx(w) \/ SeesNothing(w) \/ WebhookCreate(w) \/ WebhookMark(w)

FinalizeStep(a) ==
  \/ FinalizeFindTx(a) \/ FinalizeFindRow(a)
  \/ FinalizeThrows(a) \/ FinalizeCommit(a)

ReconcileStep(c) ==
  \/ ReconcileStart(c)
  \/ \E o \in Op, done \in BOOLEAN : ReconcileBridge(c, o, done)
  \/ \E h \in Hash : ReconcileDeposit(c, h)
  \/ SeesTx(c) \/ SeesNothing(c)
  \/ ReconcileSwept(c) \/ ReconcileMarkFailed(c)

Environment ==
  \/ \E a \in Actor : Fault(a) \/ \E h \in Hash : SendLost(a, h)
  \/ \E c \in Rec, o \in Op, done \in BOOLEAN : ReconcileTouchFails(c, o, done)
  \/ \E h \in Hash : ChainSettles(h)
  \/ Crash

Next ==
  \/ \E r \in Req : BridgeStep(r) \/ \E o \in Op : BridgeFind(r, o)
  \/ \E o \in Op, h \in Hash : WatcherConfirms(o, h) \/ WatcherGivesUp(o, h)
  \/ \E x \in Wal : WalletStep(x) \/ WalletStart(x)
  \/ \E w \in Call : WebhookStep(w) \/ \E h \in Hash : WebhookFind(w, h)
  \/ \E a \in Call \cup Rec : FinalizeStep(a)
  \/ \E c \in Rec : ReconcileStep(c)
  \/ Environment

Spec == Init /\ [][Next]_vars

-----------------------------------------------------------------------------
(* Safety                                                                  *)

\* Every variable has its type.
TypeOK ==
  /\ balance \in [{"bank", "browser"} -> Int]
  /\ bridge \in [Op -> Row]
  /\ dep \in [Hash -> [status : Status, done : BOOLEAN]]
  /\ wallet \subseteq Hash
  /\ chainRow \in [Hash -> Owner \cup {None}]
  /\ settled \in [Hash -> Nat] /\ credited \in [Hash -> Nat]
  /\ chain \in [Hash -> {"unsent", "mempool", "mined", "expired"}]
  /\ payer \in [Hash -> Op \cup {Wallet, None}]
  /\ watch \subseteq Op \X Hash
  /\ pc \in [Actor -> Pc]
  /\ cur \in [Actor -> Owner \cup {None}]
  /\ tx \in [Actor -> Hash \cup {None}]
  /\ seen \in [Actor -> Row]
  /\ sawTx \in [Actor -> BOOLEAN] /\ sawRow \in [Actor -> BOOLEAN]
  /\ late \in [Actor -> BOOLEAN]
  /\ bridges \in [Rec -> SUBSET (Op \X BOOLEAN)]
  /\ deposits \in [Rec -> SUBSET Hash]
  /\ faults \in 0 .. MaxFaults /\ crashes \in 0 .. MaxCrashes

\* A bridge operation that is CONFIRMED or carries a transaction_id, and so is
\* answered with OK from then on, has credited its receiver under a chain row of
\* its own: stale payloads and the reconcile loop promote nothing else.
DoneIsAccounted ==
  \A o \in Op : (bridge[o].status = "CONFIRMED" \/ bridge[o].done) =>
    \E h \in Hash : chainRow[h] = o /\ InHistory(h)

\* The unique indexes confine double credits: a transaction that is credited
\* both by its transfer and as a deposit is one the webhook found under the
\* bridge's own operation.  A DEPOSIT operation beside a transfer, and a transfer
\* between browser wallets, never add up.
TwiceOnlyUnderBridge ==
  \A h \in Hash : settled[h] > 0 /\ credited[h] > 0 => chainRow[h] \in Op

\* Both together: the program's records keep their form, and count one
\* transaction of the chain once.
ReportsAreBounded == TypeOK /\ TwiceOnlyUnderBridge

\* A delivery or reconcile run that begins after the transfer was recorded
\* credits nothing, even when a slow delivery has wiped the transaction_id.
ByEarlyActor ==
  \A h \in Hash : credited'[h] > credited[h] =>
    \E a \in Actor : /\ tx[a] = h /\ ~late[a]
                     /\ pc[a] = "finCommit" /\ pc'[a] # "finCommit"
LateNeverCredits == [][ByEarlyActor]_vars

-----------------------------------------------------------------------------
(* Liveness.  One event loop schedules everything, and the timer, or the    *)
(* administrators, restart the reconcile loop for ever.                     *)

Fairness ==
  /\ \A r \in Req : WF_vars(BridgeStep(r))
  /\ \A c \in Rec : WF_vars(ReconcileStep(c) \/ FinalizeStep(c))

FairSpec == Spec /\ Fairness

\* A recorded transfer is CONFIRMED for good in the end, although its watcher may
\* give up or die with the process, unless a retry of its key has sent again.
SettledIsConfirmed ==
  \A o \in Op :
    bridge[o].done ~> \/ [](bridge[o].status = "CONFIRMED")
                      \/ \E g, h \in Hash : g # h /\ payer[g] = o /\ payer[h] = o
=============================================================================
