---------------------------- MODULE UsdtInternal ----------------------------
(*****************************************************************************)
(* USDT transfers between two customers of the bank: processInternalTransfer *)
(* and the INTERNAL_TRANSFER branch of reconcileUsdtOperations.  Nothing     *)
(* goes to the chain; one database transaction debits the sender, credits    *)
(* the receiver and confirms the operation.                                  *)
(*                                                                           *)
(* The statements of that transaction are steps.  PostgreSQL runs it READ    *)
(* COMMITTED: a read sees the last commit, a write takes the row's lock (or  *)
(* waits for whoever holds it) until the end, and a cycle of waiters is      *)
(* broken by aborting one of them.  Balances change by increments, so the    *)
(* writes are applied at the commit, under the locks.                        *)
(*****************************************************************************)
EXTENDS Integers, FiniteSetsExt

CONSTANTS
  Cust,       \* customers
  Key,        \* idempotency keys, one per transfer a client asks for
  Sender, Receiver,  \* [Key -> Cust]
  Req,        \* HTTP requests
  Mobile,     \* those coalesced by key: POST /payments/transfer where one
              \* controller serves them all, none where each has its own
  Rec,        \* reconcile runs that may be active together
  Holding,    \* customers that have a balance row at the start
  None,       \* no transaction holds the lock
  Gross,      \* the amount transferred
  Fee,        \* the tariff fee charged on top of it
  Opening,    \* balance of those in Holding
  MaxFaults,  \* bound: database calls that fail
  MaxCrashes  \* bound: restarts of the server

ASSUME AmountsAssumption ==
  Gross \in Nat \ {0} /\ Fee \in Nat /\ Opening \in Nat
ASSUME TransfersAssumption ==
  /\ Sender \in [Key -> Cust] /\ Receiver \in [Key -> Cust]
  /\ Holding \subseteq Cust /\ IsFiniteSet(Key)
ASSUME ActorsAssumption ==
  /\ Mobile \subseteq Req /\ Req \cap Rec = {} /\ None \notin Req \cup Key
  /\ Cust \cap Key = {}
ASSUME BoundsAssumption == MaxFaults \in Nat /\ MaxCrashes \in Nat

VARIABLES
  balance,   \* user_asset_balances
  holding,   \* customers that have a row there
  op,        \* payment_operations
  paid,      \* per key: transactions rows, i.e. transfers committed
  lock,      \* who holds the lock of a balance or operation row
  pc, cur,   \* per request: next step, and its key
  overlapped, \* history variable: keys that two requests worked on together
  sawRow,    \* per request: the receiver had a balance row when it was read
  batch,     \* per reconcile run: operations still to visit, as they were read
  faults, crashes

dbVars    == <<balance, holding, op, paid>>
procVars  == <<pc, cur, overlapped, sawRow>>
boundVars == <<faults, crashes>>
vars == <<dbVars, lock, procVars, batch, boundVars>>

-----------------------------------------------------------------------------
TotalDebit == Gross + Fee

Status == {"ABSENT", "NEW", "CONFIRMED", "FAILED"}
\* done: the payload carries transaction_id
Row == [status : Status, done : BOOLEAN]
NoRow == [status |-> "ABSENT", done |-> FALSE]

PickedWithoutFailed == {"NEW"}
Picked == {"NEW", "FAILED"}

\* the steps of the database transaction, and those around it
InTransaction == {"debitRead", "debit", "creditRead", "credit", "confirm",
                  "commit"}
Working == InTransaction \cup {"create", "markFailed"}
Pc == Working \cup {"idle", "answered", "threw"}

Init ==
  /\ balance = [c \in Cust |-> IF c \in Holding THEN Opening ELSE 0]
  /\ holding = Holding
  /\ op = [k \in Key |-> NoRow]
  /\ paid = [k \in Key |-> 0]
  /\ lock = [x \in Cust \cup Key |-> None]
  /\ pc = [r \in Req |-> "idle"]
  /\ cur = [r \in Req |-> None]
  /\ overlapped = {}
  /\ sawRow = [r \in Req |-> FALSE]
  /\ batch = [c \in Rec |-> {}]
  /\ faults = 0
  /\ crashes = 0

-----------------------------------------------------------------------------
(* Locks                                                                   *)

Free(x, r) == lock[x] \in {None, r}
Take(x, r) == Free(x, r) /\ lock' = [lock EXCEPT ![x] = r]

\* the end of a transaction, by commit or rollback
Released(r) == [x \in Cust \cup Key |-> IF lock[x] = r THEN None ELSE lock[x]]

\* the row a request's next step has to write
Wanted(r) ==
  CASE pc[r] = "debit" -> {Sender[cur[r]]}
    [] pc[r] = "credit" -> {Receiver[cur[r]]}
    [] pc[r] \in {"confirm", "markFailed"} -> {cur[r]}
    [] OTHER -> {}

WaitsFor(r) == {lock[x] : x \in {y \in Wanted(r) : ~Free(y, r)}}

\* a set of requests that all wait, for one another
Detected(r) ==
  \E S \in SUBSET Req :
    r \in S /\ \A s \in S : WaitsFor(s) # {} /\ WaitsFor(s) \subseteq S

-----------------------------------------------------------------------------
(* processInternalTransfer                                                 *)

Goto(r, l) == pc' = [pc EXCEPT ![r] = l]

Finish(r, end) ==
  /\ Goto(r, end)
  /\ cur' = [cur EXCEPT ![r] = None]
  /\ sawRow' = [sawRow EXCEPT ![r] = FALSE]

\* a throw inside the try block rolls the transaction back
RollbackHolding(r) ==
  /\ Goto(r, "markFailed")
  /\ lock' = [Released(r) EXCEPT ![Sender[cur[r]]] = lock[Sender[cur[r]]]]
  /\ UNCHANGED <<dbVars, cur, overlapped, sawRow>>
Rollback(r) ==
  /\ Goto(r, "markFailed") /\ lock' = Released(r)
  /\ UNCHANGED <<dbVars, cur, overlapped, sawRow>>

\* inFlightTransfers: a mobile request joins the one under way for its key
InFlightNever(k) == FALSE
InFlight(k) == \E m \in Mobile : cur[m] = k

AnsweredNever(row) == FALSE
Answered(row) == row.status = "CONFIRMED" /\ row.done

TransferFind(r, k) ==
  /\ pc[r] = "idle" /\ ~(r \in Mobile /\ InFlight(k))
  /\ IF Answered(op[k])
     THEN Finish(r, "answered") /\ UNCHANGED overlapped
     ELSE /\ Goto(r, IF op[k].status = "ABSENT" THEN "create" ELSE "debitRead")
          /\ cur' = [cur EXCEPT ![r] = k]
          /\ overlapped' = overlapped \cup {l \in {k} : \E s \in Req : cur[s] = l}
          /\ UNCHANGED sawRow
  /\ UNCHANGED <<dbVars, lock, batch, boundVars>>

\* idempotency_key is unique: a second insert throws, outside the try block
TransferCreate(r) ==
  /\ pc[r] = "create"
  /\ IF op[cur[r]].status = "ABSENT"
     THEN /\ op' = [op EXCEPT ![cur[r]].status = "NEW"]
          /\ Goto(r, "debitRead") /\ UNCHANGED <<cur, sawRow>>
     ELSE Finish(r, "threw") /\ UNCHANGED op
  /\ UNCHANGED <<balance, holding, paid, lock, overlapped, batch, boundVars>>

\* applyLedgerDelta of the sender: reads without a lock, then decrements
DebitRead(r) ==
  /\ pc[r] = "debitRead"
  /\ IF balance[Sender[cur[r]]] < TotalDebit
     THEN Rollback(r)
     ELSE Goto(r, "debit") /\ UNCHANGED <<dbVars, lock, cur, overlapped, sawRow>>
  /\ UNCHANGED <<batch, boundVars>>

Debit(r) ==
  /\ pc[r] = "debit" /\ Take(Sender[cur[r]], r)
  /\ Goto(r, "creditRead")
  /\ UNCHANGED <<dbVars, cur, overlapped, sawRow, batch, boundVars>>

\* applyLedgerDelta of the receiver: increments the row, or creates it when
\* there was none
CreditRead(r) ==
  /\ pc[r] = "creditRead"
  /\ sawRow' = [sawRow EXCEPT ![r] = Receiver[cur[r]] \in holding]
  /\ Goto(r, "credit")
  /\ UNCHANGED <<dbVars, lock, cur, overlapped, batch, boundVars>>

\* (customer_id, asset) is unique: the insert throws when a row has appeared
DuplicateNever(r) == FALSE
Duplicate(r) == ~sawRow[r] /\ Receiver[cur[r]] \in holding

Credit(r) ==
  /\ pc[r] = "credit" /\ Free(Receiver[cur[r]], r)
  /\ IF Duplicate(r)
     THEN Rollback(r)
     ELSE /\ Take(Receiver[cur[r]], r) /\ Goto(r, "confirm")
          /\ UNCHANGED <<dbVars, cur, overlapped, sawRow>>
  /\ UNCHANGED <<batch, boundVars>>

\* the operation's own row, CONFIRMED and with a transaction_id
Confirm(r) ==
  /\ pc[r] = "confirm" /\ Take(cur[r], r)
  /\ Goto(r, "commit")
  /\ UNCHANGED <<dbVars, cur, overlapped, sawRow, batch, boundVars>>

\* The writes of the transaction.  A created row holds what the read implied.
After(r) ==
  LET k == cur[r]
      debited == [balance EXCEPT ![Sender[k]] = @ - TotalDebit]
  IN [debited EXCEPT ![Receiver[k]] = IF sawRow[r] THEN @ + Gross ELSE Gross]

PaidRow(k) == [status |-> "CONFIRMED", done |-> TRUE]

Apply(r) ==
  /\ balance' = After(r)
  /\ holding' = holding \cup {Receiver[cur[r]]}
  /\ op' = [op EXCEPT ![cur[r]] = PaidRow(cur[r])]
  /\ paid' = [paid EXCEPT ![cur[r]] = @ + 1]
  /\ lock' = Released(r)

Commit(r) ==
  /\ pc[r] = "commit"
  /\ Apply(r) /\ Finish(r, "answered")
  /\ UNCHANGED <<overlapped, batch, boundVars>>

\* markFailed, whatever the operation has become in the meantime
MarkFailed(r) ==
  /\ pc[r] = "markFailed" /\ Free(cur[r], r)
  /\ op' = [op EXCEPT ![cur[r]].status = "FAILED"]
  /\ Finish(r, "threw")
  /\ UNCHANGED <<balance, holding, paid, lock, overlapped, batch, boundVars>>

-----------------------------------------------------------------------------
(* reconcileUsdtOperations, INTERNAL_TRANSFER branch                        *)

ReconcileStart(c) ==
  /\ batch[c] = {}
  /\ batch' = [batch EXCEPT ![c] =
       {<<k, op[k].done>> : k \in {l \in Key : op[l].status \in Picked}}]
  /\ UNCHANGED <<dbVars, lock, procVars, boundVars>>

\* an operation that carried a transaction_id when it was read is CONFIRMED
PromotedAlways(done) == TRUE
Promoted(done) == done

Visit(c, k, done) ==
  /\ <<k, done>> \in batch[c] /\ lock[k] = None
  /\ batch' = [batch EXCEPT ![c] = @ \ {<<k, done>>}]
  /\ UNCHANGED <<balance, holding, paid, lock, procVars, crashes>>

ReconcileTransfer(c, k, done) ==
  /\ Visit(c, k, done)
  /\ op' = IF Promoted(done) THEN [op EXCEPT ![k].status = "CONFIRMED"] ELSE op
  /\ UNCHANGED faults

-----------------------------------------------------------------------------
(* Faults, deadlocks and crashes                                           *)

\* last_reconciled_at could not be written: the operation is set FAILED
ReconcileTouchFails(c, k, done) ==
  /\ faults < MaxFaults /\ faults' = faults + 1
  /\ Visit(c, k, done)
  /\ op' = [op EXCEPT ![k].status = "FAILED"]

\* a database call throws, or the transaction exceeds its time limit
Fault(r) ==
  /\ faults < MaxFaults /\ faults' = faults + 1
  /\ \/ pc[r] \in InTransaction /\ Rollback(r)
     \/ /\ pc[r] \in {"create", "markFailed"}
        /\ Finish(r, "threw") /\ UNCHANGED <<dbVars, lock, overlapped>>
  /\ UNCHANGED <<batch, crashes>>

\* the transaction commits but its answer is lost
CommitUnseen(r) ==
  /\ faults < MaxFaults /\ faults' = faults + 1
  /\ pc[r] = "commit"
  /\ Apply(r) /\ Goto(r, "markFailed")
  /\ UNCHANGED <<cur, overlapped, sawRow, batch, crashes>>

DeadlockVictim(r) ==
  /\ pc[r] \in InTransaction /\ Detected(r)
  /\ Rollback(r)
  /\ UNCHANGED <<batch, boundVars>>

\* the process dies: open transactions roll back, the database remains
Crash ==
  /\ crashes < MaxCrashes /\ crashes' = crashes + 1
  /\ pc' = [r \in Req |-> IF pc[r] \in Working THEN "threw" ELSE pc[r]]
  /\ cur' = [r \in Req |-> None]
  /\ sawRow' = [r \in Req |-> FALSE]
  /\ lock' = [x \in Cust \cup Key |-> None]
  /\ batch' = [c \in Rec |-> {}]
  /\ UNCHANGED <<dbVars, overlapped, faults>>

-----------------------------------------------------------------------------
TransferStep(r) ==
  \/ TransferCreate(r) \/ DebitRead(r) \/ Debit(r) \/ CreditRead(r)
  \/ Credit(r) \/ Confirm(r) \/ Commit(r) \/ MarkFailed(r)

ReconcileStep(c) ==
  \/ ReconcileStart(c)
  \/ \E k \in Key, done \in BOOLEAN : ReconcileTransfer(c, k, done)

Environment ==
  \/ \E r \in Req : Fault(r) \/ CommitUnseen(r)
  \/ \E c \in Rec, k \in Key, done \in BOOLEAN : ReconcileTouchFails(c, k, done)
  \/ Crash

Next ==
  \/ \E r \in Req : \/ TransferStep(r) \/ DeadlockVictim(r)
                    \/ \E k \in Key : TransferFind(r, k)
  \/ \E c \in Rec : ReconcileStep(c)
  \/ Environment

Spec == Init /\ [][Next]_vars

-----------------------------------------------------------------------------
(* Safety                                                                  *)

\* Every variable has its type.
TypeOK ==
  /\ balance \in [Cust -> Int]
  /\ holding \subseteq Cust
  /\ op \in [Key -> Row]
  /\ paid \in [Key -> Nat]
  /\ lock \in [Cust \cup Key -> Req \cup {None}]
  /\ pc \in [Req -> Pc]
  /\ cur \in [Req -> Key \cup {None}]
  /\ sawRow \in [Req -> BOOLEAN] /\ overlapped \subseteq Key
  /\ batch \in [Rec -> SUBSET (Key \X BOOLEAN)]
  /\ faults \in 0 .. MaxFaults /\ crashes \in 0 .. MaxCrashes

\* What c has spent on transfers, with their fees, and received from them.
Spent(c) == TotalDebit * SumFunctionOnSet(paid, {k \in Key : Sender[k] = c})
Received(c) == Gross * SumFunctionOnSet(paid, {k \in Key : Receiver[k] = c})

\* No update is lost: however transfers interleave, a customer has what was there
\* at the start and what the recorded transfers brought and took, a balance row
\* created in the middle of it included.
BalancesAddUp ==
  \A c \in Cust :
    balance[c] = (IF c \in Holding THEN Opening ELSE 0) + Received(c) - Spent(c)

\* An operation that is CONFIRMED or carries a transaction_id has moved the money:
\* the reconcile loop and retries promote nothing else.
DoneIsPaid ==
  \A k \in Key : (op[k].status = "CONFIRMED" \/ op[k].done) => paid[k] > 0

\* All of it: balances are what was paid, and every transfer that is called paid
\* is one of those.
TransfersAddUp == TypeOK /\ BalancesAddUp /\ DoneIsPaid

\* A key pays a second time only after a call failed (a commit whose answer was
\* lost, a reconcile run that failed the operation) or where two requests worked
\* on it together: a retry after the answer, a restart or a rollback pays nothing.
PaysOnceInTurn ==
  \A k \in Key \ overlapped : paid[k] <= 1 + faults

-----------------------------------------------------------------------------
(* Liveness.  One event loop schedules the requests and the reconcile loop,  *)
(* which something restarts for ever; PostgreSQL looks for deadlocks.        *)

Fairness ==
  /\ \A r \in Req : WF_vars(TransferStep(r)) /\ WF_vars(DeadlockVictim(r))
  /\ \A c \in Rec : WF_vars(ReconcileStep(c))

FairSpec == Spec /\ Fairness

\* Transfers in opposite directions lock the two balances in opposite orders; a
\* request that has begun ends all the same.
TransfersEnd ==
  \A r \in Req : pc[r] \in Working ~> pc[r] \in {"answered", "threw"}

\* A transfer that moved the money is CONFIRMED for good in the end, although a
\* lost answer or a racing retry sets it FAILED.
PaidIsConfirmed ==
  \A k \in Key : paid[k] > 0 ~> [](op[k].status = "CONFIRMED")
=============================================================================
