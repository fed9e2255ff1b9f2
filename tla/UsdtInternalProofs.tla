------------------------- MODULE UsdtInternalProofs -------------------------
(****************************************************************************)
(* Internal transfers pay once per key unless a call failed or two requests *)
(* worked on the key together, and nothing is called paid that was not: for *)
(* any customers, keys, requests and reconcile runs, any amounts and any    *)
(* number of failures and restarts.  And balances are what was paid, rows   *)
(* that two transfers create at once included.                              *)
(****************************************************************************)
EXTENDS UsdtInternal, Sums, TLAPS

\* What the argument needs of the types.
Typed ==
  /\ op \in [Key -> Row] /\ paid \in [Key -> Nat] /\ faults \in Nat
  /\ pc \in [Req -> Pc] /\ cur \in [Req -> Key \cup {None}]
  /\ batch \in [Rec -> SUBSET (Key \X BOOLEAN)]

\* A request at work has a key.
HasKey == \A r \in Req : pc[r] \in Working => cur[r] \in Key

\* Outside overlapped a key is worked on by one request, which has found it
\* unpaid but for failures; and so has everyone it was not answered to.
OneAtATime(k) ==
  /\ \A r, s \in Req : cur[r] = k /\ cur[s] = k => r = s
  /\ \A r \in Req : cur[r] = k => paid[k] <= faults
  /\ Answered(op[k]) \/ paid[k] <= faults
  /\ paid[k] <= 1 + faults

InTurn == \A k \in Key \ overlapped : OneAtATime(k)

\* What says it is done has been paid, a row as a run read it included.
SaidIsPaid ==
  /\ \A k \in Key : (op[k].status = "CONFIRMED" \/ op[k].done) => paid[k] > 0
  /\ \A c \in Rec, k \in Key : <<k, TRUE>> \in batch[c] => paid[k] > 0

Inv == Typed /\ HasKey /\ InTurn /\ SaidIsPaid

LEMMA InitInv == Init => Inv
BY ActorsAssumption
   DEF Init, Inv, Typed, HasKey, InTurn, OneAtATime, SaidIsPaid, Answered, NoRow,
   Row, Status, Pc, Working, InTransaction

-----------------------------------------------------------------------------
(* The transaction's steps before its commit change only a request's place,  *)
(* and drop its key where it ends.                                           *)

LEMMA MovesKeep ==
  ASSUME Inv, NEW r \in Req, UNCHANGED <<op, paid, overlapped>>,
         faults' \in Nat /\ faults <= faults',
         batch' = batch,
         pc' \in [Req -> Pc] /\ cur' \in [Req -> Key \cup {None}],
         \A s \in Req \ {r} : pc'[s] = pc[s] /\ cur'[s] = cur[s],
         \/ cur'[r] = cur[r] /\ pc[r] \in Working
         \/ cur'[r] = None /\ pc'[r] \notin Working
  PROVE  Inv'
<1> USE DEF Inv
<1>1. Typed'
  BY DEF Typed
<1>2. HasKey'
  BY DEF HasKey, Typed
<1>3. \A k \in Key : \A s \in Req : cur'[s] = k => cur[s] = k
  BY ActorsAssumption
<1>4. InTurn'
  BY <1>3 DEF InTurn, OneAtATime, Answered, Typed
<1>5. SaidIsPaid'
  BY DEF SaidIsPaid
<1> QED
  BY <1>1, <1>2, <1>4, <1>5

LEMMA EndsMove ==
  ASSUME Inv, NEW r \in Req, NEW end \in {"answered", "threw"}, Finish(r, end)
  PROVE  /\ pc' \in [Req -> Pc] /\ cur' \in [Req -> Key \cup {None}]
         /\ \A s \in Req \ {r} : pc'[s] = pc[s] /\ cur'[s] = cur[s]
         /\ cur'[r] = None /\ pc'[r] = end /\ pc'[r] \notin Working
BY DEF Finish, Goto, Inv, Typed, Pc, Working, InTransaction

LEMMA PlacesMove ==
  ASSUME Inv, NEW r \in Req, NEW l \in Working, Goto(r, l), UNCHANGED cur
  PROVE  /\ pc' \in [Req -> Pc] /\ cur' \in [Req -> Key \cup {None}]
         /\ \A s \in Req \ {r} : pc'[s] = pc[s] /\ cur'[s] = cur[s]
         /\ cur'[r] = cur[r] /\ pc'[r] = l
BY DEF Goto, Inv, Typed, Pc

LEMMA StatementsKeep ==
  ASSUME Inv, NEW r \in Req,
         \/ DebitRead(r) \/ Debit(r) \/ CreditRead(r) \/ Credit(r) \/ Confirm(r)
         \/ DeadlockVictim(r)
  PROVE  Inv'
<1>1. PICK l \in Working : Goto(r, l)
  BY DEF DebitRead, Debit, CreditRead, Credit, Confirm, DeadlockVictim, Rollback,
     Working, InTransaction
<1>2. /\ pc[r] \in Working
      /\ UNCHANGED <<op, paid, cur, overlapped, batch, faults>>
  BY DEF DebitRead, Debit, CreditRead, Credit, Confirm, DeadlockVictim, Rollback,
     Working, InTransaction, dbVars, boundVars
<1> QED
  BY <1>1, <1>2, PlacesMove, MovesKeep DEF Inv, Typed

LEMMA FaultKeeps ==
  ASSUME Inv, NEW r \in Req, Fault(r)
  PROVE  Inv'
<1>1. /\ UNCHANGED <<op, paid, overlapped, batch>>
      /\ faults' \in Nat /\ faults <= faults' /\ pc[r] \in Working
  BY DEF Fault, Rollback, dbVars, Inv, Typed, Working, InTransaction
<1>2. CASE Rollback(r)
  BY <1>1, <1>2, PlacesMove, MovesKeep DEF Rollback, Working
<1>3. CASE Finish(r, "threw")
  BY <1>1, <1>3, EndsMove, MovesKeep
<1> QED
  BY <1>2, <1>3 DEF Fault

-----------------------------------------------------------------------------
(* Taking up a key, and the writers of the operation                        *)

LEMMA FindKeeps ==
  ASSUME Inv, NEW r \in Req, NEW k \in Key, TransferFind(r, k)
  PROVE  Inv'
<1> USE DEF Inv
<1>1. UNCHANGED <<op, paid, batch, faults>>
  BY DEF TransferFind, dbVars, boundVars
<1>2. CASE Answered(op[k])
  BY <1>1, <1>2, EndsMove, MovesKeep DEF TransferFind, Typed
<1>3. CASE ~Answered(op[k])
  <2>1. PICK l \in Working : Goto(r, l)
    BY <1>3 DEF TransferFind, Working, InTransaction
  <2>2. /\ cur' = [cur EXCEPT ![r] = k]
        /\ overlapped' = overlapped \cup {j \in {k} : \E s \in Req : cur[s] = j}
    BY <1>3 DEF TransferFind
  <2>3. Typed'
    BY <1>1, <2>1, <2>2 DEF Typed, Goto, Pc
  <2>4. HasKey'
    BY <2>1, <2>2 DEF HasKey, Typed, Goto
  <2>5. ASSUME NEW j \in Key \ overlapped' PROVE OneAtATime(j)'
    <3>1. OneAtATime(j) /\ j \in Key
      BY <2>2, <2>5 DEF InTurn
    <3>2. j = k => \A s \in Req : cur[s] # j
      BY <2>2, <2>5
    <3> QED
      BY <1>1, <1>3, <2>2, <3>1, <3>2 DEF OneAtATime, Answered, Typed
  <2>6. SaidIsPaid'
    BY <1>1 DEF SaidIsPaid
  <2> QED
    BY <2>3, <2>4, <2>5, <2>6 DEF InTurn
<1> QED
  BY <1>2, <1>3

LEMMA CreateKeeps ==
  ASSUME Inv, NEW r \in Req, TransferCreate(r)
  PROVE  Inv'
<1> USE DEF Inv
<1>1. UNCHANGED <<paid, overlapped, batch, faults>> /\ pc[r] \in Working
  BY DEF TransferCreate, boundVars, Working
<1>2. CASE op[cur[r]].status = "ABSENT"
  <2>1. Goto(r, "debitRead") /\ UNCHANGED cur /\ "debitRead" \in Working
    BY <1>2 DEF TransferCreate, Working, InTransaction
  <2>2. op' = [op EXCEPT ![cur[r]].status = "NEW"] /\ cur[r] \in Key
    BY <1>1, <1>2 DEF TransferCreate, HasKey
  <2>3. /\ op' \in [Key -> Row]
        /\ \A j \in Key : op'[j].done = op[j].done
        /\ \A j \in Key : op'[j].status = "CONFIRMED" => op[j].status = "CONFIRMED"
        /\ \A j \in Key : op[j].status = "CONFIRMED" => op'[j].status = "CONFIRMED"
    BY <1>2, <2>2 DEF Typed, Row, Status
  <2>4. Typed' /\ HasKey'
    BY <1>1, <2>1, <2>3, PlacesMove DEF Typed, HasKey
  <2>5. InTurn'
    BY <1>1, <2>1, <2>3 DEF InTurn, OneAtATime, Answered
  <2>6. SaidIsPaid'
    BY <1>1, <2>3 DEF SaidIsPaid
  <2> QED
    BY <2>4, <2>5, <2>6
<1>3. CASE op[cur[r]].status # "ABSENT"
  BY <1>1, <1>3, EndsMove, MovesKeep DEF TransferCreate, Typed
<1> QED
  BY <1>2, <1>3

\* A request that sets its operation FAILED found it unpaid but for failures.
LEMMA FailKeeps ==
  ASSUME Inv, NEW r \in Req, MarkFailed(r)
  PROVE  Inv'
<1> USE DEF Inv
<1>1. UNCHANGED <<paid, overlapped, batch, faults>> /\ cur[r] \in Key
  BY DEF MarkFailed, boundVars, HasKey, Working
<1>2. /\ op' \in [Key -> Row]
      /\ \A j \in Key \ {cur[r]} : op'[j] = op[j]
      /\ op'[cur[r]].status = "FAILED" /\ op'[cur[r]].done = op[cur[r]].done
  BY <1>1 DEF MarkFailed, Typed, Row, Status
<1>3. /\ pc' \in [Req -> Pc] /\ cur' \in [Req -> Key \cup {None}]
      /\ \A s \in Req \ {r} : pc'[s] = pc[s] /\ cur'[s] = cur[s]
      /\ cur'[r] = None /\ pc'[r] \notin Working
  BY EndsMove DEF MarkFailed
<1>4. Typed' /\ HasKey'
  BY <1>1, <1>2, <1>3 DEF Typed, HasKey
<1>5. InTurn'
  BY <1>1, <1>2, <1>3, ActorsAssumption DEF InTurn, OneAtATime, Answered, Typed
<1>6. SaidIsPaid'
  BY <1>1, <1>2 DEF SaidIsPaid
<1> QED
  BY <1>4, <1>5, <1>6

LEMMA AppliesKey ==
  ASSUME Inv, NEW r \in Req, pc[r] = "commit", Apply(r)
  PROVE  /\ cur[r] \in Key
         /\ op' \in [Key -> Row] /\ paid' \in [Key -> Nat]
         /\ \A j \in Key \ {cur[r]} : op'[j] = op[j] /\ paid'[j] = paid[j]
         /\ op'[cur[r]] = [status |-> "CONFIRMED", done |-> TRUE]
         /\ paid'[cur[r]] = paid[cur[r]] + 1
<1>1. cur[r] \in Key
  BY DEF Inv, HasKey, Working, InTransaction
<1> QED
  BY <1>1 DEF Inv, Typed, Apply, PaidRow, Row, Status

LEMMA CommitKeeps ==
  ASSUME Inv, NEW r \in Req, Commit(r) \/ CommitUnseen(r)
  PROVE  Inv'
<1> USE DEF Inv
<1>1. pc[r] = "commit" /\ UNCHANGED <<overlapped, batch>> /\ Apply(r)
  BY DEF Commit, CommitUnseen, boundVars
<1>2. /\ cur[r] \in Key
      /\ op' \in [Key -> Row] /\ paid' \in [Key -> Nat]
      /\ \A j \in Key \ {cur[r]} : op'[j] = op[j] /\ paid'[j] = paid[j]
      /\ op'[cur[r]] = [status |-> "CONFIRMED", done |-> TRUE]
      /\ paid'[cur[r]] = paid[cur[r]] + 1
  BY <1>1, AppliesKey
<1>3. SaidIsPaid'
  <2>1. paid'[cur[r]] > 0
    BY <1>2 DEF Typed
  <2>2. \A j \in Key : paid[j] > 0 => paid'[j] > 0
    BY <1>2, <2>1
  <2>3. \A j \in Key : op'[j].status = "CONFIRMED" \/ op'[j].done => paid'[j] > 0
    BY <1>2, <2>1 DEF SaidIsPaid
  <2> QED
    BY <1>1, <2>2, <2>3 DEF SaidIsPaid
<1>4. CASE Commit(r)
  <2>1. /\ pc' \in [Req -> Pc] /\ cur' \in [Req -> Key \cup {None}]
        /\ \A s \in Req \ {r} : pc'[s] = pc[s] /\ cur'[s] = cur[s]
        /\ cur'[r] = None /\ pc'[r] \notin Working
    BY <1>4, EndsMove DEF Commit
  <2>2. faults' = faults
    BY <1>4 DEF Commit, boundVars
  <2>3. Typed' /\ HasKey'
    BY <1>1, <1>2, <2>1, <2>2 DEF Typed, HasKey
  <2>4. InTurn'
    BY <1>1, <1>2, <2>1, <2>2, ActorsAssumption
       DEF InTurn, OneAtATime, Answered, Typed
  <2> QED
    BY <1>3, <2>3, <2>4
<1>5. CASE CommitUnseen(r)
  <2>1. /\ pc' \in [Req -> Pc] /\ UNCHANGED cur
        /\ \A s \in Req \ {r} : pc'[s] = pc[s]
        /\ faults' = faults + 1
    BY <1>5 DEF CommitUnseen, Goto, Typed, Pc, Working
  <2>2. Typed' /\ HasKey'
    BY <1>1, <1>2, <2>1 DEF Typed, HasKey
  <2>3. InTurn'
    BY <1>1, <1>2, <2>1 DEF InTurn, OneAtATime, Answered, Typed
  <2> QED
    BY <1>3, <2>2, <2>3
<1> QED
  BY <1>4, <1>5

-----------------------------------------------------------------------------
(* Reconcile runs and restarts                                              *)

LEMMA RunsKeep ==
  ASSUME Inv, NEW c \in Rec, ReconcileStart(c)
  PROVE  Inv'
<1> USE DEF Inv
<1>1. UNCHANGED <<op, paid, pc, cur, overlapped, faults>>
  BY DEF ReconcileStart, dbVars, procVars, boundVars
<1>2. batch' \in [Rec -> SUBSET (Key \X BOOLEAN)]
  BY DEF ReconcileStart, Typed, Row
<1>3. \A k \in Key : <<k, TRUE>> \in batch'[c] => op[k].done
  BY DEF ReconcileStart, Typed
<1>4. \A d \in Rec \ {c} : batch'[d] = batch[d]
  BY DEF ReconcileStart, Typed
<1> QED
  BY <1>1, <1>2, <1>3, <1>4
     DEF Typed, HasKey, InTurn, OneAtATime, Answered, SaidIsPaid

LEMMA VisitsKeep ==
  ASSUME Inv, NEW c \in Rec, NEW k \in Key, NEW done \in BOOLEAN,
         ReconcileTransfer(c, k, done) \/ ReconcileTouchFails(c, k, done)
  PROVE  Inv'
<1> USE DEF Inv
<1>1. UNCHANGED <<paid, pc, cur, overlapped>> /\ <<k, done>> \in batch[c]
  BY DEF ReconcileTransfer, ReconcileTouchFails, Visit, procVars
<1>2. /\ batch' \in [Rec -> SUBSET (Key \X BOOLEAN)]
      /\ \A d \in Rec : batch'[d] \subseteq batch[d]
  BY DEF ReconcileTransfer, ReconcileTouchFails, Visit, Typed
<1>3. CASE ReconcileTransfer(c, k, done)
  <2>1. /\ op' \in [Key -> Row]
        /\ \A j \in Key : op'[j].done = op[j].done
        /\ \A j \in Key : op[j].status = "CONFIRMED" => op'[j].status = "CONFIRMED"
        /\ \A j \in Key : op'[j].status = "CONFIRMED" =>
             op[j].status = "CONFIRMED" \/ (j = k /\ done = TRUE)
    BY <1>3 DEF ReconcileTransfer, Promoted, Typed, Row, Status
  <2>2. faults' = faults
    BY <1>3 DEF ReconcileTransfer
  <2>3. Typed' /\ HasKey'
    BY <1>1, <1>2, <2>1, <2>2 DEF Typed, HasKey
  <2>4. InTurn'
    BY <1>1, <2>1, <2>2 DEF InTurn, OneAtATime, Answered
  <2>5. SaidIsPaid'
    BY <1>1, <1>2, <2>1 DEF SaidIsPaid
  <2> QED
    BY <2>3, <2>4, <2>5
<1>4. CASE ReconcileTouchFails(c, k, done)
  <2>1. /\ op' \in [Key -> Row]
        /\ \A j \in Key : op'[j].done = op[j].done
        /\ \A j \in Key : op'[j].status = "CONFIRMED" => op[j].status = "CONFIRMED"
    BY <1>4 DEF ReconcileTouchFails, Typed, Row, Status
  <2>2. faults' = faults + 1 /\ faults' \in Nat
    BY <1>4 DEF ReconcileTouchFails, Typed
  <2>3. Typed' /\ HasKey'
    BY <1>1, <1>2, <2>1, <2>2 DEF Typed, HasKey
  <2>4. InTurn'
    BY <1>1, <2>2 DEF InTurn, OneAtATime, Typed
  <2>5. SaidIsPaid'
    BY <1>1, <1>2, <2>1 DEF SaidIsPaid
  <2> QED
    BY <2>3, <2>4, <2>5
<1> QED
  BY <1>3, <1>4

LEMMA CrashKeeps ==
  ASSUME Inv, Crash
  PROVE  Inv'
<1> USE DEF Inv
<1>1. UNCHANGED <<op, paid, overlapped, faults>>
  BY DEF Crash, dbVars
<1>2. Typed'
  BY <1>1 DEF Crash, Typed, Pc
<1>3. HasKey'
  BY DEF Crash, HasKey, Typed, Pc, Working, InTransaction
<1>4. InTurn'
  BY <1>1, ActorsAssumption DEF Crash, InTurn, OneAtATime, Answered
<1>5. SaidIsPaid'
  BY <1>1 DEF Crash, SaidIsPaid
<1> QED
  BY <1>2, <1>3, <1>4, <1>5

LEMMA NextInv == Inv /\ [Next]_vars => Inv'
<1> SUFFICES ASSUME Inv, [Next]_vars PROVE Inv'
  OBVIOUS
<1>1. ASSUME NEW r \in Req, TransferStep(r) \/ DeadlockVictim(r)
      PROVE  Inv'
  BY <1>1, CreateKeeps, StatementsKeep, CommitKeeps, FailKeeps DEF TransferStep
<1>2. ASSUME NEW r \in Req, NEW k \in Key, TransferFind(r, k)
      PROVE  Inv'
  BY <1>2, FindKeeps
<1>3. ASSUME NEW c \in Rec, ReconcileStep(c)
      PROVE  Inv'
  BY <1>3, RunsKeep, VisitsKeep DEF ReconcileStep
<1>4. CASE Environment
  BY <1>4, FaultKeeps, CommitKeeps, VisitsKeep, CrashKeeps DEF Environment
<1>5. CASE UNCHANGED vars
  BY <1>5 DEF vars, dbVars, procVars, boundVars, Inv, Typed, HasKey, InTurn,
     OneAtATime, Answered, SaidIsPaid
<1> QED
  BY <1>1, <1>2, <1>3, <1>4, <1>5 DEF Next

-----------------------------------------------------------------------------
\* A retry after the answer, a restart or a rollback pays nothing: a key is paid
\* again only for a failed call or by two requests together
\* (processInternalTransfer).
THEOREM PaysInTurn == Spec => []PaysOnceInTurn
<1>1. Inv => PaysOnceInTurn
  BY DEF Inv, InTurn, OneAtATime, PaysOnceInTurn
<1> QED
  BY InitInv, NextInv, <1>1, PTL DEF Spec

\* Retries and the reconcile loop call nothing paid that was not
\* (processInternalTransfer, the INTERNAL_TRANSFER branch).
THEOREM NothingUnpaidIsDone == Spec => []DoneIsPaid
<1>1. Inv => DoneIsPaid
  BY DEF Inv, SaidIsPaid, DoneIsPaid
<1> QED
  BY InitInv, NextInv, <1>1, PTL DEF Spec

-----------------------------------------------------------------------------
(* Balances.  A transaction that has locked its receiver's row knows whether *)
(* there is one; a customer without a row has nothing.                       *)

HasReceiver == {"confirm", "commit"}
HasDebited == HasReceiver \cup {"debit", "creditRead", "credit"}

KnowsTheRow(r) ==
  pc[r] \in HasReceiver =>
    lock[Receiver[cur[r]]] = r /\ (sawRow[r] \/ Receiver[cur[r]] \notin holding)
SenderHolds(r) == pc[r] \in HasDebited => Sender[cur[r]] \in holding
NoRowNothing == \A c \in Cust \ holding : balance[c] = 0

Booked ==
  /\ \A r \in Req : KnowsTheRow(r) /\ SenderHolds(r)
  /\ NoRowNothing /\ BalancesAddUp

BookInv == Inv /\ TypeOK /\ Booked

LEMMA TimesNext ==
  ASSUME NEW n \in Int, NEW m \in Int
  PROVE  n * (m + 1) = n * m + n /\ n * (m + 0) = n * m + 0
OBVIOUS

LEMMA PaidSum ==
  ASSUME NEW T \in SUBSET Key, paid \in [Key -> Nat]
  PROVE  /\ SumFunctionOnSet(paid, T) \in Int
         /\ \A k \in Key : paid' \in [Key -> Nat] /\ paid' = [paid EXCEPT ![k] = @ + 1]
              => SumFunctionOnSet(paid', T)
                   = SumFunctionOnSet(paid, T) + (IF k \in T THEN 1 ELSE 0)
<1>1. IsFiniteSet(T)
  BY TransfersAssumption, FS_Subset
<1>2. SumFunctionOnSet(paid, T) \in Int
  <2>1. \A x \in T : paid[x] \in Int
    OBVIOUS
  <2> QED
    BY <1>1, <2>1, SumIsInt
<1>3. ASSUME NEW k \in Key, paid' \in [Key -> Nat], paid' = [paid EXCEPT ![k] = @ + 1]
      PROVE  SumFunctionOnSet(paid', T)
               = SumFunctionOnSet(paid, T) + (IF k \in T THEN 1 ELSE 0)
  <2>1. /\ \A x \in T : paid[x] \in Int
        /\ \A x \in T \ {k} : paid'[x] = paid[x]
        /\ k \in T => paid'[k] = paid[k] + 1
    BY <1>3
  <2> QED
    BY <1>1, <2>1, SumChanges
<1> QED
  BY <1>2, <1>3

LEMMA InitBooked == Init => TypeOK /\ Booked
<1> SUFFICES ASSUME Init PROVE TypeOK /\ Booked
  OBVIOUS
<1>1. TypeOK
  BY AmountsAssumption, TransfersAssumption, ActorsAssumption, BoundsAssumption
     DEF Init, TypeOK, NoRow, Row, Status, Pc, Working, InTransaction
<1>2. NoRowNothing /\ \A r \in Req : KnowsTheRow(r) /\ SenderHolds(r)
  BY DEF Init, NoRowNothing, KnowsTheRow, SenderHolds, HasReceiver, HasDebited
<1>3. \A T \in SUBSET Key : SumFunctionOnSet(paid, T) = 0
  <2> TAKE T \in SUBSET Key
  <2>1. IsFiniteSet(T) /\ \A x \in T : paid[x] = 0
    BY TransfersAssumption, FS_Subset DEF Init
  <2> QED
    BY <2>1, SumOfZeros
<1>4. BalancesAddUp
  <2> SUFFICES ASSUME NEW c \in Cust
               PROVE  balance[c] = (IF c \in Holding THEN Opening ELSE 0)
                                     + Received(c) - Spent(c)
    BY DEF BalancesAddUp
  <2>1. Spent(c) = TotalDebit * 0 /\ Received(c) = Gross * 0
    BY <1>3 DEF Spent, Received
  <2>2. Spent(c) = 0 /\ Received(c) = 0
    BY <2>1, AmountsAssumption DEF TotalDebit
  <2> QED
    BY <2>2, AmountsAssumption, TransfersAssumption DEF Init
<1> QED
  BY <1>1, <1>2, <1>4 DEF Booked

\* A step that moves no money leaves the others' locks and what they know alone.
LEMMA NothingBooked ==
  ASSUME BookInv, NEW r \in Req, UNCHANGED <<balance, holding, paid>>,
         \A s \in Req \ {r} : pc'[s] = pc[s] /\ cur'[s] = cur[s]
                              /\ sawRow'[s] = sawRow[s],
         \A s \in Req \ {r} : \A x \in Cust : lock[x] = s => lock'[x] = s,
         KnowsTheRow(r)', SenderHolds(r)'
  PROVE  Booked'
<1> USE DEF BookInv, Booked
<1>1. ASSUME NEW s \in Req \ {r} PROVE KnowsTheRow(s)' /\ SenderHolds(s)'
  <2>1. pc[s] \in HasReceiver => Receiver[cur[s]] \in Cust
    BY TransfersAssumption
       DEF Inv, HasKey, HasReceiver, Working, InTransaction
  <2> QED
    BY <1>1, <2>1 DEF KnowsTheRow, SenderHolds
<1>2. NoRowNothing' /\ BalancesAddUp'
  BY DEF NoRowNothing, BalancesAddUp, Spent, Received
<1> QED
  BY <1>1, <1>2

\* The end of a transaction is that of its own locks.
LEMMA LocksOfOthers ==
  ASSUME TypeOK, NEW r \in Req, lock' = Released(r)
  PROVE  /\ lock' \in [Cust \cup Key -> Req \cup {None}]
         /\ \A s \in Req \ {r} : \A x \in Cust : lock[x] = s => lock'[x] = s
BY DEF TypeOK, Released

LEMMA TakingLocks ==
  ASSUME TypeOK, NEW r \in Req, NEW x \in Cust \cup Key, Take(x, r)
  PROVE  /\ lock' \in [Cust \cup Key -> Req \cup {None}] /\ lock'[x] = r
         /\ \A y \in Cust \cup Key : lock[y] = r => lock'[y] = r
         /\ \A s \in Req \ {r} : \A y \in Cust : lock[y] = s => lock'[y] = s
BY ActorsAssumption DEF TypeOK, Take, Free

LEMMA RollbackBooks ==
  ASSUME BookInv, NEW r \in Req, Rollback(r), batch' = batch,
         crashes' = crashes, faults' \in 0 .. MaxFaults
  PROVE  TypeOK' /\ Booked'
<1> USE DEF BookInv
<1>1. /\ UNCHANGED <<balance, holding, op, paid, cur, overlapped, sawRow>>
      /\ pc' = [pc EXCEPT ![r] = "markFailed"] /\ lock' = Released(r)
  BY DEF Rollback, dbVars, Goto
<1>2. TypeOK'
  BY <1>1, LocksOfOthers DEF TypeOK, Pc, Working
<1>3. pc'[r] = "markFailed" /\ \A s \in Req \ {r} : pc'[s] = pc[s]
  BY <1>1 DEF TypeOK
<1>4. KnowsTheRow(r)' /\ SenderHolds(r)'
  BY <1>3 DEF KnowsTheRow, SenderHolds, HasReceiver, HasDebited
<1> QED
  BY <1>1, <1>2, <1>3, <1>4, LocksOfOthers, NothingBooked

LEMMA FinishBooks ==
  ASSUME BookInv, NEW r \in Req, NEW end \in {"answered", "threw"}, Finish(r, end)
  PROVE  /\ pc' \in [Req -> Pc] /\ cur' \in [Req -> Key \cup {None}]
         /\ sawRow' \in [Req -> BOOLEAN]
         /\ \A s \in Req \ {r} : pc'[s] = pc[s] /\ cur'[s] = cur[s]
                                 /\ sawRow'[s] = sawRow[s]
         /\ KnowsTheRow(r)' /\ SenderHolds(r)'
BY DEF BookInv, TypeOK, Finish, Goto, Pc, Working, InTransaction, KnowsTheRow,
       SenderHolds, HasReceiver, HasDebited

LEMMA StepsBook ==
  ASSUME BookInv, NEW r \in Req,
         \/ TransferCreate(r) \/ MarkFailed(r) \/ DebitRead(r) \/ Debit(r)
         \/ CreditRead(r) \/ Credit(r) \/ Confirm(r) \/ DeadlockVictim(r)
         \/ Fault(r)
  PROVE  TypeOK' /\ Booked'
<1> USE DEF BookInv
<1>1. pc[r] \in Working => /\ cur[r] \in Key
                           /\ Sender[cur[r]] \in Cust /\ Receiver[cur[r]] \in Cust
  BY TransfersAssumption DEF Inv, HasKey
<1>2. CASE TransferCreate(r) \/ MarkFailed(r)
  <2>1. /\ UNCHANGED <<balance, holding, paid, lock, overlapped, batch, boundVars>>
        /\ cur[r] \in Key
    BY <1>1, <1>2 DEF TransferCreate, MarkFailed, Working
  <2>2. op' \in [Key -> Row]
    BY <1>2, <2>1 DEF TransferCreate, MarkFailed, TypeOK, Row, Status
  <2>3. CASE Finish(r, "threw")
    <3>1. TypeOK'
      BY <2>1, <2>2, <2>3, FinishBooks DEF TypeOK, boundVars
    <3> QED
      BY <2>1, <2>3, <3>1, FinishBooks, NothingBooked
  <2>4. CASE Goto(r, "debitRead") /\ UNCHANGED <<cur, sawRow>>
    <3>1. TypeOK'
      BY <2>1, <2>2, <2>4
         DEF TypeOK, boundVars, Goto, Pc, Working, InTransaction
    <3>2. pc'[r] = "debitRead" /\ \A s \in Req \ {r} : pc'[s] = pc[s]
      BY <2>4 DEF Goto, TypeOK
    <3>3. KnowsTheRow(r)' /\ SenderHolds(r)'
      BY <3>2 DEF KnowsTheRow, SenderHolds, HasReceiver, HasDebited
    <3> QED
      BY <2>1, <2>4, <3>1, <3>2, <3>3, NothingBooked
  <2> QED
    BY <1>2, <2>3, <2>4 DEF TransferCreate, MarkFailed
<1>3. ASSUME DebitRead(r) \/ Debit(r) \/ CreditRead(r) \/ Credit(r) \/ Confirm(r),
             ~Rollback(r)
      PROVE  TypeOK' /\ Booked'
  <2>1. /\ UNCHANGED <<balance, holding, op, paid, cur, overlapped, batch, boundVars>>
        /\ pc[r] \in Working /\ sawRow' \in [Req -> BOOLEAN]
        /\ \A s \in Req \ {r} : sawRow'[s] = sawRow[s]
    <3>1. CASE DebitRead(r) \/ Debit(r)
      BY <1>3, <3>1 DEF DebitRead, Debit, dbVars, TypeOK, Working, InTransaction
    <3>2. CASE CreditRead(r)
      BY <3>2 DEF CreditRead, dbVars, TypeOK, Working, InTransaction
    <3>3. CASE Credit(r) \/ Confirm(r)
      BY <1>3, <3>3 DEF Credit, Confirm, dbVars, TypeOK, Working, InTransaction
    <3> QED
      BY <1>3, <3>1, <3>2, <3>3
  <2>2. /\ lock' \in [Cust \cup Key -> Req \cup {None}]
        /\ \A y \in Cust \cup Key : lock[y] = r => lock'[y] = r
        /\ \A s \in Req \ {r} : \A y \in Cust : lock[y] = s => lock'[y] = s
        /\ Credit(r) => lock'[Receiver[cur[r]]] = r
    <3>1. CASE Debit(r)
      BY <1>1, <2>1, <3>1, TakingLocks DEF Debit, Credit
    <3>2. CASE Credit(r)
      BY <1>1, <1>3, <2>1, <3>2, TakingLocks DEF Credit
    <3>3. CASE Confirm(r)
      BY <1>1, <2>1, <3>3, TakingLocks DEF Confirm, Credit
    <3>4. CASE DebitRead(r) \/ CreditRead(r)
      BY <1>3, <3>4 DEF DebitRead, CreditRead, TypeOK, Credit
    <3> QED
      BY <1>3, <3>1, <3>2, <3>3, <3>4
  <2>3. PICK l \in InTransaction : Goto(r, l)
    BY <1>3 DEF DebitRead, Debit, CreditRead, Credit, Confirm, InTransaction
  <2>4. pc'[r] = l /\ \A s \in Req \ {r} : pc'[s] = pc[s]
    BY <2>3 DEF Goto, TypeOK
  <2>5. TypeOK'
    BY <2>1, <2>2, <2>3 DEF TypeOK, boundVars, Goto, Pc, Working
  <2>6. KnowsTheRow(r)'
    <3>1. CASE Credit(r)
      BY <1>3, <2>1, <2>2, <3>1 DEF Credit, Duplicate, KnowsTheRow
    <3>2. CASE Confirm(r)
      <4>1. KnowsTheRow(r) /\ pc[r] = "confirm" /\ sawRow' = sawRow
        BY <3>2 DEF Confirm, Booked
      <4> QED
        BY <1>1, <2>1, <2>2, <4>1 DEF KnowsTheRow, HasReceiver
    <3>3. CASE DebitRead(r) \/ Debit(r) \/ CreditRead(r)
      <4>1. pc'[r] \in {"debit", "creditRead", "credit"}
        BY <1>3, <3>3 DEF DebitRead, Debit, CreditRead, Goto, TypeOK
      <4> QED
        BY <4>1 DEF KnowsTheRow, HasReceiver
    <3> QED
      BY <1>3, <3>1, <3>2, <3>3
  <2>7. SenderHolds(r)'
    <3>1. CASE DebitRead(r)
      <4>1. ~(balance[Sender[cur[r]]] < TotalDebit)
        BY <1>3, <3>1 DEF DebitRead
      <4>2. balance[Sender[cur[r]]] # 0
        BY <1>1, <2>1, <4>1, AmountsAssumption DEF TotalDebit, TypeOK
      <4>3. Sender[cur[r]] \in holding
        BY <1>1, <2>1, <4>2 DEF Booked, NoRowNothing
      <4> QED
        BY <2>1, <4>3 DEF SenderHolds
    <3>2. CASE Debit(r) \/ CreditRead(r) \/ Credit(r) \/ Confirm(r)
      <4>1. pc[r] \in HasDebited
        BY <3>2 DEF Debit, CreditRead, Credit, Confirm, HasDebited, HasReceiver
      <4> QED
        BY <2>1, <4>1 DEF Booked, SenderHolds
    <3> QED
      BY <1>3, <3>1, <3>2
  <2> QED
    BY <2>1, <2>2, <2>4, <2>5, <2>6, <2>7, NothingBooked
<1>4. ASSUME Rollback(r), DebitRead(r) \/ Credit(r) \/ DeadlockVictim(r)
      PROVE  TypeOK' /\ Booked'
  <2>1. UNCHANGED <<batch, boundVars>>
    BY <1>4 DEF DebitRead, Credit, DeadlockVictim
  <2> QED
    BY <1>4, <2>1, RollbackBooks DEF boundVars, TypeOK
<1>5. CASE Fault(r)
  <2>1. faults' \in 0 .. MaxFaults /\ UNCHANGED <<batch, crashes>>
    BY <1>5, BoundsAssumption DEF Fault, TypeOK
  <2>2. CASE Rollback(r)
    BY <2>1, <2>2, RollbackBooks
  <2>3. CASE Finish(r, "threw") /\ UNCHANGED <<dbVars, lock, overlapped>>
    <3>1. TypeOK'
      BY <2>1, <2>3, FinishBooks DEF TypeOK, dbVars
    <3> QED
      BY <2>3, <3>1, FinishBooks, NothingBooked DEF dbVars
  <2> QED
    BY <1>5, <2>2, <2>3 DEF Fault
<1>6. Rollback(r) => ~(Debit(r) \/ CreditRead(r) \/ Confirm(r))
  BY DEF Rollback, Debit, CreditRead, Confirm, Goto, TypeOK
<1> QED
  BY <1>2, <1>3, <1>4, <1>5, <1>6 DEF DeadlockVictim

LEMMA FindBooks ==
  ASSUME BookInv, NEW r \in Req, NEW k \in Key, TransferFind(r, k)
  PROVE  TypeOK' /\ Booked'
<1> USE DEF BookInv
<1>1. UNCHANGED <<balance, holding, op, paid, lock, batch, faults, crashes>>
  BY DEF TransferFind, dbVars, boundVars
<1>2. CASE Answered(op[k])
  <2>1. TypeOK'
    BY <1>1, <1>2, FinishBooks DEF TypeOK, TransferFind
  <2> QED
    BY <1>1, <1>2, <2>1, FinishBooks, NothingBooked DEF TransferFind
<1>3. CASE ~Answered(op[k])
  <2>1. PICK l \in {"create", "debitRead"} : Goto(r, l)
    BY <1>3 DEF TransferFind
  <2>2. /\ cur' = [cur EXCEPT ![r] = k] /\ sawRow' = sawRow
        /\ overlapped' \subseteq Key
    BY <1>3 DEF TransferFind, TypeOK
  <2>3. TypeOK'
    BY <1>1, <2>1, <2>2 DEF TypeOK, Goto, Pc, Working, InTransaction
  <2>4. /\ pc'[r] = l
        /\ \A s \in Req \ {r} : pc'[s] = pc[s] /\ cur'[s] = cur[s]
    BY <2>1, <2>2 DEF Goto, TypeOK
  <2>5. KnowsTheRow(r)' /\ SenderHolds(r)'
    BY <2>4 DEF KnowsTheRow, SenderHolds, HasReceiver, HasDebited
  <2> QED
    BY <1>1, <2>2, <2>3, <2>4, <2>5, NothingBooked
<1> QED
  BY <1>2, <1>3

LEMMA RunsBook ==
  ASSUME BookInv,
         \/ \E c \in Rec : ReconcileStart(c)
         \/ \E c \in Rec, k \in Key, done \in BOOLEAN :
              ReconcileTransfer(c, k, done) \/ ReconcileTouchFails(c, k, done)
  PROVE  TypeOK' /\ Booked'
<1> USE DEF BookInv
<1>1. UNCHANGED <<balance, holding, paid, lock, procVars, crashes>>
  BY DEF ReconcileStart, ReconcileTransfer, ReconcileTouchFails, Visit, dbVars,
     boundVars
<1>2. op' \in [Key -> Row] /\ batch' \in [Rec -> SUBSET (Key \X BOOLEAN)]
  <2>1. CASE \E c \in Rec : ReconcileStart(c)
    BY <2>1 DEF ReconcileStart, TypeOK, Row, dbVars
  <2>2. ASSUME NEW c \in Rec, NEW k \in Key, NEW done \in BOOLEAN,
               ReconcileTransfer(c, k, done) \/ ReconcileTouchFails(c, k, done)
        PROVE  op' \in [Key -> Row] /\ batch' \in [Rec -> SUBSET (Key \X BOOLEAN)]
    <3>1. batch' = [batch EXCEPT ![c] = @ \ {<<k, done>>}]
      BY <2>2 DEF ReconcileTransfer, ReconcileTouchFails, Visit
    <3>2. op' = op \/ \E t \in Status : op' = [op EXCEPT ![k].status = t]
      BY <2>2 DEF ReconcileTransfer, ReconcileTouchFails, Status
    <3> QED
      BY <3>1, <3>2 DEF TypeOK, Row
  <2> QED
    BY <2>1, <2>2
<1>3. faults' \in 0 .. MaxFaults
  BY BoundsAssumption DEF ReconcileStart, ReconcileTransfer, ReconcileTouchFails,
     boundVars, TypeOK
<1>4. TypeOK'
  BY <1>1, <1>2, <1>3 DEF TypeOK, procVars
<1>5. Booked'
  BY <1>1 DEF procVars, Booked, KnowsTheRow, SenderHolds, NoRowNothing,
     BalancesAddUp, Spent, Received
<1> QED
  BY <1>4, <1>5

LEMMA CrashBooks ==
  ASSUME BookInv, Crash
  PROVE  TypeOK' /\ Booked'
<1>1. TypeOK'
  BY BoundsAssumption DEF BookInv, TypeOK, Crash, dbVars, Pc
<1>2. \A r \in Req : pc'[r] \notin Working
  BY DEF BookInv, TypeOK, Crash, Pc, Working, InTransaction
<1>3. \A r \in Req : KnowsTheRow(r)' /\ SenderHolds(r)'
  BY <1>2 DEF KnowsTheRow, SenderHolds, HasReceiver, HasDebited, Working,
     InTransaction
<1>4. NoRowNothing' /\ BalancesAddUp'
  BY DEF BookInv, Booked, Crash, dbVars, NoRowNothing, BalancesAddUp, Spent,
     Received
<1> QED
  BY <1>1, <1>3, <1>4 DEF Booked

LEMMA CommitBooks ==
  ASSUME BookInv, NEW r \in Req, Commit(r) \/ CommitUnseen(r)
  PROVE  TypeOK' /\ Booked'
<1> USE DEF BookInv
<1> DEFINE k == cur[r]
<1>1. /\ pc[r] = "commit" /\ Apply(r) /\ k \in Key
      /\ Sender[k] \in Cust /\ Receiver[k] \in Cust
      /\ UNCHANGED <<overlapped, batch, crashes>> /\ faults' \in 0 .. MaxFaults
  BY TransfersAssumption, BoundsAssumption
     DEF Commit, CommitUnseen, Inv, HasKey, Working, InTransaction, boundVars,
     TypeOK
<1>2. /\ op' \in [Key -> Row] /\ paid' \in [Key -> Nat]
      /\ paid' = [paid EXCEPT ![k] = @ + 1]
      /\ holding' = holding \cup {Receiver[k]}
      /\ balance' = After(r) /\ lock' = Released(r)
  BY <1>1, AppliesKey DEF Apply
<1> HIDE DEF k
<1>3. /\ pc' \in [Req -> Pc] /\ cur' \in [Req -> Key \cup {None}]
      /\ sawRow' \in [Req -> BOOLEAN]
      /\ \A s \in Req \ {r} : pc'[s] = pc[s] /\ cur'[s] = cur[s]
                              /\ sawRow'[s] = sawRow[s]
      /\ KnowsTheRow(r)' /\ SenderHolds(r)'
  <2>1. CASE Commit(r)
    BY <2>1, FinishBooks DEF Commit
  <2>2. CASE CommitUnseen(r)
    BY <2>2 DEF CommitUnseen, Goto, TypeOK, Pc, Working, KnowsTheRow, SenderHolds,
       HasReceiver, HasDebited, InTransaction
  <2> QED
    BY <2>1, <2>2
<1>4. lock[Receiver[k]] = r /\ (sawRow[r] \/ Receiver[k] \notin holding)
      /\ Sender[k] \in holding
  BY <1>1 DEF k, Booked, KnowsTheRow, SenderHolds, HasReceiver, HasDebited
<1>5. /\ balance' \in [Cust -> Int]
      /\ \A c \in Cust : balance'[c] = balance[c]
           + (IF Receiver[k] = c THEN Gross ELSE 0)
           - (IF Sender[k] = c THEN TotalDebit ELSE 0)
  <2>1. ~sawRow[r] => balance[Receiver[k]] = 0 /\ Receiver[k] # Sender[k]
    BY <1>1, <1>4 DEF Booked, NoRowNothing
  <2> DEFINE paidOut == [balance EXCEPT ![Sender[k]] = @ - TotalDebit]
  <2>2. balance' = [paidOut EXCEPT ![Receiver[k]] =
                      IF sawRow[r] THEN @ + Gross ELSE Gross]
    BY <1>2 DEF After, k
  <2>3. Gross \in Int /\ TotalDebit \in Int
    BY AmountsAssumption DEF TotalDebit
  <2> QED
    BY <1>1, <2>1, <2>2, <2>3 DEF TypeOK
<1>6. TypeOK'
  BY <1>1, <1>2, <1>3, <1>5, LocksOfOthers DEF TypeOK
<1>7. ASSUME NEW s \in Req \ {r} PROVE KnowsTheRow(s)' /\ SenderHolds(s)'
  <2>1. pc[s] \in HasReceiver =>
          lock[Receiver[cur[s]]] = s /\ Receiver[cur[s]] \in Cust
    BY TransfersAssumption
       DEF Booked, KnowsTheRow, Inv, HasKey, HasReceiver, Working, InTransaction
  <2>2. pc[s] \in HasReceiver =>
          lock'[Receiver[cur[s]]] = s /\ Receiver[cur[s]] # Receiver[k]
    BY <1>2, <1>4, <2>1, LocksOfOthers
  <2> QED
    BY <1>2, <1>3, <2>2 DEF Booked, KnowsTheRow, SenderHolds
<1>8. NoRowNothing'
  BY <1>1, <1>2, <1>4, <1>5 DEF Booked, NoRowNothing, TypeOK
<1>9. BalancesAddUp'
  <2> SUFFICES ASSUME NEW c \in Cust
               PROVE  balance'[c] = (IF c \in Holding THEN Opening ELSE 0)
                                      + Received(c)' - Spent(c)'
    BY DEF BalancesAddUp
  <2> DEFINE From == {j \in Key : Sender[j] = c}
             To == {j \in Key : Receiver[j] = c}
             spent == SumFunctionOnSet(paid, From)
             received == SumFunctionOnSet(paid, To)
  <2>1. /\ spent \in Int /\ received \in Int
        /\ SumFunctionOnSet(paid', From) = spent + (IF k \in From THEN 1 ELSE 0)
        /\ SumFunctionOnSet(paid', To) = received + (IF k \in To THEN 1 ELSE 0)
    BY <1>1, <1>2, PaidSum DEF TypeOK
  <2>2. /\ Spent(c) = TotalDebit * spent
        /\ Received(c) = Gross * received
        /\ Spent(c)' = TotalDebit * SumFunctionOnSet(paid', From)
        /\ Received(c)' = Gross * SumFunctionOnSet(paid', To)
    BY DEF Spent, Received
  <2>3. /\ k \in From <=> Sender[k] = c
        /\ k \in To <=> Receiver[k] = c
    BY <1>1
  <2>4. balance[c] = (IF c \in Holding THEN Opening ELSE 0)
                       + Gross * received - TotalDebit * spent
    BY <2>2 DEF Booked, BalancesAddUp
  <2> HIDE DEF From, To, spent, received
  <2>5. Gross \in Int /\ TotalDebit \in Int /\ Opening \in Int
    BY AmountsAssumption DEF TotalDebit
  <2>6. Spent(c)' = TotalDebit * spent + (IF Sender[k] = c THEN TotalDebit ELSE 0)
    BY <2>1, <2>2, <2>3, <2>5, TimesNext
  <2>7. Received(c)' = Gross * received + (IF Receiver[k] = c THEN Gross ELSE 0)
    BY <2>1, <2>2, <2>3, <2>5, TimesNext
  <2>8. Gross * received \in Int /\ TotalDebit * spent \in Int
    BY <2>1, <2>5
  <2> QED
    BY <1>5, <2>4, <2>5, <2>6, <2>7, <2>8
<1> QED
  BY <1>3, <1>6, <1>7, <1>8, <1>9 DEF Booked

LEMMA NextBooked == BookInv /\ [Next]_vars => BookInv'
<1> SUFFICES ASSUME BookInv, [Next]_vars PROVE TypeOK' /\ Booked'
  BY NextInv DEF BookInv
<1>1. ASSUME NEW r \in Req, TransferStep(r) \/ DeadlockVictim(r)
      PROVE  TypeOK' /\ Booked'
  BY <1>1, StepsBook, CommitBooks DEF TransferStep
<1>2. ASSUME NEW r \in Req, NEW k \in Key, TransferFind(r, k)
      PROVE  TypeOK' /\ Booked'
  BY <1>2, FindBooks
<1>3. ASSUME NEW c \in Rec, ReconcileStep(c)
      PROVE  TypeOK' /\ Booked'
  BY <1>3, RunsBook DEF ReconcileStep
<1>4. CASE Environment
  BY <1>4, StepsBook, CommitBooks, RunsBook, CrashBooks DEF Environment
<1>5. CASE UNCHANGED vars
  BY <1>5 DEF vars, dbVars, procVars, boundVars, BookInv, TypeOK, Booked,
     KnowsTheRow, SenderHolds, NoRowNothing, BalancesAddUp, Spent, Received
<1> QED
  BY <1>1, <1>2, <1>3, <1>4, <1>5 DEF Next

\* However transfers between customers interleave, wait, deadlock, fail or are
\* restarted, a customer's balance is what was there at the start and what the
\* recorded transfers brought and took (processInternalTransfer, applyLedgerDelta).
THEOREM BalancesAreWhatWasPaid == Spec => []TransfersAddUp
<1>1. Init => BookInv
  BY InitInv, InitBooked DEF BookInv
<1>2. BookInv => TransfersAddUp
  BY DEF BookInv, Inv, SaidIsPaid, DoneIsPaid, Booked, TransfersAddUp
<1> QED
  BY <1>1, <1>2, NextBooked, PTL DEF Spec
=============================================================================
