------------------------- MODULE UsdtWithdrawProofs -------------------------
(***************************************************************************)
(* Proofs about UsdtWithdraw for any number of operations, requests,       *)
(* reconcile runs and transactions, and for any amounts and bounds.        *)
(***************************************************************************)
EXTENDS UsdtWithdraw, FiniteSetTheorems, TLAPS

-----------------------------------------------------------------------------
(* Typing: TypeOK by groups of variables, and what the program counter of   *)
(* an actor says of its locals.                                             *)

LedgerTyped ==
  /\ balance \in Int /\ posted \in Int
  /\ debits \in [Op -> Nat] /\ refunds \in [Op -> Nat]

RowsTyped ==
  /\ failures \in [Op -> Nat] /\ op \in [Op -> Row]
  /\ comp \in [Op -> {"ABSENT", "NEW", "CONFIRMED"}]
  /\ chainRow \in [Hash -> {"ABSENT", "BROADCASTED", "CONFIRMED", "FAILED"}]
  /\ history \in [Hash -> Nat]

ChainTyped ==
  /\ chain \in [Hash -> {"unsent", "mempool", "mined", "expired"}]
  /\ payer \in [Hash -> Op \cup {None}]
  /\ resends \in [Op -> Nat]

LocalsOK ==
  \A a \in Actor :
    /\ pc[a] \in Working => cur[a] \in Op
    /\ pc[a] \in {"create", "read", "debit", "wait", "confirm", "failRow"}
         => a \in Req
    /\ pc[a] \in {"check", "finalize"} => a \in Rec /\ seen[a].hash \in Hash
    /\ pc[a] \in {"mark", "row", "wait", "confirm", "failRow"}
         => mine[a] \in Hash

ProcsTyped ==
  /\ pc \in [Actor -> Pc]
  /\ cur \in [Actor -> Op \cup {None}]
  /\ seen \in [Actor -> Row]
  /\ mine \in [Actor -> Hash \cup {None}]
  /\ before \in [Actor -> Int]
  /\ LocalsOK

BatchTyped ==
  /\ snap \in [Rec -> [Op -> Row]]
  /\ batch \in [Rec -> SUBSET Op] /\ compBatch \in [Rec -> SUBSET Op]

BoundsTyped == faults \in 0 .. MaxFaults /\ crashes \in 0 .. MaxCrashes

TypeInv == /\ LedgerTyped /\ RowsTyped /\ ChainTyped
           /\ ProcsTyped /\ BatchTyped /\ BoundsTyped

LEMMA TypeInvImpliesTypeOK == TypeInv => TypeOK
  BY DEF TypeInv, TypeOK, LedgerTyped, RowsTyped, ChainTyped, ProcsTyped,
         BatchTyped, BoundsTyped

LEMMA InitTyped == Init => TypeInv
  BY AmountsAssumption, ActorsAssumption, BoundsAssumption
  DEF Init, TypeInv, LedgerTyped, RowsTyped, ChainTyped, ProcsTyped,
      BatchTyped, BoundsTyped, LocalsOK, Row, NoRow, Status, Pc, Working,
      Ended, Actor

\* A group of variables that a step leaves alone stays typed.
LEMMA UnchangedTyped ==
  /\ LedgerTyped /\ UNCHANGED ledgerVars => LedgerTyped'
  /\ RowsTyped /\ UNCHANGED rowVars => RowsTyped'
  /\ ChainTyped /\ UNCHANGED chainVars => ChainTyped'
  /\ ProcsTyped /\ UNCHANGED procVars => ProcsTyped'
  /\ BatchTyped /\ UNCHANGED batchVars => BatchTyped'
  /\ BoundsTyped /\ UNCHANGED boundVars => BoundsTyped'
  BY DEF LedgerTyped, ledgerVars, RowsTyped, rowVars, ChainTyped, chainVars,
         ProcsTyped, LocalsOK, procVars, BatchTyped, batchVars, BoundsTyped,
         boundVars

\* Rest leaves well-typed locals behind, at no step.
LEMMA RestTyped ==
  ASSUME ProcsTyped, NEW a \in Actor, NEW end \in Ended, Rest(a, end)
  PROVE  ProcsTyped'
  BY ActorsAssumption
  DEF ProcsTyped, LocalsOK, Rest, Resting, Row, NoRow, Status, Pc, Working,
      Ended, Actor

\* Goto keeps the locals: the new step must not need more of them.
LEMMA GotoTyped ==
  ASSUME ProcsTyped, NEW a \in Actor, pc[a] \in Working, NEW l, Goto(a, l),
         \/ l \in {"markFailed", "compFind", "compCreate", "compPost"}
         \/ l \in {"row", "failRow"} /\ mine[a] \in Hash /\ a \in Req
         \/ l = "row" /\ mine[a] \in Hash
         \/ l \in {"wait", "confirm"} /\ mine[a] \in Hash /\ a \in Req
         \/ l = "finalize" /\ pc[a] = "check"
  PROVE  ProcsTyped'
  BY DEF ProcsTyped, LocalsOK, Goto, Pc, Working, Actor

LEMMA RowUpdates ==
  \A row \in Row, s \in Status, b \in BOOLEAN :
    /\ [row EXCEPT !.status = s] \in Row
    /\ [row EXCEPT !.status = s, !.ref = b] \in Row
  BY DEF Row

LEMMA RowFields ==
  ASSUME NEW row \in Row, NEW s \in Status, NEW b \in BOOLEAN
  PROVE  /\ [row EXCEPT !.status = s].hash = row.hash
         /\ [row EXCEPT !.status = s].ref = row.ref
         /\ [row EXCEPT !.status = s].status = s
         /\ [row EXCEPT !.status = s, !.ref = b].hash = row.hash
         /\ [row EXCEPT !.status = s, !.ref = b].ref = b
         /\ [row EXCEPT !.status = s, !.ref = b].status = s
  BY DEF Row

LEMMA NextTyped == TypeInv /\ [Next]_vars => TypeInv'
<1> SUFFICES ASSUME TypeInv, [Next]_vars PROVE TypeInv'
  OBVIOUS
<1> USE DEF TypeInv
<1>rows. NoRow \in Row /\ \A a \in Actor : seen[a] \in Row
  BY DEF NoRow, Row, Status, ProcsTyped
<1>1. ASSUME NEW r \in Req, NEW o \in Op, WithdrawFind(r, o) PROVE TypeInv'
  <2>1. r \in Actor
    BY DEF Actor
  <2>2. ProcsTyped'
    <3>1. CASE Rest(r, "answered")
      BY <3>1, <2>1, RestTyped DEF Ended
    <3>2. CASE /\ pc' = [pc EXCEPT ![r] =
                           IF op[o].status = "ABSENT" THEN "create" ELSE "read"]
               /\ cur' = [cur EXCEPT ![r] = o]
               /\ seen' = [seen EXCEPT ![r] = op[o]]
               /\ UNCHANGED <<mine, before>>
      BY <3>2, <2>1 DEF ProcsTyped, LocalsOK, RowsTyped, Pc, Working
    <3> QED
      BY <1>1, <3>1, <3>2 DEF WithdrawFind
  <2> QED
    BY <1>1, <2>2, UnchangedTyped DEF WithdrawFind
<1>2. ASSUME NEW r \in Req, WithdrawCreate(r) PROVE TypeInv'
  <2>1. r \in Actor /\ cur[r] \in Op
    BY <1>2 DEF WithdrawCreate, ProcsTyped, LocalsOK, Working, Actor
  <2>2. CreatedRow \in Row
    BY DEF CreatedRow, NoRow, Row, Status
  <2>3. CASE op[cur[r]].status = "ABSENT"
    <3>1. ProcsTyped'
      BY <1>2, <2>1, <2>2, <2>3
      DEF WithdrawCreate, ProcsTyped, LocalsOK, Pc, Working
    <3>2. RowsTyped'
      BY <1>2, <2>1, <2>2, <2>3 DEF WithdrawCreate, RowsTyped
    <3> QED
      BY <1>2, <3>1, <3>2, UnchangedTyped DEF WithdrawCreate
  <2>4. CASE op[cur[r]].status # "ABSENT"
    <3>1. ProcsTyped'
      BY <1>2, <2>1, <2>4, RestTyped DEF WithdrawCreate, Ended
    <3>2. RowsTyped'
      BY <1>2, <2>4 DEF WithdrawCreate, RowsTyped
    <3> QED
      BY <1>2, <3>1, <3>2, UnchangedTyped DEF WithdrawCreate
  <2> QED
    BY <2>3, <2>4
<1>3. ASSUME NEW r \in Req, WithdrawRead(r) PROVE TypeInv'
  <2>1. ProcsTyped'
    BY <1>3
    DEF WithdrawRead, ProcsTyped, LocalsOK, LedgerTyped, Pc, Working, Actor
  <2> QED
    BY <1>3, <2>1, UnchangedTyped DEF WithdrawRead
<1>4. ASSUME NEW r \in Req, WithdrawDebit(r) PROVE TypeInv'
  <2>1. r \in Actor /\ cur[r] \in Op
    BY <1>4 DEF WithdrawDebit, ProcsTyped, LocalsOK, Working, Actor
  <2>2. ProcsTyped'
    BY <1>4, <2>1 DEF WithdrawDebit, ProcsTyped, LocalsOK, Pc, Working
  <2>3. LedgerTyped'
    BY <1>4, <2>1, AmountsAssumption
    DEF WithdrawDebit, LedgerTyped, DebitedBalance, TotalDebit
  <2>4. DebitedRow(op[cur[r]]) \in Row
    BY <2>1, RowUpdates DEF DebitedRow, RowsTyped, Status
  <2>5. RowsTyped'
    BY <1>4, <2>1, <2>4 DEF WithdrawDebit, RowsTyped
  <2> QED
    BY <1>4, <2>2, <2>3, <2>5, UnchangedTyped DEF WithdrawDebit
<1>5. ASSUME NEW r \in Req, WithdrawWait(r) PROVE TypeInv'
  <2>1. r \in Actor /\ mine[r] \in Hash
    BY <1>5 DEF WithdrawWait, ProcsTyped, LocalsOK, Actor
  <2>2. ProcsTyped'
    BY <1>5, <2>1, RestTyped, GotoTyped DEF WithdrawWait, Ended, Working
  <2> QED
    BY <1>5, <2>2, UnchangedTyped DEF WithdrawWait
<1>6. ASSUME NEW r \in Req, WithdrawConfirm(r) PROVE TypeInv'
  <2>1. r \in Actor /\ cur[r] \in Op /\ mine[r] \in Hash
    BY <1>6 DEF WithdrawConfirm, ProcsTyped, LocalsOK, Working, Actor
  <2>2. ProcsTyped'
    BY <1>6, <2>1, RestTyped DEF WithdrawConfirm, Ended
  <2>3. [op[cur[r]] EXCEPT !.status = "CONFIRMED", !.ref = TRUE] \in Row
    BY <2>1, RowUpdates DEF RowsTyped, Status
  <2>4. op' = [op EXCEPT ![cur[r]] =
                 [op[cur[r]] EXCEPT !.status = "CONFIRMED", !.ref = TRUE]]
    BY <1>6, <2>1 DEF WithdrawConfirm, RowsTyped, Row
  <2>5. RowsTyped'
    BY <1>6, <2>1, <2>3, <2>4 DEF WithdrawConfirm, RowsTyped
  <2> QED
    BY <1>6, <2>2, <2>5, UnchangedTyped DEF WithdrawConfirm
<1>7. ASSUME NEW r \in Req, WithdrawFailRow(r) PROVE TypeInv'
  <2>1. r \in Actor /\ mine[r] \in Hash /\ pc[r] \in Working
    BY <1>7 DEF WithdrawFailRow, ProcsTyped, LocalsOK, Working, Actor
  <2>2. ProcsTyped'
    BY <1>7, <2>1, GotoTyped DEF WithdrawFailRow
  <2>3. RowsTyped'
    BY <1>7, <2>1 DEF WithdrawFailRow, RowsTyped
  <2> QED
    BY <1>7, <2>2, <2>3, UnchangedTyped DEF WithdrawFailRow
<1>8. ASSUME NEW a \in Actor, NEW h \in Hash, Send(a, h) PROVE TypeInv'
  <2>1. cur[a] \in Op
    BY <1>8 DEF Send, ProcsTyped, LocalsOK, Working
  <2>2. ProcsTyped'
    BY <1>8, <2>1 DEF Send, ProcsTyped, LocalsOK, Pc, Working
  <2>3. ChainTyped'
    BY <1>8, <2>1 DEF Send, ChainTyped
  <2> QED
    BY <1>8, <2>2, <2>3, UnchangedTyped DEF Send
<1>9. ASSUME NEW a \in Actor, NEW h \in Hash, SendLost(a, h) PROVE TypeInv'
  <2>1. cur[a] \in Op /\ pc[a] \in Working
    BY <1>9 DEF SendLost, ProcsTyped, LocalsOK, Working
  <2>2. ProcsTyped'
    BY <1>9, <2>1, GotoTyped DEF SendLost
  <2>3. ChainTyped'
    BY <1>9, <2>1 DEF SendLost, ChainTyped
  <2>4. BoundsTyped'
    BY <1>9, BoundsAssumption DEF SendLost, BoundsTyped
  <2> QED
    BY <1>9, <2>2, <2>3, <2>4, UnchangedTyped DEF SendLost
<1>10. ASSUME NEW a \in Actor, SendRejected(a) PROVE TypeInv'
  <2>1. ProcsTyped'
    BY <1>10, GotoTyped DEF SendRejected, Working
  <2> QED
    BY <1>10, <2>1, UnchangedTyped DEF SendRejected
<1>11. ASSUME NEW a \in Actor, MarkBroadcasted(a) PROVE TypeInv'
  <2>1. cur[a] \in Op /\ mine[a] \in Hash /\ pc[a] \in Working
    BY <1>11 DEF MarkBroadcasted, ProcsTyped, LocalsOK, Working
  <2>2. ProcsTyped'
    BY <1>11, <2>1, GotoTyped DEF MarkBroadcasted
  <2>3. [status |-> "BROADCASTED", hash |-> mine[a], ref |-> seen[a].ref]
          \in Row
    BY <1>rows, <2>1 DEF Row, Status
  <2>4. RowsTyped'
    BY <1>11, <2>1, <2>3 DEF MarkBroadcasted, RowsTyped
  <2> QED
    BY <1>11, <2>2, <2>4, UnchangedTyped DEF MarkBroadcasted
<1>12. ASSUME NEW a \in Actor, InsertChainRow(a) PROVE TypeInv'
  <2>1. mine[a] \in Hash /\ pc[a] \in Working
    BY <1>12 DEF InsertChainRow, ProcsTyped, LocalsOK, Working
  <2>2. ProcsTyped'
    BY <1>12, <2>1, GotoTyped, RestTyped DEF InsertChainRow, Ended
  <2>3. RowsTyped'
    BY <1>12, <2>1 DEF InsertChainRow, RowsTyped
  <2> QED
    BY <1>12, <2>2, <2>3, UnchangedTyped DEF InsertChainRow
<1>13. ASSUME NEW a \in Actor, MarkFailed(a) PROVE TypeInv'
  <2>1. cur[a] \in Op /\ pc[a] \in Working
    BY <1>13 DEF MarkFailed, ProcsTyped, LocalsOK, Working
  <2>2. ProcsTyped'
    BY <1>13, <2>1, GotoTyped DEF MarkFailed
  <2>3. [op[cur[a]] EXCEPT !.status = "FAILED"] \in Row
    BY <2>1, RowUpdates DEF RowsTyped, Status
  <2>4. RowsTyped'
    BY <1>13, <2>1, <2>3 DEF MarkFailed, SetStatus, RowsTyped
  <2> QED
    BY <1>13, <2>2, <2>4, UnchangedTyped DEF MarkFailed
<1>14. ASSUME NEW a \in Actor, CompensateFind(a) PROVE TypeInv'
  <2>1. cur[a] \in Op /\ pc[a] \in Working
    BY <1>14 DEF CompensateFind, ProcsTyped, LocalsOK, Working
  <2>2. comp[cur[a]] \in {"ABSENT", "NEW", "CONFIRMED"}
    BY <2>1 DEF RowsTyped
  <2>3. Rest(a, "threw") \/ Goto(a, "compPost") \/ Goto(a, "compCreate")
    BY <1>14, <2>2 DEF CompensateFind
  <2>4. ProcsTyped'
    BY <2>1, <2>3, GotoTyped, RestTyped DEF Ended
  <2> QED
    BY <1>14, <2>4, UnchangedTyped DEF CompensateFind
<1>esc. ASSUME NEW a \in Actor, Escape(a) PROVE ProcsTyped' /\ BatchTyped'
  <2>1. ProcsTyped'
    BY <1>esc, RestTyped DEF Escape, Ended
  <2>2. BatchTyped'
    <3>1. CASE a \in Rec
      <4>1. [o \in Op |-> NoRow] \in [Op -> Row] /\ {} \in SUBSET Op
        BY <1>rows
      <4>2. /\ batch' = [batch EXCEPT ![a] = {}]
            /\ compBatch' = [compBatch EXCEPT ![a] = {}]
            /\ snap' = [snap EXCEPT ![a] = [o \in Op |-> NoRow]]
        BY <1>esc, <3>1 DEF Escape
      <4> QED
        BY <3>1, <4>1, <4>2 DEF BatchTyped
    <3>2. CASE a \notin Rec
      BY <1>esc, <3>2, UnchangedTyped DEF Escape
    <3> QED
      BY <3>1, <3>2
  <2> QED
    BY <2>1, <2>2
<1>15. ASSUME NEW a \in Actor, CompensateCreate(a) PROVE TypeInv'
  <2>1. cur[a] \in Op /\ pc[a] \in Working
    BY <1>15 DEF CompensateCreate, ProcsTyped, LocalsOK, Working
  <2>2. ProcsTyped'
    BY <1>15, <1>esc, <2>1, GotoTyped DEF CompensateCreate
  <2>3. BatchTyped'
    BY <1>15, <1>esc, UnchangedTyped DEF CompensateCreate
  <2>4. RowsTyped'
    BY <1>15, <2>1 DEF CompensateCreate, RowsTyped
  <2> QED
    BY <1>15, <2>2, <2>3, <2>4, UnchangedTyped DEF CompensateCreate
<1>16. ASSUME NEW a \in Actor, CompensatePost(a) PROVE TypeInv'
  <2>1. cur[a] \in Op
    BY <1>16 DEF CompensatePost, ProcsTyped, LocalsOK, Working
  <2>2. ProcsTyped'
    BY <1>16, RestTyped DEF CompensatePost, Ended
  <2>3. LedgerTyped'
    BY <1>16, <2>1, AmountsAssumption
    DEF CompensatePost, LedgerTyped, RefundOf, TotalDebit
  <2>4. seen[a].ref \in BOOLEAN
    BY <1>rows DEF Row
  <2>5. [op[cur[a]] EXCEPT !.status = "COMPENSATED", !.ref = seen[a].ref]
          \in Row
    BY <2>1, <2>4, RowUpdates DEF RowsTyped, Status
  <2>6. op' = [op EXCEPT ![cur[a]] =
                 [op[cur[a]] EXCEPT !.status = "COMPENSATED",
                                    !.ref = seen[a].ref]]
    BY <1>16, <2>1 DEF CompensatePost, RowsTyped, Row
  <2>7. RowsTyped'
    BY <1>16, <2>1, <2>5, <2>6 DEF CompensatePost, RowsTyped, CompClosed
  <2> QED
    BY <1>16, <2>2, <2>3, <2>7, UnchangedTyped DEF CompensatePost
<1>17. ASSUME NEW c \in Rec, ReconcileStart(c) PROVE TypeInv'
  <2>1. \A o \in Op : op[o] \in Row
    BY DEF RowsTyped
  <2>2. BatchTyped'
    BY <1>17, <1>rows, <2>1 DEF ReconcileStart, BatchTyped
  <2> QED
    BY <1>17, <2>2, UnchangedTyped DEF ReconcileStart
<1>18. ASSUME NEW c \in Rec, NEW o \in Op, ReconcileTake(c, o) PROVE TypeInv'
  <2> DEFINE row == snap[c][o]
  <2>1. c \in Actor /\ row \in Row
    BY DEF Actor, BatchTyped
  <2>2. BatchTyped'
    <3>1. batch' \in [Rec -> SUBSET Op] /\ compBatch' = compBatch
      BY <1>18 DEF ReconcileTake, BatchTyped
    <3>2. snap' = [snap EXCEPT ![c][o] = NoRow]
      BY <1>18 DEF ReconcileTake
    <3>3. snap' \in [Rec -> [Op -> Row]]
      BY <3>2, <1>rows DEF BatchTyped
    <3> QED
      BY <3>1, <3>3 DEF BatchTyped
  <2>3. ProcsTyped'
    <3>1. CASE pc' = pc
      <4>1. UNCHANGED procVars
        BY <1>18, <2>1, <3>1 DEF ReconcileTake, ProcsTyped, LocalsOK, procVars
      <4> QED
        BY <4>1, UnchangedTyped
    <3>2. CASE ToSend(row) /\ pc' = [pc EXCEPT ![c] = "send"]
      <4>1. /\ cur' = [cur EXCEPT ![c] = o]
            /\ seen' = [seen EXCEPT ![c] = row]
            /\ UNCHANGED <<mine, before>>
        BY <1>18, <2>1, <3>2 DEF ReconcileTake, ProcsTyped
      <4> QED
        BY <2>1, <3>2, <4>1 DEF ProcsTyped, LocalsOK, Pc, Working
    <3>3. CASE row.hash # None /\ pc' = [pc EXCEPT ![c] = "check"]
      <4>1. /\ cur' = [cur EXCEPT ![c] = o]
            /\ seen' = [seen EXCEPT ![c] = row]
            /\ UNCHANGED <<mine, before>>
        BY <1>18, <2>1, <3>3 DEF ReconcileTake, ProcsTyped
      <4>2. row.hash \in Hash
        BY <2>1, <3>3 DEF Row
      <4> QED
        BY <2>1, <3>3, <4>1, <4>2 DEF ProcsTyped, LocalsOK, Pc, Working
    <3> QED
      BY <1>18, <3>1, <3>2, <3>3 DEF ReconcileTake
  <2> QED
    BY <1>18, <2>2, <2>3, UnchangedTyped DEF ReconcileTake
<1>19. ASSUME NEW c \in Rec, NEW o \in Op, ReconcileTouchFails(c, o)
       PROVE  TypeInv'
  <2>1. c \in Actor /\ snap[c][o] \in Row
    BY DEF Actor, BatchTyped
  <2>2. ProcsTyped'
    BY <1>19, <2>1 DEF ReconcileTouchFails, ProcsTyped, LocalsOK, Pc, Working
  <2>3. BatchTyped'
    BY <1>19, <1>rows DEF ReconcileTouchFails, BatchTyped
  <2>4. BoundsTyped'
    BY <1>19, BoundsAssumption DEF ReconcileTouchFails, BoundsTyped
  <2> QED
    BY <1>19, <2>2, <2>3, <2>4, UnchangedTyped DEF ReconcileTouchFails
<1>20. ASSUME NEW c \in Rec, NEW o \in Op, ReconcileCompensation(c, o)
       PROVE  TypeInv'
  <2>1. BatchTyped' /\ RowsTyped'
    BY <1>20 DEF ReconcileCompensation, BatchTyped, RowsTyped
  <2> QED
    BY <1>20, <2>1, UnchangedTyped DEF ReconcileCompensation
<1>21. ASSUME NEW c \in Rec, ReconcileSeesTx(c) PROVE TypeInv'
  <2>1. c \in Actor /\ pc[c] \in Working
    BY <1>21 DEF ReconcileSeesTx, Actor, Working
  <2>2. ProcsTyped'
    BY <1>21, <2>1, GotoTyped DEF ReconcileSeesTx
  <2> QED
    BY <1>21, <2>2, UnchangedTyped DEF ReconcileSeesTx
<1>22. ASSUME NEW c \in Rec, ReconcileSeesNothing(c) PROVE TypeInv'
  <2>1. ProcsTyped'
    BY <1>22, RestTyped DEF ReconcileSeesNothing, Ended, Actor
  <2> QED
    BY <1>22, <2>1, UnchangedTyped DEF ReconcileSeesNothing
<1>23. ASSUME NEW c \in Rec, ReconcileFinalize(c) PROVE TypeInv'
  <2>1. /\ c \in Actor /\ cur[c] \in Op
        /\ seen[c].hash \in Hash /\ seen[c].ref \in BOOLEAN
    BY <1>23, <1>rows
    DEF ReconcileFinalize, ProcsTyped, LocalsOK, Working, Actor, Row
  <2>2. ProcsTyped'
    BY <1>23, <2>1, RestTyped DEF ReconcileFinalize, Ended
  <2>3. [op[cur[c]] EXCEPT !.status = "CONFIRMED", !.ref = seen[c].ref] \in Row
    BY <2>1, RowUpdates DEF RowsTyped, Status
  <2>4. op' = [op EXCEPT ![cur[c]] =
                 [op[cur[c]] EXCEPT !.status = "CONFIRMED",
                                    !.ref = seen[c].ref]]
    BY <1>23, <2>1 DEF ReconcileFinalize, RowsTyped, Row
  <2>5. history' \in [Hash -> Nat]
    BY <1>23, <2>1 DEF ReconcileFinalize, FinalizedHistory, RowsTyped
  <2>6. RowsTyped'
    BY <1>23, <2>1, <2>3, <2>4, <2>5 DEF ReconcileFinalize, RowsTyped
  <2> QED
    BY <1>23, <2>2, <2>6, UnchangedTyped DEF ReconcileFinalize
<1>24. ASSUME NEW a \in Actor, Fault(a) PROVE TypeInv'
  <2>1. ProcsTyped' /\ BatchTyped'
    <3>1. CASE pc[a] \in InTry /\ Goto(a, "markFailed") /\ UNCHANGED batchVars
      BY <3>1, GotoTyped, UnchangedTyped DEF InTry, Working
    <3>2. CASE pc[a] = "confirm" /\ Goto(a, "failRow") /\ UNCHANGED batchVars
      <4>1. mine[a] \in Hash /\ a \in Req /\ pc[a] \in Working
        BY <3>2 DEF ProcsTyped, LocalsOK, Working
      <4> QED
        BY <3>2, <4>1, GotoTyped, UnchangedTyped
    <3>3. CASE pc[a] \in OutsideTry /\ Escape(a)
      BY <3>3, <1>esc
    <3> QED
      BY <1>24, <3>1, <3>2, <3>3 DEF Fault
  <2>2. BoundsTyped'
    BY <1>24, BoundsAssumption DEF Fault, BoundsTyped
  <2> QED
    BY <1>24, <2>1, <2>2, UnchangedTyped DEF Fault
<1>25. ASSUME Crash PROVE TypeInv'
  <2>1. pc' \in [Actor -> Pc] /\ \A a \in Actor : pc'[a] \notin Working
    BY <1>25 DEF Crash, ProcsTyped, Resting, Pc, Working, Ended
  <2>2. ProcsTyped'
    BY <1>25, <2>1, <1>rows DEF Crash, ProcsTyped, LocalsOK, Working
  <2>3. BatchTyped'
    BY <1>25, <1>rows DEF Crash, BatchTyped
  <2>4. BoundsTyped'
    BY <1>25, BoundsAssumption DEF Crash, BoundsTyped
  <2> QED
    BY <1>25, <2>2, <2>3, <2>4, UnchangedTyped DEF Crash
<1>26. ASSUME NEW h \in Hash, ChainSettles(h) PROVE TypeInv'
  <2>1. ChainTyped'
    BY <1>26 DEF ChainSettles, ChainTyped
  <2> QED
    BY <1>26, <2>1, UnchangedTyped DEF ChainSettles
<1>27. CASE UNCHANGED vars
  BY <1>27, UnchangedTyped DEF vars
<1> QED
  BY <1>1, <1>2, <1>3, <1>4, <1>5, <1>6, <1>7, <1>8, <1>9, <1>10, <1>11, <1>12,
     <1>13, <1>14, <1>15, <1>16, <1>17, <1>18, <1>19, <1>20, <1>21, <1>22,
     <1>23, <1>24, <1>25, <1>26, <1>27
  DEF Next, RequestStep, ReconcileStep, SharedStep, Environment

\* Every variable keeps its type, whatever the number of actors, and an actor
\* that is at a step holds the locals the step reads.
THEOREM Typed == Spec => []TypeOK
<1>1. Spec => []TypeInv
  BY InitTyped, NextTyped, PTL DEF Spec
<1> QED
  BY <1>1, TypeInvImpliesTypeOK, PTL
-----------------------------------------------------------------------------
(* Balance.  Every write of the balance is relative and posts the same      *)
(* amount, so the invariant is inductive over the typing alone.             *)

LEMMA NextBalanced ==
  TypeInv /\ BalanceMatchesLedger /\ [Next]_vars => BalanceMatchesLedger'
<1> SUFFICES ASSUME TypeInv, BalanceMatchesLedger, [Next]_vars
             PROVE  BalanceMatchesLedger'
  OBVIOUS
<1> USE AmountsAssumption DEF TypeInv, LedgerTyped, BalanceMatchesLedger
<1>1. ASSUME NEW r \in Req, WithdrawDebit(r) PROVE BalanceMatchesLedger'
  BY <1>1 DEF WithdrawDebit, DebitedBalance, TotalDebit
<1>2. ASSUME NEW a \in Actor, CompensatePost(a) PROVE BalanceMatchesLedger'
  BY <1>2 DEF CompensatePost, RefundOf, TotalDebit
<1>3. CASE UNCHANGED <<balance, posted>>
  BY <1>3
<1>4. ASSUME NEW r \in Req, RequestStep(r), ~WithdrawDebit(r)
      PROVE  UNCHANGED <<balance, posted>>
  BY <1>4
  DEF RequestStep, WithdrawFind, WithdrawCreate, WithdrawRead, WithdrawWait,
      WithdrawConfirm, WithdrawFailRow, ledgerVars
<1>5. ASSUME NEW c \in Rec, ReconcileStep(c)
      PROVE  UNCHANGED <<balance, posted>>
  BY <1>5
  DEF ReconcileStep, ReconcileStart, ReconcileTake, ReconcileTouchFails,
      ReconcileCompensation, ReconcileSeesTx, ReconcileSeesNothing,
      ReconcileFinalize, ledgerVars
<1>6. ASSUME NEW a \in Actor, SharedStep(a), ~CompensatePost(a)
      PROVE  UNCHANGED <<balance, posted>>
  BY <1>6
  DEF SharedStep, Send, SendRejected, MarkBroadcasted, InsertChainRow,
      MarkFailed, CompensateFind, CompensateCreate, ledgerVars
<1>7. ASSUME Environment PROVE UNCHANGED <<balance, posted>>
  BY <1>7 DEF Environment, Fault, SendLost, ChainSettles, Crash, ledgerVars
<1>8. CASE UNCHANGED vars
  BY <1>8 DEF vars, ledgerVars
<1> QED
  BY <1>1, <1>2, <1>3, <1>4, <1>5, <1>6, <1>7, <1>8
  DEF Next, RequestStep, SharedStep

\* No interleaving of requests, compensations and reconcile runs loses an
\* update of the balance.
THEOREM BalanceIsLedger == Spec => []BalanceMatchesLedger
<1>1. Init => BalanceMatchesLedger
  BY AmountsAssumption DEF Init, BalanceMatchesLedger
<1>2. Spec => []TypeInv
  BY InitTyped, NextTyped, PTL DEF Spec
<1> QED
  BY <1>1, <1>2, NextBalanced, PTL DEF Spec

-----------------------------------------------------------------------------
(* Provenance: where the hashes and the debit references come from.  An     *)
(* operation's row is also held, older, by the actors that read it and by   *)
(* the batch of a reconcile run, and written back from there; so the rows   *)
(* of all three have to be backed by the chain and the ledger.              *)

Holding == {"mark", "row", "wait", "confirm", "failRow"}
AfterDebit == {"send", "mark", "row", "wait", "confirm"}

Backed(row, o) ==
  /\ row.hash # None => payer[row.hash] = o
  /\ row.status = "DB_COMMITTED" \/ row.ref => debits[o] > 0

Shown(o) == \E h \in Hash : payer[h] = o /\ history[h] > 0

\* the same of the next state, for a row and an operation of this one
BackedNext(row, o) ==
  /\ row.hash # None => payer'[row.hash] = o
  /\ row.status = "DB_COMMITTED" \/ row.ref => debits'[o] > 0
ShownNext(o) == \E h \in Hash : payer'[h] = o /\ history'[h] > 0

FreshUnpaid == \A h \in Hash : chain[h] = "unsent" => payer[h] = None
RowsBacked == \A o \in Op : Backed(op[o], o)
ConfirmedShown == \A o \in Op : op[o].status = "CONFIRMED" => Shown(o)
SnapBacked == \A c \in Rec : \A o \in Op : Backed(snap[c][o], o)
LocalBacked(a) ==
  /\ pc[a] \in Working => Backed(seen[a], cur[a])
  /\ pc[a] \in Holding => payer[mine[a]] = cur[a]
  /\ pc[a] \in AfterDebit /\ a \in Req => debits[cur[a]] > 0
LocalsBacked == \A a \in Actor : LocalBacked(a)

Provenance == FreshUnpaid /\ RowsBacked /\ ConfirmedShown /\ SnapBacked
                /\ LocalsBacked

Grows ==
  /\ \A h \in Hash : payer[h] # None => payer'[h] = payer[h]
  /\ \A o \in Op : debits'[o] \in Nat /\ debits'[o] >= debits[o]
  /\ \A h \in Hash : history'[h] \in Nat /\ history'[h] >= history[h]

\* The evidence an operation rests on is never taken back.
LEMMA NextGrows == TypeInv /\ FreshUnpaid /\ [Next]_vars => Grows
<1> SUFFICES ASSUME TypeInv, FreshUnpaid, [Next]_vars PROVE Grows
  OBVIOUS
<1> USE DEF TypeInv, LedgerTyped, RowsTyped, ChainTyped
<1>1. CASE UNCHANGED <<payer, debits, history>>
  BY <1>1 DEF Grows
<1>2. ASSUME NEW r \in Req, RequestStep(r) PROVE Grows
  <2>1. CASE WithdrawDebit(r)
    BY <2>1 DEF WithdrawDebit, Grows, rowVars, chainVars
  <2>2. CASE WithdrawConfirm(r)
    BY <2>2 DEF WithdrawConfirm, Grows, ledgerVars, chainVars
  <2> QED
    BY <1>1, <1>2, <2>1, <2>2
    DEF RequestStep, WithdrawFind, WithdrawCreate, WithdrawRead, WithdrawWait,
        WithdrawFailRow, ledgerVars, rowVars, chainVars
<1>3. ASSUME NEW c \in Rec, ReconcileStep(c) PROVE Grows
  <2>1. CASE ReconcileFinalize(c)
    BY <2>1
    DEF ReconcileFinalize, FinalizedHistory, Grows, ledgerVars, chainVars
  <2> QED
    BY <1>1, <1>3, <2>1
    DEF ReconcileStep, ReconcileStart, ReconcileTake, ReconcileTouchFails,
        ReconcileCompensation, ReconcileSeesTx, ReconcileSeesNothing,
        ledgerVars, rowVars, chainVars
<1>4. ASSUME NEW a \in Actor, SharedStep(a) PROVE Grows
  <2>1. ASSUME NEW h \in Hash, Send(a, h) PROVE Grows
    BY <2>1 DEF Send, Grows, FreshUnpaid, ledgerVars, rowVars
  <2> QED
    BY <1>1, <1>4, <2>1
    DEF SharedStep, SendRejected, MarkBroadcasted, InsertChainRow, MarkFailed,
        CompensateFind, CompensateCreate, CompensatePost, ledgerVars, rowVars,
        chainVars
<1>5. ASSUME Environment PROVE Grows
  <2>1. ASSUME NEW a \in Actor, NEW h \in Hash, SendLost(a, h) PROVE Grows
    BY <2>1 DEF SendLost, Grows, FreshUnpaid, ledgerVars, rowVars
  <2> QED
    BY <1>1, <1>5, <2>1
    DEF Environment, Fault, ChainSettles, Crash, ledgerVars, rowVars, chainVars
<1>6. CASE UNCHANGED vars
  BY <1>1, <1>6 DEF vars, ledgerVars, rowVars, chainVars
<1> QED
  BY <1>2, <1>3, <1>4, <1>5, <1>6 DEF Next

LEMMA BackedStays ==
  ASSUME TypeInv, Grows, NEW row \in Row, NEW o \in Op, Backed(row, o)
  PROVE  BackedNext(row, o)
<1>1. row.hash # None => row.hash \in Hash /\ payer[row.hash] # None
  BY ActorsAssumption DEF Row, Backed
<1> QED
  BY <1>1 DEF Grows, Backed, BackedNext, TypeInv, LedgerTyped

\* An actor whose locals a step leaves alone, but for a move to a step that
\* rests on no more than the last, stays backed.
LEMMA LocalStays ==
  ASSUME TypeInv, Provenance, Grows, NEW a \in Actor,
         pc[a] \in Working,
         pc'[a] \in Holding => pc[a] \in Holding,
         pc'[a] \in AfterDebit => pc[a] \in AfterDebit,
         cur'[a] = cur[a], seen'[a] = seen[a], mine'[a] = mine[a]
  PROVE  LocalBacked(a)'
<1>1. /\ cur[a] \in Op /\ seen[a] \in Row /\ Backed(seen[a], cur[a])
      /\ pc[a] \in Holding => mine[a] \in Hash /\ payer[mine[a]] = cur[a]
      /\ pc[a] \in AfterDebit /\ a \in Req => debits[cur[a]] > 0
  BY DEF TypeInv, ProcsTyped, LocalsOK, Provenance, LocalsBacked, LocalBacked,
         Holding
<1>2. Backed(seen[a], cur[a])'
  BY <1>1, BackedStays DEF Backed, BackedNext
<1>3. pc[a] \in Holding => payer'[mine[a]] = cur[a]
  BY <1>1, ActorsAssumption DEF Grows
<1>4. pc[a] \in AfterDebit /\ a \in Req => debits'[cur[a]] > 0
  BY <1>1 DEF Grows, TypeInv, LedgerTyped
<1> QED
  BY <1>1, <1>2, <1>3, <1>4 DEF LocalBacked

\* What a step leaves alone stays backed.
LEMMA QuietBacked ==
  ASSUME TypeInv, Provenance, Grows
  PROVE  /\ UNCHANGED <<chain, payer>> => FreshUnpaid'
         /\ UNCHANGED op => RowsBacked' /\ ConfirmedShown'
         /\ UNCHANGED snap => SnapBacked'
         /\ \A a \in Actor :
              (/\ pc'[a] = pc[a] /\ cur'[a] = cur[a]
               /\ seen'[a] = seen[a] /\ mine'[a] = mine[a])
                => LocalBacked(a)'
<1>1. UNCHANGED <<chain, payer>> => FreshUnpaid'
  BY DEF Provenance, FreshUnpaid
<1>2. \A o \in Op : Shown(o) => Shown(o)'
  BY ActorsAssumption DEF Shown, Grows, TypeInv, RowsTyped
<1>3. UNCHANGED op => RowsBacked' /\ ConfirmedShown'
  <2>1. ASSUME NEW o \in Op, UNCHANGED op PROVE Backed(op[o], o)'
    <3>1. op[o] \in Row /\ Backed(op[o], o)
      BY DEF TypeInv, RowsTyped, Provenance, RowsBacked
    <3>2. op'[o] = op[o]
      BY <2>1
    <3> QED
      BY <3>1, <3>2, BackedStays DEF Backed, BackedNext
  <2> QED
    BY <1>2, <2>1 DEF RowsBacked, ConfirmedShown, Provenance
<1>4. UNCHANGED snap => SnapBacked'
  <2>1. ASSUME NEW c \in Rec, NEW o \in Op, UNCHANGED snap
        PROVE  Backed(snap[c][o], o)'
    <3>1. snap[c][o] \in Row /\ Backed(snap[c][o], o)
      BY DEF TypeInv, BatchTyped, Provenance, SnapBacked
    <3>2. snap'[c][o] = snap[c][o]
      BY <2>1
    <3> QED
      BY <3>1, <3>2, BackedStays DEF Backed, BackedNext
  <2> QED
    BY <2>1 DEF SnapBacked
<1>5. ASSUME NEW a \in Actor, pc'[a] = pc[a], cur'[a] = cur[a],
             seen'[a] = seen[a], mine'[a] = mine[a]
      PROVE  LocalBacked(a)'
  <2>1. CASE pc[a] \in Working
    BY <1>5, <2>1, LocalStays
  <2>2. CASE pc[a] \notin Working
    BY <1>5, <2>2 DEF LocalBacked, Working, Holding, AfterDebit
  <2> QED
    BY <2>1, <2>2
<1> QED
  BY <1>1, <1>3, <1>4, <1>5

LEMMA RestBacked ==
  ASSUME TypeInv, Provenance, Grows, NEW a \in Actor, NEW end \in Ended,
         Rest(a, end)
  PROVE  LocalsBacked'
<1>1. pc'[a] \notin Working
  BY DEF Rest, Resting, TypeInv, ProcsTyped, Ended, Working
<1>2. LocalBacked(a)'
  BY <1>1 DEF LocalBacked, Working, Holding, AfterDebit
<1>3. ASSUME NEW b \in Actor, b # a PROVE LocalBacked(b)'
  BY <1>3, QuietBacked DEF Rest, TypeInv, ProcsTyped
<1> QED
  BY <1>2, <1>3 DEF LocalsBacked

LEMMA GotoBacked ==
  ASSUME TypeInv, Provenance, Grows, NEW a \in Actor, pc[a] \in Working,
         NEW l, Goto(a, l),
         l \in Holding => pc[a] \in Holding,
         l \in AfterDebit => pc[a] \in AfterDebit
  PROVE  LocalsBacked'
<1>1. LocalBacked(a)'
  BY LocalStays DEF Goto, TypeInv, ProcsTyped
<1>2. ASSUME NEW b \in Actor, b # a PROVE LocalBacked(b)'
  BY <1>2, QuietBacked DEF Goto, TypeInv, ProcsTyped
<1> QED
  BY <1>1, <1>2 DEF LocalsBacked

\* A row written back is backed if its hash and its reference are.
LEMMA WriteBacked ==
  ASSUME TypeInv, Provenance, Grows, NEW o \in Op, NEW row \in Row,
         op' = [op EXCEPT ![o] = row],
         BackedNext(row, o), row.status = "CONFIRMED" => ShownNext(o)
  PROVE  RowsBacked' /\ ConfirmedShown'
<1>1. ASSUME NEW p \in Op, p # o
      PROVE  Backed(op[p], p)' /\ (op'[p].status = "CONFIRMED" => Shown(p)')
  <2>1. op'[p] = op[p] /\ op[p] \in Row /\ Backed(op[p], p)
    BY <1>1 DEF TypeInv, RowsTyped, Provenance, RowsBacked
  <2>2. Backed(op[p], p)'
    BY <2>1, BackedStays DEF Backed, BackedNext
  <2>3. Shown(p) => Shown(p)'
    BY ActorsAssumption DEF Shown, Grows, TypeInv, RowsTyped
  <2> QED
    BY <2>1, <2>2, <2>3 DEF Provenance, ConfirmedShown
<1>2. op'[o] = row
  BY DEF TypeInv, RowsTyped
<1>3. Backed(op[o], o)' /\ (op'[o].status = "CONFIRMED" => Shown(o)')
  BY <1>2 DEF Backed, BackedNext, Shown, ShownNext
<1> QED
  BY <1>1, <1>3 DEF RowsBacked, ConfirmedShown

LEMMA InitProvenance == Init => Provenance
  BY DEF Init, Provenance, FreshUnpaid, RowsBacked, ConfirmedShown, SnapBacked,
         LocalsBacked, LocalBacked, Backed, NoRow, Working, Holding, AfterDebit

LEMMA NextProvenance ==
  TypeInv /\ TypeInv' /\ Provenance /\ [Next]_vars => Provenance'
<1> SUFFICES ASSUME TypeInv, TypeInv', Provenance, [Next]_vars
             PROVE  Provenance'
  OBVIOUS
<1>g. Grows
  BY NextGrows DEF Provenance
<1>q. /\ UNCHANGED chainVars => FreshUnpaid'
      /\ UNCHANGED op => RowsBacked' /\ ConfirmedShown'
      /\ UNCHANGED snap => SnapBacked'
      /\ UNCHANGED procVars => LocalsBacked'
  BY <1>g, QuietBacked DEF chainVars, procVars, LocalsBacked
<1>row. \A o \in Op : op[o] \in Row /\ Backed(op[o], o)
  BY DEF TypeInv, RowsTyped, Provenance, RowsBacked
<1>no. \A o \in Op : NoRow \in Row /\ Backed(NoRow, o)'
  BY DEF NoRow, Row, Status, Backed
<1>w. \A a \in Actor : pc[a] \in Working =>
        cur[a] \in Op /\ seen[a] \in Row /\ Backed(seen[a], cur[a])
  BY DEF TypeInv, ProcsTyped, LocalsOK, Provenance, LocalsBacked, LocalBacked
<1>1. ASSUME NEW r \in Req, NEW o \in Op, WithdrawFind(r, o) PROVE Provenance'
  <2>1. r \in Actor
    BY DEF Actor
  <2>2. LocalsBacked'
    <3>1. CASE Rest(r, "answered")
      BY <1>g, <2>1, <3>1, RestBacked DEF Ended
    <3>2. CASE /\ pc' = [pc EXCEPT ![r] =
                           IF op[o].status = "ABSENT" THEN "create" ELSE "read"]
               /\ cur' = [cur EXCEPT ![r] = o]
               /\ seen' = [seen EXCEPT ![r] = op[o]]
               /\ UNCHANGED <<mine, before>>
      <4>1. Backed(op[o], o)'
        BY <1>1, <1>q DEF WithdrawFind, rowVars, RowsBacked
      <4>2. /\ pc'[r] \in {"create", "read"}
            /\ cur'[r] = o /\ seen'[r] = op[o] /\ op' = op
        BY <1>1, <2>1, <3>2 DEF WithdrawFind, rowVars, TypeInv, ProcsTyped
      <4>3. LocalBacked(r)'
        BY <4>1, <4>2 DEF LocalBacked, Backed, Holding, AfterDebit
      <4>4. ASSUME NEW b \in Actor, b # r PROVE LocalBacked(b)'
        BY <1>g, <3>2, <4>4, QuietBacked DEF TypeInv, ProcsTyped
      <4> QED
        BY <4>3, <4>4 DEF LocalsBacked
    <3> QED
      BY <1>1, <3>1, <3>2 DEF WithdrawFind
  <2> QED
    BY <1>1, <1>q, <2>2
    DEF WithdrawFind, Provenance, rowVars, chainVars, batchVars
<1>2. ASSUME NEW r \in Req, WithdrawCreate(r) PROVE Provenance'
  <2>1. r \in Actor /\ pc[r] \in Working /\ cur[r] \in Op
    BY <1>2, <1>w DEF Actor, WithdrawCreate, Working
  <2>2. CASE op[cur[r]].status = "ABSENT"
    <3>1. CreatedRow \in Row /\ \A o \in Op : BackedNext(CreatedRow, o)
      BY DEF CreatedRow, NoRow, Row, Status, BackedNext
    <3>2. CreatedRow.status # "CONFIRMED"
      BY DEF CreatedRow, NoRow
    <3>3. RowsBacked' /\ ConfirmedShown'
      BY <1>2, <1>g, <2>1, <2>2, <3>1, <3>2, WriteBacked DEF WithdrawCreate
    <3>4. /\ pc' = [pc EXCEPT ![r] = "read"]
          /\ seen' = [seen EXCEPT ![r] = CreatedRow]
          /\ UNCHANGED <<cur, mine, before>>
      BY <1>2, <2>2 DEF WithdrawCreate
    <3>5. pc'[r] = "read" /\ seen'[r] = CreatedRow /\ cur'[r] \in Op
      BY <2>1, <3>4 DEF TypeInv, ProcsTyped
    <3>6. LocalBacked(r)'
      BY <3>1, <3>5 DEF LocalBacked, Backed, BackedNext, Holding, AfterDebit
    <3>7. ASSUME NEW b \in Actor, b # r PROVE LocalBacked(b)'
      BY <1>g, <3>4, <3>7, QuietBacked DEF TypeInv, ProcsTyped
    <3> QED
      BY <1>2, <1>q, <3>3, <3>6, <3>7
      DEF WithdrawCreate, Provenance, LocalsBacked, batchVars
  <2>3. CASE op[cur[r]].status # "ABSENT"
    <3>1. Rest(r, "threw") /\ UNCHANGED op
      BY <1>2, <2>3 DEF WithdrawCreate
    <3> QED
      BY <1>2, <1>g, <1>q, <2>1, <3>1, RestBacked
      DEF WithdrawCreate, Provenance, Ended, batchVars
  <2> QED
    BY <2>2, <2>3
<1>3. ASSUME NEW r \in Req, WithdrawRead(r) PROVE Provenance'
  <2>1. r \in Actor /\ pc[r] \in Working
    BY <1>3 DEF Actor, WithdrawRead, Working
  <2>2. LocalBacked(r)'
    BY <1>3, <1>g, <2>1, LocalStays
    DEF WithdrawRead, TypeInv, ProcsTyped, Holding, AfterDebit
  <2>3. ASSUME NEW b \in Actor, b # r PROVE LocalBacked(b)'
    BY <1>3, <1>g, <2>3, QuietBacked DEF WithdrawRead, TypeInv, ProcsTyped
  <2> QED
    BY <1>3, <1>q, <2>2, <2>3
    DEF WithdrawRead, Provenance, LocalsBacked, rowVars, batchVars
<1>4. ASSUME NEW r \in Req, WithdrawDebit(r) PROVE Provenance'
  <2>1. r \in Actor /\ pc[r] \in Working /\ cur[r] \in Op
    BY <1>4, <1>w DEF Actor, WithdrawDebit, Working
  <2>2. debits'[cur[r]] > 0
    BY <1>4, <2>1 DEF WithdrawDebit, TypeInv, LedgerTyped
  <2>3. DebitedRow(op[cur[r]]) \in Row
    BY <1>row, <2>1, RowUpdates DEF DebitedRow, Status
  <2>4. /\ DebitedRow(op[cur[r]]).hash = op[cur[r]].hash
        /\ DebitedRow(op[cur[r]]).status = "DB_COMMITTED"
    BY <1>row, <2>1 DEF DebitedRow, Row
  <2>5. Backed(op[cur[r]], cur[r])
    BY <1>row, <2>1
  <2>6. BackedNext(DebitedRow(op[cur[r]]), cur[r])
    BY <1>4, <2>2, <2>4, <2>5 DEF Backed, BackedNext, WithdrawDebit, chainVars
  <2>7. op' = [op EXCEPT ![cur[r]] = DebitedRow(op[cur[r]])]
    BY <1>4 DEF WithdrawDebit
  <2>8. RowsBacked' /\ ConfirmedShown'
    BY <1>g, <2>1, <2>3, <2>4, <2>6, <2>7, WriteBacked
  <2>9. pc'[r] = "send" /\ cur' = cur /\ seen' = seen /\ mine' = mine
    BY <1>4, <2>1 DEF WithdrawDebit, TypeInv, ProcsTyped
  <2>10. Backed(seen[r], cur[r])'
    BY <1>w, <1>g, <2>1, <2>9, BackedStays DEF Backed, BackedNext
  <2>11. LocalBacked(r)'
    BY <2>2, <2>9, <2>10 DEF LocalBacked, Holding
  <2>12. ASSUME NEW b \in Actor, b # r PROVE LocalBacked(b)'
    BY <1>4, <1>g, <2>12, QuietBacked DEF WithdrawDebit, TypeInv, ProcsTyped
  <2> QED
    BY <1>4, <1>q, <2>8, <2>11, <2>12
    DEF WithdrawDebit, Provenance, LocalsBacked, batchVars
<1>5. ASSUME NEW r \in Req, WithdrawWait(r) PROVE Provenance'
  <2>1. /\ r \in Actor /\ pc[r] \in Working
        /\ pc[r] \in Holding /\ pc[r] \in AfterDebit
    BY <1>5 DEF Actor, WithdrawWait, Working, Holding, AfterDebit
  <2>2. LocalsBacked'
    BY <1>5, <1>g, <2>1, RestBacked, GotoBacked DEF WithdrawWait, Ended
  <2> QED
    BY <1>5, <1>q, <2>2 DEF WithdrawWait, Provenance, rowVars, batchVars
<1>6. ASSUME NEW r \in Req, WithdrawConfirm(r) PROVE Provenance'
  <2> DEFINE row == [op[cur[r]] EXCEPT !.status = "CONFIRMED", !.ref = TRUE]
  <2>1. /\ r \in Actor /\ cur[r] \in Op /\ mine[r] \in Hash
        /\ payer[mine[r]] = cur[r] /\ debits[cur[r]] > 0
    BY <1>6, <1>w
    DEF Actor, WithdrawConfirm, Working, TypeInv, ProcsTyped, LocalsOK,
        Provenance, LocalsBacked, LocalBacked, Holding, AfterDebit
  <2>2. row \in Row /\ row.hash = op[cur[r]].hash
    BY <1>row, <2>1, RowUpdates, RowFields DEF Status
  <2>3. op' = [op EXCEPT ![cur[r]] = row]
    BY <1>6, <1>row, <2>1 DEF WithdrawConfirm, TypeInv, RowsTyped, Row
  <2>4. BackedNext(row, cur[r])
    BY <1>6, <1>row, <2>1, <2>2
    DEF Backed, BackedNext, WithdrawConfirm, ledgerVars, chainVars
  <2>5. history'[mine[r]] > 0 /\ payer'[mine[r]] = cur[r]
    BY <1>6, <2>1 DEF WithdrawConfirm, chainVars, TypeInv, RowsTyped
  <2>6. ShownNext(cur[r])
    BY <2>1, <2>5 DEF ShownNext
  <2>7. RowsBacked' /\ ConfirmedShown'
    <3> HIDE DEF row
    <3> QED
      BY <1>g, <2>1, <2>2, <2>3, <2>4, <2>6, WriteBacked
  <2>9. LocalsBacked'
    BY <1>6, <1>g, <2>1, RestBacked DEF WithdrawConfirm, Ended
  <2> QED
    BY <1>6, <1>q, <2>7, <2>9 DEF WithdrawConfirm, Provenance, batchVars
<1>7. ASSUME NEW r \in Req, WithdrawFailRow(r) PROVE Provenance'
  <2>1. r \in Actor /\ pc[r] \in Working
    BY <1>7 DEF Actor, WithdrawFailRow, Working
  <2>2. LocalsBacked'
    BY <1>7, <1>g, <2>1, GotoBacked DEF WithdrawFailRow, Holding, AfterDebit
  <2> QED
    BY <1>7, <1>q, <2>2 DEF WithdrawFailRow, Provenance, batchVars
<1>8. ASSUME NEW a \in Actor, NEW h \in Hash, Send(a, h) PROVE Provenance'
  <2>1. pc[a] \in Working /\ cur[a] \in Op
    BY <1>8, <1>w DEF Send, Working
  <2>2. payer'[h] = cur[a] /\ FreshUnpaid'
    BY <1>8, <2>1 DEF Send, TypeInv, ChainTyped, Provenance, FreshUnpaid
  <2>3. /\ pc'[a] = "mark" /\ mine'[a] = h /\ cur' = cur /\ seen' = seen
        /\ debits' = debits
    BY <1>8 DEF Send, TypeInv, ProcsTyped, ledgerVars
  <2>4. BackedNext(seen[a], cur[a])
    BY <1>w, <1>g, <2>1, BackedStays
  <2>5. a \in Req => debits[cur[a]] > 0
    BY <1>8 DEF Send, Provenance, LocalsBacked, LocalBacked, AfterDebit
  <2>6. LocalBacked(a)'
    BY <2>2, <2>3, <2>4, <2>5 DEF LocalBacked, Backed, BackedNext
  <2>7. ASSUME NEW b \in Actor, b # a PROVE LocalBacked(b)'
    BY <1>8, <1>g, <2>7, QuietBacked DEF Send, TypeInv, ProcsTyped
  <2> QED
    BY <1>8, <1>q, <2>2, <2>6, <2>7
    DEF Send, Provenance, LocalsBacked, rowVars, batchVars
<1>9. ASSUME NEW a \in Actor, NEW h \in Hash, SendLost(a, h) PROVE Provenance'
  <2>1. pc[a] \in Working
    BY <1>9 DEF SendLost, Working
  <2>2. FreshUnpaid'
    BY <1>9 DEF SendLost, TypeInv, ChainTyped, Provenance, FreshUnpaid
  <2>3. LocalsBacked'
    BY <1>9, <1>g, <2>1, GotoBacked DEF SendLost, Holding, AfterDebit
  <2> QED
    BY <1>9, <1>q, <2>2, <2>3 DEF SendLost, Provenance, rowVars, batchVars
<1>10. ASSUME NEW a \in Actor, SendRejected(a) PROVE Provenance'
  <2>1. LocalsBacked'
    BY <1>10, <1>g, GotoBacked DEF SendRejected, Working, Holding, AfterDebit
  <2> QED
    BY <1>10, <1>q, <2>1 DEF SendRejected, Provenance, rowVars, batchVars
<1>11. ASSUME NEW a \in Actor, MarkBroadcasted(a) PROVE Provenance'
  <2> DEFINE row == [status |-> "BROADCASTED", hash |-> mine[a],
                     ref |-> seen[a].ref]
  <2>1. /\ pc[a] \in Working /\ cur[a] \in Op /\ mine[a] \in Hash
        /\ seen[a] \in Row /\ Backed(seen[a], cur[a])
        /\ payer[mine[a]] = cur[a]
    BY <1>11, <1>w
    DEF MarkBroadcasted, Working, Holding, TypeInv, ProcsTyped, LocalsOK,
        Provenance, LocalsBacked, LocalBacked
  <2>2. row \in Row
    BY <2>1 DEF Row, Status
  <2>3. BackedNext(row, cur[a])
    BY <1>11, <2>1
    DEF MarkBroadcasted, Backed, BackedNext, ledgerVars, chainVars
  <2>4. op' = [op EXCEPT ![cur[a]] = row] /\ row.status # "CONFIRMED"
    BY <1>11 DEF MarkBroadcasted
  <2>5. RowsBacked' /\ ConfirmedShown'
    <3> HIDE DEF row
    <3> QED
      BY <1>g, <2>1, <2>2, <2>3, <2>4, WriteBacked
  <2>6. LocalsBacked'
    BY <1>11, <1>g, <2>1, GotoBacked DEF MarkBroadcasted, Holding, AfterDebit
  <2> QED
    BY <1>11, <1>q, <2>5, <2>6 DEF MarkBroadcasted, Provenance, batchVars
<1>12. ASSUME NEW a \in Actor, InsertChainRow(a) PROVE Provenance'
  <2>1. LocalsBacked'
    BY <1>12, <1>g, GotoBacked, RestBacked
    DEF InsertChainRow, Working, Holding, AfterDebit, Ended
  <2> QED
    BY <1>12, <1>q, <2>1 DEF InsertChainRow, Provenance, batchVars
<1>13. ASSUME NEW a \in Actor, MarkFailed(a) PROVE Provenance'
  <2> DEFINE row == [op[cur[a]] EXCEPT !.status = "FAILED"]
  <2>1. /\ pc[a] \in Working /\ cur[a] \in Op
        /\ op[cur[a]] \in Row /\ Backed(op[cur[a]], cur[a])
    BY <1>13, <1>w, <1>row DEF MarkFailed, Working
  <2>2. /\ row \in Row /\ row.status = "FAILED"
        /\ row.hash = op[cur[a]].hash /\ row.ref = op[cur[a]].ref
    BY <2>1, RowUpdates, RowFields DEF Status
  <2>3. BackedNext(row, cur[a])
    BY <1>13, <2>1, <2>2
    DEF MarkFailed, Backed, BackedNext, ledgerVars, chainVars
  <2>4. op' = [op EXCEPT ![cur[a]] = row]
    BY <1>13 DEF MarkFailed, SetStatus
  <2>5. RowsBacked' /\ ConfirmedShown'
    <3> HIDE DEF row
    <3> QED
      BY <1>g, <2>1, <2>2, <2>3, <2>4, WriteBacked
  <2>6. LocalsBacked'
    BY <1>13, <1>g, <2>1, GotoBacked DEF MarkFailed, Holding, AfterDebit
  <2> QED
    BY <1>13, <1>q, <2>5, <2>6 DEF MarkFailed, Provenance, batchVars
<1>14. ASSUME NEW a \in Actor, CompensateFind(a) PROVE Provenance'
  <2>1. pc[a] \in Working /\ cur[a] \in Op
    BY <1>14, <1>w DEF CompensateFind, Working
  <2>2. comp[cur[a]] \in {"ABSENT", "NEW", "CONFIRMED"}
    BY <2>1 DEF TypeInv, RowsTyped
  <2>3. Rest(a, "threw") \/ Goto(a, "compPost") \/ Goto(a, "compCreate")
    BY <1>14, <2>2 DEF CompensateFind
  <2>4. LocalsBacked'
    BY <1>g, <2>1, <2>3, GotoBacked, RestBacked
    DEF Holding, AfterDebit, Ended
  <2> QED
    BY <1>14, <1>q, <2>4 DEF CompensateFind, Provenance, rowVars, batchVars
<1>esc. ASSUME NEW a \in Actor, Escape(a) PROVE LocalsBacked' /\ SnapBacked'
  <2>1. LocalsBacked'
    BY <1>esc, <1>g, RestBacked DEF Escape, Ended
  <2>2. SnapBacked'
    <3>1. CASE a \in Rec
      <4>1. ASSUME NEW c \in Rec, NEW o \in Op PROVE Backed(snap[c][o], o)'
        <5>1. snap[c][o] \in Row /\ Backed(snap[c][o], o)
          BY DEF TypeInv, BatchTyped, Provenance, SnapBacked
        <5>2. snap'[c][o] = NoRow \/ snap'[c][o] = snap[c][o]
          BY <1>esc, <3>1 DEF Escape, TypeInv, BatchTyped
        <5>3. BackedNext(snap[c][o], o) /\ BackedNext(NoRow, o)
          BY <1>g, <5>1, BackedStays DEF BackedNext, NoRow
        <5> QED
          BY <5>2, <5>3 DEF Backed, BackedNext
      <4> QED
        BY <4>1 DEF SnapBacked
    <3>2. CASE a \notin Rec
      BY <1>esc, <1>q, <3>2 DEF Escape, batchVars
    <3> QED
      BY <3>1, <3>2
  <2> QED
    BY <2>1, <2>2
<1>15. ASSUME NEW a \in Actor, CompensateCreate(a) PROVE Provenance'
  <2>1. pc[a] \in Working
    BY <1>15 DEF CompensateCreate, Working
  <2>2. LocalsBacked' /\ SnapBacked'
    BY <1>15, <1>g, <1>q, <1>esc, <2>1, GotoBacked
    DEF CompensateCreate, Holding, AfterDebit, batchVars
  <2> QED
    BY <1>15, <1>q, <2>2 DEF CompensateCreate, Provenance
<1>16. ASSUME NEW a \in Actor, CompensatePost(a) PROVE Provenance'
  <2> DEFINE row == [op[cur[a]] EXCEPT !.status = "COMPENSATED",
                                       !.ref = seen[a].ref]
  <2>1. /\ cur[a] \in Op /\ op[cur[a]] \in Row /\ Backed(op[cur[a]], cur[a])
        /\ seen[a] \in Row /\ Backed(seen[a], cur[a])
    BY <1>16, <1>w, <1>row DEF CompensatePost, Working
  <2>2. seen[a].ref \in BOOLEAN
    BY <2>1 DEF Row
  <2>3. /\ row \in Row /\ row.status = "COMPENSATED"
        /\ row.hash = op[cur[a]].hash /\ row.ref = seen[a].ref
    <3>1. "COMPENSATED" \in Status
      BY DEF Status
    <3>2. row \in Row
      BY <2>1, <2>2, <3>1, RowUpdates
    <3>3. /\ row.status = "COMPENSATED"
          /\ row.hash = op[cur[a]].hash /\ row.ref = seen[a].ref
      BY <2>1, <2>2, <3>1, RowFields
    <3> QED
      BY <3>2, <3>3
  <2>4. BackedNext(row, cur[a])
    BY <1>16, <2>1, <2>3 DEF CompensatePost, Backed, BackedNext, chainVars
  <2>5. op' = [op EXCEPT ![cur[a]] = row]
    BY <1>16, <2>1 DEF CompensatePost, TypeInv, RowsTyped, Row
  <2>6. RowsBacked' /\ ConfirmedShown'
    <3> HIDE DEF row
    <3> QED
      BY <1>g, <2>1, <2>3, <2>4, <2>5, WriteBacked
  <2>7. LocalsBacked'
    BY <1>16, <1>g, RestBacked DEF CompensatePost, Ended
  <2> QED
    BY <1>16, <1>q, <2>6, <2>7 DEF CompensatePost, Provenance, batchVars
<1>17. ASSUME NEW c \in Rec, ReconcileStart(c) PROVE Provenance'
  <2>1. ASSUME NEW d \in Rec, NEW o \in Op PROVE Backed(snap[d][o], o)'
    <3>1. /\ snap[d][o] \in Row /\ Backed(snap[d][o], o)
          /\ op[o] \in Row /\ Backed(op[o], o)
      BY <1>row DEF TypeInv, BatchTyped, Provenance, SnapBacked
    <3>2. snap'[d][o] \in {snap[d][o], op[o], NoRow}
      BY <1>17 DEF ReconcileStart, TypeInv, BatchTyped
    <3>3. /\ BackedNext(snap[d][o], o) /\ BackedNext(op[o], o)
          /\ BackedNext(NoRow, o)
      BY <1>g, <3>1, BackedStays DEF BackedNext, NoRow
    <3> QED
      BY <3>2, <3>3 DEF Backed, BackedNext
  <2> QED
    BY <1>17, <1>q, <2>1 DEF ReconcileStart, Provenance, SnapBacked, rowVars
<1>drop. ASSUME NEW c \in Rec, NEW o \in Op,
                snap' = [snap EXCEPT ![c][o] = NoRow]
         PROVE  SnapBacked'
  <2>1. ASSUME NEW d \in Rec, NEW p \in Op PROVE Backed(snap[d][p], p)'
    <3>1. snap[d][p] \in Row /\ Backed(snap[d][p], p)
      BY DEF TypeInv, BatchTyped, Provenance, SnapBacked
    <3>2. snap'[d][p] \in {snap[d][p], NoRow}
      BY <1>drop DEF TypeInv, BatchTyped
    <3>3. BackedNext(snap[d][p], p) /\ BackedNext(NoRow, p)
      BY <1>g, <3>1, BackedStays DEF BackedNext, NoRow
    <3> QED
      BY <3>2, <3>3 DEF Backed, BackedNext
  <2> QED
    BY <2>1 DEF SnapBacked
<1>pick. ASSUME NEW c \in Rec, NEW o \in Op,
                cur' = [cur EXCEPT ![c] = o],
                seen' = [seen EXCEPT ![c] = snap[c][o]], mine' = mine,
                NEW l \in {"send", "check", "markFailed"},
                pc' = [pc EXCEPT ![c] = l]
         PROVE  LocalsBacked'
  <2>1. c \in Actor /\ c \notin Req
    BY ActorsAssumption DEF Actor
  <2>2. snap[c][o] \in Row /\ Backed(snap[c][o], o)
    BY DEF TypeInv, BatchTyped, Provenance, SnapBacked
  <2>3. BackedNext(snap[c][o], o)
    BY <1>g, <2>2, BackedStays
  <2>4. pc'[c] = l /\ cur'[c] = o /\ seen'[c] = snap[c][o]
    BY <1>pick, <2>1 DEF TypeInv, ProcsTyped
  <2>5. LocalBacked(c)'
    BY <2>1, <2>3, <2>4 DEF LocalBacked, Backed, BackedNext, Holding
  <2>6. ASSUME NEW b \in Actor, b # c PROVE LocalBacked(b)'
    BY <1>pick, <1>g, <2>6, QuietBacked DEF TypeInv, ProcsTyped
  <2> QED
    BY <2>5, <2>6 DEF LocalsBacked
<1>18. ASSUME NEW c \in Rec, NEW o \in Op, ReconcileTake(c, o)
       PROVE  Provenance'
  <2>1. LocalsBacked'
    <3>1. CASE pc' = pc
      <4>1. c \in Actor /\ pc'[c] = "idle"
        BY <1>18, <3>1 DEF ReconcileTake, Actor
      <4> QED
        BY <1>18, <1>q, <3>1, <4>1 DEF ReconcileTake, procVars
    <3>2. ASSUME NEW l \in {"send", "check"}, pc' = [pc EXCEPT ![c] = l]
          PROVE  LocalsBacked'
      <4>1. c \in Actor /\ pc'[c] # "idle"
        BY <3>2 DEF Actor, TypeInv, ProcsTyped
      <4> QED
        BY <1>18, <1>pick, <3>2, <4>1 DEF ReconcileTake
    <3> QED
      BY <1>18, <3>1, <3>2 DEF ReconcileTake
  <2> QED
    BY <1>18, <1>q, <1>drop, <2>1 DEF ReconcileTake, Provenance, rowVars
<1>19. ASSUME NEW c \in Rec, NEW o \in Op, ReconcileTouchFails(c, o)
       PROVE  Provenance'
  <2>1. LocalsBacked'
    BY <1>19, <1>pick DEF ReconcileTouchFails
  <2> QED
    BY <1>19, <1>q, <1>drop, <2>1 DEF ReconcileTouchFails, Provenance, rowVars
<1>20. ASSUME NEW c \in Rec, NEW o \in Op, ReconcileCompensation(c, o)
       PROVE  Provenance'
  BY <1>20, <1>q DEF ReconcileCompensation, Provenance
<1>21. ASSUME NEW c \in Rec, ReconcileSeesTx(c) PROVE Provenance'
  <2>1. c \in Actor /\ pc[c] \in Working
    BY <1>21 DEF ReconcileSeesTx, Actor, Working
  <2>2. LocalsBacked'
    BY <1>21, <1>g, <2>1, GotoBacked DEF ReconcileSeesTx, Holding, AfterDebit
  <2> QED
    BY <1>21, <1>q, <2>2 DEF ReconcileSeesTx, Provenance, rowVars, batchVars
<1>22. ASSUME NEW c \in Rec, ReconcileSeesNothing(c) PROVE Provenance'
  <2>1. LocalsBacked'
    BY <1>22, <1>g, RestBacked DEF ReconcileSeesNothing, Actor, Ended
  <2> QED
    BY <1>22, <1>q, <2>1
    DEF ReconcileSeesNothing, Provenance, rowVars, batchVars
<1>23. ASSUME NEW c \in Rec, ReconcileFinalize(c) PROVE Provenance'
  <2> DEFINE row == [op[cur[c]] EXCEPT !.status = "CONFIRMED",
                                       !.ref = seen[c].ref]
  <2>1. /\ c \in Actor /\ cur[c] \in Op
        /\ op[cur[c]] \in Row /\ Backed(op[cur[c]], cur[c])
        /\ seen[c] \in Row /\ Backed(seen[c], cur[c]) /\ seen[c].hash \in Hash
    BY <1>23, <1>w, <1>row
    DEF ReconcileFinalize, Working, Actor, TypeInv, ProcsTyped, LocalsOK
  <2>2. seen[c].ref \in BOOLEAN /\ payer[seen[c].hash] = cur[c]
    BY <2>1, ActorsAssumption DEF Row, Backed
  <2>3. /\ row \in Row /\ row.hash = op[cur[c]].hash
        /\ row.ref = seen[c].ref /\ row.status = "CONFIRMED"
    <3>1. "CONFIRMED" \in Status
      BY DEF Status
    <3>2. row \in Row
      BY <2>1, <2>2, <3>1, RowUpdates
    <3>3. /\ row.hash = op[cur[c]].hash
          /\ row.ref = seen[c].ref /\ row.status = "CONFIRMED"
      BY <2>1, <2>2, <3>1, RowFields
    <3> QED
      BY <3>2, <3>3
  <2>4. BackedNext(row, cur[c])
    BY <1>23, <2>1, <2>3
    DEF ReconcileFinalize, Backed, BackedNext, ledgerVars, chainVars
  <2>5. history'[seen[c].hash] > 0 /\ payer'[seen[c].hash] = cur[c]
    BY <1>23, <2>1, <2>2
    DEF ReconcileFinalize, FinalizedHistory, chainVars, TypeInv, RowsTyped
  <2>6. ShownNext(cur[c])
    BY <2>1, <2>5 DEF ShownNext
  <2>7. op' = [op EXCEPT ![cur[c]] = row]
    BY <1>23, <2>1 DEF ReconcileFinalize, TypeInv, RowsTyped, Row
  <2>8. RowsBacked' /\ ConfirmedShown'
    <3> HIDE DEF row
    <3> QED
      BY <1>g, <2>1, <2>3, <2>4, <2>6, <2>7, WriteBacked
  <2>9. LocalsBacked'
    BY <1>23, <1>g, <2>1, RestBacked DEF ReconcileFinalize, Ended
  <2> QED
    BY <1>23, <1>q, <2>8, <2>9 DEF ReconcileFinalize, Provenance, batchVars
<1>24. ASSUME NEW a \in Actor, Fault(a) PROVE Provenance'
  <2>1. LocalsBacked' /\ SnapBacked'
    <3>1. CASE pc[a] \in InTry /\ Goto(a, "markFailed") /\ UNCHANGED batchVars
      BY <3>1, <1>g, <1>q, GotoBacked
      DEF InTry, Working, Holding, AfterDebit, batchVars
    <3>2. CASE pc[a] = "confirm" /\ Goto(a, "failRow") /\ UNCHANGED batchVars
      BY <3>2, <1>g, <1>q, GotoBacked
      DEF Working, Holding, AfterDebit, batchVars
    <3>3. CASE Escape(a)
      BY <3>3, <1>esc
    <3> QED
      BY <1>24, <3>1, <3>2, <3>3 DEF Fault
  <2> QED
    BY <1>24, <1>q, <2>1 DEF Fault, Provenance, rowVars
<1>25. ASSUME Crash PROVE Provenance'
  <2>1. LocalsBacked'
    BY <1>25
    DEF Crash, Resting, LocalsBacked, LocalBacked, TypeInv, ProcsTyped,
        Working, Holding, AfterDebit
  <2>2. SnapBacked'
    BY <1>25 DEF Crash, SnapBacked, Backed, NoRow
  <2> QED
    BY <1>25, <1>q, <2>1, <2>2 DEF Crash, Provenance, rowVars
<1>26. ASSUME NEW h \in Hash, ChainSettles(h) PROVE Provenance'
  <2>1. FreshUnpaid'
    BY <1>26 DEF ChainSettles, Provenance, FreshUnpaid, TypeInv, ChainTyped
  <2> QED
    BY <1>26, <1>q, <2>1 DEF ChainSettles, Provenance, rowVars, batchVars
<1>27. CASE UNCHANGED vars
  BY <1>27, <1>q DEF vars, Provenance, rowVars, batchVars
<1> QED
  BY <1>1, <1>2, <1>3, <1>4, <1>5, <1>6, <1>7, <1>8, <1>9, <1>10, <1>11, <1>12,
     <1>13, <1>14, <1>15, <1>16, <1>17, <1>18, <1>19, <1>20, <1>21, <1>22,
     <1>23, <1>24, <1>25, <1>26, <1>27
  DEF Next, RequestStep, ReconcileStep, SharedStep, Environment

LEMMA AlwaysProvenance == Spec => [](TypeInv /\ Provenance)
<1>1. Spec => []TypeInv
  BY InitTyped, NextTyped, PTL DEF Spec
<1>2. Spec => []Provenance
  BY <1>1, InitProvenance, NextProvenance, PTL DEF Spec
<1> QED
  BY <1>1, <1>2, PTL

\* An operation that claims to be debited is, whichever stale row was written
\* back over it.
THEOREM CommittedIsDebited == Spec => []CommittedMeansDebited
<1>1. Provenance => CommittedMeansDebited
  BY DEF Provenance, RowsBacked, Backed, CommittedMeansDebited
<1> QED
  BY <1>1, AlwaysProvenance, PTL

\* A stored hash is that of a transaction sent for its own operation.
THEOREM HashIsOwn == Spec => []HashPaysItsOperation
<1>1. Provenance => HashPaysItsOperation
  BY DEF Provenance, RowsBacked, Backed, HashPaysItsOperation
<1> QED
  BY <1>1, AlwaysProvenance, PTL

\* A confirmed withdrawal is in the customer's history with its transaction.
THEOREM ConfirmedIsShown == Spec => []ConfirmedHasHistory
<1>1. Provenance => ConfirmedHasHistory
  BY DEF Provenance, ConfirmedShown, Shown, ConfirmedHasHistory
<1> QED
  BY <1>1, AlwaysProvenance, PTL

-----------------------------------------------------------------------------
(* Refunds.  An actor on its way to a refund has recorded a failure that no *)
(* other refund answers, so these actors have to be counted in.             *)

RefundPc == {"compFind", "compCreate", "compPost"}
Refunding(o) == {a \in Actor : pc[a] \in RefundPc /\ cur[a] = o}

RefundsCovered ==
  \A o \in Op : refunds[o] + Cardinality(Refunding(o)) <= failures[o]

LEMMA RefundingFinite ==
  /\ IsFiniteSet(Actor)
  /\ \A o : IsFiniteSet(Refunding(o)) /\ Cardinality(Refunding(o)) \in Nat
  /\ \A o : IsFiniteSet(Refunding(o)') /\ Cardinality(Refunding(o)') \in Nat
<1>1. IsFiniteSet(Actor)
  BY ActorsAssumption, FS_Union DEF Actor
<1>2. \A S : S \subseteq Actor => IsFiniteSet(S) /\ Cardinality(S) \in Nat
  BY <1>1, FS_Subset, FS_CardinalityType
<1> QED
  BY <1>1, <1>2 DEF Refunding

LEMMA InitCovered == Init => RefundsCovered
<1> SUFFICES ASSUME Init, NEW o \in Op
             PROVE  refunds[o] + Cardinality(Refunding(o)) <= failures[o]
  BY DEF RefundsCovered
<1>1. Refunding(o) = {}
  BY DEF Init, Refunding, RefundPc
<1>2. Cardinality(Refunding(o)) = 0
  BY <1>1, FS_EmptySet
<1> QED
  BY <1>2 DEF Init

\* Whoever is on its way to a refund in the next state was in this one, unless
\* the step is a MarkFailed.
LEMMA RefundingShrinks ==
  ASSUME TypeInv, [Next]_vars, \A a \in Actor : ~MarkFailed(a)
  PROVE  \A o \in Op : Refunding(o)' \subseteq Refunding(o)
<1> SUFFICES ASSUME NEW o \in Op, NEW a \in Actor,
                    pc'[a] \in RefundPc, cur'[a] = o
             PROVE  pc[a] \in RefundPc /\ cur[a] = o
  BY DEF Refunding
<1> USE DEF TypeInv, ProcsTyped, RefundPc
<1>goto. ASSUME NEW b \in Actor, NEW l, Goto(b, l),
                l \in RefundPc => pc[b] \in RefundPc
         PROVE  pc[a] \in RefundPc /\ cur[a] = o
  BY <1>goto DEF Goto
<1>rest. ASSUME NEW b \in Actor, NEW end \in Ended, Rest(b, end)
         PROVE  pc[a] \in RefundPc /\ cur[a] = o
  BY <1>rest DEF Rest, Resting, Ended
<1>1. ASSUME NEW r \in Req, RequestStep(r)
      PROVE  pc[a] \in RefundPc /\ cur[a] = o
  <2>1. r \in Actor
    BY DEF Actor
  <2>2. ASSUME NEW p \in Op, WithdrawFind(r, p)
        PROVE  pc[a] \in RefundPc /\ cur[a] = o
    BY <1>rest, <2>1, <2>2 DEF WithdrawFind, Ended
  <2>3. CASE WithdrawCreate(r)
    BY <1>rest, <2>1, <2>3 DEF WithdrawCreate, Ended
  <2>4. CASE WithdrawRead(r) \/ WithdrawDebit(r)
    BY <2>1, <2>4 DEF WithdrawRead, WithdrawDebit
  <2>5. CASE WithdrawWait(r)
    BY <1>rest, <1>goto, <2>1, <2>5 DEF WithdrawWait, Ended
  <2>6. CASE WithdrawConfirm(r)
    BY <1>rest, <2>1, <2>6 DEF WithdrawConfirm, Ended
  <2>7. CASE WithdrawFailRow(r)
    BY <1>goto, <2>1, <2>7 DEF WithdrawFailRow
  <2> QED
    BY <1>1, <2>2, <2>3, <2>4, <2>5, <2>6, <2>7 DEF RequestStep
<1>2. ASSUME NEW c \in Rec, ReconcileStep(c)
      PROVE  pc[a] \in RefundPc /\ cur[a] = o
  <2>1. c \in Actor
    BY DEF Actor
  <2>2. ASSUME NEW p \in Op, ReconcileTake(c, p)
        PROVE  pc[a] \in RefundPc /\ cur[a] = o
    BY <2>1, <2>2 DEF ReconcileTake
  <2>3. ASSUME NEW p \in Op, ReconcileTouchFails(c, p)
        PROVE  pc[a] \in RefundPc /\ cur[a] = o
    BY <2>1, <2>3 DEF ReconcileTouchFails
  <2>4. ASSUME ReconcileStart(c) \/ \E p \in Op : ReconcileCompensation(c, p)
        PROVE  pc[a] \in RefundPc /\ cur[a] = o
    BY <2>4 DEF ReconcileStart, ReconcileCompensation, procVars
  <2>5. CASE ReconcileSeesTx(c)
    BY <1>goto, <2>1, <2>5 DEF ReconcileSeesTx
  <2>6. CASE ReconcileSeesNothing(c) \/ ReconcileFinalize(c)
    BY <1>rest, <2>1, <2>6 DEF ReconcileSeesNothing, ReconcileFinalize, Ended
  <2> QED
    BY <1>2, <2>2, <2>3, <2>4, <2>5, <2>6 DEF ReconcileStep
<1>3. ASSUME NEW b \in Actor, SharedStep(b)
      PROVE  pc[a] \in RefundPc /\ cur[a] = o
  <2>1. ASSUME NEW h \in Hash, Send(b, h)
        PROVE  pc[a] \in RefundPc /\ cur[a] = o
    BY <2>1 DEF Send
  <2>2. CASE SendRejected(b)
    BY <1>goto, <2>2 DEF SendRejected
  <2>3. CASE MarkBroadcasted(b)
    BY <1>goto, <2>3 DEF MarkBroadcasted
  <2>4. CASE InsertChainRow(b)
    BY <1>goto, <1>rest, <2>4 DEF InsertChainRow, Ended
  <2>5. CASE CompensateFind(b)
    <3>1. pc[b] = "compFind" /\ cur[b] \in Op
      BY <2>5 DEF CompensateFind, LocalsOK, Working
    <3>2. comp[cur[b]] \in {"ABSENT", "NEW", "CONFIRMED"}
      BY <3>1 DEF RowsTyped
    <3>3. Rest(b, "threw") \/ Goto(b, "compPost") \/ Goto(b, "compCreate")
      BY <2>5, <3>2 DEF CompensateFind
    <3> QED
      BY <1>goto, <1>rest, <3>1, <3>3 DEF Ended
  <2>6. CASE CompensateCreate(b)
    BY <1>goto, <1>rest, <2>6 DEF CompensateCreate, Escape, Ended
  <2>7. CASE CompensatePost(b)
    BY <1>rest, <2>7 DEF CompensatePost, Ended
  <2> QED
    BY <1>3, <2>1, <2>2, <2>3, <2>4, <2>5, <2>6, <2>7 DEF SharedStep
<1>4. ASSUME Environment PROVE pc[a] \in RefundPc /\ cur[a] = o
  <2>1. ASSUME NEW b \in Actor, Fault(b)
        PROVE  pc[a] \in RefundPc /\ cur[a] = o
    BY <1>goto, <1>rest, <2>1 DEF Fault, Escape, Ended
  <2>2. ASSUME NEW b \in Actor, NEW h \in Hash, SendLost(b, h)
        PROVE  pc[a] \in RefundPc /\ cur[a] = o
    BY <1>goto, <2>2 DEF SendLost
  <2>3. ASSUME NEW h \in Hash, ChainSettles(h)
        PROVE  pc[a] \in RefundPc /\ cur[a] = o
    BY <2>3 DEF ChainSettles, procVars
  <2>4. CASE Crash
    BY <2>4 DEF Crash, Resting, Working
  <2> QED
    BY <1>4, <2>1, <2>2, <2>3, <2>4 DEF Environment
<1>5. CASE UNCHANGED vars
  BY <1>5 DEF vars, procVars
<1> QED
  BY <1>1, <1>2, <1>3, <1>4, <1>5 DEF Next

LEMMA NextCovered ==
  TypeInv /\ TypeInv' /\ RefundsCovered /\ [Next]_vars => RefundsCovered'
<1> SUFFICES ASSUME TypeInv, TypeInv', RefundsCovered, [Next]_vars, NEW o \in Op
             PROVE  refunds'[o] + Cardinality(Refunding(o)') <= failures'[o]
  BY DEF RefundsCovered
<1>t. /\ refunds[o] \in Nat /\ failures[o] \in Nat
      /\ refunds'[o] \in Nat /\ failures'[o] \in Nat
      /\ refunds[o] + Cardinality(Refunding(o)) <= failures[o]
  BY DEF TypeInv, LedgerTyped, RowsTyped, RefundsCovered
<1>f. /\ IsFiniteSet(Refunding(o)) /\ Cardinality(Refunding(o)) \in Nat
      /\ Cardinality(Refunding(o)') \in Nat
  BY RefundingFinite
<1>1. ASSUME NEW a \in Actor, MarkFailed(a)
      PROVE  refunds'[o] + Cardinality(Refunding(o)') <= failures'[o]
  <2>1. /\ refunds' = refunds
        /\ failures'[o] = IF cur[a] = o THEN failures[o] + 1 ELSE failures[o]
    BY <1>1 DEF MarkFailed, ledgerVars, TypeInv, RowsTyped
  <2>2. CASE cur[a] = o
    <3>1. Refunding(o)' \subseteq Refunding(o) \cup {a}
      BY <1>1 DEF MarkFailed, Goto, Refunding, TypeInv, ProcsTyped
    <3>2. /\ IsFiniteSet(Refunding(o) \cup {a})
          /\ Cardinality(Refunding(o) \cup {a}) \in Nat
          /\ Cardinality(Refunding(o) \cup {a}) <= Cardinality(Refunding(o)) + 1
      <4>1. /\ IsFiniteSet(Refunding(o) \cup {a})
            /\ Cardinality(Refunding(o) \cup {a})
                 = IF a \in Refunding(o) THEN Cardinality(Refunding(o))
                                         ELSE Cardinality(Refunding(o)) + 1
        BY <1>f, FS_AddElement
      <4> QED
        BY <1>f, <4>1
    <3>3. Cardinality(Refunding(o)') <= Cardinality(Refunding(o) \cup {a})
      BY <3>1, <3>2, FS_Subset
    <3> QED
      BY <1>t, <1>f, <2>1, <2>2, <3>2, <3>3
  <2>3. CASE cur[a] # o
    <3>1. Refunding(o)' \subseteq Refunding(o)
      BY <1>1, <2>3 DEF MarkFailed, Goto, Refunding, TypeInv, ProcsTyped
    <3>2. Cardinality(Refunding(o)') <= Cardinality(Refunding(o))
      BY <1>f, <3>1, FS_Subset
    <3> QED
      BY <1>t, <1>f, <2>1, <2>3, <3>2
  <2> QED
    BY <2>2, <2>3
<1>2. CASE \A a \in Actor : ~MarkFailed(a)
  <2>1. Refunding(o)' \subseteq Refunding(o)
    BY <1>2, RefundingShrinks
  <2>2. ASSUME NEW a \in Actor, CompensatePost(a), cur[a] = o
        PROVE  refunds'[o] + Cardinality(Refunding(o)') <= failures'[o]
    <3>1. refunds'[o] = refunds[o] + 1 /\ failures' = failures
      BY <2>2 DEF CompensatePost, TypeInv, LedgerTyped
    <3>2. a \in Refunding(o) /\ a \notin Refunding(o)'
      BY <2>2
      DEF CompensatePost, Rest, Resting, Refunding, RefundPc, TypeInv,
          ProcsTyped
    <3>3. /\ IsFiniteSet(Refunding(o) \ {a})
          /\ Cardinality(Refunding(o) \ {a}) = Cardinality(Refunding(o)) - 1
      BY <1>f, <3>2, FS_RemoveElement
    <3>4. Cardinality(Refunding(o)') <= Cardinality(Refunding(o) \ {a})
      BY <2>1, <3>2, <3>3, FS_Subset
    <3> QED
      BY <1>t, <1>f, <3>1, <3>3, <3>4
  <2>3. CASE refunds'[o] = refunds[o] /\ failures' = failures
    <3>1. Cardinality(Refunding(o)') <= Cardinality(Refunding(o))
      BY <1>f, <2>1, FS_Subset
    <3> QED
      BY <1>t, <1>f, <2>3, <3>1
  <2>4. ASSUME NEW a \in Actor, CompensatePost(a), cur[a] # o
        PROVE  refunds'[o] = refunds[o] /\ failures' = failures
    BY <2>4 DEF CompensatePost, TypeInv, LedgerTyped
  <2>5. ASSUME \A a \in Actor : ~CompensatePost(a)
        PROVE  refunds'[o] = refunds[o] /\ failures' = failures
    <3>1. ASSUME NEW r \in Req, RequestStep(r)
          PROVE  refunds' = refunds /\ failures' = failures
      BY <3>1
      DEF RequestStep, WithdrawFind, WithdrawCreate, WithdrawRead,
          WithdrawDebit, WithdrawWait, WithdrawConfirm, WithdrawFailRow,
          ledgerVars, rowVars
    <3>2. ASSUME NEW c \in Rec, ReconcileStep(c)
          PROVE  refunds' = refunds /\ failures' = failures
      BY <3>2
      DEF ReconcileStep, ReconcileStart, ReconcileTake, ReconcileTouchFails,
          ReconcileCompensation, ReconcileSeesTx, ReconcileSeesNothing,
          ReconcileFinalize, ledgerVars, rowVars
    <3>3. ASSUME NEW a \in Actor, SharedStep(a)
          PROVE  refunds' = refunds /\ failures' = failures
      BY <1>2, <2>5, <3>3
      DEF SharedStep, Send, SendRejected, MarkBroadcasted, InsertChainRow,
          CompensateFind, CompensateCreate, ledgerVars, rowVars
    <3>4. ASSUME Environment PROVE refunds' = refunds /\ failures' = failures
      BY <3>4
      DEF Environment, Fault, SendLost, ChainSettles, Crash, ledgerVars, rowVars
    <3>5. CASE UNCHANGED vars
      BY <3>5 DEF vars, ledgerVars, rowVars
    <3> QED
      BY <3>1, <3>2, <3>3, <3>4, <3>5 DEF Next
  <2> QED
    BY <2>2, <2>3, <2>4, <2>5
<1> QED
  BY <1>1, <1>2

\* Every refund answers a failure that was recorded and that no other refund
\* answers, for any number of concurrent requests and reconcile runs.
THEOREM RefundsAnswerFailures == Spec => []RefundsFollowFailures
<1>1. Spec => []TypeInv
  BY InitTyped, NextTyped, PTL DEF Spec
<1>2. Spec => []RefundsCovered
  BY <1>1, InitCovered, NextCovered, PTL DEF Spec
<1>3. TypeInv /\ RefundsCovered => RefundsFollowFailures
  <2> SUFFICES ASSUME TypeInv, RefundsCovered, NEW o \in Op
               PROVE  refunds[o] <= failures[o]
    BY DEF RefundsFollowFailures
  <2> QED
    BY RefundingFinite DEF RefundsCovered, TypeInv, LedgerTyped, RowsTyped
<1> QED
  BY <1>1, <1>2, <1>3, PTL

-----------------------------------------------------------------------------
(* Refinement.  The five ledger variables of UsdtWithdraw are those of      *)
(* WithdrawLedger; a refund has a failure left to answer because the        *)
(* actors on their way to one are counted in RefundsCovered.                *)

LEMMA NextKeepsPromise ==
  TypeInv /\ RefundsCovered /\ [Next]_vars => [Ledger!Next]_(Ledger!vars)
<1> SUFFICES ASSUME TypeInv, RefundsCovered, [Next]_vars
             PROVE  Ledger!Next \/ UNCHANGED Ledger!vars
  OBVIOUS
<1> USE AmountsAssumption DEF TypeInv, LedgerTyped, RowsTyped
<1>1. ASSUME NEW r \in Req, RequestStep(r)
      PROVE  Ledger!Next \/ UNCHANGED Ledger!vars
  <2>1. CASE WithdrawDebit(r)
    <3>1. cur[r] \in Op
      BY <2>1 DEF WithdrawDebit, ProcsTyped, LocalsOK, Working, Actor
    <3>2. Ledger!Post(-(Gross + Fee))
      BY <2>1 DEF WithdrawDebit, DebitedBalance, TotalDebit, Ledger!Post
    <3>3. Ledger!Debit(cur[r])
      BY <2>1, <3>1, <3>2 DEF WithdrawDebit, Ledger!Debit
    <3> QED
      BY <3>1, <3>3 DEF Ledger!Next
  <2> QED
    BY <1>1, <2>1
    DEF RequestStep, WithdrawFind, WithdrawCreate, WithdrawRead, WithdrawWait,
        WithdrawConfirm, WithdrawFailRow, ledgerVars, rowVars, Ledger!vars
<1>2. ASSUME NEW c \in Rec, ReconcileStep(c) PROVE UNCHANGED Ledger!vars
  BY <1>2
  DEF ReconcileStep, ReconcileStart, ReconcileTake, ReconcileTouchFails,
      ReconcileCompensation, ReconcileSeesTx, ReconcileSeesNothing,
      ReconcileFinalize, ledgerVars, rowVars, Ledger!vars
<1>3. ASSUME NEW a \in Actor, SharedStep(a)
      PROVE  Ledger!Next \/ UNCHANGED Ledger!vars
  <2>1. CASE MarkFailed(a)
    <3>1. cur[a] \in Op
      BY <2>1 DEF MarkFailed, ProcsTyped, LocalsOK, Working
    <3>2. Ledger!Fail(cur[a])
      BY <2>1 DEF MarkFailed, Ledger!Fail, ledgerVars
    <3> QED
      BY <3>1, <3>2 DEF Ledger!Next
  <2>2. CASE CompensatePost(a)
    <3>1. cur[a] \in Op /\ a \in Refunding(cur[a])
      BY <2>2
      DEF CompensatePost, ProcsTyped, LocalsOK, Working, Refunding, RefundPc
    <3>2. Cardinality(Refunding(cur[a])) # 0
      BY <3>1, RefundingFinite, FS_EmptySet
    <3>3. /\ Cardinality(Refunding(cur[a])) \in Nat
          /\ refunds[cur[a]] \in Nat /\ failures[cur[a]] \in Nat
          /\ refunds[cur[a]] + Cardinality(Refunding(cur[a]))
               <= failures[cur[a]]
      BY <3>1, RefundingFinite DEF RefundsCovered
    <3>4. refunds[cur[a]] < failures[cur[a]]
      BY <3>2, <3>3
    <3>5. \E amount \in {Gross, Gross + Fee} : Ledger!Post(amount)
      BY <2>2 DEF CompensatePost, RefundOf, TotalDebit, Ledger!Post
    <3>6. Ledger!Refund(cur[a])
      BY <2>2, <3>4, <3>5 DEF CompensatePost, Ledger!Refund
    <3> QED
      BY <3>1, <3>6 DEF Ledger!Next
  <2> QED
    BY <1>3, <2>1, <2>2
    DEF SharedStep, Send, SendRejected, MarkBroadcasted, InsertChainRow,
        CompensateFind, CompensateCreate, ledgerVars, rowVars, Ledger!vars
<1>4. ASSUME Environment PROVE UNCHANGED Ledger!vars
  BY <1>4
  DEF Environment, Fault, SendLost, ChainSettles, Crash, ledgerVars, rowVars,
      Ledger!vars
<1>5. CASE UNCHANGED vars
  BY <1>5 DEF vars, ledgerVars, rowVars, Ledger!vars
<1> QED
  BY <1>1, <1>2, <1>3, <1>4, <1>5 DEF Next

\* Requests, compensations and reconcile runs together implement the promise
\* of WithdrawLedger: every step posts one debit, one failure, one refund that
\* answers a failure, or nothing.
THEOREM PromiseKept == Spec => KeepsLedgerPromise
<1>1. Init => Ledger!Init
  BY DEF Init, Ledger!Init
<1>2. Spec => []TypeInv
  BY InitTyped, NextTyped, PTL DEF Spec
<1>3. Spec => []RefundsCovered
  BY <1>2, InitCovered, NextCovered, PTL DEF Spec
<1> QED
  BY <1>1, <1>2, <1>3, NextKeepsPromise, PTL
  DEF Spec, KeepsLedgerPromise, Ledger!Spec

-----------------------------------------------------------------------------
(* The stored hash.                                                         *)

AbsentUnhashed == \A o \in Op : op[o].status = "ABSENT" => op[o].hash = None

\* The rows a step writes: never ABSENT, and with the hash kept but by
\* MarkBroadcasted, which stores a new one, and by the row's creation.
LEMMA NextKeepsHash ==
  TypeInv /\ AbsentUnhashed /\ [Next]_vars
    => /\ AbsentUnhashed'
       /\ \A o \in Op : op[o].hash # None => op'[o].hash # None
<1> SUFFICES ASSUME TypeInv, AbsentUnhashed, [Next]_vars, NEW o \in Op
             PROVE  /\ op'[o].status = "ABSENT" => op'[o].hash = None
                    /\ op[o].hash # None => op'[o].hash # None
  BY DEF AbsentUnhashed
<1> DEFINE Kept == /\ op'[o].status = "ABSENT" => op'[o].hash = None
                   /\ op[o].hash # None => op'[o].hash # None
<1> USE DEF TypeInv, RowsTyped, Row
<1>1. CASE op' = op
  BY <1>1 DEF AbsentUnhashed
<1>3. ASSUME NEW r \in Req, RequestStep(r) PROVE Kept
  <2>1. CASE WithdrawCreate(r)
    BY <2>1, <1>1 DEF WithdrawCreate, CreatedRow, NoRow, AbsentUnhashed
  <2>2. CASE WithdrawDebit(r)
    BY <2>2 DEF WithdrawDebit, DebitedRow, AbsentUnhashed
  <2>3. CASE WithdrawConfirm(r)
    BY <2>3 DEF WithdrawConfirm, AbsentUnhashed
  <2> QED
    BY <1>1, <1>3, <2>1, <2>2, <2>3
    DEF RequestStep, WithdrawFind, WithdrawRead, WithdrawWait, WithdrawFailRow,
        rowVars
<1>4. ASSUME NEW c \in Rec, ReconcileStep(c) PROVE Kept
  <2>1. CASE ReconcileFinalize(c)
    BY <2>1 DEF ReconcileFinalize, AbsentUnhashed
  <2> QED
    BY <1>1, <1>4, <2>1
    DEF ReconcileStep, ReconcileStart, ReconcileTake, ReconcileTouchFails,
        ReconcileCompensation, ReconcileSeesTx, ReconcileSeesNothing, rowVars
<1>5. ASSUME NEW a \in Actor, SharedStep(a) PROVE Kept
  <2>1. CASE MarkBroadcasted(a)
    <3>1. mine[a] # None
      BY <2>1, ActorsAssumption DEF MarkBroadcasted, ProcsTyped, LocalsOK
    <3> QED
      BY <2>1, <3>1 DEF MarkBroadcasted, AbsentUnhashed
  <2>2. CASE MarkFailed(a)
    BY <2>2 DEF MarkFailed, SetStatus, AbsentUnhashed
  <2>3. CASE CompensatePost(a)
    BY <2>3 DEF CompensatePost, AbsentUnhashed
  <2> QED
    BY <1>1, <1>5, <2>1, <2>2, <2>3
    DEF SharedStep, Send, SendRejected, InsertChainRow, CompensateFind,
        CompensateCreate, rowVars
<1>6. ASSUME Environment PROVE Kept
  BY <1>1, <1>6
  DEF Environment, Fault, SendLost, ChainSettles, Crash, rowVars
<1>7. CASE UNCHANGED vars
  BY <1>1, <1>7 DEF vars, rowVars
<1> QED
  BY <1>3, <1>4, <1>5, <1>6, <1>7 DEF Next

\* No step of any actor forgets a hash that was stored.
THEOREM HashKept == Spec => HashNeverCleared
<1>1. Spec => []TypeInv
  BY InitTyped, NextTyped, PTL DEF Spec
<1>2. Init => AbsentUnhashed
  BY DEF Init, AbsentUnhashed, NoRow
<1>3. TypeInv /\ AbsentUnhashed /\ [Next]_vars => AbsentUnhashed'
  BY NextKeepsHash
<1>4. TypeInv /\ AbsentUnhashed /\ [Next]_vars
        => [\A o \in Op : op[o].hash # None => op'[o].hash # None]_vars
  BY NextKeepsHash
<1> QED
  BY <1>1, <1>2, <1>3, <1>4, PTL DEF Spec, HashNeverCleared
-----------------------------------------------------------------------------
(* How many refunds there can be.  A compensation is posted by an actor that *)
(* found it open, and the first to post closes it: after that nobody new     *)
(* gets there, and those already there are one mobile request at most, which *)
(* the in-flight map keeps alone on its key, and the actors it does not hold. *)

Posters(o) == {a \in Actor : pc[a] = "compPost" /\ cur[a] = o}
Unshared == Rec \cup (Req \ Mobile)

OneMobile ==
  \A r, s \in Mobile :
    pc[r] \in Working /\ pc[s] \in Working /\ cur[r] = cur[s] => r = s

PostsCounted ==
  \A o \in Op :
    /\ comp[o] # "CONFIRMED" => refunds[o] = 0
    /\ comp[o] = "CONFIRMED"
         => refunds[o] + Cardinality(Posters(o)) <= 1 + Cardinality(Unshared)

LEMMA PostersFinite ==
  /\ IsFiniteSet(Unshared) /\ Cardinality(Unshared) \in Nat
  /\ \A o : IsFiniteSet(Posters(o)) /\ Cardinality(Posters(o)) \in Nat
  /\ \A o : IsFiniteSet(Posters(o)') /\ Cardinality(Posters(o)') \in Nat
<1>1. IsFiniteSet(Actor)
  BY ActorsAssumption, FS_Union DEF Actor
<1>2. \A S : S \subseteq Actor => IsFiniteSet(S) /\ Cardinality(S) \in Nat
  BY <1>1, FS_Subset, FS_CardinalityType
<1> QED
  BY <1>1, <1>2 DEF Posters, Unshared, Actor

\* Where mobile requests coalesce, few are on their way to one refund.
LEMMA FewPosters ==
  ASSUME OneMobile, NEW o \in Op
  PROVE  Cardinality(Posters(o)) <= 1 + Cardinality(Unshared)
<1>1. PICK r : Posters(o) \subseteq Unshared \cup {r}
  <2>1. CASE \E r \in Mobile : r \in Posters(o)
    <3>1. PICK r \in Mobile : r \in Posters(o)
      BY <2>1
    <3>2. \A s \in Posters(o) : s \in Mobile => s = r
      BY <3>1 DEF OneMobile, Posters, Working
    <3> QED
      BY <3>2 DEF Posters, Unshared, Actor
  <2>2. CASE ~\E r \in Mobile : r \in Posters(o)
    BY <2>2 DEF Posters, Unshared, Actor
  <2> QED
    BY <2>1, <2>2
<1>2. /\ IsFiniteSet(Unshared \cup {r})
      /\ Cardinality(Unshared \cup {r}) <= 1 + Cardinality(Unshared)
      /\ Cardinality(Unshared \cup {r}) \in Nat
  <2>1. /\ IsFiniteSet(Unshared \cup {r})
        /\ Cardinality(Unshared \cup {r})
             = IF r \in Unshared THEN Cardinality(Unshared)
                                 ELSE Cardinality(Unshared) + 1
    BY PostersFinite, FS_AddElement
  <2> QED
    BY <2>1, PostersFinite
<1>3. Cardinality(Posters(o)) <= Cardinality(Unshared \cup {r})
  BY <1>1, <1>2, FS_Subset
<1> QED
  BY <1>2, <1>3, PostersFinite

\* What a step does to the actors: it moves one at most, to another step of the
\* same key, unless it is a request's WithdrawFind, a reconcile run's, or ends.
Follows(a) == pc'[a] \in Working => pc[a] \in Working /\ cur'[a] = cur[a]

LEMMA NextFollows ==
  ASSUME TypeInv, [Next]_vars, NEW a \in Req,
         \A o \in Op : ~WithdrawFind(a, o)
  PROVE  Follows(a)
<1> USE DEF TypeInv, ProcsTyped, Follows
<1>a. a \in Actor /\ a \notin Rec
  BY ActorsAssumption DEF Actor
<1>stay. CASE pc'[a] = pc[a] /\ cur'[a] = cur[a]
  BY <1>stay
<1>goto. ASSUME NEW b \in Actor, NEW l, Goto(b, l), pc[b] \in Working
         PROVE  Follows(a)
  BY <1>a, <1>goto DEF Goto
<1>rest. ASSUME NEW b \in Actor, NEW end \in Ended, Rest(b, end)
         PROVE  Follows(a)
  BY <1>a, <1>rest DEF Rest, Resting, Ended, Working
<1>1. ASSUME NEW r \in Req, RequestStep(r) PROVE Follows(a)
  <2>1. r \in Actor
    BY DEF Actor
  <2>2. ASSUME NEW p \in Op, WithdrawFind(r, p) PROVE Follows(a)
    <3>1. r # a
      BY <2>2
    <3>2. CASE Rest(r, "answered")
      BY <1>rest, <2>1, <3>2 DEF Ended
    <3>3. CASE \E l : /\ pc' = [pc EXCEPT ![r] = l]
                      /\ cur' = [cur EXCEPT ![r] = p]
      <4>1. pc'[a] = pc[a] /\ cur'[a] = cur[a]
        BY <1>a, <2>1, <3>1, <3>3
      <4> QED
        BY <1>stay, <4>1
    <3> QED
      BY <2>2, <3>2, <3>3 DEF WithdrawFind
  <2>3. CASE WithdrawCreate(r)
    <3>1. CASE Rest(r, "threw")
      BY <1>rest, <2>1, <3>1 DEF Ended
    <3> QED
      BY <1>a, <2>1, <2>3, <3>1 DEF WithdrawCreate, Working
  <2>4. CASE WithdrawRead(r) \/ WithdrawDebit(r)
    BY <1>a, <2>1, <2>4 DEF WithdrawRead, WithdrawDebit, Working
  <2>5. CASE WithdrawWait(r)
    BY <1>rest, <1>goto, <2>1, <2>5 DEF WithdrawWait, Ended, Working
  <2>6. CASE WithdrawConfirm(r)
    BY <1>rest, <2>1, <2>6 DEF WithdrawConfirm, Ended
  <2>7. CASE WithdrawFailRow(r)
    BY <1>goto, <2>1, <2>7 DEF WithdrawFailRow, Working
  <2> QED
    BY <1>1, <2>2, <2>3, <2>4, <2>5, <2>6, <2>7 DEF RequestStep
<1>2. ASSUME NEW c \in Rec, ReconcileStep(c) PROVE Follows(a)
  <2>1. c \in Actor /\ c # a
    BY <1>a DEF Actor
  <2>2. ASSUME NEW p \in Op,
               ReconcileTake(c, p) \/ ReconcileTouchFails(c, p)
        PROVE  Follows(a)
    BY <1>stay, <1>a, <2>1, <2>2 DEF ReconcileTake, ReconcileTouchFails
  <2>4. ASSUME ReconcileStart(c) \/ \E p \in Op : ReconcileCompensation(c, p)
        PROVE  Follows(a)
    BY <1>stay, <2>4 DEF ReconcileStart, ReconcileCompensation, procVars
  <2>5. CASE ReconcileSeesTx(c)
    BY <1>goto, <2>1, <2>5 DEF ReconcileSeesTx, Working
  <2>6. CASE ReconcileSeesNothing(c) \/ ReconcileFinalize(c)
    BY <1>rest, <2>1, <2>6 DEF ReconcileSeesNothing, ReconcileFinalize, Ended
  <2> QED
    BY <1>2, <2>2, <2>4, <2>5, <2>6 DEF ReconcileStep
<1>3. ASSUME NEW b \in Actor, SharedStep(b) PROVE Follows(a)
  <2>1. ASSUME NEW h \in Hash, Send(b, h) PROVE Follows(a)
    BY <1>a, <2>1 DEF Send, Working
  <2>2. CASE SendRejected(b)
    BY <1>goto, <2>2 DEF SendRejected, Working
  <2>3. CASE MarkBroadcasted(b)
    BY <1>goto, <2>3 DEF MarkBroadcasted, Working
  <2>4. CASE InsertChainRow(b)
    BY <1>goto, <1>rest, <2>4 DEF InsertChainRow, Ended, Working
  <2>5. CASE CompensateFind(b)
    <3>1. pc[b] = "compFind" /\ cur[b] \in Op
      BY <2>5 DEF CompensateFind, LocalsOK, Working
    <3>2. comp[cur[b]] \in {"ABSENT", "NEW", "CONFIRMED"}
      BY <3>1 DEF RowsTyped
    <3>3. Rest(b, "threw") \/ Goto(b, "compPost") \/ Goto(b, "compCreate")
      BY <2>5, <3>2 DEF CompensateFind
    <3> QED
      BY <1>goto, <1>rest, <3>1, <3>3 DEF Ended, Working
  <2>6. CASE CompensateCreate(b)
    BY <1>goto, <1>rest, <2>6 DEF CompensateCreate, Escape, Ended, Working
  <2>7. CASE CompensatePost(b)
    BY <1>rest, <2>7 DEF CompensatePost, Ended
  <2>8. CASE MarkFailed(b)
    BY <1>goto, <2>8 DEF MarkFailed, Working
  <2> QED
    BY <1>3, <2>1, <2>2, <2>3, <2>4, <2>5, <2>6, <2>7, <2>8 DEF SharedStep
<1>4. ASSUME Environment PROVE Follows(a)
  <2>1. ASSUME NEW b \in Actor, Fault(b) PROVE Follows(a)
    BY <1>goto, <1>rest, <2>1 DEF Fault, Escape, Ended, InTry, Working
  <2>2. ASSUME NEW b \in Actor, NEW h \in Hash, SendLost(b, h)
        PROVE  Follows(a)
    BY <1>goto, <2>2 DEF SendLost, Working
  <2>3. ASSUME NEW h \in Hash, ChainSettles(h) PROVE Follows(a)
    BY <1>stay, <2>3 DEF ChainSettles, procVars
  <2>4. CASE Crash
    BY <1>a, <2>4 DEF Crash, Resting, Working
  <2> QED
    BY <1>4, <2>1, <2>2, <2>3, <2>4 DEF Environment
<1>5. CASE UNCHANGED vars
  BY <1>stay, <1>5 DEF vars, procVars
<1> QED
  BY <1>1, <1>2, <1>3, <1>4, <1>5 DEF Next

\* Who is about to post a refund that is closed, or closes in the step, was about
\* to before; a closed one stays closed.
Watched(o) ==
  /\ \/ Posters(o)' \subseteq Posters(o)
     \/ comp[o] # "CONFIRMED" /\ comp'[o] # "CONFIRMED"
  /\ comp[o] = "CONFIRMED" => comp'[o] = "CONFIRMED"
  /\ refunds'[o] = refunds[o]

LEMMA NextWatched ==
  ASSUME TypeInv, [Next]_vars, NEW o \in Op,
         \A a \in Actor : CompensatePost(a) => cur[a] # o
  PROVE  Watched(o)
<1> USE DEF TypeInv, ProcsTyped, RowsTyped, LedgerTyped
<1>stay. ASSUME UNCHANGED <<pc, cur>>, comp' = comp, refunds' = refunds
         PROVE  Watched(o)
  BY <1>stay DEF Watched, Posters
<1>goto. ASSUME NEW b \in Actor, NEW l, Goto(b, l), l # "compPost",
                comp' = comp, refunds' = refunds
         PROVE  Watched(o)
  BY <1>goto DEF Goto, Watched, Posters
<1>rest. ASSUME NEW b \in Actor, NEW end \in Ended, Rest(b, end),
                comp' = comp, refunds' = refunds
         PROVE  Watched(o)
  BY <1>rest DEF Rest, Resting, Ended, Watched, Posters
<1>1. ASSUME NEW r \in Req, RequestStep(r) PROVE Watched(o)
  <2>1. /\ r \in Actor
        /\ UNCHANGED <<refunds, comp>>
    BY <1>1
    DEF RequestStep, WithdrawFind, WithdrawCreate, WithdrawRead, WithdrawDebit,
        WithdrawWait, WithdrawConfirm, WithdrawFailRow, ledgerVars, rowVars,
        Actor
  <2>2. ASSUME NEW p \in Op, WithdrawFind(r, p) PROVE Watched(o)
    <3>1. CASE Rest(r, "answered")
      BY <1>rest, <2>1, <3>1 DEF Ended
    <3> QED
      BY <2>1, <2>2, <3>1 DEF WithdrawFind, Watched, Posters
  <2>3. CASE WithdrawCreate(r)
    <3>1. CASE Rest(r, "threw")
      BY <1>rest, <2>1, <3>1 DEF Ended
    <3> QED
      BY <2>1, <2>3, <3>1 DEF WithdrawCreate, Watched, Posters
  <2>4. CASE WithdrawRead(r) \/ WithdrawDebit(r)
    BY <2>1, <2>4 DEF WithdrawRead, WithdrawDebit, Watched, Posters
  <2>5. CASE WithdrawWait(r)
    BY <1>rest, <1>goto, <2>1, <2>5 DEF WithdrawWait, Ended
  <2>6. CASE WithdrawConfirm(r)
    BY <1>rest, <2>1, <2>6 DEF WithdrawConfirm, Ended
  <2>7. CASE WithdrawFailRow(r)
    BY <1>goto, <2>1, <2>7 DEF WithdrawFailRow
  <2> QED
    BY <1>1, <2>2, <2>3, <2>4, <2>5, <2>6, <2>7 DEF RequestStep
<1>2. ASSUME NEW c \in Rec, ReconcileStep(c) PROVE Watched(o)
  <2>1. c \in Actor
    BY DEF Actor
  <2>2. ASSUME NEW p \in Op,
               ReconcileTake(c, p) \/ ReconcileTouchFails(c, p)
        PROVE  Watched(o)
    BY <2>1, <2>2
    DEF ReconcileTake, ReconcileTouchFails, Watched, Posters, ledgerVars, rowVars
  <2>3. ASSUME NEW p \in Op, ReconcileCompensation(c, p) PROVE Watched(o)
    BY <2>3 DEF ReconcileCompensation, procVars, ledgerVars, Watched, Posters
  <2>4. CASE ReconcileStart(c)
    BY <1>stay, <2>4 DEF ReconcileStart, procVars, ledgerVars, rowVars
  <2>5. CASE ReconcileSeesTx(c)
    BY <1>goto, <2>1, <2>5 DEF ReconcileSeesTx, ledgerVars, rowVars
  <2>6. CASE ReconcileSeesNothing(c) \/ ReconcileFinalize(c)
    BY <1>rest, <2>1, <2>6
    DEF ReconcileSeesNothing, ReconcileFinalize, Ended, ledgerVars, rowVars
  <2> QED
    BY <1>2, <2>2, <2>3, <2>4, <2>5, <2>6 DEF ReconcileStep
<1>3. ASSUME NEW b \in Actor, SharedStep(b) PROVE Watched(o)
  <2>1. ASSUME NEW h \in Hash, Send(b, h) PROVE Watched(o)
    BY <2>1 DEF Send, Watched, Posters, ledgerVars, rowVars
  <2>2. CASE SendRejected(b) \/ MarkBroadcasted(b) \/ MarkFailed(b)
    BY <1>goto, <2>2
    DEF SendRejected, MarkBroadcasted, MarkFailed, ledgerVars, rowVars
  <2>4. CASE InsertChainRow(b)
    BY <1>goto, <1>rest, <2>4 DEF InsertChainRow, Ended, ledgerVars
  <2>5. CASE CompensateFind(b)
    <3>1. /\ pc[b] = "compFind" /\ cur[b] \in Op
          /\ comp' = comp /\ refunds' = refunds
      BY <2>5 DEF CompensateFind, LocalsOK, Working, ledgerVars, rowVars
    <3>2. comp[cur[b]] \in {"ABSENT", "NEW", "CONFIRMED"}
      BY <3>1
    <3>3. CASE Rest(b, "threw") \/ Goto(b, "compCreate")
      BY <1>goto, <1>rest, <3>1, <3>3 DEF Ended
    <3>4. CASE Goto(b, "compPost") /\ comp[cur[b]] = "NEW"
      BY <3>1, <3>4 DEF Goto, Watched, Posters
    <3> QED
      BY <2>5, <3>2, <3>3, <3>4 DEF CompensateFind
  <2>6. CASE CompensateCreate(b)
    <3>1. /\ pc[b] = "compCreate" /\ cur[b] \in Op /\ refunds' = refunds
      BY <2>6 DEF CompensateCreate, LocalsOK, Working, ledgerVars
    <3>2. CASE Rest(b, "threw") /\ comp' = comp
      BY <1>rest, <3>1, <3>2 DEF Ended
    <3>3. CASE /\ comp[cur[b]] = "ABSENT"
               /\ comp' = [comp EXCEPT ![cur[b]] = "NEW"]
               /\ Goto(b, "compPost")
      BY <3>1, <3>3 DEF Goto, Watched, Posters
    <3> QED
      BY <2>6, <3>2, <3>3 DEF CompensateCreate, Escape
  <2>7. CASE CompensatePost(b)
    <3>1. cur[b] # o
      BY <2>7
    <3>2. comp'[o] = comp[o] /\ refunds'[o] = refunds[o]
      BY <2>7, <3>1 DEF CompensatePost
    <3> QED
      BY <2>7, <3>2 DEF CompensatePost, Rest, Resting, Watched, Posters
  <2> QED
    BY <1>3, <2>1, <2>2, <2>4, <2>5, <2>6, <2>7 DEF SharedStep
<1>4. ASSUME Environment PROVE Watched(o)
  <2>0. UNCHANGED <<refunds, comp>>
    BY <1>4
    DEF Environment, Fault, SendLost, ChainSettles, Crash, ledgerVars, rowVars
  <2>1. ASSUME NEW b \in Actor, Fault(b) PROVE Watched(o)
    BY <1>goto, <1>rest, <2>0, <2>1 DEF Fault, Escape, Ended
  <2>2. ASSUME NEW b \in Actor, NEW h \in Hash, SendLost(b, h)
        PROVE  Watched(o)
    BY <1>goto, <2>0, <2>2 DEF SendLost
  <2>3. ASSUME NEW h \in Hash, ChainSettles(h) PROVE Watched(o)
    BY <1>stay, <2>0, <2>3 DEF ChainSettles, procVars
  <2>4. CASE Crash
    BY <2>0, <2>4 DEF Crash, Resting, Working, Watched, Posters
  <2> QED
    BY <1>4, <2>1, <2>2, <2>3, <2>4 DEF Environment
<1>5. CASE UNCHANGED vars
  BY <1>stay, <1>5 DEF vars, procVars, ledgerVars, rowVars
<1> QED
  BY <1>1, <1>2, <1>3, <1>4, <1>5 DEF Next

\* A mobile request takes up a key only when no other one works on it.
LEMMA NextOneMobile ==
  TypeInv /\ OneMobile /\ [Next]_vars => OneMobile'
<1> SUFFICES ASSUME TypeInv, OneMobile, [Next]_vars,
                    NEW r \in Mobile, NEW s \in Mobile,
                    pc'[r] \in Working, pc'[s] \in Working,
                    cur'[r] = cur'[s], r # s
             PROVE  FALSE
  BY DEF OneMobile
<1>0. r \in Req /\ s \in Req /\ r \in Actor /\ s \in Actor
  BY ActorsAssumption DEF Actor
<1>1. ASSUME NEW q \in Mobile, NEW t \in Mobile, NEW o \in Op,
             WithdrawFind(q, o), q # t, cur'[q] = cur'[t],
             pc'[q] \in Working, pc'[t] \in Working
      PROVE  FALSE
  <2>0. q \in Actor /\ t \in Actor /\ q \in Req
    BY ActorsAssumption DEF Actor
  <2>1. ~Rest(q, "answered")
    BY <1>1, <2>0 DEF Rest, Resting, Working, TypeInv, ProcsTyped
  <2>2. cur'[q] = o /\ cur'[t] = cur[t] /\ pc'[t] = pc[t]
    BY <1>1, <2>0, <2>1 DEF WithdrawFind, TypeInv, ProcsTyped
  <2> QED
    BY <1>1, <2>2 DEF WithdrawFind, InFlight
<1>2. CASE \E o \in Op : WithdrawFind(r, o)
  BY <1>1, <1>2
<1>3. CASE \E o \in Op : WithdrawFind(s, o)
  BY <1>1, <1>3
<1>4. CASE \A o \in Op : ~WithdrawFind(r, o) /\ ~WithdrawFind(s, o)
  <2>1. Follows(r) /\ Follows(s)
    BY <1>0, <1>4, NextFollows
  <2> QED
    BY <2>1 DEF Follows, OneMobile
<1> QED
  BY <1>2, <1>3, <1>4

LEMMA NextPostsCounted ==
  ASSUME TypeInv, TypeInv', OneMobile, PostsCounted, [Next]_vars
  PROVE  PostsCounted'
<1> DEFINE Counted(o) ==
      /\ comp'[o] # "CONFIRMED" => refunds'[o] = 0
      /\ comp'[o] = "CONFIRMED" =>
           refunds'[o] + Cardinality(Posters(o)') <= 1 + Cardinality(Unshared)
<1> SUFFICES ASSUME NEW o \in Op PROVE Counted(o)
  BY DEF PostsCounted, Unshared
<1>t. /\ refunds[o] \in Nat /\ refunds'[o] \in Nat
      /\ Cardinality(Posters(o)) \in Nat /\ Cardinality(Posters(o)') \in Nat
      /\ Cardinality(Unshared) \in Nat /\ IsFiniteSet(Posters(o))
  BY PostersFinite DEF TypeInv, LedgerTyped
<1>f. Cardinality(Posters(o)) <= 1 + Cardinality(Unshared)
  BY FewPosters
<1>s. Posters(o)' \subseteq Posters(o)
        => Cardinality(Posters(o)') <= Cardinality(Posters(o))
  BY <1>t, FS_Subset
<1>1. ASSUME NEW a \in Actor, CompensatePost(a), cur[a] = o PROVE Counted(o)
  <2>1. comp'[o] = "CONFIRMED" /\ refunds'[o] = refunds[o] + 1
    BY <1>1 DEF CompensatePost, CompClosed, TypeInv, LedgerTyped, RowsTyped
  <2>2. a \in Posters(o) /\ Posters(o)' \subseteq Posters(o) \ {a}
    BY <1>1 DEF CompensatePost, Rest, Resting, Posters, TypeInv, ProcsTyped
  <2>3. /\ IsFiniteSet(Posters(o) \ {a})
        /\ Cardinality(Posters(o) \ {a}) = Cardinality(Posters(o)) - 1
    BY <1>t, <2>2, FS_RemoveElement
  <2>4. Cardinality(Posters(o)') <= Cardinality(Posters(o)) - 1
    BY <2>2, <2>3, FS_Subset
  <2>5. comp[o] # "CONFIRMED" => refunds[o] = 0
    BY DEF PostsCounted
  <2>6. comp[o] = "CONFIRMED" =>
          refunds[o] + Cardinality(Posters(o)) <= 1 + Cardinality(Unshared)
    BY DEF PostsCounted
  <2> QED
    BY <1>t, <1>f, <2>1, <2>4, <2>5, <2>6
<1>2. CASE \A a \in Actor : CompensatePost(a) => cur[a] # o
  <2>1. Watched(o)
    BY <1>2, NextWatched
  <2>2. CASE comp[o] = "CONFIRMED"
    BY <1>t, <1>s, <2>1, <2>2 DEF Watched, PostsCounted
  <2>3. CASE comp[o] # "CONFIRMED"
    <3>1. refunds'[o] = 0
      BY <2>1, <2>3 DEF Watched, PostsCounted
    <3> QED
      BY <1>t, <1>f, <1>s, <2>1, <3>1 DEF Watched
  <2> QED
    BY <2>2, <2>3
<1> QED
  BY <1>1, <1>2

\* However often a key is tried, its refunds are one, and one more at most for
\* each reconcile run and each request that nothing coalesces.
THEOREM RefundsStayBounded == Spec => []RefundsAreBounded
<1>1. Spec => []TypeInv
  BY InitTyped, NextTyped, PTL DEF Spec
<1>2. Init => OneMobile /\ PostsCounted
  BY ActorsAssumption DEF Init, OneMobile, PostsCounted, Working, Actor
<1>3. TypeInv /\ TypeInv' /\ OneMobile /\ PostsCounted /\ [Next]_vars
        => OneMobile' /\ PostsCounted'
  BY NextOneMobile, NextPostsCounted
<1>4. TypeInv /\ PostsCounted => RefundsAreBounded
  <2> SUFFICES ASSUME TypeInv, PostsCounted, NEW o \in Op
               PROVE  refunds[o] <= 1 + Cardinality(Unshared)
    BY DEF RefundsAreBounded, Unshared
  <2>1. /\ Cardinality(Posters(o)) \in Nat /\ Cardinality(Unshared) \in Nat
        /\ refunds[o] \in Nat
    BY PostersFinite DEF TypeInv, LedgerTyped
  <2>2. CASE comp[o] = "CONFIRMED"
    <3>1. refunds[o] + Cardinality(Posters(o)) <= 1 + Cardinality(Unshared)
      BY <2>2 DEF PostsCounted
    <3> QED
      BY <2>1, <3>1
  <2>3. CASE comp[o] # "CONFIRMED"
    <3>1. refunds[o] = 0
      BY <2>3 DEF PostsCounted
    <3> QED
      BY <2>1, <3>1
  <2> QED
    BY <2>2, <2>3
<1> QED
  BY <1>1, <1>2, <1>3, <1>4, PTL DEF Spec

-----------------------------------------------------------------------------
(* How many broadcasts the reconcile loop can make for one operation.  While *)
(* no hash is stored, each was followed by a failed call or a restart, or    *)
(* its run is about to store the hash (Holders).  Once one is stored, the    *)
(* runs that may still send are those that picked the row before (Chances).  *)

Holders(o) == {c \in Rec : pc[c] = "mark" /\ cur[c] = o}
Chances(o) == {c \in Rec : \/ o \in batch[c] /\ ToSend(snap[c][o])
                           \/ pc[c] = "send" /\ cur[c] = o}
Excused == Cardinality(Rec) * crashes + faults

VisitsApart == \A c \in Rec : pc[c] \in Working => cur[c] \notin batch[c]

SendsCounted ==
  \A o \in Op :
    /\ op[o].hash = None => resends[o] <= Cardinality(Holders(o)) + Excused
    /\ op[o].hash # None =>
         resends[o] + Cardinality(Chances(o)) <= Cardinality(Rec) + Excused

LEMMA RunsFinite ==
  /\ IsFiniteSet(Rec) /\ Cardinality(Rec) \in Nat
  /\ \A S : S \subseteq Rec =>
       IsFiniteSet(S) /\ Cardinality(S) \in Nat /\ Cardinality(S) <= Cardinality(Rec)
  BY ActorsAssumption, FS_Subset, FS_CardinalityType

LEMMA RunSets ==
  /\ \A o : Holders(o) \subseteq Rec /\ Chances(o) \subseteq Rec
  /\ \A o : Holders(o)' \subseteq Rec /\ Chances(o)' \subseteq Rec
  BY DEF Holders, Chances

LEMMA NextVisitsApart ==
  TypeInv /\ VisitsApart /\ [Next]_vars => VisitsApart'
<1> SUFFICES ASSUME TypeInv, VisitsApart, [Next]_vars, NEW c \in Rec,
                    pc'[c] \in Working
             PROVE  cur'[c] \notin batch'[c]
  BY DEF VisitsApart
<1> USE DEF TypeInv, ProcsTyped, BatchTyped
<1>c. c \in Actor /\ c \notin Req
  BY ActorsAssumption DEF Actor
<1>stay. ASSUME UNCHANGED <<pc, cur>>, batch'[c] \subseteq batch[c]
         PROVE  cur'[c] \notin batch'[c]
  BY <1>stay DEF VisitsApart
<1>goto. ASSUME NEW b \in Actor, NEW l, Goto(b, l), pc[b] \in Working,
                batch' = batch
         PROVE  cur'[c] \notin batch'[c]
  BY <1>c, <1>goto DEF Goto, VisitsApart
<1>rest. ASSUME NEW b \in Actor, NEW end \in Ended, Rest(b, end),
                \A d \in Rec : batch'[d] \subseteq batch[d]
         PROVE  cur'[c] \notin batch'[c]
  BY <1>c, <1>rest DEF Rest, Resting, Ended, Working, VisitsApart
<1>1. ASSUME NEW r \in Req, RequestStep(r) PROVE cur'[c] \notin batch'[c]
  <2>1. /\ r \in Actor /\ r # c /\ batch' = batch
    BY <1>1, <1>c
    DEF RequestStep, WithdrawFind, WithdrawCreate, WithdrawRead, WithdrawDebit,
        WithdrawWait, WithdrawConfirm, WithdrawFailRow, batchVars, Actor
  <2>2. pc'[c] = pc[c] /\ cur'[c] = cur[c]
    BY <1>1, <1>c, <2>1
    DEF RequestStep, WithdrawFind, WithdrawCreate, WithdrawRead, WithdrawDebit,
        WithdrawWait, WithdrawConfirm, WithdrawFailRow, Rest, Goto
  <2> QED
    BY <2>1, <2>2 DEF VisitsApart
<1>2. ASSUME NEW d \in Rec, ReconcileStep(d) PROVE cur'[c] \notin batch'[c]
  <2>1. d \in Actor
    BY DEF Actor
  <2>2. ASSUME NEW p \in Op,
               ReconcileTake(d, p) \/ ReconcileTouchFails(d, p)
        PROVE  cur'[c] \notin batch'[c]
    <3>1. CASE d = c
      BY <1>c, <2>2, <3>1 DEF ReconcileTake, ReconcileTouchFails, Working
    <3>2. CASE d # c
      BY <1>c, <2>1, <2>2, <3>2
      DEF ReconcileTake, ReconcileTouchFails, VisitsApart
    <3> QED
      BY <3>1, <3>2
  <2>3. ASSUME NEW p \in Op, ReconcileCompensation(d, p)
        PROVE  cur'[c] \notin batch'[c]
    BY <1>stay, <2>3 DEF ReconcileCompensation, procVars
  <2>4. CASE ReconcileStart(d)
    <3>1. pc' = pc /\ cur' = cur /\ pc[d] = "idle"
      BY <2>4 DEF ReconcileStart, procVars
    <3>2. d # c
      BY <3>1 DEF Working
    <3> QED
      BY <2>4, <3>1, <3>2 DEF ReconcileStart, VisitsApart
  <2>5. CASE ReconcileSeesTx(d)
    BY <1>goto, <2>1, <2>5 DEF ReconcileSeesTx, Working, batchVars
  <2>6. CASE ReconcileSeesNothing(d) \/ ReconcileFinalize(d)
    BY <1>rest, <2>1, <2>6
    DEF ReconcileSeesNothing, ReconcileFinalize, Ended, batchVars
  <2> QED
    BY <1>2, <2>2, <2>3, <2>4, <2>5, <2>6 DEF ReconcileStep
<1>3. ASSUME NEW b \in Actor, SharedStep(b) PROVE cur'[c] \notin batch'[c]
  <2>1. ASSUME NEW h \in Hash, Send(b, h) PROVE cur'[c] \notin batch'[c]
    BY <1>c, <2>1 DEF Send, Working, batchVars, VisitsApart
  <2>2. CASE SendRejected(b) \/ MarkBroadcasted(b) \/ MarkFailed(b)
    BY <1>goto, <2>2
    DEF SendRejected, MarkBroadcasted, MarkFailed, Working, batchVars
  <2>4. CASE InsertChainRow(b)
    BY <1>goto, <1>rest, <2>4 DEF InsertChainRow, Ended, Working, batchVars
  <2>5. CASE CompensateFind(b)
    <3>1. pc[b] = "compFind" /\ cur[b] \in Op /\ batch' = batch
      BY <2>5 DEF CompensateFind, LocalsOK, Working, batchVars
    <3>2. comp[cur[b]] \in {"ABSENT", "NEW", "CONFIRMED"}
      BY <3>1 DEF RowsTyped
    <3>3. Rest(b, "threw") \/ Goto(b, "compPost") \/ Goto(b, "compCreate")
      BY <2>5, <3>2 DEF CompensateFind
    <3> QED
      BY <1>goto, <1>rest, <3>1, <3>3 DEF Ended, Working
  <2>6. CASE CompensateCreate(b)
    BY <1>goto, <1>rest, <2>6
    DEF CompensateCreate, Escape, Ended, Working, batchVars
  <2>7. CASE CompensatePost(b)
    BY <1>rest, <2>7 DEF CompensatePost, Ended, batchVars
  <2> QED
    BY <1>3, <2>1, <2>2, <2>4, <2>5, <2>6, <2>7 DEF SharedStep
<1>4. ASSUME Environment PROVE cur'[c] \notin batch'[c]
  <2>1. ASSUME NEW b \in Actor, Fault(b) PROVE cur'[c] \notin batch'[c]
    BY <1>goto, <1>rest, <2>1
    DEF Fault, Escape, Ended, InTry, Working, batchVars
  <2>2. ASSUME NEW b \in Actor, NEW h \in Hash, SendLost(b, h)
        PROVE  cur'[c] \notin batch'[c]
    BY <1>goto, <2>2 DEF SendLost, Working, batchVars
  <2>3. ASSUME NEW h \in Hash, ChainSettles(h) PROVE cur'[c] \notin batch'[c]
    BY <1>stay, <2>3 DEF ChainSettles, procVars, batchVars
  <2>4. CASE Crash
    BY <1>c, <2>4 DEF Crash, Resting, Working
  <2> QED
    BY <1>4, <2>1, <2>2, <2>3, <2>4 DEF Environment
<1>5. CASE UNCHANGED vars
  BY <1>stay, <1>5 DEF vars, procVars, batchVars
<1> QED
  BY <1>1, <1>2, <1>3, <1>4, <1>5 DEF Next

\* A step that sends nothing and moves no run that is about to store a hash: no
\* run gains a chance on an operation that has its hash.
Settled(o) ==
  /\ resends'[o] = resends[o] /\ op'[o].hash = op[o].hash
  /\ crashes' = crashes /\ faults' \in {faults, faults + 1}
  /\ Holders(o) \subseteq Holders(o)'
  /\ op[o].hash # None => Chances(o)' \subseteq Chances(o)

\* The steps that do more.
Sends(a) == \E h \in Hash : Send(a, h) \/ SendLost(a, h)
Telling(a) == Sends(a) \/ MarkBroadcasted(a) \/ Fault(a)

\* Only MarkBroadcasted writes a hash.
LEMMA HashStays ==
  ASSUME TypeInv, AbsentUnhashed, [Next]_vars, NEW o \in Op,
         \A a \in Actor : ~MarkBroadcasted(a)
  PROVE  op'[o].hash = op[o].hash
<1> USE DEF TypeInv, RowsTyped, Row
<1>1. CASE op' = op
  BY <1>1
<1>2. ASSUME NEW r \in Req, RequestStep(r) PROVE op'[o].hash = op[o].hash
  <2>1. CASE WithdrawCreate(r)
    <3>1. CASE op' = [op EXCEPT ![cur[r]] = CreatedRow]
      BY <2>1, <3>1 DEF WithdrawCreate, CreatedRow, NoRow, AbsentUnhashed
    <3> QED
      BY <1>1, <2>1, <3>1 DEF WithdrawCreate
  <2>2. CASE WithdrawDebit(r)
    BY <2>2 DEF WithdrawDebit, DebitedRow
  <2>3. CASE WithdrawConfirm(r)
    BY <2>3 DEF WithdrawConfirm
  <2> QED
    BY <1>1, <1>2, <2>1, <2>2, <2>3
    DEF RequestStep, WithdrawFind, WithdrawRead, WithdrawWait, WithdrawFailRow,
        rowVars
<1>3. ASSUME NEW c \in Rec, ReconcileStep(c) PROVE op'[o].hash = op[o].hash
  <2>1. CASE ReconcileFinalize(c)
    BY <2>1 DEF ReconcileFinalize
  <2> QED
    BY <1>1, <1>3, <2>1
    DEF ReconcileStep, ReconcileStart, ReconcileTake, ReconcileTouchFails,
        ReconcileCompensation, ReconcileSeesTx, ReconcileSeesNothing, rowVars
<1>4. ASSUME NEW a \in Actor, SharedStep(a) PROVE op'[o].hash = op[o].hash
  <2>1. CASE MarkFailed(a)
    BY <2>1 DEF MarkFailed, SetStatus
  <2>2. CASE CompensatePost(a)
    BY <2>2 DEF CompensatePost
  <2> QED
    BY <1>1, <1>4, <2>1, <2>2
    DEF SharedStep, Send, SendRejected, InsertChainRow, CompensateFind,
        CompensateCreate, rowVars
<1>5. ASSUME Environment PROVE op'[o].hash = op[o].hash
  BY <1>1, <1>5
  DEF Environment, Fault, SendLost, ChainSettles, Crash, rowVars
<1>6. CASE UNCHANGED vars
  BY <1>1, <1>6 DEF vars, rowVars
<1> QED
  BY <1>2, <1>3, <1>4, <1>5, <1>6 DEF Next

\* What a step that sends nothing does to the counts.
LEMMA CountsStay ==
  ASSUME [Next]_vars, \A a \in Actor : ~Telling(a), ~Crash
  PROVE  /\ resends' = resends /\ crashes' = crashes
         /\ faults' \in {faults, faults + 1}
<1> USE DEF chainVars, boundVars, Telling, Sends
<1>1. ASSUME NEW r \in Req, RequestStep(r)
      PROVE  UNCHANGED <<resends, crashes, faults>>
  BY <1>1
  DEF RequestStep, WithdrawFind, WithdrawCreate, WithdrawRead, WithdrawDebit,
      WithdrawWait, WithdrawConfirm, WithdrawFailRow
<1>2. ASSUME NEW c \in Rec, ReconcileStep(c)
      PROVE  UNCHANGED <<resends, crashes>> /\ faults' \in {faults, faults + 1}
  BY <1>2
  DEF ReconcileStep, ReconcileStart, ReconcileTake, ReconcileTouchFails,
      ReconcileCompensation, ReconcileSeesTx, ReconcileSeesNothing,
      ReconcileFinalize
<1>3. ASSUME NEW a \in Actor, SharedStep(a)
      PROVE  UNCHANGED <<resends, crashes, faults>>
  BY <1>3
  DEF SharedStep, SendRejected, MarkBroadcasted, InsertChainRow, MarkFailed,
      CompensateFind, CompensateCreate, CompensatePost
<1>4. ASSUME Environment
      PROVE  UNCHANGED <<resends, crashes, faults>>
  BY <1>4 DEF Environment, ChainSettles
<1>5. CASE UNCHANGED vars
  BY <1>5 DEF vars
<1> QED
  BY <1>1, <1>2, <1>3, <1>4, <1>5 DEF Next

LEMMA NextSettled ==
  ASSUME TypeInv, AbsentUnhashed, VisitsApart, [Next]_vars, NEW o \in Op,
         \A a \in Actor : ~Telling(a), ~Crash
  PROVE  Settled(o)
<1> USE DEF TypeInv, ProcsTyped
<1>0. op \in [Op -> Row] /\ Rec \subseteq Actor
  BY DEF RowsTyped, Actor
<1> DEFINE Goal == /\ Holders(o) \subseteq Holders(o)'
                   /\ op[o].hash # None => Chances(o)' \subseteq Chances(o)
<1>stay. ASSUME UNCHANGED <<pc, cur, snap>>,
                \A d \in Rec : batch'[d] \subseteq batch[d]
         PROVE  Goal
  BY <1>stay DEF Holders, Chances
<1>goto. ASSUME NEW b \in Actor, NEW l, Goto(b, l), pc[b] # "mark",
                l # "send", UNCHANGED <<batch, snap>>
         PROVE  Goal
  BY <1>0, <1>goto DEF Goto, Holders, Chances
<1>rest. ASSUME NEW b \in Actor, NEW end \in Ended, Rest(b, end),
                pc[b] # "mark",
                \A d \in Rec : \/ batch'[d] = batch[d] /\ snap'[d] = snap[d]
                               \/ batch'[d] = {}
         PROVE  Goal
  <2>1. /\ pc'[b] \in {"idle"} \cup Ended
        /\ \A d \in Actor \ {b} : pc'[d] = pc[d] /\ cur'[d] = cur[d]
    BY <1>rest DEF Rest, Resting
  <2>2. Holders(o) \subseteq Holders(o)'
    BY <1>0, <1>rest, <2>1 DEF Holders
  <2>3. Chances(o)' \subseteq Chances(o)
    BY <1>0, <1>rest, <2>1 DEF Chances, Ended
  <2> QED
    BY <2>2, <2>3
<1> HIDE DEF Goal
<1>1. ASSUME NEW r \in Req, RequestStep(r) PROVE Goal
  <2>1. UNCHANGED <<batch, snap>> /\ r \in Actor /\ r \notin Rec
    BY <1>1, ActorsAssumption
    DEF RequestStep, WithdrawFind, WithdrawCreate, WithdrawRead, WithdrawDebit,
        WithdrawWait, WithdrawConfirm, WithdrawFailRow, batchVars, Actor
  <2>2. \A d \in Rec : pc'[d] = pc[d] /\ cur'[d] = cur[d]
    BY <1>0, <1>1, <2>1
    DEF RequestStep, WithdrawFind, WithdrawCreate, WithdrawRead, WithdrawDebit,
        WithdrawWait, WithdrawConfirm, WithdrawFailRow, Rest, Goto
  <2> QED
    BY <2>1, <2>2 DEF Goal, Holders, Chances
<1>2. ASSUME NEW c \in Rec, ReconcileStep(c) PROVE Goal
  <2>0. c \in Actor
    BY <1>0
  <2>1. ASSUME NEW p \in Op, ReconcileTake(c, p) PROVE Goal
    <3>1. /\ pc[c] = "idle" /\ batch' = [batch EXCEPT ![c] = @ \ {p}]
          /\ \A d \in Rec, q \in Op :
               d # c \/ q # p => snap'[d][q] = snap[d][q]
          /\ \A d \in Actor \ {c} : pc'[d] = pc[d] /\ cur'[d] = cur[d]
          /\ p \in batch[c]
      BY <2>0, <2>1 DEF ReconcileTake, BatchTyped
    <3>2. pc'[c] = "send" => ToSend(snap[c][p]) /\ cur'[c] = p
      BY <2>0, <2>1 DEF ReconcileTake
    <3>3. \A d \in Rec, q \in Op :
            q \in batch'[d] => q \in batch[d] /\ snap'[d][q] = snap[d][q]
      BY <3>1 DEF BatchTyped
    <3>4. Holders(o) \subseteq Holders(o)'
      BY <1>0, <3>1 DEF Holders
    <3>5. Chances(o)' \subseteq Chances(o)
      BY <1>0, <3>1, <3>2, <3>3 DEF Chances
    <3> QED
      BY <3>4, <3>5 DEF Goal
  <2>2. ASSUME NEW p \in Op, ReconcileTouchFails(c, p) PROVE Goal
    <3>1. /\ pc[c] = "idle" /\ batch' = [batch EXCEPT ![c] = @ \ {p}]
          /\ \A d \in Rec, q \in Op :
               d # c \/ q # p => snap'[d][q] = snap[d][q]
          /\ \A d \in Actor \ {c} : pc'[d] = pc[d] /\ cur'[d] = cur[d]
          /\ pc'[c] = "markFailed"
      BY <2>0, <2>2 DEF ReconcileTouchFails, BatchTyped
    <3>3. \A d \in Rec, q \in Op :
            q \in batch'[d] => q \in batch[d] /\ snap'[d][q] = snap[d][q]
      BY <3>1 DEF BatchTyped
    <3>4. Holders(o) \subseteq Holders(o)'
      BY <1>0, <3>1 DEF Holders
    <3>5. Chances(o)' \subseteq Chances(o)
      BY <1>0, <3>1, <3>3 DEF Chances
    <3> QED
      BY <3>4, <3>5 DEF Goal
  <2>3. ASSUME NEW p \in Op, ReconcileCompensation(c, p) PROVE Goal
    BY <1>stay, <2>3 DEF ReconcileCompensation, procVars
  <2>4. CASE ReconcileStart(c)
    <3>1. /\ UNCHANGED <<pc, cur>>
          /\ \A d \in Rec \ {c} : batch'[d] = batch[d] /\ snap'[d] = snap[d]
          /\ o \in batch'[c] => snap'[c][o] = op[o]
      BY <2>4 DEF ReconcileStart, procVars, BatchTyped
    <3>2. op[o].hash # None => ~ToSend(op[o])
      BY DEF ToSend
    <3> QED
      BY <3>1, <3>2 DEF Goal, Holders, Chances
  <2>5. CASE ReconcileSeesTx(c)
    BY <1>goto, <2>0, <2>5 DEF ReconcileSeesTx, batchVars
  <2>6. CASE ReconcileSeesNothing(c) \/ ReconcileFinalize(c)
    BY <1>rest, <2>0, <2>6
    DEF ReconcileSeesNothing, ReconcileFinalize, Ended, batchVars
  <2> QED
    BY <1>2, <2>1, <2>2, <2>3, <2>4, <2>5, <2>6 DEF ReconcileStep
<1>3. ASSUME NEW b \in Actor, SharedStep(b) PROVE Goal
  <2>2. CASE SendRejected(b) \/ MarkFailed(b)
    BY <1>goto, <2>2 DEF SendRejected, MarkFailed, batchVars
  <2>4. CASE InsertChainRow(b)
    BY <1>goto, <1>rest, <2>4 DEF InsertChainRow, Ended, batchVars
  <2>5. CASE CompensateFind(b)
    <3>1. pc[b] = "compFind" /\ cur[b] \in Op /\ UNCHANGED <<batch, snap>>
      BY <2>5 DEF CompensateFind, LocalsOK, Working, batchVars
    <3>2. comp[cur[b]] \in {"ABSENT", "NEW", "CONFIRMED"}
      BY <3>1 DEF RowsTyped
    <3>3. Rest(b, "threw") \/ Goto(b, "compPost") \/ Goto(b, "compCreate")
      BY <2>5, <3>2 DEF CompensateFind
    <3> QED
      BY <1>goto, <1>rest, <3>1, <3>3 DEF Ended
  <2>6. CASE CompensateCreate(b)
    <3>1. CASE Goto(b, "compPost") /\ UNCHANGED batchVars
      BY <1>goto, <2>6, <3>1 DEF CompensateCreate, batchVars
    <3>2. CASE Escape(b)
      <4>1. \A d \in Rec : \/ batch'[d] = batch[d] /\ snap'[d] = snap[d]
                           \/ batch'[d] = {}
        BY <3>2 DEF Escape, batchVars, BatchTyped
      <4> QED
        BY <1>rest, <2>6, <3>2, <4>1 DEF CompensateCreate, Escape, Ended
    <3> QED
      BY <2>6, <3>1, <3>2 DEF CompensateCreate
  <2>7. CASE CompensatePost(b)
    BY <1>rest, <2>7 DEF CompensatePost, Ended, batchVars
  <2> QED
    BY <1>3, <2>2, <2>4, <2>5, <2>6, <2>7 DEF SharedStep, Telling, Sends
<1>4. ASSUME Environment PROVE Goal
  <2>3. ASSUME NEW h \in Hash, ChainSettles(h) PROVE Goal
    BY <1>stay, <2>3 DEF ChainSettles, procVars, batchVars
  <2> QED
    BY <1>4, <2>3 DEF Environment, Telling, Sends
<1>5. ASSUME UNCHANGED vars PROVE Goal
  BY <1>stay, <1>5 DEF vars, procVars, batchVars
<1>6. Goal
  BY <1>1, <1>2, <1>3, <1>4, <1>5 DEF Next
<1> QED
  BY <1>6, HashStays, CountsStay DEF Settled, Goal, Telling

LEMMA ExcusedGrows ==
  ASSUME TypeInv, TypeInv'
  PROVE  /\ Excused \in Nat /\ Excused' \in Nat
         /\ crashes' = crashes => Excused' = Excused + (faults' - faults)
         /\ crashes' = crashes + 1 /\ faults' = faults
              => Excused' = Excused + Cardinality(Rec)
<1>1. /\ crashes \in Nat /\ crashes' \in Nat /\ faults \in Nat /\ faults' \in Nat
      /\ Cardinality(Rec) \in Nat
  BY RunsFinite, BoundsAssumption DEF TypeInv, BoundsTyped
<1>2. \A n, m \in Nat : n * m \in Nat /\ n * (m + 1) = n * m + n
  OBVIOUS
<1>3. /\ Excused = Cardinality(Rec) * crashes + faults
      /\ Excused' = Cardinality(Rec) * crashes' + faults'
  BY DEF Excused
<1>4. /\ Cardinality(Rec) * crashes \in Nat
      /\ Cardinality(Rec) * crashes' \in Nat
      /\ Cardinality(Rec) * (crashes + 1)
           = Cardinality(Rec) * crashes + Cardinality(Rec)
  BY <1>1, <1>2
<1>5. Excused \in Nat /\ Excused' \in Nat
  BY <1>1, <1>3, <1>4
<1>6. ASSUME crashes' = crashes PROVE Excused' = Excused + (faults' - faults)
  <2>1. Cardinality(Rec) * crashes' = Cardinality(Rec) * crashes
    BY <1>6
  <2> QED
    BY <1>1, <1>3, <1>4, <2>1
<1>7. ASSUME crashes' = crashes + 1, faults' = faults
      PROVE  Excused' = Excused + Cardinality(Rec)
  <2>1. Cardinality(Rec) * crashes' = Cardinality(Rec) * (crashes + 1)
    BY <1>7
  <2> QED
    BY <1>1, <1>3, <1>4, <1>7, <2>1
<1> QED
  BY <1>5, <1>6, <1>7

\* The count of one operation, before and after.
Counted(o) ==
  /\ op[o].hash = None => resends[o] <= Cardinality(Holders(o)) + Excused
  /\ op[o].hash # None =>
       resends[o] + Cardinality(Chances(o)) <= Cardinality(Rec) + Excused

LEMMA CountedTypes ==
  ASSUME TypeInv, TypeInv', NEW o \in Op
  PROVE  /\ resends[o] \in Nat /\ resends'[o] \in Nat
         /\ Cardinality(Rec) \in Nat
         /\ IsFiniteSet(Holders(o)) /\ Cardinality(Holders(o)) \in Nat
         /\ IsFiniteSet(Holders(o)') /\ Cardinality(Holders(o)') \in Nat
         /\ IsFiniteSet(Chances(o)) /\ Cardinality(Chances(o)) \in Nat
         /\ IsFiniteSet(Chances(o)') /\ Cardinality(Chances(o)') \in Nat
         /\ Cardinality(Holders(o)) <= Cardinality(Rec)
         /\ Cardinality(Chances(o)') <= Cardinality(Rec)
         /\ Excused \in Nat /\ Excused' \in Nat
  BY RunsFinite, RunSets, ExcusedGrows DEF TypeInv, ChainTyped

\* A step after which a run that held a hash holds it, but for one whose call
\* failed, and no run has gained a chance.
LEMMA CountStays ==
  ASSUME TypeInv, TypeInv', NEW o \in Op, Counted(o),
         resends'[o] = resends[o], op'[o].hash = op[o].hash,
         crashes' = crashes,
         \/ faults' \in {faults, faults + 1} /\ Holders(o) \subseteq Holders(o)'
         \/ /\ faults' = faults + 1
            /\ \E a : Holders(o) \ {a} \subseteq Holders(o)',
         op[o].hash # None => Chances(o)' \subseteq Chances(o)
  PROVE  Counted(o)'
<1>0. faults \in Nat /\ faults' \in Nat
  BY BoundsAssumption DEF TypeInv, BoundsTyped
<1>1. Excused' = Excused + (faults' - faults)
  BY ExcusedGrows
<1>2. CASE op[o].hash = None
  <2>1. resends[o] <= Cardinality(Holders(o)) + Excused
    BY <1>2 DEF Counted
  <2>2. Cardinality(Holders(o)) + faults <= Cardinality(Holders(o)') + faults'
    <3>1. CASE /\ faults' \in {faults, faults + 1}
               /\ Holders(o) \subseteq Holders(o)'
      <4>1. Cardinality(Holders(o)) <= Cardinality(Holders(o)')
        BY <3>1, CountedTypes, FS_Subset
      <4> QED
        BY <1>0, <3>1, <4>1, CountedTypes
    <3>2. ASSUME faults' = faults + 1,
                 NEW a, Holders(o) \ {a} \subseteq Holders(o)'
          PROVE  Cardinality(Holders(o)) + faults
                   <= Cardinality(Holders(o)') + faults'
      <4>1. /\ Cardinality(Holders(o) \ {a}) \in Nat
            /\ Cardinality(Holders(o)) - 1 <= Cardinality(Holders(o) \ {a})
        <5>1. /\ IsFiniteSet(Holders(o) \ {a})
              /\ Cardinality(Holders(o) \ {a})
                   = IF a \in Holders(o) THEN Cardinality(Holders(o)) - 1
                                         ELSE Cardinality(Holders(o))
          BY CountedTypes, FS_RemoveElement
        <5> QED
          BY <5>1, CountedTypes, FS_CardinalityType
      <4>2. Cardinality(Holders(o) \ {a}) <= Cardinality(Holders(o)')
        BY <3>2, CountedTypes, FS_Subset
      <4> QED
        BY <1>0, <3>2, <4>1, <4>2, CountedTypes
    <3> QED
      BY <3>1, <3>2
  <2>3. resends'[o] <= Cardinality(Holders(o)') + Excused'
    BY <1>0, <1>1, <2>1, <2>2, CountedTypes
  <2> QED
    BY <1>2, <2>3 DEF Counted
<1>3. CASE op[o].hash # None
  <2>1. resends[o] + Cardinality(Chances(o)) <= Cardinality(Rec) + Excused
    BY <1>3 DEF Counted
  <2>2. Cardinality(Chances(o)') <= Cardinality(Chances(o))
    BY <1>3, CountedTypes, FS_Subset
  <2>3. faults <= faults'
    BY <1>0
  <2>4. resends'[o] + Cardinality(Chances(o)') <= Cardinality(Rec) + Excused'
    BY <1>0, <1>1, <2>1, <2>2, <2>3, CountedTypes
  <2> QED
    BY <1>3, <2>4 DEF Counted
<1> QED
  BY <1>2, <1>3

LEMMA SendCounted ==
  ASSUME TypeInv, TypeInv', VisitsApart, NEW o \in Op, Counted(o),
         NEW a \in Actor, NEW h \in Hash, Send(a, h) \/ SendLost(a, h)
  PROVE  Counted(o)'
<1> USE DEF TypeInv, ProcsTyped
<1>1. /\ pc[a] = "send" /\ cur' = cur /\ op' = op /\ crashes' = crashes
      /\ UNCHANGED <<batch, snap>>
      /\ resends' = IF a \in Rec THEN [resends EXCEPT ![cur[a]] = @ + 1]
                                 ELSE resends
      /\ \A c \in Actor \ {a} : pc'[c] = pc[c]
      /\ \/ pc'[a] = "mark" /\ faults' = faults
         \/ pc'[a] = "markFailed" /\ faults' = faults + 1
  BY DEF Send, SendLost, Goto, rowVars, batchVars, boundVars
<1>2. Holders(o) \subseteq Holders(o)' /\ Chances(o)' \subseteq Chances(o)
  BY <1>1 DEF Holders, Chances, Actor
<1>3. CASE a \notin Rec \/ cur[a] # o
  <2>1. resends'[o] = resends[o]
    BY <1>1, <1>3 DEF ChainTyped
  <2> QED
    BY <1>1, <1>2, <2>1, CountStays
<1>4. CASE a \in Rec /\ cur[a] = o
  <2>1. resends'[o] = resends[o] + 1
    BY <1>1, <1>4 DEF ChainTyped
  <2>2. faults \in Nat /\ Excused' = Excused + (faults' - faults)
    BY <1>1, ExcusedGrows, BoundsAssumption DEF BoundsTyped
  <2>3. CASE op[o].hash = None
    <3>1. resends[o] <= Cardinality(Holders(o)) + Excused
      BY <2>3 DEF Counted
    <3>2. Cardinality(Holders(o)) + faults + 1
            <= Cardinality(Holders(o)') + faults'
      <4>1. CASE pc'[a] = "mark" /\ faults' = faults
        <5>1. a \notin Holders(o) /\ Holders(o) \cup {a} \subseteq Holders(o)'
          BY <1>1, <1>2, <1>4, <4>1 DEF Holders
        <5>2. Cardinality(Holders(o) \cup {a}) = Cardinality(Holders(o)) + 1
          BY <5>1, CountedTypes, FS_AddElement
        <5>3. Cardinality(Holders(o) \cup {a}) <= Cardinality(Holders(o)')
          BY <5>1, CountedTypes, FS_Subset
        <5> QED
          BY <2>2, <4>1, <5>2, <5>3, CountedTypes
      <4>2. CASE faults' = faults + 1
        <5>1. Cardinality(Holders(o)) <= Cardinality(Holders(o)')
          BY <1>2, CountedTypes, FS_Subset
        <5> QED
          BY <2>2, <4>2, <5>1, CountedTypes
      <4> QED
        BY <1>1, <4>1, <4>2
    <3>3. faults' \in Nat
      BY <1>1, <2>2
    <3>4. resends'[o] <= Cardinality(Holders(o)') + Excused'
      BY <2>1, <2>2, <3>1, <3>2, <3>3, CountedTypes
    <3> QED
      BY <1>1, <2>3, <3>4 DEF Counted
  <2>4. CASE op[o].hash # None
    <3>1. resends[o] + Cardinality(Chances(o)) <= Cardinality(Rec) + Excused
      BY <2>4 DEF Counted
    <3>2. a \in Chances(o) /\ a \notin Chances(o)'
      BY <1>1, <1>4 DEF Chances, VisitsApart, Working
    <3>3. /\ IsFiniteSet(Chances(o) \ {a})
          /\ Cardinality(Chances(o) \ {a}) = Cardinality(Chances(o)) - 1
      BY <3>2, CountedTypes, FS_RemoveElement
    <3>4. Cardinality(Chances(o)') <= Cardinality(Chances(o)) - 1
      BY <1>2, <3>2, <3>3, FS_Subset
    <3>5. Excused <= Excused'
      BY <1>1, <2>2, CountedTypes
    <3>6. resends'[o] + Cardinality(Chances(o)') <= Cardinality(Rec) + Excused'
      BY <2>1, <3>1, <3>4, <3>5, CountedTypes
    <3> QED
      BY <1>1, <2>4, <3>6 DEF Counted
  <2> QED
    BY <2>3, <2>4
<1> QED
  BY <1>3, <1>4

LEMMA MarkCounted ==
  ASSUME TypeInv, TypeInv', VisitsApart, NEW o \in Op, Counted(o),
         NEW a \in Actor, MarkBroadcasted(a)
  PROVE  Counted(o)'
<1> USE DEF TypeInv, ProcsTyped
<1>1. /\ pc[a] = "mark" /\ pc'[a] = "row" /\ cur' = cur /\ resends' = resends
      /\ \A c \in Actor \ {a} : pc'[c] = pc[c]
      /\ UNCHANGED <<batch, snap, faults, crashes>>
  BY DEF MarkBroadcasted, Goto, chainVars, batchVars, boundVars
<1>2. Chances(o)' \subseteq Chances(o)
  BY <1>1 DEF Chances, Actor
<1>3. CASE cur[a] # o
  <2>1. Holders(o) \subseteq Holders(o)'
    BY <1>1, <1>3 DEF Holders, Actor
  <2>2. op'[o] = op[o]
    BY <1>3 DEF MarkBroadcasted, RowsTyped
  <2> QED
    BY <1>1, <1>2, <2>1, <2>2, CountStays
<1>4. CASE cur[a] = o
  <2>1. op'[o].hash = mine[a] /\ mine[a] # None
    BY <1>1, <1>4, ActorsAssumption DEF MarkBroadcasted, RowsTyped, LocalsOK
  <2>2. Excused' = Excused
    BY <1>1 DEF Excused
  <2>3. resends'[o] + Cardinality(Chances(o)') <= Cardinality(Rec) + Excused
    <3>1. CASE op[o].hash = None
      <4>1. Holders(o) \cap Chances(o)' = {}
        <5> SUFFICES ASSUME NEW c \in Holders(o) PROVE c \notin Chances(o)'
          OBVIOUS
        <5>1. c \in Rec /\ c \in Actor /\ pc[c] = "mark" /\ cur[c] = o
          BY DEF Holders, Actor
        <5>2. o \notin batch'[c]
          BY <1>1, <5>1 DEF VisitsApart, Working
        <5>3. pc'[c] # "send"
          BY <1>1, <5>1
        <5> QED
          BY <5>2, <5>3 DEF Chances
      <4>2. Cardinality(Holders(o) \cup Chances(o)')
              = Cardinality(Holders(o)) + Cardinality(Chances(o)')
                  - Cardinality({})
        BY <4>1, CountedTypes, FS_Union
      <4>3. /\ Cardinality(Holders(o) \cup Chances(o)') \in Nat
            /\ Cardinality(Holders(o) \cup Chances(o)') <= Cardinality(Rec)
        BY RunsFinite, RunSets
      <4>4. resends[o] <= Cardinality(Holders(o)) + Excused
        BY <3>1 DEF Counted
      <4> QED
        BY <1>1, <4>2, <4>3, <4>4, CountedTypes, FS_EmptySet
    <3>2. CASE op[o].hash # None
      <4>1. resends[o] + Cardinality(Chances(o)) <= Cardinality(Rec) + Excused
        BY <3>2 DEF Counted
      <4>2. Cardinality(Chances(o)') <= Cardinality(Chances(o))
        BY <1>2, CountedTypes, FS_Subset
      <4> QED
        BY <1>1, <4>1, <4>2, CountedTypes
    <3> QED
      BY <3>1, <3>2
  <2> QED
    BY <2>1, <2>2, <2>3 DEF Counted
<1> QED
  BY <1>3, <1>4

LEMMA FaultCounted ==
  ASSUME TypeInv, TypeInv', NEW o \in Op, Counted(o), NEW a \in Actor, Fault(a)
  PROVE  Counted(o)'
<1> USE DEF TypeInv, ProcsTyped
<1>1. /\ resends' = resends /\ op' = op /\ crashes' = crashes
      /\ faults' = faults + 1
  BY DEF Fault, chainVars, rowVars
<1>2. /\ \A c \in Actor \ {a} : pc'[c] = pc[c] /\ cur'[c] = cur[c]
      /\ pc'[a] # "send"
  <2>1. ASSUME NEW l, Goto(a, l), l # "send"
        PROVE  /\ \A c \in Actor \ {a} : pc'[c] = pc[c] /\ cur'[c] = cur[c]
               /\ pc'[a] # "send"
    BY <2>1 DEF Goto
  <2>2. ASSUME Rest(a, "threw")
        PROVE  /\ \A c \in Actor \ {a} : pc'[c] = pc[c] /\ cur'[c] = cur[c]
               /\ pc'[a] # "send"
    BY <2>2 DEF Rest, Resting
  <2> QED
    BY <2>1, <2>2 DEF Fault, Escape
<1>3. \A c \in Rec : \/ batch'[c] = batch[c] /\ snap'[c] = snap[c]
                     \/ batch'[c] = {}
  BY DEF Fault, Escape, batchVars, BatchTyped
<1>4. Holders(o) \ {a} \subseteq Holders(o)'
  BY <1>2 DEF Holders, Actor
<1>5. Chances(o)' \subseteq Chances(o)
  BY <1>2, <1>3 DEF Chances, Actor
<1> QED
  BY <1>1, <1>4, <1>5, CountStays

LEMMA CrashCounted ==
  ASSUME TypeInv, TypeInv', NEW o \in Op, Counted(o), Crash
  PROVE  Counted(o)'
<1>1. /\ resends' = resends /\ op' = op /\ crashes' = crashes + 1
      /\ faults' = faults
  BY DEF Crash, chainVars, rowVars
<1>2. Excused' = Excused + Cardinality(Rec)
  BY <1>1, ExcusedGrows
<1>3. Chances(o)' = {}
  BY ActorsAssumption
  DEF Crash, Chances, Resting, Working, TypeInv, ProcsTyped, Actor
<1>4. Cardinality(Chances(o)') = 0
  BY <1>3, FS_EmptySet
<1>5. op[o].hash = None => resends[o] <= Cardinality(Holders(o)) + Excused
  BY DEF Counted
<1>6. op[o].hash # None =>
        resends[o] + Cardinality(Chances(o)) <= Cardinality(Rec) + Excused
  BY DEF Counted
<1>7. /\ op[o].hash = None => resends[o] <= Excused'
      /\ op[o].hash # None => resends[o] <= Excused'
  BY <1>2, <1>5, <1>6, CountedTypes
<1>8. /\ resends'[o] <= Cardinality(Holders(o)') + Excused'
      /\ resends'[o] + Cardinality(Chances(o)') <= Cardinality(Rec) + Excused'
  BY <1>1, <1>4, <1>7, CountedTypes
<1> QED
  BY <1>8 DEF Counted

LEMMA NextSendsCounted ==
  TypeInv /\ TypeInv' /\ AbsentUnhashed /\ VisitsApart /\ SendsCounted
    /\ [Next]_vars => SendsCounted'
<1> SUFFICES ASSUME TypeInv, TypeInv', AbsentUnhashed, VisitsApart, SendsCounted,
                    [Next]_vars, NEW o \in Op
             PROVE  Counted(o)'
  BY DEF SendsCounted, Counted
<1>1. Counted(o)
  BY DEF SendsCounted, Counted
<1>2. ASSUME NEW a \in Actor, Telling(a) PROVE Counted(o)'
  BY <1>1, <1>2, SendCounted, MarkCounted, FaultCounted DEF Telling, Sends
<1>3. CASE Crash
  BY <1>1, <1>3, CrashCounted
<1>4. CASE (\A a \in Actor : ~Telling(a)) /\ ~Crash
  <2>1. Settled(o)
    BY <1>4, NextSettled
  <2> QED
    BY <1>1, <2>1, CountStays DEF Settled
<1> QED
  BY <1>2, <1>3, <1>4

\* Runs that are active together broadcast an operation once each, and again only
\* for calls that failed and restarts, for any requests beside them.
THEOREM ResendsStayBounded == Spec => []ResendsAreBounded
<1>1. Spec => []TypeInv
  BY InitTyped, NextTyped, PTL DEF Spec
<1>2. Init => AbsentUnhashed /\ VisitsApart
  BY DEF Init, AbsentUnhashed, NoRow, VisitsApart, Working, Actor
<1>3. Init => SendsCounted
  <2> SUFFICES ASSUME Init, NEW o \in Op PROVE Counted(o)
    BY DEF SendsCounted, Counted
  <2>1. op[o].hash = None /\ resends[o] = 0
    BY DEF Init, NoRow
  <2>2. Cardinality(Holders(o)) \in Nat /\ Cardinality(Rec) \in Nat
    BY RunsFinite, RunSets
  <2>3. Excused = 0
    BY <2>2 DEF Init, Excused
  <2> QED
    BY <2>1, <2>2, <2>3 DEF Counted
<1>4. TypeInv /\ TypeInv' /\ AbsentUnhashed /\ VisitsApart /\ SendsCounted
        /\ [Next]_vars => AbsentUnhashed' /\ VisitsApart' /\ SendsCounted'
  BY NextKeepsHash, NextVisitsApart, NextSendsCounted
<1>5. TypeInv /\ SendsCounted => ResendsAreBounded
  <2> SUFFICES ASSUME TypeInv, SendsCounted, NEW o \in Op
               PROVE  resends[o] <= Cardinality(Rec) * (1 + crashes) + faults
    BY DEF ResendsAreBounded
  <2>1. /\ resends[o] \in Nat /\ Cardinality(Rec) \in Nat
        /\ Cardinality(Holders(o)) \in Nat /\ Cardinality(Chances(o)) \in Nat
        /\ Cardinality(Holders(o)) <= Cardinality(Rec)
        /\ faults \in Nat /\ crashes \in Nat
    BY RunsFinite, RunSets, BoundsAssumption
    DEF TypeInv, ChainTyped, BoundsTyped
  <2>2. \A n, m \in Nat : n * m \in Nat /\ n * (1 + m) = n * m + n
    OBVIOUS
  <2>3. /\ Excused \in Nat
        /\ Cardinality(Rec) * (1 + crashes) + faults
             = Cardinality(Rec) + Excused
    BY <2>1, <2>2 DEF Excused
  <2>4. CASE op[o].hash = None
    <3>1. resends[o] <= Cardinality(Holders(o)) + Excused
      BY <2>4 DEF SendsCounted
    <3> QED
      BY <2>1, <2>3, <3>1
  <2>5. CASE op[o].hash # None
    <3>1. resends[o] + Cardinality(Chances(o)) <= Cardinality(Rec) + Excused
      BY <2>5 DEF SendsCounted
    <3> QED
      BY <2>1, <2>3, <3>1
  <2> QED
    BY <2>4, <2>5
<1> QED
  BY <1>1, <1>2, <1>3, <1>4, <1>5, PTL DEF Spec
=============================================================================
