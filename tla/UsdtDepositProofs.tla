------------------------- MODULE UsdtDepositProofs -------------------------
(***************************************************************************)
(* Proofs about UsdtDeposit for any number of deposits, keys, deliveries   *)
(* and reconcile runs, and for any pairing of hashes with keys.            *)
(***************************************************************************)
EXTENDS UsdtDeposit, TLAPS

-----------------------------------------------------------------------------
(* Typing, with what the program counter of an actor says of its locals.    *)

RowsTyped ==
  /\ op \in [Key -> Row]
  /\ chainRow \in [Hash -> Key \cup {None}]
  /\ credits \in [Hash -> Nat]

ChainTyped == chain \in [Hash -> {"mempool", "mined", "expired"}]

Finalizing == {"finTx", "finRow", "finCommit"}

LocalsOK ==
  \A a \in Actor :
    /\ pc[a] \in Working => tx[a] \in Hash /\ key[a] \in Key
    /\ pc[a] \in Finalizing \cup {"mark", "sweep", "markFailed"}
         => cur[a] \in Key
    /\ pc[a] \in {"byHash", "createConfirmed", "createPending", "mark"}
         => a \in Call
    /\ pc[a] \in {"sweep", "markFailed"} => a \in Rec
    /\ pc[a] = "check" /\ a \in Rec => cur[a] \in Key

ProcsTyped ==
  /\ pc \in [Actor -> Pc]
  /\ cur \in [Actor -> Key \cup {None}]
  /\ tx \in [Actor -> Hash \cup {None}]
  /\ key \in [Actor -> Key \cup {None}]
  /\ sawTx \in [Actor -> BOOLEAN] /\ sawRow \in [Actor -> BOOLEAN]
  /\ late \in [Actor -> BOOLEAN]
  /\ LocalsOK

BatchTyped == batch \in [Rec -> SUBSET (Key \X Hash)]

BoundsTyped == faults \in 0 .. MaxFaults /\ crashes \in 0 .. MaxCrashes

TypeInv ==
  RowsTyped /\ ChainTyped /\ ProcsTyped /\ BatchTyped /\ BoundsTyped

\* An operation that exists has its hash, and so has one an actor works on or a
\* reconcile run has picked: no step deletes a row or clears its hash.
Stored ==
  /\ \A k \in Key : op[k].status # "ABSENT" => op[k].hash \in Hash
  /\ \A a \in Actor : cur[a] \in Key => op[cur[a]].hash \in Hash
  /\ \A c \in Rec, k \in Key, h \in Hash :
       <<k, h>> \in batch[c] => op[k].hash \in Hash

LEMMA TypeInvImpliesTypeOK == TypeInv => TypeOK
  BY DEF TypeInv, TypeOK, RowsTyped, ChainTyped, ProcsTyped, BatchTyped,
         BoundsTyped

LEMMA InitTyped == Init => TypeInv
  BY BoundsAssumption
  DEF Init, TypeInv, RowsTyped, ChainTyped, ProcsTyped, BatchTyped,
      BoundsTyped, LocalsOK, Row, NoRow, Status, Pc, Working, Finalizing

\* A group of variables that a step leaves alone stays typed.
LEMMA UnchangedTyped ==
  /\ RowsTyped /\ UNCHANGED rowVars => RowsTyped'
  /\ ChainTyped /\ UNCHANGED chain => ChainTyped'
  /\ ProcsTyped /\ UNCHANGED procVars => ProcsTyped'
  /\ BatchTyped /\ UNCHANGED batch => BatchTyped'
  /\ BoundsTyped /\ UNCHANGED boundVars => BoundsTyped'
  BY DEF RowsTyped, rowVars, ChainTyped, ProcsTyped, LocalsOK, procVars,
         BatchTyped, BoundsTyped, boundVars

\* Rest leaves well-typed locals behind, at no step.
LEMMA RestTyped ==
  ASSUME ProcsTyped, NEW a \in Actor, NEW end \in {"answered", "threw"},
         Rest(a, end)
  PROVE  ProcsTyped'
  BY ActorsAssumption
  DEF ProcsTyped, LocalsOK, Rest, Resting, Pc, Working, Finalizing, Actor

\* Goto keeps the locals: the new step must not need more of them.
LEMMA GotoTyped ==
  ASSUME ProcsTyped, NEW a \in Actor, pc[a] \in Working, NEW l, Goto(a, l),
         \/ l = "check" /\ a \in Call
         \/ l \in {"createConfirmed", "createPending"} /\ a \in Call
         \/ l = "mark" /\ cur[a] \in Key /\ a \in Call
         \/ l = "finTx" /\ cur[a] \in Key
         \/ l \in {"sweep", "markFailed"} /\ cur[a] \in Key /\ a \in Rec
  PROVE  ProcsTyped'
  BY ActorsAssumption
  DEF ProcsTyped, LocalsOK, Goto, Pc, Working, Finalizing, Actor

LEMMA NextTyped == TypeInv /\ Stored /\ [Next]_vars => TypeInv'
<1> SUFFICES ASSUME TypeInv, Stored, [Next]_vars PROVE TypeInv'
  OBVIOUS
<1> USE DEF TypeInv
<1>1. ASSUME NEW w \in Call, NEW n \in Notice, WebhookByKey(w, n)
      PROVE  TypeInv'
  <2>1. w \in Actor /\ n[1] \in Hash /\ n[2] \in Key
    BY NoticeAssumption DEF Actor
  <2>2. ProcsTyped'
    <3>1. CASE Rest(w, "answered")
      BY <3>1, <2>1, RestTyped
    <3>2. CASE ~Rest(w, "answered")
      <4>1. /\ \/ /\ pc' = [pc EXCEPT ![w] = "byHash"]
                  /\ cur' = [cur EXCEPT ![w] = None]
               \/ /\ pc' = [pc EXCEPT ![w] = "check"]
                  /\ cur' = [cur EXCEPT ![w] = n[2]]
            /\ tx' = [tx EXCEPT ![w] = n[1]]
            /\ key' = [key EXCEPT ![w] = n[2]]
            /\ late' = [late EXCEPT ![w] = credits[n[1]] > 0]
            /\ UNCHANGED <<sawTx, sawRow>>
        BY <1>1, <3>2 DEF WebhookByKey
      <4>2. (credits[n[1]] > 0) \in BOOLEAN
        OBVIOUS
      <4> QED
        BY <4>1, <4>2, <2>1, ActorsAssumption
        DEF ProcsTyped, LocalsOK, Pc, Working, Finalizing
    <3> QED
      BY <3>1, <3>2
  <2> QED
    BY <1>1, <2>2, UnchangedTyped DEF WebhookByKey
<1>2. ASSUME NEW w \in Call, WebhookByHash(w) PROVE TypeInv'
  <2>1. w \in Actor /\ pc[w] \in Working
    BY <1>2 DEF WebhookByHash, Working, Actor
  <2>2. CASE Goto(w, "check") \/ Rest(w, "answered")
    <3>1. ProcsTyped'
      BY <2>1, <2>2, GotoTyped, RestTyped
    <3> QED
      BY <1>2, <3>1, UnchangedTyped DEF WebhookByHash
  <2>3. ASSUME NEW k \in Key, pc' = [pc EXCEPT ![w] = "check"],
               cur' = [cur EXCEPT ![w] = k],
               UNCHANGED <<tx, key, sawTx, sawRow, late>>
        PROVE  TypeInv'
    <3>1. ProcsTyped'
      BY <2>1, <2>3 DEF ProcsTyped, LocalsOK, Pc, Working, Finalizing
    <3> QED
      BY <1>2, <3>1, UnchangedTyped DEF WebhookByHash
  <2> QED
    BY <1>2, <2>2, <2>3 DEF WebhookByHash, FoundByHash
<1>3. ASSUME NEW w \in Call, WebhookSeesTx(w) PROVE TypeInv'
  <2>1. w \in Actor /\ pc[w] \in Working /\ cur[w] \in Key \cup {None}
    BY <1>3 DEF WebhookSeesTx, Working, Actor, ProcsTyped
  <2>2. ProcsTyped'
    BY <1>3, <2>1, GotoTyped DEF WebhookSeesTx
  <2> QED
    BY <1>3, <2>2, UnchangedTyped DEF WebhookSeesTx
<1>4. ASSUME NEW w \in Call, WebhookSeesNothing(w) PROVE TypeInv'
  <2>1. w \in Actor /\ pc[w] \in Working /\ cur[w] \in Key \cup {None}
    BY <1>4 DEF WebhookSeesNothing, Working, Actor, ProcsTyped
  <2>2. ProcsTyped'
    BY <1>4, <2>1, GotoTyped DEF WebhookSeesNothing
  <2> QED
    BY <1>4, <2>2, UnchangedTyped DEF WebhookSeesNothing
<1>5. ASSUME NEW w \in Call, WebhookCreate(w) PROVE TypeInv'
  <2>1. w \in Actor /\ pc[w] \in Working /\ tx[w] \in Hash /\ key[w] \in Key
    BY <1>5 DEF WebhookCreate, Working, Actor, ProcsTyped, LocalsOK
  <2>2. CASE Insertable(w)
    <3>1. CreatedRow(w) \in Row /\ CreatedRow(w).hash = tx[w]
      BY <2>1 DEF CreatedRow, Row, Status
    <3>2. op' = [op EXCEPT ![key[w]] = CreatedRow(w)]
      BY <1>5, <2>2 DEF WebhookCreate
    <3>3. RowsTyped'
      BY <1>5, <2>1, <3>1, <3>2 DEF WebhookCreate, RowsTyped
    <3>4. ProcsTyped'
      BY <1>5, <2>1, <2>2
      DEF WebhookCreate, ProcsTyped, LocalsOK, Pc, Working, Finalizing
    <3> QED
      BY <1>5, <3>3, <3>4, UnchangedTyped DEF WebhookCreate
  <2>3. CASE ~Insertable(w)
    <3>1. ProcsTyped'
      BY <1>5, <2>1, <2>3, RestTyped DEF WebhookCreate
    <3> QED
      BY <1>5, <2>3, <3>1, UnchangedTyped DEF WebhookCreate, rowVars
  <2> QED
    BY <2>2, <2>3
<1>6. ASSUME NEW w \in Call, WebhookMark(w) PROVE TypeInv'
  <2>1. w \in Actor /\ pc[w] \in Working /\ tx[w] \in Hash /\ cur[w] \in Key
    BY <1>6 DEF WebhookMark, Working, Actor, ProcsTyped, LocalsOK
  <2>2. ProcsTyped'
    BY <1>6, <2>1, RestTyped DEF WebhookMark
  <2>3. [status |-> "BROADCASTED", hash |-> tx[w], done |-> FALSE] \in Row
    BY <2>1 DEF Row, Status
  <2>4. RowsTyped'
    BY <1>6, <2>1, <2>3 DEF WebhookMark, RowsTyped
  <2> QED
    BY <1>6, <2>2, <2>4, UnchangedTyped DEF WebhookMark
<1>7. ASSUME NEW a \in Actor, FinalizeFindTx(a) PROVE TypeInv'
  <2>1. ProcsTyped'
    BY <1>7
    DEF FinalizeFindTx, ProcsTyped, LocalsOK, Pc, Working, Finalizing, TxFound
  <2> QED
    BY <1>7, <2>1, UnchangedTyped DEF FinalizeFindTx
<1>8. ASSUME NEW a \in Actor, FinalizeFindRow(a) PROVE TypeInv'
  <2>1. ProcsTyped'
    BY <1>8 DEF FinalizeFindRow, ProcsTyped, LocalsOK, Pc, Working, Finalizing
  <2> QED
    BY <1>8, <2>1, UnchangedTyped DEF FinalizeFindRow
<1>9. ASSUME NEW a \in Actor, FinalizeThrows(a) PROVE TypeInv'
  <2>1. pc[a] \in Working /\ cur[a] \in Key
    BY <1>9 DEF FinalizeThrows, ProcsTyped, LocalsOK, Working, Finalizing
  <2>2. ProcsTyped'
    BY <1>9, <2>1, RestTyped, GotoTyped DEF FinalizeThrows, Actor
  <2> QED
    BY <1>9, <2>2, UnchangedTyped DEF FinalizeThrows
<1>10. ASSUME NEW a \in Actor, FinalizeCommit(a) PROVE TypeInv'
  <2>1. pc[a] \in Working /\ cur[a] \in Key /\ tx[a] \in Hash
    BY <1>10 DEF FinalizeCommit, ProcsTyped, LocalsOK, Working, Finalizing
  <2>2. ProcsTyped'
    BY <1>10, <2>1, RestTyped, GotoTyped DEF FinalizeCommit, Actor
  <2>3. /\ ConfirmedRow(op[cur[a]]) \in Row
        /\ ConfirmedRow(op[cur[a]]).hash = op[cur[a]].hash
    BY <2>1 DEF ConfirmedRow, RowsTyped, Row, Status
  <2>5. RowsTyped'
    BY <1>10, <2>1, <2>3 DEF FinalizeCommit, RowsTyped, Credited
  <2> QED
    BY <1>10, <2>2, <2>5, UnchangedTyped DEF FinalizeCommit
<1>11. ASSUME NEW c \in Rec, ReconcileStart(c) PROVE TypeInv'
  <2>1. \A k \in Key : op[k].status \in Picked => op[k].hash \in Hash
    BY DEF Stored, Picked
  <2>2. {<<k, op[k].hash>> : k \in {j \in Key : op[j].status \in Picked}}
          \in SUBSET (Key \X Hash)
    BY <2>1
  <2>3. BatchTyped'
    BY <1>11, <2>2 DEF ReconcileStart, BatchTyped
  <2> QED
    BY <1>11, <2>3, UnchangedTyped DEF ReconcileStart
<1>12. ASSUME NEW c \in Rec, NEW k \in Key, NEW h \in Hash,
              ReconcileTake(c, k, h)
       PROVE  TypeInv'
  <2>1. ProcsTyped'
    BY <1>12, ActorsAssumption
    DEF ReconcileTake, ProcsTyped, LocalsOK, Pc, Working, Finalizing, Actor
  <2>2. BatchTyped'
    BY <1>12 DEF ReconcileTake, BatchTyped
  <2> QED
    BY <1>12, <2>1, <2>2, UnchangedTyped DEF ReconcileTake
<1>13. ASSUME NEW c \in Rec, ReconcileSeesTx(c) PROVE TypeInv'
  <2>1. c \in Actor /\ pc[c] \in Working /\ cur[c] \in Key
    BY <1>13 DEF ReconcileSeesTx, ProcsTyped, LocalsOK, Working, Actor
  <2>2. ProcsTyped'
    BY <1>13, <2>1, GotoTyped DEF ReconcileSeesTx
  <2> QED
    BY <1>13, <2>2, UnchangedTyped DEF ReconcileSeesTx
<1>14. ASSUME NEW c \in Rec, ReconcileSeesNothing(c) \/ ReconcileSwept(c)
       PROVE  TypeInv'
  <2>1. ProcsTyped'
    BY <1>14, RestTyped DEF ReconcileSeesNothing, ReconcileSwept, Actor
  <2> QED
    BY <1>14, <2>1, UnchangedTyped DEF ReconcileSeesNothing, ReconcileSwept
<1>15. ASSUME NEW c \in Rec, ReconcileMarkFailed(c) PROVE TypeInv'
  <2>1. c \in Actor /\ cur[c] \in Key
    BY <1>15 DEF ReconcileMarkFailed, ProcsTyped, LocalsOK, Actor
  <2>2. ProcsTyped'
    BY <1>15, <2>1, RestTyped DEF ReconcileMarkFailed
  <2>3. [op[cur[c]] EXCEPT !.status = "FAILED"] \in Row
    BY <2>1 DEF RowsTyped, Row, Status
  <2>4. RowsTyped'
    BY <1>15, <2>1, <2>3 DEF ReconcileMarkFailed, RowsTyped
  <2> QED
    BY <1>15, <2>2, <2>4, UnchangedTyped DEF ReconcileMarkFailed
<1>16. ASSUME NEW a \in Actor, Fault(a) PROVE TypeInv'
  <2>1. BoundsTyped'
    BY <1>16, BoundsAssumption DEF Fault, BoundsTyped
  <2>2. BatchTyped'
    BY <1>16 DEF Fault, BatchTyped
  <2>3. CASE Rest(a, "threw")
    <3>1. ProcsTyped'
      BY <2>3, RestTyped
    <3> QED
      BY <1>16, <2>1, <2>2, <3>1, UnchangedTyped DEF Fault
  <2>4. CASE a \in Rec /\ pc[a] \in Working \ {"markFailed"}
             /\ Goto(a, "markFailed")
    <3>1. cur[a] \in Key
      BY <2>4, ActorsAssumption DEF ProcsTyped, LocalsOK, Working, Finalizing
    <3>2. ProcsTyped'
      BY <2>4, <3>1, GotoTyped
    <3> QED
      BY <1>16, <2>1, <2>2, <3>2, UnchangedTyped DEF Fault
  <2> QED
    BY <1>16, <2>3, <2>4 DEF Fault
<1>17. ASSUME Crash PROVE TypeInv'
  <2>1. ProcsTyped'
    BY <1>17, ActorsAssumption
    DEF Crash, Resting, ProcsTyped, LocalsOK, Pc, Working, Finalizing, Actor
  <2>2. BatchTyped' /\ BoundsTyped'
    BY <1>17, BoundsAssumption DEF Crash, BatchTyped, BoundsTyped
  <2> QED
    BY <1>17, <2>1, <2>2, UnchangedTyped DEF Crash
<1>18. ASSUME NEW h \in Hash, ChainSettles(h) PROVE TypeInv'
  <2>1. ChainTyped'
    BY <1>18 DEF ChainSettles, ChainTyped
  <2> QED
    BY <1>18, <2>1, UnchangedTyped DEF ChainSettles
<1>19. CASE UNCHANGED vars
  BY <1>19, UnchangedTyped DEF vars
<1> QED
  BY <1>1, <1>2, <1>3, <1>4, <1>5, <1>6, <1>7, <1>8, <1>9, <1>10, <1>11,
     <1>12, <1>13, <1>14, <1>15, <1>16, <1>17, <1>18, <1>19
  DEF Next, WebhookStep, FinalizeStep, ReconcileStep, Environment

\* A step keeps Stored if it clears no hash, creates rows with one, and lets no
\* actor take a row without.
LEMMA StoredStays ==
  ASSUME Stored, TypeInv, TypeInv',
         \A k \in Key : op[k].hash \in Hash => op'[k].hash \in Hash,
         \A k \in Key : op'[k] = op[k] \/ op'[k].hash \in Hash,
         \A a \in Actor : \/ cur'[a] \in {None, cur[a]}
                          \/ op'[cur'[a]].hash \in Hash,
         \A c \in Rec, k \in Key, h \in Hash :
           <<k, h>> \in batch'[c] => \/ <<k, h>> \in batch[c]
                                    \/ op'[k].hash \in Hash
  PROVE  Stored'
  BY ActorsAssumption DEF Stored, TypeInv, RowsTyped, ProcsTyped

LEMMA NextStored ==
  TypeInv /\ TypeInv' /\ Stored /\ [Next]_vars => Stored'
<1> SUFFICES ASSUME TypeInv, TypeInv', Stored, [Next]_vars PROVE Stored'
  OBVIOUS
<1>quiet. ASSUME op' = op,
                 \A a \in Actor : cur'[a] \in {None, cur[a]},
                 \A c \in Rec : batch'[c] \subseteq batch[c]
          PROVE  Stored'
  BY <1>quiet, StoredStays
<1>rest. ASSUME NEW a \in Actor, NEW end, Rest(a, end)
         PROVE  \A b \in Actor : cur'[b] \in {None, cur[b]}
  BY <1>rest DEF Rest, TypeInv, ProcsTyped
<1>goto. ASSUME NEW a \in Actor, NEW l, Goto(a, l)
         PROVE  \A b \in Actor : cur'[b] \in {None, cur[b]}
  BY <1>goto DEF Goto
<1>1. ASSUME NEW w \in Call, NEW n \in Notice, WebhookByKey(w, n)
      PROVE  Stored'
  <2>1. w \in Actor /\ n[2] \in Key
    BY NoticeAssumption DEF Actor
  <2>2. op' = op /\ batch' = batch
    BY <1>1 DEF WebhookByKey, rowVars
  <2>3. CASE Rest(w, "answered")
    BY <2>1, <2>2, <2>3, <1>quiet, <1>rest
  <2>4. CASE cur' = [cur EXCEPT ![w] = IF op[n[2]].status = "ABSENT"
                                       THEN None ELSE n[2]]
    <3>1. op[n[2]].status # "ABSENT" => op'[n[2]].hash \in Hash
      BY <2>1, <2>2 DEF Stored
    <3>2. \A a \in Actor : \/ cur'[a] \in {None, cur[a]}
                          \/ op'[cur'[a]].hash \in Hash
      BY <2>4, <3>1 DEF TypeInv, ProcsTyped
    <3> QED
      BY <2>2, <3>2, StoredStays
  <2> QED
    BY <1>1, <2>3, <2>4 DEF WebhookByKey
<1>2. ASSUME NEW w \in Call, WebhookByHash(w) PROVE Stored'
  <2>1. w \in Actor /\ op' = op /\ batch' = batch
    BY <1>2 DEF WebhookByHash, rowVars, Actor
  <2>2. CASE Goto(w, "check") \/ Rest(w, "answered")
    BY <2>1, <2>2, <1>quiet, <1>rest, <1>goto
  <2>3. ASSUME NEW k \in FoundByHash(w), cur' = [cur EXCEPT ![w] = k]
        PROVE  Stored'
    <3>1. k \in Key /\ op'[k].hash \in Hash
      BY <2>1 DEF FoundByHash, Holds, Stored
    <3>2. \A a \in Actor : \/ cur'[a] \in {None, cur[a]}
                          \/ op'[cur'[a]].hash \in Hash
      BY <2>3, <3>1 DEF TypeInv, ProcsTyped
    <3> QED
      BY <2>1, <3>2, StoredStays
  <2> QED
    BY <1>2, <2>2, <2>3 DEF WebhookByHash
<1>3. ASSUME NEW w \in Call, WebhookSeesTx(w) \/ WebhookSeesNothing(w)
      PROVE  Stored'
  BY <1>3, <1>quiet, <1>goto
  DEF WebhookSeesTx, WebhookSeesNothing, rowVars, Actor
<1>4. ASSUME NEW w \in Call, WebhookCreate(w) PROVE Stored'
  <2>1. w \in Actor /\ tx[w] \in Hash /\ key[w] \in Key
    BY <1>4 DEF WebhookCreate, Working, Actor, TypeInv, ProcsTyped, LocalsOK
  <2>2. CASE ~Insertable(w)
    BY <1>4, <2>1, <2>2, <1>quiet, <1>rest DEF WebhookCreate
  <2>3. CASE Insertable(w)
    <3>1. /\ op' = [op EXCEPT ![key[w]] = CreatedRow(w)]
          /\ CreatedRow(w).hash \in Hash
          /\ cur' = [cur EXCEPT ![w] = key[w]]
          /\ batch' = batch
      BY <1>4, <2>1, <2>3 DEF WebhookCreate, CreatedRow
    <3>2. \A k \in Key : op'[k] = op[k] \/ op'[k].hash \in Hash
      BY <2>1, <3>1 DEF TypeInv, RowsTyped
    <3>3. \A a \in Actor : \/ cur'[a] \in {None, cur[a]}
                          \/ op'[cur'[a]].hash \in Hash
      BY <2>1, <3>1 DEF TypeInv, ProcsTyped, RowsTyped
    <3> QED
      BY <3>1, <3>2, <3>3, StoredStays
  <2> QED
    BY <2>2, <2>3
<1>5. ASSUME NEW w \in Call, WebhookMark(w) PROVE Stored'
  <2>1. w \in Actor /\ tx[w] \in Hash /\ cur[w] \in Key
    BY <1>5 DEF WebhookMark, Working, Actor, TypeInv, ProcsTyped, LocalsOK
  <2>2. \A k \in Key : op'[k] = op[k] \/ op'[k].hash \in Hash
    BY <1>5, <2>1 DEF WebhookMark, TypeInv, RowsTyped
  <2>3. \A a \in Actor : cur'[a] \in {None, cur[a]}
    BY <1>5, <2>1, <1>rest DEF WebhookMark
  <2> QED
    BY <1>5, <2>2, <2>3, StoredStays DEF WebhookMark
<1>6. ASSUME NEW a \in Actor, FinalizeStep(a) PROVE Stored'
  <2>1. CASE FinalizeFindTx(a) \/ FinalizeFindRow(a)
    BY <2>1, <1>quiet DEF FinalizeFindTx, FinalizeFindRow, rowVars
  <2>2. CASE FinalizeThrows(a)
    BY <2>2, <1>quiet, <1>rest, <1>goto DEF FinalizeThrows, rowVars
  <2>3. CASE FinalizeCommit(a)
    <3>1. cur[a] \in Key
      BY <2>3 DEF FinalizeCommit, TypeInv, ProcsTyped, LocalsOK, Finalizing
    <3>2. ConfirmedRow(op[cur[a]]).hash = op[cur[a]].hash
      BY <3>1 DEF ConfirmedRow, TypeInv, RowsTyped, Row
    <3>3. \A k \in Key : op'[k] = op[k] \/ op'[k].hash \in Hash
      BY <2>3, <3>1, <3>2 DEF FinalizeCommit, TypeInv, RowsTyped, Stored
    <3>4. \A b \in Actor : cur'[b] \in {None, cur[b]}
      BY <2>3, <1>rest, <1>goto DEF FinalizeCommit
    <3> QED
      BY <2>3, <3>3, <3>4, StoredStays DEF FinalizeCommit
  <2> QED
    BY <1>6, <2>1, <2>2, <2>3 DEF FinalizeStep
<1>7. ASSUME NEW c \in Rec, ReconcileStep(c) PROVE Stored'
  <2>1. CASE ReconcileStart(c)
    <3>1. /\ op' = op /\ cur' = cur
          /\ batch' = [batch EXCEPT ![c] =
                         {<<k, op[k].hash>> :
                            k \in {j \in Key : op[j].status \in Picked}}]
      BY <2>1 DEF ReconcileStart, rowVars, procVars
    <3>2. \A d \in Rec, k \in Key, h \in Hash :
            <<k, h>> \in batch'[d] => \/ <<k, h>> \in batch[d]
                                     \/ op'[k].hash \in Hash
      BY <3>1 DEF TypeInv, BatchTyped
    <3> QED
      BY <3>1, <3>2, StoredStays
  <2>2. ASSUME NEW k \in Key, NEW h \in Hash, ReconcileTake(c, k, h)
        PROVE  Stored'
    <3>1. op' = op /\ op[k].hash \in Hash
      BY <2>2 DEF ReconcileTake, rowVars, Stored
    <3>2. \A a \in Actor : \/ cur'[a] \in {None, cur[a]}
                          \/ op'[cur'[a]].hash \in Hash
      BY <2>2, <3>1 DEF ReconcileTake, TypeInv, ProcsTyped
    <3>3. \A d \in Rec : batch'[d] \subseteq batch[d]
      BY <2>2 DEF ReconcileTake, TypeInv, BatchTyped
    <3> QED
      BY <3>1, <3>2, <3>3, StoredStays
  <2>3. CASE \/ ReconcileSeesTx(c) \/ ReconcileSeesNothing(c)
             \/ ReconcileSwept(c)
    BY <2>3, <1>quiet, <1>rest, <1>goto
    DEF ReconcileSeesTx, ReconcileSeesNothing, ReconcileSwept, rowVars, Actor
  <2>4. CASE ReconcileMarkFailed(c)
    <3>1. c \in Actor /\ cur[c] \in Key
      BY <2>4 DEF ReconcileMarkFailed, TypeInv, ProcsTyped, LocalsOK, Actor
    <3>2. [op[cur[c]] EXCEPT !.status = "FAILED"].hash = op[cur[c]].hash
      BY <3>1 DEF TypeInv, RowsTyped, Row
    <3>3. \A k \in Key : op'[k] = op[k] \/ op'[k].hash \in Hash
      BY <2>4, <3>1, <3>2 DEF ReconcileMarkFailed, TypeInv, RowsTyped, Stored
    <3>4. \A b \in Actor : cur'[b] \in {None, cur[b]}
      BY <2>4, <3>1, <1>rest DEF ReconcileMarkFailed
    <3> QED
      BY <2>4, <3>3, <3>4, StoredStays DEF ReconcileMarkFailed
  <2> QED
    BY <1>7, <2>1, <2>2, <2>3, <2>4 DEF ReconcileStep
<1>8. ASSUME NEW a \in Actor, Fault(a) PROVE Stored'
  <2>1. op' = op /\ \A b \in Actor : cur'[b] \in {None, cur[b]}
    BY <1>8, <1>rest, <1>goto DEF Fault, rowVars
  <2>2. \A c \in Rec : batch'[c] \subseteq batch[c]
    BY <1>8 DEF Fault, TypeInv, BatchTyped
  <2> QED
    BY <2>1, <2>2, <1>quiet
<1>9. CASE Crash
  BY <1>9, <1>quiet DEF Crash, rowVars
<1>10. ASSUME NEW h \in Hash, ChainSettles(h) PROVE Stored'
  BY <1>10, <1>quiet DEF ChainSettles, rowVars, procVars
<1>11. CASE UNCHANGED vars
  BY <1>11, <1>quiet DEF vars, rowVars, procVars
<1> QED
  BY <1>1, <1>2, <1>3, <1>4, <1>5, <1>6, <1>7, <1>8, <1>9, <1>10, <1>11
  DEF Next, WebhookStep, Environment

LEMMA AlwaysTyped == Spec => [](TypeInv /\ Stored)
<1>1. Init => TypeInv /\ Stored
  BY InitTyped, ActorsAssumption DEF Init, Stored, NoRow
<1>2. TypeInv /\ Stored /\ [Next]_vars => TypeInv' /\ Stored'
  BY NextTyped, NextStored
<1> QED
  BY <1>1, <1>2, PTL DEF Spec

\* Every state of the webhook and the reconcile loop has its types.
THEOREM Typed == Spec => []TypeOK
  BY AlwaysTyped, TypeInvImpliesTypeOK, PTL
-----------------------------------------------------------------------------
(* Credits.  Once a hash is credited it stays so, and its chain row stays    *)
(* with its operation; what an actor saw of either therefore stays true      *)
(* while it is on its way to the commit.                                   *)

Linked == \A h \in Hash : chainRow[h] # None => credits[h] > 0

SawOf(a) ==
  /\ pc[a] \in {"finRow", "finCommit"} /\ sawTx[a] => credits[tx[a]] > 0
  /\ pc[a] = "finCommit" /\ sawRow[a] => chainRow[tx[a]] = cur[a]
  /\ pc[a] \in Working /\ late[a] => credits[tx[a]] > 0
  /\ pc[a] \in {"finRow", "finCommit"} /\ late[a] => sawTx[a]

SawTrue == \A a \in Actor : SawOf(a)

CreditInv == Linked /\ ConfirmedIsCredited /\ SawTrue

\* what a step does to the rows that the credits are read from
Settled ==
  \A h \in Hash :
    /\ credits[h] > 0 => credits'[h] > 0
    /\ chainRow[h] # None => chainRow'[h] = chainRow[h]

\* the actor's program counter and locals stay as they are
Still(a) == /\ pc'[a] = pc[a] /\ cur'[a] = cur[a] /\ tx'[a] = tx[a]
            /\ sawTx'[a] = sawTx[a] /\ sawRow'[a] = sawRow[a]
            /\ late'[a] = late[a]

\* the actor is at a step where nothing it saw matters but late
Fresh(a) == /\ pc'[a] \notin {"finRow", "finCommit"}
            /\ pc'[a] \in Working /\ late'[a] => credits'[tx'[a]] > 0

\* An actor that does not move keeps what it saw, and so does one that is not
\* in a finalization after its step.
LEMMA SawStays ==
  ASSUME TypeInv, SawTrue, Settled, NEW a \in Actor, Still(a) \/ Fresh(a)
  PROVE  SawOf(a)'
<1>1. CASE Still(a)
  <2>1. pc[a] \in Finalizing => tx[a] \in Hash /\ cur[a] \in Key
    BY DEF TypeInv, ProcsTyped, LocalsOK, Working, Finalizing
  <2>2. pc[a] \in Working => tx[a] \in Hash
    BY DEF TypeInv, ProcsTyped, LocalsOK
  <2>3. SawOf(a)
    BY DEF SawTrue
  <2> QED
    BY <1>1, <2>1, <2>2, <2>3, ActorsAssumption
    DEF Still, SawOf, Settled, Finalizing, Working
<1>2. CASE Fresh(a)
  BY <1>2 DEF Fresh, SawOf
<1> QED
  BY <1>1, <1>2

LEMMA RestFresh ==
  ASSUME TypeInv, NEW a \in Actor, NEW end \in {"answered", "threw"},
         Rest(a, end)
  PROVE  \A b \in Actor : Still(b) \/ Fresh(b)
  BY DEF TypeInv, ProcsTyped, Rest, Resting, Still, Fresh, Working

LEMMA GotoFresh ==
  ASSUME TypeInv, SawTrue, Settled, NEW a \in Actor, pc[a] \in Working,
         NEW l, l \notin {"finRow", "finCommit"}, Goto(a, l)
  PROVE  \A b \in Actor : Still(b) \/ Fresh(b)
<1>1. tx[a] \in Hash /\ SawOf(a)
  BY DEF TypeInv, ProcsTyped, LocalsOK, SawTrue
<1>2. Fresh(a)
  BY <1>1 DEF TypeInv, ProcsTyped, Goto, Fresh, SawOf, Settled
<1> QED
  BY <1>2 DEF TypeInv, ProcsTyped, Goto, Still

\* A step that leaves chain rows and credits alone leaves the rest of CreditInv
\* true if it writes no operation as CONFIRMED or done.
LEMMA QuietCredit ==
  ASSUME TypeInv, CreditInv, UNCHANGED <<chainRow, credits>>,
         \A k \in Key : op'[k].status = "CONFIRMED" \/ op'[k].done
                        => op[k].status = "CONFIRMED" \/ op[k].done,
         \A a \in Actor : Still(a) \/ Fresh(a) \/ SawOf(a)'
  PROVE  CreditInv' /\ Settled
<1>1. Settled
  BY DEF Settled
<1>2. SawTrue'
  BY <1>1, SawStays DEF CreditInv, SawTrue
<1> QED
  BY <1>1, <1>2 DEF CreditInv, Linked, ConfirmedIsCredited

LEMMA QuietEarly ==
  ASSUME TypeInv, UNCHANGED credits PROVE ByEarlyActor
  BY DEF ByEarlyActor, TypeInv, RowsTyped

\* The commit is the one step that credits.
LEMMA CommitCredit ==
  ASSUME TypeInv, TypeInv', Stored, CreditInv, NEW a \in Actor,
         FinalizeCommit(a)
  PROVE  CreditInv' /\ Settled /\ ByEarlyActor
<1> DEFINE h == tx[a]
<1> DEFINE k == cur[a]
<1>1. /\ pc[a] = "finCommit" /\ a \in Actor /\ h \in Hash /\ k \in Key
      /\ k # None /\ SawOf(a)
  BY ActorsAssumption
  DEF FinalizeCommit, TypeInv, ProcsTyped, LocalsOK, Working, Finalizing,
      CreditInv, SawTrue
<1>2. credits[h] \in Nat /\ credits' = [credits EXCEPT ![h] = Credited(a)]
  BY <1>1 DEF FinalizeCommit, TypeInv, RowsTyped
<1>3. chainRow' = [chainRow EXCEPT ![h] = k]
  BY DEF FinalizeCommit
<1>4. Credited(a) > 0 /\ Credited(a) >= credits[h]
  BY <1>1, <1>2 DEF Credited, SawOf
<1>5. chainRow[h] \in {None, k}
  BY <1>1 DEF FinalizeCommit, Throws, SawOf
<1>6. Settled
  BY <1>1, <1>2, <1>3, <1>4, <1>5 DEF Settled, TypeInv, RowsTyped
<1>7. Linked'
  BY <1>1, <1>2, <1>3, <1>4
  DEF CreditInv, Linked, TypeInv, RowsTyped
<1>8. ConfirmedIsCredited'
  <2> SUFFICES ASSUME NEW j \in Key, op'[j].status = "CONFIRMED" \/ op'[j].done
               PROVE  \E g \in Hash : chainRow'[g] = j /\ credits'[g] > 0
    BY DEF ConfirmedIsCredited
  <2>1. CASE j = k
    BY <2>1, <1>1, <1>2, <1>3, <1>4 DEF TypeInv, RowsTyped
  <2>2. CASE j # k
    <3>1. op'[j] = op[j]
      BY <2>2, <1>1 DEF FinalizeCommit, TypeInv, RowsTyped
    <3>2. PICK g \in Hash : chainRow[g] = j /\ credits[g] > 0
      BY <3>1 DEF CreditInv, ConfirmedIsCredited
    <3>3. chainRow[g] # None
      BY <3>2, ActorsAssumption
    <3> QED
      BY <3>2, <3>3, <1>6 DEF Settled
  <2> QED
    BY <2>1, <2>2
<1>9. pc[a] \in Working /\ (Rest(a, "answered") \/ Goto(a, "sweep"))
  BY <1>1 DEF FinalizeCommit, Working
<1>10. \A b \in Actor : Still(b) \/ Fresh(b)
  BY <1>6, <1>9, RestFresh, GotoFresh DEF CreditInv
<1>11. SawTrue'
  BY <1>6, <1>10, SawStays DEF CreditInv, SawTrue
<1>12. pc'[a] # "finCommit"
  BY <1>9 DEF Rest, Goto, Resting, TypeInv, ProcsTyped
<1>13. ByEarlyActor
  <2> SUFFICES ASSUME NEW g \in Hash, credits'[g] > credits[g]
               PROVE  /\ tx[a] = g /\ ~late[a]
                      /\ pc[a] = "finCommit" /\ pc'[a] # "finCommit"
    BY <1>1 DEF ByEarlyActor
  <2>1. g = h
    BY <1>1, <1>2 DEF TypeInv, RowsTyped
  <2>2. Credited(a) > credits[h]
    BY <1>1, <1>2, <2>1 DEF TypeInv, RowsTyped
  <2>3. ~sawTx[a]
    BY <1>2, <2>2 DEF Credited
  <2> QED
    BY <1>1, <1>12, <2>1, <2>3 DEF SawOf
<1> QED
  BY <1>6, <1>7, <1>8, <1>11, <1>13 DEF CreditInv

LEMMA NextCredit ==
  TypeInv /\ TypeInv' /\ Stored /\ CreditInv /\ [Next]_vars
    => CreditInv' /\ Settled /\ ByEarlyActor
<1> SUFFICES ASSUME TypeInv, TypeInv', Stored, CreditInv, [Next]_vars
             PROVE  CreditInv' /\ Settled /\ ByEarlyActor
  OBVIOUS
<1> DEFINE Goal == CreditInv' /\ Settled /\ ByEarlyActor
<1> DEFINE Quiet ==
      /\ UNCHANGED <<chainRow, credits>>
      /\ \A k \in Key : op'[k].status = "CONFIRMED" \/ op'[k].done
                        => op[k].status = "CONFIRMED" \/ op[k].done
<1>quiet. ASSUME Quiet, \A a \in Actor : Still(a) \/ Fresh(a) \/ SawOf(a)'
          PROVE  Goal
  BY <1>quiet, QuietCredit, QuietEarly
<1>rows. UNCHANGED rowVars => Quiet
  BY DEF rowVars
<1>rest. ASSUME NEW a \in Actor, NEW end \in {"answered", "threw"},
                Rest(a, end), Quiet
         PROVE  Goal
  <2> HIDE DEF Goal, Quiet
  <2> QED
    BY <1>rest, <1>quiet, RestFresh
<1>goto. ASSUME NEW a \in Actor, pc[a] \in Working, NEW l,
                l \notin {"finRow", "finCommit"}, Goto(a, l), Quiet
         PROVE  Goal
  <2>1. Settled /\ SawTrue
    BY <1>goto DEF Settled, CreditInv
  <2>2. \A b \in Actor : Still(b) \/ Fresh(b)
    BY <1>goto, <2>1, GotoFresh
  <2> HIDE DEF Goal, Quiet
  <2> QED
    BY <1>goto, <2>2, <1>quiet
<1> HIDE DEF Goal, Quiet
\* an actor that takes up a hash remembers whether it was credited
<1>take. ASSUME NEW a \in Actor, NEW h \in Hash, NEW k \in Key \cup {None},
                NEW l \in {"byHash", "check"},
                pc' = [pc EXCEPT ![a] = l], cur' = [cur EXCEPT ![a] = k],
                tx' = [tx EXCEPT ![a] = h],
                late' = [late EXCEPT ![a] = credits[h] > 0],
                UNCHANGED <<sawTx, sawRow>>, UNCHANGED rowVars
         PROVE  Goal
  <2>1. late'[a] = (credits[h] > 0) /\ tx'[a] = h /\ pc'[a] = l
    BY <1>take DEF TypeInv, ProcsTyped
  <2>2. Fresh(a)
    BY <1>take, <2>1 DEF Fresh, rowVars
  <2>3. \A b \in Actor : Still(b) \/ Fresh(b)
    BY <1>take, <2>2 DEF Still, TypeInv, ProcsTyped
  <2> QED
    BY <1>take, <2>3, <1>quiet, <1>rows
<1>1. ASSUME NEW w \in Call, NEW n \in Notice, WebhookByKey(w, n) PROVE Goal
  <2>1. w \in Actor /\ n[1] \in Hash /\ n[2] \in Key /\ UNCHANGED rowVars
    BY <1>1, NoticeAssumption DEF Actor, WebhookByKey
  <2>2. CASE Rest(w, "answered")
    BY <2>1, <2>2, <1>rest, <1>rows
  <2>3. CASE ~Rest(w, "answered")
    <3>1. /\ \/ /\ pc' = [pc EXCEPT ![w] = "byHash"]
                /\ cur' = [cur EXCEPT ![w] = None]
             \/ /\ pc' = [pc EXCEPT ![w] = "check"]
                /\ cur' = [cur EXCEPT ![w] = n[2]]
          /\ tx' = [tx EXCEPT ![w] = n[1]]
          /\ late' = [late EXCEPT ![w] = credits[n[1]] > 0]
          /\ UNCHANGED <<sawTx, sawRow>>
      BY <1>1, <2>3 DEF WebhookByKey
    <3> QED
      BY <2>1, <3>1, <1>take
  <2> QED
    BY <2>2, <2>3
<1>2. ASSUME NEW w \in Call, WebhookByHash(w) PROVE Goal
  <2>1. w \in Actor /\ pc[w] = "byHash" /\ UNCHANGED rowVars
    BY <1>2 DEF WebhookByHash, Actor
  <2>2. CASE Goto(w, "check")
    BY <2>1, <2>2, <1>goto, <1>rows DEF Working
  <2>3. CASE Rest(w, "answered")
    BY <2>1, <2>3, <1>rest, <1>rows
  <2>4. ASSUME NEW k \in Key, pc' = [pc EXCEPT ![w] = "check"],
               cur' = [cur EXCEPT ![w] = k],
               UNCHANGED <<tx, key, sawTx, sawRow, late>>
        PROVE  Goal
    <3>1. SawOf(w) /\ pc[w] \in Working
      BY <2>1 DEF CreditInv, SawTrue, Working
    <3>2. Fresh(w)
      BY <2>1, <2>4, <3>1 DEF Fresh, SawOf, TypeInv, ProcsTyped, rowVars
    <3>3. \A b \in Actor : Still(b) \/ Fresh(b)
      BY <2>4, <3>2 DEF Still, TypeInv, ProcsTyped
    <3> QED
      BY <2>1, <3>3, <1>quiet, <1>rows
  <2> QED
    BY <1>2, <2>2, <2>3, <2>4 DEF WebhookByHash, FoundByHash
<1>3. ASSUME NEW w \in Call, WebhookSeesTx(w) \/ WebhookSeesNothing(w)
      PROVE  Goal
  <2>1. /\ w \in Actor /\ pc[w] \in Working /\ UNCHANGED rowVars
        /\ \E l \in {"createConfirmed", "createPending", "finTx", "mark"} :
             Goto(w, l)
    BY <1>3 DEF WebhookSeesTx, WebhookSeesNothing, Working, Actor
  <2> QED
    BY <2>1, <1>goto, <1>rows
<1>4. ASSUME NEW w \in Call, WebhookCreate(w) PROVE Goal
  <2>1. w \in Actor /\ pc[w] \in Working /\ key[w] \in Key
    BY <1>4 DEF WebhookCreate, Working, Actor, TypeInv, ProcsTyped, LocalsOK
  <2>2. CASE ~Insertable(w)
    BY <1>4, <2>1, <2>2, <1>rest DEF WebhookCreate, Quiet
  <2>3. CASE Insertable(w)
    <3>1. /\ op' = [op EXCEPT ![key[w]] = CreatedRow(w)]
          /\ CreatedRow(w).status # "CONFIRMED" /\ ~CreatedRow(w).done
          /\ UNCHANGED <<chainRow, credits>>
      BY <1>4, <2>3 DEF WebhookCreate, CreatedRow
    <3>2. Quiet
      BY <2>1, <3>1 DEF Quiet, TypeInv, RowsTyped
    <3>3. SawOf(w)
      BY <2>1 DEF CreditInv, SawTrue
    <3>4. /\ pc' = [pc EXCEPT ![w] = IF pc[w] = "createConfirmed"
                                     THEN "finTx" ELSE "mark"]
          /\ cur' = [cur EXCEPT ![w] = key[w]]
          /\ UNCHANGED <<tx, key, sawTx, sawRow, late>>
      BY <1>4, <2>3 DEF WebhookCreate
    <3>5. Fresh(w)
      BY <2>1, <3>1, <3>3, <3>4 DEF Fresh, SawOf, TypeInv, ProcsTyped
    <3>6. \A b \in Actor : Still(b) \/ Fresh(b)
      BY <3>4, <3>5 DEF Still, TypeInv, ProcsTyped
    <3> QED
      BY <3>2, <3>6, <1>quiet
  <2> QED
    BY <2>2, <2>3
<1>5. ASSUME NEW w \in Call, WebhookMark(w) PROVE Goal
  <2>1. w \in Actor /\ cur[w] \in Key
    BY <1>5 DEF WebhookMark, Working, Actor, TypeInv, ProcsTyped, LocalsOK
  <2>2. Quiet
    BY <1>5, <2>1 DEF WebhookMark, Quiet, TypeInv, RowsTyped
  <2> QED
    BY <1>5, <2>1, <2>2, <1>rest DEF WebhookMark
<1>6. ASSUME NEW a \in Actor, FinalizeFindTx(a) PROVE Goal
  <2>1. /\ pc[a] = "finTx" /\ tx[a] \in Hash /\ SawOf(a) /\ UNCHANGED rowVars
        /\ pc' = [pc EXCEPT ![a] = "finRow"]
        /\ sawTx' = [sawTx EXCEPT ![a] = TxFound(a)]
        /\ UNCHANGED <<cur, tx, key, sawRow, late>>
    BY <1>6
    DEF FinalizeFindTx, TypeInv, ProcsTyped, LocalsOK, Working, CreditInv,
        SawTrue
  <2>2. sawTx'[a] = (credits[tx[a]] > 0) /\ pc'[a] = "finRow"
    BY <2>1 DEF TxFound, TypeInv, ProcsTyped
  <2>3. SawOf(a)'
    BY <2>1, <2>2 DEF SawOf, rowVars, Working
  <2>4. \A b \in Actor : Still(b) \/ SawOf(b)'
    BY <2>1, <2>3 DEF Still, TypeInv, ProcsTyped
  <2> QED
    BY <2>1, <2>4, <1>quiet, <1>rows
<1>7. ASSUME NEW a \in Actor, FinalizeFindRow(a) PROVE Goal
  <2>1. /\ pc[a] = "finRow" /\ SawOf(a) /\ UNCHANGED rowVars
        /\ pc' = [pc EXCEPT ![a] = "finCommit"]
        /\ sawRow' = [sawRow EXCEPT ![a] = chainRow[tx[a]] = cur[a]]
        /\ UNCHANGED <<cur, tx, key, sawTx, late>>
    BY <1>7 DEF FinalizeFindRow, CreditInv, SawTrue
  <2>2. sawRow'[a] = (chainRow[tx[a]] = cur[a]) /\ pc'[a] = "finCommit"
    BY <2>1 DEF TypeInv, ProcsTyped
  <2>3. SawOf(a)'
    BY <2>1, <2>2 DEF SawOf, rowVars, Working
  <2>4. \A b \in Actor : Still(b) \/ SawOf(b)'
    BY <2>1, <2>3 DEF Still, TypeInv, ProcsTyped
  <2> QED
    BY <2>1, <2>4, <1>quiet, <1>rows
<1>8. ASSUME NEW a \in Actor, FinalizeThrows(a) PROVE Goal
  BY <1>8, <1>rest, <1>goto, <1>rows DEF FinalizeThrows, Working
<1>9. ASSUME NEW a \in Actor, FinalizeCommit(a) PROVE Goal
  BY <1>9, CommitCredit DEF Goal
<1>10. ASSUME NEW c \in Rec, ReconcileStep(c) PROVE Goal
  <2>1. CASE ReconcileStart(c)
    BY <2>1, <1>quiet, <1>rows DEF ReconcileStart, procVars, Still
  <2>2. ASSUME NEW k \in Key, NEW h \in Hash, ReconcileTake(c, k, h)
        PROVE  Goal
    BY <2>2, <1>take DEF ReconcileTake, Actor
  <2>3. CASE ReconcileSeesTx(c)
    BY <2>3, <1>goto, <1>rows DEF ReconcileSeesTx, Working, Actor
  <2>4. CASE ReconcileSeesNothing(c) \/ ReconcileSwept(c)
    BY <2>4, <1>rest, <1>rows
    DEF ReconcileSeesNothing, ReconcileSwept, Actor
  <2>5. CASE ReconcileMarkFailed(c)
    <3>1. c \in Actor /\ cur[c] \in Key
      BY <2>5 DEF ReconcileMarkFailed, TypeInv, ProcsTyped, LocalsOK, Actor
    <3>2. /\ [op[cur[c]] EXCEPT !.status = "FAILED"].status = "FAILED"
          /\ [op[cur[c]] EXCEPT !.status = "FAILED"].done = op[cur[c]].done
      BY <3>1 DEF TypeInv, RowsTyped, Row
    <3>3. Quiet
      BY <2>5, <3>1, <3>2 DEF ReconcileMarkFailed, Quiet, TypeInv, RowsTyped
    <3> QED
      BY <2>5, <3>1, <3>3, <1>rest DEF ReconcileMarkFailed
  <2> QED
    BY <1>10, <2>1, <2>2, <2>3, <2>4, <2>5 DEF ReconcileStep
<1>11. ASSUME NEW a \in Actor, Fault(a) PROVE Goal
  BY <1>11, <1>rest, <1>goto, <1>rows DEF Fault
<1>12. ASSUME Crash PROVE Goal
  <2>1. \A a \in Actor : Fresh(a)
    BY <1>12 DEF Crash, Fresh, Resting, Working, TypeInv, ProcsTyped
  <2> QED
    BY <1>12, <2>1, <1>quiet, <1>rows DEF Crash
<1>13. ASSUME NEW h \in Hash, ChainSettles(h) PROVE Goal
  BY <1>13, <1>quiet, <1>rows DEF ChainSettles, procVars, Still
<1>14. ASSUME UNCHANGED vars PROVE Goal
  BY <1>14, <1>quiet, <1>rows DEF vars, procVars, Still
<1> QED
  BY <1>1, <1>2, <1>3, <1>4, <1>5, <1>6, <1>7, <1>8, <1>9, <1>10, <1>11,
     <1>12, <1>13, <1>14
  DEF Next, WebhookStep, FinalizeStep, Environment, Goal

LEMMA InitCredit == Init => CreditInv
  BY DEF Init, CreditInv, Linked, ConfirmedIsCredited, SawTrue, SawOf, NoRow,
         Working

LEMMA AlwaysCredit == Spec => [](TypeInv /\ Stored /\ CreditInv)
<1>1. TypeInv /\ Stored /\ CreditInv /\ [Next]_vars => CreditInv'
  BY NextTyped, NextCredit
<1> QED
  BY <1>1, AlwaysTyped, InitCredit, PTL DEF Spec

\* A deposit that is CONFIRMED, or carries a transaction_id, was credited.
THEOREM ConfirmedDeposit == Spec => []ConfirmedIsCredited
<1>1. CreditInv => ConfirmedIsCredited
  BY DEF CreditInv
<1> QED
  BY <1>1, AlwaysCredit, PTL

\* An actor that begins after a hash was credited adds no credit to it.
THEOREM LateAddsNothing == Spec => LateNeverCredits
<1>1. TypeInv /\ Stored /\ CreditInv /\ [Next]_vars
        => [ByEarlyActor]_vars
  BY NextTyped, NextCredit
<1> QED
  BY <1>1, AlwaysCredit, PTL DEF Spec, LateNeverCredits

\* The chain row of a hash, and with it the credit, stays with its operation.
THEOREM CreditStays == Spec => CreditStaysWithOperation
<1>1. TypeInv /\ Stored /\ CreditInv /\ [Next]_vars
        => [\A h \in Hash : chainRow[h] # None
                            => chainRow'[h] = chainRow[h]]_vars
  BY NextTyped, NextCredit DEF Settled
<1> QED
  BY <1>1, AlwaysCredit, PTL DEF Spec, CreditStaysWithOperation
=============================================================================
