-------------------------- MODULE UsdtSweepProofs --------------------------
(***************************************************************************)
(* What a CONFIRMED sweep says is true, for any number of deposits,        *)
(* deliveries, reconcile runs, rescans and transactions, any amount, any   *)
(* threshold and any number of failures and restarts.                      *)
(***************************************************************************)
EXTENDS UsdtSweep, FiniteSetTheorems, TLAPS

Busy    == Working \ {"refresh", "write"}
Sending == {"mark", "findRow", "row", "check", "finFindRow", "finRow", "confirm"}
Written == Sending \ {"mark"}

\* h was broadcast, and for the operation k
Owned(h, k) == chain[h] # "unsent" /\ payer[h] = k

\* The address holds a whole number of deposits, no more than arrived.
CoinsAddUp == \E n \in 0 .. Cardinality(arrived) : coins = n * Amount

\* A broadcast transaction is that of an operation.
PayersKnown == \A h \in Hash : chain[h] # "unsent" => payer[h] \in Key

\* A hash an actor holds is that of its operation, and once it is written
\* the operation has one.
ActorSound(a) ==
  /\ pc[a] \in Busy => cur[a] \in Key
  /\ pc[a] \in {"idle", "credit", "read"} => tx[a] = None
  /\ pc[a] \in Sending => tx[a] # None
  /\ pc[a] \in Written => op[cur[a]].hash # None
  /\ tx[a] # None => Owned(tx[a], cur[a])

\* So is the hash of a row, which a CONFIRMED one does not lack,
RowSound(k) ==
  /\ op[k].hash # None => Owned(op[k].hash, k)
  /\ op[k].status = "CONFIRMED" => op[k].hash # None

\* and that of a row as a run read it: the row may have another by now.
ReadSound(k, row) ==
  row.hash # None => Owned(row.hash, k) /\ op[k].hash # None

ActorsSound == \A a \in Actor : ActorSound(a)
RowsSound == \A k \in Key : RowSound(k)
ReadsSound == \A c \in Rec : \A k \in Key, row \in Row :
                <<k, row>> \in batch[c] => ReadSound(k, row)

SweepInv ==
  /\ TypeOK /\ CoinsAddUp /\ PayersKnown
  /\ ActorsSound /\ RowsSound /\ ReadsSound

-----------------------------------------------------------------------------
(* The amounts                                                             *)

LEMMA CountsAreNat ==
  ASSUME TypeOK
  PROVE  /\ IsFiniteSet(arrived)
         /\ Cardinality(arrived) \in Nat /\ Cardinality(Dep) \in Nat
         /\ Cardinality(arrived) <= Cardinality(Dep)
<1>1. IsFiniteSet(Dep) /\ arrived \in SUBSET Dep
  BY NamesAssumption DEF TypeOK
<1>2. IsFiniteSet(arrived) /\ Cardinality(arrived) <= Cardinality(Dep)
  BY <1>1, FS_Subset
<1> QED
  BY <1>1, <1>2, FS_CardinalityType

\* The live balance is one an operation may be keyed by.
LEMMA CoinsAreLive ==
  ASSUME TypeOK, CoinsAddUp
  PROVE  coins \in Live
<1>1. PICK n \in 0 .. Cardinality(arrived) : coins = n * Amount
  BY DEF CoinsAddUp
<1>2. n \in 0 .. Cardinality(Dep)
  BY <1>1, CountsAreNat
<1> QED
  BY <1>1, <1>2 DEF Live

LEMMA ZeroIsLive == TypeOK => 0 \in Live
<1> SUFFICES ASSUME TypeOK PROVE 0 \in Live
  OBVIOUS
<1>1. 0 \in 0 .. Cardinality(Dep) /\ 0 = 0 * Amount
  BY CountsAreNat, AmountsAssumption
<1> QED
  BY <1>1 DEF Live

\* What the contract leaves of n deposits when it moves m of them.
LEMMA Difference ==
  ASSUME NEW n \in Nat, NEW m \in Nat, NEW x \in Nat \ {0}, n * x >= m * x
  PROVE  n - m \in Nat /\ (n - m) * x = n * x - m * x
<1>1. n >= m
  OBVIOUS
<1> QED
  BY <1>1

-----------------------------------------------------------------------------
LEMMA InitSound == Init => SweepInv
<1> SUFFICES ASSUME Init PROVE SweepInv
  OBVIOUS
<1> USE DEF Init
<1>1. TypeOK
  BY AmountsAssumption, BoundsAssumption
     DEF TypeOK, NoRow, Row, Status, Pc, Working
<1>2. CoinsAddUp
  BY <1>1, CountsAreNat, AmountsAssumption, FS_EmptySet DEF CoinsAddUp
<1>3. ActorsSound
  BY DEF ActorsSound, ActorSound, Busy, Working, Sending, Written
<1> QED
  BY <1>1, <1>2, <1>3 DEF SweepInv, PayersKnown, RowsSound, RowSound, NoRow,
     ReadsSound

-----------------------------------------------------------------------------
(* Steps that leave the chain, the coins, the operations and the hashes that *)
(* actors and runs hold as they are.                                        *)

\* Such a step need only show the locals of the actor that made it.
LEMMA OthersKeep ==
  ASSUME SweepInv, TypeOK', NEW a \in Actor,
         UNCHANGED <<chain, payer, coins, arrived, op, batch>>,
         \A b \in Actor \ {a} : pc'[b] = pc[b] /\ cur'[b] = cur[b] /\ tx'[b] = tx[b],
         ActorSound(a)'
  PROVE  SweepInv'
<1> USE DEF SweepInv
<1>1. CoinsAddUp' /\ PayersKnown'
  BY DEF CoinsAddUp, PayersKnown, Key, Live
<1>2. ActorsSound'
  BY DEF ActorsSound, ActorSound, Owned
<1>3. RowsSound' /\ ReadsSound'
  BY DEF RowsSound, RowSound, ReadsSound, ReadSound, Owned
<1> QED
  BY <1>1, <1>2, <1>3

\* Whoever stops holds nothing.
LEMMA RestIsSound ==
  ASSUME SweepInv, NEW a \in Actor, Rest(a)
  PROVE  /\ ActorSound(a)'
         /\ \A b \in Actor \ {a} : pc'[b] = pc[b] /\ cur'[b] = cur[b] /\ tx'[b] = tx[b]
         /\ pc' \in [Actor -> Pc] /\ cur' \in [Actor -> Key \cup {None}]
         /\ tx' \in [Actor -> Hash \cup {None}]
         /\ sawRow' \in [Actor -> BOOLEAN] /\ fresh' \in [Actor -> Nat]
<1>1. Resting(a) \in {"idle", "over"}
  BY DEF Resting
<1>2. pc'[a] = Resting(a) /\ tx'[a] = None
  BY DEF Rest, SweepInv, TypeOK
<1> QED
  BY <1>1, <1>2 DEF Rest, SweepInv, TypeOK, ActorSound, Busy, Working, Sending,
     Written, Pc

LEMMA WebhookSteps ==
  ASSUME SweepInv, NEW w \in Call,
         WebhookCredit(w) \/ \E d \in Dep : WebhookStart(w, d)
  PROVE  SweepInv'
<1> USE DEF SweepInv
<1>0. w \in Actor
  BY DEF Actor
<1>1. CASE WebhookCredit(w)
  <2>1. cur[w] \in Key
    BY <1>0, <1>1 DEF WebhookCredit, ActorsSound, ActorSound, Busy, Working
  <2>2. cur[w][1] \in Dep
    BY <2>1 DEF Key
  <2>3. TypeOK'
    BY <1>0, <1>1, <2>2, AmountsAssumption
       DEF WebhookCredit, Goto, TypeOK, chainVars, sweepVars, boundVars, Pc, Working
  <2>4. ActorSound(w)'
    BY <1>0, <1>1 DEF WebhookCredit, Goto, TypeOK, ActorsSound, ActorSound, Busy,
       Working, Sending, Written
  <2> QED
    BY <1>0, <1>1, <2>3, <2>4, OthersKeep
       DEF WebhookCredit, Goto, TypeOK, chainVars, sweepVars, boundVars
<1>2. ASSUME NEW d \in Dep, WebhookStart(w, d) PROVE SweepInv'
  <2>1. <<d, 0>> \in Key
    BY ZeroIsLive DEF Key
  <2>2. TypeOK'
    BY <1>0, <1>2, <2>1 DEF WebhookStart, TypeOK, chainVars, ledger, sweepVars,
       boundVars, Pc, Working
  <2>3. ActorSound(w)'
    BY <1>0, <1>2, <2>1 DEF WebhookStart, TypeOK, ActorsSound, ActorSound, Busy,
       Working, Sending, Written
  <2> QED
    BY <1>0, <1>2, <2>2, <2>3, OthersKeep
       DEF WebhookStart, TypeOK, chainVars, sweepVars
<1> QED
  BY <1>1, <1>2

LEMMA ReadAndFind ==
  ASSUME SweepInv, NEW w \in Call, SweepRead(w) \/ SweepFind(w)
  PROVE  SweepInv'
<1> USE DEF SweepInv
<1>0. w \in Actor
  BY DEF Actor
<1>1. CASE SweepRead(w)
  <2>1. cur[w] \in Key /\ tx[w] = None
    BY <1>0, <1>1 DEF SweepRead, ActorsSound, ActorSound, Busy, Working
  <2>2. <<cur[w][1], coins>> \in Key
    BY <2>1, CoinsAreLive DEF Key
  <2>3. CASE coins <= Threshold
    <3>1. TypeOK'
      BY <1>0, <1>1, <2>3, RestIsSound DEF SweepRead, TypeOK, chainVars, ledger,
         sweepVars, boundVars
    <3> QED
      BY <1>0, <1>1, <2>3, <3>1, RestIsSound, OthersKeep
         DEF SweepRead, chainVars, sweepVars
  <2>4. CASE ~(coins <= Threshold)
    <3>1. TypeOK'
      BY <1>0, <1>1, <2>2, <2>4 DEF SweepRead, TypeOK, chainVars, ledger,
         sweepVars, boundVars, Pc, Working
    <3>2. ActorSound(w)'
      BY <1>0, <1>1, <2>1, <2>2, <2>4 DEF SweepRead, TypeOK, ActorSound, Busy,
         Working, Sending, Written
    <3> QED
      BY <1>0, <1>1, <2>4, <3>1, <3>2, OthersKeep
         DEF SweepRead, TypeOK, chainVars, sweepVars
  <2> QED
    BY <2>3, <2>4
<1>2. CASE SweepFind(w)
  <2>1. cur[w] \in Key
    BY <1>0, <1>2 DEF SweepFind, ActorsSound, ActorSound, Busy, Working
  <2>2. CASE op[cur[w]].status = "CONFIRMED"
    <3>1. TypeOK'
      BY <1>0, <1>2, <2>2, RestIsSound DEF SweepFind, TypeOK, chainVars, ledger,
         sweepVars, boundVars
    <3> QED
      BY <1>0, <1>2, <2>2, <3>1, RestIsSound, OthersKeep
         DEF SweepFind, chainVars, sweepVars
  <2>3. CASE op[cur[w]].status # "CONFIRMED"
    <3>1. TypeOK'
      BY <1>0, <1>2, <2>3 DEF SweepFind, Goto, TypeOK, chainVars, ledger,
         sweepVars, boundVars, Pc, Working
    <3>2. ActorSound(w)'
      BY <1>0, <1>2, <2>1, <2>3 DEF SweepFind, Goto, TypeOK, ActorsSound,
         ActorSound, Owned, Busy, Working, Sending, Written, chainVars
    <3> QED
      BY <1>0, <1>2, <2>3, <3>1, <3>2, OthersKeep
         DEF SweepFind, Goto, TypeOK, chainVars, sweepVars
  <2> QED
    BY <2>2, <2>3
<1> QED
  BY <1>1, <1>2

\* The other steps of one actor that only move it on.
LEMMA LooksAround ==
  ASSUME SweepInv, NEW a \in Actor,
         FindRow(a) \/ SeesTx(a) \/ SendRejected(a) \/ RefreshRead(a)
           \/ RescanStart(a)
  PROVE  SweepInv'
<1> USE DEF SweepInv
<1>1. TypeOK'
  <2>1. CASE FindRow(a)
    BY <2>1 DEF FindRow, TypeOK, chainVars, ledger, sweepVars, boundVars, Pc, Working
  <2>2. CASE RefreshRead(a)
    BY <2>2 DEF RefreshRead, TypeOK, chainVars, ledger, sweepVars, boundVars, Pc,
       Working
  <2>3. CASE SeesTx(a) \/ SendRejected(a) \/ RescanStart(a)
    BY <2>3 DEF SeesTx, SendRejected, RescanStart, Goto, TypeOK, chainVars,
       ledger, sweepVars, boundVars, Pc, Working
  <2> QED
    BY <2>1, <2>2, <2>3
<1>2. ActorSound(a)'
  BY DEF FindRow, SeesTx, SendRejected, RefreshRead, RescanStart, Goto, TypeOK,
     ActorsSound, ActorSound, Owned, Busy, Working, Sending, Written, chainVars,
     sweepVars
<1> QED
  BY <1>1, <1>2, OthersKeep
     DEF FindRow, SeesTx, SendRejected, RefreshRead, RescanStart, Goto, TypeOK,
     chainVars, sweepVars

\* The steps that end an actor's work and change neither row.
LEMMA Stops ==
  ASSUME SweepInv, NEW a \in Actor, SeesNothing(a) \/ RefreshWrite(a)
  PROVE  SweepInv'
<1> USE DEF SweepInv
<1>1. TypeOK'
  BY RestIsSound DEF SeesNothing, RefreshWrite, TypeOK, chainVars, ledger,
     sweepVars, boundVars
<1> QED
  BY <1>1, RestIsSound, OthersKeep
     DEF SeesNothing, RefreshWrite, chainVars, sweepVars

\* The row of a transaction names no operation.
LEMMA PutRowSound ==
  ASSUME SweepInv, NEW a \in Actor, PutRow(a)
  PROVE  SweepInv'
<1> USE DEF SweepInv
<1>0. tx[a] \in Hash
  BY DEF PutRow, TypeOK, ActorsSound, ActorSound, Sending
<1>1. CASE Rest(a)
  <2>1. TypeOK'
    BY <1>0, <1>1, RestIsSound DEF PutRow, TypeOK, chainVars, ledger, boundVars
  <2> QED
    BY <1>1, <2>1, RestIsSound, OthersKeep DEF PutRow, chainVars
<1>2. CASE \E l \in {"markFailed", "confirm", "check"} :
             /\ Goto(a, l)
             /\ l # "markFailed" => pc[a] \in Written
  <2>1. TypeOK'
    BY <1>0, <1>2 DEF PutRow, Goto, TypeOK, chainVars, ledger, boundVars, Pc, Working
  <2>2. ActorSound(a)'
    BY <1>2 DEF PutRow, Goto, TypeOK, ActorsSound, ActorSound, Owned, Busy,
       Working, Sending, Written, chainVars
  <2> QED
    BY <1>2, <2>1, <2>2, OthersKeep DEF PutRow, Goto, TypeOK, chainVars
<1> QED
  BY <1>1, <1>2 DEF PutRow, Written, Sending

-----------------------------------------------------------------------------
(* Broadcasts                                                              *)

\* A transaction nobody broadcast yet is in no row and in no actor's hands.
LEMMA BroadcastSound ==
  ASSUME SweepInv, TypeOK', NEW a \in Actor, NEW h \in Hash, Broadcast(a, h),
         \A b \in Actor \ {a} : pc'[b] = pc[b] /\ cur'[b] = cur[b] /\ tx'[b] = tx[b],
         cur'[a] = cur[a],
         \/ pc'[a] = "mark" /\ tx'[a] = h
         \/ pc'[a] = "markFailed" /\ tx'[a] = tx[a]
  PROVE  SweepInv'
<1> USE DEF SweepInv
<1>1. cur[a] \in Key /\ chain[h] = "unsent"
  BY DEF Broadcast, ActorsSound, ActorSound, Busy, Working
<1>2. chain'[h] = "mempool" /\ payer'[h] = cur[a]
  BY DEF Broadcast, TypeOK
<1>3. \A g \in Hash \ {h} : chain'[g] = chain[g] /\ payer'[g] = payer[g]
  BY DEF Broadcast, TypeOK
<1>4. \A g \in Hash : \A k : Owned(g, k) => chain'[g] # "unsent" /\ payer'[g] = k
  BY <1>1, <1>3 DEF Owned
<1>5. CoinsAddUp' /\ PayersKnown'
  BY <1>1, <1>2, <1>3 DEF Broadcast, CoinsAddUp, PayersKnown, Key, Live
<1>6. ActorsSound'
  <2>1. ActorSound(a)'
    BY <1>1, <1>2, <1>4, NamesAssumption
       DEF Broadcast, ActorsSound, ActorSound, TypeOK, Owned, Busy, Working, Sending,
       Written
  <2>2. ASSUME NEW b \in Actor \ {a} PROVE ActorSound(b)'
    BY <1>4 DEF Broadcast, ActorsSound, ActorSound, TypeOK, Owned, sweepVars
  <2> QED
    BY <2>1, <2>2 DEF ActorsSound
<1>7. RowsSound'
  BY <1>4 DEF Broadcast, RowsSound, RowSound, TypeOK, Row, Owned, sweepVars
<1>8. ReadsSound'
  BY <1>4 DEF Broadcast, ReadsSound, ReadSound, TypeOK, Row, Owned, sweepVars
<1> QED
  BY <1>5, <1>6, <1>7, <1>8

LEMMA Sends ==
  ASSUME SweepInv, NEW a \in Actor, NEW h \in Hash,
         Send(a, h) \/ SendLost(a, h)
  PROVE  SweepInv'
<1> USE DEF SweepInv
<1>1. cur[a] \in Key
  BY DEF Send, SendLost, Broadcast, ActorsSound, ActorSound, Busy, Working
<1>2. TypeOK'
  BY <1>1, BoundsAssumption
     DEF Send, SendLost, Broadcast, Goto, TypeOK, ledger, sweepVars, Pc, Working
<1> QED
  BY <1>2, BroadcastSound DEF Send, SendLost, Goto, TypeOK

-----------------------------------------------------------------------------
(* Writers of the operation                                                *)

\* A step that writes the row of one operation, keeps its hash or gives it one,
\* and moves only the actor a.
LEMMA WriterSound ==
  ASSUME SweepInv, TypeOK', NEW a \in Actor, NEW k \in Key,
         UNCHANGED <<chain, payer, coins, arrived>>,
         \A c \in Rec : batch'[c] \subseteq batch[c],
         \A j \in Key \ {k} : op'[j] = op[j],
         op[k].hash # None => op'[k].hash # None,
         RowSound(k)',
         \A b \in Actor \ {a} : pc'[b] = pc[b] /\ cur'[b] = cur[b] /\ tx'[b] = tx[b],
         ActorSound(a)'
  PROVE  SweepInv'
<1> USE DEF SweepInv
<1>1. CoinsAddUp' /\ PayersKnown'
  BY DEF CoinsAddUp, PayersKnown, Key, Live
<1>2. \A j \in Key : op[j].hash # None => op'[j].hash # None
  OBVIOUS
<1>3. ActorsSound'
  <2>1. ASSUME NEW b \in Actor \ {a} PROVE ActorSound(b)'
    BY <1>2 DEF ActorsSound, ActorSound, Owned, Written, Sending, Busy, Working
  <2> QED
    BY <2>1 DEF ActorsSound
<1>4. RowsSound'
  BY DEF RowsSound, RowSound, Owned, Key, Live
<1>5. ReadsSound'
  BY <1>2 DEF ReadsSound, ReadSound, Owned, Key, Live
<1> QED
  BY <1>1, <1>3, <1>4, <1>5

LEMMA Creates ==
  ASSUME SweepInv, NEW w \in Call, SweepCreate(w)
  PROVE  SweepInv'
<1> USE DEF SweepInv
<1>1. w \in Actor /\ cur[w] \in Key
  BY DEF SweepCreate, ActorsSound, ActorSound, Busy, Working, Actor
<1>2. CASE op[cur[w]].status = "ABSENT"
  <2>1. TypeOK'
    <3>1. op' \in [Key -> Row]
      BY <1>1, <1>2 DEF SweepCreate, TypeOK, Row, Status
    <3>2. pc' \in [Actor -> Pc]
      BY <1>2 DEF SweepCreate, Goto, TypeOK, Pc, Working
    <3> QED
      BY <1>2, <3>1, <3>2 DEF SweepCreate, Goto, TypeOK, chainVars, ledger, boundVars
  <2>2. /\ op'[cur[w]].hash = op[cur[w]].hash /\ op'[cur[w]].status = "NEW"
        /\ \A j \in Key \ {cur[w]} : op'[j] = op[j]
    BY <1>1, <1>2 DEF SweepCreate, TypeOK, Row
  <2>3. ActorSound(w)'
    BY <1>1, <1>2 DEF SweepCreate, Goto, TypeOK, ActorsSound, ActorSound, Owned,
       Busy, Working, Sending, Written, chainVars
  <2>4. RowSound(cur[w])
    BY <1>1 DEF RowsSound
  <2>5. chain' = chain /\ payer' = payer /\ cur' = cur
    BY <1>1, <1>2 DEF SweepCreate, Goto, chainVars
  <2>6. RowSound(cur[w])'
    BY <2>2, <2>4, <2>5 DEF RowSound, Owned
  <2> QED
    BY <1>1, <1>2, <2>1, <2>2, <2>3, <2>5, <2>6, WriterSound
       DEF SweepCreate, Goto, TypeOK, chainVars
<1>3. CASE op[cur[w]].status # "ABSENT"
  <2>1. TypeOK'
    BY <1>1, <1>3, RestIsSound DEF SweepCreate, TypeOK, chainVars, ledger, boundVars
  <2> QED
    BY <1>1, <1>3, <2>1, RestIsSound, OthersKeep DEF SweepCreate, chainVars
<1> QED
  BY <1>2, <1>3

LEMMA Marks ==
  ASSUME SweepInv, NEW a \in Actor, Mark(a)
  PROVE  SweepInv'
<1> USE DEF SweepInv
<1>1. /\ cur[a] \in Key /\ tx[a] \in Hash /\ tx[a] # None
      /\ Owned(tx[a], cur[a])
  BY DEF Mark, TypeOK, ActorsSound, ActorSound, Busy, Working, Sending
<1>2. TypeOK'
  BY <1>1 DEF Mark, MarkedRow, Goto, TypeOK, Row, Status, chainVars, ledger,
     boundVars, Pc, Working
<1>3. /\ op'[cur[a]].hash = tx[a] /\ op'[cur[a]].status = "BROADCASTED"
      /\ \A j \in Key \ {cur[a]} : op'[j] = op[j]
  BY <1>1 DEF Mark, MarkedRow, TypeOK
<1>4. chain' = chain /\ payer' = payer /\ cur' = cur /\ tx' = tx
  BY DEF Mark, Goto, chainVars
<1>5. ActorSound(a)'
  BY <1>1, <1>3, <1>4 DEF Mark, Goto, TypeOK, ActorSound, Owned, Busy, Working,
     Sending, Written
<1>6. RowSound(cur[a])'
  BY <1>1, <1>3, <1>4 DEF RowSound, Owned
<1> QED
  BY <1>1, <1>2, <1>3, <1>4, <1>5, <1>6, WriterSound
     DEF Mark, Goto, TypeOK, chainVars

\* CONFIRMED is written only where the hash was, which nothing takes away.
LEMMA Confirms ==
  ASSUME SweepInv, NEW a \in Actor, MarkConfirmed(a)
  PROVE  SweepInv'
<1> USE DEF SweepInv
<1>1. cur[a] \in Key /\ op[cur[a]].hash # None
  BY DEF MarkConfirmed, ActorsSound, ActorSound, Busy, Working, Sending, Written
<1>2. op' \in [Key -> Row]
  BY <1>1 DEF MarkConfirmed, Confirmed, TypeOK, Row, Status
<1>3. /\ op'[cur[a]].hash = op[cur[a]].hash
      /\ \A j \in Key \ {cur[a]} : op'[j] = op[j]
  BY <1>1 DEF MarkConfirmed, Confirmed, TypeOK, Row
<1>4. chain' = chain /\ payer' = payer
  BY DEF MarkConfirmed, chainVars
<1>5. RowSound(cur[a])
  BY <1>1 DEF RowsSound
<1>6. \A k \in Key : k = cur[a] => RowSound(k)'
  BY <1>1, <1>3, <1>4, <1>5 DEF RowSound, Owned
<1>7. TypeOK' /\ ActorSound(a)'
  <2>1. CASE Rest(a)
    BY <1>2, <2>1, RestIsSound DEF MarkConfirmed, TypeOK, chainVars, ledger, boundVars
  <2>2. CASE Goto(a, "refresh")
    <3>1. TypeOK'
      BY <1>2, <2>2 DEF MarkConfirmed, Goto, TypeOK, chainVars, ledger, boundVars,
         Pc, Working
    <3>2. ActorSound(a)'
      BY <1>4, <2>2 DEF Goto, TypeOK, ActorsSound, ActorSound, Owned, Busy, Working,
         Sending, Written
    <3> QED
      BY <3>1, <3>2
  <2> QED
    BY <2>1, <2>2 DEF MarkConfirmed
<1>8. \A b \in Actor \ {a} : pc'[b] = pc[b] /\ cur'[b] = cur[b] /\ tx'[b] = tx[b]
  BY RestIsSound DEF MarkConfirmed, Goto, TypeOK
<1> QED
  BY <1>1, <1>3, <1>4, <1>6, <1>7, <1>8, WriterSound DEF MarkConfirmed, chainVars

\* FAILED is written by an actor, or by a run that could not touch the row.
LEMMA FailsKeep ==
  ASSUME SweepInv, NEW k \in Key,
         op' = [op EXCEPT ![k].status = "FAILED"],
         UNCHANGED <<chain, payer>>
  PROVE  /\ op' \in [Key -> Row]
         /\ op'[k].hash = op[k].hash
         /\ \A j \in Key \ {k} : op'[j] = op[j]
         /\ RowSound(k)'
<1>1. op' \in [Key -> Row]
  BY DEF SweepInv, TypeOK, Row, Status
<1>2. /\ op'[k].hash = op[k].hash /\ op'[k].status = "FAILED"
      /\ \A j \in Key \ {k} : op'[j] = op[j]
  BY DEF SweepInv, TypeOK, Row
<1> QED
  BY <1>1, <1>2 DEF SweepInv, RowsSound, RowSound, Owned

LEMMA Fails ==
  ASSUME SweepInv, NEW a \in Actor, MarkFailed(a)
  PROVE  SweepInv'
<1> USE DEF SweepInv
<1>1. cur[a] \in Key
  BY DEF MarkFailed, ActorsSound, ActorSound, Busy, Working
<1>2. PICK k \in Key : k = cur[a]
  BY <1>1
<1>3. /\ op' \in [Key -> Row] /\ op'[k].hash = op[k].hash
      /\ \A j \in Key \ {k} : op'[j] = op[j]
      /\ RowSound(k)'
  BY <1>2, FailsKeep DEF MarkFailed, chainVars
<1>4. TypeOK'
  BY <1>3, RestIsSound DEF MarkFailed, TypeOK, chainVars, ledger, boundVars
<1> QED
  BY <1>3, <1>4, RestIsSound, WriterSound DEF MarkFailed, chainVars

-----------------------------------------------------------------------------
(* Reconcile runs                                                          *)

LEMMA BatchIsRead ==
  ASSUME SweepInv, NEW c \in Rec, ReconcileStart(c)
  PROVE  SweepInv'
<1> USE DEF SweepInv
<1>1. \A k \in Key, row \in Row : <<k, row>> \in batch'[c] => row = op[k]
  BY DEF ReconcileStart, TypeOK
<1>2. batch'[c] \subseteq Key \X Row
  BY DEF ReconcileStart, TypeOK
<1>3. \A d \in Rec \ {c} : batch'[d] = batch[d]
  BY DEF ReconcileStart, TypeOK
<1>4. TypeOK'
  BY <1>2, <1>3 DEF ReconcileStart, TypeOK, chainVars, ledger, sweepVars, procVars,
     boundVars
<1>5. UNCHANGED <<coins, chain, payer, arrived, op, pc, cur, tx>>
  BY DEF ReconcileStart, chainVars, sweepVars, procVars
<1>6. CoinsAddUp' /\ PayersKnown'
  BY <1>5 DEF CoinsAddUp, PayersKnown, Key, Live
<1>7. ActorsSound' /\ RowsSound'
  BY <1>5 DEF ActorsSound, ActorSound, RowsSound, RowSound, Owned
<1>8. ReadsSound'
  BY <1>1, <1>3, <1>5 DEF ReadsSound, ReadSound, RowsSound, RowSound, Owned
<1> QED
  BY <1>4, <1>6, <1>7, <1>8

\* Entries that leave a batch.
LEMMA BatchShrinks ==
  ASSUME SweepInv, NEW c \in Rec, NEW k \in Key, NEW row \in Row,
         batch' = [batch EXCEPT ![c] = @ \ {<<k, row>>}]
  PROVE  /\ batch' \in [Rec -> SUBSET (Key \X Row)]
         /\ \A d \in Rec : batch'[d] \subseteq batch[d]
BY DEF SweepInv, TypeOK

LEMMA Takes ==
  ASSUME SweepInv, NEW c \in Rec, NEW k \in Key, NEW row \in Row,
         ReconcileTake(c, k, row)
  PROVE  SweepInv'
<1> USE DEF SweepInv
<1>0. c \in Actor
  BY DEF Actor
<1>1. ReadSound(k, row)
  BY DEF ReconcileTake, ReadsSound
<1>2. /\ batch' \in [Rec -> SUBSET (Key \X Row)]
      /\ \A d \in Rec : batch'[d] \subseteq batch[d]
  BY BatchShrinks DEF ReconcileTake
<1>3. UNCHANGED <<coins, chain, payer, arrived, op>>
  BY DEF ReconcileTake, chainVars, sweepVars
<1>4. TypeOK'
  BY <1>0, <1>2 DEF ReconcileTake, TypeOK, Row, chainVars, ledger, sweepVars,
     procVars, boundVars, Pc, Working
<1>5. ActorSound(c)'
  BY <1>0, <1>1, <1>3 DEF ReconcileTake, ToSend, ToCheck, ReadSound, TypeOK, Row,
     ActorsSound, ActorSound, Owned, Busy, Working, Sending, Written, procVars
<1>6. \A b \in Actor \ {c} : pc'[b] = pc[b] /\ cur'[b] = cur[b] /\ tx'[b] = tx[b]
  BY DEF ReconcileTake, TypeOK, procVars
<1>7. RowSound(k)'
  BY <1>3 DEF RowsSound, RowSound, Owned
<1> QED
  BY <1>0, <1>2, <1>3, <1>4, <1>5, <1>6, <1>7, WriterSound

LEMMA TouchFails ==
  ASSUME SweepInv, NEW c \in Rec, NEW k \in Key, NEW row \in Row,
         ReconcileTouchFails(c, k, row)
  PROVE  SweepInv'
<1> USE DEF SweepInv
<1>0. c \in Actor
  BY DEF Actor
<1>1. /\ batch' \in [Rec -> SUBSET (Key \X Row)]
      /\ \A d \in Rec : batch'[d] \subseteq batch[d]
  BY BatchShrinks DEF ReconcileTouchFails
<1>2. UNCHANGED <<coins, chain, payer, arrived, pc, cur, tx>>
  BY DEF ReconcileTouchFails, chainVars, procVars
<1>3. /\ op' \in [Key -> Row] /\ op'[k].hash = op[k].hash
      /\ \A j \in Key \ {k} : op'[j] = op[j]
      /\ RowSound(k)'
  BY <1>2, FailsKeep DEF ReconcileTouchFails
<1>4. TypeOK'
  BY <1>1, <1>3, BoundsAssumption
     DEF ReconcileTouchFails, TypeOK, chainVars, ledger, procVars
<1>5. ActorSound(c)'
  BY <1>0, <1>2 DEF ReconcileTouchFails, ActorsSound, ActorSound, Owned, Busy,
     Working, Sending, Written
<1> QED
  BY <1>0, <1>1, <1>2, <1>3, <1>4, <1>5, WriterSound

-----------------------------------------------------------------------------
(* Faults, restarts and the chain                                          *)

LEMMA Faults ==
  ASSUME SweepInv, NEW a \in Actor, Fault(a)
  PROVE  SweepInv'
<1> USE DEF SweepInv
<1>1. UNCHANGED <<coins, chain, payer, arrived, op>>
  BY DEF Fault, chainVars, sweepVars
<1>2. faults' \in 0 .. MaxFaults
  BY BoundsAssumption DEF Fault, TypeOK
<1>3. CASE pc[a] \in InTry /\ Goto(a, "markFailed") /\ UNCHANGED batch
  <2>1. TypeOK'
    BY <1>2, <1>3 DEF Fault, Goto, TypeOK, chainVars, ledger, sweepVars, Pc, Working
  <2>2. ActorSound(a)'
    BY <1>1, <1>3 DEF InTry, Goto, TypeOK, ActorsSound, ActorSound, Owned, Busy,
       Working, Sending, Written
  <2> QED
    BY <1>1, <1>3, <2>1, <2>2, OthersKeep DEF Goto, TypeOK
<1>4. CASE Rest(a) /\ batch' = [c \in Rec |-> IF c = a THEN {} ELSE batch[c]]
  <2>1. /\ batch' \in [Rec -> SUBSET (Key \X Row)]
        /\ \A c \in Rec : batch'[c] \subseteq batch[c]
    BY <1>4 DEF TypeOK
  <2>2. TypeOK'
    BY <1>2, <1>4, <2>1, RestIsSound DEF Fault, TypeOK, chainVars, ledger, sweepVars
  <2>3. CoinsAddUp' /\ PayersKnown' /\ RowsSound'
    BY <1>1 DEF CoinsAddUp, PayersKnown, RowsSound, RowSound, Owned, Key, Live
  <2>4. ActorSound(a)'
    BY <1>4, RestIsSound
  <2>5. ASSUME NEW b \in Actor \ {a} PROVE ActorSound(b)'
    BY <1>1, <1>4, RestIsSound DEF ActorsSound, ActorSound, Owned
  <2>6. ReadsSound'
    BY <1>1, <2>1 DEF ReadsSound, ReadSound, Owned
  <2> QED
    BY <2>2, <2>3, <2>4, <2>5, <2>6 DEF ActorsSound
<1> QED
  BY <1>3, <1>4 DEF Fault

LEMMA Crashes ==
  ASSUME SweepInv, Crash
  PROVE  SweepInv'
<1> USE DEF SweepInv
<1>1. UNCHANGED <<coins, chain, payer, arrived, op>>
  BY DEF Crash, chainVars, sweepVars
<1>2. \A a \in Actor : pc'[a] \in {"idle", "over"} /\ tx'[a] = None
  BY DEF Crash, Resting, TypeOK, Pc
<1>3. TypeOK'
  BY <1>2, BoundsAssumption
     DEF Crash, TypeOK, Pc, Working, chainVars, ledger, sweepVars
<1>4. CoinsAddUp' /\ PayersKnown' /\ RowsSound'
  BY <1>1 DEF CoinsAddUp, PayersKnown, RowsSound, RowSound, Owned, Key, Live
<1>5. ActorsSound'
  BY <1>2 DEF ActorsSound, ActorSound, Busy, Working, Sending, Written
<1>6. ReadsSound'
  BY DEF Crash, ReadsSound
<1> QED
  BY <1>3, <1>4, <1>5, <1>6

\* What moves coins and settles transactions, without sending or forgetting one.
LEMMA ChainKeeps ==
  ASSUME SweepInv, TypeOK', CoinsAddUp',
         UNCHANGED <<payer, op, pc, cur, tx, batch>>,
         \A h \in Hash : chain'[h] = "unsent" <=> chain[h] = "unsent"
  PROVE  SweepInv'
<1> USE DEF SweepInv
<1>1. PayersKnown'
  BY DEF PayersKnown, Key, Live
<1>2. ActorsSound'
  BY DEF ActorsSound, ActorSound, Owned, TypeOK
<1>3. RowsSound'
  BY DEF RowsSound, RowSound, Owned, TypeOK, Row
<1>4. ReadsSound'
  BY DEF ReadsSound, ReadSound, Owned, TypeOK, Row
<1> QED
  BY <1>1, <1>2, <1>3, <1>4

LEMMA Arrives ==
  ASSUME SweepInv, NEW d \in Dep, DepositArrives(d)
  PROVE  SweepInv'
<1> USE DEF SweepInv
<1>1. PICK n \in 0 .. Cardinality(arrived) : coins = n * Amount
  BY DEF CoinsAddUp
<1>2. Cardinality(arrived') = Cardinality(arrived) + 1
  BY CountsAreNat, FS_AddElement DEF DepositArrives
<1>3. n + 1 \in 0 .. Cardinality(arrived') /\ n \in Nat
  BY <1>1, <1>2, CountsAreNat
<1>4. coins' = (n + 1) * Amount
  BY <1>1, <1>3, AmountsAssumption DEF DepositArrives
<1>5. CoinsAddUp'
  BY <1>3, <1>4 DEF CoinsAddUp
<1>6. TypeOK'
  BY AmountsAssumption DEF DepositArrives, TypeOK, ledger, sweepVars, procVars,
     boundVars
<1> QED
  BY <1>5, <1>6, ChainKeeps DEF DepositArrives, sweepVars, procVars

LEMMA Mines ==
  ASSUME SweepInv, NEW h \in Hash, ChainMines(h) \/ ChainExpires(h)
  PROVE  SweepInv'
<1> USE DEF SweepInv
<1>1. \A g \in Hash : chain'[g] = "unsent" <=> chain[g] = "unsent"
  BY DEF ChainMines, ChainExpires, TypeOK
<1>2. CASE chain' = [chain EXCEPT ![h] = "mined"] /\ coins >= payer[h][2]
           /\ coins' = coins - payer[h][2] /\ ChainMines(h)
  <2>1. payer[h][2] \in Live
    BY <1>2 DEF ChainMines, PayersKnown, Key
  <2>2. PICK m \in 0 .. Cardinality(Dep) : payer[h][2] = m * Amount
    BY <2>1 DEF Live
  <2>3. PICK n \in 0 .. Cardinality(arrived) : coins = n * Amount
    BY DEF CoinsAddUp
  <2>4. n \in Nat /\ m \in Nat /\ n * Amount >= m * Amount
    BY <1>2, <2>2, <2>3, CountsAreNat
  <2>5. n - m \in Nat /\ (n - m) * Amount = n * Amount - m * Amount
    BY <2>4, AmountsAssumption, Difference
  <2>6. n - m \in 0 .. Cardinality(arrived) /\ coins' = (n - m) * Amount
    BY <1>2, <2>2, <2>3, <2>5, CountsAreNat
  <2>7. CoinsAddUp'
    BY <1>2, <2>6 DEF ChainMines, CoinsAddUp
  <2>8. coins' \in Nat
    BY <2>5, <2>6, AmountsAssumption
  <2>9. TypeOK'
    BY <1>2, <2>8 DEF ChainMines, TypeOK, ledger, sweepVars, procVars, boundVars
  <2> QED
    BY <1>1, <1>2, <2>7, <2>9, ChainKeeps DEF ChainMines, sweepVars, procVars
<1>3. CASE UNCHANGED coins
  <2>1. TypeOK'
    BY <1>3 DEF ChainMines, ChainExpires, TypeOK, ledger, sweepVars, procVars,
       boundVars
  <2>2. CoinsAddUp'
    BY <1>3 DEF ChainMines, ChainExpires, CoinsAddUp
  <2> QED
    BY <1>1, <2>1, <2>2, ChainKeeps DEF ChainMines, ChainExpires, sweepVars, procVars
<1> QED
  BY <1>2, <1>3 DEF ChainMines, ChainExpires

-----------------------------------------------------------------------------
LEMMA NextSound == SweepInv /\ [Next]_vars => SweepInv'
<1> SUFFICES ASSUME SweepInv, [Next]_vars PROVE SweepInv'
  OBVIOUS
<1>1. ASSUME NEW w \in Call, SweepStep(w) \/ \E d \in Dep : WebhookStart(w, d)
      PROVE  SweepInv'
  BY <1>1, WebhookSteps, ReadAndFind, Creates DEF SweepStep
<1>2. ASSUME NEW a \in Call \cup Rec, SendStep(a)
      PROVE  SweepInv'
  <2>1. a \in Actor
    BY DEF Actor
  <2> QED
    BY <1>2, <2>1, Sends, LooksAround, Marks, PutRowSound, Stops, Confirms, Fails
       DEF SendStep
<1>3. ASSUME NEW a \in Call \cup Cron, RefreshStep(a) \/ RescanStart(a)
      PROVE  SweepInv'
  <2>1. a \in Actor
    BY DEF Actor
  <2> QED
    BY <1>3, <2>1, LooksAround, Stops DEF RefreshStep
<1>4. ASSUME NEW c \in Rec, ReconcileStep(c)
      PROVE  SweepInv'
  BY <1>4, BatchIsRead, Takes DEF ReconcileStep
<1>5. CASE Environment
  BY <1>5, Faults, Sends, TouchFails, Arrives, Mines, Crashes DEF Environment
<1>6. CASE UNCHANGED vars
  <2>1. UNCHANGED <<coins, chain, payer, arrived, op, pc, cur, tx, batch>> /\ TypeOK'
    BY <1>6 DEF vars, chainVars, ledger, sweepVars, procVars, boundVars, SweepInv,
       TypeOK, Key, Live
  <2>2. CoinsAddUp'
    BY <2>1 DEF SweepInv, CoinsAddUp
  <2> QED
    BY <2>1, <2>2, ChainKeeps
<1> QED
  BY <1>1, <1>2, <1>3, <1>4, <1>5, <1>6 DEF Next

-----------------------------------------------------------------------------
(* One recorded transaction per sender and operation                       *)

\* What a delivery does before it sends.
Early == {"idle", "credit", "read", "find", "create", "send"}

\* h can still be recorded, or has been.
Held(h) ==
  \/ h \in rows
  \/ \E a \in Actor : pc[a] \in Sending /\ tx[a] = h
  \/ \E k \in Key : op[k].hash = h
  \/ \E c \in Rec, k \in Key, row \in Row : <<k, row>> \in batch[c] /\ row.hash = h

\* a will not send for k again
NotAgain(a, k) ==
  /\ ~(pc[a] = "send" /\ cur[a] = k)
  /\ a \in Call => pc[a] \notin Early
  /\ a \in Rec => \A row \in Row : <<k, row>> \in batch[a] => row.hash # None

RowsKnown ==
  \A h \in rows : chain[h] # "unsent" /\ payer[h] \in Key /\ op[payer[h]].hash # None

MarksOwn == \A a \in Actor : pc[a] = "mark" => sender[tx[a]] = a

\* A run visits an operation once.
BatchOnce ==
  \A c \in Rec :
    /\ \A k \in Key, r, q \in Row :
         <<k, r>> \in batch[c] /\ <<k, q>> \in batch[c] => r = q
    /\ pc[c] # "idle" => \A row \in Row : <<cur[c], row>> \notin batch[c]

SentOnce ==
  \A h \in Hash : Held(h) => sender[h] \in Actor /\ NotAgain(sender[h], payer[h])

HeldOnce ==
  \A h, g \in Hash :
    Held(h) /\ Held(g) /\ payer[h] = payer[g] /\ sender[h] = sender[g] => h = g

OnceInv == RowsKnown /\ MarksOwn /\ BatchOnce /\ SentOnce /\ HeldOnce

\* What is held was broadcast for an operation, which has a hash unless the
\* sender is about to store it.
LEMMA HeldIsSent ==
  ASSUME SweepInv, RowsKnown, NEW h \in Hash, Held(h)
  PROVE  /\ chain[h] # "unsent" /\ payer[h] \in Key
         /\ \/ op[payer[h]].hash # None
            \/ \E a \in Actor : pc[a] = "mark" /\ tx[a] = h
<1> USE DEF SweepInv
<1>0. h # None
  BY NamesAssumption
<1>1. CASE h \in rows
  BY <1>1 DEF RowsKnown
<1>2. ASSUME NEW a \in Actor, pc[a] \in Sending, tx[a] = h
      PROVE  /\ chain[h] # "unsent" /\ payer[h] = cur[a] /\ cur[a] \in Key
             /\ pc[a] # "mark" => op[cur[a]].hash # None
  BY <1>0, <1>2 DEF ActorsSound, ActorSound, Owned, Busy, Working, Sending, Written
<1>3. ASSUME NEW k \in Key, op[k].hash = h
      PROVE  chain[h] # "unsent" /\ payer[h] = k /\ op[k].hash # None
  BY <1>0, <1>3 DEF RowsSound, RowSound, Owned
<1>4. ASSUME NEW c \in Rec, NEW k \in Key, NEW row \in Row,
             <<k, row>> \in batch[c], row.hash = h
      PROVE  chain[h] # "unsent" /\ payer[h] = k /\ op[k].hash # None
  BY <1>0, <1>4 DEF ReadsSound, ReadSound, Owned
<1> QED
  BY <1>1, <1>2, <1>3, <1>4 DEF Held

\* A step that sends nothing that is held and lets nobody send again.
LEMMA OnceKept ==
  ASSUME OnceInv, RowsKnown', MarksOwn', BatchOnce',
         \A h \in Hash : Held(h) => sender'[h] = sender[h] /\ payer'[h] = payer[h],
         \A h \in Hash : Held(h)' => Held(h),
         \A a \in Actor, k \in Key : NotAgain(a, k) => NotAgain(a, k)',
         \A h \in Hash : Held(h) => payer[h] \in Key
  PROVE  OnceInv'
<1>1. SentOnce'
  BY DEF OnceInv, SentOnce
<1>2. HeldOnce'
  BY DEF OnceInv, HeldOnce
<1> QED
  BY <1>1, <1>2 DEF OnceInv

\* A step of one actor that neither sends nor takes an operation up.
Onward(a) ==
  /\ \A b \in Actor \ {a} : pc'[b] = pc[b] /\ cur'[b] = cur[b] /\ tx'[b] = tx[b]
  /\ UNCHANGED <<chain, payer, sender>>
  /\ \A c \in Rec : batch'[c] \subseteq batch[c]
  /\ \A k \in Key : \/ op'[k].hash = op[k].hash
                    \/ op'[k].hash = tx[a] /\ pc[a] \in Sending
  /\ \A h \in rows' : h \in rows \/ (pc[a] \in Written /\ h = tx[a])
  /\ pc'[a] \in Sending => pc[a] \in Sending /\ tx'[a] = tx[a] /\ pc'[a] # "mark"
  /\ pc'[a] = "send" => a \in Call
  /\ a \in Call /\ pc'[a] \in Early => pc[a] \in Early
  /\ a \in Rec /\ pc'[a] # "idle" => pc[a] # "idle" /\ cur'[a] = cur[a]

LEMMA OnwardKeeps ==
  ASSUME SweepInv, OnceInv, NEW a \in Actor, Onward(a)
  PROVE  OnceInv'
<1> USE DEF SweepInv
<1>0. Rec \subseteq Actor
  BY DEF Actor
<1>1. \A k \in Key : op[k].hash # None => op'[k].hash # None
  BY DEF Onward, ActorsSound, ActorSound
<1>2. RowsKnown'
  <2> SUFFICES ASSUME NEW h \in rows'
               PROVE  chain[h] # "unsent" /\ payer[h] \in Key /\ op[payer[h]].hash # None
    BY <1>1 DEF RowsKnown, Onward
  <2>1. CASE h \in rows
    BY <2>1 DEF OnceInv, RowsKnown
  <2>2. CASE pc[a] \in Written /\ h = tx[a]
    BY <2>2 DEF ActorsSound, ActorSound, Owned, Busy, Working, Sending, Written
  <2> QED
    BY <2>1, <2>2 DEF Onward
<1>3. MarksOwn'
  BY DEF OnceInv, MarksOwn, Onward, Sending
<1>4. BatchOnce'
  <2> SUFFICES ASSUME NEW c \in Rec
               PROVE  /\ \A k \in Key, r, q \in Row :
                           <<k, r>> \in batch'[c] /\ <<k, q>> \in batch'[c] => r = q
                      /\ pc'[c] # "idle" =>
                           \A row \in Row : <<cur'[c], row>> \notin batch'[c]
    BY DEF BatchOnce, Key, Live
  <2>1. batch'[c] \subseteq batch[c]
    BY DEF Onward
  <2>2. pc'[c] # "idle" => pc[c] # "idle" /\ cur'[c] = cur[c]
    BY <1>0 DEF Onward
  <2> QED
    BY <2>1, <2>2 DEF OnceInv, BatchOnce
<1>5. \A h \in Hash : Held(h)' => Held(h)
  <2> SUFFICES ASSUME NEW h \in Hash, Held(h)' PROVE Held(h)
    OBVIOUS
  <2>1. CASE h \in rows'
    BY <2>1 DEF Held, Onward, Written
  <2>2. ASSUME NEW b \in Actor, pc'[b] \in Sending, tx'[b] = h PROVE Held(h)
    BY <2>2 DEF Held, Onward
  <2>3. ASSUME NEW k \in Key, op'[k].hash = h PROVE Held(h)
    BY <2>3 DEF Held, Onward
  <2>4. ASSUME NEW c \in Rec, NEW k \in Key, NEW row \in Row,
               <<k, row>> \in batch'[c], row.hash = h
        PROVE  Held(h)
    BY <2>4 DEF Held, Onward
  <2> QED
    BY <2>1, <2>2, <2>3, <2>4 DEF Held, Key, Live
<1>6. ASSUME NEW b \in Actor, NEW k \in Key, NotAgain(b, k) PROVE NotAgain(b, k)'
  <2>1. ~(pc'[b] = "send" /\ cur'[b] = k)
    BY <1>6 DEF NotAgain, Onward, Early
  <2>2. b \in Call => pc'[b] \notin Early
    BY <1>6 DEF NotAgain, Onward
  <2>3. b \in Rec => \A row \in Row : <<k, row>> \in batch'[b] => row.hash # None
    BY <1>6 DEF NotAgain, Onward
  <2> QED
    BY <2>1, <2>2, <2>3 DEF NotAgain
<1>7. \A h \in Hash : Held(h) => payer[h] \in Key
  BY HeldIsSent DEF OnceInv
<1> QED
  BY <1>2, <1>3, <1>4, <1>5, <1>6, <1>7, OnceKept DEF Onward

\* Who stops lets go of what it held.
LEMMA RestIsOnward ==
  ASSUME SweepInv, NEW a \in Actor, Rest(a)
  PROVE  /\ \A b \in Actor \ {a} : pc'[b] = pc[b] /\ cur'[b] = cur[b] /\ tx'[b] = tx[b]
         /\ pc'[a] \notin Sending /\ pc'[a] # "send"
         /\ a \in Call => pc'[a] \notin Early
         /\ a \in Rec => pc'[a] = "idle"
<1>1. pc'[a] = Resting(a)
  BY DEF Rest, SweepInv, TypeOK
<1>2. a \in Rec => a \notin Call
  BY NamesAssumption
<1> QED
  BY <1>1, <1>2, RestIsSound DEF Resting, Sending, Early

\* Who goes on to a later step of the same operation keeps it.
LEMMA GotoIsOnward ==
  ASSUME SweepInv, NEW a \in Actor, NEW l, Goto(a, l)
  PROVE  /\ \A b \in Actor \ {a} : pc'[b] = pc[b] /\ cur'[b] = cur[b] /\ tx'[b] = tx[b]
         /\ pc'[a] = l /\ tx'[a] = tx[a] /\ cur'[a] = cur[a]
BY DEF Goto, SweepInv, TypeOK

LEMMA CallsGoOn ==
  ASSUME SweepInv, NEW w \in Call, SweepStep(w) \/ \E d \in Dep : WebhookStart(w, d)
  PROVE  Onward(w)
<1> USE DEF SweepInv
<1>0. w \in Actor /\ w \notin Rec
  BY NamesAssumption DEF Actor
<1>1. pc[w] \in Early
  BY DEF SweepStep, WebhookStart, WebhookCredit, SweepRead, SweepFind, SweepCreate,
         Early
<1>2. /\ UNCHANGED <<chain, payer, sender, batch, rows>>
      /\ \A k \in Key : op'[k].hash = op[k].hash
  <2>1. CASE SweepCreate(w)
    BY <2>1 DEF SweepCreate, TypeOK, Row, chainVars
  <2>2. CASE WebhookCredit(w) \/ SweepRead(w) \/ SweepFind(w)
             \/ \E d \in Dep : WebhookStart(w, d)
    BY <2>2 DEF WebhookStart, WebhookCredit, SweepRead, SweepFind, chainVars, sweepVars
  <2> QED
    BY <2>1, <2>2 DEF SweepStep
<1>3. /\ \A b \in Actor \ {w} : pc'[b] = pc[b] /\ cur'[b] = cur[b] /\ tx'[b] = tx[b]
      /\ pc'[w] \notin Sending
  <2>1. CASE Rest(w)
    BY <1>0, <2>1, RestIsOnward
  <2>2. CASE \E l \in {"read", "create", "send"} : Goto(w, l)
    BY <1>0, <2>2, GotoIsOnward DEF Sending
  <2>3. CASE pc' = [pc EXCEPT ![w] = "find"] /\ UNCHANGED tx
             /\ cur' = [cur EXCEPT ![w] = <<cur[w][1], coins>>]
    BY <1>0, <2>3 DEF TypeOK, Sending
  <2>4. CASE \E d \in Dep : WebhookStart(w, d)
    BY <1>0, <2>4 DEF WebhookStart, TypeOK, Sending
  <2> QED
    BY <2>1, <2>2, <2>3, <2>4
       DEF SweepStep, WebhookCredit, SweepRead, SweepFind, SweepCreate
<1> QED
  BY <1>0, <1>1, <1>2, <1>3 DEF Onward

\* The steps after the sending that neither write a row nor store a hash.
LEMMA LookersGoOn ==
  ASSUME SweepInv, NEW a \in Actor,
         \/ FindRow(a) \/ SeesTx(a) \/ SeesNothing(a) \/ SendRejected(a)
         \/ (RescanStart(a) /\ a \in Cron) \/ RefreshRead(a) \/ RefreshWrite(a)
  PROVE  Onward(a)
<1> USE DEF SweepInv
<1>1. UNCHANGED <<chain, payer, sender, batch, rows, op>>
  BY DEF FindRow, SeesTx, SeesNothing, SendRejected, RescanStart, RefreshRead,
         RefreshWrite, chainVars, sweepVars
<1>2. CASE Rest(a)
  BY <1>1, <1>2, RestIsOnward DEF Onward
<1>3. CASE \/ FindRow(a) \/ SeesTx(a) \/ SendRejected(a) \/ RefreshRead(a)
           \/ RescanStart(a) /\ a \in Cron
  <2>1. /\ \A b \in Actor \ {a} : pc'[b] = pc[b] /\ cur'[b] = cur[b] /\ tx'[b] = tx[b]
        /\ tx'[a] = tx[a] /\ cur'[a] = cur[a]
    BY <1>3 DEF FindRow, SeesTx, SendRejected, RefreshRead, RescanStart, Goto, TypeOK
  <2>2. /\ pc'[a] \in Sending => pc[a] \in Sending /\ pc'[a] # "mark"
        /\ pc'[a] \notin Early
        /\ pc[a] = "idle" => a \in Cron
    BY <1>3 DEF FindRow, SeesTx, SendRejected, RefreshRead, RescanStart, Goto, TypeOK,
       Sending, Early
  <2>3. a \in Cron => a \notin Rec
    BY NamesAssumption
  <2> QED
    BY <1>1, <2>1, <2>2, <2>3 DEF Onward, Early
<1> QED
  BY <1>2, <1>3 DEF SeesNothing, RefreshWrite

LEMMA WritersGoOn ==
  ASSUME SweepInv, NEW a \in Actor,
         Mark(a) \/ PutRow(a) \/ MarkConfirmed(a) \/ MarkFailed(a)
  PROVE  Onward(a)
<1> USE DEF SweepInv
<1>1. cur[a] \in Key /\ pc[a] \notin Early
  BY DEF Mark, PutRow, MarkConfirmed, MarkFailed, ActorsSound, ActorSound, Busy,
         Working, Early
<1>2. UNCHANGED <<chain, payer, sender, batch>>
  BY DEF Mark, PutRow, MarkConfirmed, MarkFailed, chainVars
<1>3. \A k \in Key : \/ op'[k].hash = op[k].hash
                     \/ op'[k].hash = tx[a] /\ pc[a] \in Sending
  BY <1>1 DEF Mark, MarkedRow, PutRow, MarkConfirmed, Confirmed, MarkFailed, TypeOK,
     Row, Sending
<1>4. \A h \in rows' : h \in rows \/ (pc[a] \in Written /\ h = tx[a])
  BY DEF Mark, PutRow, MarkConfirmed, MarkFailed, Written, Sending
<1>5. CASE Rest(a)
  BY <1>2, <1>3, <1>4, <1>5, RestIsOnward DEF Onward
<1>6. CASE \E l \in {"findRow", "markFailed", "confirm", "check", "refresh"} :
             Goto(a, l) /\ (l \in Sending => pc[a] \in Sending)
  <2>1. /\ pc'[a] # "mark" /\ pc'[a] \notin Early
        /\ pc'[a] \in Sending => pc[a] \in Sending
        /\ tx'[a] = tx[a] /\ cur'[a] = cur[a]
        /\ \A b \in Actor \ {a} : pc'[b] = pc[b] /\ cur'[b] = cur[b] /\ tx'[b] = tx[b]
    BY <1>6, GotoIsOnward DEF Early
  <2> QED
    BY <1>1, <1>2, <1>3, <1>4, <2>1 DEF Onward, Early
<1> QED
  BY <1>5, <1>6 DEF Mark, PutRow, MarkConfirmed, MarkFailed, Sending

LEMMA FaultsGoOn ==
  ASSUME SweepInv, NEW a \in Actor, Fault(a)
  PROVE  Onward(a)
<1> USE DEF SweepInv
<1>1. UNCHANGED <<chain, payer, sender, rows, op>>
  BY DEF Fault, chainVars, sweepVars
<1>2. \A c \in Rec : batch'[c] \subseteq batch[c]
  BY DEF Fault, TypeOK
<1>3. CASE Rest(a)
  BY <1>1, <1>2, <1>3, RestIsOnward DEF Onward
<1>4. CASE pc[a] \in InTry /\ Goto(a, "markFailed")
  BY <1>1, <1>2, <1>4, GotoIsOnward DEF Onward, Early, Sending, InTry
<1> QED
  BY <1>3, <1>4 DEF Fault

\* A transaction nobody broadcast yet is held by nobody, and its sender holds no
\* other for the operation.
LEMMA SendsOnce ==
  ASSUME SweepInv, OnceInv, NEW a \in Actor, NEW h \in Hash,
         (Send(a, h) /\ a \in Call \cup Rec) \/ SendLost(a, h)
  PROVE  OnceInv'
<1> USE DEF SweepInv
<1>1. /\ cur[a] \in Key /\ pc[a] = "send" /\ chain[h] = "unsent" /\ cur' = cur
      /\ UNCHANGED <<op, rows, batch>>
  BY DEF Send, SendLost, Broadcast, Goto, ActorsSound, ActorSound, Busy, Working,
         sweepVars
<1>2. /\ chain'[h] = "mempool" /\ payer'[h] = cur[a] /\ sender'[h] = a
      /\ \A g \in Hash \ {h} : chain'[g] = chain[g] /\ payer'[g] = payer[g]
                               /\ sender'[g] = sender[g]
  BY DEF Send, SendLost, Broadcast, TypeOK
<1>3. /\ \A b \in Actor \ {a} : pc'[b] = pc[b] /\ tx'[b] = tx[b]
      /\ \/ pc'[a] = "mark" /\ tx'[a] = h /\ a \in Call \cup Rec
         \/ pc'[a] = "markFailed" /\ tx'[a] = tx[a]
  BY DEF Send, SendLost, Goto, TypeOK
<1>4. ~Held(h) /\ \A g \in Hash : Held(g) => payer[g] \in Key
  BY <1>1, HeldIsSent DEF OnceInv
<1>5. rows \subseteq Hash /\ h \notin rows
  BY <1>4 DEF Held, TypeOK
<1>6. RowsKnown'
  BY <1>1, <1>2, <1>5 DEF OnceInv, RowsKnown, Key, Live
<1>7. MarksOwn'
  <2> SUFFICES ASSUME NEW b \in Actor, pc'[b] = "mark" PROVE sender'[tx'[b]] = b
    BY DEF MarksOwn
  <2>1. CASE b = a
    BY <1>2, <1>3, <2>1
  <2>2. CASE b # a
    <3>1. tx[b] \in Hash /\ Held(tx[b]) /\ sender[tx[b]] = b
      BY <1>3, <2>2 DEF Held, OnceInv, MarksOwn, TypeOK, ActorsSound, ActorSound,
         Sending
    <3> QED
      BY <1>2, <1>3, <1>4, <2>2, <3>1
  <2> QED
    BY <2>1, <2>2
<1>8. BatchOnce'
  <2>1. \A c \in Rec : pc'[c] # "idle" => pc[c] # "idle"
    BY <1>1, <1>3 DEF Actor
  <2> QED
    BY <1>1, <2>1 DEF OnceInv, BatchOnce, Key, Live
<1>9. \A g \in Hash : Held(g)' => Held(g) \/ (g = h /\ pc'[a] = "mark")
  <2> SUFFICES ASSUME NEW g \in Hash, Held(g)' PROVE Held(g) \/ (g = h /\ pc'[a] = "mark")
    OBVIOUS
  <2>1. ASSUME NEW b \in Actor, pc'[b] \in Sending, tx'[b] = g
        PROVE  Held(g) \/ (g = h /\ pc'[a] = "mark")
    BY <1>3, <2>1 DEF Held, Sending
  <2> QED
    BY <1>1, <2>1 DEF Held, Key, Live
<1>10. ASSUME NEW b \in Actor, NEW k \in Key, NotAgain(b, k) PROVE NotAgain(b, k)'
  BY <1>1, <1>3, <1>10 DEF NotAgain, Early
<1>11. pc'[a] = "mark" => NotAgain(a, cur[a])'
  BY <1>1, <1>3 DEF NotAgain, Early, OnceInv, BatchOnce
<1>12. \A g \in Hash : Held(g) => ~(sender[g] = a /\ payer[g] = cur[a])
  BY <1>1 DEF OnceInv, SentOnce, NotAgain
<1>13. SentOnce'
  <2> SUFFICES ASSUME NEW g \in Hash, Held(g)'
               PROVE  sender'[g] \in Actor /\ NotAgain(sender[g], payer[g])'
    BY DEF SentOnce
  <2>1. CASE g = h
    BY <1>1, <1>2, <1>4, <1>9, <1>11, <2>1 DEF NotAgain
  <2>2. CASE g # h
    <3>1. /\ sender[g] \in Actor /\ payer[g] \in Key /\ NotAgain(sender[g], payer[g])
          /\ sender'[g] = sender[g] /\ payer'[g] = payer[g]
      BY <1>2, <1>4, <1>9, <2>2 DEF OnceInv, SentOnce
    <3>2. PICK b \in Actor, k \in Key : b = sender[g] /\ k = payer[g]
      BY <3>1
    <3>3. NotAgain(b, k)'
      BY <1>10, <3>1, <3>2
    <3> QED
      BY <3>1, <3>2, <3>3 DEF NotAgain
  <2> QED
    BY <2>1, <2>2
<1>14. HeldOnce'
  <2> SUFFICES ASSUME NEW g \in Hash, NEW f \in Hash, Held(g)', Held(f)',
                      payer'[g] = payer'[f], sender'[g] = sender'[f]
               PROVE  g = f
    BY DEF HeldOnce
  <2> QED
    BY <1>2, <1>4, <1>9, <1>12 DEF OnceInv, HeldOnce
<1> QED
  BY <1>6, <1>7, <1>8, <1>13, <1>14 DEF OnceInv

\* What a run reads with no hash it has not sent for.
LEMMA ReadsOnce ==
  ASSUME SweepInv, OnceInv, NEW c \in Rec, ReconcileStart(c)
  PROVE  OnceInv'
<1> USE DEF SweepInv
<1>1. /\ pc[c] = "idle" /\ c \in Actor
      /\ UNCHANGED <<chain, payer, sender, op, rows, pc, cur, tx>>
  BY DEF ReconcileStart, chainVars, sweepVars, procVars, Actor
<1>2. /\ \A k \in Key, row \in Row : <<k, row>> \in batch'[c] => row = op[k]
      /\ \A d \in Rec \ {c} : batch'[d] = batch[d]
  BY DEF ReconcileStart, TypeOK
<1>3. RowsKnown' /\ MarksOwn'
  BY <1>1 DEF OnceInv, RowsKnown, MarksOwn, Key, Live
<1>4. BatchOnce'
  <2> SUFFICES ASSUME NEW d \in Rec
               PROVE  /\ \A k \in Key, r, q \in Row :
                           <<k, r>> \in batch'[d] /\ <<k, q>> \in batch'[d] => r = q
                      /\ pc[d] # "idle" =>
                           \A row \in Row : <<cur[d], row>> \notin batch'[d]
    BY <1>1 DEF BatchOnce, Key, Live
  <2> QED
    BY <1>1, <1>2 DEF OnceInv, BatchOnce
<1>5. \A h \in Hash : Held(h)' => Held(h)
  <2> SUFFICES ASSUME NEW h \in Hash, Held(h)' PROVE Held(h)
    OBVIOUS
  <2>1. ASSUME NEW d \in Rec, NEW k \in Key, NEW row \in Row,
               <<k, row>> \in batch'[d], row.hash = h
        PROVE  Held(h)
    BY <1>2, <2>1 DEF Held
  <2> QED
    BY <1>1, <2>1 DEF Held, Key, Live
<1>6. \A h \in Hash : Held(h) => payer[h] \in Key
  BY HeldIsSent DEF OnceInv
<1>7. ASSUME NEW h \in Hash, Held(h) PROVE NotAgain(sender[h], payer[h])'
  <2>1. sender[h] \in Actor /\ NotAgain(sender[h], payer[h]) /\ payer[h] \in Key
    BY <1>6, <1>7 DEF OnceInv, SentOnce
  <2>2. sender[h] = c => op[payer[h]].hash # None
    BY <1>1, <1>7, HeldIsSent DEF OnceInv, MarksOwn
  <2> QED
    BY <1>1, <1>2, <2>1, <2>2 DEF NotAgain
<1>8. SentOnce'
  BY <1>1, <1>5, <1>7 DEF OnceInv, SentOnce
<1>9. HeldOnce'
  BY <1>1, <1>5 DEF OnceInv, HeldOnce
<1> QED
  BY <1>3, <1>4, <1>8, <1>9 DEF OnceInv

\* A run that takes an operation up takes its only entry, and sends for it only
\* when the row was read with no hash.
LEMMA TakesOnce ==
  ASSUME SweepInv, OnceInv, NEW c \in Rec, NEW k \in Key, NEW row \in Row,
         ReconcileTake(c, k, row)
  PROVE  OnceInv'
<1> USE DEF SweepInv
<1>1. /\ c \in Actor /\ pc[c] = "idle" /\ <<k, row>> \in batch[c]
      /\ UNCHANGED <<chain, payer, sender, op, rows>>
  BY DEF ReconcileTake, chainVars, sweepVars, Actor
<1>2. /\ \A d \in Rec \ {c} : batch'[d] = batch[d]
      /\ batch'[c] = batch[c] \ {<<k, row>>}
  BY DEF ReconcileTake, TypeOK
<1>3. /\ \A b \in Actor \ {c} : pc'[b] = pc[b] /\ cur'[b] = cur[b] /\ tx'[b] = tx[b]
      /\ \/ pc'[c] = "send" /\ cur'[c] = k /\ row.hash = None
         \/ pc'[c] = "check" /\ cur'[c] = k /\ tx'[c] = row.hash
         \/ pc'[c] = pc[c] /\ cur'[c] = cur[c] /\ tx'[c] = tx[c]
  BY <1>1 DEF ReconcileTake, ToSend, TypeOK, procVars
<1>4. RowsKnown' /\ MarksOwn'
  BY <1>1, <1>3 DEF OnceInv, RowsKnown, MarksOwn, Key, Live
<1>5. BatchOnce'
  <2> SUFFICES ASSUME NEW d \in Rec
               PROVE  /\ \A j \in Key, r, q \in Row :
                           <<j, r>> \in batch'[d] /\ <<j, q>> \in batch'[d] => r = q
                      /\ pc'[d] # "idle" =>
                           \A r \in Row : <<cur'[d], r>> \notin batch'[d]
    BY DEF BatchOnce, Key, Live
  <2>1. CASE d = c
    <3>1. \A r \in Row : <<k, r>> \notin batch'[c]
      BY <1>1, <1>2 DEF OnceInv, BatchOnce
    <3> QED
      BY <1>1, <1>2, <1>3, <2>1, <3>1 DEF OnceInv, BatchOnce
  <2>2. CASE d # c
    <3>1. d \in Actor \ {c}
      BY <2>2 DEF Actor
    <3> QED
      BY <1>2, <1>3, <2>2, <3>1 DEF OnceInv, BatchOnce
  <2> QED
    BY <2>1, <2>2
<1>6. \A h \in Hash : Held(h)' => Held(h)
  <2> SUFFICES ASSUME NEW h \in Hash, Held(h)' PROVE Held(h)
    OBVIOUS
  <2>1. ASSUME NEW b \in Actor, pc'[b] \in Sending, tx'[b] = h PROVE Held(h)
    BY <1>1, <1>3, <2>1 DEF Held, Sending
  <2>2. ASSUME NEW d \in Rec, NEW j \in Key, NEW r \in Row,
               <<j, r>> \in batch'[d], r.hash = h
        PROVE  Held(h)
    BY <1>2, <2>2 DEF Held
  <2> QED
    BY <1>1, <2>1, <2>2 DEF Held, Key, Live
<1>7. ASSUME NEW b \in Actor, NEW j \in Key, NotAgain(b, j) PROVE NotAgain(b, j)'
  <2>1. CASE b = c
    <3>1. c \notin Call
      BY NamesAssumption
    <3>2. ~(pc'[c] = "send" /\ cur'[c] = j)
      BY <1>1, <1>3, <1>7, <2>1 DEF NotAgain
    <3> QED
      BY <1>2, <1>7, <2>1, <3>1, <3>2 DEF NotAgain
  <2>2. CASE b # c
    BY <1>2, <1>3, <1>7, <2>2 DEF NotAgain
  <2> QED
    BY <2>1, <2>2
<1>8. \A h \in Hash : Held(h) => payer[h] \in Key
  BY HeldIsSent DEF OnceInv
<1> QED
  BY <1>1, <1>4, <1>5, <1>6, <1>7, <1>8, OnceKept

\* A step that moves no actor on and adds nothing to read.
LEMMA NothingHeld ==
  ASSUME SweepInv, OnceInv,
         UNCHANGED <<payer, sender, rows>>,
         \A h \in Hash : chain'[h] = "unsent" <=> chain[h] = "unsent",
         \A k \in Key : op'[k].hash = op[k].hash,
         \A c \in Rec : batch'[c] \subseteq batch[c],
         \/ UNCHANGED <<pc, cur, tx>>
         \/ \A a \in Actor : /\ pc'[a] \in {"idle", "over"}
                             /\ a \in Call /\ pc'[a] = "idle" => pc[a] = "idle"
                             /\ a \in Rec => batch'[a] = {}
  PROVE  OnceInv'
<1> USE DEF SweepInv
<1>1. RowsKnown'
  BY DEF OnceInv, RowsKnown, TypeOK, Key, Live
<1>2. MarksOwn'
  BY DEF OnceInv, MarksOwn
<1>3. BatchOnce'
  <2>1. \A c \in Rec : \/ batch'[c] = {}
                       \/ pc'[c] = pc[c] /\ cur'[c] = cur[c]
    BY DEF Actor
  <2> QED
    BY <2>1 DEF OnceInv, BatchOnce, Key, Live
<1>4. \A h \in Hash : Held(h)' => Held(h)
  <2> SUFFICES ASSUME NEW h \in Hash, Held(h)' PROVE Held(h)
    OBVIOUS
  <2>1. ASSUME NEW b \in Actor, pc'[b] \in Sending, tx'[b] = h PROVE Held(h)
    BY <2>1 DEF Held, Sending
  <2>2. ASSUME NEW d \in Rec, NEW j \in Key, NEW r \in Row,
               <<j, r>> \in batch'[d], r.hash = h
        PROVE  Held(h)
    BY <2>2 DEF Held
  <2> QED
    BY <2>1, <2>2 DEF Held, Key, Live
<1>5. ASSUME NEW b \in Actor, NEW j \in Key, NotAgain(b, j) PROVE NotAgain(b, j)'
  BY <1>5 DEF NotAgain, Early
<1>6. \A h \in Hash : Held(h) => payer[h] \in Key
  BY HeldIsSent DEF OnceInv
<1> QED
  BY <1>1, <1>2, <1>3, <1>4, <1>5, <1>6, OnceKept

LEMMA WorldKeepsOnce ==
  ASSUME SweepInv, OnceInv,
         \/ Crash
         \/ \E d \in Dep : DepositArrives(d)
         \/ \E h \in Hash : ChainMines(h) \/ ChainExpires(h)
         \/ \E c \in Rec, k \in Key, row \in Row : ReconcileTouchFails(c, k, row)
         \/ UNCHANGED vars
  PROVE  OnceInv'
<1> USE DEF SweepInv
<1>1. CASE Crash
  <2>1. \A a \in Actor : /\ pc'[a] \in {"idle", "over"}
                         /\ a \in Call /\ pc'[a] = "idle" => pc[a] = "idle"
                         /\ a \in Rec => batch'[a] = {}
    BY <1>1, NamesAssumption DEF Crash, Resting, TypeOK, Pc
  <2> QED
    BY <1>1, <2>1, NothingHeld DEF Crash, chainVars, sweepVars
<1>2. CASE \/ \E d \in Dep : DepositArrives(d)
           \/ \E h \in Hash : ChainMines(h) \/ ChainExpires(h)
           \/ UNCHANGED vars
  <2>1. UNCHANGED <<payer, sender, rows, op, batch, pc, cur, tx>>
    BY <1>2 DEF DepositArrives, ChainMines, ChainExpires, vars, chainVars, sweepVars,
       procVars
  <2>2. \A h \in Hash : chain'[h] = "unsent" <=> chain[h] = "unsent"
    BY <1>2 DEF DepositArrives, ChainMines, ChainExpires, vars, chainVars, TypeOK
  <2> QED
    BY <2>1, <2>2, NothingHeld
<1>3. ASSUME NEW c \in Rec, NEW k \in Key, NEW row \in Row,
             ReconcileTouchFails(c, k, row)
      PROVE  OnceInv'
  <2>1. UNCHANGED <<chain, payer, sender, rows, pc, cur, tx>>
    BY <1>3 DEF ReconcileTouchFails, chainVars, procVars
  <2>2. /\ \A j \in Key : op'[j].hash = op[j].hash
        /\ \A d \in Rec : batch'[d] \subseteq batch[d]
    BY <1>3 DEF ReconcileTouchFails, TypeOK, Row
  <2> QED
    BY <2>1, <2>2, NothingHeld
<1> QED
  BY <1>1, <1>2, <1>3

LEMMA InitOnce == Init => OnceInv
<1> SUFFICES ASSUME Init PROVE OnceInv
  OBVIOUS
<1>1. \A h \in Hash : ~Held(h)
  BY NamesAssumption DEF Init, Held, NoRow, Sending
<1> QED
  BY <1>1 DEF Init, OnceInv, RowsKnown, MarksOwn, BatchOnce, SentOnce, HeldOnce

LEMMA NextOnce == SweepInv /\ OnceInv /\ [Next]_vars => OnceInv'
<1> SUFFICES ASSUME SweepInv, OnceInv, [Next]_vars PROVE OnceInv'
  OBVIOUS
<1>1. ASSUME NEW w \in Call, SweepStep(w) \/ \E d \in Dep : WebhookStart(w, d)
      PROVE  OnceInv'
  <2>1. w \in Actor /\ Onward(w)
    BY <1>1, CallsGoOn DEF Actor
  <2> QED
    BY <2>1, OnwardKeeps
<1>2. ASSUME NEW a \in Call \cup Rec, SendStep(a) PROVE OnceInv'
  <2>1. a \in Actor
    BY DEF Actor
  <2>2. ASSUME NEW h \in Hash, Send(a, h) PROVE OnceInv'
    BY <2>1, <2>2, SendsOnce
  <2>3. CASE ~\E h \in Hash : Send(a, h)
    BY <1>2, <2>1, <2>3, LookersGoOn, WritersGoOn, OnwardKeeps DEF SendStep
  <2> QED
    BY <2>2, <2>3
<1>3. ASSUME NEW a \in Call \cup Cron, RefreshStep(a) PROVE OnceInv'
  <2>1. a \in Actor
    BY DEF Actor
  <2> QED
    BY <1>3, <2>1, LookersGoOn, OnwardKeeps DEF RefreshStep
<1>4. ASSUME NEW x \in Cron, RescanStart(x) PROVE OnceInv'
  <2>1. x \in Actor
    BY DEF Actor
  <2> QED
    BY <1>4, <2>1, LookersGoOn, OnwardKeeps
<1>5. ASSUME NEW c \in Rec, ReconcileStep(c) PROVE OnceInv'
  BY <1>5, ReadsOnce, TakesOnce DEF ReconcileStep
<1>6. CASE Environment
  BY <1>6, FaultsGoOn, OnwardKeeps, SendsOnce, WorldKeepsOnce DEF Environment
<1>7. CASE UNCHANGED vars
  BY <1>7, WorldKeepsOnce
<1> QED
  BY <1>1, <1>2, <1>3, <1>4, <1>5, <1>6, <1>7 DEF Next

-----------------------------------------------------------------------------
\* A CONFIRMED sweep names a transaction that was broadcast for it, of the
\* transactions one delivery or run sent for an operation and recorded there is
\* one, and no row or local that the webhook, the reconcile loop and the rescan
\* share is ever malformed, whatever fails between their steps
\* (maybeSweepCustomerWallet and the SWEEP branch of reconcileUsdtOperations).
THEOREM SweepsStaySound == Spec => []SweepsAreSound
<1>1. SweepInv => TypeOK /\ ConfirmedWasSent
  BY DEF SweepInv, RowsSound, RowSound, Owned, ConfirmedWasSent
<1>2. SweepInv /\ OnceInv => RecordedOncePerSender
  BY DEF SweepInv, TypeOK, OnceInv, HeldOnce, Held, RecordedOncePerSender
<1>3. SweepInv /\ OnceInv => SweepsAreSound
  BY <1>1, <1>2 DEF SweepsAreSound
<1> QED
  BY InitSound, NextSound, InitOnce, NextOnce, <1>3, PTL DEF Spec
=============================================================================
