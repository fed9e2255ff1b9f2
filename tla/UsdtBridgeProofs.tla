-------------------------- MODULE UsdtBridgeProofs --------------------------
(***************************************************************************)
(* What the bridge's rows say is true, and one transaction of the chain is *)
(* counted twice only under a bridge's own operation: for any operations,  *)
(* requests, deliveries, reconcile runs and transactions, any amounts and  *)
(* any number of failures and restarts.                                    *)
(***************************************************************************)
EXTENDS UsdtBridge, TLAPS

Done(row) == row.status = "CONFIRMED" \/ row.done

Accounted(o) == \E h \in Hash : chainRow[h] = o /\ InHistory(h)

\* A transaction without a chain row is counted nowhere; a row names the kind
\* of operation that counted it.
RowTells(h) ==
  /\ chainRow[h] = None => settled[h] = 0 /\ credited[h] = 0
  /\ chainRow[h] = Deposit => settled[h] = 0
  /\ chainRow[h] = Wallet => credited[h] = 0

\* The locals an actor decides on at its commit.  Rows it saw are still there.
LocalSound(a) ==
  /\ a \in Req /\ pc[a] \in Working => cur[a] \in Op
  /\ a \in Wal => ~sawRow[a] /\ (pc[a] \in Working => cur[a] = Wallet)
  /\ a \in Call \cup Rec =>
       /\ pc[a] # "send" /\ cur[a] \in Op \cup {Deposit, None}
       /\ pc[a] \in {"mark", "commit", "finTx", "finRow", "finCommit"} =>
            cur[a] # None
  /\ pc[a] \in Working \ {"create", "send", "markFailed"} => tx[a] \in Hash
  /\ pc[a] \in {"commit", "finCommit"} /\ sawRow[a] => chainRow[tx[a]] = cur[a]
  /\ pc[a] \in {"finRow", "finCommit"} /\ sawTx[a] => InHistory(tx[a])
  /\ a \notin Req => ~seen[a].done
  /\ seen[a].done => cur[a] \in Op /\ Accounted(cur[a])

RowsTell == \A h \in Hash : RowTells(h)
LocalsSound == \A a \in Actor : LocalSound(a)
DoneSound == \A o \in Op : Done(bridge[o]) => Accounted(o)
WatchSound == \A o \in Op, h \in Hash :
                <<o, h>> \in watch => chainRow[h] = o /\ InHistory(h)
ReadsSound == \A c \in Rec, o \in Op : <<o, TRUE>> \in bridges[c] => Accounted(o)

Inv == /\ TypeOK /\ RowsTell /\ LocalsSound
       /\ DoneSound /\ WatchSound /\ ReadsSound

-----------------------------------------------------------------------------
LEMMA InitInv == Init => Inv
<1> SUFFICES ASSUME Init PROVE Inv
  OBVIOUS
<1> USE DEF Init
<1>1. TypeOK
  BY AmountsAssumption, BoundsAssumption
     DEF TypeOK, NoRow, NoDeposit, Row, Status, Owner, Pc, Working
<1>2. RowsTell
  BY DEF RowsTell, RowTells
<1>3. LocalsSound
  BY DEF LocalsSound, LocalSound, NoRow, Working
<1> QED
  BY <1>1, <1>2, <1>3
     DEF Inv, DoneSound, Done, NoRow, WatchSound, ReadsSound

-----------------------------------------------------------------------------
(* What every step keeps                                                   *)

\* A chain row stays with its operation, and nothing is taken from history.
RowsKept ==
  \A h \in Hash :
    /\ chainRow[h] # None => chainRow'[h] = chainRow[h]
    /\ settled'[h] >= settled[h] /\ credited'[h] >= credited[h]

SameLocals(a) ==
  /\ pc'[a] = pc[a] /\ cur'[a] = cur[a] /\ tx'[a] = tx[a]
  /\ seen'[a] = seen[a] /\ sawTx'[a] = sawTx[a] /\ sawRow'[a] = sawRow[a]

\* What was in the history is, and so is what was accounted for.
LEMMA HistoryStays ==
  ASSUME TypeOK, TypeOK', RowsKept
  PROVE  /\ \A h \in Hash : InHistory(h) => InHistory(h)'
         /\ \A o \in Op : Accounted(o) => Accounted(o)'
<1>1. \A h \in Hash : InHistory(h) => InHistory(h)'
  BY DEF RowsKept, InHistory, TypeOK
<1>2. ASSUME NEW o \in Op, Accounted(o) PROVE Accounted(o)'
  <2>1. PICK h \in Hash : chainRow[h] = o /\ InHistory(h)
    BY <1>2 DEF Accounted
  <2>2. chainRow'[h] = o
    BY <2>1, NamesAssumption DEF RowsKept
  <2> QED
    BY <1>1, <2>1, <2>2 DEF Accounted
<1> QED
  BY <1>1, <1>2

\* A step has to show what it writes: rows, watchers, reads and the locals of
\* whoever moves.
LEMMA StepKeeps ==
  ASSUME Inv, TypeOK', RowsKept, RowsTell',
         \A o \in Op : Done(bridge'[o]) => Done(bridge[o]) \/ Accounted(o)',
         \A o \in Op, h \in Hash : <<o, h>> \in watch' =>
           <<o, h>> \in watch \/ (chainRow'[h] = o /\ InHistory(h)'),
         \A c \in Rec, o \in Op : <<o, TRUE>> \in bridges'[c] =>
           <<o, TRUE>> \in bridges[c] \/ Done(bridge[o]),
         \A a \in Actor : SameLocals(a) \/ LocalSound(a)'
  PROVE  Inv'
<1>0. /\ \A h \in Hash : InHistory(h) => InHistory(h)'
      /\ \A o \in Op : Accounted(o) => Accounted(o)'
  BY HistoryStays DEF Inv
<1>1. DoneSound'
  BY <1>0 DEF Inv, DoneSound
<1>2. WatchSound'
  BY <1>0, NamesAssumption DEF Inv, WatchSound, RowsKept
<1>3. ReadsSound'
  BY <1>0 DEF Inv, DoneSound, ReadsSound
<1>4. ASSUME NEW a \in Actor, SameLocals(a) PROVE LocalSound(a)'
  <2>1. LocalSound(a)
    BY DEF Inv, LocalsSound
  <2>2. pc[a] \in {"commit", "finCommit"} /\ sawRow[a] => chainRow'[tx[a]] = cur[a]
    <3>1. SUFFICES ASSUME pc[a] \in {"commit", "finCommit"}, sawRow[a]
                   PROVE  chainRow'[tx[a]] = cur[a]
      OBVIOUS
    <3>2. chainRow[tx[a]] = cur[a] /\ tx[a] \in Hash
      BY <2>1, <3>1 DEF LocalSound, Working
    <3>3. cur[a] # None
      BY <2>1, <3>1, NamesAssumption DEF LocalSound, Working, Actor
    <3> QED
      BY <3>2, <3>3 DEF RowsKept
  <2>3. pc[a] \in {"finRow", "finCommit"} /\ sawTx[a] =>
          \E h \in Hash : h = tx[a] /\ InHistory(h)'
    BY <1>0, <2>1 DEF LocalSound, Working
  <2>4. seen[a].done => \E o \in Op : o = cur[a] /\ Accounted(o)'
    BY <1>0, <2>1 DEF LocalSound
  <2> QED
    BY <1>4, <2>1, <2>2, <2>3, <2>4
       DEF LocalSound, SameLocals, InHistory, Accounted
<1>5. LocalsSound'
  BY <1>4 DEF LocalsSound
<1> QED
  BY <1>1, <1>2, <1>3, <1>5 DEF Inv

\* A step that writes none of the records.
LEMMA LooksKeep ==
  ASSUME Inv, TypeOK', UNCHANGED <<rowVars, bridges>>, watch' \subseteq watch,
         \A a \in Actor : SameLocals(a) \/ LocalSound(a)'
  PROVE  Inv'
<1>1. RowsKept
  BY DEF RowsKept, rowVars, Inv, TypeOK
<1>2. RowsTell'
  BY DEF RowsTell, RowTells, rowVars, Inv
<1>3. bridge' = bridge /\ bridges' = bridges
  BY DEF rowVars
<1> QED
  BY <1>1, <1>2, <1>3, StepKeeps

\* Whoever stops holds nothing.
LEMMA RestIsSound ==
  ASSUME TypeOK, NEW a \in Actor, NEW end \in {"answered", "threw"}, Rest(a, end)
  PROVE  /\ LocalSound(a)'
         /\ \A b \in Actor \ {a} : SameLocals(b)
         /\ pc' \in [Actor -> Pc] /\ cur' \in [Actor -> Owner \cup {None}]
         /\ tx' \in [Actor -> Hash \cup {None}] /\ seen' \in [Actor -> Row]
         /\ sawTx' \in [Actor -> BOOLEAN] /\ sawRow' \in [Actor -> BOOLEAN]
         /\ late' \in [Actor -> BOOLEAN]
<1>1. Resting(a, end) \in Pc \ Working
  BY DEF Resting, Pc, Working
<1>2. /\ pc'[a] = Resting(a, end) /\ cur'[a] = None /\ seen'[a] = NoRow
      /\ sawRow'[a] = FALSE /\ sawTx'[a] = FALSE
  BY DEF Rest, TypeOK
<1>3. LocalSound(a)'
  BY <1>1, <1>2 DEF LocalSound, NoRow, Working
<1> QED
  BY <1>1, <1>3 DEF Rest, TypeOK, SameLocals, NoRow, Row, Status

LEMMA GotoMoves ==
  ASSUME TypeOK, NEW a \in Actor, NEW l \in Working, Goto(a, l)
  PROVE  /\ pc'[a] = l /\ cur'[a] = cur[a] /\ tx'[a] = tx[a]
         /\ seen'[a] = seen[a] /\ sawTx'[a] = sawTx[a] /\ sawRow'[a] = sawRow[a]
         /\ \A b \in Actor \ {a} : SameLocals(b)
         /\ pc' \in [Actor -> Pc] /\ cur' \in [Actor -> Owner \cup {None}]
         /\ tx' \in [Actor -> Hash \cup {None}] /\ seen' \in [Actor -> Row]
         /\ sawTx' \in [Actor -> BOOLEAN] /\ sawRow' \in [Actor -> BOOLEAN]
         /\ late' \in [Actor -> BOOLEAN]
BY DEF Goto, TypeOK, SameLocals, Pc

-----------------------------------------------------------------------------
(* Steps that write none of the records                                     *)

\* An actor that stops, whatever it leaves of the rest.
LEMMA RestKeeps ==
  ASSUME Inv, NEW a \in Actor, NEW end \in {"answered", "threw"}, Rest(a, end),
         UNCHANGED <<balance, rowVars, chainVars, watch, bridges>>,
         deposits' \in [Rec -> SUBSET Hash],
         faults' \in 0 .. MaxFaults, crashes' = crashes
  PROVE  Inv'
<1>1. TypeOK'
  BY RestIsSound DEF Inv, TypeOK, rowVars, chainVars
<1> QED
  BY <1>1, RestIsSound, LooksKeep DEF Inv

\* An actor that goes on to l, where its locals still do.
LEMMA GotoKeeps ==
  ASSUME Inv, NEW a \in Actor, NEW l \in Working, Goto(a, l), pc[a] \in Working,
         UNCHANGED <<balance, rowVars, chainVars, watch, batchVars, crashes>>,
         faults' \in 0 .. MaxFaults,
         l \in {"create", "send", "markFailed"} \/ tx[a] \in Hash,
         a \in Call \cup Rec =>
           /\ l # "send"
           /\ l \in {"mark", "commit", "finTx", "finRow", "finCommit"} =>
                cur[a] # None,
         l \in {"finRow", "finCommit"} => ~sawTx[a] \/ pc[a] \in {"finRow"},
         l \in {"commit", "finCommit"} => ~sawRow[a]
  PROVE  Inv'
<1>1. TypeOK'
  BY GotoMoves DEF Inv, TypeOK, rowVars, chainVars, batchVars
<1>2. LocalSound(a)
  BY DEF Inv, LocalsSound
<1>3. /\ pc'[a] = l /\ cur'[a] = cur[a] /\ tx'[a] = tx[a]
      /\ seen'[a] = seen[a] /\ sawTx'[a] = sawTx[a] /\ sawRow'[a] = sawRow[a]
      /\ \A b \in Actor \ {a} : SameLocals(b)
  BY GotoMoves DEF Inv
<1>4. chainRow' = chainRow /\ settled' = settled /\ credited' = credited
  BY DEF rowVars
<1>5. LocalSound(a)'
  <2>1. seen[a].done => Accounted(cur[a])'
    BY <1>2, <1>3, <1>4 DEF LocalSound, Accounted, InHistory
  <2> QED
    BY <1>2, <1>3, <1>4, <2>1 DEF LocalSound, InHistory
<1> QED
  BY <1>1, <1>3, <1>5, LooksKeep DEF batchVars

LEMMA BridgeFinds ==
  ASSUME Inv, NEW r \in Req, NEW o \in Op, BridgeFind(r, o)
  PROVE  Inv'
<1> USE DEF Inv
<1>0. r \in Actor
  BY DEF Actor
<1>1. CASE Answered(bridge[o])
  BY <1>0, <1>1, RestKeeps DEF BridgeFind, TypeOK, batchVars, boundVars
<1>2. CASE ~Answered(bridge[o])
  <2>1. /\ pc' = [pc EXCEPT ![r] =
                    IF bridge[o].status = "ABSENT" THEN "create" ELSE "send"]
        /\ cur' = [cur EXCEPT ![r] = o] /\ seen' = [seen EXCEPT ![r] = bridge[o]]
        /\ UNCHANGED <<tx, sawTx, sawRow, late>>
    BY <1>2 DEF BridgeFind
  <2>2. TypeOK'
    BY <1>0, <2>1 DEF BridgeFind, TypeOK, Owner, Pc, Working, rowVars, chainVars,
       batchVars, boundVars
  <2>3. pc'[r] \in {"create", "send"} /\ cur'[r] = o /\ seen'[r] = bridge[o]
    BY <1>0, <2>1 DEF TypeOK
  <2>4. bridge[o].done => Accounted(o)
    BY DEF DoneSound, Done
  <2>5. LocalSound(r)'
    BY <2>3, <2>4, ActorsAssumption
       DEF BridgeFind, LocalSound, Accounted, InHistory, rowVars, Working
  <2>6. \A b \in Actor \ {r} : SameLocals(b)
    BY <2>1 DEF SameLocals, TypeOK
  <2> QED
    BY <2>2, <2>5, <2>6, LooksKeep DEF BridgeFind, batchVars
<1> QED
  BY <1>1, <1>2

LEMMA BroadcastKeeps ==
  ASSUME Inv, NEW a \in Req \cup Wal, NEW h \in Hash,
         Send(a, h) \/ SendLost(a, h)
  PROVE  Inv'
<1> USE DEF Inv
<1>0. /\ a \in Actor /\ pc[a] = "send" /\ LocalSound(a)
      /\ UNCHANGED <<balance, rowVars, watch, batchVars, crashes>>
  BY DEF Actor, LocalsSound, Send, SendLost, Broadcast
<1>1. cur[a] \in Op \cup {Wallet}
  BY <1>0 DEF LocalSound, Working
<1>2. /\ chain' \in [Hash -> {"unsent", "mempool", "mined", "expired"}]
      /\ payer' \in [Hash -> Op \cup {Wallet, None}]
      /\ faults' \in 0 .. MaxFaults
  <2>1. Broadcast(a, h)
    BY DEF Send, SendLost
  <2>2. faults' = faults \/ (faults < MaxFaults /\ faults' = faults + 1)
    BY DEF Send, SendLost
  <2>3. faults' \in 0 .. MaxFaults
    BY <2>2, BoundsAssumption DEF TypeOK
  <2> QED
    BY <1>1, <2>1, <2>3 DEF Broadcast, TypeOK
<1>3. CASE Send(a, h)
  <2>1. /\ pc' = [pc EXCEPT ![a] = IF a \in Req THEN "mark" ELSE "read"]
        /\ tx' = [tx EXCEPT ![a] = h] /\ UNCHANGED <<cur, seen, sawTx, sawRow, late>>
    BY <1>3 DEF Send
  <2>2. TypeOK'
    BY <1>0, <1>2, <2>1 DEF TypeOK, Pc, Working, rowVars, batchVars
  <2>3. pc'[a] \in {"mark", "read"} /\ tx'[a] = h
    BY <1>0, <2>1 DEF TypeOK
  <2>4. LocalSound(a)'
    BY <1>0, <2>1, <2>3, ActorsAssumption
       DEF LocalSound, Accounted, InHistory, rowVars, Working
  <2>5. \A b \in Actor \ {a} : SameLocals(b)
    BY <2>1 DEF SameLocals, TypeOK
  <2> QED
    BY <1>0, <2>2, <2>4, <2>5, LooksKeep DEF batchVars
<1>4. CASE SendLost(a, h) /\ a \in Req
  <2>1. Goto(a, "markFailed") /\ "markFailed" \in Working
    BY <1>4 DEF SendLost, SendFails, Working
  <2>2. TypeOK'
    BY <1>0, <1>2, <2>1, GotoMoves DEF TypeOK, rowVars, batchVars
  <2>3. LocalSound(a)'
    BY <1>0, <2>1, GotoMoves, ActorsAssumption
       DEF LocalSound, Accounted, InHistory, rowVars, Working
  <2> QED
    BY <1>0, <2>1, <2>2, <2>3, GotoMoves, LooksKeep DEF batchVars
<1>5. CASE SendLost(a, h) /\ a \notin Req
  <2>1. Rest(a, "threw")
    BY <1>5 DEF SendLost, SendFails
  <2>2. TypeOK'
    BY <1>0, <1>2, <2>1, RestIsSound DEF TypeOK, rowVars, batchVars
  <2> QED
    BY <1>0, <2>1, <2>2, RestIsSound, LooksKeep DEF batchVars
<1> QED
  BY <1>3, <1>4, <1>5

LEMMA RequestLooks ==
  ASSUME Inv, NEW a \in Req \cup Wal,
         SendRejected(a) \/ BridgeRead(a) \/ WalletRead(a)
  PROVE  Inv'
<1>0. /\ a \in Actor /\ LocalSound(a) /\ pc[a] \in Working
      /\ a \notin Call \cup Rec
      /\ UNCHANGED <<balance, rowVars, chainVars, watch, batchVars, crashes, faults>>
      /\ faults \in 0 .. MaxFaults /\ deposits \in [Rec -> SUBSET Hash]
  BY ActorsAssumption DEF Actor, Inv, TypeOK, LocalsSound, SendRejected, BridgeRead,
     WalletRead, Working, boundVars
<1>1. CASE Rest(a, "threw")
  BY <1>0, <1>1, RestKeeps DEF batchVars
<1>2. CASE Goto(a, "markFailed")
  BY <1>0, <1>2, GotoKeeps DEF Working
<1>3. CASE Goto(a, "findRow") /\ pc[a] = "read"
  BY <1>0, <1>3, GotoKeeps DEF Working, LocalSound
<1>4. CASE Goto(a, "commit") /\ pc[a] = "read" /\ a \in Wal
  BY <1>0, <1>4, GotoKeeps DEF Working, LocalSound
<1> QED
  BY <1>1, <1>2, <1>3, <1>4
     DEF SendRejected, SendFails, BridgeRead, WalletRead

LEMMA RequestFindsRow ==
  ASSUME Inv, NEW r \in Req, BridgeFindRow(r)
  PROVE  Inv'
<1> USE DEF Inv
<1>0. r \in Actor /\ LocalSound(r)
  BY DEF Actor, LocalsSound
<1>1. TypeOK'
  BY <1>0 DEF BridgeFindRow, TypeOK, Pc, Working, rowVars, chainVars, batchVars,
     boundVars
<1>2. pc'[r] = "commit" /\ sawRow'[r] = (chainRow[tx[r]] = cur[r])
  BY <1>0 DEF BridgeFindRow, TypeOK
<1>3. LocalSound(r)'
  BY <1>0, <1>2, ActorsAssumption
     DEF BridgeFindRow, LocalSound, Accounted, InHistory, rowVars, Working
<1>4. \A b \in Actor \ {r} : SameLocals(b)
  BY DEF BridgeFindRow, SameLocals, TypeOK
<1> QED
  BY <1>1, <1>3, <1>4, LooksKeep DEF BridgeFindRow, batchVars

LEMMA WalletStarts ==
  ASSUME Inv, NEW x \in Wal, WalletStart(x)
  PROVE  Inv'
<1> USE DEF Inv
<1>0. x \in Actor /\ LocalSound(x)
  BY DEF Actor, LocalsSound
<1>1. TypeOK'
  BY <1>0 DEF WalletStart, TypeOK, Owner, Pc, Working, rowVars, chainVars,
     batchVars, boundVars
<1>2. pc'[x] = "send" /\ cur'[x] = Wallet
  BY <1>0 DEF WalletStart, TypeOK
<1>3. LocalSound(x)'
  BY <1>0, <1>2, ActorsAssumption DEF WalletStart, LocalSound, Working
<1>4. \A b \in Actor \ {x} : SameLocals(b)
  BY DEF WalletStart, SameLocals, TypeOK
<1> QED
  BY <1>1, <1>3, <1>4, LooksKeep DEF WalletStart, batchVars

\* A browser wallet's own operation is done: no delivery goes on under it.
LEMMA WebhookFinds ==
  ASSUME Inv, NEW w \in Call, NEW h \in Hash, WebhookFind(w, h)
  PROVE  Inv'
<1> USE DEF Inv
<1>0. w \in Actor /\ LocalSound(w)
  BY DEF Actor, LocalsSound
<1>1. CASE \E k \in Holders(h) : AlreadyDone(RowOf(k, h))
  BY <1>0, <1>1, RestKeeps DEF WebhookFind, TypeOK, batchVars, boundVars
<1>2. CASE ~\E k \in Holders(h) : AlreadyDone(RowOf(k, h))
  <2>1. Holders(h) \subseteq Op \cup {Deposit}
    <3>1. h \in wallet => Wallet \in Holders(h) /\ AlreadyDone(RowOf(Wallet, h))
      BY NamesAssumption DEF Holders, RowOf, AlreadyDone
    <3> QED
      BY <1>2, <3>1 DEF Holders
  <2>2. /\ pc' = [pc EXCEPT ![w] = "check"] /\ tx' = [tx EXCEPT ![w] = h]
        /\ late' = [late EXCEPT ![w] = InHistory(h)]
        /\ cur' = cur \/ \E k \in Holders(h) : cur' = [cur EXCEPT ![w] = k]
        /\ UNCHANGED <<seen, sawTx, sawRow>>
    BY <1>2 DEF WebhookFind
  <2>3. TypeOK'
    <3>1. cur' \in [Actor -> Owner \cup {None}]
      BY <1>0, <2>1, <2>2 DEF TypeOK, Owner
    <3>2. late' \in [Actor -> BOOLEAN]
      <4>1. InHistory(h) \in BOOLEAN /\ late' = [late EXCEPT ![w] = InHistory(h)]
        BY <2>2 DEF InHistory
      <4> QED
        BY <4>1 DEF TypeOK
    <3> QED
      BY <2>2, <3>1, <3>2 DEF WebhookFind, TypeOK, Pc, Working, rowVars,
         chainVars, batchVars, boundVars
  <2>4. /\ pc'[w] = "check" /\ tx'[w] = h /\ cur'[w] \in Op \cup {Deposit, None}
        /\ \A b \in Actor \ {w} : SameLocals(b)
    BY <1>0, <2>1, <2>2 DEF TypeOK, LocalSound, SameLocals
  <2>5. LocalSound(w)'
    BY <1>0, <2>2, <2>4, ActorsAssumption DEF LocalSound, Working
  <2> QED
    BY <2>3, <2>4, <2>5, LooksKeep DEF WebhookFind, batchVars
<1> QED
  BY <1>1, <1>2

LEMMA ReceiverLooks ==
  ASSUME Inv, NEW a \in Call \cup Rec,
         SeesTx(a) \/ SeesNothing(a) \/ FinalizeThrows(a) \/ ReconcileSwept(a)
  PROVE  Inv'
<1>0. /\ a \in Actor /\ LocalSound(a) /\ pc[a] \in Working
      /\ UNCHANGED <<balance, rowVars, chainVars, watch, batchVars, crashes, faults>>
      /\ faults \in 0 .. MaxFaults /\ deposits \in [Rec -> SUBSET Hash]
  BY DEF Actor, Inv, TypeOK, LocalsSound, SeesTx, SeesNothing, FinalizeThrows,
     ReconcileSwept, Working, boundVars
<1>1. CASE \E end \in {"answered", "threw"} : Rest(a, end)
  BY <1>0, <1>1, RestKeeps DEF batchVars
<1>2. CASE Goto(a, "markFailed")
  BY <1>0, <1>2, GotoKeeps DEF Working
<1>3. CASE /\ pc[a] = "check"
           /\ \/ Goto(a, "createConfirmed") \/ Goto(a, "createPending")
              \/ cur[a] # None /\ (Goto(a, "finTx") \/ Goto(a, "mark"))
  BY <1>0, <1>3, GotoKeeps DEF Working, LocalSound
<1> QED
  BY <1>1, <1>2, <1>3 DEF SeesTx, SeesNothing, FinalizeThrows, ReconcileSwept

LEMMA FinalizerLooks ==
  ASSUME Inv, NEW a \in Call \cup Rec, FinalizeFindTx(a) \/ FinalizeFindRow(a)
  PROVE  Inv'
<1> USE DEF Inv
<1>0. a \in Actor /\ LocalSound(a)
  BY DEF Actor, LocalsSound
<1>1. TypeOK'
  <2>1. CASE FinalizeFindTx(a)
    BY <1>0, <2>1 DEF FinalizeFindTx, InHistory, TypeOK, Pc, Working, rowVars,
       chainVars, batchVars, boundVars
  <2>2. CASE FinalizeFindRow(a)
    BY <1>0, <2>2 DEF FinalizeFindRow, TypeOK, Pc, Working, rowVars, chainVars,
       batchVars, boundVars
  <2> QED
    BY <2>1, <2>2
<1>2. \A b \in Actor \ {a} : SameLocals(b)
  BY DEF FinalizeFindTx, FinalizeFindRow, SameLocals, TypeOK
<1>3. LocalSound(a)'
  <2>1. CASE FinalizeFindTx(a)
    <3>1. pc'[a] = "finRow" /\ sawTx'[a] = InHistory(tx[a])
      BY <1>0, <2>1 DEF FinalizeFindTx, TypeOK
    <3> QED
      BY <1>0, <2>1, <3>1, ActorsAssumption
         DEF FinalizeFindTx, LocalSound, InHistory, rowVars, Working
  <2>2. CASE FinalizeFindRow(a)
    <3>1. pc'[a] = "finCommit" /\ sawRow'[a] = (chainRow[tx[a]] = cur[a])
      BY <1>0, <2>2 DEF FinalizeFindRow, TypeOK
    <3> QED
      BY <1>0, <2>2, <3>1, ActorsAssumption
         DEF FinalizeFindRow, LocalSound, InHistory, rowVars, Working
  <2> QED
    BY <2>1, <2>2
<1> QED
  BY <1>1, <1>2, <1>3, LooksKeep DEF FinalizeFindTx, FinalizeFindRow, batchVars

LEMMA ReconcileTakes ==
  ASSUME Inv, NEW c \in Rec, NEW h \in Hash, ReconcileDeposit(c, h)
  PROVE  Inv'
<1> USE DEF Inv
<1>0. c \in Actor /\ LocalSound(c)
  BY DEF Actor, LocalsSound
<1>1. TypeOK'
  BY <1>0 DEF ReconcileDeposit, InHistory, TypeOK, Owner, Pc, Working, rowVars,
     chainVars, boundVars
<1>2. pc'[c] = "check" /\ tx'[c] = h /\ cur'[c] = Deposit
  BY <1>0 DEF ReconcileDeposit, TypeOK
<1>3. LocalSound(c)'
  BY <1>0, <1>2, ActorsAssumption DEF ReconcileDeposit, LocalSound, Working
<1>4. \A b \in Actor \ {c} : SameLocals(b)
  BY DEF ReconcileDeposit, SameLocals, TypeOK
<1> QED
  BY <1>1, <1>3, <1>4, LooksKeep DEF ReconcileDeposit

\* A run that begins reads what is done.
LEMMA ReconcileBegins ==
  ASSUME Inv, NEW c \in Rec, ReconcileStart(c)
  PROVE  Inv'
<1> USE DEF Inv
<1>1. TypeOK'
  BY DEF ReconcileStart, TypeOK, Row, rowVars, chainVars, procVars, boundVars
<1>2. \A d \in Rec, o \in Op : <<o, TRUE>> \in bridges'[d] =>
        <<o, TRUE>> \in bridges[d] \/ Done(bridge[o])
  BY DEF ReconcileStart, Done, TypeOK
<1>3. RowsKept /\ RowsTell'
  BY DEF ReconcileStart, RowsKept, RowsTell, RowTells, rowVars, TypeOK
<1>4. \A a \in Actor : SameLocals(a)
  BY DEF ReconcileStart, SameLocals, procVars
<1> QED
  BY <1>1, <1>2, <1>3, <1>4, StepKeeps DEF ReconcileStart, rowVars

LEMMA FaultKeeps ==
  ASSUME Inv, NEW a \in Actor, Fault(a)
  PROVE  Inv'
<1>0. /\ UNCHANGED <<balance, rowVars, chainVars, watch, crashes>>
      /\ faults' \in 0 .. MaxFaults /\ pc[a] \in Working
  BY BoundsAssumption DEF Fault, Inv, TypeOK, InTry, Working
<1>1. CASE Goto(a, "markFailed") /\ UNCHANGED batchVars
  BY <1>0, <1>1, GotoKeeps DEF Working
<1>2. CASE Rest(a, "threw") /\ UNCHANGED batchVars
  <2>1. deposits' \in [Rec -> SUBSET Hash] /\ UNCHANGED bridges
    BY <1>2 DEF batchVars, Inv, TypeOK
  <2> QED
    BY <1>0, <1>2, <2>1, RestKeeps
<1>3. CASE /\ Rest(a, "threw")
           /\ bridges' = [bridges EXCEPT ![a] = {}]
           /\ deposits' = [deposits EXCEPT ![a] = {}]
  <2>1. TypeOK'
    BY <1>0, <1>3, RestIsSound DEF Inv, TypeOK, rowVars, chainVars
  <2>2. RowsKept /\ RowsTell' /\ UNCHANGED <<bridge, watch>>
    BY <1>0 DEF RowsKept, RowsTell, RowTells, rowVars, Inv, TypeOK
  <2>3. \A c \in Rec : bridges'[c] \subseteq bridges[c]
    BY <1>3 DEF Inv, TypeOK
  <2> QED
    BY <1>3, <2>1, <2>2, <2>3, RestIsSound, StepKeeps DEF Inv
<1> QED
  BY <1>1, <1>2, <1>3 DEF Fault

LEMMA CrashKeeps ==
  ASSUME Inv, Crash
  PROVE  Inv'
<1> USE DEF Inv
<1>1. /\ \A a \in Actor : pc'[a] \in Pc \ Working
      /\ pc' \in [Actor -> Pc]
  BY DEF Crash, Resting, TypeOK, Pc, Working
<1>2. TypeOK'
  BY <1>1, BoundsAssumption
     DEF Crash, TypeOK, NoRow, Row, Status, rowVars, chainVars
<1>3. RowsKept /\ RowsTell' /\ UNCHANGED bridge /\ watch' = {}
  BY DEF Crash, RowsKept, RowsTell, RowTells, rowVars, TypeOK
<1>4. \A a \in Actor : LocalSound(a)'
  BY <1>1 DEF Crash, LocalSound, NoRow, Working
<1>5. \A c \in Rec : bridges'[c] = {}
  BY DEF Crash
<1> QED
  BY <1>2, <1>3, <1>4, <1>5, StepKeeps

LEMMA ChainKeeps ==
  ASSUME Inv, NEW h \in Hash,
         ChainSettles(h) \/ \E o \in Op : WatcherGivesUp(o, h)
  PROVE  Inv'
<1>1. TypeOK'
  BY DEF ChainSettles, WatcherGivesUp, Inv, TypeOK, rowVars, chainVars, procVars,
     batchVars, boundVars
<1>2. \A a \in Actor : SameLocals(a)
  BY DEF ChainSettles, WatcherGivesUp, SameLocals, procVars
<1> QED
  BY <1>1, <1>2, LooksKeep DEF ChainSettles, WatcherGivesUp, batchVars

-----------------------------------------------------------------------------
(* Writers of the operation that touch neither chain rows nor history       *)

\* Such a step need only say which rows it makes done, and who moved.
LEMMA OperationKeeps ==
  ASSUME Inv, TypeOK', UNCHANGED <<chainRow, settled, credited>>,
         \A o \in Op : Done(bridge'[o]) => Done(bridge[o]) \/ Accounted(o),
         watch' \subseteq watch,
         \A c \in Rec : bridges'[c] \subseteq bridges[c],
         \A a \in Actor : SameLocals(a) \/ LocalSound(a)'
  PROVE  Inv'
<1>1. RowsKept /\ RowsTell'
  BY DEF Inv, RowsKept, RowsTell, RowTells, TypeOK
<1>2. \A o \in Op : Accounted(o)' = Accounted(o)
  BY DEF Accounted, InHistory
<1> QED
  BY <1>1, <1>2, StepKeeps

\* A status by itself makes nothing done unless it is CONFIRMED.
LEMMA StatusSet ==
  ASSUME TypeOK, NEW o \in Op, NEW s \in Status,
         bridge' = [bridge EXCEPT ![o].status = s]
  PROVE  /\ bridge' \in [Op -> Row]
         /\ \A p \in Op \ {o} : Done(bridge'[p]) => Done(bridge[p])
         /\ s # "CONFIRMED" => (Done(bridge'[o]) => Done(bridge[o]))
<1>1. bridge \in [Op -> Row]
  BY DEF TypeOK
<1>2. bridge' \in [Op -> Row]
  BY <1>1 DEF Row
<1>3. bridge'[o].status = s /\ bridge'[o].done = bridge[o].done
  BY <1>1 DEF Row
<1>4. \A p \in Op \ {o} : bridge'[p] = bridge[p]
  BY <1>1
<1> QED
  BY <1>2, <1>3, <1>4 DEF Done

LEMMA BridgeCreates ==
  ASSUME Inv, NEW r \in Req, BridgeCreate(r)
  PROVE  Inv'
<1> USE DEF Inv
<1>0. /\ r \in Actor /\ LocalSound(r) /\ cur[r] \in Op
      /\ UNCHANGED <<balance, dep, wallet, chainRow, settled, credited, chainVars,
                     watch, batchVars, boundVars>>
  BY DEF Actor, LocalsSound, LocalSound, BridgeCreate, Working
<1>1. CASE bridge[cur[r]].status = "ABSENT"
  <2>1. /\ bridge' = [bridge EXCEPT ![cur[r]].status = "NEW"]
        /\ seen' = [seen EXCEPT ![r].status = "NEW"]
        /\ pc' = [pc EXCEPT ![r] = "send"] /\ UNCHANGED <<cur, tx, sawTx, sawRow, late>>
    BY <1>1 DEF BridgeCreate
  <2>2. /\ bridge' \in [Op -> Row] /\ seen' \in [Actor -> Row]
        /\ \A o \in Op : Done(bridge'[o]) => Done(bridge[o])
        /\ pc'[r] = "send" /\ seen'[r].done = seen[r].done
    <3>1. "NEW" \in Status
      BY DEF Status
    <3>2. seen[r] \in Row /\ seen' = [seen EXCEPT ![r] = [seen[r] EXCEPT !.status = "NEW"]]
      BY <1>0, <2>1 DEF TypeOK
    <3>3. seen'[r].done = seen[r].done /\ seen' \in [Actor -> Row]
      BY <1>0, <3>1, <3>2 DEF TypeOK, Row
    <3> QED
      BY <1>0, <2>1, <3>1, <3>3, StatusSet DEF TypeOK
  <2>3. TypeOK'
    BY <1>0, <2>1, <2>2 DEF TypeOK, Pc, Working, chainVars, batchVars, boundVars
  <2>4. LocalSound(r)'
    BY <1>0, <2>1, <2>2, ActorsAssumption DEF LocalSound, Accounted, InHistory, Working
  <2>5. \A b \in Actor \ {r} : SameLocals(b)
    BY <2>1 DEF SameLocals, TypeOK
  <2> QED
    BY <1>0, <2>2, <2>3, <2>4, <2>5, OperationKeeps DEF batchVars
<1>2. CASE bridge[cur[r]].status # "ABSENT"
  BY <1>0, <1>2, RestKeeps
     DEF BridgeCreate, TypeOK, batchVars, boundVars, rowVars
<1> QED
  BY <1>1, <1>2

\* The payload a request writes back is as done as the row it read.
LEMMA BridgeMarks ==
  ASSUME Inv, NEW r \in Req, BridgeMark(r)
  PROVE  Inv'
<1> USE DEF Inv
<1>0. /\ r \in Actor /\ LocalSound(r) /\ cur[r] \in Op /\ tx[r] \in Hash
      /\ pc[r] = "mark"
      /\ UNCHANGED <<balance, dep, wallet, chainRow, settled, credited, chainVars,
                     watch, batchVars, boundVars>>
  BY DEF Actor, LocalsSound, LocalSound, BridgeMark, Working
<1>1. CASE Holders(tx[r]) \subseteq {cur[r]}
  <2>1. bridge' = [bridge EXCEPT ![cur[r]] = MarkedRow(r)] /\ Goto(r, "read")
    BY <1>1 DEF BridgeMark
  <2>2. bridge' \in [Op -> Row]
    BY <1>0, <2>1 DEF MarkedRow, TypeOK, Row, Status
  <2>3. \A o \in Op : Done(bridge'[o]) => Done(bridge[o]) \/ Accounted(o)
    BY <1>0, <2>1 DEF MarkedRow, Done, LocalSound, TypeOK
  <2>4. "read" \in Working
    BY DEF Working
  <2>5. TypeOK'
    BY <1>0, <2>1, <2>2, <2>4, GotoMoves DEF TypeOK, chainVars, batchVars, boundVars
  <2>6. LocalSound(r)'
    BY <1>0, <2>1, <2>4, GotoMoves, ActorsAssumption
       DEF LocalSound, Accounted, InHistory, Working
  <2> QED
    BY <1>0, <2>1, <2>3, <2>4, <2>5, <2>6, GotoMoves, OperationKeeps DEF batchVars
<1>2. CASE ~(Holders(tx[r]) \subseteq {cur[r]})
  <2>1. Goto(r, "markFailed") /\ UNCHANGED bridge /\ r \notin Call \cup Rec
    BY <1>2, ActorsAssumption DEF BridgeMark
  <2> QED
    BY <1>0, <2>1, GotoKeeps DEF Working, rowVars, boundVars, TypeOK
<1> QED
  BY <1>1, <1>2

\* FAILED makes nothing done.
LEMMA FailsKeep ==
  ASSUME Inv, NEW o \in Op, bridge' = [bridge EXCEPT ![o].status = "FAILED"]
  PROVE  /\ bridge' \in [Op -> Row]
         /\ \A p \in Op : Done(bridge'[p]) => Done(bridge[p])
BY StatusSet DEF Inv, Status

LEMMA BridgeFails ==
  ASSUME Inv, NEW r \in Req, BridgeMarkFailed(r)
  PROVE  Inv'
<1> USE DEF Inv
<1>0. /\ r \in Actor /\ cur[r] \in Op /\ Rest(r, "threw")
      /\ UNCHANGED <<balance, dep, wallet, chainRow, settled, credited, chainVars,
                     watch, batchVars, boundVars>>
  BY DEF Actor, LocalsSound, LocalSound, BridgeMarkFailed, Working
<1>1. /\ bridge' \in [Op -> Row]
      /\ \A p \in Op : Done(bridge'[p]) => Done(bridge[p])
  BY <1>0, FailsKeep DEF BridgeMarkFailed
<1>2. TypeOK'
  BY <1>0, <1>1, RestIsSound DEF TypeOK, chainVars, batchVars, boundVars
<1> QED
  BY <1>0, <1>1, <1>2, RestIsSound, OperationKeeps DEF batchVars

LEMMA VisitsKeep ==
  ASSUME Inv, NEW c \in Rec, NEW o \in Op, NEW done \in BOOLEAN,
         ReconcileBridge(c, o, done) \/ ReconcileTouchFails(c, o, done)
  PROVE  Inv'
<1> USE DEF Inv
<1>0. /\ UNCHANGED <<balance, dep, wallet, chainRow, settled, credited, chainVars,
                     watch, procVars, deposits, crashes>>
      /\ <<o, done>> \in bridges[c] /\ faults' \in 0 .. MaxFaults
      /\ bridges' = [bridges EXCEPT ![c] = @ \ {<<o, done>>}]
  BY BoundsAssumption DEF ReconcileBridge, ReconcileTouchFails, TypeOK, boundVars
<1>1. /\ bridges' \in [Rec -> SUBSET (Op \X BOOLEAN)]
      /\ \A d \in Rec : bridges'[d] \subseteq bridges[d]
  BY <1>0 DEF TypeOK
<1>2. /\ bridge' \in [Op -> Row]
      /\ \A p \in Op : Done(bridge'[p]) => Done(bridge[p]) \/ Accounted(p)
  <2>1. CASE bridge' = bridge
    BY <2>1 DEF TypeOK
  <2>2. CASE ReconcileBridge(c, o, done) /\ done = TRUE
    <3>1. Accounted(o)
      BY <1>0, <2>2 DEF ReadsSound
    <3> QED
      BY <2>2, <3>1, StatusSet DEF ReconcileBridge, Promoted, Status
  <2>3. CASE ReconcileTouchFails(c, o, done)
    BY <2>3, FailsKeep DEF ReconcileTouchFails
  <2> QED
    BY <2>1, <2>2, <2>3 DEF ReconcileBridge, Promoted
<1>3. TypeOK'
  BY <1>0, <1>1, <1>2 DEF TypeOK, chainVars, procVars
<1>4. \A a \in Actor : SameLocals(a)
  BY <1>0 DEF SameLocals, procVars
<1> QED
  BY <1>0, <1>1, <1>2, <1>3, <1>4, OperationKeeps

LEMMA WatcherKeeps ==
  ASSUME Inv, NEW o \in Op, NEW h \in Hash, WatcherConfirms(o, h)
  PROVE  Inv'
<1> USE DEF Inv
<1>1. Accounted(o)
  BY DEF WatcherConfirms, WatchSound, Accounted
<1>2. /\ bridge' \in [Op -> Row]
      /\ \A p \in Op : Done(bridge'[p]) => Done(bridge[p]) \/ Accounted(p)
  <2>1. bridge' \in [Op -> Row]
    BY DEF WatcherConfirms, TypeOK, Row, Status
  <2>2. \A p \in Op \ {o} : bridge'[p] = bridge[p]
    BY DEF WatcherConfirms, TypeOK
  <2> QED
    BY <1>1, <2>1, <2>2
<1>3. TypeOK'
  BY <1>2 DEF WatcherConfirms, TypeOK, chainVars, procVars, batchVars, boundVars
<1>4. \A a \in Actor : SameLocals(a)
  BY DEF WatcherConfirms, SameLocals, procVars
<1> QED
  BY <1>2, <1>3, <1>4, OperationKeeps DEF WatcherConfirms, batchVars

LEMMA WebhookWrites ==
  ASSUME Inv, NEW w \in Call, WebhookCreate(w) \/ WebhookMark(w)
  PROVE  Inv'
<1> USE DEF Inv
<1>0. /\ w \in Actor /\ LocalSound(w) /\ tx[w] \in Hash /\ ~seen[w].done
      /\ w \notin Req /\ w \notin Wal
      /\ UNCHANGED <<balance, wallet, chainRow, settled, credited, chainVars,
                     watch, batchVars, boundVars>>
  BY ActorsAssumption DEF Actor, LocalsSound, LocalSound, WebhookCreate,
     WebhookMark, Working
<1>1. CASE Rest(w, "threw") /\ UNCHANGED <<bridge, dep>>
  BY <1>0, <1>1, RestKeeps DEF TypeOK, batchVars, boundVars, rowVars
<1>2. ASSUME NEW new \in {"BROADCASTED", "NEW"},
             dep' = [dep EXCEPT ![tx[w]].status = new], UNCHANGED bridge,
             pc' = [pc EXCEPT ![w] = IF new = "NEW" THEN "mark" ELSE "finTx"],
             cur' = [cur EXCEPT ![w] = Deposit],
             UNCHANGED <<tx, seen, sawTx, sawRow, late>>
      PROVE  Inv'
  <2>1. dep' \in [Hash -> [status : Status, done : BOOLEAN]]
    BY <1>0, <1>2 DEF TypeOK, Status
  <2>2. TypeOK'
    BY <1>0, <1>2, <2>1 DEF TypeOK, Owner, Pc, Working, chainVars, batchVars, boundVars
  <2>3. pc'[w] \in {"mark", "finTx"} /\ cur'[w] = Deposit
    BY <1>0, <1>2 DEF TypeOK
  <2>4. LocalSound(w)'
    BY <1>0, <1>2, <2>3, NamesAssumption DEF LocalSound, Working
  <2>5. \A b \in Actor \ {w} : SameLocals(b)
    BY <1>2 DEF SameLocals, TypeOK
  <2> QED
    BY <1>0, <1>2, <2>2, <2>4, <2>5, OperationKeeps DEF batchVars
<1>3. CASE Rest(w, "answered") /\ WebhookMark(w)
  <2>1. /\ bridge' \in [Op -> Row]
        /\ dep' \in [Hash -> [status : Status, done : BOOLEAN]]
    <3>1. CASE cur[w] = Deposit /\ UNCHANGED bridge
               /\ dep' = [dep EXCEPT ![tx[w]] =
                            [status |-> "BROADCASTED", done |-> FALSE]]
      BY <3>1 DEF TypeOK, Status
    <3>2. CASE UNCHANGED dep /\ bridge' = [bridge EXCEPT ![cur[w]] = MarkedRow(w)]
      BY <1>0, <3>2 DEF MarkedRow, TypeOK, Row, Status
    <3>3. CASE UNCHANGED <<bridge, dep>>
      BY <3>3 DEF TypeOK
    <3> QED
      BY <1>3, <3>1, <3>2, <3>3 DEF WebhookMark
  <2>2. \A o \in Op : Done(bridge'[o]) => Done(bridge[o])
    <3>1. \A o \in Op : bridge'[o] = bridge[o] \/ bridge'[o] = MarkedRow(w)
      BY <1>3 DEF WebhookMark, TypeOK
    <3>2. MarkedRow(w).status = "BROADCASTED" /\ ~MarkedRow(w).done
      BY <1>0 DEF MarkedRow
    <3> QED
      BY <3>1, <3>2 DEF Done
  <2>3. TypeOK'
    BY <1>0, <1>3, <2>1, RestIsSound DEF TypeOK, chainVars, batchVars, boundVars
  <2> QED
    BY <1>0, <1>3, <2>2, <2>3, RestIsSound, OperationKeeps DEF batchVars
<1>4. CASE WebhookCreate(w)
  BY <1>1, <1>2, <1>4 DEF WebhookCreate
<1> QED
  BY <1>1, <1>3, <1>4 DEF WebhookMark

LEMMA DepositFails ==
  ASSUME Inv, NEW c \in Rec, ReconcileMarkFailed(c)
  PROVE  Inv'
<1> USE DEF Inv
<1>0. /\ c \in Actor /\ Rest(c, "answered")
      /\ UNCHANGED <<balance, bridge, wallet, chainRow, settled, credited,
                     chainVars, watch, batchVars, boundVars>>
  BY DEF Actor, ReconcileMarkFailed
<1>1. dep' \in [Hash -> [status : Status, done : BOOLEAN]]
  BY ZenonT(40) DEF ReconcileMarkFailed, TypeOK, Status
<1>2. TypeOK'
  BY <1>0, <1>1, RestIsSound DEF TypeOK, chainVars, batchVars, boundVars
<1> QED
  BY <1>0, <1>2, RestIsSound, OperationKeeps DEF batchVars

-----------------------------------------------------------------------------
(* Writers of chain rows and history                                        *)

\* Giving a transaction its row: it had none, or this one.
LEMMA RowGiven ==
  ASSUME Inv, NEW a \in Actor, NEW k \in Owner,
         k = cur[a], tx[a] \in Hash, pc[a] \in {"commit", "finCommit"},
         ~RowCollides(a), chainRow' = [chainRow EXCEPT ![tx[a]] = k]
  PROVE  /\ chainRow' \in [Hash -> Owner \cup {None}]
         /\ chainRow[tx[a]] \in {None, k} /\ chainRow'[tx[a]] = k
         /\ \A h \in Hash \ {tx[a]} : chainRow'[h] = chainRow[h]
<1>1. sawRow[a] => chainRow[tx[a]] = k
  BY DEF Inv, LocalsSound, LocalSound
<1> QED
  BY <1>1 DEF Inv, TypeOK, RowCollides

\* A bridge or a wallet transfer debits and credits under its own row.
LEMMA Settles ==
  ASSUME Inv, NEW a \in Actor, NEW k \in Op \cup {Wallet},
         k = cur[a], tx[a] \in Hash, pc[a] = "commit", ~RowCollides(a),
         chainRow' = [chainRow EXCEPT ![tx[a]] = k],
         settled' = [settled EXCEPT ![tx[a]] = @ + 1], UNCHANGED credited
  PROVE  /\ chainRow' \in [Hash -> Owner \cup {None}]
         /\ settled' \in [Hash -> Nat]
         /\ RowsKept /\ RowsTell'
         /\ chainRow'[tx[a]] = k /\ \A h \in Hash : h = tx[a] => InHistory(h)'
         /\ k \in Op => Accounted(k)'
<1>0. k \in Owner /\ k # None /\ k # Deposit
  BY NamesAssumption DEF Owner
<1>1. /\ chainRow' \in [Hash -> Owner \cup {None}]
      /\ chainRow[tx[a]] \in {None, k} /\ chainRow'[tx[a]] = k
      /\ \A h \in Hash \ {tx[a]} : chainRow'[h] = chainRow[h]
  BY <1>0, RowGiven
<1>2. /\ settled' \in [Hash -> Nat] /\ settled'[tx[a]] = settled[tx[a]] + 1
      /\ \A h \in Hash \ {tx[a]} : settled'[h] = settled[h]
  BY DEF Inv, TypeOK
<1>3. \A h \in Hash : settled[h] \in Nat /\ credited[h] \in Nat
  BY DEF Inv, TypeOK
<1>4. RowsKept
  BY <1>0, <1>1, <1>2, <1>3 DEF RowsKept
<1>5. RowsTell'
  <2>1. RowTells(tx[a])
    BY DEF Inv, RowsTell
  <2>2. k = Wallet => credited[tx[a]] = 0
    BY <1>1, <2>1 DEF RowTells
  <2>3. \A h \in Hash : h = tx[a] => RowTells(h)'
    BY <1>0, <1>1, <2>2 DEF RowTells
  <2>4. \A h \in Hash \ {tx[a]} : RowTells(h)'
    BY <1>1, <1>2 DEF RowTells, Inv, RowsTell
  <2> QED
    BY <2>3, <2>4 DEF RowsTell
<1>6. settled'[tx[a]] + credited'[tx[a]] > 0
  BY <1>2, <1>3
<1>7. \A h \in Hash : h = tx[a] => InHistory(h)'
  BY <1>6 DEF InHistory
<1>8. k \in Op => Accounted(k)'
  BY <1>1, <1>6 DEF Accounted, InHistory
<1> QED
  BY <1>1, <1>2, <1>4, <1>5, <1>8, <1>7

LEMMA BridgeSettles ==
  ASSUME Inv, NEW r \in Req, BridgeSettle(r)
  PROVE  Inv'
<1> USE DEF Inv
<1>0. /\ r \in Actor /\ LocalSound(r) /\ cur[r] \in Op /\ tx[r] \in Hash
      /\ pc[r] = "commit" /\ r \notin Call \cup Rec
      /\ UNCHANGED <<dep, wallet, credited, chainVars, batchVars, boundVars>>
  BY ActorsAssumption DEF Actor, LocalsSound, LocalSound, BridgeSettle, Working
<1>1. CASE Collides(r)
  BY <1>0, <1>1, GotoKeeps
     DEF BridgeSettle, Working, rowVars, batchVars, boundVars, TypeOK
<1>2. CASE ~Collides(r)
  <2>1. /\ balance' = [balance EXCEPT ![SenderOf(cur[r])] = @ - TotalDebit]
        /\ settled' = [settled EXCEPT ![tx[r]] = @ + 1]
        /\ chainRow' = [chainRow EXCEPT ![tx[r]] = cur[r]]
        /\ bridge' = [bridge EXCEPT ![cur[r]] = SettledRow(r)]
        /\ watch' = watch \cup {<<cur[r], tx[r]>>}
        /\ Rest(r, "answered")
    BY <1>2 DEF BridgeSettle
  <2>2. /\ chainRow' \in [Hash -> Owner \cup {None}] /\ settled' \in [Hash -> Nat]
        /\ RowsKept /\ RowsTell'
        /\ chainRow'[tx[r]] = cur[r]
        /\ \A h \in Hash : h = tx[r] => InHistory(h)'
        /\ \A o \in Op : o = cur[r] => Accounted(o)'
    BY <1>0, <1>2, <2>1, Settles DEF Collides
  <2>3. balance' \in [{"bank", "browser"} -> Int]
    BY <2>1, AmountsAssumption DEF TypeOK, SenderOf, TotalDebit
  <2>4. bridge' \in [Op -> Row]
    BY <1>0, <2>1 DEF TypeOK, SettledRow, Row, Status
  <2>5. watch' \subseteq Op \X Hash
    BY <1>0, <2>1 DEF TypeOK
  <2>6. TypeOK'
    BY <1>0, <2>1, <2>2, <2>3, <2>4, <2>5, RestIsSound
       DEF TypeOK, chainVars, batchVars, boundVars
  <2>7. \A o \in Op : Done(bridge'[o]) => Done(bridge[o]) \/ Accounted(o)'
    <3>1. \A o \in Op \ {cur[r]} : bridge'[o] = bridge[o]
      BY <2>1 DEF TypeOK
    <3> QED
      BY <2>2, <3>1
  <2>8. \A o \in Op, h \in Hash : <<o, h>> \in watch' =>
          <<o, h>> \in watch \/ (chainRow'[h] = o /\ InHistory(h)')
    BY <2>1, <2>2
  <2> QED
    BY <1>0, <2>1, <2>2, <2>6, <2>7, <2>8, RestIsSound, StepKeeps, ZenonT(40) DEF batchVars
<1> QED
  BY <1>1, <1>2

LEMMA WalletRecords ==
  ASSUME Inv, NEW x \in Wal, WalletRecord(x)
  PROVE  Inv'
<1> USE DEF Inv
<1>0. /\ x \in Actor /\ LocalSound(x) /\ cur[x] = Wallet /\ tx[x] \in Hash
      /\ pc[x] = "commit"
      /\ UNCHANGED <<bridge, dep, credited, chainVars, watch, batchVars, boundVars>>
  BY DEF Actor, LocalsSound, LocalSound, WalletRecord, Working
<1>1. PICK end \in {"answered", "threw"} : Rest(x, end)
  BY DEF WalletRecord
<1>2. CASE Collides(x)
  BY <1>0, <1>1, <1>2, RestKeeps
     DEF WalletRecord, rowVars, batchVars, boundVars, TypeOK
<1>3. CASE ~Collides(x)
  <2>1. /\ balance' = [balance EXCEPT !["browser"] = @ - Gross]
        /\ wallet' = wallet \cup {tx[x]}
        /\ chainRow' = [chainRow EXCEPT ![tx[x]] = cur[x]]
        /\ settled' = [settled EXCEPT ![tx[x]] = @ + 1]
    BY <1>0, <1>3 DEF WalletRecord
  <2>2. /\ chainRow' \in [Hash -> Owner \cup {None}] /\ settled' \in [Hash -> Nat]
        /\ RowsKept /\ RowsTell'
    BY <1>0, <1>3, <2>1, Settles DEF Collides
  <2>3. balance' \in [{"bank", "browser"} -> Int] /\ wallet' \subseteq Hash
    BY <1>0, <2>1, AmountsAssumption DEF TypeOK
  <2>4. TypeOK'
    BY <1>0, <1>1, <2>2, <2>3, RestIsSound DEF TypeOK, chainVars, batchVars, boundVars
  <2> QED
    BY <1>0, <1>1, <2>2, <2>4, RestIsSound, StepKeeps DEF batchVars
<1> QED
  BY <1>2, <1>3

\* A finalizer counts a deposit unless it saw it counted; either way it is.
LEMMA Finalizes ==
  ASSUME Inv, NEW a \in Call \cup Rec, FinalizeCommit(a)
  PROVE  Inv'
<1> USE DEF Inv
<1>0. /\ a \in Actor /\ LocalSound(a) /\ tx[a] \in Hash /\ pc[a] = "finCommit"
      /\ cur[a] \in Op \cup {Deposit} /\ ~RowCollides(a)
      /\ chainRow' = [chainRow EXCEPT ![tx[a]] = cur[a]]
      /\ credited' = [credited EXCEPT ![tx[a]] = Credited(a)]
      /\ UNCHANGED <<balance, wallet, settled, chainVars, watch, batchVars, boundVars>>
  BY DEF Actor, LocalsSound, LocalSound, FinalizeCommit, Working
<1>1. cur[a] \in Owner /\ cur[a] # None /\ cur[a] # Wallet
  BY <1>0, NamesAssumption DEF Owner
<1>2. /\ chainRow' \in [Hash -> Owner \cup {None}]
      /\ chainRow[tx[a]] \in {None, cur[a]} /\ chainRow'[tx[a]] = cur[a]
      /\ \A h \in Hash \ {tx[a]} : chainRow'[h] = chainRow[h]
  BY <1>0, <1>1, RowGiven
<1>3. \A h \in Hash : settled[h] \in Nat /\ credited[h] \in Nat
  BY DEF TypeOK
<1>4. /\ Credited(a) \in Nat /\ Credited(a) >= credited[tx[a]]
      /\ settled[tx[a]] + Credited(a) > 0
  BY <1>0, <1>3 DEF Credited, LocalSound, InHistory
<1>5. /\ credited' \in [Hash -> Nat] /\ credited'[tx[a]] = Credited(a)
      /\ \A h \in Hash \ {tx[a]} : credited'[h] = credited[h]
  BY <1>0, <1>4 DEF TypeOK
<1>6. RowsKept
  BY <1>0, <1>1, <1>2, <1>3, <1>4, <1>5 DEF RowsKept
<1>7. RowsTell'
  <2>1. RowTells(tx[a])
    BY <1>0 DEF RowsTell
  <2>2. cur[a] = Deposit => settled[tx[a]] = 0
    BY <1>2, <2>1 DEF RowTells
  <2>3. \A h \in Hash : h = tx[a] => RowTells(h)'
    BY <1>0, <1>1, <1>2, <2>2 DEF RowTells
  <2>4. \A h \in Hash \ {tx[a]} : RowTells(h)'
    BY <1>0, <1>2, <1>5 DEF RowTells, RowsTell
  <2> QED
    BY <2>3, <2>4 DEF RowsTell
<1>8. \A o \in Op : o = cur[a] => Accounted(o)'
  BY <1>0, <1>2, <1>4, <1>5 DEF Accounted, InHistory
<1>9. /\ bridge' \in [Op -> Row]
      /\ dep' \in [Hash -> [status : Status, done : BOOLEAN]]
      /\ \A o \in Op \ {cur[a]} : bridge'[o] = bridge[o]
  <2>1. CASE cur[a] = Deposit
    <3>1. /\ UNCHANGED bridge
          /\ dep' = [dep EXCEPT ![tx[a]] = [status |-> "CONFIRMED", done |-> TRUE]]
      BY <2>1 DEF FinalizeCommit
    <3> QED
      BY <3>1 DEF TypeOK, Status
  <2>2. CASE cur[a] # Deposit
    <3>1. /\ UNCHANGED dep
          /\ bridge' = [bridge EXCEPT ![cur[a]] =
               [status |-> "CONFIRMED", hash |-> bridge[cur[a]].hash, done |-> TRUE]]
      BY <2>2 DEF FinalizeCommit
    <3>2. cur[a] \in Op /\ bridge[cur[a]].hash \in Hash \cup {None}
      BY <1>0, <2>2 DEF TypeOK, Row
    <3> QED
      BY <3>1, <3>2 DEF TypeOK, Row, Status
  <2> QED
    BY <2>1, <2>2
<1>10. \A o \in Op : Done(bridge'[o]) => Done(bridge[o]) \/ Accounted(o)'
  BY <1>8, <1>9
<1>11. CASE Rest(a, "answered")
  <2>1. TypeOK'
    BY <1>0, <1>2, <1>5, <1>9, <1>11, RestIsSound
       DEF TypeOK, chainVars, batchVars, boundVars
  <2> QED
    BY <1>0, <1>6, <1>7, <1>10, <1>11, <2>1, RestIsSound, StepKeeps DEF batchVars
<1>12. CASE Goto(a, "sweep")
  <2>0. "sweep" \in Working
    BY DEF Working
  <2>1. TypeOK'
    BY <1>0, <1>2, <1>5, <1>9, <1>12, <2>0, GotoMoves
       DEF TypeOK, chainVars, batchVars, boundVars
  <2>2. LocalSound(a)'
    BY <1>0, <1>12, <2>0, GotoMoves, ActorsAssumption DEF LocalSound, Working
  <2> QED
    BY <1>0, <1>6, <1>7, <1>10, <1>12, <2>0, <2>1, <2>2, GotoMoves, StepKeeps
       DEF batchVars
<1> QED
  BY <1>11, <1>12 DEF FinalizeCommit

-----------------------------------------------------------------------------
LEMMA NextInv == Inv /\ [Next]_vars => Inv'
<1> SUFFICES ASSUME Inv, [Next]_vars PROVE Inv'
  OBVIOUS
<1>1. ASSUME NEW r \in Req, BridgeStep(r) \/ \E o \in Op : BridgeFind(r, o)
      PROVE  Inv'
  BY <1>1, BridgeCreates, BroadcastKeeps, RequestLooks, BridgeMarks,
     RequestFindsRow, BridgeSettles, BridgeFails, BridgeFinds DEF BridgeStep
<1>2. ASSUME NEW o \in Op, NEW h \in Hash,
             WatcherConfirms(o, h) \/ WatcherGivesUp(o, h)
      PROVE  Inv'
  BY <1>2, WatcherKeeps, ChainKeeps
<1>3. ASSUME NEW x \in Wal, WalletStep(x) \/ WalletStart(x)
      PROVE  Inv'
  BY <1>3, BroadcastKeeps, RequestLooks, WalletRecords, WalletStarts DEF WalletStep
<1>4. ASSUME NEW w \in Call, WebhookStep(w) \/ \E h \in Hash : WebhookFind(w, h)
      PROVE  Inv'
  BY <1>4, ReceiverLooks, WebhookWrites, WebhookFinds DEF WebhookStep
<1>5. ASSUME NEW a \in Call \cup Rec, FinalizeStep(a)
      PROVE  Inv'
  BY <1>5, FinalizerLooks, ReceiverLooks, Finalizes DEF FinalizeStep
<1>6. ASSUME NEW c \in Rec, ReconcileStep(c)
      PROVE  Inv'
  BY <1>6, ReconcileBegins, VisitsKeep, ReconcileTakes, ReceiverLooks, DepositFails
     DEF ReconcileStep
<1>7. CASE Environment
  <2>1. ASSUME NEW a \in Actor, NEW h \in Hash, SendLost(a, h)
        PROVE  Inv'
    <3>1. a \in Req \cup Wal
      BY <2>1 DEF SendLost, Broadcast, Inv, LocalsSound, LocalSound, Actor
    <3> QED
      BY <2>1, <3>1, BroadcastKeeps
  <2> QED
    BY <1>7, <2>1, FaultKeeps, VisitsKeep, ChainKeeps, CrashKeeps DEF Environment
<1>8. CASE UNCHANGED vars
  <2>1. TypeOK'
    BY <1>8 DEF vars, rowVars, chainVars, procVars, batchVars, boundVars, Inv, TypeOK
  <2>2. \A a \in Actor : SameLocals(a)
    BY <1>8 DEF vars, procVars, SameLocals
  <2> QED
    BY <1>8, <2>1, <2>2, LooksKeep DEF vars, batchVars
<1> QED
  BY <1>1, <1>2, <1>3, <1>4, <1>5, <1>6, <1>7, <1>8 DEF Next

-----------------------------------------------------------------------------
(* Whoever begins after the transfer was recorded                           *)

\* Only deliveries and reconcile runs are late; what they came late for stays
\* in the history, so their lookup sees it.
LateSound(a) ==
  late[a] => /\ a \in Call \cup Rec
             /\ tx[a] \in Hash /\ InHistory(tx[a])
             /\ pc[a] \in {"finRow", "finCommit"} => sawTx[a]
LatesSound == \A a \in Actor : LateSound(a)

HistoryKept ==
  \A h \in Hash : settled'[h] >= settled[h] /\ credited'[h] >= credited[h]

\* A step of an actor that keeps it late takes the hash and the lookup along.
KeepsLate(a) ==
  /\ late'[a] = late[a] /\ tx'[a] = tx[a]
  /\ pc'[a] \in {"finRow", "finCommit"} =>
       pc[a] \in {"finRow", "finCommit"} /\ sawTx'[a] = sawTx[a]

LEMMA LateStays ==
  ASSUME TypeOK, TypeOK', LatesSound, HistoryKept,
         \A a \in Actor : KeepsLate(a) \/ ~late'[a] \/ LateSound(a)'
  PROVE  LatesSound'
<1>1. \A h \in Hash : InHistory(h) => InHistory(h)'
  BY DEF HistoryKept, InHistory, TypeOK
<1>2. ASSUME NEW a \in Actor, KeepsLate(a) PROVE LateSound(a)'
  <2>1. SUFFICES ASSUME late'[a] PROVE LateSound(a)'
    BY DEF LateSound
  <2>2. /\ LateSound(a) /\ late[a] /\ tx'[a] = tx[a]
    BY <1>2, <2>1 DEF KeepsLate, LatesSound
  <2>3. \E h \in Hash : h = tx'[a] /\ InHistory(h)'
    BY <1>1, <2>2 DEF LateSound
  <2> QED
    BY <1>2, <2>2, <2>3 DEF LateSound, KeepsLate, InHistory
<1> QED
  BY <1>2 DEF LatesSound, LateSound

LEMMA RestForgets ==
  ASSUME TypeOK, NEW a \in Actor, NEW end \in {"answered", "threw"}, Rest(a, end)
  PROVE  \A b \in Actor : KeepsLate(b) \/ ~late'[b]
BY DEF Rest, TypeOK, KeepsLate

LEMMA GotoKeepsLate ==
  ASSUME TypeOK, NEW a \in Actor, NEW l \in Working \ {"finRow", "finCommit"},
         Goto(a, l)
  PROVE  \A b \in Actor : KeepsLate(b)
BY DEF Goto, TypeOK, KeepsLate

\* Requests are never late, and neither lookup nor commit is theirs.
LEMMA RequestsKeepLate ==
  ASSUME Inv, LatesSound, NEW a \in Req \cup Wal,
         \/ a \in Req /\ (BridgeStep(a) \/ \E o \in Op : BridgeFind(a, o))
         \/ a \in Wal /\ (WalletStep(a) \/ WalletStart(a))
         \/ \E h \in Hash : SendLost(a, h)
  PROVE  \A b \in Actor : KeepsLate(b) \/ ~late'[b]
<1>0. TypeOK /\ a \in Actor /\ ~late[a]
  BY ActorsAssumption DEF Inv, LatesSound, LateSound, Actor
<1>1. CASE \E end \in {"answered", "threw"} : Rest(a, end)
  BY <1>0, <1>1, RestForgets
<1>2. CASE \E l \in {"markFailed", "read", "findRow", "commit"} : Goto(a, l)
  <2>1. PICK l \in Working \ {"finRow", "finCommit"} : Goto(a, l)
    BY <1>2 DEF Working
  <2> QED
    BY <1>0, <2>1, GotoKeepsLate
<1>3. CASE /\ UNCHANGED late
           /\ \A b \in Actor \ {a} : pc'[b] = pc[b] /\ tx'[b] = tx[b]
           /\ UNCHANGED sawTx
  BY <1>0, <1>3 DEF KeepsLate
<1>4. CASE a \in Req /\ (BridgeStep(a) \/ \E o \in Op : BridgeFind(a, o))
  <2>1. CASE \/ BridgeCreate(a) \/ (\E h \in Hash : Send(a, h))
             \/ BridgeFindRow(a) \/ \E o \in Op : BridgeFind(a, o)
    BY <1>0, <1>1, <1>3, <2>1
       DEF BridgeCreate, Send, BridgeFindRow, BridgeFind, TypeOK
  <2>2. CASE SendRejected(a) \/ BridgeMark(a) \/ BridgeRead(a) \/ BridgeSettle(a)
             \/ BridgeMarkFailed(a)
    BY <1>1, <1>2, <2>2
       DEF SendRejected, SendFails, BridgeMark, BridgeRead, BridgeSettle,
           BridgeMarkFailed
  <2> QED
    BY <1>4, <2>1, <2>2 DEF BridgeStep
<1>5. CASE a \in Wal /\ (WalletStep(a) \/ WalletStart(a))
  <2>1. CASE (\E h \in Hash : Send(a, h)) \/ WalletStart(a)
    BY <1>0, <1>3, <2>1 DEF Send, WalletStart, TypeOK
  <2>2. CASE SendRejected(a) \/ WalletRead(a) \/ WalletRecord(a)
    BY <1>1, <1>2, <2>2
       DEF SendRejected, SendFails, WalletRead, WalletRecord
  <2> QED
    BY <1>5, <2>1, <2>2 DEF WalletStep
<1>6. CASE \E h \in Hash : SendLost(a, h)
  BY <1>1, <1>2, <1>6 DEF SendLost, SendFails
<1> QED
  BY <1>4, <1>5, <1>6

\* A delivery or a run that takes a transaction is late for what is recorded.
LEMMA BeginnersKnow ==
  ASSUME Inv, NEW a \in Call \cup Rec, NEW h \in Hash,
         (a \in Call /\ WebhookFind(a, h)) \/ (a \in Rec /\ ReconcileDeposit(a, h))
  PROVE  \A b \in Actor : KeepsLate(b) \/ ~late'[b] \/ LateSound(b)'
<1>0. a \in Actor /\ TypeOK
  BY DEF Actor, Inv
<1>1. CASE Rest(a, "answered")
  BY <1>0, <1>1, RestForgets
<1>2. CASE /\ pc' = [pc EXCEPT ![a] = "check"] /\ tx' = [tx EXCEPT ![a] = h]
           /\ late' = [late EXCEPT ![a] = InHistory(h)]
           /\ UNCHANGED <<sawTx, settled, credited>>
  <2>1. \A b \in Actor \ {a} : KeepsLate(b)
    BY <1>0, <1>2 DEF KeepsLate, TypeOK
  <2>2. pc'[a] = "check" /\ tx'[a] = h /\ late'[a] = InHistory(h)
    BY <1>0, <1>2 DEF TypeOK
  <2>3. LateSound(a)'
    BY <1>2, <2>2 DEF LateSound, InHistory
  <2> QED
    BY <2>1, <2>3
<1>3. UNCHANGED <<settled, credited>>
  BY DEF WebhookFind, ReconcileDeposit, rowVars
<1> QED
  BY <1>1, <1>2, <1>3 DEF WebhookFind, ReconcileDeposit

\* The finalizer of a late actor sees the history row.
LEMMA LookupsSee ==
  ASSUME Inv, LatesSound, NEW a \in Call \cup Rec,
         FinalizeFindTx(a) \/ FinalizeFindRow(a)
  PROVE  \A b \in Actor : KeepsLate(b) \/ ~late'[b] \/ LateSound(b)'
<1>0. a \in Actor /\ TypeOK
  BY DEF Actor, Inv
<1>1. \A b \in Actor \ {a} : KeepsLate(b)
  BY <1>0 DEF FinalizeFindTx, FinalizeFindRow, KeepsLate, TypeOK
<1>2. CASE FinalizeFindTx(a)
  <2>1. /\ sawTx'[a] = InHistory(tx[a]) /\ tx'[a] = tx[a] /\ late'[a] = late[a]
        /\ UNCHANGED <<settled, credited>>
    BY <1>0, <1>2 DEF FinalizeFindTx, TypeOK, rowVars
  <2>2. LateSound(a)'
    BY <1>0, <2>1 DEF LateSound, LatesSound, InHistory
  <2> QED
    BY <1>1, <2>2
<1>3. CASE FinalizeFindRow(a)
  <2>1. KeepsLate(a)
    BY <1>0, <1>3 DEF FinalizeFindRow, KeepsLate, TypeOK
  <2> QED
    BY <1>1, <2>1
<1> QED
  BY <1>2, <1>3

LEMMA ReceiversKeepLate ==
  ASSUME Inv, NEW a \in Call \cup Rec,
         \/ SeesTx(a) \/ SeesNothing(a) \/ FinalizeThrows(a) \/ FinalizeCommit(a)
         \/ a \in Call /\ (WebhookCreate(a) \/ WebhookMark(a))
         \/ a \in Rec /\ (ReconcileSwept(a) \/ ReconcileMarkFailed(a))
  PROVE  \A b \in Actor : KeepsLate(b) \/ ~late'[b]
<1>0. a \in Actor /\ TypeOK
  BY DEF Actor, Inv
<1>1. CASE \E end \in {"answered", "threw"} : Rest(a, end)
  BY <1>0, <1>1, RestForgets
<1>2. CASE \E l \in {"createConfirmed", "createPending", "finTx", "mark",
                     "markFailed", "sweep"} : Goto(a, l)
  <2>1. PICK l \in Working \ {"finRow", "finCommit"} : Goto(a, l)
    BY <1>2 DEF Working
  <2> QED
    BY <1>0, <2>1, GotoKeepsLate
<1>3. CASE WebhookCreate(a) /\ ~Rest(a, "threw")
  BY <1>0, <1>3 DEF WebhookCreate, KeepsLate, TypeOK
<1> QED
  BY <1>1, <1>2, <1>3
     DEF SeesTx, SeesNothing, FinalizeThrows, FinalizeCommit, WebhookCreate,
         WebhookMark, ReconcileSwept, ReconcileMarkFailed

LEMMA EnvironmentKeepsLate ==
  ASSUME Inv,
         \/ \E a \in Actor : Fault(a)
         \/ \E c \in Rec, o \in Op, done \in BOOLEAN :
              ReconcileTouchFails(c, o, done) \/ ReconcileBridge(c, o, done)
         \/ \E c \in Rec : ReconcileStart(c)
         \/ \E o \in Op, h \in Hash : WatcherConfirms(o, h) \/ WatcherGivesUp(o, h)
         \/ \E h \in Hash : ChainSettles(h)
         \/ Crash \/ UNCHANGED vars
  PROVE  \A b \in Actor : KeepsLate(b) \/ ~late'[b]
<1>1. CASE \E a \in Actor : Fault(a)
  <2>1. PICK a \in Actor : Fault(a)
    BY <1>1
  <2>2. "markFailed" \in Working \ {"finRow", "finCommit"}
    BY DEF Working
  <2>3. Goto(a, "markFailed") \/ Rest(a, "threw")
    BY <2>1 DEF Fault
  <2> QED
    BY <2>2, <2>3, GotoKeepsLate, RestForgets DEF Inv
<1>2. CASE UNCHANGED procVars
  BY <1>2 DEF procVars, KeepsLate
<1>3. CASE Crash
  BY <1>3 DEF Crash
<1> QED
  BY <1>1, <1>2, <1>3
     DEF ReconcileTouchFails, ReconcileBridge, ReconcileStart, WatcherConfirms,
         WatcherGivesUp, ChainSettles, vars

\* Only transfers and finalizers write history, and they add to it.
LEMMA OnlyFinalizersCredit ==
  ASSUME Inv, [Next]_vars
  PROVE  /\ HistoryKept
         /\ \/ UNCHANGED credited
            \/ \E a \in Call \cup Rec : FinalizeCommit(a)
<1>0. \A h \in Hash : settled[h] \in Nat /\ credited[h] \in Nat
  BY DEF Inv, TypeOK
<1>1. CASE UNCHANGED <<settled, credited>>
  BY <1>0, <1>1 DEF HistoryKept
<1>2. ASSUME NEW a \in Req \cup Wal, BridgeSettle(a) \/ WalletRecord(a)
      PROVE  HistoryKept /\ UNCHANGED credited
  <2>1. UNCHANGED settled \/ settled' = [settled EXCEPT ![tx[a]] = @ + 1]
    BY <1>2 DEF BridgeSettle, WalletRecord
  <2>2. UNCHANGED credited
    BY <1>2 DEF BridgeSettle, WalletRecord
  <2> QED
    BY <1>0, <2>1, <2>2 DEF HistoryKept, Inv, TypeOK
<1>3. ASSUME NEW a \in Call \cup Rec, FinalizeCommit(a)
      PROVE  HistoryKept
  <2>1. settled' = settled /\ credited' = [credited EXCEPT ![tx[a]] = Credited(a)]
    BY <1>3 DEF FinalizeCommit
  <2> QED
    BY <1>0, <2>1 DEF HistoryKept, Credited, Inv, TypeOK
<1>4. ASSUME NEW r \in Req, BridgeStep(r) \/ \E o \in Op : BridgeFind(r, o)
      PROVE  BridgeSettle(r) \/ UNCHANGED <<settled, credited>>
  BY <1>4 DEF BridgeStep, BridgeFind, BridgeCreate, Send, Broadcast, SendRejected,
     BridgeMark, BridgeRead, BridgeFindRow, BridgeMarkFailed, rowVars
<1>5. ASSUME NEW x \in Wal, WalletStep(x) \/ WalletStart(x)
      PROVE  WalletRecord(x) \/ UNCHANGED <<settled, credited>>
  BY <1>5 DEF WalletStep, WalletStart, Send, Broadcast, SendRejected, WalletRead,
     rowVars
<1>6. ASSUME NEW w \in Call, WebhookStep(w) \/ \E h \in Hash : WebhookFind(w, h)
      PROVE  UNCHANGED <<settled, credited>>
  BY <1>6 DEF WebhookStep, WebhookFind, SeesTx, SeesNothing, WebhookCreate,
     WebhookMark, rowVars
<1>7. ASSUME NEW a \in Call \cup Rec, FinalizeStep(a)
      PROVE  FinalizeCommit(a) \/ UNCHANGED <<settled, credited>>
  BY <1>7 DEF FinalizeStep, FinalizeFindTx, FinalizeFindRow, FinalizeThrows, rowVars
<1>8. ASSUME NEW c \in Rec, ReconcileStep(c)
      PROVE  UNCHANGED <<settled, credited>>
  BY <1>8 DEF ReconcileStep, ReconcileStart, ReconcileBridge, ReconcileDeposit,
     SeesTx, SeesNothing, ReconcileSwept, ReconcileMarkFailed, rowVars
<1>9. ASSUME NEW o \in Op, NEW h \in Hash,
             WatcherConfirms(o, h) \/ WatcherGivesUp(o, h)
      PROVE  UNCHANGED <<settled, credited>>
  BY <1>9 DEF WatcherConfirms, WatcherGivesUp, rowVars
<1>10. ASSUME Environment PROVE UNCHANGED <<settled, credited>>
  BY <1>10 DEF Environment, Fault, SendLost, Broadcast, ReconcileTouchFails,
     ChainSettles, Crash, rowVars
<1>11. ASSUME UNCHANGED vars PROVE UNCHANGED <<settled, credited>>
  BY <1>11 DEF vars, rowVars
<1> QED
  BY <1>1, <1>2, <1>3, <1>4, <1>5, <1>6, <1>7, <1>8, <1>9, <1>10, <1>11 DEF Next

LEMMA NextLate == Inv /\ Inv' /\ LatesSound /\ [Next]_vars => LatesSound'
<1> SUFFICES ASSUME Inv, Inv', LatesSound, [Next]_vars PROVE LatesSound'
  OBVIOUS
<1> DEFINE Kept == \A b \in Actor : KeepsLate(b) \/ ~late'[b] \/ LateSound(b)'
<1>1. ASSUME NEW r \in Req, BridgeStep(r) \/ \E o \in Op : BridgeFind(r, o)
      PROVE  Kept
  BY <1>1, RequestsKeepLate
<1>2. ASSUME NEW x \in Wal, WalletStep(x) \/ WalletStart(x)
      PROVE  Kept
  BY <1>2, RequestsKeepLate
<1>3. ASSUME NEW w \in Call, WebhookStep(w) \/ \E h \in Hash : WebhookFind(w, h)
      PROVE  Kept
  BY <1>3, ReceiversKeepLate, BeginnersKnow DEF WebhookStep
<1>4. ASSUME NEW a \in Call \cup Rec, FinalizeStep(a)
      PROVE  Kept
  BY <1>4, ReceiversKeepLate, LookupsSee DEF FinalizeStep
<1>5. ASSUME NEW c \in Rec, ReconcileStep(c)
      PROVE  Kept
  <2>1. CASE \/ SeesTx(c) \/ SeesNothing(c)
             \/ ReconcileSwept(c) \/ ReconcileMarkFailed(c)
    BY <2>1, ReceiversKeepLate
  <2>2. CASE \E h \in Hash : ReconcileDeposit(c, h)
    BY <2>2, BeginnersKnow
  <2>3. CASE \/ ReconcileStart(c)
             \/ \E o \in Op, done \in BOOLEAN : ReconcileBridge(c, o, done)
    BY <2>3, EnvironmentKeepsLate
  <2> QED
    BY <1>5, <2>1, <2>2, <2>3 DEF ReconcileStep
<1>6. ASSUME NEW a \in Actor, NEW h \in Hash, SendLost(a, h)
      PROVE  Kept
  <2>1. a \in Req \cup Wal
    BY <1>6 DEF SendLost, Broadcast, Inv, LocalsSound, LocalSound, Actor
  <2> QED
    BY <1>6, <2>1, RequestsKeepLate
<1>7. ASSUME \/ \E a \in Actor : Fault(a)
             \/ \E c \in Rec, o \in Op, done \in BOOLEAN :
                  ReconcileTouchFails(c, o, done)
             \/ \E o \in Op, h \in Hash :
                  WatcherConfirms(o, h) \/ WatcherGivesUp(o, h)
             \/ \E h \in Hash : ChainSettles(h)
             \/ Crash \/ UNCHANGED vars
      PROVE  Kept
  BY <1>7, EnvironmentKeepsLate
<1> HIDE DEF Kept
<1>8. Kept
  BY <1>1, <1>2, <1>3, <1>4, <1>5, <1>6, <1>7 DEF Next, Environment
<1> QED
  BY <1>8, OnlyFinalizersCredit, LateStays DEF Inv, Kept

LEMMA CreditsAreEarly == Inv /\ LatesSound /\ [Next]_vars => ByEarlyActor
<1> SUFFICES ASSUME Inv, LatesSound, [Next]_vars,
                    NEW h \in Hash, credited'[h] > credited[h]
             PROVE  \E a \in Actor : /\ tx[a] = h /\ ~late[a]
                                     /\ pc[a] = "finCommit" /\ pc'[a] # "finCommit"
  BY DEF ByEarlyActor
<1>1. PICK a \in Call \cup Rec : FinalizeCommit(a)
  BY OnlyFinalizersCredit DEF Inv, TypeOK
<1>2. a \in Actor /\ pc[a] = "finCommit"
  BY <1>1 DEF Actor, FinalizeCommit
<1>3. tx[a] = h /\ ~sawTx[a]
  BY <1>1 DEF FinalizeCommit, Credited, Inv, TypeOK
<1>4. ~late[a]
  BY <1>2, <1>3 DEF LatesSound, LateSound
<1>5. pc'[a] # "finCommit"
  <2>1. Rest(a, "answered") \/ Goto(a, "sweep")
    BY <1>1 DEF FinalizeCommit
  <2> QED
    BY <1>2, <2>1 DEF Rest, Goto, Resting, Inv, TypeOK
<1> QED
  BY <1>2, <1>3, <1>4, <1>5

-----------------------------------------------------------------------------
\* A bridge operation that is CONFIRMED or carries a transaction_id has credited
\* its receiver under a chain row of its own, whichever of the requests, the
\* watchers, the webhook and the reconcile loop wrote it last, and from however
\* old a copy (processBrowserWalletBridgeTransfer).
THEOREM DoneStaysAccounted == Spec => []DoneIsAccounted
<1>1. Inv => DoneIsAccounted
  BY DEF Inv, DoneSound, Done, Accounted, DoneIsAccounted
<1> QED
  BY InitInv, NextInv, <1>1, PTL DEF Spec

\* A transfer and a deposit count the same transaction only under a bridge's
\* operation, for any overlap of the reports with the transfers: the unique
\* indexes keep every other pair apart (finalizeDepositOperation).
THEOREM ReportsStayBounded == Spec => []ReportsAreBounded
<1>1. Inv => ReportsAreBounded
  <2> SUFFICES ASSUME Inv, NEW h \in Hash, settled[h] > 0, credited[h] > 0
               PROVE  chainRow[h] \in Op
    BY DEF Inv, ReportsAreBounded, TwiceOnlyUnderBridge
  <2>1. chainRow[h] \in Owner \cup {None} /\ RowTells(h)
    BY DEF Inv, TypeOK, RowsTell
  <2> QED
    BY <2>1 DEF RowTells, Owner
<1> QED
  BY InitInv, NextInv, <1>1, PTL DEF Spec

\* A delivery or a reconcile run that begins after the transfer was recorded
\* credits nothing, although a slow delivery may have wiped the transaction_id
\* meanwhile: what finalizeDepositOperation looks up, the history row of the hash,
\* is never taken back.
THEOREM LateAddsNothing == Spec => LateNeverCredits
<1>1. Init => LatesSound
  BY DEF Init, LatesSound, LateSound
<1>2. Inv /\ Inv' /\ LatesSound /\ [Next]_vars => LatesSound' /\ ByEarlyActor
  BY NextLate, CreditsAreEarly
<1> QED
  BY InitInv, NextInv, <1>1, <1>2, PTL DEF Spec, LateNeverCredits
=============================================================================
