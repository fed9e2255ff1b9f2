--------------------------- MODULE PaymentsProofs ---------------------------
(****************************************************************************)
(* Conversions and transfers keep their promises for any customers, any     *)
(* number of requests at once, any amounts, and any number of lost answers, *)
(* refusals and failed queries.  What a request has done is told from the   *)
(* place it has reached on its route; the other requests only use up its    *)
(* nonce and add their own rows.                                            *)
(****************************************************************************)
EXTENDS Payments, WellFoundedInduction, TLAPS

-----------------------------------------------------------------------------
(* Types                                                                   *)

FirstLeg == {"SOM_ESOM", "USDT_ESOM"}
Routes == Leg \cup {"REFUND", "CATCH", "BETWEEN", "IDLE", "OVER"}

Fields == {"route", "at", "leg", "then", "who", "peer", "amount", "ticket", "seen",
           "row", "retried", "took"}

\* a request's locals
IsJob(j) ==
  /\ DOMAIN j = Fields
  /\ j.route \in Routes /\ j.at \in 1 .. 9 /\ j.leg \in Leg \cup {None}
  /\ j.then \in {None, "ESOM_USDT", "ESOM_SOM"}
  /\ j.who \in Customer \cup {None} /\ j.peer \in Customer \cup {None}
  /\ j.amount \in Nat /\ j.seen \in Int /\ j.row \in Nat /\ j.took \in Nat
  /\ j.ticket \in {"none", "fresh", "stale"} /\ j.retried \in BOOLEAN

HistoryRow == [by : Req, leg : Leg, who : Customer, out : Nat,
               status : {"PENDING", "FAILED", "SUCCESS"}]

Typed ==
  /\ esom \in [Customer -> Nat] /\ bank \in [Customer -> Nat]
  /\ balance \in [Customer -> [Asset -> Int]]
  /\ history \in Seq(HistoryRow)
  /\ DOMAIN job = Req /\ \A r \in Req : IsJob(job[r])
  /\ did \in [Req -> [Effect -> Nat]] /\ lost \in [Req -> [Effect -> Nat]]
  /\ beaten \subseteq Req /\ faults \in 0 .. MaxFaults

-----------------------------------------------------------------------------
(* What is known of a request from its place                                *)

\* Its locals are those of its route.
Fits(r) ==
  LET j == job[r] IN
  /\ j.at \in DOMAIN Route[j.route]
  /\ j.route \in Leg => j.leg = j.route
  /\ j.route = "REFUND" => j.leg = "ESOM_SOM"
  /\ j.route = "BETWEEN" => j.then # None
  /\ j.route = "CATCH" => j.leg \in Conversion \cup {"SOM_SEND"}
  /\ j.route = "IDLE" => j.leg = None /\ j.row = 0 /\ j.took = 0
  /\ j.route # "IDLE" => j.leg \in Leg
  /\ Running(r) => j.who \in Customer
  /\ Running(r) /\ j.leg \in Transfer => j.peer \in Customer
  /\ j.then # None => j.leg \in FirstLeg
  /\ j.ticket # "none" => Step(r) \in {"mint", "gas"}
  /\ j.route \in FirstLeg => Net(j.amount) \notin 1 .. Platform

\* A request that has passed no step of its first leg has done nothing.
Fresh(r) ==
  (job[r].route = "IDLE" \/ (job[r].route \in Leg /\ job[r].at = 1 /\ job[r].took = 0))
    => \A e \in Effect : did[r][e] = 0 /\ lost[r][e] = 0

\* The steps it has passed took place.
Passed(r) ==
  LET j == job[r] d == did[r] small == Net(job[r].amount) = 0 IN
  /\ j.route = "SOM_ESOM" => /\ j.at > 1 => d["drawn"] > 0
                             /\ j.at > 2 => small \/ d["minted"] > 0
  /\ j.route = "USDT_ESOM" => /\ j.at > 2 => small \/ d["minted"] > 0
                              /\ j.at > 3 => d["ledger"] > 0
  /\ j.route = "ESOM_USDT" => /\ j.at > 2 => d["burnt"] > 0
                              /\ j.at > 3 => d["ledger"] > 0
  /\ j.route = "ESOM_SOM" => /\ j.at > 3 => small \/ d["burnt"] > 0
                             /\ j.at > 6 => d["paid"] > 0
  /\ j.route = "REFUND" => small \/ d["burnt"] > 0
  /\ j.route = "SOM_SEND" /\ j.at > 2 => d["sent"] > 0
  /\ j.route = "ESOM_SEND" => /\ j.at > 2 => d["moved"] > 0
                              /\ j.at > 4 => Fee = 0 \/ d["fee"] > 0

HasRow(r) == \E i \in DOMAIN history : history[i].by = r

\* Where a request still has its row before it.
BeforeRow(r) ==
  LET j == job[r] IN
  \/ j.route = "SOM_ESOM" /\ j.at \in 2 .. 5
  \/ j.route \in {"ESOM_USDT", "USDT_ESOM"} /\ j.at \in 3 .. 4
  \/ j.route = "ESOM_SOM" /\ j.at \in 4 .. 7
  \/ j.route = "REFUND"
  \/ j.route = "CATCH" /\ j.leg \in Conversion
  \/ j.route = "ESOM_SEND" /\ j.at = 5
  \/ /\ j.route = "OVER" \/ (j.route = "ESOM_SEND" /\ j.at \in 3 .. 4)
     /\ j.leg = "ESOM_SEND" /\ Outside(r) \subseteq {"moved"}

Recorded(r) ==
  faults = 0 /\ Outside(r) # {} /\ ~HasRow(r) => BeforeRow(r)

\* SOM are drawn once, and what has been drawn is minted, or going to be.
HasSmallRow(r) ==
  \E i \in DOMAIN history :
    history[i].by = r /\ history[i].status = "SUCCESS" /\ history[i].out = 0

Drawn(r) ==
  LET j == job[r] IN
  /\ did[r]["drawn"] <= 1
  /\ did[r]["drawn"] > did[r]["minted"] /\ faults = 0 /\ r \notin beaten =>
       \/ j.route = "SOM_ESOM" /\ j.at = 2
       \/ j.route = "SOM_ESOM" /\ j.at > 2 /\ Net(j.amount) = 0
       \/ HasSmallRow(r)

Redeemed(r) ==
  LET j == job[r] paid == did[r]["paid"] back == did[r]["refunded"]
      unseen == lost[r]["paid"] IN
  /\ j.leg # "ESOM_SOM" => paid = 0 /\ back = 0 /\ unseen = 0
  /\ j.route = "ESOM_SOM" => /\ back = 0
                             /\ paid = unseen + (IF j.at > 6 THEN 1 ELSE 0)
  /\ j.route = "REFUND" /\ j.at = 1 => back = 0 /\ paid = unseen
  /\ paid + back <= 1 + unseen
  /\ back <= did[r]["burnt"] \/ Net(j.amount) = 0

\* The row of the first leg is there when the second looks for it, and what it
\* found stays.
HasOwn(r) ==
  \E i \in DOMAIN history :
    /\ history[i].by = r /\ history[i].status = "SUCCESS"
    /\ history[i].who = job[r].who /\ history[i].leg = job[r].leg

Found(r) ==
  LET j == job[r] i == job[r].took IN
  /\ j.route = "BETWEEN" \/ (j.route = "USDT_ESOM" /\ j.at > 4) => HasOwn(r)
  /\ i > 0 => /\ i \in DOMAIN history /\ j.then = None
              /\ j.leg \in {"ESOM_USDT", "ESOM_SOM"}
              /\ history[i].who = j.who /\ history[i].out = j.amount
              /\ history[i].status = "SUCCESS"
              /\ \E own \in RowsOf(r) :
                   own <= i /\ history[own].leg = history[i].leg

\* transferSom has its row from its first step on, PENDING until it ends.
Stamped(r) ==
  LET j == job[r] i == job[r].row d == did[r] IN
  /\ i > 0 => /\ i \in DOMAIN history /\ j.leg = "SOM_SEND"
              /\ history[i].by = r /\ history[i].leg = "SOM_SEND"
  /\ j.route = "SOM_SEND" /\ j.at = 1 => i = 0
  /\ j.leg = "SOM_SEND" /\ (j.route = "CATCH" \/ (j.route = "SOM_SEND" /\ j.at > 1))
       => /\ i > 0 /\ history[i].status = "PENDING" /\ d["ledger"] = 0
          /\ (j.route = "CATCH" \/ j.at = 2) => d["sent"] = lost[r]["sent"]
  /\ Over(r) /\ j.leg = "SOM_SEND" /\ i > 0 =>
       LET status == history[i].status IN
       /\ status = "SUCCESS" <=> d["ledger"] = 1
       /\ status = "FAILED" => d["sent"] = lost[r]["sent"]
       /\ status = "PENDING" => faults > 0

\* The balance that was checked covers the debit.
Covered(r) ==
  LET j == job[r] IN
  /\ j.route = "USDT_ESOM" /\ j.at \in 2 .. 3 => j.seen >= j.amount
  /\ j.route = "ESOM_ADDR" /\ j.at = 2 => j.seen >= Debited(r)

Known(r) ==
  /\ Fits(r) /\ Fresh(r) /\ Passed(r) /\ Recorded(r) /\ Drawn(r) /\ Redeemed(r)
  /\ Found(r) /\ Stamped(r) /\ Covered(r)

Inv == Typed /\ SuccessIsComplete /\ \A r \in Req : Known(r)
-----------------------------------------------------------------------------
(* The routes, place by place                                               *)

LEMMA Places ==
  ASSUME NEW r \in Req, job[r].route \in Routes, Fits(r)
  PROVE  LET j == job[r] n == Len(Route[job[r].route])
             place == <<job[r].at, Step(r)>> IN
         /\ j.route = "SOM_ESOM" => n = 5 /\ place \in
              {<<1, "draw">>, <<2, "mint">>, <<3, "look">>,
               <<4, "refresh">>, <<5, "book">>}
         /\ j.route = "ESOM_USDT" => n = 7 /\ place \in
              {<<1, "gas">>, <<2, "burn">>, <<3, "ledger">>,
               <<4, "row">>, <<5, "post">>, <<6, "look">>,
               <<7, "refresh">>}
         /\ j.route = "USDT_ESOM" => n = 7 /\ place \in
              {<<1, "check">>, <<2, "mint">>, <<3, "ledger">>,
               <<4, "row">>, <<5, "post">>, <<6, "look">>,
               <<7, "refresh">>}
         /\ j.route = "ESOM_SOM" => n = 9 /\ place \in
              {<<1, "resolve">>, <<2, "gas">>, <<3, "burn">>,
               <<4, "look">>, <<5, "refresh">>, <<6, "payout">>,
               <<7, "row">>, <<8, "ledger">>, <<9, "post">>}
         /\ j.route = "REFUND" => n = 3 /\ place \in
              {<<1, "mint">>, <<2, "look">>, <<3, "refresh">>}
         /\ j.route = "SOM_SEND" => n = 4 /\ place \in
              {<<1, "row">>, <<2, "send">>, <<3, "stamp">>,
               <<4, "settle">>}
         /\ j.route = "ESOM_SEND" => n = 9 /\ place \in
              {<<1, "gas">>, <<2, "move">>, <<3, "gas">>, <<4, "fee">>,
               <<5, "row">>, <<6, "look">>, <<7, "refresh">>,
               <<8, "lookPeer">>, <<9, "refreshPeer">>}
         /\ j.route = "ESOM_ADDR" => n = 2 /\ place \in
              {<<1, "check">>, <<2, "shift">>}
         /\ j.route = "CATCH" => n = 1 /\ place \in
              {<<1, "catch">>}
         /\ j.route = "BETWEEN" => n = 1 /\ place \in
              {<<1, "between">>}
         /\ j.route = "IDLE" => n = 1 /\ place \in
              {<<1, "idle">>}
         /\ j.route = "OVER" => n = 1 /\ place \in
              {<<1, "over">>}
<1> DEFINE j == job[r]
<1>1. CASE j.route = "SOM_ESOM"
  BY <1>1 DEF Fits, Step, Route, PurchaseRoute
<1>2. CASE j.route = "ESOM_USDT"
  BY <1>2 DEF Fits, Step, Route, EsomToUsdtRoute
<1>3. CASE j.route = "USDT_ESOM"
  BY <1>3 DEF Fits, Step, Route, UsdtToEsomRoute
<1>4. CASE j.route = "ESOM_SOM"
  BY <1>4 DEF Fits, Step, Route, RedemptionRoute
<1>5. CASE j.route = "REFUND"
  BY <1>5 DEF Fits, Step, Route, RefundRoute
<1>6. CASE j.route = "SOM_SEND"
  BY <1>6 DEF Fits, Step, Route, SomSendRoute
<1>7. CASE j.route = "ESOM_SEND"
  BY <1>7 DEF Fits, Step, Route, EsomSendRoute
<1>8. CASE j.route = "ESOM_ADDR"
  BY <1>8 DEF Fits, Step, Route, AddressRoute
<1>9. CASE j.route = "CATCH"
  BY <1>9 DEF Fits, Step, Route
<1>10. CASE j.route = "BETWEEN"
  BY <1>10 DEF Fits, Step, Route
<1>11. CASE j.route = "IDLE"
  BY <1>11 DEF Fits, Step, Route
<1>12. CASE j.route = "OVER"
  BY <1>12 DEF Fits, Step, Route
<1> QED
  BY <1>1, <1>2, <1>3, <1>4, <1>5, <1>6, <1>7, <1>8, <1>9, <1>10, <1>11, <1>12

LEMMA Where ==
  ASSUME NEW r \in Req, job[r].route \in Routes, Fits(r)
  PROVE  LET j == job[r] IN
         /\ Step(r) = "draw" => j.route = "SOM_ESOM" /\ j.at = 1
         /\ Step(r) = "mint" =>
              \/ j.route = "SOM_ESOM" /\ j.at = 2
              \/ j.route = "USDT_ESOM" /\ j.at = 2
              \/ j.route = "REFUND" /\ j.at = 1
         /\ Step(r) = "look" =>
              \/ j.route = "SOM_ESOM" /\ j.at = 3
              \/ j.route = "ESOM_USDT" /\ j.at = 6
              \/ j.route = "USDT_ESOM" /\ j.at = 6
              \/ j.route = "ESOM_SOM" /\ j.at = 4
              \/ j.route = "REFUND" /\ j.at = 2
              \/ j.route = "ESOM_SEND" /\ j.at = 6
         /\ Step(r) = "refresh" =>
              \/ j.route = "SOM_ESOM" /\ j.at = 4
              \/ j.route = "ESOM_USDT" /\ j.at = 7
              \/ j.route = "USDT_ESOM" /\ j.at = 7
              \/ j.route = "ESOM_SOM" /\ j.at = 5
              \/ j.route = "REFUND" /\ j.at = 3
              \/ j.route = "ESOM_SEND" /\ j.at = 7
         /\ Step(r) = "book" => j.route = "SOM_ESOM" /\ j.at = 5
         /\ Step(r) = "gas" =>
              \/ j.route = "ESOM_USDT" /\ j.at = 1
              \/ j.route = "ESOM_SOM" /\ j.at = 2
              \/ j.route = "ESOM_SEND" /\ j.at \in {1, 3}
         /\ Step(r) = "burn" =>
              \/ j.route = "ESOM_USDT" /\ j.at = 2
              \/ j.route = "ESOM_SOM" /\ j.at = 3
         /\ Step(r) = "ledger" =>
              \/ j.route = "ESOM_USDT" /\ j.at = 3
              \/ j.route = "USDT_ESOM" /\ j.at = 3
              \/ j.route = "ESOM_SOM" /\ j.at = 8
         /\ Step(r) = "row" =>
              \/ j.route = "ESOM_USDT" /\ j.at = 4
              \/ j.route = "USDT_ESOM" /\ j.at = 4
              \/ j.route = "ESOM_SOM" /\ j.at = 7
              \/ j.route = "SOM_SEND" /\ j.at = 1
              \/ j.route = "ESOM_SEND" /\ j.at = 5
         /\ Step(r) = "post" =>
              \/ j.route = "ESOM_USDT" /\ j.at = 5
              \/ j.route = "USDT_ESOM" /\ j.at = 5
              \/ j.route = "ESOM_SOM" /\ j.at = 9
         /\ Step(r) = "check" =>
              \/ j.route = "USDT_ESOM" /\ j.at = 1
              \/ j.route = "ESOM_ADDR" /\ j.at = 1
         /\ Step(r) = "resolve" => j.route = "ESOM_SOM" /\ j.at = 1
         /\ Step(r) = "payout" => j.route = "ESOM_SOM" /\ j.at = 6
         /\ Step(r) = "send" => j.route = "SOM_SEND" /\ j.at = 2
         /\ Step(r) = "stamp" => j.route = "SOM_SEND" /\ j.at = 3
         /\ Step(r) = "settle" => j.route = "SOM_SEND" /\ j.at = 4
         /\ Step(r) = "move" => j.route = "ESOM_SEND" /\ j.at = 2
         /\ Step(r) = "fee" => j.route = "ESOM_SEND" /\ j.at = 4
         /\ Step(r) = "lookPeer" => j.route = "ESOM_SEND" /\ j.at = 8
         /\ Step(r) = "refreshPeer" => j.route = "ESOM_SEND" /\ j.at = 9
         /\ Step(r) = "shift" => j.route = "ESOM_ADDR" /\ j.at = 2
         /\ Step(r) = "catch" => j.route = "CATCH" /\ j.at = 1
         /\ Step(r) = "between" => j.route = "BETWEEN" /\ j.at = 1
         /\ Step(r) = "idle" => j.route = "IDLE" /\ j.at = 1
         /\ Step(r) = "over" => j.route = "OVER" /\ j.at = 1
BY Places DEF Routes, Leg, Conversion, Transfer

LEMMA RouteDomains ==
  /\ \A x \in Routes : DOMAIN Route[x] = 1 .. Len(Route[x])
  /\ \A x \in {"CATCH", "BETWEEN", "IDLE", "OVER"} : Len(Route[x]) = 1
<1>1. /\ Route["SOM_ESOM"] = PurchaseRoute /\ Route["ESOM_USDT"] = EsomToUsdtRoute
      /\ Route["USDT_ESOM"] = UsdtToEsomRoute /\ Route["ESOM_SOM"] = RedemptionRoute
      /\ Route["SOM_SEND"] = SomSendRoute /\ Route["ESOM_SEND"] = EsomSendRoute
      /\ Route["ESOM_ADDR"] = AddressRoute /\ Route["REFUND"] = RefundRoute
  BY DEF Route
<1>2. /\ Route["CATCH"] = <<"catch">> /\ Route["BETWEEN"] = <<"between">>
      /\ Route["IDLE"] = <<"idle">> /\ Route["OVER"] = <<"over">>
  BY DEF Route
<1>a. \A x \in {"CATCH", "BETWEEN", "IDLE", "OVER"} :
        DOMAIN Route[x] = 1 .. 1 /\ Len(Route[x]) = 1
  BY <1>2
<1>3. /\ DOMAIN PurchaseRoute = 1 .. Len(PurchaseRoute)
      /\ DOMAIN EsomToUsdtRoute = 1 .. Len(EsomToUsdtRoute)
      /\ DOMAIN UsdtToEsomRoute = 1 .. Len(UsdtToEsomRoute)
      /\ DOMAIN RedemptionRoute = 1 .. Len(RedemptionRoute)
  BY DEF PurchaseRoute, EsomToUsdtRoute, UsdtToEsomRoute, RedemptionRoute
<1>4. /\ DOMAIN SomSendRoute = 1 .. Len(SomSendRoute)
      /\ DOMAIN EsomSendRoute = 1 .. Len(EsomSendRoute)
      /\ DOMAIN AddressRoute = 1 .. Len(AddressRoute)
      /\ DOMAIN RefundRoute = 1 .. Len(RefundRoute)
  BY DEF RefundRoute, SomSendRoute, EsomSendRoute, AddressRoute
<1>b. \A x \in Leg \cup {"REFUND"} : DOMAIN Route[x] = 1 .. Len(Route[x])
  BY <1>1, <1>3, <1>4 DEF Leg, Conversion, Transfer
<1> QED
  BY <1>a, <1>b DEF Routes

-----------------------------------------------------------------------------
(* Where the next await leaves a request                                    *)

LEMMA NetIsNat == ASSUME NEW n \in Nat PROVE Net(n) \in Nat
BY RailsAssumption DEF Net

LEMMA EndedIs ==
  ASSUME NEW j, IsJob(j)
  PROVE  /\ IsJob(Ended(j))
         /\ Ended(j).route = "OVER" /\ Ended(j).at = 1 /\ Ended(j).then = None
         /\ Ended(j).leg = j.leg /\ Ended(j).who = j.who /\ Ended(j).peer = None
         /\ Ended(j).amount = j.amount /\ Ended(j).took = j.took
         /\ Ended(j).row = j.row /\ Ended(j).ticket = "none"
BY DEF Ended, NoJob, IsJob, Fields, Routes

LEMMA OnIs ==
  ASSUME NEW j, IsJob(j), NEW x \in Routes
  PROVE  /\ IsJob(On(j, x))
         /\ On(j, x).route = x /\ On(j, x).at = 1 /\ On(j, x).ticket = "none"
         /\ On(j, x).leg = j.leg /\ On(j, x).then = j.then
         /\ On(j, x).who = j.who /\ On(j, x).peer = j.peer
         /\ On(j, x).amount = j.amount /\ On(j, x).took = j.took
         /\ On(j, x).row = j.row /\ On(j, x).seen = j.seen
BY DEF On, IsJob, Fields

LEMMA LenIs ==
  ASSUME NEW r \in Req, IsJob(job[r]), Fits(r)
  PROVE  LET n == Len(Route[job[r].route]) IN
         job[r].at \in 1 .. n /\ n \in 1 .. 9 /\ job[r].at \in 1 .. 9
<1> DEFINE n == Len(Route[job[r].route])
<1>1. job[r].route \in Routes /\ job[r].at \in DOMAIN Route[job[r].route]
  BY DEF IsJob, Fits
<1>2. n \in 1 .. 9
  BY <1>1, Places DEF Routes, Leg, Conversion, Transfer
<1> QED
  BY <1>1, <1>2, RouteDomains DEF IsJob

LEMMA MovedIs ==
  ASSUME NEW r \in Req, IsJob(job[r]), Fits(r)
  PROVE  LET j == job[r] IN
         /\ IsJob(Moved(j))
         /\ j.at < Len(Route[j.route]) =>
              /\ Moved(j).route = j.route /\ Moved(j).at = j.at + 1
              /\ Moved(j).ticket = "none" /\ Moved(j).leg = j.leg
              /\ Moved(j).then = j.then /\ Moved(j).who = j.who
              /\ Moved(j).peer = j.peer /\ Moved(j).amount = j.amount
              /\ Moved(j).took = j.took /\ Moved(j).row = j.row
              /\ Moved(j).seen = j.seen
         /\ j.at >= Len(Route[j.route]) =>
              /\ j.at = Len(Route[j.route])
              /\ Moved(j) = IF j.route = "REFUND" THEN On(j, "CATCH")
                            ELSE IF j.then # None THEN On(j, "BETWEEN")
                            ELSE Ended(j)
<1> DEFINE j == job[r] n == Len(Route[j.route])
<1>1. j.at \in 1 .. n /\ n \in 1 .. 9 /\ j.at \in 1 .. 9
  BY LenIs
<1>2. \/ j.at < n /\ Moved(j) = [j EXCEPT !.at = @ + 1, !.ticket = "none"]
      \/ j.at = n /\ Moved(j) = IF j.route = "REFUND" THEN On(j, "CATCH")
                               ELSE IF j.then # None THEN On(j, "BETWEEN")
                               ELSE Ended(j)
  BY <1>1 DEF Moved
<1> HIDE DEF j, n
<1>3. IsJob(j)
  BY DEF j
<1>4. CASE j.at < n
  <2>1. j.at + 1 \in 1 .. 9 /\ j.at # n /\ ~(j.at >= n)
    BY <1>1, <1>4
  <2>2. Moved(j) = [j EXCEPT !.at = @ + 1, !.ticket = "none"]
    BY <1>2, <2>1
  <2>3. /\ DOMAIN Moved(j) = Fields
        /\ Moved(j).at = j.at + 1 /\ Moved(j).ticket = "none"
        /\ Moved(j).route = j.route /\ Moved(j).leg = j.leg
        /\ Moved(j).then = j.then /\ Moved(j).who = j.who
        /\ Moved(j).peer = j.peer /\ Moved(j).amount = j.amount
        /\ Moved(j).took = j.took /\ Moved(j).row = j.row
        /\ Moved(j).seen = j.seen /\ Moved(j).retried = j.retried
    BY <1>3, <2>2 DEF IsJob, Fields
  <2>4. IsJob(Moved(j))
    BY <1>3, <2>1, <2>3 DEF IsJob
  <2> QED
    BY <2>1, <2>3, <2>4 DEF j, n
<1>5. CASE ~(j.at < n)
  <2>1. /\ j.at = n
        /\ Moved(j) = IF j.route = "REFUND" THEN On(j, "CATCH")
                      ELSE IF j.then # None THEN On(j, "BETWEEN") ELSE Ended(j)
    BY <1>1, <1>2, <1>5
  <2>2. IsJob(Moved(j))
    BY <1>3, <2>1, EndedIs, OnIs DEF Routes
  <2> QED
    BY <1>5, <2>1, <2>2 DEF j, n
<1> QED
  BY <1>4, <1>5

-----------------------------------------------------------------------------
(* The others: a step of r may use up their nonce, and adds rows of its own.  *)

OthersWait(r) ==
  /\ DOMAIN job' = Req
  /\ \A q \in Req \ {r} :
       /\ did'[q] = did[q] /\ lost'[q] = lost[q]
       /\ IsJob(job[q])'
       /\ \A f \in Fields \ {"ticket"} : job'[q][f] = job[q][f]
       /\ job[q].ticket = "none" => job'[q].ticket = "none"

SameRow(x, y) == x.by = y.by /\ x.leg = y.leg /\ x.who = y.who /\ x.out = y.out

RowsStay(r) ==
  /\ DOMAIN history \subseteq DOMAIN history'
  /\ \A i \in DOMAIN history :
       /\ SameRow(history'[i], history[i])
       /\ history[i].by # r \/ history[i].status = "SUCCESS"
            => history'[i] = history[i]
  /\ \A i \in DOMAIN history' \ DOMAIN history : history'[i].by = r

Onwards == faults' \in 0 .. MaxFaults /\ faults <= faults' /\ beaten \subseteq beaten'
           /\ beaten' \subseteq Req

LEMMA OtherIs ==
  ASSUME NEW r \in Req, OthersWait(r), NEW q \in Req \ {r}
  PROVE  /\ did'[q] = did[q] /\ lost'[q] = lost[q]
         /\ job'[q].route = job[q].route /\ job'[q].at = job[q].at
         /\ job'[q].leg = job[q].leg /\ job'[q].then = job[q].then
         /\ job'[q].who = job[q].who /\ job'[q].peer = job[q].peer
         /\ job'[q].amount = job[q].amount /\ job'[q].seen = job[q].seen
         /\ job'[q].row = job[q].row /\ job'[q].took = job[q].took
         /\ Step(q)' = Step(q) /\ Over(q)' = Over(q) /\ Running(q)' = Running(q)
         /\ Outside(q)' = Outside(q)
<1>1. /\ did'[q] = did[q] /\ lost'[q] = lost[q]
      /\ job'[q].route = job[q].route /\ job'[q].at = job[q].at
      /\ job'[q].leg = job[q].leg /\ job'[q].then = job[q].then
      /\ job'[q].who = job[q].who /\ job'[q].peer = job[q].peer
      /\ job'[q].amount = job[q].amount /\ job'[q].seen = job[q].seen
      /\ job'[q].row = job[q].row /\ job'[q].took = job[q].took
  BY DEF OthersWait, Fields
<1> QED
  BY <1>1 DEF Step, Over, Running, Outside

LEMMA RowsOfOthers ==
  ASSUME NEW r \in Req, RowsStay(r), NEW q \in Req \ {r}
  PROVE  RowsOf(q)' = RowsOf(q) /\ HasRow(q)' = HasRow(q)
BY DEF RowsStay, RowsOf, HasRow, SameRow

LEMMA OthersKnown ==
  ASSUME Inv, NEW r \in Req, OthersWait(r), RowsStay(r), Onwards,
         NEW q \in Req \ {r}
  PROVE  Known(q)'
<1> USE OtherIs DEF Inv
<1>1. Known(q)
  OBVIOUS
<1>2. Fits(q)'
  BY <1>1 DEF Known, Fits, OthersWait, Running
<1>3. Fresh(q)' /\ Passed(q)' /\ Redeemed(q)' /\ Covered(q)'
  BY <1>1 DEF Known, Fresh, Passed, Redeemed, Covered, Debited
<1>4. faults' = 0 => faults = 0
  BY DEF Onwards, Typed
<1>5. Recorded(q)'
  BY <1>1, <1>4, RowsOfOthers DEF Known, Recorded, BeforeRow
<1>6. Drawn(q)'
  <2>1. HasSmallRow(q) => HasSmallRow(q)'
    BY DEF HasSmallRow, RowsStay
  <2> QED
    BY <1>1, <1>4, <2>1 DEF Known, Drawn, Onwards
<1>7. Found(q)'
  <2>1. HasOwn(q) => HasOwn(q)'
    BY DEF HasOwn, RowsStay
  <2>2. job[q].took > 0 =>
          /\ job[q].took \in DOMAIN history
          /\ history'[job[q].took] = history[job[q].took]
    BY <1>1 DEF Known, Found, RowsStay
  <2>3. \A own \in RowsOf(q) : history'[own] = history[own] /\ own \in RowsOf(q)'
    BY RowsOfOthers DEF RowsOf, RowsStay
  <2>4. job[q].took > 0 => DOMAIN history \subseteq DOMAIN history'
    BY DEF RowsStay
  <2> QED
    BY <1>1, <2>1, <2>2, <2>3, <2>4 DEF Known, Found
<1>8. Stamped(q)'
  <2>1. job[q].row > 0 => /\ history'[job[q].row] = history[job[q].row]
                          /\ job[q].row \in DOMAIN history'
    BY <1>1 DEF Known, Stamped, RowsStay
  <2>2. faults > 0 => faults' > 0
    BY DEF Onwards, Typed
  <2> QED
    BY <1>1, <2>1, <2>2 DEF Known, Stamped
<1> QED
  BY <1>2, <1>3, <1>5, <1>6, <1>7, <1>8 DEF Known

-----------------------------------------------------------------------------
(* Steps that have no effect: the await returns, throws or ends the request  *)

\* Where the locals of an arrived request fit its route.
LEMMA FitsThere ==
  ASSUME NEW r \in Req, job[r].route \in Routes, Fits(r), IsJob(job'[r]),
         Running(r), job'[r].leg = job[r].leg, job'[r].who = job[r].who,
         job'[r].ticket = "none", job'[r].amount = job[r].amount,
         \/ /\ job'[r].route = job[r].route /\ job'[r].then = job[r].then
            /\ job'[r].peer = job[r].peer
            /\ job'[r].at \in 1 .. Len(Route[job[r].route])
         \/ /\ job'[r].route = "CATCH" /\ job'[r].at = 1
            /\ job'[r].then = job[r].then /\ job'[r].peer = job[r].peer
            /\ job[r].leg \in Conversion \cup {"SOM_SEND"}
         \/ /\ job'[r].route = "BETWEEN" /\ job'[r].at = 1
            /\ job'[r].then = job[r].then /\ job'[r].peer = job[r].peer
            /\ job[r].then # None
         \/ /\ job'[r].route = "REFUND" /\ job'[r].at = 1
            /\ job'[r].then = job[r].then /\ job'[r].peer = job[r].peer
            /\ job[r].leg = "ESOM_SOM"
         \/ job'[r].route = "OVER" /\ job'[r].at = 1 /\ job'[r].then = None
  PROVE  Fits(r)'
<1>1. job'[r].at \in DOMAIN Route[job'[r].route]
  <2>1. Len(Route["REFUND"]) = 3
    BY DEF Route, RefundRoute
  <2> QED
    BY <2>1, RouteDomains DEF Routes
<1>2. job'[r].route \in FirstLeg => job[r].route = job'[r].route
  BY DEF FirstLeg
<1> QED
  BY <1>1, <1>2
     DEF Fits, Running, Leg, Conversion, Transfer, FirstLeg

Quiet(r) ==
  \/ Step(r) \in {"gas", "look", "refresh", "lookPeer", "refreshPeer", "resolve",
                  "post", "stamp", "check"}
  \/ Step(r) = "mint" /\ ~NeedsMint(r)
  \/ Step(r) = "burn" /\ ~NeedsBurn(r)
  \/ Step(r) = "fee" /\ Fee = 0

LEMMA QuietAdvance ==
  ASSUME Inv, NEW r \in Req, Quiet(r), NEW x \in Int,
         UNCHANGED <<history, did, lost>>, Onwards,
         \/ job'[r] = Moved(job[r]) /\ Step(r) # "check"
         \/ /\ job'[r] = [Moved(job[r]) EXCEPT !.seen = x]
            /\ Step(r) \in {"check", "look", "lookPeer"}
            /\ Step(r) = "check" =>
                 /\ job[r].route = "USDT_ESOM" => x >= job[r].amount
                 /\ job[r].route = "ESOM_ADDR" => x >= Debited(r)
  PROVE  IsJob(job[r])' /\ Known(r)'
<1> DEFINE j == job[r] n == Len(Route[j.route]) m == Moved(j)
<1> USE DEF Inv
<1>1. /\ IsJob(j) /\ Fits(r) /\ Known(r) /\ IsJob(m)
  BY MovedIs DEF Typed, Known
<1>2. /\ IsJob(job[r])'
      /\ \/ job'[r].seen = m.seen /\ Step(r) # "check"
         \/ job'[r].seen = x /\ Step(r) \in {"check", "look", "lookPeer"}
      /\ job'[r].route = m.route /\ job'[r].at = m.at /\ job'[r].leg = m.leg
      /\ job'[r].then = m.then /\ job'[r].who = m.who /\ job'[r].peer = m.peer
      /\ job'[r].amount = m.amount /\ job'[r].ticket = m.ticket
      /\ job'[r].row = m.row /\ job'[r].took = m.took
  BY <1>1 DEF IsJob, Fields
<1>3. /\ Outside(r)' = Outside(r) /\ HasRow(r)' = HasRow(r) /\ RowsOf(r)' = RowsOf(r)
      /\ HasSmallRow(r)' = HasSmallRow(r)
      /\ (faults' = 0 => faults = 0) /\ (faults > 0 => faults' > 0)
      /\ beaten \subseteq beaten'
  BY DEF Outside, HasRow, RowsOf, HasSmallRow, Onwards, Typed
<1>4. Running(r) /\ j.route \in Routes
  BY <1>1, Where DEF Quiet, Running, IsJob
<1>6. Net(j.amount) \in Nat
  BY <1>1, NetIsNat DEF IsJob
<1>5. CASE j.at < n
  <2>1. /\ job'[r].route = j.route /\ job'[r].at = j.at + 1 /\ job'[r].leg = j.leg
        /\ job'[r].then = j.then /\ job'[r].who = j.who /\ job'[r].peer = j.peer
        /\ job'[r].amount = j.amount /\ job'[r].ticket = "none"
        /\ job'[r].row = j.row /\ job'[r].took = j.took /\ m.seen = j.seen
    BY <1>1, <1>2, <1>5, MovedIs
  <2>a. j.at \in 1 .. 9 /\ j.at + 1 \in 1 .. n
    <3>1. j.at \in 1 .. n /\ n \in 1 .. 9
      BY <1>1, LenIs
    <3> HIDE DEF j, n
    <3> QED
      BY <1>5, <3>1
  <2>2. Fits(r)'
    BY <1>1, <1>2, <1>4, <2>1, <2>a, FitsThere
  <2>b. Fresh(r)' /\ Covered(r)'
    BY <1>1, <1>2, <1>4, <2>1, <2>a, Where
       DEF Known, Fresh, Covered, Debited, Quiet
  <2>3. Passed(r)'
    <3>1. /\ Step(r) = "mint" /\ j.route # "REFUND" => Net(j.amount) = 0
          /\ Step(r) = "burn" => Net(j.amount) = 0 /\ j.route = "ESOM_SOM"
          /\ Step(r) = "fee" => Fee = 0
          /\ Step(r) \notin {"draw", "ledger", "payout", "send", "move"}
      BY <1>1, <1>6, Where
         DEF Quiet, NeedsMint, NeedsBurn, Fits, Leg, Conversion, IsJob
    <3>2. j.at \in Nat /\ Passed(r)
      BY <1>1 DEF Known, IsJob
    <3>3. CASE j.route \in {"SOM_ESOM", "USDT_ESOM", "ESOM_USDT"}
      BY <1>1, <1>4, <2>1, <3>1, <3>2, <3>3, Places DEF Passed
    <3>4. CASE j.route \in {"ESOM_SOM", "REFUND"}
      BY <1>1, <1>4, <2>1, <3>1, <3>2, <3>4, Places DEF Passed
    <3>5. CASE j.route \in {"SOM_SEND", "ESOM_SEND"}
      BY <1>1, <1>4, <2>1, <3>1, <3>2, <3>5, Places DEF Passed
    <3>6. CASE j.route \notin {"SOM_ESOM", "USDT_ESOM", "ESOM_USDT", "ESOM_SOM",
                               "REFUND", "SOM_SEND", "ESOM_SEND"}
      BY <2>1, <3>6 DEF Passed
    <3> QED
      BY <3>3, <3>4, <3>5, <3>6
  <2>4. Recorded(r)'
    BY <1>1, <1>2, <1>3, <1>4, <2>1, <2>a, Where DEF Known, Recorded, BeforeRow, Quiet
  <2>5. Drawn(r)'
    BY <1>1, <1>2, <1>3, <1>4, <1>6, <2>1, <2>a, Where
       DEF Known, Drawn, Quiet, NeedsMint
  <2>6. Redeemed(r)'
    BY <1>1, <1>2, <1>3, <1>4, <2>1, <2>a, Where DEF Known, Redeemed, Quiet
  <2>7. Found(r)'
    BY <1>1, <1>2, <1>3, <1>4, <2>1, <2>a, Where DEF Known, Found, HasOwn, Quiet
  <2>8. Stamped(r)'
    BY <1>1, <1>2, <1>3, <1>4, <2>1, <2>a, Where DEF Known, Stamped, Over, Quiet
  <2> QED
    BY <1>2, <2>2, <2>3, <2>b, <2>4, <2>5, <2>6, <2>7, <2>8 DEF Known
<1>7. CASE ~(j.at < n)
  <2>1. /\ j.at = n
        /\ m = IF j.route = "REFUND" THEN On(j, "CATCH")
               ELSE IF j.then # None THEN On(j, "BETWEEN") ELSE Ended(j)
    <3>1. j.at >= n
      <4>1. j.at \in Int /\ n \in Int
        BY <1>1, LenIs
      <4> HIDE DEF j, n
      <4> QED
        BY <1>7, <4>1
    <3> QED
      BY <1>1, <3>1, MovedIs
  <2>2. /\ job'[r].route = IF j.route = "REFUND" THEN "CATCH"
                           ELSE IF j.then # None THEN "BETWEEN" ELSE "OVER"
        /\ job'[r].at = 1 /\ job'[r].leg = j.leg /\ job'[r].who = j.who
        /\ job'[r].amount = j.amount /\ job'[r].ticket = "none"
        /\ job'[r].row = j.row /\ job'[r].took = j.took
        /\ IF j.route # "REFUND" /\ j.then = None THEN job'[r].then = None
           ELSE job'[r].then = j.then /\ job'[r].peer = j.peer
    BY <1>1, <1>2, <2>1, OnIs, EndedIs DEF Routes
  <2>3. Fits(r)'
    BY <1>1, <1>2, <1>4, <2>2, FitsThere DEF Fits, Conversion
  <2>4. \/ j.route = "REFUND" /\ j.at = 3 /\ Step(r) = "refresh"
        \/ j.route = "ESOM_USDT" /\ j.at = 7 /\ Step(r) = "refresh"
        \/ j.route = "USDT_ESOM" /\ j.at = 7 /\ Step(r) = "refresh"
        \/ j.route = "ESOM_SOM" /\ j.at = 9 /\ Step(r) = "post"
        \/ j.route = "ESOM_SEND" /\ j.at = 9 /\ Step(r) = "refreshPeer"
    <3>1. n \in Int
      BY <1>1, LenIs
    <3>2. /\ j.route = "SOM_ESOM" => n = 5
          /\ j.route \in {"ESOM_USDT", "USDT_ESOM"} => n = 7
          /\ j.route \in {"ESOM_SOM", "ESOM_SEND"} => n = 9
          /\ j.route = "SOM_SEND" => n = 4
          /\ j.route = "ESOM_ADDR" => n = 2
          /\ j.route = "REFUND" => n = 3
      BY <1>1, <1>4, Places
    <3> HIDE DEF n
    <3> QED
      BY <1>1, <1>4, <2>1, <3>1, <3>2, Where DEF Quiet
  <2>5. Fresh(r)' /\ Passed(r)' /\ Covered(r)'
    BY <2>2 DEF Fresh, Passed, Covered, Leg, Conversion, Transfer
  <2>6. Recorded(r)'
    BY <1>1, <1>3, <2>2, <2>4
       DEF Known, Recorded, BeforeRow, Fits, Leg, Conversion, FirstLeg
  <2>7. Drawn(r)'
    BY <1>1, <1>3, <2>2, <2>4 DEF Known, Drawn
  <2>8. Redeemed(r)'
    BY <1>1, <2>2, <2>4 DEF Known, Redeemed
  <2>9. Found(r)'
    <3>1. HasOwn(r)' = HasOwn(r)
      BY <2>2 DEF HasOwn
    <3>2. job'[r].route = "BETWEEN" => HasOwn(r)
      BY <1>1, <2>2, <2>4 DEF Known, Found, Fits, Leg, Conversion, Transfer, FirstLeg
    <3>3. j.then = None => job'[r].then = None
      BY <2>2
    <3>4. job'[r].route # "USDT_ESOM"
      BY <2>2
    <3> QED
      BY <1>1, <1>3, <2>2, <3>1, <3>2, <3>3, <3>4 DEF Known, Found
  <2>10. Stamped(r)'
    BY <1>1, <2>2, <2>4
       DEF Known, Stamped, Over, Fits, Leg, Conversion, Transfer
  <2> QED
    BY <1>2, <2>3, <2>5, <2>6, <2>7, <2>8, <2>9, <2>10 DEF Known
<1> QED
  BY <1>5, <1>7

LEMMA ThrewIs ==
  ASSUME NEW r \in Req, IsJob(job[r]), Fits(r)
  PROVE  LET j == job[r] IN
         /\ IsJob(Threw(j))
         /\ Threw(j).ticket = "none" /\ Threw(j).leg = j.leg /\ Threw(j).who = j.who
         /\ Threw(j).amount = j.amount /\ Threw(j).row = j.row
         /\ Threw(j).took = j.took
         /\ \/ /\ j.route = "REFUND" /\ j.at = 1
               /\ Threw(j).route = "REFUND" /\ Threw(j).at = 2
               /\ Threw(j).then = j.then /\ Threw(j).peer = j.peer
            \/ /\ \/ j.route \in Conversion /\ ~(j.route = "USDT_ESOM" /\ j.at = 1)
                  \/ j.route = "REFUND" /\ j.at > 1
                  \/ j.route = "SOM_SEND" /\ j.at = 2
               /\ Threw(j).route = "CATCH" /\ Threw(j).at = 1
               /\ Threw(j).then = j.then /\ Threw(j).peer = j.peer
            \/ /\ \/ j.route \notin Conversion \cup {"REFUND"}
                  \/ j.route = "USDT_ESOM" /\ j.at = 1
               /\ ~(j.route = "SOM_SEND" /\ j.at = 2)
               /\ Threw(j).route = "OVER" /\ Threw(j).at = 1
               /\ Threw(j).then = None
<1> DEFINE j == job[r]
<1>1. j.at \in 1 .. 9
  BY DEF IsJob
<1>2. CASE j.route = "REFUND" /\ j.at = 1
  <2>1. Len(Route[j.route]) = 3
    BY <1>2 DEF Route, RefundRoute
  <2>2. j.at < Len(Route[j.route])
    BY <1>2, <2>1
  <2> QED
    BY <1>2, <2>2, MovedIs DEF Threw
<1>3. CASE ~(j.route = "REFUND" /\ j.at = 1)
  <2>1. Threw(j) = IF \/ j.route \in Conversion /\ ~(j.route = "USDT_ESOM" /\ j.at = 1)
                      \/ j.route = "REFUND"
                      \/ j.route = "SOM_SEND" /\ j.at = 2
                   THEN On(j, "CATCH") ELSE Ended(j)
    BY <1>3 DEF Threw, Conversion
  <2> QED
    BY <1>1, <1>3, <2>1, OnIs, EndedIs DEF Routes, Conversion
<1> QED
  BY <1>2, <1>3

LEMMA QuietThrow ==
  ASSUME Inv, NEW r \in Req, Running(r), Step(r) \notin {"catch", "between"},
         UNCHANGED <<history, did, lost>>, Onwards, job'[r] = Threw(job[r]),
         \/ faults' > 0
         \/ r \in beaten' /\ Step(r) \in {"mint", "gas"}
         \/ Step(r) \in {"draw", "resolve", "burn", "send", "move", "fee", "check"}
  PROVE  IsJob(job[r])' /\ Known(r)'
<1> DEFINE j == job[r]
<1> USE DEF Inv
<1>1. IsJob(j) /\ Fits(r) /\ Known(r) /\ j.route \in Routes
  BY DEF Typed, Known, IsJob
<1>2. /\ Outside(r)' = Outside(r) /\ HasRow(r)' = HasRow(r) /\ RowsOf(r)' = RowsOf(r)
      /\ HasSmallRow(r)' = HasSmallRow(r)
      /\ (faults' = 0 => faults = 0) /\ (faults > 0 => faults' > 0)
      /\ beaten \subseteq beaten' /\ faults' \in Nat
  BY DEF Outside, HasRow, RowsOf, HasSmallRow, Onwards, Typed
<1>3. /\ IsJob(job[r])' /\ job'[r].ticket = "none" /\ job'[r].leg = j.leg
      /\ job'[r].who = j.who /\ job'[r].amount = j.amount /\ job'[r].row = j.row
      /\ job'[r].took = j.took
  BY <1>1, ThrewIs
<1>4. \/ /\ j.route = "REFUND" /\ j.at = 1
         /\ job'[r].route = "REFUND" /\ job'[r].at = 2
         /\ job'[r].then = j.then /\ job'[r].peer = j.peer
      \/ /\ \/ j.route \in Conversion /\ ~(j.route = "USDT_ESOM" /\ j.at = 1)
            \/ j.route = "REFUND" /\ j.at > 1
            \/ j.route = "SOM_SEND" /\ j.at = 2
         /\ job'[r].route = "CATCH" /\ job'[r].at = 1
         /\ job'[r].then = j.then /\ job'[r].peer = j.peer
      \/ /\ \/ j.route \notin Conversion \cup {"REFUND"}
            \/ j.route = "USDT_ESOM" /\ j.at = 1
         /\ ~(j.route = "SOM_SEND" /\ j.at = 2)
         /\ job'[r].route = "OVER" /\ job'[r].at = 1
         /\ job'[r].then = None
  BY <1>1, ThrewIs
<1>5. j.route \in Leg => j.leg = j.route
  BY <1>1 DEF Fits
<1>6. Fits(r)'
  <2>1. j.route = "REFUND" => Len(Route[j.route]) = 3 /\ 2 \in 1 .. Len(Route[j.route])
    BY DEF Route, RefundRoute
  <2>2. job'[r].route = "CATCH" => j.leg \in Conversion \cup {"SOM_SEND"}
    BY <1>1, <1>4 DEF Fits, Leg, Conversion, Transfer
  <2> QED
    BY <1>1, <1>3, <1>4, <2>1, <2>2, FitsThere
<1>7. Fresh(r)' /\ Passed(r)' /\ Covered(r)'
  BY <1>1, <1>3, <1>4 DEF Known, Fresh, Passed, Covered, Leg, Conversion, Transfer
<1>8. Recorded(r)'
  <2>1. job'[r].route = "CATCH" /\ j.leg \notin Conversion => HasRow(r)
    BY <1>1, <1>4 DEF Known, Stamped, HasRow, Fits, Leg, Conversion, Transfer
  <2>2. job'[r].route = "OVER" /\ faults' = 0 =>
          \/ Outside(r) = {}
          \/ HasRow(r)
          \/ j.leg = "ESOM_SEND" /\ Outside(r) \subseteq {"moved"}
    BY <1>1, <1>2, <1>4, Where
       DEF Known, Recorded, BeforeRow, Running, Routes, Leg, Conversion, Transfer
  <2> QED
    BY <1>1, <1>2, <1>3, <1>4, <2>1, <2>2 DEF Recorded, BeforeRow, Conversion
<1>9. Drawn(r)'
  BY <1>1, <1>2, <1>3, <1>4, Where DEF Known, Drawn
<1>10. Redeemed(r)'
  BY <1>1, <1>3, <1>4 DEF Known, Redeemed
<1>11. Found(r)'
  BY <1>1, <1>2, <1>3, <1>4 DEF Known, Found
<1>12. Stamped(r)'
  <2>1. j.leg = "SOM_SEND" => j.route = "SOM_SEND"
    BY <1>1, Places DEF Fits, Running, Leg, Conversion, Transfer, Routes, FirstLeg
  <2>2. j.leg = "SOM_SEND" /\ job'[r].route = "CATCH" => j.at = 2
    BY <1>4, <2>1 DEF Conversion
  <2>3. j.leg = "SOM_SEND" /\ job'[r].route = "OVER" =>
          j.at = 1 \/ (faults' > 0 /\ j.at > 1 /\ j.at # 2)
    BY <1>1, <1>4, <2>1, Where DEF IsJob
  <2> QED
    BY <1>1, <1>2, <1>3, <1>4, <2>1, <2>2, <2>3 DEF Known, Stamped, Over
<1> QED
  BY <1>3, <1>6, <1>7, <1>8, <1>9, <1>10, <1>11, <1>12 DEF Known

LEMMA QuietEnd ==
  ASSUME Inv, NEW r \in Req,
         UNCHANGED <<history, did, lost>>, Onwards, job'[r] = Ended(job[r]),
         \/ job[r].route \in Leg /\ job[r].at = 1
         \/ job[r].route = "BETWEEN"
         \/ job[r].route = "CATCH" /\ faults' > 0
  PROVE  IsJob(job[r])' /\ Known(r)'
<1> DEFINE j == job[r]
<1> USE DEF Inv
<1>1. IsJob(j) /\ Fits(r) /\ Known(r) /\ j.route \in Routes /\ Running(r)
  BY DEF Typed, Known, IsJob, Running, Leg, Conversion, Transfer
<1>2. /\ Outside(r)' = Outside(r) /\ HasRow(r)' = HasRow(r) /\ RowsOf(r)' = RowsOf(r)
      /\ HasSmallRow(r)' = HasSmallRow(r)
      /\ (faults' = 0 => faults = 0) /\ (faults > 0 => faults' > 0)
      /\ beaten \subseteq beaten' /\ faults' \in Nat
  BY DEF Outside, HasRow, RowsOf, HasSmallRow, Onwards, Typed
<1>3. /\ IsJob(job[r])' /\ job'[r].ticket = "none" /\ job'[r].leg = j.leg
      /\ job'[r].who = j.who /\ job'[r].amount = j.amount /\ job'[r].row = j.row
      /\ job'[r].took = j.took /\ job'[r].route = "OVER" /\ job'[r].at = 1
      /\ job'[r].then = None
  BY <1>1, EndedIs
<1>4. Fits(r)'
  BY <1>1, <1>3, FitsThere
<1>5. Fresh(r)' /\ Passed(r)' /\ Covered(r)'
  BY <1>3 DEF Fresh, Passed, Covered, Leg, Conversion, Transfer
<1>6. Recorded(r)'
  BY <1>1, <1>2, <1>3 DEF Known, Recorded, BeforeRow, Leg, Conversion, Transfer
<1>7. Drawn(r)'
  BY <1>1, <1>2, <1>3 DEF Known, Drawn
<1>8. Redeemed(r)'
  BY <1>1, <1>3 DEF Known, Redeemed
<1>9. Found(r)'
  BY <1>1, <1>2, <1>3 DEF Known, Found
<1>10. Stamped(r)'
  <2>1. Stamped(r) /\ j.row \in Nat
    BY <1>1 DEF Known, IsJob
  <2>2. CASE j.row = 0
    BY <1>3, <2>2 DEF Stamped
  <2>3. CASE j.row > 0
    <3>1. /\ j.row \in DOMAIN history /\ j.leg = "SOM_SEND"
          /\ history[j.row].by = r /\ history[j.row].leg = "SOM_SEND"
      BY <2>1, <2>3 DEF Stamped
    <3>2. j.route = "CATCH"
      BY <1>1, <2>1, <2>3, <3>1
         DEF Known, Fits, Stamped, Leg, Conversion, Transfer, FirstLeg
    <3>3. /\ history[j.row].status = "PENDING" /\ did[r]["ledger"] = 0
          /\ faults' > 0
      BY <2>1, <3>1, <3>2 DEF Stamped, Leg, Conversion, Transfer
    <3> QED
      BY <1>3, <3>1, <3>3 DEF Stamped, Over
  <2> QED
    BY <2>1, <2>2, <2>3
<1> QED
  BY <1>3, <1>4, <1>5, <1>6, <1>7, <1>8, <1>9, <1>10 DEF Known

-----------------------------------------------------------------------------
(* The rest of the state at such a step                                     *)

LEMMA JobTo ==
  ASSUME Typed, NEW r \in Req, NEW v, IsJob(v),
         \A q \in Req \ {r} : did'[q] = did[q] /\ lost'[q] = lost[q],
         \/ job' = [job EXCEPT ![r] = v]
         \/ job' = Spent([job EXCEPT ![r] = v], r)
  PROVE  OthersWait(r) /\ job'[r] = v /\ DOMAIN job' = Req
<1>1. CASE job' = [job EXCEPT ![r] = v]
  BY <1>1 DEF Typed, OthersWait
<1>2. CASE job' = Spent([job EXCEPT ![r] = v], r)
  <2>1. /\ DOMAIN job' = Req /\ job'[r] = v
        /\ \A q \in Req \ {r} :
             job'[q] = IF job[q].ticket = "fresh"
                       THEN [job[q] EXCEPT !.ticket = "stale"] ELSE job[q]
    BY <1>2 DEF Typed, Spent
  <2>2. ASSUME NEW q \in Req \ {r}
        PROVE  /\ IsJob(job'[q])
               /\ \A f \in Fields \ {"ticket"} : job'[q][f] = job[q][f]
               /\ job[q].ticket = "none" => job'[q].ticket = "none"
    <3>1. IsJob(job[q])
      BY DEF Typed
    <3>2. CASE job'[q] = job[q]
      BY <3>1, <3>2
    <3>3. CASE /\ job[q].ticket = "fresh"
               /\ job'[q] = [job[q] EXCEPT !.ticket = "stale"]
      BY <3>1, <3>3 DEF IsJob, Fields
    <3> QED
      BY <2>1, <2>2, <3>2, <3>3
  <2> QED
    BY <2>1, <2>2 DEF OthersWait
<1> QED
  BY <1>1, <1>2

\* A row that says SUCCESS is complete when it is written.
LEMMA RowsComplete ==
  ASSUME Inv, NEW r \in Req, RowsStay(r), history' \in Seq(HistoryRow),
         \A q \in Req : \A e \in Effect : did[q][e] > 0 => did'[q][e] > 0,
         \A i \in DOMAIN history' : history'[i].by = r /\ history'[i].status = "SUCCESS" =>
           \/ i \in DOMAIN history /\ history'[i] = history[i]
           \/ \A e \in Required(history'[i]) : did'[r][e] > 0
  PROVE  SuccessIsComplete'
<1> SUFFICES ASSUME NEW i \in DOMAIN history', history'[i].status = "SUCCESS",
                    NEW e \in Required(history'[i])
             PROVE  did'[history'[i].by][e] > 0
  BY DEF SuccessIsComplete, Required
<1>1. history'[i] \in HistoryRow
  OBVIOUS
<1>2. e \in Effect
  BY <1>1 DEF Required, HistoryRow, Leg, Conversion, Transfer, Effect
<1>3. CASE i \in DOMAIN history /\ history'[i] = history[i]
  BY <1>1, <1>2, <1>3 DEF Inv, SuccessIsComplete, HistoryRow
<1>4. CASE ~(i \in DOMAIN history /\ history'[i] = history[i])
  <2>1. history'[i].by = r
    BY <1>4 DEF RowsStay, SameRow
  <2> QED
    BY <1>4, <2>1
<1> QED
  BY <1>3, <1>4

LEMMA QuietInv ==
  ASSUME Inv, NEW r \in Req, NEW v, IsJob(v), UNCHANGED <<history, did, lost>>,
         \/ job' = [job EXCEPT ![r] = v]
         \/ job' = Spent([job EXCEPT ![r] = v], r),
         Onwards, Known(r)',
         esom' \in [Customer -> Nat], bank' \in [Customer -> Nat],
         balance' \in [Customer -> [Asset -> Int]]
  PROVE  Inv'
<1> USE DEF Inv
<1>1. OthersWait(r) /\ job'[r] = v /\ DOMAIN job' = Req
  BY JobTo
<1>2. RowsStay(r)
  BY DEF RowsStay, SameRow
<1>3. Typed'
  BY <1>1 DEF Typed, OthersWait, Onwards
<1>4. SuccessIsComplete'
  BY <1>2, <1>3, RowsComplete DEF Typed
<1> QED
  BY <1>1, <1>2, <1>3, <1>4, OthersKnown

-----------------------------------------------------------------------------
(* Steps that have an effect                                                *)

LEMMA StepInv ==
  ASSUME Inv, NEW r \in Req, NEW v, IsJob(v),
         \/ job' = [job EXCEPT ![r] = v]
         \/ job' = Spent([job EXCEPT ![r] = v], r),
         did' \in [Req -> [Effect -> Nat]], lost' \in [Req -> [Effect -> Nat]],
         \A q \in Req \ {r} : did'[q] = did[q] /\ lost'[q] = lost[q],
         history' \in Seq(HistoryRow), RowsStay(r), SuccessIsComplete',
         Onwards, Known(r)',
         esom' \in [Customer -> Nat], bank' \in [Customer -> Nat],
         balance' \in [Customer -> [Asset -> Int]]
  PROVE  Inv'
<1> USE DEF Inv
<1>1. OthersWait(r) /\ job'[r] = v /\ DOMAIN job' = Req
  BY JobTo
<1>2. Typed'
  BY <1>1 DEF Typed, OthersWait, Onwards
<1> QED
  BY <1>1, <1>2, OthersKnown

LEMMA CountIs ==
  ASSUME Typed, NEW r \in Req, NEW e \in Effect, Count(r, e)
  PROVE  /\ did' \in [Req -> [Effect -> Nat]]
         /\ did'[r][e] = did[r][e] + 1
         /\ \A f \in Effect \ {e} : did'[r][f] = did[r][f]
         /\ \A q \in Req \ {r} : did'[q] = did[q]
         /\ \A q \in Req : \A f \in Effect : did[q][f] \in Nat /\ did[q][f] <= did'[q][f]
BY DEF Typed, Count

\* The effect a step is about to have.
Due(r, e) ==
  \/ Step(r) = "draw" /\ e = "drawn"
  \/ Step(r) = "burn" /\ NeedsBurn(r) /\ e = "burnt"
  \/ Step(r) = "send" /\ e = "sent"
  \/ Step(r) = "move" /\ e = "moved"
  \/ Step(r) = "fee" /\ Fee > 0 /\ e = "fee"
  \/ /\ Step(r) = "mint" /\ NeedsMint(r)
     /\ e = IF job[r].route = "REFUND" THEN "refunded" ELSE "minted"

\* A step that draws, takes or pays has not done it before.
LEMMA NotYet ==
  ASSUME Inv, NEW r \in Req
  PROVE  /\ Step(r) = "draw" => did[r]["drawn"] = 0
         /\ Step(r) = "mint" /\ job[r].route = "REFUND" =>
              /\ did[r]["refunded"] = 0 /\ did[r]["paid"] = lost[r]["paid"]
              /\ did[r]["burnt"] > 0 \/ Net(job[r].amount) = 0
<1>1. IsJob(job[r]) /\ Known(r) /\ Fits(r) /\ job[r].route \in Routes
  BY DEF Inv, Typed, Known, IsJob
<1>2. Step(r) = "draw" => job[r].took = 0
  BY <1>1, Where DEF Known, Found, Fits, Leg, Conversion, IsJob
<1>3. Step(r) = "draw" => did[r]["drawn"] = 0
  BY <1>1, <1>2, Where DEF Known, Fresh, Leg, Conversion, Effect
<1>4. Step(r) = "mint" /\ job[r].route = "REFUND" => job[r].at = 1
  BY <1>1, Where
<1> QED
  BY <1>1, <1>3, <1>4 DEF Known, Redeemed, Passed

LEMMA LostThrow ==
  ASSUME Inv, NEW r \in Req, NEW e \in Effect, Due(r, e), Count(r, e),
         lost' = [lost EXCEPT ![r][e] = @ + 1], faults' > 0,
         UNCHANGED history, Onwards, job'[r] = Threw(job[r])
  PROVE  IsJob(job[r])' /\ Known(r)'
<1> DEFINE j == job[r]
<1>1. IsJob(j) /\ Fits(r) /\ Known(r) /\ j.route \in Routes /\ Typed
  BY DEF Inv, Typed, Known, IsJob
<1>2. /\ did'[r][e] = did[r][e] + 1
      /\ \A f \in Effect \ {e} : did'[r][f] = did[r][f]
      /\ lost'[r][e] = lost[r][e] + 1
      /\ \A f \in Effect \ {e} : lost'[r][f] = lost[r][f]
      /\ \A f \in Effect : did[r][f] \in Nat /\ lost[r][f] \in Nat
  BY <1>1, CountIs DEF Typed
<1>3. /\ IsJob(job[r])' /\ job'[r].ticket = "none" /\ job'[r].leg = j.leg
      /\ job'[r].who = j.who /\ job'[r].amount = j.amount /\ job'[r].row = j.row
      /\ job'[r].took = j.took
  BY <1>1, ThrewIs
<1>4. \/ /\ j.route = "REFUND" /\ j.at = 1 /\ e = "refunded" /\ Step(r) = "mint"
         /\ job'[r].route = "REFUND" /\ job'[r].at = 2
         /\ job'[r].then = j.then /\ job'[r].peer = j.peer
      \/ /\ \/ Step(r) = "draw" /\ j.route = "SOM_ESOM" /\ e = "drawn"
            \/ Step(r) = "mint" /\ j.route \in FirstLeg /\ e = "minted"
            \/ Step(r) = "burn" /\ j.route \in {"ESOM_USDT", "ESOM_SOM"} /\ e = "burnt"
            \/ Step(r) = "send" /\ j.route = "SOM_SEND" /\ j.at = 2 /\ e = "sent"
         /\ job'[r].route = "CATCH" /\ job'[r].at = 1
         /\ job'[r].then = j.then /\ job'[r].peer = j.peer
      \/ /\ j.route = "ESOM_SEND" /\ e \in {"moved", "fee"}
         /\ Step(r) \in {"move", "fee"}
         /\ job'[r].route = "OVER" /\ job'[r].at = 1 /\ job'[r].then = None
  BY <1>1, ThrewIs, Where DEF Due, Conversion, FirstLeg
<1>5. j.route \in Leg => j.leg = j.route
  BY <1>1 DEF Fits
<1>6. Fits(r)'
  <2>1. j.route = "REFUND" => Len(Route[j.route]) = 3 /\ 2 \in 1 .. Len(Route[j.route])
    BY DEF Route, RefundRoute
  <2>2. job'[r].route = "CATCH" => j.leg \in Conversion \cup {"SOM_SEND"}
    BY <1>4, <1>5 DEF FirstLeg, Leg, Conversion, Transfer
  <2>3. Running(r)
    BY <1>4 DEF Running, FirstLeg
  <2> QED
    BY <1>1, <1>3, <1>4, <2>1, <2>2, <2>3, FitsThere
<1>7. Fresh(r)' /\ Covered(r)'
  BY <1>4 DEF Fresh, Covered, Leg, Conversion, Transfer
<1>8. Passed(r)'
  BY <1>1, <1>2, <1>3, <1>4 DEF Known, Passed, Effect
<1>9. Recorded(r)'
  BY DEF Recorded
<1>10. Drawn(r)'
  BY <1>1, <1>2, <1>4, NotYet DEF Known, Drawn, Effect
<1>11. Redeemed(r)'
  <2>1. j.leg # "ESOM_SOM" => e \notin {"paid", "refunded"}
    BY <1>1, <1>4 DEF Fits
  <2> QED
    BY <1>1, <1>2, <1>3, <1>4, <2>1, NotYet DEF Known, Redeemed, Effect
<1>12. Found(r)'
  <2>1. RowsOf(r)' = RowsOf(r)
    BY DEF RowsOf
  <2>2. j.then = None => job'[r].then = None
    BY <1>4
  <2> QED
    BY <1>1, <1>3, <1>4, <2>1, <2>2 DEF Known, Found
<1>13. Stamped(r)'
  <2>1. j.leg = "SOM_SEND" => Step(r) = "send" /\ j.at = 2 /\ e = "sent"
                              /\ j.route = "SOM_SEND" /\ job'[r].route = "CATCH"
    BY <1>1, <1>4, <1>5 DEF Fits, FirstLeg, Leg, Conversion, Transfer
  <2>2. j.leg = "SOM_SEND" =>
          /\ did'[r]["sent"] = lost'[r]["sent"] /\ did'[r]["ledger"] = 0
    BY <1>1, <1>2, <2>1 DEF Known, Stamped, Effect
  <2>3. job'[r].route # "SOM_SEND"
    BY <1>4
  <2> QED
    BY <1>1, <1>2, <1>3, <2>1, <2>2, <2>3 DEF Known, Stamped, Over
<1> QED
  BY <1>3, <1>6, <1>7, <1>8, <1>9, <1>10, <1>11, <1>12, <1>13 DEF Known

LEMMA EffectAdvance ==
  ASSUME Inv, NEW r \in Req, NEW e \in Effect, Count(r, e),
         \/ Due(r, e)
         \/ Step(r) = "payout" /\ e = "paid"
         \/ Step(r) = "ledger" /\ e = "ledger",
         UNCHANGED <<lost, history>>, Onwards, job'[r] = Moved(job[r])
  PROVE  IsJob(job[r])' /\ Known(r)'
<1> DEFINE j == job[r] n == Len(Route[j.route])
<1>1. IsJob(j) /\ Fits(r) /\ Known(r) /\ j.route \in Routes /\ Typed
  BY DEF Inv, Typed, Known, IsJob
<1>2. /\ did'[r][e] = did[r][e] + 1
      /\ \A f \in Effect \ {e} : did'[r][f] = did[r][f]
      /\ \A f \in Effect : lost'[r][f] = lost[r][f]
      /\ \A f \in Effect : did[r][f] \in Nat /\ lost[r][f] \in Nat
  BY <1>1, CountIs DEF Typed
<1>3. \/ j.route = "SOM_ESOM" /\ j.at = 1 /\ Step(r) = "draw" /\ e = "drawn"
      \/ j.route = "SOM_ESOM" /\ j.at = 2 /\ Step(r) = "mint" /\ e = "minted"
      \/ j.route = "USDT_ESOM" /\ j.at = 2 /\ Step(r) = "mint" /\ e = "minted"
      \/ j.route = "USDT_ESOM" /\ j.at = 3 /\ Step(r) = "ledger" /\ e = "ledger"
      \/ j.route = "ESOM_USDT" /\ j.at = 2 /\ Step(r) = "burn" /\ e = "burnt"
      \/ j.route = "ESOM_USDT" /\ j.at = 3 /\ Step(r) = "ledger" /\ e = "ledger"
      \/ j.route = "ESOM_SOM" /\ j.at = 3 /\ Step(r) = "burn" /\ e = "burnt"
      \/ j.route = "ESOM_SOM" /\ j.at = 6 /\ Step(r) = "payout" /\ e = "paid"
      \/ j.route = "ESOM_SOM" /\ j.at = 8 /\ Step(r) = "ledger" /\ e = "ledger"
      \/ j.route = "REFUND" /\ j.at = 1 /\ Step(r) = "mint" /\ e = "refunded"
      \/ j.route = "SOM_SEND" /\ j.at = 2 /\ Step(r) = "send" /\ e = "sent"
      \/ j.route = "ESOM_SEND" /\ j.at = 2 /\ Step(r) = "move" /\ e = "moved"
      \/ j.route = "ESOM_SEND" /\ j.at = 4 /\ Step(r) = "fee" /\ e = "fee"
  BY <1>1, Where DEF Due
<1>4. j.at < n /\ j.at + 1 \in 1 .. n
  <2>1. /\ j.route = "SOM_ESOM" => n = 5
        /\ j.route \in {"ESOM_USDT", "USDT_ESOM"} => n = 7
        /\ j.route \in {"ESOM_SOM", "ESOM_SEND"} => n = 9
        /\ j.route = "SOM_SEND" => n = 4
        /\ j.route = "REFUND" => n = 3
    BY <1>1, Places
  <2> HIDE DEF n
  <2> QED
    BY <1>3, <2>1
<1>5. /\ IsJob(job[r])' /\ job'[r].route = j.route /\ job'[r].at = j.at + 1
      /\ job'[r].leg = j.leg /\ job'[r].then = j.then /\ job'[r].who = j.who
      /\ job'[r].peer = j.peer /\ job'[r].amount = j.amount
      /\ job'[r].ticket = "none" /\ job'[r].row = j.row /\ job'[r].took = j.took
      /\ job'[r].seen = j.seen
  BY <1>1, <1>4, MovedIs
<1> HIDE DEF n
<1>6. j.route \in Leg => j.leg = j.route
  BY <1>1 DEF Fits
<1>7. j.route \in Leg \cup {"REFUND"} /\ Running(r)
  BY <1>3 DEF Running, Leg, Conversion, Transfer
<1>8. Fits(r)'
  BY <1>1, <1>4, <1>5, <1>7, FitsThere DEF n
<1>9. Fresh(r)' /\ Covered(r)'
  BY <1>1, <1>3, <1>5 DEF Known, Fresh, Covered, Debited
<1>10. Passed(r)'
  <2>1. Passed(r) /\ Net(j.amount) \in Nat
    BY <1>1, NetIsNat DEF Known, IsJob
  <2> QED
    BY <1>2, <1>3, <1>5, <2>1 DEF Passed, Effect
<1>11. Recorded(r)'
  <2>1. HasRow(r)' = HasRow(r) /\ (faults' = 0 => faults = 0)
    BY <1>1 DEF HasRow, Onwards, Typed
  <2>2. e = "ledger" => Outside(r)' = Outside(r)
    BY <1>2 DEF Outside, Effect
  <2>3. e = "sent" => HasRow(r)
    BY <1>1, <1>3, <1>6 DEF Known, Stamped, HasRow, Leg, Transfer
  <2>4. e = "moved" /\ Outside(r) = {} => Outside(r)' \subseteq {"moved"}
    BY <1>2 DEF Outside, Effect
  <2>5. Recorded(r)
    BY <1>1 DEF Known
  <2> QED
    BY <1>3, <1>5, <1>6, <2>1, <2>2, <2>3, <2>4, <2>5
       DEF Recorded, BeforeRow, Leg, Conversion, Transfer
<1>12. Drawn(r)'
  <2>1. HasSmallRow(r)' = HasSmallRow(r) /\ (faults' = 0 => faults = 0)
    BY <1>1 DEF HasSmallRow, Onwards, Typed
  <2>2. Drawn(r) /\ beaten \subseteq beaten'
    BY <1>1 DEF Known, Onwards
  <2>3. e = "drawn" => did[r]["drawn"] = 0
    BY <1>3, NotYet
  <2> QED
    BY <1>2, <1>3, <1>5, <2>1, <2>2, <2>3 DEF Drawn, Effect
<1>13. Redeemed(r)'
  <2>1. Redeemed(r)
    BY <1>1 DEF Known
  <2>2. j.route \in {"ESOM_SOM", "REFUND"} => j.leg = "ESOM_SOM"
    BY <1>1, <1>6 DEF Fits, Leg, Conversion
  <2>3. CASE e = "paid"
    BY <1>2, <1>3, <1>5, <2>1, <2>2, <2>3 DEF Redeemed, Effect
  <2>4. CASE e = "refunded"
    BY <1>2, <1>3, <1>5, <2>1, <2>2, <2>4, NotYet DEF Redeemed, Effect
  <2>5. CASE e \notin {"paid", "refunded"}
    <3>1. /\ did'[r]["paid"] = did[r]["paid"]
          /\ did'[r]["refunded"] = did[r]["refunded"]
          /\ lost'[r]["paid"] = lost[r]["paid"]
          /\ did'[r]["burnt"] >= did[r]["burnt"]
          /\ did'[r]["burnt"] \in Nat /\ did[r]["burnt"] \in Nat
          /\ did[r]["refunded"] \in Nat
      BY <1>2, <2>5 DEF Effect
    <3>2. j.route = "ESOM_SOM" => (j.at + 1 > 6 <=> j.at > 6)
      BY <1>3, <2>5
    <3>3. ~(j.route = "REFUND")
      BY <1>3, <2>5
    <3> QED
      BY <1>5, <2>1, <3>1, <3>2, <3>3 DEF Redeemed
  <2> QED
    BY <2>3, <2>4, <2>5
<1>14. Found(r)'
  <2>1. RowsOf(r)' = RowsOf(r) /\ HasOwn(r)' = HasOwn(r)
    BY <1>5 DEF RowsOf, HasOwn
  <2> QED
    BY <1>1, <1>3, <1>5, <2>1 DEF Known, Found
<1>15. Stamped(r)'
  <2>1. Stamped(r)
    BY <1>1 DEF Known
  <2>2. e = "ledger" => j.leg # "SOM_SEND"
    BY <1>3, <1>6 DEF Leg, Conversion
  <2> QED
    BY <1>2, <1>3, <1>5, <2>1, <2>2 DEF Stamped, Over, Effect
<1> QED
  BY <1>5, <1>8, <1>9, <1>10, <1>11, <1>12, <1>13, <1>14, <1>15 DEF Known

-----------------------------------------------------------------------------
(* Steps that add a row                                                     *)

LEMMA RowAdded ==
  ASSUME Typed, NEW r \in Req, NEW x \in HistoryRow, x.by = r,
         history' = Append(history, x)
  PROVE  LET k == Len(history) + 1 IN
         /\ history' \in Seq(HistoryRow)
         /\ k \in DOMAIN history' /\ k \notin DOMAIN history /\ history'[k] = x
         /\ k \in Nat /\ k > 0
         /\ DOMAIN history' = DOMAIN history \cup {k}
         /\ \A i \in DOMAIN history : history'[i] = history[i]
         /\ RowsStay(r) /\ HasRow(r)'
         /\ \A i \in RowsOf(r) : i \in RowsOf(r)'
         /\ HasSmallRow(r) => HasSmallRow(r)'
<1> DEFINE k == Len(history) + 1
<1>1. history \in Seq(HistoryRow)
  BY DEF Typed
<1>2. /\ history' \in Seq(HistoryRow) /\ Len(history') = k /\ k \in Nat /\ k > 0
      /\ DOMAIN history = 1 .. Len(history) /\ DOMAIN history' = 1 .. k
      /\ Len(history) \in Nat
      /\ history'[k] = x /\ \A i \in 1 .. Len(history) : history'[i] = history[i]
  BY <1>1
<1>3. /\ k \in DOMAIN history' /\ k \notin DOMAIN history
      /\ DOMAIN history' = DOMAIN history \cup {k}
  BY <1>2
<1> HIDE DEF k
<1>4. RowsStay(r)
  BY <1>2, <1>3 DEF RowsStay, SameRow
<1>5. /\ HasRow(r)' /\ \A i \in RowsOf(r) : i \in RowsOf(r)'
      /\ HasSmallRow(r) => HasSmallRow(r)'
  BY <1>2, <1>3 DEF HasRow, RowsOf, HasSmallRow
<1> QED
  BY <1>2, <1>3, <1>4, <1>5 DEF k

\* The effects of others, and of a step that settles the ledger, stay.
Settles(r) == did' = did \/ Count(r, "ledger")

LEMMA SettlesIs ==
  ASSUME Typed, NEW r \in Req, Settles(r)
  PROVE  /\ did' \in [Req -> [Effect -> Nat]]
         /\ \A f \in Effect \ {"ledger"} : did'[r][f] = did[r][f]
         /\ \A q \in Req \ {r} : did'[q] = did[q]
         /\ \A q \in Req : \A f \in Effect : did[q][f] > 0 => did'[q][f] > 0
         /\ Outside(r)' = Outside(r)
<1>1. CASE did' = did
  BY <1>1 DEF Typed, Outside
<1>2. CASE Count(r, "ledger")
  <2>1. "ledger" \in Effect
    BY DEF Effect
  <2>2. /\ did' \in [Req -> [Effect -> Nat]]
        /\ \A f \in Effect \ {"ledger"} : did'[r][f] = did[r][f]
        /\ \A q \in Req \ {r} : did'[q] = did[q]
        /\ \A q \in Req : \A f \in Effect : did[q][f] \in Nat /\ did[q][f] <= did'[q][f]
    BY <1>2, <2>1, CountIs
  <2>3. \A q \in Req : \A f \in Effect : did'[q][f] \in Nat
    BY <2>2
  <2> QED
    BY <2>2, <2>3 DEF Outside
<1> QED
  BY <1>1, <1>2 DEF Settles

LEMMA RowAdvance ==
  ASSUME Inv, NEW r \in Req,
         \/ Step(r) = "row" /\ job[r].route # "SOM_SEND" /\ did' = did
         \/ Step(r) = "book" /\ Count(r, "ledger")
         \/ Step(r) = "shift" /\ Count(r, "ledger"),
         UNCHANGED <<lost, beaten, faults>>, job'[r] = Moved(job[r]),
         NEW out \in Nat, job[r].route \in Conversion => out = Net(job[r].amount),
         history' = Append(history, RowOf(r, "SUCCESS", out))
  PROVE  /\ IsJob(job[r])' /\ Known(r)' /\ RowsStay(r) /\ SuccessIsComplete'
         /\ history' \in Seq(HistoryRow)
<1> DEFINE j == job[r] k == Len(history) + 1 x == RowOf(r, "SUCCESS", out)
           n == Len(Route[j.route])
<1>1. IsJob(j) /\ Fits(r) /\ Known(r) /\ j.route \in Routes /\ Typed
  BY DEF Inv, Typed, Known, IsJob
<1>2. \/ j.route \in {"ESOM_USDT", "USDT_ESOM"} /\ j.at = 4 /\ did' = did
      \/ j.route = "ESOM_SOM" /\ j.at = 7 /\ did' = did
      \/ j.route = "ESOM_SEND" /\ j.at = 5 /\ did' = did
      \/ j.route = "SOM_ESOM" /\ j.at = 5 /\ Count(r, "ledger")
      \/ j.route = "ESOM_ADDR" /\ j.at = 2 /\ Count(r, "ledger")
  BY <1>1, Where
<1>3. /\ Running(r) /\ j.leg = j.route /\ j.leg \in Leg /\ j.who \in Customer
      /\ j.leg # "SOM_SEND" /\ j.row = 0
  <2>1. Running(r) /\ j.leg = j.route /\ j.leg \in Leg /\ j.who \in Customer
    BY <1>1, <1>2 DEF Fits, Running, Leg, Conversion, Transfer
  <2>2. j.leg # "SOM_SEND"
    BY <1>2, <2>1
  <2> QED
    BY <1>1, <2>1, <2>2 DEF Known, Stamped, IsJob
<1>4. /\ x \in HistoryRow /\ x.by = r /\ x.leg = j.leg /\ x.who = j.who
      /\ x.status = "SUCCESS" /\ x.out = out
  BY <1>3 DEF RowOf, HistoryRow
<1>5. /\ history' \in Seq(HistoryRow)
      /\ k \in DOMAIN history' /\ k \notin DOMAIN history /\ history'[k] = x
      /\ DOMAIN history' = DOMAIN history \cup {k}
      /\ \A i \in DOMAIN history : history'[i] = history[i]
      /\ RowsStay(r) /\ HasRow(r)' /\ \A i \in RowsOf(r) : i \in RowsOf(r)'
      /\ HasSmallRow(r) => HasSmallRow(r)'
  <2> HIDE DEF x
  <2> QED
    BY <1>1, <1>4, RowAdded DEF x
<1> HIDE DEF k, x
<1>6. /\ did' \in [Req -> [Effect -> Nat]]
      /\ \A f \in Effect \ {"ledger"} : did'[r][f] = did[r][f]
      /\ \A q \in Req : \A f \in Effect : did[q][f] > 0 => did'[q][f] > 0
  BY <1>1, <1>2, SettlesIs DEF Settles
<1>7. did[r] \in [Effect -> Nat] /\ Net(j.amount) \in Nat /\ lost'[r] = lost[r]
  BY <1>1, NetIsNat DEF Typed, IsJob
<1>8. SuccessIsComplete'
  <2>1. \A e \in Required(x) : did'[r][e] > 0
    <3>1. Passed(r)
      BY <1>1 DEF Known
    <3>2. CASE j.route = "ESOM_USDT"
      <4>1. Required(x) = {"burnt", "ledger"}
        BY <1>3, <1>4, <3>2 DEF Required
      <4> QED
        BY <1>2, <3>1, <3>2, <4>1 DEF Passed
    <3>3. CASE j.route = "USDT_ESOM"
      <4>1. Required(x) = {"ledger"} \cup (IF out > 0 THEN {"minted"} ELSE {})
        BY <1>3, <1>4, <3>3 DEF Required
      <4>2. out > 0 => Net(j.amount) # 0
        BY <3>3 DEF Conversion
      <4> QED
        BY <1>2, <3>1, <3>3, <4>1, <4>2 DEF Passed
    <3>4. CASE j.route = "ESOM_SOM"
      <4>1. Required(x) = {"paid"} \cup (IF out > 0 THEN {"burnt"} ELSE {})
        BY <1>3, <1>4, <3>4 DEF Required
      <4>2. out > 0 => Net(j.amount) # 0
        BY <3>4 DEF Conversion
      <4> QED
        BY <1>2, <3>1, <3>4, <4>1, <4>2 DEF Passed
    <3>5. CASE j.route = "ESOM_SEND"
      <4>1. Required(x) = {"moved"} \cup (IF Fee > 0 THEN {"fee"} ELSE {})
        BY <1>3, <1>4, <3>5 DEF Required
      <4> QED
        BY <1>2, <3>1, <3>5, <4>1, RailsAssumption DEF Passed
    <3>6. CASE j.route = "SOM_ESOM"
      <4>1. Required(x) = {"drawn"} \cup (IF out > 0 THEN {"minted"} ELSE {})
        BY <1>3, <1>4, <3>6 DEF Required
      <4>2. out > 0 => Net(j.amount) # 0
        BY <3>6 DEF Conversion
      <4>3. did[r]["drawn"] > 0 /\ (out > 0 => did[r]["minted"] > 0)
        BY <1>2, <3>1, <3>6, <4>2 DEF Passed
      <4> QED
        BY <1>6, <4>1, <4>3 DEF Effect
    <3>7. CASE j.route = "ESOM_ADDR"
      <4>1. Required(x) = {"ledger"}
        BY <1>3, <1>4, <3>7 DEF Required
      <4>2. did'[r]["ledger"] > 0
        BY <1>1, <1>2, <1>7, <3>7, CountIs DEF Effect
      <4> QED
        BY <4>1, <4>2
    <3> QED
      BY <1>2, <3>2, <3>3, <3>4, <3>5, <3>6, <3>7
  <2> QED
    BY <1>5, <1>6, <2>1, RowsComplete
<1>9. /\ IsJob(job[r])'
      /\ job'[r].leg = j.leg /\ job'[r].who = j.who /\ job'[r].amount = j.amount
      /\ job'[r].ticket = "none" /\ job'[r].row = 0 /\ job'[r].took = j.took
      /\ \/ /\ j.route \notin {"SOM_ESOM", "ESOM_ADDR"}
            /\ job'[r].route = j.route /\ job'[r].at = j.at + 1 /\ j.at + 1 \in 1 .. n
            /\ job'[r].then = j.then /\ job'[r].peer = j.peer
         \/ /\ job'[r].route = "BETWEEN" /\ job'[r].at = 1 /\ j.then # None
            /\ job'[r].then = j.then /\ job'[r].peer = j.peer
         \/ job'[r].route = "OVER" /\ job'[r].at = 1 /\ job'[r].then = None
  <2>1. /\ j.route = "SOM_ESOM" => n = 5
        /\ j.route \in {"ESOM_USDT", "USDT_ESOM"} => n = 7
        /\ j.route \in {"ESOM_SOM", "ESOM_SEND"} => n = 9
        /\ j.route = "ESOM_ADDR" => n = 2
    BY <1>1, Places
  <2>2. CASE j.route \notin {"SOM_ESOM", "ESOM_ADDR"}
    <3>1. j.at < n /\ j.at + 1 \in 1 .. n
      <4> HIDE DEF n
      <4> QED
        BY <1>2, <2>1, <2>2
    <3> QED
      BY <1>1, <1>3, <2>2, <3>1, MovedIs
  <2>3. CASE j.route \in {"SOM_ESOM", "ESOM_ADDR"}
    <3>1. j.at >= n
      <4> HIDE DEF n
      <4> QED
        BY <1>2, <2>1, <2>3
    <3>2. Moved(j) = IF j.then # None THEN On(j, "BETWEEN") ELSE Ended(j)
      BY <1>1, <2>3, <3>1, MovedIs
    <3> QED
      BY <1>1, <1>3, <3>2, OnIs, EndedIs DEF Routes
  <2> QED
    BY <2>2, <2>3
<1>10. Fits(r)'
  BY <1>1, <1>3, <1>9, FitsThere
<1> HIDE DEF n
<1>11. Fresh(r)' /\ Covered(r)' /\ Stamped(r)'
  BY <1>2, <1>3, <1>9 DEF Fresh, Covered, Stamped, Over, Leg, Conversion, Transfer
<1>12. Passed(r)'
  <2>1. CASE job'[r].route = j.route /\ did' = did /\ job'[r].at = j.at + 1
    BY <1>1, <1>2, <1>9, <2>1 DEF Known, Passed
  <2>2. CASE job'[r].route \in {"BETWEEN", "OVER"}
    BY <2>2 DEF Passed
  <2> QED
    BY <1>2, <1>9, <2>1, <2>2
<1>13. Recorded(r)'
  BY <1>5 DEF Recorded
<1>14. Drawn(r)'
  <2>1. j.route = "SOM_ESOM" /\ Net(j.amount) = 0 => HasSmallRow(r)'
    BY <1>4, <1>5 DEF HasSmallRow, Conversion
  <2> QED
    BY <1>1, <1>2, <1>5, <1>6, <1>9, <2>1 DEF Known, Drawn, Effect
<1>15. Redeemed(r)'
  <2>1. /\ did'[r]["paid"] = did[r]["paid"] /\ lost'[r]["paid"] = lost[r]["paid"]
        /\ did'[r]["refunded"] = did[r]["refunded"]
        /\ did'[r]["burnt"] = did[r]["burnt"]
    BY <1>6, <1>7 DEF Effect
  <2>2. job'[r].route = "ESOM_SOM" => j.route = "ESOM_SOM" /\ job'[r].at = 8 /\ j.at = 7
    BY <1>2, <1>9
  <2>3. job'[r].route # "REFUND"
    BY <1>2, <1>9
  <2> QED
    BY <1>1, <1>9, <2>1, <2>2, <2>3 DEF Known, Redeemed
<1>16. Found(r)'
  <2>1. HasOwn(r)'
    BY <1>4, <1>5, <1>9 DEF HasOwn
  <2>2. job'[r].then = None \/ job'[r].then = j.then
    BY <1>9
  <2>3. Found(r)
    BY <1>1 DEF Known
  <2>4. \A i \in RowsOf(r) : history'[i] = history[i]
    BY <1>5 DEF RowsOf
  <2> QED
    BY <1>5, <1>9, <2>1, <2>2, <2>3, <2>4 DEF Found
<1> QED
  BY <1>5, <1>8, <1>9, <1>10, <1>11, <1>12, <1>13, <1>14, <1>15, <1>16 DEF Known

LEMMA PendingKnown ==
  ASSUME Inv, NEW r \in Req, Step(r) = "row", job[r].route = "SOM_SEND",
         UNCHANGED <<did, lost, beaten, faults>>,
         history' = Append(history, RowOf(r, "PENDING", job[r].amount)),
         job'[r] = [Moved(job[r]) EXCEPT !.row = Len(history) + 1]
  PROVE  /\ IsJob(job[r])' /\ Known(r)' /\ RowsStay(r) /\ SuccessIsComplete'
         /\ history' \in Seq(HistoryRow)
<1> DEFINE j == job[r] k == Len(history) + 1 x == RowOf(r, "PENDING", j.amount)
           n == Len(Route[j.route]) m == Moved(j)
<1>1. IsJob(j) /\ Fits(r) /\ Known(r) /\ j.route \in Routes /\ Typed
  BY DEF Inv, Typed, Known, IsJob
<1>2. /\ j.at = 1 /\ Running(r) /\ j.leg = "SOM_SEND" /\ j.leg \in Leg
      /\ j.who \in Customer /\ j.took = 0 /\ j.then = None
  <2>1. j.at = 1 /\ Running(r) /\ j.leg = "SOM_SEND" /\ j.leg \in Leg
        /\ j.who \in Customer
    BY <1>1, Where DEF Fits, Running, Leg, Transfer
  <2>2. j.took = 0
    BY <1>1, <2>1 DEF Known, Found, IsJob
  <2>3. j.then = None
    BY <1>1, <2>1 DEF Fits, FirstLeg
  <2> QED
    BY <2>1, <2>2, <2>3
<1>3. /\ x \in HistoryRow /\ x.by = r /\ x.leg = j.leg /\ x.who = j.who
      /\ x.status = "PENDING"
  BY <1>1, <1>2 DEF RowOf, HistoryRow, IsJob
<1>4. /\ history' \in Seq(HistoryRow)
      /\ k \in DOMAIN history' /\ k \notin DOMAIN history /\ history'[k] = x
      /\ DOMAIN history' = DOMAIN history \cup {k} /\ k \in Nat /\ k > 0
      /\ \A i \in DOMAIN history : history'[i] = history[i]
      /\ RowsStay(r) /\ HasRow(r)'
      /\ HasSmallRow(r) => HasSmallRow(r)'
  <2> HIDE DEF x
  <2> QED
    BY <1>1, <1>3, RowAdded DEF x
<1> HIDE DEF k, x
<1>5. j.at < n /\ 2 \in 1 .. n
  <2>1. n = 4
    BY <1>1, Places
  <2> QED
    BY <1>2, <2>1
<1>6. /\ IsJob(m) /\ m.route = j.route /\ m.at = 2 /\ m.leg = j.leg /\ m.who = j.who
      /\ m.then = j.then /\ m.peer = j.peer /\ m.amount = j.amount
      /\ m.ticket = "none" /\ m.took = 0
  BY <1>1, <1>2, <1>5, MovedIs
<1>7. /\ IsJob(job[r])' /\ job'[r].row = k
      /\ job'[r].route = j.route /\ job'[r].at = 2 /\ job'[r].leg = j.leg
      /\ job'[r].who = j.who /\ job'[r].then = j.then /\ job'[r].peer = j.peer
      /\ job'[r].amount = j.amount /\ job'[r].ticket = "none" /\ job'[r].took = 0
  <2> HIDE DEF m
  <2> QED
    BY <1>4, <1>6 DEF IsJob, Fields, m, k
<1>8. SuccessIsComplete'
  BY <1>3, <1>4, RowsComplete
<1>9. Fits(r)'
  BY <1>1, <1>2, <1>5, <1>7, FitsThere
<1>10. Fresh(r)' /\ Passed(r)' /\ Covered(r)'
  BY <1>7 DEF Fresh, Passed, Covered, Leg, Transfer, Conversion
<1>11. Recorded(r)'
  BY <1>4 DEF Recorded
<1>12. Drawn(r)'
  BY <1>1, <1>4 DEF Known, Drawn
<1>13. Redeemed(r)'
  BY <1>1, <1>2, <1>7 DEF Known, Redeemed
<1>14. Found(r)'
  BY <1>7 DEF Found
<1>15. Stamped(r)'
  <2>1. did[r]["ledger"] = 0 /\ did[r]["sent"] = 0 /\ lost[r]["sent"] = 0
    BY <1>1, <1>2 DEF Known, Fresh, Leg, Transfer, Effect
  <2> QED
    BY <1>2, <1>3, <1>4, <1>7, <2>1 DEF Stamped, Over
<1> QED
  BY <1>4, <1>7, <1>8, <1>9, <1>10, <1>11, <1>12, <1>13, <1>14, <1>15 DEF Known

LEMMA FailedRow ==
  ASSUME Inv, NEW r \in Req, Step(r) = "catch", job[r].leg \in Conversion,
         UNCHANGED <<did, lost, beaten, faults>>, job'[r] = Ended(job[r]),
         NEW out \in Nat, history' = Append(history, RowOf(r, "FAILED", out))
  PROVE  /\ IsJob(job[r])' /\ Known(r)' /\ RowsStay(r) /\ SuccessIsComplete'
         /\ history' \in Seq(HistoryRow)
<1> DEFINE j == job[r] k == Len(history) + 1 x == RowOf(r, "FAILED", out)
<1>1. IsJob(j) /\ Fits(r) /\ Known(r) /\ j.route \in Routes /\ Typed
  BY DEF Inv, Typed, Known, IsJob
<1>2. /\ j.route = "CATCH" /\ Running(r) /\ j.leg # "SOM_SEND" /\ j.leg \in Leg
      /\ j.who \in Customer /\ j.row = 0
  <2>1. j.route = "CATCH" /\ Running(r) /\ j.leg # "SOM_SEND" /\ j.leg \in Leg
        /\ j.who \in Customer
    BY <1>1, Where DEF Fits, Running, Leg, Conversion
  <2> QED
    BY <1>1, <2>1 DEF Known, Stamped, IsJob
<1>3. /\ x \in HistoryRow /\ x.by = r /\ x.status = "FAILED"
  BY <1>1, <1>2 DEF RowOf, HistoryRow, IsJob
<1>4. /\ history' \in Seq(HistoryRow)
      /\ k \in DOMAIN history' /\ k \notin DOMAIN history /\ history'[k] = x
      /\ DOMAIN history' = DOMAIN history \cup {k}
      /\ \A i \in DOMAIN history : history'[i] = history[i]
      /\ \A i \in RowsOf(r) : i \in RowsOf(r)'
      /\ RowsStay(r) /\ HasRow(r)'
      /\ HasSmallRow(r) => HasSmallRow(r)'
  <2> HIDE DEF x
  <2> QED
    BY <1>1, <1>3, RowAdded DEF x
<1> HIDE DEF k, x
<1>5. /\ IsJob(job[r])' /\ job'[r].ticket = "none" /\ job'[r].leg = j.leg
      /\ job'[r].who = j.who /\ job'[r].amount = j.amount /\ job'[r].row = 0
      /\ job'[r].took = j.took /\ job'[r].route = "OVER" /\ job'[r].at = 1
      /\ job'[r].then = None
  BY <1>1, <1>2, EndedIs
<1>6. SuccessIsComplete'
  BY <1>3, <1>4, RowsComplete
<1>7. Fits(r)'
  BY <1>1, <1>2, <1>5, FitsThere
<1>8. Fresh(r)' /\ Passed(r)' /\ Covered(r)' /\ Stamped(r)'
  BY <1>5 DEF Fresh, Passed, Covered, Stamped, Over, Leg, Conversion, Transfer
<1>9. Recorded(r)'
  BY <1>4 DEF Recorded
<1>10. Drawn(r)'
  BY <1>1, <1>2, <1>4 DEF Known, Drawn
<1>11. Redeemed(r)'
  BY <1>1, <1>2, <1>5 DEF Known, Redeemed
<1>12. Found(r)'
  <2>1. Found(r) /\ \A i \in RowsOf(r) : history'[i] = history[i]
    BY <1>1, <1>4 DEF Known, RowsOf
  <2> QED
    BY <1>4, <1>5, <2>1 DEF Found
<1> QED
  BY <1>4, <1>5, <1>6, <1>7, <1>8, <1>9, <1>10, <1>11, <1>12 DEF Known

-----------------------------------------------------------------------------
(* The row of a SOM transfer gets its last status                            *)

LEMMA RowClosed ==
  ASSUME Inv, NEW r \in Req, UNCHANGED <<lost, beaten, faults>>,
         job'[r] = Ended(job[r]), NEW status \in {"SUCCESS", "FAILED"},
         history' = [history EXCEPT ![job[r].row].status = status],
         \/ /\ Step(r) = "settle" /\ status = "SUCCESS" /\ Count(r, "ledger")
         \/ /\ Step(r) = "catch" /\ job[r].leg = "SOM_SEND" /\ status = "FAILED"
            /\ did' = did
  PROVE  /\ IsJob(job[r])' /\ Known(r)' /\ RowsStay(r) /\ SuccessIsComplete'
         /\ history' \in Seq(HistoryRow)
<1> DEFINE j == job[r] k == job[r].row
<1>1. IsJob(j) /\ Fits(r) /\ Known(r) /\ j.route \in Routes /\ Typed
  BY DEF Inv, Typed, Known, IsJob
<1>2. /\ Running(r) /\ j.leg = "SOM_SEND" /\ j.took = 0
      /\ \/ j.route = "SOM_SEND" /\ j.at = 4 /\ Step(r) = "settle"
         \/ j.route = "CATCH" /\ Step(r) = "catch"
  <2>1. /\ Running(r) /\ j.leg = "SOM_SEND"
        /\ \/ j.route = "SOM_SEND" /\ j.at = 4 /\ Step(r) = "settle"
           \/ j.route = "CATCH" /\ Step(r) = "catch"
    BY <1>1, Where DEF Fits, Running, Leg, Transfer
  <2>2. j.took = 0
    BY <1>1, <2>1 DEF Known, Found, IsJob
  <2> QED
    BY <2>1, <2>2
<1>3. /\ k > 0 /\ k \in DOMAIN history /\ history[k].by = r
      /\ history[k].leg = "SOM_SEND" /\ history[k].status = "PENDING"
      /\ did[r]["ledger"] = 0
      /\ j.route = "CATCH" => did[r]["sent"] = lost[r]["sent"]
  BY <1>1, <1>2 DEF Known, Stamped
<1> HIDE DEF k
<1>4. history \in Seq(HistoryRow) /\ history[k] \in HistoryRow
  BY <1>1, <1>3 DEF Typed
<1>5. /\ history' \in Seq(HistoryRow)
      /\ DOMAIN history' = DOMAIN history /\ history'[k].status = status
      /\ SameRow(history'[k], history[k])
      /\ \A i \in DOMAIN history \ {k} : history'[i] = history[i]
  <2> DEFINE y == [history[k] EXCEPT !.status = status]
  <2>1. history' = [history EXCEPT ![k] = y]
    BY DEF k
  <2>2. y \in HistoryRow
    BY <1>4 DEF HistoryRow
  <2>3. y.status = status /\ SameRow(y, history[k])
    BY <1>4 DEF SameRow, HistoryRow
  <2> HIDE DEF y
  <2> QED
    BY <1>3, <1>4, <2>1, <2>2, <2>3
<1>6. RowsStay(r) /\ RowsOf(r)' = RowsOf(r) /\ HasRow(r)'
      /\ (HasSmallRow(r) => HasSmallRow(r)')
  BY <1>3, <1>5 DEF RowsStay, SameRow, RowsOf, HasRow, HasSmallRow
<1>7. /\ did' \in [Req -> [Effect -> Nat]]
      /\ \A f \in Effect \ {"ledger"} : did'[r][f] = did[r][f]
      /\ \A q \in Req : \A f \in Effect : did[q][f] > 0 => did'[q][f] > 0
  BY <1>1, SettlesIs DEF Settles
<1>8. IF status = "SUCCESS" THEN did'[r]["ledger"] = 1 /\ did[r]["sent"] > 0
                            ELSE did'[r]["ledger"] = 0 /\ did' = did
  <2>1. status = "SUCCESS" => did[r]["sent"] > 0
    BY <1>1, <1>2 DEF Known, Passed
  <2> QED
    BY <1>1, <1>3, <2>1, CountIs DEF Effect
<1>9. SuccessIsComplete'
  <2>1. status = "SUCCESS" => \A e \in Required(history'[k]) : did'[r][e] > 0
    <3>1. Required(history'[k]) = {"sent", "ledger"}
      BY <1>3, <1>5 DEF Required, SameRow
    <3> QED
      BY <1>7, <1>8, <3>1 DEF Effect
  <2> QED
    BY <1>5, <1>6, <1>7, <2>1, RowsComplete
<1>10. /\ IsJob(job[r])' /\ job'[r].ticket = "none" /\ job'[r].leg = j.leg
       /\ job'[r].who = j.who /\ job'[r].amount = j.amount /\ job'[r].row = k
       /\ job'[r].took = 0 /\ job'[r].route = "OVER" /\ job'[r].at = 1
       /\ job'[r].then = None
  BY <1>1, <1>2, EndedIs DEF k
<1>11. Fits(r)'
  BY <1>1, <1>2, <1>10, FitsThere
<1>12. Fresh(r)' /\ Passed(r)' /\ Covered(r)' /\ Found(r)'
  BY <1>10 DEF Fresh, Passed, Covered, Found, Leg, Conversion, Transfer
<1>13. Recorded(r)'
  BY <1>6 DEF Recorded
<1>14. Drawn(r)'
  BY <1>1, <1>2, <1>6, <1>7 DEF Known, Drawn, Effect
<1>15. Redeemed(r)'
  BY <1>1, <1>2, <1>7, <1>10 DEF Known, Redeemed, Effect
<1>16. Stamped(r)'
  <2>1. did'[r]["sent"] = did[r]["sent"]
    BY <1>7 DEF Effect
  <2> QED
    BY <1>2, <1>3, <1>5, <1>8, <1>10, <2>1 DEF Stamped, Over, SameRow
<1> QED
  BY <1>5, <1>6, <1>9, <1>10, <1>11, <1>12, <1>13, <1>14, <1>15, <1>16 DEF Known

-----------------------------------------------------------------------------
(* A payout whose answer does not arrive                                     *)

LEMMA PayoutThrewKnown ==
  ASSUME Inv, NEW r \in Req, Step(r) = "payout", UNCHANGED history, Onwards,
         faults' > 0, NEW v \in PayoutThrew(job[r]), job'[r] = v,
         \/ UNCHANGED <<did, lost>>
         \/ Count(r, "paid") /\ lost' = [lost EXCEPT ![r]["paid"] = @ + 1]
  PROVE  IsJob(job[r])' /\ Known(r)'
<1> DEFINE j == job[r]
<1>1. IsJob(j) /\ Fits(r) /\ Known(r) /\ j.route \in Routes /\ Typed
  BY DEF Inv, Typed, Known, IsJob
<1>2. j.route = "ESOM_SOM" /\ j.at = 6 /\ j.leg = "ESOM_SOM" /\ Running(r)
  BY <1>1, Where DEF Fits, Running, Leg, Conversion
<1>3. /\ \A f \in Effect \ {"paid"} : did'[r][f] = did[r][f] /\ lost'[r][f] = lost[r][f]
      /\ did[r] \in [Effect -> Nat] /\ lost[r] \in [Effect -> Nat]
      /\ \/ did'[r]["paid"] = did[r]["paid"] /\ lost'[r]["paid"] = lost[r]["paid"]
         \/ /\ did'[r]["paid"] = did[r]["paid"] + 1
            /\ lost'[r]["paid"] = lost[r]["paid"] + 1
  <2>1. CASE UNCHANGED <<did, lost>>
    BY <1>1, <2>1 DEF Typed
  <2>2. CASE Count(r, "paid") /\ lost' = [lost EXCEPT ![r]["paid"] = @ + 1]
    <3>1. /\ \A f \in Effect \ {"paid"} : did'[r][f] = did[r][f]
          /\ did'[r]["paid"] = did[r]["paid"] + 1
      BY <1>1, <2>2, CountIs DEF Effect
    <3>2. /\ \A f \in Effect \ {"paid"} : lost'[r][f] = lost[r][f]
          /\ lost'[r]["paid"] = lost[r]["paid"] + 1
      BY <1>1, <2>2 DEF Typed, Effect
    <3> QED
      BY <1>1, <3>1, <3>2 DEF Typed
  <2> QED
    BY <2>1, <2>2
<1>4. /\ IsJob(job[r])' /\ job'[r].leg = j.leg /\ job'[r].who = j.who
      /\ job'[r].amount = j.amount /\ job'[r].row = j.row /\ job'[r].took = j.took
      /\ job'[r].then = j.then /\ job'[r].peer = j.peer /\ job'[r].ticket = "none"
      /\ \/ job'[r].route = "REFUND" /\ job'[r].at = 1
         \/ job'[r].route = j.route /\ job'[r].at = j.at
  <2>1. CASE v = On(j, "REFUND")
    BY <1>1, <2>1, OnIs DEF Routes
  <2>2. CASE v = [j EXCEPT !.retried = TRUE]
    <3>1. j.ticket = "none"
      BY <1>1 DEF Fits, IsJob
    <3> QED
      BY <1>1, <2>2, <3>1 DEF IsJob, Fields
  <2> QED
    BY <2>1, <2>2 DEF PayoutThrew
<1>5. Fits(r)'
  <2>1. j.at \in 1 .. Len(Route[j.route])
    BY <1>1, LenIs
  <2> QED
    BY <1>1, <1>2, <1>4, <2>1, FitsThere
<1>6. Fresh(r)' /\ Covered(r)'
  BY <1>2, <1>4 DEF Fresh, Covered, Leg, Conversion, Transfer
<1>7. Passed(r)'
  BY <1>1, <1>2, <1>3, <1>4 DEF Known, Passed, Effect
<1>8. Recorded(r)'
  BY DEF Recorded
<1>9. Drawn(r)'
  BY <1>1, <1>3 DEF Known, Drawn, Effect
<1>10. Redeemed(r)'
  BY <1>1, <1>2, <1>3, <1>4 DEF Known, Redeemed, Effect
<1>11. Found(r)'
  <2>1. RowsOf(r)' = RowsOf(r)
    BY DEF RowsOf
  <2> QED
    BY <1>1, <1>2, <1>4, <2>1 DEF Known, Found
<1>12. Stamped(r)'
  BY <1>1, <1>2, <1>4 DEF Known, Stamped, Over
<1> QED
  BY <1>4, <1>5, <1>6, <1>7, <1>8, <1>9, <1>10, <1>11, <1>12 DEF Known

-----------------------------------------------------------------------------
(* Between the legs, and the start                                          *)

LEMMA MaxIs ==
  ASSUME NEW n \in Nat, NEW I \in SUBSET (1 .. n), I # {}
  PROVE  Max(I) \in I /\ \A y \in I : Max(I) >= y
<1> DEFINE T == {n - i : i \in I}
<1>1. T \subseteq Nat /\ T # {}
  <2>1. \A i \in I : n - i \in Nat
    OBVIOUS
  <2> QED
    BY <2>1
<1>2. PICK t \in T : \A y \in T : ~(<<y, t>> \in OpToRel(<, Nat))
  BY <1>1, NatLessThanWellFounded, WFMin
<1>3. \A y \in T : ~(y < t)
  <2>1. ASSUME NEW y \in T, y < t PROVE <<y, t>> \in OpToRel(<, Nat)
    BY <1>1, <2>1 DEF OpToRel
  <2> QED
    BY <1>2, <2>1
<1>4. PICK x \in I : t = n - x
  OBVIOUS
<1>5. \A y \in I : x >= y
  <2>1. ASSUME NEW y \in I PROVE x >= y
    <3>1. n - y \in T
      OBVIOUS
    <3>2. ~(n - y < n - x)
      BY <1>3, <1>4, <3>1
    <3> QED
      BY <3>2
  <2> QED
    BY <2>1
<1> QED
  BY <1>5 DEF Max

\* What the look-up between the legs finds.
LEMMA LatestIs ==
  ASSUME Typed, NEW r \in Req, HasOwn(r)
  PROVE  LET i == Latest(r) IN
         /\ i \in DOMAIN history /\ i \in Nat /\ i > 0
         /\ history[i] \in HistoryRow
         /\ history[i].who = job[r].who /\ history[i].leg = job[r].leg
         /\ history[i].status = "SUCCESS"
         /\ \E own \in RowsOf(r) : own <= i /\ history[own].leg = job[r].leg
<1> DEFINE I == {i \in 1 .. Len(history) : /\ history[i].who = job[r].who
                                           /\ history[i].leg = job[r].leg
                                           /\ history[i].status = "SUCCESS"}
<1>1. /\ history \in Seq(HistoryRow) /\ Len(history) \in Nat
      /\ DOMAIN history = 1 .. Len(history)
  BY DEF Typed
<1>2. PICK own \in DOMAIN history :
        /\ history[own].by = r /\ history[own].status = "SUCCESS"
        /\ history[own].who = job[r].who /\ history[own].leg = job[r].leg
  BY DEF HasOwn
<1>3. own \in I /\ own \in RowsOf(r)
  BY <1>1, <1>2 DEF RowsOf
<1>4. Latest(r) = Max(I)
  BY <1>3 DEF Latest, SelectLastInSeq
<1>5. Max(I) \in I /\ \A y \in I : Max(I) >= y
  <2> HIDE DEF I
  <2>1. I \in SUBSET (1 .. Len(history)) /\ I # {}
    BY <1>3 DEF I
  <2> QED
    BY <1>1, <2>1, MaxIs
<1> DEFINE i == Max(I)
<1>6. /\ i \in 1 .. Len(history) /\ history[i].who = job[r].who
      /\ history[i].leg = job[r].leg /\ history[i].status = "SUCCESS"
  BY <1>5
<1>7. i >= own /\ own \in 1 .. Len(history)
  BY <1>3, <1>5
<1>8. Latest(r) = i
  BY <1>4
<1> HIDE DEF I, i
<1>9. i \in Nat /\ i > 0 /\ own <= i /\ i \in DOMAIN history
      /\ history[i] \in HistoryRow
  BY <1>1, <1>6, <1>7
<1> QED
  BY <1>2, <1>3, <1>6, <1>8, <1>9

LEMMA SecondLegKnown ==
  ASSUME Inv, NEW r \in Req, Step(r) = "between",
         UNCHANGED <<history, did, lost, beaten, faults>>,
         history[Latest(r)].out > 0,
         job'[r] = [On(job[r], job[r].then) EXCEPT
                      !.leg = job[r].then, !.then = None,
                      !.amount = history[Latest(r)].out, !.took = Latest(r)]
  PROVE  IsJob(job[r])' /\ Known(r)'
<1> DEFINE j == job[r] i == Latest(r) x == history[i]
<1>1. IsJob(j) /\ Fits(r) /\ Known(r) /\ j.route \in Routes /\ Typed
  BY DEF Inv, Typed, Known, IsJob
<1>2. /\ j.route = "BETWEEN" /\ Running(r) /\ j.who \in Customer
      /\ j.then \in {"ESOM_USDT", "ESOM_SOM"} /\ j.leg \in FirstLeg
      /\ j.leg # "ESOM_SOM" /\ j.leg # "SOM_SEND" /\ j.row = 0
  <2>1. /\ j.route = "BETWEEN" /\ Running(r) /\ j.who \in Customer
        /\ j.then \in {"ESOM_USDT", "ESOM_SOM"} /\ j.leg \in FirstLeg
    BY <1>1, Where DEF Fits, Running, IsJob
  <2>2. j.leg # "ESOM_SOM" /\ j.leg # "SOM_SEND"
    BY <2>1 DEF FirstLeg
  <2> QED
    BY <1>1, <2>1, <2>2 DEF Known, Stamped, IsJob
<1>3. HasOwn(r) /\ HasRow(r)
  BY <1>1, <1>2 DEF Known, Found, HasOwn, HasRow
<1>4. /\ i \in DOMAIN history /\ i \in Nat /\ i > 0
      /\ x \in HistoryRow /\ x.who = j.who /\ x.leg = j.leg /\ x.status = "SUCCESS"
      /\ \E own \in RowsOf(r) : own <= i /\ history[own].leg = j.leg
  BY <1>1, <1>3, LatestIs
<1>5. x.out \in Nat
  BY <1>4 DEF HistoryRow
<1> HIDE DEF i
<1>6. /\ IsJob(job[r])' /\ job'[r].route = j.then /\ job'[r].leg = j.then
      /\ job'[r].at = 1 /\ job'[r].ticket = "none" /\ job'[r].who = j.who
      /\ job'[r].amount = x.out /\ job'[r].then = None /\ job'[r].row = 0
      /\ job'[r].took = i
  <2> DEFINE m == On(j, j.then)
  <2>1. /\ IsJob(m) /\ m.route = j.then /\ m.at = 1 /\ m.ticket = "none"
        /\ m.who = j.who /\ m.row = 0
    BY <1>1, <1>2, OnIs DEF Routes, Leg, Conversion
  <2>2. job'[r] = [m EXCEPT !.leg = j.then, !.then = None, !.amount = x.out,
                            !.took = i]
    BY DEF i
  <2> HIDE DEF m, x
  <2> QED
    BY <1>2, <1>4, <1>5, <2>1, <2>2, ZenonT(40) DEF IsJob, Fields, Leg, Conversion
<1>7. Fits(r)'
  <2>1. 1 \in DOMAIN Route["ESOM_USDT"] /\ 1 \in DOMAIN Route["ESOM_SOM"]
    BY DEF Route, EsomToUsdtRoute, RedemptionRoute
  <2> QED
    BY <1>2, <1>6, <2>1 DEF Fits, Leg, Conversion, Transfer, FirstLeg
<1>8. Fresh(r)' /\ Passed(r)' /\ Covered(r)' /\ Stamped(r)'
  BY <1>2, <1>4, <1>6 DEF Fresh, Passed, Covered, Stamped, Over
<1>9. Recorded(r)'
  BY <1>3 DEF Recorded, HasRow
<1>10. Drawn(r)'
  BY <1>1, <1>2 DEF Known, Drawn, HasSmallRow
<1>11. Redeemed(r)'
  <2>1. did[r]["paid"] = 0 /\ did[r]["refunded"] = 0 /\ lost[r]["paid"] = 0
    BY <1>1, <1>2 DEF Known, Redeemed
  <2>2. did[r]["burnt"] \in Nat
    BY <1>1 DEF Typed, Effect
  <2> QED
    BY <1>2, <1>6, <2>1, <2>2 DEF Redeemed
<1>12. Found(r)'
  BY <1>2, <1>4, <1>6 DEF Found, RowsOf
<1> QED
  BY <1>6, <1>7, <1>8, <1>9, <1>10, <1>11, <1>12 DEF Known

LEMMA StartKnown ==
  ASSUME Inv, NEW r \in Req, UNCHANGED <<history, did, lost, beaten, faults>>,
         NEW o \in Asks[r], job[r].route = "IDLE",
         job'[r] = [NoJob EXCEPT !.route = o.leg, !.leg = o.leg, !.then = o.then,
                      !.who = o.who, !.peer = o.peer, !.amount = o.amount]
  PROVE  IsJob(job[r])' /\ Known(r)'
<1>1. Known(r) /\ Typed
  BY DEF Inv
<1>2. /\ o.leg \in Leg /\ o.then \in {None, "ESOM_USDT", "ESOM_SOM"}
      /\ o.who \in Customer /\ o.peer \in Customer \cup {None} /\ o.amount \in Nat
      /\ Net(o.amount) \notin 1 .. Platform /\ (o.then # None => o.leg \in FirstLeg)
      /\ o.leg \in Transfer => o.peer \in Customer
  <2>1. o \in Order
    BY RailsAssumption
  <2> QED
    BY <2>1, AsksAssumption DEF Order, FirstLeg
<1>3. /\ IsJob(job[r])' /\ job'[r].route = o.leg /\ job'[r].at = 1
      /\ job'[r].leg = o.leg /\ job'[r].then = o.then /\ job'[r].who = o.who
      /\ job'[r].peer = o.peer /\ job'[r].amount = o.amount
      /\ job'[r].ticket = "none" /\ job'[r].row = 0 /\ job'[r].took = 0
  BY <1>2 DEF NoJob, IsJob, Fields, Routes
<1>4. \A e \in Effect : did[r][e] = 0 /\ lost[r][e] = 0
  BY <1>1 DEF Known, Fresh
<1>5. Fits(r)'
  <2>1. 1 \in DOMAIN Route[o.leg]
    <3>1. Len(Route[o.leg]) \in 1 .. 9
      BY <1>2
         DEF Leg, Conversion, Transfer, Route, PurchaseRoute, EsomToUsdtRoute,
             UsdtToEsomRoute, RedemptionRoute, SomSendRoute, EsomSendRoute,
             AddressRoute
    <3> QED
      BY <1>2, <3>1, RouteDomains DEF Routes
  <2> QED
    BY <1>2, <1>3, <2>1 DEF Fits, Running, Leg, Conversion, Transfer
<1>6. Fresh(r)' /\ Passed(r)' /\ Covered(r)' /\ Stamped(r)' /\ Found(r)'
  BY <1>2, <1>3, <1>4
     DEF Fresh, Passed, Covered, Stamped, Found, Over, Leg, Conversion, Transfer
<1>7. Outside(r)' = {}
  BY <1>4 DEF Outside
<1>8. Recorded(r)' /\ Drawn(r)' /\ Redeemed(r)'
  BY <1>2, <1>3, <1>4, <1>7
     DEF Recorded, Drawn, Redeemed, Effect, Leg, Conversion, Transfer
<1> QED
  BY <1>3, <1>5, <1>6, <1>8 DEF Known

LEMMA NonceKnown ==
  ASSUME Inv, NEW r \in Req, UNCHANGED <<history, did, lost, beaten, faults>>,
         NeedsNonce(r), job'[r] = [job[r] EXCEPT !.ticket = "fresh"]
  PROVE  IsJob(job[r])' /\ Known(r)'
<1>1. Known(r) /\ Typed /\ IsJob(job[r]) /\ Step(r) \in {"mint", "gas"}
  BY DEF Inv, Typed, NeedsNonce
<1>2. /\ IsJob(job[r])'
      /\ \A f \in Fields \ {"ticket"} : job'[r][f] = job[r][f]
  BY <1>1 DEF IsJob, Fields
<1>3. /\ job'[r].route = job[r].route /\ job'[r].at = job[r].at
      /\ job'[r].leg = job[r].leg /\ job'[r].then = job[r].then
      /\ job'[r].who = job[r].who /\ job'[r].peer = job[r].peer
      /\ job'[r].amount = job[r].amount /\ job'[r].seen = job[r].seen
      /\ job'[r].row = job[r].row /\ job'[r].took = job[r].took
  BY <1>2 DEF Fields
<1>4. /\ Step(r)' = Step(r) /\ Over(r)' = Over(r) /\ Running(r)' = Running(r)
      /\ Outside(r)' = Outside(r) /\ HasRow(r)' = HasRow(r)
      /\ RowsOf(r)' = RowsOf(r) /\ HasSmallRow(r)' = HasSmallRow(r)
      /\ HasOwn(r)' = HasOwn(r)
  BY <1>3 DEF Step, Over, Running, Outside, HasRow, RowsOf, HasSmallRow, HasOwn
<1>5. Fits(r)' /\ Fresh(r)' /\ Passed(r)' /\ Covered(r)'
  BY <1>1, <1>3, <1>4 DEF Known, Fits, Fresh, Passed, Covered, Debited
<1>6. Recorded(r)' /\ Drawn(r)' /\ Redeemed(r)'
  BY <1>1, <1>3, <1>4 DEF Known, Recorded, BeforeRow, Drawn, Redeemed
<1>7. Found(r)' /\ Stamped(r)'
  BY <1>1, <1>3, <1>4 DEF Known, Found, Stamped
<1> QED
  BY <1>2, <1>5, <1>6, <1>7 DEF Known

-----------------------------------------------------------------------------
(* Each action keeps the invariant                                          *)

Accounts == /\ esom' \in [Customer -> Nat] /\ bank' \in [Customer -> Nat]
            /\ balance' \in [Customer -> [Asset -> Int]]

LEMMA Actor ==
  ASSUME Inv, NEW r \in Req
  PROVE  LET j == job[r] IN
         /\ Typed /\ IsJob(j) /\ Known(r) /\ Fits(r) /\ j.route \in Routes
         /\ j.amount \in Nat /\ Net(j.amount) \in Nat /\ j.seen \in Int
         /\ Step(r) \notin {"idle", "over"} => Running(r)
         /\ Running(r) => j.who \in Customer
         /\ Running(r) /\ j.route \in Transfer => j.peer \in Customer
         /\ IsJob(Moved(j)) /\ IsJob(Threw(j)) /\ IsJob(Ended(j))
         /\ UNCHANGED <<outside, balance>> => Accounts
         /\ UNCHANGED faults /\ (beaten' = beaten \/ beaten' = beaten \cup {r})
              => Onwards
         /\ Faulty /\ beaten' = beaten => Onwards /\ faults' > 0
<1> DEFINE j == job[r]
<1>1. /\ Typed /\ IsJob(j) /\ Known(r) /\ Fits(r) /\ j.route \in Routes
      /\ j.amount \in Nat /\ Net(j.amount) \in Nat /\ j.seen \in Int
  BY NetIsNat DEF Inv, Typed, Known, IsJob
<1>2. /\ Step(r) \notin {"idle", "over"} => Running(r)
      /\ Running(r) => j.who \in Customer
      /\ Running(r) /\ j.route \in Transfer => j.peer \in Customer
  <2>1. j.route = "IDLE" => Step(r) = "idle"
    BY <1>1, Places
  <2>2. j.route = "OVER" => Step(r) = "over"
    BY <1>1, Places
  <2> QED
    BY <1>1, <2>1, <2>2 DEF Running, Fits, Leg
<1>3. IsJob(Moved(j)) /\ IsJob(Threw(j)) /\ IsJob(Ended(j))
  BY <1>1, MovedIs, ThrewIs, EndedIs
<1>4. UNCHANGED <<outside, balance>> => Accounts
  BY <1>1 DEF Typed, Accounts, outside
<1>5. /\ UNCHANGED faults /\ (beaten' = beaten \/ beaten' = beaten \cup {r})
           => Onwards
      /\ Faulty /\ beaten' = beaten => Onwards /\ faults' > 0
  BY <1>1, RailsAssumption DEF Typed, Onwards, Faulty
<1> QED
  BY <1>1, <1>2, <1>3, <1>4, <1>5

\* Where the step puts r.
Puts(r, v) == \/ job' = [job EXCEPT ![r] = v]
              \/ job' = Spent([job EXCEPT ![r] = v], r)

LEMMA PutsIs ==
  ASSUME Inv, NEW r \in Req, NEW v, Puts(r, v)
  PROVE  job'[r] = v
BY DEF Inv, Typed, Puts, Spent

LEMMA QuietInvPuts ==
  ASSUME Inv, NEW r \in Req, NEW v, Puts(r, v),
         UNCHANGED <<history, did, lost>>, Onwards, Accounts,
         IsJob(job[r])' /\ Known(r)'
  PROVE  Inv'
<1>1. job'[r] = v
  BY PutsIs
<1>2. IsJob(v)
  BY <1>1
<1> QED
  BY <1>2, QuietInv DEF Puts, Accounts

LEMMA GoesInv ==
  ASSUME Inv, NEW r \in Req, Quiet(r), Step(r) # "check",
         Puts(r, Moved(job[r])),
         UNCHANGED <<history, did, lost>>, Onwards, Accounts
  PROVE  Inv'
<1>1. job'[r] = Moved(job[r])
  BY PutsIs
<1>2. IsJob(job[r])' /\ Known(r)'
  <2>1. 0 \in Int
    OBVIOUS
  <2> QED
    BY <1>1, <2>1, QuietAdvance
<1> QED
  BY <1>2, QuietInvPuts

LEMMA ThrowsInv ==
  ASSUME Inv, NEW r \in Req, Running(r), Step(r) \notin {"catch", "between"},
         Puts(r, Threw(job[r])),
         UNCHANGED <<history, did, lost>>, Onwards, Accounts,
         \/ faults' > 0
         \/ r \in beaten' /\ Step(r) \in {"mint", "gas"}
         \/ Step(r) \in {"draw", "resolve", "burn", "send", "move", "fee", "check"}
  PROVE  Inv'
<1>1. job'[r] = Threw(job[r])
  BY PutsIs
<1>2. IsJob(job[r])' /\ Known(r)'
  BY <1>1, QuietThrow
<1> QED
  BY <1>2, QuietInvPuts

LEMMA EndsInv ==
  ASSUME Inv, NEW r \in Req, Puts(r, Ended(job[r])),
         UNCHANGED <<history, did, lost>>, Onwards, Accounts,
         \/ job[r].route \in Leg /\ job[r].at = 1
         \/ job[r].route = "BETWEEN"
         \/ job[r].route = "CATCH" /\ faults' > 0
  PROVE  Inv'
<1>1. job'[r] = Ended(job[r])
  BY PutsIs
<1>2. IsJob(job[r])' /\ Known(r)'
  BY <1>1, QuietEnd
<1> QED
  BY <1>2, QuietInvPuts

\* A step with an effect that leaves the history alone.
LEMMA EffectInv ==
  ASSUME Inv, NEW r \in Req, NEW v, Puts(r, v), NEW e \in Effect, Count(r, e),
         lost' = lost \/ lost' = [lost EXCEPT ![r][e] = @ + 1],
         UNCHANGED history, Onwards, Accounts, IsJob(job[r])' /\ Known(r)'
  PROVE  Inv'
<1>1. job'[r] = v
  BY PutsIs
<1>2. IsJob(v)
  BY <1>1
<1>3. Typed
  BY DEF Inv
<1>4. /\ did' \in [Req -> [Effect -> Nat]]
      /\ \A q \in Req \ {r} : did'[q] = did[q]
      /\ \A q \in Req : \A f \in Effect : did[q][f] > 0 => did'[q][f] > 0
  <2>1. /\ did' \in [Req -> [Effect -> Nat]]
        /\ \A q \in Req \ {r} : did'[q] = did[q]
        /\ \A q \in Req : \A f \in Effect : did[q][f] \in Nat /\ did[q][f] <= did'[q][f]
    BY <1>3, CountIs
  <2>2. \A q \in Req : \A f \in Effect : did'[q][f] \in Nat
    BY <2>1
  <2> QED
    BY <2>1, <2>2
<1>5. /\ lost' \in [Req -> [Effect -> Nat]]
      /\ \A q \in Req \ {r} : lost'[q] = lost[q]
  <2>1. lost[r][e] + 1 \in Nat
    BY <1>3 DEF Typed
  <2>2. CASE lost' = [lost EXCEPT ![r][e] = @ + 1]
    BY <1>3, <2>1, <2>2 DEF Typed
  <2> QED
    BY <1>3, <2>2 DEF Typed
<1>6. RowsStay(r) /\ history' \in Seq(HistoryRow)
  BY <1>3 DEF RowsStay, SameRow, Typed
<1>7. SuccessIsComplete'
  BY <1>4, <1>6, RowsComplete
<1> QED
  BY <1>2, <1>4, <1>5, <1>6, <1>7, StepInv DEF Puts, Accounts

\* A step that writes the history.
LEMMA RowInv ==
  ASSUME Inv, NEW r \in Req, NEW v, Puts(r, v), Settles(r), lost' = lost,
         Onwards, Accounts, IsJob(job[r])' /\ Known(r)',
         RowsStay(r), SuccessIsComplete', history' \in Seq(HistoryRow)
  PROVE  Inv'
<1>1. job'[r] = v
  BY PutsIs
<1>2. IsJob(v) /\ Typed
  BY <1>1 DEF Inv
<1>3. /\ did' \in [Req -> [Effect -> Nat]]
      /\ \A q \in Req \ {r} : did'[q] = did[q] /\ lost'[q] = lost[q]
      /\ lost' \in [Req -> [Effect -> Nat]]
  BY <1>2, SettlesIs DEF Typed
<1> QED
  BY <1>2, <1>3, StepInv DEF Puts, Accounts


LEMMA RailInv == ASSUME Inv, NEW r \in Req, RailStep(r) PROVE Inv'
<1> DEFINE j == job[r]
<1>1. /\ Typed /\ IsJob(j) /\ Known(r) /\ Fits(r) /\ j.route \in Routes
      /\ j.amount \in Nat /\ Net(j.amount) \in Nat /\ j.seen \in Int
      /\ Step(r) \notin {"idle", "over"} => Running(r)
      /\ Running(r) => j.who \in Customer
  BY Actor
<1>2. CASE ReadNonce(r)
  <2>1. Puts(r, [j EXCEPT !.ticket = "fresh"])
    BY <1>2 DEF ReadNonce, Puts
  <2>2. job'[r] = [j EXCEPT !.ticket = "fresh"]
    BY <2>1, PutsIs
  <2>3. UNCHANGED <<outside, balance, history, did, lost, beaten, faults>>
    BY <1>2 DEF ReadNonce
  <2>4. IsJob(job[r])' /\ Known(r)'
    BY <1>2, <2>2, <2>3, NonceKnown DEF ReadNonce
  <2>5. Onwards /\ Accounts
    BY <2>3, Actor
  <2> QED
    BY <2>1, <2>3, <2>4, <2>5, QuietInvPuts
<1>3. CASE NonceRefused(r)
  <2>1. Step(r) \in {"mint", "gas"} /\ Running(r)
    BY <1>1, <1>3 DEF NonceRefused, NeedsNonce
  <2>2. /\ Puts(r, Threw(j)) /\ beaten' = beaten \cup {r}
        /\ UNCHANGED <<outside, balance, history, did, lost, faults>>
    BY <1>3 DEF NonceRefused, Throws, Puts
  <2>3. Onwards /\ Accounts
    BY <2>2, Actor
  <2> QED
    BY <2>1, <2>2, <2>3, ThrowsInv
<1>4. CASE GasSuffices(r) \/ GasSent(r) \/ MintSkipped(r)
  <2>1. Quiet(r) /\ Step(r) # "check"
    BY <1>4 DEF GasSuffices, GasSent, MintSkipped, Quiet
  <2>2. /\ Puts(r, Moved(j))
        /\ UNCHANGED <<outside, balance, history, did, lost, beaten, faults>>
    BY <1>4 DEF GasSuffices, GasSent, MintSkipped, Goes, Puts
  <2>3. Onwards /\ Accounts
    BY <2>2, Actor
  <2> QED
    BY <2>1, <2>2, <2>3, GoesInv
<1>5. CASE Mint(r)
  <2> DEFINE e == IF j.route = "REFUND" THEN "refunded" ELSE "minted"
  <2>1. e \in Effect /\ Due(r, e) /\ Running(r)
    BY <1>1, <1>5 DEF Mint, Due, Effect
  <2>2. /\ Count(r, e) /\ UNCHANGED <<bank, balance, history, beaten>>
        /\ esom' = [esom EXCEPT ![j.who] = @ + MintAmount(j)]
        /\ \/ Puts(r, Moved(j)) /\ UNCHANGED <<lost, faults>>
           \/ /\ Puts(r, Threw(j)) /\ lost' = [lost EXCEPT ![r][e] = @ + 1]
              /\ Faulty
    BY <1>5 DEF Mint, Puts
  <2> HIDE DEF e
  <2>3. MintAmount(j) \in Nat
    <3>1. j.route # "REFUND" => Net(j.amount) > 0 /\ Net(j.amount) \notin 1 .. Platform
      BY <1>1, <1>5, Where DEF Mint, NeedsMint, Fits, FirstLeg
    <3> QED
      BY <1>1, <3>1, RailsAssumption DEF MintAmount
  <2>4. Onwards
    BY <2>2, Actor
  <2>5. Accounts
    BY <1>1, <2>1, <2>2, <2>3 DEF Accounts, Typed
  <2>6. CASE Puts(r, Moved(j)) /\ UNCHANGED <<lost, faults>>
    <3>1. IsJob(job[r])' /\ Known(r)'
      BY <2>1, <2>2, <2>4, <2>6, PutsIs, EffectAdvance
    <3> QED
      BY <2>1, <2>2, <2>4, <2>5, <2>6, <3>1, EffectInv
  <2>7. CASE /\ Puts(r, Threw(j)) /\ lost' = [lost EXCEPT ![r][e] = @ + 1]
             /\ Faulty
    <3>1. faults' > 0
      BY <2>2, <2>7, Actor
    <3>2. IsJob(job[r])' /\ Known(r)'
      BY <2>1, <2>2, <2>4, <2>7, <3>1, PutsIs, LostThrow
    <3> QED
      BY <2>1, <2>2, <2>4, <2>5, <2>7, <3>2, EffectInv
  <2> QED
    BY <2>2, <2>6, <2>7
<1>6. CASE RefreshRead(r)
  <2> DEFINE x == esom[Refreshed(r)] v == [Moved(j) EXCEPT !.seen = x]
  <2>1. /\ Puts(r, v) /\ Step(r) \in {"look", "lookPeer"} /\ Quiet(r)
        /\ UNCHANGED <<outside, balance, history, did, lost, beaten, faults>>
    BY <1>6 DEF RefreshRead, Puts, Quiet
  <2>2. Refreshed(r) \in Customer
    <3>1. Step(r) = "lookPeer" => j.route = "ESOM_SEND"
      BY <1>1, Where
    <3> QED
      BY <2>1, <3>1, Actor DEF Refreshed, Transfer
  <2>3. x \in Int
    BY <1>1, <2>2 DEF Typed
  <2>4. Onwards /\ Accounts
    BY <2>1, Actor
  <2>5. job'[r] = v
    BY <2>1, PutsIs
  <2> HIDE DEF x
  <2>6. IsJob(job[r])' /\ Known(r)'
    BY <2>1, <2>3, <2>4, <2>5, QuietAdvance
  <2> QED
    BY <2>1, <2>4, <2>6, QuietInvPuts
<1>7. CASE RefreshWrite(r)
  <2>1. /\ Puts(r, Moved(j)) /\ Step(r) \in {"refresh", "refreshPeer"} /\ Quiet(r)
        /\ UNCHANGED <<outside, history, did, lost, beaten, faults>>
        /\ balance' = [balance EXCEPT ![Refreshed(r)]["ESOM"] = j.seen]
    BY <1>7 DEF RefreshWrite, Goes, Puts, Quiet
  <2>2. Onwards
    BY <2>1, Actor
  <2>3. Accounts
    BY <1>1, <2>1 DEF Accounts, Typed, outside
  <2> QED
    BY <2>1, <2>2, <2>3, GoesInv
<1>8. CASE RefreshSwallowed(r)
  <2>1. /\ Puts(r, Moved(j)) /\ Step(r) \in {"refresh", "refreshPeer"} /\ Quiet(r)
        /\ UNCHANGED <<outside, balance, history, did, lost, beaten>> /\ Faulty
    BY <1>8 DEF RefreshSwallowed, Goes, Puts, Quiet
  <2>2. Onwards /\ Accounts
    BY <2>1, Actor
  <2> QED
    BY <2>1, <2>2, GoesInv
<1> QED
  BY <1>2, <1>3, <1>4, <1>5, <1>6, <1>7, <1>8 DEF RailStep

\* A call with an effect and its two answers.
LEMMA AnsweredInv ==
  ASSUME Inv, NEW r \in Req, NEW e \in Effect, Due(r, e), Answered(r, e),
         UNCHANGED <<history, beaten>>, Accounts
  PROVE  Inv'
<1> DEFINE j == job[r]
<1>1. CASE Goes(r) /\ UNCHANGED <<lost, faults>>
  <2>1. Puts(r, Moved(j)) /\ Count(r, e)
    BY <1>1 DEF Goes, Puts, Answered
  <2>2. Onwards
    BY <1>1, Actor
  <2>3. IsJob(job[r])' /\ Known(r)'
    BY <1>1, <2>1, <2>2, PutsIs, EffectAdvance
  <2> QED
    BY <1>1, <2>1, <2>2, <2>3, EffectInv
<1>2. CASE Faulty /\ Throws(r) /\ lost' = [lost EXCEPT ![r][e] = @ + 1]
  <2>1. Puts(r, Threw(j)) /\ Count(r, e)
    BY <1>2 DEF Throws, Puts, Answered
  <2>2. Onwards /\ faults' > 0
    BY <1>2, Actor
  <2>3. IsJob(job[r])' /\ Known(r)'
    BY <1>2, <2>1, <2>2, PutsIs, LostThrow
  <2> QED
    BY <1>2, <2>1, <2>2, <2>3, EffectInv
<1> QED
  BY <1>1, <1>2 DEF Answered


LEMMA PostIs ==
  ASSUME Typed, NEW r \in Req, job[r].leg \in Conversion, Running(r), Fits(r),
         job[r].amount \in Nat, Net(job[r].amount) \in Nat, Post(r),
         UNCHANGED outside
  PROVE  Accounts
<1> DEFINE c == job[r].who x == Credit(job[r].leg, job[r].amount)
<1>1. c \in Customer
  BY DEF Fits
<1>2. x.asset \in Asset /\ x.n \in Int
  BY DEF Credit, Conversion, Asset
<1>3. balance' = [balance EXCEPT ![c][x.asset] = @ + x.n]
  BY DEF Post
<1> HIDE DEF x
<1>4. balance[c][x.asset] + x.n \in Int
  BY <1>1, <1>2 DEF Typed
<1>5. balance' \in [Customer -> [Asset -> Int]]
  BY <1>1, <1>2, <1>3, <1>4 DEF Typed
<1> QED
  BY <1>5 DEF Typed, Accounts, outside

LEMMA ConversionInv == ASSUME Inv, NEW r \in Req, ConversionStep(r) PROVE Inv'
<1> DEFINE j == job[r]
<1>1. /\ Typed /\ IsJob(j) /\ Known(r) /\ Fits(r) /\ j.route \in Routes
      /\ j.amount \in Nat /\ Net(j.amount) \in Nat
      /\ Step(r) \notin {"idle", "over"} => Running(r)
      /\ Running(r) => j.who \in Customer
  BY Actor
<1>2. CASE CheckUsdt(r)
  <2> DEFINE x == balance[j.who]["USDT"] v == [Moved(j) EXCEPT !.seen = x]
  <2>1. /\ j.route = "USDT_ESOM" /\ Step(r) = "check" /\ j.at = 1
        /\ UNCHANGED <<outside, balance, history, did, lost, beaten, faults>>
        /\ \/ x >= j.amount /\ Puts(r, v)
           \/ Puts(r, Ended(j))
    BY <1>1, <1>2, Where DEF CheckUsdt, Puts
  <2>2. Onwards /\ Accounts
    BY <2>1, Actor
  <2>3. CASE x >= j.amount /\ Puts(r, v)
    <3>1. x \in Int
      BY <1>1, <2>1 DEF Typed, Asset
    <3>2. job'[r] = v
      BY <2>3, PutsIs
    <3> HIDE DEF x
    <3>3. IsJob(job[r])' /\ Known(r)'
      BY <2>1, <2>2, <2>3, <3>1, <3>2, QuietAdvance DEF Quiet
    <3> QED
      BY <2>1, <2>2, <2>3, <3>3, QuietInvPuts
  <2>4. CASE Puts(r, Ended(j))
    BY <2>1, <2>2, <2>4, EndsInv DEF Leg, Conversion
  <2> QED
    BY <2>1, <2>3, <2>4
<1>3. CASE Draw(r)
  <2>1. /\ Step(r) = "draw" /\ Running(r) /\ "drawn" \in Effect
        /\ UNCHANGED <<esom, balance, history, beaten>>
    BY <1>1, <1>3 DEF Draw, Effect, outside
  <2>2. CASE bank[j.who] >= j.amount
    <3>1. /\ bank' = [bank EXCEPT ![j.who] = @ - j.amount] /\ Answered(r, "drawn")
      BY <1>3, <2>2 DEF Draw
    <3>2. Accounts
      BY <1>1, <2>1, <2>2, <3>1 DEF Accounts, Typed
    <3> QED
      BY <2>1, <3>1, <3>2, AnsweredInv DEF Due
  <2>3. CASE ~(bank[j.who] >= j.amount)
    <3>1. /\ Puts(r, Threw(j))
          /\ UNCHANGED <<outside, balance, history, did, lost, beaten, faults>>
      BY <1>3, <2>3 DEF Draw, Throws, Puts
    <3>2. Onwards /\ Accounts
      BY <3>1, Actor
    <3> QED
      BY <2>1, <3>1, <3>2, ThrowsInv
  <2> QED
    BY <2>2, <2>3
<1>4. CASE Resolve(r)
  <2>1. /\ Step(r) = "resolve" /\ Running(r) /\ Quiet(r)
        /\ UNCHANGED <<outside, balance, history, did, lost, beaten, faults>>
        /\ Puts(r, Moved(j)) \/ Puts(r, Threw(j))
    BY <1>1, <1>4 DEF Resolve, Goes, Throws, Puts, Quiet
  <2>2. Onwards /\ Accounts
    BY <2>1, Actor
  <2> QED
    BY <2>1, <2>2, GoesInv, ThrowsInv
<1>5. CASE Burn(r)
  <2>1. Step(r) = "burn" /\ Running(r) /\ "burnt" \in Effect
    BY <1>1, <1>5 DEF Burn, Effect
  <2>2. CASE ~NeedsBurn(r) /\ Pass(r)
    <3>1. /\ Quiet(r) /\ Puts(r, Moved(j))
          /\ UNCHANGED <<outside, balance, history, did, lost, beaten, faults>>
      BY <2>1, <2>2 DEF Quiet, Pass, Goes, Puts
    <3>2. Onwards /\ Accounts
      BY <3>1, Actor
    <3> QED
      BY <2>1, <3>1, <3>2, GoesInv
  <2>3. CASE /\ NeedsBurn(r) /\ esom[j.who] >= j.amount
             /\ esom' = [esom EXCEPT ![j.who] = @ - j.amount]
             /\ Answered(r, "burnt") /\ UNCHANGED <<bank, balance, history, beaten>>
    <3>1. Accounts
      BY <1>1, <2>1, <2>3 DEF Accounts, Typed
    <3> QED
      BY <2>1, <2>3, <3>1, AnsweredInv DEF Due
  <2>4. CASE WalletRefused(r, j.amount)
    <3>1. /\ Puts(r, Threw(j))
          /\ UNCHANGED <<outside, balance, history, did, lost, beaten, faults>>
      BY <2>4 DEF WalletRefused, Throws, Puts
    <3>2. Onwards /\ Accounts
      BY <3>1, Actor
    <3> QED
      BY <2>1, <3>1, <3>2, ThrowsInv
  <2> QED
    BY <1>5, <2>2, <2>3, <2>4 DEF Burn
<1>6. CASE Ledger(r)
  <2>1. /\ Step(r) = "ledger" /\ Running(r) /\ "ledger" \in Effect
        /\ Post(r) /\ Count(r, "ledger") /\ Puts(r, Moved(j))
        /\ UNCHANGED <<outside, history, lost, beaten, faults>>
    BY <1>1, <1>6 DEF Ledger, Goes, Puts, Effect
  <2>2. Onwards
    BY <2>1, Actor
  <2>3. Accounts
    <3>1. j.leg \in Conversion
      BY <1>1, <2>1, Where DEF Fits, Leg, Conversion
    <3> QED
      BY <1>1, <2>1, <3>1, PostIs
  <2>4. IsJob(job[r])' /\ Known(r)'
    BY <2>1, <2>2, PutsIs, EffectAdvance
  <2> QED
    BY <2>1, <2>2, <2>3, <2>4, EffectInv
<1>7. CASE InsertRow(r) \/ Book(r)
  <2>1. /\ Running(r) /\ j.route \in Conversion /\ j.leg \in Conversion
        /\ j.route # "SOM_SEND"
        /\ \/ Step(r) = "row" /\ did' = did /\ balance' = balance
           \/ Step(r) = "book" /\ Count(r, "ledger") /\ Post(r)
        /\ Puts(r, Moved(j)) /\ UNCHANGED <<outside, lost, beaten, faults>>
        /\ history' = Append(history, RowOf(r, "SUCCESS", Net(j.amount)))
    <3>1. Running(r)
      BY <1>1, <1>7 DEF InsertRow, Book
    <3>2. j.route \in Conversion
      BY <1>1, <1>7, Where DEF InsertRow, Book, Conversion
    <3> QED
      BY <1>1, <1>7, <3>1, <3>2
         DEF InsertRow, Book, Insert, Goes, Puts, Fits, Leg, Conversion
  <2>2. Onwards
    BY <2>1, Actor
  <2>3. Accounts
    BY <1>1, <2>1, PostIs, Actor
  <2>4. /\ IsJob(job[r])' /\ Known(r)' /\ RowsStay(r) /\ SuccessIsComplete'
        /\ history' \in Seq(HistoryRow)
    BY <1>1, <2>1, PutsIs, RowAdvance
  <2> QED
    BY <2>1, <2>2, <2>3, <2>4, RowInv DEF Settles
<1>8. CASE Postings(r)
  <2>1. /\ Quiet(r) /\ Step(r) = "post" /\ Puts(r, Moved(j))
        /\ UNCHANGED <<outside, balance, history, did, lost, beaten, faults>>
    BY <1>8 DEF Postings, Quiet, Pass, Goes, Puts
  <2>2. Onwards /\ Accounts
    BY <2>1, Actor
  <2> QED
    BY <2>1, <2>2, GoesInv
<1>9. CASE Payout(r)
  <2>1. /\ Step(r) = "payout" /\ Running(r) /\ "paid" \in Effect
        /\ Count(r, "paid") /\ UNCHANGED <<esom, balance, history, beaten>>
        /\ bank' = [bank EXCEPT ![j.who] = @ + Net(j.amount)]
        /\ \/ Puts(r, Moved(j)) /\ UNCHANGED <<lost, faults>>
           \/ /\ \E v \in PayoutThrew(j) : Puts(r, v)
              /\ lost' = [lost EXCEPT ![r]["paid"] = @ + 1] /\ Faulty
    BY <1>1, <1>9 DEF Payout, Goes, Puts, Effect
  <2>2. Accounts
    BY <1>1, <2>1 DEF Accounts, Typed
  <2>3. CASE Puts(r, Moved(j)) /\ UNCHANGED <<lost, faults>>
    <3>1. Onwards
      BY <2>1, <2>3, Actor
    <3>2. IsJob(job[r])' /\ Known(r)'
      BY <2>1, <2>3, <3>1, PutsIs, EffectAdvance
    <3> QED
      BY <2>1, <2>2, <2>3, <3>1, <3>2, EffectInv
  <2>4. ASSUME NEW v \in PayoutThrew(j), Puts(r, v), Faulty,
               lost' = [lost EXCEPT ![r]["paid"] = @ + 1]
        PROVE  Inv'
    <3>1. Onwards /\ faults' > 0
      BY <2>1, <2>4, Actor
    <3>2. job'[r] = v
      BY <2>4, PutsIs
    <3>3. IsJob(job[r])' /\ Known(r)'
      BY <2>1, <2>4, <3>1, <3>2, PayoutThrewKnown
    <3> QED
      BY <2>1, <2>2, <2>4, <3>1, <3>3, EffectInv
  <2> QED
    BY <2>1, <2>3, <2>4
<1>10. CASE PayoutRefused(r)
  <2>1. PICK v \in PayoutThrew(j) : job' = [job EXCEPT ![r] = v]
    BY <1>10 DEF PayoutRefused
  <2>2. /\ Step(r) = "payout" /\ Faulty /\ Puts(r, v)
        /\ UNCHANGED <<outside, balance, history, did, lost, beaten>>
    BY <1>10, <2>1 DEF PayoutRefused, Puts
  <2>3. Onwards /\ faults' > 0 /\ Accounts
    BY <2>2, Actor
  <2>4. job'[r] = v
    BY <2>2, PutsIs
  <2>5. IsJob(job[r])' /\ Known(r)'
    BY <2>2, <2>3, <2>4, PayoutThrewKnown
  <2> QED
    BY <2>2, <2>3, <2>5, QuietInvPuts
<1>11. CASE CatchConversion(r)
  <2>1. /\ Step(r) = "catch" /\ j.leg \in Conversion /\ j.route = "CATCH"
        /\ Puts(r, Ended(j)) /\ UNCHANGED <<outside, balance, did, lost, beaten>>
        /\ \/ /\ history' = Append(history, RowOf(r, "FAILED", Net(j.amount)))
              /\ UNCHANGED faults
           \/ Faulty /\ UNCHANGED history
    BY <1>1, <1>11, Where DEF CatchConversion, Puts
  <2>2. Onwards /\ Accounts
    BY <2>1, Actor
  <2>3. CASE /\ history' = Append(history, RowOf(r, "FAILED", Net(j.amount)))
             /\ UNCHANGED faults
    <3>1. /\ IsJob(job[r])' /\ Known(r)' /\ RowsStay(r) /\ SuccessIsComplete'
          /\ history' \in Seq(HistoryRow)
      BY <1>1, <2>1, <2>3, PutsIs, FailedRow
    <3> QED
      BY <2>1, <2>2, <3>1, RowInv DEF Settles
  <2>4. CASE Faulty /\ UNCHANGED history
    <3>1. faults' > 0
      BY <2>1, <2>4, Actor
    <3> QED
      BY <2>1, <2>2, <2>4, <3>1, EndsInv
  <2> QED
    BY <2>1, <2>3, <2>4
<1>12. CASE Between(r)
  <2> DEFINE i == Latest(r)
  <2>1. /\ Step(r) = "between" /\ j.route = "BETWEEN"
        /\ UNCHANGED <<outside, balance, history, did, lost, beaten, faults>>
    BY <1>1, <1>12, Where DEF Between
  <2>2. Onwards /\ Accounts
    BY <2>1, Actor
  <2>3. CASE history[i].out > 0
    <3> DEFINE v == [On(j, j.then) EXCEPT !.leg = j.then, !.then = None,
                       !.amount = history[i].out, !.took = i]
    <3>1. Puts(r, v)
      BY <1>12, <2>3 DEF Between, Puts
    <3>2. job'[r] = v
      BY <3>1, PutsIs
    <3>3. IsJob(job[r])' /\ Known(r)'
      BY <2>1, <2>3, <3>2, SecondLegKnown
    <3> QED
      BY <2>1, <2>2, <3>1, <3>3, QuietInvPuts
  <2>4. CASE ~(history[i].out > 0)
    <3>1. Puts(r, Ended(j))
      BY <1>12, <2>4 DEF Between, Puts
    <3> QED
      BY <2>1, <2>2, <3>1, EndsInv
  <2> QED
    BY <2>3, <2>4
<1>13. CASE BetweenFails(r)
  <2>1. /\ j.route = "BETWEEN" /\ Puts(r, Ended(j)) /\ Faulty
        /\ UNCHANGED <<outside, balance, history, did, lost, beaten>>
    BY <1>1, <1>13, Where DEF BetweenFails, Puts
  <2>2. Onwards /\ Accounts
    BY <2>1, Actor
  <2> QED
    BY <2>1, <2>2, EndsInv
<1> QED
  BY <1>2, <1>3, <1>4, <1>5, <1>6, <1>7, <1>8, <1>9, <1>10, <1>11, <1>12, <1>13
     DEF ConversionStep


\* Two entries of one account or of two change by the same step.
LEMMA Shifted ==
  ASSUME Typed, NEW c \in Customer, NEW d \in Customer, NEW f \in [Customer -> Nat],
         NEW n \in Nat, f[c] >= n
  PROVE  [f EXCEPT ![c] = @ - n, ![d] = @ + n] \in [Customer -> Nat]
<1>1. [f EXCEPT ![c] = @ - n] \in [Customer -> Nat]
  OBVIOUS
<1> QED
  BY <1>1

LEMMA LedgerShifted ==
  ASSUME Typed, NEW c \in Customer, NEW d \in Customer, NEW a \in Asset,
         NEW m \in Nat, NEW n \in Nat, UNCHANGED outside,
         balance' = [balance EXCEPT ![c][a] = @ - m, ![d][a] = @ + n]
  PROVE  Accounts
<1> DEFINE b == [balance EXCEPT ![c][a] = @ - m]
<1>1. balance[c][a] - m \in Int /\ balance[d][a] + n \in Int
  BY DEF Typed
<1>2. b \in [Customer -> [Asset -> Int]]
  BY <1>1 DEF Typed
<1>3. b[d][a] + n \in Int
  BY <1>2
<1>4. balance' \in [Customer -> [Asset -> Int]]
  BY <1>1, <1>2, <1>3 DEF Typed
<1> QED
  BY <1>4 DEF Typed, Accounts, outside

LEMMA TransferInv == ASSUME Inv, NEW r \in Req, TransferStep(r) PROVE Inv'
<1> DEFINE j == job[r]
<1>1. /\ Typed /\ IsJob(j) /\ Known(r) /\ Fits(r) /\ j.route \in Routes
      /\ j.amount \in Nat /\ Fee \in Nat
      /\ Step(r) \notin {"idle", "over"} => Running(r)
      /\ Running(r) => j.who \in Customer
      /\ Running(r) /\ j.route \in Transfer => j.peer \in Customer
  BY Actor, RailsAssumption
<1>2. CASE PendingRow(r)
  <2> DEFINE v == [Moved(j) EXCEPT !.row = Len(history) + 1]
  <2>1. /\ j.route = "SOM_SEND" /\ Step(r) = "row" /\ Puts(r, v)
        /\ UNCHANGED <<outside, balance, did, lost, beaten, faults>>
        /\ history' = Append(history, RowOf(r, "PENDING", j.amount))
    BY <1>2 DEF PendingRow, Puts
  <2>2. Onwards /\ Accounts
    BY <2>1, Actor
  <2>3. job'[r] = v
    BY <2>1, PutsIs
  <2>4. /\ IsJob(job[r])' /\ Known(r)' /\ RowsStay(r) /\ SuccessIsComplete'
        /\ history' \in Seq(HistoryRow)
    BY <2>1, <2>3, PendingKnown
  <2> QED
    BY <2>1, <2>2, <2>4, RowInv DEF Settles
<1>3. CASE SendSom(r)
  <2>1. /\ Step(r) = "send" /\ Running(r) /\ j.route = "SOM_SEND"
        /\ "sent" \in Effect /\ UNCHANGED <<esom, balance, history, beaten>>
    BY <1>1, <1>3, Where DEF SendSom, Effect, outside
  <2>2. CASE bank[j.who] >= j.amount
    <3>1. /\ bank' = [bank EXCEPT ![j.who] = @ - j.amount, ![j.peer] = @ + j.amount]
          /\ Answered(r, "sent")
      BY <1>3, <2>2 DEF SendSom
    <3>2. bank' \in [Customer -> Nat]
      BY <1>1, <2>1, <2>2, <3>1, Shifted DEF Typed, Transfer
    <3>3. Accounts
      BY <1>1, <2>1, <3>2 DEF Accounts, Typed
    <3> QED
      BY <2>1, <3>1, <3>3, AnsweredInv DEF Due
  <2>3. CASE ~(bank[j.who] >= j.amount)
    <3>1. /\ Puts(r, Threw(j))
          /\ UNCHANGED <<outside, balance, history, did, lost, beaten, faults>>
      BY <1>3, <2>3 DEF SendSom, Throws, Puts
    <3>2. Onwards /\ Accounts
      BY <3>1, Actor
    <3> QED
      BY <2>1, <3>1, <3>2, ThrowsInv
  <2> QED
    BY <2>2, <2>3
<1>4. CASE StampRow(r)
  <2>1. /\ Quiet(r) /\ Step(r) = "stamp" /\ Puts(r, Moved(j))
        /\ UNCHANGED <<outside, balance, history, did, lost, beaten, faults>>
    BY <1>4 DEF StampRow, Quiet, Goes, Puts
  <2>2. Onwards /\ Accounts
    BY <2>1, Actor
  <2> QED
    BY <2>1, <2>2, GoesInv
<1>5. CASE SettleSom(r)
  <2>1. /\ Step(r) = "settle" /\ Running(r) /\ j.route = "SOM_SEND" /\ j.at = 4
        /\ Count(r, "ledger") /\ Puts(r, Moved(j))
        /\ UNCHANGED <<outside, lost, beaten, faults>>
        /\ history' = [history EXCEPT ![j.row].status = "SUCCESS"]
        /\ balance' = [balance EXCEPT ![j.who]["SOM"] = @ - j.amount,
                                      ![j.peer]["SOM"] = @ + j.amount]
    BY <1>1, <1>5, Where DEF SettleSom, Goes, Puts
  <2>2. Moved(j) = Ended(j)
    <3>1. Len(Route[j.route]) = 4
      BY <1>1, <2>1, Places
    <3>2. j.then = None
      BY <1>1, <2>1 DEF Fits, Leg, Transfer, FirstLeg
    <3>3. j.at >= Len(Route[j.route])
      BY <2>1, <3>1
    <3> QED
      BY <1>1, <2>1, <3>2, <3>3, MovedIs
  <2>3. Onwards
    BY <2>1, Actor
  <2>4. Accounts
    <3>1. /\ j.who \in Customer /\ j.peer \in Customer
      BY <1>1, <2>1 DEF Transfer
    <3> QED
      BY <1>1, <2>1, <3>1, LedgerShifted DEF Asset
  <2>5. /\ IsJob(job[r])' /\ Known(r)' /\ RowsStay(r) /\ SuccessIsComplete'
        /\ history' \in Seq(HistoryRow)
    BY <2>1, <2>2, PutsIs, RowClosed
  <2> QED
    BY <2>1, <2>3, <2>4, <2>5, RowInv DEF Settles
<1>6. CASE CatchSom(r)
  <2>1. /\ Step(r) = "catch" /\ j.leg = "SOM_SEND" /\ j.route = "CATCH"
        /\ Puts(r, Ended(j)) /\ UNCHANGED <<outside, balance, did, lost, beaten>>
        /\ \/ /\ history' = [history EXCEPT ![j.row].status = "FAILED"]
              /\ UNCHANGED faults
           \/ Faulty /\ UNCHANGED history
    BY <1>1, <1>6, Where DEF CatchSom, Puts
  <2>2. Onwards /\ Accounts
    BY <2>1, Actor
  <2>3. CASE /\ history' = [history EXCEPT ![j.row].status = "FAILED"]
             /\ UNCHANGED faults
    <3>1. /\ IsJob(job[r])' /\ Known(r)' /\ RowsStay(r) /\ SuccessIsComplete'
          /\ history' \in Seq(HistoryRow)
      BY <2>1, <2>3, PutsIs, RowClosed
    <3> QED
      BY <2>1, <2>2, <3>1, RowInv DEF Settles
  <2>4. CASE Faulty /\ UNCHANGED history
    <3>1. faults' > 0
      BY <2>1, <2>4, Actor
    <3> QED
      BY <2>1, <2>2, <2>4, <3>1, EndsInv
  <2> QED
    BY <2>1, <2>3, <2>4
<1>7. CASE MoveEsom(r)
  <2>1. /\ Step(r) = "move" /\ Running(r) /\ j.route = "ESOM_SEND"
        /\ "moved" \in Effect
    BY <1>1, <1>7, Where DEF MoveEsom, Effect
  <2>2. CASE /\ esom[j.who] >= j.amount
             /\ esom' = [esom EXCEPT ![j.who] = @ - j.amount, ![j.peer] = @ + j.amount]
             /\ Answered(r, "moved") /\ UNCHANGED <<bank, balance, history, beaten>>
    <3>1. esom' \in [Customer -> Nat]
      BY <1>1, <2>1, <2>2, Shifted DEF Typed, Transfer
    <3>2. Accounts
      BY <1>1, <2>2, <3>1 DEF Accounts, Typed
    <3> QED
      BY <2>1, <2>2, <3>2, AnsweredInv DEF Due
  <2>3. CASE WalletRefused(r, j.amount)
    <3>1. /\ Puts(r, Threw(j))
          /\ UNCHANGED <<outside, balance, history, did, lost, beaten, faults>>
      BY <2>3 DEF WalletRefused, Throws, Puts
    <3>2. Onwards /\ Accounts
      BY <3>1, Actor
    <3> QED
      BY <2>1, <3>1, <3>2, ThrowsInv
  <2> QED
    BY <1>7, <2>2, <2>3 DEF MoveEsom
<1>8. CASE PayFee(r)
  <2>1. /\ Step(r) = "fee" /\ Running(r) /\ "fee" \in Effect
    BY <1>1, <1>8, Where DEF PayFee, Effect
  <2>2. CASE /\ Fee = 0 /\ Goes(r)
             /\ UNCHANGED <<outside, balance, history, did, lost, beaten, faults>>
    <3>1. Quiet(r) /\ Puts(r, Moved(j))
      BY <2>1, <2>2 DEF Quiet, Goes, Puts
    <3>2. Onwards /\ Accounts
      BY <2>2, Actor
    <3> QED
      BY <2>1, <2>2, <3>1, <3>2, GoesInv
  <2>3. CASE /\ Fee > 0 /\ esom[j.who] >= Fee
             /\ esom' = [esom EXCEPT ![j.who] = @ - Fee]
             /\ Answered(r, "fee") /\ UNCHANGED <<bank, balance, history, beaten>>
    <3>1. Accounts
      BY <1>1, <2>1, <2>3 DEF Accounts, Typed
    <3> QED
      BY <2>1, <2>3, <3>1, AnsweredInv DEF Due
  <2>4. CASE WalletRefused(r, Fee)
    <3>1. /\ Puts(r, Threw(j))
          /\ UNCHANGED <<outside, balance, history, did, lost, beaten, faults>>
      BY <2>4 DEF WalletRefused, Throws, Puts
    <3>2. Onwards /\ Accounts
      BY <3>1, Actor
    <3> QED
      BY <2>1, <3>1, <3>2, ThrowsInv
  <2> QED
    BY <1>8, <2>2, <2>3, <2>4 DEF PayFee
<1>9. CASE TransferRow(r) \/ ShiftEsom(r)
  <2>1. /\ Running(r) /\ j.route \in {"ESOM_SEND", "ESOM_ADDR"}
        /\ Puts(r, Moved(j)) /\ UNCHANGED <<outside, lost, beaten, faults>>
        /\ history' = Append(history, RowOf(r, "SUCCESS", j.amount))
        /\ \/ Step(r) = "row" /\ did' = did /\ balance' = balance
           \/ /\ Step(r) = "shift" /\ Count(r, "ledger")
              /\ balance' = [balance EXCEPT ![j.who]["ESOM"] = @ - Debited(r),
                                            ![j.peer]["ESOM"] = @ + j.amount]
    BY <1>1, <1>9, Where DEF TransferRow, ShiftEsom, Goes, Puts
  <2>2. Onwards
    BY <2>1, Actor
  <2>3. Accounts
    <3>1. j.who \in Customer /\ j.peer \in Customer /\ Debited(r) \in Nat
      BY <1>1, <2>1 DEF Transfer, Debited
    <3>2. CASE balance' = balance
      BY <2>1, <3>2, Actor
    <3>3. CASE balance' = [balance EXCEPT ![j.who]["ESOM"] = @ - Debited(r),
                                          ![j.peer]["ESOM"] = @ + j.amount]
      <4>1. "ESOM" \in Asset
        BY DEF Asset
      <4> HIDE DEF j
      <4>2. job[r].amount \in Nat /\ job[r].who \in Customer /\ job[r].peer \in Customer
        BY <1>1, <3>1 DEF j
      <4> QED
        BY <1>1, <2>1, <3>1, <3>3, <4>1, <4>2, LedgerShifted DEF j
    <3> QED
      BY <2>1, <3>2, <3>3
  <2>4. /\ IsJob(job[r])' /\ Known(r)' /\ RowsStay(r) /\ SuccessIsComplete'
        /\ history' \in Seq(HistoryRow)
    BY <1>1, <2>1, PutsIs, RowAdvance DEF Conversion
  <2> QED
    BY <2>1, <2>2, <2>3, <2>4, RowInv DEF Settles
<1>10. CASE CheckEsom(r)
  <2> DEFINE x == balance[j.who]["ESOM"] v == [Moved(j) EXCEPT !.seen = x]
  <2>1. /\ j.route = "ESOM_ADDR" /\ Step(r) = "check" /\ Running(r)
        /\ UNCHANGED <<outside, balance, history, did, lost, beaten, faults>>
        /\ \/ x >= Debited(r) /\ Puts(r, v)
           \/ Puts(r, Threw(j))
    BY <1>1, <1>10 DEF CheckEsom, Throws, Puts
  <2>2. Onwards /\ Accounts
    BY <2>1, Actor
  <2>3. CASE x >= Debited(r) /\ Puts(r, v)
    <3>1. x \in Int
      BY <1>1, <2>1 DEF Typed, Asset
    <3>2. job'[r] = v
      BY <2>3, PutsIs
    <3> HIDE DEF x
    <3>3. IsJob(job[r])' /\ Known(r)'
      BY <2>1, <2>2, <2>3, <3>1, <3>2, QuietAdvance DEF Quiet
    <3> QED
      BY <2>1, <2>2, <2>3, <3>3, QuietInvPuts
  <2>4. CASE Puts(r, Threw(j))
    BY <2>1, <2>2, <2>4, ThrowsInv
  <2> QED
    BY <2>1, <2>3, <2>4
<1> QED
  BY <1>2, <1>3, <1>4, <1>5, <1>6, <1>7, <1>8, <1>9, <1>10 DEF TransferStep

LEMMA OutsideInv == ASSUME Inv, NEW r \in Req, OutsideStep(r) PROVE Inv'
<1> DEFINE j == job[r]
<1>1. Typed /\ IsJob(j) /\ Fits(r) /\ j.route \in Routes
  BY Actor
<1>2. CASE Start(r)
  <2>1. PICK o \in Asks[r] :
          /\ j.route = "IDLE"
          /\ job' = [job EXCEPT ![r] =
                 [NoJob EXCEPT !.route = o.leg, !.leg = o.leg, !.then = o.then,
                   !.who = o.who, !.peer = o.peer, !.amount = o.amount]]
          /\ UNCHANGED <<outside, balance, history, did, lost, beaten, faults>>
    BY <1>2 DEF Start
  <2> DEFINE v == [NoJob EXCEPT !.route = o.leg, !.leg = o.leg, !.then = o.then,
                     !.who = o.who, !.peer = o.peer, !.amount = o.amount]
  <2>2. Puts(r, v)
    BY <2>1 DEF Puts
  <2>3. job'[r] = v
    BY <2>2, PutsIs
  <2>4. IsJob(job[r])' /\ Known(r)'
    BY <2>1, <2>3, StartKnown
  <2>5. Onwards /\ Accounts
    BY <2>1, Actor
  <2> QED
    BY <2>1, <2>2, <2>4, <2>5, QuietInvPuts
<1>3. CASE Declined(r)
  <2>1. /\ j.route \in Leg /\ j.at = 1 /\ Puts(r, Ended(j))
        /\ UNCHANGED <<outside, balance, history, did, lost, beaten, faults>>
    BY <1>3 DEF Declined, Puts
  <2>2. Onwards /\ Accounts
    BY <2>1, Actor
  <2> QED
    BY <2>1, <2>2, EndsInv
<1>4. CASE Fails(r)
  <2>1. /\ Running(r) /\ Step(r) \notin {"catch", "between"} /\ Puts(r, Threw(j))
        /\ Faulty /\ UNCHANGED <<outside, balance, history, did, lost, beaten>>
    BY <1>4 DEF Fails, Throws, Puts
  <2>2. Onwards /\ Accounts /\ faults' > 0
    BY <2>1, Actor
  <2> QED
    BY <2>1, <2>2, ThrowsInv
<1> QED
  BY <1>2, <1>3, <1>4 DEF OutsideStep


LEMMA InitInv == Init => Inv
<1> SUFFICES ASSUME Init PROVE Inv
  OBVIOUS
<1> USE DEF Init
<1>1. \A r \in Req : job[r] = NoJob /\ IsJob(job[r])
  <2>1. IsJob(NoJob)
    BY DEF NoJob, IsJob, Fields, Routes
  <2> QED
    BY <2>1
<1>2. Typed
  <2>1. 0 \in 0 .. MaxFaults
    BY RailsAssumption
  <2>2. \A a \in Asset : Opening[a] \in Nat
    BY RailsAssumption
  <2>3. Opening \in [Asset -> Int]
    BY RailsAssumption
  <2> QED
    BY <1>1, <2>1, <2>2, <2>3 DEF Typed, Asset
<1>3. history = <<>> /\ DOMAIN history = {} /\ SuccessIsComplete
  BY DEF SuccessIsComplete
<1>4. ASSUME NEW r \in Req PROVE Known(r)
  <2>1. /\ job[r].route = "IDLE" /\ job[r].at = 1 /\ job[r].leg = None
        /\ job[r].then = None /\ job[r].ticket = "none" /\ job[r].row = 0
        /\ job[r].took = 0
    BY <1>1 DEF NoJob
  <2>2. \A e \in Effect : did[r][e] = 0 /\ lost[r][e] = 0
    OBVIOUS
  <2>3. Fits(r)
    BY <2>1, RailsAssumption
       DEF Fits, Running, Route, Leg, Conversion, Transfer, FirstLeg
  <2>4. Fresh(r) /\ Passed(r) /\ Covered(r) /\ Stamped(r) /\ Found(r)
    BY <2>1, <2>2 DEF Fresh, Passed, Covered, Stamped, Found, Over
  <2>5. Outside(r) = {}
    BY <2>2 DEF Outside
  <2>6. Recorded(r) /\ Drawn(r) /\ Redeemed(r)
    BY <2>1, <2>2, <2>5 DEF Recorded, Drawn, Redeemed, Effect
  <2> QED
    BY <2>3, <2>4, <2>6 DEF Known
<1> QED
  BY <1>2, <1>3, <1>4 DEF Inv

LEMMA StutterInv == Inv /\ UNCHANGED vars => Inv'
<1> SUFFICES ASSUME Inv, UNCHANGED vars PROVE Inv'
  OBVIOUS
<1>1. UNCHANGED <<esom, bank, balance, history, job, did, lost, beaten, faults>>
  BY DEF vars, outside
<1>2. Typed' /\ SuccessIsComplete'
  BY <1>1 DEF Inv, Typed, SuccessIsComplete
<1>3. ASSUME NEW r \in Req PROVE Known(r)'
  <2>1. /\ Step(r)' = Step(r) /\ Over(r)' = Over(r) /\ Running(r)' = Running(r)
        /\ Outside(r)' = Outside(r) /\ HasRow(r)' = HasRow(r)
        /\ RowsOf(r)' = RowsOf(r) /\ HasSmallRow(r)' = HasSmallRow(r)
        /\ HasOwn(r)' = HasOwn(r)
    BY <1>1 DEF Step, Over, Running, Outside, HasRow, RowsOf, HasSmallRow, HasOwn
  <2>2. Fits(r)' /\ Fresh(r)' /\ Passed(r)' /\ Covered(r)'
    BY <1>1, <2>1 DEF Inv, Known, Fits, Fresh, Passed, Covered, Debited
  <2>3. Recorded(r)' /\ Drawn(r)' /\ Redeemed(r)' /\ Found(r)' /\ Stamped(r)'
    BY <1>1, <2>1
       DEF Inv, Known, Recorded, BeforeRow, Drawn, Redeemed, Found, Stamped
  <2> QED
    BY <2>2, <2>3 DEF Known
<1> QED
  BY <1>2, <1>3 DEF Inv

LEMMA NextInv == Inv /\ [Next]_vars => Inv'
BY StutterInv, RailInv, ConversionInv, TransferInv, OutsideInv
   DEF Next, RequestStep

\* What the properties below rest on, in every state.
THEOREM InvAlways == Spec => []Inv
BY InitInv, NextInv, PTL DEF Spec

-----------------------------------------------------------------------------
(* The properties                                                           *)

\* Every variable has its type (TypeOK); a SUCCESS row is written after
\* everything it stands for was done (SuccessIsComplete); and without a failed
\* query what moved outside the database leaves a row (EffectsAreRecorded): for
\* any number of requests of fiatToCrypto, cryptoToFiat, transferSom,
\* transferESom and transferCryptoInternal at once.
THEOREM TheHistoryIsComplete == Spec => []HistoryIsComplete
<1>1. Inv => HistoryIsComplete
  <2> SUFFICES ASSUME Inv PROVE HistoryIsComplete
    OBVIOUS
  <2>1. TypeOK
    <3>1. ASSUME NEW r \in Req
          PROVE  /\ job[r].route \in DOMAIN Route
                 /\ job[r].at \in DOMAIN Route[job[r].route]
                 /\ job[r].ticket \in {"none", "fresh", "stale"}
                 /\ job[r].ticket # "none" => Step(r) \in {"mint", "gas"}
      <4>1. IsJob(job[r]) /\ Fits(r)
        BY DEF Inv, Typed, Known
      <4>2. Routes \subseteq DOMAIN Route
        BY DEF Routes, Leg, Conversion, Transfer, Route
      <4> QED
        BY <4>1, <4>2 DEF IsJob, Fits
    <3> QED
      BY <3>1 DEF TypeOK, Inv, Typed, HistoryRow
  <2>2. EffectsAreRecorded
    <3>1. ASSUME NEW r \in Req, Over(r), Outside(r) # {}, RowsOf(r) = {}, ~(faults > 0)
          PROVE  job[r].leg = "ESOM_SEND" /\ Outside(r) = {"moved"}
      <4>1. faults = 0 /\ ~HasRow(r) /\ Recorded(r)
        BY <3>1 DEF Inv, Typed, Known, HasRow, RowsOf
      <4>2. BeforeRow(r) /\ job[r].route = "OVER"
        BY <3>1, <4>1 DEF Recorded, Over
      <4> QED
        BY <3>1, <4>2 DEF BeforeRow
    <3> QED
      BY <3>1 DEF EffectsAreRecorded
  <2> QED
    BY <2>1, <2>2 DEF HistoryIsComplete, Inv
<1> QED
  BY <1>1, InvAlways, PTL

\* A customer whose SOM fiatToCrypto drew has the ESOM minted, unless a query or
\* an answer failed, or another request used the admin account's nonce first, or
\* the fee left nothing to mint.
THEOREM AShortfallHasACause == Spec => []ShortfallHasCause
<1>1. Inv => ShortfallHasCause
  <2> SUFFICES ASSUME Inv, NEW r \in Req, Over(r),
                      did[r]["drawn"] > did[r]["minted"],
                      ~(faults > 0), r \notin beaten
               PROVE  \E i \in RowsOf(r) :
                        history[i].status = "SUCCESS" /\ history[i].out = 0
    BY DEF ShortfallHasCause
  <2>1. faults = 0 /\ Drawn(r)
    BY DEF Inv, Typed, Known
  <2>2. HasSmallRow(r)
    BY <2>1 DEF Drawn, Over
  <2> QED
    BY <2>2 DEF HasSmallRow, RowsOf
<1> QED
  BY <1>1, InvAlways, PTL

\* cryptoToFiat pays a redemption once or gives the ESOM back once, and each lost
\* answer of the bank may add one; it gives back what it had taken.
THEOREM ARedemptionIsPaidOrRefunded == Spec => []PaidOrRefunded
<1>1. Inv => PaidOrRefunded
  BY DEF Inv, Known, Redeemed, PaidOrRefunded
<1> QED
  BY <1>1, InvAlways, PTL

\* The row convert finds between its legs is the customer's, says SUCCESS, is
\* not older than the first leg's own, and gives the second leg its amount.
THEOREM TheSecondLegIsOwn == Spec => []SecondLegIsOwn
<1>1. Inv => SecondLegIsOwn
  BY DEF Inv, Known, Found, SecondLegIsOwn
<1> QED
  BY <1>1, InvAlways, PTL

\* The row of a finished transferSom: SUCCESS exactly if the ledger was booked
\* (once), FAILED only if the bank did nothing that it answered for, PENDING
\* only after a failed query or answer.
THEOREM TheSomRowTellsTheBank == Spec => []SomRowTellsTheBank
<1>1. Inv => SomRowTellsTheBank
  BY DEF Inv, Known, Stamped, SomRowTellsTheBank
<1> QED
  BY <1>1, InvAlways, PTL


\* Only a step of r books r's ledger entry, at one of four places.
LEMMA WhoBooks ==
  ASSUME Inv, NEW q \in Req, RequestStep(q) \/ OutsideStep(q), NEW r \in Req,
         did'[r]["ledger"] > did[r]["ledger"]
  PROVE  q = r /\ (Ledger(r) \/ Book(r) \/ SettleSom(r) \/ ShiftEsom(r))
<1>1. Typed /\ "ledger" \in Effect /\ did[r]["ledger"] \in Nat
  BY ZenonT(40) DEF Inv, Typed, Effect
<1>2. ASSUME NEW e \in Effect, Count(q, e) PROVE e = "ledger" /\ q = r
  <2>1. /\ \A f \in Effect \ {e} : did'[q][f] = did[q][f]
        /\ \A p \in Req \ {q} : did'[p] = did[p]
    BY <1>1, <1>2, CountIs
  <2> QED
    BY <1>1, <2>1
<1>3. ~(did' = did)
  BY <1>1
<1>4. \A e \in Effect \ {"ledger"} : ~Count(q, e)
  BY <1>2
<1>5. ~RailStep(q)
  BY <1>3, <1>4
     DEF RailStep, ReadNonce, NonceRefused, GasSuffices, GasSent, MintSkipped,
         Mint, RefreshRead, RefreshWrite, RefreshSwallowed, Effect
<1>6. ~OutsideStep(q)
  BY <1>3 DEF OutsideStep, Start, Declined, Fails
<1>7. ConversionStep(q) => Ledger(q) \/ Book(q)
  <2>1. ~Draw(q) /\ ~Burn(q) /\ ~Payout(q)
    BY <1>3, <1>4 DEF Draw, Burn, Payout, Pass, WalletRefused, Answered, Effect
  <2>2. /\ ~CheckUsdt(q) /\ ~Resolve(q) /\ ~InsertRow(q) /\ ~Postings(q)
        /\ ~PayoutRefused(q) /\ ~CatchConversion(q) /\ ~Between(q)
        /\ ~BetweenFails(q)
    BY <1>3
       DEF CheckUsdt, Resolve, InsertRow, Postings, Pass, PayoutRefused,
           CatchConversion, Between, BetweenFails
  <2> QED
    BY <2>1, <2>2 DEF ConversionStep
<1>8. TransferStep(q) => SettleSom(q) \/ ShiftEsom(q)
  <2>1. ~SendSom(q) /\ ~MoveEsom(q) /\ ~PayFee(q)
    BY <1>3, <1>4 DEF SendSom, MoveEsom, PayFee, WalletRefused, Answered, Effect
  <2>2. ~PendingRow(q) /\ ~StampRow(q) /\ ~CatchSom(q) /\ ~TransferRow(q) /\ ~CheckEsom(q)
    BY <1>3 DEF PendingRow, StampRow, CatchSom, TransferRow, CheckEsom
  <2> QED
    BY <2>1, <2>2 DEF TransferStep
<1>9. Ledger(q) \/ Book(q) \/ SettleSom(q) \/ ShiftEsom(q)
  BY <1>5, <1>6, <1>7, <1>8 DEF RequestStep
<1>10. Count(q, "ledger")
  BY <1>9 DEF Ledger, Book, SettleSom, ShiftEsom
<1> QED
  BY <1>1, <1>2, <1>9, <1>10

\* cryptoToFiat's and transferCryptoInternal's debits take a balance below zero
\* only if it fell after the handler had checked it.
THEOREM AnOverdraftNeedsARace == Spec => OverdraftNeedsRace
<1>1. ASSUME Inv, Next, NEW r \in Req, NEW a \in {"USDT", "ESOM"},
             a = IF Step(r) = "shift" THEN "ESOM" ELSE "USDT",
             job[r].route \in {"USDT_ESOM", "ESOM_ADDR"},
             did'[r]["ledger"] > did[r]["ledger"], balance'[job[r].who][a] < 0
      PROVE  balance[job[r].who][a] < job[r].seen
  <2> DEFINE j == job[r] c == job[r].who
  <2>1. Ledger(r) \/ Book(r) \/ SettleSom(r) \/ ShiftEsom(r)
    BY <1>1, WhoBooks DEF Next
  <2>2. /\ Typed /\ Fits(r) /\ j.route \in Routes /\ j.amount \in Nat /\ j.seen \in Int
        /\ Covered(r) /\ Fee \in Nat /\ balance \in [Customer -> [Asset -> Int]]
        /\ Step(r) \notin {"idle", "over"} => Running(r)
        /\ Running(r) => j.who \in Customer
        /\ Running(r) /\ j.route \in Transfer => j.peer \in Customer
    BY <1>1, Actor, RailsAssumption DEF Known, Typed
  <2>3. CASE Ledger(r)
    <3>1. Step(r) = "ledger" /\ Running(r)
      BY <2>2, <2>3 DEF Ledger
    <3>2. /\ j.route = "USDT_ESOM" /\ j.at = 3 /\ j.leg = "USDT_ESOM" /\ a = "USDT"
          /\ c \in Customer
      BY <1>1, <2>2, <3>1, Where DEF Fits, Leg, Conversion
    <3>3. balance'[c]["USDT"] = balance[c]["USDT"] - j.amount
      <4>1. balance' = [balance EXCEPT ![c]["USDT"] = @ + (-j.amount)]
        BY <2>3, <3>2 DEF Ledger, Post, Credit
      <4> QED
        BY <2>2, <3>2, <4>1 DEF Asset
    <3>4. j.seen >= j.amount /\ balance[c]["USDT"] \in Int
      BY <2>2, <3>2 DEF Covered, Asset
    <3> HIDE DEF j, c
    <3>5. balance'[c]["USDT"] < 0 /\ a = "USDT" /\ j.seen \in Int /\ j.amount \in Nat
      BY <1>1, <2>2, <3>2 DEF j, c
    <3>6. balance[c]["USDT"] < j.seen
      BY <3>3, <3>4, <3>5
    <3> QED
      BY <3>5, <3>6 DEF j, c
  <2>4. CASE ShiftEsom(r)
    <3>1. Step(r) = "shift" /\ Running(r)
      BY <2>2, <2>4 DEF ShiftEsom
    <3>2. /\ j.route = "ESOM_ADDR" /\ j.at = 2 /\ a = "ESOM" /\ c \in Customer
          /\ j.peer \in Customer /\ Debited(r) \in Nat
      BY <1>1, <2>2, <3>1, Where DEF Transfer, Debited
    <3>3. balance[c]["ESOM"] \in Int /\ j.seen >= Debited(r)
      BY <2>2, <3>2 DEF Covered, Asset
    <3>4. balance'[c]["ESOM"] >= balance[c]["ESOM"] - Debited(r)
          /\ balance'[c]["ESOM"] \in Int
      <4>1. balance' = [balance EXCEPT ![c]["ESOM"] = @ - Debited(r),
                                       ![j.peer]["ESOM"] = @ + j.amount]
        BY <2>4 DEF ShiftEsom
      <4>2. CASE c = j.peer
        BY <2>2, <3>2, <3>3, <4>1, <4>2 DEF Asset, Debited
      <4>3. CASE c # j.peer
        BY <2>2, <3>2, <3>3, <4>1, <4>3 DEF Asset, Debited
      <4> QED
        BY <4>2, <4>3
    <3> HIDE DEF j, c
    <3>5. balance'[c]["ESOM"] < 0 /\ a = "ESOM" /\ j.seen \in Int
      BY <1>1, <2>2, <3>2 DEF j, c
    <3>6. balance[c]["ESOM"] < j.seen
      BY <3>2, <3>3, <3>4, <3>5
    <3> QED
      BY <3>5, <3>6 DEF j, c
  <2>5. CASE Book(r) \/ SettleSom(r)
    BY <1>1, <2>2, <2>5, Where DEF Book, SettleSom
  <2> QED
    BY <2>1, <2>3, <2>4, <2>5
<1>2. Inv /\ [Next]_vars =>
        [\A r \in Req, a \in {"USDT", "ESOM"} :
           LET c == job[r].who IN
           (/\ a = IF Step(r) = "shift" THEN "ESOM" ELSE "USDT"
            /\ job[r].route \in {"USDT_ESOM", "ESOM_ADDR"}
            /\ did'[r]["ledger"] > did[r]["ledger"]
            /\ balance'[c][a] < 0)
           => balance[c][a] < job[r].seen]_vars
  BY <1>1
<1> QED
  BY <1>2, InvAlways, PTL DEF Spec, OverdraftNeedsRace
=============================================================================
