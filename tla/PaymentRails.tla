---------------------------- MODULE PaymentRails ----------------------------
(*****************************************************************************)
(* What the payment handlers of payments.service share: the ESOM token, the  *)
(* accounts at the bank (ABS), the ledger, the history, and the way one      *)
(* request runs, await after await, through the Route of its leg.  Two       *)
(* stores outside the database take part in every request, so each external  *)
(* call has three outcomes: it is done, it is refused, or it is done and its *)
(* answer is lost.  Conversions and Transfers give the steps.  Exchange      *)
(* rates are 1, one fee stands for every tariff.                             *)
(*****************************************************************************)
EXTENDS Integers, Sequences, FiniteSets

CONSTANTS
  Customer,
  Req,         \* requests, each handled once
  Asks,        \* [Req -> SUBSET Order]: what each of them may ask for
  None,
  Fee,         \* of a conversion or a transfer (getCustomerTariffFee)
  Platform,    \* PLATFORM_FEE, kept back of each mint that is no refund
  Opening,     \* [Asset -> Nat]: each customer's opening balances
  MaxFaults    \* bound: lost answers, refusals without a reason, failed queries

Asset == {"SOM", "ESOM", "USDT"}

\* The awaits of each handler that change or read shared state, in their order.
PurchaseRoute == <<"draw", "mint", "look", "refresh", "book">>
EsomToUsdtRoute ==
  <<"gas", "burn", "ledger", "row", "post", "look", "refresh">>
UsdtToEsomRoute ==
  <<"check", "mint", "ledger", "row", "post", "look", "refresh">>
RedemptionRouteRowFirst ==
  <<"resolve", "gas", "burn", "look", "refresh", "row", "payout", "ledger",
    "post">>
RedemptionRoute ==
  <<"resolve", "gas", "burn", "look", "refresh", "payout", "row", "ledger",
    "post">>
RefundRoute == <<"mint", "look", "refresh">>
SomSendRoute == <<"row", "send", "stamp", "settle">>
EsomSendRoute ==
  <<"gas", "move", "gas", "fee", "row", "look", "refresh", "lookPeer",
    "refreshPeer">>
AddressRoute == <<"check", "shift">>

Route ==
  [SOM_ESOM |-> PurchaseRoute, ESOM_USDT |-> EsomToUsdtRoute,
   USDT_ESOM |-> UsdtToEsomRoute, ESOM_SOM |-> RedemptionRoute,
   SOM_SEND |-> SomSendRoute, ESOM_SEND |-> EsomSendRoute,
   ESOM_ADDR |-> AddressRoute, REFUND |-> RefundRoute, CATCH |-> <<"catch">>,
   BETWEEN |-> <<"between">>, IDLE |-> <<"idle">>, OVER |-> <<"over">>]

Conversion == {"SOM_ESOM", "ESOM_USDT", "USDT_ESOM", "ESOM_SOM"}
Transfer == {"SOM_SEND", "ESOM_SEND", "ESOM_ADDR"}
Leg == Conversion \cup Transfer

\* a two-leg conversion goes through ESOM
Order == [leg : Leg, then : {None, "ESOM_USDT", "ESOM_SOM"}, who : Customer,
          peer : Customer \cup {None}, amount : Nat]

Net(n) == IF n > Fee THEN n - Fee ELSE 0

ASSUME RailsAssumption ==
  /\ Fee \in Nat /\ Platform \in Nat /\ MaxFaults \in Nat
  /\ Opening \in [Asset -> Nat]
  /\ Asks \in [Req -> SUBSET Order]
  /\ None \notin Leg \cup Customer
\* what the controllers let through: two legs only between SOM and USDT, and
\* amounts that leave the platform its share
ASSUME AsksAssumption ==
  \A r \in Req : \A o \in Asks[r] :
    /\ Net(o.amount) \notin 1 .. Platform
    /\ o.then # None => <<o.leg, o.then>> \in {<<"SOM_ESOM", "ESOM_USDT">>,
                                               <<"USDT_ESOM", "ESOM_SOM">>}
    /\ o.leg \in Transfer => o.peer \in Customer

VARIABLES
  esom,     \* external: ESOM of each customer's address
  bank,     \* external: SOM of each customer's account at the bank
  balance,  \* user_asset_balances
  history,  \* rows of transactions, oldest first
  job,      \* the requests' locals
  did,      \* history variable: how often each effect of a request took place
  lost,     \* history variable: how many of those whose answer was lost
  beaten,   \* history variable: requests whose nonce another one used
  faults

outside == <<esom, bank>>
vars == <<outside, balance, history, job, did, lost, beaten, faults>>

Effect == {"drawn", "minted", "burnt", "paid", "refunded", "ledger",
           "sent", "moved", "fee"}

NoJob == [route |-> "IDLE", at |-> 1, leg |-> None, then |-> None,
          who |-> None, peer |-> None, amount |-> 0, ticket |-> "none",
          seen |-> 0, row |-> 0, retried |-> FALSE, took |-> 0]

Init ==
  /\ esom = [c \in Customer |-> Opening["ESOM"]]
  /\ bank = [c \in Customer |-> Opening["SOM"]]
  /\ balance = [c \in Customer |-> Opening]
  /\ history = <<>>
  /\ job = [r \in Req |-> NoJob]
  /\ did = [r \in Req |-> [e \in Effect |-> 0]]
  /\ lost = [r \in Req |-> [e \in Effect |-> 0]]
  /\ beaten = {}
  /\ faults = 0

Step(r) == Route[job[r].route][job[r].at]
Over(r) == job[r].route = "OVER"
Running(r) == job[r].route \notin {"IDLE", "OVER"}

-----------------------------------------------------------------------------
(* How a request goes on *)

Ended(j) == [NoJob EXCEPT !.route = "OVER", !.leg = j.leg, !.who = j.who,
                          !.amount = j.amount, !.took = j.took, !.row = j.row]

On(j, route) == [j EXCEPT !.route = route, !.at = 1, !.ticket = "none"]

\* the await returned; a nonce is good for one transaction
Moved(j) ==
  IF j.at < Len(Route[j.route])
  THEN [j EXCEPT !.at = @ + 1, !.ticket = "none"]
  ELSE IF j.route = "REFUND" THEN On(j, "CATCH")
  ELSE IF j.then # None THEN On(j, "BETWEEN")
  ELSE Ended(j)

ThrewUnrecorded(j) == Ended(j)
ThrewRefunding(j) ==
  IF j.route = "ESOM_SOM" /\ j.at > 6 THEN On(j, "REFUND") ELSE Ended(j)
ThrewFailingLate(j) ==
  IF j.route = "SOM_SEND" /\ j.at > 1 THEN On(j, "CATCH") ELSE Ended(j)
\* the await threw: conversions record a FAILED row once they are past their
\* checks, transferSom marks its row FAILED only for the bank's refusal, and a
\* failed refund is swallowed
Threw(j) ==
  IF j.route = "REFUND" /\ j.at = 1 THEN Moved(j)
  ELSE IF j.route = "USDT_ESOM" /\ j.at = 1 THEN Ended(j)
  ELSE IF j.route \in Conversion \cup {"REFUND"} THEN On(j, "CATCH")
  ELSE IF j.route = "SOM_SEND" /\ j.at = 2 THEN On(j, "CATCH")
  ELSE Ended(j)

Goes(r) == job' = [job EXCEPT ![r] = Moved(@)]
Throws(r) == job' = [job EXCEPT ![r] = Threw(@)]

Count(r, e) == did' = [did EXCEPT ![r][e] = @ + 1]

Faulty == faults < MaxFaults /\ faults' = faults + 1

\* An external call that has its effect: the answer arrives, or it is lost and
\* the handler sees an exception.
Answered(r, e) ==
  /\ Count(r, e)
  /\ \/ /\ Goes(r)
        /\ UNCHANGED <<lost, faults>>
     \/ /\ Faulty
        /\ Throws(r)
        /\ lost' = [lost EXCEPT ![r][e] = @ + 1]

\* A query or an external call that has no effect and throws.
Fails(r) ==
  /\ Running(r)
  /\ Step(r) \notin {"catch", "between", "payout"}
  /\ Faulty /\ Throws(r)
  /\ UNCHANGED <<outside, balance, history, did, lost, beaten>>

-----------------------------------------------------------------------------
(* The admin account signs every mint and every gas top-up.  Its nonce is    *)
(* the count of mined transactions when it was read, so of two requests that *)
(* read the same count only the first one's transaction is accepted.         *)

NeedsMintUnlessBridge(r) == job[r].then = None /\ Net(job[r].amount) > 0
NeedsMint(r) == job[r].route = "REFUND" \/ Net(job[r].amount) > 0
\* cryptoToFiat calls no transferToFiat when the fee eats the amount
NeedsBurn(r) == ~(job[r].leg = "ESOM_SOM" /\ Net(job[r].amount) = 0)
NeedsNonce(r) == \/ Step(r) = "mint" /\ NeedsMint(r)
                 \/ Step(r) = "gas" /\ NeedsBurn(r)
                    /\ ~(job[r].route = "ESOM_SEND" /\ job[r].at = 3 /\ Fee = 0)

ReadNonce(r) ==
  /\ NeedsNonce(r) /\ job[r].ticket = "none"
  /\ job' = [job EXCEPT ![r].ticket = "fresh"]
  /\ UNCHANGED <<outside, balance, history, did, lost, beaten, faults>>

\* r's transaction is mined: whoever holds the same nonce will be refused
Spent(js, r) ==
  [q \in Req |-> IF q # r /\ js[q].ticket = "fresh"
                 THEN [js[q] EXCEPT !.ticket = "stale"] ELSE js[q]]

\* transferFromFiat and the funding transaction with a nonce already used
NonceRefused(r) ==
  /\ NeedsNonce(r) /\ job[r].ticket = "stale"
  /\ Throws(r)
  /\ beaten' = beaten \cup {r}
  /\ UNCHANGED <<outside, balance, history, did, lost, faults>>

\* fundUserWalletIfNeeded: the wallet has the gas, or the admin account sends it
GasSuffices(r) ==
  /\ Step(r) = "gas" /\ job[r].ticket = "none"
  /\ Goes(r)
  /\ UNCHANGED <<outside, balance, history, did, lost, beaten, faults>>

GasSent(r) ==
  /\ Step(r) = "gas" /\ job[r].ticket = "fresh"
  /\ job' = Spent([job EXCEPT ![r] = Moved(@)], r)
  /\ UNCHANGED <<outside, balance, history, did, lost, beaten, faults>>

MintSkipped(r) ==
  /\ Step(r) = "mint" /\ ~NeedsMint(r)
  /\ Goes(r)
  /\ UNCHANGED <<outside, balance, history, did, lost, beaten, faults>>

\* a refund gives the whole amount back, without the platform's share
MintAmount(j) ==
  IF j.route = "REFUND" THEN j.amount ELSE Net(j.amount) - Platform

Mint(r) ==
  LET e == IF job[r].route = "REFUND" THEN "refunded" ELSE "minted" IN
  /\ Step(r) = "mint" /\ NeedsMint(r) /\ job[r].ticket = "fresh"
  /\ esom' = [esom EXCEPT ![job[r].who] = @ + MintAmount(job[r])]
  /\ Count(r, e)
  /\ \/ job' = Spent([job EXCEPT ![r] = Moved(@)], r)
        /\ UNCHANGED <<lost, faults>>
     \/ job' = Spent([job EXCEPT ![r] = Threw(@)], r)
        /\ lost' = [lost EXCEPT ![r][e] = @ + 1]
        /\ Faulty
  /\ UNCHANGED <<bank, balance, history, beaten>>

-----------------------------------------------------------------------------
(* The customer's own wallet signs what takes ESOM away.                     *)

\* makeTransactionUsingUserWallet, two of one customer read the same nonce
Collides(r) ==
  \E q \in Req \ {r} : /\ job[q].who = job[r].who
                       /\ Step(q) \in {"burn", "move", "fee"}

WalletRefused(r, n) ==
  /\ esom[job[r].who] < n \/ Collides(r)
  /\ Throws(r)
  /\ UNCHANGED <<outside, balance, history, did, lost, beaten, faults>>

-----------------------------------------------------------------------------
(* refreshAllBalancesForUser(customer, [ESOM]) copies the chain's balance    *)
(* over the ledger's; a failure to fetch it is swallowed.                    *)

Refreshed(r) ==
  IF Step(r) \in {"look", "refresh"} THEN job[r].who ELSE job[r].peer

RefreshRead(r) ==
  /\ Step(r) \in {"look", "lookPeer"}
  /\ job' = [job EXCEPT ![r] = [Moved(@) EXCEPT !.seen = esom[Refreshed(r)]]]
  /\ UNCHANGED <<outside, balance, history, did, lost, beaten, faults>>

RefreshWrite(r) ==
  /\ Step(r) \in {"refresh", "refreshPeer"}
  /\ balance' = [balance EXCEPT ![Refreshed(r)]["ESOM"] = job[r].seen]
  /\ Goes(r)
  /\ UNCHANGED <<outside, history, did, lost, beaten, faults>>

RefreshSwallowed(r) ==
  /\ Step(r) \in {"refresh", "refreshPeer"}
  /\ Faulty /\ Goes(r)
  /\ UNCHANGED <<outside, balance, history, did, lost, beaten>>

-----------------------------------------------------------------------------
RowOf(r, status, out) ==
  [by |-> r, leg |-> job[r].leg, who |-> job[r].who, status |-> status,
   out |-> out]

\* what a request of one leg may ask: the handler starts it
Start(r) ==
  \E o \in Asks[r] :
    /\ job[r].route = "IDLE"
    /\ job' = [job EXCEPT ![r] =
                 [NoJob EXCEPT !.route = o.leg, !.leg = o.leg, !.then = o.then,
                   !.who = o.who, !.peer = o.peer, !.amount = o.amount]]
    /\ UNCHANGED <<outside, balance, history, did, lost, beaten, faults>>

\* checkTransactionDetailed, or the customer's status, refuses the leg
Declined(r) ==
  /\ job[r].route \in Leg /\ job[r].at = 1 /\ job[r].ticket = "none"
  /\ job' = [job EXCEPT ![r] = Ended(@)]
  /\ UNCHANGED <<outside, balance, history, did, lost, beaten, faults>>

\* what a client, a compliance rule or a failure brings about
OutsideStep(r) == Start(r) \/ Declined(r) \/ Fails(r)

RailStep(r) ==
  \/ ReadNonce(r) \/ NonceRefused(r) \/ GasSuffices(r) \/ GasSent(r)
  \/ MintSkipped(r) \/ Mint(r)
  \/ RefreshRead(r) \/ RefreshWrite(r) \/ RefreshSwallowed(r)
=============================================================================
