---------------------------- MODULE Conversions ----------------------------
(****************************************************************************)
(* convert, fiatToCrypto and cryptoToFiat: SOM, ESOM and USDT into each     *)
(* other, in one leg or in two through ESOM.  Each leg works on the bank or *)
(* the chain first and on the database afterwards, await by await.          *)
(****************************************************************************)
EXTENDS PaymentRails, SequencesExt

Pass(r) ==
  /\ Goes(r)
  /\ UNCHANGED <<outside, balance, history, did, lost, beaten, faults>>

CheckUsdtNever(r) == Step(r) = "check" /\ Pass(r)
\* ensureCryptoBalance: checked now, debited after the mint, no lock between
CheckUsdt(r) ==
  /\ job[r].route = "USDT_ESOM" /\ Step(r) = "check"
  /\ IF balance[job[r].who]["USDT"] >= job[r].amount
     THEN job' = [job EXCEPT ![r] =
                    [Moved(@) EXCEPT !.seen = balance[job[r].who]["USDT"]]]
     ELSE job' = [job EXCEPT ![r] = Ended(@)]
  /\ UNCHANGED <<outside, balance, history, did, lost, beaten, faults>>

\* createTransactionFiatToCrypto: the bank moves the customer's SOM
Draw(r) ==
  LET c == job[r].who IN
  /\ Step(r) = "draw"
  /\ IF bank[c] >= job[r].amount
     THEN /\ bank' = [bank EXCEPT ![c] = @ - job[r].amount]
          /\ Answered(r, "drawn")
          /\ UNCHANGED <<esom, balance, history, beaten>>
     ELSE /\ Throws(r)
          /\ UNCHANGED <<outside, balance, history, did, lost, beaten, faults>>

\* the accounts are looked up and the wallet is seen to cover the amount
Resolve(r) ==
  /\ Step(r) = "resolve"
  /\ IF esom[job[r].who] >= job[r].amount THEN Goes(r) ELSE Throws(r)
  /\ UNCHANGED <<outside, balance, history, did, lost, beaten, faults>>

Burn(r) ==
  LET c == job[r].who IN
  /\ Step(r) = "burn"
  /\ \/ ~NeedsBurn(r) /\ Pass(r)
     \/ /\ NeedsBurn(r) /\ esom[c] >= job[r].amount
        /\ esom' = [esom EXCEPT ![c] = @ - job[r].amount]
        /\ Answered(r, "burnt")
        /\ UNCHANGED <<bank, balance, history, beaten>>
     \/ NeedsBurn(r) /\ WalletRefused(r, job[r].amount)

\* What a leg adds to user_asset_balances outside of a transaction: relative to
\* the value at the update.
Credit(leg, n) ==
  CASE leg = "ESOM_USDT" -> [asset |-> "USDT", n |-> Net(n)]
    [] leg = "USDT_ESOM" -> [asset |-> "USDT", n |-> -n]
    [] leg = "ESOM_SOM"  -> [asset |-> "SOM", n |-> Net(n)]
    [] leg = "SOM_ESOM"  -> [asset |-> "SOM", n |-> -n]

Post(r) ==
  LET x == Credit(job[r].leg, job[r].amount)
  IN  balance' = [balance EXCEPT ![job[r].who][x.asset] = @ + x.n]

Ledger(r) ==
  /\ Step(r) = "ledger"
  /\ Post(r) /\ Count(r, "ledger") /\ Goes(r)
  /\ UNCHANGED <<outside, history, lost, beaten, faults>>

\* transaction.create with what the fee leaves of the amount; the platform's
\* share of a mint is not taken off
Insert(r) ==
  history' = Append(history, RowOf(r, "SUCCESS", Net(job[r].amount)))

InsertRow(r) ==
  /\ job[r].route \in Conversion /\ Step(r) = "row"
  /\ Insert(r) /\ Goes(r)
  /\ UNCHANGED <<outside, balance, did, lost, beaten, faults>>

\* fiatToCrypto records the row, the SOM balance and the postings in one
\* transaction
Book(r) ==
  /\ Step(r) = "book"
  /\ Insert(r) /\ Post(r) /\ Count(r, "ledger") /\ Goes(r)
  /\ UNCHANGED <<outside, lost, beaten, faults>>

\* createCommissionDistributionPostings, createSomRedemptionAccountingPostings
Postings(r) == Step(r) = "post" /\ Pass(r)

\* createBankPayout.  An exception is taken for a payout that did not happen:
\* it is tried from the admin's account if that is another one by now, and
\* else the ESOM goes back.
PayoutThrew(j) ==
  {On(j, "REFUND")} \cup
    (IF j.retried THEN {} ELSE {[j EXCEPT !.retried = TRUE]})

Payout(r) ==
  /\ Step(r) = "payout"
  /\ bank' = [bank EXCEPT ![job[r].who] = @ + Net(job[r].amount)]
  /\ Count(r, "paid")
  /\ \/ Goes(r) /\ UNCHANGED <<lost, faults>>
     \/ /\ \E j \in PayoutThrew(job[r]) : job' = [job EXCEPT ![r] = j]
        /\ lost' = [lost EXCEPT ![r]["paid"] = @ + 1]
        /\ Faulty
  /\ UNCHANGED <<esom, balance, history, beaten>>

PayoutRefused(r) ==
  /\ Step(r) = "payout"
  /\ Faulty
  /\ \E j \in PayoutThrew(job[r]) : job' = [job EXCEPT ![r] = j]
  /\ UNCHANGED <<outside, balance, history, did, lost, beaten>>

\* the catch block: createConversionTransactionRecord, if the database lets it
CatchConversion(r) ==
  /\ Step(r) = "catch" /\ job[r].leg \in Conversion
  /\ job' = [job EXCEPT ![r] = Ended(@)]
  /\ \/ history' = Append(history, RowOf(r, "FAILED", Net(job[r].amount)))
        /\ UNCHANGED faults
     \/ Faulty /\ UNCHANGED history
  /\ UNCHANGED <<outside, balance, did, lost, beaten>>

-----------------------------------------------------------------------------
LatestOfAnyone(r) ==
  SelectLastInSeq(history, LAMBDA x : x.leg = job[r].leg /\ x.status = "SUCCESS")
\* Between the legs convert looks up the customer's latest SUCCESS row of the
\* first leg's kind and assets, not the row of the first leg itself.
Latest(r) ==
  SelectLastInSeq(history, LAMBDA x : /\ x.who = job[r].who
                                      /\ x.leg = job[r].leg
                                      /\ x.status = "SUCCESS")

Between(r) ==
  LET i == Latest(r) IN
  /\ Step(r) = "between"
  /\ IF history[i].out > 0
     THEN job' = [job EXCEPT ![r] =
                    [On(@, job[r].then) EXCEPT !.leg = job[r].then,
                       !.then = None, !.amount = history[i].out, !.took = i]]
     ELSE job' = [job EXCEPT ![r] = Ended(@)]
  /\ UNCHANGED <<outside, balance, history, did, lost, beaten, faults>>

BetweenFails(r) ==
  /\ Step(r) = "between"
  /\ Faulty
  /\ job' = [job EXCEPT ![r] = Ended(@)]
  /\ UNCHANGED <<outside, balance, history, did, lost, beaten>>

ConversionStep(r) ==
  \/ CheckUsdt(r) \/ Draw(r) \/ Resolve(r) \/ Burn(r) \/ Ledger(r)
  \/ InsertRow(r) \/ Book(r) \/ Postings(r) \/ Payout(r) \/ PayoutRefused(r)
  \/ CatchConversion(r) \/ Between(r) \/ BetweenFails(r)
=============================================================================
