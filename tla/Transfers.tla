----------------------------- MODULE Transfers -----------------------------
(*****************************************************************************)
(* transferSom, transferESom by phone number and transferCryptoInternal, the *)
(* transfer of ESOM to a wallet address: to another customer, whose address  *)
(* or account is known.                                                      *)
(*****************************************************************************)
EXTENDS PaymentRails

-----------------------------------------------------------------------------
(* transferSom: a PENDING row, the bank, the bank's number on the row, and    *)
(* one transaction for the balances and the status.                          *)

PendingRow(r) ==
  /\ job[r].route = "SOM_SEND" /\ Step(r) = "row"
  /\ history' = Append(history, RowOf(r, "PENDING", job[r].amount))
  /\ job' = [job EXCEPT ![r] = [Moved(@) EXCEPT !.row = Len(history) + 1]]
  /\ UNCHANGED <<outside, balance, did, lost, beaten, faults>>

SendSom(r) ==
  LET n == job[r].amount IN
  /\ Step(r) = "send"
  /\ IF bank[job[r].who] >= n
     THEN /\ bank' = [bank EXCEPT ![job[r].who] = @ - n, ![job[r].peer] = @ + n]
          /\ Answered(r, "sent")
          /\ UNCHANGED <<esom, balance, history, beaten>>
     ELSE /\ Throws(r)
          /\ UNCHANGED <<outside, balance, history, did, lost, beaten, faults>>

StampRow(r) ==
  /\ Step(r) = "stamp"
  /\ Goes(r)
  /\ UNCHANGED <<outside, balance, history, did, lost, beaten, faults>>

\* an exception of this transaction is logged and the answer is OK all the same
SettleSom(r) ==
  LET n == job[r].amount IN
  /\ Step(r) = "settle"
  /\ balance' = [balance EXCEPT ![job[r].who]["SOM"] = @ - n,
                                ![job[r].peer]["SOM"] = @ + n]
  /\ history' = [history EXCEPT ![job[r].row].status = "SUCCESS"]
  /\ Count(r, "ledger") /\ Goes(r)
  /\ UNCHANGED <<outside, lost, beaten, faults>>

CatchSom(r) ==
  /\ Step(r) = "catch" /\ job[r].leg = "SOM_SEND"
  /\ job' = [job EXCEPT ![r] = Ended(@)]
  /\ \/ history' = [history EXCEPT ![job[r].row].status = "FAILED"]
        /\ UNCHANGED faults
     \/ Faulty /\ UNCHANGED history
  /\ UNCHANGED <<outside, balance, did, lost, beaten>>

-----------------------------------------------------------------------------
(* transferESom by phone: the coins, the fee, and only then the row.          *)

MoveEsom(r) ==
  LET n == job[r].amount IN
  /\ Step(r) = "move"
  /\ \/ /\ esom[job[r].who] >= n
        /\ esom' = [esom EXCEPT ![job[r].who] = @ - n, ![job[r].peer] = @ + n]
        /\ Answered(r, "moved")
        /\ UNCHANGED <<bank, balance, history, beaten>>
     \/ WalletRefused(r, n)

PayFee(r) ==
  /\ Step(r) = "fee"
  /\ \/ /\ Fee = 0 /\ Goes(r)
        /\ UNCHANGED <<outside, balance, history, did, lost, beaten, faults>>
     \/ /\ Fee > 0 /\ esom[job[r].who] >= Fee
        /\ esom' = [esom EXCEPT ![job[r].who] = @ - Fee]
        /\ Answered(r, "fee")
        /\ UNCHANGED <<bank, balance, history, beaten>>
     \/ Fee > 0 /\ WalletRefused(r, Fee)

TransferRow(r) ==
  /\ job[r].route = "ESOM_SEND" /\ Step(r) = "row"
  /\ history' = Append(history, RowOf(r, "SUCCESS", job[r].amount))
  /\ Goes(r)
  /\ UNCHANGED <<outside, balance, did, lost, beaten, faults>>

-----------------------------------------------------------------------------
(* transferCryptoInternal: one READ COMMITTED transaction reads the sender's  *)
(* balance and then moves the amount, in the ledger alone.                    *)

Debited(r) == job[r].amount + Fee

CheckEsom(r) ==
  /\ job[r].route = "ESOM_ADDR" /\ Step(r) = "check"
  /\ IF balance[job[r].who]["ESOM"] >= Debited(r)
     THEN job' = [job EXCEPT ![r] =
                    [Moved(@) EXCEPT !.seen = balance[job[r].who]["ESOM"]]]
     ELSE Throws(r)
  /\ UNCHANGED <<outside, balance, history, did, lost, beaten, faults>>

ShiftEsom(r) ==
  /\ Step(r) = "shift"
  /\ balance' = [balance EXCEPT ![job[r].who]["ESOM"] = @ - Debited(r),
                                ![job[r].peer]["ESOM"] = @ + job[r].amount]
  /\ history' = Append(history, RowOf(r, "SUCCESS", job[r].amount))
  /\ Count(r, "ledger") /\ Goes(r)
  /\ UNCHANGED <<outside, lost, beaten, faults>>

TransferStep(r) ==
  \/ PendingRow(r) \/ SendSom(r) \/ StampRow(r) \/ SettleSom(r) \/ CatchSom(r)
  \/ MoveEsom(r) \/ PayFee(r) \/ TransferRow(r) \/ CheckEsom(r) \/ ShiftEsom(r)
=============================================================================
