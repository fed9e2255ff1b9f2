------------------------------ MODULE Payments ------------------------------
(***************************************************************************)
(* Conversions and transfers side by side: they share the admin account's  *)
(* nonce, the customers' wallets and accounts, the ledger and the history. *)
(***************************************************************************)
EXTENDS Conversions, Transfers

RequestStep(r) == RailStep(r) \/ ConversionStep(r) \/ TransferStep(r)

Next == \E r \in Req : RequestStep(r) \/ OutsideStep(r)

Spec == Init /\ [][Next]_vars

-----------------------------------------------------------------------------
\* Every variable has its type.
TypeOK ==
  /\ esom \in [Customer -> Nat] /\ bank \in [Customer -> Nat]
  /\ balance \in [Customer -> [Asset -> Int]]
  /\ history \in Seq([by : Req, leg : Leg, who : Customer, out : Nat,
                      status : {"PENDING", "FAILED", "SUCCESS"}])
  /\ \A r \in Req :
       /\ job[r].route \in DOMAIN Route
       /\ job[r].at \in DOMAIN Route[job[r].route]
       /\ job[r].ticket \in {"none", "fresh", "stale"}
       /\ job[r].ticket # "none" => Step(r) \in {"mint", "gas"}
  /\ did \in [Req -> [Effect -> Nat]] /\ lost \in [Req -> [Effect -> Nat]]
  /\ beaten \subseteq Req /\ faults \in 0 .. MaxFaults

\* What the row of a leg stands for.
Required(x) ==
  CASE x.leg = "SOM_ESOM"  -> {"drawn"} \cup (IF x.out > 0 THEN {"minted"} ELSE {})
    [] x.leg = "ESOM_USDT" -> {"burnt", "ledger"}
    [] x.leg = "USDT_ESOM" -> {"ledger"} \cup (IF x.out > 0 THEN {"minted"} ELSE {})
    [] x.leg = "ESOM_SOM"  -> {"paid"} \cup (IF x.out > 0 THEN {"burnt"} ELSE {})
    [] x.leg = "SOM_SEND"  -> {"sent", "ledger"}
    [] x.leg = "ESOM_SEND" -> {"moved"} \cup (IF Fee > 0 THEN {"fee"} ELSE {})
    [] x.leg = "ESOM_ADDR" -> {"ledger"}

\* A SUCCESS row is written only after the bank, the chain and the ledger did
\* what it says; a later exception adds a FAILED row and does not undo them.
SuccessIsComplete ==
  \A i \in DOMAIN history : history[i].status = "SUCCESS" =>
    \A e \in Required(history[i]) : did[history[i].by][e] > 0

RowsOf(r) == {i \in DOMAIN history : history[i].by = r}
Outside(r) == {e \in Effect \ {"ledger"} : did[r][e] > 0}

\* Coins or SOM that moved leave a row of some status, without a failed query at
\* all; but transferESom takes its fee after the coins and forgets both when the
\* wallet cannot pay it.
EffectsAreRecorded ==
  \A r \in Req :
    (Over(r) /\ Outside(r) # {} /\ RowsOf(r) = {}) =>
      \/ faults > 0
      \/ job[r].leg = "ESOM_SEND" /\ Outside(r) = {"moved"}

\* All of it: the history says what was done, and what was done is in it.
HistoryIsComplete == TypeOK /\ SuccessIsComplete /\ EffectsAreRecorded

\* A customer whose SOM were drawn gets ESOM, unless something failed or another
\* request used the admin account's nonce first: nothing gives the SOM back.
ShortfallHasCause ==
  \A r \in Req :
    (Over(r) /\ did[r]["drawn"] > did[r]["minted"]) =>
      \/ faults > 0 \/ r \in beaten
      \/ \E i \in RowsOf(r) : history[i].status = "SUCCESS" /\ history[i].out = 0

\* A redemption pays once or gives the ESOM back once; each answer of the bank
\* that was lost may add one.  What is given back had been taken, except where
\* the fee eats the amount and nothing was.
PaidOrRefunded ==
  \A r \in Req :
    /\ did[r]["paid"] + did[r]["refunded"] <= 1 + lost[r]["paid"]
    /\ did[r]["refunded"] <= did[r]["burnt"] \/ Net(job[r].amount) = 0

\* The second leg spends what a row of the customer says the first leg left:
\* the row of this conversion, or one another request of the customer wrote
\* between that row and the look-up.
SecondLegIsOwn ==
  \A r \in Req :
    LET i == job[r].took IN
    i > 0 => /\ history[i].who = job[r].who /\ job[r].amount = history[i].out
             /\ history[i].status = "SUCCESS"
             /\ \E own \in RowsOf(r) : own <= i /\ history[own].leg = history[i].leg

\* The row of a SOM transfer against the bank and the ledger: SUCCESS stands for
\* both, FAILED for neither unless the bank's answer was lost, and PENDING is
\* left behind only by a failed query or answer.
SomRowTellsTheBank ==
  \A r \in Req : Over(r) /\ job[r].leg = "SOM_SEND" /\ job[r].row > 0 =>
    LET status == history[job[r].row].status IN
    /\ status = "SUCCESS" <=> did[r]["ledger"] = 1
    /\ status = "FAILED" => did[r]["sent"] = lost[r]["sent"]
    /\ status = "PENDING" => faults > 0

\* The balance is checked before the debit and not locked in between: a debit
\* takes it below zero only if it fell after the check.
OverdraftNeedsRace ==
  [][\A r \in Req, a \in {"USDT", "ESOM"} :
       LET c == job[r].who IN
       (/\ a = IF Step(r) = "shift" THEN "ESOM" ELSE "USDT"
        /\ job[r].route \in {"USDT_ESOM", "ESOM_ADDR"}
        /\ did'[r]["ledger"] > did[r]["ledger"]
        /\ balance'[c][a] < 0)
       => balance[c][a] < job[r].seen]_vars
=============================================================================
