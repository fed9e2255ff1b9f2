----------------------------- MODULE AntiFraud -----------------------------
(***************************************************************************)
(* antifraud.service and the payments that ask it: the rules, the case a   *)
(* triggered rule opens, the status of the paying customer and what the    *)
(* administrators decide.  A check is a chain of awaited queries, so other *)
(* checks, payments and decisions come between its steps.  Amounts are in  *)
(* units of 100,000 SOM, ages in days; one customer pays.                  *)
(***************************************************************************)
EXTENDS Integers, Sequences, FiniteSets, FiniteSetsExt

CONSTANTS
  Attempt,    \* payment requests of the customer
  Scenarios,  \* [ask: what each asks for, past: the rows before, rules: the
              \* rules that matter, edit: what an administrator sets]
  Adjusted,   \* the rules an administrator switches on and off
  Peer,       \* who pays and is paid
  Address,    \* wallet addresses
  Rate,       \* ESOM for one USDT
  Payer, None

VARIABLES
  ledger,     \* transactions, oldest first, each with the status of its case
  status,     \* customers.status of the payer
  enabled,    \* is the rule in force for the payer's tariff category?
  listed,     \* is the payer's browser wallet on the AML list?
  pay,        \* the leg each attempt is at: [flow, next, amount, fee, to, address]
  check,      \* the attempts' locals
  editor,     \* user-management.update: [at, to, comment, saw]
  spent       \* history variable: what was paid on an approval, see Pay

fraudVars == <<ledger, status, enabled, listed, pay, check, editor, spent>>

Idle == [at |-> "idle", seen |-> 0, prev |-> 0, row |-> 0, fresh |-> TRUE]

Status == {"ACTIVE", "FRAUD", "BLOCKED"}
Currency == {"SOM", "ESOM", "USDT"}
Kind == {"BANK_TO_BANK", "BANK_TO_WALLET", "WALLET_TO_BANK", "WALLET_TO_WALLET",
         "WITHDRAW_CRYPTO", "CONVERSION"}
Flow == {"wallet", "esom", "som", "internal", "withdraw", "to_browser",
         "from_browser", "from_browser_by_phone", "on_chain", "esom_to_usdt",
         "usdt_to_esom", "purchase", "redeem"}
\* what checks compare and payments store
Fields == [kind : Kind, asset_in : Currency, in : Int, asset_out : Currency,
           to : Peer \cup {None}, wallet : Address \cup {None},
           external : Address \cup {None}]
Transaction == [fields : Fields, out : Int, sender : Peer, age : Nat,
                success : BOOLEAN,
                case : {"none", "OPEN", "APPROVED", "REJECTED"}]
Conversion == [call : {"convert"}, currency : Currency, into : Currency,
               amount : Int, fee : Int, to : Peer \cup {None},
               address : Address \cup {None}]
Transfer == [call : {"transfer"}, currency : Currency,
             by : {"address", "phone"}, from : {"bank", "browser"},
             whom : {"bank", "browser", "unknown"}, amount : Int, fee : Int,
             to : Peer \cup {None}, address : Address \cup {None}]

\* what a scenario may ask for, and start from
IsScenario(s) ==
  /\ s.past \in Seq(Transaction)
  /\ s.ask \in [Attempt -> Conversion \cup Transfer]
  /\ s.edit \in [at : {"idle", "over"}, to : Status, comment : BOOLEAN,
                 saw : {None}]

-----------------------------------------------------------------------------
(* What a check looks at: kind, assets, amount_in, receiver and addresses.   *)

KindOf(flow) ==
  CASE flow \in {"esom_to_usdt", "usdt_to_esom"} -> "CONVERSION"
    [] flow = "purchase" -> "BANK_TO_WALLET"
    [] flow = "redeem" -> "WALLET_TO_BANK"
    [] flow = "withdraw" -> "WITHDRAW_CRYPTO"
    [] flow = "som" -> "BANK_TO_BANK"
    [] OTHER -> "WALLET_TO_WALLET"
AssetIn(flow) ==
  CASE flow \in {"purchase", "som"} -> "SOM"
    [] flow \in {"esom_to_usdt", "redeem", "wallet", "esom"} -> "ESOM"
    [] OTHER -> "USDT"
AssetOut(flow) ==
  CASE flow \in {"redeem", "som"} -> "SOM"
    [] flow \in {"usdt_to_esom", "purchase", "wallet", "esom"} -> "ESOM"
    [] OTHER -> "USDT"

\* transferCryptoInternal checks the amount with its fee
Plan(p) ==
  [kind |-> KindOf(p.flow), asset_in |-> AssetIn(p.flow),
   in |-> IF p.flow = "wallet" THEN p.amount + p.fee ELSE p.amount,
   asset_out |-> AssetOut(p.flow), to |-> p.to,
   wallet |-> IF p.flow = "withdraw" THEN None ELSE p.address,
   external |-> IF p.flow = "withdraw" THEN p.address ELSE None]

\* ... and stores it without; a purchase stores its buyer as the sender only
Stored(p) == [Plan(p) EXCEPT !.in = p.amount,
                             !.to = IF p.flow = "purchase" THEN None ELSE @]

\* amount_out of what is paid: a conversion pays out what its fee leaves
Out(p) ==
  LET net == IF p.amount > p.fee THEN p.amount - p.fee ELSE 0 IN
  CASE p.flow = "esom_to_usdt" -> net \div Rate
    [] p.flow = "usdt_to_esom" -> net * Rate
    [] p.flow \in {"purchase", "redeem"} -> net
    [] OTHER -> p.amount

\* an undefined filter is dropped, so that a plan that names no receiver or
\* address is compared with the rows of all of them
Asks(wanted, found) == wanted \in {None, found}
Identical(row, plan) ==
  /\ row.sender = Payer
  /\ row.fields.kind = plan.kind /\ row.fields.in = plan.in
  /\ row.fields.asset_in = plan.asset_in /\ row.fields.asset_out = plan.asset_out
  /\ Asks(plan.to, row.fields.to) /\ Asks(plan.wallet, row.fields.wallet)
  /\ Asks(plan.external, row.fields.external)

Row(fields, out, success) ==
  [fields |-> fields, out |-> out, sender |-> Payer, age |-> 0,
   success |-> success, case |-> "none"]
Refused(p) == Row(Plan(p), 0, FALSE)  \* no caller gives an amount_out

-----------------------------------------------------------------------------
(* The rules.  They count every row, whatever its status, and add up amounts *)
(* of any asset; only the amount asked for is turned into SOM.               *)

Recent(days) == {i \in DOMAIN ledger : ledger[i].age <= days}
Sent(days) == {i \in Recent(days) : ledger[i].sender = Payer}
Received(p, days) ==
  {i \in Recent(days) : Asks(Plan(p).to, ledger[i].fields.to)}
Senders(rows) == {ledger[i].sender : i \in rows}
Total(rows) == MapThenSumSet(LAMBDA i : ledger[i].out, rows)
Inflow == {i \in Recent(7) : ledger[i].fields.to = Payer /\ ledger[i].out >= 10}
Depositors(p) ==
  {s \in Senders(Received(p, 30)) :
     Total({i \in Received(p, 30) : ledger[i].sender = s}) > 0}
InSom(plan) == IF plan.asset_in = "USDT" THEN plan.in * Rate ELSE plan.in

\* evaluateTriggeredDetailed with the thresholds of ensureDefaults
Fires(rule, p) ==
  CASE rule = "FIAT_ANY" -> Plan(p).asset_in = "SOM" /\ InSom(Plan(p)) >= 10
    [] rule = "ONE_TIME" -> InSom(Plan(p)) >= 80
    [] rule = "FREQUENT" ->
         Cardinality({i \in Sent(30) : ledger[i].out >= 1}) >= 3
    [] rule = "INFLOW" ->
         Inflow # {} /\ 100 * InSom(Plan(p)) >= 50 * Total(Inflow)
    [] rule = "SPLITTING" -> Total(Sent(14)) >= 10
    [] rule = "THIRD_PARTY" ->
         Cardinality(Depositors(p)) >= 3 /\ Total(Received(p, 30)) >= 10
    [] rule = "INACTIVITY" -> Sent(180) = {}
    [] rule = "MANY_SENDERS" -> Cardinality(Senders(Received(p, 30))) >= 10

-----------------------------------------------------------------------------
(* Which way a request takes, and which checks stand in it.                  *)

At(a, at) == check[a].at = at
Goes(a, at) == check' = [check EXCEPT ![a].at = at]

\* transfer in USDT to an address: of the application's own wallets, those kept
\* in a browser are reached and left on chain, through the bridge
AddressFlow(q) ==
  CASE q.whom = "unknown" -> "withdraw"
    [] q.from = "bank" /\ q.whom = "bank" -> "internal"
    [] q.from = "bank" /\ q.whom = "browser" -> "to_browser"
    [] q.from = "browser" /\ q.whom = "bank" -> "from_browser"
    [] q.from = "browser" /\ q.whom = "browser" -> "on_chain"

\* ... and to a phone number
PhoneFlow(q) ==
  IF q.from = "browser" THEN "from_browser_by_phone" ELSE "internal"

\* the first leg of a conversion
FirstOf(q) ==
  CASE q.currency = "SOM" -> "purchase"
    [] q.currency = "USDT" -> "usdt_to_esom"
    [] q.currency = "ESOM" ->
         IF q.into = "SOM" THEN "redeem" ELSE "esom_to_usdt"

\* transfer and convert
FlowOf(q) ==
  CASE q.call = "convert" -> FirstOf(q)
    [] q.call = "transfer" /\ q.currency = "USDT" ->
         IF q.by = "address" THEN AddressFlow(q) ELSE PhoneFlow(q)
    [] q.call = "transfer" /\ q.currency = "ESOM" ->
         IF q.by = "address" THEN "wallet" ELSE "esom"
    [] q.call = "transfer" /\ q.currency = "SOM" -> "som"

\* SOM and USDT are converted into each other by way of ESOM
SecondOf(q) ==
  CASE q.call = "convert" /\ q.currency = "SOM" /\ q.into = "USDT" ->
         "esom_to_usdt"
    [] q.call = "convert" /\ q.currency = "USDT" /\ q.into = "SOM" -> "redeem"
    [] OTHER -> None

Payment(q) ==
  [flow |-> FlowOf(q), next |-> SecondOf(q), amount |-> q.amount,
   fee |-> q.fee, to |-> q.to, address |-> q.address]
SecondLeg(p, amount) ==
  [flow |-> p.next, next |-> None, amount |-> amount, fee |-> p.fee,
   to |-> None, address |-> None]

\* the rules, the AML list, both, or neither
Checks(flow) ==
  CASE flow \in {"to_browser", "on_chain"} -> {}
    [] flow = "from_browser" -> {"aml"}
    [] flow = "from_browser_by_phone" -> {"rules", "aml"}
    [] OTHER -> {"rules"}

FirstCheck(p) ==
  IF "rules" \in Checks(p.flow) THEN "evaluate"
  ELSE IF "aml" \in Checks(p.flow) THEN "aml" ELSE "pay"
AfterRules(p) == IF "aml" \in Checks(p.flow) THEN "aml" ELSE "pay"

\* conversions keep a row of what fails, and can fail once more behind the row
\* of what succeeded: while the commission is posted or the balance refreshed
Converts(p) ==
  p.flow \in {"esom_to_usdt", "usdt_to_esom", "purchase", "redeem"}
FailsLate(p) == p.flow \in {"esom_to_usdt", "usdt_to_esom", "redeem"}
AfterLeg(p) == IF p.next = None THEN "over" ELSE "next"

-----------------------------------------------------------------------------
(* The attempts.                                                             *)

Init ==
  /\ \E s \in Scenarios :
       /\ ledger = s.past /\ enabled = [r \in s.rules |-> TRUE]
       /\ pay = [a \in Attempt |-> Payment(s.ask[a])] /\ editor = s.edit
       /\ check = [a \in Attempt |-> IF a \in s.absent
                                    THEN [Idle EXCEPT !.at = "over"] ELSE Idle]
  /\ status = "ACTIVE" /\ listed = FALSE /\ spent = {}

MayPayAlways(a) == TRUE
\* convert turns FRAUD away as well, the transfers and withdrawals only BLOCKED
MayPay(a) ==
  /\ status # "BLOCKED"
  /\ Converts(pay[a]) => status # "FRAUD"

Begin(a) ==
  /\ At(a, "idle") /\ MayPay(a)
  /\ check' = [check EXCEPT ![a].at = FirstCheck(pay[a]),
                            ![a].seen = Len(ledger)]
  /\ UNCHANGED <<ledger, status, enabled, listed, pay, editor, spent>>

Evaluate(a) ==
  /\ At(a, "evaluate")
  /\ Goes(a, IF \E rule \in DOMAIN enabled :
                    enabled[rule] /\ Fires(rule, pay[a])
               THEN "compare" ELSE AfterRules(pay[a]))
  /\ UNCHANGED <<ledger, status, enabled, listed, pay, editor, spent>>

AnyIdentical(p) == {i \in DOMAIN ledger : Identical(ledger[i], Plan(p))}
Newest(rows) == {i \in rows : \A j \in rows : j <= i}
\* hasApprovedIdentical: only the newest identical row counts
Previous(p) == Newest(AnyIdentical(p))

Compare(a) ==
  /\ At(a, "compare")
  /\ \/ /\ Previous(pay[a]) = {} /\ Goes(a, "flag")
     \/ \E i \in Previous(pay[a]) :
          check' = [check EXCEPT ![a].at = "case", ![a].prev = i]
  /\ UNCHANGED <<ledger, status, enabled, listed, pay, editor, spent>>

FindCase(a) ==
  /\ At(a, "case")
  /\ \/ ledger[check[a].prev].case = "APPROVED"
        /\ Goes(a, AfterRules(pay[a]))
     \/ /\ ledger[check[a].prev].case # "APPROVED"
        /\ check' = [check EXCEPT ![a].at = "flag", ![a].prev = 0]
  /\ UNCHANGED <<ledger, status, enabled, listed, pay, editor, spent>>

\* updateMany without a condition on the status it replaces
Flag(a) ==
  /\ At(a, "flag") /\ Goes(a, "reject")
  /\ status' = "FRAUD"
  /\ UNCHANGED <<ledger, enabled, listed, pay, editor, spent>>

OpensRow(a) ==
  /\ ledger' = Append(ledger, Refused(pay[a]))
  /\ check' = [check EXCEPT ![a].at = "open", ![a].row = Len(ledger) + 1]

\* the row of the refused payment
Reject(a) ==
  /\ At(a, "reject") /\ OpensRow(a)
  /\ UNCHANGED <<status, enabled, listed, pay, editor, spent>>

OpenCase(a) ==
  /\ At(a, "open") /\ Goes(a, "over")
  /\ ledger' = [ledger EXCEPT ![check[a].row].case = "OPEN"]
  /\ UNCHANGED <<status, enabled, listed, pay, editor, spent>>

\* checkExternalWalletDetailed: a listed wallet costs a row and a case, the
\* customer's status stays
CheckWallet(a) ==
  /\ At(a, "aml")
  /\ \/ ~listed /\ Goes(a, "pay") /\ UNCHANGED ledger
     \/ listed /\ OpensRow(a)
  /\ UNCHANGED <<status, enabled, listed, pay, editor, spent>>

\* The row a payment leaves, if any: of what succeeded, or of a conversion that
\* failed.  transferSom stores its row before it asks the bank, and no check
\* reads what becomes of its status.
Leaves(p) == IF p.flow = "som" THEN {FALSE}
             ELSE IF Converts(p) THEN BOOLEAN ELSE {TRUE}
Adds(a, success) ==
  ledger' = Append(ledger, Row(Stored(pay[a]), Out(pay[a]), success))
Use(a) == [via |-> check[a].prev, since |-> check[a].seen,
           stored |-> Len(ledger) + 1, plan |-> Plan(pay[a])]

Pay(a) ==
  /\ At(a, "pay")
  /\ \/ \E success \in Leaves(pay[a]) :
          /\ Adds(a, success)
          /\ Goes(a, IF ~success THEN "over"
                     ELSE IF FailsLate(pay[a]) THEN "late"
                     ELSE AfterLeg(pay[a]))
          /\ spent' = IF check[a].prev = 0 THEN spent
                      ELSE spent \cup {Use(a)}
     \/ Goes(a, "over") /\ UNCHANGED <<ledger, spent>>
  /\ UNCHANGED <<status, enabled, listed, pay, editor>>

PayLate(a) ==
  /\ At(a, "late")
  /\ \/ Adds(a, FALSE) /\ Goes(a, "over")
     \/ Goes(a, AfterLeg(pay[a])) /\ UNCHANGED ledger
  /\ UNCHANGED <<status, enabled, listed, pay, editor, spent>>

\* the customer's latest successful row of the first leg's kind
Latest(p) ==
  Newest({i \in DOMAIN ledger :
            /\ ledger[i].sender = Payer /\ ledger[i].success
            /\ ledger[i].fields.kind = Plan(p).kind
            /\ ledger[i].fields.asset_in = Plan(p).asset_in
            /\ ledger[i].fields.asset_out = Plan(p).asset_out})

\* The second leg is a call of convert, which tests the status, or one of
\* cryptoToFiat, which does not.
Continue(a) ==
  /\ At(a, "next")
  /\ \E i \in Latest(pay[a]) :
       \/ ledger[i].out <= 0 /\ Goes(a, "over") /\ UNCHANGED pay
       \/ /\ ledger[i].out > 0
          /\ pay' = [pay EXCEPT ![a] = SecondLeg(@, ledger[i].out)]
          /\ check' = [check EXCEPT ![a] =
                         IF pay[a].next = "redeem"
                         THEN [@ EXCEPT !.at = "evaluate", !.prev = 0,
                                        !.seen = Len(ledger)]
                         ELSE Idle]
  /\ UNCHANGED <<ledger, status, enabled, listed, editor, spent>>

\* a failed query or a restart between the awaits of the check
Crash(a) ==
  /\ check[a].at \in {"reject", "open"} /\ Goes(a, "lost")
  /\ UNCHANGED <<ledger, status, enabled, listed, pay, editor, spent>>

-----------------------------------------------------------------------------
(* The administrators.  A case is decided however often, whatever it is at. *)

FreesBlocked == {"BLOCKED"}
Frees == {"FRAUD", "BLOCKED"}
HasCase(i) == ledger[i].case # "none"

AdminApprove(i) ==
  /\ HasCase(i)
  /\ ledger' = [ledger EXCEPT ![i].case = "APPROVED"]
  /\ status' = IF ledger[i].sender = Payer /\ status \in Frees THEN "ACTIVE"
               ELSE status
  /\ UNCHANGED <<enabled, listed, pay, check, editor, spent>>

\* the attempts under way were begun before this block
Outdated == [a \in Attempt |-> [check[a] EXCEPT !.fresh = check[a].at = "idle"]]

AdminReject(i) ==
  /\ HasCase(i)
  /\ ledger' = [ledger EXCEPT ![i].case = "REJECTED"]
  /\ \/ /\ ledger[i].sender = Payer /\ status' = "BLOCKED" /\ check' = Outdated
     \/ ledger[i].sender # Payer /\ UNCHANGED <<status, check>>
  /\ UNCHANGED <<enabled, listed, pay, editor, spent>>

EditSilently(to, comment) == TRUE
\* a change of the status needs a comment
MayEdit(to, comment) == to = status \/ comment

EditRead ==
  /\ editor.at = "idle" /\ MayEdit(editor.to, editor.comment)
  /\ editor' = [editor EXCEPT !.at = "write", !.saw = status]
  /\ UNCHANGED <<ledger, status, enabled, listed, pay, check, spent>>

EditWrite ==
  /\ editor.at = "write" /\ editor' = [editor EXCEPT !.at = "over"]
  /\ status' = editor.to
  /\ check' = IF editor.to = "BLOCKED" THEN Outdated ELSE check
  /\ UNCHANGED <<ledger, enabled, listed, pay, spent>>

UpdateRule(rule) ==
  /\ enabled' = [enabled EXCEPT ![rule] = ~@]
  /\ UNCHANGED <<ledger, status, listed, pay, check, editor, spent>>

\* updateAmlSettings: every active source loads and has rules, or nothing is
\* saved
UpdateAml ==
  /\ listed' = ~listed
  /\ \E a \in Attempt : "aml" \in Checks(pay[a].flow)
  /\ UNCHANGED <<ledger, status, enabled, pay, check, editor, spent>>

Next ==
  \/ \E a \in Attempt :
       \/ Begin(a) \/ Evaluate(a) \/ Compare(a) \/ FindCase(a) \/ Flag(a)
       \/ Reject(a) \/ OpenCase(a) \/ CheckWallet(a) \/ Pay(a)
       \/ PayLate(a) \/ Continue(a) \/ Crash(a)
  \/ \E i \in DOMAIN ledger : AdminApprove(i) \/ AdminReject(i)
  \/ \E rule \in Adjusted \cap DOMAIN enabled : UpdateRule(rule)
  \/ UpdateAml \/ EditRead \/ EditWrite

-----------------------------------------------------------------------------
\* A customer marked FRAUD has a case somebody can decide, or a check on the way
\* to open it, or one that was lost there: no order of overlapping checks and
\* decisions leaves the mark behind (checkTransactionDetailed, adminApprove).
FraudIsExplained ==
  status = "FRAUD" =>
    \/ \E i \in DOMAIN ledger :
         ledger[i].sender = Payer /\ ledger[i].case = "OPEN"
    \/ \E a \in Attempt : check[a].at \in {"reject", "open", "lost"}
    \/ editor.at = "over" /\ editor.to = "FRAUD"

\* A block is lifted by an administrator, who edits the customer or approves a
\* case of his (any, and again), or by the check of a request that was begun
\* before the block: an unconditional update to FRAUD, but behind the status
\* test of the request (transfer, withdrawCrypto, convert).
BlockLifted ==
  status = "BLOCKED" /\ status' # "BLOCKED" =>
    \/ editor' # editor
    \/ /\ UNCHANGED check
       /\ \E i \in DOMAIN ledger :
            ledger[i].sender = Payer /\ ledger'[i].case = "APPROVED"
    \/ \E a \in Attempt : /\ check[a].at = "flag" /\ check'[a].at = "reject"
                          /\ ~check[a].fresh

\* An administrator's edit without a comment changes the status of a customer
\* only where the status has moved since the edit looked at it
\* (user-management.update reads, compares and then writes).
SilentChange ==
  (editor' # editor /\ status' # status /\ ~editor.comment)
    => status # editor.saw

\* A payment let through by an approval uses it up, also where it fails and
\* leaves the row of a failure: none whose check begins after that row was
\* stored is let through by the same approval, unless the row is one the
\* comparison overlooks (hasApprovedIdentical).
ApprovalIsSpent ==
  \A one, other \in spent :
    (one.via = other.via /\ other.since >= one.stored)
      => ~Identical(ledger[one.stored], other.plan)
=============================================================================
