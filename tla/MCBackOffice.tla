---------------------------- MODULE MCBackOffice ----------------------------
(***************************************************************************)
(* The instances of the components on which TLC checks them.               *)
(***************************************************************************)
EXTENDS BackOffice

CONSTANTS u1, u2, u3, e1, k1, k2

MCThree == {u1, u2, u3}
MCTwo == {u1, u2}
MCFirst == {u1}
MCThird == {u3}
MCReply == {e1}
MCKey == {k1}
MCOther == {k2}
MCKeys == {k1, k2}
MCOps == {k1, k2, e1}

\* an old customer, and one who was just paid by three others
Paid(in, to, wallet) ==
  [kind |-> "WALLET_TO_WALLET", asset_in |-> "ESOM", in |-> in,
   asset_out |-> "ESOM", to |-> to, wallet |-> wallet, external |-> None]
Past(from, to, out, age) ==
  [fields |-> Paid(out, to, "w"), out |-> out, sender |-> from, age |-> age,
   success |-> TRUE, case |-> "none"]
Swap(currency, into, amount, fee, to, address) ==
  [call |-> "convert", currency |-> currency, into |-> into, amount |-> amount,
   fee |-> fee, to |-> to, address |-> address]
Send(currency, by, from, whom, amount, fee, to, address) ==
  [call |-> "transfer", currency |-> currency, by |-> by, from |-> from,
   whom |-> whom, amount |-> amount, fee |-> fee, to |-> to,
   address |-> address]
ToWallet(amount, fee) ==
  Send("ESOM", "address", "bank", "bank", amount, fee, "d", "w")
ToPhone(currency, amount) ==
  Send(currency, "phone", "bank", "bank", amount, 1, "d", None)
FromBrowser(by, amount) ==
  Send("USDT", by, "browser", "bank", amount, 1, "d", "w")
Withdraw(amount) ==
  Send("USDT", "address", "bank", "unknown", amount, 0, None, "x")
Purchase(into) == Swap("SOM", into, 12, 1, "c", "own")
Edit(at, to, comment) ==
  [at |-> at, to |-> to, comment |-> comment, saw |-> None]
NoEdit == Edit("over", "ACTIVE", TRUE)
Scenario(absent, p, q, past, rules, edit) ==
  [absent |-> absent, edit |-> edit,
   ask |-> [a \in {u1, u2, u3} |-> IF a = u3 THEN q ELSE p], past |-> past,
   rules |-> rules]
Quiet == <<Past("c", "d", 2, 200)>>
\* ... or was let through in the end by an administrator
Approved(in) ==
  [fields |-> Paid(in, "d", "w"), out |-> 0, sender |-> "c", age |-> 1,
   success |-> FALSE, case |-> "APPROVED"]
PaidByThree == <<Past("d", "c", 12, 3), Past("e", "c", 1, 3),
                 Past("f", "c", 1, 3)>>
\* a wallet transfer is not found again under the amount with its fee, while a
\* transfer by phone takes the approval of one to the address
MCScenarios ==
  {Scenario({}, ToWallet(80, 0), ToWallet(80, 0), Quiet,
            {"ONE_TIME", "FREQUENT"}, NoEdit),
   Scenario({u1}, ToWallet(80, 1), ToPhone("ESOM", 81),
            Quiet \o <<Approved(81)>>, {"ONE_TIME"},
            Edit("idle", "ACTIVE", FALSE)),
   Scenario({u1}, ToWallet(80, 0), Swap("ESOM", "USDT", 9, 1, None, None),
            Quiet, {"INACTIVITY", "ONE_TIME", "SPLITTING"},
            Edit("idle", "BLOCKED", TRUE)),
   Scenario({u1}, Purchase("ESOM"), ToPhone("SOM", 10), PaidByThree,
            {"FIAT_ANY", "THIRD_PARTY"}, NoEdit),
   Scenario({u1}, Withdraw(8), Purchase("ESOM"), PaidByThree,
            {"INFLOW", "MANY_SENDERS"}, Edit("idle", "FRAUD", TRUE)),
   Scenario({u1}, FromBrowser("address", 9), FromBrowser("phone", 45), Quiet,
            {"ONE_TIME"}, NoEdit),
   Scenario({u1}, Swap("USDT", "SOM", 6, 0, None, None), Purchase("USDT"),
            Quiet, {"SPLITTING"}, Edit("idle", "BLOCKED", TRUE))}
MCAddress == {"w", "x", "own"}
MCPeers == {"c", "d", "e", "f"}
MCAdjusted == {"FREQUENT"}

MCCustomers == {"c", "n1", "n2"}
MCFresh == {"n1", "n2"}
MCCasts == {{u1, u2, u3, e1}, {u1, k1, k2, e1}, {u3, k1, k2}}
MCNaming == {None, "c"}

\* the defaults; percents that are not those of a whole, one of them out of
\* range; shares of a fixed size; nobody to pay
Percent(c, b, p) == [central |-> c, bank |-> b, partners |-> p]
Agreed(mode, percent, missing, tariff) ==
  [mode |-> mode, percent |-> percent, fixed |-> Percent(3, -1, 4),
   missing |-> missing, tariff |-> [percent |-> tariff, fixed |-> 60]]
MCAmounts == {50, 100, 1000}
MCAgreements ==
  {Agreed("PERCENT", Percent(20, 40, 40), {}, 10),
   Agreed("PERCENT", Percent(0, 40, 60), {}, 20),
   Agreed("PERCENT", Percent(150, 50, 50), {}, 10),
   Agreed("PERCENT", Percent(20, 20, -5), {"partners"}, 10),
   Agreed("PERCENT", Percent(20, 40, 40), {"bank"}, 10),
   Agreed("PERCENT", Percent(20, 40, 40), {"central", "partners"}, 10),
   Agreed("FIXED", Percent(20, 40, 40), {}, 10)}
MCSecret == {"old", "guess"}
=============================================================================
