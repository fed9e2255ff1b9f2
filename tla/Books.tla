------------------------------- MODULE Books -------------------------------
(****************************************************************************)
(* The accounting postings and the tariffs and settings they are made from. *)
(* A purchase of Salam (fiatToCrypto) and a redemption (cryptoToFiat) are   *)
(* booked in one createMany each; trades against USDT, transfers and        *)
(* withdrawals post the shares of their fee alone, whatever they mint or    *)
(* burn. Every fee is shared by the central bank, the bank and the partners *)
(* out of the transit account, which is written twice, in payments.service  *)
(* and in the orchestrator. What lies between the calls of one operation is *)
(* the matter of Payments.tla: here it is done, or it fails after it moved  *)
(* coins.                                                                   *)
(****************************************************************************)
EXTENDS Integers, Sequences, Functions

CONSTANTS
  Amounts,          \* bound: what customers buy, redeem, trade and send
  Agreements,       \* the settings an administrator chooses among
  PlatformPercent,  \* PLATFORM_FEE, which a mint keeps
  Rate,             \* Salam for one USDT
  MaxEntries        \* bound: operations booked

VARIABLES
  accounts,   \* [asset, account]: credits less debits
  agreement,  \* settings: mode, percent, fixed, missing; tariff
  tally       \* history variable, what the operations moved in reality

booksVars == <<accounts, agreement, tally>>

Party == {"central", "bank", "partners"}
Asset == {"SOM", "ESOM", "USDT"}
Account == Party \cup {"customerSom", "liability", "transit", "offAsset",
                       "offCounter"}

Larger(x, y) == IF x > y THEN x ELSE y

\* getCustomerTariffFee: the larger of the two in payments.service, the sum in
\* the orchestrator
PercentFee(deal, amount) == (amount * deal.tariff.percent) \div 100
TariffFeeOf(deal, amount) == Larger(PercentFee(deal, amount), deal.tariff.fixed)
TreasuryFeeOf(deal, amount) == PercentFee(deal, amount) + deal.tariff.fixed
TariffFee(amount) == TariffFeeOf(agreement, amount)
TreasuryFee(amount) == TreasuryFeeOf(agreement, amount)

Clamp(x) == IF x > 100 THEN 100 ELSE Larger(x, 0)
PercentsOf(deal) == [p \in Party |-> Clamp(deal.percent[p])]
Percents == PercentsOf(agreement)
Total(percents) == percents["central"] + percents["bank"] + percents["partners"]
TotalPercent == Total(Percents)
FixedIn(deal) == deal.mode = "FIXED" /\ \E p \in Party : deal.fixed[p] > 0
Fixed == FixedIn(agreement)

SplitOfRest(fee) ==
  LET central == (fee * Percents["central"]) \div 100 IN
  [p \in Party |-> IF p = "central" THEN central
                   ELSE ((fee - central) * Percents[p]) \div 100]
\* splitCommission and splitSomPurchaseCommission: the same
Split(fee) ==
  [p \in Party |->
     CASE Fixed -> Larger(agreement.fixed[p], 0)
       [] ~Fixed /\ p = "central" -> (fee * Percents[p]) \div 100
       [] ~Fixed /\ p # "central" ->
            IF TotalPercent = 0 THEN 0 ELSE (fee * Percents[p]) \div TotalPercent]

Named(p) == p \notin agreement.missing
Entry(asset, debit, credit, amount) ==
  [asset |-> asset, debit |-> debit, credit |-> credit, amount |-> amount]
Share(asset, p, amount) == Entry(asset, "transit", p, amount)

TreasurySharesOfHundred(asset, fee) ==
  [i \in 1..3 |-> LET p == <<"central", "bank", "partners">>[i] IN
     Share(asset, p, (fee * Percents[p]) \div 100)]
\* createCommissionDistributionPostings of the orchestrator
TreasuryShares(asset, fee) ==
  [i \in 1..3 |-> LET p == <<"central", "bank", "partners">>[i] IN
                  Share(asset, p, IF Named(p) /\ fee > 0 THEN Split(fee)[p]
                                  ELSE 0)]

\* ... and of payments.service: the targets that have an account are numbered,
\* and the bank stands in for partners without one
Only(p) == IF Named(p) THEN <<p>> ELSE <<>>
StandIn == IF Named("partners") THEN "partners" ELSE "bank"
PaymentShares(asset, fee) ==
  LET targets == Only("central") \o Only("bank")
      part == <<"central", "bank">>
  IN [i \in 1..Len(targets) |->
        Share(asset, targets[i], IF fee > 0 THEN Split(fee)[part[i]] ELSE 0)]
     \o IF Named(StandIn) /\ fee > 0
        THEN <<Share(asset, StandIn, Split(fee)["partners"])>> ELSE <<>>

PurchaseEntries(gross, fee, net) ==
  << Entry("SOM", "customerSom", "liability", gross),
     Entry("SOM", "liability", "transit", fee),
     Entry("SOM", "offAsset", "offCounter", net) >>
RedemptionEntriesNet(gross, fee, net) ==
  << Entry("SOM", "liability", "customerSom", net),
     Entry("SOM", "liability", "transit", fee),
     Entry("SOM", "offCounter", "offAsset", net) >>
RedemptionEntries(gross, fee, net) ==
  << Entry("SOM", "liability", "customerSom", gross),
     Entry("SOM", "liability", "transit", fee),
     Entry("SOM", "offCounter", "offAsset", net) >>

\* what an entry adds to an account of an asset
Effect(posting, account) ==
  (IF account = <<posting.asset, posting.credit>> THEN posting.amount ELSE 0)
    - (IF account = <<posting.asset, posting.debit>> THEN posting.amount ELSE 0)
After(entries) ==
  [x \in Asset \X Account |->
     accounts[x] + SumFunction([i \in DOMAIN entries |-> Effect(entries[i], x)])]

\* fees are shared out completely: every party can be paid, and the shares are
\* those of a whole (the bank's and the partners' are parts of the total of
\* the percents, the central bank's is a part of a hundred)
WholeIn(deal) ==
  LET percents == PercentsOf(deal) IN
  /\ ~FixedIn(deal) /\ deal.missing = {}
  /\ Total(percents) = 100 \/ (percents["central"] = 0 /\ Total(percents) > 0)
Whole == WholeIn(agreement)

IsAgreement(deal) ==
  /\ deal.percent \in [Party -> Int] /\ deal.fixed \in [Party -> Int]
  /\ deal.missing \subseteq Party
  /\ deal.tariff.percent \in Nat /\ deal.tariff.fixed \in Nat

\* The code divides floating-point numbers and the model whole ones: these are
\* in a unit so small that what is shared out completely leaves no remainder.
IsExact(deal, amount) ==
  WholeIn(deal) =>
    \A fee \in {TariffFeeOf(deal, amount), TreasuryFeeOf(deal, amount)},
       p \in Party :
      LET part == fee * PercentsOf(deal)[p] IN
      part % 100 = 0 /\ part % Total(PercentsOf(deal)) = 0

Causes == {"held", "sold", "bought", "cut", "burned", "unburned", "unposted",
           "redeemed", "clipped"}
Nothing == [c \in Causes |-> 0]

Init ==
  /\ accounts = [x \in Asset \X Account |-> 0]
  /\ agreement \in Agreements
  /\ tally = [made |-> 0, whole |-> TRUE, fees |-> [a \in Asset |-> 0],
              moved |-> Nothing]

\* the fee was shared out of the asset's transit account
Record(asset, fee, moved) ==
  /\ tally.made < MaxEntries
  /\ tally' = [made |-> tally.made + 1, whole |-> tally.whole /\ Whole,
               fees |-> [tally.fees EXCEPT ![asset] = @ + fee],
               moved |-> [c \in Causes |-> tally.moved[c] + moved[c]]]

\* transferFromFiat: a mint is less the platform's fee, and nothing is refused
PlatformCut(net) == (net * PlatformPercent) \div 100
Minted(net) == net - PlatformCut(net)
CanMint(net) == net = 0 \/ Minted(net) > 0
Net(amount) == Larger(amount - TariffFee(amount), 0)

Purchase(amount) ==
  LET fee == TariffFee(amount)
      net == Net(amount)
  IN /\ CanMint(net)
     /\ accounts' = After(PurchaseEntries(amount, fee, net)
                            \o PaymentShares("SOM", fee))
     /\ Record("SOM", 0, [Nothing EXCEPT !["held"] = Minted(net),
                            !["cut"] = PlatformCut(net),
                            !["clipped"] = net - (amount - fee)])
     /\ UNCHANGED agreement

\* A redemption whose fee is all of the amount pays nothing out and burns
\* nothing; it is booked all the same.  The fee is shared out in Salam.
Redemption(amount) ==
  LET fee == TariffFee(amount)
      burned == IF Net(amount) > 0 THEN amount ELSE 0
  IN /\ accounts' = After(RedemptionEntries(amount, fee, Net(amount))
                            \o PaymentShares("ESOM", fee))
     /\ Record("ESOM", fee, [Nothing EXCEPT !["held"] = 0 - burned,
                               !["unburned"] = amount - burned,
                               !["redeemed"] = fee])
     /\ UNCHANGED agreement

\* what an operation posts if it posts the shares of its fee alone
PostShares(asset, fee, moved) ==
  /\ accounts' = After(PaymentShares(asset, fee))
  /\ Record(asset, fee, moved) /\ UNCHANGED agreement

\* convert, ESOM to USDT: whether the burn succeeded is not asked
SellSalam(amount) ==
  \E burned \in {0, amount} :
    PostShares("ESOM", TariffFee(amount),
               [Nothing EXCEPT !["held"] = 0 - burned, !["sold"] = burned])

\* convert, USDT to ESOM: nor whether the mint did
BuySalam(amount) ==
  LET esom == Net(amount) * Rate IN
  /\ CanMint(esom)
  /\ \E minted \in {0, Minted(esom)} :
       PostShares("USDT", TariffFee(amount),
                  [Nothing EXCEPT !["held"] = minted, !["bought"] = minted])

\* transferCryptoInternal, transferSom, withdrawCrypto, transfers from a
\* browser: rows of the ledger move, and no coins of the customers
Transfer(asset, amount) == PostShares(asset, TariffFee(amount), Nothing)

\* an ESOM transfer by phone burns its fee and posts nothing
TransferByPhone(amount) ==
  LET fee == TariffFee(amount) IN
  /\ Record("ESOM", 0, [Nothing EXCEPT !["held"] = 0 - fee, !["burned"] = fee])
  /\ UNCHANGED <<accounts, agreement>>

\* the mint or the burn is done and a later call fails, the refund as well
Interrupted(amount) ==
  \E change \in {Minted(Net(amount)), Minted(Net(amount) * Rate), 0 - amount} :
    /\ Record("ESOM", 0, [Nothing EXCEPT !["held"] = change,
                            !["unposted"] = change])
    /\ UNCHANGED <<accounts, agreement>>

\* withdrawals, internal transfers and the bridge of the orchestrator
TreasuryPosts(amount) ==
  LET fee == TreasuryFee(amount) IN
  /\ accounts' = After(TreasuryShares("USDT", fee))
  /\ Record("USDT", fee, Nothing) /\ UNCHANGED agreement

\* updateAdmin, updateTariffs
Edit == /\ agreement' \in Agreements \ {agreement}
        /\ UNCHANGED <<accounts, tally>>

Next ==
  \/ \E amount \in Amounts :
       \/ Purchase(amount) \/ Redemption(amount)
       \/ SellSalam(amount) \/ BuySalam(amount)
       \/ \E asset \in Asset : Transfer(asset, amount)
       \/ TransferByPhone(amount) \/ Interrupted(amount)
       \/ TreasuryPosts(amount)
  \/ Edit

-----------------------------------------------------------------------------
\* As long as fees are shared out completely, what a transit account lacks is
\* what was shared out of it: the fee of a purchase alone is credited to the
\* account it is then shared out of, the fee of a redemption is credited in som
\* and shared out in Salam, and other fees are shared out without having been
\* credited (createSomRedemptionAccountingPostings and
\* createCommissionDistributionPostings).
TransitExplained ==
  tally.whole =>
    /\ accounts[<<"SOM", "transit">>]
         = tally.moved["redeemed"] - tally.fees["SOM"]
    /\ \A a \in {"ESOM", "USDT"} :
         accounts[<<a, "transit">>] = 0 - tally.fees[a]

\* The bank's liability is not the Salam that customers hold, and it differs for
\* these causes and no others: the platform's cut of what they bought, Salam
\* sold and bought against USDT, burned as the fee of a transfer, left unburned
\* by a redemption that paid nothing out, moved by an operation that failed
\* later; the fees of redemptions, which are debited to it besides the gross
\* amount; and what fees exceeded the amounts they were taken from.
LiabilityExplained ==
  LET m == tally.moved IN
  accounts[<<"SOM", "liability">>]
    = m["held"] + m["cut"] + m["sold"] - m["bought"] + m["burned"]
        - m["unburned"] - m["unposted"] - m["redeemed"] - m["clipped"]

\* Whoever has an account gets the same share of the same fee from both
\* services, as long as nobody's is missing.
ServicesAgree ==
  agreement.missing = {} =>
    \A amount \in Amounts : LET fee == TariffFee(amount) IN
      fee > 0 => PaymentShares("USDT", fee) = TreasuryShares("USDT", fee)
=============================================================================
