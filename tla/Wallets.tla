------------------------------ MODULE Wallets ------------------------------
(****************************************************************************)
(* The wallet kept in a customer's row: the key and an address.  users.     *)
(* service creates and repairs it at login and registers wallets kept in a  *)
(* browser, payments.service repairs it before a conversion and creates it  *)
(* for a recipient.  Each of them reads the row, and writes both columns a  *)
(* few awaits later.  Whatever is sent to an address whose key no row holds *)
(* is out of reach.                                                         *)
(****************************************************************************)
EXTENDS Integers, FiniteSets

CONSTANTS
  Customer, Fresh,     \* Fresh: the customer ids free for browser wallets
  Login, Buyer, Payer, \* calls of getUserInfo, ensureEsomWallet, transfer
  Browser,             \* calls of registerBrowserWallet
  Casts,               \* bound: sets of calls that take place together
  Naming,              \* the customer_ids they may name, and None
  Blank, None

VARIABLES
  wallets,  \* customers: [key, addr, stamp]; stamp counts the writes
  hand,     \* the calls' locals
  coins,    \* external: the keys of the addresses that received something
  broken    \* history variable: calls that replaced a key which was stored
            \* after they had looked, or which they were told to replace

walletVars == <<wallets, hand, coins, broken>>

Call == Login \cup Buyer \cup Payer \cup Browser
NoRow == [key |-> None, addr |-> None, stamp |-> 0]
Idle == [at |-> "idle", of |-> None, key |-> None, read |-> 0, named |-> None]

Eth(key) == <<"eth", key>>
Tron(key) == <<"tron", key>>

\* customers the bank knows and the application may not: no row yet, or one
\* without a key, or a good one, or one with a browser wallet's address; one
\* browser wallet may be registered from before
Before(c, old, key) ==
  CASE c \notin Fresh -> old
    [] key # None /\ c = (CHOOSE n \in Fresh : TRUE) ->
         [key |-> key, addr |-> Tron(key), stamp |-> 0]
    [] OTHER -> NoRow

Init ==
  /\ \E old \in {NoRow, [NoRow EXCEPT !.key = Blank, !.addr = Blank],
                 [NoRow EXCEPT !.key = "old", !.addr = Eth("old")],
                 [NoRow EXCEPT !.key = "old", !.addr = Tron("old")]},
        key \in Browser \cup {None} :
       wallets = [c \in Customer |-> Before(c, old, key)]
  /\ \E cast \in Casts :
       hand = [a \in Call |-> IF a \in cast THEN Idle
                              ELSE [Idle EXCEPT !.at = "over"]]
  /\ coins = {} /\ broken = {}

Exists(c) == wallets[c].key # None
Known(c) == wallets[c].key \notin {None, Blank}
ValidWallet(c) == Known(c) /\ wallets[c].addr = Eth(wallets[c].key)

At(a, at) == hand[a].at = at
Go(a, at, c, key) ==
  /\ hand' = [hand EXCEPT ![a] = [@ EXCEPT !.at = at, !.of = c, !.key = key,
                                           !.read = wallets[c].stamp]]
  /\ UNCHANGED <<wallets, coins, broken>>

\* the key a repair keeps, or a new one
NewKey(a, c) == a
KeptKey(a, c) == IF Known(c) THEN wallets[c].key ELSE a

Store(a, addr, next) ==
  LET c == hand[a].of IN
  /\ wallets' = [wallets EXCEPT ![c] = [key |-> hand[a].key, addr |-> addr,
                                        stamp |-> @.stamp + 1]]
  /\ broken' = IF /\ Known(c) /\ wallets[c].key # hand[a].key
                  /\ hand[a].read # wallets[c].stamp \/ hand[a].named = c
               THEN broken \cup {a} ELSE broken
  /\ hand' = [hand EXCEPT ![a].at = next]
  /\ UNCHANGED coins

-----------------------------------------------------------------------------
(* getUserInfo and getUserWallets: repairCustomerWallet reads the row again   *)

LoginFind(a) ==
  \E c \in Customer \ Fresh :
    /\ At(a, "idle")
    /\ Go(a, IF ValidWallet(c) THEN "over" ELSE "repair", c, None)

RepairRead(a) ==
  At(a, "repair") /\ Go(a, "upsert", hand[a].of, KeptKey(a, hand[a].of))

RepairWrite(a) == At(a, "upsert") /\ Store(a, Eth(hand[a].key), "over")

-----------------------------------------------------------------------------
(* ensureEsomWallet works on the row convert has read; the coins then go to   *)
(* the wallet it returns.                                                     *)

EnsureRead(a) ==
  \E c \in Customer \ Fresh :
    /\ At(a, "idle") /\ Exists(c)
    /\ Go(a, IF ValidWallet(c) THEN "use" ELSE "update", c, KeptKey(a, c))

UpdateAddress(a) ==
  /\ hand' = [hand EXCEPT ![a].at = "use"]
  /\ wallets' = [wallets EXCEPT ![hand[a].of].addr = Eth(hand[a].key)]
  /\ UNCHANGED <<coins, broken>>
Update(a) == Store(a, Eth(hand[a].key), "use")

EnsureWrite(a) == At(a, "update") /\ Update(a)

Use(a) ==
  /\ At(a, "use")
  /\ coins' = coins \cup {hand[a].key}
  /\ hand' = [hand EXCEPT ![a].at = "over"]
  /\ UNCHANGED <<wallets, broken>>

-----------------------------------------------------------------------------
(* a transfer to a phone number: findUnique, then create                      *)

RecipientFind(a) ==
  \E c \in Customer \ Fresh :
    /\ At(a, "idle")
    /\ \/ /\ Exists(c)
          /\ Go(a, IF Known(c) THEN "use" ELSE "over", c, wallets[c].key)
       \/ ~Exists(c) /\ Go(a, "create", c, a)

\* the second of two creations breaks the primary key and throws
RecipientCreate(a) ==
  /\ At(a, "create")
  /\ \/ ~Exists(hand[a].of) /\ Store(a, Eth(hand[a].key), "use")
     \/ /\ Exists(hand[a].of)
        /\ hand' = [hand EXCEPT ![a].at = "over"]
        /\ UNCHANGED <<wallets, coins, broken>>

-----------------------------------------------------------------------------
(* registerBrowserWallet: the customer with this key, or the one named, or a  *)
(* free id (getNextBrowserWalletCustomerId)                                   *)

\* each call brings a key of its own
HasKey(a, c) == wallets[c].key = a

RegisterFind(a) ==
  \E c \in Customer, n \in Naming :
    /\ At(a, "idle")
    /\ \/ HasKey(a, c)
       \/ /\ \A d \in Customer : ~HasKey(a, d)
          /\ c = n \/ (n = None /\ c \in Fresh /\ ~Exists(c))
    /\ hand' = [hand EXCEPT ![a] =
                  [Idle EXCEPT !.at = "register", !.of = c, !.key = a,
                            !.read = wallets[c].stamp, !.named = n]]
    /\ UNCHANGED <<wallets, coins, broken>>

RegisterWrite(a) == At(a, "register") /\ Store(a, Tron(a), "over")

Next ==
  \/ \E a \in Login : LoginFind(a) \/ RepairRead(a) \/ RepairWrite(a)
  \/ \E a \in Buyer : EnsureRead(a) \/ EnsureWrite(a)
  \/ \E a \in Payer : RecipientFind(a) \/ RecipientCreate(a)
  \/ \E a \in Browser : RegisterFind(a) \/ RegisterWrite(a)
  \/ \E a \in Buyer \cup Payer : Use(a)

-----------------------------------------------------------------------------
\* What a conversion or a transfer sent can be spent: its address belongs to a
\* key some row holds, unless a call has replaced a key it had not seen or was
\* told to replace.
CoinsReachable ==
  \A key \in coins :
    \/ \E c \in Customer : wallets[c].key = key
    \/ broken # {}
=============================================================================
