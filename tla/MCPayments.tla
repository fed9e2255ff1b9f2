----------------------------- MODULE MCPayments -----------------------------
(* An instance of Payments small enough for TLC.                             *)
EXTENDS Payments

CONSTANTS alice, bob, r1, r2

MCCustomer == {alice, bob}
MCReq == {r1, r2}
MCOpening == [SOM |-> 4, ESOM |-> 4, USDT |-> 3]

Ask(leg, then, c, n) ==
  [leg |-> leg, then |-> then, who |-> c, amount |-> n,
   peer |-> IF leg \in Transfer THEN CHOOSE d \in MCCustomer : d # c ELSE None]

MCAsks == [r \in MCReq |->
  {Ask("SOM_ESOM", "ESOM_USDT", alice, 3), Ask("USDT_ESOM", "ESOM_SOM", alice, 3)}
  \cup (IF r = r1
        THEN {Ask("ESOM_SOM", None, alice, 1), Ask("SOM_ESOM", None, alice, 1),
              Ask("ESOM_SEND", None, alice, 4)}
        ELSE {Ask("ESOM_ADDR", None, alice, 3), Ask("SOM_SEND", None, alice, 3),
              Ask("SOM_SEND", None, bob, 1), Ask("ESOM_SEND", None, bob, 1),
              Ask("SOM_ESOM", "ESOM_USDT", bob, 3)})]
=============================================================================
