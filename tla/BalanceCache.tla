---------------------------- MODULE BalanceCache ----------------------------
(***************************************************************************)
(* The cache of a customer's balances behind the administrators' list and  *)
(* card of customers.  Readers query the row and then look into the cache; *)
(* some writers invalidate it, some before they commit, some not at all.   *)
(***************************************************************************)
EXTENDS Integers, FiniteSets

CONSTANTS
  Reader,    \* calls of list and getById
  Refresh,   \* upsertBalance of the refresh, and an administrator's update
  Treasury,  \* applyLedgerDelta and the browser wallets' booking, both inside
             \* a transaction
  Plain,     \* payments.service's own upserts, which know no cache
  None

VARIABLES
  row,         \* the committed balances, as the number of writes
  entry,       \* the cache's entry for this customer: [val, raced], or None
  desk,        \* the calls
  unannounced  \* history variable: the writes no invalidation followed

cacheVars == <<row, entry, desk, unannounced>>

Caller == Reader \cup Refresh \cup Treasury \cup Plain

Init == /\ row = 0 /\ entry = None /\ unannounced = {}
        /\ desk = [a \in Caller |-> [at |-> "idle", saw |-> 0]]

At(a, at) == desk[a].at = at
Go(a, at) == desk' = [desk EXCEPT ![a] = [at |-> at, saw |-> row]]

\* list, getById: the query, then get and set without an await between them
Find(a) == /\ At(a, "idle") /\ Go(a, "found")
           /\ UNCHANGED <<row, entry, unannounced>>
Show(a) ==
  /\ At(a, "found") /\ Go(a, "idle")
  /\ entry' = IF entry # None THEN entry
              ELSE [val |-> desk[a].saw, raced |-> desk[a].saw # row]
  /\ UNCHANGED <<row, unannounced>>

\* get deletes what is older than the time to live
Expire == entry # None /\ entry' = None /\ UNCHANGED <<row, desk, unannounced>>

Commit(a, next) == row' = row + 1 /\ Go(a, next)
Invalidate(a, next) == /\ entry' = None /\ Go(a, next)
                       /\ UNCHANGED <<row, unannounced>>

RefreshWrite(a) == /\ At(a, "idle") /\ Commit(a, "written")
                   /\ UNCHANGED <<entry, unannounced>>
RefreshForgets(a) == /\ At(a, "written") /\ Go(a, "over")
                     /\ UNCHANGED <<row, entry, unannounced>>
RefreshInvalidate(a) == At(a, "written") /\ Invalidate(a, "over")

LedgerInvalidate(a) == At(a, "idle") /\ Invalidate(a, "open")
LedgerCommit(a) == /\ At(a, "open") /\ Commit(a, "over")
                   /\ unannounced' = unannounced \cup {row + 1}
                   /\ UNCHANGED entry
LedgerRollback(a) == /\ At(a, "open") /\ Go(a, "over")
                     /\ UNCHANGED <<row, entry, unannounced>>

PlainWrite(a) == /\ At(a, "idle") /\ Commit(a, "over")
                 /\ unannounced' = unannounced \cup {row + 1}
                 /\ UNCHANGED entry

Next ==
  \/ \E a \in Reader : Find(a) \/ Show(a)
  \/ \E a \in Refresh : RefreshWrite(a) \/ RefreshInvalidate(a)
  \/ \E a \in Treasury :
       LedgerInvalidate(a) \/ LedgerCommit(a) \/ LedgerRollback(a)
  \/ \E a \in Plain : PlainWrite(a)
  \/ Expire

Spec == Init /\ [][Next]_cacheVars

-----------------------------------------------------------------------------
\* Balances in the cache that are not the row's were overtaken by a write
\* between the reader's query and its set, or missed a write that announces
\* itself to the cache too early or never, or one that is about to.
StaleIsExplained ==
  entry # None /\ entry.val # row =>
    \/ entry.raced
    \/ unannounced \cap (entry.val + 1)..row # {}
    \/ \E a \in Refresh : At(a, "written")
=============================================================================
