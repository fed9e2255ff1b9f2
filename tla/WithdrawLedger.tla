--------------------------- MODULE WithdrawLedger ---------------------------
(****************************************************************************)
(* What the withdrawals promise the ledger, without requests, chain or      *)
(* reconcile loop: each entry moves the balance by its own amount, whatever *)
(* else is going on; an operation is debited its gross amount and fee; and  *)
(* it is refunded only for a failure recorded on it, each failure once, the *)
(* gross amount with or without the fee.                                    *)
(****************************************************************************)
EXTENDS Integers

CONSTANTS Op, Gross, Fee, Opening

VARIABLES balance, posted, debits, refunds, failures
vars == <<balance, posted, debits, refunds, failures>>

Init ==
  /\ balance = Opening
  /\ posted = 0
  /\ debits = [o \in Op |-> 0]
  /\ refunds = [o \in Op |-> 0]
  /\ failures = [o \in Op |-> 0]

Post(amount) ==
  /\ balance' = balance + amount
  /\ posted' = posted + amount

Debit(o) ==
  /\ Post(-(Gross + Fee))
  /\ debits' = [debits EXCEPT ![o] = @ + 1]
  /\ UNCHANGED <<refunds, failures>>

Fail(o) ==
  /\ failures' = [failures EXCEPT ![o] = @ + 1]
  /\ UNCHANGED <<balance, posted, debits, refunds>>

Refund(o) ==
  /\ refunds[o] < failures[o]
  /\ \E amount \in {Gross, Gross + Fee} : Post(amount)
  /\ refunds' = [refunds EXCEPT ![o] = @ + 1]
  /\ UNCHANGED <<debits, failures>>

Next == \E o \in Op : Debit(o) \/ Fail(o) \/ Refund(o)

Spec == Init /\ [][Next]_vars
=============================================================================
