--------------------------- MODULE ReconcileLoop ---------------------------
(*****************************************************************************)
(* The timer, the lock and the batch of reconcileUsdtOperations.  The lock   *)
(* is two fields of the service: a call that finds it taken returns, unless  *)
(* it is older than five intervals, and whichever run ends clears it.  A run *)
(* works on the oldest operations that were open when it queried them.  What *)
(* is done to an operation is in the Usdt modules; here a visit closes it or *)
(* leaves it open.                                                           *)
(*                                                                           *)
(* The service injects BricsService, which is built for each request; where  *)
(* it is built with it, every run has a lock of its own and nothing starts   *)
(* the timer: only the administrators' requests run the loop.                *)
(*****************************************************************************)
EXTENDS Integers, Sequences, FiniteSets, SequencesExt

CONSTANTS
  Run,     \* calls of reconcileUsdtOperations, each used again when over
  Op,      \* operations
  Stuck,   \* those no visit closes: deposits never confirmed, FAILED ones
  Batch,   \* take: 50
  Patience, \* the intervals after which the lock is stale: 5
  MaxFaults \* bound: runs that hang or throw, and crashes

VARIABLES
  shared,  \* one service for the process, or one per request
  lock,    \* per service: reconcileRunning, reconcileStartedAt as an age in
           \* intervals
  runs,    \* [Run -> [at, list]]
  ops,     \* the operations in order of creation
  closed,
  visited, \* history variable: operations the loop has looked at
  slow,    \* history variable: a lock was taken over, and a run is active
           \* since
  faults

loopVars == <<shared, lock, runs, ops, closed, visited, slow, faults>>

Free == [on |-> FALSE, age |-> 0]
Over == [at |-> "over", list |-> <<>>]
Active(r) == runs[r].at \in {"query", "loop"}

\* the service a run belongs to; the shared one goes by the name of one run
Home(r) == IF shared THEN CHOOSE s \in Run : TRUE ELSE r
Unlocked == [r \in Run |-> Free]

Init == /\ shared \in BOOLEAN /\ lock = Unlocked /\ runs = [r \in Run |-> Over]
        /\ ops = <<>> /\ closed = {} /\ visited = {} /\ slow = FALSE
        /\ faults = 0

\* age counts up to the first value beyond Patience
Stale(r) == lock[Home(r)].age > Patience
Ages(r) == lock[r].on /\ lock[r].age <= Patience
Older(r) == IF Ages(r) THEN [lock[r] EXCEPT !.age = @ + 1] ELSE lock[r]
Tick == /\ \E r \in Run : Ages(r)
        /\ lock' = [r \in Run |-> Older(r)]
        /\ UNCHANGED <<shared, runs, ops, closed, visited, slow, faults>>

Begin(r) ==
  /\ lock' = [lock EXCEPT ![Home(r)] = [on |-> TRUE, age |-> 0]]
  /\ runs' = [runs EXCEPT ![r].at = "query"]
  /\ slow' = (slow \/ lock[Home(r)].on)
  /\ UNCHANGED <<shared, ops, closed, visited, faults>>

\* the timer, and the controller's reconcile
Fire(r) == runs[r].at = "over" /\ (~lock[Home(r)].on \/ Stale(r)) /\ Begin(r)
SkipInTry == lock' = Unlocked
Skip == UNCHANGED lock
FireSkipped(r) ==
  /\ runs[r].at = "over" /\ lock[Home(r)].on /\ ~Stale(r) /\ Skip
  /\ UNCHANGED <<shared, runs, ops, closed, visited, slow, faults>>

IsOpen(op) == op \notin closed
PickedOfAll ==
  SubSeq(ops, 1, IF Len(ops) < Batch THEN Len(ops) ELSE Batch)
Picked == LET open == SelectSeq(ops, IsOpen) IN
          SubSeq(open, 1, IF Len(open) < Batch THEN Len(open) ELSE Batch)
Query(r) ==
  /\ runs[r].at = "query"
  /\ runs' = [runs EXCEPT ![r] = [at |-> "loop", list |-> Picked]]
  /\ UNCHANGED <<shared, lock, ops, closed, visited, slow, faults>>

Visit(r) ==
  /\ runs[r].at = "loop" /\ runs[r].list # <<>>
  /\ LET op == Head(runs[r].list) IN
     /\ visited' = visited \cup {op}
     /\ closed' = IF op \in Stuck THEN closed ELSE closed \cup {op}
  /\ runs' = [runs EXCEPT ![r].list = Tail(@)]
  /\ UNCHANGED <<shared, lock, ops, slow, faults>>

\* finally: at the end of the list, or when the query, markFailed or
\* compensateWithdraw throws
End(r) ==
  /\ lock' = [lock EXCEPT ![Home(r)] = Free] /\ runs' = [runs EXCEPT ![r] = Over]
  /\ slow' = (slow /\ \E s \in Run \ {r} : Active(s))
  /\ UNCHANGED <<shared, ops, closed, visited>>
Finish(r) == /\ runs[r].at = "loop" /\ runs[r].list = <<>> /\ End(r)
             /\ UNCHANGED faults

Fault == faults < MaxFaults /\ faults' = faults + 1
Throw(r) == Active(r) /\ End(r) /\ Fault

\* an await nobody answers: the run takes its lock with it
Hang(r) ==
  /\ Active(r) /\ Fault
  /\ runs' = [runs EXCEPT ![r] = [at |-> "hung", list |-> <<>>]]
  /\ UNCHANGED <<shared, lock, ops, closed, visited, slow>>

\* a request inserts an operation, and may close it itself
Arrive(op) ==
  /\ op \notin Range(ops)
  /\ ops' = Append(ops, op)
  /\ UNCHANGED <<shared, lock, runs, closed, visited, slow, faults>>
Settle(op) ==
  /\ op \in Range(ops) \ (closed \cup Stuck)
  /\ closed' = closed \cup {op}
  /\ UNCHANGED <<shared, lock, runs, ops, visited, slow, faults>>

\* memory is lost, the table stays; onModuleInit starts again
Crash ==
  /\ Fault /\ \E r \in Run : runs[r].at # "over"
  /\ lock' = Unlocked /\ runs' = [r \in Run |-> Over] /\ slow' = FALSE
  /\ UNCHANGED <<shared, ops, closed, visited>>

Work(r) == Query(r) \/ Visit(r) \/ Finish(r)
Next ==
  \/ \E r \in Run : Fire(r) \/ FireSkipped(r) \/ Work(r) \/ Throw(r) \/ Hang(r)
  \/ \E op \in Op : Arrive(op) \/ Settle(op)
  \/ Tick \/ Crash

Spec == Init /\ [][Next]_loopVars

\* the timer goes on firing, and awaits are answered except where a run hangs
Timer == shared /\ \E r \in Run : Fire(r)

-----------------------------------------------------------------------------
\* In one service two runs work on operations at the same time only after one of
\* them, or one that was active with them, outlived its lock: the lock is cleared
\* by a run that has ended, and ends up free under another run only when it was
\* taken over.
OverlapNeedsSlowRun ==
  shared => \A r, s \in Run : Active(r) /\ Active(s) /\ r # s => slow

\* Where the timer runs, every open operation is looked at sooner or later, even
\* if runs hang: the lock is taken over, and the operations that never close do
\* not fill the batch.  (They do when there are as many as the batch takes.)
Waits(op) == shared /\ op \in Range(ops)
Seen(op) == op \in visited \cup closed
=============================================================================
