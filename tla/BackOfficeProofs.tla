-------------------------- MODULE BackOfficeProofs --------------------------
(***************************************************************************)
(* Each component around the payments keeps an inductive invariant of its  *)
(* own while it is in focus, for any number of calls and any bounds.       *)
(***************************************************************************)
EXTENDS BackOffice, TLAPS, WellFoundedInduction, SequenceTheorems, Sums

\* A step belongs to the component in focus.
LEMMA StepInFocus ==
  ASSUME [Next]_vars
  PROVE  /\ UNCHANGED focus
         /\ focus = "support" => [Desk!Next]_deskVars
         /\ focus = "antifraud" => [Watch!Next]_watchVars
         /\ focus = "wallets" => [Safe!Next]_safeVars
         /\ focus = "loop" => [Loop!Next]_loopVars
         /\ focus = "cache" => [Cache!Next]_cacheVars
         /\ focus = "push" => [Push!Next]_pushVars
         /\ focus = "admin" => [Admin!Next]_adminVars
         /\ focus = "books" => [Ledger!Next]_booksVars
BY DEF Next, vars

-----------------------------------------------------------------------------
(* Support                                                                 *)

DeskPlace == {"idle", "create", "message", "touch", "close", "over"}

Ticket == [status : {"OPEN", "CLOSED"}, by : Desk!Call \cup {None},
           closer : Desk!Call \cup {None}, during : SUBSET Replier]

DeskTyped ==
  /\ tickets \in Seq(Ticket)
  /\ talk \in [Desk!Call -> [at : DeskPlace, ticket : Nat, looked : Nat]]

\* Calls that write to a ticket have found or created it.
Found ==
  \A a \in Desk!Call : talk[a].at \in {"message", "touch", "close", "over"} =>
    talk[a].ticket \in DOMAIN tickets

\* What a sender is about to create, or has created, is the only open ticket
\* among those it could see.
AllClosed(n) == \A t \in DOMAIN tickets : t <= n => tickets[t].status = "CLOSED"
Started(a, u) ==
  /\ talk[a].at \in {"message", "touch", "over"} /\ talk[a].ticket = u
  /\ talk[a].looked < u /\ AllClosed(talk[a].looked)
HasStarter ==
  /\ \A a \in Sender : talk[a].at = "create" =>
       talk[a].looked <= Len(tickets) /\ AllClosed(talk[a].looked)
  /\ \A u \in DOMAIN tickets : \E a \in Sender : Started(a, u)

\* A reply on its way to a closed ticket was on its way when it was closed.
LateReplies ==
  \A a \in Replier :
    talk[a].at \in {"message", "touch"}
      /\ tickets[talk[a].ticket].status = "CLOSED"
    => a \in tickets[talk[a].ticket].during

DeskInv == DeskTyped /\ Found /\ HasStarter /\ LateReplies /\ Desk!CloserIsNamed

USE DEF DeskPlace

\* findFirst finds an open ticket whenever there is one.
LEMMA HasNewest ==
  ASSUME DeskTyped, Desk!Open # {}
  PROVE  Desk!OpenTicket # {}
<1> DEFINE Ages == {Len(tickets) - t : t \in Desk!Open}
<1>1. Ages \subseteq Nat /\ Ages # {}
  BY DEF DeskTyped, Desk!Open
<1>2. PICK x \in Ages : \A y \in Ages : ~(<<y, x>> \in OpToRel(<, Nat))
  BY <1>1, WFMin, NatLessThanWellFounded
<1>3. \A y \in Ages : ~(y < x)
  BY <1>1, <1>2 DEF OpToRel
<1>4. PICK t \in Desk!Open : x = Len(tickets) - t
  OBVIOUS
<1>5. t \in Desk!OpenTicket
  <2>1. ASSUME NEW u \in Desk!Open PROVE u <= t
    <3>1. ~(Len(tickets) - u < Len(tickets) - t)
      BY <1>3, <1>4
    <3>2. Len(tickets) \in Nat /\ u \in Nat /\ t \in Nat
      BY DEF DeskTyped, Desk!Open
    <3> QED
      BY <3>1, <3>2
  <2> QED
    BY <2>1 DEF Desk!OpenTicket
<1> QED
  BY <1>5

LEMMA InitDesk == Desk!Init => DeskInv
<1> SUFFICES ASSUME Desk!Init PROVE DeskInv
  OBVIOUS
<1>1. tickets = <<>> /\ \A a \in Desk!Call : talk[a].at = "idle"
  BY DEF Desk!Init, Desk!Idle
<1>2. DeskTyped
  BY DEF Desk!Init, Desk!Idle, DeskTyped
<1> QED
  BY <1>1, <1>2 DEF DeskInv, Found, HasStarter, LateReplies, Desk!CloserIsNamed, Desk!Call

\* A call that moves on and writes nothing, and was given no other ticket than
\* it had.
LEMMA MovesOn ==
  ASSUME DeskInv, NEW a \in Desk!Call,
         NEW at \in {"touch", "over"}, talk[a].at \in {"message", "touch"},
         at = "over" => talk[a].at = "touch",
         talk' = [talk EXCEPT ![a].at = at], UNCHANGED tickets
  PROVE  DeskInv'
<1> USE DEF DeskInv
<1>1. DeskTyped' /\ Found'
  BY DEF DeskTyped, Found
<1>2. HasStarter'
  <2>1. \A b \in Sender, u \in DOMAIN tickets : Started(b, u) => Started(b, u)'
    BY DEF DeskTyped, Started, AllClosed, Desk!Call
  <2>2. \A b \in Sender : talk'[b].at = "create" =>
          talk[b].at = "create" /\ talk'[b] = talk[b]
    BY DEF DeskTyped, Desk!Call
  <2> QED
    BY <2>1, <2>2 DEF HasStarter, AllClosed
<1>3. LateReplies' /\ Desk!CloserIsNamed'
  BY DEF DeskTyped, LateReplies, Desk!CloserIsNamed, Desk!Call
<1> QED
  BY <1>1, <1>2, <1>3

\* A call that has looked, and found a ticket open or, as a sender, none.
LEMMA LooksUp ==
  ASSUME DeskInv, NEW a \in Desk!Call, NEW at \in {"create", "message", "close"},
         NEW t \in Nat, Desk!Looked(a, at, t),
         at # "create" => t \in Desk!Open,
         at = "create" => Desk!Open = {}
  PROVE  DeskInv'
<1> USE DEF DeskInv, Desk!Looked, Desk!Idle
<1>0. /\ UNCHANGED tickets /\ Len(tickets) \in Nat /\ talk[a].at = "idle"
      /\ talk'[a].at = at /\ talk'[a].ticket = t
      /\ talk'[a].looked = Len(tickets)
      /\ \A b \in Desk!Call \ {a} : talk'[b] = talk[b]
  BY DEF DeskTyped
<1>1. DeskTyped'
  BY <1>0 DEF DeskTyped
<1>2. Found'
  BY <1>0 DEF DeskTyped, Found, Desk!Open
<1>3. HasStarter'
  <2>1. \A b \in Sender, u \in DOMAIN tickets : Started(b, u) => Started(b, u)'
    BY <1>0 DEF DeskTyped, Started, AllClosed, Desk!Call
  <2>2. ASSUME NEW b \in Sender, talk'[b].at = "create"
        PROVE  (talk[b].looked <= Len(tickets) /\ AllClosed(talk[b].looked))'
    <3>1. CASE b = a
      <4>1. \A u \in DOMAIN tickets : tickets[u].status = "CLOSED"
        <5>1. Desk!Open = {}
          BY <1>0, <2>2, <3>1
        <5>2. \A u \in DOMAIN tickets : tickets[u] \in Ticket
          BY DEF DeskTyped
        <5> QED
          BY <5>1, <5>2 DEF Desk!Open, Ticket
      <4> QED
        BY <1>0, <3>1, <4>1 DEF AllClosed
    <3>2. CASE b # a
      BY <1>0, <2>2, <3>2 DEF DeskTyped, HasStarter, AllClosed, Desk!Call
    <3> QED
      BY <3>1, <3>2
  <2> QED
    BY <2>1, <2>2 DEF HasStarter
<1>4. LateReplies' /\ Desk!CloserIsNamed'
  BY <1>0 DEF DeskTyped, LateReplies, Desk!CloserIsNamed, Desk!Call, Desk!Open
<1> QED
  BY <1>1, <1>2, <1>3, <1>4

\* Tickets that exist keep their place, and no step opens one again.
LEMMA CreatesTicket ==
  ASSUME DeskInv, NEW a \in Sender, Desk!SendCreate(a)
  PROVE  DeskInv'
<1> USE DEF DeskInv, Desk!SendCreate
<1> DEFINE new == [status |-> "OPEN", by |-> None, closer |-> None,
                   during |-> {}]
<1>0. /\ a \in Desk!Call /\ Len(tickets) \in Nat /\ new \in Ticket
      /\ new.status = "OPEN"
      /\ tickets' \in Seq(Ticket) /\ Len(tickets') = Len(tickets) + 1
      /\ DOMAIN tickets = 1 .. Len(tickets)
      /\ DOMAIN tickets' = 1 .. Len(tickets) + 1
      /\ \A u \in DOMAIN tickets : tickets'[u] = tickets[u]
      /\ tickets'[Len(tickets) + 1] = new
  BY DEF DeskTyped, Ticket, Desk!Call
<1>1. /\ talk[a].at = "create" /\ talk'[a].at = "message"
      /\ talk'[a].ticket = Len(tickets) + 1 /\ talk'[a].looked = talk[a].looked
      /\ \A b \in Desk!Call \ {a} : talk'[b] = talk[b]
  BY <1>0 DEF DeskTyped
<1>2. DeskTyped'
  BY <1>0 DEF DeskTyped
<1>3. Found'
  BY <1>0, <1>1 DEF Found, DeskTyped
<1>4. HasStarter'
  <2>1. \A n \in Nat : n <= Len(tickets) /\ AllClosed(n) => AllClosed(n)'
    BY <1>0 DEF AllClosed
  <2>2. talk[a].looked \in Nat /\ talk[a].looked <= Len(tickets)
        /\ AllClosed(talk[a].looked)
    BY <1>0, <1>1 DEF HasStarter, DeskTyped
  <2>3. Started(a, Len(tickets))'
    BY <1>0, <1>1, <2>1, <2>2 DEF Started, AllClosed
  <2>4. ASSUME NEW b \in Sender, NEW u \in DOMAIN tickets, Started(b, u)
        PROVE  Started(b, u)'
    <3>1. b \in Desk!Call /\ b # a /\ talk[b].looked \in Nat
      BY <1>1, <2>4 DEF Started, DeskTyped, Desk!Call
    <3>2. talk'[b] = talk[b] /\ talk[b].looked <= Len(tickets)
      BY <1>0, <1>1, <2>4, <3>1 DEF Started
    <3>3. AllClosed(talk[b].looked)'
      BY <1>0, <2>4, <3>1, <3>2 DEF Started, AllClosed
    <3> QED
      BY <2>4, <3>2, <3>3 DEF Started
  <2>5. ASSUME NEW b \in Sender, talk'[b].at = "create"
        PROVE  (talk[b].looked <= Len(tickets) /\ AllClosed(talk[b].looked))'
    <3>1. b \in Desk!Call /\ b # a /\ talk[b].looked \in Nat
      BY <1>1, <2>5 DEF DeskTyped, Desk!Call
    <3>2. talk'[b] = talk[b]
      BY <1>1, <3>1
    <3>3. talk[b].looked <= Len(tickets) /\ AllClosed(talk[b].looked)
      BY <2>5, <3>2 DEF HasStarter
    <3> QED
      BY <1>0, <3>1, <3>2, <3>3 DEF AllClosed
  <2> QED
    BY <1>0, <2>3, <2>4, <2>5 DEF HasStarter
<1>5. LateReplies'
  <2> SUFFICES ASSUME NEW b \in Replier, talk'[b].at \in {"message", "touch"},
                      tickets'[talk'[b].ticket].status = "CLOSED"
               PROVE  b \in tickets'[talk'[b].ticket].during
    BY DEF LateReplies
  <2>1. b \in Desk!Call /\ b # a
    BY <1>0, <1>1 DEF Desk!Call
  <2>2. talk'[b] = talk[b] /\ talk[b].ticket \in DOMAIN tickets
    BY <1>1, <2>1 DEF Found
  <2> QED
    BY <1>0, <2>2 DEF LateReplies
<1>6. Desk!CloserIsNamed'
  BY <1>0 DEF Desk!CloserIsNamed
<1> QED
  BY <1>2, <1>3, <1>4, <1>5, <1>6

\* A call that writes to a ticket and is over.  What was closed stays closed.
LEMMA WritesTicket ==
  ASSUME DeskInv, NEW a \in Desk!Call, NEW new \in Ticket,
         talk[a].at \in {"touch", "close"},
         tickets' = [tickets EXCEPT ![talk[a].ticket] = new],
         talk' = [talk EXCEPT ![a].at = "over"],
         tickets[talk[a].ticket].status = "CLOSED" => new.status = "CLOSED",
         tickets[talk[a].ticket].during \subseteq new.during,
         new.status = "CLOSED" =>
           /\ new.by \in {new.closer} \cup new.during
           /\ \A b \in Replier \ {a} :
                talk[b].at \in {"message", "touch"}
                  /\ talk[b].ticket = talk[a].ticket => b \in new.during
  PROVE  DeskInv'
<1> USE DEF DeskInv
<1>0. /\ talk[a].ticket \in DOMAIN tickets
      /\ DOMAIN tickets' = DOMAIN tickets /\ Len(tickets') = Len(tickets)
      /\ tickets' \in Seq(Ticket) /\ tickets'[talk[a].ticket] = new
      /\ \A u \in DOMAIN tickets \ {talk[a].ticket} : tickets'[u] = tickets[u]
  BY DEF DeskTyped, Found
<1>1. /\ talk'[a].at = "over" /\ talk'[a].ticket = talk[a].ticket
      /\ talk'[a].looked = talk[a].looked
      /\ \A b \in Desk!Call \ {a} : talk'[b] = talk[b]
  BY DEF DeskTyped
<1>2. DeskTyped' /\ Found'
  BY <1>0, <1>1 DEF DeskTyped, Found
<1>3. HasStarter'
  <2>1. \A n : AllClosed(n) => AllClosed(n)'
    BY <1>0 DEF AllClosed
  <2>2. \A b \in Sender, u \in DOMAIN tickets : Started(b, u) => Started(b, u)'
    BY <1>1, <2>1 DEF Started, Desk!Call
  <2> QED
    BY <1>0, <1>1, <2>1, <2>2 DEF HasStarter, Desk!Call
<1>4. LateReplies' /\ Desk!CloserIsNamed'
  BY <1>0, <1>1 DEF LateReplies, Desk!CloserIsNamed, Found, Desk!Call
<1> QED
  BY <1>2, <1>3, <1>4

LEMMA NextDesk == DeskInv /\ [Desk!Next]_deskVars => DeskInv'
<1> SUFFICES ASSUME DeskInv, [Desk!Next]_deskVars PROVE DeskInv'
  OBVIOUS
<1> USE DEF DeskInv, Desk!Call
<1>1. ASSUME NEW a \in Sender, Desk!SendFind(a) PROVE DeskInv'
  <2>1. ASSUME Desk!OpenTicket = {}, Desk!Looked(a, "create", 0) PROVE DeskInv'
    BY <2>1, HasNewest, LooksUp
  <2>2. ASSUME NEW t \in Desk!OpenTicket, Desk!Looked(a, "message", t) PROVE DeskInv'
    BY <2>2, LooksUp DEF Desk!OpenTicket, Desk!Open, DeskTyped
  <2> QED
    BY <1>1, <2>1, <2>2 DEF Desk!SendFind
<1>2. ASSUME NEW a \in Sender, Desk!SendCreate(a) PROVE DeskInv'
  BY <1>2, CreatesTicket
<1>3. ASSUME NEW a \in Replier, Desk!ReplyFind(a) PROVE DeskInv'
  BY <1>3, LooksUp DEF Desk!ReplyFind, Desk!Answerable, Desk!Open, DeskTyped
<1>4. ASSUME NEW a \in Closer, Desk!CloseFind(a) PROVE DeskInv'
  BY <1>4, LooksUp DEF Desk!CloseFind, Desk!Open, DeskTyped
<1>5. ASSUME NEW a \in Closer, Desk!Close(a) PROVE DeskInv'
  <2> DEFINE t == talk[a].ticket
             replying == {b \in Replier : talk[b].ticket = t
                                          /\ talk[b].at \in {"message", "touch"}}
             new == [status |-> "CLOSED", by |-> a, closer |-> a,
                     during |-> tickets[t].during \cup replying]
  <2>1. t \in DOMAIN tickets /\ tickets[t] \in Ticket
    BY <1>5 DEF Desk!Close, Found, DeskTyped
  <2>2. /\ new \in Ticket /\ new.status = "CLOSED" /\ new.by = a
        /\ new.closer = a /\ new.during = tickets[t].during \cup replying
    BY <2>1 DEF Ticket
  <2>3. /\ tickets' = [tickets EXCEPT ![t] = new] /\ talk[a].at = "close"
        /\ talk' = [talk EXCEPT ![a].at = "over"]
    BY <1>5 DEF Desk!Close
  <2>4. \A b \in Replier : talk[b].at \in {"message", "touch"}
                           /\ talk[b].ticket = t => b \in new.during
    BY <2>2
  <2>5. new.by \in {new.closer} \cup new.during
        /\ tickets[t].during \subseteq new.during
    BY <2>2
  <2>6. a \in Desk!Call
    OBVIOUS
  <2> HIDE DEF new, replying
  <2> QED
    BY <2>2, <2>3, <2>4, <2>5, <2>6, WritesTicket
<1>6. ASSUME NEW a \in Sender \cup Replier, Desk!Insert(a) PROVE DeskInv'
  BY <1>6, MovesOn DEF Desk!Insert
<1>7. ASSUME NEW a \in Sender \cup Replier, Desk!Touch(a) PROVE DeskInv'
  <2> DEFINE t == talk[a].ticket
             new == Desk!Touched(tickets[t], a)
  <2>1. t \in DOMAIN tickets /\ tickets[t] \in Ticket
    BY <1>7 DEF Desk!Touch, Found, DeskTyped
  <2>2. /\ new \in Ticket /\ new.status = tickets[t].status
        /\ new.during = tickets[t].during /\ new.closer = tickets[t].closer
        /\ new.by = IF a \in Replier THEN a ELSE tickets[t].by
    BY <2>1 DEF Desk!Touched, Ticket
  <2>3. tickets' = [tickets EXCEPT ![t] = new]
    BY <1>7, <2>1 DEF Desk!Touch, DeskTyped
  <2>4. new.status = "CLOSED" => new.by \in {new.closer} \cup new.during
    BY <1>7, <2>1, <2>2 DEF Desk!Touch, LateReplies, Desk!CloserIsNamed
  <2>5. new.status = "CLOSED" =>
          \A b \in Replier : talk[b].at \in {"message", "touch"}
                              /\ talk[b].ticket = t => b \in new.during
    BY <2>2 DEF LateReplies
  <2> HIDE DEF new
  <2> QED
    BY <1>7, <2>1, <2>2, <2>3, <2>4, <2>5, WritesTicket DEF Desk!Touch
<1>8. CASE UNCHANGED deskVars
  BY <1>8 DEF deskVars, DeskTyped, Found, HasStarter, Started, AllClosed,
              LateReplies, Desk!CloserIsNamed
<1> QED
  BY <1>1, <1>2, <1>3, <1>4, <1>5, <1>6, <1>7, <1>8 DEF Desk!Next

LEMMA DeskInFocus == Spec => [](focus = "support" => DeskInv)
<1> DEFINE I == focus = "support" => DeskInv
<1>1. Init => I
  BY InitDesk DEF Init
<1>2. I /\ [Next]_vars => I'
  BY StepInFocus, NextDesk DEF deskVars
<1> QED
  BY <1>1, <1>2, PTL DEF Spec

\* However the calls of a customer and of the administrators overlap, a second
\* open ticket has a sender that looked too early, and a closed one names who
\* closed it or was replying then (sendMessage, replyToTicket, closeTicket).
THEOREM TicketsStayAccounted == Spec => []TicketsAccounted
<1>1. DeskInv => Desk!TicketsAccounted
  <2> SUFFICES ASSUME DeskInv, NEW t \in Desk!Open, NEW u \in Desk!Open, t < u
               PROVE  \E a \in Sender : talk[a].ticket = u /\ talk[a].looked < t
    BY DEF Desk!TicketsAccounted, Desk!OneOpenTicket, DeskInv
  <2>1. PICK a \in Sender : Started(a, u)
    BY DEF DeskInv, HasStarter, Desk!Open
  <2>2. ~(t <= talk[a].looked)
    BY <2>1 DEF Started, AllClosed, Desk!Open
  <2>3. t \in Nat /\ talk[a].looked \in Nat
    BY DEF DeskInv, DeskTyped, Desk!Open, Desk!Call
  <2> QED
    BY <2>1, <2>2, <2>3 DEF Started
<1>2. (focus = "support" => DeskInv) => TicketsAccounted
  BY <1>1 DEF TicketsAccounted
<1> QED
  BY <1>2, DeskInFocus, PTL

-----------------------------------------------------------------------------
(* The lock of the reconcile loop                                          *)

LockTyped ==
  /\ shared \in BOOLEAN /\ slow \in BOOLEAN
  /\ lock \in [Run -> [on : BOOLEAN, age : Nat]]
  /\ runs = [r \in Run |-> runs[r]]
  /\ \A r \in Run : {"at", "list"} \subseteq DOMAIN runs[r]

\* The run that works has the lock of the service, and no other run works, as
\* long as no lock was taken over.
OneHoldsTheLock ==
  shared /\ ~slow =>
    /\ \A r, s \in Run : Loop!Active(r) /\ Loop!Active(s) => r = s
    /\ \A r \in Run : Loop!Active(r) => lock[Loop!Home(r)].on

LockInv == LockTyped /\ OneHoldsTheLock

\* A shared service is one, and its name is that of a run.
LEMMA HomeIsRun ==
  ASSUME NEW r \in Run, shared \in BOOLEAN
  PROVE  Loop!Home(r) \in Run /\ (shared => \A s \in Run : Loop!Home(s) = Loop!Home(r))
BY DEF Loop!Home

LEMMA InitLocked == Loop!Init => LockInv
<1> SUFFICES ASSUME Loop!Init PROVE LockInv
  OBVIOUS
<1>1. LockTyped
  BY DEF Loop!Init, LockTyped, Loop!Unlocked, Loop!Free, Loop!Over
<1>2. \A r \in Run : ~Loop!Active(r)
  BY DEF Loop!Init, Loop!Active, Loop!Over
<1> QED
  BY <1>1, <1>2 DEF LockInv, OneHoldsTheLock

\* Starting a run: it finds the lock free, or takes it over.
LEMMA FireLocks ==
  ASSUME LockInv, NEW r \in Run, Loop!Fire(r)
  PROVE  LockInv'
<1> USE DEF LockInv, Loop!Fire, Loop!Begin
<1>1. Loop!Home(r) \in Run
  BY HomeIsRun DEF LockTyped
<1>2. LockTyped'
  BY <1>1 DEF LockTyped
<1>3. Loop!Home(r)' = Loop!Home(r) /\ \A s \in Run : Loop!Home(s)' = Loop!Home(s)
  BY DEF Loop!Home
<1>4. ASSUME shared', ~slow'
      PROVE  \A s \in Run : Loop!Active(s)' => s = r
  <2>1. shared /\ ~slow /\ ~lock[Loop!Home(r)].on
    BY <1>1, <1>4 DEF LockTyped
  <2>2. \A s \in Run : ~Loop!Active(s)
    BY <2>1, HomeIsRun DEF OneHoldsTheLock, LockTyped
  <2> QED
    BY <2>2 DEF LockTyped, Loop!Active
<1>5. lock'[Loop!Home(r)].on
  BY <1>1 DEF LockTyped
<1> QED
  BY <1>2, <1>3, <1>4, <1>5, HomeIsRun DEF OneHoldsTheLock, LockTyped

\* The end of a run frees the lock: nobody else works, or a lock was taken over.
LEMMA EndUnlocks ==
  ASSUME LockInv, NEW r \in Run, Loop!Active(r), Loop!End(r)
  PROVE  LockInv'
<1> USE DEF LockInv, Loop!End
<1>1. LockTyped'
  BY HomeIsRun DEF LockTyped, Loop!Free, Loop!Over
<1>2. ~Loop!Active(r)' /\ \A s \in Run \ {r} : Loop!Active(s)' = Loop!Active(s)
  BY DEF LockTyped, Loop!Active, Loop!Over
<1>3. ASSUME shared', ~slow'
      PROVE  \A s \in Run : ~Loop!Active(s)'
  BY <1>2, <1>3 DEF LockTyped, OneHoldsTheLock
<1> QED
  BY <1>1, <1>3 DEF OneHoldsTheLock

\* Whoever stops working and keeps the lock, and whoever goes on working.
LEMMA WorkKeeps ==
  ASSUME LockInv, UNCHANGED <<shared, lock, slow>>, LockTyped',
         \A s \in Run : Loop!Active(s)' => Loop!Active(s)
  PROVE  LockInv'
<1>1. \A s \in Run : Loop!Home(s)' = Loop!Home(s)
  BY DEF Loop!Home
<1> QED
  BY <1>1 DEF LockInv, OneHoldsTheLock

LEMMA NextLocked == LockInv /\ [Loop!Next]_loopVars => LockInv'
<1> SUFFICES ASSUME LockInv, [Loop!Next]_loopVars PROVE LockInv'
  OBVIOUS
<1> USE DEF LockInv
<1>1. ASSUME NEW r \in Run, Loop!Fire(r) PROVE LockInv'
  BY <1>1, FireLocks
<1>2. ASSUME NEW r \in Run, Loop!FireSkipped(r) PROVE LockInv'
  BY <1>2, WorkKeeps DEF Loop!FireSkipped, Loop!Skip, LockTyped, Loop!Active
<1>3. ASSUME NEW r \in Run, Loop!Query(r) PROVE LockInv'
  <2>1. LockTyped'
    BY <1>3 DEF Loop!Query, LockTyped
  <2>2. \A s \in Run : Loop!Active(s)' => Loop!Active(s)
    BY <1>3 DEF Loop!Query, LockTyped, Loop!Active
  <2> QED
    BY <1>3, <2>1, <2>2, WorkKeeps DEF Loop!Query
<1>4. ASSUME NEW r \in Run, Loop!Visit(r) PROVE LockInv'
  <2>1. LockTyped'
    BY <1>4 DEF Loop!Visit, LockTyped
  <2>2. \A s \in Run : Loop!Active(s)' => Loop!Active(s)
    BY <1>4 DEF Loop!Visit, LockTyped, Loop!Active
  <2> QED
    BY <1>4, <2>1, <2>2, WorkKeeps DEF Loop!Visit
<1>5. ASSUME NEW r \in Run, Loop!Finish(r) PROVE LockInv'
  BY <1>5, EndUnlocks DEF Loop!Finish, Loop!Active
<1>6. ASSUME NEW r \in Run, Loop!Throw(r) PROVE LockInv'
  BY <1>6, EndUnlocks DEF Loop!Throw
<1>7. ASSUME NEW r \in Run, Loop!Hang(r) PROVE LockInv'
  <2>1. LockTyped'
    BY <1>7 DEF Loop!Hang, LockTyped
  <2>2. \A s \in Run : Loop!Active(s)' => Loop!Active(s)
    BY <1>7 DEF Loop!Hang, LockTyped, Loop!Active
  <2> QED
    BY <1>7, <2>1, <2>2, WorkKeeps DEF Loop!Hang
<1>8. ASSUME NEW o \in Op, Loop!Arrive(o) \/ Loop!Settle(o) PROVE LockInv'
  BY <1>8, WorkKeeps DEF Loop!Arrive, Loop!Settle, LockTyped, Loop!Active
<1>9. CASE Loop!Tick
  <2>1. \A r \in Run : Loop!Older(r) \in [on : BOOLEAN, age : Nat]
                       /\ Loop!Older(r).on = lock[r].on
    BY DEF Loop!Older, LockTyped
  <2>2. LockTyped'
    BY <1>9, <2>1 DEF Loop!Tick, LockTyped
  <2>3. \A s \in Run : /\ Loop!Active(s)' = Loop!Active(s) /\ Loop!Home(s)' = Loop!Home(s)
                       /\ lock'[Loop!Home(s)].on = lock[Loop!Home(s)].on
    BY <1>9, <2>1, HomeIsRun DEF Loop!Tick, Loop!Active, Loop!Home, LockTyped
  <2> QED
    BY <1>9, <2>2, <2>3 DEF Loop!Tick, OneHoldsTheLock
<1>10. CASE Loop!Crash
  <2>1. LockTyped'
    BY <1>10 DEF Loop!Crash, LockTyped, Loop!Unlocked, Loop!Free, Loop!Over
  <2>2. \A s \in Run : ~Loop!Active(s)'
    BY <1>10 DEF Loop!Crash, Loop!Active, Loop!Over
  <2> QED
    BY <2>1, <2>2 DEF OneHoldsTheLock
<1>11. CASE UNCHANGED loopVars
  BY <1>11, WorkKeeps DEF loopVars, LockTyped, Loop!Active
<1> QED
  BY <1>1, <1>2, <1>3, <1>4, <1>5, <1>6, <1>7, <1>8, <1>9, <1>10, <1>11
  DEF Loop!Next, Loop!Work

LEMMA LoopInFocus == Spec => [](InLoop => LockInv)
<1> DEFINE I == InLoop => LockInv
<1>1. Init => I
  BY InitLocked DEF Init, InLoop
<1>2. I /\ [Next]_vars => I'
  BY StepInFocus, NextLocked DEF loopVars, InLoop
<1> QED
  BY <1>1, <1>2, PTL DEF Spec

\* In one service two runs work at the same time only after one of them, or one
\* that was active with them, outlived its lock (reconcileUsdtOperations).
THEOREM OneRunAtATime == Spec => []OverlapNeedsSlowRun
<1>1. LockInv => Loop!OverlapNeedsSlowRun
  BY DEF LockInv, OneHoldsTheLock, Loop!OverlapNeedsSlowRun, LockTyped
<1>2. (InLoop => LockInv) => OverlapNeedsSlowRun
  BY <1>1 DEF OverlapNeedsSlowRun
<1> QED
  BY <1>2, LoopInFocus, PTL

-----------------------------------------------------------------------------
(* The balance cache                                                       *)

CachePlace == {"idle", "found", "written", "open", "over"}

CacheTyped ==
  /\ row \in Nat /\ unannounced \subseteq Nat
  /\ desk \in [Cache!Caller -> [at : CachePlace, saw : Nat]]
  /\ entry # None => entry \in [val : Nat, raced : BOOLEAN]

\* Nobody has seen balances that are yet to be written.
SeenWasWritten ==
  /\ \A a \in Cache!Caller : desk[a].saw <= row
  /\ entry # None => entry.val <= row

CacheInv == CacheTyped /\ SeenWasWritten /\ Cache!StaleIsExplained

USE DEF CachePlace

LEMMA InitCached == Cache!Init => CacheInv
BY DEF Cache!Init, CacheInv, CacheTyped, SeenWasWritten, Cache!StaleIsExplained

\* A step that neither writes nor fills the cache explains what it explained,
\* as long as it does not leave an invalidation out.
LEMMA QuietStep ==
  ASSUME CacheInv, NEW a \in Cache!Caller, NEW at \in CachePlace, Cache!Go(a, at),
         UNCHANGED <<row, entry, unannounced>>, ~Cache!At(a, "written")
  PROVE  CacheInv'
<1>1. CacheTyped' /\ SeenWasWritten'
  BY DEF CacheInv, CacheTyped, SeenWasWritten, Cache!Go
<1>2. \A b \in Cache!Caller : Cache!At(b, "written") => Cache!At(b, "written")'
  BY DEF CacheInv, CacheTyped, Cache!Go, Cache!At
<1>3. Cache!StaleIsExplained'
  BY <1>2 DEF CacheInv, Cache!StaleIsExplained, Cache!Caller
<1> QED
  BY <1>1, <1>3 DEF CacheInv

\* An invalidation leaves nothing to explain.
LEMMA Invalidated ==
  ASSUME CacheInv, NEW a \in Cache!Caller, NEW at \in CachePlace, Cache!Invalidate(a, at)
  PROVE  CacheInv'
BY DEF CacheInv, CacheTyped, SeenWasWritten, Cache!StaleIsExplained,
   Cache!Invalidate, Cache!Go

\* A write nobody is going to announce is on the list.
LEMMA Unannounced ==
  ASSUME CacheInv, NEW a \in Cache!Caller, NEW at \in CachePlace, Cache!Commit(a, at),
         unannounced' = unannounced \cup {row + 1}, UNCHANGED entry
  PROVE  CacheInv'
<1>1. CacheTyped' /\ SeenWasWritten'
  BY DEF CacheInv, CacheTyped, SeenWasWritten, Cache!Commit, Cache!Go
<1>2. entry # None => row + 1 \in (entry.val + 1)..(row + 1)
  BY DEF CacheInv, CacheTyped, SeenWasWritten
<1>3. Cache!StaleIsExplained'
  BY <1>2 DEF Cache!StaleIsExplained, Cache!Commit
<1> QED
  BY <1>1, <1>3 DEF CacheInv

LEMMA NextCached == CacheInv /\ [Cache!Next]_cacheVars => CacheInv'
<1> SUFFICES ASSUME CacheInv, [Cache!Next]_cacheVars PROVE CacheInv'
  OBVIOUS
<1>1. ASSUME NEW a \in Reader, Cache!Find(a) PROVE CacheInv'
  BY <1>1, QuietStep DEF Cache!Find, Cache!At, Cache!Caller
<1>2. ASSUME NEW a \in Reader, Cache!Show(a) PROVE CacheInv'
  <2>1. CacheTyped' /\ SeenWasWritten'
    BY <1>2 DEF CacheInv, CacheTyped, SeenWasWritten, Cache!Show, Cache!Go, Cache!Caller
  <2>2. CASE entry # None
    <3>1. a \in Cache!Caller /\ UNCHANGED entry /\ ~Cache!At(a, "written")
      BY <1>2, <2>2 DEF Cache!Show, Cache!Caller, Cache!At
    <3> QED
      BY <1>2, <3>1, QuietStep DEF Cache!Show
  <2>3. CASE entry = None
    <3>1. Cache!StaleIsExplained'
      BY <1>2, <2>3 DEF Cache!Show, Cache!StaleIsExplained
    <3> QED
      BY <2>1, <3>1 DEF CacheInv
  <2> QED
    BY <2>2, <2>3
<1>3. ASSUME NEW a \in Refresh, Cache!RefreshWrite(a) PROVE CacheInv'
  <2>1. CacheTyped' /\ SeenWasWritten'
    BY <1>3 DEF CacheInv, CacheTyped, SeenWasWritten, Cache!RefreshWrite,
       Cache!Commit, Cache!Go, Cache!Caller
  <2>2. Cache!At(a, "written")'
    BY <1>3 DEF CacheInv, CacheTyped, Cache!RefreshWrite, Cache!Commit, Cache!Go,
       Cache!At, Cache!Caller
  <2> QED
    BY <2>1, <2>2 DEF CacheInv, Cache!StaleIsExplained
<1>4. ASSUME NEW a \in Refresh, Cache!RefreshInvalidate(a) PROVE CacheInv'
  BY <1>4, Invalidated DEF Cache!RefreshInvalidate, Cache!Caller
<1>5. ASSUME NEW a \in Treasury, Cache!LedgerInvalidate(a) PROVE CacheInv'
  BY <1>5, Invalidated DEF Cache!LedgerInvalidate, Cache!Caller
<1>6. ASSUME NEW a \in Treasury, Cache!LedgerCommit(a) PROVE CacheInv'
  BY <1>6, Unannounced DEF Cache!LedgerCommit, Cache!Caller
<1>7. ASSUME NEW a \in Treasury, Cache!LedgerRollback(a) PROVE CacheInv'
  BY <1>7, QuietStep DEF Cache!LedgerRollback, Cache!At, Cache!Caller
<1>8. ASSUME NEW a \in Plain, Cache!PlainWrite(a) PROVE CacheInv'
  BY <1>8, Unannounced DEF Cache!PlainWrite, Cache!Caller
<1>9. CASE Cache!Expire
  BY <1>9 DEF Cache!Expire, CacheInv, CacheTyped, SeenWasWritten, Cache!StaleIsExplained
<1>10. CASE UNCHANGED cacheVars
  BY <1>10 DEF cacheVars, CacheInv, CacheTyped, SeenWasWritten,
               Cache!StaleIsExplained, Cache!At
<1> QED
  BY <1>1, <1>2, <1>3, <1>4, <1>5, <1>6, <1>7, <1>8, <1>9, <1>10 DEF Cache!Next

LEMMA CacheInFocus == Spec => [](focus = "cache" => CacheInv)
<1> DEFINE I == focus = "cache" => CacheInv
<1>1. Init => I
  BY InitCached DEF Init
<1>2. I /\ [Next]_vars => I'
  BY StepInFocus, NextCached DEF cacheVars
<1> QED
  BY <1>1, <1>2, PTL DEF Spec

\* Whenever the cache holds balances that are not the row's, a write overtook
\* the reader, or no invalidation followed it, or one is about to
\* (balance-cache.service, applyLedgerDelta).
THEOREM StaleHasCause == Spec => []StaleIsExplained
<1>1. (focus = "cache" => CacheInv) => StaleIsExplained
  BY DEF CacheInv, StaleIsExplained
<1> QED
  BY <1>1, CacheInFocus, PTL


-----------------------------------------------------------------------------
(* Push tokens                                                             *)

PushTyped ==
  /\ changes \in Nat
  /\ token \in [Device -> [owner : Person \cup {None}, active : BOOLEAN]]
  /\ mail \in [Sending -> [to : Person \cup {Everyone, None}, asked : BOOLEAN,
                           left : SUBSET Device, seen : Nat]]

\* A token belongs to whoever signed in on its device last.
TokenFollowsUser == user = [d \in Device |-> token[d].owner]

\* As long as nobody has signed in or switched the setting since a call began to
\* read, its addressee wants messages and the devices that are left are of
\* customers it is for.
ListIsFresh ==
  \A s \in Sending :
    /\ mail[s].seen <= changes
    /\ mail[s].seen = changes =>
         /\ mail[s].asked => wants[mail[s].to]
         /\ \A d \in mail[s].left : /\ wants[user[d]]
                                    /\ mail[s].to \in {Everyone, user[d]}

PushInv == PushTyped /\ TokenFollowsUser /\ ListIsFresh /\ Push!OnlyTheAddressee

LEMMA InitPush == Push!Init => PushInv
BY DEF Push!Init, PushInv, PushTyped, TokenFollowsUser, ListIsFresh,
       Push!OnlyTheAddressee

\* One call of sendToCustomer goes on, nobody signs in and nobody switches.
LEMMA OneCallOfMail ==
  ASSUME PushTyped, ListIsFresh, NEW s \in Sending,
         UNCHANGED <<changes, wants, user>>,
         \A t \in Sending \ {s} : mail'[t] = mail[t],
         mail'[s].seen <= changes,
         mail'[s].seen = changes /\ mail'[s].asked => wants[mail'[s].to],
         \A d \in mail'[s].left : mail'[s].seen = changes =>
           /\ wants[user[d]]
           /\ mail'[s].to \in {Everyone, user[d]}
  PROVE  ListIsFresh'
<1> SUFFICES ASSUME NEW t \in Sending
             PROVE  /\ mail'[t].seen <= changes'
                    /\ mail'[t].seen = changes' =>
                         /\ mail'[t].asked => wants'[mail'[t].to]
                         /\ \A d \in mail'[t].left :
                              /\ wants'[user'[d]]
                              /\ mail'[t].to \in {Everyone, user'[d]}
  BY DEF ListIsFresh
<1>1. CASE t = s
  BY <1>1
<1>2. CASE t # s
  BY <1>2 DEF ListIsFresh
<1> QED
  BY <1>1, <1>2

LEMMA NextPush == PushInv /\ [Push!Next]_pushVars => PushInv'
<1> SUFFICES ASSUME PushInv, [Push!Next]_pushVars PROVE PushInv'
  OBVIOUS
<1> USE DEF PushInv
<1>1. ASSUME NEW c \in Person, NEW d \in Device, Push!SignIn(c, d) PROVE PushInv'
  BY <1>1 DEF Push!SignIn, Push!Upsert, ListIsFresh, PushTyped, TokenFollowsUser,
              Push!OnlyTheAddressee
<1>2. ASSUME NEW c \in Person, Push!Switch(c) PROVE PushInv'
  BY <1>2 DEF Push!Switch, ListIsFresh, PushTyped, TokenFollowsUser,
              Push!OnlyTheAddressee
<1>3. ASSUME NEW d \in Device, Push!Uninstall(d) PROVE PushInv'
  BY <1>3 DEF Push!Uninstall, ListIsFresh, PushTyped, TokenFollowsUser,
              Push!OnlyTheAddressee
<1>4. ASSUME NEW s \in Sending, NEW c \in Person, Push!Ask(s, c) PROVE PushInv'
  <2>1. PushTyped' /\ TokenFollowsUser' /\ Push!OnlyTheAddressee'
    BY <1>4 DEF Push!Ask, PushTyped, TokenFollowsUser, Push!OnlyTheAddressee
  <2>2. /\ UNCHANGED <<changes, wants, user>> /\ mail'[s].to = c /\ wants[c]
        /\ mail'[s].left = {} /\ mail'[s].seen = changes
        /\ \A t \in Sending \ {s} : mail'[t] = mail[t]
    BY <1>4 DEF Push!Ask, PushTyped
  <2>3. ListIsFresh'
    BY <2>2, OneCallOfMail DEF PushTyped
  <2> QED
    BY <2>1, <2>3
<1>5. ASSUME NEW s \in Sending, Push!List(s) PROVE PushInv'
  <2> DEFINE left == {d \in Push!Active : token[d].owner = mail[s].to}
  <2>1. left \subseteq Device /\ \A d \in left : user[d] = mail[s].to
    BY DEF Push!Active, PushTyped, TokenFollowsUser
  <2>2. TokenFollowsUser' /\ Push!OnlyTheAddressee'
    BY <1>5 DEF Push!List, TokenFollowsUser, Push!OnlyTheAddressee
  <2>3. PushTyped'
    <3> DEFINE gathered == [mail[s] EXCEPT !.asked = FALSE, !.left = left]
    <3>1. gathered \in [to : Person \cup {Everyone, None}, asked : BOOLEAN,
                      left : SUBSET Device, seen : Nat]
      BY <2>1 DEF PushTyped
    <3>2. mail' = [mail EXCEPT ![s] = gathered]
      BY <1>5 DEF Push!List
    <3> HIDE DEF gathered, left
    <3>3. mail' \in [Sending -> [to : Person \cup {Everyone, None}, asked : BOOLEAN,
                                left : SUBSET Device, seen : Nat]]
      BY <3>1, <3>2 DEF PushTyped
    <3>4. UNCHANGED <<token, wants, user, dead, changes, wrong>>
      BY <1>5 DEF Push!List
    <3> QED
      BY <3>3, <3>4 DEF PushTyped
  <2>4. /\ UNCHANGED <<changes, wants, user>> /\ mail'[s].to = mail[s].to
        /\ mail'[s].left = left /\ mail'[s].seen = mail[s].seen
        /\ mail[s].asked /\ ~mail'[s].asked
        /\ \A t \in Sending \ {s} : mail'[t] = mail[t]
    BY <1>5 DEF Push!List, PushTyped
  <2> HIDE DEF left
  <2>5. ListIsFresh'
    BY <2>1, <2>4, OneCallOfMail DEF ListIsFresh
  <2> QED
    BY <2>2, <2>3, <2>5
<1>6. ASSUME NEW s \in Sending, Push!Broadcast(s) PROVE PushInv'
  <2> DEFINE left == {d \in Push!Active : wants[token[d].owner]}
  <2>1. left \subseteq Device /\ \A d \in left : wants[user[d]]
    BY DEF Push!Active, PushTyped, TokenFollowsUser
  <2>2. TokenFollowsUser' /\ Push!OnlyTheAddressee'
    BY <1>6 DEF Push!Broadcast, TokenFollowsUser, Push!OnlyTheAddressee
  <2>3. PushTyped'
    BY <1>6, <2>1 DEF Push!Broadcast, PushTyped
  <2>4. /\ UNCHANGED <<changes, wants, user>> /\ mail'[s].to = Everyone
        /\ mail'[s].left = left /\ mail'[s].seen = changes /\ ~mail'[s].asked
        /\ \A t \in Sending \ {s} : mail'[t] = mail[t]
    BY <1>6 DEF Push!Broadcast, PushTyped
  <2> HIDE DEF left
  <2>5. ListIsFresh'
    BY <2>1, <2>4, OneCallOfMail DEF PushTyped
  <2> QED
    BY <2>2, <2>3, <2>5
<1>7. ASSUME NEW s \in Sending, NEW d \in Device, Push!Send(s, d) PROVE PushInv'
  <2>1. ~(Push!Reaches(s, d) /\ mail[s].seen = changes)
    BY <1>7 DEF Push!Send, Push!Reaches, ListIsFresh
  <2>2. wrong' = {}
    BY <1>7, <2>1 DEF Push!Send, Push!OnlyTheAddressee
  <2>3. PushTyped' /\ TokenFollowsUser'
    BY <1>7 DEF Push!Send, PushTyped, TokenFollowsUser
  <2>4. /\ UNCHANGED <<changes, wants, user>> /\ mail'[s].to = mail[s].to
        /\ mail'[s].left \subseteq mail[s].left
        /\ mail'[s].seen = mail[s].seen /\ mail'[s].asked = mail[s].asked
        /\ \A t \in Sending \ {s} : mail'[t] = mail[t]
    BY <1>7 DEF Push!Send, PushTyped
  <2>5. ListIsFresh'
    BY <2>4, OneCallOfMail DEF ListIsFresh
  <2> QED
    BY <2>2, <2>3, <2>5 DEF Push!OnlyTheAddressee
<1>8. ASSUME NEW s \in Sending, Push!Done(s) PROVE PushInv'
  <2>1. PushTyped' /\ TokenFollowsUser' /\ Push!OnlyTheAddressee'
    BY <1>8 DEF Push!Done, PushTyped, TokenFollowsUser, Push!OnlyTheAddressee
  <2>2. /\ UNCHANGED <<changes, wants, user>> /\ mail'[s].left = {}
        /\ mail'[s].seen = mail[s].seen /\ ~mail'[s].asked
        /\ \A t \in Sending \ {s} : mail'[t] = mail[t]
    BY <1>8 DEF Push!Done, PushTyped
  <2>3. ListIsFresh'
    BY <2>2, OneCallOfMail DEF ListIsFresh
  <2> QED
    BY <2>1, <2>3 DEF PushTyped
<1>9. CASE UNCHANGED pushVars
  BY <1>9 DEF pushVars, ListIsFresh, PushTyped, TokenFollowsUser,
              Push!OnlyTheAddressee
<1> QED
  BY <1>1, <1>2, <1>3, <1>4, <1>5, <1>6, <1>7, <1>8, <1>9 DEF Push!Next

LEMMA PushInFocus == Spec => [](focus = "push" => PushInv)
<1> DEFINE I == focus = "push" => PushInv
<1>1. Init => I
  BY InitPush DEF Init
<1>2. I /\ [Next]_vars => I'
  BY StepInFocus, NextPush DEF pushVars
<1> QED
  BY <1>1, <1>2, PTL DEF Spec

\* However sign-ins, switches, lost devices and broadcasts overlap, a message
\* reaches a customer it is not for only when something changed after the call
\* began to read its addressees (sendToCustomer, saveFcmToken).
THEOREM MailReachesItsAddressee == Spec => []OnlyTheAddressee
<1>1. (focus = "push" => PushInv) => OnlyTheAddressee
  BY DEF PushInv, OnlyTheAddressee
<1> QED
  BY <1>1, PushInFocus, PTL

-----------------------------------------------------------------------------
(* Wallets                                                                 *)

Key == Safe!Call \cup {None, Blank, "old"}
KeyAddress == {None, Blank} \cup {Safe!Eth(k) : k \in Key}
                         \cup {Safe!Tron(k) : k \in Key}
WalletPlace ==
  {"idle", "repair", "upsert", "update", "create", "use", "register", "over"}

Hand == [at : WalletPlace, of : Customer \cup {None}, key : Key, read : Nat,
         named : Naming \cup {None}]

SafeTyped ==
  /\ wallets \in [Customer -> [key : Key, addr : KeyAddress, stamp : Nat]]
  /\ hand \in [Safe!Call -> Hand]
  /\ \A a \in Safe!Call :
       hand[a].at \in WalletPlace \ {"idle", "over"} => hand[a].of \in Customer
  /\ coins \subseteq Key

\* A key that is about to be stored, or paid to, is a key.
HandsHaveKeys ==
  \A a \in Safe!Call :
    hand[a].at \in {"upsert", "update", "create", "register", "use"} =>
      hand[a].key \notin {None, Blank}

\* A repair whose row was not written since it looked stores the key it found.
RepairsKeepTheKey ==
  \A a \in Safe!Call :
    hand[a].at \in {"upsert", "update", "register"} =>
      /\ hand[a].read <= wallets[hand[a].of].stamp
      /\ hand[a].read = wallets[hand[a].of].stamp /\ Safe!Known(hand[a].of) =>
           wallets[hand[a].of].key = hand[a].key \/ hand[a].named = hand[a].of

\* Keys that were paid to, and those a call is about to pay to, are in a row.
Kept(key) == \E c \in Customer : wallets[c].key = key
PaidKeysAreKept ==
  broken = {} =>
    /\ \A key \in coins : key \notin {None, Blank} /\ Kept(key)
    /\ \A a \in Safe!Call : hand[a].at = "use" => Kept(hand[a].key)

SafeInv == SafeTyped /\ HandsHaveKeys /\ RepairsKeepTheKey /\ PaidKeysAreKept

USE DEF WalletPlace

LEMMA InitSafe == Safe!Init => SafeInv
<1> SUFFICES ASSUME Safe!Init PROVE SafeInv
  OBVIOUS
<1>1. /\ \A a \in Safe!Call : hand[a].at \in {"idle", "over"}
      /\ coins = {}
  BY DEF Safe!Init, Safe!Idle
<1>2. hand \in [Safe!Call -> Hand]
  BY DEF Safe!Init, Safe!Idle, Key, Hand
<1>3. wallets \in [Customer -> [key : Key, addr : KeyAddress, stamp : Nat]]
  <2>1. PICK old \in {Safe!NoRow, [Safe!NoRow EXCEPT !.key = Blank,
                                                    !.addr = Blank],
                      [Safe!NoRow EXCEPT !.key = "old",
                                         !.addr = Safe!Eth("old")],
                      [Safe!NoRow EXCEPT !.key = "old",
                                         !.addr = Safe!Tron("old")]},
             key \in Browser \cup {None} :
               wallets = [c \in Customer |-> Safe!Before(c, old, key)]
    BY DEF Safe!Init
  <2>2. old \in [key : Key, addr : KeyAddress, stamp : Nat]
        /\ Safe!NoRow \in [key : Key, addr : KeyAddress, stamp : Nat]
    <3>1. Blank \in Key /\ None \in Key /\ "old" \in Key
          /\ Blank \in KeyAddress /\ None \in KeyAddress
          /\ Safe!Eth("old") \in KeyAddress /\ Safe!Tron("old") \in KeyAddress
      BY DEF Key, KeyAddress
    <3>2. \A k \in {None, Blank, "old"}, ad \in KeyAddress :
            [Safe!NoRow EXCEPT !.key = k, !.addr = ad]
              \in [key : Key, addr : KeyAddress, stamp : Nat]
      BY <3>1 DEF Safe!NoRow
    <3>3. Safe!NoRow \in [key : Key, addr : KeyAddress, stamp : Nat]
      BY <3>1 DEF Safe!NoRow
    <3> QED
      BY <2>1, <3>1, <3>2, <3>3
  <2>3. [key |-> key, addr |-> Safe!Tron(key), stamp |-> 0]
          \in [key : Key, addr : KeyAddress, stamp : Nat]
    BY DEF Key, KeyAddress, Safe!Call
  <2> QED
    BY <2>1, <2>2, <2>3 DEF Safe!Before
<1> QED
  BY <1>1, <1>2, <1>3
  DEF SafeInv, SafeTyped, Hand, HandsHaveKeys, RepairsKeepTheKey, PaidKeysAreKept

\* A call looks at a row, and goes on with a key or without.
LEMMA LooksAtARow ==
  ASSUME SafeInv, NEW a \in Safe!Call, NEW c \in Customer, NEW key \in Key,
         NEW named \in Naming \cup {None},
         NEW at \in WalletPlace,
         UNCHANGED <<wallets, coins, broken>>,
         NEW new \in Hand, hand' = [hand EXCEPT ![a] = new],
         new.at = at, new.of = c, new.key = key,
         new.read = wallets[c].stamp, new.named = named,
         at \in {"upsert", "update", "create", "register", "use"} =>
           key \notin {None, Blank},
         at \in {"upsert", "update", "register"} /\ Safe!Known(c) =>
           wallets[c].key = key \/ named = c,
         at = "use" => wallets[c].key = key
  PROVE  SafeInv'
<1>1. /\ wallets[c].stamp \in Nat
      /\ hand'[a] = new
      /\ \A b \in Safe!Call \ {a} : hand'[b] = hand[b]
  BY DEF SafeInv, SafeTyped, Hand
<1>2. SafeTyped'
  BY <1>1 DEF SafeInv, SafeTyped, Hand
<1>3. HandsHaveKeys'
  BY <1>1 DEF SafeInv, HandsHaveKeys
<1>4. RepairsKeepTheKey'
  BY <1>1 DEF SafeInv, RepairsKeepTheKey, Safe!Known
<1>5. PaidKeysAreKept'
  BY <1>1 DEF SafeInv, PaidKeysAreKept, Kept
<1> QED
  BY <1>2, <1>3, <1>4, <1>5 DEF SafeInv

\* A call stores its key.  A key the row held is lost only to one that did not
\* see it, or was told to replace it.
LEMMA StoresItsKey ==
  ASSUME SafeInv, NEW a \in Safe!Call, NEW addr \in KeyAddress,
         NEW next \in {"use", "over"}, Safe!Store(a, addr, next),
         hand[a].at \in {"upsert", "update", "create", "register"},
         hand[a].at = "create" => ~Safe!Known(hand[a].of)
  PROVE  SafeInv'
<1> DEFINE c == hand[a].of
<1>1. /\ c \in Customer /\ hand[a].key \in Key \ {None, Blank}
      /\ wallets[c].stamp \in Nat
  BY DEF SafeInv, SafeTyped, Hand, HandsHaveKeys
<1>2. /\ wallets' = [wallets EXCEPT ![c] =
                       [key |-> hand[a].key, addr |-> addr,
                        stamp |-> wallets[c].stamp + 1]]
      /\ hand' = [hand EXCEPT ![a].at = next] /\ UNCHANGED coins
  BY <1>1 DEF Safe!Store, SafeInv, SafeTyped, Hand
<1>3. /\ wallets'[c].key = hand[a].key
      /\ wallets'[c].stamp = wallets[c].stamp + 1
      /\ \A d \in Customer \ {c} : wallets'[d] = wallets[d]
      /\ hand'[a].at = next /\ hand'[a].key = hand[a].key
      /\ \A b \in Safe!Call \ {a} : hand'[b] = hand[b]
  BY <1>1, <1>2 DEF SafeInv, SafeTyped, Hand
<1>4. SafeTyped'
  <2> DEFINE new == [key |-> hand[a].key, addr |-> addr,
                     stamp |-> wallets[c].stamp + 1]
  <2>1. new \in [key : Key, addr : KeyAddress, stamp : Nat]
    BY <1>1
  <2> HIDE DEF new
  <2>2. wallets' \in [Customer -> [key : Key, addr : KeyAddress, stamp : Nat]]
    BY <1>1, <1>2, <2>1 DEF SafeInv, SafeTyped, Hand, new
  <2>3. hand' \in [Safe!Call -> Hand]
    BY <1>2 DEF SafeInv, SafeTyped, Hand
  <2>4. \A b \in Safe!Call : hand'[b].of = hand[b].of
          /\ (hand'[b].at \notin {"idle", "over"} =>
                hand[b].at \notin {"idle", "over"})
    BY <1>2 DEF SafeInv, SafeTyped, Hand
  <2> QED
    BY <1>2, <2>2, <2>3, <2>4 DEF SafeInv, SafeTyped, Hand
<1>5. HandsHaveKeys'
  BY <1>1, <1>3 DEF SafeInv, HandsHaveKeys
<1>6. RepairsKeepTheKey'
  <2> SUFFICES ASSUME NEW b \in Safe!Call,
                      hand'[b].at \in {"upsert", "update", "register"}
               PROVE  /\ hand'[b].read <= wallets'[hand'[b].of].stamp
                      /\ hand'[b].read = wallets'[hand'[b].of].stamp
                           /\ Safe!Known(hand[b].of)' =>
                         wallets'[hand'[b].of].key = hand'[b].key
                           \/ hand'[b].named = hand'[b].of
    BY DEF RepairsKeepTheKey
  <2>1. b # a /\ hand'[b] = hand[b] /\ hand[b].of \in Customer
        /\ hand[b].read \in Nat
    BY <1>3 DEF SafeInv, SafeTyped, Hand
  <2>2. CASE hand[b].of = c
    BY <1>1, <1>3, <2>1, <2>2 DEF SafeInv, RepairsKeepTheKey
  <2>3. CASE hand[b].of # c
    BY <1>3, <2>1, <2>3 DEF SafeInv, RepairsKeepTheKey, Safe!Known
  <2> QED
    BY <2>2, <2>3
<1>7. ASSUME broken' = {}
      PROVE  /\ broken = {}
             /\ \A key \in Key \ {None, Blank} : Kept(key) => Kept(key)'
  <2>1. broken = {}
    BY <1>7 DEF Safe!Store
  <2>2. Safe!Known(c) => wallets[c].key = hand[a].key
    <3> SUFFICES ASSUME Safe!Known(c), wallets[c].key # hand[a].key
                 PROVE  FALSE
      OBVIOUS
    <3>1. hand[a].read = wallets[c].stamp /\ hand[a].named # c
      BY <1>7 DEF Safe!Store
    <3> QED
      BY <3>1 DEF SafeInv, RepairsKeepTheKey
  <2>3. ASSUME NEW key \in Key \ {None, Blank}, Kept(key) PROVE Kept(key)'
    <3>1. PICK d \in Customer : wallets[d].key = key
      BY <2>3 DEF Kept
    <3>2. wallets'[d].key = key
      BY <1>3, <2>2, <3>1 DEF Safe!Known
    <3> QED
      BY <3>2 DEF Kept
  <2> QED
    BY <2>1, <2>3
<1>8. PaidKeysAreKept'
  <2>1. Kept(hand[a].key)'
    BY <1>1, <1>3 DEF Kept
  <2>2. ASSUME broken' = {}, NEW key \in coins
        PROVE  key \notin {None, Blank} /\ Kept(key)'
    BY <1>7, <2>2 DEF SafeInv, SafeTyped, Hand, PaidKeysAreKept
  <2>3. ASSUME broken' = {}, NEW b \in Safe!Call, hand'[b].at = "use"
        PROVE  \E d \in Customer : wallets'[d].key = hand'[b].key
    <3>1. CASE b = a
      BY <1>1, <1>3, <3>1
    <3>2. CASE b # a
      <4>1. hand[b].key \in Key \ {None, Blank} /\ hand'[b] = hand[b]
        BY <1>3, <2>3, <3>2 DEF SafeInv, SafeTyped, Hand, HandsHaveKeys
      <4>2. Kept(hand[b].key)
        BY <1>7, <2>3, <4>1 DEF SafeInv, PaidKeysAreKept
      <4>3. Kept(hand[b].key) => \E d \in Customer :
                                   wallets'[d].key = hand[b].key
        BY <1>7, <2>3, <4>1 DEF Kept
      <4> QED
        BY <4>1, <4>2, <4>3
    <3> QED
      BY <3>1, <3>2
  <2> QED
    BY <1>2, <2>2, <2>3 DEF PaidKeysAreKept, Kept
<1> QED
  BY <1>4, <1>5, <1>6, <1>8 DEF SafeInv

\* A call that is over, having paid or not.
LEMMA IsOver ==
  ASSUME SafeInv, NEW a \in Safe!Call, UNCHANGED <<wallets, broken>>,
         hand' = [hand EXCEPT ![a].at = "over"], coins' \subseteq Key,
         broken = {} =>
           \A key \in coins' : key \notin {None, Blank} /\ Kept(key)
  PROVE  SafeInv'
<1>1. /\ hand'[a].at = "over"
      /\ \A b \in Safe!Call \ {a} : hand'[b] = hand[b]
  BY DEF SafeInv, SafeTyped, Hand
<1>2. SafeTyped'
  BY <1>1 DEF SafeInv, SafeTyped, Hand
<1>3. HandsHaveKeys'
  BY <1>1 DEF SafeInv, HandsHaveKeys
<1>4. RepairsKeepTheKey'
  BY <1>1 DEF SafeInv, RepairsKeepTheKey, Safe!Known
<1>5. PaidKeysAreKept'
  BY <1>1 DEF SafeInv, PaidKeysAreKept, Kept
<1> QED
  BY <1>2, <1>3, <1>4, <1>5 DEF SafeInv

LEMMA NextSafe == SafeInv /\ [Safe!Next]_safeVars => SafeInv'
<1> SUFFICES ASSUME SafeInv, [Safe!Next]_safeVars PROVE SafeInv'
  OBVIOUS
<1>0. /\ \A c \in Customer : wallets[c].key \in Key
      /\ None \in Key /\ None \in Naming \cup {None}
      /\ \A a \in Safe!Call : a \in Key \ {None, Blank} /\ hand[a].key \in Key
                              /\ Safe!Eth(hand[a].key) \in KeyAddress
                              /\ Safe!Tron(a) \in KeyAddress
  BY KeysAssumption DEF SafeInv, SafeTyped, Hand, Key, KeyAddress, Safe!Call
<1>1. \A a \in Login : a \in Safe!Call
  BY DEF Safe!Call
<1>2. \A a \in Buyer : a \in Safe!Call
  BY DEF Safe!Call
<1>3. \A a \in Giver : a \in Safe!Call
  BY DEF Safe!Call
<1>4. \A a \in Browser : a \in Safe!Call
  BY DEF Safe!Call
<1>5. \A a \in Safe!Call, c \in Customer : Safe!KeptKey(a, c) \in Key \ {None, Blank}
        /\ (Safe!Known(c) => wallets[c].key = Safe!KeptKey(a, c))
  BY <1>0 DEF Safe!KeptKey, Safe!Known
<1>6. ASSUME NEW a \in Safe!Call, NEW c \in Customer, NEW key \in Key,
             NEW at \in WalletPlace, Safe!Go(a, at, c, key),
             at \in {"upsert", "update", "create", "register", "use"} =>
               key \notin {None, Blank},
             at \in {"upsert", "update", "register"} /\ Safe!Known(c) =>
               wallets[c].key = key,
             at = "use" => wallets[c].key = key
      PROVE  SafeInv'
  <2> DEFINE new == [hand[a] EXCEPT !.at = at, !.of = c, !.key = key,
                                    !.read = wallets[c].stamp]
  <2>1. hand[a] \in Hand /\ wallets[c].stamp \in Nat
    BY DEF SafeInv, SafeTyped, Hand
  <2>2. /\ new \in Hand /\ new.at = at /\ new.of = c /\ new.key = key
        /\ new.read = wallets[c].stamp /\ new.named = hand[a].named
    BY <2>1 DEF Hand
  <2>3. UNCHANGED <<wallets, coins, broken>>
        /\ hand' = [hand EXCEPT ![a] = new]
    BY <1>6 DEF Safe!Go
  <2>4. hand[a].named \in Naming \cup {None}
    BY DEF SafeInv, SafeTyped, Hand
  <2> HIDE DEF new
  <2> QED
    BY <1>6, <2>2, <2>3, <2>4, LooksAtARow
<1>8. ASSUME NEW a \in Login, Safe!LoginFind(a) PROVE SafeInv'
  <2>1. PICK c \in Customer \ Fresh :
          Safe!Go(a, IF Safe!ValidWallet(c) THEN "over" ELSE "repair", c, None)
    BY <1>8 DEF Safe!LoginFind
  <2> DEFINE at == IF Safe!ValidWallet(c) THEN "over" ELSE "repair"
  <2>2. at \in {"over", "repair"} /\ Safe!Go(a, at, c, None)
    BY <2>1
  <2> HIDE DEF at
  <2> QED
    BY <1>0, <1>1, <1>6, <2>2
<1>9. ASSUME NEW a \in Login, Safe!RepairRead(a) PROVE SafeInv'
  <2>1. hand[a].of \in Customer
    BY <1>1, <1>9 DEF Safe!RepairRead, Safe!At, SafeInv, SafeTyped, Hand
  <2> QED
    BY <1>1, <1>5, <1>6, <1>9, <2>1 DEF Safe!RepairRead
<1>10. ASSUME NEW a \in Login, Safe!RepairWrite(a) PROVE SafeInv'
  BY <1>0, <1>1, <1>10, StoresItsKey DEF Safe!RepairWrite, Safe!At
<1>11. ASSUME NEW a \in Buyer, Safe!EnsureRead(a) PROVE SafeInv'
  <2>1. PICK c \in Customer \ Fresh :
          Safe!Go(a, IF Safe!ValidWallet(c) THEN "use" ELSE "update", c,
                  Safe!KeptKey(a, c))
    BY <1>11 DEF Safe!EnsureRead
  <2> DEFINE at == IF Safe!ValidWallet(c) THEN "use" ELSE "update"
  <2>2. at \in {"use", "update"} /\ Safe!Go(a, at, c, Safe!KeptKey(a, c))
        /\ (at = "use" => Safe!Known(c))
    BY <2>1 DEF Safe!ValidWallet
  <2> HIDE DEF at
  <2> QED
    BY <1>2, <1>5, <1>6, <2>2
<1>12. ASSUME NEW a \in Buyer, Safe!EnsureWrite(a) PROVE SafeInv'
  BY <1>0, <1>2, <1>12, StoresItsKey DEF Safe!EnsureWrite, Safe!Update, Safe!At
<1>13. ASSUME NEW a \in Giver, Safe!RecipientFind(a) PROVE SafeInv'
  <2>1. PICK c \in Customer \ Fresh :
          \/ /\ Safe!Exists(c)
             /\ Safe!Go(a, IF Safe!Known(c) THEN "use" ELSE "over", c,
                        wallets[c].key)
          \/ ~Safe!Exists(c) /\ Safe!Go(a, "create", c, a)
    BY <1>13 DEF Safe!RecipientFind
  <2> DEFINE at == IF Safe!Known(c) THEN "use" ELSE "over"
  <2>2. CASE Safe!Go(a, at, c, wallets[c].key)
    <3>1. at \in {"use", "over"}
          /\ (at = "use" => wallets[c].key \notin {None, Blank})
      BY DEF Safe!Known
    <3> HIDE DEF at
    <3> QED
      BY <1>0, <1>3, <1>6, <2>2, <3>1
  <2>3. CASE Safe!Go(a, "create", c, a)
    BY <1>0, <1>3, <1>6, <2>3
  <2> QED
    BY <2>1, <2>2, <2>3
<1>14. ASSUME NEW a \in Giver, Safe!RecipientCreate(a) PROVE SafeInv'
  <2>1. CASE ~Safe!Exists(hand[a].of)
             /\ Safe!Store(a, Safe!Eth(hand[a].key), "use")
    <3>1. ~Safe!Known(hand[a].of)
      BY <2>1 DEF Safe!Exists, Safe!Known
    <3> QED
      BY <1>0, <1>3, <1>14, <2>1, <3>1, StoresItsKey
      DEF Safe!RecipientCreate, Safe!At
  <2>2. CASE UNCHANGED <<wallets, coins, broken>>
             /\ hand' = [hand EXCEPT ![a].at = "over"]
    BY <1>3, <2>2, IsOver DEF SafeInv, SafeTyped, Hand, PaidKeysAreKept
  <2> QED
    BY <1>14, <2>1, <2>2 DEF Safe!RecipientCreate
<1>15. ASSUME NEW a \in Browser, Safe!RegisterFind(a) PROVE SafeInv'
  <2>1. PICK c \in Customer, n \in Naming :
          /\ \/ Safe!HasKey(a, c)
             \/ c = n \/ (n = None /\ c \in Fresh /\ ~Safe!Exists(c))
          /\ hand' = [hand EXCEPT ![a] =
                        [Safe!Idle EXCEPT !.at = "register", !.of = c,
                                          !.key = a,
                                          !.read = wallets[c].stamp,
                                          !.named = n]]
          /\ UNCHANGED <<wallets, coins, broken>>
    BY <1>15 DEF Safe!RegisterFind
  <2> DEFINE new == [Safe!Idle EXCEPT !.at = "register", !.of = c, !.key = a,
                                      !.read = wallets[c].stamp, !.named = n]
  <2>2. /\ new \in Hand /\ new.at = "register" /\ new.of = c /\ new.key = a
        /\ new.read = wallets[c].stamp /\ new.named = n
    <3>1. wallets[c].stamp \in Nat /\ a \in Key
      BY <1>0, <1>4 DEF SafeInv, SafeTyped, Hand
    <3> QED
      BY <3>1 DEF Safe!Idle, Hand
  <2>3. Safe!Known(c) => wallets[c].key = a \/ n = c
    BY <2>1 DEF Safe!HasKey, Safe!Exists, Safe!Known
  <2>4. UNCHANGED <<wallets, coins, broken>> /\ n \in Naming \cup {None}
        /\ a \in Safe!Call /\ a \in Key \ {None, Blank}
        /\ hand' = [hand EXCEPT ![a] = new]
    BY <1>0, <1>4, <2>1
  <2> HIDE DEF new
  <2> QED
    BY <2>2, <2>3, <2>4, LooksAtARow
<1>16. ASSUME NEW a \in Browser, Safe!RegisterWrite(a) PROVE SafeInv'
  BY <1>0, <1>4, <1>16, StoresItsKey DEF Safe!RegisterWrite, Safe!At
<1>17. ASSUME NEW a \in Safe!Call, Safe!Use(a) PROVE SafeInv'
  <2>1. /\ UNCHANGED <<wallets, broken>>
        /\ hand' = [hand EXCEPT ![a].at = "over"]
        /\ coins' = coins \cup {hand[a].key} /\ hand[a].at = "use"
    BY <1>17 DEF Safe!Use, Safe!At
  <2>2. hand[a].key \in Key \ {None, Blank} /\ coins \subseteq Key
    BY <2>1 DEF SafeInv, SafeTyped, Hand, HandsHaveKeys
  <2>3. broken = {} =>
          \A key \in coins' : key \notin {None, Blank} /\ Kept(key)
    BY <2>1, <2>2 DEF SafeInv, PaidKeysAreKept
  <2> QED
    BY <2>1, <2>2, <2>3, IsOver
<1>18. CASE UNCHANGED safeVars
  BY <1>18 DEF safeVars, SafeInv, SafeTyped, Hand, HandsHaveKeys, RepairsKeepTheKey,
               PaidKeysAreKept, Kept, Safe!Known
<1> QED
  BY <1>1, <1>2, <1>3, <1>4, <1>8, <1>9, <1>10, <1>11, <1>12, <1>13, <1>14,
     <1>15, <1>16, <1>17, <1>18 DEF Safe!Next

LEMMA SafeInFocus == Spec => [](focus = "wallets" => SafeInv)
<1> DEFINE I == focus = "wallets" => SafeInv
<1>1. Init => I
  BY InitSafe DEF Init
<1>2. I /\ [Next]_vars => I'
  BY StepInFocus, NextSafe DEF safeVars
<1> QED
  BY <1>1, <1>2, PTL DEF Spec

\* However logins, conversions, transfers and registrations of wallets overlap,
\* the key of an address that was paid to is in a customer's row, unless a call
\* replaced a key it had not seen or was told to replace (repairCustomerWallet,
\* ensureEsomWallet, registerBrowserWallet).
THEOREM PaidCoinsAreReachable == Spec => []CoinsReachable
<1>1. (focus = "wallets" => SafeInv) => CoinsReachable
  BY DEF SafeInv, PaidKeysAreKept, Kept, CoinsReachable, Safe!CoinsReachable
<1> QED
  BY <1>1, SafeInFocus, PTL

-----------------------------------------------------------------------------
(* Administration                                                          *)

Value == Request \cup Visitor \cup Changer \cup Secret
           \cup {None, "old", "default", "asked"}
PutPlace == {"idle", "find", "create", "update", "threw", "log", "over"}
GatePlace == {"idle", "compare", "over"}

AdminTyped ==
  /\ setting \in Value
  /\ puts \in [Request -> [at : PutPlace, snap : Value, prior : Value,
                           raced : BOOLEAN]]
  /\ gate \in [Visitor \cup Changer -> [at : GatePlace, word : Value,
                                        stored : Value, read : Nat]]
  /\ password \in [word : Value, plain : BOOLEAN, stamp : Nat, was : Value]

\* Whatever has been written, it is not the lack of a row.
WrittenIsThere ==
  \A r \in Request : /\ puts[r].at = "update" => setting # None
                     /\ puts[r].at \in {"log", "over"} => puts[r].prior # None

\* A reading that nothing came after is of what is there, or was there when the
\* request wrote.
SnapshotIsCurrent ==
  \A r \in Request : ~puts[r].raced /\ puts[r].snap # "asked" =>
    /\ puts[r].at \in {"idle", "find", "create", "update"} =>
         puts[r].snap = setting
    /\ puts[r].at \in {"log", "over"} => puts[r].snap = puts[r].prior

\* The log is of requests that are over, and has what they read.
LoggedIsOver ==
  /\ \A r \in Request : puts[r].at = "over" => puts[r].snap # "asked"
  /\ \A line \in trail : /\ line.by \in Request /\ puts[line.by].at = "over"
                         /\ line.before = puts[line.by].snap

PutsInv == WrittenIsThere /\ SnapshotIsCurrent /\ LoggedIsOver

\* Plain text is the first password, whatever has become of it since.
PlainIsOld ==
  /\ password.stamp = 0 => password.word = "old" /\ password.was = "old"
  /\ password.plain => password.stamp = 0
  /\ \A v \in Visitor \cup Changer :
       gate[v].at = "compare" => gate[v].stored = "old" /\ gate[v].read = 0

GateInv == PlainIsOld /\ Admin!PasswordIsLastChosen

AdminInv == AdminTyped /\ PutsInv /\ GateInv

USE DEF PutPlace, GatePlace

LEMMA InitAdmin == Admin!Init => AdminInv
<1> SUFFICES ASSUME Admin!Init PROVE AdminInv
  OBVIOUS
<1>1. AdminTyped
  BY DEF Admin!Init, Admin!Put, Admin!Visit, AdminTyped, Value
<1>2. PutsInv
  BY DEF Admin!Init, Admin!Put, PutsInv, WrittenIsThere, SnapshotIsCurrent,
         LoggedIsOver
<1>3. GateInv
  BY DEF Admin!Init, Admin!Visit, GateInv, PlainIsOld,
         Admin!PasswordIsLastChosen
<1> QED
  BY <1>1, <1>2, <1>3 DEF AdminInv

\* A request's handler, its reading of the settings and its line in the log.
LEMMA PutKeeps ==
  ASSUME AdminTyped, PutsInv, NEW r \in Request,
         \/ Admin!Arrive(r) \/ Admin!Snapshot(r) \/ Admin!Find(r)
         \/ Admin!Refused(r) \/ Admin!Log(r)
  PROVE  AdminTyped' /\ PutsInv'
<1> USE DEF AdminTyped, PutsInv, Admin!Step, Admin!Rest
<1>1. CASE Admin!Arrive(r)
  BY <1>1 DEF Admin!Arrive, WrittenIsThere, SnapshotIsCurrent, LoggedIsOver
<1>2. CASE Admin!Snapshot(r)
  <2>1. PICK got \in {setting, None} :
          puts' = [puts EXCEPT
                     ![r].snap = got,
                     ![r].raced = @ \/ puts[r].at \in {"log", "over"}
                                    \/ got # setting]
    BY <1>2 DEF Admin!Snapshot
  <2>2. got \in Value
    BY DEF Value
  <2>3. puts[r].at # "over" /\ puts[r].snap = "asked"
    BY <1>2 DEF Admin!Snapshot, LoggedIsOver
  <2>4. AdminTyped'
    BY <1>2, <2>1, <2>2 DEF Admin!Snapshot
  <2>5. /\ puts'[r].at = puts[r].at /\ puts'[r].prior = puts[r].prior
        /\ puts'[r].snap = got
        /\ puts'[r].raced = (puts[r].raced \/ puts[r].at \in {"log", "over"}
                                          \/ got # setting)
        /\ \A s \in Request \ {r} : puts'[s] = puts[s]
    BY <2>1, <2>2
  <2>6. UNCHANGED <<setting, trail>>
    BY <1>2 DEF Admin!Snapshot
  <2>7. WrittenIsThere'
    BY <2>5, <2>6 DEF WrittenIsThere
  <2>8. SnapshotIsCurrent'
    <3> SUFFICES ASSUME NEW s \in Request,
                        ~puts'[s].raced /\ puts'[s].snap # "asked"
                 PROVE  /\ puts'[s].at \in {"idle", "find", "create", "update"}
                             => puts'[s].snap = setting'
                        /\ puts'[s].at \in {"log", "over"}
                             => puts'[s].snap = puts'[s].prior
      BY DEF SnapshotIsCurrent
    <3>1. CASE s = r
      BY <2>5, <2>6, <3>1
    <3>2. CASE s # r
      <4>1. puts'[s] = puts[s]
        BY <2>5, <3>2
      <4> QED
        BY <2>6, <4>1 DEF SnapshotIsCurrent
    <3> QED
      BY <3>1, <3>2
  <2>9. LoggedIsOver'
    BY <2>3, <2>5, <2>6 DEF LoggedIsOver
  <2> QED
    BY <2>4, <2>7, <2>8, <2>9
<1>3. CASE Admin!Find(r)
  BY <1>3 DEF Admin!Find, WrittenIsThere, SnapshotIsCurrent, LoggedIsOver
<1>4. CASE Admin!Refused(r)
  BY <1>4 DEF Admin!Refused, WrittenIsThere, SnapshotIsCurrent, LoggedIsOver
<1>5. CASE Admin!Log(r)
  <2>1. /\ puts' = [puts EXCEPT ![r].at = "over"] /\ puts[r].at = "log"
        /\ puts[r].snap # "asked" /\ UNCHANGED <<setting, password, gate>>
        /\ \A line \in trail' :
             line \in trail \/ line = [by |-> r, before |-> puts[r].snap]
    BY <1>5 DEF Admin!Log, Admin!Tapped
  <2>2. AdminTyped' /\ WrittenIsThere' /\ SnapshotIsCurrent'
    BY <2>1 DEF WrittenIsThere, SnapshotIsCurrent
  <2>3. LoggedIsOver'
    BY <2>1 DEF LoggedIsOver
  <2> QED
    BY <2>2, <2>3
<1> QED
  BY <1>1, <1>2, <1>3, <1>4, <1>5

\* A write to the settings spoils the readings that came before it.
LEMMA WriteKeeps ==
  ASSUME AdminTyped, PutsInv, NEW r \in Request,
         Admin!Create(r) \/ Admin!Update(r)
  PROVE  AdminTyped' /\ PutsInv'
<1> USE DEF PutsInv, Admin!Step, Admin!Rest
<1>0. r # None /\ "default" # None /\ r \in Value /\ "default" \in Value
  BY SettingsAssumption DEF Value
<1>1. CASE Admin!Create(r) /\ setting = None
  <2>1. /\ setting' = "default" /\ UNCHANGED <<trail, password, gate>>
        /\ puts' = [s \in Request |->
             [puts[s] EXCEPT !.at = IF s = r THEN "update" ELSE @,
                             !.raced = @ \/ puts[s].snap # "asked"]]
        /\ puts[r].at = "create"
    BY <1>1 DEF Admin!Create
  <2>2. /\ puts'[r].at = "update"
        /\ \A s \in Request \ {r} : puts'[s].at = puts[s].at
        /\ \A s \in Request :
             /\ puts'[s].raced = (puts[s].raced \/ puts[s].snap # "asked")
             /\ puts'[s].snap = puts[s].snap /\ puts'[s].prior = puts[s].prior
    <3>1. ASSUME NEW s \in Request
          PROVE  /\ puts'[s].at = (IF s = r THEN "update" ELSE puts[s].at)
                 /\ puts'[s].raced = (puts[s].raced \/ puts[s].snap # "asked")
                 /\ puts'[s].snap = puts[s].snap
                 /\ puts'[s].prior = puts[s].prior
      BY <2>1, ZenonT(60) DEF AdminTyped
    <3> QED
      BY <3>1
  <2>3. AdminTyped'
    BY <1>0, <2>1 DEF AdminTyped
  <2>4. WrittenIsThere'
    BY <1>0, <2>1, <2>2 DEF WrittenIsThere
  <2>5. SnapshotIsCurrent'
    BY <2>2 DEF SnapshotIsCurrent
  <2>6. LoggedIsOver'
    BY <2>1, <2>2, ZenonT(60) DEF LoggedIsOver
  <2> QED
    BY <2>3, <2>4, <2>5, <2>6
<1>2. CASE Admin!Create(r) /\ setting # None
  BY <1>2 DEF Admin!Create, AdminTyped, WrittenIsThere, SnapshotIsCurrent,
              LoggedIsOver
<1>3. CASE Admin!Update(r)
  <2>1. /\ setting' = r /\ UNCHANGED <<trail, password, gate>>
        /\ puts[r].at = "update"
        /\ puts' = [s \in Request |->
             IF s = r THEN [puts[r] EXCEPT !.at = "log", !.prior = setting]
             ELSE [puts[s] EXCEPT !.raced = @ \/ (/\ puts[s].snap # "asked"
                     /\ puts[s].at \notin {"log", "over"})]]
    BY <1>3 DEF Admin!Update
  <2>2. \A s \in Request \ {r} :
          /\ puts'[s].at = puts[s].at
          /\ puts'[s].raced = (puts[s].raced \/
               (puts[s].snap # "asked" /\ puts[s].at \notin {"log", "over"}))
          /\ puts'[s].snap = puts[s].snap /\ puts'[s].prior = puts[s].prior
    BY <2>1 DEF AdminTyped
  <2>3. /\ puts'[r].at = "log" /\ puts'[r].prior = setting
        /\ puts'[r].snap = puts[r].snap /\ puts'[r].raced = puts[r].raced
    BY <2>1 DEF AdminTyped
  <2>4. AdminTyped'
    BY <1>0, <2>1, ZenonT(60) DEF AdminTyped
  <2>5. setting # None
    BY <2>1 DEF WrittenIsThere
  <2>6. WrittenIsThere'
    BY <1>0, <2>1, <2>2, <2>3, <2>5 DEF WrittenIsThere
  <2>7. SnapshotIsCurrent'
    <3>1. ASSUME NEW s \in Request \ {r}, ~puts'[s].raced,
                 puts'[s].snap # "asked"
          PROVE  puts'[s].at \in {"log", "over"}
                   /\ puts'[s].snap = puts'[s].prior
      <4>1. ~puts[s].raced /\ puts[s].at \in {"log", "over"}
        BY <2>2, <3>1 DEF AdminTyped
      <4> QED
        BY <2>2, <3>1, <4>1 DEF SnapshotIsCurrent
    <3>2. ~puts[r].raced /\ puts[r].snap # "asked" =>
            puts[r].snap = setting
      BY <2>1 DEF SnapshotIsCurrent
    <3> QED
      BY <2>1, <2>3, <3>1, <3>2 DEF SnapshotIsCurrent
  <2>8. LoggedIsOver'
    BY <2>1, <2>2, <2>3 DEF LoggedIsOver
  <2> QED
    BY <2>4, <2>6, <2>7, <2>8
<1> QED
  BY <1>1, <1>2, <1>3

\* A login looks at the row, and replaces plain text by its hash; a change of
\* the password comes from outside.
LEMMA GateKeeps ==
  ASSUME AdminTyped, GateInv, NEW v \in Visitor \cup Changer,
         \/ v \in Visitor /\ Admin!LoginRehash(v)
         \/ v \in Visitor /\ \E w \in Secret : Admin!LoginRead(v, w)
         \/ v \in Changer /\ Admin!ChangePassword(v)
  PROVE  AdminTyped' /\ GateInv'
<1> USE DEF GateInv, Admin!Settings
<1>1. CASE v \in Visitor /\ Admin!LoginRehash(v)
  <2>1. /\ UNCHANGED <<setting, puts, trail>> /\ gate[v].at = "compare"
        /\ gate' = [gate EXCEPT ![v].at = "over"]
    BY <1>1 DEF Admin!LoginRehash
  <2>2. /\ gate'[v].at = "over" /\ gate'[v].read = gate[v].read
        /\ \A u \in Visitor \cup Changer : u # v => gate'[u] = gate[u]
    BY <2>1 DEF AdminTyped
  <2>3. gate[v].stored = "old" /\ gate[v].read = 0
    BY <2>1 DEF PlainIsOld
  <2>4. \/ UNCHANGED password
        \/ /\ password' = [password EXCEPT !.word = gate[v].word,
                                           !.plain = FALSE]
           /\ gate[v].word = "old"
    BY <1>1, <2>3 DEF Admin!LoginRehash, Admin!Matches
  <2>5. /\ password'.stamp = password.stamp /\ password'.was = password.was
        /\ password'.word \in {password.word, "old"}
        /\ password'.plain => password.plain
    BY <2>4 DEF AdminTyped
  <2>6. AdminTyped'
    <3>1. password' \in [word : Value, plain : BOOLEAN, stamp : Nat,
                         was : Value]
      <4>1. gate[v].word \in Value
        BY DEF AdminTyped
      <4> QED
        BY <2>4, <4>1 DEF AdminTyped
    <3>2. gate' \in [Visitor \cup Changer -> [at : GatePlace, word : Value,
                                              stored : Value, read : Nat]]
      BY <2>1 DEF AdminTyped
    <3> QED
      BY <2>1, <3>1, <3>2 DEF AdminTyped
  <2>7. PlainIsOld'
    BY <2>2, <2>5 DEF PlainIsOld
  <2>8. Admin!PasswordIsLastChosen'
    <3> SUFFICES ASSUME password'.word # password'.was
                 PROVE  \E u \in Visitor : gate'[u].at = "over"
                          /\ gate'[u].read # password'.stamp
      BY DEF Admin!PasswordIsLastChosen
    <3>1. CASE password'.word = password.word
      BY <2>1, <2>2, <2>5, <3>1 DEF Admin!PasswordIsLastChosen
    <3>2. CASE password'.word = "old"
      <4>1. password.stamp # 0
        BY <2>5, <3>2 DEF PlainIsOld
      <4> QED
        BY <1>1, <2>2, <2>3, <2>5, <4>1
    <3> QED
      BY <2>5, <3>1, <3>2
  <2> QED
    BY <2>6, <2>7, <2>8
<1>2. ASSUME v \in Visitor, NEW w \in Secret, Admin!LoginRead(v, w)
      PROVE  AdminTyped' /\ GateInv'
  <2> DEFINE new == [at |-> IF password.plain THEN "compare" ELSE "over",
                     word |-> w, read |-> password.stamp,
                     stored |-> password.word]
  <2>1. /\ UNCHANGED <<setting, puts, trail, password>> /\ gate[v].at = "idle"
        /\ gate' = [gate EXCEPT ![v] = new]
    BY <1>2 DEF Admin!LoginRead
  <2>2. new \in [at : GatePlace, word : Value, stored : Value, read : Nat]
    BY DEF AdminTyped, Value
  <2>3. /\ new.at = "compare" => password.plain
        /\ new.read = password.stamp /\ new.stored = password.word
    OBVIOUS
  <2> HIDE DEF new
  <2>4. AdminTyped'
    <3>1. gate' \in [Visitor \cup Changer -> [at : GatePlace, word : Value,
                                              stored : Value, read : Nat]]
      BY <2>1, <2>2 DEF AdminTyped
    <3> QED
      BY <2>1, <3>1 DEF AdminTyped
  <2>5. gate'[v] = new
        /\ \A u \in Visitor \cup Changer : u # v => gate'[u] = gate[u]
    BY <2>1 DEF AdminTyped
  <2>6. PlainIsOld'
    BY <2>1, <2>3, <2>5 DEF PlainIsOld
  <2>7. Admin!PasswordIsLastChosen'
    BY <2>1, <2>5 DEF Admin!PasswordIsLastChosen
  <2> QED
    BY <2>4, <2>6, <2>7
<1>3. CASE v \in Changer /\ Admin!ChangePassword(v)
  <2>1. /\ UNCHANGED <<setting, puts, trail>>
        /\ password' = [word |-> v, plain |-> FALSE,
                        stamp |-> password.stamp + 1, was |-> v]
        /\ gate' = [gate EXCEPT ![v].at = "over"]
    BY <1>3 DEF Admin!ChangePassword
  <2>2. v \in Value /\ password.stamp \in Nat
    BY <1>3 DEF AdminTyped, Value
  <2>3. AdminTyped'
    <3>1. password' \in [word : Value, plain : BOOLEAN, stamp : Nat,
                         was : Value]
      BY <2>1, <2>2
    <3>2. gate' \in [Visitor \cup Changer -> [at : GatePlace, word : Value,
                                              stored : Value, read : Nat]]
      BY <2>1 DEF AdminTyped
    <3> QED
      BY <2>1, <3>1, <3>2 DEF AdminTyped
  <2>4. \A u \in Visitor \cup Changer :
          gate'[u].at = "compare" => gate'[u] = gate[u]
    BY <2>1 DEF AdminTyped
  <2>5. PlainIsOld'
    BY <2>1, <2>2, <2>4 DEF PlainIsOld
  <2>6. Admin!PasswordIsLastChosen'
    BY <2>1 DEF Admin!PasswordIsLastChosen
  <2> QED
    BY <2>3, <2>5, <2>6
<1> QED
  BY <1>1, <1>2, <1>3

LEMMA NextAdmin == AdminInv /\ [Admin!Next]_adminVars => AdminInv'
<1> SUFFICES ASSUME AdminInv, [Admin!Next]_adminVars PROVE AdminInv'
  OBVIOUS
<1>0. UNCHANGED <<password, gate>> => GateInv'
  BY DEF AdminInv, GateInv, PlainIsOld, Admin!PasswordIsLastChosen
<1>1. UNCHANGED <<setting, puts, trail>> => PutsInv'
  BY DEF AdminInv, PutsInv, WrittenIsThere, SnapshotIsCurrent, LoggedIsOver
<1>2. ASSUME NEW r \in Request,
             \/ Admin!Arrive(r) \/ Admin!Snapshot(r) \/ Admin!Find(r)
             \/ Admin!Refused(r) \/ Admin!Log(r)
      PROVE  AdminInv'
  <2>1. UNCHANGED <<password, gate>>
    BY <1>2 DEF Admin!Arrive, Admin!Snapshot, Admin!Find, Admin!Refused,
                Admin!Log, Admin!Rest
  <2> QED
    BY <1>0, <1>2, <2>1, PutKeeps DEF AdminInv
<1>3. ASSUME NEW r \in Request, Admin!Create(r) \/ Admin!Update(r)
      PROVE  AdminInv'
  <2>1. UNCHANGED <<password, gate>>
    BY <1>3 DEF Admin!Create, Admin!Update, Admin!Rest
  <2> QED
    BY <1>0, <1>3, <2>1, WriteKeeps DEF AdminInv
<1>4. ASSUME NEW v \in Visitor \cup Changer,
             \/ v \in Visitor /\ Admin!LoginRehash(v)
             \/ v \in Visitor /\ \E w \in Secret : Admin!LoginRead(v, w)
             \/ v \in Changer /\ Admin!ChangePassword(v)
      PROVE  AdminInv'
  <2>1. UNCHANGED <<setting, puts, trail>>
    BY <1>4 DEF Admin!LoginRehash, Admin!LoginRead, Admin!ChangePassword,
                Admin!Settings
  <2> QED
    BY <1>1, <1>4, <2>1, GateKeeps DEF AdminInv
<1>5. CASE UNCHANGED adminVars
  BY <1>0, <1>1, <1>5 DEF adminVars, AdminInv, AdminTyped
<1> QED
  BY <1>2, <1>3, <1>4, <1>5 DEF Admin!Next

LEMMA AdminInFocus == Spec => [](focus = "admin" => AdminInv)
<1> DEFINE I == focus = "admin" => AdminInv
<1>1. Init => I
  BY InitAdmin DEF Init
<1>2. I /\ [Next]_vars => I'
  BY StepInFocus, NextAdmin DEF adminVars
<1> QED
  BY <1>1, <1>2, PTL DEF Spec

\* However requests, their readings for the log, logins and password changes
\* overlap, the log has only changes that were made and what was there before,
\* unless a write came between, and the last password chosen opens the door,
\* unless it was chosen while a login replaced the old one by its hash
\* (AdminActionLogInterceptor, validateAdmin).
THEOREM RecordsStayTrue == Spec => []RecordsAreTrue
<1>1. AdminInv => Admin!LogIsTrue /\ Admin!PasswordIsLastChosen
  <2>1. ASSUME AdminInv, NEW line \in trail
        PROVE  /\ puts[line.by].prior # None
               /\ line.before # puts[line.by].prior => puts[line.by].raced
    BY <2>1 DEF AdminInv, AdminTyped, PutsInv, WrittenIsThere,
                SnapshotIsCurrent, LoggedIsOver
  <2> QED
    BY <2>1 DEF AdminInv, GateInv, Admin!LogIsTrue
<1>2. (focus = "admin" => AdminInv) => RecordsAreTrue
  BY <1>1 DEF RecordsAreTrue
<1> QED
  BY <1>2, AdminInFocus, PTL

-----------------------------------------------------------------------------
(* Anti-fraud                                                              *)

LEMMA ProductsAreNat == \A m, n \in Nat : m * n \in Nat
OBVIOUS

LEMMA QuotientsAreNat == \A m \in Nat, n \in Nat \ {0} : m \div n \in Nat
OBVIOUS

CheckPlace == {"idle", "evaluate", "compare", "case", "flag", "reject", "open",
               "aml", "pay", "late", "next", "over", "lost"}
Check == [at : CheckPlace, seen : Nat, prev : Nat, row : Nat, fresh : BOOLEAN]
Asked == [flow : Watch!Flow, next : Watch!Flow \cup {None}, amount : Int,
          fee : Int, to : Peer \cup {None}, address : Address \cup {None}]
Used == [via : Nat, since : Nat, stored : Nat, plan : Watch!Fields]

FraudTyped ==
  /\ ledger \in Seq(Watch!Transaction)
  /\ pay \in [Attempt -> Asked]
  /\ check \in [Attempt -> Check]
  /\ status \in Watch!Status
  /\ spent \in SUBSET Used
  /\ editor \in [at : {"idle", "write", "over"}, to : Watch!Status,
                 comment : BOOLEAN, saw : Watch!Status \cup {None}]

\* The rows an attempt holds are there, the one whose case it is about to open
\* is the payer's, and a second leg follows where it is said to.
RowsAreThere ==
  \A a \in Attempt :
    /\ check[a].seen <= Len(ledger) /\ check[a].prev <= Len(ledger)
    /\ check[a].at = "idle" => check[a].prev = 0
    /\ check[a].at = "open" => /\ check[a].row \in DOMAIN ledger
                               /\ ledger[check[a].row].sender = Suspect
    /\ check[a].at = "next" => pay[a].next # None

\* Of the identical rows there were when an attempt began, none is newer than
\* the one it is let through by.
NewestIsAsked ==
  \A a \in Attempt : check[a].prev # 0 =>
    \A i \in DOMAIN ledger :
      i <= check[a].seen /\ Watch!Identical(ledger[i], Watch!Plan(pay[a]))
        => i <= check[a].prev

\* ... and so it was of the payments made, whose rows came after the one that
\* let them through.
SpentIsPast ==
  \A use \in spent :
    /\ use.via < use.stored /\ use.stored <= Len(ledger)
    /\ use.since <= Len(ledger)
    /\ \A i \in DOMAIN ledger :
         i <= use.since /\ Watch!Identical(ledger[i], use.plan) => i <= use.via

\* Nobody begins while the customer is blocked.
BlockIsNewer ==
  status = "BLOCKED" =>
    \A a \in Attempt : check[a].fresh => check[a].at = "idle"

EditorLooked ==
  editor.at = "write" /\ ~editor.comment => editor.to = editor.saw

FraudInv == /\ FraudTyped /\ RowsAreThere /\ NewestIsAsked /\ SpentIsPast
            /\ BlockIsNewer /\ EditorLooked /\ Watch!FraudIsExplained

USE DEF CheckPlace

\* Which way a request takes.
LEMMA PaymentTyped ==
  ASSUME NEW q \in Watch!Conversion \cup Watch!Transfer
  PROVE  Watch!Payment(q) \in Asked
<1>1. Watch!FlowOf(q) \in Watch!Flow
  <2>1. CASE q \in Watch!Conversion
    <3>1. q.call = "convert" /\ q.currency \in {"SOM", "ESOM", "USDT"}
      BY <2>1 DEF Watch!Conversion, Watch!Currency
    <3>2. Watch!FirstOf(q) \in Watch!Flow
      BY <3>1 DEF Watch!FirstOf, Watch!Flow
    <3> QED
      BY <3>1, <3>2 DEF Watch!FlowOf
  <2>2. CASE q \in Watch!Transfer
    <3>1. Watch!AddressFlow(q) \in Watch!Flow
      BY <2>2 DEF Watch!AddressFlow, Watch!Transfer, Watch!Flow
    <3>2. Watch!PhoneFlow(q) \in Watch!Flow
      BY DEF Watch!PhoneFlow, Watch!Flow
    <3>3. q.call = "transfer" /\ q.currency \in {"SOM", "ESOM", "USDT"}
      BY <2>2 DEF Watch!Transfer, Watch!Currency
    <3> QED
      BY <3>1, <3>2, <3>3 DEF Watch!FlowOf, Watch!Flow
  <2> QED
    BY <2>1, <2>2
<1>2. /\ q.amount \in Int /\ q.fee \in Int /\ q.to \in Peer \cup {None}
      /\ q.address \in Address \cup {None}
  <2>1. CASE q \in Watch!Conversion
    BY <2>1 DEF Watch!Conversion
  <2>2. CASE q \in Watch!Transfer
    BY <2>2 DEF Watch!Transfer
  <2> QED
    BY <2>1, <2>2
<1>3. Watch!SecondOf(q) \in Watch!Flow \cup {None}
  BY DEF Watch!SecondOf, Watch!Flow
<1> QED
  BY <1>1, <1>2, <1>3 DEF Watch!Payment, Asked

\* What a check looks at, and what a payment stores.
LEMMA PlanTyped ==
  ASSUME NEW p \in Asked
  PROVE  /\ Watch!Plan(p) \in Watch!Fields /\ Watch!Stored(p) \in Watch!Fields
         /\ Watch!Out(p) \in Int
<1>1. /\ Watch!KindOf(p.flow) \in Watch!Kind
      /\ Watch!AssetIn(p.flow) \in Watch!Currency
      /\ Watch!AssetOut(p.flow) \in Watch!Currency
  BY DEF Watch!KindOf, Watch!Kind, Watch!AssetIn, Watch!AssetOut, Watch!Currency
<1>2. /\ p.amount \in Int /\ p.fee \in Int /\ p.to \in Peer \cup {None}
      /\ p.address \in Address \cup {None}
  BY DEF Asked
<1>3. Watch!Plan(p) \in Watch!Fields
  <2>1. /\ (IF p.flow = "wallet" THEN p.amount + p.fee ELSE p.amount) \in Int
        /\ (IF p.flow = "withdraw" THEN None ELSE p.address)
             \in Address \cup {None}
        /\ (IF p.flow = "withdraw" THEN p.address ELSE None)
             \in Address \cup {None}
    BY <1>2
  <2> QED
    BY <1>1, <1>2, <2>1, Zenon DEF Watch!Plan, Watch!Fields
<1>4. Watch!Stored(p) \in Watch!Fields
  <2> DEFINE f == Watch!Plan(p)
  <2>1. f \in Watch!Fields
    BY <1>3
  <2>2. Watch!Stored(p) = [f EXCEPT !.in = p.amount,
                             !.to = IF p.flow = "purchase" THEN None ELSE @]
    BY DEF Watch!Stored
  <2> HIDE DEF f
  <2> QED
    BY <1>2, <2>1, <2>2 DEF Watch!Fields
<1>5. Watch!Out(p) \in Int
  <2> DEFINE net == IF p.amount > p.fee THEN p.amount - p.fee ELSE 0
  <2>1. net \in Nat
    BY <1>2
  <2>2. net \div Rate \in Nat /\ net * Rate \in Nat
    <3> HIDE DEF net
    <3> QED
      BY <2>1, ScenariosAssumption, ProductsAreNat, QuotientsAreNat
  <2>3. Watch!Out(p) \in {net \div Rate, net * Rate, net, p.amount}
    BY DEF Watch!Out
  <2> QED
    BY <1>2, <2>1, <2>2, <2>3
<1> QED
  BY <1>3, <1>4, <1>5

\* The rows a check and a payment leave.
LEMMA RowTyped ==
  ASSUME NEW p \in Asked, NEW success \in BOOLEAN
  PROVE  /\ Watch!Refused(p) \in Watch!Transaction
         /\ Watch!Refused(p).sender = Suspect
         /\ Watch!Row(Watch!Stored(p), Watch!Out(p), success)
              \in Watch!Transaction
BY PlanTyped, ScenariosAssumption
DEF Watch!Refused, Watch!Row, Watch!Transaction

LEMMA InitFraud == Watch!Init => FraudInv
<1> SUFFICES ASSUME Watch!Init PROVE FraudInv
  OBVIOUS
<1>1. PICK s \in Scenarios :
        /\ ledger = s.past
        /\ pay = [a \in Attempt |-> Watch!Payment(s.ask[a])]
        /\ editor = s.edit
        /\ check = [a \in Attempt |-> IF a \in s.absent
                      THEN [Watch!Idle EXCEPT !.at = "over"] ELSE Watch!Idle]
  BY DEF Watch!Init
<1>2. Watch!IsScenario(s)
  BY ScenariosAssumption
<1>3. ledger \in Seq(Watch!Transaction) /\ pay \in [Attempt -> Asked]
  BY <1>1, <1>2, PaymentTyped DEF Watch!IsScenario
<1>4. \A a \in Attempt :
        /\ check[a] \in Check /\ check[a].at \in {"idle", "over"}
        /\ check[a].seen = 0 /\ check[a].prev = 0
  BY <1>1 DEF Watch!Idle, Check
<1>5. /\ editor \in [at : {"idle", "write", "over"}, to : Watch!Status,
                     comment : BOOLEAN, saw : Watch!Status \cup {None}]
      /\ editor.at # "write" /\ status = "ACTIVE" /\ spent = {}
  BY <1>1, <1>2 DEF Watch!IsScenario, Watch!Init
<1>6. FraudTyped
  BY <1>1, <1>3, <1>4, <1>5 DEF FraudTyped, Watch!Status
<1>7. Len(ledger) \in Nat
  BY <1>3
<1> QED
  BY <1>4, <1>5, <1>6, <1>7 DEF FraudInv, RowsAreThere, NewestIsAsked,
     SpentIsPast, BlockIsNewer, EditorLooked, Watch!FraudIsExplained

\* Rows are added behind the others, and none is compared differently.
SameRow(x, y) == y.sender = x.sender /\ y.fields = x.fields
Extends(old, new) ==
  /\ Len(old) <= Len(new)
  /\ \A i \in DOMAIN old : SameRow(old[i], new[i])

\* An old row is identical to a plan when it was before.
LEMMA WasIdentical ==
  ASSUME FraudTyped, ledger' \in Seq(Watch!Transaction),
         Extends(ledger, ledger'), NEW n \in Nat, n <= Len(ledger),
         NEW plan, NEW i \in DOMAIN ledger', i <= n,
         Watch!Identical(ledger'[i], plan)
  PROVE  i \in DOMAIN ledger /\ Watch!Identical(ledger[i], plan)
<1>1. i \in DOMAIN ledger
  BY DEF FraudTyped
<1>2. SameRow(ledger[i], ledger'[i])
  BY <1>1 DEF Extends
<1> QED
  BY <1>1, <1>2 DEF SameRow, Watch!Identical, Watch!Asks

\* What the newest identical row of an attempt is does not change.
LEMMA StaysNewest ==
  ASSUME FraudTyped, RowsAreThere, NewestIsAsked, NEW a \in Attempt,
         pay'[a] = pay[a], ledger' \in Seq(Watch!Transaction),
         Extends(ledger, ledger'), check'[a].prev # 0,
         check'[a].prev = check[a].prev, check'[a].seen = check[a].seen,
         NEW i \in DOMAIN ledger', i <= check'[a].seen,
         Watch!Identical(ledger'[i], Watch!Plan(pay'[a]))
  PROVE  i <= check'[a].prev
<1>1. check[a].seen \in Nat /\ check[a].seen <= Len(ledger)
  BY DEF RowsAreThere, FraudTyped, Check
<1>2. i \in DOMAIN ledger /\ Watch!Identical(ledger[i], Watch!Plan(pay[a]))
  BY <1>1, WasIdentical
<1> QED
  BY <1>2 DEF NewestIsAsked

\* Nor do the newest rows of the payments made.
LEMMA StaysPast ==
  ASSUME FraudTyped, SpentIsPast, NEW use \in spent,
         ledger' \in Seq(Watch!Transaction), Extends(ledger, ledger')
  PROVE  /\ use.via < use.stored /\ use.stored <= Len(ledger')
         /\ use.since <= Len(ledger')
         /\ \A i \in DOMAIN ledger' :
              i <= use.since /\ Watch!Identical(ledger'[i], use.plan)
                => i <= use.via
<1>1. /\ use.via < use.stored /\ use.stored <= Len(ledger)
      /\ use.since <= Len(ledger)
      /\ use.via \in Nat /\ use.stored \in Nat /\ use.since \in Nat
  BY DEF SpentIsPast, FraudTyped, Used
<1>2. Len(ledger) \in Nat /\ Len(ledger') \in Nat /\ Len(ledger) <= Len(ledger')
  BY DEF Extends, FraudTyped
<1>3. ASSUME NEW i \in DOMAIN ledger', i <= use.since,
             Watch!Identical(ledger'[i], use.plan)
      PROVE  i <= use.via
  <2>1. i \in DOMAIN ledger /\ Watch!Identical(ledger[i], use.plan)
    BY <1>1, <1>3, WasIdentical
  <2> QED
    BY <1>3, <2>1 DEF SpentIsPast
<1> QED
  BY <1>1, <1>2, <1>3

\* An attempt goes one step on.
LEMMA AttemptGoesOn ==
  ASSUME FraudInv, NEW a \in Attempt, UNCHANGED <<pay, editor>>,
         check' \in [Attempt -> Check],
         \A b \in Attempt \ {a} : check'[b] = check[b],
         check'[a].at # "idle", check'[a].fresh = check[a].fresh,
         ledger' \in Seq(Watch!Transaction), Extends(ledger, ledger'),
         status' \in Watch!Status,
         status' = "BLOCKED" => status = "BLOCKED" /\ check[a].at # "idle",
         \/ check'[a].seen = check[a].seen
         \/ check'[a].seen = Len(ledger) /\ check'[a].prev = 0,
         \/ check'[a].prev = 0
         \/ check'[a].prev = check[a].prev
         \/ check'[a].prev \in Watch!Previous(pay[a]) /\ UNCHANGED ledger,
         \/ UNCHANGED spent
         \/ /\ check[a].prev # 0 /\ spent' = spent \cup {Watch!Use(a)}
            /\ Len(ledger') = Len(ledger) + 1,
         check'[a].at = "open" => /\ check'[a].row \in DOMAIN ledger'
                                  /\ ledger'[check'[a].row].sender = Suspect,
         check'[a].at = "next" => pay[a].next # None,
         Watch!FraudIsExplained'
  PROVE  FraudInv'
<1> USE DEF FraudInv
<1>0. Len(ledger) \in Nat /\ Len(ledger') \in Nat /\ Len(ledger) <= Len(ledger')
  BY DEF Extends, FraudTyped
<1>b. DOMAIN ledger \subseteq DOMAIN ledger'
  BY <1>0 DEF FraudTyped
<1>a. /\ Watch!Use(a) \in Used /\ Watch!Use(a).via = check[a].prev
      /\ Watch!Use(a).since = check[a].seen
      /\ Watch!Use(a).stored = Len(ledger) + 1
      /\ Watch!Use(a).plan = Watch!Plan(pay[a])
  <2>1. pay[a] \in Asked /\ check[a].prev \in Nat /\ check[a].seen \in Nat
    BY DEF FraudTyped, Check
  <2>2. Len(ledger) + 1 \in Nat
    BY <1>0
  <2>3. Watch!Plan(pay[a]) \in Watch!Fields
    BY <2>1, PlanTyped
  <2> QED
    BY <2>1, <2>2, <2>3, Zenon DEF Watch!Use, Used
<1>1. FraudTyped'
  BY <1>a DEF FraudTyped
<1>2. \/ check'[a].prev \in {0, check[a].prev}
      \/ /\ UNCHANGED ledger /\ check'[a].prev \in DOMAIN ledger
         /\ \A i \in DOMAIN ledger :
              Watch!Identical(ledger[i], Watch!Plan(pay[a])) =>
                i <= check'[a].prev
  BY DEF Watch!Previous, Watch!Newest, Watch!AnyIdentical
<1>3. RowsAreThere'
  <2>1. ASSUME NEW b \in Attempt \ {a}
        PROVE  /\ check'[b].seen <= Len(ledger') /\ check'[b].prev <= Len(ledger')
               /\ check'[b].at = "idle" => check'[b].prev = 0
               /\ check'[b].at = "open" =>
                    /\ check'[b].row \in DOMAIN ledger'
                    /\ ledger'[check'[b].row].sender = Suspect
               /\ check'[b].at = "next" => pay'[b].next # None
    <3>1. check[b] \in Check /\ check'[b] = check[b]
      BY DEF FraudTyped
    <3>2. /\ check[b].seen <= Len(ledger) /\ check[b].prev <= Len(ledger)
          /\ check[b].at = "idle" => check[b].prev = 0
          /\ check[b].at = "open" =>
               /\ check[b].row \in DOMAIN ledger
               /\ ledger[check[b].row].sender = Suspect
          /\ check[b].at = "next" => pay[b].next # None
      BY DEF RowsAreThere
    <3>3. check[b].at = "open" => ledger'[check[b].row].sender = Suspect
      BY <3>2 DEF Extends, SameRow
    <3>4. check[b].seen \in Nat /\ check[b].prev \in Nat
      BY <3>1 DEF Check
    <3>5. check[b].seen <= Len(ledger') /\ check[b].prev <= Len(ledger')
      BY <1>0, <3>2, <3>4
    <3>6. check[b].row \in DOMAIN ledger => check[b].row \in DOMAIN ledger'
      BY <1>b
    <3> QED
      BY <3>1, <3>2, <3>3, <3>5, <3>6
  <2>2. /\ check[a].seen \in Nat /\ check[a].prev \in Nat
        /\ check'[a].seen \in Nat /\ check'[a].prev \in Nat
        /\ check[a].seen <= Len(ledger) /\ check[a].prev <= Len(ledger)
    <3>1. check[a] \in Check /\ check'[a] \in Check
      BY DEF FraudTyped
    <3> QED
      BY <3>1 DEF Check, RowsAreThere
  <2>3. check'[a].seen <= Len(ledger') /\ check'[a].prev <= Len(ledger')
    BY <1>0, <1>2, <2>2
  <2> QED
    BY <2>1, <2>3 DEF RowsAreThere
<1>4. NewestIsAsked'
  <2> SUFFICES ASSUME NEW b \in Attempt, check'[b].prev # 0,
                      NEW i \in DOMAIN ledger', i <= check'[b].seen,
                      Watch!Identical(ledger'[i], Watch!Plan(pay'[b]))
               PROVE  i <= check'[b].prev
    BY DEF NewestIsAsked, Watch!Identical, Watch!Plan
  <2>1. CASE b # a \/ (check'[a].prev = check[a].prev
                         /\ check'[a].seen = check[a].seen)
    BY <2>1, StaysNewest
  <2>2. CASE b = a /\ check'[a].prev # check[a].prev
    <3>1. /\ UNCHANGED ledger
          /\ \A j \in DOMAIN ledger :
               Watch!Identical(ledger[j], Watch!Plan(pay[a])) =>
                 j <= check'[a].prev
      BY <1>2, <2>2
    <3> QED
      BY <2>2, <3>1
  <2> QED
    BY <2>1, <2>2
<1>5. SpentIsPast'
  <2>1. ASSUME NEW use \in spent'
        PROVE  /\ use.via < use.stored /\ use.stored <= Len(ledger')
               /\ use.since <= Len(ledger')
               /\ \A i \in DOMAIN ledger' :
                    i <= use.since /\ Watch!Identical(ledger'[i], use.plan)
                      => i <= use.via
    <3>1. CASE use \in spent
      BY <3>1, StaysPast
    <3>2. CASE use \notin spent
      <4>1. /\ use = Watch!Use(a) /\ check[a].prev # 0
            /\ Len(ledger') = Len(ledger) + 1
        BY <2>1, <3>2
      <4>2. /\ check[a].seen \in Nat /\ check[a].prev \in Nat
            /\ check[a].seen <= Len(ledger) /\ check[a].prev <= Len(ledger)
        BY DEF RowsAreThere, FraudTyped, Check
      <4>3. ASSUME NEW i \in DOMAIN ledger', i <= use.since,
                   Watch!Identical(ledger'[i], use.plan)
            PROVE  i <= use.via
        <5>1. /\ i \in DOMAIN ledger
              /\ Watch!Identical(ledger[i], Watch!Plan(pay[a]))
          BY <1>a, <4>1, <4>2, <4>3, WasIdentical
        <5> QED
          BY <1>a, <4>1, <4>3, <5>1 DEF NewestIsAsked
      <4> QED
        BY <1>0, <1>a, <4>1, <4>2, <4>3
    <3> QED
      BY <3>1, <3>2
  <2> QED
    BY <2>1 DEF SpentIsPast, Watch!Identical
<1>6. BlockIsNewer'
  BY DEF BlockIsNewer
<1>7. EditorLooked'
  BY DEF EditorLooked
<1> QED
  BY <1>1, <1>3, <1>4, <1>5, <1>6, <1>7

\* ... without a row of its own: the mark stays explained.
LEMMA AttemptWaits ==
  ASSUME FraudInv, NEW a \in Attempt,
         UNCHANGED <<ledger, pay, editor, status, spent>>,
         check' \in [Attempt -> Check],
         \A b \in Attempt \ {a} : check'[b] = check[b],
         check[a].at \notin {"over", "reject", "open", "lost"},
         check'[a].at \notin {"idle", "open"},
         check'[a].at = "next" => pay[a].next # None,
         check'[a].fresh = check[a].fresh,
         check[a].at = "idle" => status # "BLOCKED",
         \/ check'[a].seen = check[a].seen
         \/ check'[a].seen = Len(ledger) /\ check'[a].prev = 0,
         \/ check'[a].prev = 0
         \/ check'[a].prev = check[a].prev
         \/ check'[a].prev \in Watch!Previous(pay[a])
  PROVE  FraudInv'
<1>1. Extends(ledger, ledger')
  BY DEF Extends, SameRow, FraudInv, FraudTyped
<1>2. Watch!FraudIsExplained'
  BY DEF FraudInv, Watch!FraudIsExplained
<1> QED
  BY <1>1, <1>2, AttemptGoesOn DEF FraudInv, FraudTyped

\* A row is added: it is the last, and the others stay as they are.
LEMMA RowAdded ==
  ASSUME FraudTyped, NEW x \in Watch!Transaction, ledger' = Append(ledger, x)
  PROVE  /\ Extends(ledger, ledger') /\ ledger' \in Seq(Watch!Transaction)
         /\ Len(ledger') = Len(ledger) + 1
         /\ DOMAIN ledger' = 1 .. Len(ledger) + 1
         /\ \A i \in DOMAIN ledger : ledger'[i] = ledger[i]
         /\ ledger'[Len(ledger) + 1] = x
BY DEF FraudTyped, Extends, SameRow

\* The next place of an attempt, all else as it was.
LEMMA GoesTo ==
  ASSUME FraudTyped, NEW a \in Attempt, NEW at \in CheckPlace,
         Watch!Goes(a, at)
  PROVE  /\ check' \in [Attempt -> Check] /\ check'[a].at = at
         /\ check'[a].seen = check[a].seen /\ check'[a].prev = check[a].prev
         /\ check'[a].row = check[a].row /\ check'[a].fresh = check[a].fresh
         /\ \A b \in Attempt \ {a} : check'[b] = check[b]
BY DEF FraudTyped, Watch!Goes, Check

\* The checks up to the decision.
LEMMA CheckKeeps ==
  ASSUME FraudInv, NEW a \in Attempt,
         \/ Watch!Begin(a) \/ Watch!Evaluate(a) \/ Watch!Compare(a)
         \/ Watch!FindCase(a)
  PROVE  FraudInv'
<1>0. FraudTyped /\ Watch!AfterRules(pay[a]) \in {"aml", "pay"}
      /\ Watch!FirstCheck(pay[a]) \in {"evaluate", "aml", "pay"}
  BY DEF FraudInv, Watch!AfterRules, Watch!FirstCheck
<1>1. CASE Watch!Begin(a)
  <2>1. /\ check' = [check EXCEPT ![a].at = Watch!FirstCheck(pay[a]),
                                  ![a].seen = Len(ledger)]
        /\ check[a].at = "idle" /\ status # "BLOCKED"
        /\ UNCHANGED <<ledger, status, pay, editor, spent>>
    BY <1>1 DEF Watch!Begin, Watch!At, Watch!MayPay
  <2>2. check[a].prev = 0 /\ Len(ledger) \in Nat
    BY <2>1 DEF FraudInv, RowsAreThere, FraudTyped
  <2>3. /\ check' \in [Attempt -> Check]
        /\ check'[a].at = Watch!FirstCheck(pay[a])
        /\ check'[a].seen = Len(ledger) /\ check'[a].prev = check[a].prev
        /\ check'[a].fresh = check[a].fresh
        /\ \A b \in Attempt \ {a} : check'[b] = check[b]
    BY <1>0, <2>1, <2>2, ZenonT(60) DEF FraudTyped, Check
  <2> QED
    BY <1>0, <2>1, <2>2, <2>3, AttemptWaits
<1>2. CASE Watch!Evaluate(a)
  <2>1. PICK at \in {"compare", "aml", "pay"} :
          /\ Watch!Goes(a, at) /\ check[a].at = "evaluate"
          /\ UNCHANGED <<ledger, status, pay, editor, spent>>
    BY <1>0, <1>2 DEF Watch!Evaluate, Watch!At
  <2> QED
    BY <1>0, <2>1, GoesTo, AttemptWaits
<1>3. CASE Watch!Compare(a)
  <2>1. /\ check[a].at = "compare"
        /\ UNCHANGED <<ledger, status, pay, editor, spent>>
    BY <1>3 DEF Watch!Compare, Watch!At
  <2>2. ASSUME Watch!Goes(a, "flag") PROVE FraudInv'
    BY <1>0, <2>1, <2>2, GoesTo, AttemptWaits
  <2>3. ASSUME NEW i \in Watch!Previous(pay[a]),
               check' = [check EXCEPT ![a].at = "case", ![a].prev = i]
        PROVE  FraudInv'
    <3>1. i \in Nat
      BY <1>0 DEF Watch!Previous, Watch!Newest, Watch!AnyIdentical, FraudTyped
    <3>2. /\ check' \in [Attempt -> Check] /\ check'[a].at = "case"
          /\ check'[a].seen = check[a].seen /\ check'[a].prev = i
          /\ check'[a].fresh = check[a].fresh
          /\ \A b \in Attempt \ {a} : check'[b] = check[b]
      BY <1>0, <2>3, <3>1, ZenonT(60) DEF FraudTyped, Check
    <3> QED
      BY <2>1, <3>2, AttemptWaits
  <2> QED
    BY <1>3, <2>2, <2>3 DEF Watch!Compare
<1>4. CASE Watch!FindCase(a)
  <2>1. /\ check[a].at = "case"
        /\ UNCHANGED <<ledger, status, pay, editor, spent>>
    BY <1>4 DEF Watch!FindCase, Watch!At
  <2>2. ASSUME Watch!Goes(a, Watch!AfterRules(pay[a])) PROVE FraudInv'
    BY <1>0, <2>1, <2>2, GoesTo, AttemptWaits
  <2>3. ASSUME check' = [check EXCEPT ![a].at = "flag", ![a].prev = 0]
        PROVE  FraudInv'
    <3>1. /\ check' \in [Attempt -> Check] /\ check'[a].at = "flag"
          /\ check'[a].seen = check[a].seen /\ check'[a].prev = 0
          /\ check'[a].fresh = check[a].fresh
          /\ \A b \in Attempt \ {a} : check'[b] = check[b]
      BY <1>0, <2>3, ZenonT(60) DEF FraudTyped, Check
    <3> QED
      BY <2>1, <3>1, AttemptWaits
  <2> QED
    BY <1>4, <2>2, <2>3 DEF Watch!FindCase
<1> QED
  BY <1>1, <1>2, <1>3, <1>4

\* An administrator, or a check, gives a row's case another status.
LEMMA CaseDecided ==
  ASSUME FraudTyped, NEW i \in DOMAIN ledger,
         NEW case \in {"OPEN", "APPROVED", "REJECTED"},
         ledger' = [ledger EXCEPT ![i].case = case]
  PROVE  /\ ledger' \in Seq(Watch!Transaction) /\ Extends(ledger, ledger')
         /\ DOMAIN ledger' = DOMAIN ledger /\ Len(ledger') = Len(ledger)
         /\ ledger'[i].case = case /\ ledger'[i].sender = ledger[i].sender
         /\ \A j \in DOMAIN ledger : j # i => ledger'[j] = ledger[j]
<1> DEFINE x == [ledger[i] EXCEPT !.case = case]
<1>1. ledger[i] \in Watch!Transaction
  BY DEF FraudTyped
<1>2. /\ x \in Watch!Transaction /\ SameRow(ledger[i], x) /\ x.case = case
  BY <1>1 DEF Watch!Transaction, SameRow
<1>3. ledger' = [ledger EXCEPT ![i] = x]
  OBVIOUS
<1> HIDE DEF x
<1>4. /\ ledger' \in Seq(Watch!Transaction) /\ DOMAIN ledger' = DOMAIN ledger
      /\ Len(ledger') = Len(ledger) /\ Len(ledger) \in Nat
      /\ ledger'[i] = x
      /\ \A j \in DOMAIN ledger : j # i => ledger'[j] = ledger[j]
  BY <1>2, <1>3 DEF FraudTyped
<1> QED
  BY <1>2, <1>4 DEF Extends, SameRow

\* The mark stays explained as long as no case is decided and no check on the
\* way to open one goes another way.
LEMMA StaysExplained ==
  ASSUME FraudInv, NEW a \in Attempt, UNCHANGED <<status, editor>>,
         check[a].at \in {"reject", "open", "lost"} =>
           check'[a].at \in {"reject", "open", "lost"},
         \A b \in Attempt \ {a} : check'[b] = check[b],
         DOMAIN ledger \subseteq DOMAIN ledger',
         \A i \in DOMAIN ledger : ledger'[i] = ledger[i]
  PROVE  Watch!FraudIsExplained'
BY DEF FraudInv, Watch!FraudIsExplained

\* The row of a refused payment, whose case is still to be opened.
LEMMA RefusedRow ==
  ASSUME FraudInv, NEW a \in Attempt, check[a].at \in {"reject", "aml"},
         UNCHANGED <<status, pay, editor, spent>>, Watch!OpensRow(a)
  PROVE  FraudInv'
<1> DEFINE x == Watch!Refused(pay[a])
<1>0. /\ FraudTyped /\ Len(ledger) \in Nat
      /\ x \in Watch!Transaction /\ x.sender = Suspect
  BY RowTyped DEF FraudInv, FraudTyped
<1>1. /\ ledger' = Append(ledger, x)
      /\ check' = [check EXCEPT ![a].at = "open", ![a].row = Len(ledger) + 1]
  BY DEF Watch!OpensRow
<1> HIDE DEF x
<1>2. /\ Extends(ledger, ledger') /\ ledger' \in Seq(Watch!Transaction)
      /\ DOMAIN ledger' = 1 .. Len(ledger) + 1
      /\ DOMAIN ledger = 1 .. Len(ledger)
      /\ \A i \in DOMAIN ledger : ledger'[i] = ledger[i]
      /\ ledger'[Len(ledger) + 1] = x
  BY <1>0, <1>1, RowAdded DEF FraudTyped
<1>3. /\ check' \in [Attempt -> Check] /\ check'[a].at = "open"
      /\ check'[a].seen = check[a].seen /\ check'[a].prev = check[a].prev
      /\ check'[a].row = Len(ledger) + 1 /\ check'[a].fresh = check[a].fresh
      /\ \A b \in Attempt \ {a} : check'[b] = check[b]
  <2> DEFINE n == Len(ledger) + 1
             y == [check[a] EXCEPT !.at = "open", !.row = n]
  <2>1. check[a] \in Check /\ n \in Nat
    BY <1>0 DEF FraudTyped
  <2>2. /\ y \in Check /\ y.at = "open" /\ y.seen = check[a].seen
        /\ y.prev = check[a].prev /\ y.row = n /\ y.fresh = check[a].fresh
    <3> HIDE DEF n
    <3> QED
      BY <2>1 DEF Check
  <2>3. check' = [check EXCEPT ![a] = y]
    BY <1>1
  <2> HIDE DEF n, y
  <2>4. /\ check' \in [Attempt -> Check] /\ check'[a] = y
        /\ \A b \in Attempt \ {a} : check'[b] = check[b]
    BY <1>0, <2>2, <2>3 DEF FraudTyped
  <2> QED
    BY <1>0, <2>2, <2>4 DEF n
<1>4. /\ DOMAIN ledger \subseteq DOMAIN ledger' /\ check'[a].row \in DOMAIN ledger'
      /\ ledger'[check'[a].row].sender = Suspect
  BY <1>0, <1>2, <1>3
<1>5. Watch!FraudIsExplained'
  BY <1>2, <1>3, <1>4, StaysExplained
<1>6. status' \in Watch!Status
      /\ (status' = "BLOCKED" => status = "BLOCKED" /\ check[a].at # "idle")
  BY <1>0 DEF FraudTyped
<1> QED
  BY <1>0, <1>2, <1>3, <1>4, <1>5, <1>6, AttemptGoesOn

\* The mark, the row of the refused payment and its case; a crash between them.
LEMMA RefusalKeeps ==
  ASSUME FraudInv, NEW a \in Attempt,
         \/ Watch!Flag(a) \/ Watch!Reject(a) \/ Watch!OpenCase(a)
         \/ Watch!Crash(a)
  PROVE  FraudInv'
<1>0. FraudTyped
  BY DEF FraudInv
<1>1. Extends(ledger, ledger)
  BY <1>0 DEF Extends, SameRow, FraudTyped
<1>2. CASE Watch!Flag(a)
  <2>1. /\ check[a].at = "flag" /\ Watch!Goes(a, "reject")
        /\ status' = "FRAUD" /\ UNCHANGED <<ledger, pay, editor, spent>>
    BY <1>2 DEF Watch!Flag, Watch!At
  <2>2. status' \in Watch!Status /\ ledger' \in Seq(Watch!Transaction)
    BY <1>0, <2>1 DEF Watch!Status, FraudTyped
  <2>3. Watch!FraudIsExplained'
    BY <1>0, <2>1, GoesTo DEF Watch!FraudIsExplained
  <2> QED
    BY <1>0, <1>1, <2>1, <2>2, <2>3, GoesTo, AttemptGoesOn
<1>3. CASE Watch!Reject(a)
  BY <1>3, RefusedRow DEF Watch!Reject, Watch!At
<1>4. CASE Watch!OpenCase(a)
  <2>1. /\ check[a].at = "open" /\ Watch!Goes(a, "over")
        /\ ledger' = [ledger EXCEPT ![check[a].row].case = "OPEN"]
        /\ UNCHANGED <<status, pay, editor, spent>>
    BY <1>4 DEF Watch!OpenCase, Watch!At
  <2>2. /\ check[a].row \in DOMAIN ledger
        /\ ledger[check[a].row].sender = Suspect
    BY <2>1 DEF FraudInv, RowsAreThere
  <2>3. /\ ledger' \in Seq(Watch!Transaction) /\ Extends(ledger, ledger')
        /\ DOMAIN ledger' = DOMAIN ledger /\ ledger'[check[a].row].case = "OPEN"
        /\ ledger'[check[a].row].sender = Suspect
    BY <1>0, <2>1, <2>2, CaseDecided
  <2>4. Watch!FraudIsExplained'
    BY <2>2, <2>3 DEF Watch!FraudIsExplained
  <2> QED
    BY <1>0, <2>1, <2>3, <2>4, GoesTo, AttemptGoesOn, ZenonT(60) DEF FraudTyped
<1>5. CASE Watch!Crash(a)
  <2>1. /\ check[a].at \in {"reject", "open"} /\ Watch!Goes(a, "lost")
        /\ UNCHANGED <<ledger, status, pay, editor, spent>>
    BY <1>5 DEF Watch!Crash
  <2>2. Watch!FraudIsExplained'
    BY <1>0, <2>1, GoesTo DEF Watch!FraudIsExplained
  <2> QED
    BY <1>0, <1>1, <2>1, <2>2, GoesTo, AttemptGoesOn DEF FraudTyped
<1> QED
  BY <1>2, <1>3, <1>4, <1>5

\* The row of a payment, made or failed, and with it the approval used up.
LEMMA RowLeft ==
  ASSUME FraudInv, NEW a \in Attempt, check[a].at \in {"pay", "late"},
         UNCHANGED <<status, pay, editor>>, NEW success \in BOOLEAN,
         Watch!Adds(a, success), NEW at \in {"over", "late", "next"},
         at = "next" => pay[a].next # None, Watch!Goes(a, at),
         \/ UNCHANGED spent
         \/ check[a].prev # 0 /\ spent' = spent \cup {Watch!Use(a)}
  PROVE  FraudInv'
<1> DEFINE x == Watch!Row(Watch!Stored(pay[a]), Watch!Out(pay[a]), success)
<1>1. FraudTyped /\ x \in Watch!Transaction /\ ledger' = Append(ledger, x)
  BY RowTyped DEF FraudInv, FraudTyped, Watch!Adds
<1> HIDE DEF x
<1>2. /\ Extends(ledger, ledger') /\ ledger' \in Seq(Watch!Transaction)
      /\ Len(ledger') = Len(ledger) + 1
      /\ DOMAIN ledger' = 1 .. Len(ledger) + 1
      /\ DOMAIN ledger = 1 .. Len(ledger) /\ Len(ledger) \in Nat
      /\ \A i \in DOMAIN ledger : ledger'[i] = ledger[i]
  BY <1>1, RowAdded DEF FraudTyped
<1>3. /\ check' \in [Attempt -> Check] /\ check'[a].at = at
      /\ check'[a].seen = check[a].seen /\ check'[a].prev = check[a].prev
      /\ check'[a].fresh = check[a].fresh
      /\ \A b \in Attempt \ {a} : check'[b] = check[b]
  BY <1>1, GoesTo
<1>4. Watch!FraudIsExplained'
  BY <1>2, <1>3, StaysExplained
<1>5. status' \in Watch!Status
      /\ (status' = "BLOCKED" => status = "BLOCKED" /\ check[a].at # "idle")
  BY <1>1 DEF FraudTyped
<1> QED
  BY <1>2, <1>3, <1>4, <1>5, AttemptGoesOn

\* The AML list, and the payment.
LEMMA PaymentKeeps ==
  ASSUME FraudInv, NEW a \in Attempt,
         Watch!CheckWallet(a) \/ Watch!Pay(a) \/ Watch!PayLate(a)
  PROVE  FraudInv'
<1>0. /\ FraudTyped /\ Watch!AfterLeg(pay[a]) \in {"over", "next"}
      /\ Watch!AfterLeg(pay[a]) = "next" => pay[a].next # None
  BY DEF FraudInv, Watch!AfterLeg
<1>1. CASE Watch!CheckWallet(a)
  <2>1. check[a].at = "aml" /\ UNCHANGED <<status, pay, editor, spent>>
    BY <1>1 DEF Watch!CheckWallet, Watch!At
  <2>2. ASSUME Watch!Goes(a, "pay"), UNCHANGED ledger PROVE FraudInv'
    BY <1>0, <2>1, <2>2, GoesTo, AttemptWaits
  <2> QED
    BY <1>1, <2>1, <2>2, RefusedRow DEF Watch!CheckWallet
<1>2. CASE Watch!Pay(a)
  <2>1. check[a].at = "pay" /\ UNCHANGED <<status, pay, editor>>
    BY <1>2 DEF Watch!Pay, Watch!At
  <2>2. ASSUME Watch!Goes(a, "over"), UNCHANGED <<ledger, spent>> PROVE FraudInv'
    BY <1>0, <2>1, <2>2, GoesTo, AttemptWaits
  <2>3. ASSUME NEW success \in Watch!Leaves(pay[a]), Watch!Adds(a, success),
               Watch!Goes(a, IF ~success THEN "over"
                             ELSE IF Watch!FailsLate(pay[a]) THEN "late"
                             ELSE Watch!AfterLeg(pay[a])),
               spent' = IF check[a].prev = 0 THEN spent
                        ELSE spent \cup {Watch!Use(a)}
        PROVE  FraudInv'
    <3>1. success \in BOOLEAN
      BY DEF Watch!Leaves
    <3>2. PICK at \in {"over", "late", "next"} :
            Watch!Goes(a, at) /\ (at = "next" => pay[a].next # None)
      BY <1>0, <2>3
    <3>3. \/ UNCHANGED spent
          \/ check[a].prev # 0 /\ spent' = spent \cup {Watch!Use(a)}
      BY <2>3
    <3> QED
      BY <2>1, <2>3, <3>1, <3>2, <3>3, RowLeft
  <2> QED
    BY <1>2, <2>2, <2>3 DEF Watch!Pay
<1>3. CASE Watch!PayLate(a)
  <2>1. check[a].at = "late" /\ UNCHANGED <<status, pay, editor, spent>>
    BY <1>3 DEF Watch!PayLate, Watch!At
  <2>2. ASSUME Watch!Goes(a, Watch!AfterLeg(pay[a])), UNCHANGED ledger
        PROVE  FraudInv'
    BY <1>0, <2>1, <2>2, GoesTo, AttemptWaits
  <2>3. ASSUME Watch!Adds(a, FALSE), Watch!Goes(a, "over") PROVE FraudInv'
    BY <2>1, <2>3, RowLeft
  <2> QED
    BY <1>3, <2>2, <2>3 DEF Watch!PayLate
<1> QED
  BY <1>1, <1>2, <1>3

\* The second leg of a conversion begins with no approval found.
LEMMA LegKeeps ==
  ASSUME FraudInv, NEW a \in Attempt, Watch!Continue(a)
  PROVE  FraudInv'
<1>0. /\ FraudTyped /\ RowsAreThere /\ check[a].at = "next"
      /\ UNCHANGED <<ledger, status, editor, spent>> /\ pay[a].next # None
      /\ Len(ledger) \in Nat /\ check[a] \in Check
  BY DEF Watch!Continue, Watch!At, FraudInv, RowsAreThere, FraudTyped
<1>1. ASSUME Watch!Goes(a, "over"), UNCHANGED pay PROVE FraudInv'
  BY <1>0, <1>1, GoesTo, AttemptWaits
<1>2. ASSUME NEW i \in Watch!Latest(pay[a]),
             pay' = [pay EXCEPT ![a] = Watch!SecondLeg(@, ledger[i].out)],
             check' = [check EXCEPT ![a] =
                         IF pay[a].next = "redeem"
                         THEN [@ EXCEPT !.at = "evaluate", !.prev = 0,
                                        !.seen = Len(ledger)]
                         ELSE Watch!Idle]
      PROVE  FraudInv'
  <2> DEFINE y == IF pay[a].next = "redeem"
                  THEN [check[a] EXCEPT !.at = "evaluate", !.prev = 0,
                                        !.seen = Len(ledger)]
                  ELSE Watch!Idle
             leg == Watch!SecondLeg(pay[a], ledger[i].out)
  <2>1. /\ y \in Check /\ y.prev = 0 /\ y.seen <= Len(ledger)
        /\ y.at \in {"evaluate", "idle"}
        /\ y.at = "evaluate" => y.fresh = check[a].fresh
    <3>1. CASE pay[a].next = "redeem"
      <4> DEFINE n == Len(ledger)
      <4>1. /\ y = [check[a] EXCEPT !.at = "evaluate", !.prev = 0, !.seen = n]
            /\ n \in Nat /\ n <= n /\ check[a] \in Check
        BY <1>0, <3>1
      <4> HIDE DEF n
      <4>2. /\ y \in Check /\ y.prev = 0 /\ y.seen <= n /\ y.at = "evaluate"
            /\ y.fresh = check[a].fresh
        <5> HIDE DEF y
        <5> QED
          BY <4>1 DEF Check
      <4> QED
        BY <4>2 DEF n
    <3>2. CASE pay[a].next # "redeem"
      BY <1>0, <3>2 DEF Check, Watch!Idle
    <3> QED
      BY <3>1, <3>2
  <2>2. leg \in Asked
    <3>1. ledger[i].out \in Int
      <4>1. i \in DOMAIN ledger
        BY <1>2 DEF Watch!Latest, Watch!Newest
      <4>2. ledger[i] \in Watch!Transaction
        BY <1>0, <4>1 DEF FraudTyped
      <4> QED
        BY <4>2 DEF Watch!Transaction
    <3>2. pay[a] \in Asked
      BY <1>0 DEF FraudTyped
    <3> QED
      BY <1>0, <3>1, <3>2 DEF Watch!SecondLeg, Asked
  <2>3. /\ check' = [check EXCEPT ![a] = y]
        /\ pay' = [pay EXCEPT ![a] = leg]
    BY <1>0, <1>2 DEF FraudTyped
  <2> HIDE DEF y, leg
  <2>4. /\ check' \in [Attempt -> Check] /\ check'[a] = y
        /\ pay' \in [Attempt -> Asked]
        /\ \A b \in Attempt \ {a} : check'[b] = check[b] /\ pay'[b] = pay[b]
    BY <1>0, <2>1, <2>2, <2>3 DEF FraudTyped
  <2>5. Extends(ledger, ledger')
    BY <1>0 DEF Extends, SameRow, FraudTyped
  <2>6. FraudTyped'
    BY <1>0, <2>4 DEF FraudTyped
  <2>7. RowsAreThere'
    BY <1>0, <2>1, <2>4 DEF RowsAreThere
  <2>8. NewestIsAsked'
    <3> SUFFICES ASSUME NEW b \in Attempt, check'[b].prev # 0,
                        NEW j \in DOMAIN ledger', j <= check'[b].seen,
                        Watch!Identical(ledger'[j], Watch!Plan(pay'[b]))
                 PROVE  j <= check'[b].prev
      BY DEF NewestIsAsked, Watch!Identical, Watch!Plan
    <3>1. b # a
      BY <2>1, <2>4
    <3> QED
      BY <1>0, <2>4, <2>5, <3>1, StaysNewest DEF FraudInv, FraudTyped
  <2>9. SpentIsPast'
    BY <1>0 DEF FraudInv, SpentIsPast, Watch!Identical
  <2>10. BlockIsNewer' /\ EditorLooked'
    <3>1. status = "BLOCKED" => ~check[a].fresh
      BY <1>0 DEF FraudInv, BlockIsNewer
    <3> QED
      BY <1>0, <2>1, <2>4, <3>1 DEF FraudInv, BlockIsNewer, EditorLooked
  <2>11. Watch!FraudIsExplained'
    BY <1>0, <2>4 DEF FraudInv, Watch!FraudIsExplained
  <2> QED
    BY <2>6, <2>7, <2>8, <2>9, <2>10, <2>11 DEF FraudInv
<1> QED
  BY <1>1, <1>2 DEF Watch!Continue

\* Decisions and edits move no attempt and compare no row differently.
LEMMA RowsUntouched ==
  ASSUME FraudInv, UNCHANGED <<pay, editor, spent>>,
         check' \in [Attempt -> Check],
         ledger' \in Seq(Watch!Transaction), Extends(ledger, ledger'),
         Len(ledger') = Len(ledger), DOMAIN ledger' = DOMAIN ledger,
         status' \in Watch!Status, Watch!FraudIsExplained',
         \A a \in Attempt :
           /\ check'[a].at = check[a].at /\ check'[a].seen = check[a].seen
           /\ check'[a].prev = check[a].prev /\ check'[a].row = check[a].row
           /\ status' = "BLOCKED" /\ check'[a].fresh => check[a].at = "idle"
  PROVE  FraudInv'
<1> USE DEF FraudInv
<1>1. FraudTyped' /\ EditorLooked'
  BY DEF FraudTyped, EditorLooked
<1>2. RowsAreThere' /\ BlockIsNewer'
  BY DEF RowsAreThere, BlockIsNewer, Extends, SameRow
<1>3. NewestIsAsked'
  <2> SUFFICES ASSUME NEW b \in Attempt, check'[b].prev # 0,
                      NEW j \in DOMAIN ledger', j <= check'[b].seen,
                      Watch!Identical(ledger'[j], Watch!Plan(pay'[b]))
               PROVE  j <= check'[b].prev
    BY DEF NewestIsAsked, Watch!Identical, Watch!Plan
  <2> QED
    BY StaysNewest
<1>4. SpentIsPast'
  BY StaysPast DEF SpentIsPast, Watch!Identical
<1> QED
  BY <1>1, <1>2, <1>3, <1>4

\* The administrators decide cases and edit the customer.
LEMMA DecisionKeeps ==
  ASSUME FraudInv, NEW i \in DOMAIN ledger,
         Watch!AdminApprove(i) \/ Watch!AdminReject(i)
  PROVE  FraudInv'
<1>0. FraudTyped /\ Watch!FraudIsExplained /\ BlockIsNewer
  BY DEF FraudInv
<1>1. PICK case \in {"APPROVED", "REJECTED"} :
        ledger' = [ledger EXCEPT ![i].case = case]
  BY DEF Watch!AdminApprove, Watch!AdminReject
<1>2. /\ ledger' \in Seq(Watch!Transaction) /\ Extends(ledger, ledger')
      /\ DOMAIN ledger' = DOMAIN ledger /\ Len(ledger') = Len(ledger)
      /\ \A j \in DOMAIN ledger : j # i => ledger'[j] = ledger[j]
  BY <1>0, <1>1, CaseDecided
<1>3. UNCHANGED <<pay, editor, spent>>
  BY DEF Watch!AdminApprove, Watch!AdminReject
<1>4. /\ check' \in [Attempt -> Check]
      /\ \A a \in Attempt :
           /\ check'[a].at = check[a].at /\ check'[a].seen = check[a].seen
           /\ check'[a].prev = check[a].prev /\ check'[a].row = check[a].row
           /\ status' = "BLOCKED" /\ check'[a].fresh => check[a].at = "idle"
      /\ status' \in Watch!Status
      /\ status' = "FRAUD" => status = "FRAUD" /\ ledger[i].sender # Suspect
  <2>1. CASE Watch!AdminApprove(i)
    <3>1. /\ UNCHANGED check
          /\ status' = IF /\ ledger[i].sender = Suspect
                          /\ status \in {"FRAUD", "BLOCKED"}
                       THEN "ACTIVE" ELSE status
      BY <2>1 DEF Watch!AdminApprove, Watch!Frees
    <3>2. check' \in [Attempt -> Check] /\ status' \in Watch!Status
      BY <1>0, <3>1 DEF FraudTyped, Watch!Status
    <3> QED
      BY <1>0, <3>1, <3>2 DEF BlockIsNewer
  <2>2. CASE Watch!AdminReject(i) /\ ledger[i].sender = Suspect
    <3>1. /\ status' = "BLOCKED"
          /\ check' = [a \in Attempt |->
                         [check[a] EXCEPT !.fresh = check[a].at = "idle"]]
      BY <2>2 DEF Watch!AdminReject, Watch!Outdated
    <3> QED
      BY <1>0, <3>1, ZenonT(60) DEF FraudTyped, Watch!Status, Check
  <2>3. CASE Watch!AdminReject(i) /\ ledger[i].sender # Suspect
    <3>1. UNCHANGED <<status, check>>
      BY <2>3 DEF Watch!AdminReject
    <3>2. check' \in [Attempt -> Check] /\ status' \in Watch!Status
      BY <1>0, <3>1 DEF FraudTyped
    <3> QED
      BY <1>0, <2>3, <3>1, <3>2 DEF BlockIsNewer
  <2> QED
    BY <2>1, <2>2, <2>3
<1>5. Watch!FraudIsExplained'
  BY <1>0, <1>2, <1>3, <1>4 DEF Watch!FraudIsExplained
<1> QED
  BY <1>2, <1>3, <1>4, <1>5, RowsUntouched

\* The editor reads the status, compares, and then writes.
LEMMA EditKeeps ==
  ASSUME FraudInv, Watch!EditRead \/ Watch!EditWrite
  PROVE  FraudInv'
<1>0. FraudTyped
  BY DEF FraudInv
<1>1. CASE Watch!EditRead
  <2>1. /\ editor.at = "idle" /\ (editor.to = status \/ editor.comment)
        /\ editor' = [editor EXCEPT !.at = "write", !.saw = status]
        /\ UNCHANGED <<ledger, status, pay, check, spent>>
    BY <1>1 DEF Watch!EditRead, Watch!MayEdit
  <2>2. /\ editor' \in [at : {"idle", "write", "over"}, to : Watch!Status,
                        comment : BOOLEAN, saw : Watch!Status \cup {None}]
        /\ editor'.to = editor.to /\ editor'.comment = editor.comment
        /\ editor'.saw = status /\ editor.at # "over"
    BY <1>0, <2>1 DEF FraudTyped
  <2>3. FraudTyped' /\ EditorLooked'
    BY <1>0, <2>1, <2>2 DEF FraudTyped, EditorLooked
  <2>4. RowsAreThere' /\ BlockIsNewer'
    BY <2>1 DEF FraudInv, RowsAreThere, BlockIsNewer
  <2>5. NewestIsAsked' /\ SpentIsPast'
    BY <2>1 DEF FraudInv, NewestIsAsked, SpentIsPast, Watch!Identical, Watch!Plan
  <2>6. Watch!FraudIsExplained'
    BY <2>1, <2>2 DEF FraudInv, Watch!FraudIsExplained
  <2> QED
    BY <2>3, <2>4, <2>5, <2>6 DEF FraudInv
<1>2. CASE Watch!EditWrite
  <2>1. /\ editor' = [editor EXCEPT !.at = "over"] /\ status' = editor.to
        /\ check' = IF editor.to # "BLOCKED" THEN check
                    ELSE [a \in Attempt |-> [check[a] EXCEPT
                                               !.fresh = check[a].at = "idle"]]
        /\ UNCHANGED <<ledger, pay, spent>>
    BY <1>2 DEF Watch!EditWrite, Watch!Outdated
  <2>2. /\ editor' \in [at : {"idle", "write", "over"}, to : Watch!Status,
                        comment : BOOLEAN, saw : Watch!Status \cup {None}]
        /\ editor'.at = "over" /\ editor'.to = editor.to
        /\ status' \in Watch!Status
    BY <1>0, <2>1 DEF FraudTyped
  <2>3. /\ check' \in [Attempt -> Check]
        /\ \A a \in Attempt :
             /\ check'[a].at = check[a].at /\ check'[a].seen = check[a].seen
             /\ check'[a].prev = check[a].prev /\ check'[a].row = check[a].row
             /\ status' = "BLOCKED" /\ check'[a].fresh => check[a].at = "idle"
    BY <1>0, <2>1, ZenonT(60) DEF FraudTyped, Check
  <2>4. FraudTyped' /\ EditorLooked'
    BY <1>0, <2>1, <2>2, <2>3 DEF FraudTyped, EditorLooked
  <2>5. RowsAreThere' /\ BlockIsNewer'
    BY <2>1, <2>3 DEF FraudInv, RowsAreThere, BlockIsNewer
  <2>6. NewestIsAsked' /\ SpentIsPast'
    BY <2>1, <2>3
    DEF FraudInv, NewestIsAsked, SpentIsPast, Watch!Identical, Watch!Plan
  <2>7. Watch!FraudIsExplained'
    BY <2>1, <2>2 DEF Watch!FraudIsExplained
  <2> QED
    BY <2>4, <2>5, <2>6, <2>7 DEF FraudInv
<1> QED
  BY <1>1, <1>2

LEMMA NextFraud == FraudInv /\ [Watch!Next]_watchVars => FraudInv'
<1> SUFFICES ASSUME FraudInv, [Watch!Next]_watchVars PROVE FraudInv'
  OBVIOUS
<1>1. ASSUME NEW a \in Attempt,
             \/ Watch!Begin(a) \/ Watch!Evaluate(a) \/ Watch!Compare(a)
             \/ Watch!FindCase(a) \/ Watch!Flag(a) \/ Watch!Reject(a)
             \/ Watch!OpenCase(a) \/ Watch!CheckWallet(a) \/ Watch!Pay(a)
             \/ Watch!PayLate(a) \/ Watch!Continue(a) \/ Watch!Crash(a)
      PROVE  FraudInv'
  BY <1>1, CheckKeeps, RefusalKeeps, PaymentKeeps, LegKeeps
<1>2. ASSUME NEW i \in DOMAIN ledger,
             Watch!AdminApprove(i) \/ Watch!AdminReject(i)
      PROVE  FraudInv'
  BY <1>2, DecisionKeeps
<1>3. CASE Watch!EditRead \/ Watch!EditWrite
  BY <1>3, EditKeeps
<1>4. ASSUME UNCHANGED <<ledger, status, pay, check, editor, spent>>
      PROVE  FraudInv'
  BY <1>4 DEF FraudInv, FraudTyped, RowsAreThere, NewestIsAsked, SpentIsPast,
     BlockIsNewer, EditorLooked, Watch!FraudIsExplained, Watch!Identical,
     Watch!Plan
<1>5. ASSUME NEW rule, Watch!UpdateRule(rule) PROVE FraudInv'
  BY <1>4, <1>5 DEF Watch!UpdateRule
<1>6. CASE Watch!UpdateAml
  BY <1>4, <1>6 DEF Watch!UpdateAml
<1>7. CASE UNCHANGED watchVars
  BY <1>4, <1>7 DEF watchVars
<1> QED
  BY <1>1, <1>2, <1>3, <1>5, <1>6, <1>7 DEF Watch!Next

LEMMA FraudInFocus == Spec => [](focus = "antifraud" => FraudInv)
<1> DEFINE I == focus = "antifraud" => FraudInv
<1>1. Init => I
  BY InitFraud DEF Init
<1>2. I /\ [Next]_vars => I'
  BY StepInFocus, NextFraud DEF watchVars
<1> QED
  BY <1>1, <1>2, PTL DEF Spec

\* However checks, payments, decisions and edits overlap, a customer marked
\* FRAUD has a case to decide, a check on the way to open one or a reason of an
\* administrator's, and an approval lets no second payment through that begins
\* after the first one left its row, be it the row of a failure
\* (checkTransactionDetailed, hasApprovedIdentical, adminApprove).
THEOREM CasesStayAccounted == Spec => []CasesAccounted
<1>1. FraudInv => Watch!ApprovalIsSpent
  <2> SUFFICES ASSUME FraudInv, NEW one \in spent, NEW other \in spent,
                      one.via = other.via, other.since >= one.stored,
                      Watch!Identical(ledger[one.stored], other.plan)
               PROVE  FALSE
    BY DEF Watch!ApprovalIsSpent
  <2>1. /\ one.via \in Nat /\ one.stored \in Nat /\ other.since \in Nat
        /\ Len(ledger) \in Nat /\ DOMAIN ledger = 1 .. Len(ledger)
    BY DEF FraudInv, FraudTyped, Used
  <2>2. one.via < one.stored /\ one.stored \in DOMAIN ledger
    BY <2>1 DEF FraudInv, SpentIsPast
  <2>3. one.stored <= other.via
    BY <2>1, <2>2 DEF FraudInv, SpentIsPast
  <2> QED
    BY <2>1, <2>2, <2>3
<1>2. (focus = "antifraud" => FraudInv) => CasesAccounted
  BY <1>1 DEF CasesAccounted, FraudInv
<1> QED
  BY <1>2, FraudInFocus, PTL

\* A block is lifted by an administrator, who edits the customer or approves a
\* case of his, or by a check that was begun before it, and no edit without a
\* comment changes the status it saw (transfer, convert, adminApprove,
\* user-management.update).
THEOREM TheStatusMovesForCause == Spec => StatusMovesForCause
<1> DEFINE I == focus = "antifraud" => FraudInv
           Quiet == \/ \E a \in Attempt :
                         \/ Watch!Begin(a) \/ Watch!Evaluate(a)
                         \/ Watch!Compare(a) \/ Watch!FindCase(a)
                         \/ Watch!Reject(a) \/ Watch!OpenCase(a)
                         \/ Watch!CheckWallet(a) \/ Watch!Pay(a)
                         \/ Watch!PayLate(a) \/ Watch!Continue(a)
                         \/ Watch!Crash(a)
                    \/ \E rule : Watch!UpdateRule(rule)
                    \/ Watch!UpdateAml \/ Watch!EditRead \/ UNCHANGED watchVars
<1>0. ASSUME [Watch!Next]_watchVars
      PROVE  \/ Quiet \/ \E a \in Attempt : Watch!Flag(a)
             \/ \E i \in DOMAIN ledger :
                  Watch!AdminApprove(i) \/ Watch!AdminReject(i)
             \/ Watch!EditWrite
  BY <1>0 DEF Watch!Next
<1>1. Quiet => UNCHANGED status
  BY DEF watchVars, Watch!Begin, Watch!Evaluate, Watch!Compare, Watch!FindCase,
     Watch!Reject, Watch!OpenCase, Watch!CheckWallet, Watch!Pay, Watch!PayLate,
     Watch!Continue, Watch!Crash, Watch!UpdateRule, Watch!UpdateAml,
     Watch!EditRead
<1> HIDE DEF Quiet
<1>2. ASSUME FraudInv, [Watch!Next]_watchVars, status = "BLOCKED",
             status' # "BLOCKED"
      PROVE  \/ editor' # editor
             \/ /\ UNCHANGED check
                /\ \E i \in DOMAIN ledger : /\ ledger[i].sender = Suspect
                                            /\ ledger'[i].case = "APPROVED"
             \/ \E a \in Attempt : /\ check[a].at = "flag"
                                   /\ check'[a].at = "reject"
                                   /\ ~check[a].fresh
  <2>1. ASSUME NEW a \in Attempt, Watch!Flag(a)
        PROVE  /\ check[a].at = "flag" /\ check'[a].at = "reject"
               /\ ~check[a].fresh
    BY <1>2, <2>1, GoesTo
    DEF Watch!Flag, Watch!At, FraudInv, BlockIsNewer
  <2>2. ASSUME NEW i \in DOMAIN ledger, Watch!AdminApprove(i)
        PROVE  /\ UNCHANGED check /\ ledger[i].sender = Suspect
               /\ ledger'[i].case = "APPROVED"
    <3>1. /\ UNCHANGED check /\ ledger[i].sender = Suspect
          /\ ledger' = [ledger EXCEPT ![i].case = "APPROVED"]
      BY <1>2, <2>2 DEF Watch!AdminApprove
    <3> QED
      BY <1>2, <3>1, CaseDecided DEF FraudInv
  <2>3. ASSUME NEW i \in DOMAIN ledger, Watch!AdminReject(i) PROVE FALSE
    BY <1>2, <2>3 DEF Watch!AdminReject
  <2>4. ASSUME Watch!EditWrite PROVE editor' # editor
    BY <1>2, <2>4 DEF Watch!EditWrite, FraudInv, FraudTyped
  <2> QED
    BY <1>0, <1>1, <1>2, <2>1, <2>2, <2>3, <2>4
<1>3. ASSUME FraudInv, [Watch!Next]_watchVars, editor' # editor,
             status' # status, ~editor.comment
      PROVE  status # editor.saw
  <2>1. Watch!EditWrite
    BY <1>0, <1>1, <1>3 DEF Watch!Flag, Watch!AdminApprove, Watch!AdminReject
  <2> QED
    BY <1>3, <2>1 DEF Watch!EditWrite, FraudInv, EditorLooked
<1>4. I /\ [Next]_vars =>
        [focus = "antifraud" => Watch!BlockLifted /\ Watch!SilentChange]_vars
  <2> SUFFICES ASSUME I, [Next]_vars, focus = "antifraud"
               PROVE  Watch!BlockLifted /\ Watch!SilentChange
    OBVIOUS
  <2>1. FraudInv /\ [Watch!Next]_watchVars
    BY StepInFocus
  <2> QED
    BY <1>2, <1>3, <2>1 DEF Watch!BlockLifted, Watch!SilentChange
<1> QED
  BY <1>4, FraudInFocus, PTL DEF Spec, StatusMovesForCause

-----------------------------------------------------------------------------
(* Books                                                                   *)

Posting == [asset : Ledger!Asset, debit : Ledger!Account,
            credit : Ledger!Account, amount : Int]

BooksTyped ==
  /\ accounts \in [Ledger!Asset \X Ledger!Account -> Int]
  /\ agreement \in Agreements
  /\ tally \in [made : Nat, whole : BOOLEAN, fees : [Ledger!Asset -> Int],
                moved : [Ledger!Causes -> Int]]

\* What the two services say of one fee holds in every state: it is not a matter
\* of what was posted, only of an agreement that leaves nobody out.
BooksInv ==
  BooksTyped /\ Ledger!TransitExplained /\ Ledger!LiabilityExplained

\* What the i-th posting of es adds to account x, if there is one.
Gain(es, x, i) == IF i \in DOMAIN es THEN Ledger!Effect(es[i], x) ELSE 0

\* What up to three shares of a fee move to or from an asset's transit account.
Moved(S, asset) == Gain(S, <<asset, "transit">>, 1)
                     + Gain(S, <<asset, "transit">>, 2)
                     + Gain(S, <<asset, "transit">>, 3)

LEMMA EffectTyped ==
  ASSUME NEW e \in Posting, NEW x
  PROVE  /\ Ledger!Effect(e, x) \in Int
         /\ x = <<e.asset, e.credit>> /\ x # <<e.asset, e.debit>> =>
              Ledger!Effect(e, x) = e.amount
         /\ x # <<e.asset, e.credit>> /\ x = <<e.asset, e.debit>> =>
              Ledger!Effect(e, x) = 0 - e.amount
         /\ x # <<e.asset, e.credit>> /\ x # <<e.asset, e.debit>> =>
              Ledger!Effect(e, x) = 0
BY DEF Posting, Ledger!Effect

\* The sum is that of Sums.tla.
LEMMA SameSum ==
  ASSUME NEW w
  PROVE  Ledger!SumFunction(w) = SumFunctionOnSet(w, DOMAIN w)
BY DEF Ledger!SumFunction, Ledger!SumFunctionOnSet, Ledger!FoldFunctionOnSet,
   Ledger!MapThenFoldSet, SumFunctionOnSet, FoldFunctionOnSet, MapThenFoldSet

\* Postings add up, six of them at most.
LEMMA Booked ==
  ASSUME BooksTyped, NEW es \in Seq(Posting), Len(es) <= 6
  PROVE  /\ Ledger!After(es) \in [Ledger!Asset \X Ledger!Account -> Int]
         /\ \A x \in Ledger!Asset \X Ledger!Account :
              /\ \A i \in 1 .. 6 : Gain(es, x, i) \in Int
              /\ Ledger!After(es)[x]
                   = accounts[x] + (Gain(es, x, 1) + Gain(es, x, 2) + Gain(es, x, 3)
                       + Gain(es, x, 4) + Gain(es, x, 5) + Gain(es, x, 6))
<1> DEFINE n == Len(es)
           Gains(x) == [i \in 1 .. n |-> Ledger!Effect(es[i], x)]
           Written(x) == Gain(es, x, 1) + Gain(es, x, 2) + Gain(es, x, 3)
                           + Gain(es, x, 4) + Gain(es, x, 5) + Gain(es, x, 6)
<1>1. n \in 0 .. 6 /\ DOMAIN es = 1 .. n /\ \A i \in 1 .. n : es[i] \in Posting
  <2>1. n \in Nat /\ DOMAIN es = 1 .. n
    OBVIOUS
  <2>2. \A i \in 1 .. n : es[i] \in Posting
    OBVIOUS
  <2> QED
    BY <2>1, <2>2
<1>2. ASSUME NEW x
      PROVE  /\ \A i \in 1 .. n : Gains(x)[i] \in Int
             /\ \A i \in 1 .. 6 : /\ Gain(es, x, i) \in Int
                                  /\ Term(Gains(x), n, i) = Gain(es, x, i)
             /\ DOMAIN Gains(x) = 1 .. n
  BY <1>1, EffectTyped DEF Gain, Term
<1>3. ASSUME NEW x
      PROVE  Ledger!SumFunction(Gains(x)) = Written(x) /\ Written(x) \in Int
  <2> DEFINE w == Gains(x)
  <2>1. /\ \A i \in 1 .. n : w[i] \in Int
        /\ \A i \in 1 .. 6 : Term(w, n, i) = Gain(es, x, i)
        /\ DOMAIN w = 1 .. n
    BY <1>2
  <2> HIDE DEF w, n
  <2>2. SumFunctionOnSet(w, 1 .. n)
           = Term(w, n, 1) + Term(w, n, 2) + Term(w, n, 3)
               + Term(w, n, 4) + Term(w, n, 5) + Term(w, n, 6)
    BY <1>1, <2>1, SumOfSix
  <2>3. SumFunctionOnSet(w, 1 .. n) = Written(x)
    BY <2>1, <2>2
  <2>4. Ledger!SumFunction(w) = SumFunctionOnSet(w, 1 .. n)
    BY <2>1, SameSum
  <2> QED
    BY <1>2, <2>3, <2>4 DEF w
<1>4. Ledger!After(es) = [x \in Ledger!Asset \X Ledger!Account |->
                            accounts[x] + Ledger!SumFunction(Gains(x))]
  BY <1>1 DEF Ledger!After
<1> HIDE DEF Gains, Written
<1>5. Ledger!After(es) = [x \in Ledger!Asset \X Ledger!Account |->
                            accounts[x] + Written(x)]
  BY <1>3, <1>4
<1>6. \A x \in Ledger!Asset \X Ledger!Account : accounts[x] \in Int
  BY DEF BooksTyped
<1>7. /\ Ledger!After(es) \in [Ledger!Asset \X Ledger!Account -> Int]
      /\ \A x \in Ledger!Asset \X Ledger!Account :
           Ledger!After(es)[x] = accounts[x] + Written(x)
  BY <1>3, <1>5, <1>6
<1> QED
  BY <1>2, <1>7 DEF Written

\* Three postings and then up to three shares.
LEMMA Appended ==
  ASSUME NEW P \in Seq(Posting), Len(P) = 3, NEW S \in Seq(Posting), Len(S) <= 3
  PROVE  /\ P \o S \in Seq(Posting) /\ Len(P \o S) <= 6
         /\ \A x : /\ \A i \in 1 .. 3 : Gain(P \o S, x, i) = Ledger!Effect(P[i], x)
                   /\ Gain(P \o S, x, 4) = Gain(S, x, 1)
                   /\ Gain(P \o S, x, 5) = Gain(S, x, 2)
                   /\ Gain(P \o S, x, 6) = Gain(S, x, 3)
<1>1. /\ P \o S \in Seq(Posting) /\ Len(P \o S) = 3 + Len(S) /\ Len(S) \in Nat
      /\ DOMAIN S = 1 .. Len(S) /\ DOMAIN (P \o S) = 1 .. 3 + Len(S)
      /\ \A i \in 1 .. 3 : (P \o S)[i] = P[i]
      /\ \A i \in 1 .. Len(S) : (P \o S)[i + 3] = S[i]
  <2>1. /\ P \o S \in Seq(Posting) /\ Len(P \o S) = Len(P) + Len(S)
        /\ Len(S) \in Nat /\ DOMAIN S = 1 .. Len(S)
    BY ConcatProperties, LenProperties
  <2>2. DOMAIN (P \o S) = 1 .. 3 + Len(S)
    BY <2>1
  <2>3. \A i \in 1 .. Len(P) + Len(S) :
          (P \o S)[i] = IF i <= Len(P) THEN P[i] ELSE S[i - Len(P)]
    BY <2>1
  <2>4. \A i \in 1 .. Len(S) : i + 3 \in 1 .. 3 + Len(S) /\ (i + 3) - 3 = i
    BY <2>1
  <2> QED
    BY <2>1, <2>2, <2>3, <2>4
<1>2. ASSUME NEW x, NEW i \in 1 .. 3
      PROVE  /\ Gain(P \o S, x, i) = Ledger!Effect(P[i], x)
             /\ Gain(P \o S, x, i + 3) = Gain(S, x, i)
  BY <1>1 DEF Gain
<1>3. ASSUME NEW x
      PROVE  /\ Gain(P \o S, x, 4) = Gain(S, x, 1)
             /\ Gain(P \o S, x, 5) = Gain(S, x, 2)
             /\ Gain(P \o S, x, 6) = Gain(S, x, 3)
  <2>1. /\ Gain(P \o S, x, 1 + 3) = Gain(S, x, 1)
        /\ Gain(P \o S, x, 2 + 3) = Gain(S, x, 2)
        /\ Gain(P \o S, x, 3 + 3) = Gain(S, x, 3)
    BY <1>2
  <2> QED
    BY <2>1
<1> QED
  BY <1>1, <1>2, <1>3


-----------------------------------------------------------------------------
\* Percents are those of a hundred, and fees and shares natural numbers.
LEMMA AgreementTyped ==
  ASSUME agreement \in Agreements
  PROVE  /\ Ledger!IsAgreement(agreement)
         /\ Ledger!Percents["central"] \in 0 .. 100
         /\ Ledger!Percents["bank"] \in 0 .. 100
         /\ Ledger!Percents["partners"] \in 0 .. 100
<1>1. Ledger!IsAgreement(agreement)
  BY AgreementsAssumption
<1>2. \A p \in Ledger!Party : agreement.percent[p] \in Int
  BY <1>1 DEF Ledger!IsAgreement
<1>3. \A v \in Int : Ledger!Clamp(v) \in 0 .. 100
  BY DEF Ledger!Clamp, Ledger!Larger
<1>4. \A p \in Ledger!Party : Ledger!Percents[p] = Ledger!Clamp(agreement.percent[p])
  BY DEF Ledger!Percents, Ledger!PercentsOf
<1>5. {"central", "bank", "partners"} \subseteq Ledger!Party
  BY DEF Ledger!Party
<1> QED
  BY <1>1, <1>2, <1>3, <1>4, <1>5

LEMMA FeesTyped ==
  ASSUME agreement \in Agreements, NEW amount \in Amounts
  PROVE  /\ amount \in Nat
         /\ Ledger!TariffFee(amount) \in Nat /\ Ledger!TreasuryFee(amount) \in Nat
<1>1. amount \in Nat
  BY AgreementsAssumption
<1>2. agreement.tariff.percent \in Nat /\ agreement.tariff.fixed \in Nat
  BY AgreementTyped DEF Ledger!IsAgreement
<1>3. amount * agreement.tariff.percent \in Nat
  BY <1>1, <1>2, ProductsAreNat
<1>4. (amount * agreement.tariff.percent) \div 100 \in Nat
  BY <1>3, QuotientsAreNat
<1> QED
  BY <1>1, <1>2, <1>4 DEF Ledger!TariffFee, Ledger!TariffFeeOf, Ledger!TreasuryFee,
     Ledger!TreasuryFeeOf, Ledger!PercentFee, Ledger!Larger

LEMMA SplitTyped ==
  ASSUME agreement \in Agreements, NEW fee \in Nat
  PROVE  \A p \in Ledger!Party : Ledger!Split(fee)[p] \in Nat
<1> SUFFICES ASSUME NEW p \in Ledger!Party PROVE Ledger!Split(fee)[p] \in Nat
  OBVIOUS
<1>1. /\ Ledger!Percents[p] \in Nat /\ Ledger!TotalPercent \in Nat
      /\ agreement.fixed[p] \in Int
  <2>1. Ledger!TotalPercent \in Nat
    <3>1. /\ Ledger!Percents["central"] \in Nat /\ Ledger!Percents["bank"] \in Nat
          /\ Ledger!Percents["partners"] \in Nat
      BY AgreementTyped
    <3> QED
      BY <3>1 DEF Ledger!TotalPercent, Ledger!Total
  <2>2. Ledger!Percents[p] \in Nat
    BY AgreementTyped DEF Ledger!Party
  <2>3. agreement.fixed[p] \in Int
    BY AgreementTyped DEF Ledger!IsAgreement
  <2> QED
    BY <2>1, <2>2, <2>3
<1>2. fee * Ledger!Percents[p] \in Nat
  BY <1>1, ProductsAreNat
<1>3. (fee * Ledger!Percents[p]) \div 100 \in Nat
  BY <1>2, QuotientsAreNat
<1>4. Ledger!TotalPercent # 0 =>
        (fee * Ledger!Percents[p]) \div Ledger!TotalPercent \in Nat
  BY <1>1, <1>2, QuotientsAreNat
<1>5. Ledger!Larger(agreement.fixed[p], 0) \in Nat
  BY <1>1 DEF Ledger!Larger
<1> QED
  BY <1>3, <1>4, <1>5 DEF Ledger!Split

\* Divided without remainder, the parts of a product are the other factor.
LEMMA PartsOfProduct ==
  ASSUME NEW t \in Nat \ {0}, NEW f \in Nat, NEW a \in Nat, NEW b \in Nat,
         NEW c \in Nat, a % t = 0, b % t = 0, c % t = 0, a + b + c = f * t
  PROVE  (a \div t) + (b \div t) + (c \div t) = f
<1> DEFINE x == a \div t
           y == b \div t
           z == c \div t
<1>1. x \in Nat /\ y \in Nat /\ z \in Nat
  BY QuotientsAreNat
<1>2. a = t * x /\ b = t * y /\ c = t * z
  OBVIOUS
<1> HIDE DEF x, y, z
<1>3. t * (x + y + z) = t * f
  <2>1. t * (x + y + z) = t * x + t * y + t * z
    BY <1>1
  <2> QED
    BY <1>2, <2>1
<1>4. x + y + z = f
  <2>1. ASSUME NEW m \in Nat, NEW n \in Nat, m < n PROVE t * m < t * n
    <3>1. PICK d \in Nat : n = m + 1 + d
      <4>1. n - m - 1 \in Nat /\ n = m + 1 + (n - m - 1)
        BY <2>1
      <4> QED
        BY <4>1
    <3>2. t * n = t * m + t + t * d
      BY <3>1
    <3>3. t * d \in Nat /\ t * m \in Nat
      BY ProductsAreNat
    <3> QED
      BY <3>2, <3>3
  <2>2. x + y + z \in Nat /\ t * f \in Nat /\ t * (x + y + z) \in Nat
    BY <1>1, ProductsAreNat
  <2> QED
    BY <1>3, <2>1, <2>2
<1> QED
  BY <1>4 DEF x, y, z

\* A fee that is shared out completely is the sum of its shares.
LEMMA SharesOfWhole ==
  ASSUME agreement \in Agreements, Ledger!Whole, NEW amount \in Amounts,
         NEW fee \in {Ledger!TariffFee(amount), Ledger!TreasuryFee(amount)}
  PROVE  Ledger!Split(fee)["central"] + Ledger!Split(fee)["bank"]
           + Ledger!Split(fee)["partners"] = fee
<1> DEFINE pc == Ledger!Percents
           t == Ledger!TotalPercent
<1>1. /\ pc["central"] \in Nat /\ pc["bank"] \in Nat /\ pc["partners"] \in Nat
      /\ t = pc["central"] + pc["bank"] + pc["partners"] /\ fee \in Nat
  BY AgreementTyped, FeesTyped DEF Ledger!TotalPercent, Ledger!Total
<1>2. ~Ledger!Fixed /\ (t = 100 \/ (pc["central"] = 0 /\ t > 0))
  BY DEF Ledger!Whole, Ledger!WholeIn, Ledger!Fixed, Ledger!Percents,
     Ledger!TotalPercent
<1>3. \A p \in Ledger!Party : (fee * pc[p]) % 100 = 0 /\ (fee * pc[p]) % t = 0
  <2>1. Ledger!IsExact(agreement, amount)
    BY AgreementsAssumption
  <2> QED
    BY <2>1 DEF Ledger!IsExact, Ledger!Whole, Ledger!TariffFee, Ledger!TreasuryFee,
       Ledger!Percents, Ledger!TotalPercent
<1>4. /\ Ledger!Split(fee)["central"] = (fee * pc["central"]) \div 100
      /\ Ledger!Split(fee)["bank"] = (fee * pc["bank"]) \div t
      /\ Ledger!Split(fee)["partners"] = (fee * pc["partners"]) \div t
  BY <1>1, <1>2 DEF Ledger!Split, Ledger!Party
<1> DEFINE a == fee * pc["central"]
           b == fee * pc["bank"]
           c == fee * pc["partners"]
<1>5. /\ a \in Nat /\ b \in Nat /\ c \in Nat
      /\ a % t = 0 /\ b % t = 0 /\ c % t = 0
  BY <1>1, <1>3, ProductsAreNat DEF Ledger!Party
<1>6. a + b + c = fee * t
  BY <1>1
<1>7. a \div 100 = a \div t
  <2>1. CASE t = 100
    BY <2>1
  <2>2. CASE pc["central"] = 0 /\ t > 0
    <3>1. a = 0
      BY <1>1, <2>2
    <3>2. t \in Nat \ {0}
      BY <1>1, <2>2
    <3>3. 0 \div 100 = 0 /\ 0 \div t = 0
      BY <3>2
    <3> QED
      BY <3>1, <3>3
  <2> QED
    BY <1>2, <2>1, <2>2
<1>8. t \in Nat \ {0}
  BY <1>1, <1>2
<1>9. (a \div t) + (b \div t) + (c \div t) = fee
  <2>1. fee \in Nat
    BY <1>1
  <2> HIDE DEF a, b, c, t
  <2>2. \A v \in Nat \ {0}, f, k, l, m \in Nat :
          k % v = 0 /\ l % v = 0 /\ m % v = 0 /\ k + l + m = f * v
            => (k \div v) + (l \div v) + (m \div v) = f
    BY PartsOfProduct
  <2> QED
    BY <2>1, <2>2, <1>5, <1>6, <1>8
<1> QED
  BY <1>4, <1>7, <1>9

-----------------------------------------------------------------------------
\* Shares are debited to transit and credited to a party.
IsShares(S, asset) ==
  /\ S \in Seq(Posting) /\ Len(S) <= 3
  /\ \A i \in DOMAIN S : /\ S[i].asset = asset /\ S[i].debit = "transit"
                         /\ S[i].credit \in Ledger!Party

LEMMA ShareTyped ==
  ASSUME NEW asset \in Ledger!Asset, NEW p \in Ledger!Party, NEW amount \in Int
  PROVE  /\ Ledger!Share(asset, p, amount) \in Posting
         /\ Ledger!Share(asset, p, amount).asset = asset
         /\ Ledger!Share(asset, p, amount).debit = "transit"
         /\ Ledger!Share(asset, p, amount).credit = p
         /\ Ledger!Share(asset, p, amount).amount = amount
BY DEF Ledger!Share, Ledger!Entry, Posting, Ledger!Account

LEMMA TuplesAppended ==
  /\ \A a, b : <<a>> \o <<b>> = <<a, b>>
  /\ \A a, b, c : <<a, b>> \o <<c>> = <<a, b, c>>
<1>1. ASSUME NEW a, NEW b PROVE <<a>> \o <<b>> = <<a, b>>
  <2> DEFINE T == {a, b}
  <2>1. <<a>> \in Seq(T) /\ <<b>> \in Seq(T) /\ <<a, b>> \in Seq(T)
    OBVIOUS
  <2>2. /\ <<a>> \o <<b>> \in Seq(T) /\ Len(<<a>> \o <<b>>) = 2
        /\ \A i \in 1 .. 2 : (<<a>> \o <<b>>)[i] = <<a, b>>[i]
    BY <2>1, ConcatProperties
  <2> QED
    BY <2>1, <2>2, SeqEqual
<1>2. ASSUME NEW a, NEW b, NEW c PROVE <<a, b>> \o <<c>> = <<a, b, c>>
  <2> DEFINE T == {a, b, c}
  <2>1. <<a, b>> \in Seq(T) /\ <<c>> \in Seq(T) /\ <<a, b, c>> \in Seq(T)
    OBVIOUS
  <2>2. /\ <<a, b>> \o <<c>> \in Seq(T) /\ Len(<<a, b>> \o <<c>>) = 3
        /\ \A i \in 1 .. 3 : (<<a, b>> \o <<c>>)[i] = <<a, b, c>>[i]
    BY <2>1, ConcatProperties
  <2> QED
    BY <2>1, <2>2, SeqEqual
<1> QED
  BY <1>1, <1>2

LEMMA PaymentSharesTyped ==
  ASSUME agreement \in Agreements, NEW asset \in Ledger!Asset, NEW fee \in Nat
  PROVE  IsShares(Ledger!PaymentShares(asset, fee), asset)
<1> DEFINE targets == Ledger!Only("central") \o Ledger!Only("bank")
           part == <<"central", "bank">>
           share(i) == Ledger!Share(asset, targets[i],
                         IF fee > 0 THEN Ledger!Split(fee)[part[i]] ELSE 0)
           first == [i \in 1 .. Len(targets) |-> share(i)]
           last == IF Ledger!Named(Ledger!StandIn) /\ fee > 0
                   THEN <<Ledger!Share(asset, Ledger!StandIn,
                                       Ledger!Split(fee)["partners"])>>
                   ELSE <<>>
<1>1. /\ targets \in Seq(Ledger!Party) /\ Len(targets) \in 0 .. 2
      /\ \A i \in 1 .. Len(targets) : targets[i] \in Ledger!Party
  <2>1. /\ Ledger!Only("central") \in {<<>>, <<"central">>}
        /\ Ledger!Only("bank") \in {<<>>, <<"bank">>}
    BY DEF Ledger!Only
  <2>2. targets \in {<<>>, <<"central">>, <<"bank">>, <<"central", "bank">>}
    <3>1. <<>> \o <<>> = <<>> /\ \A e : <<>> \o <<e>> = <<e>> /\ <<e>> \o <<>> = <<e>>
      OBVIOUS
    <3> QED
      BY <2>1, <3>1, TuplesAppended
  <2> HIDE DEF targets
  <2>3. targets \in Seq(Ledger!Party) /\ Len(targets) \in 0 .. 2
    <3>1. /\ <<>> \in Seq(Ledger!Party) /\ Len(<<>>) = 0
          /\ \A p, q \in Ledger!Party :
               /\ <<p>> \in Seq(Ledger!Party) /\ Len(<<p>>) = 1
               /\ <<p, q>> \in Seq(Ledger!Party) /\ Len(<<p, q>>) = 2
      OBVIOUS
    <3>2. "central" \in Ledger!Party /\ "bank" \in Ledger!Party
      BY DEF Ledger!Party
    <3>3. CASE targets = <<>>
      BY <3>1, <3>3
    <3>4. CASE targets = <<"central">>
      BY <3>1, <3>2, <3>4
    <3>5. CASE targets = <<"bank">>
      BY <3>1, <3>2, <3>5
    <3>6. CASE targets = <<"central", "bank">>
      BY <3>1, <3>2, <3>6
    <3> QED
      BY <2>2, <3>3, <3>4, <3>5, <3>6
  <2> QED
    BY <2>3, ElementOfSeq
<1>2. /\ Ledger!Split(fee)["central"] \in Int /\ Ledger!Split(fee)["bank"] \in Int
      /\ Ledger!Split(fee)["partners"] \in Int
  BY SplitTyped DEF Ledger!Party
<1>3. \A i \in 1 .. 2 : (IF fee > 0 THEN Ledger!Split(fee)[part[i]] ELSE 0) \in Int
  BY <1>2
<1>4. ASSUME NEW i \in 1 .. Len(targets)
      PROVE  /\ share(i) \in Posting /\ share(i).asset = asset
             /\ share(i).debit = "transit" /\ share(i).credit \in Ledger!Party
  <2>1. targets[i] \in Ledger!Party /\ i \in 1 .. 2
    BY <1>1
  <2> HIDE DEF targets
  <2> QED
    BY <1>3, <2>1, ShareTyped
<1> HIDE DEF share
<1>5. /\ first \in Seq(Posting) /\ Len(first) <= 2 /\ Len(first) \in Nat
      /\ \A i \in 1 .. Len(first) : /\ first[i].asset = asset
                                    /\ first[i].debit = "transit"
                                    /\ first[i].credit \in Ledger!Party
  <2> HIDE DEF targets
  <2> QED
    BY <1>1, <1>4
<1>6. /\ last \in Seq(Posting) /\ Len(last) <= 1 /\ Len(last) \in Nat
      /\ \A i \in 1 .. Len(last) : /\ last[i].asset = asset
                                   /\ last[i].debit = "transit"
                                   /\ last[i].credit \in Ledger!Party
  <2>1. Ledger!StandIn \in Ledger!Party
    BY DEF Ledger!StandIn, Ledger!Party
  <2> DEFINE e == Ledger!Share(asset, Ledger!StandIn, Ledger!Split(fee)["partners"])
  <2>2. /\ e \in Posting /\ e.asset = asset /\ e.debit = "transit"
        /\ e.credit \in Ledger!Party
    BY <1>2, <2>1, ShareTyped
  <2>3. last \in {<<>>, <<e>>}
    OBVIOUS
  <2> HIDE DEF e, last
  <2>4. CASE last = <<>>
    BY <2>4
  <2>5. CASE last = <<e>>
    <3>1. last \in Seq(Posting) /\ Len(last) = 1
      BY <2>2, <2>5
    <3>2. last[1] = e
      BY <2>5
    <3> QED
      BY <2>2, <3>1, <3>2
  <2> QED
    BY <2>3, <2>4, <2>5
<1>7. Ledger!PaymentShares(asset, fee) = first \o last
  BY DEF Ledger!PaymentShares, share
<1> HIDE DEF first, last
<1>8. /\ first \o last \in Seq(Posting) /\ Len(first \o last) = Len(first) + Len(last)
      /\ DOMAIN (first \o last) = 1 .. Len(first) + Len(last)
  BY <1>5, <1>6, ConcatProperties, LenProperties
<1>9. \A i \in 1 .. Len(first) + Len(last) :
        (first \o last)[i] = IF i <= Len(first) THEN first[i] ELSE last[i - Len(first)]
  BY <1>5, <1>6, ConcatProperties
<1>10. \A i \in 1 .. Len(first) + Len(last) :
         i \in 1 .. Len(first) \/ i - Len(first) \in 1 .. Len(last)
  BY <1>5, <1>6
<1> QED
  BY <1>5, <1>6, <1>7, <1>8, <1>9, <1>10 DEF IsShares

\* Where nobody is missing, both services write the same three shares of a fee.
ThreeShares(asset, fee) ==
  << Ledger!Share(asset, "central", Ledger!Split(fee)["central"]),
     Ledger!Share(asset, "bank", Ledger!Split(fee)["bank"]),
     Ledger!Share(asset, "partners", Ledger!Split(fee)["partners"]) >>

LEMMA NobodyMissing ==
  ASSUME agreement \in Agreements, agreement.missing = {},
         NEW asset \in Ledger!Asset, NEW fee \in Nat
  PROVE  /\ fee > 0 => /\ Ledger!PaymentShares(asset, fee) = ThreeShares(asset, fee)
                       /\ Ledger!TreasuryShares(asset, fee) = ThreeShares(asset, fee)
         /\ fee = 0 => \A i \in DOMAIN Ledger!PaymentShares(asset, fee) :
                         Ledger!PaymentShares(asset, fee)[i].amount = 0
         /\ fee = 0 => \A i \in DOMAIN Ledger!TreasuryShares(asset, fee) :
                         Ledger!TreasuryShares(asset, fee)[i].amount = 0
<1> DEFINE sh(p) == Ledger!Share(asset, p, Ledger!Split(fee)[p])
           amount(p) == IF fee > 0 THEN Ledger!Split(fee)[p] ELSE 0
           two == [i \in 1 .. 2 |-> Ledger!Share(asset, <<"central", "bank">>[i],
                                                 amount(<<"central", "bank">>[i]))]
           rest == IF fee > 0 THEN <<sh("partners")>> ELSE <<>>
<1>1. \A p \in Ledger!Party : Ledger!Named(p)
  BY DEF Ledger!Named
<1>2. /\ Ledger!Only("central") = <<"central">> /\ Ledger!Only("bank") = <<"bank">>
      /\ Ledger!StandIn = "partners" /\ Ledger!Named("partners")
  BY <1>1 DEF Ledger!Only, Ledger!StandIn, Ledger!Party
<1>3. Ledger!Only("central") \o Ledger!Only("bank") = <<"central", "bank">>
  BY <1>2, TuplesAppended
<1>4. Ledger!PaymentShares(asset, fee) = two \o rest
  BY <1>2, <1>3 DEF Ledger!PaymentShares
<1>5. Ledger!TreasuryShares(asset, fee) =
        [i \in 1 .. 3 |-> Ledger!Share(asset, <<"central", "bank", "partners">>[i],
                            amount(<<"central", "bank", "partners">>[i]))]
  BY <1>1 DEF Ledger!TreasuryShares, Ledger!Party
<1>6. CASE fee > 0
  <2>1. two = <<sh("central"), sh("bank")>>
    BY <1>6
  <2>2. two \o rest = <<sh("central"), sh("bank"), sh("partners")>>
    BY <1>6, <2>1, TuplesAppended
  <2>3. Ledger!TreasuryShares(asset, fee)
          = <<sh("central"), sh("bank"), sh("partners")>>
    BY <1>5, <1>6
  <2> QED
    BY <1>4, <1>6, <2>2, <2>3 DEF ThreeShares
<1>7. CASE fee = 0
  <2>1. two \o rest = two
    BY <1>7
  <2>2. \A i \in 1 .. 2 : two[i].amount = 0
    BY <1>7 DEF Ledger!Share, Ledger!Entry
  <2>3. \A i \in 1 .. 3 : Ledger!TreasuryShares(asset, fee)[i].amount = 0
    BY <1>5, <1>7 DEF Ledger!Share, Ledger!Entry
  <2>4. DOMAIN two = 1 .. 2 /\ DOMAIN Ledger!TreasuryShares(asset, fee) = 1 .. 3
    BY <1>5
  <2> QED
    BY <1>4, <1>7, <2>1, <2>2, <2>3, <2>4
<1> QED
  BY <1>6, <1>7

LEMMA TreasurySharesTyped ==
  ASSUME agreement \in Agreements, NEW asset \in Ledger!Asset, NEW fee \in Nat
  PROVE  IsShares(Ledger!TreasuryShares(asset, fee), asset)
<1> DEFINE p(i) == <<"central", "bank", "partners">>[i]
           amount(i) == IF Ledger!Named(p(i)) /\ fee > 0
                        THEN Ledger!Split(fee)[p(i)] ELSE 0
           share(i) == Ledger!Share(asset, p(i), amount(i))
<1>1. \A i \in 1 .. 3 : p(i) \in Ledger!Party
  BY DEF Ledger!Party
<1>2. \A i \in 1 .. 3 : amount(i) \in Int
  BY <1>1, SplitTyped
<1>3. \A i \in 1 .. 3 : /\ share(i) \in Posting /\ share(i).asset = asset
                        /\ share(i).debit = "transit"
                        /\ share(i).credit \in Ledger!Party
  <2> HIDE DEF p, amount
  <2> QED
    BY <1>1, <1>2, ShareTyped
<1>4. Ledger!TreasuryShares(asset, fee) = [i \in 1 .. 3 |-> share(i)]
  BY DEF Ledger!TreasuryShares
<1> HIDE DEF share
<1>5. [i \in 1 .. 3 |-> share(i)] \in Seq(Posting)
      /\ Len([i \in 1 .. 3 |-> share(i)]) = 3
  BY <1>3
<1> QED
  BY <1>3, <1>4, <1>5 DEF IsShares

-----------------------------------------------------------------------------
\* Shares leave the transit account of their asset, and touch no other one of
\* those the properties speak of.
LEMMA SharesMove ==
  ASSUME NEW asset \in Ledger!Asset, NEW S, IsShares(S, asset), NEW i \in 1 .. 3,
         NEW a \in Ledger!Asset
  PROVE  /\ Gain(S, <<a, "liability">>, i) = 0
         /\ a # asset => Gain(S, <<a, "transit">>, i) = 0
         /\ i \in DOMAIN S => /\ S[i].amount \in Int
                              /\ Gain(S, <<asset, "transit">>, i) = 0 - S[i].amount
         /\ i \notin DOMAIN S => Gain(S, <<asset, "transit">>, i) = 0
<1>1. CASE i \notin DOMAIN S
  BY <1>1 DEF Gain
<1>2. CASE i \in DOMAIN S
  <2>1. /\ S[i] \in Posting /\ S[i].asset = asset /\ S[i].debit = "transit"
        /\ S[i].credit \in {"central", "bank", "partners"}
    BY <1>2, ElementOfSeq, LenProperties DEF IsShares, Ledger!Party
  <2>2. S[i].amount \in Int
    BY <2>1 DEF Posting
  <2> DEFINE e == S[i]
  <2>3. /\ <<a, "liability">> # <<e.asset, e.credit>>
        /\ <<a, "liability">> # <<e.asset, e.debit>>
        /\ <<a, "transit">> # <<e.asset, e.credit>>
        /\ <<a, "transit">> = <<e.asset, e.debit>> <=> a = asset
        /\ <<asset, "transit">> # <<e.asset, e.credit>>
        /\ <<asset, "transit">> = <<e.asset, e.debit>>
    BY <2>1
  <2>4. /\ Ledger!Effect(e, <<a, "liability">>) = 0
        /\ a # asset => Ledger!Effect(e, <<a, "transit">>) = 0
        /\ Ledger!Effect(e, <<asset, "transit">>) = 0 - e.amount
    BY <2>1, <2>3, EffectTyped
  <2> QED
    BY <1>2, <2>2, <2>4 DEF Gain
<1> QED
  BY <1>1, <1>2

\* A fee leaves transit completely where it is shared out completely.
LEMMA FeeLeavesTransit ==
  ASSUME agreement \in Agreements, Ledger!Whole, NEW asset \in Ledger!Asset,
         NEW amount \in Amounts,
         NEW fee \in {Ledger!TariffFee(amount), Ledger!TreasuryFee(amount)},
         NEW S \in {Ledger!PaymentShares(asset, fee),
                    Ledger!TreasuryShares(asset, fee)}
  PROVE  Moved(S, asset) = 0 - fee
<1> DEFINE x == <<asset, "transit">>
<1>1. agreement.missing = {} /\ fee \in Nat
  BY FeesTyped DEF Ledger!Whole, Ledger!WholeIn
<1>2. IsShares(S, asset)
  BY <1>1, PaymentSharesTyped, TreasurySharesTyped
<1>3. CASE fee > 0
  <2> DEFINE s == Ledger!Split(fee)
  <2>1. S = ThreeShares(asset, fee)
    BY <1>1, <1>3, NobodyMissing
  <2>2. /\ s["central"] \in Int /\ s["bank"] \in Int /\ s["partners"] \in Int
    BY <1>1, SplitTyped DEF Ledger!Party
  <2>3. /\ DOMAIN S = 1 .. 3 /\ S[1].amount = s["central"]
        /\ S[2].amount = s["bank"] /\ S[3].amount = s["partners"]
    BY <2>1 DEF ThreeShares, Ledger!Share, Ledger!Entry
  <2>4. /\ Gain(S, x, 1) = 0 - s["central"] /\ Gain(S, x, 2) = 0 - s["bank"]
        /\ Gain(S, x, 3) = 0 - s["partners"]
    <3>1. \A i \in 1 .. 3 : i \in DOMAIN S => Gain(S, x, i) = 0 - S[i].amount
      BY <1>2, SharesMove
    <3> HIDE DEF x, s
    <3> QED
      BY <2>3, <3>1
  <2>5. s["central"] + s["bank"] + s["partners"] = fee
    BY SharesOfWhole
  <2> HIDE DEF s, x
  <2>6. Gain(S, x, 1) + Gain(S, x, 2) + Gain(S, x, 3) = 0 - fee
    BY <1>1, <2>2, <2>4, <2>5
  <2> QED
    BY <2>6 DEF x, Moved
<1>4. CASE fee = 0
  <2>0. \A i \in DOMAIN S : S[i].amount = 0
    BY <1>1, <1>4, NobodyMissing
  <2>1. \A i \in 1 .. 3 : Gain(S, x, i) = 0
    <3>1. \A i \in 1 .. 3 :
            /\ i \in DOMAIN S => Gain(S, x, i) = 0 - S[i].amount
            /\ i \notin DOMAIN S => Gain(S, x, i) = 0
      BY <1>2, SharesMove
    <3> QED
      BY <2>0, <3>1
  <2> QED
    BY <1>4, <2>1 DEF Moved
<1> QED
  BY <1>1, <1>3, <1>4

\* The three postings before the shares of a purchase or a redemption give the
\* liability d less the fee, and the fee to transit.
IsEntries(P, d, fee) ==
  /\ P \in Seq(Posting) /\ Len(P) = 3
  /\ \A a \in Ledger!Asset :
       Ledger!Effect(P[1], <<a, "transit">>) + Ledger!Effect(P[2], <<a, "transit">>)
         + Ledger!Effect(P[3], <<a, "transit">>) = IF a = "SOM" THEN fee ELSE 0
  /\ Ledger!Effect(P[1], <<"SOM", "liability">>)
       + Ledger!Effect(P[2], <<"SOM", "liability">>)
       + Ledger!Effect(P[3], <<"SOM", "liability">>) = d - fee

LEMMA EntriesTyped ==
  ASSUME NEW gross \in Int, NEW fee \in Int, NEW net \in Int
  PROVE  /\ IsEntries(Ledger!PurchaseEntries(gross, fee, net), gross, fee)
         /\ IsEntries(Ledger!RedemptionEntries(gross, fee, net), 0 - gross, fee)
<1> DEFINE e1 == Ledger!Entry("SOM", "customerSom", "liability", gross)
           e2 == Ledger!Entry("SOM", "liability", "transit", fee)
           e3 == Ledger!Entry("SOM", "offAsset", "offCounter", net)
           d1 == Ledger!Entry("SOM", "liability", "customerSom", gross)
           d3 == Ledger!Entry("SOM", "offCounter", "offAsset", net)
<1>1. /\ e1 \in Posting /\ e2 \in Posting /\ e3 \in Posting
      /\ d1 \in Posting /\ d3 \in Posting
  BY DEF Ledger!Entry, Posting, Ledger!Asset, Ledger!Account
<1>2. /\ <<e1, e2, e3>> \in Seq(Posting) /\ <<d1, e2, d3>> \in Seq(Posting)
      /\ Len(<<e1, e2, e3>>) = 3 /\ Len(<<d1, e2, d3>>) = 3
  <2> HIDE DEF e1, e2, e3, d1, d3
  <2> QED
    BY <1>1
<1>3. ASSUME NEW a \in Ledger!Asset
      PROVE  /\ Ledger!Effect(e1, <<a, "transit">>) = 0
             /\ Ledger!Effect(e2, <<a, "transit">>) = IF a = "SOM" THEN fee ELSE 0
             /\ Ledger!Effect(e3, <<a, "transit">>) = 0
             /\ Ledger!Effect(d1, <<a, "transit">>) = 0
             /\ Ledger!Effect(d3, <<a, "transit">>) = 0
  BY DEF Ledger!Effect, Ledger!Entry
<1>4. /\ Ledger!Effect(e1, <<"SOM", "liability">>) = gross
      /\ Ledger!Effect(e2, <<"SOM", "liability">>) = 0 - fee
      /\ Ledger!Effect(e3, <<"SOM", "liability">>) = 0
      /\ Ledger!Effect(d1, <<"SOM", "liability">>) = 0 - gross
      /\ Ledger!Effect(d3, <<"SOM", "liability">>) = 0
  BY DEF Ledger!Effect, Ledger!Entry
<1>5. /\ Ledger!PurchaseEntries(gross, fee, net) = <<e1, e2, e3>>
      /\ Ledger!RedemptionEntries(gross, fee, net) = <<d1, e2, d3>>
  BY DEF Ledger!PurchaseEntries, Ledger!RedemptionEntries
<1> HIDE DEF e1, e2, e3, d1, d3
<1>6. IsEntries(<<e1, e2, e3>>, gross, fee)
  BY <1>2, <1>3, <1>4 DEF IsEntries
<1>7. IsEntries(<<d1, e2, d3>>, 0 - gross, fee)
  BY <1>2, <1>3, <1>4 DEF IsEntries
<1> QED
  BY <1>5, <1>6, <1>7

\* The accounts are new after d more in the liability, som more in transit and
\* the shares S out of it.
Moves(new, asset, S, d, som) ==
  /\ new \in [Ledger!Asset \X Ledger!Account -> Int]
  /\ new[<<"SOM", "liability">>] = accounts[<<"SOM", "liability">>] + d
  /\ \A a \in Ledger!Asset :
       new[<<a, "transit">>]
         = accounts[<<a, "transit">>] + (IF a = "SOM" THEN som ELSE 0)
             + (IF a = asset THEN Moved(S, asset) ELSE 0)

\* What the postings of an operation make of the accounts: shares only ...
LEMMA SharesBooked ==
  ASSUME BooksTyped, NEW asset \in Ledger!Asset, NEW S, IsShares(S, asset)
  PROVE  Moves(Ledger!After(S), asset, S, 0, 0)
<1>1. /\ S \in Seq(Posting) /\ Len(S) <= 3 /\ Len(S) <= 6
      /\ DOMAIN S = 1 .. Len(S) /\ Len(S) \in Nat
  BY LenProperties DEF IsShares
<1>2. \A x : Gain(S, x, 4) = 0 /\ Gain(S, x, 5) = 0 /\ Gain(S, x, 6) = 0
  BY <1>1 DEF Gain
<1>3. /\ "SOM" \in Ledger!Asset
      /\ \A a \in Ledger!Asset : /\ <<a, "transit">> \in Ledger!Asset \X Ledger!Account
                                 /\ <<a, "liability">> \in Ledger!Asset \X Ledger!Account
  BY DEF Ledger!Asset, Ledger!Account
<1>4. /\ Ledger!After(S) \in [Ledger!Asset \X Ledger!Account -> Int]
      /\ \A x \in Ledger!Asset \X Ledger!Account :
           /\ \A i \in 1 .. 6 : Gain(S, x, i) \in Int
           /\ Ledger!After(S)[x]
                = accounts[x] + (Gain(S, x, 1) + Gain(S, x, 2) + Gain(S, x, 3)
                    + Gain(S, x, 4) + Gain(S, x, 5) + Gain(S, x, 6))
  BY <1>1, Booked
<1>5. \A x \in Ledger!Asset \X Ledger!Account :
        /\ accounts[x] \in Int
        /\ Ledger!After(S)[x]
             = accounts[x] + (Gain(S, x, 1) + Gain(S, x, 2) + Gain(S, x, 3))
  <2> TAKE x \in Ledger!Asset \X Ledger!Account
  <2>1. accounts[x] \in Int
    BY DEF BooksTyped
  <2>2. /\ Gain(S, x, 1) \in Int /\ Gain(S, x, 2) \in Int /\ Gain(S, x, 3) \in Int
        /\ Ledger!After(S)[x]
             = accounts[x] + (Gain(S, x, 1) + Gain(S, x, 2) + Gain(S, x, 3) + 0 + 0 + 0)
    BY <1>2, <1>4
  <2> QED
    BY <2>1, <2>2
<1>6. \A a \in Ledger!Asset, i \in 1 .. 3 :
        /\ Gain(S, <<a, "liability">>, i) = 0
        /\ a # asset => Gain(S, <<a, "transit">>, i) = 0
  BY SharesMove
<1>7. Ledger!After(S)[<<"SOM", "liability">>] = accounts[<<"SOM", "liability">>]
  <2> DEFINE x == <<"SOM", "liability">>
  <2>1. x \in Ledger!Asset \X Ledger!Account /\ \A i \in 1 .. 3 : Gain(S, x, i) = 0
    BY <1>3, <1>6
  <2> HIDE DEF x
  <2>2. Ledger!After(S)[x] = accounts[x]
    BY <1>5, <2>1
  <2> QED
    BY <2>2 DEF x
<1>8. ASSUME NEW a \in Ledger!Asset, a # asset
      PROVE  Ledger!After(S)[<<a, "transit">>] = accounts[<<a, "transit">>] + 0
  <2> DEFINE x == <<a, "transit">>
  <2>1. x \in Ledger!Asset \X Ledger!Account /\ \A i \in 1 .. 3 : Gain(S, x, i) = 0
    BY <1>3, <1>6, <1>8
  <2> HIDE DEF x
  <2>2. Ledger!After(S)[x] = accounts[x] + 0
    BY <1>5, <2>1
  <2> QED
    BY <2>2 DEF x
<1>9. /\ Moved(S, asset) \in Int
      /\ Ledger!After(S)[<<asset, "transit">>]
           = accounts[<<asset, "transit">>] + Moved(S, asset)
  <2> DEFINE x == <<asset, "transit">>
  <2>1. x \in Ledger!Asset \X Ledger!Account
    BY <1>3
  <2>2. Moved(S, asset) = Gain(S, x, 1) + Gain(S, x, 2) + Gain(S, x, 3)
    BY DEF Moved
  <2> HIDE DEF x
  <2>3. /\ Gain(S, x, 1) \in Int /\ Gain(S, x, 2) \in Int /\ Gain(S, x, 3) \in Int
        /\ Ledger!After(S)[x]
             = accounts[x] + (Gain(S, x, 1) + Gain(S, x, 2) + Gain(S, x, 3))
    BY <1>4, <1>5, <2>1
  <2>4. Moved(S, asset) \in Int /\ Ledger!After(S)[x] = accounts[x] + Moved(S, asset)
    BY <2>2, <2>3
  <2> QED
    BY <2>4 DEF x
<1>10. /\ Ledger!After(S)[<<"SOM", "liability">>]
            = accounts[<<"SOM", "liability">>] + 0
       /\ \A a \in Ledger!Asset :
            Ledger!After(S)[<<a, "transit">>]
              = accounts[<<a, "transit">>] + (IF a = "SOM" THEN 0 ELSE 0)
                  + (IF a = asset THEN Moved(S, asset) ELSE 0)
  <2>1. /\ accounts[<<"SOM", "liability">>] \in Int
        /\ \A a \in Ledger!Asset : accounts[<<a, "transit">>] \in Int
    BY <1>3, <1>5
  <2>2. ASSUME NEW a \in Ledger!Asset
        PROVE  Ledger!After(S)[<<a, "transit">>]
                 = accounts[<<a, "transit">>] + 0
                     + (IF a = asset THEN Moved(S, asset) ELSE 0)
    <3>1. accounts[<<a, "transit">>] \in Int
      BY <2>1
    <3>2. a # asset => Ledger!After(S)[<<a, "transit">>]
                         = accounts[<<a, "transit">>] + 0
      BY <1>8
    <3>3. a = asset => Ledger!After(S)[<<a, "transit">>]
                         = accounts[<<a, "transit">>] + Moved(S, asset)
      BY <1>9
    <3> QED
      BY <1>9, <3>1, <3>2, <3>3
  <2> QED
    BY <1>7, <2>1, <2>2
<1> QED
  BY <1>4, <1>10 DEF Moves

\* ... or those of a purchase or a redemption before them.
LEMMA EntriesBooked ==
  ASSUME BooksTyped, NEW d \in Int, NEW fee \in Int, NEW P, IsEntries(P, d, fee),
         NEW asset \in Ledger!Asset, NEW S, IsShares(S, asset)
  PROVE  Moves(Ledger!After(P \o S), asset, S, d - fee, fee)
<1> DEFINE Own(x) == Ledger!Effect(P[1], x) + Ledger!Effect(P[2], x)
                       + Ledger!Effect(P[3], x)
           Shared(x) == Gain(S, x, 1) + Gain(S, x, 2) + Gain(S, x, 3)
<1>1. S \in Seq(Posting) /\ Len(S) <= 3
  BY DEF IsShares
<1>2. P \in Seq(Posting) /\ Len(P) = 3
  BY DEF IsEntries
<1>3. /\ "SOM" \in Ledger!Asset
      /\ \A a \in Ledger!Asset : /\ <<a, "transit">> \in Ledger!Asset \X Ledger!Account
                                 /\ <<a, "liability">> \in Ledger!Asset \X Ledger!Account
                                 /\ a = "SOM" \/ a \in {"ESOM", "USDT"}
  BY DEF Ledger!Asset, Ledger!Account
<1>4. /\ P \o S \in Seq(Posting) /\ Len(P \o S) <= 6
      /\ \A x : /\ \A i \in 1 .. 3 : Gain(P \o S, x, i) = Ledger!Effect(P[i], x)
                /\ Gain(P \o S, x, 4) = Gain(S, x, 1)
                /\ Gain(P \o S, x, 5) = Gain(S, x, 2)
                /\ Gain(P \o S, x, 6) = Gain(S, x, 3)
  BY <1>1, <1>2, Appended
<1>5. /\ Ledger!After(P \o S) \in [Ledger!Asset \X Ledger!Account -> Int]
      /\ \A x \in Ledger!Asset \X Ledger!Account :
           /\ accounts[x] \in Int /\ Own(x) \in Int /\ Shared(x) \in Int
           /\ Ledger!After(P \o S)[x] = accounts[x] + Own(x) + Shared(x)
  <2>1. /\ Ledger!After(P \o S) \in [Ledger!Asset \X Ledger!Account -> Int]
        /\ \A x \in Ledger!Asset \X Ledger!Account :
             /\ \A i \in 1 .. 6 : Gain(P \o S, x, i) \in Int
             /\ Ledger!After(P \o S)[x] = accounts[x]
                  + (Gain(P \o S, x, 1) + Gain(P \o S, x, 2) + Gain(P \o S, x, 3)
                      + Gain(P \o S, x, 4) + Gain(P \o S, x, 5) + Gain(P \o S, x, 6))
    BY <1>4, Booked
  <2>2. ASSUME NEW x \in Ledger!Asset \X Ledger!Account
        PROVE  /\ accounts[x] \in Int /\ Own(x) \in Int /\ Shared(x) \in Int
               /\ Ledger!After(P \o S)[x] = accounts[x] + Own(x) + Shared(x)
    <3>1. accounts[x] \in Int
      BY DEF BooksTyped
    <3>2. /\ Ledger!Effect(P[1], x) \in Int /\ Ledger!Effect(P[2], x) \in Int
          /\ Ledger!Effect(P[3], x) \in Int /\ Gain(S, x, 1) \in Int
          /\ Gain(S, x, 2) \in Int /\ Gain(S, x, 3) \in Int
          /\ Ledger!After(P \o S)[x] = accounts[x]
               + (Ledger!Effect(P[1], x) + Ledger!Effect(P[2], x)
                   + Ledger!Effect(P[3], x)
                   + Gain(S, x, 1) + Gain(S, x, 2) + Gain(S, x, 3))
      BY <1>4, <2>1
    <3> QED
      BY <3>1, <3>2
  <2> QED
    BY <2>1, <2>2
<1>6. \A a \in Ledger!Asset :
        /\ Own(<<a, "transit">>) = IF a = "SOM" THEN fee ELSE 0
        /\ Shared(<<a, "liability">>) = 0
        /\ a # asset => Shared(<<a, "transit">>) = 0
  <2> TAKE a \in Ledger!Asset
  <2>1. Own(<<a, "transit">>) = IF a = "SOM" THEN fee ELSE 0
    BY DEF IsEntries
  <2>2. \A i \in 1 .. 3 : /\ Gain(S, <<a, "liability">>, i) = 0
                          /\ a # asset => Gain(S, <<a, "transit">>, i) = 0
    BY SharesMove
  <2> QED
    BY <2>1, <2>2
<1>7. Own(<<"SOM", "liability">>) = d - fee
  BY DEF IsEntries
<1>8. Ledger!After(P \o S)[<<"SOM", "liability">>]
        = accounts[<<"SOM", "liability">>] + (d - fee)
  <2> DEFINE x == <<"SOM", "liability">>
  <2>1. x \in Ledger!Asset \X Ledger!Account /\ Own(x) = d - fee /\ Shared(x) = 0
    BY <1>3, <1>6, <1>7
  <2> HIDE DEF Own, Shared, x
  <2>2. Ledger!After(P \o S)[x] = accounts[x] + (d - fee)
    BY <1>5, <2>1
  <2> QED
    BY <2>2 DEF x
<1>9. ASSUME NEW a \in Ledger!Asset
      PROVE  Ledger!After(P \o S)[<<a, "transit">>] = accounts[<<a, "transit">>]
               + (IF a = "SOM" THEN fee ELSE 0)
               + (IF a = asset THEN Shared(<<asset, "transit">>) ELSE 0)
  <2> DEFINE x == <<a, "transit">>
  <2>1. /\ accounts[x] \in Int /\ Own(x) = (IF a = "SOM" THEN fee ELSE 0)
        /\ a # asset => Shared(x) = 0
        /\ Shared(x) \in Int
        /\ Ledger!After(P \o S)[x] = accounts[x] + Own(x) + Shared(x)
    BY <1>3, <1>5, <1>6
  <2>2. a = asset => Shared(x) = Shared(<<asset, "transit">>)
    OBVIOUS
  <2> HIDE DEF Own, Shared, x
  <2>3. Ledger!After(P \o S)[x] = accounts[x] + (IF a = "SOM" THEN fee ELSE 0)
               + (IF a = asset THEN Shared(<<asset, "transit">>) ELSE 0)
    BY <2>1, <2>2
  <2> QED
    BY <2>3 DEF x
<1>10. /\ Shared(<<asset, "transit">>) \in Int
       /\ Shared(<<asset, "transit">>) = Moved(S, asset)
  BY <1>3, <1>5 DEF Moved
<1>11. Ledger!After(P \o S) \in [Ledger!Asset \X Ledger!Account -> Int]
  BY <1>5
<1> HIDE DEF Own, Shared
<1> QED
  BY <1>8, <1>9, <1>10, <1>11 DEF Moves

-----------------------------------------------------------------------------
LEMMA InitBooks == Ledger!Init => BooksInv
<1> SUFFICES ASSUME Ledger!Init PROVE BooksInv
  OBVIOUS
<1> USE DEF Ledger!Init
<1>1. BooksTyped
  BY DEF BooksTyped, Ledger!Nothing
<1>2. /\ \A a \in Ledger!Asset : accounts[<<a, "transit">>] = 0
      /\ \A a \in Ledger!Asset : tally.fees[a] = 0
      /\ accounts[<<"SOM", "liability">>] = 0
      /\ {"SOM", "ESOM", "USDT"} = Ledger!Asset
  BY DEF Ledger!Asset, Ledger!Account
<1>3. /\ tally.moved["held"] = 0 /\ tally.moved["cut"] = 0
      /\ tally.moved["sold"] = 0 /\ tally.moved["bought"] = 0
      /\ tally.moved["burned"] = 0 /\ tally.moved["unburned"] = 0
      /\ tally.moved["unposted"] = 0 /\ tally.moved["redeemed"] = 0
      /\ tally.moved["clipped"] = 0
  BY DEF Ledger!Nothing, Ledger!Causes
<1> QED
  BY ONLY <1>1, <1>2, <1>3
     DEF BooksInv, Ledger!TransitExplained, Ledger!LiabilityExplained

\* What a tally of what was moved owes the liability.
Owed(m) == m["held"] + m["cut"] + m["sold"] - m["bought"] + m["burned"]
             - m["unburned"] - m["unposted"] - m["redeemed"] - m["clipped"]

LEMMA OwedTyped ==
  ASSUME NEW m \in [Ledger!Causes -> Int]
  PROVE  Owed(m) \in Int /\ m["redeemed"] \in Int
<1>1. /\ m["held"] \in Int /\ m["cut"] \in Int /\ m["sold"] \in Int
      /\ m["bought"] \in Int /\ m["burned"] \in Int /\ m["unburned"] \in Int
      /\ m["unposted"] \in Int /\ m["redeemed"] \in Int /\ m["clipped"] \in Int
  BY DEF Ledger!Causes
<1> QED
  BY <1>1 DEF Owed

\* What an operation leaves in the tally.
LEMMA Recorded ==
  ASSUME BooksTyped, NEW asset \in Ledger!Asset, NEW fee \in Int,
         NEW moved \in [Ledger!Causes -> Int], Ledger!Record(asset, fee, moved)
  PROVE  /\ tally' \in [made : Nat, whole : BOOLEAN, fees : [Ledger!Asset -> Int],
                        moved : [Ledger!Causes -> Int]]
         /\ tally'.whole => tally.whole /\ Ledger!Whole
         /\ Owed(tally'.moved) = Owed(tally.moved) + Owed(moved)
         /\ tally'.moved["redeemed"] = tally.moved["redeemed"] + moved["redeemed"]
         /\ \A a \in Ledger!Asset :
              tally'.fees[a] = tally.fees[a] + (IF a = asset THEN fee ELSE 0)
<1>1. /\ tally.made \in Nat /\ tally.whole \in BOOLEAN
      /\ tally.moved \in [Ledger!Causes -> Int]
      /\ tally.fees \in [Ledger!Asset -> Int]
  BY DEF BooksTyped
<1> DEFINE fees == [tally.fees EXCEPT ![asset] = @ + fee]
           made == tally.made + 1
           whole == tally.whole /\ Ledger!Whole
           all == [c \in Ledger!Causes |-> tally.moved[c] + moved[c]]
<1>2. /\ fees \in [Ledger!Asset -> Int]
      /\ \A a \in Ledger!Asset :
           fees[a] = tally.fees[a] + (IF a = asset THEN fee ELSE 0)
  BY <1>1
<1>3. tally' = [made |-> made, whole |-> whole, fees |-> fees, moved |-> all]
  BY DEF Ledger!Record
<1>4. /\ made \in Nat /\ whole \in BOOLEAN
      /\ \A c \in Ledger!Causes : tally.moved[c] \in Int /\ moved[c] \in Int
      /\ all \in [Ledger!Causes -> Int]
      /\ \A c \in Ledger!Causes : all[c] = tally.moved[c] + moved[c]
  BY <1>1
<1>5. whole => tally.whole /\ Ledger!Whole
  OBVIOUS
<1>6. Owed(all) = Owed(tally.moved) + Owed(moved)
  <2> DEFINE told == tally.moved
  <2> HIDE DEF all, told
  <2>1. \A c \in {"held", "cut", "sold", "bought", "burned", "unburned",
                  "unposted", "redeemed", "clipped"} :
          told[c] \in Int /\ moved[c] \in Int /\ all[c] = told[c] + moved[c]
    BY <1>4 DEF Ledger!Causes, told
  <2>2. Owed(all) = Owed(told) + Owed(moved)
    BY <2>1 DEF Owed
  <2> QED
    BY <2>2 DEF told
<1>7. all["redeemed"] = tally.moved["redeemed"] + moved["redeemed"]
  BY <1>4 DEF Ledger!Causes
<1> HIDE DEF fees, made, whole, all
<1>8. /\ tally' \in [made : Nat, whole : BOOLEAN, fees : [Ledger!Asset -> Int],
                     moved : [Ledger!Causes -> Int]]
      /\ tally'.whole = whole /\ tally'.fees = fees /\ tally'.moved = all
  BY <1>2, <1>3, <1>4
<1> QED
  BY <1>2, <1>5, <1>6, <1>7, <1>8

\* A tally of nothing.
LEMMA NothingTyped ==
  /\ Ledger!Nothing \in [Ledger!Causes -> Int]
  /\ Owed(Ledger!Nothing) = 0 /\ Ledger!Nothing["redeemed"] = 0
<1>1. Ledger!Nothing \in [Ledger!Causes -> Int]
  BY DEF Ledger!Nothing
<1>2. Owed(Ledger!Nothing) = 0 /\ Ledger!Nothing["redeemed"] = 0
  BY DEF Owed, Ledger!Nothing, Ledger!Causes
<1> QED
  BY <1>1, <1>2

\* An operation that moves d to the liability, gives transit som and takes the
\* shares of its fee out of it again tells the tally so: told is the part of
\* the fee that nobody had credited to the account it is shared out of.
Tells(asset, fee, d, som, told, moved) ==
  /\ Ledger!Record(asset, told, moved)
  /\ d = Owed(moved)
  /\ asset = "SOM" => som - fee = moved["redeemed"] - told
  /\ asset # "SOM" => som = moved["redeemed"] /\ told = fee

LEMMA OperationKeeps ==
  ASSUME BooksInv, UNCHANGED agreement, NEW asset \in Ledger!Asset,
         NEW amount \in Amounts,
         NEW fee \in {Ledger!TariffFee(amount), Ledger!TreasuryFee(amount)},
         NEW S \in {Ledger!PaymentShares(asset, fee),
                    Ledger!TreasuryShares(asset, fee)},
         NEW d \in Int, NEW som \in Int, NEW told \in Int,
         NEW moved \in [Ledger!Causes -> Int],
         Moves(accounts', asset, S, d, som),
         Tells(asset, fee, d, som, told, moved)
  PROVE  BooksInv'
<1> USE DEF Moves, Tells
<1>1. BooksTyped /\ agreement \in Agreements /\ fee \in Int
  BY FeesTyped DEF BooksInv, BooksTyped
<1>2. /\ tally' \in [made : Nat, whole : BOOLEAN, fees : [Ledger!Asset -> Int],
                     moved : [Ledger!Causes -> Int]]
      /\ tally'.whole => tally.whole /\ Ledger!Whole
      /\ Owed(tally'.moved) = Owed(tally.moved) + Owed(moved)
      /\ tally'.moved["redeemed"] = tally.moved["redeemed"] + moved["redeemed"]
      /\ \A a \in Ledger!Asset :
           tally'.fees[a] = tally.fees[a] + (IF a = asset THEN told ELSE 0)
  BY <1>1, Recorded
<1>3. BooksTyped'
  BY <1>1, <1>2 DEF BooksTyped
<1>4. /\ Owed(tally.moved) \in Int /\ Owed(moved) \in Int
      /\ tally.moved["redeemed"] \in Int /\ moved["redeemed"] \in Int
      /\ \A a \in Ledger!Asset : /\ tally.fees[a] \in Int
                                 /\ accounts[<<a, "transit">>] \in Int
      /\ accounts[<<"SOM", "liability">>] \in Int
      /\ {"SOM", "ESOM", "USDT"} = Ledger!Asset
  BY <1>1, OwedTyped DEF BooksTyped, Ledger!Asset, Ledger!Account
<1>5. Ledger!LiabilityExplained'
  <2>1. accounts[<<"SOM", "liability">>] = Owed(tally.moved)
    BY DEF BooksInv, Ledger!LiabilityExplained, Owed
  <2>2. accounts'[<<"SOM", "liability">>] = Owed(tally'.moved)
    BY <1>2, <1>4, <2>1
  <2> QED
    BY <2>2 DEF Ledger!LiabilityExplained, Owed
<1>6. Ledger!TransitExplained'
  <2> SUFFICES ASSUME tally'.whole
               PROVE  /\ accounts'[<<"SOM", "transit">>]
                           = tally'.moved["redeemed"] - tally'.fees["SOM"]
                      /\ \A a \in {"ESOM", "USDT"} :
                           accounts'[<<a, "transit">>] = 0 - tally'.fees[a]
    BY DEF Ledger!TransitExplained
  <2>1. /\ accounts[<<"SOM", "transit">>]
             = tally.moved["redeemed"] - tally.fees["SOM"]
        /\ \A a \in {"ESOM", "USDT"} :
             accounts[<<a, "transit">>] = 0 - tally.fees[a]
    BY <1>2 DEF BooksInv, Ledger!TransitExplained
  <2>2. Moved(S, asset) = 0 - fee
    BY <1>1, <1>2, FeeLeavesTransit
  <2>3. accounts'[<<"SOM", "transit">>]
          = tally'.moved["redeemed"] - tally'.fees["SOM"]
    <3>1. accounts'[<<"SOM", "transit">>]
            = (tally.moved["redeemed"] - tally.fees["SOM"]) + som
                + (IF "SOM" = asset THEN 0 - fee ELSE 0)
      BY <1>4, <2>1, <2>2
    <3>2. tally'.fees["SOM"]
            = tally.fees["SOM"] + (IF "SOM" = asset THEN told ELSE 0)
      BY <1>2, <1>4
    <3>3. tally.fees["SOM"] \in Int
      BY <1>4
    <3>4. som \in Int /\ told \in Int /\ fee \in Int
      BY <1>1
    <3>5. tally'.moved["redeemed"] = tally.moved["redeemed"] + moved["redeemed"]
      BY <1>2
    <3>6. tally.moved["redeemed"] \in Int /\ moved["redeemed"] \in Int
      BY <1>4
    <3>7. CASE asset = "SOM"
      <4>1. accounts'[<<"SOM", "transit">>]
              = (tally.moved["redeemed"] - tally.fees["SOM"]) + som + (0 - fee)
        BY <3>1, <3>7
      <4>2. tally'.fees["SOM"] = tally.fees["SOM"] + told
        BY <3>2, <3>7
      <4>3. som - fee = moved["redeemed"] - told
        BY <3>7
      <4> QED
        BY ONLY <3>3, <3>4, <3>5, <3>6, <4>1, <4>2, <4>3
    <3>8. CASE asset # "SOM"
      <4>1. accounts'[<<"SOM", "transit">>]
              = (tally.moved["redeemed"] - tally.fees["SOM"]) + som + 0
        BY <3>1, <3>8
      <4>2. tally'.fees["SOM"] = tally.fees["SOM"] + 0
        BY <3>2, <3>8
      <4>3. som = moved["redeemed"]
        BY <3>8
      <4> QED
        BY ONLY <3>3, <3>4, <3>5, <3>6, <4>1, <4>2, <4>3
    <3> QED
      BY <3>7, <3>8
  <2>4. ASSUME NEW a \in {"ESOM", "USDT"}
        PROVE  accounts'[<<a, "transit">>] = 0 - tally'.fees[a]
    <3>1. /\ a \in Ledger!Asset /\ a # "SOM" /\ tally.fees[a] \in Int
          /\ accounts[<<a, "transit">>] = 0 - tally.fees[a]
      BY <1>4, <2>1
    <3>2. /\ a = asset => accounts'[<<a, "transit">>]
                            = (0 - tally.fees[a]) + 0 + (0 - fee)
          /\ a # asset => accounts'[<<a, "transit">>]
                            = (0 - tally.fees[a]) + 0 + 0
      BY <2>2, <3>1
    <3>3. /\ a = asset => tally'.fees[a] = tally.fees[a] + fee
          /\ a # asset => tally'.fees[a] = tally.fees[a] + 0
      BY <1>2, <3>1
    <3> QED
      BY <1>1, <3>1, <3>2, <3>3
  <2> QED
    BY <2>3, <2>4
<1> QED
  BY <1>3, <1>5, <1>6 DEF BooksInv

\* What a fee leaves of an amount and what a mint leaves of that are integers.
LEMMA NetsTyped ==
  ASSUME agreement \in Agreements, NEW amount \in Amounts
  PROVE  /\ amount \in Nat /\ Ledger!TariffFee(amount) \in Nat
         /\ Ledger!Net(amount) \in Nat /\ Ledger!Net(amount) * Rate \in Nat
         /\ \A net \in Nat : /\ Ledger!PlatformCut(net) \in Nat
                             /\ Ledger!Minted(net) \in Int
<1>1. /\ amount \in Nat /\ Rate \in Nat /\ PlatformPercent \in Nat
  BY AgreementsAssumption, ScenariosAssumption
<1>2. Ledger!TariffFee(amount) \in Nat
  BY FeesTyped
<1> DEFINE fee == Ledger!TariffFee(amount)
<1>3. Ledger!Net(amount) \in Nat
  <2> HIDE DEF fee
  <2>1. fee \in Nat
    BY <1>2 DEF fee
  <2>2. Ledger!Larger(amount - fee, 0) \in Nat
    BY <1>1, <2>1 DEF Ledger!Larger
  <2> QED
    BY <2>2 DEF Ledger!Net, fee
<1>4. Ledger!Net(amount) * Rate \in Nat
  BY <1>1, <1>3, ProductsAreNat
<1>5. ASSUME NEW net \in Nat
      PROVE  Ledger!PlatformCut(net) \in Nat /\ Ledger!Minted(net) \in Int
  <2>1. net * PlatformPercent \in Nat
    BY <1>1, ProductsAreNat
  <2>2. Ledger!PlatformCut(net) \in Nat
    BY <2>1, QuotientsAreNat DEF Ledger!PlatformCut
  <2> HIDE DEF Ledger!PlatformCut
  <2> QED
    BY <2>2 DEF Ledger!Minted
<1> QED
  BY <1>1, <1>2, <1>3, <1>4, <1>5

LEMMA PurchaseKeeps ==
  ASSUME BooksInv, NEW amount \in Amounts, Ledger!Purchase(amount)
  PROVE  BooksInv'
<1> DEFINE asset == "SOM"
           fee == Ledger!TariffFee(amount)
           net == Ledger!Net(amount)
           P == Ledger!PurchaseEntries(amount, fee, net)
           S == Ledger!PaymentShares(asset, fee)
           cut == Ledger!PlatformCut(net)
           minted == Ledger!Minted(net)
           clipped == net - (amount - fee)
           moved == [Ledger!Nothing EXCEPT !["held"] = minted, !["cut"] = cut,
                                           !["clipped"] = clipped]
<1>1. /\ BooksTyped /\ agreement \in Agreements /\ asset \in Ledger!Asset
      /\ amount \in Int
  BY AgreementsAssumption DEF BooksInv, BooksTyped, Ledger!Asset
<1>2. /\ fee \in Nat /\ net \in Nat /\ cut \in Nat /\ minted \in Int
      /\ minted = net - cut
  BY <1>1, NetsTyped DEF Ledger!Minted
<1>3. /\ accounts' = Ledger!After(P \o S) /\ UNCHANGED agreement
      /\ Ledger!Record(asset, 0, moved)
  BY DEF Ledger!Purchase
<1>4. fee \in {Ledger!TariffFee(amount), Ledger!TreasuryFee(amount)}
  OBVIOUS
<1> HIDE DEF fee, net, cut, minted
<1>5. cut \in Int /\ clipped \in Int /\ amount - fee \in Int
  BY <1>1, <1>2
<1>6. moved \in [Ledger!Causes -> Int]
  BY <1>2, <1>5, NothingTyped
<1>7. Owed(moved) = amount - fee /\ moved["redeemed"] = 0
  <2>1. Owed(moved) = minted + cut + 0 - 0 + 0 - 0 - 0 - 0 - clipped
    BY DEF Owed, Ledger!Nothing, Ledger!Causes
  <2>2. moved["redeemed"] = 0
    BY DEF Ledger!Nothing, Ledger!Causes
  <2> QED
    BY <1>1, <1>2, <1>5, <2>1, <2>2
<1>8. IsEntries(P, amount, fee)
  BY <1>1, <1>2, EntriesTyped
<1>9. /\ S \in {Ledger!PaymentShares(asset, fee), Ledger!TreasuryShares(asset, fee)}
      /\ IsShares(S, asset)
  BY <1>1, <1>2, PaymentSharesTyped DEF fee
<1> HIDE DEF asset, P, S, clipped, moved
<1>10. Moves(accounts', asset, S, amount - fee, fee)
  BY <1>1, <1>2, <1>3, <1>8, <1>9, EntriesBooked
<1>11. Tells(asset, fee, amount - fee, fee, 0, moved)
  BY <1>2, <1>3, <1>7 DEF Tells, asset
<1> QED
  BY <1>1, <1>2, <1>3, <1>4, <1>5, <1>6, <1>9, <1>10, <1>11, OperationKeeps

LEMMA RedemptionKeeps ==
  ASSUME BooksInv, NEW amount \in Amounts, Ledger!Redemption(amount)
  PROVE  BooksInv'
<1> DEFINE asset == "ESOM"
           fee == Ledger!TariffFee(amount)
           net == Ledger!Net(amount)
           P == Ledger!RedemptionEntries(amount, fee, net)
           S == Ledger!PaymentShares(asset, fee)
           burned == IF net > 0 THEN amount ELSE 0
           owed == 0 - amount
           moved == [Ledger!Nothing EXCEPT !["held"] = 0 - burned,
                       !["unburned"] = amount - burned, !["redeemed"] = fee]
<1>1. /\ BooksTyped /\ agreement \in Agreements /\ asset \in Ledger!Asset
      /\ amount \in Int
  BY AgreementsAssumption DEF BooksInv, BooksTyped, Ledger!Asset
<1>2. fee \in Nat /\ net \in Nat
  BY <1>1, NetsTyped
<1>3. /\ accounts' = Ledger!After(P \o S) /\ UNCHANGED agreement
      /\ Ledger!Record(asset, fee, moved)
  BY DEF Ledger!Redemption
<1>4. fee \in {Ledger!TariffFee(amount), Ledger!TreasuryFee(amount)}
  OBVIOUS
<1> HIDE DEF fee, net
<1>5. burned \in Int /\ 0 - burned \in Int /\ amount - burned \in Int
      /\ owed \in Int /\ owed - fee \in Int /\ fee \in Int
  BY <1>1, <1>2
<1> HIDE DEF burned
<1>6. moved \in [Ledger!Causes -> Int]
  BY <1>2, <1>5, NothingTyped
<1>7. Owed(moved) = owed - fee /\ moved["redeemed"] = fee
  <2>1. Owed(moved) = (0 - burned) + 0 + 0 - 0 + 0 - (amount - burned) - 0 - fee - 0
    BY DEF Owed, Ledger!Nothing, Ledger!Causes
  <2>2. moved["redeemed"] = fee
    BY DEF Ledger!Nothing, Ledger!Causes
  <2> QED
    BY <1>1, <1>2, <1>5, <2>1, <2>2
<1>8. IsEntries(P, owed, fee)
  BY <1>1, <1>2, EntriesTyped
<1>9. /\ S \in {Ledger!PaymentShares(asset, fee), Ledger!TreasuryShares(asset, fee)}
      /\ IsShares(S, asset)
  BY <1>1, <1>2, PaymentSharesTyped DEF fee
<1> HIDE DEF asset, P, S, owed, moved
<1>10. Moves(accounts', asset, S, owed - fee, fee)
  BY <1>1, <1>2, <1>3, <1>5, <1>8, <1>9, EntriesBooked
<1>11. Tells(asset, fee, owed - fee, fee, fee, moved)
  BY <1>2, <1>3, <1>7 DEF Tells, asset
<1> QED
  BY <1>1, <1>2, <1>3, <1>4, <1>5, <1>6, <1>9, <1>10, <1>11, OperationKeeps

\* Fees of which only the shares are posted, whatever else the operation moved.
LEMMA SharesKeep ==
  ASSUME BooksInv, NEW amount \in Amounts, NEW asset \in Ledger!Asset,
         NEW fee \in {Ledger!TariffFee(amount), Ledger!TreasuryFee(amount)},
         NEW S \in {Ledger!PaymentShares(asset, fee),
                    Ledger!TreasuryShares(asset, fee)},
         NEW moved \in [Ledger!Causes -> Int],
         Owed(moved) = 0, moved["redeemed"] = 0,
         accounts' = Ledger!After(S), UNCHANGED agreement,
         Ledger!Record(asset, fee, moved)
  PROVE  BooksInv'
<1>1. BooksTyped /\ agreement \in Agreements
  BY DEF BooksInv, BooksTyped
<1>2. fee \in Nat
  BY <1>1, FeesTyped
<1>3. IsShares(S, asset)
  BY <1>1, <1>2, PaymentSharesTyped, TreasurySharesTyped
<1>4. Moves(accounts', asset, S, 0, 0)
  BY <1>1, <1>3, SharesBooked
<1>5. 0 \in Int /\ 0 - fee = 0 - fee /\ fee \in Int
  BY <1>2
<1>6. Tells(asset, fee, 0, 0, fee, moved)
  BY <1>5 DEF Tells
<1> QED
  BY <1>1, <1>4, <1>5, <1>6, OperationKeeps

\* An operation that posts nothing.
LEMMA NothingPosted ==
  ASSUME BooksInv, NEW moved \in [Ledger!Causes -> Int],
         Owed(moved) = 0, moved["redeemed"] = 0,
         UNCHANGED <<accounts, agreement>>, Ledger!Record("ESOM", 0, moved)
  PROVE  BooksInv'
<1>1. BooksTyped /\ 0 \in Int /\ {"SOM", "ESOM", "USDT"} = Ledger!Asset
  BY DEF BooksInv, Ledger!Asset
<1>2. /\ tally' \in [made : Nat, whole : BOOLEAN, fees : [Ledger!Asset -> Int],
                     moved : [Ledger!Causes -> Int]]
      /\ tally'.whole => tally.whole
      /\ Owed(tally'.moved) = Owed(tally.moved) + Owed(moved)
      /\ tally'.moved["redeemed"] = tally.moved["redeemed"] + moved["redeemed"]
      /\ \A a \in Ledger!Asset : tally'.fees[a] = tally.fees[a] + 0
  BY <1>1, Recorded
<1>3. /\ Owed(tally.moved) \in Int /\ tally.moved["redeemed"] \in Int
      /\ \A a \in Ledger!Asset : tally.fees[a] \in Int
  BY <1>1, OwedTyped DEF BooksTyped
<1>4. /\ Owed(tally'.moved) = Owed(tally.moved)
      /\ tally'.moved["redeemed"] = tally.moved["redeemed"]
      /\ \A a \in Ledger!Asset : tally'.fees[a] = tally.fees[a]
  BY <1>2, <1>3
<1>5. BooksTyped'
  BY <1>1, <1>2 DEF BooksTyped
<1>6. Ledger!TransitExplained'
  BY <1>1, <1>2, <1>4 DEF BooksInv, Ledger!TransitExplained
<1>7. Ledger!LiabilityExplained'
  <2>1. accounts[<<"SOM", "liability">>] = Owed(tally.moved)
    BY DEF BooksInv, Ledger!LiabilityExplained, Owed
  <2>2. accounts'[<<"SOM", "liability">>] = Owed(tally'.moved)
    BY <1>4, <2>1
  <2> QED
    BY <2>2 DEF Ledger!LiabilityExplained, Owed
<1> QED
  BY <1>5, <1>6, <1>7 DEF BooksInv

\* What a customer has more or less for a cause that says as much owes nothing.
LEMMA Balanced ==
  ASSUME NEW x \in Int
  PROVE  /\ \A c \in {"sold", "burned"} :
              LET m == [Ledger!Nothing EXCEPT !["held"] = 0 - x, ![c] = x] IN
              Owed(m) = 0 /\ m["redeemed"] = 0
         /\ \A c \in {"bought", "unposted"} :
              LET m == [Ledger!Nothing EXCEPT !["held"] = x, ![c] = x] IN
              Owed(m) = 0 /\ m["redeemed"] = 0
BY DEF Owed, Ledger!Nothing, Ledger!Causes

LEMMA NextBooks == BooksInv /\ [Ledger!Next]_booksVars => BooksInv'
<1> SUFFICES ASSUME BooksInv, [Ledger!Next]_booksVars PROVE BooksInv'
  OBVIOUS
<1>0. agreement \in Agreements
  BY DEF BooksInv, BooksTyped
<1> USE DEF Ledger!PostShares
<1>1. ASSUME NEW amount \in Amounts, Ledger!SellSalam(amount) PROVE BooksInv'
  <2>1. PICK burned \in {0, amount} :
          Ledger!PostShares("ESOM", Ledger!TariffFee(amount),
            [Ledger!Nothing EXCEPT !["held"] = 0 - burned, !["sold"] = burned])
    BY <1>1 DEF Ledger!SellSalam
  <2> DEFINE moved == [Ledger!Nothing EXCEPT !["held"] = 0 - burned,
                                             !["sold"] = burned]
  <2>2. burned \in Int /\ 0 - burned \in Int
    BY <1>0, NetsTyped
  <2>3. moved \in [Ledger!Causes -> Int]
    BY <2>2, NothingTyped
  <2>4. Owed(moved) = 0 /\ moved["redeemed"] = 0
    BY <2>2, Balanced
  <2> HIDE DEF moved
  <2> QED
    BY <2>1, <2>3, <2>4, SharesKeep DEF moved, Ledger!Asset
<1>2. ASSUME NEW amount \in Amounts, Ledger!BuySalam(amount) PROVE BooksInv'
  <2> DEFINE esom == Ledger!Net(amount) * Rate
  <2>1. PICK minted \in {0, Ledger!Minted(esom)} :
          Ledger!PostShares("USDT", Ledger!TariffFee(amount),
            [Ledger!Nothing EXCEPT !["held"] = minted, !["bought"] = minted])
    BY <1>2 DEF Ledger!BuySalam
  <2> DEFINE moved == [Ledger!Nothing EXCEPT !["held"] = minted,
                                             !["bought"] = minted]
  <2>2. minted \in Int
    BY <1>0, NetsTyped
  <2>3. moved \in [Ledger!Causes -> Int]
    BY <2>2, NothingTyped
  <2>4. Owed(moved) = 0 /\ moved["redeemed"] = 0
    BY <2>2, Balanced
  <2> HIDE DEF moved
  <2> QED
    BY <2>1, <2>3, <2>4, SharesKeep DEF moved, Ledger!Asset
<1>3. ASSUME NEW amount \in Amounts, NEW asset \in Ledger!Asset,
             Ledger!Transfer(asset, amount)
      PROVE  BooksInv'
  BY <1>3, NothingTyped, SharesKeep DEF Ledger!Transfer
<1>4. ASSUME NEW amount \in Amounts, Ledger!TreasuryPosts(amount) PROVE BooksInv'
  BY <1>4, NothingTyped, SharesKeep DEF Ledger!TreasuryPosts, Ledger!Asset
<1>5. ASSUME NEW amount \in Amounts, Ledger!TransferByPhone(amount)
      PROVE  BooksInv'
  <2> DEFINE fee == Ledger!TariffFee(amount)
             moved == [Ledger!Nothing EXCEPT !["held"] = 0 - fee, !["burned"] = fee]
  <2>1. fee \in Nat
    BY <1>0, NetsTyped
  <2>2. Ledger!Record("ESOM", 0, moved) /\ UNCHANGED <<accounts, agreement>>
    BY <1>5 DEF Ledger!TransferByPhone
  <2> HIDE DEF fee
  <2>3. fee \in Int /\ 0 - fee \in Int
    BY <2>1
  <2>4. moved \in [Ledger!Causes -> Int]
    BY <2>3, NothingTyped
  <2>5. Owed(moved) = 0 /\ moved["redeemed"] = 0
    BY <2>3, Balanced
  <2> HIDE DEF moved
  <2> QED
    BY <2>2, <2>4, <2>5, NothingPosted
<1>6. ASSUME NEW amount \in Amounts, Ledger!Interrupted(amount) PROVE BooksInv'
  <2>1. PICK change \in {Ledger!Minted(Ledger!Net(amount)),
                         Ledger!Minted(Ledger!Net(amount) * Rate), 0 - amount} :
          /\ Ledger!Record("ESOM", 0, [Ledger!Nothing EXCEPT !["held"] = change,
                                         !["unposted"] = change])
          /\ UNCHANGED <<accounts, agreement>>
    BY <1>6 DEF Ledger!Interrupted
  <2> DEFINE moved == [Ledger!Nothing EXCEPT !["held"] = change,
                                             !["unposted"] = change]
  <2>2. change \in Int
    BY <1>0, NetsTyped
  <2>3. moved \in [Ledger!Causes -> Int]
    BY <2>2, NothingTyped
  <2>4. Owed(moved) = 0 /\ moved["redeemed"] = 0
    BY <2>2, Balanced
  <2> HIDE DEF moved
  <2> QED
    BY <2>1, <2>3, <2>4, NothingPosted DEF moved
<1>7. CASE Ledger!Edit \/ UNCHANGED booksVars
  BY <1>7 DEF Ledger!Edit, booksVars, BooksInv, BooksTyped,
     Ledger!TransitExplained, Ledger!LiabilityExplained
<1> QED
  BY <1>1, <1>2, <1>3, <1>4, <1>5, <1>6, <1>7, PurchaseKeeps, RedemptionKeeps
     DEF Ledger!Next

\* Both services share a fee alike wherever nobody is missing.
LEMMA AgreementIsShared == agreement \in Agreements => Ledger!ServicesAgree
<1> SUFFICES ASSUME agreement \in Agreements, agreement.missing = {},
                    NEW amount \in Amounts, Ledger!TariffFee(amount) > 0
             PROVE  Ledger!PaymentShares("USDT", Ledger!TariffFee(amount))
                      = Ledger!TreasuryShares("USDT", Ledger!TariffFee(amount))
  BY DEF Ledger!ServicesAgree
<1>1. Ledger!TariffFee(amount) \in Nat /\ "USDT" \in Ledger!Asset
  BY FeesTyped DEF Ledger!Asset
<1> QED
  BY <1>1, NobodyMissing

LEMMA BooksInFocus == Spec => [](focus = "books" => BooksInv)
<1>1. Init => (focus = "books" => BooksInv)
  BY InitBooks DEF Init
<1>2. (focus = "books" => BooksInv) /\ [Next]_vars => (focus = "books" => BooksInv)'
  BY StepInFocus, NextBooks DEF booksVars
<1> QED
  BY <1>1, <1>2, PTL DEF Spec

\* Whatever is bought, redeemed, traded and sent, under whichever agreements the
\* administrators change between them, the transit accounts lack what was shared
\* out of them uncredited, the liability differs from the Salam that customers
\* hold for the named causes alone, and both services share a fee alike
\* (createSomPurchaseAccountingPostings, createSomRedemptionAccountingPostings,
\* createCommissionDistributionPostings).
THEOREM BooksStayExplained == Spec => []BooksExplained
<1>1. (focus = "books" => BooksInv) => BooksExplained
  BY AgreementIsShared DEF BooksInv, BooksTyped, BooksExplained
<1> QED
  BY BooksInFocus, <1>1, PTL
=============================================================================
