------------------------------ MODULE Support ------------------------------
(****************************************************************************)
(* support.service: a customer's messages go to the open ticket, which the  *)
(* first of them creates; administrators answer and close.  Nothing but the *)
(* look-up at the start of a call keeps two calls apart.  The texts and the *)
(* time of the last message are left out.                                   *)
(****************************************************************************)
EXTENDS Integers, Sequences, FiniteSets

CONSTANTS
  Sender,   \* calls of sendMessage, all of one customer
  Replier,  \* calls of replyToTicket
  Closer,   \* calls of closeTicket
  None

VARIABLES
  tickets,  \* support_tickets, by id
  talk      \* the calls' locals

supportVars == <<tickets, talk>>

Call == Sender \cup Replier \cup Closer
Idle == [at |-> "idle", ticket |-> 0, looked |-> 0]

Init ==
  /\ tickets = <<>>
  /\ talk = [a \in Call |-> Idle]

Open == {t \in DOMAIN tickets : tickets[t].status = "OPEN"}

\* the call has looked, at as many tickets as there were
Looked(a, at, t) ==
  /\ talk[a].at = "idle"
  /\ talk' = [talk EXCEPT ![a] = [Idle EXCEPT !.at = at, !.ticket = t,
                                              !.looked = Len(tickets)]]
  /\ UNCHANGED tickets

OpenTicketIfNewest == Open \cap {Len(tickets)}
\* findFirst of the OPEN tickets, the newest first
OpenTicket == {t \in Open : \A u \in Open : u <= t}

SendFind(a) ==
  \/ OpenTicket = {} /\ Looked(a, "create", 0)
  \/ \E t \in OpenTicket : Looked(a, "message", t)

SendCreate(a) ==
  /\ talk[a].at = "create"
  /\ tickets' = Append(tickets, [status |-> "OPEN", by |-> None, closer |-> None,
                                 during |-> {}])
  /\ talk' = [talk EXCEPT ![a] =
                 [at |-> "message", ticket |-> Len(tickets) + 1,
                  looked |-> talk[a].looked]]

\* sendMessage and replyToTicket insert the message, then touch the ticket
Insert(a) ==
  /\ talk[a].at = "message"
  /\ talk' = [talk EXCEPT ![a].at = "touch"]
  /\ UNCHANGED tickets

\* a reply also names its administrator in closed_by_admin_id
Touched(row, a) == [row EXCEPT !.by = IF a \in Replier THEN a ELSE @]

Touch(a) ==
  /\ talk[a].at = "touch"
  /\ tickets' = [tickets EXCEPT ![talk[a].ticket] = Touched(@, a)]
  /\ talk' = [talk EXCEPT ![a].at = "over"]

AnswerableWhatever == DOMAIN tickets
Answerable == Open

ReplyFind(a) == \E t \in Answerable : Looked(a, "message", t)
CloseFind(a) == \E t \in Open : Looked(a, "close", t)

\* of two calls that found the ticket open the later one closes it again
Close(a) ==
  LET t == talk[a].ticket
      replying == {b \in Replier : talk[b].ticket = t
                                   /\ talk[b].at \in {"message", "touch"}}
  IN  /\ talk[a].at = "close"
      /\ tickets' = [tickets EXCEPT ![t] =
                       [status |-> "CLOSED", by |-> a, closer |-> a,
                        during |-> tickets[t].during \cup replying]]
      /\ talk' = [talk EXCEPT ![a].at = "over"]

Next ==
  \/ \E a \in Sender : SendFind(a) \/ SendCreate(a)
  \/ \E a \in Replier : ReplyFind(a)
  \/ \E a \in Closer : CloseFind(a) \/ Close(a)
  \/ \E a \in Sender \cup Replier : Insert(a) \/ Touch(a)

Spec == Init /\ [][Next]_supportVars

-----------------------------------------------------------------------------
\* A second open ticket comes only from a sender that looked before the first
\* one was created: a customer who waits for the answers keeps to one, whichever
\* tickets were closed in between (getOrCreateOpenTicket).
OneOpenTicket ==
  \A t, u \in Open : t < u =>
    \E a \in Sender : talk[a].ticket = u /\ talk[a].looked < t

\* A closed ticket names the administrator who closed it last, or one whose
\* reply was under way at that moment (closed_by_admin_id).
CloserIsNamed ==
  \A t \in DOMAIN tickets : tickets[t].status = "CLOSED" =>
    tickets[t].by \in {tickets[t].closer} \cup tickets[t].during

\* Both: whatever senders, repliers and closers overlap, every ticket can be
\* accounted for by who opened it and who closed it.
TicketsAccounted == OneOpenTicket /\ CloserIsNamed
=============================================================================
