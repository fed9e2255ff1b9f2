----------------------------- MODULE PushTokens -----------------------------
(******************************************************************************)
(* Push messages: users.service registers a device's token for the customer   *)
(* who signs in on it, firebase-push.service reads whether a customer wants   *)
(* messages and then lists the active tokens, or lists those of everybody who *)
(* does at once, and sends to them in any order.                              *)
(******************************************************************************)
EXTENDS Integers, FiniteSets

CONSTANTS
  Person,   \* customers
  Device,   \* devices, each with a token
  Sending,  \* calls of sendToCustomer and of the broadcast
  Everyone, \* the addressee of a broadcast
  MaxSteps, \* bound: sign-ins and switches of the setting
  None

VARIABLES
  token,    \* UserPushToken: [owner, active], None as long as not saved
  wants,    \* Customer.push_enabled
  user,     \* external: who has signed in on the device last
  dead,     \* external: devices whose token Firebase no longer knows
  mail,     \* the calls: addressee, still to list, devices left, changes seen
            \* when the call began to read
  changes,  \* history variable: sign-ins away from and switches by a customer
  wrong     \* history variable: sends that reached somebody else or somebody
            \* who had switched them off, with nothing changed since then

pushVars == <<token, wants, user, dead, mail, changes, wrong>>

Init ==
  /\ token = [d \in Device |-> [owner |-> None, active |-> FALSE]]
  /\ wants \in [Person -> BOOLEAN]
  /\ user = [d \in Device |-> None] /\ dead = {}
  /\ mail = [s \in Sending |-> [to |-> None, asked |-> FALSE, left |-> {},
                            seen |-> 0]]
  /\ changes = 0 /\ wrong = {}

UpsertKeepsOwner(c, d) ==
  [token EXCEPT ![d] = [owner |-> IF @.owner = None THEN c ELSE @.owner,
                        active |-> TRUE]]
\* saveFcmToken: the update moves the token to the new owner
Upsert(c, d) == [token EXCEPT ![d] = [owner |-> c, active |-> TRUE]]
SignIn(c, d) ==
  /\ changes < MaxSteps /\ d \notin dead
  /\ user' = [user EXCEPT ![d] = c] /\ token' = Upsert(c, d)
  /\ changes' = changes + 1
  /\ UNCHANGED <<wants, dead, mail, wrong>>

\* updatePushSettings
Switch(c) ==
  /\ changes < MaxSteps
  /\ wants' = [wants EXCEPT ![c] = ~@] /\ changes' = changes + 1
  /\ UNCHANGED <<token, user, dead, mail, wrong>>

Uninstall(d) == /\ user[d] # None /\ dead' = dead \cup {d}
                /\ UNCHANGED <<token, wants, user, mail, changes, wrong>>

\* sendToCustomer: the setting first ...
Ask(s, c) ==
  /\ mail[s].to = None /\ wants[c]
  /\ mail' = [mail EXCEPT ![s] = [to |-> c, asked |-> TRUE, left |-> {},
                                  seen |-> changes]]
  /\ UNCHANGED <<token, wants, user, dead, changes, wrong>>

\* ... and the tokens in a query of their own
Active == {d \in Device : token[d].active}
List(s) ==
  /\ mail[s].asked
  /\ mail' = [mail EXCEPT ![s].asked = FALSE,
               ![s].left = {d \in Active : token[d].owner = mail[s].to}]
  /\ UNCHANGED <<token, wants, user, dead, changes, wrong>>

\* sendBroadcastToActiveAndroid: both in one query
Broadcast(s) ==
  /\ mail[s].to = None
  /\ mail' = [mail EXCEPT ![s] = [to |-> Everyone, asked |-> FALSE,
                                  left |-> {d \in Active : wants[token[d].owner]},
                                  seen |-> changes]]
  /\ UNCHANGED <<token, wants, user, dead, changes, wrong>>

Reaches(s, d) ==
  /\ d \notin dead
  /\ mail[s].to \notin {Everyone, user[d]} \/ ~wants[user[d]]

\* sendToToken; one Firebase no longer knows is deactivated
Send(s, d) ==
  /\ d \in mail[s].left
  /\ mail' = [mail EXCEPT ![s].left = @ \ {d}]
  /\ token' = IF d \in dead THEN [token EXCEPT ![d].active = FALSE] ELSE token
  /\ wrong' = IF Reaches(s, d) /\ mail[s].seen = changes
              THEN wrong \cup {s} ELSE wrong
  /\ UNCHANGED <<wants, user, dead, changes>>

Done(s) == /\ mail[s].to # None /\ ~mail[s].asked /\ mail[s].left = {}
           /\ mail' = [mail EXCEPT ![s].to = None]
           /\ UNCHANGED <<token, wants, user, dead, changes, wrong>>

Next ==
  \/ \E c \in Person : Switch(c) \/ \E d \in Device : SignIn(c, d)
  \/ \E d \in Device : Uninstall(d)
  \/ \E s \in Sending :
       \/ \E c \in Person : Ask(s, c)
       \/ List(s) \/ Broadcast(s)
       \/ \E d \in Device : Send(s, d)
       \/ Done(s)

-----------------------------------------------------------------------------
\* A message reaches a device only of the customer it is for, and only one who
\* wants messages, unless somebody signed in or switched the setting after the
\* call had begun to read whom it is to send to.
OnlyTheAddressee == wrong = {}
=============================================================================
