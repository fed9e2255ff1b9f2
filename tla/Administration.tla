--------------------------- MODULE Administration ---------------------------
(*****************************************************************************)
(* What administrators do to the settings, the log of it, and how they sign  *)
(* in.  AdminActionLogInterceptor starts to read the settings before the     *)
(* handler runs but does not wait for the answer; when the handler has       *)
(* returned it logs the difference to what it got.  validateAdmin replaces a *)
(* password that is still stored as plain text by its hash.                  *)
(*****************************************************************************)
EXTENDS Integers, Sequences, FiniteSets

CONSTANTS
  Request,  \* PUT requests, each with a value of its own
  Visitor,  \* logins
  Changer,  \* calls of admin-management's update with a new password
  Secret,   \* what is typed at a login
  None

VARIABLES
  setting,   \* a field of the settings row, None as long as there is no row
  puts,      \* the requests
  trail,     \* AdminActionLog
  password,  \* the admin's row, with the number of changes (stamp) and the last
             \* one (was), which are history
  gate       \* the logins' and password changes' locals

adminVars == <<setting, puts, trail, password, gate>>

Put == [at |-> "idle", snap |-> "asked", prior |-> None, raced |-> FALSE]
Visit == [at |-> "idle", word |-> None, stored |-> None, read |-> 0]

Init ==
  /\ setting \in {None, "old"} /\ trail = {}
  /\ puts = [r \in Request |-> Put]
  /\ password = [word |-> "old", plain |-> TRUE, stamp |-> 0, was |-> "old"]
  /\ gate = [v \in Visitor \cup Changer |-> Visit]

Step(r, next) == puts' = [puts EXCEPT ![r].at = next]
Rest == UNCHANGED <<password, gate>>

\* intercept: the query is on its way when the handler starts
Arrive(r) == /\ puts[r].at = "idle" /\ Step(r, "find")
             /\ UNCHANGED <<setting, trail>> /\ Rest

\* ... and answered at any time; .catch(() => null)
Snapshot(r) ==
  /\ puts[r].at # "idle" /\ puts[r].snap = "asked"
  /\ \E got \in {setting, None} :
       puts' = [puts EXCEPT ![r].snap = got,
                            ![r].raced = @ \/ puts[r].at \in {"log", "over"}
                                           \/ got # setting]
  /\ UNCHANGED <<setting, trail>> /\ Rest

\* getOrCreateSettingsRow: of two that find no row one creates it, and the
\* other's create throws
Find(r) == /\ puts[r].at = "find"
           /\ Step(r, IF setting = None THEN "create" ELSE "update")
           /\ UNCHANGED <<setting, trail>> /\ Rest
Create(r) ==
  /\ puts[r].at = "create"
  /\ IF setting = None
     THEN setting' = "default" /\ puts' = [s \in Request |->
            [puts[s] EXCEPT !.at = IF s = r THEN "update" ELSE @,
                            !.raced = @ \/ puts[s].snap # "asked"]]
     ELSE setting' = setting /\ Step(r, "threw")
  /\ UNCHANGED trail /\ Rest

\* update, updateAdmin and updateTariffs write what the request asks for
Update(r) ==
  /\ puts[r].at = "update"
  /\ setting' = r
  /\ puts' = [s \in Request |->
       IF s = r THEN [puts[r] EXCEPT !.at = "log", !.prior = setting]
       ELSE [puts[s] EXCEPT !.raced = @ \/ (/\ puts[s].snap # "asked"
                                            /\ puts[s].at \notin {"log", "over"})]]
  /\ UNCHANGED trail /\ Rest
Refused(r) == /\ puts[r].at = "update" /\ Step(r, "threw")
              /\ UNCHANGED <<setting, trail>> /\ Rest

TappedAlways(r) == puts[r].at \in {"log", "threw"}
\* tap: only after the handler's value; a failed insert is swallowed
Tapped(r) == puts[r].at = "log"
Log(r) ==
  /\ Tapped(r) /\ puts[r].snap # "asked"
  /\ trail' \in {trail, trail \cup {[by |-> r, before |-> puts[r].snap]}}
  /\ Step(r, "over")
  /\ UNCHANGED setting /\ Rest

-----------------------------------------------------------------------------
(* admin-management                                                          *)

Settings == UNCHANGED <<setting, puts, trail>>
LoginRead(v, word) ==
  /\ gate[v].at = "idle"
  /\ gate' = [gate EXCEPT ![v] =
       [at |-> IF password.plain THEN "compare" ELSE "over", word |-> word,
        read |-> password.stamp, stored |-> password.word]]
  /\ UNCHANGED password /\ Settings
MatchesAlways(v) == TRUE
Matches(v) == gate[v].word = gate[v].stored
LoginRehash(v) ==
  /\ gate[v].at = "compare"
  /\ password' = IF Matches(v)
                 THEN [password EXCEPT !.word = gate[v].word, !.plain = FALSE]
                 ELSE password
  /\ gate' = [gate EXCEPT ![v].at = "over"]
  /\ Settings

\* update: the new password is always stored as a hash
ChangePassword(v) ==
  /\ gate[v].at = "idle"
  /\ password' = [word |-> v, plain |-> FALSE, stamp |-> password.stamp + 1,
                  was |-> v]
  /\ gate' = [gate EXCEPT ![v].at = "over"]
  /\ Settings

Next ==
  \/ \E r \in Request : \/ Arrive(r) \/ Snapshot(r) \/ Find(r) \/ Create(r)
                        \/ Update(r) \/ Refused(r) \/ Log(r)
  \/ \E v \in Visitor : LoginRehash(v) \/ \E w \in Secret : LoginRead(v, w)
  \/ \E v \in Changer : ChangePassword(v)

-----------------------------------------------------------------------------
\* The log names only changes that were made, and says what was there before,
\* unless something was written between the reading and the writing, or the
\* reading failed or came after the writing it was to precede.
LogIsTrue ==
  \A entry \in trail :
    /\ puts[entry.by].prior # None
    /\ entry.before # puts[entry.by].prior => puts[entry.by].raced

\* The password that opens the door is the one last chosen, unless it was
\* changed while a login was replacing plain text by its hash.
PasswordIsLastChosen ==
  password.word # password.was =>
    \E v \in Visitor : gate[v].at = "over" /\ gate[v].read # password.stamp
=============================================================================
