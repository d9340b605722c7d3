------------------------------ MODULE Accounts ------------------------------
(***************************************************************************)
(* The rows of table users: the first sign-in of a user inserts one        *)
(* (auth_email_verify, oauth_callback) and tells the administrators;       *)
(* administrators grant and withdraw the flag is_admin                     *)
(* (admin_update_admin_flag), never that of the last one.  Requests        *)
(* overlap at every statement.  PostgreSQL locks the rows of               *)
(* count_admins(for_update=True) until the request ends and evaluates them *)
(* again after waiting; SQLite has no such lock.                           *)
(***************************************************************************)
EXTENDS Integers, FiniteSets

CONSTANTS
  User,      \* user ids
  Flow,      \* concurrent requests
  MaxAsked,  \* bound: requests
  None

PeopleAssumption == IsFiniteSet(User) /\ None \notin Flow /\ MaxAsked \in Nat

VARIABLES
  dialect,   \* "postgresql" or "sqlite"
  users,     \* rows of table users
  admins,    \* of those, rows with is_admin
  locks,     \* flow that holds the row lock of an admin
  pc,        \* where each request stands
  ask,       \* what it was asked: [op, target]
  saw,       \* whether it saw the row of the target, resp. its flag, set
  notified,  \* notifications of new members sent, by user
  asked,     \* requests so far
  overlap    \* history: two changes of the flag were under way at once

vars == <<dialect, users, admins, locks, pc, ask, saw, notified, asked, overlap>>

Ask == [op : {"signin", "grant", "withdraw"}, target : User]

Init ==
  /\ dialect \in {"postgresql", "sqlite"}
  /\ users \in SUBSET User
  /\ admins \in SUBSET users
  /\ locks = [u \in User |-> None]
  /\ pc = [f \in Flow |-> "idle"]
  /\ ask = [f \in Flow |-> None]
  /\ saw = [f \in Flow |-> FALSE]
  /\ notified = [u \in User |-> 0]
  /\ asked = 0
  /\ overlap = FALSE

-----------------------------------------------------------------------------
\* The request is over and its transaction ended: row locks go with it.
Finish(f) ==
  /\ pc' = [pc EXCEPT ![f] = "idle"]
  /\ ask' = [ask EXCEPT ![f] = None]
  /\ saw' = [saw EXCEPT ![f] = FALSE]
  /\ locks' = [u \in User |-> IF locks[u] = f THEN None ELSE locks[u]]

\* get_by_id: the row of the user who signs in, once the provider has confirmed
\* who it is, or of the user whose flag an administrator changes (get_admin_uow
\* and the 404).
Begin(f, a) ==
  /\ pc[f] = "idle" /\ asked < MaxAsked
  /\ a.op # "signin" => admins # {} /\ a.target \in users
  /\ asked' = asked + 1
  /\ ask' = [ask EXCEPT ![f] = a]
  /\ saw' = [saw EXCEPT ![f] = a.target \in (IF a.op = "signin" THEN users ELSE admins)]
  /\ pc' = [pc EXCEPT ![f] = IF a.op = "withdraw" /\ a.target \in admins THEN "count" ELSE "save"]
  /\ overlap' = (overlap \/ (a.op = "withdraw" /\ \E g \in Flow : pc[g] # "idle" /\ ask[g].op = "withdraw"))
  /\ UNCHANGED <<dialect, users, admins, locks, notified>>

\* Mutant of CountAdmins: the rows are counted without waiting for their locks.
CountAdminsUnlocked(f) ==
  /\ pc[f] = "count"
  /\ IF Cardinality(admins) <= 1
     THEN Finish(f)
     ELSE pc' = [pc EXCEPT ![f] = "save"] /\ UNCHANGED <<ask, saw, locks>>
  /\ UNCHANGED <<dialect, users, admins, notified, asked, overlap>>

\* count_admins(for_update=True): "Cannot remove the last admin".
CountAdmins(f) ==
  /\ pc[f] = "count"
  /\ dialect = "postgresql" => \A u \in admins : locks[u] = None
  /\ IF Cardinality(admins) <= 1
     THEN Finish(f)
     ELSE /\ pc' = [pc EXCEPT ![f] = "save"]
          /\ locks' = IF dialect = "postgresql"
                      THEN [u \in User |-> IF u \in admins THEN f ELSE locks[u]] ELSE locks
          /\ UNCHANGED <<ask, saw>>
  /\ UNCHANGED <<dialect, users, admins, notified, asked, overlap>>

\* The commit of a changed flag; a row is written only if the flag differs
\* from the one that was read, and not while another request has it locked.
SaveFlag(f) ==
  LET a == ask[f] IN
  /\ pc[f] = "save" /\ a.op \in {"grant", "withdraw"}
  /\ (saw[f] <=> a.op = "grant") \/ locks[a.target] \in {None, f}
  /\ admins' = CASE a.op = "withdraw" /\ saw[f] -> admins \ {a.target}
                 [] a.op = "grant" /\ ~saw[f]   -> admins \cup {a.target}
                 [] OTHER                       -> admins
  /\ Finish(f)
  /\ UNCHANGED <<dialect, users, notified, asked, overlap>>

\* Mutant of SaveUser: the notification does not wait for the commit.
SaveUserNotifiesFirst(f) ==
  LET u == ask[f].target IN
  /\ pc[f] = "save" /\ ask[f].op = "signin"
  /\ users' = users \cup {u}
  /\ notified' = IF ~saw[f] THEN [notified EXCEPT ![u] = @ + 1] ELSE notified
  /\ Finish(f)
  /\ UNCHANGED <<dialect, admins, asked, overlap>>

\* The commit of a sign-in.  A user who was not there is inserted, which fails
\* on the primary key if another request was faster; only then is the
\* notification scheduled.
SaveUser(f) ==
  LET u == ask[f].target IN
  /\ pc[f] = "save" /\ ask[f].op = "signin"
  /\ users' = users \cup {u}
  /\ notified' = IF ~saw[f] /\ u \notin users THEN [notified EXCEPT ![u] = @ + 1] ELSE notified
  /\ Finish(f)
  /\ UNCHANGED <<dialect, admins, asked, overlap>>

\* The request fails before its commit.
Fails(f) ==
  /\ pc[f] # "idle"
  /\ Finish(f)
  /\ UNCHANGED <<dialect, users, admins, notified, asked, overlap>>

Over ==
  /\ asked = MaxAsked /\ \A f \in Flow : pc[f] = "idle"
  /\ UNCHANGED vars

Next ==
  \/ \E f \in Flow :
       \/ \E a \in Ask : Begin(f, a)
       \/ CountAdmins(f) \/ SaveFlag(f) \/ SaveUser(f) \/ Fails(f)
  \/ Over

Spec == Init /\ [][Next]_vars

-----------------------------------------------------------------------------
TypeOK ==
  /\ dialect \in {"postgresql", "sqlite"}
  /\ users \subseteq User /\ admins \subseteq users
  /\ locks \in [User -> Flow \cup {None}]
  /\ pc \in [Flow -> {"idle", "count", "save"}]
  /\ ask \in [Flow -> Ask \cup {None}]
  /\ saw \in [Flow -> BOOLEAN]
  /\ notified \in [User -> Nat]
  /\ asked \in 0..MaxAsked
  /\ overlap \in BOOLEAN

\* "Cannot remove the last admin" (admin_update_admin_flag): the last flag is
\* never withdrawn, however requests overlap on PostgreSQL, and on SQLite
\* unless two withdrawals do.
LastAdminStays ==
  [][admins # {} => admins' # {} \/ (dialect = "sqlite" /\ overlap)]_vars

\* However many first sign-ins of a user overlap, one notification is sent
\* (the commit comes before add_task).
OneNotification == \A u \in User : notified[u] <= 1
=============================================================================
