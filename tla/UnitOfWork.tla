----------------------------- MODULE UnitOfWork -----------------------------
(***************************************************************************)
(* SqlAlchemyUnitOfWork on PostgreSQL: whose rows a transaction sees.  The *)
(* policies of the tables compare with the setting app.current_user_id of  *)
(* the database session, which the hook after_begin sets at the start of a *)
(* transaction.  With PG_POOL_MODE=session it leaves the setting alone if  *)
(* the latch on the pooled connection says that it is already right.       *)
(*                                                                         *)
(* A rollback takes the setting back to what it was before the             *)
(* transaction, and a session that is closed without a commit is rolled    *)
(* back.  In session mode a connection has one database session for life;  *)
(* in transaction mode the pooler picks one for each transaction.          *)
(***************************************************************************)
CONSTANTS
  User,        \* user ids, the anonymous one included
  Connection,  \* DBAPI connections of the pool
  Backend,     \* database sessions
  Home(_),     \* in session mode: the database session of a connection
  None         \* no user: never set, or _RLS_UNSET

PoolAssumption ==
  /\ None \notin User /\ None \notin Backend
  /\ \A c \in Connection : Home(c) \in Backend
  /\ \A c, d \in Connection : Home(c) = Home(d) => c = d

VARIABLES
  mode,     \* PG_POOL_MODE
  setting,  \* app.current_user_id of each database session
  latch,    \* connection.info["rls_user_id"]
  tx,       \* open transaction of each connection: [user, backend, before]
  undone    \* history: connections whose last setting a rollback took back

vars == <<mode, setting, latch, tx, undone>>

NoTx == [user |-> None, backend |-> None, before |-> None]

Init ==
  /\ mode \in {"session", "transaction"}
  /\ setting = [b \in Backend |-> None]
  /\ latch = [c \in Connection |-> None]
  /\ tx = [c \in Connection |-> NoTx]
  /\ undone = {}

Open(c) == tx[c] # NoTx
Busy(b) == \E c \in Connection : tx[c].backend = b

-----------------------------------------------------------------------------
\* Mutant of Latched: the latch is trusted in both modes.
LatchedAlways(c, u) == latch[c] = u

\* The hook returns without a statement.
Latched(c, u) == mode = "session" /\ latch[c] = u

\* A unit of work of user u starts a transaction: its first one, or the next
\* after a commit or a rollback.
Begin(c, u) ==
  /\ ~Open(c)
  /\ \E b \in Backend :
       /\ ~Busy(b)
       /\ mode = "session" => b = Home(c)
       /\ setting' = IF Latched(c, u) THEN setting ELSE [setting EXCEPT ![b] = u]
       /\ latch' = IF Latched(c, u) THEN latch ELSE [latch EXCEPT ![c] = u]
       /\ tx' = [tx EXCEPT ![c] = [user |-> u, backend |-> b, before |-> setting[b]]]
  /\ undone' = IF Latched(c, u) THEN undone ELSE undone \ {c}
  /\ UNCHANGED mode

Commit(c) ==
  /\ Open(c)
  /\ tx' = [tx EXCEPT ![c] = NoTx]
  /\ UNCHANGED <<mode, setting, latch, undone>>

\* rollback, or close without a commit: every page that only reads.
Rollback(c) ==
  /\ Open(c)
  /\ setting' = [setting EXCEPT ![tx[c].backend] = tx[c].before]
  /\ undone' = IF tx[c].before # setting[tx[c].backend] THEN undone \cup {c} ELSE undone
  /\ tx' = [tx EXCEPT ![c] = NoTx]
  /\ UNCHANGED <<mode, latch>>

\* Mutant of Reconnect: the latch survives the connection.
ReconnectKeepsLatch(c) ==
  /\ mode = "session"
  /\ setting' = [setting EXCEPT ![Home(c)] = None]
  /\ tx' = [tx EXCEPT ![c] = NoTx]
  /\ UNCHANGED <<mode, latch, undone>>

\* pool_recycle, or a connection that broke: a new one takes its place, with
\* an empty info and, in session mode, a new database session.
Reconnect(c) ==
  /\ latch' = [latch EXCEPT ![c] = None]
  /\ IF mode = "session"
     THEN setting' = [setting EXCEPT ![Home(c)] = None]
     ELSE setting' = IF Open(c) THEN [setting EXCEPT ![tx[c].backend] = tx[c].before] ELSE setting
  /\ tx' = [tx EXCEPT ![c] = NoTx]
  /\ UNCHANGED <<mode, undone>>

\* The pooler replaces a database session that nobody uses.
Replace(b) ==
  /\ mode = "transaction" /\ ~Busy(b)
  /\ setting' = [setting EXCEPT ![b] = None]
  /\ UNCHANGED <<mode, latch, tx, undone>>

Next ==
  \/ \E c \in Connection :
       \/ \E u \in User : Begin(c, u)
       \/ Commit(c) \/ Rollback(c) \/ Reconnect(c)
  \/ \E b \in Backend : Replace(b)

Spec == Init /\ [][Next]_vars

-----------------------------------------------------------------------------
TypeOK ==
  /\ mode \in {"session", "transaction"}
  /\ setting \in [Backend -> User \cup {None}]
  /\ latch \in [Connection -> User \cup {None}]
  /\ tx \in [Connection -> [user : User, backend : Backend, before : User \cup {None}] \cup {NoTx}]
  /\ undone \subseteq Connection

\* "guaranteed to still be present on the next" (is_pg_session_mode): while a
\* transaction is open, the policies compare with the user it belongs to.
OwnSetting == \A c \in Connection : Open(c) => setting[tx[c].backend] = tx[c].user

\* Transaction mode is always right; session mode is unless a rollback took back
\* the last setting made through the connection.
OwnSettingOrUndone ==
  \A c \in Connection :
    Open(c) => setting[tx[c].backend] = tx[c].user \/ (mode = "session" /\ c \in undone)
=============================================================================
