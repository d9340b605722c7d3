------------------------------ MODULE RuleStore ------------------------------
(***************************************************************************)
(* rule_config: the stored rules of one user, of one strategy.  The first  *)
(* request of a user in a process seeds the defaults under a lock and      *)
(* remembers that it did; a request that changes a rule loads its row,     *)
(* checks it and commits it in a later step.  Several processes serve the  *)
(* database and any of them may die and start again.  Of the rows the one  *)
(* of SELL_MA_ALL is kept in full: the others are seeded with it and only  *)
(* switched.                                                               *)
(***************************************************************************)
EXTENDS Integers, FiniteSets

CONSTANTS
  Process,         \* server processes
  Thread,          \* request threads, in all of them
  Home(_),         \* the process a thread runs in
  Condition,       \* the MA conditions (interval, time_period)
  DefaultCondition,
  MAX_MA_CONDITIONS,
  MaxRequests,     \* bound: requests started
  None

ASSUME StoreAssumption ==
  /\ \A t \in Thread : Home(t) \in Process
  /\ None \notin Thread
  /\ IsFiniteSet(Condition) /\ DefaultCondition \in Condition
  /\ MAX_MA_CONDITIONS \in Nat \ {0} /\ MaxRequests \in Nat

VARIABLES
  stored,     \* the rows of the user are there
  enabled,    \* SELL_MA_ALL: its enabled column
  conditions, \* SELL_MA_ALL: the conditions in its params_json
  legacy,     \* rows of the deprecated keys are there
  seeded,     \* _SEEDED_USERS of each process: whether it has the user
  lock,       \* _SEEDED_USERS_LOCK of each process: who holds it
  pc,         \* where the thread is
  request,    \* what it was asked for
  seen,       \* what it read: [stored, legacy, enabled, conditions]
  started,    \* requests started
  overlap     \* history: a row was committed that had changed since it was read

dbVars == <<stored, enabled, conditions, legacy>>
vars == <<dbVars, seeded, lock, pc, request, seen, started, overlap>>

Request == [op : {"page", "enable", "disable"}, condition : {DefaultCondition}]
             \cup [op : {"add", "remove"}, condition : Condition]

Row == [stored : BOOLEAN, legacy : BOOLEAN, enabled : BOOLEAN, conditions : SUBSET Condition]

Points == {"idle", "ensure", "wait", "seed", "load", "save"}

NoRequest == [op |-> "page", condition |-> DefaultCondition]
NoRow     == [stored |-> FALSE, legacy |-> FALSE, enabled |-> FALSE, conditions |-> {}]

\* A database as an older release may have left it, or an empty one.
Init ==
  /\ stored \in BOOLEAN
  /\ legacy \in BOOLEAN
  /\ enabled = stored
  /\ conditions = IF stored THEN {DefaultCondition} ELSE {}
  /\ seeded = [p \in Process |-> FALSE]
  /\ lock = [p \in Process |-> None]
  /\ pc = [t \in Thread |-> "idle"]
  /\ request = [t \in Thread |-> NoRequest]
  /\ seen = [t \in Thread |-> NoRow]
  /\ started = 0
  /\ overlap = FALSE

Database == [stored |-> stored, legacy |-> legacy, enabled |-> enabled, conditions |-> conditions]

\* The request is answered and its session is closed.
Finish(t) ==
  /\ pc' = [pc EXCEPT ![t] = "idle"]
  /\ request' = [request EXCEPT ![t] = NoRequest]
  /\ seen' = [seen EXCEPT ![t] = NoRow]

-----------------------------------------------------------------------------
\* A request for the rules page, or one that changes a rule.
Post(t, r) ==
  /\ pc[t] = "idle"
  /\ started < MaxRequests
  /\ started' = started + 1
  /\ request' = [request EXCEPT ![t] = r]
  /\ pc' = [pc EXCEPT ![t] = "ensure"]
  /\ UNCHANGED <<dbVars, seeded, lock, seen, overlap>>

\* ensure_strategy_rule_defaults: nothing to do once the process has seeded.
Ensure(t) ==
  /\ pc[t] = "ensure"
  /\ pc' = [pc EXCEPT ![t] = IF seeded[Home(t)] THEN "load" ELSE "wait"]
  /\ UNCHANGED <<dbVars, seeded, lock, request, seen, started, overlap>>

\* The lock is free: look again, and read the rows there are.
Acquire(t) ==
  /\ pc[t] = "wait"
  /\ lock[Home(t)] = None
  /\ IF seeded[Home(t)]
     THEN pc' = [pc EXCEPT ![t] = "load"] /\ UNCHANGED <<lock, seen>>
     ELSE /\ lock' = [lock EXCEPT ![Home(t)] = t]
          /\ seen' = [seen EXCEPT ![t] = Database]
          /\ pc' = [pc EXCEPT ![t] = "seed"]
  /\ UNCHANGED <<dbVars, seeded, request, started, overlap>>

\* Mutant of SeedCommit: the process is marked whatever becomes of the commit.
SeedCommitMarksFirst(t) ==
  /\ pc[t] = "seed"
  /\ seeded' = [seeded EXCEPT ![Home(t)] = TRUE]
  /\ lock' = [lock EXCEPT ![Home(t)] = None]
  /\ \/ /\ seen[t].stored \/ ~stored
        /\ stored' = TRUE /\ legacy' = (legacy /\ ~seen[t].legacy)
        /\ enabled' = (enabled \/ ~seen[t].stored)
        /\ conditions' = IF seen[t].stored THEN conditions ELSE {DefaultCondition}
        /\ pc' = [pc EXCEPT ![t] = "load"]
        /\ UNCHANGED <<request, seen>>
     \/ Finish(t) /\ UNCHANGED dbVars
  /\ UNCHANGED <<started, overlap>>

\* Mutant of SeedCommit: the defaults replace a row that came meanwhile.
SeedCommitReplaces(t) ==
  /\ pc[t] = "seed"
  /\ lock' = [lock EXCEPT ![Home(t)] = None]
  /\ stored' = TRUE /\ legacy' = (legacy /\ ~seen[t].legacy)
  /\ enabled' = (enabled \/ ~seen[t].stored)
  /\ conditions' = IF seen[t].stored THEN conditions ELSE {DefaultCondition}
  /\ seeded' = [seeded EXCEPT ![Home(t)] = TRUE]
  /\ pc' = [pc EXCEPT ![t] = "load"]
  /\ seen' = [seen EXCEPT ![t] = NoRow]
  /\ UNCHANGED <<request, started, overlap>>

\* The missing rows go in, the deprecated ones out, and only then is the
\* process marked and the lock released.
SeedCommit(t) ==
  /\ pc[t] = "seed"
  /\ seen[t].stored \/ ~stored
  /\ stored' = TRUE
  /\ legacy' = (legacy /\ ~seen[t].legacy)
  /\ enabled' = (enabled \/ ~seen[t].stored)
  /\ conditions' = IF seen[t].stored THEN conditions ELSE {DefaultCondition}
  /\ seeded' = [seeded EXCEPT ![Home(t)] = TRUE]
  /\ lock' = [lock EXCEPT ![Home(t)] = None]
  /\ pc' = [pc EXCEPT ![t] = "load"]
  /\ seen' = [seen EXCEPT ![t] = NoRow]
  /\ UNCHANGED <<request, started, overlap>>

\* Mutant of SeedFails: the lock is not released by the exception.
SeedFailsLocked(t) ==
  /\ pc[t] = "seed"
  /\ Finish(t)
  /\ UNCHANGED <<dbVars, seeded, lock, started, overlap>>

\* The commit fails: another process inserted the rows meanwhile, which breaks
\* the unique constraint, or the database did.  The request ends in an error.
SeedFails(t) ==
  /\ pc[t] = "seed"
  /\ lock' = [lock EXCEPT ![Home(t)] = None]
  /\ Finish(t)
  /\ UNCHANGED <<dbVars, seeded, started, overlap>>

-----------------------------------------------------------------------------
\* Mutant of Allowed: the last condition goes even while the rule is enabled.
AllowedUnchecked(r, row) ==
  \/ r.op = "enable" /\ row.conditions # {}
  \/ r.op = "disable"
  \/ /\ r.op = "add" /\ r.condition \notin row.conditions
     /\ Cardinality(row.conditions) < MAX_MA_CONDITIONS
  \/ r.op = "remove" /\ r.condition \in row.conditions

\* What the handlers check of the row they loaded.
Allowed(r, row) ==
  \/ r.op = "enable" /\ row.conditions # {}
  \/ r.op = "disable"
  \/ /\ r.op = "add" /\ r.condition \notin row.conditions
     /\ Cardinality(row.conditions) < MAX_MA_CONDITIONS
  \/ /\ r.op = "remove" /\ r.condition \in row.conditions
     /\ row.conditions # {r.condition} \/ ~row.enabled

\* The row is read and checked; the page is rendered, or the request refused.
Load(t) ==
  /\ pc[t] = "load"
  /\ IF Allowed(request[t], Database)
     THEN /\ seen' = [seen EXCEPT ![t] = Database]
          /\ pc' = [pc EXCEPT ![t] = "save"]
          /\ UNCHANGED request
     ELSE Finish(t)
  /\ UNCHANGED <<dbVars, seeded, lock, started, overlap>>

\* The commit updates the columns that differ from what was loaded: enabled
\* for the switch, the whole of params_json for a condition.
Save(t) ==
  LET r == request[t] IN
  /\ pc[t] = "save"
  /\ enabled' = IF r.op = "enable" /\ ~seen[t].enabled THEN TRUE
                ELSE IF r.op = "disable" /\ seen[t].enabled THEN FALSE
                ELSE enabled
  /\ conditions' = IF r.op = "add" THEN seen[t].conditions \cup {r.condition}
                   ELSE IF r.op = "remove" THEN seen[t].conditions \ {r.condition}
                   ELSE conditions
  /\ overlap' = (overlap \/ seen[t] # Database)
  /\ Finish(t)
  /\ UNCHANGED <<stored, legacy, seeded, lock, started>>

\* A process dies and starts again: its memory and its requests are gone.
Restart(p) ==
  /\ \E t \in Thread : Home(t) = p /\ pc[t] # "idle"
  /\ seeded' = [seeded EXCEPT ![p] = FALSE]
  /\ lock' = [lock EXCEPT ![p] = None]
  /\ pc' = [t \in Thread |-> IF Home(t) = p THEN "idle" ELSE pc[t]]
  /\ request' = [t \in Thread |-> IF Home(t) = p THEN NoRequest ELSE request[t]]
  /\ seen' = [t \in Thread |-> IF Home(t) = p THEN NoRow ELSE seen[t]]
  /\ UNCHANGED <<dbVars, started, overlap>>

Step(t) ==
  Ensure(t) \/ Acquire(t) \/ SeedCommit(t) \/ SeedFails(t) \/ Load(t) \/ Save(t)

\* Every request has been answered and no more will come.
Over ==
  /\ started = MaxRequests
  /\ \A t \in Thread : pc[t] = "idle"
  /\ UNCHANGED vars

Next ==
  \/ \E t \in Thread : Step(t) \/ \E r \in Request : Post(t, r)
  \/ \E p \in Process : Restart(p)
  \/ Over

Spec == Init /\ [][Next]_vars

\* A thread that can go on does.
FairSpec == Spec /\ \A t \in Thread : WF_vars(Step(t))

-----------------------------------------------------------------------------
TypeOK ==
  /\ stored \in BOOLEAN /\ legacy \in BOOLEAN /\ enabled \in BOOLEAN
  /\ conditions \subseteq Condition
  /\ seeded \in [Process -> BOOLEAN]
  /\ lock \in [Process -> Thread \cup {None}]
  /\ pc \in [Thread -> Points]
  /\ request \in [Thread -> Request]
  /\ seen \in [Thread -> Row]
  /\ started \in 0..MaxRequests
  /\ overlap \in BOOLEAN

\* A process that takes the short cut is right to: the user's rows are in the
\* database and the deprecated ones are gone, whatever failed or restarted.
SeededMeansStored ==
  \A p \in Process : seeded[p] => stored /\ ~legacy

\* Seeding only ever fills gaps: what a user has made of a row survives the
\* first request of every other process and every restart.
DefaultsNeverOverwrite ==
  [][(stored /\ \E t \in Thread : pc[t] = "seed" /\ pc'[t] # "seed")
       => enabled' = enabled /\ conditions' = conditions]_vars

\* One thread of a process seeds at a time.
OneSeeder ==
  \A t \in Thread : pc[t] = "seed" => lock[Home(t)] = t

\* An enabled SELL_MA_ALL has a condition unless two requests overlapped: each
\* change alone keeps it so.
EmptyNeedsOverlap ==
  (stored /\ enabled /\ conditions = {}) => overlap

\* Every request is answered: a seed that fails lets the next one try.
RequestsEnd == \A t \in Thread : (pc[t] # "idle") ~> (pc[t] = "idle")
=============================================================================
