--------------------------- MODULE RuleStoreProofs ---------------------------
(***************************************************************************)
(* The rules of one user, for every number of processes, of threads in     *)
(* them and of requests.                                                   *)
(***************************************************************************)
EXTENDS RuleStore, TLAPS

\* Rows are never deleted and the deprecated ones never come back: what a
\* seeding thread saw is still so.
SeenLasts ==
  \A t \in Thread : pc[t] = "seed" =>
    (seen[t].stored => stored) /\ (legacy => seen[t].legacy)

\* A thread about to save was allowed to by the row it loaded.
SavesAllowed == \A t \in Thread : pc[t] = "save" => Allowed(request[t], seen[t])

\* The inductive invariant behind SeededMeansStored and EmptyNeedsOverlap.
IInv == TypeOK /\ SeenLasts /\ SavesAllowed /\ SeededMeansStored /\ EmptyNeedsOverlap

-----------------------------------------------------------------------------
(* Helpers.                                                                *)

LEMMA Defaults ==
  /\ NoRequest \in Request /\ NoRow \in Row
  /\ {DefaultCondition} \subseteq Condition /\ {DefaultCondition} # {}
BY StoreAssumption DEF NoRequest, Request, NoRow, Row

\* What is read from the database is a row.
LEMMA DatabaseIsRow == ASSUME TypeOK PROVE Database \in Row
BY DEF TypeOK, Database, Row

\* A finished thread holds nothing; the others are not touched.
LEMMA FinishFrame ==
  ASSUME TypeOK, NEW t \in Thread, Finish(t)
  PROVE  /\ pc' \in [Thread -> Points] /\ request' \in [Thread -> Request]
         /\ seen' \in [Thread -> Row]
         /\ pc'[t] = "idle"
         /\ \A s \in Thread \ {t} :
              pc'[s] = pc[s] /\ request'[s] = request[s] /\ seen'[s] = seen[s]
BY Defaults DEF TypeOK, Finish, Points

\* A step that leaves the database alone, moves one thread and hands out no
\* new permission to seed or to save.
LEMMA Quiet ==
  ASSUME IInv, NEW t \in Thread, UNCHANGED <<dbVars, overlap>>,
         \A p \in Process : seeded'[p] => seeded[p],
         pc'[t] \notin {"seed", "save"},
         \A s \in Thread \ {t} :
           pc'[s] = pc[s] /\ request'[s] = request[s] /\ seen'[s] = seen[s]
  PROVE  SeenLasts' /\ SavesAllowed' /\ SeededMeansStored' /\ EmptyNeedsOverlap'
<1>1. SeenLasts' /\ SeededMeansStored' /\ EmptyNeedsOverlap'
  BY DEF IInv, SeenLasts, SeededMeansStored, EmptyNeedsOverlap, dbVars
<1>2. ASSUME NEW s \in Thread, pc'[s] = "save" PROVE Allowed(request'[s], seen'[s])
  <2>1. s # t /\ pc[s] = "save" /\ request'[s] = request[s] /\ seen'[s] = seen[s]
    BY <1>2
  <2> QED BY <2>1 DEF IInv, SavesAllowed
<1>3. SavesAllowed'
  BY <1>2 DEF SavesAllowed, Allowed
<1> QED BY <1>1, <1>3

\* The permissions of the other threads survive any step of t.
LEMMA OthersAllowed ==
  ASSUME SavesAllowed, NEW t \in Thread,
         pc'[t] = "save" => Allowed(request'[t], seen'[t]),
         \A s \in Thread \ {t} :
           pc'[s] = pc[s] /\ request'[s] = request[s] /\ seen'[s] = seen[s]
  PROVE  SavesAllowed'
<1>1. ASSUME NEW s \in Thread, pc'[s] = "save" PROVE Allowed(request'[s], seen'[s])
  <2>1. CASE s = t
    BY <1>1, <2>1
  <2>2. CASE s # t
    <3>1. pc[s] = "save" /\ request'[s] = request[s] /\ seen'[s] = seen[s]
      BY <1>1, <2>2
    <3> QED BY <3>1 DEF SavesAllowed
  <2> QED BY <2>1, <2>2
<1> QED BY <1>1 DEF SavesAllowed, Allowed

-----------------------------------------------------------------------------
(* Each action keeps the invariant.                                        *)

LEMMA PostInv == ASSUME IInv, NEW t \in Thread, NEW r \in Request, Post(t, r) PROVE IInv'
<1>1. TypeOK'
  BY StoreAssumption DEF IInv, TypeOK, Post, Points, dbVars
<1>2. /\ UNCHANGED <<dbVars, overlap, seeded, seen>> /\ pc'[t] = "ensure"
      /\ \A s \in Thread \ {t} : pc'[s] = pc[s] /\ request'[s] = request[s] /\ seen'[s] = seen[s]
  BY DEF IInv, TypeOK, Post
<1> QED BY <1>1, <1>2, Quiet DEF IInv

LEMMA EnsureInv == ASSUME IInv, NEW t \in Thread, Ensure(t) PROVE IInv'
<1>1. TypeOK'
  BY DEF IInv, TypeOK, Ensure, Points, dbVars
<1>2. /\ UNCHANGED <<dbVars, overlap, seeded, seen, request>> /\ pc'[t] \in {"load", "wait"}
      /\ \A s \in Thread \ {t} : pc'[s] = pc[s] /\ request'[s] = request[s] /\ seen'[s] = seen[s]
  BY DEF IInv, TypeOK, Ensure
<1> QED BY <1>1, <1>2, Quiet DEF IInv

LEMMA AcquireInv == ASSUME IInv, NEW t \in Thread, Acquire(t) PROVE IInv'
<1>1. CASE seeded[Home(t)]
  <2>1. TypeOK'
    BY <1>1 DEF IInv, TypeOK, Acquire, Points, dbVars
  <2>2. /\ UNCHANGED <<dbVars, overlap, seeded, seen, request>> /\ pc'[t] = "load"
        /\ \A s \in Thread \ {t} : pc'[s] = pc[s] /\ request'[s] = request[s] /\ seen'[s] = seen[s]
    BY <1>1 DEF IInv, TypeOK, Acquire
  <2> QED BY <2>1, <2>2, Quiet DEF IInv
<1>2. CASE ~seeded[Home(t)]
  <2>1. /\ UNCHANGED <<dbVars, seeded, request, started, overlap>>
        /\ lock' = [lock EXCEPT ![Home(t)] = t]
        /\ seen' = [seen EXCEPT ![t] = Database] /\ pc' = [pc EXCEPT ![t] = "seed"]
    BY <1>2 DEF Acquire
  <2>2. TypeOK'
    BY <2>1, DatabaseIsRow DEF IInv, TypeOK, Points, dbVars
  <2>3. /\ pc'[t] = "seed" /\ seen'[t] = Database
        /\ \A s \in Thread \ {t} : pc'[s] = pc[s] /\ request'[s] = request[s] /\ seen'[s] = seen[s]
    BY <2>1 DEF IInv, TypeOK
  <2>4. SeenLasts'
    BY <2>1, <2>3 DEF IInv, SeenLasts, Database, dbVars
  <2>5. SavesAllowed'
    BY <2>3, OthersAllowed DEF IInv
  <2>6. SeededMeansStored' /\ EmptyNeedsOverlap'
    BY <2>1 DEF IInv, SeededMeansStored, EmptyNeedsOverlap, dbVars
  <2> QED BY <2>2, <2>4, <2>5, <2>6 DEF IInv
<1> QED BY <1>1, <1>2

LEMMA SeedCommitInv == ASSUME IInv, NEW t \in Thread, SeedCommit(t) PROVE IInv'
<1>1. /\ pc[t] = "seed" /\ (seen[t].stored \/ ~stored) /\ stored'
      /\ legacy' = (legacy /\ ~seen[t].legacy)
      /\ enabled' = (enabled \/ ~seen[t].stored)
      /\ conditions' = IF seen[t].stored THEN conditions ELSE {DefaultCondition}
      /\ seeded' = [seeded EXCEPT ![Home(t)] = TRUE]
      /\ lock' = [lock EXCEPT ![Home(t)] = None]
      /\ pc' = [pc EXCEPT ![t] = "load"] /\ seen' = [seen EXCEPT ![t] = NoRow]
      /\ UNCHANGED <<request, started, overlap>>
  BY DEF SeedCommit
<1>2. /\ seen[t] \in Row /\ seen[t].stored \in BOOLEAN /\ seen[t].legacy \in BOOLEAN
      /\ (seen[t].stored => stored) /\ (legacy => seen[t].legacy)
  BY <1>1 DEF IInv, TypeOK, SeenLasts, Row
<1>3. stored' = TRUE
  BY DEF SeedCommit
<1>4. legacy' = FALSE
  BY <1>1, <1>2
<1>5. TypeOK'
  <2>1. legacy' \in BOOLEAN /\ enabled' \in BOOLEAN /\ stored' \in BOOLEAN
    BY <1>1, <1>3, <1>4 DEF IInv, TypeOK
  <2>2. conditions' \subseteq Condition
    BY <1>1, Defaults DEF IInv, TypeOK
  <2>3. /\ seeded' \in [Process -> BOOLEAN] /\ lock' \in [Process -> Thread \cup {None}]
        /\ pc' \in [Thread -> Points] /\ seen' \in [Thread -> Row]
    BY <1>1, Defaults DEF IInv, TypeOK, Points
  <2> QED BY <1>1, <2>1, <2>2, <2>3 DEF IInv, TypeOK
<1>6. /\ pc'[t] = "load"
      /\ \A s \in Thread \ {t} : pc'[s] = pc[s] /\ request'[s] = request[s] /\ seen'[s] = seen[s]
  BY <1>1 DEF IInv, TypeOK
<1>7. SeenLasts'
  BY <1>3, <1>4, <1>6 DEF SeenLasts
<1>8. SavesAllowed'
  BY <1>6, OthersAllowed DEF IInv
<1>9. SeededMeansStored'
  BY <1>3, <1>4 DEF SeededMeansStored
<1>10. EmptyNeedsOverlap'
  <2>1. CASE seen[t].stored
    BY <1>1, <1>2, <2>1 DEF IInv, EmptyNeedsOverlap
  <2>2. CASE ~seen[t].stored
    BY <1>1, <2>2, Defaults DEF EmptyNeedsOverlap
  <2> QED BY <2>1, <2>2
<1> QED BY <1>5, <1>7, <1>8, <1>9, <1>10 DEF IInv

LEMMA SeedFailsInv == ASSUME IInv, NEW t \in Thread, SeedFails(t) PROVE IInv'
<1>1. /\ lock' = [lock EXCEPT ![Home(t)] = None] /\ Finish(t)
      /\ UNCHANGED <<dbVars, seeded, started, overlap>>
  BY DEF SeedFails
<1>2. /\ pc' \in [Thread -> Points] /\ request' \in [Thread -> Request]
      /\ seen' \in [Thread -> Row] /\ pc'[t] = "idle"
      /\ \A s \in Thread \ {t} : pc'[s] = pc[s] /\ request'[s] = request[s] /\ seen'[s] = seen[s]
  BY <1>1, FinishFrame DEF IInv
<1>3. TypeOK'
  BY <1>1, <1>2 DEF IInv, TypeOK, dbVars
<1> QED BY <1>1, <1>2, <1>3, Quiet DEF IInv

LEMMA LoadInv == ASSUME IInv, NEW t \in Thread, Load(t) PROVE IInv'
<1>1. CASE Allowed(request[t], Database)
  <2>1. /\ UNCHANGED <<dbVars, seeded, lock, request, started, overlap>>
        /\ seen' = [seen EXCEPT ![t] = Database] /\ pc' = [pc EXCEPT ![t] = "save"]
    BY <1>1 DEF Load
  <2>2. TypeOK'
    BY <2>1, DatabaseIsRow DEF IInv, TypeOK, Points, dbVars
  <2>3. /\ pc'[t] = "save" /\ seen'[t] = Database /\ request'[t] = request[t]
        /\ \A s \in Thread \ {t} : pc'[s] = pc[s] /\ request'[s] = request[s] /\ seen'[s] = seen[s]
    BY <2>1 DEF IInv, TypeOK
  <2>4. SavesAllowed'
    BY <1>1, <2>3, OthersAllowed DEF IInv
  <2>5. SeenLasts' /\ SeededMeansStored' /\ EmptyNeedsOverlap'
    BY <2>1, <2>3 DEF IInv, SeenLasts, SeededMeansStored, EmptyNeedsOverlap, dbVars
  <2> QED BY <2>2, <2>4, <2>5 DEF IInv
<1>2. CASE ~Allowed(request[t], Database)
  <2>1. Finish(t) /\ UNCHANGED <<dbVars, seeded, lock, started, overlap>>
    BY <1>2 DEF Load
  <2>2. /\ pc' \in [Thread -> Points] /\ request' \in [Thread -> Request]
        /\ seen' \in [Thread -> Row] /\ pc'[t] = "idle"
        /\ \A s \in Thread \ {t} : pc'[s] = pc[s] /\ request'[s] = request[s] /\ seen'[s] = seen[s]
    BY <2>1, FinishFrame DEF IInv
  <2>3. TypeOK'
    BY <2>1, <2>2 DEF IInv, TypeOK, dbVars
  <2> QED BY <2>1, <2>2, <2>3, Quiet DEF IInv
<1> QED BY <1>1, <1>2

LEMMA SaveInv == ASSUME IInv, NEW t \in Thread, Save(t) PROVE IInv'
<1>1. /\ pc[t] = "save" /\ Finish(t)
      /\ enabled' = IF request[t].op = "enable" /\ ~seen[t].enabled THEN TRUE
                    ELSE IF request[t].op = "disable" /\ seen[t].enabled THEN FALSE
                    ELSE enabled
      /\ conditions' = IF request[t].op = "add" THEN seen[t].conditions \cup {request[t].condition}
                       ELSE IF request[t].op = "remove"
                            THEN seen[t].conditions \ {request[t].condition}
                       ELSE conditions
      /\ overlap' = (overlap \/ seen[t] # Database)
      /\ UNCHANGED <<stored, legacy, seeded, lock, started>>
  BY DEF Save
<1>2. /\ request[t] \in Request /\ seen[t] \in Row
      /\ seen[t].enabled \in BOOLEAN /\ seen[t].conditions \subseteq Condition
      /\ request[t].condition \in Condition
      /\ request[t].op \in {"page", "enable", "disable", "add", "remove"}
  BY StoreAssumption DEF IInv, TypeOK, Request, Row
<1>3. /\ pc' \in [Thread -> Points] /\ request' \in [Thread -> Request]
      /\ seen' \in [Thread -> Row] /\ pc'[t] = "idle"
      /\ \A s \in Thread \ {t} : pc'[s] = pc[s] /\ request'[s] = request[s] /\ seen'[s] = seen[s]
  BY <1>1, FinishFrame DEF IInv
<1>4. enabled' \in BOOLEAN
  BY <1>1 DEF IInv, TypeOK
<1>5. conditions' \subseteq Condition
  BY <1>1, <1>2 DEF IInv, TypeOK
<1>6. TypeOK'
  BY <1>1, <1>3, <1>4, <1>5 DEF IInv, TypeOK
<1>7. SeenLasts' /\ SeededMeansStored'
  BY <1>1, <1>3 DEF IInv, SeenLasts, SeededMeansStored
<1>8. SavesAllowed'
  BY <1>3, OthersAllowed DEF IInv
<1>9. EmptyNeedsOverlap'
  <2> SUFFICES ASSUME stored, enabled', conditions' = {}, ~overlap' PROVE FALSE
    BY <1>1 DEF EmptyNeedsOverlap
  <2>1. seen[t].enabled = enabled /\ seen[t].conditions = conditions
    <3>1. seen[t] = Database
      BY <1>1, Zenon
    <3> QED BY <3>1 DEF Database
  <2>2. Allowed(request[t], seen[t])
    BY <1>1 DEF IInv, SavesAllowed
  <2>3. CASE request[t].op = "page"
    BY <2>2, <2>3 DEF Allowed
  <2>4. CASE request[t].op = "enable"
    BY <1>1, <2>1, <2>2, <2>4 DEF Allowed
  <2>5. CASE request[t].op = "disable"
    BY <1>1, <2>1, <2>5
  <2>6. CASE request[t].op = "add"
    BY <1>1, <2>6
  <2>7. CASE request[t].op = "remove"
    <3>1. /\ request[t].condition \in conditions
          /\ conditions # {request[t].condition} \/ ~enabled
      BY <2>1, <2>2, <2>7 DEF Allowed
    <3>2. enabled' = enabled /\ conditions' = conditions \ {request[t].condition}
      BY <1>1, <2>1, <2>7
    <3> QED BY <3>1, <3>2
  <2> QED BY <1>2, <2>3, <2>4, <2>5, <2>6, <2>7
<1> QED BY <1>6, <1>7, <1>8, <1>9 DEF IInv

LEMMA RestartInv == ASSUME IInv, NEW p \in Process, Restart(p) PROVE IInv'
<1>1. /\ seeded' = [seeded EXCEPT ![p] = FALSE] /\ lock' = [lock EXCEPT ![p] = None]
      /\ pc' = [t \in Thread |-> IF Home(t) = p THEN "idle" ELSE pc[t]]
      /\ request' = [t \in Thread |-> IF Home(t) = p THEN NoRequest ELSE request[t]]
      /\ seen' = [t \in Thread |-> IF Home(t) = p THEN NoRow ELSE seen[t]]
      /\ UNCHANGED <<dbVars, started, overlap>>
  BY DEF Restart
<1>2. TypeOK'
  BY <1>1, Defaults DEF IInv, TypeOK, Points, dbVars
<1>3. SeenLasts' /\ SeededMeansStored' /\ EmptyNeedsOverlap'
  BY <1>1 DEF IInv, TypeOK, SeenLasts, SeededMeansStored, EmptyNeedsOverlap, dbVars
<1>4. ASSUME NEW t \in Thread, pc'[t] = "save" PROVE Allowed(request'[t], seen'[t])
  <2>1. pc[t] = "save" /\ request'[t] = request[t] /\ seen'[t] = seen[t]
    BY <1>1, <1>4
  <2> QED BY <2>1 DEF IInv, SavesAllowed
<1>5. SavesAllowed'
  BY <1>4 DEF SavesAllowed, Allowed
<1> QED BY <1>2, <1>3, <1>5 DEF IInv

LEMMA StutterInv == ASSUME IInv, UNCHANGED vars PROVE IInv'
BY DEF vars, dbVars, IInv, TypeOK, SeenLasts, SavesAllowed, Allowed, SeededMeansStored,
       EmptyNeedsOverlap

LEMMA NextInv == ASSUME IInv, [Next]_vars PROVE IInv'
<1>1. CASE UNCHANGED vars
  BY <1>1, StutterInv
<1>2. ASSUME NEW t \in Thread, Step(t) PROVE IInv'
  BY <1>2, EnsureInv, AcquireInv, SeedCommitInv, SeedFailsInv, LoadInv, SaveInv DEF Step
<1>3. CASE Over
  BY <1>3, StutterInv DEF Over
<1> QED BY <1>1, <1>2, <1>3, PostInv, RestartInv DEF Next

LEMMA InitInv == ASSUME Init PROVE IInv
<1>1. /\ seeded \in [Process -> BOOLEAN] /\ lock \in [Process -> Thread \cup {None}]
      /\ pc \in [Thread -> Points] /\ request \in [Thread -> Request] /\ seen \in [Thread -> Row]
  BY Defaults DEF Init, Points
<1>2. /\ stored \in BOOLEAN /\ legacy \in BOOLEAN /\ enabled = stored /\ overlap = FALSE
      /\ conditions = IF stored THEN {DefaultCondition} ELSE {}
  BY DEF Init
<1>3. started \in 0..MaxRequests
  BY StoreAssumption DEF Init
<1>4. TypeOK
  BY <1>1, <1>2, <1>3, Defaults DEF TypeOK
<1>5. SeenLasts /\ SavesAllowed /\ SeededMeansStored
  BY DEF Init, SeenLasts, SavesAllowed, SeededMeansStored
<1>6. EmptyNeedsOverlap
  BY <1>2 DEF EmptyNeedsOverlap
<1> QED BY <1>4, <1>5, <1>6 DEF IInv

\* The inductive invariant holds in every reachable state.
THEOREM InductiveInvariant == Spec => []IInv
BY InitInv, NextInv, PTL DEF Spec

\* The variables have their types.
THEOREM TypeCorrect == Spec => []TypeOK
BY InductiveInvariant, PTL DEF IInv

\* A process that remembers having seeded a user is right to: the rows are in
\* the database and the deprecated ones are gone.
THEOREM SeedingIsDone == Spec => []SeededMeansStored
BY InductiveInvariant, PTL DEF IInv

\* An enabled rule without conditions takes two requests that overlap.
THEOREM EmptyTakesOverlap == Spec => []EmptyNeedsOverlap
BY InductiveInvariant, PTL DEF IInv

\* Seeding never changes a row that is there.
THEOREM SeedingNeverOverwrites == Spec => DefaultsNeverOverwrite
<1> DEFINE SeedEnds == stored /\ \E t \in Thread : pc[t] = "seed" /\ pc'[t] # "seed"
<1>1. ASSUME IInv, [Next]_vars, SeedEnds PROVE enabled' = enabled /\ conditions' = conditions
  <2>1. PICK t \in Thread : stored /\ pc[t] = "seed" /\ pc'[t] # "seed"
    BY <1>1
  <2>2. ASSUME NEW s \in Thread, Step(s)
        PROVE  SeedCommit(s) \/ UNCHANGED dbVars \/ (s # t /\ Finish(s))
    BY <2>1, <2>2 DEF Step, Ensure, Acquire, SeedFails, Load, Save
  <2>3. ASSUME NEW s \in Thread, SeedCommit(s)
        PROVE  enabled' = enabled /\ conditions' = conditions
    BY <1>1, <2>1, <2>3 DEF SeedCommit, IInv, TypeOK
  <2>4. ASSUME NEW s \in Thread, s # t, Finish(s) PROVE FALSE
    BY <1>1, <2>1, <2>4, FinishFrame DEF IInv
  <2>5. ASSUME NEW s \in Thread, NEW r \in Request, Post(s, r) PROVE UNCHANGED dbVars
    BY <2>5 DEF Post
  <2>6. ASSUME NEW p \in Process, Restart(p) PROVE UNCHANGED dbVars
    BY <2>6 DEF Restart
  <2>7. ASSUME UNCHANGED vars \/ Over PROVE UNCHANGED dbVars
    BY <2>7 DEF Over, vars
  <2> QED BY <1>1, <2>2, <2>3, <2>4, <2>5, <2>6, <2>7 DEF Next, dbVars
<1>2. IInv /\ [Next]_vars => [SeedEnds => enabled' = enabled /\ conditions' = conditions]_vars
  BY <1>1
<1> QED BY <1>2, InductiveInvariant, PTL DEF Spec, DefaultsNeverOverwrite
=============================================================================
