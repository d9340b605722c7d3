-------------------------- MODULE RefreshLifecycle --------------------------
(***************************************************************************)
(* The life of the refresh flag of a position: positions.                  *)
(* refresh_in_progress and positions.refresh_started_at, as written by the *)
(* route handlers of app/main.py, by the two background tasks that run     *)
(* after their responses, by the stale sweep and by start-up.              *)
(*                                                                         *)
(* A flow is one request together with the background task it schedules:   *)
(* FastAPI runs handlers and tasks on a pool of threads, so flows          *)
(* interleave at every database statement.  A SQLAlchemy session keeps the *)
(* rows it loaded (autoflush=False, expire_on_commit=False) and an UPDATE  *)
(* carries only the columns whose value differs from the one loaded.       *)
(* loaded, memFlag and memLease are that in-memory copy; a flow writes     *)
(* what differs from its copy, not what differs from the database.         *)
(*                                                                         *)
(* Time appears only as the age of refresh_started_at, counted in ticks up *)
(* to StaleAfter, the age at which the sweep takes the row for abandoned.  *)
(***************************************************************************)
EXTENDS Naturals

CONSTANTS
  Pos,         \* position ids of one user
  Flow,        \* concurrent requests, each with its background task
  StaleAfter,  \* REFRESH_STALE_TIMEOUT_MINUTES, in ticks
  None         \* NULL in refresh_started_at

ASSUME StaleAfterAssumption == StaleAfter \in Nat \ {0}
ASSUME NoneAssumption == None \notin Nat

VARIABLES
  up,        \* the server process is running
  rows,      \* rows of table positions
  flagged,   \* rows with refresh_in_progress
  age,       \* age of refresh_started_at, or None
  pc,        \* where each flow stands
  kind,      \* which background task the flow schedules
  ids,       \* position ids captured by the request
  loaded,    \* rows in the flow's session
  memFlag,   \* of those, rows with refresh_in_progress in memory
  memLease,  \* of those, rows with refresh_started_at not None in memory
  todo,      \* rows of ticker groups that refresh-all still has to refresh
  orphaned   \* history: flagged rows whose task died before clearing them

db   == <<rows, flagged, age>>
mem  == <<loaded, memFlag, memLease>>
vars == <<up, rows, flagged, age, pc, kind, ids, loaded, memFlag, memLease,
          todo, orphaned>>

PCs == {"idle",
        "check", "list",          \* handler, before anything is marked
        "load", "mark",           \* handler, _mark_positions_refresh_state(True)
        "queued", "running",      \* background task
        "closing", "clearing"}    \* the task's finally block
Kinds == {"single", "all"}

TypeOK ==
  /\ up \in BOOLEAN
  /\ rows \in SUBSET Pos
  /\ flagged \in SUBSET rows
  /\ age \in [Pos -> 0..StaleAfter \union {None}]
  /\ pc \in [Flow -> PCs]
  /\ kind \in [Flow -> Kinds]
  /\ ids \in [Flow -> SUBSET Pos]
  /\ loaded \in [Flow -> SUBSET Pos]
  /\ memFlag \in [Flow -> SUBSET Pos]
  /\ memLease \in [Flow -> SUBSET Pos]
  /\ todo \in [Flow -> SUBSET Pos]
  /\ orphaned \in SUBSET flagged

Init ==
  /\ up = TRUE
  /\ rows \in SUBSET Pos
  /\ flagged = {}
  /\ age = [p \in Pos |-> None]
  /\ pc = [f \in Flow |-> "idle"]
  /\ kind = [f \in Flow |-> "single"]
  /\ ids = [f \in Flow |-> {}]
  /\ loaded = [f \in Flow |-> {}]
  /\ memFlag = [f \in Flow |-> {}]
  /\ memLease = [f \in Flow |-> {}]
  /\ todo = [f \in Flow |-> {}]
  /\ orphaned = {}

-----------------------------------------------------------------------------
(* Reading and writing rows.                                               *)

Leased == {p \in Pos : age[p] # None}
\* Mutant of Stale: the sweep asks for more than the age a row can reach.
StaleNever == {p \in flagged : age[p] # None /\ age[p] > StaleAfter}

Stale  == {p \in flagged : age[p] = StaleAfter}

\* The session of f holds exactly the rows S, as they are now.
Load(f, S) ==
  /\ loaded' = [loaded EXCEPT ![f] = S]
  /\ memFlag' = [memFlag EXCEPT ![f] = S \intersect flagged]
  /\ memLease' = [memLease EXCEPT ![f] = S \intersect Leased]

\* Flow f is over: its session is closed.
Finish(f) ==
  /\ pc' = [pc EXCEPT ![f] = "idle"]
  /\ kind' = [kind EXCEPT ![f] = "single"]
  /\ ids' = [ids EXCEPT ![f] = {}]
  /\ loaded' = [loaded EXCEPT ![f] = {}]
  /\ memFlag' = [memFlag EXCEPT ![f] = {}]
  /\ memLease' = [memLease EXCEPT ![f] = {}]
  /\ todo' = [todo EXCEPT ![f] = {}]

Goto(f, l) == pc' = [pc EXCEPT ![f] = l]

\* Mutant of WriteClear: only refresh_started_at is reset.
WriteClearLeaseOnly(f, S) ==
  /\ age' = [p \in Pos |-> IF p \in S \intersect memLease[f] THEN None ELSE age[p]]
  /\ UNCHANGED <<flagged, orphaned>>

\* Rows S set to False and None by the session of f.  A column that already
\* had that value in memory is not part of the UPDATE.
WriteClear(f, S) ==
  /\ flagged' = flagged \ (S \intersect memFlag[f])
  /\ age' = [p \in Pos |-> IF p \in S \intersect memLease[f] THEN None ELSE age[p]]
  /\ orphaned' = orphaned \intersect flagged'

\* The bulk UPDATE that clears abandoned flags.
SweepStale ==
  /\ flagged' = flagged \ Stale
  /\ age' = [p \in Pos |-> IF p \in Stale THEN None ELSE age[p]]
  /\ orphaned' = orphaned \ Stale

-----------------------------------------------------------------------------
(* Requests.                                                               *)

\* GET / and GET /portfolio/themes sweep before they render.
PortfolioView ==
  /\ up
  /\ SweepStale
  /\ UNCHANGED <<up, rows, pc, kind, ids, mem, todo>>

\* POST /refresh/{position_id}
SinglePost(f, p) ==
  /\ up /\ pc[f] = "idle"
  /\ SweepStale
  /\ Goto(f, "check")
  /\ kind' = [kind EXCEPT ![f] = "single"]
  /\ ids' = [ids EXCEPT ![f] = {p}]
  /\ UNCHANGED <<up, rows, mem, todo>>

\* The row is read; the handler goes on only if it is there and not flagged.
SingleCheck(f) ==
  /\ pc[f] = "check" /\ kind[f] = "single"
  /\ \/ /\ ids[f] \subseteq rows \ flagged
        /\ Load(f, ids[f])
        /\ Goto(f, "mark")
        /\ UNCHANGED <<kind, ids, todo>>
     \/ /\ ~(ids[f] \subseteq rows \ flagged)
        /\ Finish(f)
  /\ UNCHANGED <<up, db, orphaned>>

\* POST /refresh
AllPost(f) ==
  /\ up /\ pc[f] = "idle"
  /\ SweepStale
  /\ Goto(f, "check")
  /\ kind' = [kind EXCEPT ![f] = "all"]
  /\ UNCHANGED <<up, rows, ids, mem, todo>>

AllCheck(f) ==
  /\ pc[f] = "check" /\ kind[f] = "all"
  /\ \/ /\ flagged = {}
        /\ Goto(f, "list")
        /\ UNCHANGED <<kind, ids, mem, todo>>
     \/ /\ flagged # {}
        /\ Finish(f)
  /\ UNCHANGED <<up, db, orphaned>>

AllList(f) ==
  /\ pc[f] = "list"
  /\ \/ /\ rows # {}
        /\ ids' = [ids EXCEPT ![f] = rows]
        /\ Goto(f, "load")
        /\ UNCHANGED <<kind, mem, todo>>
     \/ /\ rows = {}
        /\ Finish(f)
  /\ UNCHANGED <<up, db, orphaned>>

\* POST /add commits the new row; p stands for the id the database gives it.
AddPost(f, p) ==
  /\ up /\ pc[f] = "idle"
  /\ p \notin rows
  /\ rows' = rows \union {p}
  /\ Goto(f, "load")
  /\ kind' = [kind EXCEPT ![f] = "single"]
  /\ ids' = [ids EXCEPT ![f] = {p}]
  /\ UNCHANGED <<up, flagged, age, mem, todo, orphaned>>

\* The rows to be marked are read: get_by_ids in refresh_all, refresh_instance
\* in add_position (which raises if the row is gone, see RequestEnds).
MarkLoad(f) ==
  /\ pc[f] = "load"
  /\ kind[f] = "single" => ids[f] \subseteq rows
  /\ Load(f, ids[f] \intersect rows)
  /\ Goto(f, "mark")
  /\ UNCHANGED <<up, db, kind, ids, todo, orphaned>>

\* POST /edit/{position_id} with another ticker: the row is read, then saved.
\* Saving writes no column modelled here; there is no check of the flag.
EditPost(f, p) ==
  /\ up /\ pc[f] = "idle"
  /\ p \in rows
  /\ Load(f, {p})
  /\ Goto(f, "mark")
  /\ kind' = [kind EXCEPT ![f] = "single"]
  /\ ids' = [ids EXCEPT ![f] = {p}]
  /\ UNCHANGED <<up, db, todo, orphaned>>

\* Mutant of Mark: refresh_started_at is not set.
MarkWithoutLease(f) ==
  /\ pc[f] = "mark" /\ loaded[f] \subseteq rows
  /\ flagged' = flagged \union (loaded[f] \ memFlag[f])
  /\ Goto(f, "queued")
  /\ UNCHANGED <<up, rows, age, kind, ids, mem, todo, orphaned>>

\* Mutant of Mark: a row deleted meanwhile is inserted again.
MarkUpserts(f) ==
  /\ pc[f] = "mark"
  /\ flagged' = flagged \union (loaded[f] \ memFlag[f])
  /\ age' = [p \in Pos |-> IF p \in loaded[f] THEN 0 ELSE age[p]]
  /\ Goto(f, "queued")
  /\ UNCHANGED <<up, rows, kind, ids, mem, todo, orphaned>>

\* _mark_positions_refresh_state(in_progress=True) commits and the background
\* task is scheduled.  refresh_started_at always differs from the copy; the
\* flag is written only where the copy says False.  An UPDATE that misses a row
\* because it was deleted fails the commit, here and below.
Mark(f) ==
  /\ pc[f] = "mark" /\ loaded[f] \subseteq rows
  /\ flagged' = flagged \union (loaded[f] \ memFlag[f])
  /\ age' = [p \in Pos |-> IF p \in loaded[f] THEN 0 ELSE age[p]]
  /\ Goto(f, "queued")
  /\ UNCHANGED <<up, rows, kind, ids, mem, todo, orphaned>>

\* The handler returns before it marks anything: tier limit reached, user
\* unknown, no API key, the row is gone, or a commit fails.
RequestEnds(f) ==
  /\ pc[f] \in {"check", "list", "load", "mark"}
  /\ Finish(f)
  /\ UNCHANGED <<up, db, orphaned>>

\* POST /delete/{position_id}
Delete(p) ==
  /\ up /\ p \in rows
  /\ rows' = rows \ {p}
  /\ flagged' = flagged \ {p}
  /\ age' = [age EXCEPT ![p] = None]
  /\ orphaned' = orphaned \ {p}
  /\ UNCHANGED <<up, pc, kind, ids, mem, todo>>

-----------------------------------------------------------------------------
(* Background tasks.                                                       *)

\* _refresh_single_position_task reads the row in a session of its own.
SingleLoad(f) ==
  /\ pc[f] = "queued" /\ kind[f] = "single"
  /\ Load(f, ids[f] \intersect rows)
  /\ Goto(f, IF ids[f] \subseteq rows THEN "running" ELSE "closing")
  /\ UNCHANGED <<up, db, kind, ids, todo, orphaned>>

\* refresh_position ends: data, verdict and cleared flag in one commit.
SingleDone(f) ==
  /\ pc[f] = "running" /\ kind[f] = "single"
  /\ loaded[f] \subseteq rows
  /\ WriteClear(f, loaded[f])
  /\ Finish(f)
  /\ UNCHANGED <<up, rows>>

\* refresh_all_positions reads every row of the user and plans which ticker
\* groups need data.
AllLoad(f) ==
  /\ pc[f] = "queued" /\ kind[f] = "all"
  /\ Load(f, rows)
  /\ \E need \in SUBSET rows : todo' = [todo EXCEPT ![f] = need]
  /\ Goto(f, "running")
  /\ UNCHANGED <<up, db, kind, ids, orphaned>>

\* One ticker group is refreshed and committed.  Its rows are cleared, every
\* other row flagged in memory gets a new refresh_started_at.
AllGroup(f, G) ==
  /\ pc[f] = "running" /\ kind[f] = "all"
  /\ G \union memFlag[f] \subseteq rows
  /\ LET done == G \intersect memFlag[f]
         beat == memFlag[f] \ G
     IN /\ flagged' = flagged \ done
        /\ age' = [p \in Pos |-> IF p \in done \intersect memLease[f] THEN None
                                ELSE IF p \in beat THEN 0
                                ELSE age[p]]
        /\ orphaned' = orphaned \ done
        /\ memFlag' = [memFlag EXCEPT ![f] = beat]
        /\ memLease' = [memLease EXCEPT ![f] = (@ \ done) \union beat]
  /\ todo' = [todo EXCEPT ![f] = @ \ G]
  /\ UNCHANGED <<up, rows, pc, kind, ids, loaded>>

\* After the last group: indicator, ATR and bar caches, verdicts, commit.
AllPhases(f) ==
  /\ pc[f] = "running" /\ kind[f] = "all"
  /\ todo[f] = {}
  /\ Goto(f, "closing")
  /\ UNCHANGED <<up, db, kind, ids, mem, todo, orphaned>>

\* Mutant of TaskFails: without the rollback the session keeps what it was
\* about to commit, flags it had reset in memory among it.
TaskFailsNoRollback(f) ==
  /\ pc[f] = "running"
  /\ \E G \in SUBSET todo[f] : memFlag' = [memFlag EXCEPT ![f] = @ \ G]
  /\ todo' = [todo EXCEPT ![f] = {}]
  /\ Goto(f, "closing")
  /\ UNCHANGED <<up, db, kind, ids, loaded, memLease, orphaned>>

\* An exception anywhere in the refresh: rollback, the rows are read again and
\* refresh_error is committed on them.
TaskFails(f) ==
  /\ pc[f] = "running"
  /\ Load(f, ids[f] \intersect rows)
  /\ todo' = [todo EXCEPT ![f] = {}]
  /\ Goto(f, "closing")
  /\ UNCHANGED <<up, db, kind, ids, orphaned>>

\* The finally block reads its rows again.  kept are the ones still alive in
\* the session's identity map, which a query does not reload: the single task
\* holds its position, refresh-all may have dropped any of its rows.
CloseLoad(f, kept) ==
  /\ pc[f] = "closing"
  /\ kind[f] = "single" => kept = loaded[f]
  /\ LET S == ids[f] \intersect rows
     IN /\ loaded' = [loaded EXCEPT ![f] = S]
        /\ memFlag' = [memFlag EXCEPT ![f] =
             S \intersect ((@ \intersect kept) \union (flagged \ kept))]
        /\ memLease' = [memLease EXCEPT ![f] =
             S \intersect ((@ \intersect kept) \union (Leased \ kept))]
  /\ Goto(f, "clearing")
  /\ UNCHANGED <<up, db, kind, ids, todo, orphaned>>

\* _mark_positions_refresh_state(in_progress=False) in the finally block.
CloseWrite(f) ==
  /\ pc[f] = "clearing"
  /\ memFlag[f] \union memLease[f] \subseteq rows
  /\ WriteClear(f, loaded[f])
  /\ Finish(f)
  /\ UNCHANGED <<up, rows>>

\* That statement or the commit of refresh_error before it fails (a row was
\* deleted meanwhile, the connection is lost): the flags stay.
CloseFails(f) ==
  /\ pc[f] \in {"closing", "clearing"}
  /\ orphaned' = orphaned \union (flagged \intersect ids[f])
  /\ Finish(f)
  /\ UNCHANGED <<up, db>>

-----------------------------------------------------------------------------
(* The process and time.                                                   *)

Crash ==
  /\ up
  /\ up' = FALSE
  /\ orphaned' = flagged
  /\ pc' = [f \in Flow |-> "idle"]
  /\ kind' = [f \in Flow |-> "single"]
  /\ ids' = [f \in Flow |-> {}]
  /\ loaded' = [f \in Flow |-> {}]
  /\ memFlag' = [f \in Flow |-> {}]
  /\ memLease' = [f \in Flow |-> {}]
  /\ todo' = [f \in Flow |-> {}]
  /\ UNCHANGED db

\* lifespan: _clear_all_stale_refresh_flags
Startup ==
  /\ ~up
  /\ up' = TRUE
  /\ SweepStale
  /\ UNCHANGED <<rows, pc, kind, ids, mem, todo>>

Tick ==
  /\ age' = [p \in Pos |-> IF age[p] \in 0..(StaleAfter - 1) THEN age[p] + 1 ELSE age[p]]
  /\ UNCHANGED <<up, rows, flagged, pc, kind, ids, mem, todo, orphaned>>

-----------------------------------------------------------------------------
Request(f) ==
  \/ \E p \in Pos : SinglePost(f, p) \/ AddPost(f, p) \/ EditPost(f, p)
  \/ AllPost(f)

Handler(f) ==
  \/ SingleCheck(f) \/ AllCheck(f) \/ AllList(f) \/ MarkLoad(f) \/ Mark(f)
  \/ RequestEnds(f)

Task(f) ==
  \/ SingleLoad(f) \/ SingleDone(f)
  \/ AllLoad(f) \/ AllPhases(f)
  \/ \E G \in SUBSET todo[f] \ {{}} : AllGroup(f, G)
  \/ TaskFails(f)
  \/ \E kept \in SUBSET loaded[f] : CloseLoad(f, kept)
  \/ CloseWrite(f) \/ CloseFails(f)

Next ==
  \/ \E f \in Flow : Request(f) \/ Handler(f) \/ Task(f)
  \/ \E p \in Pos : Delete(p)
  \/ PortfolioView
  \/ Crash \/ Startup \/ Tick

Spec == Init /\ [][Next]_vars

(***************************************************************************)
(* Fairness: a thread that has something to do gets to do it, time passes, *)
(* a stopped server is started again.  Whether the user looks at the       *)
(* portfolio is the user's affair: UserReturns is stated apart.            *)
(***************************************************************************)
FlowFairness == \A f \in Flow : WF_vars(Handler(f) \/ Task(f))
UserReturns  == WF_vars(PortfolioView)
FairSpec     == Spec /\ FlowFairness

-----------------------------------------------------------------------------
(* Properties.                                                             *)

\* The task of flow f is bound to clear the flag of p if nothing kills it.
Owes(f, p) ==
  /\ p \in ids[f]
  /\ \/ pc[f] = "queued"
     \/ pc[f] \in {"running", "clearing"} /\ p \in memFlag[f]
     \/ pc[f] = "closing" /\ (p \in memFlag[f] \/ p \notin loaded[f])

\* A flag that is set is owed by a live task or was left by one that died:
\* whatever sessions with old copies write, no task that ends normally leaves
\* refresh_in_progress behind (the finally blocks of both tasks).
FlagOwned == \A p \in flagged \ orphaned : \E f \in Flow : Owes(f, p)

\* A flag left by a dead task has a refresh_started_at, without which neither
\* the sweep nor start-up ever clears it.
OrphansSweepable == orphaned \subseteq Leased

\* A flag set for a live task is cleared unless the task dies.
OwnedFlagClears ==
  \A p \in Pos : p \in flagged \ orphaned ~> p \notin flagged \ orphaned

\* If the user keeps looking at the portfolio every flag is cleared in the
\* end, those left by crashes included, unless another request (an edit, which
\* does not look at the flag) marks the row again first.
EveryFlagClears ==
  \A p \in Pos :
    p \in flagged ~> p \notin flagged \/ \E f \in Flow : pc[f] = "mark" /\ p \in ids[f]
=============================================================================
