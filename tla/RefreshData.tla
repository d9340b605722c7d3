----------------------------- MODULE RefreshData -----------------------------
(***************************************************************************)
(* What a refresh does to the data: MarketDataService.refresh_position and *)
(* refresh_all_positions with the background tasks of app/main.py that run *)
(* them.  A refresh fetches the price snapshots of its positions, then the *)
(* shared caches the enabled rules need, and only then computes and stores *)
(* the verdicts; it commits several times on the way, and other refreshes  *)
(* of the same user run on other threads.                                  *)
(*                                                                         *)
(* A price series is identified with the day of its last bar, and so is    *)
(* everything derived from it; 0 is "none yet".  A verdict is identified   *)
(* with what it was computed from.  The provider answers with the bars up  *)
(* to the last completed day.  The position rows and the enabled rules     *)
(* stay the same ones, refresh_error is not recorded, the caches are read  *)
(* from the table, and what sessions know of the flags and of their time   *)
(* stamps is left to RefreshLifecycle.                                     *)
(***************************************************************************)
EXTENDS Integers, Sequences, FiniteSets

CONSTANTS
  Pos,        \* positions of one user
  LongTerm,   \* those with investment_type long-term: they need weekly data
  TickerOf,   \* their tickers
  Caches,     \* rule input caches the enabled rules need, in refresh order
  WeeklyCache,\* those made from weekly bars
  Worker,     \* threads that run a request and its background task
  All,        \* the operation refresh_all_positions
  DaysPerWeek,
  LastDay,    \* bound on days
  MaxOps,     \* bound on refreshes
  None        \* NULL

ASSUME DataAssumption ==
  /\ LongTerm \subseteq Pos /\ All \notin Pos
  /\ Caches \in Seq(STRING)
  /\ DaysPerWeek \in Nat \ {0} /\ LastDay \in Nat \ {0} /\ MaxOps \in Nat

VARIABLES
  day,      \* last completed trading day
  row,      \* table positions: snapshots d and w, verdict cv, previous_verdict pv
  cache,    \* the rule input caches of each ticker
  flagged,  \* rows with refresh_in_progress
  ops,      \* refreshes so far
  pc, op,   \* where each worker stands, and what it refreshes
  copy,     \* the rows in its session
  stored,   \* as they were when they were loaded or last written
  need,     \* rows whose daily (d) and weekly (w) snapshot was stale
  got,      \* _FetchCache: bars it holds, per series and ticker
  todo,     \* tickers whose group is still to do
  left,     \* caches still to refresh
  owed,     \* flags it still has to clear
  ahead,    \* history: rows whose snapshot it committed, but not the verdict
  crossed,  \* history: rows of its session another session has written since
  torn      \* history: rows whose verdict was interrupted or crossed

db      == <<row, cache, flagged>>
session == <<copy, stored, need, got, todo, left, owed, ahead>>
vars    == <<day, db, ops, pc, op, session, crossed, torn>>

Ticker == {TickerOf[p] : p \in Pos}
Group(t) == {p \in Pos : TickerOf[p] = t}
Days == 0..LastDay
Kinds == {Caches[i] : i \in DOMAIN Caches}
Verdicts == [d : Days, w : Days, c : [Kinds -> Days]]
Rows == [d : Days, w : Days, cv : Verdicts \union {None}, pv : Verdicts \union {None}]

NoRow   == [d |-> 0, w |-> 0, cv |-> None, pv |-> None]
NoRows  == [p \in Pos |-> NoRow]
NoNeed  == [d |-> {}, w |-> {}]
NoBars  == [d |-> [t \in Ticker |-> 0], w |-> [t \in Ticker |-> 0]]

PCs == {"idle", "mark", "load", "groups", "caches", "verdicts", "close"}

TypeOK ==
  /\ day \in 1..LastDay
  /\ row \in [Pos -> Rows]
  /\ cache \in [Kinds -> [Ticker -> Days]]
  /\ flagged \subseteq Pos
  /\ ops \in 0..MaxOps
  /\ pc \in [Worker -> PCs]
  /\ op \in [Worker -> Pos \union {All, None}]
  /\ copy \in [Worker -> [Pos -> Rows]] /\ stored \in [Worker -> [Pos -> Rows]]
  /\ need \in [Worker -> [d : SUBSET Pos, w : SUBSET Pos]]
  /\ got \in [Worker -> [d : [Ticker -> Days], w : [Ticker -> Days]]]
  /\ todo \in [Worker -> SUBSET Ticker]
  /\ left \in [Worker -> 0..Len(Caches)]
  /\ owed \in [Worker -> SUBSET Pos]
  /\ ahead \in [Worker -> SUBSET Pos] /\ crossed \in [Worker -> SUBSET Pos]
  /\ torn \subseteq Pos

\* The position p after a refresh on day 1.
FirstRow(p) ==
  LET w == IF p \in LongTerm THEN 1 ELSE 0
  IN [d |-> 1, w |-> w, cv |-> [d |-> 1, w |-> w, c |-> [k \in Kinds |-> 1]], pv |-> None]

\* All positions are new, or all have been refreshed once.
Init ==
  /\ day = 1
  /\ \/ row = NoRows /\ cache = [k \in Kinds |-> [t \in Ticker |-> 0]]
     \/ row = [p \in Pos |-> FirstRow(p)] /\ cache = [k \in Kinds |-> [t \in Ticker |-> 1]]
  /\ flagged = {} /\ ops = 0
  /\ pc = [w \in Worker |-> "idle"]
  /\ op = [w \in Worker |-> None]
  /\ copy = [w \in Worker |-> NoRows] /\ stored = [w \in Worker |-> NoRows]
  /\ need = [w \in Worker |-> NoNeed]
  /\ got = [w \in Worker |-> NoBars]
  /\ todo = [w \in Worker |-> {}]
  /\ left = [w \in Worker |-> 0]
  /\ owed = [w \in Worker |-> {}]
  /\ ahead = [w \in Worker |-> {}] /\ crossed = [w \in Worker |-> {}]
  /\ torn = {}

-----------------------------------------------------------------------------
(* Staleness.                                                              *)

\* The week day n belongs to, counted by its completed weeks.
WeekOf(n) == (n + DaysPerWeek - 1) \div DaysPerWeek

\* Mutant of Target: the day in progress counts as completed.
TargetTomorrow(series) == IF series = "d" THEN day + 1 ELSE WeekOf(day)

Target(series) == IF series = "d" THEN day ELSE WeekOf(day)

Targets(w) == IF op[w] = All THEN Pos ELSE {op[w]}

\* Rows of S whose snapshot is stale; weekly data is only for long-term ones.
StaleDaily(S)  == {p \in S : row[p].d < Target("d")}
StaleWeekly(S) == {p \in S \intersect LongTerm : row[p].w < Target("w")}

SeriesOf(k) == IF k \in WeeklyCache THEN "w" ELSE "d"

-----------------------------------------------------------------------------
(* Sessions.                                                               *)

Snapshot(r) == <<r.d, r.w>>
Loaded(w) == pc[w] \in {"groups", "caches", "verdicts", "close"}

\* The row r after an UPDATE from a session that knew it as old and has made it
\* new: the columns the session has not changed are left out.
Updated(r, old, new) ==
  [d  |-> IF new.d = old.d THEN r.d ELSE new.d,
   w  |-> IF new.w = old.w THEN r.w ELSE new.w,
   cv |-> IF new.cv = old.cv THEN r.cv ELSE new.cv,
   pv |-> IF new.pv = old.pv THEN r.pv ELSE new.pv]

\* Session w commits its rows as they are in c.
Commit(w, c) ==
  /\ copy' = [copy EXCEPT ![w] = c]
  /\ stored' = [stored EXCEPT ![w] = c]
  /\ row' = [p \in Pos |-> Updated(row[p], stored[w][p], c[p])]
  /\ crossed' = [v \in Worker |-> IF v = w \/ ~Loaded(v) THEN crossed[v]
                                  ELSE crossed[v] \union {p \in Pos : row'[p] # row[p]}]

\* Rows whose snapshot the commit of c by w changes.
Changes(w, c) == {p \in Pos : Snapshot(c[p]) # Snapshot(stored[w][p])}

\* The background tasks of the workers S are over: their sessions are closed.
Finish(S) ==
  LET reset(f, v) == [w \in Worker |-> IF w \in S THEN v ELSE f[w]]
  IN /\ pc' = reset(pc, "idle") /\ op' = reset(op, None)
     /\ copy' = reset(copy, NoRows) /\ stored' = reset(stored, NoRows)
     /\ need' = reset(need, NoNeed) /\ got' = reset(got, NoBars)
     /\ todo' = reset(todo, {}) /\ left' = reset(left, 0) /\ owed' = reset(owed, {})
     /\ ahead' = reset(ahead, {}) /\ crossed' = reset(crossed, {})

-----------------------------------------------------------------------------
(* Requests.                                                               *)

\* POST /refresh and POST /refresh/{id}: nothing must be in progress, or not
\* that position.
Ask(w, o) ==
  /\ pc[w] = "idle" /\ ops < MaxOps
  /\ flagged \intersect (IF o = All THEN Pos ELSE {o}) = {}
  /\ pc' = [pc EXCEPT ![w] = "mark"]
  /\ op' = [op EXCEPT ![w] = o]
  /\ ops' = ops + 1
  /\ UNCHANGED <<day, db, session, crossed, torn>>

Mark(w) ==
  /\ pc[w] = "mark"
  /\ pc' = [pc EXCEPT ![w] = "load"]
  /\ flagged' = flagged \union Targets(w)
  /\ owed' = [owed EXCEPT ![w] = Targets(w)]
  /\ UNCHANGED <<day, row, cache, ops, op, copy, stored, need, got, todo, left, ahead,
                 crossed, torn>>

-----------------------------------------------------------------------------
(* The refresh.                                                            *)

\* The rows are loaded, what is stale is planned, and some of the bars are
\* fetched ahead: _prewarm_fetch_cache for one position, the batch preloads
\* for all of them, as far as the provider can and the calls succeed.
Load(w) ==
  LET stale == [d |-> StaleDaily(Targets(w)), w |-> StaleWeekly(Targets(w))]
      tickers == {TickerOf[p] : p \in Targets(w)}
  IN /\ pc[w] = "load"
     /\ pc' = [pc EXCEPT ![w] = "groups"]
     /\ copy' = [copy EXCEPT ![w] = row] /\ stored' = [stored EXCEPT ![w] = row]
     /\ need' = [need EXCEPT ![w] = stale]
     /\ todo' = [todo EXCEPT ![w] = {TickerOf[p] : p \in stale.d \union stale.w}]
     /\ left' = [left EXCEPT ![w] = Len(Caches)]
     /\ \E early \in [{"d", "w"} -> SUBSET tickers] :
          got' = [got EXCEPT ![w] = [s \in {"d", "w"} |-> [t \in Ticker |->
                     IF t \in early[s] THEN Target(s) ELSE 0]]]
     /\ crossed' = [crossed EXCEPT ![w] = {}]
     /\ UNCHANGED <<day, db, ops, op, owed, ahead, torn>>

\* Mutant of Copied: a representative that could not be refreshed is copied too.
CopiedAnyway(w, t, b) ==
  LET rep == CHOOSE p \in Group(t) \intersect (need[w].d \union need[w].w) : TRUE
  IN [p \in Pos |->
        IF p \notin Group(t) \intersect Targets(w) THEN copy[w][p]
        ELSE [copy[w][p] EXCEPT !.d = IF b.d = 0 THEN copy[w][rep].d ELSE b.d,
                                !.w = IF b.w = 0 \/ p \notin LongTerm THEN @ ELSE b.w]]

\* What the session makes of the bars b of ticker t: every member of the group
\* has the snapshot of the representative, weekly data only if it is long-term.
Copied(w, t, b) ==
  [p \in Pos |->
     IF p \notin Group(t) \intersect Targets(w) THEN copy[w][p]
     ELSE LET r == copy[w][p]
          IN [d |-> IF b.d = 0 THEN r.d ELSE b.d,
              w |-> IF b.w = 0 \/ p \notin LongTerm THEN r.w ELSE b.w,
              cv |-> r.cv, pv |-> r.pv]]

\* The bars of ticker t for the series in S, from the fetch cache or else from
\* the provider, whose calls for the series in failed did not succeed.
Bars(w, t, S, failed) ==
  [s \in {"d", "w"} |-> IF s \notin S \ failed THEN 0
                       ELSE IF got[w][s][t] # 0 THEN got[w][s][t] ELSE Target(s)]

\* One ticker group.  refresh_all_positions commits it and clears its flags;
\* refresh_position leaves it for the next commit.
Refresh(w, t) ==
  LET wanted == {s \in {"d", "w"} : need[w][s] \intersect Group(t) # {}}
  IN /\ pc[w] = "groups" /\ t \in todo[w]
     /\ todo' = [todo EXCEPT ![w] = @ \ {t}]
     /\ \E failed \in SUBSET {s \in wanted : got[w][s][t] = 0} :
          LET bars == Bars(w, t, wanted, failed)
              c == Copied(w, t, bars)
          IN /\ got' = [got EXCEPT ![w] = [s \in {"d", "w"} |-> [u \in Ticker |->
                  IF u = t /\ bars[s] # 0 THEN bars[s] ELSE got[w][s][u]]]]
             /\ IF op[w] = All
                THEN /\ Commit(w, c)
                     /\ ahead' = [ahead EXCEPT ![w] = @ \union Changes(w, c)]
                     /\ flagged' = flagged \ Group(t)
                     /\ owed' = [owed EXCEPT ![w] = @ \ Group(t)]
                ELSE /\ copy' = [copy EXCEPT ![w] = c]
                     /\ UNCHANGED <<row, stored, crossed, ahead, flagged, owed>>
     /\ UNCHANGED <<day, cache, ops, pc, op, need, left, torn>>

GroupsDone(w) ==
  /\ pc[w] = "groups" /\ todo[w] = {}
  /\ pc' = [pc EXCEPT ![w] = IF Caches = <<>> THEN "verdicts" ELSE "caches"]
  /\ UNCHANGED <<day, db, ops, op, session, crossed, torn>>

\* The next rule input cache: its stale entries are made from the bars, those
\* whose bars cannot be had stay, and the session is committed.
RefreshCache(w) ==
  LET k == Caches[Len(Caches) + 1 - left[w]]
      s == SeriesOf(k)
      stale == {t \in {TickerOf[p] : p \in Targets(w)} : cache[k][t] < Target(s)}
  IN /\ pc[w] = "caches"
     /\ \E failed \in SUBSET {t \in stale : got[w][s][t] = 0} :
          LET bars == [t \in Ticker |-> IF t \in stale \ failed
                                       THEN Bars(w, t, {s}, {})[s] ELSE 0]
          IN /\ cache' = [cache EXCEPT ![k] =
                             [t \in Ticker |-> IF bars[t] = 0 THEN @[t] ELSE bars[t]]]
             /\ got' = [got EXCEPT ![w][s] =
                           [t \in Ticker |-> IF bars[t] = 0 THEN @[t] ELSE bars[t]]]
     /\ Commit(w, copy[w])
     /\ ahead' = [ahead EXCEPT ![w] = @ \union Changes(w, copy[w])]
     /\ left' = [left EXCEPT ![w] = @ - 1]
     /\ pc' = [pc EXCEPT ![w] = IF left[w] = 1 THEN "verdicts" ELSE "caches"]
     /\ UNCHANGED <<day, flagged, ops, op, need, todo, owed, torn>>

-----------------------------------------------------------------------------
(* Verdicts.                                                               *)

\* Mutant of Tracked: only positions that were stale themselves, not those the
\* bars of their group were copied to.
TrackedStale(w) ==
  IF op[w] # All THEN Targets(w) ELSE need[w].d \union need[w].w

\* The positions whose verdict is computed again: all of them as soon as a
\* rule input may have changed, else those of the groups that were refreshed.
Tracked(w) ==
  IF op[w] # All \/ Caches # <<>> THEN Targets(w)
  ELSE {p \in Pos : Group(TickerOf[p]) \intersect (need[w].d \union need[w].w) # {}}

\* The verdict on position p from the snapshot r and the caches.
Verdict(p, r) == [d |-> r.d, w |-> r.w, c |-> [k \in Kinds |-> cache[k][TickerOf[p]]]]

\* Mutant of Judged: a previous verdict is kept until the verdict holds still.
JudgedKeeps(r, v) ==
  [r EXCEPT !.cv = v, !.pv = IF r.cv \in {None, v} THEN None
                             ELSE IF r.pv # None THEN r.pv ELSE r.cv]

\* The row with its new verdict v; previous_verdict is the one it replaces.
Judged(r, v) ==
  [d |-> r.d, w |-> r.w, cv |-> v, pv |-> IF r.cv \in {None, v} THEN None ELSE r.cv]

\* The verdicts are computed from the rows in the session and committed;
\* refresh_position clears its flag in the same commit.
Judge(w) ==
  LET tracked == Tracked(w)
      c == [p \in Pos |-> IF p \in tracked THEN Judged(copy[w][p], Verdict(p, copy[w][p]))
                                           ELSE copy[w][p]]
  IN /\ pc[w] = "verdicts"
     /\ pc' = [pc EXCEPT ![w] = "close"]
     /\ Commit(w, c)
     /\ ahead' = [ahead EXCEPT ![w] = {}]
     /\ torn' = (torn \ tracked) \union (crossed[w] \intersect tracked)
     /\ flagged' = flagged \ (Targets(w) \ {p \in Pos : op[w] = All})
     /\ owed' = [owed EXCEPT ![w] = @ \ {op[w]}]
     /\ UNCHANGED <<day, cache, ops, op, need, got, todo, left>>

\* The finally block of refresh-all: flags of groups that were up to date.
Close(w) ==
  /\ pc[w] = "close"
  /\ flagged' = flagged \ owed[w]
  /\ Finish({w})
  /\ UNCHANGED <<day, row, cache, ops, torn>>

-----------------------------------------------------------------------------
(* Failures.                                                               *)

\* An exception: a commit fails, or a position of the session is gone.  The
\* session is rolled back, every row of the request gets a refresh_error, and
\* all their flags are cleared.
Abort(w) ==
  /\ pc[w] \in {"load", "groups", "caches", "verdicts"}
  /\ flagged' = flagged \ Targets(w)
  /\ torn' = torn \union ahead[w]
  /\ Finish({w})
  /\ UNCHANGED <<day, row, cache, ops>>

\* The process dies and is started again.
Crash ==
  /\ \E w \in Worker : pc[w] # "idle"
  /\ torn' = torn \union UNION {ahead[w] : w \in Worker}
  /\ Finish(Worker)
  /\ UNCHANGED <<day, row, cache, flagged, ops>>

\* The flags a crash left are swept when they are old enough.
Sweep ==
  /\ \A w \in Worker : pc[w] = "idle"
  /\ flagged # {} /\ flagged' = {}
  /\ UNCHANGED <<day, row, cache, ops, pc, op, session, crossed, torn>>

\* The market closes.
NewDay ==
  /\ day < LastDay /\ day' = day + 1
  /\ UNCHANGED <<db, ops, pc, op, session, crossed, torn>>

\* The bounds are reached: nothing more is observed.
Over ==
  /\ ops = MaxOps /\ day = LastDay /\ flagged = {}
  /\ \A w \in Worker : pc[w] = "idle"
  /\ UNCHANGED vars

Next ==
  \/ \E w \in Worker :
       \/ \E o \in Pos \union {All} : Ask(w, o)
       \/ \E t \in Ticker : Refresh(w, t)
       \/ Mark(w) \/ Load(w) \/ GroupsDone(w) \/ RefreshCache(w)
       \/ Judge(w) \/ Close(w) \/ Abort(w)
  \/ Crash \/ Sweep \/ NewDay \/ Over

Spec == Init /\ [][Next]_vars

-----------------------------------------------------------------------------
\* A stored verdict is one on the snapshot stored with it: if it is not, a
\* refresh is between the two commits, or one died there, or two refreshes of
\* the position overlapped.
VerdictMatchesSnapshot ==
  \A p \in Pos \ torn :
    (row[p].cv # None /\ \A w \in Worker : p \notin ahead[w])
      => row[p].cv.d = row[p].d /\ row[p].cv.w = row[p].w

\* "Previously X" is about the verdict the position had until then.
PreviousIsPrevious ==
  [][ \A p \in Pos : row'[p].cv # row[p].cv /\ row[p].cv # None
        => row'[p].pv = row[p].cv \/ \E w \in Worker : stored'[w] # stored[w] /\ p \in crossed[w] ]_vars

\* A snapshot is not replaced by an older one, unless refreshes overlapped.
OlderNeedsOverlap ==
  [][ \A p \in Pos : row'[p].d < row[p].d \/ row'[p].w < row[p].w
        => \E w \in Worker : stored'[w] # stored[w] /\ p \in crossed[w] ]_vars
=============================================================================
