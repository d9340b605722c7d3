------------------------------ MODULE BarCache ------------------------------
(***************************************************************************)
(* The bars of one ticker in table market_weekly_bar_cache or              *)
(* market_daily_bar_cache, shared by all users: refresh_weekly_bar_cache   *)
(* and refresh_daily_bar_cache with upsert_bars.  Each refresh looks       *)
(* whether the cache has what its rules need, fetches the history if not,  *)
(* stores the newest bars, drops the older ones, and then evaluates rules  *)
(* on what the table holds.  Fetching takes time, in which periods (days   *)
(* or weeks) complete and other refreshes come and go.                     *)
(***************************************************************************)
EXTENDS Integers, FiniteSets

CONSTANTS
  Refresh,       \* refreshes, of any users
  Lookback(_),   \* what the rules of the refresh's user look back to
  History,       \* periods the provider knows at the start
  MaxPeriod      \* bound: periods

BarAssumption ==
  /\ History \in Nat \ {0} /\ MaxPeriod \in Nat /\ History <= MaxPeriod
  /\ \A r \in Refresh : Lookback(r) \in Nat \ {0}

VARIABLES
  kind,      \* "weekly" or "daily"
  last,      \* last completed period
  bars,      \* dates in the table
  partial,   \* of those, bars stored from a period in progress
  at,        \* where each refresh stands
  fetched,   \* what it fetched: newest date and whether that one is partial
  disturbed, \* history: another refresh stored bars since this one checked or stored
  failed,    \* history: its fetch failed
  turned     \* history: a period completed while a fetch that had seen it begin was under way

table == <<bars, partial>>
vars  == <<kind, last, table, at, fetched, disturbed, failed, turned>>

NoBars == [newest |-> 0, partial |-> FALSE]

\* Bars kept: a period's return needs the close at its start as well.
Kept(r) == IF kind = "daily" THEN Lookback(r) + 1 ELSE Lookback(r)

Newest(S, n) == {d \in S : Cardinality({e \in S : e > d}) < n}

Init ==
  /\ kind \in {"weekly", "daily"}
  /\ last = History
  /\ \E n \in 0..History : bars = Newest(1..History, n)
  /\ partial = {}
  /\ at = [r \in Refresh |-> "idle"]
  /\ fetched = [r \in Refresh |-> NoBars]
  /\ disturbed = [r \in Refresh |-> FALSE]
  /\ failed = [r \in Refresh |-> FALSE]
  /\ turned = FALSE

-----------------------------------------------------------------------------
\* daily_bar_cache_is_stale, weekly_bar_cache_is_stale
Stale == last \notin bars

\* Mutant of Enough: any bars will do.
EnoughAny(r) == bars # {}

\* The daily cache must have exactly the rows it would keep, the weekly one at
\* least as many.
Enough(r) ==
  IF kind = "daily" THEN Cardinality(bars) = Kept(r) ELSE Cardinality(bars) >= Kept(r)

Check(r) ==
  /\ at[r] = "idle"
  /\ at' = [at EXCEPT ![r] = IF Enough(r) /\ ~Stale THEN "judge" ELSE "fetch"]
  /\ disturbed' = [disturbed EXCEPT ![r] = FALSE]
  /\ failed' = [failed EXCEPT ![r] = FALSE]
  /\ UNCHANGED <<kind, last, table, fetched, turned>>

\* The provider's history, with the bar of the period in progress if there is
\* one already.
Fetch(r) ==
  /\ at[r] = "fetch"
  /\ \E inProgress \in BOOLEAN :
       fetched' = [fetched EXCEPT ![r] =
         [newest |-> IF inProgress THEN last + 1 ELSE last, partial |-> inProgress]]
  /\ at' = [at EXCEPT ![r] = "store"]
  /\ UNCHANGED <<kind, last, table, disturbed, failed, turned>>

FetchFails(r) ==
  /\ at[r] = "fetch"
  /\ at' = [at EXCEPT ![r] = "judge"]
  /\ failed' = [failed EXCEPT ![r] = TRUE]
  /\ UNCHANGED <<kind, last, table, fetched, disturbed, turned>>

\* Mutant of Completed: the bar of the period in progress is not left out.
CompletedAll(r) == 1..fetched[r].newest

\* Bars of periods that are complete by now.
Completed(r) == {d \in 1..fetched[r].newest : d <= last}

\* upsert_bars: what is older than the oldest bar kept goes, the bars kept are
\* inserted or replaced.
Store(r) ==
  LET keep == Newest(Completed(r), Kept(r))
      half == {d \in keep : fetched[r].partial /\ d = fetched[r].newest} IN
  /\ at[r] = "store"
  /\ bars' = {d \in bars : \E k \in keep : k <= d} \cup keep
  /\ partial' = ((partial \cap bars') \ keep) \cup half
  /\ turned' = (turned \/ (fetched[r].partial /\ fetched[r].newest <= last))
  /\ disturbed' = [s \in Refresh |-> s # r /\ (disturbed[s] \/ at[s] # "idle")]
  /\ at' = [at EXCEPT ![r] = "judge"]
  /\ fetched' = [fetched EXCEPT ![r] = NoBars]
  /\ UNCHANGED <<kind, last, failed>>

\* _calculate_verdicts reads the table.
Judge(r) ==
  /\ at[r] = "judge"
  /\ at' = [at EXCEPT ![r] = "idle"]
  /\ UNCHANGED <<kind, last, table, fetched, disturbed, failed, turned>>

\* A trading day or week completes.
PeriodCompletes ==
  /\ last < MaxPeriod
  /\ last' = last + 1
  /\ UNCHANGED <<kind, table, at, fetched, disturbed, failed, turned>>

Next ==
  \/ \E r \in Refresh : Check(r) \/ Fetch(r) \/ FetchFails(r) \/ Store(r) \/ Judge(r)
  \/ PeriodCompletes

Spec == Init /\ [][Next]_vars

-----------------------------------------------------------------------------
TypeOK ==
  /\ kind \in {"weekly", "daily"}
  /\ last \in History..MaxPeriod
  /\ bars \subseteq 1..last
  /\ partial \subseteq bars
  /\ at \in [Refresh -> {"idle", "fetch", "store", "judge"}]
  /\ fetched \in [Refresh -> [newest : 0..MaxPeriod + 1, partial : BOOLEAN]]
  /\ disturbed \in [Refresh -> BOOLEAN] /\ failed \in [Refresh -> BOOLEAN]
  /\ turned \in BOOLEAN

\* Rules see the bars their lookback needs, or else every bar the provider had
\* from the start, unless the fetch failed or another refresh stored bars
\* meanwhile: with a smaller lookback it drops bars this one had found or stored.
ShortNeedsOther ==
  \A r \in Refresh : at[r] = "judge" =>
    \/ Cardinality(bars) >= Kept(r) \/ 1..History \subseteq bars
    \/ failed[r] \/ disturbed[r]

\* The bar of a period in progress gets into the table only if the period
\* completed between the fetch and the store.
PartialNeedsTurn == partial # {} => turned
=============================================================================
