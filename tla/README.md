# StockSentinal: a TLA+ model

StockSentinal (`src/`) is a FastAPI application in which users keep stock
positions; it fetches market data from Alpha Vantage or Twelve Data, evaluates
user-configurable rules and shows a Sell / Trim / Hold verdict per position.
These modules model the parts of it where requests, background tasks, database
sessions, rate limits and clocks meet, check them with TLC and prove the main
results with TLAPS.

Paths below are relative to `src/`.

## 1. Inventory

| component | state | operations | interacts with |
| --- | --- | --- | --- |
| refresh lifecycle (`app/main.py`, `app/market_data/service.py`, `app/repositories.py`) | `positions.refresh_in_progress`, `refresh_started_at`, `refresh_error`; background tasks in the process | POST /refresh, /refresh/{id}, /add, /edit, /delete; the two background tasks; stale sweep on page view; start-up clearing | sessions of all requests on the same rows, the sweep, process crashes |
| provider rate limits (`app/market_data/provider.py`) | class-level `_last_call_at`, `_call_window`, a lock | `_wait_for_slot`, `_rate_limited_call` | every thread that fetches |
| editing a ticker (`app/main.py`, `service.py`) | `positions.ticker`, daily and weekly columns | POST /edit, refresh tasks | both write the same row |
| tier limits (`app/tiers.py`) | `users.refresh_count_today`, `refresh_count_date`, tier, admin flag, number of positions | check and consume in /add, /refresh, /refresh/{id}; admin updates | the clock (midnight UTC), other requests of the user |
| refresh data flow (`service.py`) | rows grouped by ticker, `_FetchCache`, per-group errors | plan, prewarm, refresh a representative, copy to the group, cache phases, verdicts | provider, caches, rows |
| verdicts and summary (`app/main.py`, `service.py`) | `computed_verdict`, `previous_verdict` | computed on refresh; the summary reads them; edits, rules and key levels change what they should be | rule store, caches |
| rule store (`app/rule_config.py`) | `strategy_rule_configs`, `_SEEDED_USERS` | seed defaults, update, add/remove moving-average condition | concurrent requests, several processes |
| rule engine (`app/rule_engine.py`) | none | evaluate rules, verdict precedence, validation | rule store, caches |
| market data caches (`app/market_data/cache_repos.py`) | bars and indicators per ticker, shared by all users | bulk upsert and trim | refreshes of all users |
| staleness (`app/market_data/staleness.py`) | none (clock) | last completed trading day, staleness predicates | refreshes |
| unit of work, row-level security (`app/unit_of_work.py`, `app/database.py`) | connection pool, `app.current_user_id`, latch in `connection.info` | begin, commit, rollback | all requests |
| user administration, themes, key levels, trim acknowledgement (`app/main.py`, `app/repositories.py`) | `users`, `themes`, `position_themes`, `key_levels` | forms and JSON endpoints | uniqueness constraints, row locks |
| authentication, CSRF (`app/auth.py`, `app/csrf.py`) | session cookie, JWKS cache, new `users` rows | sign in, verify | identity provider |
| browser scripts (`app/static/*.js`) | poller timers, page state | poll refresh status, drag themes | JSON endpoints |
| provider clients, configuration, logging, mail, migrations, templates | none that others read | | |

What makes the system hard:

* **Concurrency.** Sync handlers and background tasks run on a thread pool, in
  one process, each with its own SQLAlchemy session. Sessions take no locks
  (but for the last-admin check), so two requests interleave between any two
  statements.
* **Old copies.** `sessionmaker(autoflush=False, expire_on_commit=False)`
  (`app/database.py:41`): a loaded row stays in the session as it was, also
  across commits; an UPDATE carries only the columns that differ from that
  copy. Two sessions can each write half of what belongs together. The models
  carry the in-memory copies explicitly, because nothing else shows this.
* **Failure.** Background tasks die with the process. A commit fails if a row
  in it was deleted meanwhile.
* **Time.** Five-minute staleness of a flag, midnight UTC, market close, the
  trailing minute of the provider's budget.

Properties that make each component correct: a refresh flag is always owed by
somebody or can be swept, and is in the end cleared; no window holds more calls
than the budget and nobody waits without need; a row's market data belongs to
its ticker; the tier limit is neither exceeded nor short of what was promised;
a stored verdict belongs to the snapshot stored beside it, and the counters on
the page are those of the verdicts; a rule fires when its candles and averages
say so, not because data was lost or its newest week cannot be read, and what is fetched for it is all it
looks at; rules are seeded once, completely, and never over what a user has
set; a transaction sees its own user's rows; the theme board shows what a
reload would; cached bars suffice for the rules of whoever reads them; there is
always an administrator and a new member is announced once. Every hazard, with
its line, is in `PROJECT.json`.

## 2. Modules

```
RefreshLifecycle --- MCRefreshLifecycle            (TLC: symmetry)
        \----------- RefreshLifecycleProofs        (TLAPS)
CallPacing  <--(refinement)-- BudgetGate, IntervalGate
   \----------- CallPacingProofs                   (TLAPS, of the abstract limit)
RefreshData --- MCRefreshData                      (TLC: symmetry)
    |\--------- RefreshDataProofs                  (TLAPS)
     \--------- RefreshPage --- MCRefreshPage      (the browser over it)
WeeklyRules                                        (rules on weekly candles)
RuleEngine --- Portfolio                           (all rules; stored verdicts)
RuleStore ---- RuleStoreProofs                     (TLAPS)
UnitOfWork --- UnitOfWorkProofs, MCUnitOfWork      (TLAPS; TLC)
ThemeBoard --- MCThemeBoard
TickerEdit  RefreshQuota  BarCache  Accounts

MCRequests = BudgetGate | IntervalGate | RefreshQuota | TickerEdit
                 \--- RequestProofs               (TLAPS, with CallPacingProofs)
Rules      = WeeklyRules | Portfolio
                 \--- MCRules, RuleProofs         (TLC; TLAPS)
Shared     = RuleStore | RefreshLifecycle | ThemeBoard | UnitOfWork | BarCache | Accounts
                 \--- MCShared, SharedProofs      (TLC; TLAPS, with RuleStoreProofs,
                                                   RefreshLifecycleProofs, UnitOfWorkProofs)
```

`MCRequests`, `Rules` and `Shared` put several components side by side. The
components of each share no state in the code, so a behaviour is about one of
them, its *study*, chosen in the initial state; the variables of the others
keep their initial values. A study explores exactly the states it would have in
a run of its own, and a theorem about the composition is the theorem about the
component with the values of the others left alone.

### RefreshLifecycle

A *flow* is a request with the background task it schedules. `pc` says where it
stands; `loaded`, `memFlag`, `memLease` are its session's copy of the rows;
`flagged` and `age` are the two columns in the database (`age` in ticks up to
`StaleAfter`, the five minutes of `REFRESH_STALE_TIMEOUT_MINUTES`).

| action | code |
| --- | --- |
| `SinglePost`, `SingleCheck`, `Mark` | `refresh_single`: sweep; read the row, test its flag; mark and schedule |
| `AllPost`, `AllCheck`, `AllList`, `MarkLoad`, `Mark` | `refresh_all` |
| `AddPost`, `EditPost` | `add_position`, `edit_position`, which mark without looking at the flag |
| `RequestEnds` | every return or failure before the mark |
| `SingleLoad`, `SingleDone` | `_refresh_single_position_task` and `refresh_position`, which clears the flag in its own commit |
| `AllLoad`, `AllGroup`, `AllPhases` | `refresh_all_positions`: plan, one commit per ticker group that clears the group and renews the start time of all other flagged rows, cache phases |
| `TaskFails`, `CloseLoad`, `CloseWrite`, `CloseFails` | except and finally blocks of both tasks |
| `Delete`, `PortfolioView`, `Crash`, `Startup`, `Tick` | delete, the sweep of a page view, process end and start, time |

`CloseLoad` takes the set `kept` of rows still alive in the session's identity
map, which holds them weakly: a query does not reload those, and which ones the
garbage collector has dropped is not determined. `orphaned` is a history
variable: flags whose task died before it cleared them.

### CallPacing, BudgetGate, IntervalGate

`CallPacing` is what a rate limit promises: every call is given a slot, a window
after the slot `Cap` places earlier; the thread sleeps and calls. `BudgetGate`
is `_wait_for_budget_slot` with its deque, which forgets what has left the
window; `IntervalGate` is the fixed-interval gate of both providers, with
`Cap = 1`. Both refine `CallPacing` (`Paced`). Choosing a slot is one step:
it happens under a lock. Sleeping and calling happen outside it. `Lag` bounds
how late a sleeping thread wakes up. `Horizon` and `MaxCalls` bound the clock
and the calls; `Over` lets a run stop there.

The guarantee is per process: the gates are class attributes. A batch request
takes one slot whatever the number of its symbols.

### TickerEdit

One row, with the ticker and the ticker its cached data was fetched for; the
columns of `_refresh_daily` and `_refresh_weekly` move together. A flow is an
edit followed by the refresh it queues, or a refresh. `EditSave` writes NULL
only where its copy was not NULL. `CacheCommit` is the commit that the
indicator, ATR and bar caches make in the middle of a refresh. A provider key
is configured.

### RefreshData

What refreshes do to the rows of one user. A price series, and what is computed
from it, is identified with the day (or week) of its last bar, 0 before the
first fetch; a verdict is identified with the snapshot and the caches it was
computed from. A *worker* is a thread with a request and its background task:
`copy` is what its session's rows look like, `stored` what the session believes
to be in the table, so that `Updated` writes the columns in which they differ.

| action | code |
| --- | --- |
| `Ask`, `Mark` | `refresh_all`, `refresh_single`: nothing in progress; the flags are set |
| `Load` | `refresh_position`, `refresh_all_positions` up to the first fetch: rows loaded, stale ones planned, bars fetched ahead by `_prewarm_fetch_cache` or the batch preloads where these succeed |
| `Refresh` | one ticker group: fetch for the representative (each series may fail), copies, and with refresh-all a commit that clears the group's flags |
| `GroupsDone`, `RefreshCache` | the rule input caches, one commit each |
| `Judge` | `_calculate_verdicts` for the tracked rows and the last commit |
| `Close`, `Abort`, `Crash`, `Sweep` | finally and except blocks, process end, stale flags |
| `NewDay` | the market closes |

Three history variables say what a session cannot know: `ahead` (snapshots it
has committed without their verdict), `crossed` (rows of its session another
session has written since), `torn` (rows whose refresh ended between the
commits, or crossed another). The properties use them to say when an anomaly is
possible; everything else is excluded.

Fetching and committing a group is one step: bars fetched long before the
commit are covered by `Load`, which fetches any of them ahead.

### RefreshPage

`RefreshData` with the portfolio page in the browser: `pending` are the rows
`refresh-status.js` waits for, `miscounted` those that the counters on the page
count under another verdict than a page load would at that moment. `Poll` is
one answer of /api/refresh-status that finds rows done, with the request for
rows and counters that follows it.

### RefreshQuota

The row of one user and the number of its positions. `Request` loads the row,
`Charge` and `Refuse` are `check_can_add_position` and
`check_and_consume_refresh` on that copy, `Commit` writes the columns that
changed. `granted` records what was granted on each day, `overlap` whether requests were
ever under way together, `met` and `late` which of those under way overlapped
another or read the row before today, and `mixed` whether one that is both has
committed since midnight. The admin handlers write other columns, and switch
`capped`.

### RuleStore

`rule_config.py` for one user and one strategy, in several server processes.
`ensure_strategy_rule_defaults` is `Ensure` (the process has seeded), `Acquire`
(the lock is free; look again; read the rows), `SeedCommit` (missing rows in,
deprecated ones out, the process marked, the lock released) and `SeedFails`
(the unique constraint, when another process was faster, or the database).
`Load`, `Allowed` and `Save` are the three handlers that switch a rule and add
or remove a moving-average condition: the row is read and checked, and in a
later step the columns that differ from what was read are committed, the whole
of `params_json` for a condition. `Restart` empties the memory of a process and
drops its requests. Of the seeded rows SELL_MA_ALL is kept in full; the others
are seeded with it in the same commit.

### WeeklyRules

The rules that read weekly candles, and the history they need. `study` holds a
rule, its parameters and key levels and the candles from which every history is
built, week by week (`NewWeek`). The code keeps histories newest first, the
module oldest first. Ratios are compared by cross-multiplication, so there is
no rounding; the floats of the code have some, which no property depends on. A
price or volume of 0 is a NULL of the cache. `_find_swing_highs_lows`,
`_detect_distribution_cluster_hits`, `_detect_lower_high_lower_low` and
`_detect_failed_breakout_reclaim` are translated into sets of weeks; loops
with state become spans and minima over such sets, and the sorted volumes of the
median become ranks: `RankedVolume` is the least volume that enough red weeks do
not exceed.

### RuleEngine, Portfolio

`RuleEngine` is `evaluate_position` with its twelve rules, those of
`WeeklyRules` as outcomes per ticker, the catalog order, `get_verdict`, and
`Requirements`: the averages, ranges and days `_compute_requirements_from_rows`
has fetched for the enabled rules. `Portfolio` puts positions, stored verdicts,
acknowledgements, enabled rules and caches around it: `Edit`, `Acknowledge`,
`Configure` (rows come in any order), `CachesChange`, `Refresh`. `Shown` is the
override of `_compute_verdict_for_position`, `FullSummary` and `StoredSummary`
the two summaries of the page.

### UnitOfWork

Pooled connections, database sessions and the setting the row-level policies
compare with. `Begin` is the hook `after_begin`: in session mode it trusts the
latch in `connection.info`, in transaction mode it always sets. What PostgreSQL
does is external: a rollback restores the setting of the transaction's start,
and closing a session without a commit is a rollback. `Reconnect` is the pool
replacing a connection, `Replace` the pooler replacing a database session.
`undone` records on which connections a rollback took the last setting back.

### ThemeBoard

The page of `theme-board.js` beside the database: `cards`, `chips`, `heat`,
`tray` and `drag` in the page, `themes` and `tagged` in the tables, requests
under way in `sent`. A drop, an assignment and a removal send a request
(`Drop`, `Assign`, `RemoveClick`); the server handles it (`Handle`, `Fails`);
the answer changes the page (`OnAdded`, `OnRemoved`, `OnError`) or is lost
(`AnswerLost`). `HeatOf` is the heat the page computes from its chips,
`ComputeHeatLevel` the one the server renders. `unsure` are the pairs of which
page and database need not agree: two requests under way at once, a lost
answer, a change made elsewhere.

### BarCache

The bars of one ticker, weekly or daily, shared by all users. `Check` is the
test of size and staleness, `Fetch`, `Store` (`upsert_bars` with its commit:
completed bars, newest ones kept, older ones deleted) and `Judge` (rules read
the table) follow in later steps. A fetched history may end with the bar of the
period in progress. The `force` argument, which no caller sets, is left out.

### Accounts

Rows of `users`: `Begin` reads the target's row, `CountAdmins` counts, and locks
on PostgreSQL, `SaveFlag` and `SaveUser` commit. Whether the database is
PostgreSQL or SQLite is chosen initially.

Every module names its mutants ("Mutant of ..."): a definition with a plausible
bug, under which the property listed with it in `PROJECT.json` is violated.

## 3. Runs

| run | bounds | shows |
| --- | --- | --- |
| `lifecycle` | 3 flows, 1 position, stale after 1 tick | `FlagOwned`: whatever old copies sessions write from, every flag is owed by a live task or was left by one that died. `OwnedFlagClears`: the tasks clear what they owe, without the sweep |
| `requests` | budget gate: 3 threads, 5 calls, budget 2, window 3, lag 1, horizon 6; interval gate: the same, interval 2; tiers: 2 requests, 3 days, 2 refreshes a day, ticker limit 1 of 2 rows; row: 3 flows, 2 tickers | `Paced`, `IntervalPaced` (refinements), `CallsSpaced`, `NoDelayUnderBudget`, `BudgetRespected`, `WindowIsSuffix`: what the deque forgot does not count. `QuotaNeedsOverlap`, `AddsNeedOverlap`: limits are exceeded only with overlapping requests. `EarlyRefusalNeedsMidnight`: a user is turned away early only on a day on which a request committed that had read the row before midnight and had overlapped another. `ForeignNeedsOverlap`: data of two tickers is never mixed without an edit that overlaps another session |
| `refresh_data` | 2 threads, 2 refreshes, 3 rows on 2 tickers, 1 of them long-term, 1 daily rule input, 2 days | `VerdictMatchesSnapshot`, `PreviousIsPrevious`, `OlderNeedsOverlap`: verdicts on other data than the row shows, wrong previous verdicts and snapshots going backwards need a refresh that ended between its commits, or two on the same row |
| `rules` | 8 studies of a weekly rule: histories of 6 to 9 weeks over 3 or 4 candles, some with a NULL; engine: 1 position, 2 fact sheets, 7 rules of which 2 enabled per strategy, 7 states of the caches | `LookbackSuffices`: the weeks kept for a rule decide as every week would. `ClusterNeedsCalm`, `ReversalConfirmed`, `BreakoutConfirmed`: a cluster, a reversal and a failed breakout fire in the right week only. `MissingDataFiresNothing`: lost averages, ranges and older days, and a newest week the rule cannot read, fire nothing. `VerdictIsStrongest`, `RequirementsSuffice`, `SummaryDriftNeedsChange` |
| `shared` | rules: 3 threads in 2 processes, 3 requests, 2 conditions, at most 1 at a time; recovery: 1 flow, 2 positions, stale after 2 ticks; board: 2 positions, 2 themes, 2 requests; pool: 2 users, 2 connections; bars: lookbacks 1 and 3, 3 to 5 periods; accounts: 2 users, 3 requests of which 2 at once | see below |
| `stuck_flag`, `ticker_edit_stale`, `quota_lost_update`, `refresh_page`, `lower_low`, `board`, `latch` | (violations) | section 6 |

What `shared` shows, study by study:

* rules: `SeededMeansStored`, `DefaultsNeverOverwrite`, `EmptyNeedsOverlap` (an
  enabled all-averages rule without a condition takes two overlapping
  requests), `RequestsEnd` (every request is answered, whatever fails);
* recovery: `OrphansSweepable`, `EveryFlagClears`: after crashes and failed
  commits the sweep finds every flag and clears it, if the user keeps looking;
* board: `BoardMatchesServer`: card, tray and database agree on every pair the
  page has settled, and the heat is what a reload would show;
* pool: `OwnSettingOrUndone`: transaction mode always sees its user, session
  mode unless a rollback took the setting back;
* bars: `ShortNeedsOther` (too few bars only after a failed fetch, or when
  another refresh stored bars meanwhile), `PartialNeedsTurn` (an unfinished bar only if its period completed
  between fetch and store);
* accounts: `LastAdminStays`, `OneNotification`.

Why the bounds are enough: three flows are a running refresh, a second one, and
an edit in between; a third adds no new kind of writer to the two columns. Two
positions are the least for which a refresh-all has a group that is done while
another waits. Five calls with a budget of two fill the window twice and let
the deque drop entries. A second and third day let a counter be stale by one
day and by two. Three rows on two tickers give a group with a representative and a copy,
with and without weekly data, beside a second group that is fresh or still
waiting; two refreshes are an overlapping pair, or one after the other. One
daily rule input is enough for a commit between the groups and the verdicts;
that no rule needs one, or one needs weekly bars, is left to the proof.
Histories of nine weeks hold the three swing highs an uptrend needs, with a
week on either side of each, and a window one shorter than the history. One
position suffices for the engine, as verdicts do not look at other rows; two
enabled rules are a pair in either order. Two threads of one process and one of
another are the least for which the lock and the unique constraint both matter.
Lookbacks of 1 and 3 are a refresh that trims what another needs. The proofs of section 5
remove these bounds from every safety property of the passing runs.

No deadlock is allowed in any run: the system can always take a request.

## 4. Fairness

`FlowFairness` is weak fairness of each flow's own steps: a thread that can run
runs, provider calls return (clients have timeouts) or raise. It is all that
`OwnedFlagClears` needs. The recovery study adds that time passes, that a stopped
server is started again (the platform does), and `UserReturns`: the portfolio
page is viewed again. The last is an assumption about the user, not about the
code; without it nothing sweeps between start-ups, and the start-up sweep only
takes flags that are already five minutes old. Crashes, deletes, edits and
requests are not fair.

The rules study has weak fairness of every step of a thread (`Step`): the lock
is released by a `with` block, queries return or raise. That is what
`RequestsEnd` needs; `Acquire` needs no strong fairness because requests are
finite in number. Posts and restarts are not fair. In `SharedSpec` the fairness
of both studies stands side by side; in the initial state of every other study
none of these actions is enabled, so it asks nothing of them.

`EveryFlagClears` is checked with one flow at a time, since with two the finding
below makes it false; and it admits that an edit, which does not look at the
flag, marks the row again and again.

## 5. Proofs

| theorem | says | argument |
| --- | --- | --- |
| **Refresh lifecycle** | | |
| `RefreshLifecycleProofs!TypeCorrect` | `Spec => []TypeOK` | inductive as it stands; one lemma per group of actions |
| `RefreshLifecycleProofs!FlagsAreOwned` | `Spec => []FlagOwned` | `IInv` is `TypeOK`, `MemLoaded` (a session knows flags of loaded rows only), `MarkedListed` (rows still to be marked are among the request's ids) and `FlagOwned`. `StepOwned`: a step of one flow cannot change what another owes, so per action only the flow that moves is looked at |
| `RefreshLifecycleProofs!OneFlowSweepable`, `SharedProofs!OrphansFound` | with one flow at a time, `[]OrphansSweepable` | `DatedInv`: every flag has its start time (`FlagsDated`), and a task that is about to reset a start time is about to reset the flag too (`CopiesDated`). With one flow nobody writes one of the two columns behind its back; with several it is false (`stuck_flag`) |
| **Rate limits** | | |
| `CallPacingProofs!CallsAreSpaced`, `NoIdleWaiting` | spacing at the provider; no needless wait, in the abstract system | `IInv`: slots are ordered and spaced and no call starts before its slot. No idle wait: a slot after `now` means the `Cap` slots before it lie in the trailing window or later, and counting them (`IntervalSize`) fills the budget |
| `RequestProofs!DequeIsSuffix` | `[]WindowIsSuffix` | what is pruned is out of the window, and stays out as time only grows |
| `RequestProofs!GateImplementsPacing` | `Paced` | with a suffix in the deque, `Reserved` is `NextSlot`: a forgotten slot `Cap` places back would give `now` |
| `RequestProofs!BudgetIsRespected`, `CallsAreSpaced`, `NoIdleWaiting` | `[]BudgetRespected`, `[]CallsSpaced`, `NoDelayUnderBudget` | the abstract results through the refinement (`Carried`) |
| `RequestProofs!IntervalGatePaces` | `IntervalPaced` | `lastCallAt` is the last slot |
| **Edits and tier limits** | | |
| `RequestProofs!ForeignTakesOverlap` | `[]ForeignNeedsOverlap` | while no edit has overlapped another session, an edit is the only one to hold the row (`EditIsAlone`), knows it as it is (`EditKnowsRow`), and a task has fetched for the ticker the row still has (`TaskKnowsTicker`) |
| `RequestProofs!QuotaTakesOverlap` | `[]QuotaNeedsOverlap` | `QuotaInv`: without overlap a request is alone and its copy is the row (`Alone`), and the row counts what was granted on its day, with nothing granted since (`Counted`); a charge is one more than the copy (`ChargeRight`), and nothing is dated, or granted, ahead of today (`NoneAhead`) |
| `RequestProofs!AddsTakeOverlap` | `AddsNeedOverlap` | from the same invariant with `RoomKept`: an add that passed the limit, alone, is still below it |
| `RequestProofs!RefusalsAreDue` | `EarlyRefusalNeedsMidnight` | a session that met no other knows the row as it is (`Unmet`), one that read before midnight loaded another day's counter (`LateOld`), and one that did not charges today (`ChargesToday`). So until one that is both commits (`mixed`), the count of today is backed by what was granted today (`CountBacked`), and the row, once dated today, stays so (`SameDay`) |
| `RequestProofs!TypesHold` | `[]RequestsTypeOK` | the types of the four parts |
| **Refresh data** | | |
| `RefreshDataProofs!VerdictsMatch` | `Spec => []VerdictMatchesSnapshot` | the property alone is not inductive: a session writes differences to a row it may no longer know. `IInv` adds `Sync` (a row nobody crossed is as the session believes), `Own` (its copies differ from that only in snapshots of the rows it refreshes), `TodoNeeded` and `AheadTracked` (a snapshot it has committed belongs to a row whose verdict it will compute). `CommitSync` and `CommitMatches` are shared by the actions that commit |
| `RefreshDataProofs!PreviousVerdicts` | `Spec => PreviousIsPrevious` | only `Judge` writes verdicts, and by `Sync` and `Own` the verdict it takes for the old one is the stored one |
| `RefreshDataProofs!DataTypes` | `Spec => []TypeOK` | `Stages`: how many caches are left, and what the thread was asked for, go by the stage it is in |
| `RefreshDataProofs!SnapshotsForward` | `Spec => OlderNeedsOverlap` | `FInv`: no row and no copy is of a later day than today (`RowsPast`), a copy is not older than what was loaded (`Forward`), and fetched bars are not older than the copies they replace (`BarsNewer`). With `Sync`, a commit to a row nobody crossed cannot take it back; weeks are monotone in days (`WeeksCount`) |
| **Rules** | | |
| `RuleProofs!StrongestWins` | `[]VerdictIsStrongest` | the first triggered rule is the one with the least place in the catalog (`SmallestOf`), and places order sells before trims |
| `RuleProofs!SummariesAgree` | `[]SummaryDriftNeedsChange` | `Kept`: until something is `touched`, a stored verdict is the one its position, rules and caches give now. An acknowledgement changes neither summary |
| `RuleProofs!MissingDataIsSafe` | `MissingDataFiresNothing` | `LostDataIsSafe`, rule by rule: a condition that holds with less data holds with more; a return that a shortened history still gives is the same (`ReturnOfPrefix`). `UnreadStep`, rule by rule: a newest week that cannot be read is no red week (`UnreadCluster`), completes no swing (`UnreadSwing`) and is no failed attempt (`UnreadBreakout`), and the wick is judged on it alone |
| `RuleProofs!RequirementsCover` | `[]RequirementsSuffice` | the days fetched are the largest any enabled rule asks for (`LargestOf`), so the newest of the newest days are the newest days |
| `RuleProofs!LookbacksCover` | `[]LookbackSuffices` | the last weeks of the last weeks are the last weeks; a rule looks at no other |
| `RuleProofs!BreakoutByAttempt` | `BreakoutConfirmed` | as a history grows inside the window, a loss, and the failures after a break above the level, stay what they are (`LostGrows`, `BreakoutGrows`); what turns the verdict is the new week |
| `RuleProofs!ReversalBySwing` | `ReversalConfirmed` | the new week leaves earlier swings as they are (`SwingsStay`); unless it completes one, the compared highs and lows are the same (`SameReversal`) |
| `RuleProofs!ClusterIsCalm` | `[]ClusterNeedsCalm` | at most half of the red weeks lie above their median (`RankedIs`, `BeyondRanked`, `HalfHeavy`), and with a multiplier above one a hit does |
| `RuleProofs!RulesTyped` | `[]RulesTypeOK` | the types of both parts |
| **Shared state** | | |
| `RuleStoreProofs!SeedingIsDone` | `Spec => []SeededMeansStored` | `IInv` adds `SeenLasts` (what a seeding thread saw of the rows is still so: rows, once there, stay, and deprecated ones never come back) and `SavesAllowed` (a thread about to save was allowed to by the row it loaded) |
| `RuleStoreProofs!SeedingNeverOverwrites` | `Spec => DefaultsNeverOverwrite` | a commit that seeds needs the rows seen, or absent still |
| `RuleStoreProofs!EmptyTakesOverlap` | `Spec => []EmptyNeedsOverlap` | a change that saw the row as it is was allowed on it; else `overlap` is set in the same step |
| `UnitOfWorkProofs!SettingIsOwn`, `SharedProofs!SettingIsOwn` | `[]OwnSettingOrUndone`, alone and in the composition | `IInv` adds `OneEach` (a database session runs one transaction at a time), `AtHome` (in session mode it is the connection's own) and `LatchRight` (a latch is right unless the connection is in `undone`) |
| `SharedProofs!ShortTakesOther`, `PartialTakesTurn` | `[]ShortNeedsOther`, `[]PartialNeedsTurn` | `HistoryFetched`: a fetch reaches back as far as the provider's first history; counting the newest bars kept (`NewestSize`). A store by one refresh disturbs every other on its way to the rules |
| `SharedProofs!AdminStays` | `LastAdminStays` | only the commit of a withdrawal takes a flag away (`AdminLeft`), and there are two administrators then (`TwoSeen`): on PostgreSQL the request holds the locks of both, in SQLite no other withdrawal ran meanwhile (`OneWithdrawal`) |
| `SharedProofs!AnnouncedOnce` | `[]OneNotification` | who was announced was announced once and is in the table (`AnnouncedStored`), and a second insert of the row fails |
| `SharedProofs!BoardInStep` | `[]BoardMatchesServer` | `BoardInv`: on a pair not left unsure there is one request at a time (`OneAsked`); card and tray agree with the table unless the server has made a change whose answer is still to come, and then the table is as that change leaves it (`PairsKept`). Heat follows the chips (`HeatKept`), and counts as the server does where chips and table agree. One lemma per handler and answer |
| `SharedProofs!SharedTypes` | `[]SharedTypeOK` | the types of the six studies |

Every safety property of every passing run is thus a theorem, for every number
of positions, tickers, users, rules, candles, flows, threads, processes and
connections, and every budget, window, lookback and stale age that the named
ASSUMEs admit; `OrphansSweepable` for one flow at a time, as in its run. The
assumptions are few: naturals where the code has counts, with the budget, the
stale age, the lookbacks and the first history positive; the sentinels `None` and `All` are no
values of the sets they stand beside; users,
positions of the board and conditions are finite sets; in session mode a
connection has a database session of its own; candles, levels and parameters are
integers, and a market lists averages, ranges, daily closes and weekly results
(`StudyAssumption`, `PortfolioAssumption`). TLC evaluates each on the instance it
checks. The proofs about the rules go through what an operator computes
(the least place, the last weeks, the rank of a volume) and not through how:
ranks stand for sorting, and positions for the recursion over periods.

Only model-checked are the liveness properties `OwnedFlagClears`,
`EveryFlagClears` and `RequestsEnd` (fairness is stated with ENABLED, which the
prover does not do). The properties of the violation runs are false, as
section 6 explains.

## 6. Where the code and its documentation disagree

* `stuck_flag`: overlapping edits and refreshes each write only the column that
  looks changed to them; after a crash a row has `refresh_in_progress` true and
  `refresh_started_at` NULL. The sweep and start-up ask for a start time, so
  "stale in-progress flags left behind by interrupted refreshes"
  (`app/main.py:397`) stays, and POST /refresh is refused from then on.
* `ticker_edit_stale`: a refresh that is fetching when the ticker is edited
  commits the old ticker's bars, dated today, onto the row after the edit; the
  refresh the edit has queued finds fresh data and fetches nothing
  (`app/main.py:1661`).
* `quota_lost_update`: overlapping requests are counted once
  (`app/templates/login.html:52`). Overlapping POST /add requests exceed the
  ticker limit in the same way.
* `lower_low`: the SELL for a lower high with a lower low compares the low with
  the earlier of the two highs; a low between them, before there is a lower
  high, is enough, although it "must be confirmed AFTER the lower high"
  (`app/rule_engine.py:706`).
* `board`: a chip dropped on a card takes its ticker and verdict from the drag
  that is going on when the answer comes (`app/static/theme-board.js:142`).
* `latch`: `app/config.py:47` holds a session-scoped setting to be present on
  the next transaction. It is not if the transaction that made it was rolled
  back; a request that only reads closes its session that way. The latch stays, and the
  user's next transaction on that connection runs under the setting from
  before.
* `refresh_page`: refresh-all commits the cleared flag of its last ticker group
  before it refreshes the rule inputs and stores the verdicts. The page finds
  all rows done, takes its counters from the verdicts of the refresh before and
  stops polling; "a single authoritative summary" (`app/main.py:2061`) stays
  wrong until a reload.

Also seen: requests that overlap at midnight can leave yesterday's count under
today's date, so that a user is refused although "Your limit resets at midnight
UTC" (`app/tiers.py:72`); `EarlyRefusalNeedsMidnight` shows that a day
without such a commit turns nobody away early. The refused request itself may
lie wholly inside the day. `refresh_in_progress` is documented as "True while a refresh is
running" (`.github/copilot-instructions.md:84`), but a refresh-all clears the
flags of a group long before it ends (`app/market_data/service.py:1312`), which
`AllGroup` models.

A NULL inside a history is skipped, and a rule may then fire that would not have
fired on the full one. A lost volume of an old red week lowers the median and
makes other weeks heavy; a lost heavy one can take the count from the SELL band
into the TRIM band (`app/rule_engine.py:552`); a NULL high or low changes which
weeks are swings (`:622`); a week of failure without a close moves the failure to
a later one; a NULL daily close makes the return reach back further; and a
position without a daily close is judged by the price the user typed. Nothing in
the repository promises otherwise, and `MissingDataFiresNothing` leaves these
cases out.

## 7. Plan

Done: the refresh lifecycle and its data, the gates, edits and quotas, the rule
store and the rules, verdicts and summaries, the pool, the theme board, the bar
caches and the accounts, and proofs of their safety properties. Left, should the
project go on:

1. The portfolio page: what `RefreshPage` adds to `RefreshData` (pending and
   miscounted rows) has no theorem yet, only the run that finds the counters wrong.
2. An abstract specification of the rule store (a row per user and strategy,
   changed by one request at a time) that it implements while nothing overlaps.
3. Time-outs and failed polls of the browser script over `RefreshLifecycle`.
4. Names of themes under their unique constraint.

## 8. Not modelled

The calendar of `staleness.py` (time zones, weekends, the hour of the close) is
arithmetic on one timestamp; the models count completed days and weeks. The
fetch cache of a refresh only saves calls. A position's daily close is the newest
bar of the provider's answer; `RefreshData` knows it by its day, so an unfinished
bar stored under that day's date is not told from a finished one there (the bar
caches, which filter it, are modelled with it in `BarCache`). Renaming themes and the filters of
the board, adding and deleting key levels, and the ticker lookup are single
reads or writes. Signed cookies, tokens and the key set belong to libraries.

Templates and styling, JSON parsing of the provider clients, logging, profiling,
mail, migrations and configuration hold no state that the other parts read.
Database isolation is statement level: each action is one statement or one
commit, as under READ COMMITTED. Numbers such as prices appear only where a
property tells them apart. Calendar holidays do not exist in the code.
