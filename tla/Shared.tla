------------------------------- MODULE Shared -------------------------------
(* What several users, requests or processes share: the stored rules, the     *)
(* refresh flags after crashes, the theme board and its page, the pooled      *)
(* connections, the cached bars and the accounts.  The six have no state in   *)
(* common, so a behaviour is about one of them, its study; the variables of   *)
(* the others keep their initial values.                                      *)
EXTENDS RuleStore

CONSTANTS
  Pos, Worker, StaleAfter,                       \* RefreshLifecycle, whose flows are Worker
  Position, VerdictOf, Theme, Slot, MaxSent,     \* ThemeBoard
  User, Connection, Backend, PoolHome(_),        \* UnitOfWork
  Refresh, Lookback(_), History, MaxPeriod,      \* BarCache
  Member, Flow, MaxAsked                         \* Accounts, whose users are Member

VARIABLES
  study,
  up, rows, flagged, age, taskPc, task, ids, loaded, memFlag, memLease, todo, orphaned,
  themes, unused, tagged, cards, chips, heat, tray, drag, sent, changes, unsure,
  mode, setting, latch, tx, undone,
  series, last, bars, partial, at, fetched, disturbed, failed, turned,
  dialect, users, admins, locks, flowPc, ask, saw, notified, asked, crossed

recoveryVars == <<up, rows, flagged, age, taskPc, task, ids, loaded, memFlag, memLease,
                  todo, orphaned>>
boardVars    == <<themes, unused, tagged, cards, chips, heat, tray, drag, sent, changes, unsure>>
poolVars     == <<mode, setting, latch, tx, undone>>
barVars      == <<series, last, bars, partial, at, fetched, disturbed, failed, turned>>
accountVars  == <<dialect, users, admins, locks, flowPc, ask, saw, notified, asked, crossed>>

-----------------------------------------------------------------------------
Recovery == INSTANCE RefreshLifecycle WITH Flow <- Worker, pc <- taskPc, kind <- task

Board == INSTANCE ThemeBoard WITH asked <- changes

Pool == INSTANCE UnitOfWork WITH Home <- PoolHome

Bars == INSTANCE BarCache WITH kind <- series

People == INSTANCE Accounts WITH User <- Member, pc <- flowPc, overlap <- crossed

ASSUME RecoverySettings == Recovery!StaleAfterAssumption /\ Recovery!NoneAssumption
ASSUME BoardSettings    == Board!BoardAssumption
ASSUME PoolSettings     == Pool!PoolAssumption
ASSUME BarSettings      == Bars!BarAssumption
ASSUME PeopleSettings   == People!PeopleAssumption

-----------------------------------------------------------------------------
SharedInit ==
  /\ study \in {"rules", "recovery", "board", "pool", "bars", "accounts"}
  /\ Init /\ Recovery!Init /\ Board!Init /\ Pool!Init /\ Bars!Init /\ People!Init
  /\ study # "rules"    => ~stored /\ ~legacy
  /\ study # "recovery" => rows = {}
  /\ study # "board"    => themes = {}
  /\ study # "pool"     => mode = "session"
  /\ study # "bars"     => series = "daily" /\ bars = {}
  /\ study # "accounts" => dialect = "sqlite" /\ users = {}

SharedNext ==
  /\ study' = study
  /\ \/ /\ study = "rules" /\ Next
        /\ UNCHANGED <<recoveryVars, boardVars, poolVars, barVars, accountVars>>
     \/ /\ study = "recovery" /\ Recovery!Next
        /\ UNCHANGED <<vars, boardVars, poolVars, barVars, accountVars>>
     \/ /\ study = "board" /\ Board!Next
        /\ UNCHANGED <<vars, recoveryVars, poolVars, barVars, accountVars>>
     \/ /\ study = "pool" /\ Pool!Next
        /\ UNCHANGED <<vars, recoveryVars, boardVars, barVars, accountVars>>
     \/ /\ study = "bars" /\ Bars!Next
        /\ UNCHANGED <<vars, recoveryVars, boardVars, poolVars, accountVars>>
     \/ /\ study = "accounts" /\ People!Next
        /\ UNCHANGED <<vars, recoveryVars, boardVars, poolVars, barVars>>

\* The fairness of the two studies that ask for it.  In the initial states of
\* the others none of these actions is enabled.
SharedSpec ==
  /\ SharedInit
  /\ [][SharedNext]_<<study, vars, recoveryVars, boardVars, poolVars, barVars, accountVars>>
  /\ \A t \in Thread : WF_vars(Step(t))
  /\ Recovery!FlowFairness /\ Recovery!UserReturns
  /\ WF_recoveryVars(Recovery!Tick) /\ WF_recoveryVars(Recovery!Startup)

-----------------------------------------------------------------------------
\* The types of all studies.
SharedTypeOK ==
  /\ TypeOK /\ Recovery!TypeOK /\ Board!TypeOK /\ Pool!TypeOK /\ Bars!TypeOK /\ People!TypeOK

\* A flag left by a dead task has the start time that lets the sweep or the
\* start of the server clear it (_mark_positions_refresh_state).
OrphansSweepable == Recovery!OrphansSweepable

\* While the user looks at the portfolio every flag is cleared in the end,
\* crashes or not (clear_stale_refresh_flags, lifespan).
EveryFlagClears == Recovery!EveryFlagClears

\* What the page of themes changes by itself is what the server would render
\* (onDropZone, handleRemoveClick, doAssign, updateHeatIndicator).
BoardMatchesServer == Board!BoardMatchesServer

\* The policies compare with the user of the transaction, unless in session
\* mode a rollback took the setting back (the hook after_begin).
OwnSettingOrUndone == Pool!OwnSettingOrUndone

\* Only another refresh, or a fetch that failed, leaves too few bars
\* (refresh_weekly_bar_cache, refresh_daily_bar_cache).
ShortNeedsOther == Bars!ShortNeedsOther

\* Only a period that ends during the fetch leaves its unfinished bar in the
\* table (the completed filter before upsert_bars).
PartialNeedsTurn == Bars!PartialNeedsTurn

\* The last administrator keeps the flag, on SQLite unless two withdrawals
\* overlap (admin_update_admin_flag).
LastAdminStays == People!LastAdminStays

\* A new member is announced once (auth_email_verify, oauth_callback).
OneNotification == People!OneNotification
=============================================================================
