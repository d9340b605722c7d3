----------------------------- MODULE MCRequests -----------------------------
(* Requests that overlap, in four studies that share no state: calls through   *)
(* the budget gate and through the interval gate, refreshes and adds under     *)
(* the tier limits, edits and refreshes of one row.  A behaviour is about one  *)
(* of them; the variables of the others keep their initial values.             *)
EXTENDS BudgetGate

CONSTANTS
  MinInterval, None,                      \* IntervalGate
  Flow, MaxRefresh, MaxTickers, MaxRows, MaxDay,   \* RefreshQuota
  Ticker, Session                         \* TickerEdit, whose flows are Session

VARIABLES
  study,
  time, given, begun, caller, lastCallAt,                        \* IntervalGate
  today, capped, count, countDate, rows, pc, kind, old, new, granted,   \* RefreshQuota
  overlap, met, late, mixed,
  ticker, data, fresh, at, memTicker, memData, memFresh, dirty, crossed

intervalVars == <<time, given, begun, caller, lastCallAt>>
tierVars == <<today, capped, count, countDate, rows, pc, kind, old, new, granted,
              overlap, met, late, mixed>>
rowVars == <<ticker, data, fresh, at, memTicker, memData, memFresh, dirty, crossed>>

Interval == INSTANCE IntervalGate WITH
  now <- time, slots <- given, starts <- begun, call <- caller

Quota == INSTANCE RefreshQuota

Row == INSTANCE TickerEdit WITH Flow <- Session, pc <- at, overlap <- crossed

ASSUME IntervalSettings == Interval!IntervalAssumption
ASSUME QuotaSettings    == Quota!QuotaAssumption
ASSUME RowSettings      == Row!RowAssumption

-----------------------------------------------------------------------------
RequestsInit ==
  /\ study \in {"budget", "interval", "tiers", "row"}
  /\ Init /\ Interval!Init /\ Quota!Init /\ Row!Init
  /\ study # "tiers" => capped
  /\ study # "row" => data = None /\ ticker = CHOOSE t \in Ticker : TRUE

RequestsNext ==
  /\ study' = study
  /\ \/ study = "budget" /\ Next /\ UNCHANGED <<intervalVars, tierVars, rowVars>>
     \/ study = "interval" /\ Interval!Next /\ UNCHANGED <<vars, tierVars, rowVars>>
     \/ study = "tiers" /\ Quota!Next /\ UNCHANGED <<vars, intervalVars, rowVars>>
     \/ study = "row" /\ Row!Next /\ UNCHANGED <<vars, intervalVars, tierVars>>

RequestsSpec ==
  RequestsInit /\ [][RequestsNext]_<<study, vars, intervalVars, tierVars, rowVars>>

\* The types of all four studies, the budget gate's first.
RequestsTypeOK == TypeOK /\ Interval!TypeOK /\ Quota!TypeOK /\ Row!TypeOK

\* The gate of Alpha Vantage, and of Twelve Data without a budget, implements
\* CallPacing with one slot per interval (_wait_for_slot, _wait_for_interval_slot).
IntervalPaced == Interval!Paced

\* Only overlapping requests break the daily quota (check_and_consume_refresh).
QuotaNeedsOverlap == Quota!QuotaNeedsOverlap

\* Nor is the ticker limit exceeded unless they overlap (check_can_add_position).
AddsNeedOverlap == Quota!AddsNeedOverlap

\* A user is turned away early only on a day on which a request that had read
\* the row before midnight and had overlapped another one has committed ("Your
\* limit resets at midnight UTC", check_and_consume_refresh).
EarlyRefusalNeedsMidnight == Quota!EarlyRefusalNeedsMidnight

\* Data of two tickers is mixed only if an edit and another session hold the
\* row at once (edit_position, refresh_position).
ForeignNeedsOverlap == Row!ForeignNeedsOverlap
=============================================================================
