----------------------------- MODULE RuleEngine -----------------------------
(***************************************************************************)
(* rule_engine.evaluate_position: the rules of a strategy on one position. *)
(*                                                                         *)
(* position: [daily_close, current_price, cost_basis, investment_type,     *)
(*   benchmark]; a daily_close of 0 is one that was never retrieved.       *)
(* signals: what the caches hold for its ticker.  ma and atr are functions *)
(*   on the (interval, period) pairs that are there; close, sma and atr    *)
(*   are 0 where the row holds a NULL.  daily gives the closes of the      *)
(*   position's ticker and of its benchmark, newest first.  candles is the *)
(*   set of the rules of WeeklyRules that the weekly candles trigger.      *)
(* selection: [key, params], a rule the user enabled.                      *)
(***************************************************************************)
EXTENDS Integers, Sequences, FiniteSets, SequencesExt

Types == {"long-term", "short-term"}

\* RULE_CATALOG, in the order of verdict, sort order and key.
Catalog ==
  <<[key |-> "SELL_MA_ALL",                      verdict |-> "sell", order |-> 10],
    [key |-> "SELL_EXTENSION_ATR",               verdict |-> "sell", order |-> 15],
    [key |-> "SELL_FAILED_BREAKOUT_RECLAIM",     verdict |-> "sell", order |-> 16],
    [key |-> "SELL_WEEKLY_DISTRIBUTION_CLUSTER", verdict |-> "sell", order |-> 18],
    [key |-> "SELL_WEEKLY_LOWER_HIGH_LOWER_LOW", verdict |-> "sell", order |-> 19],
    [key |-> "TRIM_EXTENSION_ATR",               verdict |-> "trim", order |-> 15],
    [key |-> "TRIM_WEEKLY_UPPER_WICK",           verdict |-> "trim", order |-> 17],
    [key |-> "TRIM_WEEKLY_DISTRIBUTION_CLUSTER", verdict |-> "trim", order |-> 18],
    [key |-> "TRIM_RELATIVE_WEAKNESS_VS_SECTOR", verdict |-> "trim", order |-> 19],
    [key |-> "TRIM_WEEKLY_FIRST_LOWER_HIGH",     verdict |-> "trim", order |-> 19],
    [key |-> "TRIM-10PCT",                       verdict |-> "trim", order |-> 20],
    [key |-> "HOLD-ABOVE-COST",                  verdict |-> "hold", order |-> 30]>>

Place(key) == CHOOSE i \in 1..Len(Catalog) : Catalog[i].key = key
Keys == {Catalog[i].key : i \in 1..Len(Catalog)}

\* A stored parameter counts when it is there and at least its minimum.
Setting(params, name, minimum, default) ==
  IF name \in DOMAIN params /\ params[name] >= minimum THEN params[name] ELSE default

\* The daily close, and the price the user typed in until there is one.
EffectivePrice(position) ==
  IF position.daily_close # 0 THEN position.daily_close ELSE position.current_price

-----------------------------------------------------------------------------
\* Mutant of SellMaAll: a condition whose data is missing is passed over.
SellMaAllKnown(signals, params) ==
  /\ "conditions" \in DOMAIN params /\ params.conditions # {}
  /\ \A c \in params.conditions \cap DOMAIN signals.ma :
       signals.ma[c].close < signals.ma[c].sma

\* Every condition has data and its close is below its average.
SellMaAll(signals, params) ==
  /\ "conditions" \in DOMAIN params /\ params.conditions # {}
  /\ \A c \in params.conditions :
       /\ c \in DOMAIN signals.ma
       /\ signals.ma[c].close > 0 /\ signals.ma[c].sma > 0
       /\ signals.ma[c].close < signals.ma[c].sma

Interval(params) == IF "interval" \in DOMAIN params THEN params.interval ELSE "daily"

\* Mutant of ExtensionNeeds: the periods are fetched for the daily interval.
ExtensionNeedsDaily(params) ==
  [ma  |-> <<"daily", Setting(params, "sma_period", 2, 50)>>,
   atr |-> <<"daily", Setting(params, "atr_period", 2, 14)>>]

\* get_extension_indicator_requirements: what the refresh fetches for the rule.
ExtensionNeeds(params) ==
  [ma  |-> <<Interval(params), Setting(params, "sma_period", 2, 50)>>,
   atr |-> <<Interval(params), Setting(params, "atr_period", 2, 14)>>]

\* _compute_atr_extension_ratio reads the same parameters once more; the price
\* is at least threshold ranges above the average.
Extended(position, signals, params, threshold) ==
  LET ma    == <<Interval(params), Setting(params, "sma_period", 2, 50)>>
      atr   == <<Interval(params), Setting(params, "atr_period", 2, 14)>>
      price == EffectivePrice(position)
  IN /\ price > 0
     /\ ma \in DOMAIN signals.ma /\ signals.ma[ma].sma > 0
     /\ atr \in DOMAIN signals.atr /\ signals.atr[atr] > 0
     /\ price - signals.ma[ma].sma >= threshold * signals.atr[atr]

\* The rule's own threshold, or else the one both rules used to share.
Threshold(params, name, default) ==
  Setting(params, IF name \in DOMAIN params THEN name ELSE "threshold", 1, default)

TrimExtension(position, signals, params) ==
  Extended(position, signals, params,
           Threshold(params, "trim_threshold", 8))

SellExtension(position, signals, params) ==
  Extended(position, signals, params,
           Threshold(params, "sell_threshold", 10))

\* Mutant of PeriodEnds: a history that is too short counts from its first day.
PeriodEndsAnyway(closes, days) ==
  LET valid == {i \in 1..Len(closes) : closes[i] > 0}
      Nth(n) == closes[CHOOSE i \in valid : Cardinality({j \in valid : j <= i}) = n]
  IN IF valid = {} THEN <<>> ELSE <<Nth(Min({days + 1, Cardinality(valid)})), Nth(1)>>

\* The closes a return is computed from: fewer than the lookback are none.
PeriodEnds(closes, days) ==
  LET valid == {i \in 1..Len(closes) : closes[i] > 0}
      Nth(n) == closes[CHOOSE i \in valid : Cardinality({j \in valid : j <= i}) = n]
  IN IF Cardinality(valid) < days + 1 THEN <<>> ELSE <<Nth(days + 1), Nth(1)>>

\* get_relative_weakness_lookback_days
LookbackDays(params) == Setting(params, "lookback_days", 1, 63)

\* The benchmark rose enough, and the stock fell behind it by the gap; the
\* returns from a to b and from s to t in percent, times their two bases.
RelativeWeakness(position, signals, params) ==
  LET days == LookbackDays(params)
      stock == PeriodEnds(signals.daily.stock, days)
      bench == PeriodEnds(signals.daily.benchmark, days)
  IN /\ position.benchmark
     /\ stock # <<>> /\ bench # <<>>
     /\ (bench[2] - bench[1]) * 100
          >= Setting(params, "min_benchmark_return", 1, 8) * bench[1]
     /\ (bench[2] - bench[1]) * stock[1] * 100 - (stock[2] - stock[1]) * bench[1] * 100
          >= Setting(params, "underperformance_gap", 1, 10) * bench[1] * stock[1]

TrimAbove10Percent(position) ==
  /\ position.cost_basis > 0
  /\ (EffectivePrice(position) - position.cost_basis) * 100 > 10 * position.cost_basis

HoldAboveCostBasis(position) == EffectivePrice(position) >= position.cost_basis

Fires(key, position, signals, params) ==
  CASE key = "SELL_MA_ALL"        -> SellMaAll(signals, params)
    [] key = "SELL_EXTENSION_ATR" -> SellExtension(position, signals, params)
    [] key = "TRIM_EXTENSION_ATR" -> TrimExtension(position, signals, params)
    [] key = "TRIM_RELATIVE_WEAKNESS_VS_SECTOR" -> RelativeWeakness(position, signals, params)
    [] key = "TRIM-10PCT"         -> TrimAbove10Percent(position)
    [] key = "HOLD-ABOVE-COST"    -> HoldAboveCostBasis(position)
    [] OTHER                      -> key \in signals.candles

-----------------------------------------------------------------------------
ExtensionKeys == {"SELL_EXTENSION_ATR", "TRIM_EXTENSION_ATR"}

\* _compute_requirements_from_rows: the averages, ranges and days to be fetched.
Requirements(selections) ==
  LET rows == {selections[i] : i \in 1..Len(selections)}
      extensions == {ExtensionNeeds(r.params) : r \in {s \in rows : s.key \in ExtensionKeys}}
      weakness   == {s \in rows : s.key = "TRIM_RELATIVE_WEAKNESS_VS_SECTOR"}
  IN [ma  |-> {e.ma : e \in extensions}
                \cup UNION {r.params.conditions : r \in {s \in rows :
                              s.key = "SELL_MA_ALL" /\ "conditions" \in DOMAIN s.params}},
      atr |-> {e.atr : e \in extensions},
      days |-> Max({0} \cup {LookbackDays(r.params) : r \in weakness})]

-----------------------------------------------------------------------------
\* The first selection of each rule the catalog knows.
Candidates(selections) ==
  {i \in 1..Len(selections) :
     /\ selections[i].key \in Keys
     /\ \A j \in 1..i - 1 : selections[j].key # selections[i].key}

\* The rules that fire, each with its own parameters.
Fired(position, signals, selections) ==
  IF position.investment_type \notin Types THEN {}
  ELSE {selections[i].key : i \in {j \in Candidates(selections) :
          Fires(selections[j].key, position, signals, selections[j].params)}}

\* Mutant of Before: the sort order counts before the verdict.
BeforeByOrder(a, b) ==
  \/ Catalog[Place(a)].order < Catalog[Place(b)].order
  \/ Catalog[Place(a)].order = Catalog[Place(b)].order /\ Place(a) < Place(b)

Before(a, b) == Place(a) < Place(b)

\* How many of the fired rules come before one of them.
Rank(k, fired) == Cardinality({j \in fired : Before(j, k)})

\* evaluate_position: the keys of the triggered rules, strongest first.
Triggered(position, signals, selections) ==
  LET fired == Fired(position, signals, selections)
  IN [n \in 1..Cardinality(fired) |-> CHOOSE k \in fired : Rank(k, fired) = n - 1]

\* Mutant of Verdict: no rule fired, no verdict.
VerdictOfFirst(triggered) ==
  IF triggered = <<>> THEN "none" ELSE Catalog[Place(triggered[1])].verdict

\* get_verdict
Verdict(triggered) == IF triggered = <<>> THEN "hold" ELSE Catalog[Place(triggered[1])].verdict

ComputedVerdict(position, signals, selections) ==
  Verdict(Triggered(position, signals, selections))
=============================================================================
