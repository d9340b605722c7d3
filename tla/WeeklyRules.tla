---------------------------- MODULE WeeklyRules ----------------------------
(***************************************************************************)
(* The rules of rule_engine.py that read the weekly candles of a ticker:   *)
(* upper wick, distribution cluster, lower high / lower low, failed        *)
(* breakout.  A week after the other closes and each rule judges the       *)
(* candles there are.  The program keeps the history newest first; here    *)
(* the newest candle is the last.  A candle's price or volume of 0 is a    *)
(* NULL of the cache.  Ratios are compared by cross-multiplication: shares *)
(* in percent, multipliers in tenths, price buffers in tenths of a percent.*)
(***************************************************************************)
EXTENDS Integers, Sequences, FiniteSets

CONSTANT Study   \* what is examined: [rule, params, levels, candles, weeks]

\* Parameters, prices and volumes are numbers, and no candle's is negative.
ASSUME StudyAssumption ==
  \A s \in Study :
    /\ s.rule \in {"wick", "cluster", "reversal", "breakout"}
    /\ s.weeks \in Nat
    /\ s.candles \subseteq [open : Nat, high : Nat, low : Nat, close : Nat, volume : Nat]
    /\ \A l \in s.levels : l.price \in Int
    /\ \A name \in DOMAIN s.params : s.params[name] \in Int

VARIABLES study,   \* the rule with its parameters, and the candles to feed it
          weeks    \* the completed weeks of the ticker, oldest first

vars == <<study, weeks>>

-----------------------------------------------------------------------------
Least(S) == CHOOSE x \in S : \A y \in S : x <= y
Largest(S) == CHOOSE x \in S : \A y \in S : x >= y

\* The parameters a rule falls back to.  Two rules have a lookback_weeks: the
\* one of the failed breakout is named apart.
Default ==
  [upper_wick_ratio_min |-> 60, body_ratio_max |-> 25, near_high_pct |-> 5,
   lookback_high_weeks |-> 26,
   baseline_lookback_weeks |-> 20, cluster_window_weeks |-> 8,
   volume_multiplier |-> 15, trim_hits |-> 2, sell_hits |-> 3,
   pivot_left |-> 2, pivot_right |-> 2, lookback_weeks |-> 30,
   require_prior_uptrend |-> 1,
   breakout_confirm_weeks |-> 1, failure_buffer_pct |-> 10,
   reclaim_window_weeks |-> 4, reclaim_fail_buffer_pct |-> 5,
   breakout_lookback_weeks |-> 52]

\* The parameters that may be zero: every other one must be positive.
MayBeZero ==
  {"body_ratio_max", "near_high_pct", "failure_buffer_pct",
   "reclaim_fail_buffer_pct", "require_prior_uptrend"}

\* A stored parameter counts when it is there and in range.
Param(p, name) ==
  IF /\ name \in DOMAIN p
     /\ p[name] > 0 \/ (p[name] = 0 /\ name \in MayBeZero)
  THEN p[name] ELSE Default[name]

\* history[:n], the n most recent weeks.
LastWeeks(bars, n) == SubSeq(bars, Largest({1, Len(bars) + 1 - n}), Len(bars))

\* Mutant of Priced: the low is not looked at.
PricedHigh(bar) == bar.high > 0

Priced(bar) == bar.high > 0 /\ bar.low > 0
Drawn(bar) == Priced(bar) /\ bar.open > 0 /\ bar.close > 0

-----------------------------------------------------------------------------
(* TRIM on a long upper wick near the recent high. *)

NearHigh(bars, p, close) ==
  LET highs == {bars[i].high : i \in 1..Len(bars)} \ {0}
  IN /\ highs # {}
     /\ (Largest(highs) - close) * 100 <= Param(p, "near_high_pct") * Largest(highs)

UpperWick(bars, p) ==
  /\ bars # <<>>
  /\ LET latest == bars[Len(bars)]
         range  == latest.high - latest.low
         wick   == latest.high - Largest({latest.open, latest.close})
         body   == Largest({latest.close - latest.open, latest.open - latest.close})
     IN /\ Drawn(latest)
        /\ range > 0
        /\ Largest({wick, 0}) * 100 >= Param(p, "upper_wick_ratio_min") * range
        /\ body * 100 <= Param(p, "body_ratio_max") * range
        /\ NearHigh(LastWeeks(bars, Param(p, "lookback_high_weeks")), p, latest.close)

-----------------------------------------------------------------------------
(* TRIM and SELL on a cluster of red weeks with a high volume. *)

\* Mutant of Red: a week without a volume counts too.
RedAnyVolume(bar) == bar.open > 0 /\ bar.close > 0 /\ bar.close < bar.open

Red(bar) == bar.open > 0 /\ bar.close > 0 /\ bar.volume > 0 /\ bar.close < bar.open

RedWeeks(bars) == {i \in 1..Len(bars) : Red(bars[i])}

\* The n-th of the volumes of the red weeks, in ascending order.
RankedVolume(bars, n) ==
  Least({bars[i].volume : i \in {k \in RedWeeks(bars) :
           Cardinality({j \in RedWeeks(bars) : bars[j].volume <= bars[k].volume}) >= n}})

\* Mutant of DoubledMedian: the middle is taken one place too low.
DoubledLowerMedian(bars) ==
  2 * RankedVolume(bars, Largest({1, Cardinality(RedWeeks(bars)) \div 2}))

\* Twice the median volume of the red weeks, so that it is an integer.
DoubledMedian(bars) ==
  LET n == Cardinality(RedWeeks(bars))
  IN RankedVolume(bars, (n + 1) \div 2) + RankedVolume(bars, n \div 2 + 1)

\* The weeks that are heavy against a baseline; without a red week there is none.
HeavyWeeks(bars, base, p) ==
  {i \in RedWeeks(bars) :
     /\ RedWeeks(base) # {}
     /\ 20 * bars[i].volume >= DoubledMedian(base) * Param(p, "volume_multiplier")}

\* _detect_distribution_cluster_hits
Hits(bars, p) ==
  Cardinality(HeavyWeeks(LastWeeks(bars, Param(p, "cluster_window_weeks")),
                         LastWeeks(bars, Param(p, "baseline_lookback_weeks")), p))

TrimCluster(bars, p) ==
  Hits(bars, p) >= Param(p, "trim_hits") /\ Hits(bars, p) < Param(p, "sell_hits")

SellCluster(bars, p) == Hits(bars, p) >= Param(p, "sell_hits")

-----------------------------------------------------------------------------
(* TRIM on a lower high, SELL on a lower high with a lower low. *)

\* Mutant of Around: the weeks to the right of a swing need not have closed.
AroundOpen(bars, p) ==
  [i \in Param(p, "pivot_left") + 1 .. Len(bars) |->
     (i - Param(p, "pivot_left")
        .. Least({i + Param(p, "pivot_right"), Len(bars)})) \ {i}]

\* The weeks a swing at week i is compared with; the ends have no swings.
Around(bars, p) ==
  [i \in Param(p, "pivot_left") + 1 .. Len(bars) - Param(p, "pivot_right") |->
     (i - Param(p, "pivot_left") .. i + Param(p, "pivot_right")) \ {i}]

SwingHighs(bars, p) ==
  {i \in DOMAIN Around(bars, p) :
     /\ Priced(bars[i])
     /\ \A j \in Around(bars, p)[i] : Priced(bars[j]) /\ bars[j].high < bars[i].high}

SwingLows(bars, p) ==
  {i \in DOMAIN Around(bars, p) :
     /\ Priced(bars[i])
     /\ \A j \in Around(bars, p)[i] : Priced(bars[j]) /\ bars[j].low > bars[i].low}

Latest(S) == Largest(S)
Previous(S) == Largest(S \ {Largest(S)})

\* There is a swing high before the previous one, and none of them tops it.
PriorUptrend(bars, highs) ==
  /\ Cardinality(highs) >= 3
  /\ \A i \in highs \ {Latest(highs)} : bars[i].high <= bars[Previous(highs)].high

ReversalWindow(bars, p) == LastWeeks(bars, Param(p, "lookback_weeks"))

\* _detect_lower_high_lower_low says nothing about too short a window, with
\* fewer than two swings each, or about a lower high without an uptrend.
LowerHigh(bars, p) ==
  LET w == ReversalWindow(bars, p)
      highs == SwingHighs(w, p)
      lows  == SwingLows(w, p)
  IN /\ Len(w) >= Param(p, "pivot_left") + Param(p, "pivot_right") + 2
     /\ Cardinality(highs) >= 2
     /\ Cardinality(lows) >= 2
     /\ w[Latest(highs)].high < w[Previous(highs)].high
     /\ Param(p, "require_prior_uptrend") = 1 => PriorUptrend(w, highs)

LowerHighLowerLow(bars, p) ==
  LET w == ReversalWindow(bars, p)
      highs == SwingHighs(w, p)
      lows  == SwingLows(w, p)
  IN /\ LowerHigh(bars, p)
     /\ w[Latest(lows)].low < w[Previous(lows)].low
     /\ Latest(lows) > Previous(highs)

TrimFirstLowerHigh(bars, p) == LowerHigh(bars, p) /\ ~LowerHighLowerLow(bars, p)

SellLowerHighLowerLow(bars, p) == LowerHighLowerLow(bars, p)

-----------------------------------------------------------------------------
(* SELL when a key level was broken out of, lost, and not reclaimed. *)

Above(bar, level) == bar.close > level

\* The longest spans of closes above the level.
BreakoutSpans(bars, level) ==
  {span \in (1..Len(bars)) \X (1..Len(bars)) :
     /\ span[1] <= span[2]
     /\ \A i \in span[1]..span[2] : Above(bars[i], level)
     /\ span[1] > 1 => ~Above(bars[span[1] - 1], level)
     /\ span[2] < Len(bars) => ~Above(bars[span[2] + 1], level)}

Below(bar, level, buffer) == bar.close > 0 /\ bar.close * 1000 <= level * (1000 - buffer)

FailureWeeks(bars, p, level, after) ==
  {j \in after + 1 .. Len(bars) : Below(bars[j], level, Param(p, "failure_buffer_pct"))}

\* Mutant of ReclaimWeeks: the failure week itself may be the failed attempt.
ReclaimWeeksFromFailure(bars, p, failed) ==
  failed .. Least({failed + Param(p, "reclaim_window_weeks"), Len(bars)})

ReclaimWeeks(bars, p, failed) ==
  failed + 1 .. Least({failed + Param(p, "reclaim_window_weeks"), Len(bars)})

FailedReclaim(bar, p, level) ==
  bar.high >= level /\ Below(bar, level, Param(p, "reclaim_fail_buffer_pct"))

\* _detect_failed_breakout_reclaim: after a span long enough, the first close
\* below the level with its buffer, and an attempt that fails in the weeks after.
FailedBreakout(bars, p, level) ==
  \E span \in BreakoutSpans(bars, level) :
    /\ span[2] - span[1] + 1 >= Param(p, "breakout_confirm_weeks")
    /\ LET failures == FailureWeeks(bars, p, level, span[2])
       IN /\ failures # {}
          /\ \E k \in ReclaimWeeks(bars, p, Least(failures)) :
               FailedReclaim(bars[k], p, level)

\* The key levels a position has switched on.
ActiveLevels(levels) == {l.price : l \in {k \in levels : k.active /\ k.price > 0}}

SellFailedBreakout(bars, p, levels) ==
  \E level \in ActiveLevels(levels) :
    FailedBreakout(LastWeeks(bars, Param(p, "breakout_lookback_weeks")), p, level)

-----------------------------------------------------------------------------
\* Mutant of LookbackWeeks: the weeks of the cluster are left out.
LookbackWeeksOfBaseline(rule, p) ==
  CASE rule = "wick"     -> Param(p, "lookback_high_weeks")
    [] rule = "cluster"  -> Param(p, "baseline_lookback_weeks")
    [] rule = "reversal" -> Param(p, "lookback_weeks")
    [] rule = "breakout" -> Param(p, "breakout_lookback_weeks")

\* get_*_lookback_weeks: the weeks the bar cache is asked to keep for a rule.
LookbackWeeks(rule, p) ==
  CASE rule = "wick"     -> Param(p, "lookback_high_weeks")
    [] rule = "cluster"  -> Largest({Param(p, "baseline_lookback_weeks"),
                                     Param(p, "cluster_window_weeks")})
    [] rule = "reversal" -> Param(p, "lookback_weeks")
    [] rule = "breakout" -> Param(p, "breakout_lookback_weeks")

\* What the two rules of a pair say of the candles.
Fires(s, bars) ==
  CASE s.rule = "wick"     -> [trim |-> UpperWick(bars, s.params), sell |-> FALSE]
    [] s.rule = "cluster"  -> [trim |-> TrimCluster(bars, s.params),
                               sell |-> SellCluster(bars, s.params)]
    [] s.rule = "reversal" -> [trim |-> TrimFirstLowerHigh(bars, s.params),
                               sell |-> SellLowerHighLowerLow(bars, s.params)]
    [] s.rule = "breakout" -> [trim |-> FALSE,
                               sell |-> SellFailedBreakout(bars, s.params, s.levels)]

Init == study \in Study /\ weeks = <<>>

NewWeek ==
  /\ Len(weeks) < study.weeks
  /\ \E bar \in study.candles : weeks' = Append(weeks, bar)
  /\ UNCHANGED study

\* The weeks of the study are over.
Over == Len(weeks) = study.weeks /\ UNCHANGED vars

Next == NewWeek \/ Over

Spec == Init /\ [][Next]_vars

-----------------------------------------------------------------------------
TypeOK ==
  /\ study \in Study
  /\ weeks \in Seq(study.candles)
  /\ Len(weeks) <= study.weeks

\* The weeks a rule tells the bar cache to keep are enough: with only those
\* the rule says what it says with every week ever seen.
LookbackSuffices ==
  Fires(study, LastWeeks(weeks, LookbackWeeks(study.rule, study.params)))
    = Fires(study, weeks)

\* A week counts as heavy against the other red weeks: when the multiplier is
\* above one and the cluster lies in the baseline, at most half of the red
\* weeks of the baseline can be hits, so a cluster that fires the SELL needs
\* as many calmer red weeks before it, however heavy its own volume is.
ClusterNeedsCalm ==
  LET p == study.params IN
  (/\ study.rule = "cluster"
   /\ Param(p, "volume_multiplier") > 10
   /\ Param(p, "cluster_window_weeks") <= Param(p, "baseline_lookback_weeks"))
     => 2 * Hits(weeks, p)
          <= Cardinality(RedWeeks(LastWeeks(weeks, Param(p, "baseline_lookback_weeks"))))

\* While the window only grows, what the reversal rules say changes only in
\* the week that confirms a swing, pivot_right weeks after it: the weeks since
\* then, still without their right-hand side, can neither raise nor withdraw it.
ReversalMovesOnSwings ==
  LET p == study.params
      confirmed == Len(weeks') - Param(p, "pivot_right")
  IN (/\ study.rule = "reversal"
      /\ Len(weeks') <= Param(p, "lookback_weeks")
      /\ Fires(study, weeks) # Fires(study, weeks'))
        => /\ confirmed > Param(p, "pivot_left")
           /\ \/ \A j \in (confirmed - Param(p, "pivot_left") .. Len(weeks')) \ {confirmed} :
                   weeks'[j].high < weeks'[confirmed].high
              \/ \A j \in (confirmed - Param(p, "pivot_left") .. Len(weeks')) \ {confirmed} :
                   weeks'[j].low > weeks'[confirmed].low

ReversalConfirmed == [][ReversalMovesOnSwings]_vars

\* The SELL of the failed breakout starts only in a week that reaches a key
\* level and closes below it, never in the week that loses the level for the
\* first time after the breakout; as long as no week leaves the window it stays.
BreakoutSellOnReclaim ==
  (/\ study.rule = "breakout"
   /\ Len(weeks') <= Param(study.params, "breakout_lookback_weeks"))
    => LET sells(bars) == SellFailedBreakout(bars, study.params, study.levels)
           bar == weeks'[Len(weeks')]
       IN /\ sells(weeks) => sells(weeks')
          /\ (~sells(weeks) /\ sells(weeks'))
               => \E level \in ActiveLevels(study.levels) :
                    /\ bar.high >= level
                    /\ \E i \in 1..Len(weeks) : \E j \in i + 1 .. Len(weeks) :
                         weeks[i].close > level /\ weeks[j].close \in 1..level

BreakoutConfirmed == [][BreakoutSellOnReclaim]_vars

\* A week a rule cannot read: values it needs are NULL.
Unread(rule, bar) ==
  0 \in CASE rule = "wick"     -> {bar.open, bar.high, bar.low, bar.close}
         [] rule = "cluster"  -> {bar.open, bar.close, bar.volume}
         [] rule = "reversal" -> {bar.high, bar.low}
         [] rule = "breakout" -> {bar.close}

\* No week has left a window of the rule, the smaller one of the cluster's two.
WindowsOnlyGrow(rule, p, bars) ==
  /\ Len(bars) <= LookbackWeeks(rule, p)
  /\ rule = "cluster" => /\ Len(bars) <= Param(p, "baseline_lookback_weeks")
                         /\ Len(bars) <= Param(p, "cluster_window_weeks")

\* A new week that a rule cannot read makes it fire nothing it did not fire
\* before, and turns no SELL into a TRIM, until older weeks leave the windows.
\* (This is about the newest week.  A NULL in an older one is skipped, and what
\* is left may well fire: the median of the cluster, the swings of the reversal,
\* the recent high of the wick and the week of a failure all change with it.)
UnreadFiresNothing ==
  LET was == Fires(study, weeks)
      now == Fires(study, weeks')
  IN /\ weeks' # weeks
     /\ Unread(study.rule, weeks'[Len(weeks')])
     /\ WindowsOnlyGrow(study.rule, study.params, weeks')
     => (now.trim => was.trim) /\ (now.sell => was.sell)

UnreadWeekFiresNothing == [][UnreadFiresNothing]_vars

\* A lower low counts only once the lower high stands: the rule's comment
\* says the low "must be confirmed AFTER the lower high".
LowerLowAfterLowerHigh ==
  LET w == ReversalWindow(weeks, study.params)
  IN (study.rule = "reversal" /\ SellLowerHighLowerLow(weeks, study.params))
       => Latest(SwingLows(w, study.params)) > Latest(SwingHighs(w, study.params))
=============================================================================
