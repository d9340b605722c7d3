------------------------------- MODULE MCRules -------------------------------
(* The studies of Rules for TLC. *)
EXTENDS Rules, TLC

-----------------------------------------------------------------------------
(* The studies: a rule, and candles small enough to try every history. *)

Candle(o, h, l, c, v) == [open |-> o, high |-> h, low |-> l, close |-> c, volume |-> v]

\* A week that lacks what one rule needs and has what the others read.
NoLow    == Candle(4, 5, 0, 3, 1)
NoVolume == Candle(5, 6, 2, 3, 0)
NoClose  == Candle(99, 104, 95, 0, 1)
NoOpen   == Candle(0, 100, 10, 25, 1)

\* Highs and lows above, below and across one another.
Steps == {Candle(4, 7, 5, 6, 1), Candle(4, 6, 3, 5, 1), Candle(4, 5, 2, 3, 1)}

Swing(lookback, uptrend) ==
  [pivot_left |-> 1, pivot_right |-> 1, lookback_weeks |-> lookback,
   require_prior_uptrend |-> uptrend]

\* Red weeks of a low, a middle and a high volume, and a green one.
Volumes == {Candle(5, 6, 2, 3, v) : v \in {4, 6, 9}} \cup {Candle(3, 6, 2, 5, 9)}

Cluster(baseline, window) ==
  [baseline_lookback_weeks |-> baseline, cluster_window_weeks |-> window,
   volume_multiplier |-> 15, trim_hits |-> 1, sell_hits |-> 2]

\* Above the level, reaching it and closing below, and far below.
Around100 == {Candle(99, 110, 95, 105, 1), Candle(99, 104, 95, 97, 1), Candle(92, 96, 90, 95, 1)}

Breakout(confirm, lookback) ==
  [breakout_confirm_weeks |-> confirm, reclaim_window_weeks |-> 2,
   breakout_lookback_weeks |-> lookback]

Shooting == {Candle(20, 100, 10, 25, 1), Candle(90, 100, 80, 96, 1), Candle(50, 99, 10, 60, 1)}

StudyOf(rule, weeksMax, candles, params, levels) ==
  [rule |-> rule, weeks |-> weeksMax, candles |-> candles, params |-> params, levels |-> levels]

Levels == {[price |-> 100, active |-> TRUE], [price |-> 95, active |-> FALSE]}

MCStudy ==
  {StudyOf("reversal", 9, Steps, Swing(8, 1), {}),
   StudyOf("reversal", 7, Steps \cup {NoLow}, Swing(6, 0), {}),
   StudyOf("cluster", 6, Volumes \cup {NoVolume}, Cluster(4, 3), {}),
   StudyOf("cluster", 6, Volumes, Cluster(2, 4), {}),
   StudyOf("cluster", 7, Volumes, Cluster(0, 7), {}),
   StudyOf("breakout", 8, Around100, Breakout(1, 7), Levels),
   StudyOf("breakout", 6, Around100 \cup {NoClose}, Breakout(2, 5), Levels),
   StudyOf("wick", 6, Shooting \cup {NoOpen}, [lookback_high_weeks |-> 3, near_high_pct |-> 80], {})}

-----------------------------------------------------------------------------
(* The engine: two strategies, and market data with and without gaps. *)

Fact(type, close, cost) ==
  [daily_close |-> close, current_price |-> 50, cost_basis |-> cost,
   investment_type |-> type, benchmark |-> TRUE]

MCFacts == {Fact("long-term", 0, 40), Fact("short-term", 60, 100)}

W20 == <<"weekly", 20>>
D50 == <<"daily", 50>>
D14 == <<"daily", 14>>
W14 == <<"weekly", 14>>

MCChoice ==
  {[key |-> "SELL_MA_ALL", params |-> [conditions |-> {W20, D50}]],
   [key |-> "SELL_EXTENSION_ATR", params |-> [sell_threshold |-> 3, interval |-> "weekly", sma_period |-> 20]],
   [key |-> "TRIM_EXTENSION_ATR", params |-> [threshold |-> 2]],
   [key |-> "TRIM_RELATIVE_WEAKNESS_VS_SECTOR", params |-> [lookback_days |-> 1]],
   [key |-> "SELL_WEEKLY_LOWER_HIGH_LOWER_LOW", params |-> <<>>],
   [key |-> "TRIM-10PCT", params |-> <<>>],
   [key |-> "HOLD-ABOVE-COST", params |-> <<>>]}

Row(close, sma) == [close |-> close, sma |-> sma]

Signals(ma, atr, stock, benchmark, candles) ==
  [ma |-> ma, atr |-> atr, daily |-> [stock |-> stock, benchmark |-> benchmark],
   candles |-> candles]

LHLL == {"SELL_WEEKLY_LOWER_HIGH_LOWER_LOW"}

\* Complete data twice, then without a row, with NULLs, with a daily history
\* that is long enough for a return and cut short, and none at all.
MCMarket ==
  {Signals(W20 :> Row(50, 45) @@ D50 :> Row(35, 40), D14 :> 5 @@ W14 :> 1,
           <<90, 100, 70>>, <<110, 100, 120>>, LHLL),
   Signals(W20 :> Row(50, 60) @@ D50 :> Row(50, 70), D14 :> 5,
           <<90, 0, 100>>, <<110, 100>>, {}),
   Signals(W20 :> Row(50, 0) @@ D50 :> Row(50, 70), D14 :> 5, <<90, 0, 100>>, <<>>, {}),
   Signals(D50 :> Row(35, 40), D14 :> 0,
           <<90, 100, 70>>, <<110, 100, 120>>, LHLL),
   Signals(<<>>, <<>>, <<112, 100, 70>>, <<110, 100>>, LHLL),
   Signals(<<>>, <<>>, <<112>>, <<110, 100>>, LHLL),
   Signals(<<>>, <<>>, <<>>, <<>>, {})}
=============================================================================
