----------------------------- MODULE Portfolio -----------------------------
(***************************************************************************)
(* The verdicts of a user's positions, in the two places they come from:   *)
(* the rule engine on every full portfolio page, and the computed_verdict  *)
(* a refresh stores, from which the row the poller fetches takes its       *)
(* summary.  The rules and the market data change in between.              *)
(***************************************************************************)
EXTENDS RuleEngine

CONSTANTS
  Position,    \* the positions of the user, all of one ticker
  Facts,       \* what a position row may say
  Choice,      \* the rules with parameters the user may enable
  MaxRules,    \* bound: rules enabled for a strategy at once
  Market,      \* the signals the caches may hold
  NoVerdict    \* computed_verdict before the first refresh

VARIABLES
  position,      \* the rows: the facts
  acknowledged,  \* Position.trim_acknowledged
  stored,        \* Position.computed_verdict
  rules,         \* the enabled selections of each strategy, in row order
  signals,       \* what the caches hold for the ticker
  touched        \* history: changed since the position's last refresh

vars == <<position, acknowledged, stored, rules, signals, touched>>

\* The columns hold values of their types.
PortfolioAssumption ==
  /\ \A f \in Facts : f.investment_type \in Types
  /\ \A c \in Choice : "lookback_days" \in DOMAIN c.params => c.params.lookback_days \in Int
  /\ \A m \in Market :
       /\ DOMAIN m = {"ma", "atr", "daily", "candles"}
       /\ DOMAIN m.daily = {"stock", "benchmark"}
       /\ m.daily.stock \in Seq(Nat) /\ m.daily.benchmark \in Seq(Nat)

Verdict3 == {"sell", "trim", "hold"}

TypeOK ==
  /\ position \in [Position -> Facts]
  /\ acknowledged \in [Position -> BOOLEAN]
  /\ stored \in [Position -> Verdict3 \cup {NoVerdict}]
  /\ rules \in [Types -> Seq(Choice)]
  /\ signals \in Market
  /\ touched \subseteq Position

Init ==
  /\ position \in [Position -> Facts]
  /\ acknowledged = [p \in Position |-> FALSE]
  /\ stored = [p \in Position |-> NoVerdict]
  /\ rules = [t \in Types |-> <<>>]
  /\ signals \in Market
  /\ touched = {}

-----------------------------------------------------------------------------
\* The engine's verdict of a position, as a full page computes it.
Computed(p) ==
  ComputedVerdict(position[p], signals, rules[position[p].investment_type])

\* A TRIM the user has confirmed is displayed as a HOLD.
Shown(p, verdict) == IF acknowledged[p] /\ verdict = "trim" THEN "hold" ELSE verdict

FullSummary == [v \in Verdict3 |-> Cardinality({p \in Position : Shown(p, Computed(p)) = v})]

\* The poller's summary; a position that has no verdict yet makes the request
\* take the full path.
StoredSummary ==
  IF \E p \in Position : stored[p] = NoVerdict THEN FullSummary
  ELSE [v \in Verdict3 |-> Cardinality({p \in Position : Shown(p, stored[p]) = v})]

\* edit_position: the price, the basis, the strategy or the benchmark.
Edit(p) ==
  /\ \E f \in Facts : position' = [position EXCEPT ![p] = f]
  /\ touched' = touched \cup {p}
  /\ UNCHANGED <<acknowledged, stored, rules, signals>>

\* acknowledge_trim and unacknowledge_trim
Acknowledge(p) ==
  /\ \E yes \in BOOLEAN : acknowledged' = [acknowledged EXCEPT ![p] = yes]
  /\ UNCHANGED <<position, stored, rules, signals, touched>>

\* A rule is enabled or disabled; a query returns the rows in no set order.
Configure(t) ==
  /\ \/ \E c \in Choice :
          /\ \A i \in 1..Len(rules[t]) : rules[t][i].key # c.key
          /\ Len(rules[t]) < MaxRules
          /\ \E at \in 0..Len(rules[t]) :
               rules' = [rules EXCEPT ![t] = InsertAt(@, at + 1, c)]
     \/ \E i \in 1..Len(rules[t]) : rules' = [rules EXCEPT ![t] = RemoveAt(@, i)]
  /\ touched' = touched \cup {p \in Position : position[p].investment_type = t}
  /\ UNCHANGED <<position, acknowledged, stored, signals>>

\* The caches change: another position's refresh, or a part of this one that
\* ended before its verdicts were computed.
CachesChange ==
  /\ signals' \in Market \ {signals}
  /\ touched' = Position
  /\ UNCHANGED <<position, acknowledged, stored, rules>>

\* Mutant of Refresh: the verdict as displayed is what is stored.
RefreshShown(p) ==
  /\ stored' = [stored EXCEPT ![p] = Shown(p, Computed(p))]
  /\ touched' = touched \ {p}
  /\ UNCHANGED <<position, acknowledged, rules, signals>>

\* A refresh of the position: _calculate_verdicts, from the caches as they are
\* now, before any override.
Refresh(p) ==
  /\ stored' = [stored EXCEPT ![p] = Computed(p)]
  /\ touched' = touched \ {p}
  /\ UNCHANGED <<position, acknowledged, rules, signals>>

Next ==
  \/ \E p \in Position : Edit(p) \/ Acknowledge(p) \/ Refresh(p)
  \/ \E t \in Types : Configure(t)
  \/ CachesChange

Spec == Init /\ [][Next]_vars

-----------------------------------------------------------------------------
\* The verdict is the strongest of the rules that fire, in whatever order the
\* rows of the rules came, and HOLD when none does.
VerdictIsStrongest ==
  \A p \in Position :
    LET fired == Fired(position[p], signals, rules[position[p].investment_type])
        verdicts == {Catalog[Place(k)].verdict : k \in fired}
    IN Computed(p) = IF "sell" \in verdicts THEN "sell"
                     ELSE IF "trim" \in verdicts THEN "trim" ELSE "hold"

\* b holds less than a: averages and ranges are gone or NULL, and the daily
\* histories, newest day first, end earlier, as a failed fetch leaves them or a
\* refresh with a shorter lookback.  Not among the losses: a NULL between the
\* days, which makes the return span older ones; the position's own close,
\* which gives way to the price the user typed in; and anything in the weekly
\* candles, whose rules WeeklyRules examines week by week.
Poorer(a, b) ==
  /\ DOMAIN b.ma \subseteq DOMAIN a.ma
  /\ \A c \in DOMAIN b.ma : /\ b.ma[c].close \in {a.ma[c].close, 0}
                             /\ b.ma[c].sma \in {a.ma[c].sma, 0}
  /\ DOMAIN b.atr \subseteq DOMAIN a.atr
  /\ \A c \in DOMAIN b.atr : b.atr[c] \in {a.atr[c], 0}
  /\ \A s \in {"stock", "benchmark"} : IsPrefix(b.daily[s], a.daily[s])
  /\ b.candles = a.candles

\* Losing averages, ranges or the older days makes no rule fire.
LostDataFiresNothing ==
  [][Poorer(signals, signals')
       => \A p \in Position : \A t \in Types :
            (position' = position /\ rules' = rules)
              => Fired(position[p], signals', rules[t]) \subseteq Fired(position[p], signals, rules[t])]_vars

\* The days the daily bar cache keeps for a lookback, one more than it spans.
Recent(closes, days) == SubSeq(closes, 1, Min({days + 1, Len(closes)}))

\* What is fetched for the enabled rules is all they look at: with every other
\* average, range and day gone from the caches the same rules fire.  (A NULL
\* among the recent closes is skipped and does need an older one.)
RequirementsSuffice ==
  \A p \in Position :
    LET enabled == rules[position[p].investment_type]
        needs   == Requirements(enabled)
        fetched == [signals EXCEPT !.ma = Restrict(@, needs.ma \cap DOMAIN @),
                                   !.atr = Restrict(@, needs.atr \cap DOMAIN @),
                                   !.daily.stock = Recent(@, needs.days),
                                   !.daily.benchmark = Recent(@, needs.days)]
    IN \/ \E s \in {"stock", "benchmark"} : 0 \in Range(signals.daily[s])
       \/ Fired(position[p], fetched, enabled) = Fired(position[p], signals, enabled)

\* The poller's summary is the one of the full page unless a position, a rule
\* or the caches changed since the last refresh: to confirm a TRIM, or to take
\* it back, never sets the two apart.
SummaryDriftNeedsChange == StoredSummary # FullSummary => touched # {}
=============================================================================
