-------------------------------- MODULE Rules --------------------------------
(* The rules on candles (WeeklyRules) and the engine with the stored verdicts *)
(* (Portfolio) share no state: a behaviour is about one or the other.         *)
EXTENDS WeeklyRules

CONSTANTS Position, Facts, Choice, MaxRules, Market, NoVerdict   \* Portfolio

VARIABLES part, position, acknowledged, stored, rules, signals, touched

engineVars == <<position, acknowledged, stored, rules, signals, touched>>

Engine == INSTANCE Portfolio

ASSUME EngineSettings == Engine!PortfolioAssumption

-----------------------------------------------------------------------------
RulesInit ==
  /\ part \in {"candles", "engine"}
  /\ Init /\ Engine!Init
  /\ part # "candles" => study = CHOOSE s \in Study : TRUE
  /\ part # "engine" => /\ position = [p \in Position |-> CHOOSE f \in Facts : TRUE]
                        /\ signals = CHOOSE m \in Market : TRUE

RulesNext ==
  \/ part = "candles" /\ Next /\ UNCHANGED <<part, engineVars>>
  \/ part = "engine" /\ Engine!Next /\ UNCHANGED <<part, vars>>

RulesSpec == RulesInit /\ [][RulesNext]_<<part, vars, engineVars>>

\* Both parts keep their types.
RulesTypeOK == TypeOK /\ Engine!TypeOK

\* The verdict is the strongest of the rules that fire, in whatever order the
\* rows of the rules came (evaluate_position, get_verdict).
VerdictIsStrongest == Engine!VerdictIsStrongest

\* Losing averages, ranges or older days makes no rule fire, nor does a newest
\* week the rule cannot read (the None checks of the rules in rule_engine.py).
\* A NULL inside a history, older than its newest week or day, is left out: the
\* rules skip it, and may fire on what remains.
MissingDataFiresNothing == Engine!LostDataFiresNothing /\ UnreadWeekFiresNothing

\* What a refresh fetches for the enabled rules is all they look at
\* (_compute_requirements_from_rows against the rules).
RequirementsSuffice == Engine!RequirementsSuffice

\* The poller's summary is the one of the full page unless something other
\* than a confirmation changed since the refresh (_summary_from_computed_verdicts).
SummaryDriftNeedsChange == Engine!SummaryDriftNeedsChange
=============================================================================
