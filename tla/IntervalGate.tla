---------------------------- MODULE IntervalGate ----------------------------
(***************************************************************************)
(* AlphaVantageProvider._wait_for_slot and TwelveDataProvider.             *)
(* _wait_for_interval_slot: one call per interval.  The class keeps only   *)
(* the last slot it reserved.  It implements CallPacing with one slot per  *)
(* interval.                                                               *)
(***************************************************************************)
EXTENDS Integers, Sequences

CONSTANTS
  Thread, Lag, Horizon, MaxCalls,  \* as in CallPacing
  MinInterval,                     \* *_MIN_INTERVAL_SECONDS
  None                             \* no call was made yet

VARIABLES now, slots, starts, call,
          lastCallAt   \* _last_call_at

vars == <<now, slots, starts, call, lastCallAt>>

Pacing == INSTANCE CallPacing WITH Cap <- 1, Window <- MinInterval

\* What is assumed of the constants.
IntervalAssumption == Pacing!PacingAssumption /\ None \notin Nat

Init == Pacing!Init /\ lastCallAt = None

-----------------------------------------------------------------------------
Reserved ==
  IF lastCallAt = None THEN now ELSE Pacing!Later(now, lastCallAt + MinInterval)

\* Mutant of Reserve: the time of the request is kept instead of its slot.
ReserveKeepsNow(t) ==
  /\ Pacing!Grant(t, Reserved)
  /\ lastCallAt' = now

Reserve(t) ==
  /\ Pacing!Grant(t, Reserved)
  /\ lastCallAt' = Reserved

Others(t) == (Pacing!Start(t) \/ Pacing!Return(t)) /\ UNCHANGED lastCallAt

Next ==
  \/ \E t \in Thread : Reserve(t) \/ Others(t)
  \/ (Pacing!Tick \/ Pacing!Over) /\ UNCHANGED lastCallAt

Spec == Init /\ [][Next]_vars

-----------------------------------------------------------------------------
TypeOK == Pacing!TypeOK /\ lastCallAt \in Nat \union {None}

\* lastCallAt is the last slot given.
LastIsLast ==
  lastCallAt = IF slots = <<>> THEN None ELSE slots[Len(slots)]

\* The gate paces calls as CallPacing says, with one slot per interval.
Paced == Pacing!Spec
=============================================================================
