----------------------------- MODULE BudgetGate -----------------------------
(***************************************************************************)
(* TwelveDataProvider._wait_for_budget_slot: the rolling credit-budget     *)
(* gate.  The class keeps a deque of the slots it reserved; each caller    *)
(* drops the ones older than the window and reserves its own under a lock, *)
(* then sleeps outside it.  The slots ever given, the calls and the clock  *)
(* are those of CallPacing, which this module implements.                  *)
(***************************************************************************)
EXTENDS Integers, Sequences

CONSTANTS
  Thread, Lag, Horizon, MaxCalls,  \* as in CallPacing
  CreditsPerMinute,                \* TWELVE_DATA_CREDITS_PER_MINUTE
  WINDOW_SECONDS                   \* the minute

VARIABLES now, slots, starts, call,
          callWindow   \* TwelveDataProvider._call_window

vars == <<now, slots, starts, call, callWindow>>

Pacing == INSTANCE CallPacing WITH Cap <- CreditsPerMinute, Window <- WINDOW_SECONDS

ASSUME BudgetAssumption == Pacing!PacingAssumption

Init == Pacing!Init /\ callWindow = <<>>

-----------------------------------------------------------------------------
\* Mutant of Expired: the window is one tick too short.
ExpiredEarly ==
  CHOOSE k \in 0..Len(callWindow) :
    /\ \A i \in 1..k : callWindow[i] <= now - WINDOW_SECONDS + 1
    /\ k < Len(callWindow) => callWindow[k + 1] > now - WINDOW_SECONDS + 1

\* How many entries at the left end of the deque have left the window.
Expired ==
  CHOOSE k \in 0..Len(callWindow) :
    /\ \A i \in 1..k : callWindow[i] <= now - WINDOW_SECONDS
    /\ k < Len(callWindow) => callWindow[k + 1] > now - WINDOW_SECONDS

Pruned == SubSeq(callWindow, Expired + 1, Len(callWindow))

\* Mutant of Reserved: every waiting caller goes for the place of the oldest.
ReservedAfterOldest ==
  IF Len(Pruned) < CreditsPerMinute THEN now
  ELSE Pacing!Later(now, Pruned[1] + WINDOW_SECONDS)

\* Mutant of Reserved: one slot more than the budget.
ReservedOffByOne ==
  IF Len(Pruned) <= CreditsPerMinute THEN now
  ELSE Pacing!Later(now, Pruned[Len(Pruned) - CreditsPerMinute] + WINDOW_SECONDS)

\* Mutant of Reserved: a caller queues behind the last slot, however old the
\* one it replaces is.
ReservedAfterLast ==
  IF Len(Pruned) < CreditsPerMinute THEN now
  ELSE Pacing!Later(now, Pruned[Len(Pruned)] + WINDOW_SECONDS)

\* Slots already reserved ahead count: the new one is a minute after the one
\* CreditsPerMinute places back.
Reserved ==
  IF Len(Pruned) < CreditsPerMinute THEN now
  ELSE Pacing!Later(now, Pruned[Len(Pruned) + 1 - CreditsPerMinute] + WINDOW_SECONDS)

Reserve(t) ==
  /\ Pacing!Grant(t, Reserved)
  /\ callWindow' = Append(Pruned, Reserved)

Others(t) == (Pacing!Start(t) \/ Pacing!Return(t)) /\ UNCHANGED callWindow

Next ==
  \/ \E t \in Thread : Reserve(t) \/ Others(t)
  \/ (Pacing!Tick \/ Pacing!Over) /\ UNCHANGED callWindow

Spec == Init /\ [][Next]_vars

-----------------------------------------------------------------------------
TypeOK == Pacing!TypeOK /\ callWindow \in Seq(Nat)

\* The deque holds the last slots given, and those it has lost are out of the
\* window: forgetting them never lets a caller in early.
WindowIsSuffix ==
  LET lost == Len(slots) - Len(callWindow)
  IN /\ lost >= 0
     /\ \A i \in DOMAIN callWindow : callWindow[i] = slots[lost + i]
     /\ \A i \in 1..lost : slots[i] <= now - WINDOW_SECONDS

\* The gate paces calls as CallPacing says.
Paced == Pacing!Spec

\* No rolling minute holds more than CreditsPerMinute slots, even when many
\* callers pile in while the budget is exhausted.
BudgetRespected == Pacing!SlotsSpaced

\* Nor do the calls as the provider sees them, up to the time a thread may
\* oversleep.
CallsSpaced == Pacing!CallsSpaced

\* "As long as fewer than the budgeted number of calls happened in the trailing
\* minute, calls proceed without delay" (README.md).
NoDelayUnderBudget == Pacing!NoDelayUnderBudget
=============================================================================
