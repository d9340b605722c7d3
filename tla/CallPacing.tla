----------------------------- MODULE CallPacing -----------------------------
(***************************************************************************)
(* What the rate limiters of app/market_data/provider.py promise, without  *)
(* how they remember it.  A thread that wants to call the provider is      *)
(* given a slot, the earliest time from now on that keeps at most Cap      *)
(* slots in any span of Window, sleeps until the slot and makes its call.  *)
(*                                                                         *)
(* BudgetGate and IntervalGate are the two limiters of the code; each is   *)
(* shown to implement this module.                                         *)
(***************************************************************************)
EXTENDS Integers, Sequences, FiniteSets

CONSTANTS
  Thread,    \* threads that call the provider
  Cap,       \* slots allowed ...
  Window,    \* ... in a span of this length
  Lag,       \* how late a sleeping thread may wake up
  Horizon,   \* bound on time
  MaxCalls   \* bound on calls

\* What is assumed of the constants; the limiters assume it of theirs.
PacingAssumption ==
  /\ Cap \in Nat \ {0}
  /\ Window \in Nat /\ Lag \in Nat
  /\ Horizon \in Nat /\ MaxCalls \in Nat

VARIABLES
  now,     \* time.monotonic()
  slots,   \* the slot given to each call, in the order they were given
  starts,  \* the time each call began, or NotYet
  call     \* the call each thread is making, or 0

vars == <<now, slots, starts, call>>

NotYet == -1

TypeOK ==
  /\ now \in 0..Horizon
  /\ slots \in Seq(Nat)
  /\ starts \in Seq(Nat \union {NotYet})
  /\ Len(starts) = Len(slots)
  /\ call \in [Thread -> 0..Len(slots)]

Init ==
  /\ now = 0
  /\ slots = <<>>
  /\ starts = <<>>
  /\ call = [t \in Thread |-> 0]

-----------------------------------------------------------------------------
Later(a, b) == IF a >= b THEN a ELSE b

\* The slot of the next call: Window after the slot Cap places ahead of it.
NextSlot ==
  IF Len(slots) < Cap THEN now
  ELSE Later(now, slots[Len(slots) + 1 - Cap] + Window)

\* Thread t is given slot s and goes to sleep until then.
Grant(t, s) ==
  /\ call[t] = 0
  /\ Len(slots) < MaxCalls
  /\ slots' = Append(slots, s)
  /\ starts' = Append(starts, NotYet)
  /\ call' = [call EXCEPT ![t] = Len(slots) + 1]
  /\ UNCHANGED now

Reserve(t) == Grant(t, NextSlot)

\* Mutant of Start: the thread does not sleep.
StartAtOnce(t) ==
  /\ call[t] # 0
  /\ starts[call[t]] = NotYet
  /\ starts' = [starts EXCEPT ![call[t]] = now]
  /\ UNCHANGED <<now, slots, call>>

\* time.sleep is over and the request is sent.
Start(t) ==
  /\ call[t] # 0
  /\ starts[call[t]] = NotYet
  /\ slots[call[t]] <= now
  /\ starts' = [starts EXCEPT ![call[t]] = now]
  /\ UNCHANGED <<now, slots, call>>

\* The answer, or an exception, is there.
Return(t) ==
  /\ call[t] # 0
  /\ starts[call[t]] # NotYet
  /\ call' = [call EXCEPT ![t] = 0]
  /\ UNCHANGED <<now, slots, starts>>

Tick ==
  /\ now < Horizon
  /\ \A i \in DOMAIN slots : starts[i] = NotYet => now < slots[i] + Lag
  /\ now' = now + 1
  /\ UNCHANGED <<slots, starts, call>>

\* The bounds are reached: nothing more is observed.
Over == now = Horizon /\ UNCHANGED vars

Next == (\E t \in Thread : Reserve(t) \/ Start(t) \/ Return(t)) \/ Tick \/ Over

Spec == Init /\ [][Next]_vars

-----------------------------------------------------------------------------
\* No span of Window holds more than Cap slots: the slots are in order and the
\* one Cap places on is Window later ("no rolling 60s window may ever contain
\* more than N reserved slots", test_market_data_provider.py).
SlotsSpaced ==
  /\ \A i, j \in DOMAIN slots : i <= j => slots[i] <= slots[j]
  /\ \A i \in DOMAIN slots : i + Cap \in DOMAIN slots => slots[i] + Window <= slots[i + Cap]

\* What the provider sees: no call begins before its slot, so if threads wake
\* up at most Lag late no span of Window - Lag sees more than Cap calls begin.
CallsSpaced ==
  \A i \in DOMAIN slots :
    (i + Cap \in DOMAIN slots /\ starts[i] # NotYet /\ starts[i + Cap] # NotYet)
      => starts[i] + Window - Lag <= starts[i + Cap]

\* Slots in the trailing window.
Recent == {i \in DOMAIN slots : now - Window < slots[i] /\ slots[i] <= now}

\* "As long as fewer than the budgeted number of calls happened in the
\* trailing minute, calls proceed without delay" (README.md): a call is only
\* made to wait if Cap slots lie in the window that ends now, however many
\* more are reserved ahead.
NoDelayUnderBudget ==
  [][ (Len(slots') > Len(slots) /\ Cardinality(Recent) < Cap)
        => slots'[Len(slots')] = now ]_vars
=============================================================================
