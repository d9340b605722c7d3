-------------------------- MODULE CallPacingProofs --------------------------
(***************************************************************************)
(* Proofs about CallPacing and about the two rate limiters that implement  *)
(* it, for every number of threads, cap, window, lag and bound.            *)
(*                                                                         *)
(* The argument: a slot that lies ahead was placed exactly Window after    *)
(* the one Cap places before it (Ahead).  So the slots are in order, and a *)
(* thread is only made to wait when Cap slots lie in the window that ends  *)
(* now.                                                                    *)
(***************************************************************************)
EXTENDS CallPacing, FiniteSetTheorems, TLAPS

\* A set of natural numbers that is not empty has a least element.
LEMMA LeastOf ==
  ASSUME NEW S \in SUBSET Nat, S # {}
  PROVE  \E m \in S : \A k \in S : m <= k
<1>1. PICK m \in S : \A k \in S : <<k, m>> \notin OpToRel(<, Nat)
  BY NatLessThanWellFounded, WFMin, Zenon
<1>2. OpToRel(<, Nat) = {ss \in Nat \X Nat : ss[1] < ss[2]}
  BY Zenon DEF OpToRel
<1>3. ASSUME NEW k \in S PROVE m <= k
  <2>1. <<k, m>> \in Nat \X Nat /\ <<k, m>>[1] = k /\ <<k, m>>[2] = m
    OBVIOUS
  <2>2. ~(k < m)
    BY <1>1, <1>2, <2>1
  <2> QED BY <2>2
<1> QED BY <1>3

\* The size of an interval.
LEMMA IntervalSize ==
  ASSUME NEW a \in Nat, NEW k \in Nat \ {0}
  PROVE  IsFiniteSet(a..(a + k - 1)) /\ Cardinality(a..(a + k - 1)) = k
<1>1. PICK b \in Int : b = a + k - 1
  OBVIOUS
<1>2. IsFiniteSet(a..b) /\ Cardinality(a..b) = IF a > b THEN 0 ELSE b - a + 1
  BY FS_Interval
<1> QED BY <1>1, <1>2

-----------------------------------------------------------------------------

Ahead ==
  \A i \in DOMAIN slots :
    slots[i] > now => i > Cap /\ slots[i] = slots[i - Cap] + Window

\* A call begins from its slot on and at most Lag after it.
Timely ==
  \A i \in DOMAIN slots :
    IF starts[i] = NotYet THEN now <= slots[i] + Lag
    ELSE slots[i] <= starts[i] /\ starts[i] <= slots[i] + Lag

IInv == TypeOK /\ SlotsSpaced /\ Ahead /\ Timely

LEMMA InitInv == ASSUME PacingAssumption, Init PROVE IInv
<1>1. TypeOK
  BY DEF PacingAssumption, Init, TypeOK
<1> QED BY <1>1 DEF Init, IInv, SlotsSpaced, Ahead, Timely

\* What a grant appends, whatever the slot.
LEMMA Granted ==
  ASSUME TypeOK, NEW t \in Thread, NEW s \in Nat, Grant(t, s)
  PROVE  /\ slots' \in Seq(Nat) /\ starts' \in Seq(Nat \union {NotYet})
         /\ Len(slots') = Len(slots) + 1 /\ Len(starts') = Len(slots) + 1
         /\ slots'[Len(slots) + 1] = s /\ starts'[Len(slots) + 1] = NotYet
         /\ \A i \in DOMAIN slots : slots'[i] = slots[i] /\ starts'[i] = starts[i]
         /\ DOMAIN slots = 1..Len(slots) /\ DOMAIN slots' = 1..Len(slots')
         /\ Len(slots) \in Nat
BY DEF TypeOK, Grant

\* The next slot is not in the past, keeps the order and the distance, and
\* lies ahead only Window after the slot Cap places before it.
LEMMA NextSlotFits ==
  ASSUME PacingAssumption, IInv
  PROVE  /\ NextSlot \in Nat /\ NextSlot >= now
         /\ \A i \in DOMAIN slots : slots[i] <= NextSlot
         /\ Len(slots) >= Cap => slots[Len(slots) + 1 - Cap] + Window <= NextSlot
         /\ NextSlot > now => /\ Len(slots) >= Cap
                              /\ NextSlot = slots[Len(slots) + 1 - Cap] + Window
<1> DEFINE n == Len(slots)
<1>1. /\ n \in Nat /\ DOMAIN slots = 1..n /\ \A i \in 1..n : slots[i] \in Nat
      /\ now \in Nat /\ Cap \in Nat \ {0} /\ Window \in Nat
  BY DEF PacingAssumption, IInv, TypeOK
<1>2. n >= Cap => n + 1 - Cap \in 1..n
  BY <1>1
<1>3. ASSUME NEW i \in DOMAIN slots PROVE slots[i] <= NextSlot
  <2>1. slots[i] <= slots[n] /\ n \in DOMAIN slots
    BY <1>1 DEF IInv, SlotsSpaced
  <2>2. CASE slots[n] <= now
    BY <1>1, <1>2, <2>1, <2>2 DEF NextSlot, Later
  <2>3. CASE slots[n] > now
    <3>1. n > Cap /\ slots[n] = slots[n - Cap] + Window
      BY <2>1, <2>3 DEF IInv, Ahead
    <3>2. n - Cap \in 1..n /\ n + 1 - Cap \in 1..n /\ n - Cap <= n + 1 - Cap
      BY <1>1, <3>1
    <3>3. slots[n - Cap] <= slots[n + 1 - Cap]
      BY <1>1, <3>2 DEF IInv, SlotsSpaced
    <3>4. NextSlot >= slots[n + 1 - Cap] + Window
      BY <1>1, <3>1, <3>2 DEF NextSlot, Later
    <3>5. slots[i] \in Nat /\ slots[n] \in Nat /\ slots[n - Cap] \in Nat
          /\ slots[n + 1 - Cap] \in Nat /\ Window \in Nat /\ NextSlot \in Nat
      BY <1>1, <2>1, <3>1, <3>2 DEF NextSlot, Later
    <3> HIDE DEF n
    <3> QED BY <2>1, <3>1, <3>3, <3>4, <3>5
  <2> QED BY <1>1, <2>1, <2>2, <2>3
<1> QED BY <1>1, <1>2, <1>3 DEF NextSlot, Later

LEMMA ReserveInv ==
  ASSUME PacingAssumption, IInv, NEW t \in Thread, Reserve(t)
  PROVE  IInv'
<1> DEFINE n == Len(slots)
<1>1. Grant(t, NextSlot) /\ now' = now
  BY DEF Reserve, Grant
<1>0. /\ slots' \in Seq(Nat) /\ starts' \in Seq(Nat \union {NotYet})
      /\ Len(slots') = n + 1 /\ Len(starts') = n + 1 /\ n \in Nat
  BY <1>1, NextSlotFits, Granted DEF IInv
<1>2. /\ slots'[n + 1] = NextSlot /\ starts'[n + 1] = NotYet
      /\ \A i \in DOMAIN slots : slots'[i] = slots[i] /\ starts'[i] = starts[i]
      /\ DOMAIN slots = 1..n /\ DOMAIN slots' = 1..(n + 1) /\ n \in Nat
  BY <1>1, NextSlotFits, Granted DEF IInv
<1>3. TypeOK'
  BY <1>0, <1>1 DEF IInv, TypeOK, Grant
<1>4. /\ Cap \in Nat \ {0} /\ Window \in Nat /\ Lag \in Nat /\ now \in Nat
      /\ \A i \in 1..n : slots[i] \in Nat
  BY DEF PacingAssumption, IInv, TypeOK
<1>9. /\ NextSlot \in Nat /\ NextSlot >= now
      /\ \A i \in 1..n : slots[i] <= NextSlot
      /\ n >= Cap => slots[n + 1 - Cap] + Window <= NextSlot
      /\ NextSlot > now => n >= Cap /\ NextSlot = slots[n + 1 - Cap] + Window
  BY <1>2, NextSlotFits
<1> HIDE DEF n
<1>5. SlotsSpaced'
  <2>1. ASSUME NEW i \in 1..(n + 1), NEW j \in 1..(n + 1), i <= j
        PROVE  slots'[i] <= slots'[j]
    <3>1. CASE j = n + 1
      BY <1>2, <1>9, <3>1
    <3>2. CASE j \in 1..n
      BY <1>2, <2>1, <3>2 DEF IInv, SlotsSpaced
    <3> QED BY <1>2, <3>1, <3>2
  <2>2. ASSUME NEW i \in 1..(n + 1), i + Cap \in 1..(n + 1)
        PROVE  slots'[i] + Window <= slots'[i + Cap]
    <3>0. i \in 1..n
      BY <1>2, <1>4, <2>2
    <3>1. CASE i + Cap = n + 1
      <4>1. n >= Cap /\ i = n + 1 - Cap
        <5>1. i \in Int /\ n \in Int /\ Cap \in Int /\ i >= 1
          BY <1>2, <1>4, <3>0
        <5> QED BY <5>1, <3>1
      <4> QED BY <1>2, <1>9, <3>0, <3>1, <4>1
    <3>2. CASE i + Cap \in 1..n
      BY <1>2, <3>0, <3>2 DEF IInv, SlotsSpaced
    <3> QED BY <1>2, <1>4, <2>2, <3>1, <3>2
  <2> QED BY <1>2, <2>1, <2>2 DEF SlotsSpaced
<1>6. Ahead'
  <2> SUFFICES ASSUME NEW i \in 1..(n + 1), slots'[i] > now
               PROVE  i > Cap /\ slots'[i] = slots'[i - Cap] + Window
    BY <1>1, <1>2 DEF Ahead
  <2>1. CASE i = n + 1
    <3>1. n >= Cap /\ NextSlot = slots[n + 1 - Cap] + Window
      BY <1>2, <1>9, <2>1
    <3>2. n + 1 - Cap \in 1..n
      BY <1>2, <1>4, <3>1
    <3> QED BY <1>2, <1>4, <2>1, <3>1, <3>2
  <2>2. CASE i \in 1..n
    <3>1. i > Cap /\ slots[i] = slots[i - Cap] + Window
      BY <1>2, <2>2 DEF IInv, Ahead
    <3>2. i - Cap \in 1..n
      BY <1>2, <1>4, <2>2, <3>1
    <3> QED BY <1>2, <2>2, <3>1, <3>2
  <2> QED BY <1>2, <2>1, <2>2
<1>7. Timely'
  <2> SUFFICES ASSUME NEW i \in 1..(n + 1)
               PROVE  IF starts'[i] = NotYet THEN now <= slots'[i] + Lag
                      ELSE slots'[i] <= starts'[i] /\ starts'[i] <= slots'[i] + Lag
    BY <1>1, <1>2 DEF Timely
  <2>1. CASE i = n + 1
    BY <1>2, <1>4, <1>9, <2>1
  <2>2. CASE i \in 1..n
    BY <1>2, <2>2 DEF IInv, Timely
  <2> QED BY <1>2, <2>1, <2>2
<1> QED BY <1>3, <1>5, <1>6, <1>7 DEF IInv

LEMMA StartInv ==
  ASSUME PacingAssumption, IInv, NEW t \in Thread, Start(t)
  PROVE  IInv'
<1> DEFINE c == call[t]
<1>1. /\ c \in DOMAIN slots /\ DOMAIN starts = DOMAIN slots
      /\ now \in Nat /\ now # NotYet
      /\ starts' = [starts EXCEPT ![c] = now]
      /\ UNCHANGED <<now, slots, call>>
  BY DEF IInv, TypeOK, Start, NotYet
<1>2. TypeOK'
  BY <1>1 DEF IInv, TypeOK
<1>3. Timely'
  BY <1>1 DEF IInv, Timely, Start
<1> QED BY <1>1, <1>2, <1>3 DEF IInv, SlotsSpaced, Ahead

LEMMA NextInv == ASSUME PacingAssumption, IInv, [Next]_vars PROVE IInv'
<1>1. ASSUME NEW t \in Thread, Reserve(t) PROVE IInv'
  BY <1>1, ReserveInv
<1>2. ASSUME NEW t \in Thread, Start(t) PROVE IInv'
  BY <1>2, StartInv
<1>3. ASSUME NEW t \in Thread, Return(t) PROVE IInv'
  BY <1>3 DEF Return, IInv, TypeOK, SlotsSpaced, Ahead, Timely
<1>4. CASE Tick
  <2>1. /\ now \in Nat /\ now' = now + 1 /\ now' \in 0..Horizon
        /\ \A i \in DOMAIN slots : slots[i] \in Nat
        /\ UNCHANGED <<slots, starts, call>> /\ Lag \in Nat
    BY <1>4 DEF Tick, IInv, TypeOK, PacingAssumption
  <2>2. Timely'
    BY <1>4, <2>1 DEF Tick, IInv, Timely
  <2>3. Ahead'
    BY <2>1 DEF IInv, Ahead
  <2> QED BY <2>1, <2>2, <2>3 DEF IInv, TypeOK, SlotsSpaced
<1>5. CASE UNCHANGED vars
  BY <1>5 DEF vars, IInv, TypeOK, SlotsSpaced, Ahead, Timely
<1> QED BY <1>1, <1>2, <1>3, <1>4, <1>5 DEF Next, Over

LEMMA SpecInv == ASSUME PacingAssumption PROVE Spec => []IInv
BY InitInv, NextInv, PTL DEF Spec

\* Whatever the number of threads that pile in, no span of the window ever
\* holds more slots than the cap.
THEOREM SlotsAreSpaced == ASSUME PacingAssumption PROVE Spec => []SlotsSpaced
<1>1. IInv => SlotsSpaced
  BY DEF IInv
<1> QED BY <1>1, SpecInv, PTL

\* Calls as the provider sees them keep the cap in every span that is shorter
\* than the window by the time a thread may oversleep.
THEOREM CallsAreSpaced == ASSUME PacingAssumption PROVE Spec => []CallsSpaced
<1>1. IInv => CallsSpaced
  <2> SUFFICES ASSUME IInv, NEW i \in DOMAIN slots, i + Cap \in DOMAIN slots,
                      starts[i] # NotYet, starts[i + Cap] # NotYet
               PROVE  starts[i] + Window - Lag <= starts[i + Cap]
    BY DEF CallsSpaced
  <2>1. /\ starts[i] <= slots[i] + Lag /\ slots[i + Cap] <= starts[i + Cap]
        /\ slots[i] + Window <= slots[i + Cap]
    BY DEF IInv, Timely, SlotsSpaced
  <2>2. /\ starts[i] \in Nat /\ starts[i + Cap] \in Nat
        /\ slots[i] \in Nat /\ slots[i + Cap] \in Nat
        /\ Window \in Nat /\ Lag \in Nat
    BY DEF IInv, TypeOK, PacingAssumption
  <2> QED BY <2>1, <2>2
<1> QED BY <1>1, SpecInv, PTL

\* If the next slot lies ahead, Cap slots lie in the window that ends now.
LEMMA WaitMeansFull ==
  ASSUME PacingAssumption, IInv, NextSlot > now
  PROVE  Cardinality(Recent) >= Cap
<1> DEFINE n == Len(slots)
           live == {i \in 1..n : slots[i] > now - Window}
<1>1. /\ n \in Nat /\ DOMAIN slots = 1..n /\ \A i \in 1..n : slots[i] \in Nat
      /\ now \in Nat /\ Cap \in Nat \ {0} /\ Window \in Nat
  BY DEF PacingAssumption, IInv, TypeOK
<1>2. n >= Cap /\ n + 1 - Cap \in live
  BY <1>1, NextSlotFits
<1>3. PICK a \in live : \A i \in live : a <= i
  <2>1. live \in SUBSET Nat /\ live # {}
    BY <1>1, <1>2
  <2> QED BY <2>1, LeastOf
<1>4. \A i \in a..(a + Cap - 1) : i \in Recent
  <2> SUFFICES ASSUME NEW i \in a..(a + Cap - 1) PROVE i \in Recent
    OBVIOUS
  <2>0. a \in 1..n /\ a <= n + 1 - Cap /\ slots[a] > now - Window
    BY <1>2, <1>3
  <2>a. i \in 1..n /\ a <= i
    BY <1>1, <2>0
  <2>1. i \in 1..n /\ slots[a] <= slots[i] /\ slots[a] > now - Window
    BY <1>1, <2>0, <2>a DEF IInv, SlotsSpaced
  <2>2. slots[i] <= now
    <3> SUFFICES ASSUME slots[i] > now PROVE FALSE
      BY <1>1, <2>1
    <3>1. i > Cap /\ slots[i] = slots[i - Cap] + Window
      BY <1>1, <2>1 DEF IInv, Ahead
    <3>2. i - Cap \in live /\ i - Cap < a
      BY <1>1, <1>3, <2>1, <3>1
    <3> QED BY <1>1, <1>3, <3>2
  <2> QED BY <1>1, <2>1, <2>2 DEF Recent
<1>5. /\ IsFiniteSet(Recent) /\ IsFiniteSet(a..(a + Cap - 1))
      /\ Cardinality(a..(a + Cap - 1)) = Cap
  <2>1. IsFiniteSet(1..n) /\ Recent \subseteq 1..n
    BY <1>1, FS_Interval DEF Recent
  <2>2. IsFiniteSet(Recent)
    BY <2>1, FS_Subset
  <2>3. a \in Nat
    BY <1>1, <1>3
  <2> QED BY <1>1, <2>2, <2>3, IntervalSize
<1>6. Cardinality(a..(a + Cap - 1)) <= Cardinality(Recent)
  BY <1>4, <1>5, FS_Subset
<1>7. Cardinality(Recent) \in Nat
  BY <1>5, FS_CardinalityType
<1> QED BY <1>1, <1>5, <1>6, <1>7

\* A thread waits only if the cap is used up in the window that ends now.
THEOREM NoIdleWaiting == ASSUME PacingAssumption PROVE Spec => NoDelayUnderBudget
<1>1. IInv /\ [Next]_vars =>
        [ (Len(slots') > Len(slots) /\ Cardinality(Recent) < Cap)
            => slots'[Len(slots')] = now ]_vars
  <2> SUFFICES ASSUME IInv, [Next]_vars, Len(slots') > Len(slots), Cardinality(Recent) < Cap
               PROVE  slots'[Len(slots')] = now
    OBVIOUS
  <2>1. Len(slots) \in Nat
    BY DEF IInv, TypeOK
  <2>2. PICK t \in Thread : Reserve(t)
    BY <2>1 DEF Next, Start, Return, Tick, Over, vars
  <2>3. slots'[Len(slots')] = NextSlot
    BY <2>2, NextSlotFits, Granted DEF Reserve, IInv
  <2>4. Cardinality(Recent) \in Nat
    <3>1. IsFiniteSet(1..Len(slots)) /\ Recent \subseteq 1..Len(slots)
      BY <2>1, FS_Interval DEF Recent, IInv, TypeOK
    <3> QED BY <3>1, FS_Subset, FS_CardinalityType
  <2>5. ~(NextSlot > now)
    BY <2>4, WaitMeansFull DEF PacingAssumption
  <2>6. NextSlot \in Nat /\ now \in Nat /\ NextSlot >= now
    BY NextSlotFits DEF IInv, TypeOK
  <2> QED BY <2>3, <2>5, <2>6
<1> QED BY <1>1, SpecInv, PTL DEF Spec, NoDelayUnderBudget
=============================================================================
