----------------------------- MODULE RuleProofs -----------------------------
(***************************************************************************)
(* Proofs about the rules: for every study, every list of candles, every   *)
(* parameter, every set of enabled rules and every content of the caches.  *)
(*                                                                         *)
(* Most of the properties follow from the types alone, once it is known    *)
(* what the operators compute: the place of a rule in the catalog, the     *)
(* first of the triggered rules, the last weeks of the last weeks, the     *)
(* rank of a volume, the ends of a return.  Only the stored verdicts need  *)
(* an invariant of their own (Kept).                                       *)
(***************************************************************************)
EXTENDS Rules, FiniteSetTheorems, TLAPS

-----------------------------------------------------------------------------
\* A set of natural numbers that is not empty has a least element.
LEMMA SmallestOf ==
  ASSUME NEW S \in SUBSET Nat, S # {}
  PROVE  \E m \in S : \A k \in S : m <= k
<1>1. PICK m \in S : \A k \in S : <<k, m>> \notin OpToRel(<, Nat)
  BY NatLessThanWellFounded, WFMin, Zenon
<1>2. OpToRel(<, Nat) = {ss \in Nat \X Nat : ss[1] < ss[2]}
  BY Zenon DEF OpToRel
<1>3. ASSUME NEW k \in S PROVE m <= k
  <2>1. <<k, m>> \in Nat \X Nat /\ <<k, m>>[1] = k /\ <<k, m>>[2] = m
    OBVIOUS
  <2>2. ~(k < m)
    BY <1>1, <1>2, <2>1
  <2> QED BY <2>2
<1> QED BY <1>3

\* A set of integers under a bound has a largest element.
LEMMA LargestOf ==
  ASSUME NEW S \in SUBSET Int, S # {}, NEW b \in Int, \A k \in S : k <= b
  PROVE  \E m \in S : \A k \in S : k <= m
<1> DEFINE D == {b - k : k \in S}
<1>0. \A k \in S : b - k \in Nat
  OBVIOUS
<1>1. D \in SUBSET Nat /\ D # {}
  BY <1>0
<1>2. PICK d \in D : \A e \in D : d <= e
  BY <1>1, SmallestOf
<1>3. PICK m \in S : d = b - m
  BY <1>2
<1>4. ASSUME NEW k \in S PROVE k <= m
  <2>1. b - k \in D
    OBVIOUS
  <2>2. d <= b - k
    BY <2>1, <1>2
  <2> QED BY <2>2, <1>3
<1> QED BY <1>4

-----------------------------------------------------------------------------
(* The catalog: a key has one place, and the sells come before the trims. *)

\* The instance counts as this module does.
LEMMA SameSize == ASSUME NEW S PROVE Engine!Cardinality(S) = Cardinality(S)
  BY DEF Engine!Cardinality, Cardinality

LEMMA Places ==
  /\ \A k \in Engine!Keys : Engine!Place(k) \in 1..12
  /\ \A j, k \in Engine!Keys : Engine!Place(j) = Engine!Place(k) => j = k
<1>1. Len(Engine!Catalog) = 12
  BY DEF Engine!Catalog
<1> QED BY <1>1 DEF Engine!Keys, Engine!Place

LEMMA VerdictOfPlace ==
  ASSUME NEW k \in Engine!Keys
  PROVE  Engine!Catalog[Engine!Place(k)].verdict
           = IF Engine!Place(k) <= 5 THEN "sell"
             ELSE IF Engine!Place(k) <= 11 THEN "trim" ELSE "hold"
<1>1. \A i \in 1..12 : Engine!Catalog[i].verdict
        = IF i <= 5 THEN "sell" ELSE IF i <= 11 THEN "trim" ELSE "hold"
  BY DEF Engine!Catalog
<1> QED BY <1>1, Places

LEMMA KeysFinite == \A K \in SUBSET Engine!Keys : IsFiniteSet(K)
<1> DEFINE f == [i \in 1..12 |-> Engine!Catalog[i].key]
<1>1. Engine!Keys = {Engine!Catalog[i].key : i \in 1..12}
  BY DEF Engine!Keys, Engine!Catalog
<1> HIDE DEF f
<1>0. f = [i \in 1..12 |-> Engine!Catalog[i].key]
  BY DEF f
<1>2. f \in Surjection(1..12, Engine!Keys)
  <2>1. f \in [1..12 -> Engine!Keys] /\ \A k \in Engine!Keys : \E i \in 1..12 : f[i] = k
    BY <1>0, <1>1
  <2> QED BY <2>1 DEF Surjection
<1>3. IsFiniteSet(1..12)
  <2>1. PICK a \in Int, b \in Int : a = 1 /\ b = 12
    OBVIOUS
  <2>2. IsFiniteSet(a..b)
    BY FS_Interval
  <2> QED BY <2>1, <2>2, Zenon
<1>4. IsFiniteSet(Engine!Keys)
  BY <1>2, <1>3, FS_Surjection, Zenon
<1> QED BY <1>4, FS_Subset

\* Of rules that fire, the one the list of triggered rules starts with comes
\* first in the catalog.
LEMMA StrongestFirst ==
  ASSUME NEW K \in SUBSET Engine!Keys, K # {}
  PROVE  LET first == CHOOSE k \in K : Engine!Rank(k, K) = 0
         IN first \in K /\ \A j \in K : Engine!Place(first) <= Engine!Place(j)
<1> DEFINE D == {Engine!Place(k) : k \in K}
           first == CHOOSE k \in K : Engine!Rank(k, K) = 0
<1>0. \A k \in K : Engine!Place(k) \in 1..12
  BY Places
<1>1. D \in SUBSET Nat /\ D # {}
  BY <1>0
<1>2. PICK n \in D : \A m \in D : n <= m
  <2> HIDE DEF D
  <2> QED BY <1>1, SmallestOf
<1>3. PICK l \in K : n = Engine!Place(l)
  BY <1>2
<1>4. {j \in K : Engine!Before(j, l)} = {}
  BY <1>0, <1>2, <1>3 DEF Engine!Before
<1>5. Engine!Rank(l, K) = 0
  BY <1>4, FS_EmptySet, SameSize DEF Engine!Rank
<1>6. first \in K /\ Engine!Rank(first, K) = 0
  BY <1>5, Zenon
<1> HIDE DEF first
<1>7. {j \in K : Engine!Before(j, first)} = {}
  <2>1. IsFiniteSet({j \in K : Engine!Before(j, first)})
    BY KeysFinite
  <2>2. Cardinality({j \in K : Engine!Before(j, first)}) = 0
    BY <1>6, SameSize DEF Engine!Rank
  <2> QED BY <2>1, <2>2, FS_EmptySet, Zenon
<1>8. \A j \in K : Engine!Place(first) <= Engine!Place(j)
  BY <1>0, <1>6, <1>7 DEF Engine!Before
<1> QED BY <1>6, <1>8 DEF first

LEMMA FiredInCatalog ==
  ASSUME NEW pos, NEW sig, NEW sel
  PROVE  Engine!Fired(pos, sig, sel) \in SUBSET Engine!Keys
BY DEF Engine!Fired, Engine!Candidates

\* evaluate_position and get_verdict together: the strongest verdict.
Strongest(K) ==
  IF \E k \in K : Engine!Place(k) <= 5 THEN "sell"
  ELSE IF \E k \in K : Engine!Place(k) <= 11 THEN "trim" ELSE "hold"

LEMMA VerdictOfFired ==
  ASSUME NEW pos, NEW sig, NEW sel
  PROVE  Engine!ComputedVerdict(pos, sig, sel) = Strongest(Engine!Fired(pos, sig, sel))
<1> DEFINE K == Engine!Fired(pos, sig, sel)
           T == [n \in 1..Cardinality(K) |-> CHOOSE k \in K : Engine!Rank(k, K) = n - 1]
           first == CHOOSE k \in K : Engine!Rank(k, K) = 0
<1>1. K \in SUBSET Engine!Keys /\ IsFiniteSet(K)
  BY FiredInCatalog, KeysFinite
<1>2. Engine!Triggered(pos, sig, sel) = T
  BY SameSize, Zenon DEF Engine!Triggered
<1>3. Engine!ComputedVerdict(pos, sig, sel)
        = IF T = <<>> THEN "hold" ELSE Engine!Catalog[Engine!Place(T[1])].verdict
  BY <1>2, Zenon DEF Engine!ComputedVerdict, Engine!Verdict
<1>4. Cardinality(K) \in Nat /\ (Cardinality(K) = 0 <=> K = {})
  BY <1>1, FS_CardinalityType, FS_EmptySet
<1>5. K # {} => first \in K /\ \A j \in K : Engine!Place(first) <= Engine!Place(j)
  BY <1>1, StrongestFirst, Zenon
<1>6. DOMAIN T = 1..Cardinality(K)
  OBVIOUS
<1>7. 1 \in 1..Cardinality(K) => T[1] = first
  <2>1. 1 \in 1..Cardinality(K) => T[1] = CHOOSE k \in K : Engine!Rank(k, K) = 1 - 1
    BY Zenon
  <2>2. 1 - 1 = 0
    OBVIOUS
  <2> QED BY <2>1, <2>2, Zenon
<1> HIDE DEF K, T, first
<1>8. CASE K = {}
  <2>1. 1..Cardinality(K) = {}
    BY <1>4, <1>8
  <2>2. T = <<>>
    BY <1>6, <2>1 DEF T
  <2> QED BY <1>3, <1>8, <2>2 DEF Strongest, K
<1>9. CASE K # {}
  <2>1. T # <<>> /\ T[1] = first
    BY <1>4, <1>6, <1>7, <1>9
  <2>2. Engine!Place(first) \in 1..12 /\ \A j \in K : Engine!Place(j) \in 1..12
    BY <1>1, <1>5, <1>9, Places
  <2>3. Engine!Catalog[Engine!Place(first)].verdict
          = IF Engine!Place(first) <= 5 THEN "sell"
            ELSE IF Engine!Place(first) <= 11 THEN "trim" ELSE "hold"
    BY <1>1, <1>5, <1>9, VerdictOfPlace
  <2>4. Strongest(K) = IF Engine!Place(first) <= 5 THEN "sell"
                       ELSE IF Engine!Place(first) <= 11 THEN "trim" ELSE "hold"
    BY <1>5, <1>9, <2>2 DEF Strongest
  <2> QED BY <1>3, <2>1, <2>3, <2>4 DEF K
<1> QED BY <1>8, <1>9

LEMMA StrongestByVerdict ==
  ASSUME NEW K \in SUBSET Engine!Keys
  PROVE  LET verdicts == {Engine!Catalog[Engine!Place(k)].verdict : k \in K}
         IN Strongest(K) = IF "sell" \in verdicts THEN "sell"
                           ELSE IF "trim" \in verdicts THEN "trim" ELSE "hold"
<1>1. \A k \in K : /\ Engine!Place(k) \in 1..12
                   /\ Engine!Catalog[Engine!Place(k)].verdict
                        = IF Engine!Place(k) <= 5 THEN "sell"
                          ELSE IF Engine!Place(k) <= 11 THEN "trim" ELSE "hold"
  BY Places, VerdictOfPlace
<1> QED BY <1>1 DEF Strongest

\* Whatever the rows of the rules and their order, in every state of the
\* engine: the verdict of a position is the strongest of the rules that fire.
THEOREM StrongestWins == RulesSpec => []VerdictIsStrongest
<1>1. VerdictIsStrongest
  <2> SUFFICES ASSUME NEW p \in Position
               PROVE  LET fired == Engine!Fired(position[p], signals,
                                                rules[position[p].investment_type])
                          verdicts == {Engine!Catalog[Engine!Place(k)].verdict : k \in fired}
                      IN Engine!Computed(p) = IF "sell" \in verdicts THEN "sell"
                                       ELSE IF "trim" \in verdicts THEN "trim" ELSE "hold"
    BY DEF VerdictIsStrongest, Engine!VerdictIsStrongest
  <2> QED BY VerdictOfFired, FiredInCatalog, StrongestByVerdict DEF Engine!Computed
<1> QED BY <1>1, PTL
-----------------------------------------------------------------------------
(* Types. *)

LEMMA ComputedTyped ==
  ASSUME NEW p
  PROVE  Engine!Computed(p) \in Engine!Verdict3
BY VerdictOfFired DEF Engine!Computed, Strongest, Engine!Verdict3

\* Inserting a row and deleting one leave a list of rows.
LEMMA RowsEdited ==
  ASSUME NEW S, NEW s \in Seq(S)
  PROVE  /\ \A e \in S, at \in 0..Len(s) : Engine!InsertAt(s, at + 1, e) \in Seq(S)
         /\ \A i \in 1..Len(s) : Engine!RemoveAt(s, i) \in Seq(S)
<1>1. ASSUME NEW e \in S, NEW at \in 0..Len(s) PROVE Engine!InsertAt(s, at + 1, e) \in Seq(S)
  BY DEF Engine!InsertAt
<1>2. ASSUME NEW i \in 1..Len(s) PROVE Engine!RemoveAt(s, i) \in Seq(S)
  BY DEF Engine!RemoveAt
<1> QED BY <1>1, <1>2

LEMMA WeekTyped ==
  ASSUME TypeOK, [Next]_vars
  PROVE  TypeOK'
<1>1. study \in Study /\ study.weeks \in Nat
  BY StudyAssumption DEF TypeOK
<1>2. CASE NewWeek
  <2>1. PICK bar \in study.candles : weeks' = Append(weeks, bar)
    BY <1>2 DEF NewWeek
  <2>2. weeks' \in Seq(study.candles) /\ Len(weeks') = Len(weeks) + 1
    BY <2>1 DEF TypeOK
  <2> QED BY <1>1, <1>2, <2>2 DEF TypeOK, NewWeek
<1>3. CASE UNCHANGED vars
  BY <1>3 DEF TypeOK, vars
<1> QED BY <1>2, <1>3 DEF Next, Over

LEMMA EditTyped ==
  ASSUME Engine!TypeOK, NEW p \in Position, Engine!Edit(p)
  PROVE  Engine!TypeOK'
BY DEF Engine!TypeOK, Engine!Edit

LEMMA AcknowledgeTyped ==
  ASSUME Engine!TypeOK, NEW p \in Position, Engine!Acknowledge(p)
  PROVE  Engine!TypeOK'
<1>1. PICK yes \in BOOLEAN : acknowledged' = [acknowledged EXCEPT ![p] = yes]
  BY DEF Engine!Acknowledge
<1>2. acknowledged' \in [Position -> BOOLEAN]
  BY <1>1, Zenon DEF Engine!TypeOK
<1> QED BY <1>2 DEF Engine!TypeOK, Engine!Acknowledge

LEMMA RefreshTyped ==
  ASSUME Engine!TypeOK, NEW p \in Position, Engine!Refresh(p)
  PROVE  Engine!TypeOK'
BY ComputedTyped DEF Engine!TypeOK, Engine!Refresh

LEMMA ConfigureTyped ==
  ASSUME Engine!TypeOK, NEW t \in Engine!Types, Engine!Configure(t)
  PROVE  Engine!TypeOK'
<1>1. rules[t] \in Seq(Choice)
  BY DEF Engine!TypeOK
<1>2. PICK s \in Seq(Choice) : rules' = [rules EXCEPT ![t] = s]
  <2>1. CASE \E c \in Choice, at \in 0..Len(rules[t]) :
               rules' = [rules EXCEPT ![t] = Engine!InsertAt(rules[t], at + 1, c)]
    BY <1>1, <2>1, RowsEdited
  <2>2. CASE \E i \in 1..Len(rules[t]) :
               rules' = [rules EXCEPT ![t] = Engine!RemoveAt(rules[t], i)]
    BY <1>1, <2>2, RowsEdited
  <2> QED BY <2>1, <2>2 DEF Engine!Configure
<1>3. rules' \in [Engine!Types -> Seq(Choice)]
  BY <1>2 DEF Engine!TypeOK
<1> QED BY <1>3 DEF Engine!TypeOK, Engine!Configure

LEMMA EngineTyped ==
  ASSUME Engine!TypeOK, [Engine!Next]_engineVars
  PROVE  Engine!TypeOK'
<1>1. CASE Engine!CachesChange
  BY <1>1 DEF Engine!TypeOK, Engine!CachesChange
<1>2. CASE UNCHANGED engineVars
  BY <1>2 DEF Engine!TypeOK, engineVars
<1> QED BY <1>1, <1>2, EditTyped, AcknowledgeTyped, RefreshTyped, ConfigureTyped DEF Engine!Next

\* A step is one of the candles or one of the engine.
LEMMA Halves ==
  ASSUME [RulesNext]_<<part, vars, engineVars>>
  PROVE  [Next]_vars /\ [Engine!Next]_engineVars
BY DEF RulesNext

\* Every state of either half keeps its types: the verdict a refresh stores is
\* SELL, TRIM or HOLD, and the rows of a strategy stay a list of rules.
THEOREM RulesTyped == RulesSpec => []RulesTypeOK
<1>1. RulesInit => RulesTypeOK
  <2> SUFFICES ASSUME RulesInit PROVE RulesTypeOK
    OBVIOUS
  <2>1. TypeOK
    BY StudyAssumption DEF RulesInit, Init, TypeOK
  <2>2. Engine!TypeOK
    BY DEF RulesInit, Engine!Init, Engine!TypeOK
  <2> QED BY <2>1, <2>2 DEF RulesTypeOK
<1>2. RulesTypeOK /\ [RulesNext]_<<part, vars, engineVars>> => RulesTypeOK'
  BY Halves, WeekTyped, EngineTyped DEF RulesTypeOK
<1> QED BY <1>1, <1>2, PTL DEF RulesSpec

-----------------------------------------------------------------------------
(* Stored verdicts: what a position that nothing touched since its refresh    *)
(* has stored is what the engine computes.                                    *)

Kept ==
  \A p \in Position \ touched : stored[p] \in {NoVerdict, Engine!Computed(p)}

LEMMA ComputedStays ==
  ASSUME NEW p, position'[p] = position[p], signals' = signals,
         rules'[position[p].investment_type] = rules[position[p].investment_type]
  PROVE  Engine!Computed(p)' = Engine!Computed(p)
BY DEF Engine!Computed

LEMMA KeptNext ==
  ASSUME Engine!TypeOK, Kept, [Engine!Next]_engineVars
  PROVE  Kept'
<1> SUFFICES ASSUME NEW q \in Position, q \notin touched'
             PROVE  stored'[q] \in {NoVerdict, Engine!Computed(q)'}
  BY DEF Kept
<1>1. ASSUME NEW p \in Position, Engine!Edit(p)
      PROVE  stored'[q] \in {NoVerdict, Engine!Computed(q)'}
  <2>1. q # p /\ q \notin touched
    BY <1>1 DEF Engine!Edit
  <2>2. position'[q] = position[q] /\ signals' = signals /\ rules' = rules /\ stored' = stored
    BY <1>1, <2>1 DEF Engine!Edit, Engine!TypeOK
  <2> QED BY <2>1, <2>2, ComputedStays DEF Kept
<1>2. ASSUME NEW p \in Position, Engine!Acknowledge(p)
      PROVE  stored'[q] \in {NoVerdict, Engine!Computed(q)'}
  BY <1>2, ComputedStays DEF Engine!Acknowledge, Kept
<1>3. ASSUME NEW p \in Position, Engine!Refresh(p)
      PROVE  stored'[q] \in {NoVerdict, Engine!Computed(q)'}
  <2>1. Engine!Computed(q)' = Engine!Computed(q)
    BY <1>3, ComputedStays DEF Engine!Refresh
  <2>2. CASE q = p
    BY <1>3, <2>1, <2>2 DEF Engine!Refresh, Engine!TypeOK
  <2>3. CASE q # p
    BY <1>3, <2>1, <2>3 DEF Engine!Refresh, Engine!TypeOK, Kept
  <2> QED BY <2>2, <2>3
<1>4. ASSUME NEW t \in Engine!Types, Engine!Configure(t)
      PROVE  stored'[q] \in {NoVerdict, Engine!Computed(q)'}
  <2>1. q \notin touched /\ position[q].investment_type # t
    BY <1>4 DEF Engine!Configure
  <2>2. position' = position /\ signals' = signals /\ stored' = stored
    BY <1>4 DEF Engine!Configure
  <2>3. position[q].investment_type \in Engine!Types
    BY EngineSettings DEF Engine!TypeOK, Engine!PortfolioAssumption
  <2>4. PICK s : rules' = [rules EXCEPT ![t] = s]
    BY <1>4 DEF Engine!Configure
  <2>5. rules'[position[q].investment_type] = rules[position[q].investment_type]
    BY <2>1, <2>3, <2>4 DEF Engine!TypeOK
  <2> QED BY <2>1, <2>2, <2>5, ComputedStays DEF Kept
<1>5. CASE Engine!CachesChange
  BY <1>5 DEF Engine!CachesChange
<1>6. CASE UNCHANGED engineVars
  BY <1>6, ComputedStays DEF engineVars, Kept
<1> QED BY <1>1, <1>2, <1>3, <1>4, <1>5, <1>6 DEF Engine!Next

\* The two summaries of the portfolio, the poller's from the stored verdicts
\* and the full page's from the engine, differ only when a position, a rule or
\* the caches changed since a refresh: confirming a TRIM never sets them apart.
THEOREM SummariesAgree == RulesSpec => []SummaryDriftNeedsChange
<1>1. RulesInit => Kept
  BY DEF RulesInit, Engine!Init, Kept
<1>2. RulesTypeOK /\ Kept /\ [RulesNext]_<<part, vars, engineVars>> => Kept'
  BY Halves, KeptNext DEF RulesTypeOK
<1>3. Kept => SummaryDriftNeedsChange
  <2> SUFFICES ASSUME Kept, touched = {}, \A p \in Position : stored[p] # NoVerdict
               PROVE  Engine!StoredSummary = Engine!FullSummary
    BY DEF SummaryDriftNeedsChange, Engine!SummaryDriftNeedsChange, Engine!StoredSummary
  <2>1. \A p \in Position : stored[p] = Engine!Computed(p)
    BY DEF Kept
  <2>2. \A v : {p \in Position : Engine!Shown(p, stored[p]) = v}
                 = {p \in Position : Engine!Shown(p, Engine!Computed(p)) = v}
    BY <2>1, Zenon
  <2> QED BY <2>2, Zenon DEF Engine!StoredSummary, Engine!FullSummary
<1> QED BY <1>1, <1>2, <1>3, RulesTyped, PTL DEF RulesSpec
-----------------------------------------------------------------------------
(* Missing data: each rule that fires on poorer data fires on the richer.     *)

\* The n-th of the closes that are there.
NthClose(closes, n) ==
  LET valid == {i \in 1..Len(closes) : closes[i] > 0}
  IN CHOOSE i \in valid : Cardinality({j \in valid : j <= i}) = n

LEMMA ReturnIs ==
  ASSUME NEW closes, NEW days
  PROVE  Engine!PeriodEnds(closes, days)
           = IF Cardinality({i \in 1..Len(closes) : closes[i] > 0}) < days + 1 THEN <<>>
             ELSE <<closes[NthClose(closes, days + 1)], closes[NthClose(closes, 1)]>>
<1> DEFINE valid == {i \in 1..Len(closes) : closes[i] > 0}
           Upto(i) == {j \in valid : j <= i}
           N(n) == CHOOSE i \in valid : Engine!Cardinality(Upto(i)) = n
<1>1. Engine!PeriodEnds(closes, days)
        = IF Engine!Cardinality(valid) < days + 1 THEN <<>>
          ELSE <<closes[N(days + 1)], closes[N(1)]>>
  BY Zenon DEF Engine!PeriodEnds
<1>2. ASSUME NEW n PROVE NthClose(closes, n) = N(n)
  <2> DEFINE M == CHOOSE i \in valid : Cardinality(Upto(i)) = n
  <2>1. NthClose(closes, n) = M
    BY Zenon DEF NthClose
  <2>2. \A i : Engine!Cardinality(Upto(i)) = Cardinality(Upto(i))
    BY SameSize
  <2> HIDE DEF valid, Upto
  <2> QED BY <2>1, <2>2, Zenon
<1>3. Engine!Cardinality(valid) = Cardinality(valid)
  BY SameSize
<1> HIDE DEF N
<1>4. NthClose(closes, days + 1) = N(days + 1) /\ NthClose(closes, 1) = N(1)
  BY <1>2
<1> QED BY <1>1, <1>3, <1>4

\* Among the elements of a finite set of numbers there is an n-th.
LEMMA NthExists ==
  ASSUME NEW m \in Nat, NEW V \in SUBSET (1..m), NEW n \in Nat \ {0}, n <= Cardinality(V)
  PROVE  \E i \in V : Cardinality({j \in V : j <= i}) = n
<1> DEFINE Upto(i) == {j \in V : j <= i}
           Before(i) == {j \in V : j < i}
           Far == {i \in V : Cardinality(Upto(i)) >= n}
<1>1. IsFiniteSet(V) /\ Cardinality(V) \in Nat /\ V \in SUBSET Nat
  <2>1. PICK one \in Int : one = 1
    OBVIOUS
  <2>2. IsFiniteSet(one..m) /\ V \subseteq one..m
    BY <2>1, FS_Interval
  <2>3. IsFiniteSet(V) /\ Cardinality(V) \in Nat
    BY <2>2, FS_Subset, FS_CardinalityType
  <2> QED BY <2>3
<1>2. ASSUME NEW T \in SUBSET V PROVE IsFiniteSet(T) /\ Cardinality(T) \in Nat
  BY <1>1, FS_Subset, FS_CardinalityType
<1>3. ASSUME NEW T \in SUBSET V, T # {} PROVE \E k \in T : \A l \in T : l <= k
  <2>1. PICK U \in SUBSET Int : U = T
    BY <1>1
  <2>2. U # {} /\ m \in Int /\ \A k \in U : k <= m
    BY <1>3, <2>1
  <2>3. \E k \in U : \A l \in U : l <= k
    BY <2>2, LargestOf, Zenon
  <2> QED BY <2>1, <2>3
<1>4. Far # {}
  <2>1. V # {}
    BY <1>1, FS_EmptySet
  <2>2. PICK k \in V : \A l \in V : l <= k
    BY <1>3, <2>1
  <2>3. Upto(k) = V
    BY <2>2
  <2> QED BY <2>2, <2>3
<1>5. PICK i \in Far : \A k \in Far : i <= k
  <2>1. Far \in SUBSET Nat
    BY <1>1
  <2> HIDE DEF Far
  <2> QED BY <1>4, <2>1, SmallestOf
<1>6. i \in V /\ i \in Nat /\ Cardinality(Upto(i)) >= n
  BY <1>1
<1> HIDE DEF Far
<1>7. Upto(i) = Before(i) \cup {i} /\ i \notin Before(i)
  <2>1. ASSUME NEW j PROVE j \in Upto(i) <=> j \in Before(i) \/ j = i
    <3>1. CASE j \in V
      <4>1. j \in Nat
        BY <1>1, <3>1
      <4> QED BY <1>6, <3>1, <4>1
    <3>2. CASE j \notin V
      BY <1>6, <3>2
    <3> QED BY <3>1, <3>2
  <2>2. i \notin Before(i)
    BY <1>6
  <2> HIDE DEF Upto, Before
  <2> QED BY <2>1, <2>2
<1>8. Cardinality(Upto(i)) = Cardinality(Before(i)) + 1
  <2>1. IsFiniteSet(Before(i))
    BY <1>2
  <2> HIDE DEF Before, Upto
  <2> QED BY <1>7, <2>1, FS_AddElement
<1>9. Cardinality(Before(i)) < n
  <2>1. CASE Before(i) = {}
    BY <2>1, FS_EmptySet
  <2>2. CASE Before(i) # {}
    <3>1. PICK k \in Before(i) : \A l \in Before(i) : l <= k
      BY <1>3, <2>2
    <3>2. k \in V /\ k \in Nat /\ k < i
      BY <1>1, <3>1
    <3>22. Upto(k) = Before(i)
      <4>1. ASSUME NEW j \in V PROVE j <= k <=> j < i
        <5>1. j \in Nat
          BY <1>1
        <5>2. j < i => j <= k
          BY <3>1
        <5> QED BY <1>6, <3>2, <5>1, <5>2
      <4> QED BY <4>1
    <3>3. k \notin Far
      BY <1>5, <1>6, <3>2
    <3>4. ~(Cardinality(Upto(k)) >= n) /\ Cardinality(Upto(k)) \in Nat
      BY <1>2, <3>2, <3>3 DEF Far
    <3> QED BY <3>22, <3>4
  <2> QED BY <2>1, <2>2
<1>10. Cardinality(Before(i)) \in Nat
  BY <1>2
<1>11. Cardinality(Upto(i)) = n
  <2> HIDE DEF Upto, Before
  <2> QED BY <1>6, <1>8, <1>9, <1>10
<1> QED BY <1>6, <1>11

\* A history cut short that still gives a return gives the same.
LEMMA ReturnOfPrefix ==
  ASSUME NEW a \in Seq(Nat), NEW b \in Seq(Nat), Engine!IsPrefix(b, a), NEW days \in Nat,
         Engine!PeriodEnds(b, days) # <<>>
  PROVE  Engine!PeriodEnds(a, days) = Engine!PeriodEnds(b, days)
<1> DEFINE va == {i \in 1..Len(a) : a[i] > 0}
           vb == {i \in 1..Len(b) : b[i] > 0}
           Upto(V, i) == {j \in V : j <= i}
<1>1. Len(a) \in Nat /\ Len(b) \in Nat /\ Len(b) <= Len(a) /\ \A i \in 1..Len(b) : b[i] = a[i]
  <2>1. Len(b) <= Len(a) /\ SubSeq(b, 1, Len(b)) = SubSeq(a, 1, Len(b))
    BY DEF Engine!IsPrefix
  <2>2. \A i \in 1..Len(b) : SubSeq(b, 1, Len(b))[i] = b[i] /\ SubSeq(a, 1, Len(b))[i] = a[i]
    BY <2>1
  <2> QED BY <2>1, <2>2
<1>2. /\ vb \subseteq va /\ \A i \in va : i \in Nat
      /\ \A i \in va : i \in vb <=> i <= Len(b)
      /\ \A i \in vb : b[i] = a[i]
  BY <1>1
<1>3. IsFiniteSet(va) /\ IsFiniteSet(vb) /\ Cardinality(va) \in Nat /\ Cardinality(vb) \in Nat
      /\ Cardinality(vb) <= Cardinality(va)
  <2>1. PICK one \in Int : one = 1
    OBVIOUS
  <2>2. IsFiniteSet(one..Len(a)) /\ va \subseteq one..Len(a)
    BY <1>1, <2>1, FS_Interval
  <2>3. IsFiniteSet(va)
    BY <2>2, FS_Subset
  <2> QED BY <1>2, <2>3, FS_Subset, FS_CardinalityType
<1>4. /\ Engine!PeriodEnds(a, days) = IF Cardinality(va) < days + 1 THEN <<>>
                                       ELSE <<a[NthClose(a, days + 1)], a[NthClose(a, 1)]>>
      /\ Engine!PeriodEnds(b, days) = IF Cardinality(vb) < days + 1 THEN <<>>
                                       ELSE <<b[NthClose(b, days + 1)], b[NthClose(b, 1)]>>
  BY ReturnIs
<1>5. days + 1 <= Cardinality(vb) /\ days + 1 <= Cardinality(va)
  BY <1>3, <1>4
<1>6. /\ \A n : NthClose(a, n) = CHOOSE i \in va : Cardinality(Upto(va, i)) = n
      /\ \A n : NthClose(b, n) = CHOOSE i \in vb : Cardinality(Upto(vb, i)) = n
  BY Zenon DEF NthClose
<1> HIDE DEF va, vb
<1>7. \A i \in vb : Upto(va, i) = Upto(vb, i)
  BY <1>1, <1>2
<1>8. ASSUME NEW i \in va \ vb PROVE Cardinality(Upto(va, i)) > Cardinality(vb)
  <2>1. vb \subseteq Upto(va, i) /\ i \in Upto(va, i) /\ i \notin vb
    BY <1>1, <1>2, <1>8
  <2>2. IsFiniteSet(Upto(va, i))
    <3>1. Upto(va, i) \subseteq va
      OBVIOUS
    <3> HIDE DEF Upto
    <3> QED BY <1>3, <3>1, FS_Subset
  <2>3. Cardinality(vb \cup {i}) = Cardinality(vb) + 1 /\ IsFiniteSet(vb \cup {i})
    BY <1>3, <2>1, FS_AddElement
  <2>4. Cardinality(vb \cup {i}) <= Cardinality(Upto(va, i)) /\ Cardinality(Upto(va, i)) \in Nat
    <3>1. vb \cup {i} \subseteq Upto(va, i)
      BY <2>1
    <3> HIDE DEF Upto
    <3> QED BY <2>2, <3>1, FS_Subset, FS_CardinalityType
  <2> QED BY <1>3, <2>3, <2>4
<1>9. ASSUME NEW n \in Nat, n <= Cardinality(vb) PROVE NthClose(a, n) = NthClose(b, n)
  <2>1. \A i : (i \in va /\ Cardinality(Upto(va, i)) = n)
                 <=> (i \in vb /\ Cardinality(Upto(vb, i)) = n)
    <3>1. ASSUME NEW i \in vb PROVE i \in va /\ Cardinality(Upto(va, i)) = Cardinality(Upto(vb, i))
      BY <1>2, <1>7
    <3>2. ASSUME NEW i \in va \ vb PROVE Cardinality(Upto(va, i)) # n
      BY <1>3, <1>8, <1>9
    <3> QED BY <3>1, <3>2
  <2>2. NthClose(a, n) = CHOOSE i \in va : Cardinality(Upto(va, i)) = n
    BY <1>6, Zenon
  <2>3. NthClose(b, n) = CHOOSE i \in vb : Cardinality(Upto(vb, i)) = n
    BY <1>6, Zenon
  <2>4. {i \in va : Cardinality(Upto(va, i)) = n} = {i \in vb : Cardinality(Upto(vb, i)) = n}
    BY <2>1
  <2> HIDE DEF Upto
  <2>5. (CHOOSE i \in va : Cardinality(Upto(va, i)) = n)
          = CHOOSE i \in vb : Cardinality(Upto(vb, i)) = n
    BY <2>1, Zenon
  <2> QED BY <2>2, <2>3, <2>5
<1>10. ASSUME NEW n \in Nat \ {0}, n <= Cardinality(vb) PROVE NthClose(b, n) \in vb
  <2>1. \E i \in vb : Cardinality(Upto(vb, i)) = n
    <3>1. PICK m \in Nat : m = Len(b)
      BY <1>1
    <3>2. vb \in SUBSET (1..m)
      BY <3>1 DEF vb
    <3> QED BY <1>10, <3>2, NthExists
  <2> HIDE DEF Upto
  <2> QED BY <1>6, <2>1, Zenon
<1>11. NthClose(a, days + 1) = NthClose(b, days + 1) /\ NthClose(a, 1) = NthClose(b, 1)
  BY <1>3, <1>5, <1>9
<1>12. NthClose(b, days + 1) \in vb /\ NthClose(b, 1) \in vb
  BY <1>3, <1>5, <1>10
<1>13. /\ Engine!PeriodEnds(a, days) = <<a[NthClose(a, days + 1)], a[NthClose(a, 1)]>>
       /\ Engine!PeriodEnds(b, days) = <<b[NthClose(b, days + 1)], b[NthClose(b, 1)]>>
  BY <1>3, <1>4, <1>5
<1>14. b[NthClose(b, days + 1)] = a[NthClose(b, days + 1)] /\ b[NthClose(b, 1)] = a[NthClose(b, 1)]
  BY <1>2, <1>12
<1> QED BY <1>11, <1>13, <1>14

LEMMA DaysPositive ==
  ASSUME NEW c \in Choice
  PROVE  Engine!LookbackDays(c.params) \in Nat \ {0}
BY EngineSettings DEF Engine!PortfolioAssumption, Engine!LookbackDays, Engine!Setting

\* The daily histories are lists of closes.
Dated(sig) == sig.daily.stock \in Seq(Nat) /\ sig.daily.benchmark \in Seq(Nat)

LEMMA WeaknessNeedsData ==
  ASSUME NEW a, NEW b, Dated(a), Dated(b), Engine!Poorer(a, b), NEW c \in Choice, NEW pos,
         Engine!RelativeWeakness(pos, b, c.params)
  PROVE  Engine!RelativeWeakness(pos, a, c.params)
<1>1. PICK d \in Nat : d = Engine!LookbackDays(c.params)
  BY DaysPositive
<1>2. /\ Engine!IsPrefix(b.daily.stock, a.daily.stock)
      /\ Engine!IsPrefix(b.daily.benchmark, a.daily.benchmark)
  BY DEF Engine!Poorer
<1>3. /\ Engine!PeriodEnds(b.daily.stock, d) # <<>>
      /\ Engine!PeriodEnds(b.daily.benchmark, d) # <<>>
  BY <1>1 DEF Engine!RelativeWeakness
<1>4. /\ Engine!PeriodEnds(a.daily.stock, d) = Engine!PeriodEnds(b.daily.stock, d)
      /\ Engine!PeriodEnds(a.daily.benchmark, d) = Engine!PeriodEnds(b.daily.benchmark, d)
  BY <1>2, <1>3, ReturnOfPrefix DEF Dated
<1> QED BY <1>1, <1>4 DEF Engine!RelativeWeakness

LEMMA ExtensionNeedsData ==
  ASSUME NEW a, NEW b, Engine!Poorer(a, b), NEW pos, NEW params, NEW threshold,
         Engine!Extended(pos, b, params, threshold)
  PROVE  Engine!Extended(pos, a, params, threshold)
<1>1. PICK m, r : /\ m = <<Engine!Interval(params), Engine!Setting(params, "sma_period", 2, 50)>>
                  /\ r = <<Engine!Interval(params), Engine!Setting(params, "atr_period", 2, 14)>>
  OBVIOUS
<1>2. /\ m \in DOMAIN b.ma /\ b.ma[m].sma > 0
      /\ r \in DOMAIN b.atr /\ b.atr[r] > 0
  BY <1>1 DEF Engine!Extended
<1>3. /\ m \in DOMAIN a.ma /\ a.ma[m].sma = b.ma[m].sma
      /\ r \in DOMAIN a.atr /\ a.atr[r] = b.atr[r]
  BY <1>2 DEF Engine!Poorer
<1> QED BY <1>1, <1>3 DEF Engine!Extended

LEMMA AverageNeedsData ==
  ASSUME NEW a, NEW b, Engine!Poorer(a, b), NEW params, Engine!SellMaAll(b, params)
  PROVE  Engine!SellMaAll(a, params)
<1>1. ASSUME NEW c \in params.conditions
      PROVE  c \in DOMAIN a.ma /\ a.ma[c].close = b.ma[c].close /\ a.ma[c].sma = b.ma[c].sma
  <2>1. c \in DOMAIN b.ma /\ b.ma[c].close > 0 /\ b.ma[c].sma > 0
    BY <1>1 DEF Engine!SellMaAll
  <2> QED BY <2>1 DEF Engine!Poorer
<1> QED BY <1>1 DEF Engine!SellMaAll

LEMMA RulesNeedData ==
  ASSUME NEW a, NEW b, Dated(a), Dated(b), Engine!Poorer(a, b), NEW c \in Choice, NEW pos,
         Engine!Fires(c.key, pos, b, c.params)
  PROVE  Engine!Fires(c.key, pos, a, c.params)
<1>1. a.candles = b.candles
  BY DEF Engine!Poorer
<1> QED BY <1>1, WeaknessNeedsData, ExtensionNeedsData, AverageNeedsData
        DEF Engine!Fires, Engine!TrimExtension, Engine!SellExtension

LEMMA LosingDataFiresLess ==
  ASSUME NEW a, NEW b, Dated(a), Dated(b), Engine!Poorer(a, b), NEW sel \in Seq(Choice), NEW pos
  PROVE  Engine!Fired(pos, b, sel) \subseteq Engine!Fired(pos, a, sel)
<1>1. \A i \in Engine!Candidates(sel) : sel[i] \in Choice
  BY DEF Engine!Candidates
<1> QED BY <1>1, RulesNeedData DEF Engine!Fired

\* A step of the caches that only loses averages, ranges or the older days of a
\* daily history makes no rule fire that did not fire.
LEMMA LostDataIsSafe == RulesSpec => Engine!LostDataFiresNothing
<1> DEFINE Loss == Engine!Poorer(signals, signals')
                     => \A p \in Position : \A t \in Engine!Types :
                          (position' = position /\ rules' = rules)
                            => Engine!Fired(position[p], signals', rules[t])
                                 \subseteq Engine!Fired(position[p], signals, rules[t])
<1>1. RulesTypeOK /\ RulesTypeOK' => Loss
  <2> SUFFICES ASSUME RulesTypeOK, RulesTypeOK', Engine!Poorer(signals, signals'),
                      NEW p \in Position, NEW t \in Engine!Types
               PROVE  Engine!Fired(position[p], signals', rules[t])
                        \subseteq Engine!Fired(position[p], signals, rules[t])
    OBVIOUS
  <2>1. rules[t] \in Seq(Choice) /\ signals \in Market /\ signals' \in Market
    BY DEF RulesTypeOK, Engine!TypeOK
  <2>2. Dated(signals) /\ Dated(signals')
    BY <2>1, EngineSettings DEF Dated, Engine!PortfolioAssumption
  <2> QED BY <2>1, <2>2, LosingDataFiresLess
<1>2. []RulesTypeOK => [][Loss]_(Engine!vars)
  <2> HIDE DEF Loss
  <2> QED BY <1>1, PTL
<1>3. Engine!LostDataFiresNothing <=> [][Loss]_(Engine!vars)
  BY DEF Engine!LostDataFiresNothing
<1> QED BY <1>2, <1>3, RulesTyped, PTL
-----------------------------------------------------------------------------
(* Requirements: the averages, ranges and days that are fetched for the       *)
(* enabled rules are all they look at.                                        *)

\* A list of natural numbers has a bound.
LEMMA BoundOf ==
  ASSUME NEW n \in Nat, NEW f \in [1..n -> Nat]
  PROVE  \E b \in Nat : \A i \in 1..n : f[i] <= b
<1> DEFINE U == {m \in Nat : m <= n /\ ~\E b \in Nat : \A i \in 1..m : f[i] <= b}
<1> SUFFICES ASSUME n \in U PROVE FALSE
  OBVIOUS
<1>1. PICK m \in U : \A k \in U : m <= k
  <2>1. U \in SUBSET Nat /\ U # {}
    OBVIOUS
  <2> HIDE DEF U
  <2> QED BY <2>1, SmallestOf
<1>2. m \in Nat /\ m <= n /\ ~\E b \in Nat : \A i \in 1..m : f[i] <= b
  OBVIOUS
<1> HIDE DEF U
<1>3. m # 0
  <2> SUFFICES ASSUME m = 0 PROVE FALSE
    OBVIOUS
  <2>1. \A i \in 1..m : f[i] <= 0
    OBVIOUS
  <2> QED BY <1>2, <2>1
<1>4. m - 1 \in Nat /\ m - 1 <= n /\ m - 1 \notin U
  <2>1. ~(m <= m - 1)
    BY <1>2
  <2> QED BY <1>1, <1>2, <1>3, <2>1
<1>5. PICK b \in Nat : \A i \in 1..m - 1 : f[i] <= b
  BY <1>4, Zenon DEF U
<1>6. PICK c \in Nat : b <= c /\ f[m] <= c
  <2>1. f[m] \in Nat
    BY <1>2, <1>3
  <2> QED BY <2>1
<1>7. ASSUME NEW i \in 1..m PROVE f[i] <= c
  <2>1. CASE i = m
    BY <1>6, <2>1
  <2>2. CASE i # m
    <3>1. i \in 1..m - 1 /\ f[i] \in Nat
      BY <1>2, <2>2
    <3> QED BY <1>5, <1>6, <3>1
  <2> QED BY <2>1, <2>2
<1> QED BY <1>2, <1>7

\* The days that are fetched cover the lookback of every row of the rule.
LEMMA DaysCovered ==
  ASSUME NEW sel \in Seq(Choice)
  PROVE  /\ Engine!Requirements(sel).days \in Nat
         /\ \A i \in 1..Len(sel) : sel[i].key = "TRIM_RELATIVE_WEAKNESS_VS_SECTOR"
              => Engine!LookbackDays(sel[i].params) <= Engine!Requirements(sel).days
<1> DEFINE rows == {sel[i] : i \in 1..Len(sel)}
           weakness == {s \in rows : s.key = "TRIM_RELATIVE_WEAKNESS_VS_SECTOR"}
           D == {0} \cup {Engine!LookbackDays(r.params) : r \in weakness}
           f == [i \in 1..Len(sel) |-> Engine!LookbackDays(sel[i].params)]
<1>1. Engine!Requirements(sel).days = Engine!Max(D)
  BY DEF Engine!Requirements
<1>2. f \in [1..Len(sel) -> Nat] /\ Len(sel) \in Nat
  BY DaysPositive
<1>3. PICK b \in Nat : \A i \in 1..Len(sel) : f[i] <= b
  <2> HIDE DEF f
  <2> QED BY <1>2, BoundOf
<1>4. \A i \in 1..Len(sel) : Engine!LookbackDays(sel[i].params) \in Nat
                             /\ Engine!LookbackDays(sel[i].params) <= b
  BY <1>2, <1>3
<1>5. D \in SUBSET Int /\ D # {} /\ \A k \in D : k \in Nat /\ k <= b
  BY <1>4
<1>6. \A i \in 1..Len(sel) : sel[i].key = "TRIM_RELATIVE_WEAKNESS_VS_SECTOR"
        => Engine!LookbackDays(sel[i].params) \in D
  OBVIOUS
<1> HIDE DEF D
<1>7. \E m \in D : \A k \in D : m >= k
  <2>1. PICK S \in SUBSET Int : S = D
    BY <1>5
  <2>2. S # {} /\ b \in Int /\ \A k \in S : k <= b
    BY <1>5, <2>1
  <2>3. \E m \in S : \A k \in S : k <= m
    BY <2>2, LargestOf, Zenon
  <2> QED BY <1>5, <2>1, <2>3
<1>8. Engine!Max(D) \in D /\ \A k \in D : Engine!Max(D) >= k
  BY <1>7, Zenon DEF Engine!Max
<1> QED BY <1>1, <1>5, <1>6, <1>8

\* Without a NULL among the closes a return spans the days it names.
LEMMA ReturnSpans ==
  ASSUME NEW closes \in Seq(Nat), \A i \in 1..Len(closes) : closes[i] > 0, NEW days \in Nat
  PROVE  Engine!PeriodEnds(closes, days)
           = IF Len(closes) < days + 1 THEN <<>> ELSE <<closes[days + 1], closes[1]>>
<1> DEFINE valid == {i \in 1..Len(closes) : closes[i] > 0}
           Upto(i) == {j \in valid : j <= i}
           Nth(n) == CHOOSE i \in valid : Engine!Cardinality(Upto(i)) = n
<1>1. valid = 1..Len(closes) /\ Len(closes) \in Nat
  OBVIOUS
<1>2. ASSUME NEW n \in Nat PROVE Cardinality(1..n) = n
  <2>1. Cardinality(1..n) = IF 1 > n THEN 0 ELSE n - 1 + 1
    BY FS_Interval
  <2> QED BY <2>1
<1>3. Engine!Cardinality(valid) = Len(closes)
  BY <1>1, <1>2, SameSize
<1>4. ASSUME NEW i \in valid PROVE Engine!Cardinality(Upto(i)) = i
  <2>1. Upto(i) = 1..i /\ i \in Nat
    BY <1>1
  <2> QED BY <2>1, <1>2, SameSize
<1>5. ASSUME NEW n \in valid PROVE Nth(n) = n
  <2>1. Engine!Cardinality(Upto(n)) = n
    BY <1>4
  <2>2. PICK m : m = Nth(n)
    OBVIOUS
  <2>3. m \in valid /\ Engine!Cardinality(Upto(m)) = n
    BY <2>1, <2>2, Zenon
  <2> QED BY <1>4, <2>2, <2>3
<1>6. Engine!PeriodEnds(closes, days)
        = IF Engine!Cardinality(valid) < days + 1 THEN <<>>
          ELSE <<closes[Nth(days + 1)], closes[Nth(1)]>>
  BY Zenon DEF Engine!PeriodEnds
<1> HIDE DEF Nth
<1>7. CASE Len(closes) < days + 1
  BY <1>3, <1>6, <1>7
<1>8. CASE ~(Len(closes) < days + 1)
  <2>1. 1 \in valid /\ days + 1 \in valid
    BY <1>1, <1>8
  <2>2. Nth(days + 1) = days + 1 /\ Nth(1) = 1
    BY <1>5, <2>1
  <2> QED BY <1>3, <1>6, <1>8, <2>2
<1> QED BY <1>7, <1>8

LEMMA RecentSuffices ==
  ASSUME NEW closes \in Seq(Nat), \A i \in 1..Len(closes) : closes[i] > 0,
         NEW kept \in Nat, NEW days \in Nat, days <= kept
  PROVE  Engine!PeriodEnds(Engine!Recent(closes, kept), days) = Engine!PeriodEnds(closes, days)
<1> DEFINE D == {kept + 1, Len(closes)}
           m == Engine!Min(D)
           r == SubSeq(closes, 1, m)
<1>1. m \in D /\ \A k \in D : m <= k
  <2>1. \E k \in D : \A l \in D : k <= l
    <3>1. CASE kept + 1 <= Len(closes)
      BY <3>1
    <3>2. CASE Len(closes) <= kept + 1
      BY <3>2
    <3> QED BY <3>1, <3>2
  <2> HIDE DEF D
  <2> QED BY <2>1, Zenon DEF Engine!Min
<1> HIDE DEF m
<1>2. m \in Nat /\ m <= Len(closes) /\ m <= kept + 1 /\ (m = kept + 1 \/ m = Len(closes))
  BY <1>1
<1>3. r \in Seq(Nat) /\ Len(r) = m /\ \A i \in 1..m : r[i] = closes[i]
  BY <1>2
<1>4. \A i \in 1..Len(r) : r[i] > 0
  BY <1>2, <1>3
<1>5. Engine!Recent(closes, kept) = r
  BY DEF Engine!Recent, m
<1> HIDE DEF r
<1>6. Engine!PeriodEnds(r, days) = IF m < days + 1 THEN <<>> ELSE <<r[days + 1], r[1]>>
  BY <1>3, <1>4, ReturnSpans
<1>7. Engine!PeriodEnds(closes, days)
        = IF Len(closes) < days + 1 THEN <<>> ELSE <<closes[days + 1], closes[1]>>
  BY ReturnSpans
<1>8. CASE Len(closes) < days + 1
  BY <1>2, <1>5, <1>6, <1>7, <1>8
<1>9. CASE days + 1 <= Len(closes)
  <2>1. days + 1 \in 1..m /\ 1 \in 1..m
    BY <1>2, <1>9
  <2>2. r[days + 1] = closes[days + 1] /\ r[1] = closes[1]
    BY <1>3, <2>1
  <2> QED BY <1>2, <1>5, <1>6, <1>7, <1>9, <2>1, <2>2
<1> QED BY <1>8, <1>9

\* The rows of a cache under the given keys.
RowsOf(g, S) == Engine!Restrict(g, S \cap DOMAIN g)

\* The caches f hold of the data of sig what is fetched for the rows, no more.
OnlyNeeded(f, sig, needs) ==
  /\ f.ma = RowsOf(sig.ma, needs.ma)
  /\ f.atr = RowsOf(sig.atr, needs.atr)
  /\ f.daily.stock = Engine!Recent(sig.daily.stock, needs.days)
  /\ f.daily.benchmark = Engine!Recent(sig.daily.benchmark, needs.days)
  /\ f.candles = sig.candles

\* A row kept from a cache says what the cache says.
LEMMA Restricted ==
  ASSUME NEW g, NEW S, NEW x \in S
  PROVE  /\ x \in DOMAIN RowsOf(g, S) <=> x \in DOMAIN g
         /\ x \in DOMAIN g => RowsOf(g, S)[x] = g[x]
BY DEF RowsOf, Engine!Restrict

LEMMA AveragesFetched ==
  ASSUME NEW f, NEW sig, NEW sel, NEW i \in 1..Len(sel),
         OnlyNeeded(f, sig, Engine!Requirements(sel)), sel[i].key = "SELL_MA_ALL"
  PROVE  Engine!SellMaAll(f, sel[i].params) <=> Engine!SellMaAll(sig, sel[i].params)
<1> DEFINE params == sel[i].params
<1>1. "conditions" \in DOMAIN params
        => params.conditions \subseteq Engine!Requirements(sel).ma
  BY DEF Engine!Requirements
<1>2. ASSUME "conditions" \in DOMAIN params, NEW c \in params.conditions
      PROVE  /\ c \in DOMAIN f.ma <=> c \in DOMAIN sig.ma
             /\ c \in DOMAIN sig.ma => f.ma[c] = sig.ma[c]
  BY <1>1, <1>2, Restricted DEF OnlyNeeded
<1> QED BY <1>2 DEF Engine!SellMaAll

LEMMA ExtensionsFetched ==
  ASSUME NEW f, NEW sig, NEW sel, NEW i \in 1..Len(sel),
         OnlyNeeded(f, sig, Engine!Requirements(sel)), sel[i].key \in Engine!ExtensionKeys,
         NEW pos, NEW threshold
  PROVE  Engine!Extended(pos, f, sel[i].params, threshold)
           <=> Engine!Extended(pos, sig, sel[i].params, threshold)
<1> DEFINE params == sel[i].params
<1>1. PICK m, r : /\ m = <<Engine!Interval(params), Engine!Setting(params, "sma_period", 2, 50)>>
                  /\ r = <<Engine!Interval(params), Engine!Setting(params, "atr_period", 2, 14)>>
  OBVIOUS
<1>2. Engine!ExtensionNeeds(params).ma = m /\ Engine!ExtensionNeeds(params).atr = r
  BY <1>1 DEF Engine!ExtensionNeeds
<1>3. m \in Engine!Requirements(sel).ma /\ r \in Engine!Requirements(sel).atr
  BY <1>2 DEF Engine!Requirements
<1>4. /\ m \in DOMAIN f.ma <=> m \in DOMAIN sig.ma
      /\ m \in DOMAIN sig.ma => f.ma[m] = sig.ma[m]
      /\ r \in DOMAIN f.atr <=> r \in DOMAIN sig.atr
      /\ r \in DOMAIN sig.atr => f.atr[r] = sig.atr[r]
  BY <1>3, Restricted DEF OnlyNeeded
<1> HIDE DEF params
<1> QED BY <1>1, <1>4 DEF Engine!Extended, params

\* No close of the ticker and of its benchmark is NULL.
Complete(sig) ==
  /\ sig.daily.stock \in Seq(Nat) /\ sig.daily.benchmark \in Seq(Nat)
  /\ \A i \in 1..Len(sig.daily.stock) : sig.daily.stock[i] > 0
  /\ \A i \in 1..Len(sig.daily.benchmark) : sig.daily.benchmark[i] > 0

LEMMA ReturnsFetched ==
  ASSUME NEW f, NEW sig, NEW sel \in Seq(Choice), NEW i \in 1..Len(sel), Complete(sig),
         OnlyNeeded(f, sig, Engine!Requirements(sel)),
         sel[i].key = "TRIM_RELATIVE_WEAKNESS_VS_SECTOR", NEW pos
  PROVE  Engine!RelativeWeakness(pos, f, sel[i].params)
           <=> Engine!RelativeWeakness(pos, sig, sel[i].params)
<1>1. PICK d \in Nat : d = Engine!LookbackDays(sel[i].params)
  BY DaysPositive
<1>2. PICK kept \in Nat : kept = Engine!Requirements(sel).days /\ d <= kept
  BY <1>1, DaysCovered
<1>3. /\ Engine!PeriodEnds(f.daily.stock, d) = Engine!PeriodEnds(sig.daily.stock, d)
      /\ Engine!PeriodEnds(f.daily.benchmark, d) = Engine!PeriodEnds(sig.daily.benchmark, d)
  BY <1>2, RecentSuffices DEF OnlyNeeded, Complete
<1> QED BY <1>1, <1>3 DEF Engine!RelativeWeakness

LEMMA NeededSuffices ==
  ASSUME NEW f, NEW sig, NEW sel \in Seq(Choice), Complete(sig),
         OnlyNeeded(f, sig, Engine!Requirements(sel)), NEW pos
  PROVE  Engine!Fired(pos, f, sel) = Engine!Fired(pos, sig, sel)
<1>1. ASSUME NEW i \in 1..Len(sel)
      PROVE  Engine!Fires(sel[i].key, pos, f, sel[i].params)
               <=> Engine!Fires(sel[i].key, pos, sig, sel[i].params)
  <2>1. f.candles = sig.candles
    BY DEF OnlyNeeded
  <2> QED BY <2>1, AveragesFetched, ExtensionsFetched, ReturnsFetched
          DEF Engine!Fires, Engine!TrimExtension, Engine!SellExtension, Engine!ExtensionKeys
<1>2. Engine!Candidates(sel) \subseteq 1..Len(sel)
  BY DEF Engine!Candidates
<1>3. {j \in Engine!Candidates(sel) : Engine!Fires(sel[j].key, pos, f, sel[j].params)}
        = {j \in Engine!Candidates(sel) : Engine!Fires(sel[j].key, pos, sig, sel[j].params)}
  BY <1>1, <1>2
<1> QED BY <1>3, Zenon DEF Engine!Fired

\* For every set of enabled rules and every content of the caches without a
\* NULL close: with what a refresh fetches for the rules the same rules fire as
\* with all there is, so no rule looks at a period or a day nobody asked for.
THEOREM RequirementsCover == RulesSpec => []RequirementsSuffice
<1>1. RulesTypeOK => RequirementsSuffice
  <2> SUFFICES ASSUME RulesTypeOK, NEW p \in Position
               PROVE  LET enabled == rules[position[p].investment_type]
                          needs   == Engine!Requirements(enabled)
                          fetched == [signals EXCEPT
                                        !.ma = Engine!Restrict(@, needs.ma \cap DOMAIN @),
                                        !.atr = Engine!Restrict(@, needs.atr \cap DOMAIN @),
                                        !.daily.stock = Engine!Recent(@, needs.days),
                                        !.daily.benchmark = Engine!Recent(@, needs.days)]
                      IN \/ \E s \in {"stock", "benchmark"} : 0 \in Engine!Range(signals.daily[s])
                         \/ Engine!Fired(position[p], fetched, enabled)
                              = Engine!Fired(position[p], signals, enabled)
    BY Zenon DEF RequirementsSuffice, Engine!RequirementsSuffice
  <2> DEFINE enabled == rules[position[p].investment_type]
             needs   == Engine!Requirements(enabled)
             fetched == [signals EXCEPT
                           !.ma = Engine!Restrict(@, needs.ma \cap DOMAIN @),
                           !.atr = Engine!Restrict(@, needs.atr \cap DOMAIN @),
                           !.daily.stock = Engine!Recent(@, needs.days),
                           !.daily.benchmark = Engine!Recent(@, needs.days)]
  <2> SUFFICES ASSUME 0 \notin Engine!Range(signals.daily.stock),
                      0 \notin Engine!Range(signals.daily.benchmark)
               PROVE  Engine!Fired(position[p], fetched, enabled)
                        = Engine!Fired(position[p], signals, enabled)
    OBVIOUS
  <2>1. /\ DOMAIN signals = {"ma", "atr", "daily", "candles"}
        /\ DOMAIN signals.daily = {"stock", "benchmark"}
        /\ signals.daily.stock \in Seq(Nat) /\ signals.daily.benchmark \in Seq(Nat)
    BY EngineSettings DEF RulesTypeOK, Engine!TypeOK, Engine!PortfolioAssumption
  <2>2. enabled \in Seq(Choice)
    BY EngineSettings DEF RulesTypeOK, Engine!TypeOK, Engine!PortfolioAssumption
  <2>3. Complete(signals)
    BY <2>1 DEF Complete, Engine!Range
  <2>4. OnlyNeeded(fetched, signals, needs)
    <3> HIDE DEF needs
    <3> QED BY <2>1 DEF OnlyNeeded, RowsOf
  <2> HIDE DEF fetched
  <2> QED BY <2>2, <2>3, <2>4, NeededSuffices
<1> QED BY <1>1, RulesTyped, PTL

-----------------------------------------------------------------------------
(* Lookbacks: the weeks a rule tells the bar cache to keep are enough.        *)

LEMMA LargestOfTwo ==
  ASSUME NEW a \in Int, NEW b \in Int
  PROVE  Largest({a, b}) = IF a >= b THEN a ELSE b
<1>1. \E m \in {a, b} : \A k \in {a, b} : m >= k
  <2>1. CASE a >= b
    BY <2>1
  <2>2. CASE b >= a
    BY <2>2
  <2> QED BY <2>1, <2>2
<1>2. Largest({a, b}) \in {a, b} /\ \A k \in {a, b} : Largest({a, b}) >= k
  BY <1>1, Zenon DEF Largest
<1> QED BY <1>2

\* history[:n] is the last n weeks, or all there are.
LEMMA LastWeeksAre ==
  ASSUME NEW S, NEW bars \in Seq(S), NEW n \in Nat \ {0}
  PROVE  /\ LastWeeks(bars, n) \in Seq(S)
         /\ Len(LastWeeks(bars, n)) = IF Len(bars) <= n THEN Len(bars) ELSE n
         /\ \A i \in 1..Len(LastWeeks(bars, n)) :
              LastWeeks(bars, n)[i] = bars[Len(bars) - Len(LastWeeks(bars, n)) + i]
<1>1. PICK a \in Nat \ {0} : /\ a = Largest({1, Len(bars) + 1 - n})
                             /\ a = IF Len(bars) <= n THEN 1 ELSE Len(bars) + 1 - n
  BY LargestOfTwo
<1>2. PICK n1 \in Nat : n1 = Len(bars) /\ a <= n1 + 1
  BY <1>1
<1>3. SubSeq(bars, a, n1) \in Seq(S) /\ Len(SubSeq(bars, a, n1)) = n1 + 1 - a
  BY <1>2
<1>4. ASSUME NEW i \in 1..n1 + 1 - a PROVE SubSeq(bars, a, n1)[i] = bars[n1 - (n1 + 1 - a) + i]
  <2>1. SubSeq(bars, a, n1)[i] = bars[a + i - 1]
    BY <1>2
  <2>2. a + i - 1 = n1 - (n1 + 1 - a) + i
    BY <1>2
  <2> QED BY <2>1, <2>2
<1>5. PICK w : w = LastWeeks(bars, n) /\ w = SubSeq(bars, a, n1)
  BY <1>1, <1>2 DEF LastWeeks
<1>6. Len(w) = n1 + 1 - a /\ w \in Seq(S) /\ \A i \in 1..Len(w) : w[i] = bars[n1 - Len(w) + i]
  BY <1>3, <1>4, <1>5
<1>7. Len(w) = IF n1 <= n THEN n1 ELSE n
  BY <1>1, <1>2, <1>6
<1> QED BY <1>2, <1>5, <1>6, <1>7

\* The last weeks of the last weeks.
LEMMA LastOfLast ==
  ASSUME NEW S, NEW bars \in Seq(S), NEW n \in Nat \ {0}, NEW m \in Nat \ {0}, n <= m
  PROVE  LastWeeks(LastWeeks(bars, m), n) = LastWeeks(bars, n)
<1>1. PICK w \in Seq(S) :
        /\ w = LastWeeks(bars, m)
        /\ Len(w) = IF Len(bars) <= m THEN Len(bars) ELSE m
        /\ \A i \in 1..Len(w) : w[i] = bars[Len(bars) - Len(w) + i]
  BY LastWeeksAre
<1>2. PICK u \in Seq(S) :
        /\ u = LastWeeks(w, n)
        /\ Len(u) = IF Len(w) <= n THEN Len(w) ELSE n
        /\ \A i \in 1..Len(u) : u[i] = w[Len(w) - Len(u) + i]
  BY LastWeeksAre
<1>3. PICK v \in Seq(S) :
        /\ v = LastWeeks(bars, n)
        /\ Len(v) = IF Len(bars) <= n THEN Len(bars) ELSE n
        /\ \A i \in 1..Len(v) : v[i] = bars[Len(bars) - Len(v) + i]
  BY LastWeeksAre
<1>4. Len(u) = Len(v)
  BY <1>1, <1>2, <1>3
<1>5. ASSUME NEW i \in 1..Len(u) PROVE u[i] = v[i]
  <2>1. Len(w) - Len(u) + i \in 1..Len(w)
    BY <1>2
  <2>2. u[i] = bars[Len(bars) - Len(w) + (Len(w) - Len(u) + i)]
    BY <1>1, <1>2, <2>1
  <2>3. Len(bars) - Len(w) + (Len(w) - Len(u) + i) = Len(bars) - Len(v) + i
    BY <1>4
  <2> QED BY <1>3, <1>4, <2>2, <2>3
<1>6. u = v
  BY <1>4, <1>5
<1> QED BY <1>1, <1>2, <1>3, <1>6

\* A parameter that may not be zero is positive, stored or not.
LEMMA ParamPositive ==
  ASSUME NEW s \in Study, NEW name \in DOMAIN Default \ MayBeZero
  PROVE  Param(s.params, name) \in Nat \ {0}
<1>1. Default[name] \in Nat \ {0}
  BY DEF Default, MayBeZero
<1>2. name \in DOMAIN s.params => s.params[name] \in Int
  BY StudyAssumption
<1> QED BY <1>1, <1>2 DEF Param

LEMMA LookbacksSuffice ==
  ASSUME NEW s \in Study, NEW bars \in Seq(s.candles)
  PROVE  Fires(s, LastWeeks(bars, LookbackWeeks(s.rule, s.params))) = Fires(s, bars)
<1> DEFINE p == s.params
           kept == LastWeeks(bars, LookbackWeeks(s.rule, p))
<1>1. CASE s.rule = "wick"
  <2>1. PICK n \in Nat \ {0} : n = Param(p, "lookback_high_weeks")
    BY ParamPositive DEF Default, MayBeZero
  <2>2. kept = LastWeeks(bars, n)
    BY <1>1, <2>1 DEF LookbackWeeks
  <2>3. LastWeeks(kept, n) = LastWeeks(bars, n)
    BY <2>2, LastOfLast
  <2>4. kept \in Seq(s.candles) /\ (kept = <<>> <=> bars = <<>>)
    BY <2>2, LastWeeksAre
  <2>5. bars # <<>> => kept[Len(kept)] = bars[Len(bars)]
    BY <2>2, LastWeeksAre
  <2> HIDE DEF kept
  <2>6. UpperWick(kept, p) = UpperWick(bars, p)
    <3>1. CASE bars = <<>>
      BY <2>4, <3>1 DEF UpperWick
    <3>2. CASE bars # <<>>
      BY <2>1, <2>3, <2>4, <2>5, <3>2, Zenon DEF UpperWick
    <3> QED BY <3>1, <3>2
  <2> QED BY <1>1, <2>6 DEF Fires, kept
<1>2. CASE s.rule = "cluster"
  <2>1. PICK n \in Nat \ {0}, k \in Nat \ {0} :
          n = Param(p, "baseline_lookback_weeks") /\ k = Param(p, "cluster_window_weeks")
    BY ParamPositive DEF Default, MayBeZero
  <2>2. PICK m \in Nat \ {0} : m = Largest({n, k}) /\ n <= m /\ k <= m
    BY LargestOfTwo
  <2>3. kept = LastWeeks(bars, m)
    BY <1>2, <2>1, <2>2 DEF LookbackWeeks
  <2>4. LastWeeks(kept, n) = LastWeeks(bars, n) /\ LastWeeks(kept, k) = LastWeeks(bars, k)
    BY <2>2, <2>3, LastOfLast
  <2> HIDE DEF kept
  <2>5. Hits(kept, p) = Hits(bars, p)
    BY <2>1, <2>4, Zenon DEF Hits
  <2> QED BY <1>2, <2>5 DEF Fires, TrimCluster, SellCluster, kept
<1>3. CASE s.rule = "reversal"
  <2>1. PICK n \in Nat \ {0} : n = Param(p, "lookback_weeks")
    BY ParamPositive DEF Default, MayBeZero
  <2>2. kept = LastWeeks(bars, n)
    BY <1>3, <2>1 DEF LookbackWeeks
  <2>3. LastWeeks(kept, n) = LastWeeks(bars, n)
    BY <2>2, LastOfLast
  <2> HIDE DEF kept
  <2>4. ReversalWindow(kept, p) = ReversalWindow(bars, p)
    BY <2>1, <2>3 DEF ReversalWindow
  <2>5. LowerHigh(kept, p) = LowerHigh(bars, p)
    BY <2>4, Zenon DEF LowerHigh
  <2>6. LowerHighLowerLow(kept, p) = LowerHighLowerLow(bars, p)
    BY <2>4, <2>5, Zenon DEF LowerHighLowerLow
  <2> QED BY <1>3, <2>5, <2>6 DEF Fires, TrimFirstLowerHigh, SellLowerHighLowerLow, kept
<1>4. CASE s.rule = "breakout"
  <2>1. PICK n \in Nat \ {0} : n = Param(p, "breakout_lookback_weeks")
    BY ParamPositive DEF Default, MayBeZero
  <2>2. kept = LastWeeks(bars, n)
    BY <1>4, <2>1 DEF LookbackWeeks
  <2>3. LastWeeks(kept, n) = LastWeeks(bars, n)
    BY <2>2, LastOfLast
  <2> HIDE DEF kept
  <2>4. SellFailedBreakout(kept, p, s.levels) = SellFailedBreakout(bars, p, s.levels)
    BY <2>1, <2>3, Zenon DEF SellFailedBreakout
  <2> QED BY <1>4, <2>4 DEF Fires, kept
<1> QED BY <1>1, <1>2, <1>3, <1>4, StudyAssumption

\* For every history, every parameter and every rule on candles: with the weeks
\* get_*_lookback_weeks asks the cache to keep, the rule says what it says with
\* all weeks ever seen, so pruning the cache never changes a verdict.
THEOREM LookbacksCover == RulesSpec => []LookbackSuffices
<1>1. RulesTypeOK => LookbackSuffices
  BY LookbacksSuffice DEF RulesTypeOK, TypeOK, LookbackSuffices
<1> QED BY <1>1, RulesTyped, PTL

-----------------------------------------------------------------------------
(* A week more: what a new week changes in a window that only grows.          *)

\* next is bars and one week after it.
Grown(bars, next, n) ==
  /\ n \in Nat /\ Len(bars) = n /\ Len(next) = n + 1
  /\ \A i \in 1..n : next[i] = bars[i]

\* A window that has not been left holds every week.
LEMMA AllWeeks ==
  ASSUME NEW S, NEW bars \in Seq(S), NEW n \in Nat \ {0}, Len(bars) <= n
  PROVE  LastWeeks(bars, n) = bars
<1>1. PICK w \in Seq(S) :
        /\ w = LastWeeks(bars, n)
        /\ Len(w) = Len(bars)
        /\ \A i \in 1..Len(w) : w[i] = bars[Len(bars) - Len(w) + i]
  BY LastWeeksAre
<1>2. \A i \in 1..Len(w) : w[i] = bars[i]
  BY <1>1
<1> QED BY <1>1, <1>2

LEMMA LeastIs ==
  ASSUME NEW S \in SUBSET Nat, S # {}
  PROVE  Least(S) \in S /\ \A k \in S : Least(S) <= k
<1>1. \E m \in S : \A k \in S : m <= k
  BY SmallestOf
<1> QED BY <1>1, Zenon DEF Least

LEMMA LeastOfTwo ==
  ASSUME NEW a \in Nat, NEW b \in Nat
  PROVE  Least({a, b}) = IF a <= b THEN a ELSE b
<1>1. \E m \in {a, b} : \A k \in {a, b} : m <= k
  <2>1. CASE a <= b
    BY <2>1
  <2>2. CASE b <= a
    BY <2>2
  <2> QED BY <2>1, <2>2
<1>2. Least({a, b}) \in {a, b} /\ \A k \in {a, b} : Least({a, b}) <= k
  BY <1>1, Zenon DEF Least
<1> QED BY <1>2

\* A span that ends before the last week but one is a span with the new week.
LEMMA SpansStay ==
  ASSUME NEW bars, NEW next, NEW n, Grown(bars, next, n), NEW level,
         NEW a \in 1..n, NEW b \in 1..n, b < n
  PROVE  <<a, b>> \in BreakoutSpans(bars, level) <=> <<a, b>> \in BreakoutSpans(next, level)
BY DEF Grown, BreakoutSpans, Above

LEMMA FailuresStay ==
  ASSUME NEW bars, NEW next, NEW n, Grown(bars, next, n), NEW p, NEW level, NEW b \in Nat, NEW j
  PROVE  j \in FailureWeeks(bars, p, level, b)
           <=> j \in FailureWeeks(next, p, level, b) /\ j <= n
BY DEF Grown, FailureWeeks, Below

\* A breakout that ended in week b is lost, and an attempt to reclaim it fails.
Lost(bars, p, level, b) ==
  LET failures == FailureWeeks(bars, p, level, b)
  IN /\ failures # {}
     /\ \E k \in ReclaimWeeks(bars, p, Least(failures)) : FailedReclaim(bars[k], p, level)

LEMMA ReclaimWeeksAre ==
  ASSUME NEW s \in Study, NEW bars, Len(bars) \in Nat, NEW f \in Nat
  PROVE  \A k : k \in ReclaimWeeks(bars, s.params, f)
                  <=> /\ k \in Nat /\ k > f /\ k <= Len(bars)
                      /\ k <= f + Param(s.params, "reclaim_window_weeks")
<1>1. PICK r \in Nat : r = Param(s.params, "reclaim_window_weeks")
  BY ParamPositive DEF Default, MayBeZero
<1>2. Least({f + r, Len(bars)}) = IF f + r <= Len(bars) THEN f + r ELSE Len(bars)
  BY LeastOfTwo
<1> QED BY <1>1, <1>2 DEF ReclaimWeeks

\* A new week takes nothing back; when it completes the rule it is the failed
\* attempt, and the level was lost before it.
LEMMA LostGrows ==
  ASSUME NEW s \in Study, NEW bars, NEW next, NEW n, Grown(bars, next, n),
         NEW level, NEW b \in Nat
  PROVE  /\ Lost(bars, s.params, level, b) => Lost(next, s.params, level, b)
         /\ Lost(next, s.params, level, b) /\ ~Lost(bars, s.params, level, b)
              => /\ FailedReclaim(next[n + 1], s.params, level)
                 /\ \E j \in b + 1 .. n : j \in FailureWeeks(bars, s.params, level, b)
<1> DEFINE p == s.params
           F == FailureWeeks(bars, p, level, b)
           G == FailureWeeks(next, p, level, b)
           r == Param(p, "reclaim_window_weeks")
<1>1. n \in Nat /\ Len(bars) = n /\ Len(next) = n + 1 /\ \A i \in 1..n : next[i] = bars[i]
  BY DEF Grown
<1>2. F \in SUBSET Nat /\ G \in SUBSET Nat /\ (\A j \in F : j >= b + 1 /\ j <= n)
      /\ \A j \in G : j >= b + 1 /\ j <= n + 1
  BY <1>1 DEF FailureWeeks
<1>3. \A j : j \in F <=> j \in G /\ j <= n
  BY FailuresStay
<1>4. \A f \in Nat : \A k : k \in ReclaimWeeks(bars, p, f)
                              <=> k \in Nat /\ k > f /\ k <= n /\ k <= f + r
  BY <1>1, ReclaimWeeksAre
<1>5. \A f \in Nat : \A k : k \in ReclaimWeeks(next, p, f)
                              <=> k \in Nat /\ k > f /\ k <= n + 1 /\ k <= f + r
  BY <1>1, ReclaimWeeksAre
<1> HIDE DEF F, G, r
<1>6. F # {} => Least(F) \in F /\ \A k \in F : Least(F) <= k
  BY <1>2, LeastIs
<1>7. G # {} => Least(G) \in G /\ \A k \in G : Least(G) <= k
  BY <1>2, LeastIs
<1>8. F # {} => G # {} /\ Least(G) = Least(F)
  <2> SUFFICES ASSUME F # {} PROVE G # {} /\ Least(G) = Least(F)
    OBVIOUS
  <2>1. G # {} /\ Least(F) \in G
    BY <1>3, <1>6
  <2>2. PICK x \in Nat, y \in Nat : x = Least(F) /\ y = Least(G)
    BY <1>2, <1>6, <1>7, <2>1
  <2>3. x \in F /\ x <= n /\ y \in G /\ y <= x
    BY <1>2, <1>6, <1>7, <2>1, <2>2
  <2>4. y \in F
    BY <1>1, <1>3, <2>3
  <2>5. x <= y
    BY <1>6, <2>2, <2>4
  <2> QED BY <2>1, <2>2, <2>3, <2>5
<1>9. Lost(bars, p, level, b)
        <=> F # {} /\ \E k \in ReclaimWeeks(bars, p, Least(F)) : FailedReclaim(bars[k], p, level)
  BY Zenon DEF Lost, F
<1>10. Lost(next, p, level, b)
        <=> G # {} /\ \E k \in ReclaimWeeks(next, p, Least(G)) : FailedReclaim(next[k], p, level)
  BY Zenon DEF Lost, G
<1>11. ASSUME Lost(bars, p, level, b) PROVE Lost(next, p, level, b)
  <2>1. PICK k \in ReclaimWeeks(bars, p, Least(F)) : F # {} /\ FailedReclaim(bars[k], p, level)
    BY <1>9, <1>11
  <2>2. Least(F) \in Nat
    BY <1>2, <1>6, <2>1
  <2>3. k \in ReclaimWeeks(next, p, Least(G)) /\ k \in 1..n
    BY <1>1, <1>4, <1>5, <1>8, <2>1, <2>2
  <2> QED BY <1>1, <1>8, <1>10, <2>1, <2>3
<1>12. ASSUME Lost(next, p, level, b), ~Lost(bars, p, level, b)
       PROVE  FailedReclaim(next[n + 1], p, level) /\ \E j \in b + 1 .. n : j \in F
  <2>1. PICK k \in ReclaimWeeks(next, p, Least(G)) : G # {} /\ FailedReclaim(next[k], p, level)
    BY <1>10, <1>12
  <2>2. Least(G) \in Nat /\ Least(G) \in G
    BY <1>2, <1>7, <2>1
  <2>3. k \in Nat /\ k > Least(G) /\ k <= n + 1 /\ k <= Least(G) + r
    BY <1>5, <2>1, <2>2
  <2>4. Least(G) \in F /\ Least(G) \in b + 1 .. n
    BY <1>1, <1>2, <1>3, <2>2, <2>3
  <2>5. k = n + 1
    <3> SUFFICES ASSUME k <= n PROVE FALSE
      BY <1>1, <2>3
    <3>1. k \in ReclaimWeeks(bars, p, Least(F)) /\ k \in 1..n /\ F # {}
      <4>1. Least(F) = Least(G)
        BY <1>8, <2>4
      <4>2. k \in ReclaimWeeks(bars, p, Least(G))
        BY <1>4, <2>2, <2>3
      <4> QED BY <1>1, <2>2, <2>3, <2>4, <4>1, <4>2
    <3> QED BY <1>1, <1>9, <1>12, <2>1, <3>1
  <2> QED BY <2>1, <2>4, <2>5
<1> QED BY <1>11, <1>12 DEF F

LEMMA ParamNatural ==
  ASSUME NEW s \in Study, NEW name \in DOMAIN Default
  PROVE  Param(s.params, name) \in Nat
<1>1. Default[name] \in Nat
  BY DEF Default
<1>2. name \in DOMAIN s.params => s.params[name] \in Int
  BY StudyAssumption
<1> QED BY <1>1, <1>2 DEF Param

\* A close below a level less its buffer is not above the level.
LEMMA BelowLevel ==
  ASSUME NEW bar, bar.close \in Nat, NEW level \in Nat, NEW buffer \in Nat,
         Below(bar, level, buffer)
  PROVE  bar.close \in 1..level
<1>1. PICK c \in Nat : c = bar.close
  OBVIOUS
<1>2. c > 0 /\ c * 1000 <= level * (1000 - buffer)
  BY <1>1 DEF Below
<1>3. level * buffer \in Nat
  OBVIOUS
<1>4. level * (1000 - buffer) = level * 1000 - level * buffer
  OBVIOUS
<1>5. c * 1000 <= level * 1000
  BY <1>2, <1>3, <1>4
<1> QED BY <1>1, <1>2, <1>5

LEMMA FailedBreakoutIs ==
  ASSUME NEW bars, NEW p, NEW level
  PROVE  FailedBreakout(bars, p, level)
           <=> \E span \in BreakoutSpans(bars, level) :
                 /\ span[2] - span[1] + 1 >= Param(p, "breakout_confirm_weeks")
                 /\ Lost(bars, p, level, span[2])
BY Zenon DEF FailedBreakout, Lost

\* A level that is lost was lost after the breakout.
LEMMA LostAfter ==
  ASSUME NEW bars, Len(bars) \in Nat, NEW p, NEW level, NEW b \in Nat, Lost(bars, p, level, b)
  PROVE  b < Len(bars)
BY DEF Lost, FailureWeeks

LEMMA BreakoutGrows ==
  ASSUME NEW s \in Study, NEW bars, NEW next, NEW n, Grown(bars, next, n), NEW level
  PROVE  /\ FailedBreakout(bars, s.params, level) => FailedBreakout(next, s.params, level)
         /\ FailedBreakout(next, s.params, level) /\ ~FailedBreakout(bars, s.params, level)
              => /\ FailedReclaim(next[n + 1], s.params, level)
                 /\ \E b \in 1..n : /\ Above(bars[b], level)
                                    /\ \E j \in b + 1 .. n :
                                         j \in FailureWeeks(bars, s.params, level, b)
<1> DEFINE p == s.params
<1>1. n \in Nat /\ Len(bars) = n /\ Len(next) = n + 1 /\ \A i \in 1..n : next[i] = bars[i]
  BY DEF Grown
<1>2. ASSUME FailedBreakout(bars, p, level) PROVE FailedBreakout(next, p, level)
  <2>1. PICK span \in BreakoutSpans(bars, level) :
          /\ span[2] - span[1] + 1 >= Param(p, "breakout_confirm_weeks")
          /\ Lost(bars, p, level, span[2])
    BY <1>2, FailedBreakoutIs
  <2>2. PICK a \in 1..n, b \in 1..n : span = <<a, b>>
    BY <1>1 DEF BreakoutSpans
  <2>3. b < n
    BY <1>1, <2>1, <2>2, LostAfter
  <2>4. span \in BreakoutSpans(next, level)
    BY <2>1, <2>2, <2>3, SpansStay
  <2>5. Lost(next, p, level, span[2])
    BY <2>1, <2>2, LostGrows
  <2> QED BY <2>1, <2>4, <2>5, FailedBreakoutIs
<1>3. ASSUME FailedBreakout(next, p, level), ~FailedBreakout(bars, p, level)
      PROVE  /\ FailedReclaim(next[n + 1], p, level)
             /\ \E b \in 1..n : /\ Above(bars[b], level)
                                /\ \E j \in b + 1 .. n : j \in FailureWeeks(bars, p, level, b)
  <2>1. PICK span \in BreakoutSpans(next, level) :
          /\ span[2] - span[1] + 1 >= Param(p, "breakout_confirm_weeks")
          /\ Lost(next, p, level, span[2])
    BY <1>3, FailedBreakoutIs
  <2>2. PICK a \in 1..n + 1, b \in 1..n + 1 :
          span = <<a, b>> /\ a <= b /\ \A i \in a..b : Above(next[i], level)
    BY <1>1, <2>1 DEF BreakoutSpans
  <2>3. ~Lost(bars, p, level, b)
    <3> SUFFICES ASSUME Lost(bars, p, level, b) PROVE FALSE
      OBVIOUS
    <3>1. b < n
      BY <1>1, <2>2, LostAfter
    <3>2. span \in BreakoutSpans(bars, level)
      <4>1. a \in 1..n /\ b \in 1..n
        BY <1>1, <2>2, <3>1
      <4> QED BY <2>1, <2>2, <3>1, <4>1, SpansStay
    <3> QED BY <1>3, <2>1, <2>2, <3>2, FailedBreakoutIs
  <2>4. /\ FailedReclaim(next[n + 1], p, level)
        /\ \E j \in b + 1 .. n : j \in FailureWeeks(bars, p, level, b)
    <3>1. Lost(next, p, level, b) /\ b \in Nat
      BY <2>1, <2>2
    <3> QED BY <2>3, <3>1, LostGrows
  <2>5. b \in 1..n /\ Above(bars[b], level)
    <3>1. b \in 1..n
      BY <1>1, <2>2, <2>4
    <3> QED BY <1>1, <2>2, <3>1
  <2> QED BY <2>4, <2>5
<1> QED BY <1>2, <1>3

LEMMA BreakoutStep ==
  ASSUME TypeOK, NewWeek, study.rule = "breakout",
         Len(weeks') <= Param(study.params, "breakout_lookback_weeks")
  PROVE  BreakoutSellOnReclaim
<1> DEFINE sells(bars) == SellFailedBreakout(bars, study.params, study.levels)
<1>1. PICK bar \in study.candles : weeks' = Append(weeks, bar)
  BY DEF NewWeek
<1>2. PICK n \in Nat : n = Len(weeks) /\ Len(weeks') = n + 1
  BY <1>1 DEF TypeOK
<1>3. Grown(weeks, weeks', n)
  BY <1>1, <1>2 DEF TypeOK, Grown
<1>4. PICK L \in Nat \ {0} : L = Param(study.params, "breakout_lookback_weeks")
  BY ParamPositive DEF TypeOK, Default, MayBeZero
<1>5. LastWeeks(weeks, L) = weeks /\ LastWeeks(weeks', L) = weeks'
  <2>1. weeks \in Seq(study.candles) /\ weeks' \in Seq(study.candles)
    BY <1>1 DEF TypeOK
  <2>2. Len(weeks) <= L /\ Len(weeks') <= L
    BY <1>2, <1>4
  <2> QED BY <2>1, <2>2, AllWeeks
<1>6. /\ sells(weeks) <=> \E level \in ActiveLevels(study.levels) :
                            FailedBreakout(weeks, study.params, level)
      /\ sells(weeks') <=> \E level \in ActiveLevels(study.levels) :
                             FailedBreakout(weeks', study.params, level)
  BY <1>4, <1>5 DEF SellFailedBreakout
<1> HIDE DEF sells
<1>7. sells(weeks) => sells(weeks')
  BY <1>3, <1>6, BreakoutGrows DEF TypeOK
<1>8. ASSUME ~sells(weeks), sells(weeks')
      PROVE  \E level \in ActiveLevels(study.levels) :
               /\ weeks'[Len(weeks')].high >= level
               /\ \E i \in 1..Len(weeks) : \E j \in i + 1 .. Len(weeks) :
                    weeks[i].close > level /\ weeks[j].close \in 1..level
  <2>1. PICK level \in ActiveLevels(study.levels) :
          FailedBreakout(weeks', study.params, level) /\ ~FailedBreakout(weeks, study.params, level)
    BY <1>6, <1>8
  <2>2. FailedReclaim(weeks'[n + 1], study.params, level)
        /\ \E b \in 1..n : Above(weeks[b], level)
             /\ \E j \in b + 1 .. n : j \in FailureWeeks(weeks, study.params, level, b)
    BY <1>3, <2>1, BreakoutGrows DEF TypeOK
  <2>3. weeks'[Len(weeks')].high >= level
    BY <1>2, <2>2 DEF FailedReclaim
  <2>4. PICK i \in 1..n, j \in 1..n :
          i < j /\ Above(weeks[i], level) /\ j \in FailureWeeks(weeks, study.params, level, i)
    BY <2>2
  <2>5. PICK b \in Nat : b = Param(study.params, "failure_buffer_pct")
    BY ParamNatural DEF TypeOK, Default
  <2>6. Below(weeks[j], level, b)
    BY <2>4, <2>5 DEF FailureWeeks
  <2>7. level \in Nat
    BY StudyAssumption DEF TypeOK, ActiveLevels
  <2>8. weeks[j].close \in Nat
    <3>1. weeks[j] \in study.candles
      BY <1>2, <2>4 DEF TypeOK
    <3>2. weeks[j] \in [open : Nat, high : Nat, low : Nat, close : Nat, volume : Nat]
      BY <3>1, StudyAssumption DEF TypeOK
    <3> QED BY <3>2
  <2>9. weeks[j].close \in 1..level
    BY <2>6, <2>7, <2>8, BelowLevel
  <2> QED BY <1>2, <2>3, <2>4, <2>9 DEF Above
<1> QED BY <1>7, <1>8 DEF BreakoutSellOnReclaim, sells

\* While the window grows, the SELL of the failed breakout starts only in a
\* week that reaches a key level and closes below it, after an earlier week
\* broke out and another lost the level; and no new week withdraws it.
THEOREM BreakoutByAttempt == RulesSpec => BreakoutConfirmed
<1>1. RulesTypeOK /\ [RulesNext]_<<part, vars, engineVars>> => [BreakoutSellOnReclaim]_vars
  <2> SUFFICES ASSUME RulesTypeOK, [RulesNext]_<<part, vars, engineVars>>, ~UNCHANGED vars
               PROVE  BreakoutSellOnReclaim
    OBVIOUS
  <2>1. TypeOK /\ NewWeek
    BY Halves DEF RulesTypeOK, Next, Over
  <2>2. CASE /\ study.rule = "breakout"
             /\ Len(weeks') <= Param(study.params, "breakout_lookback_weeks")
    BY <2>1, <2>2, BreakoutStep
  <2>3. CASE ~(/\ study.rule = "breakout"
               /\ Len(weeks') <= Param(study.params, "breakout_lookback_weeks"))
    BY <2>3 DEF BreakoutSellOnReclaim
  <2> QED BY <2>2, <2>3
<1> QED BY <1>1, RulesTyped, PTL DEF RulesSpec, BreakoutConfirmed

-----------------------------------------------------------------------------
(* Swings: a new week completes the right-hand side of one week at most.      *)

\* The high, or the low, of week c stands out from the weeks around it.
StandsOut(bars, l, r, c) ==
  \/ \A j \in (c - l .. c + r) \ {c} : bars[j].high < bars[c].high
  \/ \A j \in (c - l .. c + r) \ {c} : bars[j].low > bars[c].low

HighAt(bars, l, r, i) ==
  /\ Priced(bars[i])
  /\ \A j \in (i - l .. i + r) \ {i} : Priced(bars[j]) /\ bars[j].high < bars[i].high

LowAt(bars, l, r, i) ==
  /\ Priced(bars[i])
  /\ \A j \in (i - l .. i + r) \ {i} : Priced(bars[j]) /\ bars[j].low > bars[i].low

\* The week that gets its last neighbour is a swing.
Completes(next, l, r, c) == c > l /\ (HighAt(next, l, r, c) \/ LowAt(next, l, r, c))

LEMMA SwingsAre ==
  ASSUME NEW bars, NEW n \in Nat, Len(bars) = n, NEW p,
         NEW l \in Nat, l = Param(p, "pivot_left"), NEW r \in Nat, r = Param(p, "pivot_right")
  PROVE  /\ SwingHighs(bars, p) = {i \in l + 1 .. n - r : HighAt(bars, l, r, i)}
         /\ SwingLows(bars, p) = {i \in l + 1 .. n - r : LowAt(bars, l, r, i)}
<1>1. /\ DOMAIN Around(bars, p) = l + 1 .. n - r
      /\ \A i \in l + 1 .. n - r : Around(bars, p)[i] = (i - l .. i + r) \ {i}
  BY DEF Around
<1> QED BY <1>1 DEF SwingHighs, SwingLows, HighAt, LowAt

LEMMA SwingsStay ==
  ASSUME NEW bars, NEW next, NEW n, Grown(bars, next, n), NEW p,
         NEW l \in Nat, l = Param(p, "pivot_left"), NEW r \in Nat, r = Param(p, "pivot_right"),
         ~Completes(next, l, r, n + 1 - r)
  PROVE  /\ SwingHighs(next, p) = SwingHighs(bars, p)
         /\ SwingLows(next, p) = SwingLows(bars, p)
<1>1. n \in Nat /\ Len(bars) = n /\ Len(next) = n + 1 /\ \A i \in 1..n : next[i] = bars[i]
  BY DEF Grown
<1>2. ASSUME NEW i \in l + 1 .. n - r
      PROVE  /\ HighAt(next, l, r, i) <=> HighAt(bars, l, r, i)
             /\ LowAt(next, l, r, i) <=> LowAt(bars, l, r, i)
  <2>1. i \in 1..n /\ \A j \in i - l .. i + r : j \in 1..n
    BY <1>1
  <2>2. next[i] = bars[i] /\ \A j \in i - l .. i + r : next[j] = bars[j]
    BY <1>1, <2>1
  <2> QED BY <2>2 DEF HighAt, LowAt
<1>3. PICK m \in Nat, c \in Int : m = n + 1 /\ c = m - r
  BY <1>1
<1>4. c > l => ~HighAt(next, l, r, c) /\ ~LowAt(next, l, r, c)
  <2>1. c = n + 1 - r
    BY <1>1, <1>3
  <2> QED BY <2>1, Zenon DEF Completes
<1>5. \A i \in l + 1 .. m - r : i \in l + 1 .. n - r \/ (i = c /\ c > l)
  BY <1>1, <1>3
<1>6. \A i \in l + 1 .. n - r : i \in l + 1 .. m - r
  BY <1>1, <1>3
<1>7. {i \in l + 1 .. m - r : HighAt(next, l, r, i)} = {i \in l + 1 .. n - r : HighAt(bars, l, r, i)}
  BY <1>2, <1>4, <1>5, <1>6
<1>8. {i \in l + 1 .. m - r : LowAt(next, l, r, i)} = {i \in l + 1 .. n - r : LowAt(bars, l, r, i)}
  BY <1>2, <1>4, <1>5, <1>6
<1>9. /\ SwingHighs(bars, p) = {i \in l + 1 .. n - r : HighAt(bars, l, r, i)}
      /\ SwingLows(bars, p) = {i \in l + 1 .. n - r : LowAt(bars, l, r, i)}
  BY <1>1, SwingsAre
<1>10. /\ SwingHighs(next, p) = {i \in l + 1 .. m - r : HighAt(next, l, r, i)}
       /\ SwingLows(next, p) = {i \in l + 1 .. m - r : LowAt(next, l, r, i)}
  BY <1>1, <1>3, SwingsAre
<1> QED BY <1>7, <1>8, <1>9, <1>10

\* Among two swings there are a latest and a previous one.
LEMMA TwoSwings ==
  ASSUME NEW n \in Nat, NEW S \in SUBSET (1..n), Cardinality(S) >= 2
  PROVE  Latest(S) \in S /\ Previous(S) \in S
<1>1. IsFiniteSet(S) /\ Cardinality(S) \in Nat
  <2>1. PICK a \in Int : a = 1
    OBVIOUS
  <2>2. IsFiniteSet(a..n)
    BY FS_Interval
  <2> QED BY <2>1, <2>2, FS_Subset, FS_CardinalityType
<1>2. ASSUME NEW T \in SUBSET S, T # {} PROVE Largest(T) \in T
  <2>1. PICK U \in SUBSET Int : U = T
    OBVIOUS
  <2>2. U # {} /\ n \in Int /\ \A k \in U : k <= n
    BY <1>2, <2>1
  <2>3. \E m \in U : \A k \in U : k <= m
    BY <2>2, LargestOf, Zenon
  <2>4. \E m \in T : \A k \in T : m >= k
    BY <2>1, <2>3
  <2> QED BY <2>4, Zenon DEF Largest
<1>3. S # {}
  BY <1>1, FS_EmptySet
<1>4. Largest(S) \in S
  BY <1>2, <1>3
<1>5. PICK x \in S : x = Largest(S)
  BY <1>4
<1>6. S \ {x} # {}
  <2>1. IsFiniteSet(S \ {x}) /\ Cardinality(S \ {x}) = Cardinality(S) - 1
    BY <1>1, FS_RemoveElement
  <2>2. Cardinality(S \ {x}) # 0
    BY <1>1, <2>1
  <2> QED BY <2>1, <2>2, FS_EmptySet
<1>7. Largest(S \ {x}) \in S \ {x}
  BY <1>2, <1>6
<1> QED BY <1>4, <1>5, <1>7 DEF Latest, Previous

LEMMA OneSwing ==
  ASSUME NEW a \in Int, NEW S \in SUBSET {a}
  PROVE  ~(Cardinality(S) >= 2)
<1>1. Cardinality({}) = 0 /\ Cardinality({a}) = 1
  BY FS_EmptySet, FS_Singleton
<1>2. S = {} \/ S = {a}
  OBVIOUS
<1>3. CASE S = {}
  BY <1>1, <1>3
<1>4. CASE S = {a}
  BY <1>1, <1>4
<1> QED BY <1>2, <1>3, <1>4

\* In two windows that agree on the first n weeks and have their swings among
\* them, a lower high and a lower low are the same.
LEMMA SameReversal ==
  ASSUME NEW s \in Study, NEW bars \in Seq(s.candles), NEW next \in Seq(s.candles),
         NEW n, Grown(bars, next, n),
         n + 1 <= Param(s.params, "lookback_weeks"),
         NEW l \in Nat, l = Param(s.params, "pivot_left"),
         NEW r \in Nat, r = Param(s.params, "pivot_right"),
         ~Completes(next, l, r, n + 1 - r)
  PROVE  /\ LowerHigh(bars, s.params) = LowerHigh(next, s.params)
         /\ LowerHighLowerLow(bars, s.params) = LowerHighLowerLow(next, s.params)
<1> DEFINE p == s.params
<1>1. n \in Nat /\ Len(bars) = n /\ Len(next) = n + 1 /\ \A i \in 1..n : next[i] = bars[i]
  BY DEF Grown
<1>2. ReversalWindow(bars, p) = bars /\ ReversalWindow(next, p) = next
  <2>1. PICK k \in Nat \ {0} : k = Param(p, "lookback_weeks")
    BY ParamPositive DEF Default, MayBeZero
  <2>2. Len(bars) <= k /\ Len(next) <= k
    BY <1>1, <2>1
  <2> QED BY <2>1, <2>2, AllWeeks DEF ReversalWindow
<1>3. PICK H, L : /\ H = SwingHighs(bars, p) /\ H = SwingHighs(next, p)
                  /\ L = SwingLows(bars, p) /\ L = SwingLows(next, p)
  BY SwingsStay
<1>4. H \in SUBSET (l + 1 .. n - r) /\ L \in SUBSET (l + 1 .. n - r)
  <2>1. /\ SwingHighs(bars, p) = {i \in l + 1 .. n - r : HighAt(bars, l, r, i)}
        /\ SwingLows(bars, p) = {i \in l + 1 .. n - r : LowAt(bars, l, r, i)}
    BY <1>1, SwingsAre
  <2> QED BY <1>3, <2>1
<1>5. H \in SUBSET (1..n) /\ L \in SUBSET (1..n)
  BY <1>1, <1>4
<1>6. Cardinality(H) >= 2 => Latest(H) \in 1..n /\ Previous(H) \in 1..n
  BY <1>1, <1>5, TwoSwings
<1>7. Cardinality(L) >= 2 => Latest(L) \in 1..n /\ Previous(L) \in 1..n
  BY <1>1, <1>5, TwoSwings
<1>8. Cardinality(H) >= 2 => (n >= l + r + 2 <=> n + 1 >= l + r + 2)
  <2> SUFFICES ASSUME n + 1 = l + r + 2 PROVE ~(Cardinality(H) >= 2)
    BY <1>1
  <2>1. PICK a \in Int : a = l + 1
    OBVIOUS
  <2>2. H \in SUBSET {a}
    BY <1>1, <1>4, <2>1
  <2> QED BY <2>2, OneSwing
<1>9. Cardinality(H) >= 3 => Cardinality(H) >= 2
  <2>1. Cardinality(H) \in Nat
    <3>1. PICK a \in Int : a = 1
      OBVIOUS
    <3>2. IsFiniteSet(a..n)
      BY <1>1, FS_Interval
    <3> QED BY <1>5, <3>1, <3>2, FS_Subset, FS_CardinalityType
  <2> QED BY <2>1
<1>10. PriorUptrend(bars, H) <=> PriorUptrend(next, H)
  <2>1. Cardinality(H) >= 3 => Previous(H) \in 1..n
    BY <1>6, <1>9
  <2> QED BY <1>1, <1>5, <2>1 DEF PriorUptrend
<1>11. LowerHigh(bars, p)
         <=> /\ n >= l + r + 2
             /\ Cardinality(H) >= 2
             /\ Cardinality(L) >= 2
             /\ bars[Latest(H)].high < bars[Previous(H)].high
             /\ Param(p, "require_prior_uptrend") = 1 => PriorUptrend(bars, H)
  BY <1>1, <1>2, <1>3, Zenon DEF LowerHigh
<1>12. LowerHigh(next, p)
         <=> /\ n + 1 >= l + r + 2
             /\ Cardinality(H) >= 2
             /\ Cardinality(L) >= 2
             /\ next[Latest(H)].high < next[Previous(H)].high
             /\ Param(p, "require_prior_uptrend") = 1 => PriorUptrend(next, H)
  BY <1>1, <1>2, <1>3, Zenon DEF LowerHigh
<1>13. LowerHigh(bars, p) <=> LowerHigh(next, p)
  BY <1>1, <1>6, <1>8, <1>10, <1>11, <1>12
<1>14. LowerHighLowerLow(bars, p)
         <=> /\ LowerHigh(bars, p)
             /\ bars[Latest(L)].low < bars[Previous(L)].low
             /\ Latest(L) > Previous(H)
  BY <1>2, <1>3, Zenon DEF LowerHighLowerLow
<1>15. LowerHighLowerLow(next, p)
         <=> /\ LowerHigh(next, p)
             /\ next[Latest(L)].low < next[Previous(L)].low
             /\ Latest(L) > Previous(H)
  BY <1>2, <1>3, Zenon DEF LowerHighLowerLow
<1>16. LowerHighLowerLow(bars, p) <=> LowerHighLowerLow(next, p)
  BY <1>1, <1>7, <1>11, <1>13, <1>14, <1>15
<1>17. /\ LowerHigh(bars, p) \in BOOLEAN /\ LowerHigh(next, p) \in BOOLEAN
       /\ LowerHighLowerLow(bars, p) \in BOOLEAN /\ LowerHighLowerLow(next, p) \in BOOLEAN
  BY Zenon DEF LowerHigh, LowerHighLowerLow
<1> QED BY <1>13, <1>16, <1>17

LEMMA ReversalStep ==
  ASSUME TypeOK, NewWeek, study.rule = "reversal",
         Len(weeks') <= Param(study.params, "lookback_weeks"),
         Fires(study, weeks) # Fires(study, weeks')
  PROVE  ReversalMovesOnSwings
<1>1. PICK bar \in study.candles : weeks' = Append(weeks, bar)
  BY DEF NewWeek
<1>2. PICK n \in Nat : n = Len(weeks) /\ Len(weeks') = n + 1
  BY <1>1 DEF TypeOK
<1>3. Grown(weeks, weeks', n)
  BY <1>1, <1>2 DEF TypeOK, Grown
<1>4. PICK l \in Nat, r \in Nat :
        l = Param(study.params, "pivot_left") /\ r = Param(study.params, "pivot_right")
  BY ParamNatural DEF TypeOK, Default
<1>5. study \in Study /\ weeks \in Seq(study.candles) /\ weeks' \in Seq(study.candles)
  BY <1>1 DEF TypeOK
<1>6. n + 1 - r > l /\ StandsOut(weeks', l, r, n + 1 - r)
  <2> SUFFICES ASSUME ~Completes(weeks', l, r, n + 1 - r) PROVE FALSE
    BY Zenon DEF Completes, StandsOut, HighAt, LowAt
  <2>1. /\ LowerHigh(weeks, study.params) = LowerHigh(weeks', study.params)
        /\ LowerHighLowerLow(weeks, study.params) = LowerHighLowerLow(weeks', study.params)
    <3>1. n + 1 <= Param(study.params, "lookback_weeks")
      BY <1>2
    <3> QED BY <1>3, <1>4, <1>5, <3>1, SameReversal
  <2>2. Fires(study, weeks) = Fires(study, weeks')
    BY <2>1 DEF Fires, TrimFirstLowerHigh, SellLowerHighLowerLow
  <2> QED BY <2>2
<1>7. PICK c \in Int : c = n + 1 - r
  OBVIOUS
<1>8. c = Len(weeks') - r /\ c + r = Len(weeks')
  BY <1>2, <1>7
<1>9. c > l /\ \/ \A j \in (c - l .. Len(weeks')) \ {c} : weeks'[j].high < weeks'[c].high
               \/ \A j \in (c - l .. Len(weeks')) \ {c} : weeks'[j].low > weeks'[c].low
  BY <1>6, <1>7, <1>8 DEF StandsOut
<1> QED BY <1>4, <1>8, <1>9 DEF ReversalMovesOnSwings

\* While the window grows, what the reversal rules say changes only in the week
\* that completes the right-hand side of a week that stands out: newer weeks,
\* whose right-hand side is still open, neither raise nor withdraw it.
THEOREM ReversalBySwing == RulesSpec => ReversalConfirmed
<1>1. RulesTypeOK /\ [RulesNext]_<<part, vars, engineVars>> => [ReversalMovesOnSwings]_vars
  <2> SUFFICES ASSUME RulesTypeOK, [RulesNext]_<<part, vars, engineVars>>, ~UNCHANGED vars
               PROVE  ReversalMovesOnSwings
    OBVIOUS
  <2>1. TypeOK /\ NewWeek
    BY Halves DEF RulesTypeOK, Next, Over
  <2>2. CASE /\ study.rule = "reversal"
             /\ Len(weeks') <= Param(study.params, "lookback_weeks")
             /\ Fires(study, weeks) # Fires(study, weeks')
    BY <2>1, <2>2, ReversalStep
  <2>3. CASE ~(/\ study.rule = "reversal"
               /\ Len(weeks') <= Param(study.params, "lookback_weeks")
               /\ Fires(study, weeks) # Fires(study, weeks'))
    BY <2>3, Zenon DEF ReversalMovesOnSwings
  <2> QED BY <2>2, <2>3
<1> QED BY <1>1, RulesTyped, PTL DEF RulesSpec, ReversalConfirmed

-----------------------------------------------------------------------------
(* Unread weeks: a week that a rule cannot read leaves what it says.          *)

LEMMA UnreadWick ==
  ASSUME NEW bars, bars # <<>>, Unread("wick", bars[Len(bars)]), NEW p
  PROVE  ~UpperWick(bars, p)
<1>1. ~Drawn(bars[Len(bars)])
  BY DEF Unread, Drawn, Priced
<1> QED BY <1>1, Zenon DEF UpperWick

\* The n-th volume does not see a week that is not red.
LEMMA RankedStays ==
  ASSUME NEW bars, NEW next, NEW n, Grown(bars, next, n),
         RedWeeks(next) = RedWeeks(bars), NEW k
  PROVE  RankedVolume(next, k) = RankedVolume(bars, k)
<1> DEFINE Top(b, x) == {j \in RedWeeks(bars) : b[j].volume <= b[x].volume}
           Far(b) == {x \in RedWeeks(bars) : Cardinality(Top(b, x)) >= k}
<1>1. \A i \in RedWeeks(bars) : next[i] = bars[i]
  BY DEF Grown, RedWeeks
<1>2. ASSUME NEW x \in RedWeeks(bars) PROVE Top(next, x) = Top(bars, x)
  BY <1>1
<1>3. Far(next) = Far(bars)
  <2> HIDE DEF Top
  <2> QED BY <1>2
<1>4. \A x \in Far(bars) : next[x] = bars[x]
  BY <1>1
<1>5. /\ RankedVolume(next, k) = Least({next[i].volume : i \in Far(next)})
      /\ RankedVolume(bars, k) = Least({bars[i].volume : i \in Far(bars)})
  BY Zenon DEF RankedVolume
<1> HIDE DEF Far
<1>6. {next[i].volume : i \in Far(next)} = {bars[i].volume : i \in Far(bars)}
  BY <1>3, <1>4
<1> QED BY <1>5, <1>6

LEMMA UnreadCluster ==
  ASSUME NEW s \in Study, NEW bars \in Seq(s.candles), NEW next \in Seq(s.candles),
         NEW n, Grown(bars, next, n), Unread("cluster", next[n + 1]),
         n + 1 <= Param(s.params, "baseline_lookback_weeks"),
         n + 1 <= Param(s.params, "cluster_window_weeks")
  PROVE  Hits(next, s.params) = Hits(bars, s.params)
<1> DEFINE p == s.params
<1>1. n \in Nat /\ Len(bars) = n /\ Len(next) = n + 1 /\ \A i \in 1..n : next[i] = bars[i]
  BY DEF Grown
<1>2. PICK base \in Nat \ {0}, k \in Nat \ {0} :
        base = Param(p, "baseline_lookback_weeks") /\ k = Param(p, "cluster_window_weeks")
  BY ParamPositive DEF Default, MayBeZero
<1>3. /\ LastWeeks(bars, base) = bars /\ LastWeeks(bars, k) = bars
      /\ LastWeeks(next, base) = next /\ LastWeeks(next, k) = next
  <2>1. Len(bars) <= base /\ Len(bars) <= k /\ Len(next) <= base /\ Len(next) <= k
    BY <1>1, <1>2
  <2> QED BY <2>1, AllWeeks
<1>4. Hits(bars, p) = Cardinality(HeavyWeeks(bars, bars, p))
  BY <1>2, <1>3, Zenon DEF Hits
<1>5. Hits(next, p) = Cardinality(HeavyWeeks(next, next, p))
  BY <1>2, <1>3, Zenon DEF Hits
<1>6. ~Red(next[n + 1])
  BY DEF Unread, Red
<1>7. RedWeeks(next) = RedWeeks(bars)
  <2>1. \A i : i \in 1..n + 1 <=> i \in 1..n \/ i = n + 1
    BY <1>1
  <2>2. \A i : i \in RedWeeks(next) <=> i \in 1..n + 1 /\ Red(next[i])
    BY <1>1 DEF RedWeeks
  <2>3. \A i : i \in RedWeeks(bars) <=> i \in 1..n /\ Red(bars[i])
    BY <1>1 DEF RedWeeks
  <2>4. \A i : i \in RedWeeks(next) <=> i \in RedWeeks(bars)
    BY <1>1, <1>6, <2>1, <2>2, <2>3
  <2>5. RedWeeks(next) \subseteq RedWeeks(bars) /\ RedWeeks(bars) \subseteq RedWeeks(next)
    BY <2>4
  <2> QED BY <2>5
<1>8. DoubledMedian(next) = DoubledMedian(bars)
  <2>1. \A k_1 : RankedVolume(next, k_1) = RankedVolume(bars, k_1)
    BY <1>7, RankedStays
  <2> QED BY <1>7, <2>1, Zenon DEF DoubledMedian
<1>9. \A i \in RedWeeks(bars) : next[i].volume = bars[i].volume
  BY <1>1 DEF RedWeeks
<1>10. HeavyWeeks(next, next, p) = HeavyWeeks(bars, bars, p)
  BY <1>7, <1>8, <1>9 DEF HeavyWeeks
<1> QED BY <1>4, <1>5, <1>10

\* The newest week is among the neighbours of the week it completes.
LEMMA UnreadSwing ==
  ASSUME NEW next, NEW n \in Nat, Unread("reversal", next[n + 1]),
         NEW l \in Nat, NEW r \in Nat \ {0}
  PROVE  ~Completes(next, l, r, n + 1 - r)
<1>1. ~Priced(next[n + 1])
  BY DEF Unread, Priced
<1>2. PICK c \in Int : c = n + 1 - r
  OBVIOUS
<1>3. n + 1 \in (c - l .. c + r) \ {c}
  BY <1>2
<1> QED BY <1>1, <1>2, <1>3 DEF Completes, HighAt, LowAt

\* A close that is not there reclaims nothing, and breaks out of nothing.
LEMMA UnreadBreakout ==
  ASSUME NEW s \in Study, NEW bars \in Seq(s.candles), NEW next \in Seq(s.candles),
         NEW n, Grown(bars, next, n), Unread("breakout", next[n + 1]),
         n + 1 <= Param(s.params, "breakout_lookback_weeks"),
         SellFailedBreakout(next, s.params, s.levels)
  PROVE  SellFailedBreakout(bars, s.params, s.levels)
<1>1. Len(bars) \in Nat /\ Len(next) = Len(bars) + 1 /\ n = Len(bars)
  BY DEF Grown
<1>2. PICK k \in Nat \ {0} : k = Param(s.params, "breakout_lookback_weeks")
  BY ParamPositive DEF Default, MayBeZero
<1>3. LastWeeks(bars, k) = bars /\ LastWeeks(next, k) = next
  <2>1. Len(bars) <= k /\ Len(next) <= k
    BY <1>1, <1>2
  <2> QED BY <2>1, AllWeeks
<1>4. PICK level \in ActiveLevels(s.levels) : FailedBreakout(next, s.params, level)
  BY <1>2, <1>3 DEF SellFailedBreakout
<1>5. ~FailedReclaim(next[n + 1], s.params, level)
  <2>1. next[n + 1].close = 0
    BY DEF Unread
  <2> QED BY <2>1 DEF FailedReclaim, Below
<1>6. FailedBreakout(bars, s.params, level)
  BY <1>4, <1>5, BreakoutGrows
<1> QED BY <1>2, <1>3, <1>4, <1>6 DEF SellFailedBreakout

LEMMA UnreadStep ==
  ASSUME TypeOK, NewWeek, Unread(study.rule, weeks'[Len(weeks')]),
         WindowsOnlyGrow(study.rule, study.params, weeks')
  PROVE  /\ Fires(study, weeks').trim => Fires(study, weeks).trim
         /\ Fires(study, weeks').sell => Fires(study, weeks).sell
<1> DEFINE p == study.params
<1>1. PICK bar \in study.candles : weeks' = Append(weeks, bar)
  BY DEF NewWeek
<1>2. PICK n \in Nat : n = Len(weeks) /\ Len(weeks') = n + 1
  BY <1>1 DEF TypeOK
<1>3. Grown(weeks, weeks', n)
  BY <1>1, <1>2 DEF TypeOK, Grown
<1>4. study \in Study /\ weeks \in Seq(study.candles) /\ weeks' \in Seq(study.candles)
  BY <1>1 DEF TypeOK
<1>5. Unread(study.rule, weeks'[n + 1]) /\ n + 1 <= LookbackWeeks(study.rule, p)
  BY <1>2 DEF WindowsOnlyGrow
<1>6. CASE study.rule = "wick"
  <2>1. weeks' # <<>>
    BY <1>2
  <2>2. ~UpperWick(weeks', p)
    BY <1>2, <1>5, <1>6, <2>1, UnreadWick
  <2> QED BY <1>6, <2>2 DEF Fires
<1>7. CASE study.rule = "cluster"
  <2>1. /\ n + 1 <= Param(p, "baseline_lookback_weeks")
        /\ n + 1 <= Param(p, "cluster_window_weeks")
    BY <1>2, <1>7 DEF WindowsOnlyGrow
  <2>2. Hits(weeks', p) = Hits(weeks, p)
    BY <1>3, <1>4, <1>5, <1>7, <2>1, UnreadCluster
  <2> QED BY <1>7, <2>2 DEF Fires, TrimCluster, SellCluster
<1>8. CASE study.rule = "reversal"
  <2>1. PICK l \in Nat, r \in Nat \ {0} :
          l = Param(p, "pivot_left") /\ r = Param(p, "pivot_right")
    BY <1>4, ParamPositive DEF Default, MayBeZero
  <2>2. ~Completes(weeks', l, r, n + 1 - r)
    BY <1>5, <1>8, UnreadSwing
  <2>3. n + 1 <= Param(p, "lookback_weeks")
    BY <1>5, <1>8 DEF LookbackWeeks
  <2>4. /\ LowerHigh(weeks, p) = LowerHigh(weeks', p)
        /\ LowerHighLowerLow(weeks, p) = LowerHighLowerLow(weeks', p)
    BY <1>3, <1>4, <2>1, <2>2, <2>3, SameReversal
  <2> QED BY <1>8, <2>4 DEF Fires, TrimFirstLowerHigh, SellLowerHighLowerLow
<1>9. CASE study.rule = "breakout"
  <2>1. n + 1 <= Param(p, "breakout_lookback_weeks")
    BY <1>5, <1>9 DEF LookbackWeeks
  <2>2. SellFailedBreakout(weeks', p, study.levels)
          => SellFailedBreakout(weeks, p, study.levels)
    BY <1>3, <1>4, <1>5, <1>9, <2>1, UnreadBreakout
  <2> QED BY <1>9, <2>2 DEF Fires
<1> QED BY <1>4, <1>6, <1>7, <1>8, <1>9, StudyAssumption

\* Losing averages, ranges or the older days of the daily histories makes no
\* rule of a position fire that did not fire before; and while the windows grow,
\* a newest week that a weekly rule cannot read makes it fire nothing new and
\* turns no SELL into a TRIM.
THEOREM MissingDataIsSafe == RulesSpec => MissingDataFiresNothing
<1>1. RulesTypeOK /\ [RulesNext]_<<part, vars, engineVars>> => [UnreadFiresNothing]_vars
  <2> SUFFICES ASSUME RulesTypeOK, [RulesNext]_<<part, vars, engineVars>>, ~UNCHANGED vars
               PROVE  UnreadFiresNothing
    OBVIOUS
  <2>1. TypeOK /\ NewWeek /\ study' = study
    BY Halves DEF RulesTypeOK, Next, Over, NewWeek
  <2>2. CASE /\ Unread(study.rule, weeks'[Len(weeks')])
             /\ WindowsOnlyGrow(study.rule, study.params, weeks')
    BY <2>1, <2>2, UnreadStep DEF UnreadFiresNothing
  <2>3. CASE ~(/\ Unread(study.rule, weeks'[Len(weeks')])
               /\ WindowsOnlyGrow(study.rule, study.params, weeks'))
    BY <2>3, Zenon DEF UnreadFiresNothing
  <2> QED BY <2>2, <2>3
<1>2. RulesSpec => UnreadWeekFiresNothing
  BY <1>1, RulesTyped, PTL DEF RulesSpec, UnreadWeekFiresNothing
<1> QED BY <1>2, LostDataIsSafe, PTL DEF MissingDataFiresNothing

-----------------------------------------------------------------------------
(* The median: at most half of the red weeks lie above it.                    *)

\* A history whose volumes are numbers.
Counted(bars) ==
  Len(bars) \in Nat /\ \A i \in 1..Len(bars) : bars[i].volume \in Nat

\* The red weeks up to a volume, and above it.
UpTo(bars, v) == {j \in RedWeeks(bars) : bars[j].volume <= v}
Beyond(bars, v) == {j \in RedWeeks(bars) : bars[j].volume > v}

LEMMA RedsFinite ==
  ASSUME NEW bars, Counted(bars)
  PROVE  /\ IsFiniteSet(RedWeeks(bars)) /\ Cardinality(RedWeeks(bars)) \in Nat
         /\ \A S \in SUBSET RedWeeks(bars) :
              IsFiniteSet(S) /\ Cardinality(S) \in Nat
              /\ Cardinality(S) <= Cardinality(RedWeeks(bars))
         /\ \A i \in RedWeeks(bars) : bars[i].volume \in Nat \ {0}
<1>1. PICK a \in Int : a = 1
  OBVIOUS
<1>2. IsFiniteSet(a..Len(bars))
  BY FS_Interval DEF Counted
<1>3. RedWeeks(bars) \in SUBSET (a..Len(bars))
  BY <1>1 DEF RedWeeks
<1>4. IsFiniteSet(RedWeeks(bars))
  BY <1>2, <1>3, FS_Subset
<1>5. \A i \in RedWeeks(bars) : bars[i].volume \in Nat \ {0}
  BY DEF RedWeeks, Red, Counted
<1> QED BY <1>4, <1>5, FS_Subset, FS_CardinalityType

\* The n-th volume is the volume of a red week, and n red weeks are up to it.
LEMMA RankedIs ==
  ASSUME NEW bars, Counted(bars), NEW n \in Nat, n <= Cardinality(RedWeeks(bars)),
         RedWeeks(bars) # {}
  PROVE  /\ RankedVolume(bars, n) \in Nat \ {0}
         /\ Cardinality(UpTo(bars, RankedVolume(bars, n))) >= n
         /\ \E k \in RedWeeks(bars) : RankedVolume(bars, n) = bars[k].volume
         /\ \A k \in RedWeeks(bars) : Cardinality(UpTo(bars, bars[k].volume)) >= n
                                        => RankedVolume(bars, n) <= bars[k].volume
<1> DEFINE R == RedWeeks(bars)
           D == {bars[i].volume : i \in {k \in R :
                   Cardinality({j \in R : bars[j].volume <= bars[k].volume}) >= n}}
           E == {bars[i].volume : i \in R}
           f == [i \in 1..Len(bars) |-> bars[i].volume]
<1>1. \A i \in R : bars[i].volume \in Nat \ {0}
  BY RedsFinite
<1>2. PICK b \in Nat : \A i \in 1..Len(bars) : f[i] <= b
  <2>1. f \in [1..Len(bars) -> Nat] /\ Len(bars) \in Nat
    BY DEF Counted
  <2> HIDE DEF f
  <2> QED BY <2>1, BoundOf
<1>3. PICK m \in E : \A v \in E : v <= m
  <2>1. PICK S \in SUBSET Int : S = E
    <3>1. \A v \in E : v \in Int
      BY <1>1
    <3> HIDE DEF E
    <3> QED BY <3>1
  <2>2. \A i \in R : bars[i].volume <= b
    BY <1>2 DEF RedWeeks
  <2>3. S # {} /\ b \in Int /\ \A v \in S : v <= b
    BY <2>1, <2>2
  <2>4. \E m \in S : \A v \in S : v <= m
    BY <2>3, LargestOf, Zenon
  <2> QED BY <2>1, <2>4
<1>4. PICK k \in R : m = bars[k].volume
  BY <1>3
<1>5. {j \in R : bars[j].volume <= bars[k].volume} = R
  BY <1>3, <1>4
<1>6. D # {}
  BY <1>4, <1>5
<1>7. D \in SUBSET Nat
  BY <1>1
<1>8. RankedVolume(bars, n) = Least(D)
  BY Zenon DEF RankedVolume
<1>9. Least(D) \in D /\ \A v \in D : Least(D) <= v
  <2> HIDE DEF D
  <2> QED BY <1>6, <1>7, LeastIs
<1>10. PICK i \in R : /\ Least(D) = bars[i].volume
                      /\ Cardinality({j \in R : bars[j].volume <= bars[i].volume}) >= n
  BY <1>9
<1>11. \A x \in R : Cardinality(UpTo(bars, bars[x].volume)) >= n => bars[x].volume \in D
  BY DEF UpTo
<1> HIDE DEF D
<1>12. Cardinality(UpTo(bars, Least(D))) >= n
  BY <1>10 DEF UpTo
<1> QED BY <1>1, <1>8, <1>9, <1>10, <1>11, <1>12

\* The volumes come in ascending order.
LEMMA RankedAscend ==
  ASSUME NEW bars, Counted(bars), NEW n \in Nat, NEW m \in Nat, n <= m,
         m <= Cardinality(RedWeeks(bars)), RedWeeks(bars) # {}
  PROVE  RankedVolume(bars, n) <= RankedVolume(bars, m)
<1>1. PICK k \in RedWeeks(bars) : RankedVolume(bars, m) = bars[k].volume
  BY RankedIs
<1>2. UpTo(bars, bars[k].volume) \in SUBSET RedWeeks(bars)
  BY DEF UpTo
<1>3. Cardinality(UpTo(bars, bars[k].volume)) \in Nat
  BY <1>2, RedsFinite
<1>4. Cardinality(UpTo(bars, bars[k].volume)) >= m
  BY <1>1, RankedIs
<1>5. n <= Cardinality(RedWeeks(bars)) /\ Cardinality(UpTo(bars, bars[k].volume)) >= n
  BY <1>3, <1>4, RedsFinite
<1> QED BY <1>1, <1>5, RankedIs

\* No more red weeks lie above the n-th volume than come after it.
LEMMA BeyondRanked ==
  ASSUME NEW bars, Counted(bars), NEW n \in Nat, n <= Cardinality(RedWeeks(bars)),
         RedWeeks(bars) # {}
  PROVE  Cardinality(Beyond(bars, RankedVolume(bars, n))) <= Cardinality(RedWeeks(bars)) - n
<1>1. PICK v \in Nat : v = RankedVolume(bars, n) /\ Cardinality(UpTo(bars, v)) >= n
  BY RankedIs
<1>2. PICK A \in SUBSET RedWeeks(bars), B \in SUBSET RedWeeks(bars) :
        A = UpTo(bars, v) /\ B = Beyond(bars, v)
  BY DEF UpTo, Beyond
<1>3. IsFiniteSet(A) /\ IsFiniteSet(B) /\ Cardinality(A) \in Nat /\ Cardinality(B) \in Nat
      /\ Cardinality(RedWeeks(bars)) \in Nat
  BY RedsFinite
<1>4. A \cup B = RedWeeks(bars) /\ A \cap B = {}
  <2>1. \A j \in RedWeeks(bars) : bars[j].volume \in Nat
    BY RedsFinite
  <2> QED BY <1>1, <1>2, <2>1 DEF UpTo, Beyond
<1>5. Cardinality(A \cup B) = Cardinality(A) + Cardinality(B) - Cardinality(A \cap B)
  BY <1>3, FS_Union
<1>6. Cardinality(A \cap B) = 0
  BY <1>4, FS_EmptySet
<1>7. Cardinality(RedWeeks(bars)) = Cardinality(A) + Cardinality(B)
  BY <1>3, <1>4, <1>5, <1>6
<1> QED BY <1>1, <1>2, <1>3, <1>7

\* With a multiplier above one at most half of the red weeks are heavy
\* against their own baseline.
LEMMA HalfHeavy ==
  ASSUME NEW bars, Counted(bars), NEW p, NEW mult \in Nat, mult > 10,
         mult = Param(p, "volume_multiplier")
  PROVE  2 * Cardinality(HeavyWeeks(bars, bars, p)) <= Cardinality(RedWeeks(bars))
<1>1. PICK N \in Nat : N = Cardinality(RedWeeks(bars))
  BY RedsFinite
<1>2. HeavyWeeks(bars, bars, p) \in SUBSET RedWeeks(bars)
  BY DEF HeavyWeeks
<1>3. CASE RedWeeks(bars) = {}
  <2>1. HeavyWeeks(bars, bars, p) = {}
    BY <1>2, <1>3
  <2>2. Cardinality(HeavyWeeks(bars, bars, p)) = 0
    BY <2>1, FS_EmptySet
  <2> QED BY <1>1, <2>2
<1>4. CASE RedWeeks(bars) # {}
  <2>1. N > 0
    BY <1>1, <1>4, RedsFinite, FS_EmptySet
  <2>2. PICK a \in Nat, b \in Nat :
          a = (N + 1) \div 2 /\ b = N \div 2 + 1 /\ a <= b /\ b <= N /\ 2 * (N - a) <= N
    BY <2>1
  <2>3. PICK v \in Nat \ {0}, w \in Nat : v = RankedVolume(bars, a) /\ w = RankedVolume(bars, b)
    BY <1>1, <1>4, <2>1, <2>2, RankedIs
  <2>4. v <= w
    BY <1>1, <1>4, <2>2, <2>3, RankedAscend
  <2>5. DoubledMedian(bars) = v + w
    BY <1>1, <2>2, <2>3, Zenon DEF DoubledMedian
  <2>6. ASSUME NEW i \in HeavyWeeks(bars, bars, p) PROVE i \in Beyond(bars, v)
    <3>1. i \in RedWeeks(bars) /\ 20 * bars[i].volume >= (v + w) * mult
      BY <2>5 DEF HeavyWeeks
    <3>2. PICK x \in Nat : x = bars[i].volume
      BY <3>1, RedsFinite
    <3>3. (v + w) * (mult - 11) \in Nat
      OBVIOUS
    <3>4. (v + w) * mult = (v + w) * (mult - 11) + (v + w) * 11
      OBVIOUS
    <3>5. (v + w) * mult >= 11 * (v + w)
      BY <3>3, <3>4
    <3>6. 20 * x >= 11 * (v + w)
      BY <3>1, <3>2, <3>5
    <3>7. x > v
      BY <2>4, <3>6
    <3> QED BY <3>1, <3>2, <3>7 DEF Beyond
  <2>7. PICK B \in SUBSET RedWeeks(bars) : B = Beyond(bars, v)
    BY DEF Beyond
  <2>8. Cardinality(B) <= N - a
    BY <1>1, <1>4, <2>2, <2>3, <2>7, BeyondRanked
  <2>9. PICK K \in SUBSET B : K = HeavyWeeks(bars, bars, p)
    BY <2>6, <2>7
  <2>10. Cardinality(K) <= Cardinality(B) /\ Cardinality(K) \in Nat /\ Cardinality(B) \in Nat
    BY RedsFinite, FS_Subset
  <2> QED BY <1>1, <2>2, <2>8, <2>9, <2>10
<1> QED BY <1>3, <1>4

\* The heavy weeks of the last weeks of a window are heavy weeks of the window.
LEMMA HeavyInWindow ==
  ASSUME NEW S, NEW bars \in Seq(S), Counted(bars), NEW k \in Nat \ {0}, NEW p
  PROVE  Cardinality(HeavyWeeks(LastWeeks(bars, k), bars, p))
           <= Cardinality(HeavyWeeks(bars, bars, p))
<1>0. PICK w \in Seq(S) :
        /\ w = LastWeeks(bars, k) /\ Len(w) \in Nat /\ Len(w) <= Len(bars)
        /\ \A i \in 1..Len(w) : w[i] = bars[Len(bars) - Len(w) + i]
  BY LastWeeksAre
<1>1. PICK off \in Nat : off = Len(bars) - Len(w)
  <2>1. PICK m \in Nat, n \in Nat : m = Len(bars) /\ n = Len(w) /\ n <= m
    BY <1>0 DEF Counted
  <2>2. m - n \in Nat
    BY <2>1
  <2> QED BY <2>1, <2>2
<1>2. PICK K, H : K = HeavyWeeks(w, bars, p) /\ H = HeavyWeeks(bars, bars, p)
  OBVIOUS
<1>3. ASSUME NEW i \in K PROVE i \in Nat /\ off + i \in H
  <2>1. i \in 1..Len(w)
    BY <1>2 DEF HeavyWeeks, RedWeeks
  <2>2. off + i \in 1..Len(bars)
    BY <1>0, <1>1, <2>1 DEF Counted
  <2>3. w[i] = bars[off + i]
    BY <1>0, <1>1, <2>1
  <2> QED BY <1>2, <2>1, <2>2, <2>3 DEF HeavyWeeks, RedWeeks
<1>4. PICK f : f = [i \in K |-> off + i]
  OBVIOUS
<1>5. f \in Injection(K, H)
  <2>1. f \in [K -> H]
    BY <1>3, <1>4
  <2>2. ASSUME NEW i \in K, NEW j \in K, f[i] = f[j] PROVE i = j
    <3>1. i \in Nat /\ j \in Nat
      BY <1>3
    <3>2. off + i = off + j
      BY <1>4, <2>2, Zenon
    <3> QED BY <3>1, <3>2
  <2>3. \A i, j \in K : f[i] = f[j] => i = j
    BY <2>2
  <2> QED BY <1>4, <2>1, <2>3 DEF Injection, IsInjective
<1>6. IsFiniteSet(H)
  <2>1. H \in SUBSET RedWeeks(bars)
    BY <1>2 DEF HeavyWeeks
  <2> QED BY <2>1, RedsFinite
<1>7. Cardinality(K) <= Cardinality(H)
  BY <1>5, <1>6, FS_Injection
<1> QED BY <1>0, <1>2, <1>7

\* For every history and every multiplier above one: no more than half of the
\* red weeks of the baseline are hits, so the distribution cluster never fires
\* without as many calmer red weeks before it, whatever its own volumes are.
THEOREM ClusterIsCalm == RulesSpec => []ClusterNeedsCalm
<1>1. RulesTypeOK => ClusterNeedsCalm
  <2> DEFINE p == study.params
  <2> SUFFICES ASSUME RulesTypeOK, Param(p, "volume_multiplier") > 10,
                      Param(p, "cluster_window_weeks") <= Param(p, "baseline_lookback_weeks")
               PROVE  2 * Hits(weeks, p) <= Cardinality(RedWeeks(
                        LastWeeks(weeks, Param(p, "baseline_lookback_weeks"))))
    BY DEF ClusterNeedsCalm
  <2>1. study \in Study /\ weeks \in Seq(study.candles)
    BY DEF RulesTypeOK, TypeOK
  <2>2. PICK n \in Nat \ {0}, k \in Nat \ {0}, mult \in Nat :
          /\ n = Param(p, "baseline_lookback_weeks") /\ k = Param(p, "cluster_window_weeks")
          /\ mult = Param(p, "volume_multiplier")
    BY <2>1, ParamPositive DEF Default, MayBeZero
  <2>3. PICK base \in Seq(study.candles) : base = LastWeeks(weeks, n)
    BY <2>1, LastWeeksAre
  <2>4. LastWeeks(base, k) = LastWeeks(weeks, k)
    BY <2>1, <2>2, <2>3, LastOfLast
  <2>5. Counted(base)
    <3>1. \A i \in 1..Len(base) : base[i] \in study.candles
      OBVIOUS
    <3>2. \A c \in study.candles :
            c \in [open : Nat, high : Nat, low : Nat, close : Nat, volume : Nat]
      BY <2>1, StudyAssumption
    <3>3. \A i \in 1..Len(base) : base[i].volume \in Nat
      BY <3>1, <3>2
    <3> QED BY <3>3 DEF Counted
  <2>6. Hits(weeks, p) = Cardinality(HeavyWeeks(LastWeeks(base, k), base, p))
    BY <2>2, <2>3, <2>4, Zenon DEF Hits
  <2>7. Hits(weeks, p) <= Cardinality(HeavyWeeks(base, base, p))
    BY <2>5, <2>6, HeavyInWindow
  <2>8. 2 * Cardinality(HeavyWeeks(base, base, p)) <= Cardinality(RedWeeks(base))
    BY <2>2, <2>5, HalfHeavy
  <2>9. Hits(weeks, p) \in Nat /\ Cardinality(HeavyWeeks(base, base, p)) \in Nat
        /\ Cardinality(RedWeeks(base)) \in Nat
    <3>1. HeavyWeeks(base, base, p) \in SUBSET RedWeeks(base)
      BY DEF HeavyWeeks
    <3>2. PICK w \in Seq(study.candles) : w = LastWeeks(base, k)
      BY LastWeeksAre
    <3>3. Counted(w)
      <4>1. \A i \in 1..Len(w) : w[i] \in study.candles
        OBVIOUS
      <4>2. \A c \in study.candles :
              c \in [open : Nat, high : Nat, low : Nat, close : Nat, volume : Nat]
        BY <2>1, StudyAssumption
      <4>3. \A i \in 1..Len(w) : w[i].volume \in Nat
        BY <4>1, <4>2
      <4> QED BY <4>3 DEF Counted
    <3>4. HeavyWeeks(w, base, p) \in SUBSET RedWeeks(w)
      BY DEF HeavyWeeks
    <3> QED BY <2>5, <2>6, <3>1, <3>2, <3>3, <3>4, RedsFinite
  <2> QED BY <2>2, <2>3, <2>7, <2>8, <2>9
<1> QED BY <1>1, RulesTyped, PTL
=============================================================================
