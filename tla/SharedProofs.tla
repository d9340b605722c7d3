---------------------------- MODULE SharedProofs ----------------------------
(***************************************************************************)
(* What users, requests and processes can do to what they share, for every *)
(* number of them: the cached bars (Bars), the accounts (People), the      *)
(* theme board (Board); and the results about the stored rules, the flags  *)
(* and the pool, carried over to the composition.                          *)
(***************************************************************************)
EXTENDS Shared, RuleStoreProofs, FiniteSetTheorems

-----------------------------------------------------------------------------
(* Bars.  What a refresh stores is enough for itself, and only a store of   *)
(* another refresh takes bars away.                                         *)

LEMMA BarsCardinality == \A S : Bars!Cardinality(S) = Cardinality(S)
BY DEF Bars!Cardinality, Cardinality

\* The n newest of the periods 1..m.
LEMMA NewestSize ==
  ASSUME NEW m \in Nat, NEW n \in Nat
  PROVE  /\ Bars!Newest(1..m, n) \subseteq 1..m
         /\ n <= m => Cardinality(Bars!Newest(1..m, n)) = n
         /\ n > m => Bars!Newest(1..m, n) = 1..m
<1>1. ASSUME NEW d \in 1..m PROVE Cardinality({e \in 1..m : e > d}) = m - d
  <2>1. {e \in 1..m : e > d} = (d + 1)..m
    OBVIOUS
  <2>2. PICK a \in Int : a = d + 1
    OBVIOUS
  <2>3. Cardinality(a..m) = IF a > m THEN 0 ELSE m - a + 1
    BY FS_Interval
  <2>4. Cardinality(a..m) = m - d
    BY <2>2, <2>3
  <2> QED BY <2>1, <2>2, <2>4
<1>2. Bars!Newest(1..m, n) = {d \in 1..m : m - d < n}
  <2>1. \A d \in 1..m : Bars!Cardinality({e \in 1..m : e > d}) = m - d
    BY <1>1, BarsCardinality, Zenon
  <2> QED BY <2>1 DEF Bars!Newest
<1>3. ASSUME n <= m PROVE Cardinality({d \in 1..m : m - d < n}) = n
  <2>1. {d \in 1..m : m - d < n} = (m - n + 1)..m
    BY <1>3
  <2>2. PICK a \in Int : a = m - n + 1
    OBVIOUS
  <2>3. Cardinality(a..m) = IF a > m THEN 0 ELSE m - a + 1
    BY FS_Interval
  <2>4. Cardinality(a..m) = n
    BY <1>3, <2>2, <2>3
  <2> QED BY <2>1, <2>2, <2>4
<1>4. n > m => {d \in 1..m : m - d < n} = 1..m
  OBVIOUS
<1>5. {d \in 1..m : m - d < n} \subseteq 1..m
  OBVIOUS
<1> QED BY <1>2, <1>3, <1>4, <1>5, Zenon

\* What is fetched reaches back to what the provider had from the start.
HistoryFetched ==
  \A r \in Refresh : at[r] = "store" => fetched[r].newest >= History

BarInv == Bars!TypeOK /\ HistoryFetched /\ ShortNeedsOther /\ PartialNeedsTurn

LEMMA BarBounds ==
  /\ History \in Nat \ {0} /\ MaxPeriod \in Nat /\ History <= MaxPeriod
  /\ \A r \in Refresh : Bars!Kept(r) \in Nat \ {0}
BY BarSettings DEF Bars!BarAssumption, Bars!Kept

LEMMA BarInitInv == Bars!Init => BarInv
<1> SUFFICES ASSUME Bars!Init PROVE BarInv
  OBVIOUS
<1>1. bars \subseteq 1..last
  <2>1. PICK n \in 0..History : bars = Bars!Newest(1..History, n)
    BY DEF Bars!Init
  <2> QED BY <2>1, BarBounds, NewestSize DEF Bars!Init
<1>2. Bars!TypeOK
  <2>1. last \in Nat /\ last = History /\ 0 \in 0..MaxPeriod + 1 /\ History \in History..MaxPeriod
    BY BarBounds DEF Bars!Init
  <2> QED BY <1>1, <2>1 DEF Bars!Init, Bars!TypeOK, Bars!NoBars
<1> QED
  BY <1>2 DEF Bars!Init, BarInv, HistoryFetched, ShortNeedsOther, Bars!ShortNeedsOther,
              PartialNeedsTurn, Bars!PartialNeedsTurn

LEMMA BarStore ==
  ASSUME BarInv, NEW r \in Refresh, Bars!Store(r) PROVE BarInv'
<1> DEFINE newest == fetched[r].newest
           c == IF newest <= last THEN newest ELSE last
           keep == Bars!Newest(1..c, Bars!Kept(r))
           half == {d \in keep : fetched[r].partial /\ d = newest}
<1> USE BarBounds DEF BarInv, Bars!TypeOK, Bars!table
<1>1. /\ newest \in Nat /\ newest >= History /\ last \in Nat /\ last >= History
      /\ c \in Nat /\ c >= History /\ c <= last
  BY DEF Bars!Store, HistoryFetched
<1>2. Bars!Completed(r) = 1..c
  BY <1>1 DEF Bars!Completed
<1>3. /\ keep \subseteq 1..c
      /\ Bars!Kept(r) <= c => Cardinality(keep) = Bars!Kept(r)
      /\ Bars!Kept(r) > c => keep = 1..c
  BY <1>1, NewestSize
<1>4. /\ bars' = {d \in bars : \E k \in keep : k <= d} \cup keep
      /\ partial' = ((partial \cap bars') \ keep) \cup half
      /\ turned' = (turned \/ (fetched[r].partial /\ newest <= last))
      /\ disturbed' = [s \in Refresh |-> s # r /\ (disturbed[s] \/ at[s] # "idle")]
      /\ at[r] = "store" /\ at' = [at EXCEPT ![r] = "judge"]
      /\ fetched' = [fetched EXCEPT ![r] = Bars!NoBars]
      /\ UNCHANGED <<series, last, failed>>
  BY <1>2 DEF Bars!Store
<1> HIDE DEF keep, c
<1>5. Bars!TypeOK'
  <2>1. bars' \subseteq 1..last
    <3>1. keep \subseteq 1..last
      BY <1>1, <1>3
    <3>2. bars \subseteq 1..last
      OBVIOUS
    <3> QED BY <1>4, <3>1, <3>2, Zenon
  <2>2. partial' \subseteq bars'
    BY <1>4
  <2> QED BY <1>4, <2>1, <2>2 DEF Bars!NoBars
<1>6. Cardinality(bars') >= Bars!Kept(r) \/ 1..History \subseteq bars'
  <2>1. keep \subseteq bars' /\ IsFiniteSet(bars')
    <3>1. IsFiniteSet(1..last)
      BY <1>1, FS_Interval
    <3>2. bars' \in SUBSET (1..last)
      BY <1>4, <1>5
    <3>3. IsFiniteSet(bars')
      BY <3>1, <3>2, FS_Subset
    <3> QED BY <1>4, <3>3
  <2>2. Cardinality(keep) <= Cardinality(bars') /\ Cardinality(bars') \in Nat
    <3>1. keep \in SUBSET bars'
      BY <2>1
    <3> QED BY <2>1, <3>1, FS_Subset, FS_CardinalityType
  <2> QED BY <1>1, <1>3, <2>1, <2>2
<1>7. ShortNeedsOther'
  <2> SUFFICES ASSUME NEW s \in Refresh, at'[s] = "judge", ~failed'[s], ~disturbed'[s]
               PROVE  Bars!Cardinality(bars') >= Bars!Kept(s)' \/ 1..History \subseteq bars'
    BY DEF ShortNeedsOther, Bars!ShortNeedsOther
  <2>1. s = r
    BY <1>4
  <2>2. Bars!Kept(r)' = Bars!Kept(r)
    BY <1>4 DEF Bars!Kept
  <2> QED BY <1>6, <2>1, <2>2, BarsCardinality
<1>8. PartialNeedsTurn'
  <2>1. half # {} => turned'
    BY <1>1, <1>3, <1>4
  <2> QED BY <1>4, <2>1 DEF PartialNeedsTurn, Bars!PartialNeedsTurn
<1>9. HistoryFetched'
  BY <1>4 DEF HistoryFetched
<1> QED BY <1>5, <1>7, <1>8, <1>9

LEMMA BarStepInv == BarInv /\ [Bars!Next]_Bars!vars => BarInv'
<1> SUFFICES ASSUME BarInv, [Bars!Next]_Bars!vars PROVE BarInv'
  OBVIOUS
<1> USE BarBounds DEF BarInv, Bars!TypeOK, HistoryFetched, ShortNeedsOther, Bars!ShortNeedsOther,
        PartialNeedsTurn, Bars!PartialNeedsTurn, Bars!table, Bars!Kept
<1>1. ASSUME NEW r \in Refresh, Bars!Check(r) PROVE BarInv'
  <2>1. Bars!Enough(r) => Bars!Cardinality(bars) >= Bars!Kept(r)
    BY DEF Bars!Enough
  <2> QED BY <1>1, <2>1 DEF Bars!Check
<1>2. ASSUME NEW r \in Refresh, Bars!Fetch(r) PROVE BarInv'
  BY <1>2 DEF Bars!Fetch
<1>3. ASSUME NEW r \in Refresh, Bars!FetchFails(r) PROVE BarInv'
  BY <1>3 DEF Bars!FetchFails
<1>4. ASSUME NEW r \in Refresh, Bars!Store(r) PROVE BarInv'
  BY <1>4, BarStore
<1>5. ASSUME NEW r \in Refresh, Bars!Judge(r) PROVE BarInv'
  BY <1>5 DEF Bars!Judge
<1>6. ASSUME Bars!PeriodCompletes PROVE BarInv'
  BY <1>6 DEF Bars!PeriodCompletes
<1>7. CASE UNCHANGED Bars!vars
  BY <1>7 DEF Bars!vars
<1> QED BY <1>1, <1>2, <1>3, <1>4, <1>5, <1>6, <1>7 DEF Bars!Next

LEMMA BarSpecInv == Bars!Spec => []BarInv
BY BarInitInv, BarStepInv, PTL DEF Bars!Spec

-----------------------------------------------------------------------------
(* People.  A withdrawal that was allowed has seen two administrators.  On   *)
(* PostgreSQL it has their rows locked until it is over; on SQLite nobody     *)
(* else withdraws a flag unless withdrawals overlap.                          *)

LEMMA TwoOf ==
  ASSUME NEW S, IsFiniteSet(S), ~(People!Cardinality(S) <= 1)
  PROVE  \E u, v \in S : u # v
<1>1. ~(Cardinality(S) <= 1)
  <2>1. People!Cardinality(S) = Cardinality(S)
    BY DEF People!Cardinality, Cardinality
  <2> QED BY <2>1
<1>2. S # {}
  BY <1>1, FS_EmptySet
<1>3. \A u : S # {u}
  <2> SUFFICES ASSUME NEW u, S = {u} PROVE FALSE
    OBVIOUS
  <2>1. Cardinality(S) = 1
    BY FS_Singleton
  <2> QED BY <1>1, <2>1
<1> QED BY <1>2, <1>3

Withdraws(f) == flowPc[f] # "idle" /\ ask[f].op = "withdraw"

\* What is asked: flags are changed of members only, and only a withdrawal
\* counts the administrators.
Asking ==
  \A f \in Flow :
    flowPc[f] # "idle" => /\ ask[f] \in People!Ask
                          /\ ask[f].op # "signin" => ask[f].target \in users
                          /\ flowPc[f] = "count" => ask[f].op = "withdraw"

OneWithdrawal ==
  ~crossed => \A f, g \in Flow : Withdraws(f) /\ Withdraws(g) => f = g

\* A withdrawal about to be saved leaves an administrator.
TwoSeen ==
  \A f \in Flow :
    flowPc[f] = "save" /\ Withdraws(f) /\ saw[f] /\ (dialect = "postgresql" \/ ~crossed)
      => \E u, v \in admins : /\ u # v
                              /\ dialect = "postgresql" => locks[u] = f /\ locks[v] = f

\* A member is announced once, and is in the table then.
AnnouncedStored == \A u \in Member : notified[u] <= 1 /\ (notified[u] # 0 => u \in users)

PeopleInv == People!TypeOK /\ Asking /\ OneWithdrawal /\ TwoSeen /\ AnnouncedStored

LEMMA PeopleBounds == IsFiniteSet(Member) /\ None \notin Flow /\ MaxAsked \in Nat
BY PeopleSettings DEF People!PeopleAssumption, People!IsFiniteSet, IsFiniteSet

LEMMA PeopleInitInv == People!Init => PeopleInv
<1> SUFFICES ASSUME People!Init PROVE PeopleInv
  OBVIOUS
<1> USE PeopleBounds DEF People!Init
<1>1. People!TypeOK
  <2>1. /\ dialect \in {"postgresql", "sqlite"} /\ users \subseteq Member /\ admins \subseteq users
        /\ crossed \in BOOLEAN
    OBVIOUS
  <2>2. asked \in 0..MaxAsked /\ notified \in [Member -> Nat]
    OBVIOUS
  <2>3. /\ flowPc \in [Flow -> {"idle", "count", "save"}] /\ saw \in [Flow -> BOOLEAN]
        /\ ask \in [Flow -> People!Ask \cup {None}] /\ locks \in [Member -> Flow \cup {None}]
    BY Zenon
  <2> QED BY <2>1, <2>2, <2>3 DEF People!TypeOK
<1>2. \A f \in Flow : flowPc[f] = "idle"
  OBVIOUS
<1>3. \A u \in Member : notified[u] = 0
  OBVIOUS
<1> QED
  BY <1>1, <1>2, <1>3
  DEF PeopleInv, Asking, OneWithdrawal, TwoSeen, AnnouncedStored, Withdraws

LEMMA PeopleStepInv == PeopleInv /\ [People!Next]_People!vars => PeopleInv'
<1> SUFFICES ASSUME PeopleInv, [People!Next]_People!vars PROVE PeopleInv'
  OBVIOUS
<1> USE PeopleBounds DEF PeopleInv, Withdraws
<1>1. ASSUME NEW f \in Flow, NEW a \in People!Ask, People!Begin(f, a) PROVE PeopleInv'
  <2>1. /\ flowPc[f] = "idle" /\ asked < MaxAsked /\ asked' = asked + 1
        /\ a.op # "signin" => a.target \in users
        /\ ask' = [ask EXCEPT ![f] = a]
        /\ UNCHANGED <<dialect, users, admins, locks, notified>>
    BY <1>1 DEF People!Begin
  <2>2. /\ saw' \in [Flow -> BOOLEAN]
        /\ \A g \in Flow \ {f} : saw'[g] = saw[g]
    BY <1>1 DEF People!Begin, People!TypeOK
  <2>3. /\ flowPc' \in [Flow -> {"idle", "count", "save"}]
        /\ \A g \in Flow \ {f} : flowPc'[g] = flowPc[g]
        /\ flowPc'[f] # "idle" /\ (flowPc'[f] = "count" => a.op = "withdraw")
    BY <1>1 DEF People!Begin, People!TypeOK
  <2>4. /\ crossed' \in BOOLEAN /\ (crossed => crossed')
        /\ a.op = "withdraw" /\ ~crossed' => \A g \in Flow : ~Withdraws(g)
    <3>1. crossed' = (crossed \/ (a.op = "withdraw" /\ \E g \in Flow : Withdraws(g)))
      BY <1>1 DEF People!Begin
    <3>2. crossed \in BOOLEAN
      BY DEF People!TypeOK
    <3> HIDE DEF Withdraws
    <3> QED BY <3>1, <3>2, Zenon
  <2>5. /\ ask'[f] = a /\ \A g \in Flow \ {f} : ask'[g] = ask[g]
        /\ flowPc'[f] = "save" /\ a.op = "withdraw" => ~saw'[f]
    <3>1. ask'[f] = a /\ \A g \in Flow \ {f} : ask'[g] = ask[g]
      BY <2>1 DEF People!TypeOK
    <3>2. ASSUME flowPc'[f] = "save", a.op = "withdraw" PROVE ~saw'[f]
      <4>1. a.target \notin admins /\ saw' = [saw EXCEPT ![f] = a.target \in admins]
        BY <1>1, <3>2 DEF People!Begin, People!TypeOK
      <4> QED BY <4>1 DEF People!TypeOK
    <3> QED BY <3>1, <3>2
  <2>6. People!TypeOK'
    <3>1. ask' \in [Flow -> People!Ask \cup {None}] /\ asked' \in 0..MaxAsked
      BY <2>1 DEF People!TypeOK
    <3> QED BY <2>1, <2>2, <2>3, <2>4, <3>1 DEF People!TypeOK
  <2>7. Asking' /\ AnnouncedStored'
    BY <2>1, <2>3, <2>5 DEF Asking, AnnouncedStored
  <2>8. \A g \in Flow : /\ Withdraws(g)' => Withdraws(g) \/ (g = f /\ a.op = "withdraw")
                        /\ Withdraws(g) => g # f
    BY <2>1, <2>3, <2>5
  <2>9. OneWithdrawal'
    <3> HIDE DEF Withdraws
    <3> QED BY <2>4, <2>8, Zenon DEF OneWithdrawal
  <2>10. TwoSeen'
    <3> SUFFICES ASSUME NEW g \in Flow, flowPc'[g] = "save", Withdraws(g)', saw'[g],
                        dialect = "postgresql" \/ ~crossed'
                 PROVE  \E u, v \in admins : /\ u # v
                                             /\ dialect = "postgresql"
                                                  => locks[u] = g /\ locks[v] = g
      BY <2>1 DEF TwoSeen
    <3>1. g # f /\ flowPc[g] = "save" /\ Withdraws(g) /\ saw[g]
      BY <2>2, <2>3, <2>5
    <3> QED BY <2>4, <3>1 DEF TwoSeen
  <2> QED BY <2>6, <2>7, <2>9, <2>10
<1>2. ASSUME NEW f \in Flow, People!Finish(f), UNCHANGED <<dialect, asked, crossed>>,
             users \subseteq users', AnnouncedStored',
             users' \subseteq Member, admins' \subseteq users', notified' \in [Member -> Nat],
             dialect = "postgresql"
               => \A u \in admins \ admins' : locks[u] \in {None, f},
             \/ admins \subseteq admins'
             \/ flowPc[f] = "save" /\ Withdraws(f)
      PROVE  PeopleInv'
  <2>1. /\ flowPc' = [flowPc EXCEPT ![f] = "idle"] /\ ask' = [ask EXCEPT ![f] = None]
        /\ saw' = [saw EXCEPT ![f] = FALSE]
        /\ locks' = [u \in Member |-> IF locks[u] = f THEN None ELSE locks[u]]
    BY <1>2 DEF People!Finish
  <2>2. /\ \A g \in Flow \ {f} : /\ flowPc'[g] = flowPc[g] /\ ask'[g] = ask[g]
                                 /\ saw'[g] = saw[g]
        /\ flowPc'[f] = "idle"
        /\ \A u \in Member : locks[u] # f => locks'[u] = locks[u]
    BY <2>1 DEF People!TypeOK
  <2>3. People!TypeOK'
    BY <1>2, <2>1 DEF People!TypeOK
  <2>4. Asking' /\ OneWithdrawal'
    BY <1>2, <2>2 DEF Asking, OneWithdrawal
  <2>5. TwoSeen'
    <3> SUFFICES ASSUME NEW g \in Flow, flowPc'[g] = "save", Withdraws(g)', saw'[g],
                        dialect = "postgresql" \/ ~crossed
                 PROVE  \E u, v \in admins' : /\ u # v
                                              /\ dialect = "postgresql"
                                                   => locks'[u] = g /\ locks'[v] = g
      BY <1>2 DEF TwoSeen
    <3>1. g # f /\ flowPc[g] = "save" /\ Withdraws(g) /\ saw[g]
      BY <2>2
    <3>2. PICK u, v \in admins : u # v /\ (dialect = "postgresql" => locks[u] = g /\ locks[v] = g)
      BY <3>1 DEF TwoSeen
    <3>3. u \in admins' /\ v \in admins'
      BY <1>2, <3>1, <3>2 DEF OneWithdrawal, People!TypeOK
    <3>4. u \in Member /\ v \in Member
      BY DEF People!TypeOK
    <3> QED BY <2>2, <3>1, <3>2, <3>3, <3>4
  <2> QED BY <1>2, <2>3, <2>4, <2>5
<1>3. ASSUME NEW f \in Flow, People!CountAdmins(f) PROVE PeopleInv'
  <2>1. CASE People!Cardinality(admins) <= 1
    BY <1>2, <1>3, <2>1 DEF People!CountAdmins, AnnouncedStored, People!TypeOK
  <2>2. CASE ~(People!Cardinality(admins) <= 1)
    <3>1. \E u, v \in admins : u # v
      <4>1. IsFiniteSet(admins)
        BY FS_Subset DEF People!TypeOK
      <4> QED BY <2>2, <4>1, TwoOf
    <3>2. /\ flowPc[f] = "count" /\ flowPc' = [flowPc EXCEPT ![f] = "save"]
          /\ dialect = "postgresql" => \A u \in admins : locks[u] = None
          /\ locks' = IF dialect = "postgresql"
                      THEN [u \in Member |-> IF u \in admins THEN f ELSE locks[u]] ELSE locks
          /\ UNCHANGED <<ask, saw, dialect, users, admins, notified, asked, crossed>>
      BY <1>3, <2>2 DEF People!CountAdmins
    <3>3. /\ \A g \in Flow \ {f} : flowPc'[g] = flowPc[g]
          /\ flowPc'[f] = "save" /\ Withdraws(f)
      BY <3>2 DEF People!TypeOK, Asking
    <3>4. People!TypeOK'
      BY <3>2 DEF People!TypeOK
    <3>5. Asking' /\ OneWithdrawal' /\ AnnouncedStored'
      BY <3>2, <3>3 DEF Asking, OneWithdrawal, AnnouncedStored
    <3>6. TwoSeen'
      BY <3>1, <3>2, <3>3 DEF TwoSeen, OneWithdrawal, People!TypeOK
    <3> QED BY <3>4, <3>5, <3>6
  <2> QED BY <2>1, <2>2
<1>4. ASSUME NEW f \in Flow, People!SaveFlag(f) PROVE PeopleInv'
  <2>1. /\ flowPc[f] = "save" /\ ask[f] \in People!Ask /\ ask[f].target \in users
        /\ People!Finish(f) /\ UNCHANGED <<dialect, users, notified, asked, crossed>>
    BY <1>4 DEF People!SaveFlag, Asking
  <2>2. CASE ask[f].op = "withdraw" /\ saw[f]
    BY <1>2, <1>4, <2>1, <2>2 DEF People!SaveFlag, AnnouncedStored, People!TypeOK
  <2>3. CASE ~(ask[f].op = "withdraw" /\ saw[f])
    <3>1. admins \subseteq admins' /\ admins' \subseteq users
      BY <1>4, <2>1, <2>3 DEF People!SaveFlag, People!TypeOK
    <3> QED BY <1>2, <2>1, <3>1 DEF AnnouncedStored, People!TypeOK
  <2> QED BY <2>2, <2>3
<1>5. ASSUME NEW f \in Flow, People!SaveUser(f) PROVE PeopleInv'
  <2>1. ask[f].target \in Member /\ People!Finish(f)
    BY <1>5 DEF People!SaveUser, Asking, People!Ask
  <2>2. users \subseteq users' /\ users' \subseteq Member /\ admins' \subseteq users'
    BY <1>5, <2>1 DEF People!SaveUser, People!TypeOK
  <2>3. notified' \in [Member -> Nat]
    BY <1>5, <2>1 DEF People!SaveUser, People!TypeOK
  <2>4. AnnouncedStored'
    <3>1. CASE notified' = notified
      BY <2>2, <3>1 DEF AnnouncedStored
    <3>2. CASE notified' # notified
      <4>1. /\ ask[f].target \notin users /\ ask[f].target \in users'
            /\ notified' = [notified EXCEPT ![ask[f].target] = @ + 1]
        BY <1>5, <3>2 DEF People!SaveUser
      <4>2. notified[ask[f].target] = 0 /\ notified'[ask[f].target] = 1
        BY <2>1, <4>1 DEF AnnouncedStored, People!TypeOK
      <4>3. \A u \in Member : u # ask[f].target => notified'[u] = notified[u]
        BY <4>1 DEF People!TypeOK
      <4> QED BY <2>2, <4>1, <4>2, <4>3 DEF AnnouncedStored
    <3> QED BY <3>1, <3>2
  <2> QED BY <1>2, <1>5, <2>1, <2>2, <2>3, <2>4 DEF People!SaveUser
<1>6. ASSUME NEW f \in Flow, People!Fails(f) PROVE PeopleInv'
  BY <1>2, <1>6 DEF People!Fails, AnnouncedStored, People!TypeOK
<1>7. ASSUME People!Over \/ UNCHANGED People!vars PROVE PeopleInv'
  BY <1>7 DEF People!Over, People!vars, People!TypeOK, Asking, OneWithdrawal, TwoSeen,
              AnnouncedStored
<1> QED BY <1>1, <1>3, <1>4, <1>5, <1>6, <1>7 DEF People!Next

LEMMA PeopleSpecInv == People!Spec => []PeopleInv
BY PeopleInitInv, PeopleStepInv, PTL DEF People!Spec

\* Only the commit of a withdrawal takes a flag away, and it has seen two.
LEMMA AdminLeft ==
  PeopleInv /\ [People!Next]_People!vars
    => (admins # {} => admins' # {} \/ (dialect = "sqlite" /\ crossed))
<1> SUFFICES ASSUME PeopleInv, [People!Next]_People!vars, admins # {}, admins' = {}
             PROVE  dialect = "sqlite" /\ crossed
  OBVIOUS
<1>1. PICK f \in Flow : People!SaveFlag(f)
  BY DEF People!Next, People!vars, People!Begin, People!CountAdmins, People!SaveUser,
         People!Fails, People!Over
<1>2. /\ flowPc[f] = "save" /\ ask[f].op = "withdraw" /\ saw[f]
      /\ admins \ {ask[f].target} = {}
  BY <1>1 DEF People!SaveFlag, PeopleInv, Asking
<1> QED
  BY <1>2 DEF PeopleInv, TwoSeen, Withdraws, People!TypeOK
-----------------------------------------------------------------------------
(* Recovery and Pool: what RefreshLifecycleProofs and UnitOfWorkProofs prove *)
(* of every instance of their modules.                                       *)

Lifecycle == INSTANCE RefreshLifecycleProofs WITH Flow <- Worker, pc <- taskPc, kind <- task

Sessions == INSTANCE UnitOfWorkProofs WITH Home <- PoolHome

LEMMA RecoveryCarried == Recovery!Spec => Lifecycle!Spec
<1>1. Recovery!Init => Lifecycle!Init
  BY DEF Recovery!Init, Lifecycle!Init
<1>2. [Recovery!Next]_Recovery!vars => [Lifecycle!Next]_Lifecycle!vars
  <2>1. ASSUME NEW f \in Worker, Recovery!Request(f) PROVE Lifecycle!Request(f)
    BY <2>1
    DEF Recovery!Request, Lifecycle!Request, Recovery!SinglePost, Lifecycle!SinglePost,
        Recovery!AllPost, Lifecycle!AllPost, Recovery!AddPost, Lifecycle!AddPost,
        Recovery!EditPost, Lifecycle!EditPost, Recovery!Load, Lifecycle!Load,
        Recovery!Goto, Lifecycle!Goto, Recovery!Leased, Lifecycle!Leased,
        Recovery!SweepStale, Lifecycle!SweepStale, Recovery!Stale, Lifecycle!Stale,
        Recovery!db, Lifecycle!db, Recovery!mem, Lifecycle!mem
  <2>2. ASSUME NEW f \in Worker, Recovery!Handler(f) PROVE Lifecycle!Handler(f)
    BY <2>2
    DEF Recovery!Handler, Lifecycle!Handler, Recovery!SingleCheck, Lifecycle!SingleCheck,
        Recovery!AllCheck, Lifecycle!AllCheck, Recovery!AllList, Lifecycle!AllList,
        Recovery!MarkLoad, Lifecycle!MarkLoad, Recovery!Mark, Lifecycle!Mark,
        Recovery!RequestEnds, Lifecycle!RequestEnds, Recovery!Load, Lifecycle!Load,
        Recovery!Finish, Lifecycle!Finish, Recovery!Goto, Lifecycle!Goto, Recovery!Leased,
        Lifecycle!Leased, Recovery!Stale, Lifecycle!Stale, Recovery!SweepStale,
        Lifecycle!SweepStale, Recovery!db, Lifecycle!db, Recovery!mem, Lifecycle!mem
  <2>3. ASSUME NEW f \in Worker, Recovery!Task(f) PROVE Lifecycle!Task(f)
    BY <2>3
    DEF Recovery!Task, Lifecycle!Task, Recovery!SingleLoad, Lifecycle!SingleLoad,
        Recovery!SingleDone, Lifecycle!SingleDone, Recovery!AllLoad, Lifecycle!AllLoad,
        Recovery!AllGroup, Lifecycle!AllGroup, Recovery!AllPhases, Lifecycle!AllPhases,
        Recovery!TaskFails, Lifecycle!TaskFails, Recovery!CloseLoad, Lifecycle!CloseLoad,
        Recovery!CloseWrite, Lifecycle!CloseWrite, Recovery!CloseFails, Lifecycle!CloseFails,
        Recovery!WriteClear, Lifecycle!WriteClear, Recovery!Load, Lifecycle!Load,
        Recovery!Finish, Lifecycle!Finish, Recovery!Goto, Lifecycle!Goto, Recovery!Leased,
        Lifecycle!Leased, Recovery!db, Lifecycle!db, Recovery!mem, Lifecycle!mem
  <2>4. ASSUME NEW p \in Pos, Recovery!Delete(p) PROVE Lifecycle!Delete(p)
    BY <2>4 DEF Recovery!Delete, Lifecycle!Delete, Recovery!mem, Lifecycle!mem
  <2>5. ASSUME Recovery!PortfolioView PROVE Lifecycle!PortfolioView
    BY <2>5
    DEF Recovery!PortfolioView, Lifecycle!PortfolioView, Recovery!SweepStale,
        Lifecycle!SweepStale, Recovery!Stale, Lifecycle!Stale, Recovery!mem, Lifecycle!mem
  <2>6. ASSUME Recovery!Crash \/ Recovery!Startup \/ Recovery!Tick
        PROVE  Lifecycle!Crash \/ Lifecycle!Startup \/ Lifecycle!Tick
    BY <2>6
    DEF Recovery!Crash, Lifecycle!Crash, Recovery!Startup, Lifecycle!Startup, Recovery!Tick,
        Lifecycle!Tick, Recovery!SweepStale, Lifecycle!SweepStale, Recovery!Stale,
        Lifecycle!Stale, Recovery!mem, Lifecycle!mem, Recovery!db, Lifecycle!db
  <2>7. Recovery!Next => Lifecycle!Next
    BY <2>1, <2>2, <2>3, <2>4, <2>5, <2>6, Zenon DEF Recovery!Next, Lifecycle!Next
  <2> QED
    BY <2>7 DEF Recovery!vars, Lifecycle!vars, Recovery!db, Lifecycle!db, Recovery!mem,
                Lifecycle!mem
<1> QED BY <1>1, <1>2, PTL DEF Recovery!Spec, Lifecycle!Spec

LEMMA RecoveryTypes == Recovery!Spec => []Recovery!TypeOK
<1>1. Lifecycle!TypeOK => Recovery!TypeOK
  BY DEF Lifecycle!TypeOK, Recovery!TypeOK, Lifecycle!PCs, Recovery!PCs, Lifecycle!Kinds,
         Recovery!Kinds
<1>2. Lifecycle!Spec => []Lifecycle!TypeOK
  BY RecoverySettings, Lifecycle!TypeCorrect
  DEF Recovery!StaleAfterAssumption, Recovery!NoneAssumption
<1> QED BY <1>1, <1>2, RecoveryCarried, PTL

LEMMA PoolInv == Pool!Spec => [](Pool!TypeOK /\ OwnSettingOrUndone)
<1>1. Pool!Init => Sessions!Init
  BY DEF Pool!Init, Sessions!Init, Pool!NoTx, Sessions!NoTx
<1>2. [Pool!Next]_Pool!vars => [Sessions!Next]_Sessions!vars
  BY DEF Pool!Next, Pool!vars, Pool!Begin, Pool!Commit, Pool!Rollback, Pool!Reconnect,
         Pool!Replace, Pool!Open, Pool!Busy, Pool!Latched, Pool!NoTx,
         Sessions!Next, Sessions!vars, Sessions!Begin, Sessions!Commit, Sessions!Rollback,
         Sessions!Reconnect, Sessions!Replace, Sessions!Open, Sessions!Busy, Sessions!Latched,
         Sessions!NoTx
<1>3. Sessions!IInv => Pool!TypeOK /\ OwnSettingOrUndone
  BY DEF Sessions!IInv, Sessions!TypeOK, Pool!TypeOK, Sessions!NoTx, Pool!NoTx,
         OwnSettingOrUndone, Pool!OwnSettingOrUndone, Sessions!OwnSettingOrUndone,
         Pool!Open, Sessions!Open
<1>4. Sessions!Spec => []Sessions!IInv
  BY PoolSettings, Sessions!InductiveInvariant DEF Pool!PoolAssumption, Sessions!PoolAssumption
<1> QED BY <1>1, <1>2, <1>3, <1>4, PTL DEF Pool!Spec, Sessions!Spec

-----------------------------------------------------------------------------
(* Board.  A pair is changed by one request at a time unless the board has    *)
(* lost track of it; the page shows the pair as the database has it except    *)
(* between the server's change and the answer.  The heat of a card is always  *)
(* that of its chips.                                                         *)

LEMMA BoardBounds == IsFiniteSet(Position) /\ MaxSent \in Nat /\ None \notin Board!Request
BY BoardSettings DEF Board!BoardAssumption, Board!IsFiniteSet, IsFiniteSet

LEMMA BoardCardinality == \A S : Board!Cardinality(S) = Cardinality(S)
BY DEF Board!Cardinality, Cardinality

\* Each position of a set has one chip.
LEMMA ChipsOfSet ==
  ASSUME NEW t, NEW Q \in SUBSET Position
  PROVE  Cardinality({[theme |-> t, position |-> p, shown |-> p] : p \in Q}) = Cardinality(Q)
<1> DEFINE f == [p \in Q |-> [theme |-> t, position |-> p, shown |-> p]]
           C == {[theme |-> t, position |-> p, shown |-> p] : p \in Q}
<1>1. IsFiniteSet(Q)
  BY BoardBounds, FS_Subset
<1>2. f \in Bijection(Q, C)
  <2>1. f \in [Q -> C] /\ \A c \in C : \E p \in Q : f[p] = c
    OBVIOUS
  <2>2. ASSUME NEW p \in Q, NEW q \in Q, f[p] = f[q] PROVE p = q
    <3>1. f[p].position = p /\ f[q].position = q
      OBVIOUS
    <3> QED BY <2>2, <3>1
  <2> QED
    BY <2>1, <2>2, Zenon DEF Bijection, Injection, Surjection, IsInjective
<1> QED BY <1>1, <1>2, FS_Bijection DEF ExistsBijection

\* updateHeatIndicator computes what _compute_heat_level does, from chips that
\* stand for the positions of the theme and show them.
LEMMA HeatAgrees ==
  ASSUME NEW cs, cs \subseteq [theme : Theme, position : Position, shown : Position],
         NEW t \in Theme, NEW S \in SUBSET Position,
         \A p \in Position : p \in S <=> \E c \in cs : c.theme = t /\ c.position = p,
         \A c \in cs : c.theme = t => c.shown = c.position
  PROVE  Board!HeatOf(cs, t) = Board!ComputeHeatLevel(S)
<1> DEFINE Chip(p) == [theme |-> t, position |-> p, shown |-> p]
           on == {c \in cs : c.theme = t}
           Of(v) == {p \in S : VerdictOf[p] = v}
           Share(v) == {c \in on : VerdictOf[c.shown] = v}
<1>1. on = {Chip(p) : p \in S}
  <2>1. ASSUME NEW c \in on PROVE c.position \in S /\ c = Chip(c.position)
    BY <2>1
  <2>2. ASSUME NEW p \in S PROVE Chip(p) \in on
    <3>1. PICK c \in cs : c.theme = t /\ c.position = p
      OBVIOUS
    <3>2. c = Chip(p)
      BY <3>1
    <3> QED BY <3>1, <3>2
  <2> HIDE DEF on, Chip
  <2> QED BY <2>1, <2>2
<1>2. \A v : Share(v) = {Chip(p) : p \in Of(v)}
  <2> SUFFICES ASSUME NEW v PROVE Share(v) = {Chip(p) : p \in Of(v)}
    OBVIOUS
  <2>1. \A p : Chip(p).shown = p
    OBVIOUS
  <2> HIDE DEF on, Chip
  <2> QED BY <1>1, <2>1
<1>3. /\ Cardinality(on) = Cardinality(S)
      /\ \A v : Cardinality(Share(v)) = Cardinality(Of(v))
  <2>1. \A v : Of(v) \in SUBSET Position
    OBVIOUS
  <2>2. \A Q \in SUBSET Position : Cardinality({Chip(p) : p \in Q}) = Cardinality(Q)
    BY ChipsOfSet
  <2> HIDE DEF on, Chip, Share, Of
  <2> QED BY <1>1, <1>2, <2>1, <2>2, Zenon
<1>4. \A Q \in SUBSET Position : Cardinality(Q) \in Nat /\ (Cardinality(Q) = 0 <=> Q = {})
  BY BoardBounds, FS_Subset, FS_CardinalityType, FS_EmptySet
<1>5. /\ S \in SUBSET Position /\ Of("sell") \in SUBSET Position /\ Of("trim") \in SUBSET Position
      /\ on = {} <=> S = {}
      /\ Share("sell") = {} <=> Of("sell") = {}
      /\ Share("trim") = {} <=> Of("trim") = {}
  <2> HIDE DEF Chip, on, Share
  <2> QED BY <1>1, <1>2
<1>6. /\ Board!Count(S, "sell") = Cardinality(Of("sell"))
      /\ Board!Count(S, "trim") = Cardinality(Of("trim"))
  BY BoardCardinality DEF Board!Count
<1>7. Board!HeatOf(cs, t) =
        IF on = {} THEN 0
        ELSE IF Share("sell") # {}
             THEN (IF 2 * Cardinality(Share("sell")) >= Cardinality(on) THEN 5 ELSE 4)
        ELSE IF Share("trim") # {}
             THEN (IF 2 * Cardinality(Share("trim")) >= Cardinality(on) THEN 3 ELSE 2)
        ELSE 1
  BY BoardCardinality DEF Board!HeatOf
<1>8. Board!ComputeHeatLevel(S) =
        LET sell == Cardinality(Of("sell"))
            trim == Cardinality(Of("trim"))
            total == Cardinality(S) IN
        CASE total = 0 -> 0
          [] sell > 0  -> IF 2 * sell >= total THEN 5 ELSE 4
          [] sell = 0 /\ trim > 0 -> IF 2 * trim >= total THEN 3 ELSE 2
          [] OTHER -> 1
  BY <1>6, BoardCardinality DEF Board!ComputeHeatLevel
<1> HIDE DEF on, Of, Share
<1>9. CASE S = {}
  <2>1. Of("sell") = {} /\ Of("trim") = {}
    BY <1>9 DEF Of
  <2>2. /\ Cardinality(S) = 0 /\ on = {}
        /\ Cardinality(Of("sell")) = 0 /\ Cardinality(Of("trim")) = 0
    BY <1>4, <1>5, <1>9, <2>1
  <2>3. Board!HeatOf(cs, t) = 0
    BY <1>7, <2>2
  <2>4. Board!ComputeHeatLevel(S) = 0
    BY <1>8, <2>2
  <2> QED BY <2>3, <2>4
<1>10. CASE S # {} /\ Of("sell") # {}
  BY <1>3, <1>4, <1>5, <1>7, <1>8, <1>10
<1>11. CASE S # {} /\ Of("sell") = {} /\ Of("trim") # {}
  BY <1>3, <1>4, <1>5, <1>7, <1>8, <1>11
<1>12. CASE S # {} /\ Of("sell") = {} /\ Of("trim") = {}
  BY <1>4, <1>5, <1>7, <1>8, <1>12
<1> QED BY <1>9, <1>10, <1>11, <1>12

LEMMA HeatLevels ==
  /\ \A cs, t : Board!HeatOf(cs, t) \in 0..5
  /\ \A S \in SUBSET Position : Board!ComputeHeatLevel(S) \in 0..5
<1>1. \A cs, t : Board!HeatOf(cs, t) \in 0..5
  BY DEF Board!HeatOf
<1>2. ASSUME NEW S \in SUBSET Position PROVE Board!ComputeHeatLevel(S) \in 0..5
  <2> DEFINE sell == Board!Count(S, "sell")
             trim == Board!Count(S, "trim")
  <2>1. sell \in Nat
    <3>1. {p \in S : VerdictOf[p] = "sell"} \in SUBSET Position
      OBVIOUS
    <3> QED BY <3>1, BoardBounds, BoardCardinality, FS_Subset, FS_CardinalityType DEF Board!Count
  <2> HIDE DEF sell, trim
  <2>2. Board!ComputeHeatLevel(S) =
          CASE Board!Cardinality(S) = 0 -> 0
            [] sell > 0  -> IF 2 * sell >= Board!Cardinality(S) THEN 5 ELSE 4
            [] sell = 0 /\ trim > 0 -> IF 2 * trim >= Board!Cardinality(S) THEN 3 ELSE 2
            [] OTHER -> 1
    BY DEF Board!ComputeHeatLevel, sell, trim
  <2> QED BY <2>1, <2>2
<1> QED BY <1>1, <1>2

\* What portfolio_themes.html renders shows the associations T of the themes D.
Tagged(T, t) == {p \in Position : <<p, t>> \in T}

ChipsFor(T) == {[theme |-> pair[2], position |-> pair[1], shown |-> pair[1]] : pair \in T}

LEMMA RenderedPage ==
  ASSUME NEW D \in SUBSET Theme, NEW T \in SUBSET (Position \X D), NEW cs, cs = ChipsFor(T)
  PROVE  /\ cs \subseteq [theme : D, position : Position, shown : Position]
         /\ \A p \in Position, t \in Theme :
              <<p, t>> \in T <=> \E c \in cs : c.theme = t /\ c.position = p
         /\ \A t \in Theme : Board!HeatOf(cs, t) = Board!ComputeHeatLevel(Tagged(T, t))
<1>1. /\ cs \subseteq [theme : D, position : Position, shown : Position]
      /\ \A c \in cs : c.shown = c.position /\ <<c.position, c.theme>> \in T
  BY DEF ChipsFor
<1>2. ASSUME NEW p \in Position, NEW t \in Theme, <<p, t>> \in T
      PROVE  \E c \in cs : c.theme = t /\ c.position = p
  <2>1. [theme |-> t, position |-> p, shown |-> p] \in cs
    BY <1>2 DEF ChipsFor
  <2> QED BY <2>1
<1>3. \A p \in Position, t \in Theme :
        <<p, t>> \in T <=> \E c \in cs : c.theme = t /\ c.position = p
  BY <1>1, <1>2
<1>4. ASSUME NEW t \in Theme
      PROVE  Board!HeatOf(cs, t) = Board!ComputeHeatLevel(Tagged(T, t))
  <2>1. cs \subseteq [theme : Theme, position : Position, shown : Position]
    BY <1>1
  <2> DEFINE S == Tagged(T, t)
  <2>2. S \in SUBSET Position /\ \A p \in Position : p \in S <=> <<p, t>> \in T
    BY DEF Tagged
  <2> HIDE DEF S
  <2>3. /\ \A p \in Position : p \in S <=> \E c \in cs : c.theme = t /\ c.position = p
        /\ \A c \in cs : c.theme = t => c.shown = c.position
    BY <1>1, <1>3, <2>2
  <2>4. Board!HeatOf(cs, t) = Board!ComputeHeatLevel(S)
    BY <2>1, <2>2, <2>3, HeatAgrees
  <2> QED BY <2>4 DEF S
<1> QED BY <1>1, <1>3, <1>4

\* A request whose answer the page awaits is about a card, and a drop takes
\* what its chip shows from the drag state; the others have been written off.
OursKept ==
  \A s \in Slot : sent[s] # None =>
    IF sent[s].ours
    THEN sent[s].theme \in cards /\ (sent[s].op = "drop" => drag.shown \in Position)
    ELSE sent[s].stage = "sent" /\ Board!PairOf(sent[s]) \in unsure

OneAsked ==
  \A r, s \in Slot :
    sent[r] # None /\ sent[s] # None /\ Board!PairOf(sent[r]) = Board!PairOf(sent[s]) =>
      r = s \/ Board!PairOf(sent[s]) \in unsure

HeatKept == \A t \in cards : heat[t] = Board!HeatOf(chips, t)

\* The changes of a pair that the server has made and the page has not.
Applied(p, t) ==
  {s \in Slot : sent[s] # None /\ Board!PairOf(sent[s]) = <<p, t>> /\ sent[s].stage = "ok"}

ChipOn(p, t) == \E c \in chips : c.theme = t /\ c.position = p

PairsKept ==
  \A p \in Position, t \in Theme : <<p, t>> \notin unsure =>
    /\ \A s \in Applied(p, t) : <<p, t>> \in tagged <=> sent[s].op # "remove"
    /\ Applied(p, t) = {} => /\ <<p, t>> \in tagged <=> ChipOn(p, t)
                             /\ <<p, t>> \in tagged <=> t \in tray[p]

BoardInv == Board!TypeOK /\ OursKept /\ OneAsked /\ HeatKept /\ PairsKept

LEMMA BoardInitInv == Board!Init => BoardInv
<1> SUFFICES ASSUME Board!Init PROVE BoardInv
  OBVIOUS
<1>1. /\ themes \in SUBSET Theme /\ unused = Theme \ themes /\ cards = themes
      /\ tagged \in SUBSET (Position \X themes)
      /\ heat = [t \in Theme |-> Board!ComputeHeatLevel(Board!InTheme(t))]
      /\ tray = [p \in Position |-> Board!ThemesOf(p)]
      /\ chips = {[theme |-> pair[2], position |-> pair[1], shown |-> pair[1]] : pair \in tagged}
      /\ sent = [s \in Slot |-> None] /\ drag = Board!NoDrag /\ changes = 0 /\ unsure = {}
  BY DEF Board!Init
<1>2. /\ chips \subseteq [theme : cards, position : Position, shown : Position]
      /\ \A p \in Position, t \in Theme : <<p, t>> \in tagged <=> ChipOn(p, t)
      /\ \A t \in Theme : Board!HeatOf(chips, t) = heat[t]
  <2>1. \A t \in Theme : heat[t] = Board!ComputeHeatLevel(Tagged(tagged, t))
    BY <1>1 DEF Board!InTheme, Tagged
  <2>2. /\ chips \subseteq [theme : themes, position : Position, shown : Position]
        /\ \A p \in Position, t \in Theme :
             <<p, t>> \in tagged <=> \E c \in chips : c.theme = t /\ c.position = p
        /\ \A t \in Theme : Board!HeatOf(chips, t)
                              = Board!ComputeHeatLevel(Tagged(tagged, t))
    <3>1. themes \in SUBSET Theme /\ tagged \in SUBSET (Position \X themes)
      BY <1>1
    <3>2. chips = ChipsFor(tagged)
      BY <1>1 DEF ChipsFor
    <3> QED BY <3>1, <3>2, RenderedPage
  <2> QED BY <1>1, <2>1, <2>2 DEF ChipOn
<1>3. Board!TypeOK
  <2>1. heat \in [Theme -> 0..5] /\ tray \in [Position -> SUBSET Theme]
    BY <1>1, HeatLevels DEF Board!InTheme, Board!ThemesOf
  <2> QED BY <1>1, <1>2, <2>1, BoardBounds DEF Board!TypeOK
<1>4. OursKept /\ OneAsked
  BY <1>1 DEF OursKept, OneAsked
<1>5. HeatKept
  BY <1>1, <1>2 DEF HeatKept
<1>6. PairsKept
  BY <1>1, <1>2 DEF PairsKept, Applied, Board!ThemesOf
<1> QED BY <1>3, <1>4, <1>5, <1>6 DEF BoardInv

\* Loading the page again brings it in step with the database.
LEMMA LoadedInv ==
  ASSUME BoardInv, Board!Rendered, Board!Left, UNCHANGED <<unused, changes>>,
         themes' \subseteq themes, tagged' \in SUBSET (Position \X themes')
  PROVE  BoardInv'
<1>1. /\ themes \in SUBSET Theme /\ themes' \in SUBSET Theme /\ cards' = themes'
      /\ unused' \subseteq Theme \ themes'
      /\ heat' = [t \in Theme |-> Board!ComputeHeatLevel(Tagged(tagged', t))]
      /\ tray' = [p \in Position |-> {t \in Theme : <<p, t>> \in tagged'}]
      /\ chips' = {[theme |-> pair[2], position |-> pair[1], shown |-> pair[1]] : pair \in tagged'}
      /\ drag' = Board!NoDrag
  BY DEF Board!Rendered, Board!Left, BoardInv, Board!TypeOK, Tagged
<1>2. /\ chips' \subseteq [theme : cards', position : Position, shown : Position]
      /\ \A p \in Position, t \in Theme : <<p, t>> \in tagged' <=> ChipOn(p, t)'
      /\ \A t \in Theme : Board!HeatOf(chips', t)
                            = Board!ComputeHeatLevel(Tagged(tagged', t))
  <2>1. /\ chips' \subseteq [theme : themes', position : Position, shown : Position]
        /\ \A p \in Position, t \in Theme :
             <<p, t>> \in tagged' <=> \E c \in chips' : c.theme = t /\ c.position = p
        /\ \A t \in Theme : Board!HeatOf(chips', t)
                              = Board!ComputeHeatLevel(Tagged(tagged', t))
    <3>1. themes' \in SUBSET Theme /\ tagged' \in SUBSET (Position \X themes')
      BY <1>1
    <3>2. chips' = ChipsFor(tagged')
      BY <1>1 DEF ChipsFor
    <3>3. PICK D, T, cs : D = themes' /\ T = tagged' /\ cs = chips'
      OBVIOUS
    <3>4. /\ cs \subseteq [theme : D, position : Position, shown : Position]
          /\ \A p \in Position, t \in Theme :
               <<p, t>> \in T <=> \E c \in cs : c.theme = t /\ c.position = p
          /\ \A t \in Theme : Board!HeatOf(cs, t) = Board!ComputeHeatLevel(Tagged(T, t))
      <4>1. D \in SUBSET Theme /\ T \in SUBSET (Position \X D)
        BY <3>1, <3>3
      <4>2. cs = ChipsFor(T)
        BY <3>2, <3>3
      <4>3. cs \subseteq [theme : D, position : Position, shown : Position]
        BY <4>1, <4>2, RenderedPage
      <4>4. ASSUME NEW p \in Position, NEW t \in Theme
            PROVE  <<p, t>> \in T <=> \E c \in cs : c.theme = t /\ c.position = p
        BY <4>1, <4>2, RenderedPage
      <4>5. \A t \in Theme : Board!HeatOf(cs, t) = Board!ComputeHeatLevel(Tagged(T, t))
        BY <4>1, <4>2, RenderedPage
      <4> QED BY <4>3, <4>4, <4>5
    <3> QED BY <3>3, <3>4, Zenon
  <2> QED BY <1>1, <2>1 DEF ChipOn
<1>3. \A s \in Slot : sent'[s] # None =>
        /\ sent[s] # None /\ sent[s] \in Board!Request
        /\ sent'[s] = [sent[s] EXCEPT !.ours = FALSE]
        /\ sent'[s].stage = "sent" /\ ~sent'[s].ours
        /\ Board!PairOf(sent'[s]) \in unsure'
  BY BoardBounds
  DEF Board!Left, Board!UnderWay, Board!PairOf, BoardInv, Board!TypeOK, Board!Request
<1>4. Board!TypeOK'
  <2>1. heat' \in [Theme -> 0..5] /\ tray' \in [Position -> SUBSET Theme]
    BY <1>1, HeatLevels DEF Tagged
  <2>2. sent' \in [Slot -> Board!Request \cup {None}]
    <3>1. \A s \in Slot : sent'[s] # None => sent'[s] \in Board!Request
      BY <1>3 DEF Board!Request
    <3>2. sent' = [s \in Slot |-> sent'[s]]
      BY DEF Board!Left
    <3> QED BY <3>1, <3>2
  <2>3. unsure' \subseteq Board!Pairs
    BY BoardBounds
    DEF Board!Left, Board!UnderWay, Board!PairOf, BoardInv, Board!TypeOK, Board!Request,
        Board!Pairs
  <2>4. changes' \in 0..MaxSent
    BY DEF BoardInv, Board!TypeOK
  <2> QED BY <1>1, <1>2, <2>1, <2>2, <2>3, <2>4 DEF Board!TypeOK, Board!NoDrag
<1>5. OursKept' /\ OneAsked'
  BY <1>3 DEF OursKept, OneAsked
<1>6. HeatKept'
  BY <1>1, <1>2 DEF HeatKept
<1>7. PairsKept'
  <2>1. \A p \in Position, t \in Theme : Applied(p, t)' = {}
    BY <1>3 DEF Applied
  <2> QED BY <1>1, <1>2, <2>1 DEF PairsKept
<1> QED BY <1>4, <1>5, <1>6, <1>7 DEF BoardInv

\* What a step leaves alone stays in step: it has to be shown only for pairs
\* whose request or associations the step touches.
LEMMA PairsFrame ==
  ASSUME PairsKept, unsure \subseteq unsure',
         \A p \in Position, t \in Theme : <<p, t>> \notin unsure' =>
           \/ /\ Applied(p, t)' = Applied(p, t)
              /\ \A s \in Applied(p, t) : sent'[s] = sent[s]
              /\ <<p, t>> \in tagged' <=> <<p, t>> \in tagged
              /\ ChipOn(p, t)' <=> ChipOn(p, t)
              /\ t \in tray'[p] <=> t \in tray[p]
           \/ /\ \A s \in Applied(p, t)' : <<p, t>> \in tagged' <=> sent'[s].op # "remove"
              /\ Applied(p, t)' = {} => /\ <<p, t>> \in tagged' <=> ChipOn(p, t)'
                                        /\ <<p, t>> \in tagged' <=> t \in tray'[p]
  PROVE  PairsKept'
<1> SUFFICES ASSUME NEW p \in Position, NEW t \in Theme, <<p, t>> \notin unsure'
             PROVE  /\ \A s \in Applied(p, t)' : <<p, t>> \in tagged' <=> sent'[s].op # "remove"
                    /\ Applied(p, t)' = {} => /\ <<p, t>> \in tagged' <=> ChipOn(p, t)'
                                              /\ <<p, t>> \in tagged' <=> t \in tray'[p]
  BY Zenon DEF PairsKept
<1>1. /\ \A s \in Applied(p, t) : <<p, t>> \in tagged <=> sent[s].op # "remove"
      /\ Applied(p, t) = {} => /\ <<p, t>> \in tagged <=> ChipOn(p, t)
                               /\ <<p, t>> \in tagged <=> t \in tray[p]
  BY DEF PairsKept
<1> HIDE DEF Applied, ChipOn
<1> QED BY <1>1

LEMMA SendInv ==
  ASSUME BoardInv, NEW s \in Slot, NEW op \in {"drop", "assign", "remove"},
         NEW p \in Position, NEW t \in cards, Board!Send(s, op, p, t),
         UNCHANGED <<Board!server, Board!page>>,
         drag' \in [position : Position, shown : Position, active : BOOLEAN] \cup {Board!NoDrag},
         drag'.shown = drag.shown, op = "drop" => drag.shown \in Position
  PROVE  BoardInv'
<1> DEFINE r == [op |-> op, position |-> p, theme |-> t, stage |-> "sent", ours |-> TRUE]
<1>1. /\ sent[s] = None /\ changes < MaxSent /\ changes' = changes + 1
      /\ sent' = [sent EXCEPT ![s] = r]
      /\ UNCHANGED <<themes, unused, tagged, cards, chips, heat, tray>>
  BY DEF Board!Send, Board!server, Board!page
<1>2. /\ unsure \subseteq unsure' /\ unsure' \subseteq unsure \cup {<<p, t>>}
      /\ \A o \in Slot : sent[o] # None /\ Board!PairOf(sent[o]) = <<p, t>> => <<p, t>> \in unsure'
  <2>1. \/ /\ \E o \in Board!UnderWay : Board!PairOf(sent[o]) = <<p, t>>
           /\ unsure' = unsure \cup {<<p, t>>}
        \/ /\ ~\E o \in Board!UnderWay : Board!PairOf(sent[o]) = <<p, t>>
           /\ unsure' = unsure
    BY Zenon DEF Board!Send
  <2> QED BY <2>1 DEF Board!UnderWay
<1>3. /\ r \in Board!Request /\ r # None /\ t \in Theme /\ Board!PairOf(r) = <<p, t>>
      /\ r.ours /\ r.stage = "sent" /\ r.op = op /\ r.theme = t
      /\ sent'[s] = r /\ \A o \in Slot \ {s} : sent'[o] = sent[o]
  <2>1. r \in Board!Request /\ t \in Theme
    BY DEF BoardInv, Board!TypeOK, Board!Request
  <2>2. /\ Board!PairOf(r) = <<p, t>> /\ r.ours /\ r.stage = "sent" /\ r.op = op /\ r.theme = t
    BY DEF Board!PairOf
  <2>3. sent'[s] = r /\ \A o \in Slot \ {s} : sent'[o] = sent[o]
    BY <1>1 DEF BoardInv, Board!TypeOK
  <2> QED BY <2>1, <2>2, <2>3, BoardBounds
<1> HIDE DEF r
<1>4. Board!TypeOK'
  <2>1. sent' \in [Slot -> Board!Request \cup {None}] /\ unsure' \subseteq Board!Pairs
    BY <1>1, <1>2, <1>3 DEF BoardInv, Board!TypeOK, Board!Pairs
  <2> QED BY <1>1, <2>1, BoardBounds DEF BoardInv, Board!TypeOK
<1>5. OursKept'
  BY <1>1, <1>2, <1>3 DEF BoardInv, OursKept
<1>6. OneAsked'
  <2> SUFFICES ASSUME NEW q \in Slot, NEW o \in Slot, sent'[q] # None, sent'[o] # None,
                      Board!PairOf(sent'[q]) = Board!PairOf(sent'[o]), q # o,
                      Board!PairOf(sent'[o]) \notin unsure'
               PROVE  FALSE
    BY Zenon DEF OneAsked
  <2>1. CASE q # s /\ o # s
    BY <1>2, <1>3, <2>1 DEF BoardInv, OneAsked
  <2>2. CASE q = s \/ o = s
    BY <1>1, <1>2, <1>3, <2>2
  <2> QED BY <2>1, <2>2
<1>7. HeatKept'
  BY <1>1 DEF BoardInv, HeatKept
<1>8. PairsKept'
  <2>1. ASSUME NEW a \in Position, NEW b \in Theme
        PROVE  /\ Applied(a, b)' = Applied(a, b) /\ ChipOn(a, b)' = ChipOn(a, b)
               /\ \A o \in Applied(a, b) : sent'[o] = sent[o]
    BY <1>1, <1>2, <1>3 DEF Applied, ChipOn
  <2> HIDE DEF Applied, ChipOn
  <2> QED BY <1>1, <1>2, <2>1, PairsFrame DEF BoardInv
<1> QED BY <1>4, <1>5, <1>6, <1>7, <1>8 DEF BoardInv

\* A request that is over, and one the server has answered.
LEMMA AnswerFrame ==
  ASSUME BoardInv, NEW s \in Slot, sent[s] # None, NEW stage \in {"ok", "failed"},
         \/ sent' = [sent EXCEPT ![s] = None]
         \/ sent[s].stage = "sent" /\ sent' = Board!Answered(s, stage),
         unsure \subseteq unsure', cards' = cards, drag' = drag
  PROVE  /\ sent' \in [Slot -> Board!Request \cup {None}]
         /\ OursKept' /\ OneAsked'
         /\ \A o \in Slot \ {s} : sent'[o] = sent[o]
         /\ sent'[s] # None => /\ sent'[s].op = sent[s].op /\ sent'[s].stage = stage
                               /\ Board!PairOf(sent'[s]) = Board!PairOf(sent[s])
<1>1. sent[s] \in Board!Request /\ sent \in [Slot -> Board!Request \cup {None}]
  BY DEF BoardInv, Board!TypeOK
<1>2. /\ sent' \in [Slot -> Board!Request \cup {None}]
      /\ \A o \in Slot \ {s} : sent'[o] = sent[o]
      /\ sent'[s] # None => /\ sent'[s].op = sent[s].op /\ sent'[s].stage = stage
                            /\ sent'[s].ours /\ sent[s].ours
                            /\ sent'[s].position = sent[s].position
                            /\ sent'[s].theme = sent[s].theme
  BY <1>1 DEF Board!Answered, Board!Request
<1>3. sent'[s] # None => Board!PairOf(sent'[s]) = Board!PairOf(sent[s])
  BY <1>2 DEF Board!PairOf
<1>4. OursKept'
  BY <1>2, <1>3 DEF BoardInv, OursKept
<1>5. OneAsked'
  <2>1. \A o \in Slot : sent'[o] # None =>
          sent[o] # None /\ Board!PairOf(sent'[o]) = Board!PairOf(sent[o])
    BY <1>2, <1>3
  <2> QED BY <2>1 DEF BoardInv, OneAsked
<1> QED BY <1>2, <1>3, <1>4, <1>5

\* The server's answer: only the pair of the request changes, and the page
\* waits for it unless the board has lost track of the pair.
LEMMA HandleInv == ASSUME BoardInv, NEW s \in Slot, Board!Handle(s) PROVE BoardInv'
<1> DEFINE pair == Board!PairOf(sent[s])
           found == IF sent[s].op = "remove" THEN pair \in tagged ELSE sent[s].theme \in themes
<1>1. /\ sent[s] # None /\ sent[s].stage = "sent"
      /\ tagged' = IF ~found THEN tagged
                   ELSE IF sent[s].op = "remove" THEN tagged \ {pair} ELSE tagged \cup {pair}
      /\ sent' = Board!Answered(s, IF found THEN "ok" ELSE "failed")
      /\ UNCHANGED <<themes, unused, cards, chips, heat, tray, drag, changes, unsure>>
  BY DEF Board!Handle, Board!UnderWay, Board!page
<1>2. /\ sent[s] \in Board!Request /\ pair \in Position \X Theme
      /\ sent[s].op # "remove" /\ found => pair \in Position \X themes
  BY <1>1 DEF BoardInv, Board!TypeOK, Board!Request, Board!PairOf
<1>3. (IF found THEN "ok" ELSE "failed") \in {"ok", "failed"}
  OBVIOUS
<1> HIDE DEF pair, found
<1>4. /\ sent' \in [Slot -> Board!Request \cup {None}]
      /\ OursKept' /\ OneAsked'
      /\ \A o \in Slot \ {s} : sent'[o] = sent[o]
      /\ sent'[s] # None => /\ sent'[s].op = sent[s].op
                            /\ sent'[s].stage = IF found THEN "ok" ELSE "failed"
                            /\ Board!PairOf(sent'[s]) = pair
  BY <1>1, <1>3, AnswerFrame DEF pair
<1>5. Board!TypeOK'
  <2>1. tagged' \subseteq Position \X themes
    BY <1>1, <1>2 DEF BoardInv, Board!TypeOK
  <2> QED BY <1>1, <1>4, <2>1 DEF BoardInv, Board!TypeOK
<1>6. HeatKept'
  BY <1>1 DEF BoardInv, HeatKept
<1>7. PairsKept'
  <2>1. ASSUME NEW p \in Position, NEW t \in Theme, <<p, t>> # pair
        PROVE  /\ Applied(p, t)' = Applied(p, t) /\ ChipOn(p, t)' = ChipOn(p, t)
               /\ \A o \in Applied(p, t) : sent'[o] = sent[o]
               /\ <<p, t>> \in tagged' <=> <<p, t>> \in tagged
    BY <1>1, <1>4, <2>1 DEF Applied, ChipOn, pair
  <2>2. ASSUME NEW p \in Position, NEW t \in Theme, <<p, t>> = pair, <<p, t>> \notin unsure
        PROVE  /\ \A o \in Applied(p, t)' : <<p, t>> \in tagged' <=> sent'[o].op # "remove"
               /\ Applied(p, t)' = {} => /\ <<p, t>> \in tagged' <=> ChipOn(p, t)'
                                         /\ <<p, t>> \in tagged' <=> t \in tray'[p]
    <3>1. \A o \in Slot : sent[o] # None /\ Board!PairOf(sent[o]) = <<p, t>> => o = s
      BY <1>1, <2>2 DEF BoardInv, OneAsked, pair
    <3>2. Applied(p, t) = {}
      BY <1>1, <3>1 DEF Applied
    <3>3. /\ <<p, t>> \in tagged <=> ChipOn(p, t)
          /\ <<p, t>> \in tagged <=> t \in tray[p]
      BY <2>2, <3>2 DEF BoardInv, PairsKept
    <3>4. sent'[s] # None
      <4>1. sent[s].ours
        BY <1>1, <2>2 DEF BoardInv, OursKept, pair
      <4>2. sent'[s] = [sent[s] EXCEPT !.stage = IF found THEN "ok" ELSE "failed"]
        BY <1>1, <4>1 DEF Board!Answered, BoardInv, Board!TypeOK
      <4>3. sent'[s] \in Board!Request
        BY <1>2, <1>3, <4>2 DEF Board!Request
      <4> QED BY <4>3, BoardBounds
    <3>5. ChipOn(p, t)' = ChipOn(p, t) /\ tray' = tray
      BY <1>1 DEF ChipOn
    <3>6. CASE found
      <4>1. s \in Applied(p, t)'
        BY <1>4, <2>2, <3>4, <3>6 DEF Applied
      <4>2. \A o \in Applied(p, t)' : o = s
        BY <1>4, <3>1 DEF Applied
      <4>3. <<p, t>> \in tagged' <=> sent'[s].op # "remove"
        BY <1>1, <1>4, <2>2, <3>4, <3>6
      <4> QED BY <4>1, <4>2, <4>3
    <3>7. CASE ~found
      <4>1. Applied(p, t)' = {}
        BY <1>4, <3>1, <3>7 DEF Applied
      <4> QED BY <1>1, <3>3, <3>5, <3>7, <4>1
    <3> QED BY <3>6, <3>7
  <2> HIDE DEF Applied, ChipOn
  <2>3. unsure' = unsure /\ tray' = tray
    BY <1>1
  <2> QED BY <2>1, <2>2, <2>3, PairsFrame DEF BoardInv
<1> QED BY <1>4, <1>5, <1>6, <1>7 DEF BoardInv

\* A request without effect on the page: it failed, or the answer was lost.
LEMMA DropInv ==
  ASSUME BoardInv, NEW s \in Slot, Board!Fails(s) \/ Board!AnswerLost(s) \/ Board!OnError(s)
  PROVE  BoardInv'
<1>1. /\ sent[s] # None
      /\ UNCHANGED <<themes, unused, tagged, cards, chips, heat, tray, drag, changes>>
      /\ \/ sent' = [sent EXCEPT ![s] = None]
         \/ sent[s].stage = "sent" /\ sent' = Board!Answered(s, "failed")
      /\ \/ sent[s].stage \in {"sent", "failed"} /\ unsure' = unsure
         \/ unsure' = unsure \cup {Board!PairOf(sent[s])}
  BY DEF Board!Fails, Board!AnswerLost, Board!OnError, Board!UnderWay, Board!server, Board!page
<1>2. unsure \subseteq unsure' /\ Board!PairOf(sent[s]) \in Position \X Theme
  BY <1>1 DEF BoardInv, Board!TypeOK, Board!Request, Board!PairOf
<1>3. /\ sent' \in [Slot -> Board!Request \cup {None}]
      /\ OursKept' /\ OneAsked'
      /\ \A o \in Slot \ {s} : sent'[o] = sent[o]
      /\ sent'[s] # None => /\ sent'[s].op = sent[s].op
                            /\ sent'[s].stage = "failed"
                            /\ Board!PairOf(sent'[s]) = Board!PairOf(sent[s])
  <2>1. "failed" \in {"ok", "failed"}
    OBVIOUS
  <2> QED BY <1>1, <1>2, <2>1, AnswerFrame
<1>4. Board!TypeOK'
  BY <1>1, <1>2, <1>3 DEF BoardInv, Board!TypeOK, Board!Pairs
<1>5. HeatKept'
  BY <1>1 DEF BoardInv, HeatKept
<1>6. PairsKept'
  <2>1. ASSUME NEW p \in Position, NEW t \in Theme, <<p, t>> \notin unsure'
        PROVE  /\ Applied(p, t)' = Applied(p, t) /\ ChipOn(p, t)' = ChipOn(p, t)
               /\ \A o \in Applied(p, t) : sent'[o] = sent[o]
    BY <1>1, <1>3, <2>1 DEF Applied, ChipOn
  <2> HIDE DEF Applied, ChipOn
  <2> QED BY <1>1, <1>2, <2>1, PairsFrame DEF BoardInv
<1> QED BY <1>3, <1>4, <1>5, <1>6 DEF BoardInv

\* The page applies an answer: card, tray and heat follow together.
PageFollows(s, p, t) ==
  /\ sent[s] # None /\ sent[s].stage = "ok" /\ sent[s].position = p /\ sent[s].theme = t
  /\ sent' = [sent EXCEPT ![s] = None]
  /\ UNCHANGED <<themes, unused, tagged, cards, drag, changes, unsure>>
  /\ chips' \subseteq [theme : cards, position : Position, shown : Position]
  /\ \A u \in Theme \ {t} : {c \in chips' : c.theme = u} = {c \in chips : c.theme = u}
  /\ \A q \in Position, u \in Theme :
       <<q, u>> # <<p, t>> => /\ ChipOn(q, u)' <=> ChipOn(q, u)
                              /\ u \in tray'[q] <=> u \in tray[q]
  /\ ChipOn(p, t)' <=> sent[s].op # "remove"
  /\ tray' \in [Position -> SUBSET Theme]
  /\ t \in tray'[p] <=> sent[s].op # "remove"
  /\ heat' = [heat EXCEPT ![t] = Board!HeatOf(chips', t)]

LEMMA AppliedInv ==
  ASSUME BoardInv, NEW s \in Slot, NEW p \in Position, NEW t \in Theme, PageFollows(s, p, t)
  PROVE  BoardInv'
<1> USE DEF PageFollows
<1>1. Board!PairOf(sent[s]) = <<p, t>>
  BY DEF Board!PairOf
<1>2. /\ sent' \in [Slot -> Board!Request \cup {None}]
      /\ OursKept' /\ OneAsked'
      /\ sent'[s] = None /\ \A o \in Slot \ {s} : sent'[o] = sent[o]
  <2>1. "ok" \in {"ok", "failed"} /\ unsure \subseteq unsure'
    OBVIOUS
  <2>2. sent'[s] = None
    BY DEF BoardInv, Board!TypeOK
  <2> QED BY <2>1, <2>2, AnswerFrame
<1>3. Board!TypeOK'
  <2>1. heat' \in [Theme -> 0..5]
    BY HeatLevels DEF BoardInv, Board!TypeOK
  <2> QED BY <1>2, <2>1 DEF BoardInv, Board!TypeOK
<1>4. HeatKept'
  <2> SUFFICES ASSUME NEW u \in cards PROVE heat'[u] = Board!HeatOf(chips', u)
    BY DEF HeatKept
  <2>1. u \in Theme /\ heat \in [Theme -> 0..5]
    BY DEF BoardInv, Board!TypeOK
  <2>2. CASE u = t
    BY <2>1, <2>2
  <2>3. CASE u # t
    <3>1. Board!HeatOf(chips', u) = Board!HeatOf(chips, u)
      <4>1. {c \in chips' : c.theme = u} = {c \in chips : c.theme = u}
        BY <2>1, <2>3
      <4> QED BY <4>1, Zenon DEF Board!HeatOf
    <3> QED BY <2>1, <2>3, <3>1 DEF BoardInv, HeatKept
  <2> QED BY <2>2, <2>3
<1>5. PairsKept'
  <2>1. ASSUME NEW q \in Position, NEW u \in Theme, <<q, u>> # <<p, t>>
        PROVE  /\ Applied(q, u)' = Applied(q, u)
               /\ \A o \in Applied(q, u) : sent'[o] = sent[o]
    BY <1>1, <1>2, <2>1 DEF Applied
  <2>2. ASSUME <<p, t>> \notin unsure
        PROVE  /\ Applied(p, t)' = {}
               /\ <<p, t>> \in tagged <=> sent[s].op # "remove"
    <3>1. s \in Applied(p, t)
      BY <1>1 DEF Applied
    <3>2. <<p, t>> \in tagged <=> sent[s].op # "remove"
      BY <2>2, <3>1 DEF BoardInv, PairsKept
    <3>3. \A o \in Slot : sent[o] # None /\ Board!PairOf(sent[o]) = <<p, t>> => o = s
      BY <1>1, <2>2 DEF BoardInv, OneAsked
    <3>4. Applied(p, t)' = {}
      BY <1>2, <3>3 DEF Applied
    <3> QED BY <3>2, <3>4
  <2> HIDE DEF Applied, ChipOn
  <2>3. ASSUME NEW q \in Position, NEW u \in Theme, <<q, u>> = <<p, t>>, <<q, u>> \notin unsure
        PROVE  /\ \A o \in Applied(q, u)' : <<q, u>> \in tagged' <=> sent'[o].op # "remove"
               /\ <<q, u>> \in tagged' <=> ChipOn(q, u)'
               /\ <<q, u>> \in tagged' <=> u \in tray'[q]
    <3>1. q = p /\ u = t
      BY <2>3
    <3> QED BY <2>2, <2>3, <3>1
  <2> QED BY <2>1, <2>3, PairsFrame DEF BoardInv
<1> QED BY <1>2, <1>3, <1>4, <1>5 DEF BoardInv

LEMMA OnAddedInv == ASSUME BoardInv, NEW s \in Slot, Board!OnAdded(s) PROVE BoardInv'
<1> PICK p \in Position, t \in Theme : p = sent[s].position /\ t = sent[s].theme
  BY DEF BoardInv, Board!TypeOK, Board!Request, Board!OnAdded, Board!UnderWay
<1> DEFINE shown == IF sent[s].op = "drop" THEN drag.shown ELSE sent[s].position
           chip == [theme |-> t, position |-> p, shown |-> shown]
<1>1. /\ sent[s] # None /\ sent[s].stage = "ok" /\ sent[s].op # "remove"
      /\ sent' = [sent EXCEPT ![s] = None]
      /\ UNCHANGED <<themes, unused, tagged, cards, drag, changes, unsure>>
      /\ chips' = IF ChipOn(p, t) THEN chips ELSE chips \cup {chip}
      /\ heat' = [heat EXCEPT ![t] = Board!HeatOf(chips', t)]
      /\ tray' = [tray EXCEPT ![p] = tray[p] \cup {t}]
  <2>1. /\ sent[s] # None /\ sent[s].stage = "ok" /\ sent[s].op # "remove"
        /\ sent' = [sent EXCEPT ![s] = None]
        /\ UNCHANGED <<themes, unused, tagged, cards, drag, changes, unsure>>
        /\ heat' = [heat EXCEPT ![t] = Board!HeatOf(chips', t)]
        /\ tray' = [tray EXCEPT ![p] = tray[p] \cup {t}]
    BY DEF Board!OnAdded, Board!AddChip, Board!SetTray, Board!UnderWay, Board!server
  <2>2. chips' = IF \E c \in chips : c.position = p /\ c.theme = t THEN chips
                 ELSE chips \cup {chip}
    BY DEF Board!OnAdded, Board!AddChip
  <2>3. (\E c \in chips : c.position = p /\ c.theme = t) <=> ChipOn(p, t)
    BY DEF ChipOn
  <2> HIDE DEF chip
  <2> QED BY <2>1, <2>2, <2>3
<1>2. /\ p \in Position /\ t \in cards /\ shown \in Position /\ Board!PairOf(sent[s]) = <<p, t>>
      /\ cards \subseteq Theme /\ tray \in [Position -> SUBSET Theme]
      /\ chips \subseteq [theme : cards, position : Position, shown : Position]
  <2>1. sent[s] \in Board!Request /\ sent[s].ours
    BY <1>1 DEF BoardInv, Board!TypeOK, OursKept
  <2> QED
    BY <1>1, <2>1 DEF BoardInv, Board!TypeOK, OursKept, Board!Request, Board!PairOf
<1>3. /\ chip \in [theme : cards, position : Position, shown : Position]
      /\ chip.theme = t /\ chip.position = p
  BY <1>2
<1> HIDE DEF shown, chip
<1>4. chips' \subseteq [theme : cards, position : Position, shown : Position]
  BY <1>1, <1>2, <1>3
<1>5. \A u \in Theme \ {t} : {c \in chips' : c.theme = u} = {c \in chips : c.theme = u}
  BY <1>1, <1>3
<1>6. /\ \A q \in Position, u \in Theme :
           <<q, u>> # <<p, t>> => (ChipOn(q, u)' <=> ChipOn(q, u))
      /\ ChipOn(p, t)'
  BY <1>1, <1>3 DEF ChipOn
<1>7. /\ tray' \in [Position -> SUBSET Theme] /\ t \in tray'[p]
      /\ \A q \in Position, u \in Theme : <<q, u>> # <<p, t>> => (u \in tray'[q] <=> u \in tray[q])
  BY <1>1, <1>2
<1>8. PageFollows(s, p, t)
  BY <1>1, <1>4, <1>5, <1>6, <1>7, Zenon DEF PageFollows
<1> QED BY <1>8, AppliedInv

LEMMA OnRemovedInv == ASSUME BoardInv, NEW s \in Slot, Board!OnRemoved(s) PROVE BoardInv'
<1> PICK p \in Position, t \in Theme : p = sent[s].position /\ t = sent[s].theme
  BY DEF BoardInv, Board!TypeOK, Board!Request, Board!OnRemoved, Board!UnderWay
<1>1. /\ sent[s] # None /\ sent[s].stage = "ok" /\ sent[s].op = "remove"
      /\ sent' = [sent EXCEPT ![s] = None]
      /\ UNCHANGED <<themes, unused, tagged, cards, drag, changes, unsure>>
      /\ chips' = {c \in chips : <<c.position, c.theme>> # <<p, t>>}
      /\ heat' = [heat EXCEPT ![t] = Board!HeatOf(chips', t)]
      /\ tray' = [tray EXCEPT ![p] = tray[p] \ {t}]
  BY DEF Board!OnRemoved, Board!SetTray, Board!UnderWay, Board!server, Board!PairOf
<1>2. /\ p \in Position /\ t \in Theme /\ Board!PairOf(sent[s]) = <<p, t>>
      /\ tray \in [Position -> SUBSET Theme]
      /\ chips \subseteq [theme : cards, position : Position, shown : Position]
  BY <1>1 DEF BoardInv, Board!TypeOK, Board!PairOf
<1>3. \A u \in Theme \ {t} : {c \in chips' : c.theme = u} = {c \in chips : c.theme = u}
  BY <1>1
<1>4. /\ \A q \in Position, u \in Theme :
           <<q, u>> # <<p, t>> => (ChipOn(q, u)' <=> ChipOn(q, u))
      /\ ~ChipOn(p, t)'
  BY <1>1 DEF ChipOn
<1>5. /\ tray' \in [Position -> SUBSET Theme] /\ t \notin tray'[p]
      /\ \A q \in Position, u \in Theme : <<q, u>> # <<p, t>> => (u \in tray'[q] <=> u \in tray[q])
  BY <1>1, <1>2
<1>6. chips' \subseteq [theme : cards, position : Position, shown : Position]
  BY <1>1, <1>2
<1>7. PageFollows(s, p, t)
  BY <1>1, <1>3, <1>4, <1>5, <1>6, Zenon DEF PageFollows
<1> QED BY <1>7, AppliedInv

LEMMA CreateInv == ASSUME BoardInv, NEW u \in Theme, Board!CreateTheme(u) PROVE BoardInv'
<1>1. /\ u \in unused /\ themes' = themes \cup {u} /\ unused' = unused \ {u}
      /\ cards' = cards \cup {u} /\ heat' = [heat EXCEPT ![u] = 0]
      /\ UNCHANGED <<tagged, chips, tray, drag, sent, changes, unsure>>
  BY DEF Board!CreateTheme
<1>2. u \notin cards /\ cards \subseteq Theme /\ heat \in [Theme -> 0..5]
  BY <1>1 DEF BoardInv, Board!TypeOK
<1>3. Board!TypeOK'
  BY <1>1 DEF BoardInv, Board!TypeOK
<1>4. OursKept' /\ OneAsked'
  BY <1>1 DEF BoardInv, OursKept, OneAsked
<1>5. HeatKept'
  <2>1. Board!HeatOf(chips, u) = 0
    <3>1. {c \in chips : c.theme = u} = {}
      BY <1>2 DEF BoardInv, Board!TypeOK
    <3> QED BY <3>1 DEF Board!HeatOf
  <2> QED BY <1>1, <1>2, <2>1 DEF BoardInv, HeatKept
<1>6. PairsKept'
  <2>1. \A p, t : Applied(p, t)' = Applied(p, t) /\ ChipOn(p, t)' = ChipOn(p, t)
    BY <1>1 DEF Applied, ChipOn
  <2>2. unsure' = unsure /\ tagged' = tagged /\ sent' = sent /\ tray' = tray
    BY <1>1
  <2> HIDE DEF Applied, ChipOn
  <2> QED BY <2>1, <2>2, PairsFrame DEF BoardInv
<1> QED BY <1>3, <1>4, <1>5, <1>6 DEF BoardInv

LEMMA ElsewhereInv ==
  ASSUME BoardInv, NEW q \in Position, NEW u \in Theme, Board!Elsewhere(q, u)
  PROVE  BoardInv'
<1>1. /\ changes < MaxSent /\ changes' = changes + 1 /\ u \in themes
      /\ tagged' = IF <<q, u>> \in tagged THEN tagged \ {<<q, u>>} ELSE tagged \cup {<<q, u>>}
      /\ unsure' = unsure \cup {<<q, u>>}
      /\ UNCHANGED <<themes, unused, cards, chips, heat, tray, drag, sent>>
  BY DEF Board!Elsewhere, Board!page
<1>2. Board!TypeOK'
  <2>1. /\ tagged' \subseteq Position \X themes /\ unsure' \subseteq Board!Pairs
        /\ changes' \in 0..MaxSent
    BY <1>1, BoardBounds DEF BoardInv, Board!TypeOK, Board!Pairs
  <2> QED BY <1>1, <2>1 DEF BoardInv, Board!TypeOK
<1>3. OursKept' /\ OneAsked'
  BY <1>1 DEF BoardInv, OursKept, OneAsked
<1>4. HeatKept'
  BY <1>1 DEF BoardInv, HeatKept
<1>5. PairsKept'
  <2>1. ASSUME NEW p \in Position, NEW t \in Theme, <<p, t>> \notin unsure'
        PROVE  /\ Applied(p, t)' = Applied(p, t) /\ ChipOn(p, t)' = ChipOn(p, t)
               /\ <<p, t>> \in tagged' <=> <<p, t>> \in tagged
    BY <1>1, <2>1 DEF Applied, ChipOn
  <2> HIDE DEF Applied, ChipOn
  <2>2. unsure \subseteq unsure' /\ sent' = sent /\ tray' = tray
    BY <1>1
  <2> QED BY <2>1, <2>2, PairsFrame DEF BoardInv
<1> QED BY <1>2, <1>3, <1>4, <1>5 DEF BoardInv

LEMMA BoardStepInv == BoardInv /\ [Board!Next]_Board!vars => BoardInv'
<1> SUFFICES ASSUME BoardInv, [Board!Next]_Board!vars PROVE BoardInv'
  OBVIOUS
<1>1. ASSUME Board!DragStart \/ Board!DragEnd \/ UNCHANGED Board!vars PROVE BoardInv'
  <2>1. /\ UNCHANGED <<themes, unused, tagged, cards, chips, heat, tray, sent, changes, unsure>>
        /\ drag' \in [position : Position, shown : Position, active : BOOLEAN] \cup {Board!NoDrag}
        /\ drag'.shown \in Position \/ drag' = drag
    <3>1. CASE Board!DragStart
      BY <3>1 DEF Board!DragStart, Board!server, Board!page
    <3>2. CASE Board!DragEnd
      <4>1. drag \in [position : Position, shown : Position, active : BOOLEAN]
        BY <3>2 DEF Board!DragEnd, BoardInv, Board!TypeOK, Board!NoDrag
      <4> QED BY <3>2, <4>1 DEF Board!DragEnd, Board!server, Board!page
    <3>3. CASE UNCHANGED Board!vars
      BY <3>3 DEF Board!vars, Board!server, Board!page, BoardInv, Board!TypeOK
    <3> QED BY <1>1, <3>1, <3>2, <3>3
  <2>2. Board!TypeOK'
    BY <2>1 DEF BoardInv, Board!TypeOK, Board!NoDrag
  <2> QED
    BY <2>1, <2>2
    DEF BoardInv, OursKept, OneAsked, HeatKept, PairsKept, Applied, ChipOn
<1>2. ASSUME Board!Reload PROVE BoardInv'
  <2>1. /\ Board!Rendered /\ Board!Left /\ UNCHANGED <<unused, changes>>
        /\ themes' \subseteq themes /\ tagged' \in SUBSET (Position \X themes')
    BY <1>2 DEF Board!Reload, Board!server, BoardInv, Board!TypeOK
  <2> QED BY <2>1, LoadedInv
<1>3. ASSUME NEW t \in Theme, Board!DeleteTheme(t) PROVE BoardInv'
  <2>1. /\ Board!Rendered /\ Board!Left /\ UNCHANGED <<unused, changes>>
        /\ themes' \subseteq themes /\ tagged' \in SUBSET (Position \X themes')
    BY <1>3 DEF Board!DeleteTheme, BoardInv, Board!TypeOK
  <2> QED BY <2>1, LoadedInv
<1>4. ASSUME NEW s \in Slot, NEW t \in Theme, Board!Drop(s, t) PROVE BoardInv'
  <2>1. /\ t \in cards /\ Board!Send(s, "drop", drag.position, t)
        /\ UNCHANGED <<Board!server, Board!page>>
        /\ drag.active /\ drag' = [drag EXCEPT !.active = FALSE]
    BY <1>4 DEF Board!Drop
  <2>2. drag \in [position : Position, shown : Position, active : BOOLEAN]
    BY <2>1 DEF BoardInv, Board!TypeOK, Board!NoDrag
  <2>3. /\ drag.position \in Position /\ drag.shown \in Position /\ drag'.shown = drag.shown
        /\ drag' \in [position : Position, shown : Position, active : BOOLEAN] \cup {Board!NoDrag}
    BY <2>1, <2>2
  <2>4. "drop" \in {"drop", "assign", "remove"}
    OBVIOUS
  <2> QED BY <2>1, <2>3, <2>4, SendInv
<1>5. ASSUME NEW s \in Slot, NEW p \in Position, NEW t \in Theme, Board!Assign(s, p, t)
      PROVE  BoardInv'
  <2>1. /\ t \in cards /\ Board!Send(s, "assign", p, t)
        /\ UNCHANGED <<Board!server, Board!page>> /\ drag' = drag
    BY <1>5 DEF Board!Assign
  <2>2. "assign" \in {"drop", "assign", "remove"} /\ "assign" # "drop"
    OBVIOUS
  <2>3. drag' \in [position : Position, shown : Position, active : BOOLEAN] \cup {Board!NoDrag}
    BY <2>1 DEF BoardInv, Board!TypeOK
  <2> QED BY <2>1, <2>2, <2>3, SendInv
<1>6. ASSUME NEW s \in Slot, NEW c \in chips, Board!RemoveClick(s, c) PROVE BoardInv'
  <2>1. /\ Board!Send(s, "remove", c.position, c.theme)
        /\ UNCHANGED <<Board!server, Board!page>> /\ drag' = drag
    BY <1>6 DEF Board!RemoveClick
  <2>2. "remove" \in {"drop", "assign", "remove"} /\ "remove" # "drop"
    OBVIOUS
  <2>3. /\ drag' \in [position : Position, shown : Position, active : BOOLEAN] \cup {Board!NoDrag}
        /\ c.position \in Position /\ c.theme \in cards
    BY <2>1 DEF BoardInv, Board!TypeOK
  <2> QED BY <2>1, <2>2, <2>3, SendInv
<1>7. ASSUME NEW s \in Slot, Board!Answer(s) PROVE BoardInv'
  BY <1>7, HandleInv, DropInv, OnAddedInv, OnRemovedInv DEF Board!Answer
<1>8. ASSUME NEW t \in Theme, Board!CreateTheme(t) PROVE BoardInv'
  BY <1>8, CreateInv
<1>9. ASSUME NEW p \in Position, NEW t \in Theme, Board!Elsewhere(p, t) PROVE BoardInv'
  BY <1>9, ElsewhereInv
<1> QED
  BY <1>1, <1>2, <1>3, <1>4, <1>5, <1>6, <1>7, <1>8, <1>9 DEF Board!Next

LEMMA BoardSpecInv == Board!Spec => []BoardInv
BY BoardInitInv, BoardStepInv, PTL DEF Board!Spec

\* A pair that is settled has no answer to wait for, and a card all of whose
\* pairs are settled has the chips a reload would give it.
LEMMA InStep == BoardInv => BoardMatchesServer
<1> SUFFICES ASSUME BoardInv PROVE Board!PairsMatch /\ Board!HeatMatches
  BY DEF BoardMatchesServer, Board!BoardMatchesServer
<1>1. ASSUME NEW p \in Position, NEW t \in Theme, Board!Settled(<<p, t>>)
      PROVE  /\ <<p, t>> \in tagged <=> ChipOn(p, t)
             /\ <<p, t>> \in tagged <=> t \in tray[p]
  <2>1. Applied(p, t) = {} /\ <<p, t>> \notin unsure
    BY <1>1 DEF Board!Settled, Board!UnderWay, Applied
  <2> QED BY <2>1 DEF BoardInv, PairsKept
<1>2. Board!PairsMatch
  BY <1>1 DEF Board!PairsMatch, ChipOn
<1>3. Board!HeatMatches
  <2> SUFFICES ASSUME NEW t \in cards, \A p \in Position : Board!Settled(<<p, t>>),
                      \A c \in chips : c.theme = t => c.shown = c.position
               PROVE  heat[t] = Board!ComputeHeatLevel(Board!InTheme(t))
    BY DEF Board!HeatMatches
  <2>1. t \in Theme /\ chips \subseteq [theme : Theme, position : Position, shown : Position]
    BY DEF BoardInv, Board!TypeOK
  <2> DEFINE S == Board!InTheme(t)
  <2>2. S \in SUBSET Position /\ \A p \in Position : p \in S <=> <<p, t>> \in tagged
    BY DEF Board!InTheme
  <2> HIDE DEF S
  <2>3. \A p \in Position : p \in S <=> \E c \in chips : c.theme = t /\ c.position = p
    BY <1>1, <2>1, <2>2 DEF ChipOn
  <2>4. Board!HeatOf(chips, t) = Board!ComputeHeatLevel(S)
    BY <2>1, <2>2, <2>3, HeatAgrees
  <2> QED BY <2>4 DEF BoardInv, HeatKept, S
<1> QED BY <1>2, <1>3

-----------------------------------------------------------------------------
(* The composition: every study is a behaviour of its module.                *)

LEMMA Studies ==
  SharedSpec => /\ Spec /\ Recovery!Spec /\ Board!Spec
                /\ Pool!Spec /\ Bars!Spec /\ People!Spec
<1>1. SharedInit => /\ Init /\ Recovery!Init /\ Board!Init
                    /\ Pool!Init /\ Bars!Init /\ People!Init
  BY DEF SharedInit
<1>2. [SharedNext]_<<study, vars, recoveryVars, boardVars, poolVars, barVars, accountVars>>
        => /\ [Next]_vars /\ [Recovery!Next]_Recovery!vars /\ [Board!Next]_Board!vars
           /\ [Pool!Next]_Pool!vars /\ [Bars!Next]_Bars!vars /\ [People!Next]_People!vars
  BY DEF SharedNext, recoveryVars, boardVars, poolVars, barVars, accountVars,
         Recovery!vars, Recovery!db, Recovery!mem, Board!vars, Board!server, Board!page,
         Pool!vars, Bars!vars, Bars!table, People!vars
<1> QED
  BY <1>1, <1>2, PTL
  DEF SharedSpec, Spec, Recovery!Spec, Board!Spec, Pool!Spec, Bars!Spec, People!Spec

\* Too few bars are left only by another refresh or by a fetch that failed
\* (refresh_weekly_bar_cache, refresh_daily_bar_cache).
THEOREM ShortTakesOther == SharedSpec => []ShortNeedsOther
<1>1. BarInv => ShortNeedsOther
  BY DEF BarInv
<1> QED BY <1>1, Studies, BarSpecInv, PTL

\* An unfinished bar stays in the table only if its period ended during the
\* fetch (the completed filter before upsert_bars).
THEOREM PartialTakesTurn == SharedSpec => []PartialNeedsTurn
<1>1. BarInv => PartialNeedsTurn
  BY DEF BarInv
<1> QED BY <1>1, Studies, BarSpecInv, PTL

\* The last administrator keeps the flag, on SQLite unless two withdrawals
\* overlap (admin_update_admin_flag).
THEOREM AdminStays == SharedSpec => LastAdminStays
<1>1. PeopleInv /\ [People!Next]_People!vars =>
        [admins # {} => admins' # {} \/ (dialect = "sqlite" /\ crossed)]_People!vars
  BY AdminLeft
<1> QED
  BY <1>1, Studies, PeopleSpecInv, PTL DEF People!Spec, LastAdminStays, People!LastAdminStays

\* A new member is announced once (auth_email_verify, oauth_callback).
THEOREM AnnouncedOnce == SharedSpec => []OneNotification
<1>1. PeopleInv => OneNotification
  BY DEF PeopleInv, AnnouncedStored, OneNotification, People!OneNotification
<1> QED BY <1>1, Studies, PeopleSpecInv, PTL

\* The policies compare with the user of the transaction, unless in session
\* mode a rollback took the setting back (the hook after_begin).
THEOREM SettingIsOwn == SharedSpec => []OwnSettingOrUndone
BY Studies, PoolInv, PTL

\* A dead task leaves only flags that the sweep and the start of the server
\* can clear, as long as refreshes and edits come one at a time
\* (_mark_positions_refresh_state, clear_stale_refresh_flags).
THEOREM OrphansFound ==
  (\A f, g \in Worker : f = g) => (SharedSpec => []OrphansSweepable)
<1> SUFFICES ASSUME \A f, g \in Worker : f = g PROVE SharedSpec => []OrphansSweepable
  OBVIOUS
<1>1. Lifecycle!Spec => []Lifecycle!OrphansSweepable
  BY RecoverySettings, Lifecycle!OneFlowSweepable
  DEF Recovery!StaleAfterAssumption, Recovery!NoneAssumption, Lifecycle!OneFlow
<1>2. Lifecycle!OrphansSweepable => OrphansSweepable
  BY DEF Lifecycle!OrphansSweepable, OrphansSweepable, Recovery!OrphansSweepable,
         Lifecycle!Leased, Recovery!Leased
<1> QED BY <1>1, <1>2, Studies, RecoveryCarried, PTL

\* On every pair that no request is changing, card, tray and database agree,
\* and a card kept up to date has the heat a reload would show (theme-board.js
\* against _compute_heat_level).
THEOREM BoardInStep == SharedSpec => []BoardMatchesServer
BY InStep, Studies, BoardSpecInv, PTL

\* Every handler of the six studies keeps the types.
THEOREM SharedTypes == SharedSpec => []SharedTypeOK
<1>1. IInv /\ Recovery!TypeOK /\ Pool!TypeOK /\ BarInv /\ PeopleInv /\ BoardInv => SharedTypeOK
  BY DEF IInv, BarInv, PeopleInv, BoardInv, SharedTypeOK
<1> QED
  BY <1>1, Studies, InductiveInvariant, RecoveryTypes, PoolInv, BarSpecInv, PeopleSpecInv,
     BoardSpecInv, PTL
=============================================================================
