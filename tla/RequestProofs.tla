---------------------------- MODULE RequestProofs ----------------------------
(***************************************************************************)
(* What overlapping requests can and cannot do, for every number of them:  *)
(* an edit and refreshes of one row (Row), the tier limits of one user     *)
(* (Quota), the interval gate (Interval), the budget gate.                *)
(***************************************************************************)
EXTENDS MCRequests, SequenceTheorems, TLAPS

-----------------------------------------------------------------------------
(* Row: editing a ticker during a refresh.  As long as no edit overlapped  *)
(* another session, an edit knows the row as it is (EditKnowsRow), and a   *)
(* task has fetched for the ticker the row still has (TaskKnowsTicker).    *)

Holds(f) == at[f] \in Row!Holding

EditIsAlone ==
  ~crossed => \A f \in Session : at[f] = "editing" => \A g \in Session : Holds(g) => g = f

EditKnowsRow ==
  ~crossed => \A f \in Session : at[f] = "editing" => memData[f] = data

TaskKnowsTicker ==
  ~crossed => \A f \in Session : at[f] \in {"fetching", "saving"} => memTicker[f] = ticker

\* Data that a session has changed is data of the ticker it loaded.
DirtyIsFetched ==
  \A f \in Session : /\ Holds(f) => memTicker[f] \in Ticker
                     /\ dirty[f] => at[f] = "saving" /\ memData[f] = memTicker[f]

RowInv ==
  /\ Row!TypeOK /\ DirtyIsFetched
  /\ EditIsAlone /\ EditKnowsRow /\ TaskKnowsTicker /\ ForeignNeedsOverlap

LEMMA RowInitInv == Row!Init => RowInv
BY RowSettings
   DEF Row!Init, Row!TypeOK, Row!RowAssumption, RowInv, DirtyIsFetched, EditIsAlone, EditKnowsRow,
       TaskKnowsTicker, ForeignNeedsOverlap, Row!ForeignNeedsOverlap, Row!Foreign, Holds,
       Row!Holding

LEMMA RowStepInv == RowInv /\ [Row!Next]_Row!vars => RowInv'
<1> SUFFICES ASSUME RowInv, [Row!Next]_Row!vars PROVE RowInv'
  OBVIOUS
<1>0. None \notin Ticker
  BY RowSettings DEF Row!RowAssumption
<1> USE DEF RowInv, Row!TypeOK, Row!Holding, Holds, DirtyIsFetched, EditIsAlone, EditKnowsRow,
            TaskKnowsTicker, ForeignNeedsOverlap, Row!ForeignNeedsOverlap, Row!Foreign,
            Row!row, Row!mem
<1>1. ASSUME NEW f \in Session, Row!EditLoad(f) PROVE RowInv'
  BY <1>1 DEF Row!EditLoad, Row!Load, Row!Goto
<1>2. ASSUME NEW f \in Session, NEW t \in Ticker, Row!EditSave(f, t) PROVE RowInv'
  <2>1. /\ at[f] = "editing" /\ at' = [at EXCEPT ![f] = "queued"]
        /\ memTicker' = [memTicker EXCEPT ![f] = None]
        /\ memData' = [memData EXCEPT ![f] = None]
        /\ memFresh' = [memFresh EXCEPT ![f] = FALSE]
        /\ dirty' = [dirty EXCEPT ![f] = FALSE]
        /\ ticker' = t /\ data' = (IF memData[f] # None THEN None ELSE data)
        /\ fresh' = (fresh /\ memData[f] = None) /\ crossed' = crossed
    BY <1>2 DEF Row!EditSave, Row!Close, Row!Goto
  <2>2. Row!TypeOK'
    BY <1>0, <2>1
  <2>3. DirtyIsFetched' /\ EditIsAlone'
    BY <2>1
  <2>4. EditKnowsRow' /\ TaskKnowsTicker'
    BY <2>1
  <2>5. ForeignNeedsOverlap'
    BY <1>0, <2>1
  <2> QED BY <2>2, <2>3, <2>4, <2>5
<1>3. ASSUME NEW f \in Session, Row!EditEnds(f) PROVE RowInv'
  BY <1>3 DEF Row!EditEnds, Row!Close, Row!Goto
<1>4. ASSUME NEW f \in Session, Row!RefreshPost(f) PROVE RowInv'
  BY <1>4 DEF Row!RefreshPost, Row!Goto
<1>5. ASSUME NEW f \in Session, Row!TaskLoad(f) PROVE RowInv'
  <2>1. /\ at[f] = "queued" /\ at' = [at EXCEPT ![f] = IF fresh THEN "saving" ELSE "fetching"]
        /\ memTicker' = [memTicker EXCEPT ![f] = ticker]
        /\ memData' = [memData EXCEPT ![f] = data]
        /\ memFresh' = [memFresh EXCEPT ![f] = fresh]
        /\ dirty' = [dirty EXCEPT ![f] = FALSE]
        /\ crossed' = (crossed \/ \E g \in Session : at[g] = "editing")
        /\ ticker' = ticker /\ data' = data /\ fresh' = fresh
    BY <1>5 DEF Row!TaskLoad, Row!Load, Row!Goto
  <2>2. Row!TypeOK' /\ DirtyIsFetched' /\ ForeignNeedsOverlap'
    BY <1>0, <2>1
  <2>3. EditIsAlone'
    BY <2>1
  <2>4. EditKnowsRow' /\ TaskKnowsTicker'
    BY <2>1
  <2> QED BY <2>2, <2>3, <2>4
<1>6. ASSUME NEW f \in Session, Row!Fetch(f) PROVE RowInv'
  <2>1. Row!TypeOK' /\ DirtyIsFetched' /\ ForeignNeedsOverlap'
    BY <1>6 DEF Row!Fetch, Row!Goto
  <2>2. EditIsAlone' /\ EditKnowsRow' /\ TaskKnowsTicker'
    BY <1>6 DEF Row!Fetch, Row!Goto
  <2> QED BY <2>1, <2>2
<1>7. ASSUME NEW f \in Session, Row!FetchFails(f) PROVE RowInv'
  BY <1>7 DEF Row!FetchFails, Row!Goto
<1>8. ASSUME NEW f \in Session, Row!CacheCommit(f) PROVE RowInv'
  BY <1>0, <1>8 DEF Row!CacheCommit, Row!WriteData
<1>9. ASSUME NEW f \in Session, Row!TaskSave(f) PROVE RowInv'
  BY <1>0, <1>9 DEF Row!TaskSave, Row!WriteData, Row!Close, Row!Goto
<1>10. ASSUME NEW f \in Session, Row!TaskDies(f) PROVE RowInv'
  BY <1>10 DEF Row!TaskDies, Row!Close, Row!Goto
<1>11. ASSUME Row!MarketCloses PROVE RowInv'
  BY <1>11 DEF Row!MarketCloses
<1>12. CASE UNCHANGED Row!vars
  BY <1>12 DEF Row!vars
<1> QED
  BY <1>1, <1>2, <1>3, <1>4, <1>5, <1>6, <1>7, <1>8, <1>9, <1>10, <1>11, <1>12
  DEF Row!Next, Row!Edit, Row!Refresh

\* The component's specification keeps the invariant.
LEMMA RowSpecInv == Row!Spec => []RowInv
BY RowInitInv, RowStepInv, PTL DEF Row!Spec

-----------------------------------------------------------------------------
(* Quota: the tier limits of one user.                                     *)

UnderWay(f) == pc[f] \in {"loaded", "charged"}

\* The row that session f loaded is the row still.
UpToDate(f) == old[f].count = count /\ old[f].date = countDate

\* What a charge has made of the counter it loaded.
ChargeRight ==
  \A f \in Flow : pc[f] = "charged" =>
    IF old[f].capped
    THEN /\ new[f].date \in 1..today /\ new[f].count \in 1..MaxRefresh
         /\ IF old[f].date = new[f].date
            THEN new[f].count = old[f].count + 1
            ELSE new[f].count = 1 /\ (old[f].date = None \/ old[f].date < new[f].date)
    ELSE new[f].count = old[f].count /\ new[f].date = old[f].date

\* No date lies in the future, and nothing was granted then.
NoneAhead ==
  /\ countDate # None => countDate <= today
  /\ \A f \in Flow : UnderWay(f) /\ old[f].date # None => old[f].date <= today
  /\ \A d \in Quota!Days : d > today => granted[d] = 0

\* Without overlap there is one request at a time, and it knows the row.
Alone ==
  ~overlap => \A f \in Flow : UnderWay(f) =>
    UpToDate(f) /\ \A g \in Flow : UnderWay(g) => g = f

\* Without overlap the counter counts what was granted on its day, and nothing
\* was granted since.
Counted ==
  ~overlap => /\ \A d \in Quota!Days : d = countDate => granted[d] <= count
              /\ \A d \in Quota!Days : (countDate = None \/ d > countDate) => granted[d] = 0
              /\ Quota!QuotaHolds

\* An add that passed the limit, alone, is below it still.
RoomKept ==
  ~overlap => \A f \in Flow :
    pc[f] = "charged" /\ kind[f] = "add" /\ old[f].capped => rows < MaxTickers

QuotaInv ==
  Quota!TypeOK /\ ChargeRight /\ NoneAhead /\ Alone /\ Counted /\ RoomKept

LEMMA QuotaBounds ==
  /\ MaxRefresh \in Nat /\ MaxTickers \in Nat /\ MaxRows \in Nat
  /\ MaxDay \in Nat /\ 1 <= MaxDay /\ None \notin 1..MaxDay
BY QuotaSettings DEF Quota!QuotaAssumption

LEMMA QuotaInitInv == Quota!Init => QuotaInv
<1> SUFFICES ASSUME Quota!Init PROVE QuotaInv
  OBVIOUS
<1>1. 1 \in 1..MaxDay /\ 0 \in 0..MaxRefresh /\ 0 \in 0..MaxRows
  BY QuotaBounds
<1>2. Quota!TypeOK
  BY <1>1 DEF Quota!Init, Quota!TypeOK, Quota!Days, Quota!Counter, Quota!NoUser, Quota!NoCounter
<1>3. ChargeRight /\ NoneAhead /\ Alone /\ RoomKept
  BY DEF Quota!Init, Quota!Days, ChargeRight, NoneAhead, Alone, RoomKept, UnderWay
<1>4. Counted
  BY QuotaBounds DEF Quota!Init, Quota!Days, Counted, Quota!QuotaHolds
<1> QED BY <1>2, <1>3, <1>4 DEF QuotaInv

LEMMA QuotaStepInv == QuotaInv /\ [Quota!Next]_Quota!vars => QuotaInv'
<1> SUFFICES ASSUME QuotaInv, [Quota!Next]_Quota!vars PROVE QuotaInv'
  OBVIOUS
<1> USE QuotaBounds DEF QuotaInv, Quota!TypeOK, Quota!Days, Quota!Counter, Quota!NoUser, Quota!NoCounter,
         ChargeRight, NoneAhead, Alone, Counted, RoomKept, UnderWay, UpToDate, Quota!QuotaHolds,
         Quota!UnderWay, Quota!user, Quota!hist
<1>1. ASSUME NEW f \in Flow, NEW k \in {"add", "refresh"}, Quota!Request(f, k) PROVE QuotaInv'
  <2>1. /\ pc[f] = "idle" /\ pc' = [pc EXCEPT ![f] = "loaded"]
        /\ kind' = [kind EXCEPT ![f] = k]
        /\ old' = [old EXCEPT ![f] = [capped |-> capped, count |-> count, date |-> countDate]]
        /\ overlap' = (overlap \/ Quota!UnderWay # {})
        /\ met' = (IF Quota!UnderWay = {} THEN {} ELSE Quota!UnderWay \union {f})
        /\ UNCHANGED <<today, capped, count, countDate, rows, new, granted, late, mixed>>
    BY <1>1 DEF Quota!Request
  <2>2. Quota!TypeOK'
    <3>1. met' \subseteq Quota!UnderWay' /\ late' \subseteq Quota!UnderWay'
      <4>1. Quota!UnderWay' = Quota!UnderWay \union {f}
        BY <2>1
      <4>2. met' \subseteq Quota!UnderWay \union {f} /\ late' \subseteq Quota!UnderWay
        BY <2>1
      <4> QED BY <4>1, <4>2
    <3>2. pc' \in [Flow -> {"idle", "loaded", "charged", "refused"}] /\ overlap' \in BOOLEAN
      BY <2>1
    <3>3. old' \in [Flow -> [capped : BOOLEAN, count : 0..MaxRefresh, date : 1..MaxDay \union {None}]]
      BY <2>1
    <3>4. kind' \in [Flow -> {"add", "refresh"}]
      BY <2>1
    <3> QED BY <2>1, <3>1, <3>2, <3>3, <3>4
  <2>3. ChargeRight' /\ NoneAhead'
    BY <2>1
  <2>4. Alone'
    BY <2>1
  <2>5. Counted' /\ RoomKept'
    BY <2>1
  <2> QED BY <2>2, <2>3, <2>4, <2>5
<1>2. ASSUME NEW f \in Flow, Quota!Charge(f) PROVE QuotaInv'
  <2>1. /\ pc[f] = "loaded" /\ pc' = [pc EXCEPT ![f] = "charged"]
        /\ UNCHANGED <<today, capped, count, countDate, rows, kind, old, granted,
                       overlap, met, late, mixed>>
    BY <1>2 DEF Quota!Charge
  <2>2. \A g \in Flow : new'[g] = IF g # f THEN new[g]
          ELSE IF old[f].capped
               THEN [count |-> Quota!Used(old[f]) + 1, date |-> today]
               ELSE [count |-> old[f].count, date |-> old[f].date]
    BY <1>2 DEF Quota!Charge
  <2>3. Quota!Used(old[f]) \in Nat /\ (old[f].capped => Quota!Used(old[f]) < MaxRefresh)
    BY <1>2 DEF Quota!Charge, Quota!Spent, Quota!Used
  <2>4. Quota!TypeOK'
    BY <1>2, <2>1, <2>3 DEF Quota!Charge
  <2>5. ChargeRight'
    BY <2>1, <2>2, <2>3 DEF Quota!Used
  <2>6. NoneAhead' /\ Alone' /\ Counted'
    BY <2>1
  <2>7. RoomKept'
    BY <1>2, <2>1 DEF Quota!Charge, Quota!Full
  <2> QED BY <2>4, <2>5, <2>6, <2>7
<1>3. ASSUME NEW f \in Flow, Quota!Refuse(f) PROVE QuotaInv'
  BY <1>3 DEF Quota!Refuse, Quota!Finish
<1>4. ASSUME NEW f \in Flow, Quota!Commit(f) PROVE QuotaInv'
  <2>1. /\ pc[f] = "charged" /\ pc' = [pc EXCEPT ![f] = "idle"]
        /\ kind' = [kind EXCEPT ![f] = "refresh"]
        /\ old' = [old EXCEPT ![f] = Quota!NoUser] /\ new' = [new EXCEPT ![f] = Quota!NoCounter]
        /\ UNCHANGED <<today, capped, overlap>>
    BY <1>4 DEF Quota!Commit, Quota!Finish
  <2>2. \A d \in 1..MaxDay : granted'[d] =
          IF old[f].capped /\ d = new[f].date THEN granted[d] + 1 ELSE granted[d]
    BY <1>4 DEF Quota!Commit
  <2>3. granted' \in [1..MaxDay -> Nat] /\ rows' \in 0..MaxRows
    BY <1>4, <2>1 DEF Quota!Commit
  <2>4. Quota!TypeOK'
    BY <1>4, <2>1, <2>3 DEF Quota!Commit, Quota!Finish
  <2>5. ChargeRight' /\ NoneAhead'
    BY <1>4, <2>1, <2>2 DEF Quota!Commit
  <2>6. Alone'
    BY <1>4, <2>1 DEF Quota!Commit
  <2>7. Counted'
    <3>1. /\ count' = IF new[f].count # old[f].count THEN new[f].count ELSE count
          /\ countDate' = IF new[f].date # old[f].date THEN new[f].date ELSE countDate
      BY <1>4 DEF Quota!Commit
    <3>2. ~overlap => old[f].count = count /\ old[f].date = countDate
      BY <2>1
    <3>3. CASE ~old[f].capped
      <4>1. new[f].count = old[f].count /\ new[f].date = old[f].date
        BY <2>1, <3>3
      <4>2. count' = count /\ countDate' = countDate
        BY <3>1, <4>1
      <4>3. \A d \in 1..MaxDay : granted'[d] = granted[d]
        BY <2>2, <3>3
      <4> QED BY <2>1, <4>2, <4>3
    <3>4. CASE old[f].capped
      <4>1. /\ new[f].date \in 1..today /\ new[f].count \in 1..MaxRefresh
            /\ IF old[f].date = new[f].date
               THEN new[f].count = old[f].count + 1
               ELSE new[f].count = 1 /\ (old[f].date = None \/ old[f].date < new[f].date)
        BY <2>1, <3>4
      <4>2. \A d \in 1..MaxDay : granted'[d] = IF d = new[f].date THEN granted[d] + 1 ELSE granted[d]
        BY <2>2, <3>4
      <4>3. ~overlap => count' = new[f].count /\ countDate' = new[f].date
        BY <3>1, <3>2
      <4>4. ASSUME ~overlap, NEW d \in 1..MaxDay
            PROVE  /\ d = new[f].date => granted[d] < new[f].count
                   /\ d > new[f].date => granted[d] = 0
        <5>1. /\ d = old[f].date => granted[d] <= old[f].count
              /\ (old[f].date = None \/ d > old[f].date) => granted[d] = 0
          BY <3>2, <4>4
        <5>2. old[f].date # None => old[f].date \in 1..MaxDay
          OBVIOUS
        <5>3. granted[d] \in Nat /\ old[f].count \in Nat /\ today \in 1..MaxDay
          OBVIOUS
        <5> HIDE QuotaBounds DEF QuotaInv, Quota!TypeOK, ChargeRight, NoneAhead, Alone, Counted, RoomKept
        <5> QED BY <4>1, <5>1, <5>2, <5>3
      <4>5. ~overlap => Quota!QuotaHolds'
        <5>1. ASSUME ~overlap, NEW d \in 1..MaxDay PROVE granted'[d] <= MaxRefresh
          <6>1. granted[d] \in Nat /\ granted[d] <= MaxRefresh
            BY <5>1
          <6>2. d = new[f].date => granted[d] < new[f].count
            BY <4>4, <5>1
          <6> HIDE DEF QuotaInv, Quota!TypeOK, ChargeRight, NoneAhead, Alone, Counted, RoomKept
          <6> QED BY <4>1, <4>2, <6>1, <6>2
        <5> QED BY <2>1, <5>1
      <4> QED BY <2>1, <4>1, <4>2, <4>3, <4>4, <4>5
    <3> QED BY <3>3, <3>4
  <2>8. RoomKept'
    BY <1>4, <2>1 DEF Quota!Commit
  <2> QED BY <2>4, <2>5, <2>6, <2>7, <2>8
<1>5. ASSUME NEW f \in Flow, Quota!End(f) PROVE QuotaInv'
  BY <1>5 DEF Quota!End, Quota!Finish
<1>6. ASSUME Quota!Delete PROVE QuotaInv'
  BY <1>6 DEF Quota!Delete
<1>7. ASSUME Quota!AdminUpdate PROVE QuotaInv'
  BY <1>7 DEF Quota!AdminUpdate
<1>8. ASSUME Quota!Midnight PROVE QuotaInv'
  <2>1. /\ today' = today + 1 /\ today' \in 1..MaxDay /\ late' = Quota!UnderWay /\ mixed' = FALSE
        /\ UNCHANGED <<capped, count, countDate, rows, pc, kind, old, new, granted, overlap, met>>
    BY <1>8 DEF Quota!Midnight
  <2>2. Quota!TypeOK'
    <3>1. met' \subseteq Quota!UnderWay' /\ late' \subseteq Quota!UnderWay'
      BY <2>1
    <3> QED BY <2>1, <3>1
  <2>4. ChargeRight' /\ NoneAhead'
    BY <2>1
  <2>3. Alone' /\ Counted' /\ RoomKept'
    BY <2>1
  <2> QED BY <2>2, <2>3, <2>4
<1>9. CASE UNCHANGED Quota!vars
  BY <1>9 DEF Quota!vars
<1> HIDE QuotaBounds DEF QuotaInv, Quota!TypeOK, ChargeRight, NoneAhead, Alone, Counted, RoomKept
<1> QED
  BY <1>1, <1>2, <1>3, <1>4, <1>5, <1>6, <1>7, <1>8, <1>9 DEF Quota!Next

LEMMA QuotaSpecInv == Quota!Spec => []QuotaInv
BY QuotaInitInv, QuotaStepInv, PTL DEF Quota!Spec

\* An add raises the number of rows above the limit only if requests overlap,
\* or without a limit.
LEMMA AddsStep ==
  ASSUME QuotaInv, [Quota!Next]_Quota!vars, rows' > rows, rows' > MaxTickers
  PROVE  overlap \/ \E f \in Flow : pc[f] = "charged" /\ pc'[f] = "idle" /\ ~old[f].capped
<1>1. rows \in Nat
  BY QuotaBounds DEF QuotaInv, Quota!TypeOK
<1>2. PICK f \in Flow : Quota!Commit(f)
  BY <1>1 DEF Quota!Next, Quota!Request, Quota!Charge, Quota!Refuse, Quota!End, Quota!Delete,
              Quota!AdminUpdate, Quota!Midnight, Quota!vars
<1>3. pc[f] = "charged" /\ pc'[f] = "idle" /\ kind[f] = "add" /\ rows' = rows + 1
  BY <1>1, <1>2 DEF Quota!Commit, Quota!Finish, QuotaInv, Quota!TypeOK
<1>4. overlap \/ ~old[f].capped
  BY <1>1, <1>3, QuotaBounds DEF QuotaInv, RoomKept
<1> QED BY <1>3, <1>4

(* Early refusals.  A session that met no other knows the row as it is        *)
(* (Unmet), and one that is late loaded the counter of an earlier day         *)
(* (LateOld).  So unless a request that is both has committed today, the      *)
(* counter of today is at most what was granted today: sessions lose each     *)
(* other's increments, but no date gets a count of another day.               *)

Unmet ==
  \A f \in Flow : UnderWay(f) /\ f \notin met =>
    UpToDate(f) /\ \A g \in Flow : UnderWay(g) => g = f

LateOld == \A f \in late : old[f].date # today

CountBacked ==
  ~mixed =>
    /\ countDate = today => count <= granted[today]
    /\ \A f \in Flow : UnderWay(f) /\ old[f].date = today => old[f].count <= granted[today]
    /\ \A f \in Flow : pc[f] = "charged" /\ old[f].capped /\ new[f].date = today
                         => new[f].count <= granted[today] + 1

\* A request that is not late charges the day that it is.
ChargesToday ==
  \A f \in Flow : pc[f] = "charged" /\ old[f].capped /\ f \notin late => new[f].date = today

\* The row, once it counts this day, stays with it, and until it does it is as
\* every request found it that is not late.
SameDay ==
  ~mixed => \A f \in Flow :
    /\ UnderWay(f) /\ old[f].date = today => countDate = today
    /\ UnderWay(f) /\ f \notin late /\ countDate # today => UpToDate(f)

RefusalInv == QuotaInv /\ Unmet /\ LateOld /\ CountBacked /\ ChargesToday /\ SameDay

LEMMA RefusalInitInv == Quota!Init => RefusalInv
<1> SUFFICES ASSUME Quota!Init
             PROVE  Unmet /\ LateOld /\ CountBacked /\ ChargesToday /\ SameDay
  BY QuotaInitInv DEF RefusalInv
<1> QED
  BY QuotaBounds DEF Quota!Init, Quota!Days, Unmet, LateOld, CountBacked, ChargesToday, SameDay,
                     UnderWay

\* A request that is not both late and met, and charges, leaves a row that it
\* knows: it writes its own counter, or its counter's date is not today's.
LEMMA RefusalCommit ==
  ASSUME RefusalInv, NEW f \in Flow, Quota!Commit(f)
  PROVE  Unmet' /\ LateOld' /\ CountBacked' /\ ChargesToday' /\ SameDay'
<1> USE QuotaBounds DEF RefusalInv, QuotaInv, Quota!TypeOK, Quota!Days, Quota!Counter, UnderWay,
                        UpToDate
<1>1. /\ pc[f] = "charged" /\ pc' = [pc EXCEPT ![f] = "idle"]
      /\ \A g \in Flow : g # f => old'[g] = old[g] /\ new'[g] = new[g]
      /\ met' = met \ {f} /\ late' = late \ {f} /\ mixed' = (mixed \/ f \in late \intersect met)
      /\ UNCHANGED <<today, capped, overlap>>
  BY DEF Quota!Commit, Quota!Finish
<1>2. Unmet'
  BY <1>1 DEF Unmet
<1>3. LateOld' /\ ChargesToday'
  BY <1>1 DEF LateOld, ChargesToday, Quota!UnderWay
<1>4. CASE ~old[f].capped
  <2>1. count' = count /\ countDate' = countDate /\ granted' = granted
    BY <1>1, <1>4 DEF Quota!Commit, ChargeRight
  <2>2. CountBacked'
    BY <1>1, <2>1 DEF CountBacked
  <2>3. SameDay'
    BY <1>1, <2>1 DEF SameDay
  <2> QED BY <1>2, <1>3, <2>2, <2>3
<1>5. CASE old[f].capped
  <2>1. /\ \A d \in 1..MaxDay : granted'[d] = IF d = new[f].date THEN granted[d] + 1 ELSE granted[d]
        /\ count' = IF new[f].count # old[f].count THEN new[f].count ELSE count
        /\ countDate' = IF new[f].date # old[f].date THEN new[f].date ELSE countDate
    BY <1>5 DEF Quota!Commit
  <2>2. /\ new[f].date \in 1..today /\ new[f].count \in 1..MaxRefresh
        /\ IF old[f].date = new[f].date
           THEN new[f].count = old[f].count + 1
           ELSE new[f].count = 1
    BY <1>1, <1>5 DEF ChargeRight
  <2>3. today \in 1..MaxDay /\ granted[today] \in Nat /\ count \in Nat
    OBVIOUS
  <2>4. f \in met \/ (UpToDate(f) /\ \A g \in Flow : UnderWay(g) => g = f)
    BY <1>1 DEF Unmet
  <2>5. ASSUME ~mixed', countDate' = today PROVE count' <= granted'[today]
    <3>0. ~mixed /\ (f \notin late \/ f \notin met)
      BY <1>1, <2>5
    <3>1. new[f].date = today
      <4>1. CASE f \notin late
        BY <1>1, <1>5, <4>1 DEF ChargesToday
      <4>2. CASE f \in late
        <5>1. f \notin met /\ old[f].date = countDate /\ old[f].date # today
          BY <2>4, <3>0, <4>2 DEF LateOld
        <5> QED BY <2>1, <2>5, <5>1
      <4> QED BY <4>1, <4>2
    <3>2. granted'[today] = granted[today] + 1 /\ new[f].count <= granted[today] + 1
      BY <1>1, <1>5, <2>1, <2>3, <3>0, <3>1 DEF CountBacked
    <3>3. CASE new[f].count # old[f].count
      BY <2>1, <3>2, <3>3
    <3>4. CASE new[f].count = old[f].count
      <4>1. old[f].date # today /\ new[f].count = 1 /\ count' = count
        BY <1>1, <2>1, <2>2, <3>1, <3>4
      <4>2. CASE countDate = today
        BY <2>3, <3>0, <3>2, <4>1, <4>2 DEF CountBacked
      <4>3. CASE countDate # today
        <5>1. old[f].count = count
          BY <1>1, <2>4, <3>0, <4>3 DEF SameDay
        <5> QED BY <2>3, <3>2, <3>4, <4>1, <5>1
      <4> QED BY <4>2, <4>3
    <3> QED BY <3>3, <3>4
  <2>6. granted'[today] \in Nat /\ granted[today] <= granted'[today] /\ today' = today
    BY <1>1, <2>1, <2>3
  <2>7. CountBacked'
    <3>1. ASSUME ~mixed', NEW g \in Flow, UnderWay(g)', old'[g].date = today'
          PROVE  old'[g].count <= granted'[today]
      <4>1. g # f /\ UnderWay(g) /\ old'[g] = old[g] /\ ~mixed
        BY <1>1, <3>1
      <4>2. old[g].count \in Nat /\ old[g].count <= granted[today]
        BY <2>6, <3>1, <4>1 DEF CountBacked
      <4> QED BY <2>3, <2>6, <4>1, <4>2
    <3>2. ASSUME ~mixed', NEW g \in Flow, pc'[g] = "charged", old'[g].capped,
                 new'[g].date = today'
          PROVE  new'[g].count <= granted'[today] + 1
      <4>1. g # f /\ pc[g] = "charged" /\ old'[g] = old[g] /\ new'[g] = new[g] /\ ~mixed
        BY <1>1, <3>2
      <4>2. new[g].count \in Nat /\ new[g].count <= granted[today] + 1
        BY <2>6, <3>2, <4>1 DEF CountBacked
      <4> QED BY <2>3, <2>6, <4>1, <4>2
    <3> QED BY <1>1, <2>5, <2>6, <3>1, <3>2 DEF CountBacked
  <2>8. SameDay'
    <3>1. ASSUME ~mixed', NEW g \in Flow, UnderWay(g)'
          PROVE  /\ old'[g].date = today' => countDate' = today'
                 /\ g \notin late' /\ countDate' # today' => UpToDate(g)'
      <4>1. g # f /\ UnderWay(g) /\ old'[g] = old[g] /\ ~mixed /\ (f \notin late \/ f \notin met)
        BY <1>1, <3>1
      <4>2. f \in met /\ f \notin late
        BY <2>4, <4>1
      <4>3. new[f].date = today
        BY <1>1, <1>5, <4>2 DEF ChargesToday
      <4>4. countDate' = today
        BY <1>1, <2>1, <4>1, <4>3 DEF SameDay
      <4> QED BY <1>1, <4>4
    <3> QED BY <3>1 DEF SameDay
  <2> QED BY <1>2, <1>3, <2>7, <2>8
<1> QED BY <1>4, <1>5

LEMMA RefusalStepInv == RefusalInv /\ [Quota!Next]_Quota!vars => RefusalInv'
<1> DEFINE Kept == Unmet' /\ LateOld' /\ CountBacked' /\ ChargesToday' /\ SameDay'
<1> SUFFICES ASSUME RefusalInv, [Quota!Next]_Quota!vars PROVE Kept
  BY QuotaStepInv DEF RefusalInv
<1> USE QuotaBounds DEF RefusalInv, QuotaInv, Quota!TypeOK, Quota!Days, Quota!Counter, UnderWay,
        UpToDate, Quota!UnderWay, Quota!user, Quota!hist, Unmet, LateOld, CountBacked,
        ChargesToday, SameDay
<1>1. ASSUME NEW f \in Flow, NEW k \in {"add", "refresh"}, Quota!Request(f, k) PROVE Kept
  <2>1. /\ pc[f] = "idle" /\ pc' = [pc EXCEPT ![f] = "loaded"] /\ f \notin late
        /\ old' = [old EXCEPT ![f] = [capped |-> capped, count |-> count, date |-> countDate]]
        /\ \A g \in Flow : UnderWay(g) => g \in met' /\ f \in met'
        /\ UNCHANGED <<today, capped, count, countDate, new, granted, late, mixed>>
    BY <1>1 DEF Quota!Request
  <2>2. Unmet' /\ LateOld'
    BY <2>1
  <2>3. CountBacked'
    BY <2>1
  <2>4. ChargesToday' /\ SameDay'
    BY <2>1
  <2> QED BY <2>2, <2>3, <2>4
<1>2. ASSUME NEW f \in Flow, Quota!Charge(f) PROVE Kept
  <2>1. /\ pc[f] = "loaded" /\ pc' = [pc EXCEPT ![f] = "charged"]
        /\ UNCHANGED <<today, capped, count, countDate, old, granted, met, late, mixed>>
    BY <1>2 DEF Quota!Charge
  <2>2. \A g \in Flow : new'[g] = IF g # f THEN new[g]
          ELSE IF old[f].capped
               THEN [count |-> Quota!Used(old[f]) + 1, date |-> today]
               ELSE [count |-> old[f].count, date |-> old[f].date]
    BY <1>2 DEF Quota!Charge
  <2>3. Unmet' /\ LateOld' /\ SameDay'
    BY <2>1
  <2>4. CountBacked'
    BY <2>1, <2>2 DEF Quota!Used
  <2>5. ChargesToday'
    BY <2>1, <2>2
  <2> QED BY <2>3, <2>4, <2>5
<1>3. ASSUME NEW f \in Flow, Quota!Refuse(f) \/ Quota!End(f) PROVE Kept
  <2>1. /\ \A g \in Flow : UnderWay(g)' => g # f
        /\ \A g \in Flow : g # f => pc'[g] = pc[g] /\ old'[g] = old[g] /\ new'[g] = new[g]
        /\ pc'[f] # "charged" /\ met' = met \ {f} /\ late' = late \ {f}
        /\ UNCHANGED <<today, count, countDate, granted, mixed>>
    BY <1>3 DEF Quota!Refuse, Quota!End, Quota!Finish
  <2>2. Unmet' /\ LateOld'
    BY <2>1
  <2>3. CountBacked' /\ ChargesToday'
    BY <2>1
  <2>4. SameDay'
    BY <2>1
  <2> QED BY <2>2, <2>3, <2>4
<1>4. ASSUME NEW f \in Flow, Quota!Commit(f) PROVE Kept
  BY <1>4, RefusalCommit
<1>5. ASSUME Quota!Delete \/ Quota!AdminUpdate PROVE Kept
  BY <1>5 DEF Quota!Delete, Quota!AdminUpdate
<1>6. ASSUME Quota!Midnight PROVE Kept
  <2>1. /\ today' = today + 1 /\ today' \in 1..MaxDay /\ today \in 1..MaxDay
        /\ \A f \in Flow : UnderWay(f) => f \in late'
        /\ late' \subseteq Flow /\ \A f \in late' : UnderWay(f)
        /\ UNCHANGED <<count, countDate, pc, old, new, granted, met>>
    BY <1>6 DEF Quota!Midnight
  <2>2. countDate # today' /\ \A f \in Flow : UnderWay(f) => old[f].date # today'
    <3>1. /\ countDate # None => countDate \in Nat /\ countDate <= today
          /\ \A f \in Flow : UnderWay(f) /\ old[f].date # None
               => old[f].date \in Nat /\ old[f].date <= today
      BY DEF NoneAhead
    <3>2. None # today'
      BY <2>1
    <3> QED BY <2>1, <3>1, <3>2
  <2>3. \A f \in Flow : pc[f] = "charged" /\ old[f].capped => new[f].date # today'
    BY <2>1 DEF ChargeRight
  <2>4. CountBacked' /\ ChargesToday'
    BY <2>1, <2>2, <2>3
  <2>5. Unmet' /\ LateOld'
    BY <2>1, <2>2
  <2>6. SameDay'
    BY <2>1, <2>2
  <2> QED BY <2>4, <2>5, <2>6
<1>7. CASE UNCHANGED Quota!vars
  BY <1>7 DEF Quota!vars
<1> QED
  BY <1>1, <1>2, <1>3, <1>4, <1>5, <1>6, <1>7 DEF Quota!Next

\* Who is turned away finds a limit reached, or a counter mixed up today.
LEMMA RefusalStep ==
  ASSUME RefusalInv, [Quota!Next]_Quota!vars, NEW f \in Flow, Quota!TurnedAway(f)
  PROVE  Quota!LimitReached(f) \/ mixed
<1>1. Quota!Refuse(f)
  BY DEF Quota!TurnedAway, Quota!Next, Quota!Request, Quota!Charge, Quota!Refuse, Quota!Commit,
         Quota!End, Quota!Finish, Quota!Delete, Quota!AdminUpdate, Quota!Midnight, Quota!vars,
         RefusalInv, QuotaInv, Quota!TypeOK
<1>2. CASE kind[f] = "add" /\ Quota!Full(old[f])
  BY <1>2 DEF Quota!Full, Quota!LimitReached
<1>3. CASE Quota!Spent(old[f])
  <2>1. today \in 1..MaxDay /\ granted[today] \in Nat /\ old[f].count \in Nat
    BY QuotaBounds DEF RefusalInv, QuotaInv, Quota!TypeOK, Quota!Days
  <2> QED
    BY <1>1, <1>3, <2>1, QuotaBounds
    DEF Quota!Refuse, Quota!Spent, Quota!Used, Quota!LimitReached, RefusalInv, CountBacked, UnderWay
<1> QED BY <1>1, <1>2, <1>3 DEF Quota!Refuse

LEMMA RefusalSpecInv == Quota!Spec => []RefusalInv
BY RefusalInitInv, RefusalStepInv, PTL DEF Quota!Spec

-----------------------------------------------------------------------------
(* Interval: the gate implements CallPacing with one slot per interval; the *)
(* last slot is all it has to remember.                                     *)

GateInv == Interval!TypeOK /\ Interval!LastIsLast

LEMMA GateBounds ==
  MinInterval \in Nat /\ Horizon \in Nat /\ None \notin Nat
BY IntervalSettings DEF Interval!IntervalAssumption, Interval!Pacing!PacingAssumption

LEMMA ReservedIsNextSlot ==
  ASSUME GateInv
  PROVE  Interval!Reserved = Interval!Pacing!NextSlot /\ Interval!Reserved \in Nat
<1>1. /\ time \in Nat /\ Len(given) \in Nat /\ given \in Seq(Nat) /\ MinInterval \in Nat
      /\ None \notin Nat
  BY GateBounds DEF GateInv, Interval!TypeOK, Interval!Pacing!TypeOK
<1>2. CASE given = <<>>
  BY <1>1, <1>2 DEF GateInv, Interval!LastIsLast, Interval!Reserved, Interval!Pacing!NextSlot
<1>3. CASE given # <<>>
  <2>1. Len(given) >= 1 /\ Len(given) + 1 - 1 = Len(given) /\ given[Len(given)] \in Nat
    BY <1>1, <1>3
  <2>2. lastCallAt = given[Len(given)] /\ lastCallAt # None
    BY <1>1, <1>3, <2>1 DEF GateInv, Interval!LastIsLast
  <2> QED BY <1>1, <2>1, <2>2 DEF Interval!Reserved, Interval!Pacing!NextSlot, Interval!Pacing!Later
<1> QED BY <1>2, <1>3

LEMMA GateStepInv ==
  ASSUME GateInv, [Interval!Next]_Interval!vars PROVE GateInv'
<1>0. /\ Interval!Pacing!TypeOK /\ lastCallAt \in Nat \union {None} /\ Interval!LastIsLast
      /\ given \in Seq(Nat)
  BY DEF GateInv, Interval!TypeOK, Interval!Pacing!TypeOK
<1> USE DEF Interval!Pacing!TypeOK
<1>1. ASSUME NEW t \in Thread, Interval!Reserve(t) PROVE GateInv'
  <2>1. Interval!Pacing!TypeOK'
    BY <1>0, <1>1, ReservedIsNextSlot DEF Interval!Reserve, Interval!Pacing!Grant
  <2>2. /\ given' = Append(given, Interval!Reserved) /\ lastCallAt' = Interval!Reserved
        /\ Interval!Reserved \in Nat
    BY <1>1, ReservedIsNextSlot DEF Interval!Reserve, Interval!Pacing!Grant
  <2>3. given' # <<>> /\ given'[Len(given')] = Interval!Reserved
    BY <1>0, <2>2
  <2> QED BY <2>1, <2>2, <2>3 DEF GateInv, Interval!TypeOK, Interval!LastIsLast
<1>2. ASSUME NEW t \in Thread, Interval!Others(t) PROVE Interval!Pacing!TypeOK'
  <2>1. CASE Interval!Pacing!Start(t)
    <3>1. time \in Nat \union {Interval!Pacing!NotYet} /\ caller[t] \in 1..Len(begun)
      BY <1>0, <2>1 DEF Interval!Pacing!Start
    <3>2. /\ begun' \in Seq(Nat \union {Interval!Pacing!NotYet})
          /\ Len(begun') = Len(begun)
      BY <1>0, <2>1, <3>1 DEF Interval!Pacing!Start
    <3> QED BY <1>0, <2>1, <3>2 DEF Interval!Pacing!Start
  <2>2. CASE Interval!Pacing!Return(t)
    BY <1>0, <2>2 DEF Interval!Pacing!Return
  <2> QED BY <1>2, <2>1, <2>2 DEF Interval!Others
<1>3. ASSUME Interval!Pacing!Tick PROVE Interval!Pacing!TypeOK'
  BY <1>0, <1>3, GateBounds DEF Interval!Pacing!Tick
<1>4. ASSUME Interval!Pacing!Over \/ UNCHANGED Interval!vars PROVE Interval!Pacing!TypeOK'
  BY <1>0, <1>4 DEF Interval!Pacing!Over, Interval!Pacing!vars, Interval!vars
<1>5. CASE ~\E t \in Thread : Interval!Reserve(t)
  <2>1. given' = given /\ lastCallAt' = lastCallAt
    BY <1>5 DEF Interval!Next, Interval!Others, Interval!vars, Interval!Pacing!Start,
           Interval!Pacing!Return, Interval!Pacing!Tick, Interval!Pacing!Over,
           Interval!Pacing!vars
  <2>2. Interval!Pacing!TypeOK'
    BY <1>2, <1>3, <1>4, <1>5 DEF Interval!Next
  <2> QED BY <1>0, <2>1, <2>2 DEF GateInv, Interval!TypeOK, Interval!LastIsLast
<1> QED BY <1>1, <1>5

\* One step of the gate is one of CallPacing.
LEMMA GateStepPaced ==
  ASSUME GateInv, [Interval!Next]_Interval!vars
  PROVE  [Interval!Pacing!Next]_Interval!Pacing!vars
<1>1. ASSUME NEW t \in Thread, Interval!Reserve(t) PROVE Interval!Pacing!Next
  BY <1>1, ReservedIsNextSlot DEF Interval!Reserve, Interval!Pacing!Reserve, Interval!Pacing!Next
<1> QED
  BY <1>1 DEF Interval!Next, Interval!Others, Interval!vars, Interval!Pacing!Next,
              Interval!Pacing!vars

LEMMA GatePaces == Interval!Spec => [](Interval!TypeOK) /\ Interval!Paced
<1>1. Interval!Init => GateInv /\ Interval!Pacing!Init
  BY IntervalSettings
  DEF Interval!IntervalAssumption, Interval!Init, GateInv, Interval!TypeOK, Interval!LastIsLast,
      Interval!Pacing!Init, Interval!Pacing!TypeOK, Interval!Pacing!PacingAssumption
<1>2. GateInv => Interval!TypeOK
  BY DEF GateInv
<1> QED
  BY <1>1, <1>2, GateStepInv, GateStepPaced, PTL
  DEF Interval!Spec, Interval!Paced, Interval!Pacing!Spec

-----------------------------------------------------------------------------
(* The components share no state: a behaviour of the composition is one of  *)
(* each of them.                                                            *)

LEMMA Components ==
  RequestsSpec => Spec /\ Interval!Spec /\ Quota!Spec /\ Row!Spec
<1>1. RequestsInit => Init /\ Interval!Init /\ Quota!Init /\ Row!Init
  BY DEF RequestsInit
<1>2. [RequestsNext]_<<study, vars, intervalVars, tierVars, rowVars>>
        => /\ [Next]_vars /\ [Interval!Next]_Interval!vars
           /\ [Quota!Next]_Quota!vars /\ [Row!Next]_Row!vars
  BY DEF RequestsNext, intervalVars, tierVars, rowVars, Interval!vars, Quota!vars, Quota!user,
         Quota!hist, Row!vars
<1> QED
  BY <1>1, <1>2, PTL DEF RequestsSpec, Spec, Interval!Spec, Quota!Spec, Row!Spec


\* Market data of another ticker gets into a row only if an edit and another
\* session held the row at once (edit_position, refresh_position).
THEOREM ForeignTakesOverlap == RequestsSpec => []ForeignNeedsOverlap
<1>1. RowInv => ForeignNeedsOverlap
  BY DEF RowInv
<1> QED BY <1>1, Components, RowSpecInv, PTL

\* The daily quota holds, over midnights, failures and changes of tier, unless
\* requests of the user overlap (check_and_consume_refresh).
THEOREM QuotaTakesOverlap == RequestsSpec => []QuotaNeedsOverlap
<1>1. QuotaInv => QuotaNeedsOverlap
  BY DEF QuotaInv, Counted, QuotaNeedsOverlap, Quota!QuotaNeedsOverlap
<1> QED BY <1>1, Components, QuotaSpecInv, PTL

\* An add that was checked does not end above the ticker limit unless requests
\* overlap (check_can_add_position).
THEOREM AddsTakeOverlap == RequestsSpec => AddsNeedOverlap
<1>1. QuotaInv /\ [Quota!Next]_Quota!vars =>
        [rows' > rows /\ rows' > MaxTickers =>
           overlap \/ \E f \in Flow : pc[f] = "charged" /\ pc'[f] = "idle" /\ ~old[f].capped]_Quota!vars
  BY AddsStep
<1> QED
  BY <1>1, Components, QuotaSpecInv, PTL DEF Quota!Spec, AddsNeedOverlap, Quota!AddsNeedOverlap

\* A user is turned away only when a limit is reached, unless a request that
\* had read the row before midnight and had overlapped another one has
\* committed since that midnight (check_and_consume_refresh).
THEOREM RefusalsAreDue == RequestsSpec => EarlyRefusalNeedsMidnight
<1>1. RefusalInv /\ [Quota!Next]_Quota!vars =>
        [\A f \in Flow : Quota!TurnedAway(f) => Quota!LimitReached(f) \/ mixed]_Quota!vars
  BY RefusalStep
<1> QED
  BY <1>1, Components, RefusalSpecInv, PTL
  DEF Quota!Spec, EarlyRefusalNeedsMidnight, Quota!EarlyRefusalNeedsMidnight

\* The interval gate implements CallPacing: slots are never closer together
\* than the configured interval, and never later than that asks for
\* (_wait_for_slot, _wait_for_interval_slot).
THEOREM IntervalGatePaces == RequestsSpec => IntervalPaced
BY Components, GatePaces, PTL DEF IntervalPaced

-----------------------------------------------------------------------------
(* The credit-budget gate implements CallPacing, whatever the budget, the  *)
(* window and the number of threads.  A slot that was pruned from the      *)
(* deque is out of the window, so a gate that had kept it would not wait   *)
(* for it either (WindowIsSuffix).                                         *)

Abstract == INSTANCE CallPacingProofs WITH Cap <- CreditsPerMinute, Window <- WINDOW_SECONDS

BudgetInv == TypeOK /\ WindowIsSuffix

LEMMA BudgetBounds == CreditsPerMinute \in Nat \ {0} /\ WINDOW_SECONDS \in Nat /\ Horizon \in Nat
BY BudgetAssumption DEF Pacing!PacingAssumption

\* The number of expired entries is well defined: it ends at the first live one.
LEMMA ExpiredExists ==
  ASSUME BudgetInv
  PROVE  /\ Expired \in 0..Len(callWindow)
         /\ \A i \in 1..Expired : callWindow[i] <= now - WINDOW_SECONDS
<1> DEFINE m == Len(callWindow)
           live == {i \in 1..m : callWindow[i] > now - WINDOW_SECONDS}
           Fits(k) == /\ \A i \in 1..k : callWindow[i] <= now - WINDOW_SECONDS
                      /\ k < m => callWindow[k + 1] > now - WINDOW_SECONDS
<1>1. m \in Nat /\ now \in Nat /\ WINDOW_SECONDS \in Nat
      /\ \A i \in 1..m : callWindow[i] \in Nat
  BY BudgetBounds DEF BudgetInv, TypeOK, Pacing!TypeOK
<1>2. \E k \in 0..m : Fits(k)
  <2>1. CASE live = {}
    <3>1. m \in 0..m /\ ~(m < m) /\ \A i \in 1..m : callWindow[i] <= now - WINDOW_SECONDS
      BY <1>1, <2>1
    <3> QED BY <3>1
  <2>2. CASE live # {}
    <3>1. PICK a \in live : \A i \in live : a <= i
      <4>1. live \in SUBSET Nat
        OBVIOUS
      <4> HIDE DEF live
      <4> QED BY <2>2, <4>1, Abstract!LeastOf
    <3>2. a - 1 \in 0..m /\ a - 1 + 1 = a /\ callWindow[a] > now - WINDOW_SECONDS
      BY <1>1
    <3>3. \A i \in 1..(a - 1) : callWindow[i] <= now - WINDOW_SECONDS
      BY <1>1, <3>1
    <3> QED BY <3>2, <3>3
  <2> QED BY <2>1, <2>2
<1>3. Expired = CHOOSE k \in 0..m : Fits(k)
  BY DEF Expired
<1> HIDE DEF Fits
<1>4. Expired \in 0..m /\ Fits(Expired)
  BY <1>2, <1>3
<1> QED BY <1>4 DEF Fits

\* Dropping the expired entries leaves a suffix, and loses only what is out of
\* the window.
LEMMA PrunedIsSuffix ==
  ASSUME BudgetInv
  PROVE  /\ Pruned \in Seq(Nat) /\ Len(Pruned) <= Len(slots)
         /\ \A i \in 1..Len(Pruned) : Pruned[i] = slots[Len(slots) - Len(Pruned) + i]
         /\ \A i \in 1..(Len(slots) - Len(Pruned)) : slots[i] <= now - WINDOW_SECONDS
<1> DEFINE m == Len(callWindow)
           n == Len(slots)
           e == Expired
<1>1. /\ m \in Nat /\ n \in Nat /\ m <= n
      /\ \A i \in 1..m : callWindow[i] \in Nat /\ callWindow[i] = slots[n - m + i]
      /\ \A i \in 1..(n - m) : slots[i] <= now - WINDOW_SECONDS
  <2>1. m \in Nat /\ n \in Nat /\ DOMAIN callWindow = 1..m
        /\ \A i \in 1..m : callWindow[i] \in Nat
    BY DEF BudgetInv, TypeOK, Pacing!TypeOK
  <2>2. /\ n - m >= 0
        /\ \A i \in DOMAIN callWindow : callWindow[i] = slots[n - m + i]
        /\ \A i \in 1..(n - m) : slots[i] <= now - WINDOW_SECONDS
    BY DEF BudgetInv, WindowIsSuffix
  <2> HIDE DEF n, m
  <2> QED BY <2>1, <2>2
<1>2. e \in 0..m /\ \A i \in 1..e : callWindow[i] <= now - WINDOW_SECONDS
  BY ExpiredExists
<1>3. /\ Pruned \in Seq(Nat) /\ Len(Pruned) = m - e
      /\ \A i \in 1..(m - e) : Pruned[i] = callWindow[e + i]
  <2>1. e + 1 \in Int /\ m \in Int /\ \A i \in (e + 1)..m : callWindow[i] \in Nat
    BY <1>1, <1>2
  <2>2. /\ Pruned \in Seq(Nat)
        /\ Len(Pruned) = IF e + 1 <= m THEN m - (e + 1) + 1 ELSE 0
        /\ \A i \in 1..(m - (e + 1) + 1) : Pruned[i] = callWindow[e + 1 + i - 1]
    BY <2>1, SubSeqProperties DEF Pruned
  <2> HIDE DEF e, m
  <2> QED BY <1>1, <1>2, <2>2
<1> HIDE DEF e, m, n
<1>4. \A i \in 1..(m - e) : Pruned[i] = slots[n - (m - e) + i]
  BY <1>1, <1>2, <1>3
<1>5. ASSUME NEW i \in 1..(n - (m - e)) PROVE slots[i] <= now - WINDOW_SECONDS
  <2>1. CASE i \in 1..(n - m)
    BY <1>1, <2>1
  <2>2. CASE i \notin 1..(n - m)
    <3>1. i - (n - m) \in 1..e /\ i - (n - m) \in 1..m
      BY <1>1, <1>2, <2>2
    <3>2. slots[i] = callWindow[i - (n - m)]
      BY <1>1, <1>2, <2>2, <3>1
    <3> QED BY <1>2, <3>1, <3>2
  <2> QED BY <2>1, <2>2
<1> QED BY <1>1, <1>2, <1>3, <1>4, <1>5 DEF n

\* The slot the gate reserves is the one CallPacing asks for.
LEMMA BudgetIsNextSlot ==
  ASSUME BudgetInv
  PROVE  Reserved = Pacing!NextSlot /\ Reserved \in Nat
<1> DEFINE n == Len(slots)
           w == Len(Pruned)
           c == CreditsPerMinute
<1>1. /\ n \in Nat /\ w \in Nat /\ w <= n /\ c \in Nat \ {0} /\ now \in Nat
      /\ WINDOW_SECONDS \in Nat
      /\ \A i \in 1..n : slots[i] \in Nat
  BY BudgetBounds, PrunedIsSuffix DEF BudgetInv, TypeOK, Pacing!TypeOK
<1>2. /\ \A i \in 1..w : Pruned[i] = slots[n - w + i]
      /\ \A i \in 1..(n - w) : slots[i] <= now - WINDOW_SECONDS
  BY PrunedIsSuffix
<1>3. /\ Reserved = IF w < c THEN now ELSE Pacing!Later(now, Pruned[w + 1 - c] + WINDOW_SECONDS)
      /\ Pacing!NextSlot = IF n < c THEN now
                           ELSE Pacing!Later(now, slots[n + 1 - c] + WINDOW_SECONDS)
  BY DEF Reserved, Pacing!NextSlot
<1> HIDE DEF n, w, c
<1>4. CASE w >= c
  <2>1. w + 1 - c \in 1..w /\ n - w + (w + 1 - c) = n + 1 - c
    BY <1>1, <1>4
  <2>2. Pruned[w + 1 - c] = slots[n + 1 - c] /\ n + 1 - c \in 1..n /\ ~(n < c) /\ ~(w < c)
    BY <1>1, <1>2, <1>4, <2>1
  <2> QED BY <1>1, <1>3, <2>2 DEF Pacing!Later
<1>5. CASE w < c
  <2>1. CASE n < c
    BY <1>1, <1>3, <1>5, <2>1
  <2>2. CASE n >= c
    <3>1. n + 1 - c \in 1..(n - w) /\ n + 1 - c \in 1..n
      BY <1>1, <1>5, <2>2
    <3>2. slots[n + 1 - c] + WINDOW_SECONDS <= now /\ ~(n < c)
      BY <1>1, <1>2, <2>2, <3>1
    <3> QED BY <1>1, <1>3, <1>5, <3>1, <3>2 DEF Pacing!Later
  <2> QED BY <1>1, <2>1, <2>2
<1> QED BY <1>1, <1>4, <1>5

LEMMA ReserveKeeps ==
  ASSUME BudgetInv, NEW t \in Thread, Reserve(t)
  PROVE  callWindow' \in Seq(Nat) /\ WindowIsSuffix'
<1> DEFINE n == Len(slots)
           w == Len(Pruned)
<1>1. /\ Pruned \in Seq(Nat) /\ Reserved \in Nat /\ slots \in Seq(Nat)
      /\ callWindow' = Append(Pruned, Reserved) /\ slots' = Append(slots, Reserved)
      /\ now' = now
  BY PrunedIsSuffix, BudgetIsNextSlot DEF Reserve, Pacing!Grant, BudgetInv, TypeOK, Pacing!TypeOK
<1>2. /\ w \in Nat /\ n \in Nat /\ w <= n
      /\ \A i \in 1..w : Pruned[i] = slots[n - w + i]
      /\ \A i \in 1..(n - w) : slots[i] <= now - WINDOW_SECONDS
  BY <1>1, PrunedIsSuffix
<1>3. /\ callWindow' \in Seq(Nat) /\ Len(callWindow') = w + 1 /\ DOMAIN callWindow' = 1..(w + 1)
      /\ callWindow'[w + 1] = Reserved /\ \A i \in 1..w : callWindow'[i] = Pruned[i]
      /\ Len(slots') = n + 1
      /\ slots'[n + 1] = Reserved /\ \A i \in 1..n : slots'[i] = slots[i]
  BY <1>1
<1> DEFINE lost == n - w
<1>4. lost \in Nat /\ Len(slots') - Len(callWindow') = lost
  BY <1>2, <1>3
<1> HIDE DEF n, w
<1>5. \A i \in 1..(w + 1) : callWindow'[i] = slots'[lost + i]
  <2>1. \A i \in 1..w : callWindow'[i] = slots[lost + i] /\ lost + i \in 1..n
    BY <1>2, <1>3
  <2>2. lost + (w + 1) = n + 1
    BY <1>2
  <2> QED BY <1>2, <1>3, <2>1, <2>2
<1>6. \A i \in 1..lost : slots'[i] <= now' - WINDOW_SECONDS
  BY <1>1, <1>2, <1>3
<1> QED BY <1>3, <1>4, <1>5, <1>6 DEF WindowIsSuffix

\* Every step of the gate is a step of CallPacing or leaves it unchanged.
LEMMA StepIsPaced ==
  ASSUME BudgetInv, [Next]_vars
  PROVE  [Pacing!Next]_Pacing!vars
<1>1. ASSUME NEW t \in Thread, Reserve(t) PROVE Pacing!Next
  BY <1>1, BudgetIsNextSlot DEF Reserve, Pacing!Reserve, Pacing!Next
<1> QED BY <1>1 DEF Next, Others, vars, Pacing!Next, Pacing!vars

LEMMA StepKeepsSuffix ==
  ASSUME BudgetInv, [Next]_vars
  PROVE  callWindow' \in Seq(Nat) /\ WindowIsSuffix'
<1>1. ASSUME NEW t \in Thread, Reserve(t) PROVE callWindow' \in Seq(Nat) /\ WindowIsSuffix'
  BY <1>1, ReserveKeeps
<1>2. CASE ~\E t \in Thread : Reserve(t)
  <2>1. callWindow' = callWindow /\ slots' = slots /\ (now' = now \/ now' = now + 1)
    BY <1>2 DEF Next, Others, vars, Pacing!Start, Pacing!Return, Pacing!Tick, Pacing!Over, Pacing!vars
  <2>2. now \in Nat /\ WINDOW_SECONDS \in Nat /\ slots \in Seq(Nat) /\ callWindow \in Seq(Nat)
    BY BudgetBounds DEF BudgetInv, TypeOK, Pacing!TypeOK
  <2> QED BY <2>1, <2>2 DEF BudgetInv, WindowIsSuffix
<1> QED BY <1>1, <1>2

LEMMA StepKeepsType ==
  ASSUME BudgetInv, [Next]_vars
  PROVE  Pacing!TypeOK'
<1>0. Pacing!TypeOK
  BY DEF BudgetInv, TypeOK
<1> USE DEF Pacing!TypeOK
<1>1. ASSUME NEW t \in Thread, Reserve(t) PROVE Pacing!TypeOK'
  BY <1>0, <1>1, BudgetIsNextSlot DEF Reserve, Pacing!Grant
<1>2. ASSUME NEW t \in Thread, Pacing!Start(t) PROVE Pacing!TypeOK'
  <2>1. now \in Nat \union {Pacing!NotYet} /\ call[t] \in 1..Len(starts)
    BY <1>0, <1>2 DEF Pacing!Start
  <2>2. /\ starts' \in Seq(Nat \union {Pacing!NotYet})
        /\ Len(starts') = Len(starts)
    BY <1>0, <1>2, <2>1 DEF Pacing!Start
  <2> QED BY <1>0, <1>2, <2>2 DEF Pacing!Start
<1>3. ASSUME NEW t \in Thread, Pacing!Return(t) PROVE Pacing!TypeOK'
  BY <1>0, <1>3 DEF Pacing!Return
<1>4. CASE Pacing!Tick
  BY <1>0, <1>4, BudgetBounds DEF Pacing!Tick
<1>5. CASE Pacing!Over \/ UNCHANGED vars
  BY <1>0, <1>5 DEF Pacing!Over, Pacing!vars, vars
<1> QED BY <1>1, <1>2, <1>3, <1>4, <1>5 DEF Next, Others

LEMMA BudgetSpecInv == Spec => []BudgetInv
<1>1. Init => BudgetInv
  BY BudgetAssumption DEF Init, BudgetInv, TypeOK, WindowIsSuffix, Pacing!Init, Pacing!TypeOK,
                          Pacing!PacingAssumption
<1>2. BudgetInv /\ [Next]_vars => BudgetInv'
  BY StepKeepsType, StepKeepsSuffix DEF BudgetInv, TypeOK
<1> QED BY <1>1, <1>2, PTL DEF Spec

\* The types of the budget gate and its deque, of the interval gate, of the
\* counter and of the row are kept by every handler.
THEOREM TypesHold == RequestsSpec => []RequestsTypeOK
<1>1. BudgetInv /\ RowInv /\ QuotaInv /\ Interval!TypeOK => RequestsTypeOK
  BY DEF BudgetInv, RowInv, QuotaInv, RequestsTypeOK
<1> QED BY <1>1, Components, BudgetSpecInv, RowSpecInv, QuotaSpecInv, GatePaces, PTL

\* What the deque has forgotten no longer matters.
THEOREM DequeIsSuffix == Spec => []WindowIsSuffix
<1>1. BudgetInv => WindowIsSuffix
  BY DEF BudgetInv
<1> QED BY <1>1, BudgetSpecInv, PTL

\* The credit-budget gate, with its pruned deque and its reservations under a
\* lock, implements CallPacing.
THEOREM GateImplementsPacing == Spec => Paced
<1>1. Init => Pacing!Init
  BY DEF Init
<1>2. BudgetInv /\ [Next]_vars => [Pacing!Next]_Pacing!vars
  BY StepIsPaced
<1> QED BY <1>1, <1>2, BudgetSpecInv, PTL DEF Spec, Paced, Pacing!Spec

\* The gate's behaviours are those its abstract theorems are about.
LEMMA Carried == Spec => Abstract!Spec
<1>1. Pacing!Init => Abstract!Init
  BY DEF Pacing!Init, Abstract!Init
<1>2. [Pacing!Next]_Pacing!vars => [Abstract!Next]_Abstract!vars
  BY DEF Pacing!Next, Pacing!vars, Pacing!Reserve, Pacing!Grant, Pacing!NextSlot, Pacing!Later,
         Pacing!Start, Pacing!Return, Pacing!Tick, Pacing!Over, Pacing!NotYet, Abstract!NotYet,
         Abstract!Next, Abstract!vars, Abstract!Reserve, Abstract!Grant, Abstract!NextSlot,
         Abstract!Later, Abstract!Start, Abstract!Return, Abstract!Tick, Abstract!Over
<1> QED BY <1>1, <1>2, GateImplementsPacing, PTL DEF Paced, Pacing!Spec, Abstract!Spec

LEMMA AbstractAssumption == Abstract!PacingAssumption
BY BudgetAssumption DEF Pacing!PacingAssumption, Abstract!PacingAssumption

\* No rolling minute holds more slots than TWELVE_DATA_CREDITS_PER_MINUTE.
THEOREM BudgetIsRespected == Spec => []BudgetRespected
<1>1. Abstract!Spec => []Abstract!SlotsSpaced
  BY AbstractAssumption, Abstract!SlotsAreSpaced
<1>2. Abstract!SlotsSpaced => BudgetRespected
  BY DEF BudgetRespected, Pacing!SlotsSpaced, Abstract!SlotsSpaced
<1> QED BY <1>1, <1>2, Carried, PTL

\* The provider sees no more calls than the budget in any minute less the
\* wake-up lag.
THEOREM CallsAreSpaced == Spec => []CallsSpaced
<1>1. Abstract!Spec => []Abstract!CallsSpaced
  BY AbstractAssumption, Abstract!CallsAreSpaced
<1>2. Abstract!CallsSpaced => CallsSpaced
  BY DEF CallsSpaced, Pacing!CallsSpaced, Abstract!CallsSpaced, Pacing!NotYet, Abstract!NotYet
<1> QED BY <1>1, <1>2, Carried, PTL

\* A caller is delayed only if the budget of the trailing minute is used up.
THEOREM NoIdleWaiting == Spec => NoDelayUnderBudget
<1>1. Abstract!Spec => Abstract!NoDelayUnderBudget
  BY AbstractAssumption, Abstract!NoIdleWaiting
<1>2. Abstract!NoDelayUnderBudget => NoDelayUnderBudget
  <2>1. [ (Len(slots') > Len(slots) /\ Abstract!Cardinality(Abstract!Recent) < CreditsPerMinute)
            => slots'[Len(slots')] = now ]_Abstract!vars
        => [ (Len(slots') > Len(slots) /\ Pacing!Cardinality(Pacing!Recent) < CreditsPerMinute)
            => slots'[Len(slots')] = now ]_Pacing!vars
    BY DEF Abstract!vars, Pacing!vars, Abstract!Recent, Pacing!Recent,
           Abstract!Cardinality, Pacing!Cardinality
  <2> QED BY <2>1, PTL DEF NoDelayUnderBudget, Pacing!NoDelayUnderBudget, Abstract!NoDelayUnderBudget
<1> QED BY <1>1, <1>2, Carried, PTL
=============================================================================
