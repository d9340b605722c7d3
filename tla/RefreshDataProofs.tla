-------------------------- MODULE RefreshDataProofs --------------------------
(***************************************************************************)
(* A stored verdict matches the snapshot stored with it, whatever the      *)
(* positions, the tickers and the number of threads.                       *)
(*                                                                         *)
(* The argument: a row another session has not touched since it was loaded *)
(* is still the row the session knows (Sync), so what it writes is what it *)
(* computed; its own copies differ from it only in the snapshots of the    *)
(* positions it refreshes (Own); and a snapshot it has committed belongs   *)
(* to a position whose verdict it is going to compute (AheadTracked).      *)
(*                                                                         *)
(* The types (TInv) go by the stage a thread is in; that snapshots only    *)
(* move forward (FInv) takes that no copy is of a later day than today and *)
(* that what is fetched is at least as new as what it replaces.            *)
(***************************************************************************)
EXTENDS RefreshData, TLAPS

Domains ==
  /\ DOMAIN pc = Worker /\ DOMAIN op = Worker
  /\ DOMAIN copy = Worker /\ DOMAIN stored = Worker
  /\ DOMAIN need = Worker /\ DOMAIN todo = Worker
  /\ DOMAIN ahead = Worker /\ DOMAIN crossed = Worker

Same(r, s) == r.d = s.d /\ r.w = s.w /\ r.cv = s.cv /\ r.pv = s.pv

Sync ==
  \A w \in Worker : Loaded(w) =>
    \A p \in Pos : p \notin crossed[w] => Same(stored[w][p], row[p])

Own ==
  \A w \in Worker : Loaded(w) =>
    \A p \in Pos :
      /\ copy[w][p].cv = stored[w][p].cv /\ copy[w][p].pv = stored[w][p].pv
      /\ (op[w] = All \/ p \notin Targets(w)) =>
            copy[w][p].d = stored[w][p].d /\ copy[w][p].w = stored[w][p].w

Needed(w) == {TickerOf[p] : p \in need[w].d \union need[w].w}

TodoNeeded ==
  \A w \in Worker : Loaded(w) /\ op[w] = All =>
    /\ need[w].d \subseteq Pos /\ need[w].w \subseteq Pos
    /\ todo[w] \subseteq Needed(w)

AheadTracked ==
  \A w \in Worker :
    /\ ahead[w] \subseteq Pos
    /\ pc[w] \in {"groups", "caches", "verdicts"} => ahead[w] \subseteq Tracked(w)
    /\ pc[w] \notin {"groups", "caches", "verdicts"} => ahead[w] = {}

IInv == Domains /\ Sync /\ Own /\ TodoNeeded /\ AheadTracked /\ VerdictMatchesSnapshot

LEMMA InitInv == Init => IInv
<1> SUFFICES ASSUME Init PROVE IInv
  OBVIOUS
<1>1. Domains
  BY DEF Init, Domains
<1>2. Sync /\ Own /\ TodoNeeded /\ AheadTracked
  BY DEF Init, Sync, Own, TodoNeeded, AheadTracked, Loaded
<1>3. VerdictMatchesSnapshot
  <2>1. row = NoRows \/ row = [p \in Pos |-> FirstRow(p)]
    BY DEF Init
  <2>2. CASE row = NoRows
    BY <2>2 DEF VerdictMatchesSnapshot, NoRows, NoRow
  <2>3. CASE row = [p \in Pos |-> FirstRow(p)]
    BY <2>3 DEF VerdictMatchesSnapshot, FirstRow
  <2> QED BY <2>1, <2>2, <2>3
<1> QED BY <1>1, <1>2, <1>3 DEF IInv

-----------------------------------------------------------------------------
(* Commits.                                                                *)

\* After a commit the row is what the session believes, if nobody crossed it.
LEMMA CommitSync ==
  ASSUME NEW w \in Worker, NEW c, Domains, Sync, Loaded(w), Commit(w, c),
         \A v \in Worker : Loaded(v)' => Loaded(v)
  PROVE  Sync'
<1> SUFFICES ASSUME NEW v \in Worker, Loaded(v)', NEW p \in Pos, p \notin crossed'[v]
             PROVE  Same(stored'[v][p], row'[p])
  BY DEF Sync, Same
<1>1. CASE v = w
  <2>1. stored'[v][p] = c[p] /\ crossed'[v] = crossed[v]
    BY <1>1 DEF Commit, Domains
  <2>2. Same(stored[w][p], row[p])
    BY <1>1, <2>1 DEF Sync
  <2>3. row'[p] = Updated(row[p], stored[w][p], c[p])
    BY DEF Commit
  <2> QED BY <2>1, <2>2, <2>3 DEF Same, Updated
<1>2. CASE v # w
  <2>1. stored'[v] = stored[v] /\ Loaded(v)
    BY <1>2 DEF Commit, Domains
  <2>2. p \notin crossed[v] /\ row'[p] = row[p]
    BY <1>2, <2>1 DEF Commit
  <2> QED BY <2>1, <2>2 DEF Sync
<1> QED BY <1>1, <1>2

\* A commit that is not one of verdicts changes the snapshots it announces.
LEMMA CommitMatches ==
  ASSUME NEW w \in Worker, NEW c, Domains, VerdictMatchesSnapshot, Commit(w, c),
         \A p \in Pos : c[p].cv = stored[w][p].cv,
         ahead' = [ahead EXCEPT ![w] = @ \union Changes(w, c)], torn' = torn
  PROVE  VerdictMatchesSnapshot'
<1> SUFFICES ASSUME NEW p \in Pos, p \notin torn, row'[p].cv # None,
                    \A v \in Worker : p \notin ahead'[v]
             PROVE  row'[p].cv.d = row'[p].d /\ row'[p].cv.w = row'[p].w
  BY DEF VerdictMatchesSnapshot
<1>1. p \notin Changes(w, c) /\ \A v \in Worker : p \notin ahead[v]
  BY DEF Domains
<1>2. c[p].d = stored[w][p].d /\ c[p].w = stored[w][p].w
  BY <1>1 DEF Changes, Snapshot
<1>3. row'[p] = Updated(row[p], stored[w][p], c[p])
  BY DEF Commit
<1>4. row'[p].cv = row[p].cv /\ row'[p].d = row[p].d /\ row'[p].w = row[p].w
  BY <1>2, <1>3 DEF Updated
<1> QED BY <1>1, <1>4 DEF VerdictMatchesSnapshot

-----------------------------------------------------------------------------
(* The steps of a refresh.                                                 *)

LEMMA AskStep ==
  ASSUME NEW w \in Worker, NEW o, IInv, Ask(w, o)
  PROVE  IInv'
<1> USE DEF IInv, Ask, db, session
<1>1. Domains'
  BY DEF Domains
<1>2. pc' = [pc EXCEPT ![w] = "mark"] /\ pc[w] = "idle"
  OBVIOUS
<1>3. \A v \in Worker : /\ Loaded(v)' <=> Loaded(v)
                        /\ v # w => pc'[v] = pc[v] /\ op'[v] = op[v]
                        /\ ~Loaded(w)
  BY <1>2 DEF Loaded, Domains
<1>4. Sync'
  BY <1>3 DEF Sync
<1>5. Own'
  BY <1>3 DEF Own, Targets
<1>6. TodoNeeded'
  BY <1>3 DEF TodoNeeded, Needed
<1>7. AheadTracked'
  BY <1>2, <1>3 DEF AheadTracked, Tracked, Targets, Domains
<1>8. VerdictMatchesSnapshot'
  BY DEF VerdictMatchesSnapshot
<1> QED BY <1>1, <1>4, <1>5, <1>6, <1>7, <1>8

LEMMA MarkStep ==
  ASSUME NEW w \in Worker, IInv, Mark(w)
  PROVE  IInv'
<1> USE DEF IInv, Mark
<1>1. Domains'
  BY DEF Domains
<1>2. \A v \in Worker : /\ Loaded(v)' <=> Loaded(v)
                        /\ v # w => pc'[v] = pc[v]
                        /\ pc[w] = "mark" /\ pc'[w] = "load"
  BY DEF Loaded, Domains
<1>3. Sync'
  BY <1>2 DEF Sync
<1>4. Own'
  BY <1>2 DEF Own, Targets
<1>5. TodoNeeded'
  BY <1>2 DEF TodoNeeded, Needed
<1>6. AheadTracked'
  BY <1>2 DEF AheadTracked, Tracked, Targets
<1>7. VerdictMatchesSnapshot'
  BY DEF VerdictMatchesSnapshot
<1> QED BY <1>1, <1>3, <1>4, <1>5, <1>6, <1>7

LEMMA LoadStep ==
  ASSUME NEW w \in Worker, IInv, Load(w)
  PROVE  IInv'
<1> DEFINE stale == [d |-> StaleDaily(Targets(w)), w |-> StaleWeekly(Targets(w))]
<1> USE DEF IInv
<1>1. /\ pc[w] = "load" /\ pc' = [pc EXCEPT ![w] = "groups"]
      /\ copy' = [copy EXCEPT ![w] = row] /\ stored' = [stored EXCEPT ![w] = row]
      /\ need' = [need EXCEPT ![w] = stale]
      /\ todo' = [todo EXCEPT ![w] = {TickerOf[p] : p \in stale.d \union stale.w}]
      /\ crossed' = [crossed EXCEPT ![w] = {}]
      /\ UNCHANGED <<row, op, ahead, torn>>
  BY DEF Load, db
<1>2. Domains'
  BY <1>1 DEF Domains
<1>3. \A v \in Worker : v # w => /\ pc'[v] = pc[v] /\ copy'[v] = copy[v]
                                 /\ stored'[v] = stored[v] /\ need'[v] = need[v]
                                 /\ todo'[v] = todo[v] /\ crossed'[v] = crossed[v]
  BY <1>1
<1>4. /\ pc'[w] = "groups" /\ copy'[w] = row /\ stored'[w] = row /\ need'[w] = stale
      /\ todo'[w] = {TickerOf[p] : p \in stale.d \union stale.w} /\ ahead[w] = {}
  BY <1>1 DEF Domains, AheadTracked
<1>5. Sync'
  BY <1>1, <1>3, <1>4 DEF Sync, Same, Loaded
<1>6. Own'
  BY <1>1, <1>3, <1>4 DEF Own, Targets, Loaded
<1>7. TodoNeeded'
  <2> SUFFICES ASSUME NEW v \in Worker, Loaded(v)', op[v] = All
               PROVE  /\ need'[v].d \subseteq Pos /\ need'[v].w \subseteq Pos
                      /\ todo'[v] \subseteq Needed(v)'
    BY <1>1 DEF TodoNeeded
  <2>1. CASE v = w
    <3>1. stale.d \subseteq Pos /\ stale.w \subseteq Pos
      BY <2>1 DEF StaleDaily, StaleWeekly, Targets
    <3> QED BY <2>1, <3>1, <1>4 DEF Needed
  <2>2. CASE v # w
    BY <2>2, <1>3 DEF TodoNeeded, Needed, Loaded
  <2> QED BY <2>1, <2>2
<1>8. AheadTracked'
  BY <1>1, <1>3, <1>4 DEF AheadTracked, Tracked, Targets
<1>9. VerdictMatchesSnapshot'
  BY <1>1 DEF VerdictMatchesSnapshot
<1> QED BY <1>2, <1>5, <1>6, <1>7, <1>8, <1>9

LEMMA RefreshStep ==
  ASSUME NEW w \in Worker, NEW t \in Ticker, IInv, Refresh(w, t)
  PROVE  IInv'
<1> USE DEF IInv
<1>1. PICK b : LET c == Copied(w, t, b)
               IN IF op[w] = All
                  THEN /\ Commit(w, c)
                       /\ ahead' = [ahead EXCEPT ![w] = @ \union Changes(w, c)]
                  ELSE /\ copy' = [copy EXCEPT ![w] = c]
                       /\ UNCHANGED <<row, stored, crossed, ahead>>
  BY DEF Refresh
<1> DEFINE c == Copied(w, t, b)
<1>2. /\ pc[w] = "groups" /\ t \in todo[w] /\ todo' = [todo EXCEPT ![w] = @ \ {t}]
      /\ UNCHANGED <<pc, op, need, torn>>
  BY DEF Refresh
<1>3. Loaded(w) /\ \A v \in Worker : Loaded(v)' <=> Loaded(v)
  BY <1>2 DEF Loaded
<1>4. \A p \in Pos : /\ c[p].cv = copy[w][p].cv /\ c[p].pv = copy[w][p].pv
                     /\ p \notin Group(t) \intersect Targets(w) => c[p] = copy[w][p]
  BY DEF Copied
<1>5. TodoNeeded'
  <2>1. \A v \in Worker : todo'[v] \subseteq todo[v]
    BY <1>2 DEF Domains
  <2> QED BY <2>1, <1>2, <1>3 DEF TodoNeeded, Needed
<1>6. CASE op[w] = All
  <2>1. Commit(w, c) /\ ahead' = [ahead EXCEPT ![w] = @ \union Changes(w, c)]
    BY <1>1, <1>6
  <2>2. \A p \in Pos : c[p].cv = stored[w][p].cv
    BY <1>3, <1>4 DEF Own
  <2>3. Domains'
    BY <1>2, <2>1 DEF Domains, Commit
  <2>4. Sync'
    <3> HIDE DEF c
    <3> QED BY <1>3, <2>1, CommitSync
  <2>5. VerdictMatchesSnapshot'
    <3> HIDE DEF c
    <3> QED BY <1>2, <2>1, <2>2, CommitMatches
  <2>6. Own'
    <3>1. \A v \in Worker : v # w => copy'[v] = copy[v] /\ stored'[v] = stored[v]
      BY <2>1 DEF Commit
    <3>2. copy'[w] = c /\ stored'[w] = c
      BY <2>1 DEF Commit, Domains
    <3> HIDE DEF c
    <3> QED BY <1>2, <1>3, <3>1, <3>2 DEF Own, Targets
  <2>7. Changes(w, c) \subseteq Pos /\ Changes(w, c) \subseteq Tracked(w)
    <3> SUFFICES ASSUME NEW p \in Pos, p \in Changes(w, c)
                 PROVE  p \in Tracked(w)
      BY DEF Changes
    <3>1. p \in Group(t)
      <4>1. copy[w][p].d = stored[w][p].d /\ copy[w][p].w = stored[w][p].w
        BY <1>3, <1>6 DEF Own
      <4> QED BY <4>1, <1>4 DEF Changes, Snapshot
    <3>2. PICK q \in need[w].d \union need[w].w : t = TickerOf[q]
      BY <1>2, <1>3, <1>6 DEF TodoNeeded, Needed
    <3>3. q \in Group(TickerOf[p]) \intersect (need[w].d \union need[w].w)
      BY <3>1, <3>2, <1>3, <1>6 DEF TodoNeeded, Group
    <3> QED BY <3>3, <1>6 DEF Tracked, Targets
  <2>8. AheadTracked'
    <3>1. \A v \in Worker : v # w => ahead'[v] = ahead[v]
      BY <2>1
    <3>2. ahead'[w] = ahead[w] \union Changes(w, c)
      BY <2>1 DEF Domains
    <3>3. \A v \in Worker : Tracked(v)' = Tracked(v)
      BY <1>2 DEF Tracked, Targets
    <3> HIDE DEF c
    <3> QED BY <1>2, <2>7, <3>1, <3>2, <3>3 DEF AheadTracked
  <2> QED BY <1>5, <2>3, <2>4, <2>5, <2>6, <2>8
<1>7. CASE op[w] # All
  <2>1. copy' = [copy EXCEPT ![w] = c] /\ UNCHANGED <<row, stored, crossed, ahead>>
    BY <1>1, <1>7
  <2>2. Domains'
    BY <1>2, <2>1 DEF Domains
  <2>3. Sync'
    BY <1>3, <2>1 DEF Sync, Same
  <2>4. Own'
    <3>1. \A v \in Worker : v # w => copy'[v] = copy[v]
      BY <2>1
    <3>2. copy'[w] = c
      BY <2>1 DEF Domains
    <3>3. \A v \in Worker : Targets(v)' = Targets(v)
      BY <1>2 DEF Targets
    <3> HIDE DEF c
    <3> QED BY <1>2, <1>3, <1>4, <1>7, <2>1, <3>1, <3>2, <3>3 DEF Own
  <2>5. AheadTracked'
    BY <1>2, <2>1 DEF AheadTracked, Tracked, Targets
  <2>6. VerdictMatchesSnapshot'
    BY <1>2, <2>1 DEF VerdictMatchesSnapshot
  <2> QED BY <1>5, <2>2, <2>3, <2>4, <2>5, <2>6
<1> QED BY <1>6, <1>7

LEMMA GroupsDoneStep ==
  ASSUME NEW w \in Worker, IInv, GroupsDone(w)
  PROVE  IInv'
<1> USE DEF IInv, GroupsDone, db, session
<1>1. \A v \in Worker : /\ Loaded(v)' <=> Loaded(v)
                        /\ v # w => pc'[v] = pc[v]
                        /\ pc[w] = "groups" /\ pc'[w] \in {"caches", "verdicts"}
  BY DEF Loaded, Domains
<1>2. Domains'
  BY DEF Domains
<1>3. Sync'
  BY <1>1 DEF Sync
<1>4. Own'
  BY <1>1 DEF Own, Targets
<1>5. TodoNeeded'
  BY <1>1 DEF TodoNeeded, Needed
<1>6. AheadTracked'
  BY <1>1 DEF AheadTracked, Tracked, Targets
<1>7. VerdictMatchesSnapshot'
  BY DEF VerdictMatchesSnapshot
<1> QED BY <1>2, <1>3, <1>4, <1>5, <1>6, <1>7

LEMMA RefreshCacheStep ==
  ASSUME NEW w \in Worker, IInv, RefreshCache(w)
  PROVE  IInv'
<1> USE DEF IInv
<1> DEFINE c == copy[w]
<1>1. /\ Commit(w, c) /\ ahead' = [ahead EXCEPT ![w] = @ \union Changes(w, c)]
      /\ pc[w] = "caches"
      /\ pc' = [pc EXCEPT ![w] = IF left[w] = 1 THEN "verdicts" ELSE "caches"]
      /\ UNCHANGED <<op, need, todo, torn>>
  BY DEF RefreshCache
<1>2. Loaded(w) /\ \A v \in Worker : /\ Loaded(v)' <=> Loaded(v)
                                     /\ v # w => pc'[v] = pc[v]
                                     /\ pc'[w] \in {"caches", "verdicts"}
  BY <1>1 DEF Loaded, Domains
<1>3. \A p \in Pos : c[p].cv = stored[w][p].cv
  BY <1>2 DEF Own
<1>4. Domains'
  BY <1>1 DEF Domains, Commit
<1>5. Sync'
  <2> HIDE DEF c
  <2> QED BY <1>1, <1>2, CommitSync
<1>6. VerdictMatchesSnapshot'
  <2> HIDE DEF c
  <2> QED BY <1>1, <1>3, CommitMatches
<1>7. Own'
  <2>1. \A v \in Worker : v # w => copy'[v] = copy[v] /\ stored'[v] = stored[v]
    BY <1>1 DEF Commit
  <2>2. copy'[w] = c /\ stored'[w] = c
    BY <1>1 DEF Commit, Domains
  <2> HIDE DEF c
  <2> QED BY <1>1, <1>2, <2>1, <2>2 DEF Own, Targets
<1>8. TodoNeeded'
  BY <1>1, <1>2 DEF TodoNeeded, Needed
<1>9. Changes(w, c) \subseteq Pos /\ Changes(w, c) \subseteq Tracked(w)
  <2> SUFFICES ASSUME NEW p \in Pos, Snapshot(copy[w][p]) # Snapshot(stored[w][p])
               PROVE  p \in Tracked(w)
    BY DEF Changes
  <2> QED BY <1>2 DEF Own, Snapshot, Tracked
<1>10. AheadTracked'
  <2>1. \A v \in Worker : v # w => ahead'[v] = ahead[v]
    BY <1>1
  <2>2. ahead'[w] = ahead[w] \union Changes(w, c)
    BY <1>1 DEF Domains
  <2>3. \A v \in Worker : Tracked(v)' = Tracked(v)
    BY <1>1 DEF Tracked, Targets
  <2> HIDE DEF c
  <2> QED BY <1>1, <1>2, <1>9, <2>1, <2>2, <2>3 DEF AheadTracked
<1> QED BY <1>4, <1>5, <1>6, <1>7, <1>8, <1>10

LEMMA JudgeStep ==
  ASSUME NEW w \in Worker, IInv, Judge(w)
  PROVE  IInv'
<1> USE DEF IInv
<1> DEFINE c == [p \in Pos |-> IF p \in Tracked(w)
                              THEN Judged(copy[w][p], Verdict(p, copy[w][p]))
                              ELSE copy[w][p]]
<1>1. /\ Commit(w, c) /\ ahead' = [ahead EXCEPT ![w] = {}]
      /\ pc[w] = "verdicts" /\ pc' = [pc EXCEPT ![w] = "close"]
      /\ torn' = (torn \ Tracked(w)) \union (crossed[w] \intersect Tracked(w))
      /\ UNCHANGED <<op, need, todo>>
  BY DEF Judge
<1>2. Loaded(w) /\ \A v \in Worker : /\ Loaded(v)' <=> Loaded(v)
                                     /\ v # w => pc'[v] = pc[v] /\ ahead'[v] = ahead[v]
                                     /\ pc'[w] = "close" /\ ahead'[w] = {}
  BY <1>1 DEF Loaded, Domains
<1>3. Domains'
  BY <1>1 DEF Domains, Commit
<1>4. Sync'
  <2> HIDE DEF c
  <2> QED BY <1>1, <1>2, CommitSync
<1>5. Own'
  <2>1. \A v \in Worker : v # w => copy'[v] = copy[v] /\ stored'[v] = stored[v]
    BY <1>1 DEF Commit
  <2>2. copy'[w] = c /\ stored'[w] = c
    BY <1>1 DEF Commit, Domains
  <2> HIDE DEF c
  <2> QED BY <1>1, <1>2, <2>1, <2>2 DEF Own, Targets
<1>6. TodoNeeded'
  BY <1>1, <1>2 DEF TodoNeeded, Needed
<1>7. AheadTracked'
  BY <1>1, <1>2 DEF AheadTracked, Tracked, Targets
<1>8. VerdictMatchesSnapshot'
  <2> SUFFICES ASSUME NEW p \in Pos, p \notin torn', row'[p].cv # None,
                      \A v \in Worker : p \notin ahead'[v]
               PROVE  row'[p].cv.d = row'[p].d /\ row'[p].cv.w = row'[p].w
    BY DEF VerdictMatchesSnapshot
  <2>1. row'[p] = Updated(row[p], stored[w][p], c[p])
    <3> HIDE DEF c
    <3> QED BY <1>1 DEF Commit
  <2>2. CASE p \in Tracked(w)
    <3>1. Same(stored[w][p], row[p])
      BY <1>1, <1>2, <2>2 DEF Sync
    <3>2. c[p].cv.d = c[p].d /\ c[p].cv.w = c[p].w
      BY <2>2 DEF Judged, Verdict
    <3>3. row'[p].d = c[p].d /\ row'[p].w = c[p].w /\ row'[p].cv = c[p].cv
      <4> HIDE DEF c
      <4> QED BY <2>1, <3>1 DEF Same, Updated
    <3> QED BY <3>2, <3>3
  <2>3. CASE p \notin Tracked(w)
    <3>1. p \notin torn /\ \A v \in Worker : p \notin ahead[v]
      BY <1>1, <1>2, <2>3 DEF AheadTracked
    <3>2. c[p] = copy[w][p]
      BY <2>3
    <3>3. op[w] = All \/ p \notin Targets(w)
      BY <2>3 DEF Tracked
    <3>4. c[p].d = stored[w][p].d /\ c[p].w = stored[w][p].w /\ c[p].cv = stored[w][p].cv
      BY <1>2, <3>2, <3>3 DEF Own
    <3>5. row'[p].d = row[p].d /\ row'[p].w = row[p].w /\ row'[p].cv = row[p].cv
      <4> HIDE DEF c
      <4> QED BY <2>1, <3>4 DEF Updated
    <3> QED BY <3>1, <3>5 DEF VerdictMatchesSnapshot
  <2> QED BY <2>2, <2>3
<1> QED BY <1>3, <1>4, <1>5, <1>6, <1>7, <1>8

\* Sessions that end leave nothing behind but rows without their verdict.
LEMMA FinishStep ==
  ASSUME NEW S \in SUBSET Worker, IInv, Finish(S), row' = row,
         \A p \in Pos : p \in torn \/ (\E w \in S : p \in ahead[w]) => p \in torn'
  PROVE  IInv'
<1> USE DEF IInv
<1>1. Domains'
  BY DEF Domains, Finish
<1>2. \A w \in Worker : w \in S => pc'[w] = "idle" /\ ahead'[w] = {}
  BY DEF Finish
<1>3. \A w \in Worker : w \notin S =>
        /\ pc'[w] = pc[w] /\ op'[w] = op[w] /\ copy'[w] = copy[w]
        /\ stored'[w] = stored[w] /\ need'[w] = need[w] /\ todo'[w] = todo[w]
        /\ ahead'[w] = ahead[w] /\ crossed'[w] = crossed[w]
  BY DEF Finish
<1>4. \A w \in Worker : Loaded(w)' => w \notin S /\ Loaded(w)
  BY <1>2, <1>3 DEF Loaded
<1>5. Sync'
  BY <1>3, <1>4 DEF Sync, Same
<1>6. Own'
  BY <1>3, <1>4 DEF Own, Targets
<1>7. TodoNeeded'
  BY <1>3, <1>4 DEF TodoNeeded, Needed
<1>8. AheadTracked'
  BY <1>2, <1>3 DEF AheadTracked, Tracked, Targets
<1>9. VerdictMatchesSnapshot'
  BY <1>2, <1>3 DEF VerdictMatchesSnapshot
<1> QED BY <1>1, <1>5, <1>6, <1>7, <1>8, <1>9

LEMMA CloseStep ==
  ASSUME NEW w \in Worker, IInv, Close(w)
  PROVE  IInv'
<1>1. Finish({w}) /\ row' = row /\ torn' = torn
  BY DEF Close
<1>2. ahead[w] = {}
  BY DEF Close, IInv, AheadTracked
<1> QED BY <1>1, <1>2, FinishStep

LEMMA AbortStep ==
  ASSUME NEW w \in Worker, IInv, Abort(w)
  PROVE  IInv'
<1>1. Finish({w}) /\ row' = row /\ torn' = torn \union ahead[w]
  BY DEF Abort
<1> QED BY <1>1, FinishStep

LEMMA CrashStep ==
  ASSUME IInv, Crash
  PROVE  IInv'
<1>1. Finish(Worker) /\ row' = row /\ torn' = torn \union UNION {ahead[w] : w \in Worker}
  BY DEF Crash
<1> QED BY <1>1, FinishStep

\* Steps that touch neither a session nor the columns of a row.
LEMMA IdleStep ==
  ASSUME IInv, UNCHANGED <<row, pc, op, session, crossed, torn>>
  PROVE  IInv'
<1> USE DEF IInv, session
<1>1. Domains' /\ VerdictMatchesSnapshot'
  BY DEF Domains, VerdictMatchesSnapshot
<1>2. Sync' /\ Own'
  BY DEF Sync, Own, Loaded, Targets, Same
<1>3. TodoNeeded' /\ AheadTracked'
  BY DEF TodoNeeded, Needed, Loaded, AheadTracked, Tracked, Targets
<1> QED BY <1>1, <1>2, <1>3

-----------------------------------------------------------------------------

LEMMA NextStep == IInv /\ [Next]_vars => IInv'
<1> SUFFICES ASSUME IInv, [Next]_vars PROVE IInv'
  OBVIOUS
<1>1. CASE \E w \in Worker :
             \/ \E o \in Pos \union {All} : Ask(w, o)
             \/ \E t \in Ticker : Refresh(w, t)
             \/ Mark(w) \/ Load(w) \/ GroupsDone(w) \/ RefreshCache(w)
             \/ Judge(w) \/ Close(w) \/ Abort(w)
  <2> PICK w \in Worker :
             \/ \E o \in Pos \union {All} : Ask(w, o)
             \/ \E t \in Ticker : Refresh(w, t)
             \/ Mark(w) \/ Load(w) \/ GroupsDone(w) \/ RefreshCache(w)
             \/ Judge(w) \/ Close(w) \/ Abort(w)
    BY <1>1
  <2> QED BY AskStep, RefreshStep, MarkStep, LoadStep, GroupsDoneStep,
             RefreshCacheStep, JudgeStep, CloseStep, AbortStep
<1>2. CASE Crash
  BY <1>2, CrashStep
<1>3. CASE Sweep \/ NewDay \/ Over \/ UNCHANGED vars
  BY <1>3, IdleStep DEF Sweep, NewDay, Over, vars, db
<1> QED BY <1>1, <1>2, <1>3 DEF Next

\* Whatever refreshes run on the user's positions, and wherever they fail, a
\* stored verdict belongs to the snapshot stored beside it, but for rows
\* between the two commits of a refresh, rows whose refresh ended there, and
\* rows two refreshes wrote at once (refresh_all_positions, refresh_position).
THEOREM VerdictsMatch == Spec => []VerdictMatchesSnapshot
<1>1. IInv => VerdictMatchesSnapshot
  BY DEF IInv
<1> QED BY <1>1, InitInv, NextStep, PTL DEF Spec

-----------------------------------------------------------------------------
(* previous_verdict.                                                       *)

PreviousKept ==
  \A p \in Pos : row'[p].cv # row[p].cv /\ row[p].cv # None
    => row'[p].pv = row[p].cv \/ \E w \in Worker : stored'[w] # stored[w] /\ p \in crossed[w]

\* A session that wrote to a row knew another row than it wrote.
LEMMA JudgePrevious ==
  ASSUME NEW w \in Worker, IInv, Judge(w)
  PROVE  PreviousKept
<1> DEFINE c == [p \in Pos |-> IF p \in Tracked(w)
                              THEN Judged(copy[w][p], Verdict(p, copy[w][p]))
                              ELSE copy[w][p]]
<1>1. Commit(w, c) /\ Loaded(w)
  BY DEF Judge, Loaded
<1> SUFFICES ASSUME NEW p \in Pos, row'[p].cv # row[p].cv, row[p].cv # None,
                    ~ \E v \in Worker : stored'[v] # stored[v] /\ p \in crossed[v]
             PROVE  row'[p].pv = row[p].cv
  BY DEF PreviousKept
<1>2. row'[p] = Updated(row[p], stored[w][p], c[p]) /\ stored'[w] = c
  <2> HIDE DEF c
  <2> QED BY <1>1 DEF Commit, IInv, Domains
<1>3. c[p].cv # stored[w][p].cv
  <2> HIDE DEF c
  <2> QED BY <1>2 DEF Updated
<1>4. Same(stored[w][p], row[p])
  <2> HIDE DEF c
  <2>1. stored'[w] # stored[w]
    BY <1>2, <1>3
  <2> QED BY <1>1, <2>1 DEF IInv, Sync
<1>5. copy[w][p].cv = row[p].cv /\ copy[w][p].cv = stored[w][p].cv
  BY <1>1, <1>4 DEF IInv, Own, Same
<1>6. p \in Tracked(w)
  BY <1>3, <1>5
<1>7. c[p].cv = Verdict(p, copy[w][p]) /\ c[p].pv = row[p].cv
  BY <1>3, <1>5, <1>6 DEF Judged
<1>8. row'[p].pv = c[p].pv
  <2> HIDE DEF c
  <2> QED BY <1>2, <1>4 DEF Same, Updated
<1> QED BY <1>7, <1>8

LEMMA PreviousStep == IInv /\ [Next]_vars => PreviousKept
<1> SUFFICES ASSUME IInv, [Next]_vars PROVE PreviousKept
  OBVIOUS
<1>1. CASE \E w \in Worker : Judge(w)
  BY <1>1, JudgePrevious
<1>2. ASSUME NEW w \in Worker, NEW c, Commit(w, c), \A p \in Pos : c[p].cv = stored[w][p].cv
      PROVE  PreviousKept
  <2>1. \A p \in Pos : row'[p].cv = row[p].cv
    BY <1>2 DEF Commit, Updated
  <2> QED BY <2>1 DEF PreviousKept
<1>3. CASE \E w \in Worker, t \in Ticker : Refresh(w, t)
  <2> PICK w \in Worker, t \in Ticker : Refresh(w, t)
    BY <1>3
  <2>1. PICK b : row' = row \/ Commit(w, Copied(w, t, b))
    BY DEF Refresh
  <2>2. \A p \in Pos : Copied(w, t, b)[p].cv = stored[w][p].cv
    <3>1. Loaded(w)
      BY DEF Refresh, Loaded
    <3>2. \A p \in Pos : Copied(w, t, b)[p].cv = copy[w][p].cv
      BY DEF Copied
    <3> QED BY <3>1, <3>2 DEF IInv, Own
  <2> QED BY <1>2, <2>1, <2>2 DEF PreviousKept
<1>4. CASE \E w \in Worker : RefreshCache(w)
  <2> PICK w \in Worker : RefreshCache(w)
    BY <1>4
  <2>1. Commit(w, copy[w]) /\ Loaded(w)
    BY DEF RefreshCache, Loaded
  <2>2. \A p \in Pos : copy[w][p].cv = stored[w][p].cv
    BY <2>1 DEF IInv, Own
  <2> QED BY <1>2, <2>1, <2>2
<1>5. CASE row' = row
  BY <1>5 DEF PreviousKept
<1>6. row' = row \/ \E w \in Worker : \/ Judge(w) \/ RefreshCache(w)
                                      \/ \E t \in Ticker : Refresh(w, t)
  BY DEF Next, Ask, Mark, Load, GroupsDone, Close, Abort, Crash, Sweep, NewDay, Over,
         vars, db
<1> QED BY <1>1, <1>3, <1>4, <1>5, <1>6

\* previous_verdict, when it is set beside a new computed_verdict, is the
\* verdict the position had in the table until then, unless another refresh
\* wrote to the row since this one loaded it (_calculate_verdicts).
THEOREM PreviousVerdicts == Spec => PreviousIsPrevious
<1>1. IInv /\ [Next]_vars => [PreviousKept]_vars
  BY PreviousStep
<1>2. Spec => [][PreviousKept]_vars
  BY <1>1, InitInv, NextStep, PTL DEF Spec
<1> QED BY <1>2, PTL DEF PreviousIsPrevious, PreviousKept

-----------------------------------------------------------------------------
(* Types.  Weeks are counted on days, and a worker in the middle of a      *)
(* refresh knows what it refreshes and has caches left.                    *)

LEMMA DivisionGrows ==
  ASSUME NEW x \in Nat, NEW k \in Nat \ {0}
  PROVE  x \div k \in Nat /\ x \div k <= (x + 1) \div k
<1> DEFINE q == x \div k
           r == (x + 1) \div k
<1>1. q \in Nat /\ r \in Nat /\ k * q <= x /\ x + 1 < k * r + k
  OBVIOUS
<1> SUFFICES q <= r
  BY <1>1
<1> HIDE DEF q, r
<1>2. ASSUME q >= r + 1 PROVE FALSE
  <2>1. k * q >= k * (r + 1) /\ k * (r + 1) = k * r + k
    BY <1>1, <1>2
  <2> QED BY <1>1, <2>1
<1> QED BY <1>1, <1>2

LEMMA CeilingBounded ==
  ASSUME NEW n \in Nat, NEW k \in Nat \ {0}
  PROVE  (n + k - 1) \div k \in 0..n
<1> DEFINE q == (n + k - 1) \div k
<1>1. q \in Nat /\ k * q <= n + k - 1
  OBVIOUS
<1> SUFFICES q <= n
  BY <1>1
<1> HIDE DEF q
<1>2. ASSUME q >= n + 1 PROVE FALSE
  <2>1. k * q >= k * (n + 1) /\ k * (n + 1) = k * n + k /\ k * n >= n
    BY <1>1, <1>2
  <2> QED BY <1>1, <2>1
<1> QED BY <1>1, <1>2

LEMMA WeeksCount ==
  ASSUME NEW n \in Nat
  PROVE  WeekOf(n) \in 0..n /\ WeekOf(n) <= WeekOf(n + 1)
<1>1. n + DaysPerWeek - 1 \in Nat /\ (n + 1) + DaysPerWeek - 1 = (n + DaysPerWeek - 1) + 1
  BY DataAssumption
<1>2. (n + DaysPerWeek - 1) \div DaysPerWeek \in 0..n
  BY DataAssumption, CeilingBounded
<1>3. (n + DaysPerWeek - 1) \div DaysPerWeek
        <= ((n + DaysPerWeek - 1) + 1) \div DaysPerWeek
  BY <1>1, DataAssumption, DivisionGrows
<1> QED BY <1>1, <1>2, <1>3 DEF WeekOf

LEMMA TargetType ==
  ASSUME TypeOK
  PROVE  Target("d") \in Days /\ Target("w") \in Days
<1>1. day \in Nat /\ day <= LastDay
  BY DataAssumption DEF TypeOK
<1>2. WeekOf(day) \in 0..day
  BY <1>1, WeeksCount
<1> QED BY <1>1, <1>2, DataAssumption DEF Target, Days

Stages ==
  \A w \in Worker :
    /\ pc[w] # "idle" => op[w] \in Pos \union {All}
    /\ pc[w] = "groups" => left[w] = Len(Caches)
    /\ pc[w] = "caches" => left[w] # 0

TInv == TypeOK /\ Stages

LEMMA TargetsType ==
  ASSUME TInv, NEW w \in Worker, pc[w] # "idle"
  PROVE  Targets(w) \subseteq Pos
BY DEF TInv, Stages, Targets

LEMMA NothingTyped ==
  /\ NoRows \in [Pos -> Rows]
  /\ NoNeed \in [d : SUBSET Pos, w : SUBSET Pos]
  /\ NoBars \in [d : [Ticker -> Days], w : [Ticker -> Days]]
  /\ 0 \in 0..Len(Caches)
<1>1. 0 \in Days /\ Len(Caches) \in Nat
  BY DataAssumption DEF Days
<1>2. NoRow \in Rows
  BY <1>1 DEF NoRow, Rows
<1> QED BY <1>1, <1>2 DEF NoRows, NoNeed, NoBars

LEMMA InitTyped == Init => TInv
<1> SUFFICES ASSUME Init PROVE TInv
  OBVIOUS
<1>1. 0 \in Days /\ 1 \in Days /\ 1 \in 1..LastDay /\ 0 \in 0..MaxOps
  BY DataAssumption DEF Days
<1>2. \A p \in Pos : FirstRow(p) \in Rows
  BY <1>1 DEF FirstRow, Rows, Verdicts
<1>3. row \in [Pos -> Rows] /\ cache \in [Kinds -> [Ticker -> Days]]
  BY <1>1, <1>2, NothingTyped DEF Init
<1>4. pc \in [Worker -> PCs] /\ op \in [Worker -> Pos \union {All, None}]
  BY DEF Init, PCs
<1>5. /\ copy \in [Worker -> [Pos -> Rows]] /\ stored \in [Worker -> [Pos -> Rows]]
      /\ need \in [Worker -> [d : SUBSET Pos, w : SUBSET Pos]]
      /\ got \in [Worker -> [d : [Ticker -> Days], w : [Ticker -> Days]]]
      /\ left \in [Worker -> 0..Len(Caches)]
  BY NothingTyped DEF Init
<1>6. TypeOK
  BY <1>1, <1>3, <1>4, <1>5 DEF Init, TypeOK
<1>7. Stages
  BY DEF Init, Stages
<1> QED BY <1>6, <1>7 DEF TInv

-----------------------------------------------------------------------------
(* The types of what commits and ends of sessions write.                   *)

LEMMA CommitTyped ==
  ASSUME TypeOK, NEW w \in Worker, NEW c \in [Pos -> Rows], Commit(w, c)
  PROVE  /\ row' \in [Pos -> Rows]
         /\ copy' \in [Worker -> [Pos -> Rows]] /\ stored' \in [Worker -> [Pos -> Rows]]
         /\ crossed' \in [Worker -> SUBSET Pos]
<1>1. \A p \in Pos : row[p] \in Rows /\ c[p] \in Rows
  BY DEF TypeOK
<1>2. ASSUME NEW r \in Rows, NEW old, NEW new \in Rows PROVE Updated(r, old, new) \in Rows
  BY <1>2 DEF Updated, Rows
<1>3. row' \in [Pos -> Rows]
  BY <1>1, <1>2 DEF Commit
<1>4. copy' \in [Worker -> [Pos -> Rows]] /\ stored' \in [Worker -> [Pos -> Rows]]
  BY DEF Commit, TypeOK
<1>5. crossed' \in [Worker -> SUBSET Pos]
  BY DEF Commit, TypeOK
<1> QED BY <1>3, <1>4, <1>5

LEMMA ChangesType ==
  ASSUME NEW w, NEW c
  PROVE  Changes(w, c) \subseteq Pos
BY DEF Changes

LEMMA FinishTyped ==
  ASSUME TInv, NEW S \in SUBSET Worker, Finish(S), UNCHANGED <<day, row, cache, ops>>,
         flagged' \subseteq Pos, torn' \subseteq Pos
  PROVE  TInv'
<1> DEFINE reset(f, v) == [w \in Worker |-> IF w \in S THEN v ELSE f[w]]
<1>1. ASSUME NEW T, NEW f \in [Worker -> T], NEW v \in T
      PROVE  reset(f, v) \in [Worker -> T]
  BY <1>1
<1>2. /\ pc' = reset(pc, "idle") /\ op' = reset(op, None)
      /\ copy' = reset(copy, NoRows) /\ stored' = reset(stored, NoRows)
      /\ need' = reset(need, NoNeed) /\ got' = reset(got, NoBars)
      /\ todo' = reset(todo, {}) /\ left' = reset(left, 0) /\ owed' = reset(owed, {})
      /\ ahead' = reset(ahead, {}) /\ crossed' = reset(crossed, {})
  BY DEF Finish
<1>3. Stages'
  BY <1>2 DEF TInv, TypeOK, Stages
<1> HIDE DEF reset
<1>4. "idle" \in PCs /\ None \in Pos \union {All, None}
  BY DEF PCs
<1>5. pc' \in [Worker -> PCs] /\ op' \in [Worker -> Pos \union {All, None}]
  BY <1>1, <1>2, <1>4 DEF TInv, TypeOK
<1>6. copy' \in [Worker -> [Pos -> Rows]] /\ stored' \in [Worker -> [Pos -> Rows]]
  BY <1>1, <1>2, NothingTyped DEF TInv, TypeOK
<1>7. /\ need' \in [Worker -> [d : SUBSET Pos, w : SUBSET Pos]]
      /\ got' \in [Worker -> [d : [Ticker -> Days], w : [Ticker -> Days]]]
  BY <1>1, <1>2, NothingTyped DEF TInv, TypeOK
<1>8. todo' \in [Worker -> SUBSET Ticker] /\ left' \in [Worker -> 0..Len(Caches)]
  BY <1>1, <1>2, NothingTyped DEF TInv, TypeOK
<1>9. /\ owed' \in [Worker -> SUBSET Pos]
      /\ ahead' \in [Worker -> SUBSET Pos] /\ crossed' \in [Worker -> SUBSET Pos]
  BY <1>1, <1>2 DEF TInv, TypeOK
<1> QED BY <1>3, <1>5, <1>6, <1>7, <1>8, <1>9 DEF TInv, TypeOK

-----------------------------------------------------------------------------
(* Every step keeps the types.                                             *)

LEMMA AskTyped ==
  ASSUME NEW w \in Worker, NEW o \in Pos \union {All}, TInv, Ask(w, o)
  PROVE  TInv'
<1> USE DEF TInv, Ask, db, session
<1>1. ops' \in 0..MaxOps
  BY DataAssumption DEF TypeOK
<1>2. pc' \in [Worker -> PCs] /\ op' \in [Worker -> Pos \union {All, None}]
  BY DEF TypeOK, PCs
<1>3. Stages'
  BY DEF TypeOK, Stages
<1> QED BY <1>1, <1>2, <1>3 DEF TypeOK

LEMMA MarkTyped ==
  ASSUME NEW w \in Worker, TInv, Mark(w)
  PROVE  TInv'
<1>1. Targets(w) \subseteq Pos
  BY TargetsType DEF Mark
<1>2. pc' \in [Worker -> PCs] /\ flagged' \subseteq Pos /\ owed' \in [Worker -> SUBSET Pos]
  BY <1>1 DEF TInv, TypeOK, Mark, PCs
<1>3. Stages'
  BY DEF TInv, TypeOK, Stages, Mark
<1> QED BY <1>2, <1>3 DEF TInv, TypeOK, Mark

LEMMA LoadTyped ==
  ASSUME NEW w \in Worker, TInv, Load(w)
  PROVE  TInv'
<1> DEFINE stale == [d |-> StaleDaily(Targets(w)), w |-> StaleWeekly(Targets(w))]
<1>1. PICK early \in [{"d", "w"} -> SUBSET {TickerOf[p] : p \in Targets(w)}] :
        got' = [got EXCEPT ![w] = [s \in {"d", "w"} |-> [t \in Ticker |->
                  IF t \in early[s] THEN Target(s) ELSE 0]]]
  BY DEF Load
<1>2. /\ pc[w] = "load" /\ pc' = [pc EXCEPT ![w] = "groups"]
      /\ copy' = [copy EXCEPT ![w] = row] /\ stored' = [stored EXCEPT ![w] = row]
      /\ need' = [need EXCEPT ![w] = stale]
      /\ todo' = [todo EXCEPT ![w] = {TickerOf[p] : p \in stale.d \union stale.w}]
      /\ left' = [left EXCEPT ![w] = Len(Caches)]
      /\ crossed' = [crossed EXCEPT ![w] = {}]
      /\ UNCHANGED <<day, row, cache, flagged, ops, op, owed, ahead, torn>>
  BY DEF Load, db
<1>3. Targets(w) \subseteq Pos
  BY <1>2, TargetsType
<1>4. stale.d \subseteq Pos /\ stale.w \subseteq Pos
  BY <1>3 DEF StaleDaily, StaleWeekly
<1>5. {TickerOf[p] : p \in stale.d \union stale.w} \subseteq Ticker
  BY <1>4 DEF Ticker
<1> HIDE DEF stale
<1>6. need' \in [Worker -> [d : SUBSET Pos, w : SUBSET Pos]]
  <2>1. stale \in [d : SUBSET Pos, w : SUBSET Pos]
    BY <1>4 DEF stale
  <2> QED BY <1>2, <2>1 DEF TInv, TypeOK
<1>7. got' \in [Worker -> [d : [Ticker -> Days], w : [Ticker -> Days]]]
  <2>1. Target("d") \in Days /\ Target("w") \in Days /\ 0 \in Days
    BY TargetType, DataAssumption DEF TInv, Days
  <2>2. [s \in {"d", "w"} |-> [t \in Ticker |-> IF t \in early[s] THEN Target(s) ELSE 0]]
          \in [d : [Ticker -> Days], w : [Ticker -> Days]]
    BY <2>1
  <2> QED BY <1>1, <2>2 DEF TInv, TypeOK
<1>8. pc' \in [Worker -> PCs] /\ left' \in [Worker -> 0..Len(Caches)]
  BY <1>2, DataAssumption DEF TInv, TypeOK, PCs
<1>9. /\ todo' \in [Worker -> SUBSET Ticker] /\ crossed' \in [Worker -> SUBSET Pos]
      /\ copy' \in [Worker -> [Pos -> Rows]] /\ stored' \in [Worker -> [Pos -> Rows]]
  BY <1>2, <1>5 DEF TInv, TypeOK
<1>10. Stages'
  BY <1>2 DEF TInv, TypeOK, Stages
<1> QED BY <1>2, <1>6, <1>7, <1>8, <1>9, <1>10 DEF TInv, TypeOK

LEMMA BarsTyped ==
  ASSUME TypeOK, NEW w \in Worker, NEW t \in Ticker, NEW S, NEW failed
  PROVE  Bars(w, t, S, failed) \in [d : Days, w : Days]
<1>1. Target("d") \in Days /\ Target("w") \in Days /\ 0 \in Days
  BY TargetType, DataAssumption DEF Days
<1>2. got[w] \in [d : [Ticker -> Days], w : [Ticker -> Days]]
  BY DEF TypeOK
<1>3. got[w]["d"][t] \in Days /\ got[w]["w"][t] \in Days
  BY <1>2
<1> QED BY <1>1, <1>3 DEF Bars

LEMMA CopiedTyped ==
  ASSUME TypeOK, NEW w \in Worker, NEW t \in Ticker, NEW b \in [d : Days, w : Days]
  PROVE  Copied(w, t, b) \in [Pos -> Rows]
<1>1. \A p \in Pos : copy[w][p] \in Rows
  BY DEF TypeOK
<1> QED BY <1>1 DEF Copied, Rows

LEMMA RefreshTyped ==
  ASSUME NEW w \in Worker, NEW t \in Ticker, TInv, Refresh(w, t)
  PROVE  TInv'
<1>1. PICK S, failed :
        LET bars == Bars(w, t, S, failed)
            c == Copied(w, t, bars)
        IN /\ got' = [got EXCEPT ![w] = [s \in {"d", "w"} |-> [u \in Ticker |->
                IF u = t /\ bars[s] # 0 THEN bars[s] ELSE got[w][s][u]]]]
           /\ IF op[w] = All
              THEN /\ Commit(w, c)
                   /\ ahead' = [ahead EXCEPT ![w] = @ \union Changes(w, c)]
                   /\ flagged' = flagged \ Group(t)
                   /\ owed' = [owed EXCEPT ![w] = @ \ Group(t)]
              ELSE /\ copy' = [copy EXCEPT ![w] = c]
                   /\ UNCHANGED <<row, stored, crossed, ahead, flagged, owed>>
  BY DEF Refresh
<1> DEFINE bars == Bars(w, t, S, failed)
           c == Copied(w, t, bars)
<1>2. /\ pc[w] = "groups" /\ todo' = [todo EXCEPT ![w] = @ \ {t}]
      /\ UNCHANGED <<day, cache, ops, pc, op, need, left, torn>>
  BY DEF Refresh
<1>3. bars \in [d : Days, w : Days]
  BY BarsTyped DEF TInv
<1> HIDE DEF bars
<1>4. c \in [Pos -> Rows]
  BY <1>3, CopiedTyped DEF TInv
<1>5. got' = [got EXCEPT ![w] = [s \in {"d", "w"} |-> [u \in Ticker |->
                IF u = t /\ bars[s] # 0 THEN bars[s] ELSE got[w][s][u]]]]
  BY <1>1 DEF bars
<1>6. /\ op[w] = All => /\ Commit(w, c)
                        /\ ahead' = [ahead EXCEPT ![w] = @ \union Changes(w, c)]
                        /\ flagged' = flagged \ Group(t)
                        /\ owed' = [owed EXCEPT ![w] = @ \ Group(t)]
      /\ op[w] # All => /\ copy' = [copy EXCEPT ![w] = c]
                        /\ UNCHANGED <<row, stored, crossed, ahead, flagged, owed>>
  BY <1>1 DEF bars
<1> HIDE DEF c
<1>7. got' \in [Worker -> [d : [Ticker -> Days], w : [Ticker -> Days]]]
  <2>1. got[w] \in [d : [Ticker -> Days], w : [Ticker -> Days]]
    BY DEF TInv, TypeOK
  <2>2. \A s \in {"d", "w"} : got[w][s] \in [Ticker -> Days] /\ bars[s] \in Days
    BY <2>1, <1>3
  <2>3. [s \in {"d", "w"} |-> [u \in Ticker |->
          IF u = t /\ bars[s] # 0 THEN bars[s] ELSE got[w][s][u]]]
            \in [d : [Ticker -> Days], w : [Ticker -> Days]]
    BY <2>2
  <2> QED BY <1>5, <2>3 DEF TInv, TypeOK
<1>8. /\ row' \in [Pos -> Rows]
      /\ copy' \in [Worker -> [Pos -> Rows]] /\ stored' \in [Worker -> [Pos -> Rows]]
      /\ crossed' \in [Worker -> SUBSET Pos]
  <2>1. CASE op[w] = All
    BY <2>1, <1>4, <1>6, CommitTyped DEF TInv
  <2>2. CASE op[w] # All
    BY <2>2, <1>4, <1>6 DEF TInv, TypeOK
  <2> QED BY <2>1, <2>2
<1>9. /\ ahead' \in [Worker -> SUBSET Pos] /\ owed' \in [Worker -> SUBSET Pos]
      /\ flagged' \subseteq Pos
  <2>1. Changes(w, c) \subseteq Pos
    BY ChangesType
  <2>2. CASE op[w] = All
    <3>1. /\ ahead \in [Worker -> SUBSET Pos] /\ owed \in [Worker -> SUBSET Pos]
          /\ flagged \subseteq Pos
      BY DEF TInv, TypeOK
    <3>2. /\ ahead' = [ahead EXCEPT ![w] = ahead[w] \union Changes(w, c)]
          /\ flagged' = flagged \ Group(t)
          /\ owed' = [owed EXCEPT ![w] = owed[w] \ Group(t)]
      BY <1>6, <2>2
    <3> QED BY <2>1, <3>1, <3>2
  <2>3. CASE op[w] # All
    BY <1>6, <2>3 DEF TInv, TypeOK
  <2> QED BY <2>2, <2>3
<1>10. todo' \in [Worker -> SUBSET Ticker]
  BY <1>2 DEF TInv, TypeOK
<1>11. Stages'
  BY <1>2 DEF TInv, Stages
<1> QED BY <1>2, <1>7, <1>8, <1>9, <1>10, <1>11 DEF TInv, TypeOK

LEMMA GroupsDoneTyped ==
  ASSUME NEW w \in Worker, TInv, GroupsDone(w)
  PROVE  TInv'
<1> USE DEF TInv, GroupsDone, db, session
<1>1. pc' \in [Worker -> PCs]
  BY DEF TypeOK, PCs
<1>2. Caches # <<>> => Len(Caches) # 0
  BY DataAssumption
<1>3. Stages'
  BY <1>2 DEF TypeOK, Stages
<1> QED BY <1>1, <1>3 DEF TypeOK

LEMMA RefreshCacheTyped ==
  ASSUME NEW w \in Worker, TInv, RefreshCache(w)
  PROVE  TInv'
<1> DEFINE k == Caches[Len(Caches) + 1 - left[w]]
           s == SeriesOf(k)
           stale == {t \in {TickerOf[p] : p \in Targets(w)} : cache[k][t] < Target(s)}
           c == copy[w]
<1>0. PICK failed \in SUBSET {t \in stale : got[w][s][t] = 0} :
        LET bars == [t \in Ticker |-> IF t \in stale \ failed
                                     THEN Bars(w, t, {s}, {})[s] ELSE 0]
        IN /\ cache' = [cache EXCEPT ![k] =
                          [t \in Ticker |-> IF bars[t] = 0 THEN @[t] ELSE bars[t]]]
           /\ got' = [got EXCEPT ![w][s] =
                        [t \in Ticker |-> IF bars[t] = 0 THEN @[t] ELSE bars[t]]]
  BY DEF RefreshCache
<1> DEFINE bars == [t \in Ticker |-> IF t \in stale \ failed
                                     THEN Bars(w, t, {s}, {})[s] ELSE 0]
<1>1. /\ cache' = [cache EXCEPT ![k] =
                      [t \in Ticker |-> IF bars[t] = 0 THEN cache[k][t] ELSE bars[t]]]
      /\ got' = [got EXCEPT ![w][s] =
                    [t \in Ticker |-> IF bars[t] = 0 THEN got[w][s][t] ELSE bars[t]]]
  BY <1>0
<1>2. /\ pc[w] = "caches"
      /\ Commit(w, c) /\ ahead' = [ahead EXCEPT ![w] = @ \union Changes(w, c)]
      /\ left' = [left EXCEPT ![w] = @ - 1]
      /\ pc' = [pc EXCEPT ![w] = IF left[w] = 1 THEN "verdicts" ELSE "caches"]
      /\ UNCHANGED <<day, flagged, ops, op, need, todo, owed, torn>>
  BY DEF RefreshCache
<1>3. left[w] \in 1..Len(Caches) /\ Len(Caches) \in Nat
  BY <1>2, DataAssumption DEF TInv, TypeOK, Stages
<1>4. k \in Kinds
  <2>1. Len(Caches) + 1 - left[w] \in DOMAIN Caches
    BY <1>3, DataAssumption
  <2> QED BY <2>1 DEF Kinds
<1>5. s \in {"d", "w"}
  BY DEF SeriesOf
<1> HIDE DEF k, s, c, stale
<1>6. bars \in [Ticker -> Days]
  <2>2. \A t \in Ticker : Bars(w, t, {s}, {})[s] \in Days
    BY <1>5, BarsTyped DEF TInv
  <2>3. 0 \in Days
    BY DataAssumption DEF Days
  <2> QED BY <2>2, <2>3
<1> HIDE DEF bars
<1>7. cache' \in [Kinds -> [Ticker -> Days]]
  <2>1. [t \in Ticker |-> IF bars[t] = 0 THEN cache[k][t] ELSE bars[t]] \in [Ticker -> Days]
    BY <1>4, <1>6 DEF TInv, TypeOK
  <2> QED BY <1>1, <1>4, <2>1 DEF TInv, TypeOK
<1>8. got' \in [Worker -> [d : [Ticker -> Days], w : [Ticker -> Days]]]
  <2>1. got[w] \in [d : [Ticker -> Days], w : [Ticker -> Days]]
    BY DEF TInv, TypeOK
  <2>2. [t \in Ticker |-> IF bars[t] = 0 THEN got[w][s][t] ELSE bars[t]] \in [Ticker -> Days]
    BY <1>5, <1>6, <2>1
  <2>3. [got[w] EXCEPT ![s] = [t \in Ticker |-> IF bars[t] = 0 THEN got[w][s][t] ELSE bars[t]]]
          \in [d : [Ticker -> Days], w : [Ticker -> Days]]
    BY <1>5, <2>1, <2>2
  <2> QED BY <1>1, <2>3 DEF TInv, TypeOK
<1>9. /\ row' \in [Pos -> Rows]
      /\ copy' \in [Worker -> [Pos -> Rows]] /\ stored' \in [Worker -> [Pos -> Rows]]
      /\ crossed' \in [Worker -> SUBSET Pos]
  <2>1. c \in [Pos -> Rows]
    BY DEF c, TInv, TypeOK
  <2> QED BY <1>2, <2>1, CommitTyped DEF TInv
<1>10. ahead' \in [Worker -> SUBSET Pos]
  BY <1>2, ChangesType DEF TInv, TypeOK
<1>11. left' \in [Worker -> 0..Len(Caches)] /\ pc' \in [Worker -> PCs]
  BY <1>2, <1>3 DEF TInv, TypeOK, PCs
<1>12. Stages'
  BY <1>2, <1>3 DEF TInv, TypeOK, Stages
<1> QED BY <1>2, <1>7, <1>8, <1>9, <1>10, <1>11, <1>12 DEF TInv, TypeOK

LEMMA JudgedTyped ==
  ASSUME TInv, NEW w \in Worker,
         NEW c, c = [p \in Pos |-> IF p \in Tracked(w)
                                  THEN Judged(copy[w][p], Verdict(p, copy[w][p]))
                                  ELSE copy[w][p]]
  PROVE  c \in [Pos -> Rows]
<1>1. ASSUME NEW p \in Pos, NEW r \in Rows PROVE Judged(r, Verdict(p, r)) \in Rows
  <2>1. \A k \in Kinds : cache[k][TickerOf[p]] \in Days
    <3>1. cache \in [Kinds -> [Ticker -> Days]]
      BY DEF TInv, TypeOK
    <3>2. TickerOf[p] \in Ticker
      BY DEF Ticker
    <3> QED BY <3>1, <3>2
  <2>2. Verdict(p, r) \in Verdicts
    BY <2>1 DEF Verdict, Verdicts, Rows
  <2> HIDE DEF Verdict
  <2> QED BY <2>2 DEF Judged, Rows
<1>2. \A p \in Pos : copy[w][p] \in Rows
  BY DEF TInv, TypeOK
<1> QED BY <1>1, <1>2

LEMMA JudgeTyped ==
  ASSUME NEW w \in Worker, TInv, Judge(w)
  PROVE  TInv'
<1> DEFINE c == [p \in Pos |-> IF p \in Tracked(w)
                              THEN Judged(copy[w][p], Verdict(p, copy[w][p]))
                              ELSE copy[w][p]]
<1>1. /\ Commit(w, c) /\ ahead' = [ahead EXCEPT ![w] = {}]
      /\ pc[w] = "verdicts" /\ pc' = [pc EXCEPT ![w] = "close"]
      /\ torn' = (torn \ Tracked(w)) \union (crossed[w] \intersect Tracked(w))
      /\ flagged' = flagged \ (Targets(w) \ {p \in Pos : op[w] = All})
      /\ owed' = [owed EXCEPT ![w] = @ \ {op[w]}]
      /\ UNCHANGED <<day, cache, ops, op, need, got, todo, left>>
  BY DEF Judge
<1>2. c \in [Pos -> Rows]
  BY JudgedTyped
<1> HIDE DEF c
<1>3. /\ row' \in [Pos -> Rows]
      /\ copy' \in [Worker -> [Pos -> Rows]] /\ stored' \in [Worker -> [Pos -> Rows]]
      /\ crossed' \in [Worker -> SUBSET Pos]
  BY <1>1, <1>2, CommitTyped DEF TInv
<1>4. /\ ahead' \in [Worker -> SUBSET Pos] /\ owed' \in [Worker -> SUBSET Pos]
      /\ flagged' \subseteq Pos /\ torn' \subseteq Pos
  BY <1>1 DEF TInv, TypeOK
<1>5. pc' \in [Worker -> PCs] /\ Stages'
  BY <1>1 DEF TInv, TypeOK, PCs, Stages
<1> QED BY <1>1, <1>3, <1>4, <1>5 DEF TInv, TypeOK

LEMMA CloseTyped ==
  ASSUME NEW w \in Worker, TInv, Close(w)
  PROVE  TInv'
<1>1. flagged' \subseteq Pos /\ torn' \subseteq Pos
  BY DEF Close, TInv, TypeOK
<1> QED BY <1>1, FinishTyped DEF Close

LEMMA AbortTyped ==
  ASSUME NEW w \in Worker, TInv, Abort(w)
  PROVE  TInv'
<1>1. flagged' \subseteq Pos /\ torn' \subseteq Pos
  BY DEF Abort, TInv, TypeOK
<1> QED BY <1>1, FinishTyped DEF Abort

LEMMA CrashTyped ==
  ASSUME TInv, Crash
  PROVE  TInv'
<1>1. flagged' \subseteq Pos /\ torn' \subseteq Pos
  BY DEF Crash, TInv, TypeOK
<1> QED BY <1>1, FinishTyped DEF Crash

LEMMA QuietTyped ==
  ASSUME TInv, Sweep \/ NewDay \/ Over \/ UNCHANGED vars
  PROVE  TInv'
<1>1. CASE NewDay
  <2>1. day' \in 1..LastDay
    BY <1>1, DataAssumption DEF NewDay, TInv, TypeOK
  <2> QED BY <1>1, <2>1 DEF NewDay, TInv, TypeOK, Stages, db, session
<1>2. CASE Sweep
  BY <1>2 DEF Sweep, TInv, TypeOK, Stages, session
<1>3. CASE UNCHANGED vars
  BY <1>3 DEF vars, db, session, TInv, TypeOK, Stages
<1> QED BY <1>1, <1>2, <1>3 DEF Over

LEMMA NextTyped == TInv /\ [Next]_vars => TInv'
<1> SUFFICES ASSUME TInv, [Next]_vars PROVE TInv'
  OBVIOUS
<1>1. CASE \E w \in Worker :
             \/ \E o \in Pos \union {All} : Ask(w, o)
             \/ \E t \in Ticker : Refresh(w, t)
             \/ Mark(w) \/ Load(w) \/ GroupsDone(w) \/ RefreshCache(w)
             \/ Judge(w) \/ Close(w) \/ Abort(w)
  BY <1>1, AskTyped, RefreshTyped, MarkTyped, LoadTyped, GroupsDoneTyped,
     RefreshCacheTyped, JudgeTyped, CloseTyped, AbortTyped
<1>2. CASE Crash \/ Sweep \/ NewDay \/ Over \/ UNCHANGED vars
  BY <1>2, CrashTyped, QuietTyped
<1> QED BY <1>1, <1>2 DEF Next

\* Every row, snapshot, fetch cache and worklist of the refreshes keeps its
\* type; in particular no bar is of a day that has not been completed within
\* the bound, and no position outside the user's is flagged or written
\* (refresh_position, refresh_all_positions).
THEOREM DataTypes == Spec => []TypeOK
<1>1. TInv => TypeOK
  BY DEF TInv
<1> QED BY <1>1, InitTyped, NextTyped, PTL DEF Spec

-----------------------------------------------------------------------------
(* Snapshots only move forward.  No row is ahead of the last completed     *)
(* day; what a session makes of a row is not older than what it loaded;    *)
(* and bars in its fetch cache are not older than the rows it has.         *)

RowsPast == \A p \in Pos : row[p].d <= day /\ row[p].w <= WeekOf(day)

Forward ==
  \A w \in Worker : Loaded(w) =>
    \A p \in Pos :
      /\ stored[w][p].d <= copy[w][p].d /\ copy[w][p].d <= day
      /\ stored[w][p].w <= copy[w][p].w /\ copy[w][p].w <= WeekOf(day)

BarsNewer ==
  \A w \in Worker : Loaded(w) =>
    \A p \in Pos :
      /\ got[w].d[TickerOf[p]] <= day
      /\ got[w].d[TickerOf[p]] # 0 => copy[w][p].d <= got[w].d[TickerOf[p]]
      /\ got[w].w[TickerOf[p]] <= WeekOf(day)
      /\ got[w].w[TickerOf[p]] # 0 => copy[w][p].w <= got[w].w[TickerOf[p]]

FInv == RowsPast /\ Forward /\ BarsNewer

LEMMA DatesTyped ==
  ASSUME TypeOK
  PROVE  /\ day \in Nat /\ WeekOf(day) \in Nat
         /\ \A p \in Pos : row[p].d \in Nat /\ row[p].w \in Nat
         /\ \A w \in Worker, p \in Pos :
              /\ copy[w][p].d \in Nat /\ copy[w][p].w \in Nat
              /\ stored[w][p].d \in Nat /\ stored[w][p].w \in Nat
              /\ got[w].d[TickerOf[p]] \in Nat /\ got[w].w[TickerOf[p]] \in Nat
<1>1. day \in Nat /\ Days \subseteq Nat
  BY DataAssumption DEF TypeOK, Days
<1>2. WeekOf(day) \in Nat
  BY <1>1, WeeksCount
<1>3. \A r \in Rows : r.d \in Nat /\ r.w \in Nat
  BY <1>1 DEF Rows
<1>4. \A p \in Pos : row[p] \in Rows /\ TickerOf[p] \in Ticker
  BY DEF TypeOK, Ticker
<1>5. \A w \in Worker, p \in Pos : copy[w][p] \in Rows /\ stored[w][p] \in Rows
  BY DEF TypeOK
<1>6. \A w \in Worker, p \in Pos : got[w].d[TickerOf[p]] \in Nat /\ got[w].w[TickerOf[p]] \in Nat
  <2>1. \A w \in Worker : got[w].d \in [Ticker -> Days] /\ got[w].w \in [Ticker -> Days]
    BY DEF TypeOK
  <2> QED BY <1>1, <1>4, <2>1
<1> QED BY <1>1, <1>2, <1>3, <1>4, <1>5, <1>6

\* What is loaded or fetched now is not older than the rows a session has.
LEMMA BarsForward ==
  ASSUME TInv, FInv, NEW w \in Worker, Loaded(w), NEW p \in Pos, NEW S, NEW failed,
         NEW b, b = Bars(w, TickerOf[p], S, failed)
  PROVE  /\ b.d \in Nat /\ b.w \in Nat
         /\ b.d # 0 => copy[w][p].d <= b.d /\ b.d <= day
         /\ b.w # 0 => copy[w][p].w <= b.w /\ b.w <= WeekOf(day)
         /\ b.d # 0 /\ got[w].d[TickerOf[p]] # 0 => b.d = got[w].d[TickerOf[p]]
         /\ b.w # 0 /\ got[w].w[TickerOf[p]] # 0 => b.w = got[w].w[TickerOf[p]]
<1>1. b.d \in {0, IF got[w].d[TickerOf[p]] # 0 THEN got[w].d[TickerOf[p]] ELSE day}
  BY DEF Bars, Target
<1>2. b.w \in {0, IF got[w].w[TickerOf[p]] # 0 THEN got[w].w[TickerOf[p]] ELSE WeekOf(day)}
  BY DEF Bars, Target
<1>3. /\ copy[w][p].d <= day /\ copy[w][p].w <= WeekOf(day)
      /\ got[w].d[TickerOf[p]] <= day
      /\ got[w].d[TickerOf[p]] # 0 => copy[w][p].d <= got[w].d[TickerOf[p]]
      /\ got[w].w[TickerOf[p]] <= WeekOf(day)
      /\ got[w].w[TickerOf[p]] # 0 => copy[w][p].w <= got[w].w[TickerOf[p]]
  BY DEF FInv, Forward, BarsNewer
<1> QED BY <1>1, <1>2, <1>3, DatesTyped DEF TInv

\* A commit of rows that are not ahead of the days.
LEMMA CommitForward ==
  ASSUME TypeOK, FInv, NEW w \in Worker, NEW c \in [Pos -> Rows], Commit(w, c),
         day' = day, \A v \in Worker : Loaded(v)' => Loaded(v),
         \A p \in Pos : c[p].d <= day /\ c[p].w <= WeekOf(day)
  PROVE  RowsPast' /\ Forward'
<1>1. \A p \in Pos : c[p].d \in Nat /\ c[p].w \in Nat
  BY DataAssumption DEF Rows, Days
<1>2. RowsPast'
  <2>1. \A p \in Pos : row'[p] = Updated(row[p], stored[w][p], c[p])
    BY DEF Commit
  <2>2. ASSUME NEW r, NEW old, NEW new
        PROVE  /\ Updated(r, old, new).d \in {r.d, new.d}
               /\ Updated(r, old, new).w \in {r.w, new.w}
    BY DEF Updated
  <2>3. \A p \in Pos : row'[p].d <= day /\ row'[p].w <= WeekOf(day)
    BY <2>1, <2>2 DEF FInv, RowsPast
  <2> QED BY <2>3 DEF RowsPast, WeekOf
<1>3. Forward'
  <2> SUFFICES ASSUME NEW v \in Worker, Loaded(v), NEW p \in Pos
               PROVE  /\ stored'[v][p].d <= copy'[v][p].d /\ copy'[v][p].d <= day
                      /\ stored'[v][p].w <= copy'[v][p].w /\ copy'[v][p].w <= WeekOf(day)
    BY DEF Forward, WeekOf
  <2>1. CASE v = w
    <3>1. stored'[v] = c /\ copy'[v] = c
      BY <2>1 DEF Commit, TypeOK
    <3> QED BY <1>1, <3>1
  <2>2. CASE v # w
    <3>1. stored'[v] = stored[v] /\ copy'[v] = copy[v]
      BY <2>2 DEF Commit, TypeOK
    <3> QED BY <3>1 DEF FInv, Forward
  <2> QED BY <2>1, <2>2
<1> QED BY <1>2, <1>3

\* The other sessions' rows and bars are left alone.
LEMMA BarsForwardKept ==
  ASSUME FInv, NEW w \in Worker, day' = day, \A v \in Worker : Loaded(v)' => Loaded(v) \/ v = w,
         \A v \in Worker : v # w => copy'[v] = copy[v] /\ got'[v] = got[v],
         \A p \in Pos :
           /\ got'[w].d[TickerOf[p]] <= day
           /\ got'[w].d[TickerOf[p]] # 0 => copy'[w][p].d <= got'[w].d[TickerOf[p]]
           /\ got'[w].w[TickerOf[p]] <= WeekOf(day)
           /\ got'[w].w[TickerOf[p]] # 0 => copy'[w][p].w <= got'[w].w[TickerOf[p]]
  PROVE  BarsNewer'
<1> SUFFICES ASSUME NEW v \in Worker, Loaded(v)', NEW p \in Pos
             PROVE  /\ got'[v].d[TickerOf[p]] <= day
                    /\ got'[v].d[TickerOf[p]] # 0 => copy'[v][p].d <= got'[v].d[TickerOf[p]]
                    /\ got'[v].w[TickerOf[p]] <= WeekOf(day)
                    /\ got'[v].w[TickerOf[p]] # 0 => copy'[v][p].w <= got'[v].w[TickerOf[p]]
  BY DEF BarsNewer, WeekOf
<1>1. CASE v = w
  BY <1>1
<1>2. CASE v # w
  BY <1>2 DEF FInv, BarsNewer
<1> QED BY <1>1, <1>2

LEMMA InitForward == Init => FInv
<1> SUFFICES ASSUME Init PROVE FInv
  OBVIOUS
<1>1. RowsPast
  <2>1. day = 1 /\ WeekOf(1) \in 0..1 /\ WeekOf(1) # 0
    <3>1. WeekOf(1) = DaysPerWeek \div DaysPerWeek
      BY DataAssumption DEF WeekOf
    <3> QED BY <3>1, DataAssumption DEF Init
  <2>2. \A p \in Pos : row[p] \in {NoRow, FirstRow(p)}
    BY DEF Init, NoRows
  <2>3. \A p \in Pos : row[p].d \in 0..1 /\ row[p].w \in 0..1
    BY <2>2 DEF NoRow, FirstRow
  <2> QED BY <2>1, <2>3 DEF RowsPast
<1>2. Forward /\ BarsNewer
  BY DEF Init, Forward, BarsNewer, Loaded
<1> QED BY <1>1, <1>2 DEF FInv

LEMMA LoadForward ==
  ASSUME TInv, FInv, NEW w \in Worker, Load(w)
  PROVE  FInv'
<1>1. PICK early :
        got' = [got EXCEPT ![w] = [s \in {"d", "w"} |-> [t \in Ticker |->
                  IF t \in early[s] THEN Target(s) ELSE 0]]]
  BY DEF Load
<1>2. /\ pc' = [pc EXCEPT ![w] = "groups"]
      /\ copy' = [copy EXCEPT ![w] = row] /\ stored' = [stored EXCEPT ![w] = row]
      /\ UNCHANGED <<day, row>>
  BY DEF Load, db
<1>3. /\ copy'[w] = row /\ stored'[w] = row
      /\ \A v \in Worker : v # w => /\ copy'[v] = copy[v] /\ stored'[v] = stored[v]
                                    /\ got'[v] = got[v] /\ Loaded(v)' = Loaded(v)
  BY <1>1, <1>2 DEF TInv, TypeOK, Loaded
<1>4. got'[w] = [s \in {"d", "w"} |-> [t \in Ticker |->
                  IF t \in early[s] THEN Target(s) ELSE 0]]
  BY <1>1 DEF TInv, TypeOK
<1>5. \A p \in Pos : /\ got'[w].d[TickerOf[p]] \in {0, day}
                     /\ got'[w].w[TickerOf[p]] \in {0, WeekOf(day)}
  <2>1. \A p \in Pos : TickerOf[p] \in Ticker
    BY DEF Ticker
  <2> QED BY <1>4, <2>1 DEF Target
<1>6. day \in Nat /\ WeekOf(day) \in Nat
  BY DatesTyped DEF TInv
<1>7. RowsPast'
  BY <1>2 DEF FInv, RowsPast, WeekOf
<1>8. Forward'
  <2> SUFFICES ASSUME NEW v \in Worker, Loaded(v)', NEW p \in Pos
               PROVE  /\ stored'[v][p].d <= copy'[v][p].d /\ copy'[v][p].d <= day
                      /\ stored'[v][p].w <= copy'[v][p].w /\ copy'[v][p].w <= WeekOf(day)
    BY <1>2 DEF Forward, WeekOf
  <2>1. CASE v = w
    BY <2>1, <1>3, DatesTyped DEF TInv, FInv, RowsPast
  <2>2. CASE v # w
    BY <2>2, <1>3 DEF FInv, Forward
  <2> QED BY <2>1, <2>2
<1>9. \A p \in Pos :
        /\ got'[w].d[TickerOf[p]] <= day
        /\ got'[w].d[TickerOf[p]] # 0 => copy'[w][p].d <= got'[w].d[TickerOf[p]]
        /\ got'[w].w[TickerOf[p]] <= WeekOf(day)
        /\ got'[w].w[TickerOf[p]] # 0 => copy'[w][p].w <= got'[w].w[TickerOf[p]]
  BY <1>3, <1>5, <1>6 DEF FInv, RowsPast
<1>10. BarsNewer'
  BY <1>2, <1>3, <1>9, BarsForwardKept
<1> QED BY <1>7, <1>8, <1>10 DEF FInv

\* What a group refresh makes of the rows of its session.
LEMMA CopiedForward ==
  ASSUME TInv, FInv, NEW w \in Worker, Loaded(w), NEW t \in Ticker, NEW S, NEW failed,
         NEW b, b = Bars(w, t, S, failed), NEW c, c = Copied(w, t, b), NEW p \in Pos
  PROVE  /\ c[p].d \in Nat /\ copy[w][p].d <= c[p].d /\ c[p].d <= day
         /\ c[p].w \in Nat /\ copy[w][p].w <= c[p].w /\ c[p].w <= WeekOf(day)
         /\ p \in Group(t) /\ b.d # 0 => c[p].d <= b.d
         /\ p \in Group(t) /\ b.w # 0 => c[p].w <= b.w
         /\ p \notin Group(t) \/ b.d = 0 => c[p].d = copy[w][p].d
         /\ p \notin Group(t) \/ b.w = 0 => c[p].w = copy[w][p].w
<1>1. /\ copy[w][p].d \in Nat /\ copy[w][p].d <= day
      /\ copy[w][p].w \in Nat /\ copy[w][p].w <= WeekOf(day)
      /\ day \in Nat /\ WeekOf(day) \in Nat
  BY DatesTyped DEF TInv, FInv, Forward
<1>2. CASE p \notin Group(t)
  <2>1. c[p] = copy[w][p]
    BY <1>2 DEF Copied
  <2> QED BY <1>1, <1>2, <2>1
<1>3. CASE p \in Group(t)
  <2>1. /\ b.d \in Nat /\ b.w \in Nat
        /\ b.d # 0 => copy[w][p].d <= b.d /\ b.d <= day
        /\ b.w # 0 => copy[w][p].w <= b.w /\ b.w <= WeekOf(day)
    BY <1>3, BarsForward DEF Group
  <2>2. /\ c[p].d \in {copy[w][p].d, IF b.d = 0 THEN copy[w][p].d ELSE b.d}
        /\ c[p].w \in {copy[w][p].w, IF b.w = 0 THEN copy[w][p].w ELSE b.w}
    BY DEF Copied
  <2> QED BY <1>1, <1>3, <2>1, <2>2
<1> QED BY <1>2, <1>3

LEMMA RefreshForward ==
  ASSUME TInv, FInv, NEW w \in Worker, NEW t \in Ticker, Refresh(w, t)
  PROVE  FInv'
<1>1. PICK S, failed :
        LET bars == Bars(w, t, S, failed)
            c == Copied(w, t, bars)
        IN /\ got' = [got EXCEPT ![w] = [s \in {"d", "w"} |-> [u \in Ticker |->
                IF u = t /\ bars[s] # 0 THEN bars[s] ELSE got[w][s][u]]]]
           /\ IF op[w] = All
              THEN Commit(w, c)
              ELSE /\ copy' = [copy EXCEPT ![w] = c]
                   /\ UNCHANGED <<row, stored>>
  BY DEF Refresh
<1>2. PICK b : b = Bars(w, t, S, failed)
  OBVIOUS
<1>3. PICK c : c = Copied(w, t, b)
  OBVIOUS
<1>4. /\ got' = [got EXCEPT ![w] = [s \in {"d", "w"} |-> [u \in Ticker |->
                IF u = t /\ b[s] # 0 THEN b[s] ELSE got[w][s][u]]]]
      /\ IF op[w] = All THEN Commit(w, c)
         ELSE copy' = [copy EXCEPT ![w] = c] /\ UNCHANGED <<row, stored>>
  BY <1>1, <1>2, <1>3
<1>5. pc[w] = "groups" /\ pc' = pc /\ day' = day
  BY DEF Refresh
<1>6. Loaded(w) /\ \A v \in Worker : Loaded(v)' <=> Loaded(v)
  BY <1>5 DEF Loaded
<1>7. c \in [Pos -> Rows]
  BY <1>2, <1>3, BarsTyped, CopiedTyped DEF TInv
<1>8. copy'[w] = c /\ \A v \in Worker : v # w => copy'[v] = copy[v]
  BY <1>4 DEF Commit, TInv, TypeOK
<1>9. RowsPast' /\ Forward'
  <2>1. CASE op[w] = All
    <3>1. \A p \in Pos : c[p].d <= day /\ c[p].w <= WeekOf(day)
      BY <1>2, <1>3, <1>6, CopiedForward
    <3> QED BY <2>1, <3>1, <1>4, <1>5, <1>6, <1>7, CommitForward DEF TInv
  <2>2. CASE op[w] # All
    <3>1. UNCHANGED <<row, stored>>
      BY <2>2, <1>4
    <3>2. RowsPast'
      BY <3>1, <1>5 DEF FInv, RowsPast, WeekOf
    <3>3. \A p \in Pos :
            /\ stored[w][p].d <= c[p].d /\ c[p].d <= day
            /\ stored[w][p].w <= c[p].w /\ c[p].w <= WeekOf(day)
      <4> TAKE p \in Pos
      <4>1. /\ c[p].d \in Nat /\ copy[w][p].d <= c[p].d /\ c[p].d <= day
            /\ c[p].w \in Nat /\ copy[w][p].w <= c[p].w /\ c[p].w <= WeekOf(day)
        BY <1>2, <1>3, <1>6, CopiedForward
      <4>2. stored[w][p].d <= copy[w][p].d /\ stored[w][p].w <= copy[w][p].w
        BY <1>6 DEF FInv, Forward
      <4>3. /\ stored[w][p].d \in Nat /\ copy[w][p].d \in Nat
            /\ stored[w][p].w \in Nat /\ copy[w][p].w \in Nat
            /\ day \in Nat /\ WeekOf(day) \in Nat
        BY DatesTyped DEF TInv
      <4> QED BY <4>1, <4>2, <4>3
    <3>4. Forward'
      BY <3>1, <3>3, <1>5, <1>6, <1>8 DEF FInv, Forward, WeekOf
    <3> QED BY <3>2, <3>4
  <2> QED BY <2>1, <2>2
<1>10. BarsNewer'
  <2>1. /\ \A v \in Worker : v # w => got'[v] = got[v]
        /\ got'[w] = [s \in {"d", "w"} |-> [u \in Ticker |->
                IF u = t /\ b[s] # 0 THEN b[s] ELSE got[w][s][u]]]
    BY <1>4 DEF TInv, TypeOK
  <2>2. \A p \in Pos :
          /\ got'[w].d[TickerOf[p]] <= day
          /\ got'[w].d[TickerOf[p]] # 0 => copy'[w][p].d <= got'[w].d[TickerOf[p]]
          /\ got'[w].w[TickerOf[p]] <= WeekOf(day)
          /\ got'[w].w[TickerOf[p]] # 0 => copy'[w][p].w <= got'[w].w[TickerOf[p]]
    <3> TAKE p \in Pos
    <3>1. TickerOf[p] \in Ticker /\ (p \in Group(t) <=> TickerOf[p] = t)
      BY DEF Ticker, Group
    <3>2. /\ got'[w].d[TickerOf[p]] = IF TickerOf[p] = t /\ b.d # 0 THEN b.d
                                      ELSE got[w].d[TickerOf[p]]
          /\ got'[w].w[TickerOf[p]] = IF TickerOf[p] = t /\ b.w # 0 THEN b.w
                                      ELSE got[w].w[TickerOf[p]]
      BY <2>1, <3>1
    <3>3. /\ got[w].d[TickerOf[p]] <= day
          /\ got[w].d[TickerOf[p]] # 0 => copy[w][p].d <= got[w].d[TickerOf[p]]
          /\ got[w].w[TickerOf[p]] <= WeekOf(day)
          /\ got[w].w[TickerOf[p]] # 0 => copy[w][p].w <= got[w].w[TickerOf[p]]
      BY <1>6 DEF FInv, BarsNewer
    <3>4. /\ p \in Group(t) /\ b.d # 0 => c[p].d <= b.d
          /\ p \in Group(t) /\ b.w # 0 => c[p].w <= b.w
          /\ p \notin Group(t) \/ b.d = 0 => c[p].d = copy[w][p].d
          /\ p \notin Group(t) \/ b.w = 0 => c[p].w = copy[w][p].w
      BY <1>2, <1>3, <1>6, CopiedForward
    <3>5. TickerOf[p] = t => /\ b.d # 0 => b.d <= day
                             /\ b.w # 0 => b.w <= WeekOf(day)
      BY <1>2, <1>6, BarsForward
    <3> QED BY <1>8, <3>1, <3>2, <3>3, <3>4, <3>5
  <2> QED BY <1>5, <1>6, <1>8, <2>1, <2>2, BarsForwardKept
<1> QED BY <1>9, <1>10 DEF FInv

\* Bars b for series s are in the fetch cache of w, as Bars gives them.
FetchedInto(w, s, b) ==
  got' = [got EXCEPT ![w][s] = [t \in Ticker |-> IF b[t] = 0 THEN got[w][s][t] ELSE b[t]]]

AsGiven(w, s, b, S, F) == \A t \in Ticker : b[t] = 0 \/ b[t] = Bars(w, t, S, F)[s]

LEMMA RefreshCacheForward ==
  ASSUME TInv, FInv, NEW w \in Worker, RefreshCache(w)
  PROVE  FInv'
<1>1. PICK s, bars, S, F :
        s \in {"d", "w"} /\ FetchedInto(w, s, bars) /\ AsGiven(w, s, bars, S, F)
  <2> DEFINE k == Caches[Len(Caches) + 1 - left[w]]
             s == SeriesOf(k)
             stale == {t \in {TickerOf[p] : p \in Targets(w)} : cache[k][t] < Target(s)}
  <2>1. PICK failed \in SUBSET {t \in stale : got[w][s][t] = 0} :
          LET bars == [t \in Ticker |-> IF t \in stale \ failed
                                       THEN Bars(w, t, {s}, {})[s] ELSE 0]
          IN got' = [got EXCEPT ![w][s] =
                       [t \in Ticker |-> IF bars[t] = 0 THEN @[t] ELSE bars[t]]]
    BY DEF RefreshCache
  <2>2. s \in {"d", "w"}
    BY DEF SeriesOf
  <2> DEFINE bars == [t \in Ticker |-> IF t \in stale \ failed
                                      THEN Bars(w, t, {s}, {})[s] ELSE 0]
  <2>3. PICK S, F : \A t \in Ticker : bars[t] = 0 \/ bars[t] = Bars(w, t, S, F)[s]
    <3>1. \A t \in Ticker : bars[t] = 0 \/ bars[t] = Bars(w, t, {s}, {})[s]
      OBVIOUS
    <3> HIDE DEF bars, s
    <3> QED BY <3>1
  <2>4. got' = [got EXCEPT ![w][s] =
                  [t \in Ticker |-> IF bars[t] = 0 THEN got[w][s][t] ELSE bars[t]]]
    BY <2>1
  <2> HIDE DEF s, stale, bars
  <2>5. PICK r, b : r = s /\ b = bars
    OBVIOUS
  <2>6. r \in {"d", "w"}
    BY <2>2, <2>5
  <2>7. FetchedInto(w, r, b)
    BY <2>4, <2>5 DEF FetchedInto
  <2>8. AsGiven(w, r, b, S, F)
    BY <2>3, <2>5 DEF AsGiven
  <2> QED BY <2>6, <2>7, <2>8
<1>2. /\ pc[w] = "caches" /\ Commit(w, copy[w]) /\ day' = day
      /\ pc' = [pc EXCEPT ![w] = IF left[w] = 1 THEN "verdicts" ELSE "caches"]
  BY DEF RefreshCache
<1>3. Loaded(w) /\ \A v \in Worker : Loaded(v)' <=> Loaded(v)
  BY <1>2 DEF Loaded, TInv, TypeOK
<1>4. copy'[w] = copy[w] /\ \A v \in Worker : v # w => copy'[v] = copy[v]
  BY <1>2 DEF Commit, TInv, TypeOK
<1>5. RowsPast' /\ Forward'
  <2>1. copy[w] \in [Pos -> Rows]
    BY DEF TInv, TypeOK
  <2>2. \A p \in Pos : copy[w][p].d <= day /\ copy[w][p].w <= WeekOf(day)
    BY <1>3 DEF FInv, Forward
  <2> QED BY <2>1, <2>2, <1>2, <1>3, CommitForward DEF TInv
<1>6. BarsNewer'
  <2>1. \A v \in Worker : v # w => got'[v] = got[v]
    BY <1>1 DEF FetchedInto, TInv, TypeOK
  <2>2. \A p \in Pos :
          /\ got'[w].d[TickerOf[p]] <= day
          /\ got'[w].d[TickerOf[p]] # 0 => copy[w][p].d <= got'[w].d[TickerOf[p]]
          /\ got'[w].w[TickerOf[p]] <= WeekOf(day)
          /\ got'[w].w[TickerOf[p]] # 0 => copy[w][p].w <= got'[w].w[TickerOf[p]]
    <3> TAKE p \in Pos
    <3>1. TickerOf[p] \in Ticker
      BY DEF Ticker
    <3>2. PICK b : b = Bars(w, TickerOf[p], S, F)
      OBVIOUS
    <3>3. /\ b.d \in Nat /\ b.w \in Nat
          /\ b.d # 0 => copy[w][p].d <= b.d /\ b.d <= day
          /\ b.w # 0 => copy[w][p].w <= b.w /\ b.w <= WeekOf(day)
      BY <1>3, <3>2, BarsForward
    <3>4. got[w] \in [d : [Ticker -> Days], w : [Ticker -> Days]]
      BY DEF TInv, TypeOK
    <3>5. got'[w] = [got[w] EXCEPT ![s] =
                       [t \in Ticker |-> IF bars[t] = 0 THEN got[w][s][t] ELSE bars[t]]]
      BY <1>1 DEF FetchedInto, TInv, TypeOK
    <3>6. /\ got'[w].d[TickerOf[p]] = got[w].d[TickerOf[p]]
             \/ (got'[w].d[TickerOf[p]] = b.d /\ b.d # 0)
          /\ got'[w].w[TickerOf[p]] = got[w].w[TickerOf[p]]
             \/ (got'[w].w[TickerOf[p]] = b.w /\ b.w # 0)
      <4> PICK u \in Ticker : u = TickerOf[p]
        BY <3>1
      <4>0. /\ bars[u] = 0 \/ bars[u] = b[s]
            /\ b \in [d : Days, w : Days]
        BY <1>1, <3>2, BarsTyped DEF AsGiven, TInv
      <4>1. CASE s = "d"
        <5>1. got'[w].w = got[w].w
          BY <3>4, <3>5, <4>1
        <5>2. got'[w].d = [t \in Ticker |-> IF bars[t] = 0 THEN got[w].d[t] ELSE bars[t]]
          BY <3>4, <3>5, <4>1
        <5>3. got'[w].d[u] = IF bars[u] = 0 THEN got[w].d[u] ELSE bars[u]
          BY <5>2
        <5>4. b[s] = b.d
          BY <4>0, <4>1
        <5>5. bars[u] = 0 \/ bars[u] = b.d
          BY <4>0, <5>4
        <5> QED BY <5>1, <5>3, <5>5
      <4>2. CASE s = "w"
        <5>1. got'[w].d = got[w].d
          BY <3>4, <3>5, <4>2
        <5>2. got'[w].w = [t \in Ticker |-> IF bars[t] = 0 THEN got[w].w[t] ELSE bars[t]]
          BY <3>4, <3>5, <4>2
        <5>3. got'[w].w[u] = IF bars[u] = 0 THEN got[w].w[u] ELSE bars[u]
          BY <5>2
        <5>4. b[s] = b.w
          BY <4>0, <4>2
        <5>5. bars[u] = 0 \/ bars[u] = b.w
          BY <4>0, <5>4
        <5> QED BY <5>1, <5>3, <5>5
      <4> QED BY <1>1, <4>1, <4>2
    <3>7. /\ got[w].d[TickerOf[p]] <= day
          /\ got[w].d[TickerOf[p]] # 0 => copy[w][p].d <= got[w].d[TickerOf[p]]
          /\ got[w].w[TickerOf[p]] <= WeekOf(day)
          /\ got[w].w[TickerOf[p]] # 0 => copy[w][p].w <= got[w].w[TickerOf[p]]
      BY <1>3 DEF FInv, BarsNewer
    <3> QED BY <3>3, <3>6, <3>7
  <2> QED BY <1>2, <1>3, <1>4, <2>1, <2>2, BarsForwardKept
<1> QED BY <1>5, <1>6 DEF FInv

LEMMA JudgeForward ==
  ASSUME TInv, FInv, NEW w \in Worker, Judge(w)
  PROVE  FInv'
<1>1. PICK c : /\ Commit(w, c)
               /\ c = [p \in Pos |-> IF p \in Tracked(w)
                              THEN Judged(copy[w][p], Verdict(p, copy[w][p]))
                              ELSE copy[w][p]]
  BY DEF Judge
<1>2. /\ pc[w] = "verdicts" /\ pc' = [pc EXCEPT ![w] = "close"]
      /\ UNCHANGED <<day, got>>
  BY DEF Judge
<1>3. Loaded(w) /\ \A v \in Worker : Loaded(v)' <=> Loaded(v)
  BY <1>2 DEF Loaded, TInv, TypeOK
<1>4. \A p \in Pos : c[p].d = copy[w][p].d /\ c[p].w = copy[w][p].w
  BY <1>1 DEF Judged
<1>5. copy'[w] = c /\ \A v \in Worker : v # w => copy'[v] = copy[v]
  BY <1>1 DEF Commit, TInv, TypeOK
<1>6. RowsPast' /\ Forward'
  <2>1. \A p \in Pos : c[p].d <= day /\ c[p].w <= WeekOf(day)
    BY <1>3, <1>4 DEF FInv, Forward
  <2>2. c \in [Pos -> Rows]
    BY <1>1, JudgedTyped
  <2> QED BY <2>1, <2>2, <1>1, <1>2, <1>3, CommitForward DEF TInv
<1>7. BarsNewer'
  BY <1>2, <1>3, <1>4, <1>5, BarsForwardKept DEF FInv, BarsNewer
<1> QED BY <1>6, <1>7 DEF FInv

\* Sessions that end, and steps that write neither rows nor sessions.
LEMMA OthersForward ==
  ASSUME TInv, FInv, row' = row, day' = day,
         \A v \in Worker : Loaded(v)' => /\ Loaded(v) /\ copy'[v] = copy[v]
                                         /\ stored'[v] = stored[v] /\ got'[v] = got[v]
  PROVE  FInv'
<1>1. RowsPast'
  BY DEF FInv, RowsPast, WeekOf
<1>2. Forward'
  BY DEF FInv, Forward, WeekOf
<1>3. BarsNewer'
  BY DEF FInv, BarsNewer, WeekOf
<1> QED BY <1>1, <1>2, <1>3 DEF FInv

LEMMA NewDayForward ==
  ASSUME TInv, FInv, NewDay
  PROVE  FInv'
<1>1. /\ day' = day + 1 /\ WeekOf(day') \in Nat /\ WeekOf(day) <= WeekOf(day')
      /\ day \in Nat /\ WeekOf(day) \in Nat
  BY WeeksCount, DatesTyped DEF NewDay, TInv
<1>2. UNCHANGED <<row, pc, copy, stored, got>>
  BY DEF NewDay, db, session
<1>3. RowsPast'
  BY <1>1, <1>2, DatesTyped DEF TInv, FInv, RowsPast
<1>4. Forward'
  BY <1>1, <1>2, DatesTyped DEF TInv, FInv, Forward, Loaded
<1>5. BarsNewer'
  BY <1>1, <1>2, DatesTyped DEF TInv, FInv, BarsNewer, Loaded
<1> QED BY <1>3, <1>4, <1>5 DEF FInv

LEMMA NextForward == TInv /\ FInv /\ [Next]_vars => FInv'
<1> SUFFICES ASSUME TInv, FInv, [Next]_vars PROVE FInv'
  OBVIOUS
<1>1. CASE \E w \in Worker :
             \/ \E t \in Ticker : Refresh(w, t)
             \/ Load(w) \/ RefreshCache(w) \/ Judge(w)
  BY <1>1, RefreshForward, LoadForward, RefreshCacheForward, JudgeForward
<1>2. CASE NewDay
  BY <1>2, NewDayForward
<1>3. CASE \E w \in Worker :
             \/ \E o \in Pos \union {All} : Ask(w, o)
             \/ Mark(w) \/ GroupsDone(w)
  <2> PICK w \in Worker : \/ \E o \in Pos \union {All} : Ask(w, o)
                          \/ Mark(w) \/ GroupsDone(w)
    BY <1>3
  <2>1. UNCHANGED <<day, row, copy, stored, got>>
    BY DEF Ask, Mark, GroupsDone, db, session
  <2>2. \A v \in Worker : Loaded(v)' => Loaded(v)
    BY DEF Ask, Mark, GroupsDone, Loaded, TInv, TypeOK
  <2> QED BY <2>1, <2>2, OthersForward
<1>4. ASSUME NEW S \in SUBSET Worker, Finish(S), UNCHANGED <<day, row>>
      PROVE  FInv'
  <2>1. \A v \in Worker : Loaded(v)' => /\ Loaded(v) /\ copy'[v] = copy[v]
                                        /\ stored'[v] = stored[v] /\ got'[v] = got[v]
    BY <1>4 DEF Finish, Loaded
  <2> QED BY <1>4, <2>1, OthersForward
<1>5. CASE Crash \/ \E w \in Worker : Close(w) \/ Abort(w)
  BY <1>4, <1>5 DEF Crash, Close, Abort
<1>6. CASE Sweep \/ Over \/ UNCHANGED vars
  BY <1>6, OthersForward DEF Sweep, Over, vars, db, session, Loaded
<1> QED BY <1>1, <1>2, <1>3, <1>5, <1>6 DEF Next

-----------------------------------------------------------------------------
(* The commits again, now with the rows they replace.                      *)

SnapshotsKept ==
  \A p \in Pos : row'[p].d < row[p].d \/ row'[p].w < row[p].w
    => \E w \in Worker : stored'[w] # stored[w] /\ p \in crossed[w]

\* A session whose rows are not older than those it knew can only set back a
\* row it did not know.
LEMMA CommitNotOlder ==
  ASSUME IInv, TInv, NEW w \in Worker, Loaded(w), NEW c \in [Pos -> Rows], Commit(w, c),
         \A p \in Pos : stored[w][p].d <= c[p].d /\ stored[w][p].w <= c[p].w
  PROVE  SnapshotsKept
<1> SUFFICES ASSUME NEW p \in Pos, row'[p].d < row[p].d \/ row'[p].w < row[p].w
             PROVE  stored'[w] # stored[w] /\ p \in crossed[w]
  BY DEF SnapshotsKept
<1>1. row'[p] = Updated(row[p], stored[w][p], c[p]) /\ stored'[w] = c
  BY DEF Commit, TInv, TypeOK
<1>2. /\ row[p].d \in Nat /\ row[p].w \in Nat
      /\ stored[w][p].d \in Nat /\ stored[w][p].w \in Nat
  BY DatesTyped DEF TInv
<1>3. c[p].d \in Nat /\ c[p].w \in Nat
  BY DataAssumption DEF Rows, Days
<1>4. \/ c[p].d # stored[w][p].d /\ c[p].d < row[p].d
      \/ c[p].w # stored[w][p].w /\ c[p].w < row[p].w
  BY <1>1, <1>2 DEF Updated
<1>5. stored'[w] # stored[w]
  BY <1>1, <1>4
<1>6. p \in crossed[w]
  <2> SUFFICES ASSUME p \notin crossed[w] PROVE FALSE
    OBVIOUS
  <2>1. stored[w][p].d = row[p].d /\ stored[w][p].w = row[p].w
    BY DEF IInv, Sync, Same
  <2> QED BY <1>2, <1>3, <1>4, <2>1
<1> QED BY <1>5, <1>6

LEMMA SnapshotStep == IInv /\ TInv /\ FInv /\ [Next]_vars => SnapshotsKept
<1> SUFFICES ASSUME IInv, TInv, FInv, [Next]_vars PROVE SnapshotsKept
  OBVIOUS
<1>1. ASSUME row' = row PROVE SnapshotsKept
  BY <1>1, DatesTyped DEF SnapshotsKept, TInv
<1>2. ASSUME NEW w \in Worker, NEW t \in Ticker, Refresh(w, t)
      PROVE  SnapshotsKept
  <2>1. PICK S, failed : row' = row \/ Commit(w, Copied(w, t, Bars(w, t, S, failed)))
    BY <1>2 DEF Refresh
  <2>2. PICK b : b = Bars(w, t, S, failed)
    OBVIOUS
  <2>3. PICK c : c = Copied(w, t, b)
    OBVIOUS
  <2>4. c \in [Pos -> Rows]
    BY <2>2, <2>3, BarsTyped, CopiedTyped DEF TInv
  <2>5. Loaded(w)
    BY <1>2 DEF Refresh, Loaded
  <2>6. \A p \in Pos : stored[w][p].d <= c[p].d /\ stored[w][p].w <= c[p].w
    <3> TAKE p \in Pos
    <3>1. /\ c[p].d \in Nat /\ copy[w][p].d <= c[p].d
          /\ c[p].w \in Nat /\ copy[w][p].w <= c[p].w
      BY <2>2, <2>3, <2>5, CopiedForward
    <3>2. stored[w][p].d <= copy[w][p].d /\ stored[w][p].w <= copy[w][p].w
      BY <2>5 DEF FInv, Forward
    <3> QED BY <3>1, <3>2, DatesTyped DEF TInv
  <2> QED BY <1>1, <2>1, <2>2, <2>3, <2>4, <2>5, <2>6, CommitNotOlder
<1>3. ASSUME NEW w \in Worker, RefreshCache(w)
      PROVE  SnapshotsKept
  <2>1. Commit(w, copy[w]) /\ Loaded(w) /\ copy[w] \in [Pos -> Rows]
    BY <1>3 DEF RefreshCache, Loaded, TInv, TypeOK
  <2>2. \A p \in Pos : stored[w][p].d <= copy[w][p].d /\ stored[w][p].w <= copy[w][p].w
    BY <2>1 DEF FInv, Forward
  <2> QED BY <2>1, <2>2, CommitNotOlder
<1>4. ASSUME NEW w \in Worker, Judge(w)
      PROVE  SnapshotsKept
  <2>1. PICK c : /\ Commit(w, c)
                 /\ c = [p \in Pos |-> IF p \in Tracked(w)
                                      THEN Judged(copy[w][p], Verdict(p, copy[w][p]))
                                      ELSE copy[w][p]]
    BY <1>4 DEF Judge
  <2>2. Loaded(w)
    BY <1>4 DEF Judge, Loaded
  <2>3. \A p \in Pos : c[p].d = copy[w][p].d /\ c[p].w = copy[w][p].w
    BY <2>1 DEF Judged
  <2>4. \A p \in Pos : stored[w][p].d <= c[p].d /\ stored[w][p].w <= c[p].w
    BY <2>2, <2>3 DEF FInv, Forward
  <2>5. c \in [Pos -> Rows]
    BY <2>1, JudgedTyped
  <2> QED BY <2>1, <2>2, <2>4, <2>5, CommitNotOlder
<1>5. row' = row \/ \E w \in Worker : \/ Judge(w) \/ RefreshCache(w)
                                      \/ \E t \in Ticker : Refresh(w, t)
  BY DEF Next, Ask, Mark, Load, GroupsDone, Close, Abort, Crash, Sweep, NewDay, Over,
         vars, db
<1> QED BY <1>1, <1>2, <1>3, <1>4, <1>5

\* Days go by and other refreshes commit while a refresh works with the rows
\* it loaded and the bars it fetched; even so it puts an older snapshot in a
\* row only where another refresh has written to the row since it loaded it
\* (refresh_position, refresh_all_positions, _FetchCache).
THEOREM SnapshotsForward == Spec => OlderNeedsOverlap
<1>1. IInv /\ TInv /\ FInv /\ [Next]_vars => [SnapshotsKept]_vars
  BY SnapshotStep
<1>2. Spec => [][SnapshotsKept]_vars
  BY <1>1, InitInv, NextStep, InitTyped, NextTyped, InitForward, NextForward, PTL DEF Spec
<1> QED BY <1>2, PTL DEF OlderNeedsOverlap, SnapshotsKept

=============================================================================
