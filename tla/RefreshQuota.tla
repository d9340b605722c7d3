---------------------------- MODULE RefreshQuota ----------------------------
(***************************************************************************)
(* Tier limits of one user (app/tiers.py): how many positions the user may *)
(* have and how many refreshes a day.  POST /refresh, POST /refresh/{id}   *)
(* and POST /add read the row of table users, check and consume a refresh  *)
(* in memory and commit.  Each request has a session of its own, which     *)
(* writes only the columns whose value differs from the one it loaded, and *)
(* which locks nothing.                                                    *)
(*                                                                         *)
(* A refresh is granted to the day on which it was checked.                *)
(***************************************************************************)
EXTENDS Naturals

CONSTANTS
  Flow,        \* concurrent requests of the user
  MaxRefresh,  \* TIER_LIMITS["free"].max_refreshes_per_day
  MaxTickers,  \* TIER_LIMITS["free"].max_tickers
  MaxRows,     \* bound: positions of the user
  MaxDay,      \* bound: days
  None         \* NULL in refresh_count_date

QuotaAssumption ==
  /\ MaxRefresh \in Nat /\ MaxTickers \in Nat /\ MaxRows \in Nat
  /\ MaxDay \in Nat \ {0} /\ None \notin 1..MaxDay

VARIABLES
  today,      \* the date in UTC
  capped,     \* users.tier is "free" and users.is_admin is False
  count,      \* users.refresh_count_today
  countDate,  \* users.refresh_count_date
  rows,       \* number of positions of the user
  pc,         \* where each request stands
  kind,       \* "add" or "refresh"
  old,        \* users row as the session loaded it
  new,        \* its counter as the session has changed it
  granted,    \* history: refreshes granted under the limit, by day
  overlap,    \* history: two requests were under way at once
  met,        \* history: the requests under way that overlapped another
  late,       \* history: the requests under way that read the row before today
  mixed       \* history: today one that is both late and met has committed

user == <<capped, count, countDate>>
hist == <<overlap, met, late, mixed>>
vars == <<today, user, rows, pc, kind, old, new, granted, hist>>

UnderWay == {f \in Flow : pc[f] \in {"loaded", "charged"}}

Days == 1..MaxDay
Counter == [count : 0..MaxRefresh, date : Days \union {None}]

TypeOK ==
  /\ today \in Days
  /\ capped \in BOOLEAN
  /\ count \in 0..MaxRefresh
  /\ countDate \in Days \union {None}
  /\ rows \in 0..MaxRows
  /\ pc \in [Flow -> {"idle", "loaded", "charged", "refused"}]
  /\ kind \in [Flow -> {"add", "refresh"}]
  /\ old \in [Flow -> [capped : BOOLEAN, count : 0..MaxRefresh, date : Days \union {None}]]
  /\ new \in [Flow -> Counter]
  /\ granted \in [Days -> Nat]
  /\ overlap \in BOOLEAN /\ mixed \in BOOLEAN
  /\ met \subseteq UnderWay /\ late \subseteq UnderWay

NoUser    == [capped |-> FALSE, count |-> 0, date |-> None]
NoCounter == [count |-> 0, date |-> None]

Init ==
  /\ today = 1
  /\ capped \in BOOLEAN
  /\ count = 0 /\ countDate = None
  /\ rows = 0
  /\ pc = [f \in Flow |-> "idle"]
  /\ kind = [f \in Flow |-> "refresh"]
  /\ old = [f \in Flow |-> NoUser]
  /\ new = [f \in Flow |-> NoCounter]
  /\ granted = [d \in Days |-> 0]
  /\ overlap = FALSE /\ mixed = FALSE
  /\ met = {} /\ late = {}

-----------------------------------------------------------------------------
Finish(f, l) ==
  /\ pc' = [pc EXCEPT ![f] = l]
  /\ kind' = [kind EXCEPT ![f] = "refresh"]
  /\ old' = [old EXCEPT ![f] = NoUser]
  /\ new' = [new EXCEPT ![f] = NoCounter]
  /\ met' = met \ {f}
  /\ late' = late \ {f}

\* users.get_by_id.  refresh_all gets here only if the user has a position,
\* refresh_single only if its position is there and not being refreshed.
Request(f, k) ==
  /\ pc[f] = "idle"
  /\ k = "refresh" => rows > 0
  /\ pc' = [pc EXCEPT ![f] = "loaded"]
  /\ kind' = [kind EXCEPT ![f] = k]
  /\ old' = [old EXCEPT ![f] = [capped |-> capped, count |-> count, date |-> countDate]]
  /\ overlap' = (overlap \/ UnderWay # {})
  /\ met' = IF UnderWay = {} THEN {} ELSE UnderWay \union {f}
  /\ UNCHANGED <<today, user, rows, new, granted, late, mixed>>

\* Mutant of Used: a new day does not reset the counter.
UsedEver(u) == u.count

\* The counter of the loaded row, started afresh on a new day.
Used(u) == IF u.date = today THEN u.count ELSE 0

\* Mutants of Full and Spent: one too many.
FullOffByOne(u)  == u.capped /\ rows > MaxTickers
SpentOffByOne(u) == u.capped /\ Used(u) > MaxRefresh

Full(u)  == u.capped /\ rows >= MaxTickers       \* check_can_add_position
Spent(u) == u.capped /\ Used(u) >= MaxRefresh    \* check_and_consume_refresh

\* Both limits allow the request: the refresh is consumed, in memory.  Without
\* a limit nothing is counted.
Charge(f) ==
  /\ pc[f] = "loaded"
  /\ kind[f] = "add" => ~Full(old[f])
  /\ ~Spent(old[f])
  /\ new' = [new EXCEPT ![f] = IF old[f].capped
                               THEN [count |-> Used(old[f]) + 1, date |-> today]
                               ELSE [count |-> old[f].count, date |-> old[f].date]]
  /\ pc' = [pc EXCEPT ![f] = "charged"]
  /\ UNCHANGED <<today, user, rows, kind, old, granted, hist>>

\* TierLimitExceeded: the session is rolled back or closed uncommitted.
Refuse(f) ==
  /\ pc[f] = "loaded"
  /\ Spent(old[f]) \/ (kind[f] = "add" /\ Full(old[f]))
  /\ Finish(f, "refused")
  /\ UNCHANGED <<today, user, rows, granted, overlap, mixed>>

\* Mutant of Commit: only the count is written, not its date.
CommitCountOnly(f) ==
  /\ pc[f] = "charged"
  /\ count' = new[f].count
  /\ kind[f] = "add" => rows < MaxRows
  /\ rows' = IF kind[f] = "add" THEN rows + 1 ELSE rows
  /\ granted' = IF old[f].capped THEN [granted EXCEPT ![new[f].date] = @ + 1] ELSE granted
  /\ mixed' = (mixed \/ f \in late \intersect met)
  /\ Finish(f, "idle")
  /\ UNCHANGED <<today, capped, countDate, overlap>>

\* The commit.  For POST /add it comes after the price was fetched from the
\* provider and inserts the position too.
Commit(f) ==
  /\ pc[f] = "charged"
  /\ count' = IF new[f].count # old[f].count THEN new[f].count ELSE count
  /\ countDate' = IF new[f].date # old[f].date THEN new[f].date ELSE countDate
  /\ kind[f] = "add" => rows < MaxRows
  /\ rows' = IF kind[f] = "add" THEN rows + 1 ELSE rows
  /\ granted' = IF old[f].capped THEN [granted EXCEPT ![new[f].date] = @ + 1] ELSE granted
  /\ mixed' = (mixed \/ f \in late \intersect met)
  /\ Finish(f, "idle")
  /\ UNCHANGED <<today, capped, overlap>>

\* The request ends without a commit (an invalid theme, an error, a crash), or
\* the answer of a refused one has been sent.
End(f) ==
  /\ pc[f] # "idle"
  /\ Finish(f, "idle")
  /\ UNCHANGED <<today, user, rows, granted, overlap, mixed>>

\* POST /delete/{position_id}
Delete ==
  /\ rows > 0
  /\ rows' = rows - 1
  /\ UNCHANGED <<today, user, pc, kind, old, new, granted, hist>>

\* POST /admin/users/{user_id}/tier and .../admin write the columns tier and
\* is_admin only.
AdminUpdate ==
  /\ capped' = ~capped
  /\ UNCHANGED <<today, count, countDate, rows, pc, kind, old, new, granted, hist>>

Midnight ==
  /\ today < MaxDay
  /\ today' = today + 1
  /\ late' = UnderWay
  /\ mixed' = FALSE
  /\ UNCHANGED <<user, rows, pc, kind, old, new, granted, overlap, met>>

Next ==
  \/ \E f \in Flow :
       \/ \E k \in {"add", "refresh"} : Request(f, k)
       \/ Charge(f) \/ Refuse(f) \/ Commit(f) \/ End(f)
  \/ Delete \/ AdminUpdate \/ Midnight

Spec == Init /\ [][Next]_vars

-----------------------------------------------------------------------------
(* Properties.                                                             *)

\* "up to 5 tickers and 5 refreshes per day" (login page): on no day are more
\* refreshes granted to a capped user.
QuotaHolds == \A d \in Days : granted[d] <= MaxRefresh

\* Only overlapping requests break the quota: one at a time, it holds over
\* midnights, deletes, refusals, failures and changes of tier.
QuotaNeedsOverlap == ~QuotaHolds => overlap

\* Nor does an add that was checked under the ticker limit end above it unless
\* requests overlap.
AddsNeedOverlap ==
  [][rows' > rows /\ rows' > MaxTickers =>
       overlap \/ \E f \in Flow : pc[f] = "charged" /\ pc'[f] = "idle" /\ ~old[f].capped]_vars

TurnedAway(f) == pc[f] # "refused" /\ pc'[f] = "refused"
LimitReached(f) ==
  \/ granted[today] >= MaxRefresh
  \/ kind[f] = "add" /\ rows >= MaxTickers

\* Whatever updates are lost between sessions, and whatever happened on earlier
\* days, a user is turned away early only on a day on which the counter was
\* mixed up: a request committed that had read the row before midnight and had
\* overlapped another one.  (It writes the count or the date alone, beside
\* what the other wrote; every request of that day may then meet the result.)
EarlyRefusalNeedsMidnight ==
  [][\A f \in Flow : TurnedAway(f) => LimitReached(f) \/ mixed]_vars
=============================================================================
