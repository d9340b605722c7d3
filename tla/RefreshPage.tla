----------------------------- MODULE RefreshPage -----------------------------
(***************************************************************************)
(* The portfolio page in the browser over RefreshData: app/static/         *)
(* refresh-status.js polls the flags of the rows that were refreshing when *)
(* the page was loaded, and whenever some are done asks once for those     *)
(* rows and for the counters above the table.  GET /api/positions/rows     *)
(* counts the stored verdicts, a page load computes all verdicts afresh.   *)
(***************************************************************************)
EXTENDS RefreshData

VARIABLES
  pending,   \* rows the page still waits for
  miscounted \* rows the counters on the page count under another verdict than
             \* the one a page load would have computed at that moment

pageVars == <<vars, pending, miscounted>>

PageInit == Init /\ pending = {} /\ miscounted = {}

\* Rows whose stored verdict is not the one on what is stored now.
Outdated == {p \in Pos : row[p].cv # Verdict(p, row[p])}

\* GET /, also after the redirect of a POST: counters from the rule engine.
Open ==
  /\ pending' = flagged /\ miscounted' = {}
  /\ UNCHANGED vars

\* A poll finds rows done: one request for the rows and the counters.  These
\* are from the stored verdicts unless some row has none yet.
Poll ==
  /\ pending \ flagged # {}
  /\ pending' = pending \intersect flagged
  /\ miscounted' = IF \E p \in Pos : row[p].cv = None THEN {} ELSE Outdated
  /\ UNCHANGED vars

PageNext == (Next /\ UNCHANGED <<pending, miscounted>>) \/ Open \/ Poll

PageSpec == PageInit /\ [][PageNext]_pageVars

-----------------------------------------------------------------------------
\* "Returning a single authoritative summary avoids stale counters"
\* (position_rows): once the page has stopped polling its counters are those
\* of a page load at the time of the last poll.
CountersAuthoritative == pending = {} => miscounted = {}
=============================================================================
