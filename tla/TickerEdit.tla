----------------------------- MODULE TickerEdit -----------------------------
(***************************************************************************)
(* One row of table positions: its ticker and its cached market data (the  *)
(* daily and weekly columns), while the user edits the position and        *)
(* background refreshes run.  POST /edit loads the row, clears the cached  *)
(* data if the ticker changes, saves, and queues a refresh; a refresh      *)
(* loads the row, fetches bars for the ticker it loaded if the loaded data *)
(* is stale, and saves.  Each works in a session of its own that keeps the *)
(* row as it was when loaded and writes only the columns it changed.       *)
(*                                                                         *)
(* The market-data columns move together, so they are one value: the       *)
(* ticker they were fetched for.  A provider API key is configured.        *)
(***************************************************************************)
EXTENDS Naturals

CONSTANTS
  Ticker,  \* tickers the user may enter
  Flow,    \* concurrent requests, each with its background task
  None     \* no cached market data

RowAssumption == None \notin Ticker

VARIABLES
  ticker,     \* positions.ticker
  data,       \* ticker the cached market data was fetched for, or None
  fresh,      \* its date is that of the last completed trading day
  pc,         \* where each flow stands
  memTicker,  \* ticker in the flow's session
  memData,    \* market data in the flow's session
  memFresh,   \* its date in the flow's session
  dirty,      \* the session has changed the market data
  overlap     \* history: an edit and another session had the row loaded at once

row  == <<ticker, data, fresh>>
mem  == <<memTicker, memData, memFresh, dirty>>
vars == <<ticker, data, fresh, pc, memTicker, memData, memFresh, dirty, overlap>>

Holding == {"editing", "fetching", "saving"}   \* the row is in the session

TypeOK ==
  /\ ticker \in Ticker
  /\ data \in Ticker \union {None}
  /\ fresh \in BOOLEAN /\ (fresh => data # None)
  /\ pc \in [Flow -> Holding \union {"idle", "queued"}]
  /\ memTicker \in [Flow -> Ticker \union {None}]
  /\ memData \in [Flow -> Ticker \union {None}]
  /\ memFresh \in [Flow -> BOOLEAN]
  /\ dirty \in [Flow -> BOOLEAN]
  /\ overlap \in BOOLEAN

\* A position as POST /add leaves it, with or without a first price.
Init ==
  /\ ticker \in Ticker
  /\ data \in {None, ticker}
  /\ fresh \in {FALSE, data # None}
  /\ pc = [f \in Flow |-> "idle"]
  /\ memTicker = [f \in Flow |-> None]
  /\ memData = [f \in Flow |-> None]
  /\ memFresh = [f \in Flow |-> FALSE]
  /\ dirty = [f \in Flow |-> FALSE]
  /\ overlap = FALSE

-----------------------------------------------------------------------------
Goto(f, l) == pc' = [pc EXCEPT ![f] = l]

Load(f) ==
  /\ memTicker' = [memTicker EXCEPT ![f] = ticker]
  /\ memData' = [memData EXCEPT ![f] = data]
  /\ memFresh' = [memFresh EXCEPT ![f] = fresh]
  /\ dirty' = [dirty EXCEPT ![f] = FALSE]

Close(f) ==
  /\ memTicker' = [memTicker EXCEPT ![f] = None]
  /\ memData' = [memData EXCEPT ![f] = None]
  /\ memFresh' = [memFresh EXCEPT ![f] = FALSE]
  /\ dirty' = [dirty EXCEPT ![f] = FALSE]

\* The market-data columns are written if the session changed them.
WriteData(f) ==
  /\ data' = IF dirty[f] THEN memData[f] ELSE data
  /\ fresh' = IF dirty[f] THEN memFresh[f] ELSE fresh

-----------------------------------------------------------------------------
\* POST /edit/{position_id}
EditLoad(f) ==
  /\ pc[f] = "idle"
  /\ Load(f)
  /\ Goto(f, "editing")
  /\ overlap' = (overlap \/ \E g \in Flow : pc[g] \in Holding)
  /\ UNCHANGED row

\* Mutant of EditSave: the cached market data is not cleared.
EditSaveKeepsData(f, t) ==
  /\ pc[f] = "editing" /\ t # memTicker[f]
  /\ ticker' = t
  /\ Close(f)
  /\ Goto(f, "queued")
  /\ UNCHANGED <<data, fresh, overlap>>

\* Mutant of EditSave: the date is not among the columns cleared.
EditSaveKeepsDate(f, t) ==
  /\ pc[f] = "editing" /\ t # memTicker[f]
  /\ ticker' = t
  /\ data' = IF memData[f] # None THEN None ELSE data
  /\ Close(f)
  /\ Goto(f, "queued")
  /\ UNCHANGED <<fresh, overlap>>

\* A new ticker: the cached data is set to NULL, which is an UPDATE only of
\* columns that were not NULL when loaded.  A refresh is queued.
EditSave(f, t) ==
  /\ pc[f] = "editing" /\ t # memTicker[f]
  /\ ticker' = t
  /\ data' = IF memData[f] # None THEN None ELSE data
  /\ fresh' = (fresh /\ memData[f] = None)
  /\ Close(f)
  /\ Goto(f, "queued")
  /\ UNCHANGED overlap

\* The same ticker, a refused form or a failed commit: no column modelled here
\* is written and no refresh is queued.
EditEnds(f) ==
  /\ pc[f] = "editing"
  /\ Close(f)
  /\ Goto(f, "idle")
  /\ UNCHANGED <<row, overlap>>

\* POST /refresh, POST /refresh/{position_id}, and the refresh after POST /add.
RefreshPost(f) ==
  /\ pc[f] = "idle"
  /\ Goto(f, "queued")
  /\ UNCHANGED <<row, mem, overlap>>

\* The task loads the row and decides whether its data is stale.
TaskLoad(f) ==
  /\ pc[f] = "queued"
  /\ Load(f)
  /\ Goto(f, IF fresh THEN "saving" ELSE "fetching")
  /\ overlap' = (overlap \/ \E g \in Flow : pc[g] = "editing")
  /\ UNCHANGED row

\* _refresh_daily and _refresh_weekly, or their copies from the representative
\* of a ticker group.  The provider's latest bar need not be today's; one that
\* is already in the session leaves it unchanged.
Fetch(f) ==
  /\ pc[f] = "fetching"
  /\ \E isLatest \in BOOLEAN, same \in {FALSE, memData[f] = memTicker[f]} :
       /\ ~(isLatest /\ same)
       /\ memFresh' = [memFresh EXCEPT ![f] = isLatest]
       /\ dirty' = [dirty EXCEPT ![f] = ~same]
  /\ memData' = [memData EXCEPT ![f] = memTicker[f]]
  /\ Goto(f, "saving")
  /\ UNCHANGED <<row, memTicker, overlap>>

\* The provider raises: refresh_error is set, the data stays.
FetchFails(f) ==
  /\ pc[f] = "fetching"
  /\ Goto(f, "saving")
  /\ UNCHANGED <<row, mem, overlap>>

\* The indicator, ATR and bar cache refreshes commit the session half-way.
CacheCommit(f) ==
  /\ pc[f] = "saving" /\ dirty[f]
  /\ WriteData(f)
  /\ dirty' = [dirty EXCEPT ![f] = FALSE]
  /\ UNCHANGED <<ticker, pc, memTicker, memData, memFresh, overlap>>

TaskSave(f) ==
  /\ pc[f] = "saving"
  /\ WriteData(f)
  /\ Close(f)
  /\ Goto(f, "idle")
  /\ UNCHANGED <<ticker, overlap>>

\* An exception, or the end of the process: the session is rolled back.
TaskDies(f) ==
  /\ pc[f] \in {"queued", "fetching", "saving"}
  /\ Close(f)
  /\ Goto(f, "idle")
  /\ UNCHANGED <<row, overlap>>

\* A trading day completes.
MarketCloses ==
  /\ fresh' = FALSE
  /\ memFresh' = [f \in Flow |-> FALSE]
  /\ UNCHANGED <<ticker, data, pc, memTicker, memData, dirty, overlap>>

Edit(f)    == EditLoad(f) \/ (\E t \in Ticker : EditSave(f, t)) \/ EditEnds(f)
Refresh(f) == \/ RefreshPost(f) \/ TaskLoad(f) \/ Fetch(f) \/ FetchFails(f)
              \/ CacheCommit(f) \/ TaskSave(f) \/ TaskDies(f)

Next == (\E f \in Flow : Edit(f) \/ Refresh(f)) \/ MarketCloses

Spec == Init /\ [][Next]_vars

-----------------------------------------------------------------------------
Foreign == data \notin {None, ticker}

\* Market data of another ticker gets into a row only if an edit and another
\* session had the row loaded at the same time: refreshes may overlap each
\* other, and edits, failures, half-way commits, late tasks and market closes
\* may come in any order, without mixing the data of two tickers.
ForeignNeedsOverlap == Foreign => overlap

\* "If the ticker changes, cached market data is cleared and refreshed"
\* (edit_position): once every request and task is over, the row holds no data
\* of another ticker that counts as up to date, which no refresh would replace.
SettledDataIsOwn ==
  ~(Foreign /\ fresh /\ \A f \in Flow : pc[f] = "idle")
=============================================================================
