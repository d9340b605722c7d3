----------------------- MODULE RefreshLifecycleProofs -----------------------
(***************************************************************************)
(* Proofs about RefreshLifecycle for every set of positions and of flows   *)
(* and every stale timeout.                                                *)
(***************************************************************************)
EXTENDS RefreshLifecycle, TLAPS

\* A session's copy is of rows it loaded.
MemLoaded == \A f \in Flow : memFlag[f] \subseteq loaded[f]

\* What a request is about to mark is what its task will look after.
MarkedListed == \A f \in Flow : pc[f] = "mark" => loaded[f] \subseteq ids[f]

\* The inductive invariant behind FlagOwned.
IInv == TypeOK /\ MemLoaded /\ MarkedListed /\ FlagOwned

-----------------------------------------------------------------------------
(* Helpers shared by the actions.                                          *)

\* Ending a flow keeps the types of everything the flow holds.
LEMMA FinishType ==
  ASSUME TypeOK, NEW f \in Flow, Finish(f)
  PROVE  /\ pc' \in [Flow -> PCs]
         /\ kind' \in [Flow -> Kinds]
         /\ ids' \in [Flow -> SUBSET Pos]
         /\ loaded' \in [Flow -> SUBSET Pos]
         /\ memFlag' \in [Flow -> SUBSET Pos]
         /\ memLease' \in [Flow -> SUBSET Pos]
         /\ todo' \in [Flow -> SUBSET Pos]
BY DEF TypeOK, Finish, PCs, Kinds

\* Loading rows keeps the types of the session's copy.
LEMMA LoadType ==
  ASSUME TypeOK, NEW f \in Flow, NEW S \in SUBSET Pos, Load(f, S)
  PROVE  /\ loaded' \in [Flow -> SUBSET Pos]
         /\ memFlag' \in [Flow -> SUBSET Pos]
         /\ memLease' \in [Flow -> SUBSET Pos]
BY DEF TypeOK, Load

\* The sweep keeps the types of the flags and of their ages.
LEMMA SweepType ==
  ASSUME TypeOK, SweepStale
  PROVE  /\ flagged' \in SUBSET rows
         /\ age' \in [Pos -> 0..StaleAfter \union {None}]
         /\ orphaned' \in SUBSET flagged'
BY DEF TypeOK, SweepStale, Stale

\* So does a clearing write.
LEMMA WriteClearType ==
  ASSUME TypeOK, NEW f \in Flow, NEW S, WriteClear(f, S)
  PROVE  /\ flagged' \in SUBSET rows
         /\ age' \in [Pos -> 0..StaleAfter \union {None}]
         /\ orphaned' \in SUBSET flagged'
BY DEF TypeOK, WriteClear

-----------------------------------------------------------------------------
(* Type correctness.                                                       *)

\* The initial state is well typed: nothing is flagged when the service is
\* first started.
LEMMA InitType == Init => TypeOK
BY StaleAfterAssumption DEF Init, TypeOK, PCs, Kinds

\* Requests and handlers keep the type invariant.
LEMMA RequestType ==
  ASSUME TypeOK, NEW f \in Flow, Request(f)
  PROVE  TypeOK'
<1>1. ASSUME NEW p \in Pos, SinglePost(f, p) PROVE TypeOK'
  BY <1>1, SweepType DEF TypeOK, SinglePost, Goto, PCs, Kinds, mem
<1>2. ASSUME NEW p \in Pos, AddPost(f, p) PROVE TypeOK'
  BY <1>2 DEF TypeOK, AddPost, Goto, PCs, Kinds, mem
<1>3. ASSUME NEW p \in Pos, EditPost(f, p) PROVE TypeOK'
  BY <1>3, LoadType DEF TypeOK, EditPost, Goto, PCs, Kinds, db
<1>4. ASSUME AllPost(f) PROVE TypeOK'
  BY <1>4, SweepType DEF TypeOK, AllPost, Goto, PCs, Kinds, mem
<1> QED BY <1>1, <1>2, <1>3, <1>4 DEF Request

LEMMA HandlerType ==
  ASSUME TypeOK, NEW f \in Flow, Handler(f)
  PROVE  TypeOK'
<1>1. CASE SingleCheck(f)
  <2>1. CASE ids[f] \subseteq rows \ flagged
    BY <1>1, <2>1, LoadType DEF TypeOK, SingleCheck, Goto, PCs, db
  <2>2. CASE ~(ids[f] \subseteq rows \ flagged)
    BY <1>1, <2>2, FinishType DEF TypeOK, SingleCheck, db
  <2> QED BY <2>1, <2>2
<1>2. CASE AllCheck(f)
  <2>1. CASE flagged = {}
    BY <1>2, <2>1 DEF TypeOK, AllCheck, Goto, PCs, db, mem
  <2>2. CASE flagged # {}
    BY <1>2, <2>2, FinishType DEF TypeOK, AllCheck, db
  <2> QED BY <2>1, <2>2
<1>3. CASE AllList(f)
  <2>1. CASE rows # {}
    BY <1>3, <2>1 DEF TypeOK, AllList, Goto, PCs, db, mem
  <2>2. CASE rows = {}
    BY <1>3, <2>2, FinishType DEF TypeOK, AllList, db
  <2> QED BY <2>1, <2>2
<1>4. CASE MarkLoad(f)
  BY <1>4, LoadType DEF TypeOK, MarkLoad, Goto, PCs, db
<1>5. CASE Mark(f)
  BY <1>5, StaleAfterAssumption DEF TypeOK, Mark, Goto, PCs, mem
<1>6. CASE RequestEnds(f)
  BY <1>6, FinishType DEF TypeOK, RequestEnds, db
<1> QED BY <1>1, <1>2, <1>3, <1>4, <1>5, <1>6 DEF Handler

LEMMA TaskType ==
  ASSUME TypeOK, NEW f \in Flow, Task(f)
  PROVE  TypeOK'
<1>1. CASE SingleLoad(f)
  BY <1>1, LoadType DEF TypeOK, SingleLoad, Goto, PCs, db
<1>2. CASE SingleDone(f)
  BY <1>2, FinishType, WriteClearType DEF TypeOK, SingleDone
<1>3. CASE AllLoad(f)
  BY <1>3, LoadType DEF TypeOK, AllLoad, Goto, PCs, db
<1>4. CASE AllPhases(f)
  BY <1>4 DEF TypeOK, AllPhases, Goto, PCs, db, mem
<1>5. ASSUME NEW G \in SUBSET todo[f], AllGroup(f, G) PROVE TypeOK'
  BY <1>5, StaleAfterAssumption DEF TypeOK, AllGroup
<1>6. CASE TaskFails(f)
  BY <1>6, LoadType DEF TypeOK, TaskFails, Goto, PCs, db
<1>7. ASSUME NEW kept \in SUBSET loaded[f], CloseLoad(f, kept) PROVE TypeOK'
  BY <1>7 DEF TypeOK, CloseLoad, Goto, PCs, db, Leased
<1>8. CASE CloseWrite(f)
  BY <1>8, FinishType, WriteClearType DEF TypeOK, CloseWrite
<1>9. CASE CloseFails(f)
  BY <1>9, FinishType DEF TypeOK, CloseFails, db
<1> QED BY <1>1, <1>2, <1>3, <1>4, <1>5, <1>6, <1>7, <1>8, <1>9 DEF Task

\* Every step keeps the type invariant.
LEMMA NextType == TypeOK /\ [Next]_vars => TypeOK'
<1> SUFFICES ASSUME TypeOK, [Next]_vars PROVE TypeOK'
  OBVIOUS
<1>1. ASSUME NEW f \in Flow, Request(f) \/ Handler(f) \/ Task(f) PROVE TypeOK'
  BY <1>1, RequestType, HandlerType, TaskType
<1>2. ASSUME NEW p \in Pos, Delete(p) PROVE TypeOK'
  BY <1>2 DEF TypeOK, Delete, mem
<1>3. CASE PortfolioView
  BY <1>3, SweepType DEF TypeOK, PortfolioView, mem
<1>4. CASE Crash
  BY <1>4 DEF TypeOK, Crash, db, PCs, Kinds
<1>5. CASE Startup
  BY <1>5, SweepType DEF TypeOK, Startup, mem
<1>6. CASE Tick
  BY <1>6, StaleAfterAssumption, NoneAssumption DEF TypeOK, Tick, mem
<1>7. CASE UNCHANGED vars
  BY <1>7 DEF TypeOK, vars
<1> QED BY <1>1, <1>2, <1>3, <1>4, <1>5, <1>6, <1>7 DEF Next

\* Every reachable state is well typed: in particular flags belong to rows
\* that exist and an age never exceeds the stale timeout.
THEOREM TypeCorrect == Spec => []TypeOK
<1> QED BY InitType, NextType, PTL DEF Spec

-----------------------------------------------------------------------------
(* Flags are owned.                                                        *)

\* Nothing but flow f moves or changes what it will clear.
Others(f) ==
  \A g \in Flow \ {f} :
    /\ pc'[g] = pc[g] /\ ids'[g] = ids[g]
    /\ memFlag'[g] = memFlag[g] /\ loaded'[g] = loaded[g]

\* What a step of flow f must keep: it is still bound to every flag it was
\* bound to, and bound to every flag it sets.
Keeps(f) ==
  \A p \in flagged' \ orphaned' :
    \/ Owes(f, p)'
    \/ p \in flagged \ orphaned /\ ~Owes(f, p)

\* A step of one flow that keeps its own obligations keeps FlagOwned.
LEMMA StepOwned ==
  ASSUME IInv, NEW f \in Flow, Others(f), Keeps(f)
  PROVE  FlagOwned'
<1> SUFFICES ASSUME NEW p \in flagged' \ orphaned'
             PROVE  \E g \in Flow : Owes(g, p)'
  BY DEF FlagOwned
<1>1. CASE Owes(f, p)'
  BY <1>1
<1>2. CASE p \in flagged \ orphaned /\ ~Owes(f, p)
  <2>1. PICK g \in Flow : Owes(g, p)
    BY <1>2 DEF IInv, FlagOwned
  <2>2. g \in Flow \ {f}
    BY <1>2, <2>1
  <2>3. Owes(g, p)'
    BY <2>1, <2>2 DEF Others, Owes
  <2> QED BY <2>3
<1> QED BY <1>1, <1>2 DEF Keeps

\* A step that moves no flow and sets no flag keeps the invariant.
LEMMA ClearingOwned ==
  ASSUME IInv, flagged' \ orphaned' \subseteq flagged \ orphaned,
         UNCHANGED <<pc, ids, mem>>
  PROVE  MemLoaded' /\ MarkedListed' /\ FlagOwned'
BY DEF IInv, MemLoaded, MarkedListed, FlagOwned, Owes, mem

LEMMA RequestOwned ==
  ASSUME IInv, NEW f \in Flow, Request(f)
  PROVE  MemLoaded' /\ MarkedListed' /\ FlagOwned'
<1> USE DEF IInv, TypeOK
<1>1. pc[f] = "idle" /\ Others(f)
  BY DEF Request, SinglePost, AddPost, EditPost, AllPost, Others, Goto, mem, db, Load
<1>2. flagged' \ orphaned' \subseteq flagged \ orphaned
  BY DEF Request, SinglePost, AddPost, EditPost, AllPost, SweepStale, Stale, db
<1>3. Keeps(f)
  BY <1>1, <1>2 DEF Keeps, Owes
<1>4. MemLoaded'
  BY DEF Request, SinglePost, AddPost, EditPost, AllPost, mem, Load, MemLoaded
<1>5. MarkedListed'
  BY <1>1 DEF Request, SinglePost, AddPost, EditPost, AllPost, mem, Goto, Load, MarkedListed
<1> QED BY <1>1, <1>3, <1>4, <1>5, StepOwned

\* The handler sets flags only in Mark, and then owes them.
LEMMA HandlerOwned ==
  ASSUME IInv, NEW f \in Flow, Handler(f)
  PROVE  MemLoaded' /\ MarkedListed' /\ FlagOwned'
<1> USE DEF IInv, TypeOK
<1>1. pc[f] \in {"check", "list", "load", "mark"} /\ Others(f)
  BY DEF Handler, SingleCheck, AllCheck, AllList, MarkLoad, Mark, RequestEnds,
         Others, Goto, Finish, mem, db, Load
<1>2. MemLoaded'
  BY DEF Handler, SingleCheck, AllCheck, AllList, MarkLoad, Mark, RequestEnds,
         Finish, mem, Load, MemLoaded
<1>3. MarkedListed'
  BY <1>1 DEF Handler, SingleCheck, AllCheck, AllList, MarkLoad, Mark, RequestEnds,
         Goto, Finish, mem, Load, MarkedListed
<1>4. Keeps(f)
  <2>1. CASE Mark(f)
    BY <2>1 DEF Mark, Keeps, Owes, MarkedListed, Goto
  <2>2. CASE ~Mark(f)
    <3>1. UNCHANGED <<flagged, orphaned>>
      BY <2>2 DEF Handler, SingleCheck, AllCheck, AllList, MarkLoad, RequestEnds, db
    <3> QED BY <3>1, <1>1 DEF Keeps, Owes
  <2> QED BY <2>1, <2>2
<1> QED BY <1>1, <1>2, <1>3, <1>4, StepOwned

\* The task: what it owes it keeps owing until it clears it or is cut short.
LEMMA TaskOwned ==
  ASSUME IInv, NEW f \in Flow, Task(f)
  PROVE  MemLoaded' /\ MarkedListed' /\ FlagOwned'
<1> USE DEF IInv, TypeOK
<1>1. Others(f)
  BY DEF Task, SingleLoad, SingleDone, AllLoad, AllPhases, AllGroup, TaskFails,
         CloseLoad, CloseWrite, CloseFails, Others, Goto, Finish, mem, Load
<1>2. MemLoaded'
  BY DEF Task, SingleLoad, SingleDone, AllLoad, AllPhases, AllGroup, TaskFails,
         CloseLoad, CloseWrite, CloseFails, Finish, mem, Load, MemLoaded
<1>3. MarkedListed'
  BY DEF Task, SingleLoad, SingleDone, AllLoad, AllPhases, AllGroup, TaskFails,
         CloseLoad, CloseWrite, CloseFails, Finish, Goto, mem, Load, MarkedListed
<1>4. Keeps(f)
  <2>1. CASE SingleLoad(f) \/ AllLoad(f)
    BY <2>1 DEF SingleLoad, AllLoad, Load, Goto, db, Keeps, Owes
  <2>2. CASE SingleDone(f) \/ CloseWrite(f)
    BY <2>2 DEF SingleDone, CloseWrite, WriteClear, MemLoaded, Keeps, Owes
  <2>3. CASE AllPhases(f)
    BY <2>3 DEF AllPhases, Goto, db, mem, Keeps, Owes
  <2>4. ASSUME NEW G \in SUBSET todo[f], AllGroup(f, G) PROVE Keeps(f)
    BY <2>4 DEF AllGroup, Keeps, Owes
  <2>5. CASE TaskFails(f)
    BY <2>5 DEF TaskFails, Load, Goto, db, Keeps, Owes
  <2>6. ASSUME NEW kept \in SUBSET loaded[f], CloseLoad(f, kept) PROVE Keeps(f)
    BY <2>6 DEF CloseLoad, Goto, db, Keeps, Owes
  <2>7. CASE CloseFails(f)
    BY <2>7 DEF CloseFails, db, Keeps, Owes
  <2> QED BY <2>1, <2>2, <2>3, <2>4, <2>5, <2>6, <2>7 DEF Task
<1> QED BY <1>1, <1>2, <1>3, <1>4, StepOwned

\* Every step keeps the inductive invariant.
LEMMA NextOwned == IInv /\ [Next]_vars => IInv'
<1> SUFFICES ASSUME IInv, [Next]_vars PROVE IInv'
  OBVIOUS
<1>0. TypeOK'
  BY NextType DEF IInv
<1>1. ASSUME NEW f \in Flow, Request(f) \/ Handler(f) \/ Task(f)
      PROVE  MemLoaded' /\ MarkedListed' /\ FlagOwned'
  BY <1>1, RequestOwned, HandlerOwned, TaskOwned
<1>2. CASE \/ \E p \in Pos : Delete(p)
           \/ PortfolioView \/ Startup \/ Tick \/ UNCHANGED vars
  <2>1. flagged' \ orphaned' \subseteq flagged \ orphaned
    BY <1>2 DEF Delete, PortfolioView, Startup, Tick, SweepStale, Stale, vars
  <2>2. UNCHANGED <<pc, ids, mem>>
    BY <1>2 DEF Delete, PortfolioView, Startup, Tick, mem, vars
  <2> QED BY <1>0, <2>1, <2>2, ClearingOwned DEF IInv
<1>3. CASE Crash
  <2>1. flagged' = flagged /\ orphaned' = flagged
    BY <1>3 DEF Crash, db
  <2>2. MemLoaded' /\ MarkedListed'
    BY <1>3 DEF Crash, MemLoaded, MarkedListed
  <2>3. FlagOwned'
    BY <2>1 DEF FlagOwned
  <2> QED BY <1>0, <2>2, <2>3 DEF IInv
<1> QED BY <1>0, <1>1, <1>2, <1>3 DEF Next, IInv

\* No interleaving of requests, sweeps, deletes and tasks, each writing from
\* its own old copy of the rows, leaves a flag that no live task is bound to
\* clear, unless a crash or a failed final commit killed the task.
THEOREM FlagsAreOwned == Spec => []FlagOwned
<1>1. Init => IInv
  BY InitType DEF Init, IInv, MemLoaded, MarkedListed, FlagOwned
<1>2. IInv => FlagOwned
  BY DEF IInv
<1> QED BY <1>1, <1>2, NextOwned, PTL DEF Spec

-----------------------------------------------------------------------------
(* Flags have a start time as long as requests and tasks come one at a time: *)
(* the writes of one column each then agree.                                 *)

OneFlow == \A f, g \in Flow : f = g

FlagsDated == flagged \subseteq Leased

\* A task that is about to reset a start time is about to reset the flag too.
CopiesDated ==
  \A f \in Flow :
    pc[f] \in {"running", "closing", "clearing"} => flagged \intersect memLease[f] \subseteq memFlag[f]

DatedInv == TypeOK /\ FlagsDated /\ CopiesDated

LEMMA RequestDated ==
  ASSUME OneFlow, DatedInv, NEW f \in Flow, Request(f) PROVE FlagsDated' /\ CopiesDated'
<1> USE DEF DatedInv, TypeOK, FlagsDated, CopiesDated, Leased, OneFlow
<1>1. ASSUME SweepStale, pc'[f] = "check" PROVE FlagsDated' /\ CopiesDated'
  BY <1>1 DEF SweepStale, Stale
<1>2. ASSUME NEW p \in Pos, SinglePost(f, p) PROVE FlagsDated' /\ CopiesDated'
  BY <1>1, <1>2 DEF SinglePost, Goto
<1>3. ASSUME NEW p \in Pos, AddPost(f, p) PROVE FlagsDated' /\ CopiesDated'
  BY <1>3 DEF AddPost, Goto
<1>4. ASSUME NEW p \in Pos, EditPost(f, p) PROVE FlagsDated' /\ CopiesDated'
  BY <1>4 DEF EditPost, Goto, db
<1>5. ASSUME AllPost(f) PROVE FlagsDated' /\ CopiesDated'
  BY <1>1, <1>5 DEF AllPost, Goto
<1> QED BY <1>2, <1>3, <1>4, <1>5 DEF Request

LEMMA HandlerDated ==
  ASSUME OneFlow, DatedInv, NEW f \in Flow, Handler(f) PROVE FlagsDated' /\ CopiesDated'
<1> USE DEF DatedInv, TypeOK, FlagsDated, CopiesDated, Leased, OneFlow
<1>1. ASSUME Mark(f) PROVE FlagsDated' /\ CopiesDated'
  BY <1>1, StaleAfterAssumption, NoneAssumption DEF Mark, Goto
<1>2. ASSUME ~Mark(f) PROVE FlagsDated' /\ CopiesDated'
  <2>1. UNCHANGED <<flagged, age>> /\ pc'[f] \in {"idle", "mark", "list", "load"}
    BY <1>2
    DEF Handler, SingleCheck, AllCheck, AllList, MarkLoad, RequestEnds, Load, Goto, Finish, db
  <2> QED BY <2>1
<1> QED BY <1>1, <1>2

LEMMA TaskDated ==
  ASSUME OneFlow, DatedInv, NEW f \in Flow, Task(f) PROVE FlagsDated' /\ CopiesDated'
<1> USE DEF DatedInv, TypeOK, FlagsDated, CopiesDated, Leased, OneFlow
<1>1. ASSUME SingleLoad(f) \/ AllLoad(f) \/ AllPhases(f) \/ TaskFails(f)
      PROVE  FlagsDated' /\ CopiesDated'
  BY <1>1 DEF SingleLoad, AllLoad, AllPhases, TaskFails, Load, Goto, db, mem
<1>2. ASSUME SingleDone(f) \/ CloseWrite(f) PROVE FlagsDated' /\ CopiesDated'
  BY <1>2 DEF SingleDone, CloseWrite, WriteClear, Finish
<1>3. ASSUME NEW G \in SUBSET todo[f], AllGroup(f, G) PROVE FlagsDated' /\ CopiesDated'
  BY <1>3, StaleAfterAssumption, NoneAssumption DEF AllGroup
<1>4. ASSUME NEW kept \in SUBSET loaded[f], CloseLoad(f, kept) PROVE FlagsDated' /\ CopiesDated'
  BY <1>4 DEF CloseLoad, Goto, db
<1>5. ASSUME CloseFails(f) PROVE FlagsDated' /\ CopiesDated'
  BY <1>5 DEF CloseFails, Finish, db
<1> QED BY <1>1, <1>2, <1>3, <1>4, <1>5 DEF Task

LEMMA NextDated == OneFlow /\ DatedInv /\ [Next]_vars => DatedInv'
<1> SUFFICES ASSUME OneFlow, DatedInv, [Next]_vars PROVE FlagsDated' /\ CopiesDated'
  BY NextType DEF DatedInv
<1>1. ASSUME NEW f \in Flow, Request(f) \/ Handler(f) \/ Task(f)
      PROVE  FlagsDated' /\ CopiesDated'
  BY <1>1, RequestDated, HandlerDated, TaskDated
<1> USE DEF DatedInv, TypeOK, FlagsDated, CopiesDated, Leased
<1>2. ASSUME NEW p \in Pos, Delete(p) PROVE FlagsDated' /\ CopiesDated'
  BY <1>2 DEF Delete, mem
<1>3. ASSUME PortfolioView \/ Startup PROVE FlagsDated' /\ CopiesDated'
  BY <1>3 DEF PortfolioView, Startup, SweepStale, Stale, mem
<1>4. ASSUME Crash PROVE FlagsDated' /\ CopiesDated'
  BY <1>4 DEF Crash, db
<1>5. ASSUME Tick PROVE FlagsDated' /\ CopiesDated'
  BY <1>5, StaleAfterAssumption, NoneAssumption DEF Tick, mem
<1>6. ASSUME UNCHANGED vars PROVE FlagsDated' /\ CopiesDated'
  BY <1>6 DEF vars, db, mem
<1> QED BY <1>1, <1>2, <1>3, <1>4, <1>5, <1>6 DEF Next

\* A crash or a failed final commit leaves only flags that the sweep and the
\* start of the server can clear, as long as refreshes and edits come one at a
\* time (_mark_positions_refresh_state, clear_stale_refresh_flags).
THEOREM OneFlowSweepable == OneFlow => (Spec => []OrphansSweepable)
<1> SUFFICES ASSUME OneFlow PROVE Spec => []OrphansSweepable
  OBVIOUS
<1>1. Init => DatedInv
  BY InitType DEF Init, DatedInv, FlagsDated, CopiesDated
<1>2. DatedInv /\ [Next]_vars => DatedInv'
  BY NextDated
<1>3. DatedInv => OrphansSweepable
  BY DEF DatedInv, TypeOK, FlagsDated, OrphansSweepable
<1> QED BY <1>1, <1>2, <1>3, PTL DEF Spec
=============================================================================
