--------------------------- MODULE IndexerProofs ---------------------------
(* Machine-checked proofs about Indexer, for every set of workers and      *)
(* events, every page limit and every bound: type correctness, the link    *)
(* from cursor and projections to rows, that the indexer implements        *)
(* EventLedger, that only failures lose events, and that the cursor passes *)
(* over none without one of three causes.                                  *)
EXTENDS Indexer, TLAPS

-----------------------------------------------------------------------------
(* Type correctness *)

\* The stores have their types at first.
LEMMA TypeInit == Init => TypeOK
BY IndexerAssumption DEF Init, TypeOK, Genesis, Position

\* A worker that is at an event is neither idle nor fetching.
LEMMA AtEventBusy ==
    ASSUME TypeOK, NEW w \in Workers, NEW e \in todo[w]
    PROVE  pc[w] \notin {"idle", "fetch", "reset"}
BY DEF TypeOK

\* What ending an event, and what starting on a set of them, leaves a worker in.
LEMMA LoopTypes ==
    ASSUME NEW rest
    PROVE  /\ AfterLast(rest) \in {"idle", "dedup"}
           /\ rest = {} <=> AfterLast(rest) = "idle"
BY DEF AfterLast

\* The part of TypeOK that speaks of workers.
WorkersOK ==
    /\ pc \in [Workers -> {"idle", "fetch", "dedup", "mark", "find", "save",
                           "apply", "ckread", "ckselect", "cksave", "reset"}]
    /\ todo \in [Workers -> SUBSET ChainEvents]
    /\ known \in [Workers -> Position]
    /\ \A w \in Workers : todo[w] = {} <=> pc[w] \in {"idle", "fetch", "reset"}

\* The part of TypeOK that speaks of everything else.
StoresOK ==
    /\ head \in Nat
    /\ cursor \in Position
    /\ seen \subseteq ChainEvents
    /\ ingested \subseteq ChainEvents
    /\ projections \subseteq Sessions
    /\ applied \in [ChainEvents -> Nat]
    /\ failures \in Nat
    /\ resets \in Nat
    /\ leftOut \subseteq ChainEvents

\* The type invariant, part by part.
LEMMA TypeSplit ==
    /\ TypeOK <=> WorkersOK /\ StoresOK
    /\ TypeOK' <=> WorkersOK' /\ StoresOK'
BY DEF TypeOK, WorkersOK, StoresOK

\* A worker moves on at the event it is at.
LEMMA GotoKeepsWorkers ==
    ASSUME WorkersOK, NEW w \in Workers, todo[w] # {}, NEW here,
           NEW there \in {"dedup", "mark", "find", "save", "apply", "ckread", "ckselect",
                          "cksave"},
           Goto(w, here, there), UNCHANGED todo, known' \in [Workers -> Position]
    PROVE  WorkersOK'
BY DEF WorkersOK, Goto

\* A worker that returns stays typed, and so do the others.
LEMMA ReturnKeepsWorkers ==
    ASSUME WorkersOK, NEW w \in Workers, NEW e, NEW here, Return(w, e, here),
           known' \in [Workers -> Position]
    PROVE  WorkersOK'
<1> DEFINE rest == todo[w] \ {e}
<1> DEFINE there == AfterLast(rest)
<1>1. there \in {"idle", "dedup"} /\ (rest = {} <=> there = "idle")
  BY LoopTypes
<1>2. pc' = [pc EXCEPT ![w] = there] /\ todo' = [todo EXCEPT ![w] = rest]
  BY DEF Return, Goto
<1>3. rest \in SUBSET ChainEvents
  BY DEF WorkersOK
<1> HIDE DEF rest, there
<1>4. QED
  BY <1>1, <1>2, <1>3 DEF WorkersOK

\* Dropping the page of a worker keeps the workers typed.
LEMMA DropKeepsWorkers ==
    ASSUME WorkersOK, NEW w \in Workers, Drop(w)
    PROVE  WorkersOK'
BY DEF WorkersOK, Drop, Genesis, Position

\* Positions of events are in the type of the cursor.
LEMMA PositionTypes ==
    /\ Genesis \in Position
    /\ \A e \in ChainEvents : /\ PositionOf(e) \in Position
                              /\ SessionsOf(e) \subseteq Sessions
BY IndexerAssumption DEF Genesis, Position, PositionOf, SessionsOf, Event

\* An update of columns keeps the type of the row, and leaves in each column what
\* was there or what was to be saved.
LEMMA UpdatedRow ==
    ASSUME NEW row \in Position, NEW read \in Position, NEW p \in Position
    PROVE  /\ Updated(row, read, p) \in Position
           /\ Updated(row, read, p).ledger \in {row.ledger, p.ledger}
           /\ Updated(row, read, p).tx \in {row.tx, p.tx}
           /\ Updated(row, read, p).index \in {row.index, p.index}
BY DEF Updated, Position

\* Only events are put on record as left out.
LEMMA LeaveOutType ==
    ASSUME leftOut \subseteq ChainEvents, NEW S \in SUBSET ChainEvents, LeaveOut(S)
    PROVE  /\ leftOut' \subseteq ChainEvents /\ UNCHANGED <<failures, resets>>
           /\ leftOut \subseteq leftOut' /\ S \subseteq Reached' \cup leftOut'
BY DEF LeaveOut

\* The step of a worker at an event keeps the types.
LEMMA AtEventType ==
    ASSUME TypeOK, NEW w \in Workers, NEW e \in ChainEvents, AtEvent(w, e)
    PROVE  TypeOK'
<1>1. WorkersOK /\ StoresOK /\ todo[w] # {} /\ known \in [Workers -> Position]
  BY TypeSplit DEF AtEvent, Current, WorkersOK
<1>2. CASE DedupHit(w, e)
  BY <1>1, <1>2, ReturnKeepsWorkers, TypeSplit DEF DedupHit, stores, record, StoresOK
<1>3. CASE DedupMiss(w, e)
  BY <1>1, <1>3, GotoKeepsWorkers, TypeSplit DEF DedupMiss, stores, record, StoresOK
<1>4. CASE DedupMark(w, e)
  BY <1>1, <1>4, GotoKeepsWorkers, TypeSplit DEF DedupMark, record, StoresOK
<1>5. CASE FindRow(w, e)
  <2>1. AfterFind(e) \in {"ckread", "save"}
    BY DEF AfterFind
  <2>2. QED
    BY <1>1, <1>5, <2>1, GotoKeepsWorkers, TypeSplit DEF FindRow, stores, record, StoresOK
<1>6. CASE SaveRow(w, e)
  BY <1>1, <1>6, GotoKeepsWorkers, TypeSplit DEF SaveRow, record, StoresOK
<1>7. CASE SaveConflict(w, e)
  <2>1. leftOut' \subseteq ChainEvents /\ UNCHANGED <<failures, resets>>
    BY <1>1, <1>7, LeaveOutType DEF SaveConflict, StoresOK, WorkersOK
  <2>2. QED
    BY <1>1, <1>7, <2>1, DropKeepsWorkers, TypeSplit DEF SaveConflict, stores, StoresOK
<1>8. CASE Apply(w, e)
  <2>1. WorkersOK'
    BY <1>1, <1>8, GotoKeepsWorkers DEF Apply
  <2>2. projections' \subseteq Sessions
    BY <1>1, <1>8, PositionTypes DEF Apply, StoresOK
  <2>3. applied' \in [ChainEvents -> Nat]
    BY <1>1, <1>8 DEF Apply, StoresOK
  <2>4. StoresOK'
    BY <1>1, <1>8, <2>2, <2>3 DEF Apply, record, StoresOK
  <2>5. QED
    BY <2>1, <2>4, TypeSplit
<1>9. CASE CheckpointRead(w, e)
  BY <1>1, <1>9, GotoKeepsWorkers, TypeSplit DEF CheckpointRead, stores, record, StoresOK
<1>10. CASE CheckpointRefused(w, e)
  BY <1>1, <1>10, ReturnKeepsWorkers, TypeSplit
     DEF CheckpointRefused, stores, record, StoresOK
<1>11. CASE CheckpointSave(w, e)
  <2>1. known' \in [Workers -> Position]
    BY <1>1, <1>11, PositionTypes DEF CheckpointSave, WorkersOK
  <2>2. cursor' \in Position
    BY <1>1, <1>11, PositionTypes, UpdatedRow DEF CheckpointSave, WorkersOK, StoresOK
  <2>3. WorkersOK'
    BY <1>1, <1>11, <2>1, ReturnKeepsWorkers DEF CheckpointSave
  <2>4. StoresOK'
    BY <1>1, <1>11, <2>2 DEF CheckpointSave, record, StoresOK
  <2>5. QED
    BY <2>3, <2>4, TypeSplit
<1>12. CASE CheckpointSelect(w, e)
  <2>1. known' \in [Workers -> Position]
    BY <1>1, <1>12 DEF CheckpointSelect, WorkersOK, StoresOK
  <2>2. WorkersOK'
    BY <1>1, <1>12, <2>1, GotoKeepsWorkers DEF CheckpointSelect
  <2>3. StoresOK'
    BY <1>1, <1>12 DEF CheckpointSelect, stores, record, StoresOK
  <2>4. QED
    BY <2>2, <2>3, TypeSplit
<1>13. QED
  BY <1>2, <1>3, <1>4, <1>5, <1>6, <1>7, <1>8, <1>9, <1>10, <1>11, <1>12 DEF AtEvent

\* Every step keeps the types.
LEMMA TypeStep == TypeOK /\ [Next]_vars => TypeOK'
<1> SUFFICES ASSUME TypeOK, [Next]_vars PROVE TypeOK'
  OBVIOUS
<1>1. WorkersOK /\ StoresOK
  BY TypeSplit
<1>2. ASSUME NEW w \in Workers, StartPoll(w) PROVE TypeOK'
  BY <1>2 DEF StartPoll, Goto, stores, record, TypeOK
<1>3. ASSUME NEW w \in Workers, Fetch(w) PROVE TypeOK'
  <2>1. PICK page, batch, cut :
           /\ page \in Pages(known[w])
           /\ batch = {e \in page : e.valid}
           /\ cut = {f \in ChainEvents \ page :
                        /\ f.valid /\ Fetchable(f, known[w])
                        /\ \E e \in batch : f.ledger <= e.ledger}
           /\ Goto(w, "fetch", AfterLast(batch))
           /\ todo' = [todo EXCEPT ![w] = batch]
           /\ known' = [known EXCEPT ![w] = Genesis]
           /\ UNCHANGED <<head, stores>>
           /\ LeaveOut(cut)
    BY <1>3 DEF Fetch
  <2>8. cut \in SUBSET ChainEvents
    BY <2>1
  <2> DEFINE there == AfterLast(batch)
  <2>2. batch \in SUBSET ChainEvents
    BY <2>1 DEF Pages
  <2>3. there \in {"idle", "dedup"} /\ (batch = {} <=> there = "idle")
    BY LoopTypes
  <2>4. /\ pc' = [pc EXCEPT ![w] = there] /\ todo' = [todo EXCEPT ![w] = batch]
        /\ known' = [known EXCEPT ![w] = Genesis]
    BY <2>1 DEF Goto
  <2>5. StoresOK'
    BY <1>1, <2>1, <2>8, LeaveOutType DEF stores, StoresOK
  <2> HIDE DEF there
  <2>6. WorkersOK'
    BY <1>1, <2>2, <2>3, <2>4, PositionTypes DEF WorkersOK
  <2>7. QED
    BY <2>5, <2>6, TypeSplit
<1>4. ASSUME NEW w \in Workers, NEW e \in Posted, StartIngest(w, e) PROVE TypeOK'
  <2>1. leftOut' \subseteq ChainEvents /\ UNCHANGED <<failures, resets>>
    BY <1>1, <1>4, LeaveOutType DEF StartIngest, StoresOK, ValidUpTo
  <2>2. QED
    BY <1>4, <2>1, IndexerAssumption DEF StartIngest, Goto, stores, TypeOK
<1>5. ASSUME NEW w \in Workers, Fail(w) PROVE TypeOK'
  BY <1>1, <1>5, DropKeepsWorkers, TypeSplit DEF Fail, stores, StoresOK
<1>6. CASE Crash
  BY <1>6, PositionTypes DEF Crash, stores, TypeOK
<1>7. ASSUME NEW e \in ChainEvents, DedupExpire(e) PROVE TypeOK'
  BY <1>7 DEF DedupExpire, workers, record, TypeOK
<1>8. ASSUME NEW w \in Workers, ResetCursor(w) PROVE TypeOK'
  <2>1. cursor' \in Position
    BY <1>1, <1>8, PositionTypes, UpdatedRow DEF ResetCursor, WorkersOK, StoresOK
  <2>2. QED
    BY <1>8, <2>1, PositionTypes DEF ResetCursor, Goto, record, TypeOK
<1>12. ASSUME NEW w \in Workers, StartReset(w) PROVE TypeOK'
  BY <1>12 DEF StartReset, Goto, stores, TypeOK
<1>9. CASE ResetProjections
  BY <1>9 DEF ResetProjections, workers, TypeOK
<1>10. CASE CloseLedger
  BY <1>10 DEF CloseLedger, stores, workers, record, TypeOK
<1>11. CASE UNCHANGED vars
  BY <1>11 DEF vars, stores, workers, record, TypeOK
<1>13. QED
  BY <1>2, <1>3, <1>4, <1>5, <1>6, <1>7, <1>8, <1>9, <1>10, <1>11, <1>12, AtEventType
     DEF Next, WorkerStep, Disturbance

\* Every store and every worker keeps its type, and a worker has events left
\* exactly while it is at one.
THEOREM TypeCorrect == Spec => []TypeOK
BY TypeInit, TypeStep, PTL DEF Spec

-----------------------------------------------------------------------------
(* Rows, applications and the cursor *)

\* Past the save: the worker's current event has been stored.
Late == {"apply", "ckread", "ckselect", "cksave"}

\* What makes the refinement inductive.  FindRow and SaveRow are separate
\* steps, so it is the unique index alone that lets one worker at most reach
\* the projection with a given event, and only before it was ever applied.
RowsInv ==
    /\ \A w \in Workers, e \in ChainEvents :
          Current(w, e) /\ pc[w] \in Late => e \in ingested
    /\ \A w \in Workers, e \in ChainEvents :
          Current(w, e) /\ pc[w] = "apply" => applied[e] = 0
    /\ \A v, w \in Workers, e \in ChainEvents :
          Current(v, e) /\ pc[v] = "apply" /\ Current(w, e) /\ pc[w] = "apply" => v = w
    /\ \A e \in ChainEvents : applied[e] # 0 => e \in ingested

\* A worker is at one event at a time.
LEMMA CurrentUnique ==
    ASSUME NEW w \in Workers, NEW e \in ChainEvents, NEW f \in ChainEvents,
           Current(w, e), Current(w, f)
    PROVE  e = f
<1>1. /\ e.ledger \in Nat /\ e.tx \in Nat /\ e.index \in Nat
      /\ f.ledger \in Nat /\ f.tx \in Nat /\ f.index \in Nat
  BY IndexerAssumption DEF Event
<1>2. e = f \/ (Before(e, f) /\ Before(f, e))
  BY DEF Current
<1>3. QED
  BY <1>1, <1>2 DEF Before

\* Steps that write no row, apply nothing, and take no worker past the save.
LEMMA CalmKeepsRows ==
    ASSUME RowsInv, UNCHANGED <<ingested, applied>>,
           \A w \in Workers : pc'[w] \in Late => pc'[w] = pc[w] /\ todo'[w] = todo[w]
    PROVE  RowsInv'
<1>1. \A w \in Workers, e \in ChainEvents :
         Current(w, e)' /\ pc'[w] \in Late => Current(w, e) /\ pc[w] = pc'[w]
  BY DEF Current
<1>2. "apply" \in Late
  BY DEF Late
<1>3. \A w \in Workers, e \in ChainEvents :
         Current(w, e)' /\ pc'[w] \in Late => e \in ingested'
  BY <1>1 DEF RowsInv
<1>4. \A w \in Workers, e \in ChainEvents :
         Current(w, e)' /\ pc'[w] = "apply" => applied'[e] = 0
  BY <1>1, <1>2 DEF RowsInv
<1>5. \A v, w \in Workers, e \in ChainEvents :
         Current(v, e)' /\ pc'[v] = "apply" /\ Current(w, e)' /\ pc'[w] = "apply" => v = w
  BY <1>1, <1>2 DEF RowsInv
<1>6. QED
  BY <1>3, <1>4, <1>5 DEF RowsInv

\* The invariant of the rows holds at first.
LEMMA RowsInit == Init => RowsInv
BY DEF Init, RowsInv, Current, Late

\* The step of a worker at an event keeps the invariant of the rows.
LEMMA AtEventRows ==
    ASSUME TypeOK, RowsInv, NEW w \in Workers, NEW e \in ChainEvents, AtEvent(w, e)
    PROVE  RowsInv'
<1>1. Current(w, e)
  BY DEF AtEvent
<1>2. \A v \in Workers : v # w => /\ pc'[v] = pc[v] /\ todo'[v] = todo[v]
  BY DEF AtEvent, DedupHit, DedupMiss, DedupMark, FindRow, SaveRow, SaveConflict, Apply,
         CheckpointRead, CheckpointRefused, CheckpointSelect, CheckpointSave, Return, Goto,
         Drop, TypeOK
<1>3. ASSUME UNCHANGED <<ingested, applied>>, pc'[w] \notin Late PROVE RowsInv'
  BY <1>2, <1>3, CalmKeepsRows
<1>4. ASSUME NEW here, Return(w, e, here) PROVE pc'[w] \notin Late
  BY <1>4, LoopTypes DEF Return, Goto, Late, TypeOK
<1>5. CASE DedupHit(w, e)
  BY <1>3, <1>4, <1>5 DEF DedupHit, stores
<1>6. CASE DedupMiss(w, e)
  BY <1>3, <1>6 DEF DedupMiss, Goto, stores, Late, TypeOK
<1>7. CASE DedupMark(w, e)
  BY <1>3, <1>7 DEF DedupMark, Goto, Late, TypeOK
<1>8. CASE SaveConflict(w, e)
  BY <1>3, <1>8 DEF SaveConflict, Drop, stores, Late, TypeOK
<1>9. CASE CheckpointRefused(w, e)
  BY <1>3, <1>4, <1>9 DEF CheckpointRefused, stores
<1>10. CASE CheckpointSave(w, e)
  BY <1>3, <1>4, <1>10 DEF CheckpointSave
<1>11. ASSUME todo' = todo, UNCHANGED applied, ingested \subseteq ingested',
              e \in ingested', pc'[w] # "apply"
       PROVE  RowsInv'
  <2>1. \A v \in Workers, f \in ChainEvents : Current(v, f)' <=> Current(v, f)
    BY <1>11 DEF Current
  <2>2. ASSUME NEW v \in Workers, NEW f \in ChainEvents, Current(v, f)', pc'[v] \in Late
        PROVE  f \in ingested'
    <3>1. CASE v = w
      BY <1>1, <1>11, <2>1, <2>2, <3>1, CurrentUnique
    <3>2. CASE v # w
      BY <1>2, <1>11, <2>1, <2>2, <3>2 DEF RowsInv
    <3>3. QED
      BY <3>1, <3>2
  <2>3. \A v \in Workers : pc'[v] = "apply" => pc[v] = "apply"
    BY <1>2, <1>11
  <2>4. QED
    BY <1>11, <2>1, <2>2, <2>3 DEF RowsInv
<1>12. CASE FindRow(w, e)
  <2>1. CASE e \in ingested
    BY <1>11, <1>12, <2>1 DEF FindRow, AfterFind, Goto, stores, TypeOK
  <2>2. CASE e \notin ingested
    BY <1>3, <1>12, <2>2 DEF FindRow, AfterFind, Goto, stores, Late, TypeOK
  <2>3. QED
    BY <2>1, <2>2
<1>13. CASE CheckpointRead(w, e)
  <2>1. e \in ingested
    BY <1>1, <1>13 DEF CheckpointRead, Goto, RowsInv, Late
  <2>2. QED
    BY <1>11, <1>13, <2>1 DEF CheckpointRead, Goto, stores, TypeOK
<1>17. CASE CheckpointSelect(w, e)
  <2>1. e \in ingested
    BY <1>1, <1>17 DEF CheckpointSelect, Goto, RowsInv, Late
  <2>2. QED
    BY <1>11, <1>17, <2>1 DEF CheckpointSelect, Goto, stores, TypeOK
<1>14. CASE SaveRow(w, e)
  <2>1. /\ e \notin ingested /\ ingested' = ingested \cup {e}
        /\ UNCHANGED <<todo, applied>> /\ pc'[w] = "apply"
    BY <1>14 DEF SaveRow, RowFree, Goto, TypeOK
  <2>2. \A v \in Workers, f \in ChainEvents : Current(v, f)' <=> Current(v, f)
    BY <2>1 DEF Current
  <2>3. \A f \in ChainEvents : Current(w, f) => f = e
    BY <1>1, CurrentUnique
  <2>4. \A v \in Workers, f \in ChainEvents :
           v # w /\ Current(v, f)' /\ pc'[v] \in Late => f \in ingested /\ f # e
    BY <1>2, <2>1, <2>2 DEF RowsInv
  <2>5. applied[e] = 0
    BY <2>1 DEF RowsInv
  <2>6. "apply" \in Late
    BY DEF Late
  <2>7. \A v \in Workers, f \in ChainEvents :
           Current(v, f)' /\ pc'[v] \in Late => f \in ingested'
    BY <2>1, <2>2, <2>3, <2>4
  <2>8. \A v \in Workers, f \in ChainEvents :
           Current(v, f)' /\ pc'[v] = "apply" => applied'[f] = 0
    BY <1>2, <2>1, <2>2, <2>3, <2>5 DEF RowsInv
  <2>9. \A u, v \in Workers, f \in ChainEvents :
           Current(u, f)' /\ pc'[u] = "apply" /\ Current(v, f)' /\ pc'[v] = "apply" => u = v
    BY <1>2, <2>2, <2>3, <2>4, <2>6 DEF RowsInv
  <2>10. QED
    BY <2>1, <2>7, <2>8, <2>9 DEF RowsInv
<1>15. CASE Apply(w, e)
  <2>1. /\ pc[w] = "apply" /\ pc'[w] = "ckread" /\ UNCHANGED <<todo, ingested>>
        /\ applied' = [applied EXCEPT ![e] = @ + 1]
    BY <1>15 DEF Apply, Goto, TypeOK
  <2>2. \A v \in Workers, f \in ChainEvents : Current(v, f)' <=> Current(v, f)
    BY <2>1 DEF Current
  <2>3. e \in ingested
    BY <1>1, <2>1 DEF RowsInv, Late
  <2>4. \A f \in ChainEvents : f # e => applied'[f] = applied[f]
    BY <2>1 DEF TypeOK
  <2>5. \A v \in Workers, f \in ChainEvents :
           Current(v, f)' /\ pc'[v] \in Late => f \in ingested'
    BY <1>1, <1>2, <2>1, <2>2, <2>3, CurrentUnique DEF RowsInv
  <2>6. \A v \in Workers, f \in ChainEvents :
           Current(v, f)' /\ pc'[v] = "apply" => v # w /\ pc[v] = "apply" /\ f # e
    BY <1>1, <1>2, <2>1, <2>2 DEF RowsInv
  <2>7. \A v \in Workers, f \in ChainEvents :
           Current(v, f)' /\ pc'[v] = "apply" => applied'[f] = 0
    BY <2>2, <2>4, <2>6 DEF RowsInv
  <2>8. \A u, v \in Workers, f \in ChainEvents :
           Current(u, f)' /\ pc'[u] = "apply" /\ Current(v, f)' /\ pc'[v] = "apply" => u = v
    BY <2>2, <2>6 DEF RowsInv
  <2>9. \A f \in ChainEvents : applied'[f] # 0 => f \in ingested'
    BY <2>1, <2>3, <2>4 DEF RowsInv
  <2>10. QED
    BY <2>5, <2>7, <2>8, <2>9 DEF RowsInv
<1>16. QED
  BY <1>5, <1>6, <1>7, <1>8, <1>9, <1>10, <1>12, <1>13, <1>14, <1>15, <1>17 DEF AtEvent

\* Every step keeps the invariant of the rows.
LEMMA RowsStep == TypeOK /\ RowsInv /\ [Next]_vars => RowsInv'
<1> SUFFICES ASSUME TypeOK, RowsInv, [Next]_vars PROVE RowsInv'
  OBVIOUS
<1>1. ASSUME NEW w \in Workers, StartPoll(w) PROVE RowsInv'
  BY <1>1, CalmKeepsRows DEF StartPoll, Goto, stores, Late, TypeOK
<1>2. ASSUME NEW w \in Workers, Fetch(w) PROVE RowsInv'
  BY <1>2, CalmKeepsRows, LoopTypes DEF Fetch, Goto, stores, Late, TypeOK
<1>3. ASSUME NEW w \in Workers, NEW e \in Posted, StartIngest(w, e) PROVE RowsInv'
  BY <1>3, CalmKeepsRows DEF StartIngest, Goto, stores, Late, TypeOK
<1>4. ASSUME NEW w \in Workers, Fail(w) PROVE RowsInv'
  BY <1>4, CalmKeepsRows DEF Fail, Drop, stores, Late, TypeOK
<1>5. CASE Crash
  BY <1>5, CalmKeepsRows DEF Crash, stores, Late
<1>6. ASSUME NEW e \in ChainEvents, DedupExpire(e) PROVE RowsInv'
  BY <1>6, CalmKeepsRows DEF DedupExpire, workers
<1>7. CASE ResetProjections
  BY <1>7, CalmKeepsRows DEF ResetProjections, workers
<1>11. ASSUME NEW w \in Workers, StartReset(w) \/ ResetCursor(w) PROVE RowsInv'
  BY <1>11, CalmKeepsRows DEF StartReset, ResetCursor, Goto, stores, Late, TypeOK
<1>8. CASE CloseLedger
  BY <1>8, CalmKeepsRows DEF CloseLedger, stores, workers
<1>9. CASE UNCHANGED vars
  BY <1>9, CalmKeepsRows DEF vars, stores, workers
<1>10. QED
  BY <1>1, <1>2, <1>3, <1>4, <1>5, <1>6, <1>7, <1>8, <1>9, <1>11, AtEventRows
     DEF Next, WorkerStep, Disturbance

-----------------------------------------------------------------------------
(* The indexer implements EventLedger *)

\* The initial states map to those of the ledger.
LEMMA LedgerInit == Init => Ledger!Init
BY DEF Init, Ledger!Init

\* Saving a row is Append, applying is Project, clearing the read model is
\* Clear; every other step leaves rows, read model and applications alone.
LEMMA LedgerStep ==
    TypeOK /\ RowsInv /\ [Next]_vars => [Ledger!Next]_(Ledger!ledgerVars)
<1> SUFFICES ASSUME TypeOK, RowsInv, [Next]_vars
             PROVE  Ledger!Next \/ UNCHANGED <<ingested, projections, applied>>
  BY DEF Ledger!ledgerVars
<1>1. ASSUME NEW w \in Workers, NEW e \in ChainEvents, AtEvent(w, e)
      PROVE  Ledger!Next \/ UNCHANGED <<ingested, projections, applied>>
  <2>1. Current(w, e)
    BY <1>1 DEF AtEvent
  <2>2. CASE SaveRow(w, e)
    <3>1. Ledger!Append(e)
      BY <2>2 DEF SaveRow, RowFree, Ledger!Append
    <3>2. QED
      BY <3>1 DEF Ledger!Next
  <2>3. CASE Apply(w, e)
    <3>1. pc[w] = "apply"
      BY <2>3 DEF Apply, Goto
    <3>2. e \in ingested /\ applied[e] = 0
      BY <2>1, <3>1 DEF RowsInv, Late
    <3>3. applied' = [applied EXCEPT ![e] = 1]
      BY <2>3, <3>2 DEF Apply, TypeOK
    <3>4. Ledger!Project(e)
      BY <2>3, <3>2, <3>3 DEF Apply, Ledger!Project
    <3>5. QED
      BY <3>4 DEF Ledger!Next
  <2>4. CASE ~SaveRow(w, e) /\ ~Apply(w, e)
    BY <1>1, <2>4 DEF AtEvent, DedupHit, DedupMiss, DedupMark, FindRow, SaveConflict,
                      CheckpointRead, CheckpointRefused, CheckpointSelect, CheckpointSave,
                      stores
  <2>5. QED
    BY <2>2, <2>3, <2>4
<1>2. CASE ResetProjections
  BY <1>2 DEF ResetProjections, Ledger!Clear, Ledger!Next
<1>3. ASSUME NEW w \in Workers,
             StartPoll(w) \/ Fetch(w) \/ Fail(w) \/ StartReset(w) \/ ResetCursor(w)
      PROVE  UNCHANGED <<ingested, projections, applied>>
  BY <1>3 DEF StartPoll, Fetch, Fail, StartReset, ResetCursor, stores
<1>4. ASSUME NEW w \in Workers, NEW e \in Posted, StartIngest(w, e)
      PROVE  UNCHANGED <<ingested, projections, applied>>
  BY <1>4 DEF StartIngest, stores
<1>5. ASSUME NEW e \in ChainEvents, DedupExpire(e)
      PROVE  UNCHANGED <<ingested, projections, applied>>
  BY <1>5 DEF DedupExpire
<1>6. CASE Crash \/ CloseLedger \/ UNCHANGED vars
  BY <1>6 DEF Crash, CloseLedger, stores, vars
<1>7. QED
  BY <1>1, <1>2, <1>3, <1>4, <1>5, <1>6 DEF Next, WorkerStep, Disturbance

\* Whatever polls overlap, fail, crash or are reset, and whatever the dedup
\* cache has forgotten: one row per event, and one application at most.
THEOREM ImplementsLedger == Spec => LedgerSpec
<1>1. Init => TypeOK /\ RowsInv
  BY TypeInit, RowsInit
<1>2. TypeOK /\ RowsInv /\ [Next]_vars => (TypeOK /\ RowsInv)'
  BY TypeStep, RowsStep
<1>3. Spec => [](TypeOK /\ RowsInv)
  BY <1>1, <1>2, PTL DEF Spec
<1>4. QED
  BY <1>3, LedgerInit, LedgerStep, PTL DEF Spec, LedgerSpec, Ledger!Spec

\* The cursor and the read model rest on rows.
CursorInv == CursorFromRows /\ ProjectionHasRow /\
    \A w \in Workers : \A e \in todo[w] : e.valid \/ e \in Posted

\* The invariant of the cursor holds at first.
LEMMA CursorInit == Init => CursorInv
BY DEF Init, CursorInv, CursorFromRows, ProjectionHasRow, Genesis

\* Every step keeps the invariant of the cursor.
LEMMA CursorStep == TypeOK /\ RowsInv /\ CursorInv /\ [Next]_vars => CursorInv'
<1> SUFFICES ASSUME TypeOK, RowsInv, CursorInv, [Next]_vars PROVE CursorInv'
  OBVIOUS
<1>1. ASSUME cursor' = cursor, ingested' = ingested,
             projections' \subseteq projections,
             \A w \in Workers : todo'[w] \subseteq todo[w]
      PROVE  CursorInv'
  BY <1>1 DEF CursorInv, CursorFromRows, ProjectionHasRow
<1>2. ASSUME NEW w \in Workers, NEW e \in ChainEvents, AtEvent(w, e)
      PROVE  CursorInv'
  <2>1. Current(w, e) /\ e \in todo[w]
    BY <1>2 DEF AtEvent, Current
  <2>2. CASE SaveRow(w, e)
    BY <2>1, <2>2 DEF SaveRow, CursorInv, CursorFromRows, ProjectionHasRow
  <2>3. CASE Apply(w, e)
    <3>1. e \in ingested
      BY <2>1, <2>3 DEF Apply, Goto, RowsInv, Late
    <3>2. QED
      BY <2>3, <3>1 DEF Apply, CursorInv, CursorFromRows, ProjectionHasRow
  <2>4. CASE CheckpointSave(w, e)
    <3>1. e \in ingested
      BY <2>1, <2>4 DEF CheckpointSave, Return, Goto, RowsInv, Late
    <3>2. /\ cursor'.ledger \in {cursor.ledger, e.ledger}
          /\ cursor'.tx \in {cursor.tx, e.tx}
          /\ cursor'.index \in {cursor.index, e.index}
      <4>1. cursor' = Updated(cursor, known[w], PositionOf(e))
        BY <2>4 DEF CheckpointSave
      <4>2. PICK p \in Position : p = PositionOf(e)
        BY PositionTypes
      <4>3. p.ledger = e.ledger /\ p.tx = e.tx /\ p.index = e.index
        BY <4>2 DEF PositionOf
      <4>4. cursor \in Position /\ known[w] \in Position
        BY DEF TypeOK
      <4>5. QED
        BY <4>1, <4>2, <4>3, <4>4, UpdatedRow
    <3>3. \A v \in Workers : todo'[v] \subseteq todo[v]
      BY <2>4 DEF CheckpointSave, Return, TypeOK
    <3>4. UNCHANGED <<ingested, projections>>
      BY <2>4 DEF CheckpointSave
    <3>5. QED
      BY <3>1, <3>2, <3>3, <3>4 DEF CursorInv, CursorFromRows, ProjectionHasRow
  <2>5. CASE DedupHit(w, e) \/ CheckpointRefused(w, e) \/ SaveConflict(w, e)
    BY <1>1, <2>5 DEF DedupHit, CheckpointRefused, SaveConflict, Return, Drop, stores, TypeOK
  <2>6. CASE DedupMiss(w, e) \/ DedupMark(w, e) \/ FindRow(w, e) \/ CheckpointRead(w, e)
    BY <1>1, <2>6 DEF DedupMiss, DedupMark, FindRow, CheckpointRead, stores
  <2>8. CASE CheckpointSelect(w, e)
    BY <1>1, <2>8 DEF CheckpointSelect, stores
  <2>7. QED
    BY <1>2, <2>2, <2>3, <2>4, <2>5, <2>6, <2>8 DEF AtEvent
<1>3. ASSUME NEW w \in Workers, Fetch(w) PROVE CursorInv'
  BY <1>3 DEF Fetch, stores, TypeOK, CursorInv, CursorFromRows, ProjectionHasRow
<1>4. ASSUME NEW w \in Workers, NEW e \in Posted, StartIngest(w, e) PROVE CursorInv'
  BY <1>4 DEF StartIngest, stores, TypeOK, CursorInv, CursorFromRows, ProjectionHasRow
<1>5. ASSUME NEW w \in Workers, StartPoll(w) \/ Fail(w) \/ StartReset(w) PROVE CursorInv'
  BY <1>1, <1>5 DEF StartPoll, Fail, StartReset, Drop, stores, TypeOK
<1>6. CASE Crash
  BY <1>1, <1>6 DEF Crash, stores
<1>7. ASSUME NEW e \in ChainEvents, DedupExpire(e) PROVE CursorInv'
  BY <1>1, <1>7 DEF DedupExpire, workers
<1>8. CASE ResetProjections
  BY <1>1, <1>8 DEF ResetProjections, workers
<1>11. ASSUME NEW w \in Workers, ResetCursor(w) PROVE CursorInv'
  <2>1. /\ cursor'.ledger \in {cursor.ledger, 0} /\ cursor'.tx \in {cursor.tx, 0}
        /\ cursor'.index \in {cursor.index, 0}
    <3>1. cursor' = Updated(cursor, known[w], Genesis)
      BY <1>11 DEF ResetCursor
    <3>2. PICK p \in Position : p = Genesis
      BY PositionTypes
    <3>3. p.ledger = 0 /\ p.tx = 0 /\ p.index = 0
      BY <3>2 DEF Genesis
    <3>4. cursor \in Position /\ known[w] \in Position
      BY DEF TypeOK
    <3>5. QED
      BY <3>1, <3>2, <3>3, <3>4, UpdatedRow
  <2>2. UNCHANGED <<ingested, projections, todo>>
    BY <1>11 DEF ResetCursor
  <2>3. QED
    BY <2>1, <2>2 DEF CursorInv, CursorFromRows, ProjectionHasRow
<1>9. CASE CloseLedger \/ UNCHANGED vars
  BY <1>1, <1>9 DEF CloseLedger, stores, workers, vars
<1>10. QED
  BY <1>2, <1>3, <1>4, <1>5, <1>6, <1>7, <1>8, <1>9, <1>11 DEF Next, WorkerStep, Disturbance

\* Every column of the cursor comes from a stored event, and so does what the
\* read model shows.
THEOREM CursorAndReadModelBacked == Spec => []ReadModelBacked
<1>1. Init => TypeOK /\ RowsInv /\ CursorInv
  BY TypeInit, RowsInit, CursorInit
<1>2. TypeOK /\ RowsInv /\ CursorInv /\ [Next]_vars => (TypeOK /\ RowsInv /\ CursorInv)'
  BY TypeStep, RowsStep, CursorStep
<1>3. TypeOK /\ RowsInv /\ CursorInv => ReadModelBacked
  BY DEF CursorInv, ReadModelBacked
<1>4. QED
  BY <1>1, <1>2, <1>3, PTL DEF Spec

-----------------------------------------------------------------------------
(* What is lost when nothing fails: nothing *)

\* Between the dedup key of an event and its application to the read model.
Middle == {"find", "save", "apply"}

\* The invariant without its condition.
NothingLost ==
    /\ \A e \in seen : e \in ingested \/ InHand(e, {"find", "save"})
    /\ \A e \in ingested : applied[e] > 0 \/ InHand(e, {"apply"})

\* Nothing is lost at first.
LEMMA LossInit == Init => LossNeedsFailure
BY DEF Init, LossNeedsFailure

\* Steps that mark, store and apply nothing, and leave alone every worker
\* between the key and the read model.
LEMMA CalmKeepsInHand ==
    ASSUME NothingLost, seen' \subseteq seen, UNCHANGED <<ingested, applied>>,
           \A w \in Workers : pc[w] \in Middle => pc'[w] = pc[w] /\ todo'[w] = todo[w]
    PROVE  NothingLost'
<1>1. ASSUME NEW e, NEW places \in SUBSET Middle, InHand(e, places)
      PROVE  InHand(e, places)'
  <2>1. PICK w \in Workers : Current(w, e) /\ pc[w] \in places
    BY <1>1 DEF InHand
  <2>2. Current(w, e)' /\ pc'[w] \in places
    BY <2>1 DEF Current
  <2>3. QED
    BY <2>2 DEF InHand
<1>2. \A e \in seen' : e \in ingested' \/ InHand(e, {"find", "save"})'
  BY <1>1 DEF NothingLost, Middle
<1>3. \A e \in ingested' : applied'[e] > 0 \/ InHand(e, {"apply"})'
  BY <1>1 DEF NothingLost, Middle
<1>4. QED
  BY <1>2, <1>3 DEF NothingLost

\* A worker stays at its event e and goes on within the middle: whoever else
\* has an event in hand keeps it, and so does this worker if the place fits.
LEMMA MoveKeepsInHand ==
    ASSUME TypeOK, NEW w \in Workers, NEW e \in ChainEvents, Current(w, e),
           NEW here, NEW there, Goto(w, here, there), todo' = todo,
           NEW f \in ChainEvents, NEW places, InHand(f, places), f # e \/ there \in places
    PROVE  InHand(f, places)'
<1>1. PICK v \in Workers : Current(v, f) /\ pc[v] \in places
  BY DEF InHand
<1>2. Current(v, f)'
  BY <1>1 DEF Current
<1>3. CASE v = w
  <2>1. f = e
    BY <1>1, <1>3, CurrentUnique
  <2>2. pc'[w] = there
    BY DEF Goto, TypeOK
  <2>3. QED
    BY <1>2, <1>3, <2>1, <2>2 DEF InHand
<1>4. CASE v # w
  <2>1. pc'[v] = pc[v]
    BY <1>4 DEF Goto, TypeOK
  <2>2. QED
    BY <1>1, <1>2, <2>1 DEF InHand
<1>5. QED
  BY <1>3, <1>4

\* The worker itself has e in hand afterwards.
LEMMA MoveTakesInHand ==
    ASSUME TypeOK, NEW w \in Workers, NEW e \in ChainEvents, Current(w, e),
           NEW here, NEW there, Goto(w, here, there), todo' = todo,
           NEW places, there \in places
    PROVE  InHand(e, places)'
<1>1. Current(w, e)' /\ pc'[w] = there
  BY DEF Current, Goto, TypeOK
<1>2. QED
  BY <1>1 DEF InHand

\* The step of a worker at an event, but for a failure, loses none.
LEMMA AtEventKeeps ==
    ASSUME TypeOK, RowsInv, NothingLost, NEW w \in Workers, NEW e \in ChainEvents,
           AtEvent(w, e)
    PROVE  NothingLost'
<1>1. Current(w, e)
  BY DEF AtEvent
<1>2. CASE DedupMark(w, e)
  <2>1. Goto(w, "mark", "find") /\ seen' = seen \cup {e} /\ UNCHANGED <<ingested, applied, todo>>
    BY <1>2 DEF DedupMark
  <2>2. ASSUME NEW f \in seen' PROVE f \in ingested' \/ InHand(f, {"find", "save"})'
    <3>1. CASE f = e
      BY <1>1, <2>1, <3>1, MoveTakesInHand
    <3>2. CASE f # e
      <4>1. f \in ChainEvents /\ (f \in ingested \/ InHand(f, {"find", "save"}))
        BY <2>1, <2>2, <3>2 DEF NothingLost, TypeOK
      <4>2. QED
        BY <1>1, <2>1, <3>2, <4>1, MoveKeepsInHand
    <3>3. QED
      BY <3>1, <3>2
  <2>3. ASSUME NEW f \in ingested' PROVE applied'[f] > 0 \/ InHand(f, {"apply"})'
    <3>1. f \in ChainEvents /\ (applied[f] > 0 \/ InHand(f, {"apply"}))
      BY <2>1 DEF NothingLost, TypeOK
    <3>2. CASE applied[f] > 0
      BY <2>1, <3>2
    <3>3. CASE InHand(f, {"apply"})
      <4>1. PICK v \in Workers : Current(v, f) /\ pc[v] = "apply"
        BY <3>3 DEF InHand
      <4>2. v # w /\ pc'[v] = "apply" /\ Current(v, f)'
        BY <2>1, <4>1 DEF Goto, TypeOK, Current
      <4>3. QED
        BY <4>2 DEF InHand
    <3>4. QED
      BY <3>1, <3>2, <3>3
  <2>4. QED
    BY <2>2, <2>3 DEF NothingLost
<1>3. CASE FindRow(w, e)
  <2>1. /\ Goto(w, "find", AfterFind(e)) /\ UNCHANGED <<seen, ingested, applied, todo>>
        /\ pc[w] = "find"
    BY <1>3 DEF FindRow, stores, Goto
  <2>2. ASSUME NEW f \in seen' PROVE f \in ingested' \/ InHand(f, {"find", "save"})'
    <3>1. f \in ChainEvents /\ (f \in ingested \/ InHand(f, {"find", "save"}))
      BY <2>1 DEF NothingLost, TypeOK
    <3>2. f \in ingested \/ f # e \/ AfterFind(e) = "save"
      BY DEF AfterFind
    <3>3. QED
      BY <1>1, <2>1, <3>1, <3>2, MoveKeepsInHand
  <2>3. ASSUME NEW f \in ingested' PROVE applied'[f] > 0 \/ InHand(f, {"apply"})'
    <3>1. f \in ChainEvents /\ (applied[f] > 0 \/ InHand(f, {"apply"}))
      BY <2>1 DEF NothingLost, TypeOK
    <3>2. CASE applied[f] > 0
      BY <2>1, <3>2
    <3>3. CASE InHand(f, {"apply"})
      <4>1. PICK v \in Workers : Current(v, f) /\ pc[v] = "apply"
        BY <3>3 DEF InHand
      <4>2. v # w /\ pc'[v] = "apply" /\ Current(v, f)'
        BY <2>1, <4>1 DEF Goto, TypeOK, Current
      <4>3. QED
        BY <4>2 DEF InHand
    <3>4. QED
      BY <3>1, <3>2, <3>3
  <2>4. QED
    BY <2>2, <2>3 DEF NothingLost
<1>4. CASE SaveRow(w, e)
  <2>1. /\ Goto(w, "save", "apply") /\ ingested' = ingested \cup {e}
        /\ UNCHANGED <<seen, applied, todo>> /\ pc[w] = "save"
    BY <1>4 DEF SaveRow, Goto
  <2>2. ASSUME NEW f \in seen' PROVE f \in ingested' \/ InHand(f, {"find", "save"})'
    <3>1. f \in ChainEvents /\ (f \in ingested \/ InHand(f, {"find", "save"}))
      BY <2>1 DEF NothingLost, TypeOK
    <3>2. QED
      BY <1>1, <2>1, <3>1, MoveKeepsInHand
  <2>3. ASSUME NEW f \in ingested' PROVE applied'[f] > 0 \/ InHand(f, {"apply"})'
    <3>1. CASE f = e
      BY <1>1, <2>1, <3>1, MoveTakesInHand
    <3>2. CASE f # e
      <4>1. f \in ChainEvents /\ (applied[f] > 0 \/ InHand(f, {"apply"}))
        BY <2>1, <3>2 DEF NothingLost, TypeOK
      <4>2. QED
        BY <1>1, <2>1, <3>2, <4>1, MoveKeepsInHand
    <3>3. QED
      BY <3>1, <3>2
  <2>4. QED
    BY <2>2, <2>3 DEF NothingLost
<1>5. CASE Apply(w, e)
  <2>1. /\ Goto(w, "apply", "ckread") /\ applied' = [applied EXCEPT ![e] = @ + 1]
        /\ UNCHANGED <<seen, ingested, todo>> /\ pc[w] = "apply"
    BY <1>5 DEF Apply, Goto
  <2>2. e \in ingested
    BY <1>1, <2>1 DEF RowsInv, Late
  <2>3. ASSUME NEW f \in seen' PROVE f \in ingested' \/ InHand(f, {"find", "save"})'
    <3>1. f \in ChainEvents /\ (f \in ingested \/ InHand(f, {"find", "save"}))
      BY <2>1 DEF NothingLost, TypeOK
    <3>2. QED
      BY <1>1, <2>1, <2>2, <3>1, MoveKeepsInHand
  <2>4. ASSUME NEW f \in ingested' PROVE applied'[f] > 0 \/ InHand(f, {"apply"})'
    <3>1. f \in ChainEvents /\ (applied[f] > 0 \/ InHand(f, {"apply"}))
      BY <2>1 DEF NothingLost, TypeOK
    <3>2. CASE f = e
      BY <2>1, <3>2 DEF TypeOK
    <3>3. CASE f # e
      <4>1. applied'[f] = applied[f]
        BY <2>1, <3>1, <3>3 DEF TypeOK
      <4>2. QED
        BY <1>1, <2>1, <3>1, <3>3, <4>1, MoveKeepsInHand
    <3>4. QED
      BY <3>2, <3>3
  <2>5. QED
    BY <2>3, <2>4 DEF NothingLost
<1>6. CASE SaveConflict(w, e)
  <2>1. /\ pc[w] = "save" /\ e \in ingested /\ UNCHANGED <<seen, ingested, applied>>
        /\ \A v \in Workers : v # w => pc'[v] = pc[v] /\ todo'[v] = todo[v]
    BY <1>6 DEF SaveConflict, Drop, RowFree, stores, TypeOK
  <2>2. ASSUME NEW f \in ChainEvents, NEW places, InHand(f, places), f # e \/ "save" \notin places
        PROVE  InHand(f, places)'
    <3>1. PICK v \in Workers : Current(v, f) /\ pc[v] \in places
      BY <2>2 DEF InHand
    <3>2. v # w
      BY <1>1, <2>1, <2>2, <3>1, CurrentUnique
    <3>3. Current(v, f)' /\ pc'[v] \in places
      BY <2>1, <3>1, <3>2 DEF Current
    <3>4. QED
      BY <3>3 DEF InHand
  <2>3. \A f \in seen' : f \in ingested' \/ InHand(f, {"find", "save"})'
    BY <2>1, <2>2 DEF NothingLost, TypeOK
  <2>4. \A f \in ingested' : applied'[f] > 0 \/ InHand(f, {"apply"})'
    BY <2>1, <2>2 DEF NothingLost, TypeOK
  <2>5. QED
    BY <2>3, <2>4 DEF NothingLost
<1>7. CASE DedupHit(w, e) \/ DedupMiss(w, e)
  BY <1>7, CalmKeepsInHand DEF DedupHit, DedupMiss, Return, Goto, Middle, stores, TypeOK
<1>8. CASE CheckpointRead(w, e) \/ CheckpointRefused(w, e)
  BY <1>8, CalmKeepsInHand
  DEF CheckpointRead, CheckpointRefused, Return, Goto, Middle, stores, TypeOK
<1>10. CASE CheckpointSelect(w, e) \/ CheckpointSave(w, e)
  BY <1>10, CalmKeepsInHand
  DEF CheckpointSelect, CheckpointSave, Return, Goto, Middle, stores, TypeOK
<1>9. QED
  BY <1>2, <1>3, <1>4, <1>5, <1>6, <1>7, <1>8, <1>10 DEF AtEvent

\* No step loses an event unless it fails or crashes.
LEMMA LossStep == TypeOK /\ RowsInv /\ LossNeedsFailure /\ [Next]_vars => LossNeedsFailure'
<1> SUFFICES ASSUME TypeOK, RowsInv, LossNeedsFailure, [Next]_vars PROVE LossNeedsFailure'
  OBVIOUS
<1>1. CASE \E w \in Workers : Fail(w)
  BY <1>1 DEF Fail, LossNeedsFailure, TypeOK
<1>2. CASE Crash
  BY <1>2 DEF Crash, LossNeedsFailure, TypeOK
<1>3. ASSUME failures' = failures, NothingLost => NothingLost'
      PROVE  LossNeedsFailure'
  BY <1>3 DEF LossNeedsFailure, NothingLost
<1>4. ASSUME NEW w \in Workers, NEW e \in ChainEvents, AtEvent(w, e)
      PROVE  LossNeedsFailure'
  <2>1. failures' = failures
    BY <1>4 DEF AtEvent, DedupHit, DedupMiss, DedupMark, FindRow, SaveRow, SaveConflict,
                Apply, CheckpointRead, CheckpointRefused, CheckpointSelect, CheckpointSave,
                LeaveOut, record
  <2>2. QED
    BY <1>3, <1>4, <2>1, AtEventKeeps
<1>5. ASSUME NEW w \in Workers, StartPoll(w) \/ Fetch(w) \/ \E e \in Posted : StartIngest(w, e)
      PROVE  LossNeedsFailure'
  BY <1>3, <1>5, CalmKeepsInHand
  DEF StartPoll, Fetch, StartIngest, LeaveOut, Goto, Middle, stores, record, TypeOK
<1>9. ASSUME NEW w \in Workers, StartReset(w) \/ ResetCursor(w) PROVE LossNeedsFailure'
  BY <1>3, <1>9, CalmKeepsInHand
  DEF StartReset, ResetCursor, Goto, Middle, stores, record, TypeOK
<1>6. ASSUME NEW e \in ChainEvents, DedupExpire(e) PROVE LossNeedsFailure'
  BY <1>3, <1>6, CalmKeepsInHand DEF DedupExpire, workers, record
<1>7. CASE ResetProjections \/ CloseLedger \/ UNCHANGED vars
  BY <1>3, <1>7, CalmKeepsInHand
  DEF ResetProjections, CloseLedger, stores, workers, record, vars
<1>8. QED
  BY <1>1, <1>2, <1>4, <1>5, <1>6, <1>7, <1>9 DEF Next, WorkerStep, Disturbance

\* However polls and posts overlap, keys expire and operators reset: as long as
\* nothing fails, no event is lost between its key, its row and the read model.
THEOREM LossesNeedFailures == Spec => []LossNeedsFailure
<1>1. Init => TypeOK /\ RowsInv /\ LossNeedsFailure
  BY TypeInit, RowsInit, LossInit
<1>2. TypeOK /\ RowsInv /\ LossNeedsFailure /\ [Next]_vars
         => (TypeOK /\ RowsInv /\ LossNeedsFailure)'
  BY TypeStep, RowsStep, LossStep
<1>3. QED
  BY <1>1, <1>2, PTL DEF Spec

-----------------------------------------------------------------------------
(* What the cursor passes over when nothing fails: what had a cause *)

\* The events that need no poll any more, or are on record as left out.
Covered == Reached \cup leftOut

\* SkipsHaveCause is not inductive: a checkpoint relies on everything up to its
\* event being covered already when the worker took up its page, and that relies
\* on what lay behind the cursor the poll started from.
SkipInv ==
    /\ ValidUpTo(cursor.ledger) \subseteq Covered
    /\ \A w \in Workers : \A g \in todo[w] : ValidUpTo(g.ledger) \subseteq Covered
    /\ \A w \in Workers : pc[w] = "fetch" => ValidUpTo(known[w].ledger) \subseteq Covered

\* The invariant under its condition.
SkipKept == failures = 0 => SkipInv

\* No event is of ledger 0.
LEMMA NoneAtGenesis == ValidUpTo(0) = {}
BY IndexerAssumption DEF ValidUpTo, Event

\* Nothing is in the way at first.
LEMMA SkipInit == Init => SkipKept
BY NoneAtGenesis DEF Init, SkipKept, SkipInv, Genesis

\* A step that uncovers nothing keeps the invariant if all there is up to a new
\* event of a worker is covered, and cursors only take ledgers known before.
LEMMA CoverageKeepsSkip ==
    ASSUME SkipInv, Covered \subseteq Covered',
           \/ cursor'.ledger \in {0, cursor.ledger}
           \/ \E w \in Workers : \E g \in todo[w] : cursor'.ledger = g.ledger,
           \A w \in Workers : \A g \in todo'[w] :
              g \in todo[w] \/ ValidUpTo(g.ledger) \subseteq Covered',
           \A w \in Workers : pc'[w] = "fetch" =>
              known'[w] = cursor \/ (pc[w] = "fetch" /\ known'[w] = known[w])
    PROVE  SkipInv'
<1>1. ValidUpTo(cursor'.ledger) \subseteq Covered'
  BY NoneAtGenesis DEF SkipInv
<1>2. \A w \in Workers : \A g \in todo'[w] : ValidUpTo(g.ledger) \subseteq Covered'
  BY DEF SkipInv
<1>3. \A w \in Workers : pc'[w] = "fetch" => ValidUpTo(known'[w].ledger) \subseteq Covered'
  BY DEF SkipInv
<1>4. QED
  BY <1>1, <1>2, <1>3 DEF SkipInv

\* What a worker still has, or a row or the record holds, stays covered when the
\* other workers keep what they have and this one's losses are covered.
LEMMA LossesCovered ==
    ASSUME NEW w \in Workers, ingested \subseteq ingested', leftOut \subseteq leftOut',
           \A v \in Workers : v # w => todo'[v] = todo[v],
           todo[w] \subseteq todo'[w] \cup ingested' \cup Covered'
    PROVE  Covered \subseteq Covered'
<1>1. \A f \in Covered : \/ f \in ingested \cup leftOut
                         \/ \E v \in Workers : f \in todo[v]
  BY DEF Covered, Reached
<1>2. /\ ingested' \subseteq Covered' /\ leftOut' \subseteq Covered'
      /\ \A v \in Workers : todo'[v] \subseteq Covered'
  BY DEF Covered, Reached
<1>3. \A v \in Workers : todo[v] \subseteq Covered'
  BY <1>2
<1>4. QED
  BY <1>1, <1>2, <1>3

\* Steps that move no worker and store nothing.
LEMMA CalmKeepsSkip ==
    ASSUME SkipInv, UNCHANGED <<cursor, pc, todo, known, ingested, leftOut>>
    PROVE  SkipInv'
BY DEF SkipInv, Covered, Reached

\* A page brings all there is between the cursor and any event of it, or puts on
\* record what it cuts off.
LEMMA FetchSkip ==
    ASSUME TypeOK, SkipInv, NEW w \in Workers, Fetch(w)
    PROVE  SkipInv'
<1>1. PICK page, batch, cut :
         /\ page \in Pages(known[w])
         /\ batch = {e \in page : e.valid}
         /\ cut = {f \in ChainEvents \ page :
                      /\ f.valid /\ Fetchable(f, known[w])
                      /\ \E e \in batch : f.ledger <= e.ledger}
         /\ Goto(w, "fetch", AfterLast(batch))
         /\ todo' = [todo EXCEPT ![w] = batch]
         /\ known' = [known EXCEPT ![w] = Genesis]
         /\ UNCHANGED <<head, stores>>
         /\ LeaveOut(cut)
  BY DEF Fetch
<1>2. PICK there : there = AfterLast(batch) /\ there \in {"idle", "dedup"}
  BY LoopTypes
<1>3. /\ pc[w] = "fetch" /\ pc' = [pc EXCEPT ![w] = there] /\ UNCHANGED <<cursor, ingested>>
  BY <1>1, <1>2 DEF Goto, stores
<1>4. /\ todo[w] = {} /\ pc'[w] = there /\ todo'[w] = batch
      /\ \A v \in Workers : v # w => /\ pc'[v] = pc[v] /\ todo'[v] = todo[v]
                                     /\ known'[v] = known[v]
  BY <1>1, <1>3 DEF TypeOK
<1>5. leftOut \subseteq leftOut' /\ cut \subseteq Covered'
  BY <1>1, LeaveOutType DEF TypeOK, Covered
<1>6. Covered \subseteq Covered' /\ batch \subseteq Covered'
  <2>1. Covered \subseteq Covered'
    BY <1>3, <1>4, <1>5, LossesCovered
  <2>2. QED
    BY <1>4, <2>1 DEF Covered, Reached
<1>7. ASSUME NEW g \in batch, NEW f \in ValidUpTo(g.ledger) PROVE f \in Covered'
  <2>1. /\ g \in page /\ g \in ChainEvents /\ Fetchable(g, known[w])
        /\ f \in ChainEvents /\ f.valid /\ f.ledger <= g.ledger
    BY <1>1, <1>7 DEF ValidUpTo, Pages
  <2>2. /\ g.ledger \in Nat /\ f.ledger \in Nat /\ head \in Nat /\ known[w].ledger \in Nat
    BY <2>1, IndexerAssumption DEF Event, TypeOK, Position
  <2>3. CASE f.ledger <= known[w].ledger
    BY <1>3, <1>6, <2>1, <2>3 DEF SkipInv, ValidUpTo
  <2>4. CASE f.ledger > known[w].ledger
    <3>1. Fetchable(f, known[w])
      BY <2>1, <2>2, <2>4 DEF Fetchable
    <3>2. CASE f \in page
      BY <1>1, <1>6, <2>1, <3>2
    <3>3. CASE f \notin page
      BY <1>1, <1>5, <1>7, <2>1, <3>1, <3>3
    <3>4. QED
      BY <3>2, <3>3
  <2>5. QED
    BY <2>2, <2>3, <2>4
<1>8. \A v \in Workers : \A g \in todo'[v] :
         g \in todo[v] \/ ValidUpTo(g.ledger) \subseteq Covered'
  BY <1>4, <1>7
<1>9. \A v \in Workers : pc'[v] = "fetch" => pc[v] = "fetch" /\ known'[v] = known[v]
  BY <1>2, <1>4
<1>10. QED
  BY <1>3, <1>6, <1>8, <1>9, CoverageKeepsSkip

\* A post puts on record what it leaves behind.
LEMMA StartIngestSkip ==
    ASSUME TypeOK, SkipInv, NEW w \in Workers, NEW e \in Posted, StartIngest(w, e)
    PROVE  SkipInv'
<1>1. /\ pc[w] = "idle" /\ pc' = [pc EXCEPT ![w] = "dedup"]
      /\ todo' = [todo EXCEPT ![w] = {e}]
      /\ UNCHANGED <<cursor, ingested, known>> /\ LeaveOut(ValidUpTo(e.ledger))
  BY DEF StartIngest, Goto, stores
<1>2. todo[w] = {} /\ todo'[w] = {e} /\ \A v \in Workers : v # w => todo'[v] = todo[v]
  BY <1>1 DEF TypeOK
<1>3. leftOut \subseteq leftOut' /\ ValidUpTo(e.ledger) \subseteq Covered'
  BY <1>1, LeaveOutType DEF TypeOK, Covered, ValidUpTo
<1>4. Covered \subseteq Covered'
  BY <1>1, <1>2, <1>3, LossesCovered
<1>5. \A v \in Workers : \A g \in todo'[v] :
         g \in todo[v] \/ ValidUpTo(g.ledger) \subseteq Covered'
  BY <1>2, <1>3
<1>6. \A v \in Workers : pc'[v] = "fetch" => pc[v] = "fetch" /\ known'[v] = known[v]
  BY <1>1 DEF TypeOK
<1>7. QED
  BY <1>1, <1>4, <1>5, <1>6, CoverageKeepsSkip

\* A worker goes on at its event, storing it or not.
LEMMA MoveKeepsSkip ==
    ASSUME TypeOK, SkipInv, NEW w \in Workers, UNCHANGED <<cursor, todo, leftOut>>,
           ingested \subseteq ingested', NEW there, pc' = [pc EXCEPT ![w] = there],
           there # "fetch", \A v \in Workers : v # w => known'[v] = known[v]
    PROVE  SkipInv'
<1>1. Covered \subseteq Covered'
  BY DEF Covered, Reached
<1>2. \A v \in Workers : pc'[v] = "fetch" => pc[v] = "fetch" /\ known'[v] = known[v]
  BY DEF TypeOK
<1>3. QED
  BY <1>1, <1>2, CoverageKeepsSkip

\* A worker leaves an event that has its row or is in another's hands,
\* checkpointing it or not.
LEMMA ReturnKeepsSkip ==
    ASSUME TypeOK, SkipInv, NEW w \in Workers, NEW e \in ChainEvents, Current(w, e),
           NEW here, Return(w, e, here), UNCHANGED <<ingested, leftOut>>,
           e \in ingested \/ \E v \in Workers : v # w /\ e \in todo[v],
           cursor'.ledger \in {cursor.ledger, e.ledger},
           \A v \in Workers : v # w => known'[v] = known[v]
    PROVE  SkipInv'
<1>1. PICK there : there = AfterLast(todo[w] \ {e}) /\ there \in {"idle", "dedup"}
  BY LoopTypes
<1>2. pc' = [pc EXCEPT ![w] = there] /\ todo' = [todo EXCEPT ![w] = @ \ {e}]
  BY <1>1 DEF Return, Goto
<1>3. /\ pc'[w] = there /\ todo'[w] = todo[w] \ {e} /\ e \in todo[w]
      /\ \A v \in Workers : v # w => pc'[v] = pc[v] /\ todo'[v] = todo[v]
  BY <1>2 DEF TypeOK, Current
<1>4. e \in Covered'
  BY <1>3 DEF Covered, Reached
<1>5. Covered \subseteq Covered'
  BY <1>3, <1>4, LossesCovered
<1>6. \A v \in Workers : \A g \in todo'[v] : g \in todo[v]
  BY <1>3
<1>7. \A v \in Workers : pc'[v] = "fetch" => pc[v] = "fetch" /\ known'[v] = known[v]
  BY <1>1, <1>3
<1>8. cursor'.ledger = cursor.ledger \/ \E v \in Workers : \E g \in todo[v] : cursor'.ledger = g.ledger
  BY <1>3
<1>9. QED
  BY <1>5, <1>6, <1>7, <1>8, CoverageKeepsSkip

\* The step of a worker at an event passes over nothing without a cause.
LEMMA AtEventSkip ==
    ASSUME TypeOK, RowsInv, NothingLost, SkipInv,
           NEW w \in Workers, NEW e \in ChainEvents, AtEvent(w, e)
    PROVE  SkipInv'
<1>1. Current(w, e)
  BY DEF AtEvent
<1>2. CASE DedupHit(w, e)
  <2>1. /\ pc[w] = "dedup" /\ e \in seen /\ Return(w, e, "dedup")
        /\ UNCHANGED <<cursor, ingested, known, leftOut>>
    BY <1>2 DEF DedupHit, Return, Goto, IsDuplicate, stores, record
  <2>2. e \in ingested \/ \E v \in Workers : v # w /\ e \in todo[v]
    BY <2>1 DEF NothingLost, InHand, Current
  <2>3. QED
    BY <1>1, <2>1, <2>2, ReturnKeepsSkip
<1>3. CASE DedupMiss(w, e)
  BY <1>3, MoveKeepsSkip DEF DedupMiss, Goto, stores, record
<1>4. CASE DedupMark(w, e)
  BY <1>4, MoveKeepsSkip DEF DedupMark, Goto, record
<1>5. CASE FindRow(w, e)
  <2>1. /\ pc' = [pc EXCEPT ![w] = AfterFind(e)] /\ AfterFind(e) # "fetch"
        /\ UNCHANGED <<cursor, ingested, todo, known, leftOut>>
    BY <1>5 DEF FindRow, AfterFind, Goto, stores, record
  <2>2. QED
    BY <2>1, MoveKeepsSkip
<1>6. CASE SaveRow(w, e)
  BY <1>6, MoveKeepsSkip DEF SaveRow, Goto, record
<1>7. CASE SaveConflict(w, e)
  <2>1. /\ pc' = [pc EXCEPT ![w] = "idle"] /\ todo' = [todo EXCEPT ![w] = {}]
        /\ known' = [known EXCEPT ![w] = Genesis]
        /\ UNCHANGED <<cursor, ingested>> /\ LeaveOut(todo[w])
    BY <1>7 DEF SaveConflict, Drop, stores
  <2>2. leftOut \subseteq leftOut' /\ todo[w] \subseteq Covered'
    BY <2>1, LeaveOutType DEF TypeOK, Covered
  <2>3. \A v \in Workers : v # w => /\ pc'[v] = pc[v] /\ todo'[v] = todo[v]
                                    /\ known'[v] = known[v]
    BY <2>1 DEF TypeOK
  <2>4. Covered \subseteq Covered'
    BY <2>1, <2>2, <2>3, LossesCovered
  <2>5. todo'[w] = {} /\ pc'[w] = "idle"
    BY <2>1 DEF TypeOK
  <2>6. QED
    BY <2>1, <2>3, <2>4, <2>5, CoverageKeepsSkip
<1>8. CASE Apply(w, e)
  BY <1>8, MoveKeepsSkip DEF Apply, Goto, record
<1>9. CASE CheckpointRead(w, e)
  BY <1>9, MoveKeepsSkip DEF CheckpointRead, Goto, stores, record
<1>10. CASE CheckpointRefused(w, e)
  <2>1. Return(w, e, "ckread") /\ UNCHANGED <<cursor, ingested, known, leftOut>>
    BY <1>10 DEF CheckpointRefused, stores, record
  <2>2. e \in ingested
    BY <1>1, <2>1 DEF Return, Goto, RowsInv, Late
  <2>3. QED
    BY <1>1, <2>1, <2>2, ReturnKeepsSkip
<1>11. CASE CheckpointSelect(w, e)
  BY <1>11, MoveKeepsSkip DEF CheckpointSelect, Goto, stores, record, TypeOK
<1>12. CASE CheckpointSave(w, e)
  <2>1. /\ Return(w, e, "cksave") /\ UNCHANGED <<ingested, leftOut>>
        /\ cursor' = Updated(cursor, known[w], PositionOf(e))
        /\ \A v \in Workers : v # w => known'[v] = known[v]
    BY <1>12 DEF CheckpointSave, record, TypeOK
  <2>2. e \in ingested
    BY <1>1, <2>1 DEF Return, Goto, RowsInv, Late
  <2>3. cursor'.ledger \in {cursor.ledger, e.ledger}
    <3>1. PICK p \in Position : p = PositionOf(e)
      BY PositionTypes
    <3>2. p.ledger = e.ledger
      BY <3>1 DEF PositionOf
    <3>3. cursor \in Position /\ known[w] \in Position
      BY DEF TypeOK
    <3>4. QED
      BY <2>1, <3>1, <3>2, <3>3, UpdatedRow
  <2>4. QED
    BY <1>1, <2>1, <2>2, <2>3, ReturnKeepsSkip
<1>13. QED
  BY <1>2, <1>3, <1>4, <1>5, <1>6, <1>7, <1>8, <1>9, <1>10, <1>11, <1>12 DEF AtEvent

\* A reset of the cursor skips nothing either: it only takes the ledger to 0.
LEMMA ResetSkip ==
    ASSUME TypeOK, SkipInv, NEW w \in Workers, StartReset(w) \/ ResetCursor(w)
    PROVE  SkipInv'
<1>1. CASE StartReset(w)
  BY <1>1, MoveKeepsSkip DEF StartReset, Goto, stores, TypeOK
<1>2. CASE ResetCursor(w)
  <2>1. /\ pc' = [pc EXCEPT ![w] = "idle"] /\ known' = [known EXCEPT ![w] = Genesis]
        /\ cursor' = Updated(cursor, known[w], Genesis)
        /\ UNCHANGED <<ingested, todo, leftOut>>
    BY <1>2 DEF ResetCursor, Goto, record
  <2>2. cursor'.ledger \in {0, cursor.ledger}
    <3>1. PICK p \in Position : p = Genesis
      BY PositionTypes
    <3>2. p.ledger = 0
      BY <3>1 DEF Genesis
    <3>3. cursor \in Position /\ known[w] \in Position
      BY DEF TypeOK
    <3>4. QED
      BY <2>1, <3>1, <3>2, <3>3, UpdatedRow
  <2>3. Covered \subseteq Covered'
    BY <2>1 DEF Covered, Reached
  <2>4. \A v \in Workers : pc'[v] = "fetch" => pc[v] = "fetch" /\ known'[v] = known[v]
    BY <2>1 DEF TypeOK
  <2>5. QED
    BY <2>1, <2>2, <2>3, <2>4, CoverageKeepsSkip
<1>3. QED
  BY <1>1, <1>2

\* Every step passes over nothing without a cause.
LEMMA SkipStep ==
    TypeOK /\ RowsInv /\ LossNeedsFailure /\ SkipKept /\ [Next]_vars => SkipKept'
<1> SUFFICES ASSUME TypeOK, RowsInv, LossNeedsFailure, SkipKept, [Next]_vars, failures' = 0
             PROVE  SkipInv'
  BY DEF SkipKept
<1>1. CASE (\E w \in Workers : Fail(w)) \/ Crash
  BY <1>1 DEF Fail, Crash, TypeOK
<1>2. ASSUME failures = 0 PROVE SkipInv /\ NothingLost
  BY <1>2 DEF SkipKept, LossNeedsFailure, NothingLost
<1>3. ASSUME NEW w \in Workers, NEW e \in ChainEvents, AtEvent(w, e) PROVE SkipInv'
  <2>1. failures = 0
    BY <1>3 DEF AtEvent, DedupHit, DedupMiss, DedupMark, FindRow, SaveRow, SaveConflict,
                Apply, CheckpointRead, CheckpointRefused, CheckpointSelect, CheckpointSave,
                LeaveOut, record
  <2>2. QED
    BY <1>2, <1>3, <2>1, AtEventSkip
<1>4. ASSUME NEW w \in Workers, StartPoll(w) PROVE SkipInv'
  <2>1. /\ pc' = [pc EXCEPT ![w] = "fetch"] /\ known' = [known EXCEPT ![w] = cursor]
        /\ UNCHANGED <<cursor, ingested, todo, leftOut, failures>>
    BY <1>4 DEF StartPoll, Goto, stores, record
  <2>2. SkipInv
    BY <1>2, <2>1
  <2>3. Covered \subseteq Covered'
    BY <2>1 DEF Covered, Reached
  <2>4. \A v \in Workers : pc'[v] = "fetch" =>
           known'[v] = cursor \/ (pc[v] = "fetch" /\ known'[v] = known[v])
    BY <2>1 DEF TypeOK
  <2>5. QED
    BY <2>1, <2>2, <2>3, <2>4, CoverageKeepsSkip
<1>5. ASSUME NEW w \in Workers, Fetch(w) PROVE SkipInv'
  <2>1. failures = 0
    BY <1>5 DEF Fetch, LeaveOut
  <2>2. QED
    BY <1>2, <1>5, <2>1, FetchSkip
<1>6. ASSUME NEW w \in Workers, NEW e \in Posted, StartIngest(w, e) PROVE SkipInv'
  <2>1. failures = 0
    BY <1>6 DEF StartIngest, LeaveOut
  <2>2. QED
    BY <1>2, <1>6, <2>1, StartIngestSkip
<1>7. ASSUME NEW w \in Workers, StartReset(w) \/ ResetCursor(w) PROVE SkipInv'
  <2>1. failures = 0
    BY <1>7 DEF StartReset, ResetCursor, record
  <2>2. QED
    BY <1>2, <1>7, <2>1, ResetSkip
<1>8. ASSUME NEW e \in ChainEvents, DedupExpire(e) PROVE SkipInv'
  BY <1>2, <1>8, CalmKeepsSkip DEF DedupExpire, workers, record
<1>9. CASE ResetProjections \/ CloseLedger \/ UNCHANGED vars
  BY <1>2, <1>9, CalmKeepsSkip DEF ResetProjections, CloseLedger, stores, workers, record, vars
<1>10. QED
  BY <1>1, <1>3, <1>4, <1>5, <1>6, <1>7, <1>8, <1>9 DEF Next, WorkerStep, Disturbance

\* For any workers, events, page limit, posts, expiries and resets: as long as
\* nothing fails, the cursor passes over a valid event only if a page was cut
\* before it, a later event was posted, or a refused insert dropped it.
THEOREM SkipsDoHaveCauses == Spec => []SkipsHaveCause
<1>1. Init => TypeOK /\ RowsInv /\ LossNeedsFailure /\ SkipKept
  BY TypeInit, RowsInit, LossInit, SkipInit
<1>2. TypeOK /\ RowsInv /\ LossNeedsFailure /\ SkipKept /\ [Next]_vars
         => (TypeOK /\ RowsInv /\ LossNeedsFailure /\ SkipKept)'
  BY TypeStep, RowsStep, LossStep, SkipStep
<1>3. SkipKept => SkipsHaveCause
  BY DEF SkipKept, SkipInv, SkipsHaveCause, Covered
<1>4. QED
  BY <1>1, <1>2, <1>3, PTL DEF Spec
=============================================================================
