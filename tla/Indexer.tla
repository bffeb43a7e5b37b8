------------------------------ MODULE Indexer ------------------------------
(***************************************************************************)
(* The backend's Soroban event indexer: polls of the RPC node, the dedup   *)
(* cache, the table of ingested events, the session projection and the     *)
(* stream cursor.                                                          *)
(*                                                                         *)
(* The scheduler fires a poll every ten seconds whether or not the last    *)
(* one has returned, and an event may be posted to the ingest endpoint, so *)
(* several runs of the pipeline overlap.  A worker is one such run, or an  *)
(* operator's reset of the cursor; each action is the code between two     *)
(* awaits.  The cursor is one row that exists from the start; saving it is *)
(* two statements, for TypeORM reads the row again and then updates only   *)
(* the columns in which it differs from what is to be saved.               *)
(***************************************************************************)
EXTENDS Integers, FiniteSets

CONSTANTS
    Workers,        \* pipeline runs that may be in flight together
    ChainEvents,    \* the contract's events, see Event
    Sessions,       \* ids of finalized sessions
    NoSession,      \* of an event that finalizes no session
    Posted,         \* events that operators post to the ingest endpoint
    PageLimit,      \* pagination limit of getEvents (200)
    MaxLedger,      \* bound of the model on the chain's height
    MaxFailures,    \* bound of the model on failing awaits and crashes
    MaxResets       \* bound of the model on operator resets

\* `tx` is the rank of the transaction hash in the order of localeCompare, with
\* 0 for the empty one; `valid` is the verdict of the normalizer.
Event == [ledger : Nat \ {0}, tx : Nat \ {0}, index : Nat,
          session : Sessions \cup {NoSession}, valid : BOOLEAN]

ASSUME IndexerAssumption ==
    /\ ChainEvents \subseteq Event
    /\ \A e, f \in ChainEvents : e.tx = f.tx /\ e.index = f.index => e = f
    /\ NoSession \notin Sessions
    /\ Posted \subseteq ChainEvents
    /\ PageLimit \in Nat \ {0}
    /\ MaxLedger \in Nat
    /\ MaxFailures \in Nat
    /\ MaxResets \in Nat

VARIABLES
    head,           \* latest closed ledger of the chain
    cursor,         \* row of indexer_cursor
    seen,           \* keys of the dedup cache
    ingested,       \* rows of ingested_events
    projections,    \* rows of session_projections
    pc,             \* per worker, the await it returns from next
    todo,           \* per worker, the events left, the current one included
    known,          \* per worker, the cursor row as it last read it
    failures, resets

\* History of the run: how often projectionService.apply ran for an event, and
\* the events that a page, a post or a refused insert left behind.
VARIABLES applied, leftOut

stores == <<cursor, seen, ingested, projections, applied>>
workers == <<pc, todo, known>>
record == <<failures, resets, leftOut>>
vars == <<head, stores, workers, record>>

-----------------------------------------------------------------------------
(* A definition marked "Mutant" is a plausible fault of the one after it;  *)
(* no action uses it.                                                      *)

Position == [ledger : Nat, tx : Nat, index : Nat]

Genesis == [ledger |-> 0, tx |-> 0, index |-> 0]

\* Mutant: the next ledger to fetch is stored.
PositionOfNext(e) == [ledger |-> e.ledger + 1, tx |-> 0, index |-> 0]

PositionOf(e) == [ledger |-> e.ledger, tx |-> e.tx, index |-> e.index]

\* The row after an UPDATE of the columns in which p differs from the row read.
Updated(row, read, p) ==
    LET Column(now, old, new) == IF new = old THEN now ELSE new
    IN  [ledger |-> Column(row.ledger, read.ledger, p.ledger),
         tx     |-> Column(row.tx, read.tx, p.tx),
         index  |-> Column(row.index, read.index, p.index)]

\* Order of compareEventsByCursor and of isMonotonicallyGreater.
Before(a, b) ==
    \/ a.ledger < b.ledger
    \/ a.ledger = b.ledger /\ a.tx < b.tx
    \/ a.ledger = b.ledger /\ a.tx = b.tx /\ a.index < b.index

Advances(e, c) == Before(c, PositionOf(e))

\* Mutant: startLedger taken as exclusive.
FetchableExclusive(e, c) == e.ledger <= head /\ e.ledger > c.ledger + 1

\* getEvents from startLedger = lastLedger + 1 (1 at genesis).
Fetchable(e, c) == e.ledger <= head /\ e.ledger > c.ledger

SmallerOf(m, n) == IF m <= n THEN m ELSE n

\* One page: whole ledgers from the oldest on, the last of them possibly cut
\* anywhere, since the node's order within a ledger is not that of tx hashes.
Pages(c) ==
    LET found == {e \in ChainEvents : Fetchable(e, c)}
    IN  {page \in SUBSET found :
           /\ Cardinality(page) = SmallerOf(PageLimit, Cardinality(found))
           /\ \A e \in page, f \in found \ page : e.ledger <= f.ledger}

\* Mutant: the key is set before it is looked up.
DuplicateMarkedFirst(e) == TRUE

IsDuplicate(e) == e \in seen

\* Mutant: the table has no unique index.
RowFreeUnindexed(e) == TRUE

RowFree(e) == e \notin ingested

\* Mutant: the projection is updated first.
AfterFindApplyFirst(e) == IF e \in ingested THEN "ckread" ELSE "apply"

AfterFind(e) == IF e \in ingested THEN "ckread" ELSE "save"

AfterLast(rest) == IF rest = {} THEN "idle" ELSE "dedup"

\* Mutant: the topic of the event is not looked at.
SessionsOfAny(e) == {e.session}

\* Sessions that projectionService.apply upserts for e.
SessionsOf(e) == {e.session} \ {NoSession}

-----------------------------------------------------------------------------
(* The pipeline *)

Init ==
    /\ head = 0
    /\ cursor = Genesis
    /\ seen = {}
    /\ ingested = {}
    /\ projections = {}
    /\ applied = [e \in ChainEvents |-> 0]
    /\ pc = [w \in Workers |-> "idle"]
    /\ todo = [w \in Workers |-> {}]
    /\ known = [w \in Workers |-> Genesis]
    /\ failures = 0
    /\ resets = 0
    /\ leftOut = {}

\* The events that are stored or that some worker still has before it.
Reached == ingested \cup UNION {todo[w] : w \in Workers}

\* Those of S that the step leaves out of reach are put on record.
LeaveOut(S) ==
    /\ leftOut' = leftOut \cup (S \ Reached')
    /\ UNCHANGED <<failures, resets>>

\* The valid events of the ledgers up to l.
ValidUpTo(l) == {f \in ChainEvents : f.valid /\ f.ledger <= l}

\* e is the event worker w is at: the first of those it has left.
Current(w, e) ==
    /\ e \in todo[w]
    /\ \A f \in todo[w] : f = e \/ Before(e, f)

Goto(w, here, there) == pc[w] = here /\ pc' = [pc EXCEPT ![w] = there]

\* ingest(e) returns and the loop goes on with the rest of the page.
Return(w, e, here) ==
    /\ Goto(w, here, AfterLast(todo[w] \ {e}))
    /\ todo' = [todo EXCEPT ![w] = @ \ {e}]

StartPoll(w) ==
    /\ Goto(w, "idle", "fetch")
    /\ known' = [known EXCEPT ![w] = cursor]
    /\ UNCHANGED <<head, stores, todo, record>>

\* Events that fail validation go to the malformed-event sink; the cursor that
\* was read is not used again.
Fetch(w) ==
    \E page \in Pages(known[w]) :
       LET batch == {e \in page : e.valid}
           cut == {f \in ChainEvents \ page :
                      /\ f.valid /\ Fetchable(f, known[w])
                      /\ \E e \in batch : f.ledger <= e.ledger}
       IN  /\ Goto(w, "fetch", AfterLast(batch))
           /\ todo' = [todo EXCEPT ![w] = batch]
           /\ known' = [known EXCEPT ![w] = Genesis]
           /\ UNCHANGED <<head, stores>>
           /\ LeaveOut(cut)

StartIngest(w, e) ==
    /\ e \in Posted /\ e.ledger <= head
    /\ Goto(w, "idle", "dedup")
    /\ todo' = [todo EXCEPT ![w] = {e}]
    /\ UNCHANGED <<head, stores, known>>
    /\ LeaveOut(ValidUpTo(e.ledger))

\* A duplicate returns without a checkpoint.
DedupHit(w, e) ==
    /\ IsDuplicate(e)
    /\ Return(w, e, "dedup")
    /\ UNCHANGED <<head, stores, known, record>>

DedupMiss(w, e) ==
    /\ ~IsDuplicate(e)
    /\ Goto(w, "dedup", "mark")
    /\ UNCHANGED <<head, stores, todo, known, record>>

DedupMark(w, e) ==
    /\ Goto(w, "mark", "find")
    /\ seen' = seen \cup {e}
    /\ UNCHANGED <<head, cursor, ingested, projections, applied, todo, known, record>>

FindRow(w, e) ==
    /\ Goto(w, "find", AfterFind(e))
    /\ UNCHANGED <<head, stores, todo, known, record>>

SaveRow(w, e) ==
    /\ RowFree(e)
    /\ Goto(w, "save", "apply")
    /\ ingested' = ingested \cup {e}
    /\ UNCHANGED <<head, cursor, seen, projections, applied, todo, known, record>>

\* An exception leaves ingest and poll: the rest of the page is dropped.
Drop(w) ==
    /\ pc' = [pc EXCEPT ![w] = "idle"]
    /\ todo' = [todo EXCEPT ![w] = {}]
    /\ known' = [known EXCEPT ![w] = Genesis]

\* Another worker inserted the row after FindRow: the unique index refuses.
SaveConflict(w, e) ==
    /\ pc[w] = "save" /\ ~RowFree(e)
    /\ Drop(w)
    /\ UNCHANGED <<head, stores>>
    /\ LeaveOut(todo[w])

Apply(w, e) ==
    /\ Goto(w, "apply", "ckread")
    /\ projections' = projections \cup SessionsOf(e)
    /\ applied' = [applied EXCEPT ![e] = @ + 1]
    /\ UNCHANGED <<head, cursor, seen, ingested, todo, known, record>>

\* The position is compared with the row read here ...
CheckpointRead(w, e) ==
    /\ Advances(e, cursor)
    /\ Goto(w, "ckread", "ckselect")
    /\ UNCHANGED <<head, stores, todo, known, record>>

CheckpointRefused(w, e) ==
    /\ ~Advances(e, cursor)
    /\ Return(w, e, "ckread")
    /\ UNCHANGED <<head, stores, known, record>>

\* ... save reads the row again ...
CheckpointSelect(w, e) ==
    /\ Goto(w, "ckselect", "cksave")
    /\ known' = [known EXCEPT ![w] = cursor]
    /\ UNCHANGED <<head, stores, todo, record>>

\* ... and updates the columns in which the position differs from that.
CheckpointSave(w, e) ==
    /\ Return(w, e, "cksave")
    /\ cursor' = Updated(cursor, known[w], PositionOf(e))
    /\ known' = [known EXCEPT ![w] = Genesis]
    /\ UNCHANGED <<head, seen, ingested, projections, applied, record>>

-----------------------------------------------------------------------------
(* Failures, expiry, operators and the chain *)

\* Any await of a run may reject: RPC, Redis or database.
Fail(w) ==
    /\ failures < MaxFailures
    /\ pc[w] # "idle"
    /\ Drop(w)
    /\ failures' = failures + 1
    /\ UNCHANGED <<head, stores, resets, leftOut>>

\* The backend process dies; Redis and the database survive.
Crash ==
    /\ failures < MaxFailures
    /\ \E w \in Workers : pc[w] # "idle"
    /\ pc' = [w \in Workers |-> "idle"]
    /\ todo' = [w \in Workers |-> {}]
    /\ known' = [w \in Workers |-> Genesis]
    /\ failures' = failures + 1
    /\ UNCHANGED <<head, stores, resets, leftOut>>

DedupExpire(e) ==
    /\ e \in seen
    /\ seen' = seen \ {e}
    /\ UNCHANGED <<head, cursor, ingested, projections, applied, workers, record>>

\* The row that reset reads first only tells it which one to save.
StartReset(w) ==
    /\ resets < MaxResets
    /\ Goto(w, "idle", "reset")
    /\ known' = [known EXCEPT ![w] = cursor]
    /\ resets' = resets + 1
    /\ UNCHANGED <<head, stores, todo, failures, leftOut>>

ResetCursor(w) ==
    /\ Goto(w, "reset", "idle")
    /\ cursor' = Updated(cursor, known[w], Genesis)
    /\ known' = [known EXCEPT ![w] = Genesis]
    /\ UNCHANGED <<head, seen, ingested, projections, applied, todo, record>>

\* Only the projection is cleared: rows and dedup keys stay.
ResetProjections ==
    /\ resets < MaxResets
    /\ projections' = {}
    /\ resets' = resets + 1
    /\ UNCHANGED <<head, cursor, seen, ingested, applied, workers, failures, leftOut>>

CloseLedger ==
    /\ head < MaxLedger
    /\ head' = head + 1
    /\ UNCHANGED <<stores, workers, record>>

AtEvent(w, e) ==
    /\ Current(w, e)
    /\ \/ DedupHit(w, e)
       \/ DedupMiss(w, e)
       \/ DedupMark(w, e)
       \/ FindRow(w, e)
       \/ SaveRow(w, e)
       \/ SaveConflict(w, e)
       \/ Apply(w, e)
       \/ CheckpointRead(w, e)
       \/ CheckpointRefused(w, e)
       \/ CheckpointSelect(w, e)
       \/ CheckpointSave(w, e)

\* The steps a running process takes by itself.
WorkerStep(w) ==
    \/ StartPoll(w)
    \/ Fetch(w)
    \/ ResetCursor(w)
    \/ \E e \in ChainEvents : AtEvent(w, e)

Disturbance ==
    \/ \E w \in Workers :
          Fail(w) \/ StartReset(w) \/ \E e \in Posted : StartIngest(w, e)
    \/ Crash
    \/ \E e \in ChainEvents : DedupExpire(e)
    \/ ResetProjections

Next ==
    \/ \E w \in Workers : WorkerStep(w)
    \/ Disturbance
    \/ CloseLedger

Spec == Init /\ [][Next]_vars

\* The scheduler fires every ten seconds, whatever was posted in between, and a
\* run that does not fail goes on.  Nothing is assumed of the chain, of operators
\* or of the cache.
FairSpec ==
    Spec /\ \A w \in Workers : WF_vars(WorkerStep(w)) /\ SF_vars(StartPoll(w))

-----------------------------------------------------------------------------
(* Properties *)

\* Type correctness; a worker has events left exactly while it is at one.
TypeOK ==
    /\ head \in Nat
    /\ cursor \in Position
    /\ seen \subseteq ChainEvents
    /\ ingested \subseteq ChainEvents
    /\ projections \subseteq Sessions
    /\ applied \in [ChainEvents -> Nat]
    /\ pc \in [Workers -> {"idle", "fetch", "dedup", "mark", "find", "save",
                           "apply", "ckread", "ckselect", "cksave", "reset"}]
    /\ todo \in [Workers -> SUBSET ChainEvents]
    /\ known \in [Workers -> Position]
    /\ failures \in Nat
    /\ resets \in Nat
    /\ leftOut \subseteq ChainEvents
    /\ \A w \in Workers : todo[w] = {} <=> pc[w] \in {"idle", "fetch", "reset"}

\* The indexer implements EventLedger under every interleaving of overlapping
\* polls, posted events, failures, crashes, cache expiry and resets: no event is
\* applied to the read model twice (docs/adr/0009, section 3: "Duplicate events
\* are skipped"), although FindRow and SaveRow are separate awaits.
Ledger == INSTANCE EventLedger
            WITH Events <- ChainEvents, rows <- ingested

LedgerSpec == Ledger!Spec

\* The read model shows a session only if its event has a row, and no row
\* exists of an event the normalizer refused, unless an operator posted it.
ProjectionHasRow ==
    /\ projections \subseteq UNION {SessionsOf(e) : e \in ingested}
    /\ \A e \in ingested : e.valid \/ e \in Posted

\* Every column of the cursor is that of an event with a row, so the ledger
\* that polls resume after, and the ledger and the hash that the lag endpoint
\* reports as processed, were processed.  The three need not be of one event:
\* two overlapping saves may each write the columns that the other leaves alone.
CursorFromRows ==
    /\ cursor.ledger = 0 \/ \E e \in ingested : cursor.ledger = e.ledger
    /\ cursor.tx = 0 \/ \E e \in ingested : cursor.tx = e.tx
    /\ cursor.index = 0 \/ \E e \in ingested : cursor.index = e.index

\* Both hold over overlapping runs, failures, crashes and resets.
ReadModelBacked == ProjectionHasRow /\ CursorFromRows

\* A worker past the dedup key of e, or past its row, still has e in hand.
InHand(e, places) == \E w \in Workers : Current(w, e) /\ pc[w] \in places

\* Only a failure or a crash loses an event: as long as none has occurred, an
\* event whose dedup key is set has its row, and one with a row has been applied
\* to the read model, or some worker is about to see to it, however polls and
\* posts overlap.  (The key is set, and the row saved, before what they stand
\* for is done, and nothing repairs what a failure in between leaves behind.)
LossNeedsFailure ==
    failures = 0 =>
       /\ \A e \in seen : e \in ingested \/ InHand(e, {"find", "save"})
       /\ \A e \in ingested : applied[e] > 0 \/ InHand(e, {"apply"})

\* cursor.service.ts:36-39: the cursor advances "only when the new position is
\* strictly monotonically greater than the current one"; only a reset takes it
\* back.
CursorMonotone ==
    [][cursor' # cursor => cursor' = Genesis \/ Before(cursor, cursor')]_vars

\* The cursor passes over a valid event only for one of three causes, as long as
\* nothing fails: a page that ended within a ledger, an event posted ahead of
\* others, or an insert refused to a worker, which drops the rest of its page.
\* Overlapping polls, columns of the cursor saved apart, a cursor taken back,
\* keys that expire and resets never skip anything of themselves.
SkipsHaveCause == failures = 0 => ValidUpTo(cursor.ledger) \subseteq Reached \cup leftOut

\* docs/adr/0009:37: resuming from `last_ledger + 1` "ensures no events are lost
\* during downtime": a valid event of a ledger the cursor has reached, which no
\* poll will fetch again, has a row or is in the hands of a worker.
NothingSkipped == ValidUpTo(cursor.ledger) \subseteq Reached

\* docs/adr/0009:86: the indexer "catches up on restart": every valid event the
\* chain has emitted gets its row, and the session it finalizes appears in the
\* read model.  It holds while every page has room for the whole backlog; a page
\* filled by events the normalizer refuses moves no cursor and is fetched again
\* for ever.
EveryEventIndexed ==
    \A e \in ChainEvents :
       (e.valid /\ e.ledger <= head)
          ~> (e \in ingested /\ SessionsOf(e) \subseteq projections)

\* docs/adr/001-soroban-migration.md:36-37 ("re-indexing is idempotent") and
\* cursor.service.spec.ts:277 ("can reset projections then re-ingest events
\* successfully"): from an empty read model and the genesis cursor, polling
\* brings back every session finalized so far.
RebuiltFromGenesis ==
    \A e \in ChainEvents :
       (e.valid /\ e.ledger <= head /\ projections = {} /\ cursor = Genesis)
          ~> (SessionsOf(e) \subseteq projections)
=============================================================================
