---------------------------- MODULE OfflineSync ----------------------------
(***************************************************************************)
(* Offline play: the session and the queue of results live in the          *)
(* browser's storage, the ref of the enqueued session and the flushes in   *)
(* progress in the page, which may be reloaded at any time.  A flush works *)
(* through the queue as it was when it began, one POST after the other.    *)
(* The server is external: it accepts a result, refuses it, or accepts it  *)
(* and the answer is lost.                                                 *)
(***************************************************************************)
EXTENDS Naturals, Sequences, SequencesExt

CONSTANTS
    Flushes,        \* flushes in progress at one time
    Games,          \* bound: sessions played, numbered from 1
    MaxPosts        \* bound: posts of one session told apart

ASSUME SyncAssumption == Games \in Nat /\ MaxPosts \in Nat

VARIABLES
    stored,         \* storageKey: [id, done], id 0 for null
    outbox,         \* pendingKey: ids of the finished sessions to post
    enqueued,       \* enqueuedSessionIdRef, 0 for null
    online,         \* isOnline and its ref
    flush,          \* per flush, the ids it still has to post and its stage
    posted          \* the server: results accepted, per session

\* History, read by properties only.
VARIABLES
    finished,       \* sessions that were completed
    repeated        \* sessions with a lost answer, enqueued twice, or taken by
                    \* a flush while another one had them

syncVars == <<stored, outbox, enqueued, online, flush, posted, finished, repeated>>

NoSession == [id |-> 0, done |-> FALSE]
NoFlush == [todo |-> << >>, stage |-> "send"]
InFlight(f) == flush[f].todo # << >>
Current(f) == Head(flush[f].todo)

\* Array.filter: what is not id, in order.
Drop(q, id) ==
    LET kept == {i \in DOMAIN q : q[i] # id}
        Kth(k) == CHOOSE i \in kept : Cardinality({j \in kept : j <= i}) = k IN
    [k \in 1 .. Cardinality(kept) |-> q[Kth(k)]]

SyncInit ==
    /\ stored = NoSession /\ outbox = << >> /\ enqueued = 0 /\ online \in BOOLEAN
    /\ flush = [f \in Flushes |-> NoFlush]
    /\ posted = [s \in 1 .. Games |-> 0]
    /\ finished = {} /\ repeated = {}

-----------------------------------------------------------------------------
\* The flushes fl with a new one of queue q, if there is anything to post.
Begun(fl, q) ==
    IF q = << >> THEN {fl} ELSE
    {[fl EXCEPT ![f] = [todo |-> q, stage |-> "send"]] : f \in {f \in Flushes : fl[f].todo = << >>}}

Shared(fl, q) == {id \in ToSet(q) : \E f \in Flushes : id \in ToSet(fl[f].todo)}

\* submitGuess without a session opens one; a further guess changes no more
\* than the record.
OpenSession ==
    /\ stored.id = 0 /\ finished # 1 .. Games
    /\ stored' = [id |-> Min(1 .. Games \ finished), done |-> FALSE]
    /\ UNCHANGED <<outbox, enqueued, online, flush, posted, finished, repeated>>

\* Mutant: completeSession without a session makes up a finished one.
EvenNone == TRUE

HasSession == stored.id # 0

\* completeSession, with the effect that enqueues the result and flushes.
CompleteSession == LET s == stored.id IN
    /\ HasSession /\ ~stored.done
    /\ stored' = [stored EXCEPT !.done = TRUE]
    /\ outbox' = Append(outbox, s)
    /\ enqueued' = s
    /\ finished' = finished \cup {s}
    /\ flush' \in IF online THEN Begun(flush, outbox') ELSE {flush}
    /\ repeated' = IF online THEN repeated \cup Shared(flush, outbox') ELSE repeated
    /\ UNCHANGED <<online, posted>>

\* resetSession.
ResetSession ==
    /\ stored.id # 0
    /\ stored' = NoSession /\ enqueued' = 0
    /\ UNCHANGED <<outbox, online, flush, posted, finished, repeated>>

\* The page is reloaded.  On mount a flush begins, and then a session found
\* completed in storage is enqueued, for the ref is empty, and flushed again.
Reload ==
    LET again == stored.id # 0 /\ stored.done
        queue == IF again THEN Append(outbox, stored.id) ELSE outbox
        none == [f \in Flushes |-> NoFlush]
        answers == {Current(f) : f \in {f \in Flushes : InFlight(f) /\ flush[f].stage = "answer"}}
        mounted == Begun(none, outbox) IN
    /\ again => Len(outbox) < Games
    /\ outbox' = queue
    /\ enqueued' = IF again THEN stored.id ELSE 0
    /\ flush' \in IF ~online THEN {none}
                  ELSE IF again THEN UNION {Begun(fl, queue) : fl \in mounted} ELSE mounted
    /\ repeated' = repeated \cup answers \cup (IF again THEN {stored.id} ELSE {})
                            \cup (IF again /\ online THEN ToSet(outbox) ELSE {})
    /\ UNCHANGED <<stored, online, posted, finished>>

GoOffline ==
    /\ online /\ online' = FALSE
    /\ UNCHANGED <<stored, outbox, enqueued, flush, posted, finished, repeated>>

\* The online event, or flushPendingSyncs by hand.
FlushPending ==
    /\ online' = TRUE
    /\ ~online \/ outbox # << >>
    /\ flush' \in Begun(flush, outbox)
    /\ repeated' = repeated \cup Shared(flush, outbox)
    /\ UNCHANGED <<stored, outbox, enqueued, posted, finished>>

-----------------------------------------------------------------------------
\* The server accepts the result a flush has posted; the browser may have
\* gone offline with the request on its way.
Accept(f) ==
    /\ InFlight(f) /\ flush[f].stage = "send"
    /\ posted[Current(f)] < MaxPosts
    /\ posted' = [posted EXCEPT ![Current(f)] = @ + 1]
    /\ flush' = [flush EXCEPT ![f].stage = "answer"]
    /\ UNCHANGED <<stored, outbox, enqueued, online, finished, repeated>>

\* Mutant: the queue is not read again.
StaleQueue(f) == Tail(flush[f].todo)

Remaining(f) == Drop(outbox, Current(f))

\* Its answer arrives: the session leaves the queue as it is now.
Answer(f) ==
    /\ InFlight(f) /\ flush[f].stage = "answer"
    /\ outbox' = Remaining(f)
    /\ flush' = [flush EXCEPT ![f] = [todo |-> Tail(@.todo), stage |-> "send"]]
    /\ UNCHANGED <<stored, enqueued, online, posted, finished, repeated>>

\* The request fails, before or after it reached the server: the flush ends.
FlushFails(f) ==
    /\ InFlight(f)
    /\ flush' = [flush EXCEPT ![f] = NoFlush]
    /\ repeated' = IF flush[f].stage = "answer" THEN repeated \cup {Current(f)} ELSE repeated
    /\ UNCHANGED <<stored, outbox, enqueued, online, posted, finished>>

SyncNext ==
    \/ OpenSession \/ CompleteSession \/ ResetSession \/ Reload \/ GoOffline \/ FlushPending
    \/ \E f \in Flushes : Accept(f) \/ Answer(f) \/ FlushFails(f)

SyncSpec == SyncInit /\ [][SyncNext]_syncVars

-----------------------------------------------------------------------------
SyncTypeOK ==
    /\ stored \in [id : 0 .. Games, done : BOOLEAN] /\ enqueued \in 0 .. Games
    /\ outbox \in Seq(1 .. Games) /\ online \in BOOLEAN
    /\ \A f \in Flushes : flush[f].todo \in Seq(1 .. Games) /\ flush[f].stage \in {"send", "answer"}
    /\ posted \in [1 .. Games -> 0 .. MaxPosts]

\* A finished session waits in the queue until the server has its result,
\* whatever reloads, failures and overlapping flushes come in between.
NothingLost == \A s \in finished : s \in ToSet(outbox) \/ posted[s] > 0

\* A result is posted twice only after a lost answer, after a reload that
\* enqueued it again, or by flushes that overlapped.
PostedOnce == \A s \in 1 .. Games : posted[s] > 1 => s \in repeated

\* Every result reaches the server, and once unless there is a reason.
ResultsDelivered == NothingLost /\ PostedOnce
=============================================================================
