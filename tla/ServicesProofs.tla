--------------------------- MODULE ServicesProofs ---------------------------
(***************************************************************************)
(* Machine-checked proofs about the services that share no state with the  *)
(* game contract: devices following each other, offline play, the weekly   *)
(* digest, the word of the day and the wallet's transactions.  As          *)
(* everywhere, for every value of the constants.  The composite, with the  *)
(* contracts beside them, comes last.                                      *)
(***************************************************************************)
EXTENDS MCServices, ContractsProofs, CountingLemmas

-----------------------------------------------------------------------------
(* Devices following each other: what is rendered never goes back *)

Moment == Time \cup {NeverPushed}

Exchange == [pc : {"idle", "effect", "push", "fetch", "resolve"}, state : DeviceState]

\* DevicesTypeOK, with the shape of the functions: a state that travels is a
\* state, whatever exchange it travels in.  A copy that is not rendered yet is
\* no older than the one that is, though it may be than one it was set over.
DevicesInv ==
    /\ page \in [Devices -> DeviceRecord] /\ storage \in [Devices -> DeviceRecord]
    /\ local \in [Devices -> DeviceState] /\ localRef \in [Devices -> DeviceState]
    /\ active \in DeviceState
    /\ \A d \in Devices : local[d].updatedAt >= localRef[d].updatedAt
    /\ pushedAt \in [Devices -> Moment]
    /\ exchange \in [Devices -> [Syncs -> Exchange]]
    /\ clock \in Time /\ mounts \in [Devices -> Nat]

\* What the header makes of a record, or begins an exchange with, is typed.
LEMMA CopiesAreStates ==
    /\ NoState \in DeviceState /\ NoRecord \in DeviceRecord /\ NoExchange \in Exchange
    /\ \A record \in DeviceRecord : ReadLocal(record) \in DeviceState
    /\ \A copy \in DeviceState, at \in Moment : NextExchange(copy, at) \in Exchange
    /\ \A record \in DeviceRecord, state \in DeviceState : Adopted(record, state) \in DeviceRecord
<1>1. 0 \in Time
  BY DevicesAssumption DEF Time
<1>2. NoState \in DeviceState /\ NoRecord \in DeviceRecord
  BY <1>1 DEF NoState, NoRecord, DeviceState, DeviceRecord
<1>3. NoExchange \in Exchange
  BY <1>2 DEF NoExchange, Exchange
<1>4. \A record \in DeviceRecord : ReadLocal(record) \in DeviceState
  BY <1>2 DEF ReadLocal, DeviceState, DeviceRecord
<1>5. \A copy \in DeviceState, at \in Moment : NextExchange(copy, at) \in Exchange
  BY <1>2 DEF NextExchange, Exchange
<1>6. \A record \in DeviceRecord, state \in DeviceState : Adopted(record, state) \in DeviceRecord
  BY DEF Adopted, DeviceState, DeviceRecord
<1> QED
  BY <1>2, <1>3, <1>4, <1>5, <1>6

\* An exchange that moves on leaves the others as they are.
LEMMA StepToTyped ==
    ASSUME exchange \in [Devices -> [Syncs -> Exchange]], NEW d \in Devices, NEW s \in Syncs,
           NEW next \in Exchange, StepTo(d, s, next)
    PROVE  exchange' \in [Devices -> [Syncs -> Exchange]]
<1>1. exchange' = [exchange EXCEPT ![d] = [exchange[d] EXCEPT ![s] = next]]
  BY DEF StepTo
<1>2. [exchange[d] EXCEPT ![s] = next] \in [Syncs -> Exchange]
  OBVIOUS
<1> QED
  BY <1>1, <1>2

\* Every step of a device keeps the types.
LEMMA PageSteps ==
    ASSUME DevicesInv, NEW d \in Devices, Guess(d) \/ EndSession(d) \/ Discard(d)
    PROVE  DevicesInv'
<1>1. PICK record : Keep(d, record) /\ record \in DeviceRecord /\ clock' \in Time
  <2>1. CASE Guess(d)
    <3> DEFINE now == clock + 1
    <3>1. now \in Time /\ clock' = now
      BY <2>1, DevicesAssumption DEF Guess, DevicesInv, Time
    <3>2. page[d] \in DeviceRecord
      BY DEF DevicesInv
    <3> HIDE DEF now
    <3>3. [id |-> now, guesses |-> {now}, startedAt |-> now, done |-> FALSE] \in DeviceRecord
      BY <3>1 DEF DeviceRecord
    <3>4. [page[d] EXCEPT !.guesses = @ \cup {now}] \in DeviceRecord
      BY <3>1, <3>2 DEF DeviceRecord
    <3> QED
      BY <2>1, <3>1, <3>3, <3>4 DEF Guess, now
  <2>2. CASE EndSession(d)
    <3>1. [page[d] EXCEPT !.done = TRUE] \in DeviceRecord
      BY DEF DevicesInv, DeviceRecord
    <3> QED
      BY <2>2, <3>1 DEF EndSession, DevicesInv
  <2>3. CASE Discard(d)
    BY <2>3, CopiesAreStates DEF Discard, DevicesInv
  <2> QED
    BY <2>1, <2>2, <2>3
<1> QED
  BY <1>1 DEF DevicesInv, Keep
\* A page load reads the storage and begins its exchanges.
LEMMA MountStep ==
    ASSUME DevicesInv, NEW d \in Devices, Mount(d)
    PROVE  DevicesInv'
<1> DEFINE copy == ReadLocal(storage[d])
<1>1. copy \in DeviceState /\ storage[d] \in DeviceRecord /\ NeverPushed \in Moment
  BY CopiesAreStates DEF DevicesInv, Moment
<1>2. NextExchange(copy, NeverPushed) \in Exchange /\ NoExchange \in Exchange
  BY <1>1, CopiesAreStates
<1> DEFINE begun == [s \in Syncs |-> IF s = 1 \/ (s = 2 /\ copy # NoState)
                                     THEN NextExchange(copy, NeverPushed) ELSE NoExchange]
<1>3. /\ exchange' = [exchange EXCEPT ![d] = begun]
      /\ page' = [page EXCEPT ![d] = storage[d]] /\ local' = [local EXCEPT ![d] = copy]
      /\ pushedAt' = [pushedAt EXCEPT ![d] = NeverPushed]
      /\ mounts' = [mounts EXCEPT ![d] = @ + 1]
      /\ localRef' = [localRef EXCEPT ![d] = copy]
      /\ UNCHANGED <<storage, active, clock>>
  BY DEF Mount
<1>4. begun \in [Syncs -> Exchange]
  BY <1>2
<1> HIDE DEF copy, begun
<1>5. \A e \in Devices : local'[e].updatedAt >= localRef'[e].updatedAt
  <2>1. copy.updatedAt \in Int
    BY <1>1, DevicesAssumption DEF DeviceState, Time, NeverPushed
  <2>2. copy.updatedAt >= copy.updatedAt
    BY <2>1
  <2> QED
    BY <1>3, <2>2 DEF DevicesInv
<1>6. /\ local' \in [Devices -> DeviceState] /\ localRef' \in [Devices -> DeviceState]
      /\ page' \in [Devices -> DeviceRecord] /\ pushedAt' \in [Devices -> Moment]
      /\ mounts' \in [Devices -> Nat]
  BY <1>1, <1>3 DEF DevicesInv
<1> QED
  BY <1>3, <1>4, <1>5, <1>6 DEF DevicesInv

\* An answer is adopted where it is newer than the rendered copy.
LEMMA ResolveStep ==
    ASSUME DevicesInv, NEW d \in Devices, NEW s \in Syncs, Resolve(d, s)
    PROVE  DevicesInv'
<1> DEFINE remote == exchange[d][s].state
<1>1. /\ exchange \in [Devices -> [Syncs -> Exchange]] /\ remote \in DeviceState
      /\ storage[d] \in DeviceRecord /\ remote.updatedAt \in Moment
      /\ localRef[d].updatedAt \in Moment /\ localRef[d] \in DeviceState
  BY DEF DevicesInv, Exchange, DeviceState, Moment
<1>2. exchange' \in [Devices -> [Syncs -> Exchange]]
  BY <1>1, CopiesAreStates, StepToTyped DEF Resolve
<1>3. UNCHANGED <<page, localRef, active, clock, mounts>>
  BY DEF Resolve
<1>4. CASE RemoteWins(localRef[d], remote)
  <2>1. /\ local' = [local EXCEPT ![d] = remote]
        /\ storage' = [storage EXCEPT ![d] = Adopted(storage[d], remote)]
        /\ pushedAt' = [pushedAt EXCEPT ![d] = remote.updatedAt]
    BY <1>4 DEF Resolve
  <2>2. Adopted(storage[d], remote) \in DeviceRecord
    BY <1>1, CopiesAreStates
  <2> HIDE DEF remote
  <2>3. remote.updatedAt >= localRef[d].updatedAt
    <3>1. remote.updatedAt \in Int /\ remote.updatedAt >= -1 /\ NoState.updatedAt = -1
      BY <1>1, DevicesAssumption DEF Moment, Time, NeverPushed, NoState
    <3>2. localRef[d] = NoState \/ remote.updatedAt > localRef[d].updatedAt
      BY <1>4 DEF RemoteWins
    <3>3. localRef[d].updatedAt \in Int
      BY <1>1, DevicesAssumption DEF Moment, Time, NeverPushed
    <3> QED
      BY <3>1, <3>2, <3>3
  <2>4. \A e \in Devices : local'[e].updatedAt >= localRef'[e].updatedAt
    BY <1>3, <2>1, <2>3 DEF DevicesInv
  <2>5. /\ local' \in [Devices -> DeviceState] /\ storage' \in [Devices -> DeviceRecord]
        /\ pushedAt' \in [Devices -> Moment]
    BY <1>1, <2>1, <2>2 DEF DevicesInv, remote
  <2> QED
    BY <1>2, <1>3, <2>4, <2>5 DEF DevicesInv
<1>5. CASE ~RemoteWins(localRef[d], remote)
  <2>1. UNCHANGED <<local, storage, pushedAt>>
    BY <1>5 DEF Resolve
  <2> QED
    BY <1>2, <1>3, <2>1 DEF DevicesInv
<1> QED
  BY <1>4, <1>5

\* Every other step of an exchange moves that exchange alone.
LEMMA ExchangeSteps ==
    ASSUME DevicesInv, NEW d \in Devices, NEW s \in Syncs,
           \/ IntervalFires(d, s) \/ EffectRuns(d, s) \/ PushAnswered(d, s) \/ ActiveRead(d, s)
           \/ ExchangeFails(d, s)
    PROVE  DevicesInv'
<1>1. /\ exchange \in [Devices -> [Syncs -> Exchange]]
      /\ exchange[d][s].state \in DeviceState /\ localRef[d] \in DeviceState
      /\ pushedAt[d] \in Moment /\ active \in DeviceState
      /\ exchange[d][s].state.updatedAt \in Moment
  BY DEF DevicesInv, Exchange, DeviceState, Moment
<1>2. /\ [pc |-> "fetch", state |-> NoState] \in Exchange
      /\ [pc |-> "resolve", state |-> active] \in Exchange
      /\ NextExchange(localRef[d], pushedAt[d]) \in Exchange /\ NoExchange \in Exchange
  BY <1>1, CopiesAreStates DEF Exchange
<1>3. \E next \in Exchange : StepTo(d, s, next)
  BY <1>2 DEF IntervalFires, EffectRuns, PushAnswered, ActiveRead, ExchangeFails
<1>4. exchange' \in [Devices -> [Syncs -> Exchange]]
  BY <1>1, <1>3, StepToTyped
<1>5. UNCHANGED <<page, storage, local, localRef, clock, mounts>>
  BY DEF IntervalFires, EffectRuns, PushAnswered, ActiveRead, ExchangeFails
<1>6. active' \in DeviceState /\ pushedAt' \in [Devices -> Moment]
  <2>1. CASE IntervalFires(d, s) \/ EffectRuns(d, s) \/ ActiveRead(d, s)
    BY <2>1 DEF IntervalFires, EffectRuns, ActiveRead, DevicesInv
  <2>2. CASE PushAnswered(d, s)
    BY <1>1, <2>2 DEF PushAnswered, DevicesInv
  <2>3. CASE ExchangeFails(d, s)
    BY <1>1, <2>3 DEF ExchangeFails, DevicesInv
  <2> QED
    BY <2>1, <2>2, <2>3
<1> QED
  BY <1>4, <1>5, <1>6 DEF DevicesInv

\* A render shows what was set, and may have an effect to run.
LEMMA RenderStep ==
    ASSUME DevicesInv, NEW d \in Devices, Render(d)
    PROVE  DevicesInv'
<1> DEFINE free == {s \in Syncs : exchange[d][s] = NoExchange}
<1>1. /\ localRef' = [localRef EXCEPT ![d] = local[d]]
      /\ UNCHANGED <<page, storage, local, pushedAt, active, clock, mounts>>
  BY DEF Render
<1>2. exchange' \in [Devices -> [Syncs -> Exchange]]
  <2>1. exchange \in [Devices -> [Syncs -> Exchange]]
    BY DEF DevicesInv
  <2>2. CASE free = {}
    BY <2>1, <2>2 DEF Render
  <2>3. CASE free # {}
    <3>1. PICK s : s = CHOOSE t \in free : TRUE
      OBVIOUS
    <3>2. s \in Syncs
      BY <2>3, <3>1
    <3>3. [pc |-> "effect", state |-> NoState] \in Exchange
      BY CopiesAreStates DEF Exchange
    <3>4. StepTo(d, s, [pc |-> "effect", state |-> NoState])
      BY <2>3, <3>1 DEF Render
    <3> QED
      BY <2>1, <3>2, <3>3, <3>4, StepToTyped
  <2> QED
    BY <2>2, <2>3
<1>3. localRef' \in [Devices -> DeviceState]
  BY <1>1 DEF DevicesInv
<1>4. \A e \in Devices : local'[e].updatedAt >= localRef'[e].updatedAt
  <2>1. \A e \in Devices : local[e].updatedAt \in Int
    BY DevicesAssumption DEF DevicesInv, DeviceState, Time, NeverPushed
  <2>2. \A e \in Devices : local[e].updatedAt >= local[e].updatedAt
    BY <2>1
  <2> QED
    BY <1>1, <2>2 DEF DevicesInv
<1> QED
  BY <1>1, <1>2, <1>3, <1>4 DEF DevicesInv

\* The records, states and exchanges of all devices keep their types.
LEMMA DevicesStep ==
    ASSUME DevicesInv, [DevicesNext]_deviceVars
    PROVE  DevicesInv'
<1>1. CASE ActiveEnds
  BY <1>1, CopiesAreStates DEF ActiveEnds, DevicesInv
<1>2. CASE UNCHANGED deviceVars
  BY <1>2 DEF deviceVars, DevicesInv
<1> QED
  BY <1>1, <1>2, PageSteps, MountStep, ResolveStep, RenderStep, ExchangeSteps DEF DevicesNext

\* No step but a page load renders an older copy over a newer one.
LEMMA CopyStep ==
    ASSUME DevicesInv, [DevicesNext]_deviceVars, NEW d \in Devices, mounts'[d] = mounts[d]
    PROVE  localRef'[d].updatedAt >= localRef[d].updatedAt
<1>1. /\ \A e \in Devices : localRef[e].updatedAt \in Int
      /\ \A e \in Devices : local[e].updatedAt \in Int
  BY DevicesAssumption DEF DevicesInv, DeviceState, Time, NeverPushed
<1>2. CASE localRef'[d] = localRef[d]
  BY <1>1, <1>2
<1>3. ASSUME NEW e \in Devices, Render(e)
      PROVE  localRef'[d].updatedAt >= localRef[d].updatedAt
  <2>1. localRef'[d] = localRef[d] \/ localRef'[d] = local[d]
    BY <1>3 DEF Render, DevicesInv
  <2>2. local[d].updatedAt >= localRef[d].updatedAt
    BY DEF DevicesInv
  <2> QED
    BY <1>1, <2>1, <2>2
<1>4. ASSUME NEW e \in Devices, Mount(e)
      PROVE  localRef'[d] = localRef[d]
  <2>1. mounts[d] \in Nat /\ mounts' = [mounts EXCEPT ![e] = @ + 1]
    BY <1>4 DEF Mount, DevicesInv
  <2>2. e # d
    BY <2>1 DEF DevicesInv
  <2> QED
    BY <1>4, <2>2 DEF Mount, DevicesInv
<1> QED
  BY <1>2, <1>3, <1>4
     DEF DevicesNext, Guess, EndSession, Discard, Keep, IntervalFires, EffectRuns, PushAnswered,
         ActiveRead, Resolve, ExchangeFails, ActiveEnds, deviceVars

\* The invariant of the devices holds in every reachable state.
LEMMA DevicesInvHolds == DevicesSpec => []DevicesInv
<1>1. DevicesInit => DevicesInv
  <2> SUFFICES ASSUME DevicesInit PROVE DevicesInv
    OBVIOUS
  <2>1. 0 \in Time /\ NeverPushed \in Moment
    BY DevicesAssumption DEF Time, Moment
  <2>2. \A d \in Devices : local[d].updatedAt >= localRef[d].updatedAt
    BY DEF DevicesInit, NoState, NeverPushed
  <2>3. /\ local \in [Devices -> DeviceState] /\ localRef \in [Devices -> DeviceState]
        /\ page \in [Devices -> DeviceRecord] /\ storage \in [Devices -> DeviceRecord]
    BY CopiesAreStates DEF DevicesInit
  <2> QED
    BY <2>1, <2>2, <2>3, CopiesAreStates DEF DevicesInit, DevicesInv
<1>2. DevicesInv /\ [DevicesNext]_deviceVars => DevicesInv'
  BY DevicesStep
<1> QED
  BY <1>1, <1>2, PTL DEF DevicesSpec

\* Pages, storage, copies and exchanges of the devices keep their types: what
\* travels between them is a state some device was in, or none.
THEOREM DevicesTyped == DevicesSpec => []DevicesTypeOK
<1>1. DevicesInv => DevicesTypeOK
  <2> SUFFICES ASSUME DevicesInv, NEW d \in Devices, NEW s \in Syncs
               PROVE  /\ exchange[d][s].pc \in {"idle", "effect", "push", "fetch", "resolve"}
                      /\ exchange[d][s].state \in DeviceState
    BY DEF DevicesInv, DevicesTypeOK, Moment
  <2>1. exchange[d][s] \in Exchange
    BY DEF DevicesInv
  <2> QED
    BY <2>1 DEF Exchange
<1> QED
  BY <1>1, DevicesInvHolds, PTL

\* Between two page loads what a device renders never goes back to an older
\* copy, for any devices and exchanges and whatever answers arrive late: each is
\* compared with the copy of the last render (localRef of useSessionSync,
\* resolveConflict of session-sync.ts), so that of all that win before the next
\* render, in whatever order, each is newer than what they are rendered over.
THEOREM RenderedCopiesNeverGoBack == DevicesSpec => RenderedNeverGoesBack
<1>1. ASSUME DevicesInv, [DevicesNext]_deviceVars
      PROVE  [\A d \in Devices :
                 mounts'[d] = mounts[d] => localRef'[d].updatedAt >= localRef[d].updatedAt]_deviceVars
  BY <1>1, CopyStep
<1> QED
  BY <1>1, DevicesInvHolds, PTL DEF DevicesSpec, RenderedNeverGoesBack
-----------------------------------------------------------------------------
(* Offline play: finished sessions are delivered, and once *)

\* How often an id is in a queue: once at most.
Once(q, x) == \A i, j \in DOMAIN q : q[i] = x /\ q[j] = x => i = j

\* Dropping an id from the queue leaves all other ids, each as often as before.
LEMMA DropKeepsOthers ==
    ASSUME NEW S, NEW q \in Seq(S), NEW id
    PROVE  /\ Drop(q, id) \in Seq(S)
           /\ ToSet(Drop(q, id)) = ToSet(q) \ {id}
           /\ \A x : Once(q, x) => Once(Drop(q, id), x)
<1> DEFINE kept == {i \in DOMAIN q : q[i] # id}
           Rank(i) == Cardinality(UpTo(kept, i))
           Kth(k) == CHOOSE i \in kept : Rank(i) = k
           d == Drop(q, id)
<1>1. DOMAIN q = 1 .. Len(q) /\ Len(q) \in Nat /\ \A i \in DOMAIN q : q[i] \in S
  OBVIOUS
<1>2. kept \in SUBSET (1 .. Len(q))
  BY <1>1
<1>3. Cardinality(kept) \in Nat /\ d = [k \in 1 .. Cardinality(kept) |-> q[Kth(k)]]
  BY <1>1, <1>2, Ranks DEF Drop, UpTo
<1>4. \A k \in 1 .. Cardinality(kept) : Kth(k) \in kept /\ Rank(Kth(k)) = k
  <2>1. \A k \in 1 .. Cardinality(kept) : \E i \in kept : Rank(i) = k
    <3> HIDE DEF kept
    <3> QED
      BY <1>1, <1>2, Ranks
  <2> HIDE DEF kept, Rank
  <2> QED
    BY <2>1
<1>5. \A i \in kept : Rank(i) \in 1 .. Cardinality(kept) /\ Kth(Rank(i)) = i
  <2>1. /\ \A i \in kept : Rank(i) \in 1 .. Cardinality(kept)
        /\ \A i, j \in kept : Rank(i) = Rank(j) => i = j
    <3> HIDE DEF kept
    <3> QED
      BY <1>1, <1>2, Ranks
  <2> HIDE DEF kept, Rank, Kth
  <2> QED
    BY <1>4, <2>1
<1>6. \A i \in kept : i \in DOMAIN q /\ q[i] # id /\ q[i] \in S
  BY <1>1
<1>7. \A i \in DOMAIN q : q[i] # id => i \in kept
  OBVIOUS
<1> HIDE DEF kept, Rank, Kth, d
<1>8. d \in Seq(S) /\ DOMAIN d = 1 .. Cardinality(kept) /\ \A k \in DOMAIN d : d[k] = q[Kth(k)]
  BY <1>3, <1>4, <1>6
<1>9. ToSet(d) = ToSet(q) \ {id}
  <2>1. \A k \in DOMAIN d : d[k] \in ToSet(q) \ {id}
    BY <1>4, <1>6, <1>8 DEF ToSet
  <2>2. \A i \in DOMAIN q : q[i] # id => \E k \in DOMAIN d : d[k] = q[i]
    BY <1>5, <1>7, <1>8
  <2> QED
    BY <2>1, <2>2 DEF ToSet
<1>10. ASSUME NEW x, \A i, j \in DOMAIN q : q[i] = x /\ q[j] = x => i = j,
              NEW i \in DOMAIN d, NEW j \in DOMAIN d, d[i] = x, d[j] = x
       PROVE  i = j
  <2>1. Kth(i) = Kth(j)
    BY <1>4, <1>6, <1>8, <1>10
  <2> QED
    BY <1>4, <1>8, <2>1
<1> QED
  BY <1>8, <1>9, <1>10 DEF d, Once

Answering(f, s) == InFlight(f) /\ Current(f) = s /\ flush[f].stage = "answer"

FlushState == [todo : Seq(1 .. Games), stage : {"send", "answer"}]

SyncTypes ==
    /\ stored \in [id : 0 .. Games, done : BOOLEAN]
    /\ outbox \in Seq(1 .. Games)
    /\ flush \in [Flushes -> FlushState]
    /\ posted \in [1 .. Games -> Nat]
    /\ finished \subseteq 1 .. Games /\ repeated \subseteq 1 .. Games

\* Only finished sessions are on their way, and the one in play is not finished.
OnlyFinished ==
    /\ stored.id # 0 => (stored.done <=> stored.id \in finished)
    /\ ToSet(outbox) \subseteq finished
    /\ \A f \in Flushes : ToSet(flush[f].todo) \subseteq finished
    /\ \A s \in 1 .. Games : posted[s] > 0 => s \in finished

\* What the server's answer is awaited for, it has accepted.
AnswersPosted == \A f \in Flushes, s \in 1 .. Games : Answering(f, s) => posted[s] > 0

\* A session nothing was repeated for is in one place of the queue, in one
\* place of one flush, and not posted unless its answer is on the way.
OneWay(s) ==
    /\ posted[s] <= 1
    /\ Once(outbox, s)
    /\ \A f \in Flushes : Once(flush[f].todo, s)
    /\ \A f, g \in Flushes : s \in ToSet(flush[f].todo) /\ s \in ToSet(flush[g].todo) => f = g
    /\ \A f \in Flushes : s \in ToSet(flush[f].todo) => posted[s] = 0 \/ Answering(f, s)
    /\ s \in ToSet(outbox) => posted[s] = 0 \/ \E f \in Flushes : Answering(f, s)

SyncInv ==
    /\ SyncTypes /\ OnlyFinished /\ AnswersPosted /\ NothingLost
    /\ \A s \in 1 .. Games : s \notin repeated => OneWay(s)

\* The first of a queue, and the rest of it.
LEMMA HeadAndTail ==
    ASSUME NEW S, NEW q \in Seq(S), q # << >>
    PROVE  /\ Head(q) \in S /\ Head(q) \in ToSet(q)
           /\ Tail(q) \in Seq(S) /\ ToSet(Tail(q)) \subseteq ToSet(q)
           /\ \A x : Once(q, x) => Once(Tail(q), x)
           /\ Once(q, Head(q)) => Head(q) \notin ToSet(Tail(q))
<1>1. /\ Len(q) \in Nat /\ Len(q) >= 1 /\ DOMAIN q = 1 .. Len(q) /\ Head(q) = q[1]
      /\ \A i \in 1 .. Len(q) : q[i] \in S
  OBVIOUS
<1>2. /\ Tail(q) \in Seq(S) /\ DOMAIN Tail(q) = 1 .. (Len(q) - 1)
      /\ \A i \in DOMAIN Tail(q) : Tail(q)[i] = q[i + 1] /\ i + 1 \in DOMAIN q
  BY <1>1
<1>3. Head(q) \in S /\ Head(q) \in ToSet(q) /\ ToSet(Tail(q)) \subseteq ToSet(q)
  BY <1>1, <1>2 DEF ToSet
<1>4. ASSUME NEW x, Once(q, x), NEW i \in DOMAIN Tail(q), NEW j \in DOMAIN Tail(q),
             Tail(q)[i] = x, Tail(q)[j] = x
      PROVE  i = j
  <2>1. i + 1 = j + 1 /\ i \in Nat /\ j \in Nat
    BY <1>1, <1>2, <1>4 DEF Once
  <2> QED
    BY <2>1
<1>5. ASSUME Once(q, Head(q)), NEW i \in DOMAIN Tail(q), Tail(q)[i] = Head(q)
      PROVE  FALSE
  <2>1. i + 1 = 1 /\ i \in Nat /\ i >= 1
    BY <1>1, <1>2, <1>5 DEF Once
  <2> QED
    BY <2>1
<1> QED
  BY <1>2, <1>3, <1>4, <1>5 DEF Once, ToSet

HasAdded(r, q, y) == ToSet(r) = ToSet(q) \cup {y}

\* One more id at the end of a queue.
LEMMA OneMore ==
    ASSUME NEW S, NEW q \in Seq(S), NEW y \in S, NEW r, r = Append(q, y)
    PROVE  r \in Seq(S) /\ HasAdded(r, q, y)
<1>1. /\ Len(q) \in Nat /\ DOMAIN q = 1 .. Len(q)
      /\ r \in Seq(S) /\ DOMAIN r = 1 .. (Len(q) + 1)
      /\ \A i \in 1 .. Len(q) : r[i] = q[i]
      /\ r[Len(q) + 1] = y
  OBVIOUS
<1>2. \A i \in DOMAIN r : i \in DOMAIN q \/ i = Len(q) + 1
  BY <1>1
<1>3. Len(q) + 1 \in DOMAIN r /\ \A i \in DOMAIN q : i \in DOMAIN r
  BY <1>1
<1> QED
  BY <1>1, <1>2, <1>3 DEF ToSet, HasAdded

\* An id that was there once at most still is when another is put behind it.
LEMMA StillOnce ==
    ASSUME NEW S, NEW q \in Seq(S), NEW y \in S, NEW x, Once(q, x),
           x # y \/ y \notin ToSet(q)
    PROVE  Once(Append(q, y), x)
<1>1. /\ Len(q) \in Nat /\ DOMAIN q = 1 .. Len(q)
      /\ DOMAIN Append(q, y) = 1 .. (Len(q) + 1)
      /\ \A i \in 1 .. Len(q) : Append(q, y)[i] = q[i]
      /\ Append(q, y)[Len(q) + 1] = y
  OBVIOUS
<1>2. \A i \in DOMAIN Append(q, y) : i \in DOMAIN q \/ i = Len(q) + 1
  BY <1>1
<1>3. \A i \in DOMAIN q : q[i] \in ToSet(q)
  BY DEF ToSet
<1> QED
  BY <1>1, <1>2, <1>3 DEF Once

\* An id that is nowhere in a queue is there once at most.
LEMMA NowhereIsOnce ==
    ASSUME NEW q, NEW x, x \notin ToSet(q)
    PROVE  Once(q, x)
BY DEF Once, ToSet
\* What begins: one free flush takes the queue, if there is any.
LEMMA BegunIs ==
    ASSUME NEW fl \in [Flushes -> FlushState], NEW q \in Seq(1 .. Games), NEW next \in Begun(fl, q)
    PROVE  /\ next \in [Flushes -> FlushState]
           /\ \/ next = fl
              \/ \E f \in Flushes : /\ fl[f].todo = << >>
                                    /\ next = [fl EXCEPT ![f] = [todo |-> q, stage |-> "send"]]
<1>1. [todo |-> q, stage |-> "send"] \in FlushState
  BY DEF FlushState
<1> QED
  BY <1>1 DEF Begun

\* A flush that begins awaits no answer, and carries only what is in the queue.
LEMMA BeginAnswers ==
    ASSUME SyncTypes, NEW q \in Seq(1 .. Games), flush' \in Begun(flush, q)
    PROVE  /\ flush' \in [Flushes -> FlushState]
           /\ \A f \in Flushes, s \in 1 .. Games : Answering(f, s)' <=> Answering(f, s)
           /\ \A f \in Flushes : flush'[f].todo = flush[f].todo \/ flush'[f].todo = q
<1>1. flush \in [Flushes -> FlushState]
  BY DEF SyncTypes
<1>2. flush' \in [Flushes -> FlushState]
  BY <1>1, BegunIs
<1>3. CASE flush' = flush
  BY <1>1, <1>2, <1>3 DEF Answering, InFlight, Current
<1>4. ASSUME NEW f \in Flushes, flush[f].todo = << >>,
             flush' = [flush EXCEPT ![f] = [todo |-> q, stage |-> "send"]]
      PROVE  /\ \A g \in Flushes, s \in 1 .. Games : Answering(g, s)' <=> Answering(g, s)
             /\ \A g \in Flushes : flush'[g].todo = flush[g].todo \/ flush'[g].todo = q
  <2>1. /\ flush'[f].todo = q /\ flush'[f].stage = "send"
        /\ \A g \in Flushes : g # f => flush'[g] = flush[g]
    BY <1>1, <1>4
  <2>2. \A s \in 1 .. Games : ~Answering(f, s) /\ ~Answering(f, s)'
    BY <1>4, <2>1 DEF Answering, InFlight
  <2>3. \A g \in Flushes, s \in 1 .. Games : g # f => (Answering(g, s)' <=> Answering(g, s))
    BY <2>1 DEF Answering, InFlight, Current
  <2> QED
    BY <2>1, <2>2, <2>3
<1> QED
  BY <1>1, <1>2, <1>3, <1>4, BegunIs

\* What awaits an answer is in the flush that awaits it.
LEMMA AnsweringHas ==
    ASSUME SyncTypes, NEW f \in Flushes, NEW s \in 1 .. Games, Answering(f, s)
    PROVE  s \in ToSet(flush[f].todo)
<1>1. flush[f].todo \in Seq(1 .. Games) /\ flush[f].todo # << >> /\ Head(flush[f].todo) = s
  BY DEF SyncTypes, FlushState, Answering, InFlight, Current
<1> QED
  BY <1>1, HeadAndTail

\* A flush that begins with a queue in which s is once, unposted, and which no
\* other flush has taken s from, gives s no second way.
LEMMA BeginKeepsWay ==
    ASSUME SyncTypes, NEW q \in Seq(1 .. Games), flush' \in Begun(flush, q), UNCHANGED posted,
           outbox' = q, NEW s \in 1 .. Games, s \notin Shared(flush, q), Once(q, s), OneWay(s),
           s \in ToSet(q) => posted[s] = 0
    PROVE  OneWay(s)'
<1>1. flush \in [Flushes -> FlushState] /\ flush' \in [Flushes -> FlushState]
  BY BegunIs DEF SyncTypes
<1>2. \A f \in Flushes : Answering(f, s)' <=> Answering(f, s)
  BY BeginAnswers
<1>3. s \in ToSet(q) => \A f \in Flushes : s \notin ToSet(flush[f].todo)
  BY DEF Shared
<1>4. CASE flush' = flush
  BY <1>2, <1>4 DEF OneWay
<1>5. ASSUME NEW f \in Flushes, flush[f].todo = << >>,
             flush' = [flush EXCEPT ![f] = [todo |-> q, stage |-> "send"]]
      PROVE  OneWay(s)'
  <2>1. flush'[f].todo = q /\ \A g \in Flushes : g # f => flush'[g] = flush[g]
    BY <1>1, <1>5
  <2>2. \A g \in Flushes : Once(flush'[g].todo, s)
    BY <2>1 DEF OneWay
  <2>3. \A g, h \in Flushes :
           s \in ToSet(flush'[g].todo) /\ s \in ToSet(flush'[h].todo) => g = h
    BY <1>3, <2>1 DEF OneWay
  <2>4. \A g \in Flushes : s \in ToSet(flush'[g].todo) => posted[s] = 0 \/ Answering(g, s)'
    BY <1>2, <2>1 DEF OneWay
  <2>5. s \in ToSet(q) => posted[s] = 0
    OBVIOUS
  <2>6. posted[s] <= 1
    BY DEF OneWay
  <2> QED
    BY <2>2, <2>3, <2>4, <2>5, <2>6 DEF OneWay
<1> QED
  BY <1>1, <1>4, <1>5, BegunIs
\* The invariant from its parts: types and finished sessions, and the ways.
LEMMA SyncInvFrom ==
    ASSUME SyncTypes', OnlyFinished', AnswersPosted', NothingLost',
           \A s \in 1 .. Games : s \notin repeated' => OneWay(s)'
    PROVE  SyncInv'
BY DEF SyncInv

\* A session in the queue that no flush holds has not been posted.
LEMMA UnsharedUnposted ==
    ASSUME SyncTypes, NEW q \in Seq(1 .. Games), NEW s \in 1 .. Games, OneWay(s),
           s \notin Shared(flush, q), s \in ToSet(q), s \in ToSet(outbox)
    PROVE  posted[s] = 0
<1>1. \A f \in Flushes : s \notin ToSet(flush[f].todo)
  BY DEF Shared
<1> QED
  BY <1>1, AnsweringHas DEF OneWay

\* Completing a session enqueues it; nothing of it was anywhere before.
LEMMA CompleteStep ==
    ASSUME SyncInv, CompleteSession
    PROVE  SyncInv'
<1> DEFINE n == stored.id
<1>1. SyncTypes /\ OnlyFinished /\ AnswersPosted /\ NothingLost
      /\ \A s \in 1 .. Games : s \notin repeated => OneWay(s)
  BY DEF SyncInv
<1>2. /\ outbox \in Seq(1 .. Games) /\ flush \in [Flushes -> FlushState]
      /\ n \in 1 .. Games /\ n \notin finished /\ stored \in [id : 0 .. Games, done : BOOLEAN]
  BY <1>1, SyncAssumption DEF CompleteSession, HasSession, SyncTypes, OnlyFinished
<1>3. /\ posted[n] = 0 /\ n \notin ToSet(outbox)
      /\ \A f \in Flushes : n \notin ToSet(flush[f].todo)
  <2>1. posted[n] \in Nat
    BY <1>1, <1>2 DEF SyncTypes
  <2> QED
    BY <1>1, <1>2, <2>1 DEF OnlyFinished
<1>4. /\ stored' = [stored EXCEPT !.done = TRUE] /\ outbox' = Append(outbox, n)
      /\ finished' = finished \cup {n} /\ posted' = posted
      /\ flush' \in IF online THEN Begun(flush, outbox') ELSE {flush}
      /\ repeated' = IF online THEN repeated \cup Shared(flush, outbox') ELSE repeated
  BY DEF CompleteSession
<1>5. /\ outbox' \in Seq(1 .. Games) /\ ToSet(outbox') = ToSet(outbox) \cup {n}
      /\ \A s \in 1 .. Games : Once(outbox, s) => Once(outbox', s)
  <2>0. PICK r : r = Append(outbox, n)
    OBVIOUS
  <2>1. r \in Seq(1 .. Games) /\ ToSet(r) = ToSet(outbox) \cup {n}
    <3>1. r \in Seq(1 .. Games) /\ HasAdded(r, outbox, n)
      BY <1>2, <2>0, OneMore
    <3> QED
      BY <3>1 DEF HasAdded
  <2>2. \A s \in 1 .. Games : Once(outbox, s) => Once(Append(outbox, n), s)
    BY <1>2, <1>3, StillOnce
  <2> QED
    BY <1>4, <2>0, <2>1, <2>2
<1>6. /\ flush' \in [Flushes -> FlushState]
      /\ \A f \in Flushes, s \in 1 .. Games : Answering(f, s)' <=> Answering(f, s)
      /\ \A f \in Flushes : flush'[f].todo = flush[f].todo \/ flush'[f].todo = outbox'
  <2>1. CASE online
    BY <1>1, <1>4, <1>5, <2>1, BeginAnswers
  <2>2. CASE ~online
    <3>1. flush' = flush
      BY <1>4, <2>2
    <3> QED
      BY <1>2, <3>1 DEF Answering, InFlight, Current
  <2> QED
    BY <2>1, <2>2
<1>7. Shared(flush, outbox') \subseteq 1 .. Games
  BY <1>1, <1>2, <1>5 DEF Shared, OnlyFinished, SyncTypes
<1>8. SyncTypes'
  BY <1>1, <1>2, <1>4, <1>5, <1>6, <1>7 DEF SyncTypes
<1>9. OnlyFinished'
  <2>1. stored'.id = n /\ stored'.done
    BY <1>2, <1>4
  <2> QED
    BY <1>1, <1>2, <1>4, <1>5, <1>6, <2>1 DEF OnlyFinished
<1>10. AnswersPosted' /\ NothingLost'
  BY <1>1, <1>4, <1>5, <1>6 DEF AnswersPosted, NothingLost
<1>11. ASSUME NEW s \in 1 .. Games, s \notin repeated'
       PROVE  OneWay(s)'
  <2>1. OneWay(s) /\ Once(outbox', s)
    BY <1>1, <1>4, <1>5, <1>11 DEF OneWay
  <2>2. CASE online
    <3>1. s \notin Shared(flush, outbox') /\ flush' \in Begun(flush, outbox')
      BY <1>4, <1>11, <2>2
    <3>2. s \in ToSet(outbox') => posted[s] = 0
      BY <1>1, <1>3, <1>5, <2>1, <3>1, UnsharedUnposted
    <3>3. PICK q : q = outbox'
      OBVIOUS
    <3> QED
      BY <1>1, <1>4, <1>5, <2>1, <3>1, <3>2, <3>3, BeginKeepsWay
  <2>3. CASE ~online
    <3>1. flush' = flush
      BY <1>4, <2>3
    <3>2. s \in ToSet(outbox') => posted[s] = 0 \/ \E f \in Flushes : Answering(f, s)'
      BY <1>3, <1>5, <1>6, <2>1 DEF OneWay
    <3> QED
      BY <1>4, <1>6, <2>1, <3>1, <3>2 DEF OneWay
  <2> QED
    BY <2>2, <2>3
<1> QED
  BY <1>8, <1>9, <1>10, <1>11, SyncInvFrom

\* The online event begins a flush with the queue as it is.
LEMMA FlushPendingStep ==
    ASSUME SyncInv, FlushPending
    PROVE  SyncInv'
<1>1. SyncTypes /\ OnlyFinished /\ AnswersPosted /\ NothingLost
      /\ \A s \in 1 .. Games : s \notin repeated => OneWay(s)
  BY DEF SyncInv
<1>2. /\ UNCHANGED <<stored, outbox, posted, finished>>
      /\ flush' \in Begun(flush, outbox) /\ repeated' = repeated \cup Shared(flush, outbox)
  BY DEF FlushPending
<1>3. outbox \in Seq(1 .. Games) /\ Shared(flush, outbox) \subseteq 1 .. Games
  BY <1>1 DEF Shared, OnlyFinished, SyncTypes
<1>4. /\ flush' \in [Flushes -> FlushState]
      /\ \A f \in Flushes, s \in 1 .. Games : Answering(f, s)' <=> Answering(f, s)
      /\ \A f \in Flushes : flush'[f].todo = flush[f].todo \/ flush'[f].todo = outbox
  BY <1>1, <1>2, <1>3, BeginAnswers
<1>5. SyncTypes' /\ OnlyFinished' /\ AnswersPosted' /\ NothingLost'
  BY <1>1, <1>2, <1>3, <1>4 DEF SyncTypes, OnlyFinished, AnswersPosted, NothingLost
<1>6. ASSUME NEW s \in 1 .. Games, s \notin repeated'
      PROVE  OneWay(s)'
  <2>1. OneWay(s) /\ Once(outbox, s) /\ s \notin Shared(flush, outbox)
    BY <1>1, <1>2, <1>6 DEF OneWay
  <2>2. s \in ToSet(outbox) => posted[s] = 0
    BY <1>1, <1>3, <2>1, UnsharedUnposted
  <2> QED
    BY <1>1, <1>2, <1>3, <2>1, <2>2, BeginKeepsWay
<1> QED
  BY <1>5, <1>6, SyncInvFrom
\* After a page load nothing is awaited, and what the flushes carry is the
\* queue; only one of them does unless a completed session was found again.
LEMMA ReloadedFlushes ==
    ASSUME SyncTypes, Reload
    PROVE  /\ flush' \in [Flushes -> FlushState]
           /\ \A f \in Flushes : flush'[f].stage = "send"
           /\ \A f \in Flushes : flush'[f].todo \in {<< >>, outbox, outbox'}
           /\ \/ stored.id # 0 /\ stored.done
              \/ \A f, g \in Flushes : flush'[f].todo # << >> /\ flush'[g].todo # << >> => f = g
           /\ online \/ \A f \in Flushes : flush'[f].todo = << >>
<1> DEFINE again == stored.id # 0 /\ stored.done
           none == [f \in Flushes |-> NoFlush]
<1>1. none \in [Flushes -> FlushState]
  BY DEF NoFlush, FlushState
<1>2. outbox \in Seq(1 .. Games) /\ stored \in [id : 0 .. Games, done : BOOLEAN]
  BY DEF SyncTypes
<1>3. outbox' = IF again THEN Append(outbox, stored.id) ELSE outbox
  BY DEF Reload
<1>4. outbox' \in Seq(1 .. Games)
  <2>1. CASE again
    <3>1. stored.id \in 1 .. Games
      BY <1>2, <2>1, SyncAssumption
    <3> QED
      BY <1>2, <1>3, <2>1, <3>1, OneMore
  <2>2. CASE ~again
    BY <1>2, <1>3, <2>2
  <2> QED
    BY <2>1, <2>2
<1>5. /\ ~online => flush' = none
      /\ online /\ ~again => flush' \in Begun(none, outbox)
      /\ online /\ again => \E fl \in Begun(none, outbox) : flush' \in Begun(fl, outbox')
  BY DEF Reload
<1>6. \A f \in Flushes : none[f].todo = << >> /\ none[f].stage = "send"
  BY DEF NoFlush
<1>7. ASSUME NEW q \in Seq(1 .. Games), NEW fl \in Begun(none, q)
      PROVE  /\ fl \in [Flushes -> FlushState]
             /\ \A f \in Flushes : fl[f].stage = "send" /\ fl[f].todo \in {<< >>, q}
             /\ \A f, g \in Flushes : fl[f].todo # << >> /\ fl[g].todo # << >> => f = g
  <2> HIDE DEF none
  <2>1. fl \in [Flushes -> FlushState]
    BY <1>1, <1>7, BegunIs
  <2>2. CASE fl = none
    BY <1>6, <2>1, <2>2
  <2>3. ASSUME NEW f \in Flushes, fl = [none EXCEPT ![f] = [todo |-> q, stage |-> "send"]]
        PROVE  /\ \A g \in Flushes : fl[g].stage = "send" /\ fl[g].todo \in {<< >>, q}
               /\ \A h, g \in Flushes : fl[h].todo # << >> /\ fl[g].todo # << >> => h = g
    <3>1. /\ fl[f].todo = q /\ fl[f].stage = "send"
          /\ \A g \in Flushes : g # f => fl[g] = none[g]
      BY <1>1, <2>3
    <3> QED
      BY <1>6, <3>1
  <2> QED
    BY <1>1, <1>7, <2>1, <2>2, <2>3, BegunIs
<1>8. CASE ~online
  BY <1>1, <1>5, <1>6, <1>8
<1>9. CASE online /\ ~again
  <2> HIDE DEF none
  <2>1. flush' \in Begun(none, outbox)
    BY <1>5, <1>9
  <2> QED
    BY <1>2, <1>7, <1>9, <2>1
<1>10. CASE online /\ again
  <2> HIDE DEF none
  <2>1. PICK fl \in Begun(none, outbox) : flush' \in Begun(fl, outbox')
    BY <1>5, <1>10
  <2>2. fl \in [Flushes -> FlushState]
        /\ \A f \in Flushes : fl[f].stage = "send" /\ fl[f].todo \in {<< >>, outbox}
    BY <1>2, <1>7
  <2>3. PICK q : q = outbox'
    OBVIOUS
  <2>4. flush' \in [Flushes -> FlushState]
        /\ \/ flush' = fl
           \/ \E f \in Flushes : flush' = [fl EXCEPT ![f] = [todo |-> q, stage |-> "send"]]
    BY <1>4, <2>1, <2>2, <2>3, BegunIs
  <2>5. \A f \in Flushes : flush'[f].stage = "send" /\ flush'[f].todo \in {<< >>, outbox, q}
    BY <2>2, <2>4
  <2> QED
    BY <1>10, <2>3, <2>4, <2>5
<1> QED
  BY <1>8, <1>9, <1>10

\* What a page load may have repeated is told: answers on the way, and the
\* queue if a completed session is enqueued again behind a flush of it.
LEMMA ReloadRepeats ==
    ASSUME SyncTypes, Reload, NEW s \in 1 .. Games, s \notin repeated'
    PROVE  /\ s \notin repeated
           /\ \A f \in Flushes : ~Answering(f, s)
           /\ stored.id # 0 /\ stored.done => s # stored.id
           /\ stored.id # 0 /\ stored.done /\ online => s \notin ToSet(outbox)
<1> DEFINE again == stored.id # 0 /\ stored.done
           answers == {Current(f) : f \in {f \in Flushes : InFlight(f) /\ flush[f].stage = "answer"}}
<1>1. repeated' = repeated \cup answers \cup (IF again THEN {stored.id} ELSE {})
                           \cup (IF again /\ online THEN ToSet(outbox) ELSE {})
  BY DEF Reload
<1>2. \A f \in Flushes : Answering(f, s) => s \in answers
  BY DEF Answering
<1> HIDE DEF answers
<1>3. s \notin repeated /\ s \notin answers
  BY <1>1
<1>4. again => s # stored.id
  BY <1>1
<1>5. again /\ online => s \notin ToSet(outbox)
  BY <1>1
<1> QED
  BY <1>2, <1>3, <1>4, <1>5

\* A page load keeps the queue, and with it everything finished and unposted.
LEMMA ReloadStep ==
    ASSUME SyncInv, Reload
    PROVE  SyncInv'
<1> DEFINE again == stored.id # 0 /\ stored.done
<1>1. SyncTypes /\ OnlyFinished /\ AnswersPosted /\ NothingLost
      /\ \A s \in 1 .. Games : s \notin repeated => OneWay(s)
  BY DEF SyncInv
<1>2. /\ outbox \in Seq(1 .. Games) /\ stored \in [id : 0 .. Games, done : BOOLEAN]
      /\ flush \in [Flushes -> FlushState]
  BY <1>1 DEF SyncTypes
<1>3. /\ UNCHANGED <<stored, posted, finished>>
      /\ outbox' = IF again THEN Append(outbox, stored.id) ELSE outbox
  BY DEF Reload
<1>4. again => /\ stored.id \in 1 .. Games /\ stored.id \in finished
               /\ Append(outbox, stored.id) \in Seq(1 .. Games)
               /\ ToSet(Append(outbox, stored.id)) = ToSet(outbox) \cup {stored.id}
               /\ \A x : x # stored.id /\ Once(outbox, x) => Once(Append(outbox, stored.id), x)
  <2> SUFFICES ASSUME again
               PROVE  /\ stored.id \in 1 .. Games /\ stored.id \in finished
                      /\ Append(outbox, stored.id) \in Seq(1 .. Games)
                      /\ ToSet(Append(outbox, stored.id)) = ToSet(outbox) \cup {stored.id}
                      /\ \A x : x # stored.id /\ Once(outbox, x) => Once(Append(outbox, stored.id), x)
    OBVIOUS
  <2>1. stored.id \in 1 .. Games /\ stored.id \in finished
    BY <1>1, <1>2, SyncAssumption DEF OnlyFinished
  <2>2. PICK n \in 1 .. Games : n = stored.id
    BY <2>1
  <2>3. PICK r : r = Append(outbox, n)
    OBVIOUS
  <2>5. r \in Seq(1 .. Games) /\ ToSet(r) = ToSet(outbox) \cup {n}
    <3>1. r \in Seq(1 .. Games) /\ HasAdded(r, outbox, n)
      BY <1>2, <2>2, <2>3, OneMore
    <3> QED
      BY <3>1 DEF HasAdded
  <2>4. \A x : x # n /\ Once(outbox, x) => Once(Append(outbox, n), x)
    BY <1>2, StillOnce
  <2> QED
    BY <2>1, <2>2, <2>3, <2>4, <2>5
<1>5. /\ outbox' \in Seq(1 .. Games) /\ ToSet(outbox) \subseteq ToSet(outbox')
      /\ ToSet(outbox') \subseteq finished
  BY <1>1, <1>2, <1>3, <1>4 DEF OnlyFinished
<1>6. /\ flush' \in [Flushes -> FlushState]
      /\ \A f \in Flushes : flush'[f].stage = "send"
      /\ \A f \in Flushes : flush'[f].todo \in {<< >>, outbox, outbox'}
      /\ \/ again
         \/ \A f, g \in Flushes : flush'[f].todo # << >> /\ flush'[g].todo # << >> => f = g
      /\ online \/ \A f \in Flushes : flush'[f].todo = << >>
  BY <1>1, ReloadedFlushes
<1>7. ToSet(<< >>) = {} /\ \A x : Once(<< >>, x)
  BY DEF ToSet, Once
<1>8. repeated' \subseteq 1 .. Games
  <2>1. \A f \in Flushes : InFlight(f) => Current(f) \in 1 .. Games
    BY <1>2, HeadAndTail DEF InFlight, Current, FlushState
  <2>2. ToSet(outbox) \subseteq 1 .. Games /\ (again => stored.id \in 1 .. Games)
    BY <1>1, <1>4 DEF OnlyFinished, SyncTypes
  <2> QED
    BY <1>1, <2>1, <2>2 DEF Reload, SyncTypes
<1>9. SyncTypes'
  BY <1>1, <1>3, <1>5, <1>6, <1>8 DEF SyncTypes
<1>10. OnlyFinished'
  BY <1>1, <1>3, <1>5, <1>6, <1>7 DEF OnlyFinished
<1>11. AnswersPosted' /\ NothingLost'
  BY <1>1, <1>3, <1>5, <1>6 DEF AnswersPosted, Answering, NothingLost
<1>12. ASSUME NEW s \in 1 .. Games, s \notin repeated'
       PROVE  OneWay(s)'
  <2>1. /\ s \notin repeated /\ \A f \in Flushes : ~Answering(f, s)
        /\ (again => s # stored.id) /\ (again /\ online => s \notin ToSet(outbox))
    BY <1>1, <1>12, ReloadRepeats
  <2>2. OneWay(s) /\ posted[s] <= 1 /\ Once(outbox, s)
    BY <1>1, <2>1 DEF OneWay
  <2>3. Once(outbox', s) /\ (s \in ToSet(outbox') => s \in ToSet(outbox))
    BY <1>3, <1>4, <2>1, <2>2
  <2>4. s \in ToSet(outbox') => posted'[s] = 0
    BY <1>3, <2>1, <2>2, <2>3 DEF OneWay
  <2>5. \A f \in Flushes : Once(flush'[f].todo, s)
    BY <1>6, <1>7, <2>2, <2>3
  <2>6. \A f \in Flushes : s \in ToSet(flush'[f].todo) =>
           s \in ToSet(outbox') /\ flush'[f].todo # << >> /\ ~again
    BY <1>5, <1>6, <1>7, <2>1, <2>3
  <2>7. \A f, g \in Flushes :
           s \in ToSet(flush'[f].todo) /\ s \in ToSet(flush'[g].todo) => f = g
    BY <1>6, <2>6
  <2> QED
    BY <1>3, <2>2, <2>3, <2>4, <2>5, <2>6, <2>7 DEF OneWay
<1> QED
  BY <1>9, <1>10, <1>11, <1>12, SyncInvFrom
\* An accepted post of a session with one way is its first.
LEMMA AcceptStep ==
    ASSUME SyncInv, NEW f \in Flushes, Accept(f)
    PROVE  SyncInv'
<1>1. SyncTypes /\ OnlyFinished /\ AnswersPosted /\ NothingLost
      /\ \A s \in 1 .. Games : s \notin repeated => OneWay(s)
  BY DEF SyncInv
<1>2. /\ flush \in [Flushes -> FlushState] /\ posted \in [1 .. Games -> Nat]
      /\ flush[f].todo \in Seq(1 .. Games)
  BY <1>1 DEF SyncTypes, FlushState
<1>3. PICK c \in 1 .. Games : c = Current(f) /\ c \in ToSet(flush[f].todo)
  BY <1>2, HeadAndTail DEF Accept, InFlight, Current
<1>4. /\ InFlight(f) /\ flush[f].stage = "send"
      /\ posted' = [posted EXCEPT ![c] = @ + 1]
      /\ flush' = [flush EXCEPT ![f].stage = "answer"]
      /\ UNCHANGED <<stored, outbox, finished, repeated>>
  BY <1>3 DEF Accept
<1>5. /\ posted'[c] = posted[c] + 1 /\ posted[c] \in Nat
      /\ \A s \in 1 .. Games : s # c => posted'[s] = posted[s]
  BY <1>2, <1>4
<1>6. /\ flush'[f].todo = flush[f].todo /\ flush'[f].stage = "answer"
      /\ \A g \in Flushes : g # f => flush'[g] = flush[g]
      /\ \A g \in Flushes : flush'[g].todo = flush[g].todo
  BY <1>2, <1>4 DEF FlushState
<1>7. flush' \in [Flushes -> FlushState] /\ posted' \in [1 .. Games -> Nat]
  <2>1. [flush[f] EXCEPT !.stage = "answer"] \in FlushState /\ posted[c] + 1 \in Nat
    BY <1>2 DEF FlushState
  <2> QED
    BY <1>2, <1>4, <2>1
<1>8. /\ Answering(f, c)' /\ \A s \in 1 .. Games : s # c => ~Answering(f, s)'
      /\ \A g \in Flushes, s \in 1 .. Games : g # f => (Answering(g, s)' <=> Answering(g, s))
      /\ \A s \in 1 .. Games : ~Answering(f, s)
  BY <1>3, <1>4, <1>6 DEF Answering, InFlight, Current
<1>9. SyncTypes' /\ OnlyFinished'
  BY <1>1, <1>3, <1>4, <1>5, <1>6, <1>7 DEF SyncTypes, OnlyFinished
<1>10. AnswersPosted' /\ NothingLost'
  <2>1. \A s \in 1 .. Games : posted[s] > 0 => posted'[s] > 0
    BY <1>5
  <2>2. posted'[c] > 0
    BY <1>5
  <2>3. finished \subseteq 1 .. Games
    BY <1>1 DEF SyncTypes
  <2> QED
    BY <1>1, <1>4, <1>8, <2>1, <2>2, <2>3 DEF AnswersPosted, NothingLost
<1>11. ASSUME NEW s \in 1 .. Games, s \notin repeated'
       PROVE  OneWay(s)'
  <2>1. OneWay(s)
    BY <1>1, <1>4, <1>11
  <2>2. CASE s = c
    <3>1. posted[c] = 0
      BY <1>3, <1>8, <2>1, <2>2 DEF OneWay
    <3>2. \A g \in Flushes : s \in ToSet(flush'[g].todo) => g = f
      BY <1>3, <1>6, <2>1, <2>2 DEF OneWay
    <3> QED
      BY <1>4, <1>5, <1>6, <1>8, <2>1, <2>2, <3>1, <3>2 DEF OneWay
  <2>3. CASE s # c
    <3>1. \A g \in Flushes : Answering(g, s)' <=> Answering(g, s)
      BY <1>8, <2>3
    <3> QED
      BY <1>4, <1>5, <1>6, <2>1, <2>3, <3>1 DEF OneWay
  <2> QED
    BY <2>2, <2>3
<1> QED
  BY <1>9, <1>10, <1>11, SyncInvFrom

\* An answer takes the session that was accepted, and no other, off the queue.
LEMMA AnswerStep ==
    ASSUME SyncInv, NEW f \in Flushes, Answer(f)
    PROVE  SyncInv'
<1>1. SyncTypes /\ OnlyFinished /\ AnswersPosted /\ NothingLost
      /\ \A s \in 1 .. Games : s \notin repeated => OneWay(s)
  BY DEF SyncInv
<1>2. /\ flush \in [Flushes -> FlushState] /\ outbox \in Seq(1 .. Games)
      /\ flush[f].todo \in Seq(1 .. Games) /\ flush[f].todo # << >>
  BY <1>1 DEF SyncTypes, FlushState, Answer, InFlight
<1>3. PICK c \in 1 .. Games : c = Head(flush[f].todo) /\ c \in ToSet(flush[f].todo)
  BY <1>2, HeadAndTail
<1>4. PICK rest \in Seq(1 .. Games) :
         /\ rest = Tail(flush[f].todo) /\ ToSet(rest) \subseteq ToSet(flush[f].todo)
         /\ \A x : Once(flush[f].todo, x) => Once(rest, x)
         /\ Once(flush[f].todo, c) => c \notin ToSet(rest)
  BY <1>2, <1>3, HeadAndTail
<1>5. PICK left \in Seq(1 .. Games) :
         /\ left = Drop(outbox, c) /\ ToSet(left) = ToSet(outbox) \ {c}
         /\ \A x : Once(outbox, x) => Once(left, x)
  BY <1>2, DropKeepsOthers
<1>6. /\ flush[f].stage = "answer" /\ outbox' = left
      /\ flush' = [flush EXCEPT ![f] = [todo |-> rest, stage |-> "send"]]
      /\ UNCHANGED <<stored, posted, finished, repeated>>
  BY <1>3, <1>4, <1>5 DEF Answer, Remaining, Current
<1>7. /\ flush'[f] = [todo |-> rest, stage |-> "send"]
      /\ \A g \in Flushes : g # f => flush'[g] = flush[g]
      /\ flush' \in [Flushes -> FlushState]
  <2>1. [todo |-> rest, stage |-> "send"] \in FlushState
    BY DEF FlushState
  <2> QED
    BY <1>2, <1>6, <2>1
<1>8. /\ Answering(f, c)
      /\ \A s \in 1 .. Games : (Answering(f, s) => s = c) /\ ~Answering(f, s)'
      /\ \A g \in Flushes, s \in 1 .. Games : g # f => (Answering(g, s)' <=> Answering(g, s))
  BY <1>2, <1>3, <1>6, <1>7 DEF Answering, InFlight, Current
<1>9. /\ flush'[f].todo = rest
      /\ \A g \in Flushes : ToSet(flush'[g].todo) \subseteq ToSet(flush[g].todo)
      /\ \A g \in Flushes, s \in 1 .. Games : Once(flush[g].todo, s) => Once(flush'[g].todo, s)
  <2>1. flush'[f].todo = rest
    BY <1>7
  <2>2. ASSUME NEW g \in Flushes, NEW s \in 1 .. Games
        PROVE  Once(flush[g].todo, s) => Once(flush'[g].todo, s)
    <3>1. CASE g = f
      BY <1>4, <2>1, <3>1
    <3>2. CASE g # f
      <4>1. flush'[g] = flush[g]
        BY <1>7, <3>2
      <4> QED
        BY <4>1
    <3> QED
      BY <3>1, <3>2
  <2>3. ASSUME NEW g \in Flushes
        PROVE  ToSet(flush'[g].todo) \subseteq ToSet(flush[g].todo)
    <3>1. CASE g = f
      BY <1>4, <2>1, <3>1
    <3>2. CASE g # f
      <4>1. flush'[g] = flush[g]
        BY <1>7, <3>2
      <4> QED
        BY <4>1
    <3> QED
      BY <3>1, <3>2
  <2> QED
    BY <2>1, <2>2, <2>3
<1>10. posted[c] > 0
  BY <1>1, <1>8 DEF AnswersPosted
<1>11. SyncTypes' /\ OnlyFinished'
  BY <1>1, <1>5, <1>6, <1>7, <1>9 DEF SyncTypes, OnlyFinished
<1>12. AnswersPosted' /\ NothingLost'
  BY <1>1, <1>5, <1>6, <1>8, <1>10 DEF AnswersPosted, NothingLost
<1>13. ASSUME NEW s \in 1 .. Games, s \notin repeated'
       PROVE  OneWay(s)'
  <2>1. OneWay(s)
    BY <1>1, <1>6, <1>13
  <2>2. /\ posted'[s] <= 1 /\ Once(outbox', s) /\ \A g \in Flushes : Once(flush'[g].todo, s)
        /\ \A g, h \in Flushes :
              s \in ToSet(flush'[g].todo) /\ s \in ToSet(flush'[h].todo) => g = h
    BY <1>5, <1>6, <1>9, <2>1 DEF OneWay
  <2>3. CASE s = c
    <3>1. \A g \in Flushes : s \notin ToSet(flush'[g].todo)
      BY <1>3, <1>4, <1>9, <2>1, <2>3 DEF OneWay
    <3>2. s \notin ToSet(outbox')
      BY <1>5, <1>6, <2>3
    <3> QED
      BY <2>2, <3>1, <3>2 DEF OneWay
  <2>4. CASE s # c
    <3>1. \A g \in Flushes : Answering(g, s)' <=> Answering(g, s)
      BY <1>8, <2>4
    <3>2. s \in ToSet(outbox') => s \in ToSet(outbox)
      BY <1>5, <1>6
    <3> QED
      BY <1>6, <1>9, <2>1, <2>2, <3>1, <3>2 DEF OneWay
  <2> QED
    BY <2>3, <2>4
<1> QED
  BY <1>11, <1>12, <1>13, SyncInvFrom

\* A failing request ends the flush; if it had reached the server, it may be
\* repeated.
LEMMA FlushFailsStep ==
    ASSUME SyncInv, NEW f \in Flushes, FlushFails(f)
    PROVE  SyncInv'
<1>1. SyncTypes /\ OnlyFinished /\ AnswersPosted /\ NothingLost
      /\ \A s \in 1 .. Games : s \notin repeated => OneWay(s)
  BY DEF SyncInv
<1>2. /\ flush \in [Flushes -> FlushState]
      /\ flush[f].todo \in Seq(1 .. Games) /\ flush[f].todo # << >>
  BY <1>1 DEF SyncTypes, FlushState, FlushFails, InFlight
<1>3. PICK c \in 1 .. Games : c = Head(flush[f].todo)
  BY <1>2, HeadAndTail
<1>4. /\ flush' = [flush EXCEPT ![f] = NoFlush]
      /\ repeated' = IF flush[f].stage = "answer" THEN repeated \cup {c} ELSE repeated
      /\ UNCHANGED <<stored, outbox, posted, finished>>
  BY <1>3 DEF FlushFails, Current
<1>5. /\ flush'[f].todo = << >> /\ NoFlush \in FlushState
      /\ \A g \in Flushes : g # f => flush'[g] = flush[g]
  BY <1>2, <1>4 DEF NoFlush, FlushState
<1>6. flush' \in [Flushes -> FlushState] /\ ToSet(<< >>) = {} /\ \A x : Once(<< >>, x)
  BY <1>2, <1>4, <1>5 DEF ToSet, Once
<1>7. /\ \A s \in 1 .. Games : ~Answering(f, s)'
      /\ \A s \in 1 .. Games : Answering(f, s) => s \in repeated'
      /\ \A g \in Flushes, s \in 1 .. Games : g # f => (Answering(g, s)' <=> Answering(g, s))
  BY <1>3, <1>4, <1>5 DEF Answering, InFlight, Current
<1>8. SyncTypes' /\ OnlyFinished'
  BY <1>1, <1>4, <1>5, <1>6 DEF SyncTypes, OnlyFinished
<1>9. AnswersPosted' /\ NothingLost'
  BY <1>1, <1>4, <1>7 DEF AnswersPosted, NothingLost
<1>10. ASSUME NEW s \in 1 .. Games, s \notin repeated'
       PROVE  OneWay(s)'
  <2>1. OneWay(s) /\ ~Answering(f, s)
    BY <1>1, <1>4, <1>7, <1>10
  <2>2. \A g \in Flushes : Answering(g, s)' <=> Answering(g, s)
    BY <1>7, <2>1
  <2>3. /\ \A g \in Flushes : ToSet(flush'[g].todo) \subseteq ToSet(flush[g].todo)
        /\ \A g \in Flushes : Once(flush[g].todo, s) => Once(flush'[g].todo, s)
    BY <1>5, <1>6
  <2> QED
    BY <1>4, <2>1, <2>2, <2>3 DEF OneWay
<1> QED
  BY <1>8, <1>9, <1>10, SyncInvFrom

\* The steps that touch neither queue nor flushes.
LEMMA CalmSync ==
    ASSUME SyncInv, UNCHANGED <<outbox, flush, posted, finished, repeated>>,
           stored' \in [id : 0 .. Games, done : BOOLEAN],
           stored'.id # 0 => (stored'.done <=> stored'.id \in finished)
    PROVE  SyncInv'
BY DEF SyncInv, SyncTypes, OnlyFinished, AnswersPosted, NothingLost, OneWay, Answering, InFlight,
       Current

\* The invariant of offline play holds in every reachable state.
LEMMA SyncInvHolds == SyncSpec => []SyncInv
<1>1. SyncInit => SyncInv
  <2> SUFFICES ASSUME SyncInit PROVE SyncInv
    OBVIOUS
  <2>1. ToSet(<< >>) = {} /\ \A x : Once(<< >>, x)
    BY DEF ToSet, Once
  <2>2. stored \in [id : 0 .. Games, done : BOOLEAN] /\ stored.id = 0
    BY SyncAssumption DEF SyncInit, NoSession
  <2>3. flush \in [Flushes -> FlushState] /\ \A f \in Flushes : flush[f].todo = << >>
    BY DEF SyncInit, NoFlush, FlushState
  <2>4. outbox = << >> /\ posted = [s \in 1 .. Games |-> 0] /\ finished = {} /\ repeated = {}
    BY DEF SyncInit
  <2>5. SyncTypes /\ OnlyFinished /\ NothingLost
    BY <2>1, <2>2, <2>3, <2>4 DEF SyncTypes, OnlyFinished, NothingLost
  <2>6. AnswersPosted
    BY <2>3 DEF AnswersPosted, Answering, InFlight
  <2>7. \A s \in 1 .. Games : OneWay(s)
    BY <2>1, <2>3, <2>4 DEF OneWay
  <2> QED
    BY <2>5, <2>6, <2>7 DEF SyncInv
<1>2. SyncInv /\ [SyncNext]_syncVars => SyncInv'
  <2> SUFFICES ASSUME SyncInv, [SyncNext]_syncVars PROVE SyncInv'
    OBVIOUS
  <2>1. /\ stored \in [id : 0 .. Games, done : BOOLEAN] /\ finished \subseteq 1 .. Games
        /\ stored.id # 0 => (stored.done <=> stored.id \in finished)
    BY DEF SyncInv, SyncTypes, OnlyFinished
  <2>2. CASE OpenSession
    <3> DEFINE unplayed == 1 .. Games \ finished
    <3>0. PICK s \in 1 .. Games : s \notin finished
      <4>1. finished # 1 .. Games
        BY <2>2 DEF OpenSession
      <4> QED
        BY <2>1, <4>1
    <3>1. unplayed # {} /\ unplayed \in SUBSET Nat
      <4>1. s \in unplayed
        BY <3>0
      <4>2. \A k \in unplayed : k \in Nat
        OBVIOUS
      <4> QED
        BY <4>1, <4>2
    <3>2. \E n \in unplayed : \A k \in unplayed : n <= k
      BY <3>1, LeastOf
    <3>3. Min(unplayed) \in unplayed
      BY <3>2 DEF Min
    <3>4. stored' = [id |-> Min(unplayed), done |-> FALSE]
          /\ UNCHANGED <<outbox, flush, posted, finished, repeated>>
      BY <2>2 DEF OpenSession
    <3>5. PICK n : n = Min(unplayed)
      OBVIOUS
    <3>6. n \in 1 .. Games /\ n \notin finished /\ stored' = [id |-> n, done |-> FALSE]
      BY <3>3, <3>4, <3>5
    <3>7. /\ stored' \in [id : 0 .. Games, done : BOOLEAN]
          /\ ~stored'.done /\ stored'.id \notin finished
      BY <3>6
    <3> QED
      BY <3>4, <3>7, CalmSync
  <2>3. CASE ResetSession
    <3>1. stored' \in [id : 0 .. Games, done : BOOLEAN] /\ stored'.id = 0
          /\ UNCHANGED <<outbox, flush, posted, finished, repeated>>
      BY <2>3, SyncAssumption DEF ResetSession, NoSession
    <3> QED
      BY <3>1, CalmSync
  <2>4. CASE GoOffline \/ UNCHANGED syncVars
    BY <2>1, <2>4, CalmSync DEF GoOffline, syncVars
  <2> QED
    BY <2>2, <2>3, <2>4, CompleteStep, FlushPendingStep, ReloadStep, AcceptStep, AnswerStep,
       FlushFailsStep DEF SyncNext
<1> QED
  BY <1>1, <1>2, PTL DEF SyncSpec

\* A finished session waits in the queue until the server has accepted its
\* result, and a result is accepted twice only after a lost answer, a page load
\* or overlapping flushes, for any number of games and flushes
\* (flushPendingSyncs and the effects of useOfflineSession).
THEOREM ResultsAreDelivered == SyncSpec => []ResultsDelivered
<1>1. SyncInv => ResultsDelivered
  <2> SUFFICES ASSUME SyncInv PROVE ResultsDelivered
    OBVIOUS
  <2>1. ASSUME NEW s \in 1 .. Games, posted[s] > 1, s \notin repeated
        PROVE  FALSE
    <3>1. posted[s] <= 1 /\ posted[s] \in Nat
      BY <2>1 DEF SyncInv, OneWay, SyncTypes
    <3> QED
      BY <2>1, <3>1
  <2> QED
    BY <2>1 DEF SyncInv, ResultsDelivered, PostedOnce
<1> QED
  BY <1>1, SyncInvHolds, PTL

\* What the page keeps beside the queue, and the posts that are told apart.
SyncBounds ==
    /\ enqueued \in 0 .. Games /\ online \in BOOLEAN
    /\ \A s \in 1 .. Games : posted[s] <= MaxPosts

\* The session, the queue, the flushes and the posts keep their types: a flush
\* posts nothing but the ids of sessions.
THEOREM SyncTyped == SyncSpec => []SyncTypeOK
<1>1. SyncInit => SyncBounds
  BY SyncAssumption DEF SyncInit, SyncBounds
<1>2. SyncInv /\ SyncBounds /\ [SyncNext]_syncVars => SyncBounds'
  <2> SUFFICES ASSUME SyncInv, SyncBounds, [SyncNext]_syncVars PROVE SyncBounds'
    OBVIOUS
  <2>1. /\ stored.id \in 0 .. Games /\ posted \in [1 .. Games -> Nat]
        /\ \A f \in Flushes : flush[f].todo \in Seq(1 .. Games)
    BY DEF SyncInv, SyncTypes, FlushState
  <2>2. CASE OpenSession \/ ResetSession \/ GoOffline \/ FlushPending \/ UNCHANGED syncVars
    <3>1. posted' = posted /\ (enqueued' = enqueued \/ enqueued' = 0)
      BY <2>2 DEF OpenSession, ResetSession, GoOffline, FlushPending, syncVars
    <3>2. online' \in BOOLEAN
      BY <2>2 DEF OpenSession, ResetSession, GoOffline, FlushPending, syncVars, SyncBounds
    <3>3. enqueued' \in 0 .. Games
      BY <3>1, SyncAssumption DEF SyncBounds
    <3> QED
      BY <3>1, <3>2, <3>3 DEF SyncBounds
  <2>3. CASE CompleteSession \/ Reload
    BY <2>1, <2>3, SyncAssumption DEF CompleteSession, HasSession, Reload, SyncBounds
  <2>4. ASSUME NEW f \in Flushes, Accept(f)
        PROVE  SyncBounds'
    <3>1. /\ Current(f) \in 1 .. Games /\ posted[Current(f)] < MaxPosts
          /\ posted' = [posted EXCEPT ![Current(f)] = @ + 1] /\ UNCHANGED <<enqueued, online>>
      BY <2>1, <2>4, HeadAndTail DEF Accept, InFlight, Current
    <3>2. PICK c \in 1 .. Games : c = Current(f)
      BY <3>1
    <3> QED
      BY <2>1, <3>1, <3>2, SyncAssumption DEF SyncBounds
  <2>5. ASSUME NEW f \in Flushes, Answer(f) \/ FlushFails(f)
        PROVE  SyncBounds'
    BY <2>5 DEF Answer, FlushFails, SyncBounds
  <2> QED
    BY <2>2, <2>3, <2>4, <2>5 DEF SyncNext
<1>3. SyncInv /\ SyncBounds => SyncTypeOK
  <2> SUFFICES ASSUME SyncInv, SyncBounds PROVE SyncTypeOK
    OBVIOUS
  <2>1. SyncTypes
    BY DEF SyncInv
  <2>2. posted \in [1 .. Games -> 0 .. MaxPosts]
    BY <2>1, SyncAssumption DEF SyncTypes, SyncBounds
  <2>3. \A f \in Flushes : flush[f].todo \in Seq(1 .. Games) /\ flush[f].stage \in {"send", "answer"}
    BY <2>1 DEF SyncTypes, FlushState
  <2> QED
    BY <2>1, <2>2, <2>3 DEF SyncTypes, SyncBounds, SyncTypeOK
<1> QED
  BY <1>1, <1>2, <1>3, SyncInvHolds, PTL DEF SyncSpec
-----------------------------------------------------------------------------
(* The weekly digest: one mail, and a reason for each further one *)

RunPlace == [pc : {"idle", "look", "send", "sent", "failed"}, to : 0 .. Recipients]

DigestTypes ==
    /\ delivery \in [1 .. Recipients -> {"none", "sent", "failed"}]
    /\ run \in [Runs -> RunPlace]
    /\ mails \in [1 .. Recipients -> Nat] /\ mishaps \in [1 .. Recipients -> Nat]
    /\ \A r \in Runs : run[r].pc = "idle" <=> run[r].to = 0

\* Runs that have found no row for u and may still mail, or have not mailed.
Owes(place, u) == place.to = u /\ place.pc \in {"send", "failed"}
Owing(u) == {r \in Runs : Owes(run[r], u)}

Attended(u) == \E r \in Runs : run[r].to = u /\ run[r].pc \in {"send", "sent", "failed"}

\* Each run that passed the look-up has mailed or is owing; all but one of them
\* have a mishap to account for them, and the one as well when nothing shows
\* any more that it was there.
Paid(u) ==
    /\ mails[u] + Cardinality(Owing(u)) <= 1 + mishaps[u]
    /\ delivery[u] # "sent" /\ ~Attended(u) => mails[u] <= mishaps[u]

SentMeansMailed(u) ==
    /\ delivery[u] = "sent" => mails[u] > 0
    /\ \A r \in Runs : run[r].to = u /\ run[r].pc = "sent" => mails[u] > 0

DigestInv == DigestTypes /\ \A u \in 1 .. Recipients : Paid(u) /\ SentMeansMailed(u)

\* How many runs owe a mail after one of them has moved.
LEMMA OwingMoves ==
    ASSUME run \in [Runs -> RunPlace], NEW r \in Runs, NEW next \in RunPlace,
           run' = [run EXCEPT ![r] = next], NEW u
    PROVE  /\ Cardinality(Owing(u)) \in Nat /\ Cardinality(Owing(u)') \in Nat
           /\ (Owes(run[r], u) <=> Owes(next, u)) => Cardinality(Owing(u)') = Cardinality(Owing(u))
           /\ ~Owes(run[r], u) /\ Owes(next, u) => Cardinality(Owing(u)') = Cardinality(Owing(u)) + 1
           /\ Owes(run[r], u) /\ ~Owes(next, u) => Cardinality(Owing(u)') = Cardinality(Owing(u)) - 1
                                  /\ Cardinality(Owing(u)) > 0
<1>1. run'[r] = next /\ \A q \in Runs : q # r => run'[q] = run[q]
  OBVIOUS
<1>2. PICK O : O = Owing(u)
  OBVIOUS
<1>3. O \in SUBSET Runs /\ (r \in O <=> Owes(run[r], u))
  BY <1>2 DEF Owing
<1>4. IsFiniteSet(O)
  BY <1>3, DigestAssumption, FS_Subset
<1>5. Cardinality(O) \in Nat
  BY <1>4, FS_CardinalityType
<1>6. CASE Owes(next, u)
  <2>1. Owing(u)' = O \cup {r}
    BY <1>1, <1>2, <1>6 DEF Owing
  <2>2. /\ IsFiniteSet(O \cup {r})
        /\ r \in O => Cardinality(O \cup {r}) = Cardinality(O)
        /\ r \notin O => Cardinality(O \cup {r}) = Cardinality(O) + 1
    BY <1>4, FS_AddElement
  <2> QED
    BY <1>2, <1>3, <1>5, <1>6, <2>1, <2>2
<1>7. CASE ~Owes(next, u)
  <2>1. Owing(u)' = O \ {r}
    BY <1>1, <1>2, <1>7 DEF Owing
  <2>2. /\ IsFiniteSet(O \ {r})
        /\ r \in O => Cardinality(O \ {r}) = Cardinality(O) - 1
        /\ r \notin O => Cardinality(O \ {r}) = Cardinality(O)
    BY <1>4, FS_RemoveElement
  <2>3. Cardinality(O \ {r}) \in Nat
    BY <2>2, FS_CardinalityType
  <2> QED
    BY <1>2, <1>3, <1>5, <1>7, <2>1, <2>2, <2>3
<1> QED
  BY <1>6, <1>7

\* A run that moves is the business of the recipient it was at.
LEMMA OthersPaid ==
    ASSUME DigestInv, NEW r \in Runs, NEW next \in RunPlace, next.pc = "idle" <=> next.to = 0,
           run' = [run EXCEPT ![r] = next], NEW u \in 0 .. Recipients, u = run[r].to,
           next.to = u \/ next.pc \in {"idle", "look"},
           delivery' \in [1 .. Recipients -> {"none", "sent", "failed"}],
           mails' \in [1 .. Recipients -> Nat], mishaps' \in [1 .. Recipients -> Nat],
           \A v \in 1 .. Recipients : v # u =>
               delivery'[v] = delivery[v] /\ mails'[v] = mails[v] /\ mishaps'[v] = mishaps[v],
           u # 0 => Paid(u)' /\ SentMeansMailed(u)'
    PROVE  DigestInv'
<1>1. /\ DigestTypes /\ run \in [Runs -> RunPlace]
      /\ \A v \in 1 .. Recipients : Paid(v) /\ SentMeansMailed(v)
      /\ \A q \in Runs : run[q].pc = "idle" <=> run[q].to = 0
  BY DEF DigestInv, DigestTypes
<1>2. run'[r] = next /\ \A q \in Runs : q # r => run'[q] = run[q]
  BY <1>1
<1>3. DigestTypes'
  <2>1. run' \in [Runs -> RunPlace]
    BY <1>1
  <2>2. ASSUME NEW q \in Runs PROVE run'[q].pc = "idle" <=> run'[q].to = 0
    BY <1>1, <1>2
  <2> QED
    BY <2>1, <2>2 DEF DigestTypes, RunPlace
<1>4. ASSUME NEW v \in 1 .. Recipients, v # u
      PROVE  Paid(v)' /\ SentMeansMailed(v)'
  <2>1. Paid(v) /\ SentMeansMailed(v)
        /\ delivery'[v] = delivery[v] /\ mails'[v] = mails[v] /\ mishaps'[v] = mishaps[v]
    BY <1>1, <1>4
  <2>2. ~Owes(run[r], v) /\ ~Owes(next, v)
    BY <1>4 DEF Owes
  <2>3. Cardinality(Owing(v)') = Cardinality(Owing(v))
    BY <1>1, <2>2, OwingMoves
  <2>4. Attended(v)' <=> Attended(v)
    BY <1>2, <1>4 DEF Attended
  <2>5. \A q \in Runs : run'[q].to = v /\ run'[q].pc = "sent" => run[q].to = v /\ run[q].pc = "sent"
    BY <1>2, <1>4
  <2>6. Paid(v)'
    BY <2>1, <2>3, <2>4 DEF Paid
  <2>7. SentMeansMailed(v)'
    BY <2>1, <2>5 DEF SentMeansMailed
  <2> QED
    BY <2>6, <2>7
<1>5. \A v \in 1 .. Recipients : Paid(v)' /\ SentMeansMailed(v)'
  BY <1>4
<1> QED
  BY <1>3, <1>5 DEF DigestInv

\* The loop goes on to the start of the next recipient, or ends.
LEMMA NextPlace ==
    ASSUME DigestTypes, NEW r \in Runs, NextTo(r)
    PROVE  \E next \in RunPlace :
              /\ run' = [run EXCEPT ![r] = next] /\ next.pc \in {"idle", "look"}
              /\ next.pc = "idle" <=> next.to = 0
<1>1. run[r] \in RunPlace /\ run[r].to \in 0 .. Recipients
  BY DEF DigestTypes, RunPlace
<1>2. CASE run[r].to < Recipients
  <2> DEFINE next == [pc |-> "look", to |-> run[r].to + 1]
  <2>1. run' = [run EXCEPT ![r] = next]
    BY <1>2 DEF NextTo
  <2>2. next \in RunPlace /\ next.pc = "look" /\ next.to # 0
    BY <1>1, <1>2, DigestAssumption DEF RunPlace
  <2> QED
    BY <2>1, <2>2
<1>3. CASE ~(run[r].to < Recipients)
  <2>1. run' = [run EXCEPT ![r] = NoRun]
    BY <1>3 DEF NextTo
  <2>2. NoRun \in RunPlace /\ NoRun.pc = "idle" /\ NoRun.to = 0
    BY DigestAssumption DEF RunPlace, NoRun
  <2> QED
    BY <2>1, <2>2
<1> QED
  BY <1>2, <1>3
\* What every step starts from.
LEMMA AtRecipient ==
    ASSUME DigestInv, NEW r \in Runs, run[r].pc # "idle"
    PROVE  /\ run \in [Runs -> RunPlace] /\ run[r] \in RunPlace
           /\ mails \in [1 .. Recipients -> Nat] /\ mishaps \in [1 .. Recipients -> Nat]
           /\ delivery \in [1 .. Recipients -> {"none", "sent", "failed"}]
           /\ \E u \in 1 .. Recipients :
                 /\ u = run[r].to /\ u \in 0 .. Recipients /\ u # 0
                 /\ mails[u] \in Nat /\ mishaps[u] \in Nat
                 /\ Paid(u) /\ SentMeansMailed(u)
<1>1. run \in [Runs -> RunPlace] /\ (run[r].pc = "idle" <=> run[r].to = 0)
      /\ mails \in [1 .. Recipients -> Nat] /\ mishaps \in [1 .. Recipients -> Nat]
      /\ delivery \in [1 .. Recipients -> {"none", "sent", "failed"}]
      /\ \A v \in 1 .. Recipients : Paid(v) /\ SentMeansMailed(v)
  BY DEF DigestInv, DigestTypes
<1>2. run[r].to \in 0 .. Recipients /\ run[r].to # 0
  BY <1>1 DEF RunPlace
<1>3. PICK u : u = run[r].to
  OBVIOUS
<1>4. u \in 1 .. Recipients /\ u \in 0 .. Recipients /\ u # 0
  BY <1>2, <1>3, DigestAssumption
<1>5. mails[u] \in Nat /\ mishaps[u] \in Nat
  BY <1>1, <1>4
<1> QED
  BY <1>1, <1>3, <1>4, <1>5

\* A run that stays at its recipient.
LEMMA NextStage ==
    ASSUME run \in [Runs -> RunPlace], NEW r \in Runs, NEW pc \in {"send", "sent", "failed"},
           run' = [run EXCEPT ![r].pc = pc]
    PROVE  \E next \in RunPlace :
              next.pc = pc /\ next.to = run[r].to /\ run' = [run EXCEPT ![r] = next]
<1>1. PICK next : next = [pc |-> pc, to |-> run[r].to]
  OBVIOUS
<1>2. run[r] \in RunPlace
  OBVIOUS
<1>3. next \in RunPlace /\ next.pc = pc /\ next.to = run[r].to
  BY <1>1, <1>2 DEF RunPlace
<1>4. [run[r] EXCEPT !.pc = pc] = next
  BY <1>1, <1>2 DEF RunPlace
<1>5. run' = [run EXCEPT ![r] = [run[r] EXCEPT !.pc = pc]]
  OBVIOUS
<1> QED
  BY <1>3, <1>4, <1>5

\* Between two recipients nothing is owed.
LEMMA StartRunStep ==
    ASSUME DigestInv, NEW r \in Runs, StartRun(r)
    PROVE  DigestInv'
<1>1. DigestTypes /\ run[r].to = 0
  BY DEF DigestInv, DigestTypes, StartRun, AtStep
<1>2. PICK next \in RunPlace :
         /\ run' = [run EXCEPT ![r] = next] /\ next.pc \in {"idle", "look"}
         /\ next.pc = "idle" <=> next.to = 0
  BY <1>1, NextPlace DEF StartRun
<1>3. UNCHANGED <<delivery, mails, mishaps>>
  BY DEF StartRun
<1>4. /\ delivery' \in [1 .. Recipients -> {"none", "sent", "failed"}]
      /\ mails' \in [1 .. Recipients -> Nat] /\ mishaps' \in [1 .. Recipients -> Nat]
      /\ 0 \in 0 .. Recipients
  BY <1>1, <1>3, DigestAssumption DEF DigestTypes
<1> QED
  BY <1>1, <1>2, <1>3, <1>4, OthersPaid

\* The look-up: a run that goes on owes a mail, and pays for it with a mishap
\* unless it is alone with a recipient who has no row.
LEMMA LookUpStep ==
    ASSUME DigestInv, NEW r \in Runs, LookUp(r)
    PROVE  DigestInv'
<1>0. run[r].pc = "look" /\ UNCHANGED <<delivery, mails>>
  BY DEF LookUp, AtStep
<1>1. PICK u \in 1 .. Recipients :
         /\ u = run[r].to /\ u \in 0 .. Recipients /\ u # 0
         /\ mails[u] \in Nat /\ mishaps[u] \in Nat
         /\ Paid(u) /\ SentMeansMailed(u)
  BY <1>0, AtRecipient
<1>2. /\ run \in [Runs -> RunPlace] /\ run[r] \in RunPlace
      /\ mails \in [1 .. Recipients -> Nat] /\ mishaps \in [1 .. Recipients -> Nat]
      /\ delivery \in [1 .. Recipients -> {"none", "sent", "failed"}]
      /\ mails[u] \in Nat /\ mishaps[u] \in Nat /\ u \in 0 .. Recipients /\ u # 0
  BY <1>0, <1>1, AtRecipient
<1>3. Paid(u) /\ SentMeansMailed(u) /\ DigestTypes
  BY <1>1 DEF DigestInv
<1>4. ~Owes(run[r], u)
  BY <1>0 DEF Owes
<1>5. CASE delivery[u] = "sent"
  <2>1. NextTo(r) /\ UNCHANGED mishaps
    BY <1>1, <1>5 DEF LookUp, Delivered
  <2>2. PICK next \in RunPlace :
           /\ run' = [run EXCEPT ![r] = next] /\ next.pc \in {"idle", "look"}
           /\ next.pc = "idle" <=> next.to = 0
    BY <1>3, <2>1, NextPlace
  <2>3. Cardinality(Owing(u)') = Cardinality(Owing(u))
    <3>1. ~Owes(next, u)
      BY <2>2 DEF Owes
    <3> QED
      BY <1>2, <1>4, <2>2, <3>1, OwingMoves
  <2>4. Paid(u)'
    BY <1>0, <1>3, <1>5, <2>1, <2>3 DEF Paid
  <2>5. SentMeansMailed(u)'
    BY <1>0, <1>3, <1>5 DEF SentMeansMailed
  <2>6. /\ delivery' \in [1 .. Recipients -> {"none", "sent", "failed"}]
        /\ mails' \in [1 .. Recipients -> Nat] /\ mishaps' \in [1 .. Recipients -> Nat]
    BY <1>0, <1>2, <2>1
  <2> QED
    BY <1>0, <1>1, <1>2, <2>1, <2>2, <2>4, <2>5, <2>6, OthersPaid
<1>6. CASE delivery[u] # "sent"
  <2>1. run' = [run EXCEPT ![r].pc = "send"]
        /\ mishaps' = [mishaps EXCEPT ![u] = IF Shares(r) THEN @ + 1 ELSE @]
    BY <1>1, <1>6 DEF LookUp, Delivered
  <2>2. PICK next \in RunPlace :
           next.pc = "send" /\ next.to = u /\ run' = [run EXCEPT ![r] = next]
    BY <1>1, <1>2, <2>1, NextStage
  <2>3. run' = [run EXCEPT ![r] = next] /\ run'[r] = next
    BY <1>2, <2>2
  <2>4. /\ Cardinality(Owing(u)') = Cardinality(Owing(u)) + 1
        /\ Cardinality(Owing(u)) \in Nat
    <3>1. Owes(next, u)
      BY <2>2 DEF Owes
    <3> QED
      BY <1>2, <1>4, <2>3, <3>1, OwingMoves
  <2>5. Attended(u)'
    BY <2>2, <2>3 DEF Attended
  <2>6. mishaps' \in [1 .. Recipients -> Nat]
        /\ (Shares(r) => mishaps'[u] = mishaps[u] + 1) /\ (~Shares(r) => mishaps'[u] = mishaps[u])
        /\ \A v \in 1 .. Recipients : v # u => mishaps'[v] = mishaps[v]
    BY <1>2, <2>1
  <2>7. mails[u] + Cardinality(Owing(u)) <= mishaps'[u]
    <3>1. CASE Shares(r)
      BY <1>2, <1>3, <2>4, <2>6, <3>1 DEF Paid
    <3>2. CASE ~Shares(r)
      <4>1. ~Attended(u)
        BY <1>0, <1>1, <3>2 DEF Attended, Shares
      <4>2. mails[u] <= mishaps[u]
        BY <1>3, <1>6, <4>1 DEF Paid
      <4>3. Owing(u) = {}
        BY <4>1 DEF Attended, Owing, Owes
      <4>4. Cardinality(Owing(u)) = 0
        BY <4>3, FS_EmptySet
      <4> QED
        BY <1>2, <2>6, <3>2, <4>2, <4>4
    <3> QED
      BY <3>1, <3>2
  <2>8. Paid(u)'
    BY <1>0, <1>2, <2>4, <2>5, <2>6, <2>7 DEF Paid
  <2>9. SentMeansMailed(u)'
    <3>1. \A q \in Runs : run'[q].to = u /\ run'[q].pc = "sent" => run[q].to = u /\ run[q].pc = "sent"
      BY <1>2, <2>2, <2>3
    <3> QED
      BY <1>0, <1>3, <3>1 DEF SentMeansMailed
  <2>10. /\ delivery' \in [1 .. Recipients -> {"none", "sent", "failed"}]
         /\ mails' \in [1 .. Recipients -> Nat] /\ next.pc # "idle" /\ next.to = u
    BY <1>0, <1>2, <2>2
  <2>11. \A v \in 1 .. Recipients : v # u =>
            delivery'[v] = delivery[v] /\ mails'[v] = mails[v] /\ mishaps'[v] = mishaps[v]
    BY <1>0, <1>1, <1>2, <2>6
  <2>12. u = run[r].to /\ DigestInv /\ mishaps' \in [1 .. Recipients -> Nat]
         /\ run' = [run EXCEPT ![r] = next]
    BY <1>0, <1>1, <2>3, <2>6
  <2> QED
    BY <1>2, <2>8, <2>9, <2>10, <2>11, <2>12, OthersPaid
<1> QED
  BY <1>5, <1>6

\* A mail that is sent, or refused, leaves the run with its outcome to record.
LEMMA SendMailStep ==
    ASSUME DigestInv, NEW r \in Runs, SendMail(r)
    PROVE  DigestInv'
<1>0. run[r].pc = "send" /\ UNCHANGED <<delivery, mishaps>>
  BY DEF SendMail, AtStep
<1>1. PICK u \in 1 .. Recipients :
         /\ u = run[r].to /\ u \in 0 .. Recipients /\ u # 0
         /\ mails[u] \in Nat /\ mishaps[u] \in Nat
         /\ Paid(u) /\ SentMeansMailed(u)
  BY <1>0, AtRecipient
<1>2. /\ run \in [Runs -> RunPlace] /\ run[r] \in RunPlace
      /\ mails \in [1 .. Recipients -> Nat] /\ mishaps \in [1 .. Recipients -> Nat]
      /\ delivery \in [1 .. Recipients -> {"none", "sent", "failed"}]
      /\ mails[u] \in Nat /\ mishaps[u] \in Nat /\ u \in 0 .. Recipients /\ u # 0
  BY <1>0, <1>1, AtRecipient
<1>3. Paid(u) /\ SentMeansMailed(u)
  BY <1>1 DEF DigestInv
<1>4. Owes(run[r], u)
  BY <1>0, <1>1 DEF Owes
<1>5. PICK next \in RunPlace :
         /\ next.to = u /\ run' = [run EXCEPT ![r] = next]
         /\ \/ next.pc = "sent" /\ mails' = [mails EXCEPT ![u] = @ + 1]
            \/ next.pc = "failed" /\ UNCHANGED mails
  <2>1. CASE mails' = [mails EXCEPT ![u] = @ + 1] /\ run' = [run EXCEPT ![r].pc = "sent"]
    <3>1. \E next \in RunPlace :
             next.pc = "sent" /\ next.to = u /\ run' = [run EXCEPT ![r] = next]
      BY <1>1, <1>2, <2>1, NextStage
    <3> QED
      BY <2>1, <3>1
  <2>2. CASE UNCHANGED mails /\ run' = [run EXCEPT ![r].pc = "failed"]
    <3>1. \E next \in RunPlace :
             next.pc = "failed" /\ next.to = u /\ run' = [run EXCEPT ![r] = next]
      BY <1>1, <1>2, <2>2, NextStage
    <3> QED
      BY <2>2, <3>1
  <2> QED
    BY <1>1, <2>1, <2>2 DEF SendMail
<1>6. /\ run'[r] = next /\ mails' \in [1 .. Recipients -> Nat]
      /\ \A v \in 1 .. Recipients : v # u => mails'[v] = mails[v]
      /\ \A q \in Runs : q # r => run'[q] = run[q]
      /\ mails'[u] \in Nat /\ mails'[u] >= mails[u]
      /\ next.pc = "sent" => mails'[u] = mails[u] + 1
      /\ next.pc = "failed" => mails'[u] = mails[u]
  <2>1. run'[r] = next /\ \A q \in Runs : q # r => run'[q] = run[q]
    BY <1>2, <1>5
  <2>2. CASE next.pc = "sent"
    <3>1. mails' = [mails EXCEPT ![u] = @ + 1]
      BY <1>5, <2>2
    <3>2. /\ mails' \in [1 .. Recipients -> Nat] /\ mails'[u] = mails[u] + 1
          /\ \A v \in 1 .. Recipients : v # u => mails'[v] = mails[v]
      BY <1>2, <3>1
    <3> QED
      BY <1>2, <2>1, <2>2, <3>2
  <2>3. CASE next.pc = "failed"
    <3>1. mails' = mails
      BY <1>5, <2>3
    <3> QED
      BY <1>2, <2>1, <2>3, <3>1
  <2> QED
    BY <1>5, <2>2, <2>3
<1>7. Attended(u)'
  BY <1>5, <1>6 DEF Attended
<1>8. mails'[u] + Cardinality(Owing(u)') = mails[u] + Cardinality(Owing(u))
  <2>1. CASE next.pc = "sent"
    <3>1. ~Owes(next, u)
      BY <2>1 DEF Owes
    <3>2. /\ Cardinality(Owing(u)') = Cardinality(Owing(u)) - 1
          /\ Cardinality(Owing(u)) \in Nat
      BY <1>2, <1>4, <1>5, <3>1, OwingMoves
    <3> QED
      BY <1>2, <1>6, <2>1, <3>2
  <2>2. CASE next.pc = "failed"
    <3>1. Owes(next, u)
      BY <1>5, <2>2 DEF Owes
    <3>2. Cardinality(Owing(u)') = Cardinality(Owing(u))
      BY <1>2, <1>4, <1>5, <3>1, OwingMoves
    <3> QED
      BY <1>6, <2>2, <3>2
  <2> QED
    BY <1>5, <2>1, <2>2
<1>9. Paid(u)'
  BY <1>0, <1>3, <1>7, <1>8 DEF Paid
<1>10. SentMeansMailed(u)'
  <2>1. delivery[u] = "sent" => mails'[u] > 0
    BY <1>2, <1>3, <1>6 DEF SentMeansMailed
  <2>2. ASSUME NEW q \in Runs, run'[q].to = u, run'[q].pc = "sent"
        PROVE  mails'[u] > 0
    <3>1. CASE q = r
      BY <1>2, <1>6, <2>2, <3>1
    <3>2. CASE q # r
      <4>1. mails[u] > 0
        BY <1>3, <1>6, <2>2, <3>2 DEF SentMeansMailed
      <4> QED
        BY <1>2, <1>6, <4>1
    <3> QED
      BY <3>1, <3>2
  <2> QED
    BY <1>0, <2>1, <2>2 DEF SentMeansMailed
<1>11. /\ delivery' \in [1 .. Recipients -> {"none", "sent", "failed"}]
       /\ mishaps' \in [1 .. Recipients -> Nat] /\ next.pc # "idle"
  BY <1>0, <1>2, <1>5
<1> QED
  BY <1>0, <1>1, <1>2, <1>5, <1>6, <1>9, <1>10, <1>11, OthersPaid
\* The recorded outcome takes the place of the run that has it.
LEMMA RecordStep ==
    ASSUME DigestInv, NEW r \in Runs, Record(r)
    PROVE  DigestInv'
<1>0. run[r].pc \in {"sent", "failed"} /\ UNCHANGED <<mails, mishaps>> /\ NextTo(r)
  BY DEF Record
<1>1. PICK u \in 1 .. Recipients :
         /\ u = run[r].to /\ u \in 0 .. Recipients /\ u # 0
         /\ mails[u] \in Nat /\ mishaps[u] \in Nat
         /\ Paid(u) /\ SentMeansMailed(u)
  BY <1>0, AtRecipient
<1>2. /\ run \in [Runs -> RunPlace] /\ run[r] \in RunPlace /\ DigestTypes
      /\ mails \in [1 .. Recipients -> Nat] /\ mishaps \in [1 .. Recipients -> Nat]
      /\ delivery \in [1 .. Recipients -> {"none", "sent", "failed"}]
  BY <1>0, AtRecipient DEF DigestInv
<1>3. PICK next \in RunPlace :
         /\ run' = [run EXCEPT ![r] = next] /\ next.pc \in {"idle", "look"}
         /\ next.pc = "idle" <=> next.to = 0
  BY <1>0, <1>2, NextPlace
<1>4. delivery' = [delivery EXCEPT ![u] = run[r].pc]
  BY <1>1 DEF Record
<1>5. /\ delivery'[u] = run[r].pc
      /\ delivery' \in [1 .. Recipients -> {"none", "sent", "failed"}]
      /\ \A v \in 1 .. Recipients : v # u => delivery'[v] = delivery[v]
  BY <1>0, <1>2, <1>4
<1>6. ~Owes(next, u)
  BY <1>3 DEF Owes
<1>7. Paid(u)'
  <2>1. CASE run[r].pc = "sent"
    <3>1. ~Owes(run[r], u)
      BY <2>1 DEF Owes
    <3>2. Cardinality(Owing(u)') = Cardinality(Owing(u))
      BY <1>2, <1>3, <1>6, <3>1, OwingMoves
    <3> QED
      BY <1>0, <1>1, <1>5, <2>1, <3>2 DEF Paid
  <2>2. CASE run[r].pc = "failed"
    <3>1. Owes(run[r], u)
      BY <1>1, <2>2 DEF Owes
    <3>2. /\ Cardinality(Owing(u)') = Cardinality(Owing(u)) - 1
          /\ Cardinality(Owing(u)) \in Nat /\ Cardinality(Owing(u)) > 0
      BY <1>2, <1>3, <1>6, <3>1, OwingMoves
    <3>3. mails[u] + Cardinality(Owing(u)) <= 1 + mishaps[u]
      BY <1>1 DEF Paid
    <3>4. mails[u] + Cardinality(Owing(u)') <= 1 + mishaps[u] /\ mails[u] <= mishaps[u]
      BY <1>1, <3>2, <3>3
    <3> QED
      BY <1>0, <3>4 DEF Paid
  <2> QED
    BY <1>0, <2>1, <2>2
<1>8. SentMeansMailed(u)'
  <2>1. run[r].pc = "sent" => mails[u] > 0
    BY <1>1 DEF SentMeansMailed
  <2>2. \A q \in Runs : run'[q].to = u /\ run'[q].pc = "sent" => run[q].to = u /\ run[q].pc = "sent"
    BY <1>2, <1>3
  <2> QED
    BY <1>0, <1>1, <1>5, <2>1, <2>2 DEF SentMeansMailed
<1>9. /\ mails' \in [1 .. Recipients -> Nat] /\ mishaps' \in [1 .. Recipients -> Nat]
      /\ \A v \in 1 .. Recipients : v # u =>
             delivery'[v] = delivery[v] /\ mails'[v] = mails[v] /\ mishaps'[v] = mishaps[v]
  BY <1>0, <1>2, <1>5
<1> QED
  BY <1>1, <1>3, <1>5, <1>7, <1>8, <1>9, OthersPaid

\* The mishap of a run that leaves a sent mail unrecorded.
LEMMA MishapCounts ==
    ASSUME mishaps \in [1 .. Recipients -> Nat], NEW r \in Runs, NEW u \in 1 .. Recipients,
           Mishap(r, u)
    PROVE  /\ mishaps' \in [1 .. Recipients -> Nat]
           /\ \A v \in 1 .. Recipients : v # u => mishaps'[v] = mishaps[v]
           /\ run[r].pc = "sent" => mishaps'[u] = mishaps[u] + 1
           /\ run[r].pc # "sent" => mishaps'[u] = mishaps[u]
BY DEF Mishap, AtStep

\* A mail that was sent is about to be recorded as a failure.
LEMMA RecordFailsStep ==
    ASSUME DigestInv, NEW r \in Runs, RecordFails(r)
    PROVE  DigestInv'
<1>0. run[r].pc = "sent" /\ UNCHANGED <<delivery, mails>>
  BY DEF RecordFails, AtStep
<1>1. PICK u \in 1 .. Recipients :
         /\ u = run[r].to /\ u \in 0 .. Recipients /\ u # 0
         /\ mails[u] \in Nat /\ mishaps[u] \in Nat
         /\ Paid(u) /\ SentMeansMailed(u)
  BY <1>0, AtRecipient
<1>2. /\ run \in [Runs -> RunPlace] /\ run[r] \in RunPlace
      /\ mails \in [1 .. Recipients -> Nat] /\ mishaps \in [1 .. Recipients -> Nat]
      /\ delivery \in [1 .. Recipients -> {"none", "sent", "failed"}]
  BY <1>0, AtRecipient
<1>3. run' = [run EXCEPT ![r].pc = "failed"] /\ Mishap(r, u)
  BY <1>1 DEF RecordFails
<1>4. PICK next \in RunPlace :
         next.pc = "failed" /\ next.to = u /\ run' = [run EXCEPT ![r] = next]
  BY <1>1, <1>2, <1>3, NextStage
<1>5. /\ mishaps' \in [1 .. Recipients -> Nat] /\ mishaps'[u] = mishaps[u] + 1
      /\ \A v \in 1 .. Recipients : v # u => mishaps'[v] = mishaps[v]
  BY <1>0, <1>2, <1>3, MishapCounts
<1>6. /\ Cardinality(Owing(u)') = Cardinality(Owing(u)) + 1
      /\ Cardinality(Owing(u)) \in Nat
  <2>1. ~Owes(run[r], u) /\ Owes(next, u)
    BY <1>0, <1>4 DEF Owes
  <2> QED
    BY <1>2, <1>4, <2>1, OwingMoves
<1>7. Attended(u)'
  <2>1. run'[r] = next
    BY <1>2, <1>4
  <2> QED
    BY <1>4, <2>1 DEF Attended
<1>8. Paid(u)'
  <2>1. mails[u] + Cardinality(Owing(u)) <= 1 + mishaps[u]
    BY <1>1 DEF Paid
  <2>2. mails[u] + Cardinality(Owing(u)') <= 1 + mishaps'[u]
    BY <1>1, <1>5, <1>6, <2>1
  <2> QED
    BY <1>0, <1>7, <2>2 DEF Paid
<1>9. SentMeansMailed(u)'
  <2>1. \A q \in Runs : run'[q].to = u /\ run'[q].pc = "sent" => run[q].to = u /\ run[q].pc = "sent"
    BY <1>2, <1>4
  <2> QED
    BY <1>0, <1>1, <2>1 DEF SentMeansMailed
<1>10. /\ mails' \in [1 .. Recipients -> Nat] /\ next.pc # "idle"
       /\ delivery' \in [1 .. Recipients -> {"none", "sent", "failed"}]
  BY <1>0, <1>2, <1>4
<1> QED
  BY <1>0, <1>1, <1>4, <1>5, <1>8, <1>9, <1>10, OthersPaid

\* A run that dies: a mail it owed is owed no longer, one it had sent and not
\* recorded is a mishap.
LEMMA RunDiesStep ==
    ASSUME DigestInv, NEW r \in Runs, RunDies(r)
    PROVE  DigestInv'
<1>0. run[r].pc # "idle" /\ UNCHANGED <<delivery, mails>>
  BY DEF RunDies, AtStep
<1>1. PICK u \in 1 .. Recipients :
         /\ u = run[r].to /\ u \in 0 .. Recipients /\ u # 0
         /\ mails[u] \in Nat /\ mishaps[u] \in Nat
         /\ Paid(u) /\ SentMeansMailed(u)
  BY <1>0, AtRecipient
<1>2. /\ run \in [Runs -> RunPlace] /\ run[r] \in RunPlace
      /\ mails \in [1 .. Recipients -> Nat] /\ mishaps \in [1 .. Recipients -> Nat]
      /\ delivery \in [1 .. Recipients -> {"none", "sent", "failed"}]
  BY <1>0, AtRecipient
<1>3. run' = [run EXCEPT ![r] = NoRun] /\ Mishap(r, u)
  BY <1>1 DEF RunDies
<1>4. PICK next \in RunPlace :
         next.pc = "idle" /\ next.to = 0 /\ run' = [run EXCEPT ![r] = next]
  <2>1. NoRun \in RunPlace /\ NoRun.pc = "idle" /\ NoRun.to = 0
    BY DigestAssumption DEF RunPlace, NoRun
  <2> QED
    BY <1>3, <2>1
<1>5. /\ mishaps' \in [1 .. Recipients -> Nat]
      /\ \A v \in 1 .. Recipients : v # u => mishaps'[v] = mishaps[v]
      /\ run[r].pc = "sent" => mishaps'[u] = mishaps[u] + 1
      /\ run[r].pc # "sent" => mishaps'[u] = mishaps[u]
  BY <1>2, <1>3, MishapCounts
<1>6. ~Owes(next, u)
  BY <1>4 DEF Owes
<1>7. mails[u] + Cardinality(Owing(u)) <= 1 + mishaps[u] /\ Cardinality(Owing(u)) \in Nat
  BY <1>1, <1>2, <1>4, OwingMoves DEF Paid
<1>8. Paid(u)'
  <2>1. CASE run[r].pc \in {"send", "failed"}
    <3>1. Owes(run[r], u)
      BY <1>1, <2>1 DEF Owes
    <3>2. /\ Cardinality(Owing(u)') = Cardinality(Owing(u)) - 1 /\ Cardinality(Owing(u)) > 0
      BY <1>2, <1>4, <1>6, <3>1, OwingMoves
    <3>3. mishaps'[u] = mishaps[u]
      BY <1>5, <2>1
    <3>4. mails[u] + Cardinality(Owing(u)') <= 1 + mishaps[u] /\ mails[u] <= mishaps[u]
      BY <1>1, <1>7, <3>2
    <3> QED
      BY <1>0, <3>3, <3>4 DEF Paid
  <2>2. CASE run[r].pc \in {"look", "sent"}
    <3>1. ~Owes(run[r], u)
      BY <2>2 DEF Owes
    <3>2. Cardinality(Owing(u)') = Cardinality(Owing(u))
      BY <1>2, <1>4, <1>6, <3>1, OwingMoves
    <3>3. CASE run[r].pc = "sent"
      <4>1. /\ mails[u] + Cardinality(Owing(u)') <= 1 + mishaps'[u]
            /\ mails[u] <= mishaps'[u]
        BY <1>1, <1>5, <1>7, <3>2, <3>3
      <4> QED
        BY <1>0, <4>1 DEF Paid
    <3>4. CASE run[r].pc = "look"
      <4>1. mishaps'[u] = mishaps[u]
        BY <1>5, <3>4
      <4>2. Attended(u) => Attended(u)'
        <5>1. \A q \in Runs : q # r => run'[q] = run[q]
          BY <1>2, <1>4
        <5> QED
          BY <3>4, <5>1 DEF Attended
      <4> QED
        BY <1>0, <1>1, <3>2, <4>1, <4>2 DEF Paid
    <3> QED
      BY <2>2, <3>3, <3>4
  <2> QED
    BY <1>0, <1>2, <2>1, <2>2 DEF RunPlace
<1>9. SentMeansMailed(u)'
  <2>1. \A q \in Runs : run'[q].to = u /\ run'[q].pc = "sent" => run[q].to = u /\ run[q].pc = "sent"
    BY <1>1, <1>2, <1>4
  <2> QED
    BY <1>0, <1>1, <2>1 DEF SentMeansMailed
<1>10. /\ mails' \in [1 .. Recipients -> Nat]
       /\ delivery' \in [1 .. Recipients -> {"none", "sent", "failed"}]
  BY <1>0, <1>2
<1> QED
  BY <1>0, <1>1, <1>4, <1>5, <1>8, <1>9, <1>10, OthersPaid

\* The invariant of the digest holds in every reachable state.
LEMMA DigestInvHolds == DigestSpec => []DigestInv
<1>1. DigestInit => DigestInv
  <2> SUFFICES ASSUME DigestInit PROVE DigestInv
    OBVIOUS
  <2>1. NoRun \in RunPlace /\ NoRun.pc = "idle" /\ NoRun.to = 0
    BY DigestAssumption DEF RunPlace, NoRun
  <2>2. \A r \in Runs : run[r] = NoRun
    BY DEF DigestInit
  <2>3. DigestTypes
    BY <2>1, <2>2 DEF DigestInit, DigestTypes
  <2>4. ASSUME NEW u \in 1 .. Recipients PROVE Paid(u) /\ SentMeansMailed(u)
    <3>1. mails[u] = 0 /\ mishaps[u] = 0 /\ delivery[u] = "none"
      BY DEF DigestInit
    <3>2. Owing(u) = {}
      BY <2>1, <2>2 DEF Owing, Owes
    <3>3. Cardinality(Owing(u)) = 0
      BY <3>2, FS_EmptySet
    <3> QED
      BY <2>1, <2>2, <3>1, <3>3 DEF Paid, SentMeansMailed
  <2> QED
    BY <2>3, <2>4 DEF DigestInv
<1>2. DigestInv /\ [DigestNext]_digestVars => DigestInv'
  <2> SUFFICES ASSUME DigestInv, [DigestNext]_digestVars PROVE DigestInv'
    OBVIOUS
  <2>1. CASE UpdateTemplate \/ UNCHANGED digestVars
    <3>1. UNCHANGED <<delivery, run, mails, mishaps>>
      BY <2>1 DEF UpdateTemplate, digestVars
    <3> QED
      BY <3>1 DEF DigestInv, DigestTypes, Paid, Owing, Owes, Attended, SentMeansMailed
  <2> QED
    BY <2>1, StartRunStep, LookUpStep, SendMailStep, RecordStep, RecordFailsStep, RunDiesStep
       DEF DigestNext
<1> QED
  BY <1>1, <1>2, PTL DEF DigestSpec

\* A recipient gets one mail a week, and one more at most for each sent mail
\* that was not recorded and each look-up next to another run, for any number
\* of runs and recipients (sendWeeklyDigest and record).
THEOREM OneMailAWeek == DigestSpec => []MailedOnce
<1>1. DigestInv => MailedOnce
  <2> SUFFICES ASSUME DigestInv, NEW u \in 1 .. Recipients
               PROVE  mails[u] <= 1 + mishaps[u] /\ (delivery[u] = "sent" => mails[u] > 0)
    BY DEF MailedOnce
  <2>1. /\ Paid(u) /\ SentMeansMailed(u)
        /\ mails[u] \in Nat /\ mishaps[u] \in Nat
    BY DEF DigestInv, DigestTypes
  <2>2. Cardinality(Owing(u)) \in Nat
    <3>1. Owing(u) \in SUBSET Runs
      BY DEF Owing
    <3>2. IsFiniteSet(Owing(u))
      BY <3>1, DigestAssumption, FS_Subset
    <3> QED
      BY <3>2, FS_CardinalityType
  <2> QED
    BY <2>1, <2>2 DEF Paid, SentMeansMailed
<1> QED
  BY <1>1, DigestInvHolds, PTL

\* What the bounds say of the mails and mishaps.
DigestBounds ==
    /\ template \in {"default", "stored"}
    /\ \A u \in 1 .. Recipients : mails[u] <= MaxMails /\ mishaps[u] <= MaxMails

\* The rows, the runs and the counts of the digest keep their types.
THEOREM DigestTyped == DigestSpec => []DigestTypeOK
<1>1. DigestInit => DigestBounds
  BY DigestAssumption DEF DigestInit, DigestBounds
<1>2. DigestInv /\ DigestBounds /\ [DigestNext]_digestVars => DigestBounds'
  <2> SUFFICES ASSUME DigestInv, DigestBounds, [DigestNext]_digestVars PROVE DigestBounds'
    OBVIOUS
  <2>1. /\ mails \in [1 .. Recipients -> Nat] /\ mishaps \in [1 .. Recipients -> Nat]
        /\ run \in [Runs -> RunPlace] /\ \A r \in Runs : run[r].pc = "idle" <=> run[r].to = 0
    BY DEF DigestInv, DigestTypes
  <2>2. ASSUME NEW r \in Runs, ~AtStep(r, "idle")
        PROVE  run[r].to \in 1 .. Recipients
    <3>1. run[r] \in RunPlace
      BY <2>1
    <3> QED
      BY <2>1, <2>2, <3>1, DigestAssumption DEF RunPlace, AtStep
  <2>3. ASSUME NEW r \in Runs, NEW n \in Nat, run[r].to \in 1 .. Recipients, n <= MaxMails,
               \/ mishaps' = [mishaps EXCEPT ![run[r].to] = n] /\ mails' = mails
               \/ mails' = [mails EXCEPT ![run[r].to] = n] /\ mishaps' = mishaps,
               template' = template
        PROVE  DigestBounds'
    <3>1. PICK u \in 1 .. Recipients : u = run[r].to
      BY <2>3
    <3> QED
      BY <2>1, <2>3, <3>1 DEF DigestBounds
  <2>4. CASE UNCHANGED <<mails, mishaps>> /\ template' \in {template, "stored"}
    BY <2>4 DEF DigestBounds
  <2>5. ASSUME NEW r \in Runs, StartRun(r) \/ Record(r)
        PROVE  DigestBounds'
    BY <2>4, <2>5 DEF StartRun, Record
  <2>6. ASSUME NEW r \in Runs, LookUp(r)
        PROVE  DigestBounds'
    <3>1. run[r].to \in 1 .. Recipients /\ UNCHANGED <<mails, template>>
      BY <2>2, <2>6 DEF LookUp, AtStep
    <3>2. PICK u \in 1 .. Recipients : u = run[r].to
      BY <3>1
    <3>3. mishaps[u] \in Nat
      BY <2>1
    <3>4. CASE UNCHANGED mishaps
      BY <2>4, <3>1, <3>4
    <3>5. CASE ~UNCHANGED mishaps
      <4>1. /\ mishaps' = [mishaps EXCEPT ![u] = IF Shares(r) THEN @ + 1 ELSE @]
            /\ mishaps'[u] < MaxMails
        BY <2>6, <3>2, <3>5 DEF LookUp
      <4>2. PICK n \in Nat : n = IF Shares(r) THEN mishaps[u] + 1 ELSE mishaps[u]
        BY <3>3
      <4>3. mishaps' = [mishaps EXCEPT ![u] = n]
        BY <4>1, <4>2
      <4>4. mishaps'[u] = n
        BY <2>1, <4>3
      <4>5. n <= MaxMails
        BY <4>1, <4>4, DigestAssumption
      <4> QED
        BY <2>3, <3>1, <3>2, <4>3, <4>5
    <3> QED
      BY <3>4, <3>5
  <2>7. ASSUME NEW r \in Runs, SendMail(r)
        PROVE  DigestBounds'
    <3>1. run[r].to \in 1 .. Recipients /\ UNCHANGED <<mishaps, template>>
      BY <2>2, <2>7 DEF SendMail, AtStep
    <3>2. PICK u \in 1 .. Recipients : u = run[r].to
      BY <3>1
    <3>3. \/ mails' = mails
          \/ mails[u] < MaxMails /\ mails' = [mails EXCEPT ![u] = mails[u] + 1]
      BY <2>7, <3>2 DEF SendMail
    <3>4. mails[u] \in Nat
      BY <2>1
    <3>5. mails[u] < MaxMails => mails[u] + 1 \in Nat /\ mails[u] + 1 <= MaxMails
      BY <3>4, DigestAssumption
    <3> QED
      BY <2>3, <2>4, <3>1, <3>2, <3>3, <3>5
  <2>8. ASSUME NEW r \in Runs, RecordFails(r) \/ RunDies(r)
        PROVE  DigestBounds'
    <3>1. run[r].to \in 1 .. Recipients /\ UNCHANGED <<mails, template>>
      BY <2>2, <2>8 DEF RecordFails, RunDies, AtStep
    <3>2. PICK u \in 1 .. Recipients : u = run[r].to
      BY <3>1
    <3>3. mishaps[u] \in Nat /\ mishaps[u] < MaxMails
          /\ mishaps' = [mishaps EXCEPT ![u] = IF AtStep(r, "sent") THEN @ + 1 ELSE @]
      BY <2>1, <2>8, <3>2 DEF RecordFails, RunDies, Mishap
    <3>4. PICK n \in Nat : n = IF AtStep(r, "sent") THEN mishaps[u] + 1 ELSE mishaps[u]
      BY <3>3
    <3>5. mishaps' = [mishaps EXCEPT ![u] = n]
      BY <3>3, <3>4
    <3>6. n <= MaxMails
      BY <3>3, <3>4, DigestAssumption
    <3> QED
      BY <2>3, <3>1, <3>2, <3>5, <3>6
  <2> QED
    BY <2>4, <2>5, <2>6, <2>7, <2>8 DEF DigestNext, UpdateTemplate, digestVars
<1>3. DigestInv /\ DigestBounds => DigestTypeOK
  BY DigestAssumption DEF DigestInv, DigestTypes, RunPlace, DigestBounds, DigestTypeOK
<1> QED
  BY <1>1, <1>2, <1>3, DigestInvHolds, PTL DEF DigestSpec
-----------------------------------------------------------------------------
(* The word of the day: one per day, and a reason for each further one *)

WordRow == [daily : BOOLEAN, date : Nat]

RotationPlace == [pc : {"idle", "find", "flag", "reset", "free", "swap"}, day : Nat,
                  word : Nat, prev : Nat, all : BOOLEAN]

\* Rotations under way for day d, and the words of d that none of them frees.
RotationsOf(d) == {r \in Rotations : Running(r) /\ rotation[r].day = d}
Staying(d) == {i \in Dated(d) : \A r \in RotationsOf(d) : rotation[r].prev # i}

\* A rotation under way stands for the word it is going to date.
Counted(d) == Cardinality(Staying(d)) + Cardinality(RotationsOf(d)) <= 1 + overlaps[d]

Errand(r) ==
    /\ Running(r) => rotation[r].day \in 1 .. today /\ (~crossed => rotation[r].day = today)
    /\ rotation[r].pc \in {"flag", "swap"} => rotation[r].word \in DOMAIN words
    /\ rotation[r].pc \in {"find", "flag", "reset"} => rotation[r].prev = 0

TodayServed == today \in served /\ ~crossed => Dated(today) # {}

DailyTypes ==
    /\ words \in Seq(WordRow) /\ today \in 1 .. MaxDays
    /\ rotation \in [Rotations -> RotationPlace]
    /\ overlaps \in [1 .. MaxDays -> Nat] /\ served \subseteq 1 .. today

DailyInv ==
    /\ DailyTypes /\ TodayServed
    /\ \A r \in Rotations : Errand(r)
    /\ \A d \in 1 .. MaxDays : Counted(d)

\* What a statement may do to the rows: none comes or goes, and a row has
\* another date only if it is the one row dated, or was freed.
LEMMA EditedRows ==
    ASSUME NEW ws \in Seq(WordRow), NEW w, w = [i \in DOMAIN ws |-> w[i]],
           \A i \in DOMAIN ws : w[i] \in WordRow
    PROVE  w \in Seq(WordRow) /\ DOMAIN w = DOMAIN ws
<1>1. DOMAIN ws = 1 .. Len(ws) /\ Len(ws) \in Nat
  OBVIOUS
<1>2. w \in [1 .. Len(ws) -> WordRow]
  BY <1>1
<1> QED
  BY <1>1, <1>2

\* The rows w are those of ws, and only row i may have another date.
Redated(w, ws, i) ==
    /\ w \in Seq(WordRow) /\ DOMAIN w = DOMAIN ws
    /\ \A j \in DOMAIN ws : j # i => w[j].date = ws[j].date

\* One row is dated, the others keep their dates.
LEMMA Flagged ==
    ASSUME NEW ws \in Seq(WordRow), NEW i \in DOMAIN ws, NEW d \in Nat, NEW w, w = Flag(ws, i, d)
    PROVE  w[i].date = d /\ Redated(w, ws, i)
<1>1. \A j \in DOMAIN ws : ws[j] \in WordRow
  OBVIOUS
<1>2. [daily |-> TRUE, date |-> d] \in WordRow
  BY DEF WordRow
<1>3. w = [ws EXCEPT ![i] = [daily |-> TRUE, date |-> d]]
  BY DEF Flag
<1>4. w = [j \in DOMAIN ws |-> w[j]] /\ w[i] = [daily |-> TRUE, date |-> d]
      /\ \A j \in DOMAIN ws : j # i => w[j] = ws[j]
  BY <1>3
<1>5. w \in Seq(WordRow) /\ DOMAIN w = DOMAIN ws
  BY <1>1, <1>2, <1>4, EditedRows
<1>6. w[i].date = d
  BY <1>4
<1>7. Redated(w, ws, i)
  BY <1>4, <1>5 DEF Redated
<1> QED
  BY <1>5, <1>6, <1>7

\* Freeing a word takes the date off that word and off no other.
LEMMA Freed ==
    ASSUME NEW ws \in Seq(WordRow), NEW i \in Nat, NEW w, w = FreeWord(ws, i)
    PROVE  /\ Redated(w, ws, i)
           /\ i \in DOMAIN ws => w[i].date = 0
<1>0. DOMAIN ws = 1 .. Len(ws) /\ \A j \in DOMAIN ws : ws[j] \in WordRow
  OBVIOUS
<1>1. CASE i = 0
  <2>1. w = ws /\ i \notin DOMAIN ws
    BY <1>0, <1>1 DEF FreeWord
  <2> QED
    BY <2>1 DEF Redated
<1>2. CASE i # 0
  <2>1. w = [ws EXCEPT ![i] = Unused]
    BY <1>2 DEF FreeWord
  <2>2. w = [j \in DOMAIN ws |-> w[j]]
        /\ \A j \in DOMAIN ws : (j = i => w[j] = Unused) /\ (j # i => w[j] = ws[j])
    BY <2>1
  <2>3. Unused \in WordRow /\ Unused.date = 0
    BY DEF Unused, WordRow
  <2>4. \A j \in DOMAIN ws : w[j] \in WordRow
    BY <1>0, <2>2, <2>3
  <2>5. w \in Seq(WordRow) /\ DOMAIN w = DOMAIN ws
    BY <2>2, <2>4, EditedRows
  <2> QED
    BY <2>2, <2>3, <2>5 DEF Redated
<1> QED
  BY <1>1, <1>2

\* Resetting the pool changes no date.
LEMMA Cleared ==
    ASSUME NEW ws \in Seq(WordRow), NEW w, w = AllUnused(ws)
    PROVE  /\ w \in Seq(WordRow) /\ DOMAIN w = DOMAIN ws
           /\ \A j \in DOMAIN ws : w[j].date = ws[j].date
<1>1. w = [j \in DOMAIN ws |-> [ws[j] EXCEPT !.daily = FALSE]]
  BY DEF AllUnused
<1>2. ASSUME NEW j \in DOMAIN ws
      PROVE  w[j] \in WordRow /\ w[j].date = ws[j].date
  <2>1. ws[j] \in WordRow
    OBVIOUS
  <2> QED
    BY <1>1, <2>1 DEF WordRow
<1>3. w = [j \in DOMAIN ws |-> w[j]]
  BY <1>1
<1>4. w \in Seq(WordRow) /\ DOMAIN w = DOMAIN ws
  BY <1>2, <1>3, EditedRows
<1> QED
  BY <1>2, <1>4

\* The sets that Counted counts.
LEMMA CountedSets ==
    ASSUME words \in Seq(WordRow), NEW d
    PROVE  /\ IsFiniteSet(Dated(d)) /\ IsFiniteSet(Staying(d)) /\ IsFiniteSet(RotationsOf(d))
           /\ Cardinality(Dated(d)) \in Nat /\ Cardinality(Staying(d)) \in Nat
           /\ Cardinality(RotationsOf(d)) \in Nat
           /\ Dated(d) \in SUBSET DOMAIN words /\ Staying(d) \in SUBSET Dated(d)
           /\ RotationsOf(d) \in SUBSET Rotations
<1>1. DOMAIN words = 1 .. Len(words) /\ Len(words) \in Nat
  OBVIOUS
<1>2. IsFiniteSet(DOMAIN words)
  BY <1>1, FS_Interval
<1>3. Dated(d) \in SUBSET DOMAIN words /\ Staying(d) \in SUBSET Dated(d)
      /\ RotationsOf(d) \in SUBSET Rotations
  BY DEF Dated, Staying, RotationsOf
<1>4. IsFiniteSet(Dated(d)) /\ IsFiniteSet(RotationsOf(d))
  BY <1>2, <1>3, DailyAssumption, FS_Subset
<1>5. IsFiniteSet(Staying(d))
  BY <1>3, <1>4, FS_Subset
<1> QED
  BY <1>3, <1>4, <1>5, FS_CardinalityType

\* No more words and no more rotations: no more to count.
LEMMA FewerCounted ==
    ASSUME NEW S, IsFiniteSet(S), NEW T \in SUBSET S
    PROVE  IsFiniteSet(T) /\ Cardinality(T) \in Nat /\ Cardinality(S) \in Nat
           /\ Cardinality(T) <= Cardinality(S)
BY FS_Subset, FS_CardinalityType

\* The days of which a step moves no rotation.
LEMMA OtherDays ==
    ASSUME DailyInv, NEW r \in Rotations, NEW place, MoveTo(r, place), NEW d,
           Running(r) => rotation[r].day = d, place.pc # "idle" => place.day = d,
           words' \in Seq(WordRow), NEW e \in 1 .. MaxDays, e # d, Dated(e)' \subseteq Dated(e),
           overlaps'[e] = overlaps[e]
    PROVE  Counted(e)'
<1>1. words \in Seq(WordRow) /\ rotation \in [Rotations -> RotationPlace] /\ Counted(e)
      /\ overlaps[e] \in Nat
  BY DEF DailyInv, DailyTypes
<1>2. rotation'[r] = place /\ \A q \in Rotations : q # r => rotation'[q] = rotation[q]
  BY <1>1 DEF MoveTo
<1>3. r \notin RotationsOf(e) /\ r \notin RotationsOf(e)'
  BY <1>2 DEF RotationsOf, Running
<1>4. \A q \in Rotations : q # r => (q \in RotationsOf(e)' <=> q \in RotationsOf(e))
  BY <1>2 DEF RotationsOf, Running
<1>5. RotationsOf(e)' = RotationsOf(e)
  BY <1>3, <1>4 DEF RotationsOf
<1>6. \A q \in RotationsOf(e) : rotation'[q] = rotation[q]
  BY <1>2, <1>3 DEF RotationsOf
<1>7. Staying(e)' \in SUBSET Staying(e)
  BY <1>5, <1>6 DEF Staying
<1>8. PICK S, T, R : S = Staying(e) /\ T = Staying(e)' /\ R = RotationsOf(e)
  OBVIOUS
<1>9. Cardinality(T) \in Nat /\ Cardinality(S) \in Nat /\ Cardinality(T) <= Cardinality(S)
      /\ Cardinality(R) \in Nat
  BY <1>1, <1>7, <1>8, CountedSets, FewerCounted
<1>10. Cardinality(S) + Cardinality(R) <= 1 + overlaps[e]
  BY <1>1, <1>8 DEF Counted
<1>11. Cardinality(T) + Cardinality(R) <= 1 + overlaps[e]
  BY <1>1, <1>9, <1>10
<1> QED
  BY <1>5, <1>8, <1>11 DEF Counted
\* A rotation that ends leaves its day with at most the one word it stood for:
\* x, dated by it or no longer going to be freed by it.
LEMMA RotationEnds ==
    ASSUME DailyInv, NEW r \in Rotations, Running(r), MoveTo(r, NoRotation),
           NEW d \in 1 .. MaxDays, d = rotation[r].day,
           words' \in Seq(WordRow), DOMAIN words' = DOMAIN words,
           UNCHANGED <<today, overlaps, crossed>>, served' \subseteq served \cup {d},
           \A e \in 1 .. MaxDays : e # d => Dated(e)' \subseteq Dated(e),
           NEW x, \A i \in Dated(d)' : i # x => i \in Dated(d) /\ i # rotation[r].prev,
           TodayServed'
    PROVE  DailyInv'
<1>1. /\ words \in Seq(WordRow) /\ rotation \in [Rotations -> RotationPlace]
      /\ today \in 1 .. MaxDays /\ overlaps \in [1 .. MaxDays -> Nat] /\ served \subseteq 1 .. today
      /\ \A q \in Rotations : Errand(q)
      /\ \A e \in 1 .. MaxDays : Counted(e)
  BY DEF DailyInv, DailyTypes
<1>2. NoRotation \in RotationPlace /\ NoRotation.pc = "idle"
  BY DEF NoRotation, Place, RotationPlace
<1>3. /\ rotation' = [rotation EXCEPT ![r] = NoRotation] /\ rotation'[r] = NoRotation
      /\ \A q \in Rotations : q # r => rotation'[q] = rotation[q]
  BY <1>1 DEF MoveTo
<1>4. d \in 1 .. today
  BY <1>1 DEF Errand
<1>5. DailyTypes'
  BY <1>1, <1>2, <1>3, <1>4 DEF DailyTypes
<1>6. ASSUME NEW q \in Rotations PROVE Errand(q)'
  <2>1. CASE q = r
    BY <1>2, <1>3, <2>1 DEF Errand, Running
  <2>2. CASE q # r
    <3>1. Errand(q) /\ rotation'[q] = rotation[q]
      BY <1>1, <1>3, <2>2
    <3> QED
      BY <3>1 DEF Errand, Running
  <2> QED
    BY <2>1, <2>2
<1>7. \A e \in 1 .. MaxDays : e # d => Counted(e)'
  BY <1>2, OtherDays
<1>8. Counted(d)'
  <2>1. PICK S, T, R, Q : /\ S = Staying(d) /\ T = Staying(d)'
                          /\ R = RotationsOf(d) /\ Q = RotationsOf(d)'
    OBVIOUS
  <2>2. r \in R
    BY <2>1 DEF RotationsOf
  <2>3. Q = R \ {r}
    BY <1>2, <1>3, <2>1 DEF RotationsOf, Running
  <2>4. T \subseteq S \cup {x}
    <3>1. ASSUME NEW i \in T, i # x PROVE i \in S
      <4>1. i \in Dated(d) /\ i # rotation[r].prev
        BY <2>1, <3>1 DEF Staying
      <4>2. ASSUME NEW q \in R PROVE rotation[q].prev # i
        <5>1. CASE q = r
          BY <4>1, <5>1
        <5>2. CASE q # r
          <6>1. q \in Q /\ rotation'[q] = rotation[q]
            BY <1>3, <2>1, <2>3, <5>2 DEF RotationsOf
          <6>2. rotation'[q].prev # i
            BY <2>1, <6>1 DEF Staying
          <6> QED
            BY <6>1, <6>2
        <5> QED
          BY <5>1, <5>2
      <4> QED
        BY <2>1, <4>1, <4>2 DEF Staying
    <3> QED
      BY <3>1
  <2>5. IsFiniteSet(S) /\ IsFiniteSet(R) /\ Cardinality(S) \in Nat /\ Cardinality(R) \in Nat
    BY <1>1, <2>1, CountedSets
  <2>6. Cardinality(R \ {r}) = Cardinality(R) - 1
    BY <2>2, <2>5, FS_RemoveElement
  <2>7. IsFiniteSet(S \cup {x}) /\ Cardinality(S \cup {x}) <= Cardinality(S) + 1
    <3>1. /\ IsFiniteSet(S \cup {x})
          /\ x \in S => Cardinality(S \cup {x}) = Cardinality(S)
          /\ x \notin S => Cardinality(S \cup {x}) = Cardinality(S) + 1
      BY <2>5, FS_AddElement
    <3> QED
      BY <2>5, <3>1
  <2>8. Cardinality(T) \in Nat /\ Cardinality(S \cup {x}) \in Nat
        /\ Cardinality(T) <= Cardinality(S \cup {x})
    BY <2>4, <2>7, FewerCounted
  <2>9. overlaps[d] \in Nat /\ Cardinality(S) + Cardinality(R) <= 1 + overlaps[d]
    BY <1>1, <2>1 DEF Counted
  <2>10. Cardinality(T) + Cardinality(Q) <= 1 + overlaps[d]
    <3>1. Cardinality(Q) = Cardinality(R) - 1
      BY <2>3, <2>6
    <3>2. Cardinality(T) <= Cardinality(S) + 1
      BY <2>5, <2>7, <2>8
    <3>3. /\ Cardinality(S) \in Nat /\ Cardinality(R) \in Nat
          /\ Cardinality(T) \in Nat /\ overlaps[d] \in Nat
      BY <2>5, <2>8, <2>9
    <3>4. Cardinality(S) + Cardinality(R) <= 1 + overlaps[d]
      BY <2>9
    <3> QED
      BY <3>1, <3>2, <3>3, <3>4, SMTT(40)
  <2> QED
    BY <2>1, <2>10 DEF Counted
<1> QED
  BY <1>5, <1>6, <1>7, <1>8 DEF DailyInv

\* A rotation that goes on with its errand.
LEMMA RotationGoesOn ==
    ASSUME DailyInv, NEW r \in Rotations, Running(r), NEW place \in RotationPlace,
           MoveTo(r, place), place.day = rotation[r].day, place.prev = rotation[r].prev,
           place.pc # "idle",
           place.pc \in {"flag", "swap"} => place.word \in DOMAIN words,
           place.pc \in {"find", "flag", "reset"} => place.prev = 0,
           UNCHANGED <<words, today, overlaps, crossed, served>>
    PROVE  DailyInv'
<1>1. /\ words \in Seq(WordRow) /\ rotation \in [Rotations -> RotationPlace]
      /\ DailyTypes /\ TodayServed
      /\ \A q \in Rotations : Errand(q)
      /\ \A e \in 1 .. MaxDays : Counted(e)
  BY DEF DailyInv, DailyTypes
<1>2. /\ rotation' = [rotation EXCEPT ![r] = place] /\ rotation'[r] = place
      /\ \A q \in Rotations : q # r => rotation'[q] = rotation[q]
  BY <1>1 DEF MoveTo
<1>3. DailyTypes' /\ TodayServed'
  BY <1>1, <1>2 DEF DailyTypes, TodayServed, Dated
<1>4. ASSUME NEW q \in Rotations PROVE Errand(q)'
  <2>1. CASE q = r
    <3>1. Errand(r) /\ Running(r)
      BY <1>1
    <3> QED
      BY <1>2, <2>1, <3>1 DEF Errand, Running
  <2>2. CASE q # r
    <3>1. Errand(q) /\ rotation'[q] = rotation[q]
      BY <1>1, <1>2, <2>2
    <3> QED
      BY <3>1 DEF Errand, Running
  <2> QED
    BY <2>1, <2>2
<1>5. \A q \in Rotations : /\ (rotation'[q].pc # "idle") <=> (rotation[q].pc # "idle")
                           /\ rotation'[q].day = rotation[q].day
                           /\ rotation'[q].prev = rotation[q].prev
  BY <1>2 DEF Running
<1>6. ASSUME NEW e \in 1 .. MaxDays PROVE Counted(e)'
  <2>1. RotationsOf(e)' = RotationsOf(e)
    BY <1>5 DEF RotationsOf, Running
  <2>2. Staying(e)' = Staying(e)
    <3>1. \A q \in RotationsOf(e) : rotation'[q].prev = rotation[q].prev
      BY <1>5 DEF RotationsOf
    <3> QED
      BY <2>1, <3>1 DEF Staying, Dated
  <2> QED
    BY <1>1, <2>1, <2>2 DEF Counted
<1> QED
  BY <1>3, <1>4, <1>6 DEF DailyInv

\* A rotation that begins: alone on a day without a word or about to free it,
\* or next to another one of the day, which is an overlap.
LEMMA RotationBegins ==
    ASSUME DailyInv, NEW r \in Rotations, NEW place \in RotationPlace, Begin(r, place),
           place.pc \in {"find", "free"}, place.day = today,
           place.pc = "find" => place.prev = 0,
           Dated(today) = {} \/ place.prev \in Dated(today),
           UNCHANGED <<words, today, crossed, served>>
    PROVE  DailyInv'
<1>1. /\ words \in Seq(WordRow) /\ rotation \in [Rotations -> RotationPlace]
      /\ DailyTypes /\ TodayServed
      /\ today \in 1 .. MaxDays /\ overlaps \in [1 .. MaxDays -> Nat]
      /\ \A q \in Rotations : Errand(q)
      /\ \A e \in 1 .. MaxDays : Counted(e)
  BY DEF DailyInv, DailyTypes
<1>2. PICK d \in 1 .. MaxDays : d = today /\ d \in 1 .. today
  BY <1>1
<1>3. ~Running(r) /\ MoveTo(r, place)
  BY DEF Begin
<1>4. /\ rotation' = [rotation EXCEPT ![r] = place] /\ rotation'[r] = place
      /\ \A q \in Rotations : q # r => rotation'[q] = rotation[q]
  BY <1>1, <1>3 DEF MoveTo
<1>5. PICK n \in {0, 1} :
         /\ n = 0 => RotationsOf(d) = {}
         /\ overlaps' = [overlaps EXCEPT ![d] = overlaps[d] + n]
  <2>1. CASE \E q \in Rotations \ {r} : Running(q) /\ rotation[q].day = today
    <3>1. overlaps' = [overlaps EXCEPT ![d] = overlaps[d] + 1]
      BY <1>2, <2>1 DEF Begin
    <3> QED
      BY <3>1
  <2>2. CASE ~\E q \in Rotations \ {r} : Running(q) /\ rotation[q].day = today
    <3>1. overlaps' = [overlaps EXCEPT ![d] = overlaps[d]]
      BY <1>2, <2>2 DEF Begin
    <3>2. RotationsOf(d) = {}
      BY <1>2, <1>3, <2>2 DEF RotationsOf
    <3>3. overlaps[d] + 0 = overlaps[d]
      BY <1>1
    <3> QED
      BY <3>1, <3>2, <3>3
  <2> QED
    BY <2>1, <2>2
<1>6. /\ overlaps' \in [1 .. MaxDays -> Nat] /\ overlaps'[d] = overlaps[d] + n
      /\ \A e \in 1 .. MaxDays : e # d => overlaps'[e] = overlaps[e]
  <2>1. overlaps[d] \in Nat /\ overlaps[d] + n \in Nat
    BY <1>1
  <2> QED
    BY <1>1, <1>5, <2>1
<1>7. DailyTypes' /\ TodayServed'
  BY <1>1, <1>4, <1>6 DEF DailyTypes, TodayServed, Dated
<1>8. ASSUME NEW q \in Rotations PROVE Errand(q)'
  <2>1. CASE q = r
    BY <1>2, <1>4, <2>1 DEF Errand, Running
  <2>2. CASE q # r
    <3>1. Errand(q) /\ rotation'[q] = rotation[q]
      BY <1>1, <1>4, <2>2
    <3> QED
      BY <3>1 DEF Errand, Running
  <2> QED
    BY <2>1, <2>2
<1>9. ASSUME NEW e \in 1 .. MaxDays, e # d PROVE Counted(e)'
  <2>1. Dated(e)' \subseteq Dated(e) /\ words' \in Seq(WordRow)
    BY <1>1 DEF Dated
  <2> QED
    BY <1>2, <1>3, <1>6, <1>9, <2>1, OtherDays
<1>10. Counted(d)'
  <2>1. PICK S, T, R, Q : /\ S = Staying(d) /\ T = Staying(d)'
                          /\ R = RotationsOf(d) /\ Q = RotationsOf(d)'
    OBVIOUS
  <2>2. r \notin R
    BY <1>3, <2>1 DEF RotationsOf
  <2>3. Q = R \cup {r}
    BY <1>2, <1>4, <2>1 DEF RotationsOf, Running
  <2>4. /\ IsFiniteSet(S) /\ IsFiniteSet(R) /\ Cardinality(S) \in Nat /\ Cardinality(R) \in Nat
        /\ overlaps[d] \in Nat
        /\ Cardinality(S) + Cardinality(R) <= 1 + overlaps[d]
    BY <1>1, <2>1, CountedSets DEF Counted
  <2>5. Cardinality(Q) = Cardinality(R) + 1
    BY <2>2, <2>3, <2>4, FS_AddElement
  <2>6. \A i \in T : i \in Dated(d) /\ i # place.prev /\ i \in S
    <3>1. ASSUME NEW i \in T PROVE i \in Dated(d) /\ i # place.prev
      BY <1>4, <2>1, <2>3, <3>1 DEF Staying, Dated
    <3>2. ASSUME NEW i \in T, NEW q \in R PROVE rotation[q].prev # i
      <4>1. q \in Q /\ rotation'[q] = rotation[q]
        BY <1>4, <2>1, <2>2, <2>3, <3>2 DEF RotationsOf
      <4>2. rotation'[q].prev # i
        BY <2>1, <4>1 DEF Staying
      <4> QED
        BY <4>1, <4>2
    <3> QED
      BY <2>1, <3>1, <3>2 DEF Staying
  <2>7. Cardinality(T) + Cardinality(Q) <= 1 + overlaps'[d]
    <3>1. CASE n = 1
      <4>1. T \subseteq S
        BY <2>6
      <4>2. Cardinality(T) \in Nat /\ Cardinality(T) <= Cardinality(S)
        BY <2>4, <4>1, FewerCounted
      <4> QED
        BY <1>6, <2>4, <2>5, <3>1, <4>2
    <3>2. CASE n = 0
      <4>1. R = {} /\ Cardinality(R) = 0
        BY <1>5, <2>1, <3>2, FS_EmptySet
      <4>2. CASE Dated(d) = {}
        <5>1. T = {}
          BY <2>6, <4>2
        <5>2. Cardinality(T) = 0
          BY <5>1, FS_EmptySet
        <5> QED
          BY <1>6, <2>4, <2>5, <3>2, <4>1, <5>2
      <4>3. CASE Dated(d) # {}
        <5>1. place.prev \in S
          BY <1>2, <2>1, <4>1, <4>3 DEF Staying
        <5>2. T \subseteq S \ {place.prev}
          BY <2>6
        <5>3. IsFiniteSet(S \ {place.prev})
              /\ Cardinality(S \ {place.prev}) = Cardinality(S) - 1
          BY <2>4, <5>1, FS_RemoveElement
        <5>4. Cardinality(T) \in Nat /\ Cardinality(T) <= Cardinality(S \ {place.prev})
          BY <5>2, <5>3, FewerCounted
        <5> QED
          BY <1>6, <2>4, <2>5, <3>2, <4>1, <5>3, <5>4
      <4> QED
        BY <4>2, <4>3
    <3> QED
      BY <3>1, <3>2
  <2> QED
    BY <2>1, <2>7 DEF Counted
<1> QED
  BY <1>7, <1>8, <1>9, <1>10 DEF DailyInv
\* What a rotation under way knows.
LEMMA OnErrand ==
    ASSUME DailyInv, NEW r \in Rotations, Running(r)
    PROVE  /\ DailyTypes /\ TodayServed /\ Errand(r)
           /\ words \in Seq(WordRow) /\ rotation \in [Rotations -> RotationPlace]
           /\ rotation[r] \in RotationPlace /\ rotation[r].prev \in Nat
           /\ \A i \in DOMAIN words : i \in Nat \ {0}
           /\ \E d \in 1 .. MaxDays :
                 d = rotation[r].day /\ d \in 1 .. today /\ d \in Nat /\ (~crossed => d = today)
<1>1. /\ DailyTypes /\ TodayServed /\ Errand(r)
      /\ words \in Seq(WordRow) /\ rotation \in [Rotations -> RotationPlace]
      /\ today \in 1 .. MaxDays
  BY DEF DailyInv, DailyTypes
<1>2. rotation[r] \in RotationPlace
  BY <1>1
<1>3. rotation[r].prev \in Nat
  BY <1>2 DEF RotationPlace
<1>4. \A i \in DOMAIN words : i \in Nat \ {0}
  <2>1. DOMAIN words = 1 .. Len(words) /\ Len(words) \in Nat
    BY <1>1
  <2> QED
    BY <2>1
<1>5. PICK d : d = rotation[r].day
  OBVIOUS
<1>6. d \in 1 .. today /\ (~crossed => d = today)
  BY <1>1, <1>5 DEF Errand
<1>7. d \in 1 .. MaxDays /\ d \in Nat
  BY <1>1, <1>6, DailyAssumption
<1> QED
  BY <1>1, <1>2, <1>3, <1>4, <1>5, <1>6, <1>7

\* The rotation at startup, by cron or as a retry dates a word.
LEMMA FlagWordStep ==
    ASSUME DailyInv, NEW r \in Rotations, FlagWord(r)
    PROVE  DailyInv'
<1>0. Running(r) /\ rotation[r].pc = "flag" /\ MoveTo(r, NoRotation)
      /\ UNCHANGED <<today, overlaps, crossed>>
  BY DEF FlagWord, Running
<1>1. PICK d \in 1 .. MaxDays :
         d = rotation[r].day /\ d \in 1 .. today /\ d \in Nat /\ (~crossed => d = today)
  BY <1>0, OnErrand
<1>2. PICK i \in DOMAIN words : i = rotation[r].word
  BY <1>0, OnErrand DEF Errand
<1>3. words' = Flag(words, i, d) /\ served' = served \cup {d} /\ words \in Seq(WordRow)
      /\ rotation[r].prev = 0 /\ \A j \in DOMAIN words : j \in Nat \ {0}
  BY <1>0, <1>1, <1>2, OnErrand DEF FlagWord, Errand
<1>4. /\ words' \in Seq(WordRow) /\ DOMAIN words' = DOMAIN words
      /\ words'[i].date = d
      /\ \A j \in DOMAIN words : j # i => words'[j].date = words[j].date
  <2>1. words'[i].date = d /\ Redated(words', words, i)
    BY <1>1, <1>3, Flagged
  <2> QED
    BY <2>1 DEF Redated
<1>5. \A e \in 1 .. MaxDays : e # d => Dated(e)' \subseteq Dated(e)
  BY <1>4 DEF Dated
<1>6. \A j \in Dated(d)' : j # i => j \in Dated(d) /\ j # rotation[r].prev
  BY <1>3, <1>4 DEF Dated
<1>7. TodayServed'
  <2>1. i \in Dated(d)'
    BY <1>4 DEF Dated
  <2>2. ~crossed => Dated(today)' # {}
    <3>1. ~crossed => today' = d
      BY <1>0, <1>1
    <3> QED
      BY <2>1, <3>1 DEF Dated
  <2> QED
    BY <1>0, <2>2 DEF TodayServed
<1>8. /\ words' \in Seq(WordRow) /\ DOMAIN words' = DOMAIN words
      /\ served' \subseteq served \cup {d}
  BY <1>3, <1>4
<1> QED
  BY <1>0, <1>1, <1>5, <1>6, <1>7, <1>8, RotationEnds

\* The exhausted pool: every flag is cleared, no date is.
LEMMA ResetPoolStep ==
    ASSUME DailyInv, NEW r \in Rotations, ResetPool(r)
    PROVE  DailyInv'
<1>0. Running(r) /\ rotation[r].pc = "reset" /\ MoveTo(r, NoRotation)
      /\ UNCHANGED <<today, overlaps, crossed, served>> /\ words' = AllUnused(words)
  BY DEF ResetPool, Running
<1>1. PICK d \in 1 .. MaxDays : d = rotation[r].day
  BY <1>0, OnErrand
<1>2. words \in Seq(WordRow) /\ rotation[r].prev = 0 /\ TodayServed
      /\ \A j \in DOMAIN words : j \in Nat \ {0}
  BY <1>0, OnErrand DEF Errand
<1>3. /\ words' \in Seq(WordRow) /\ DOMAIN words' = DOMAIN words
      /\ \A j \in DOMAIN words : words'[j].date = words[j].date
  BY <1>0, <1>2, Cleared
<1>4. \A e : Dated(e)' = Dated(e)
  BY <1>3 DEF Dated
<1>5. \A j \in Dated(d)' : j # 0 => j \in Dated(d) /\ j # rotation[r].prev
  BY <1>2, <1>4
<1>6. TodayServed'
  BY <1>0, <1>2, <1>4 DEF TodayServed
<1> QED
  BY <1>0, <1>1, <1>3, <1>4, <1>5, <1>6, RotationEnds

\* A rolled back rotation frees nothing.
LEMMA RotationFailsStep ==
    ASSUME DailyInv, NEW r \in Rotations, RotationFails(r)
    PROVE  DailyInv'
<1>0. Running(r) /\ MoveTo(r, NoRotation)
      /\ UNCHANGED <<words, today, overlaps, crossed, served>>
  BY DEF RotationFails
<1>1. PICK d \in 1 .. MaxDays : d = rotation[r].day
  BY <1>0, OnErrand
<1>2. words \in Seq(WordRow) /\ TodayServed
  BY <1>0, OnErrand
<1>3. \A e : Dated(e)' = Dated(e)
  BY <1>0 DEF Dated
<1>4. PICK x : x = rotation[r].prev
  OBVIOUS
<1>5. \A j \in Dated(d)' : j # x => j \in Dated(d) /\ j # rotation[r].prev
  BY <1>3, <1>4
<1>6. TodayServed'
  BY <1>0, <1>2, <1>3 DEF TodayServed
<1> QED
  BY <1>0, <1>1, <1>2, <1>3, <1>5, <1>6, RotationEnds

\* The manual rotation exchanges the word it read for the one it found.
LEMMA CommitManualStep ==
    ASSUME DailyInv, NEW r \in Rotations, CommitManual(r)
    PROVE  DailyInv'
<1>0. Running(r) /\ rotation[r].pc = "swap" /\ MoveTo(r, NoRotation)
      /\ UNCHANGED <<today, overlaps, crossed>>
  BY DEF CommitManual, Running
<1>1. PICK d \in 1 .. MaxDays :
         d = rotation[r].day /\ d \in 1 .. today /\ d \in Nat /\ (~crossed => d = today)
  BY <1>0, OnErrand
<1>2. PICK i \in DOMAIN words : i = rotation[r].word
  BY <1>0, OnErrand DEF Errand
<1>3. PICK prev \in Nat : prev = rotation[r].prev
  BY <1>0, OnErrand
<1>4. words \in Seq(WordRow) /\ served' = served \cup {d}
  BY <1>0, <1>1, OnErrand DEF CommitManual
<1>5. PICK freed : freed = FreeWord(words, prev)
  OBVIOUS
<1>6. /\ freed \in Seq(WordRow) /\ DOMAIN freed = DOMAIN words
      /\ \A j \in DOMAIN words : j = prev => freed[j].date = 0
      /\ \A j \in DOMAIN words : j # prev => freed[j].date = words[j].date
  <2>1. Redated(freed, words, prev) /\ (prev \in DOMAIN words => freed[prev].date = 0)
    BY <1>3, <1>4, <1>5, Freed
  <2> QED
    BY <2>1 DEF Redated
<1>7. PICK swept : swept = IF rotation[r].all THEN AllUnused(freed) ELSE freed
  OBVIOUS
<1>8. /\ swept \in Seq(WordRow) /\ DOMAIN swept = DOMAIN words
      /\ \A j \in DOMAIN words : swept[j].date = freed[j].date
  <2>1. CASE rotation[r].all
    <3>1. swept = AllUnused(freed)
      BY <1>7, <2>1
    <3>2. /\ swept \in Seq(WordRow) /\ DOMAIN swept = DOMAIN freed
          /\ \A j \in DOMAIN freed : swept[j].date = freed[j].date
      BY <1>6, <3>1, Cleared
    <3> QED
      BY <1>6, <3>2
  <2>2. CASE ~rotation[r].all
    BY <1>6, <1>7, <2>2
  <2> QED
    BY <2>1, <2>2
<1>9. words' = Flag(swept, i, d)
  BY <1>1, <1>2, <1>3, <1>5, <1>7 DEF CommitManual
<1>10. /\ words' \in Seq(WordRow) /\ DOMAIN words' = DOMAIN words
       /\ words'[i].date = d
       /\ \A j \in DOMAIN words : j # i => words'[j].date = swept[j].date
  <2>1. i \in DOMAIN swept /\ swept \in Seq(WordRow)
    BY <1>8
  <2>2. words'[i].date = d /\ Redated(words', swept, i)
    BY <1>1, <1>9, <2>1, Flagged
  <2> QED
    BY <1>8, <2>2 DEF Redated
<1>11. \A j \in DOMAIN words : j # i =>
          (words'[j].date = 0 /\ j = prev) \/ (words'[j].date = words[j].date /\ j # prev)
  BY <1>6, <1>8, <1>10
<1>12. \A e \in 1 .. MaxDays : e # d => Dated(e)' \subseteq Dated(e)
  <2>1. \A e \in 1 .. MaxDays : e # 0
    OBVIOUS
  <2> QED
    BY <1>10, <1>11, <2>1 DEF Dated
<1>13. \A j \in Dated(d)' : j # i => j \in Dated(d) /\ j # rotation[r].prev
  <2>1. d # 0
    OBVIOUS
  <2> QED
    BY <1>3, <1>10, <1>11, <2>1 DEF Dated
<1>14. TodayServed'
  BY <1>0, <1>1, <1>10 DEF TodayServed, Dated
<1> QED
  BY <1>0, <1>1, <1>4, <1>10, <1>12, <1>13, <1>14, RotationEnds

\* The library's Min of a set of naturals is a member of it.
LEMMA MinIsIn ==
    ASSUME NEW T \in SUBSET Nat, T # {}
    PROVE  Min(T) \in T
BY LeastOf DEF Min

\* Picking a word changes nothing but what the rotation knows.
LEMMA FindUnusedStep ==
    ASSUME DailyInv, NEW r \in Rotations, FindUnused(r)
    PROVE  DailyInv'
<1>0. Running(r) /\ rotation[r].pc = "find"
      /\ UNCHANGED <<words, today, overlaps, crossed, served>>
  BY DEF FindUnused, Running
<1>1. PICK d \in 1 .. MaxDays : d = rotation[r].day /\ d \in Nat
  BY <1>0, OnErrand
<1>2. rotation[r].prev = 0 /\ \A j \in DOMAIN words : j \in Nat \ {0}
  BY <1>0, OnErrand DEF Errand
<1>3. PICK unused \in SUBSET DOMAIN words : unused = {i \in DOMAIN words : ~words[i].daily}
  OBVIOUS
<1>4. CASE unused = {}
  <2>1. PICK place : place = Place("reset", d, 0, 0)
    OBVIOUS
  <2>2. MoveTo(r, place)
    BY <1>1, <1>3, <1>4, <2>1 DEF FindUnused
  <2>3. place \in RotationPlace /\ place.pc = "reset" /\ place.day = d /\ place.prev = 0
    BY <1>1, <2>1 DEF Place, RotationPlace
  <2> QED
    BY <1>0, <1>1, <1>2, <2>2, <2>3, RotationGoesOn
<1>5. CASE unused # {}
  <2>1. PICK i \in unused : i = Min(unused)
    <3>1. unused \in SUBSET Nat
      BY <1>2
    <3> QED
      BY <1>5, <3>1, MinIsIn
  <2>2. PICK place : place = Place("flag", d, i, 0)
    OBVIOUS
  <2>3. MoveTo(r, place)
    BY <1>1, <1>3, <1>5, <2>1, <2>2 DEF FindUnused
  <2>4. /\ place \in RotationPlace /\ place.pc = "flag" /\ place.day = d /\ place.prev = 0
        /\ place.word = i /\ i \in DOMAIN words
    <3>1. i \in Nat /\ i \in DOMAIN words
      BY <1>2
    <3> QED
      BY <1>1, <2>2, <3>1 DEF Place, RotationPlace
  <2> QED
    BY <1>0, <1>1, <1>2, <2>3, <2>4, RotationGoesOn
<1> QED
  BY <1>4, <1>5

\* Freeing the day's own word and picking the next is so far known to the
\* rotation alone.
LEMMA FreeAndFindStep ==
    ASSUME DailyInv, NEW r \in Rotations, FreeAndFind(r)
    PROVE  DailyInv'
<1>0. Running(r) /\ rotation[r].pc = "free" /\ words # << >>
      /\ UNCHANGED <<words, today, overlaps, crossed, served>>
  BY DEF FreeAndFind, Running
<1>1. PICK d \in 1 .. MaxDays : d = rotation[r].day /\ d \in Nat
  BY <1>0, OnErrand
<1>2. /\ rotation[r] \in RotationPlace /\ words \in Seq(WordRow)
      /\ \A j \in DOMAIN words : j \in Nat \ {0}
  BY <1>0, OnErrand
<1>3. PICK unused \in SUBSET DOMAIN words :
         unused = {i \in DOMAIN words : ~FreeWord(words, rotation[r].prev)[i].daily}
  OBVIOUS
<1>4. PICK pool : pool = IF unused = {} THEN DOMAIN words ELSE unused
  OBVIOUS
<1>5. pool \in SUBSET DOMAIN words /\ pool # {}
  <2>1. DOMAIN words # {}
    <3>1. Len(words) \in Nat /\ DOMAIN words = 1 .. Len(words)
      BY <1>2
    <3>2. Len(words) # 0
      BY <1>0, <1>2
    <3>3. 1 \in DOMAIN words
      BY <3>1, <3>2
    <3> QED
      BY <3>3
  <2> QED
    BY <1>3, <1>4, <2>1
<1>6. PICK i \in DOMAIN words : i = Min(pool) /\ i \in Nat
  <2>1. pool \in SUBSET Nat
    BY <1>2, <1>5
  <2> QED
    BY <1>2, <1>5, <2>1, MinIsIn
<1>7. PICK all \in BOOLEAN : all <=> unused = {}
  OBVIOUS
<1>8. PICK place : place = [rotation[r] EXCEPT !.pc = "swap", !.all = unused = {}, !.word = i]
  OBVIOUS
<1>9. MoveTo(r, place)
  BY <1>3, <1>4, <1>6, <1>8 DEF FreeAndFind
<1>10. /\ place \in RotationPlace /\ place.pc = "swap" /\ place.word = i
       /\ place.day = rotation[r].day /\ place.prev = rotation[r].prev
  BY <1>2, <1>6, <1>8 DEF RotationPlace
<1> QED
  BY <1>0, <1>6, <1>9, <1>10, RotationGoesOn

\* A rotation that begins joins the errands of its day, and counts as an overlap
\* if another one is running.
LEMMA BeginStep ==
    ASSUME DailyInv, NEW r \in Rotations, BeginDaily(r) \/ BeginManual(r)
    PROVE  DailyInv'
<1>1. /\ words \in Seq(WordRow) /\ today \in Nat
      /\ UNCHANGED <<words, today, crossed, served>>
  BY DailyAssumption DEF DailyInv, DailyTypes, BeginDaily, BeginManual
<1>2. \A i \in Dated(today) : i \in Nat
  BY <1>1 DEF Dated
<1>3. CASE BeginDaily(r)
  <2>1. PICK place : place = Place("find", today, 0, 0)
    OBVIOUS
  <2>2. Begin(r, place) /\ Dated(today) = {}
    BY <1>3, <2>1 DEF BeginDaily, Existing
  <2>3. place \in RotationPlace /\ place.pc = "find" /\ place.day = today /\ place.prev = 0
    BY <1>1, <2>1 DEF Place, RotationPlace
  <2> QED
    BY <1>1, <2>2, <2>3, RotationBegins
<1>4. CASE BeginManual(r)
  <2>1. PICK i \in Nat : /\ Begin(r, Place("free", today, 0, i))
                         /\ Dated(today) = {} \/ i \in Dated(today)
    BY <1>2, <1>4 DEF BeginManual
  <2>2. PICK place : place = Place("free", today, 0, i)
    OBVIOUS
  <2>3. place \in RotationPlace /\ place.pc = "free" /\ place.day = today /\ place.prev = i
    BY <1>1, <2>2 DEF Place, RotationPlace
  <2> QED
    BY <1>1, <2>1, <2>2, <2>3, RotationBegins
<1> QED
  BY <1>3, <1>4
\* A new day: what a rotation of the day before is after counts no more.
LEMMA NextDayStep ==
    ASSUME DailyInv, NextDay
    PROVE  DailyInv'
<1>1. /\ DailyTypes /\ today \in 1 .. MaxDays /\ served \subseteq 1 .. today
      /\ \A q \in Rotations : Errand(q)
      /\ \A e \in 1 .. MaxDays : Counted(e)
  BY DEF DailyInv, DailyTypes
<1>2. /\ today < MaxDays /\ today' = today + 1
      /\ crossed' <=> (crossed \/ \E r \in Rotations : Running(r))
      /\ UNCHANGED <<words, rotation, overlaps, served>>
  BY DEF NextDay
<1>3. today' \in 1 .. MaxDays /\ 1 .. today \subseteq 1 .. today' /\ today' \notin 1 .. today
  BY <1>1, <1>2, DailyAssumption
<1>4. DailyTypes'
  BY <1>1, <1>2, <1>3 DEF DailyTypes
<1>5. TodayServed'
  BY <1>1, <1>2, <1>3 DEF TodayServed
<1>6. ASSUME NEW q \in Rotations PROVE Errand(q)'
  <2>1. Errand(q) /\ (Running(q) => crossed')
    BY <1>1, <1>2
  <2> QED
    BY <1>2, <1>3, <2>1 DEF Errand, Running
<1>7. ASSUME NEW e \in 1 .. MaxDays PROVE Counted(e)'
  BY <1>1, <1>2 DEF Counted, Staying, RotationsOf, Running, Dated
<1> QED
  BY <1>4, <1>5, <1>6, <1>7 DEF DailyInv

\* A new word has no date.
LEMMA CreateWordStep ==
    ASSUME DailyInv, CreateWord
    PROVE  DailyInv'
<1>1. /\ DailyTypes /\ TodayServed /\ words \in Seq(WordRow)
      /\ today \in 1 .. MaxDays
      /\ \A q \in Rotations : Errand(q)
      /\ \A e \in 1 .. MaxDays : Counted(e)
  BY DEF DailyInv, DailyTypes
<1>2. /\ words' = Append(words, Unused)
      /\ UNCHANGED <<today, rotation, overlaps, served, crossed>>
  BY DEF CreateWord
<1>3. Unused \in WordRow /\ Unused.date = 0
  BY DEF Unused, WordRow
<1>4. PICK n \in Nat : n = Len(words) /\ DOMAIN words = 1 .. n
  BY <1>1
<1>5. /\ words' \in Seq(WordRow) /\ DOMAIN words' = 1 .. (n + 1)
      /\ words'[n + 1] = Unused
      /\ \A j \in 1 .. n : words'[j] = words[j]
  BY <1>1, <1>2, <1>3, <1>4
<1>6. \A j \in 1 .. (n + 1) : j \in 1 .. n \/ j = n + 1
  OBVIOUS
<1>7. ASSUME NEW e \in 1 .. MaxDays PROVE Dated(e)' = Dated(e)
  <2>1. \A j \in Dated(e)' : j \in Dated(e)
    BY <1>3, <1>4, <1>5, <1>6 DEF Dated
  <2>2. \A j \in Dated(e) : j \in Dated(e)'
    BY <1>4, <1>5 DEF Dated
  <2>3. Dated(e)' \subseteq DOMAIN words' /\ Dated(e) \subseteq DOMAIN words
    BY DEF Dated
  <2> QED
    BY <2>1, <2>2, <2>3
<1>8. DailyTypes'
  BY <1>1, <1>2, <1>5 DEF DailyTypes
<1>9. TodayServed'
  <2>1. Dated(today)' = Dated(today)
    BY <1>1, <1>2, <1>7
  <2> QED
    BY <1>1, <1>2, <2>1 DEF TodayServed
<1>10. ASSUME NEW q \in Rotations PROVE Errand(q)'
  <2>1. DOMAIN words \subseteq DOMAIN words'
    BY <1>4, <1>5
  <2> QED
    BY <1>1, <1>2, <2>1 DEF Errand, Running
<1>11. ASSUME NEW e \in 1 .. MaxDays PROVE Counted(e)'
  <2>1. RotationsOf(e)' = RotationsOf(e)
    BY <1>2 DEF RotationsOf, Running
  <2>2. Staying(e)' = Staying(e)
    BY <1>2, <1>7, <2>1 DEF Staying
  <2> QED
    BY <1>1, <1>2, <2>1, <2>2 DEF Counted
<1> QED
  BY <1>8, <1>9, <1>10, <1>11 DEF DailyInv

\* Words about to be freed are no more than the rotations that are about to.
LEMMA DatedCounted ==
    ASSUME words \in Seq(WordRow), NEW d
    PROVE  Cardinality(Dated(d)) <= Cardinality(Staying(d)) + Cardinality(RotationsOf(d))
<1>1. PICK D, S, R : D = Dated(d) /\ S = Staying(d) /\ R = RotationsOf(d)
  OBVIOUS
<1>2. /\ IsFiniteSet(D) /\ IsFiniteSet(S) /\ IsFiniteSet(R) /\ S \subseteq D
      /\ Cardinality(D) \in Nat /\ Cardinality(S) \in Nat /\ Cardinality(R) \in Nat
  BY <1>1, CountedSets
<1>3. PICK F : F = {r \in R : rotation[r].prev \in D}
  OBVIOUS
<1>4. PICK P : P = {i \in D : \E r \in R : rotation[r].prev = i}
  OBVIOUS
<1>5. F \subseteq R /\ IsFiniteSet(F) /\ Cardinality(F) <= Cardinality(R)
  BY <1>2, <1>3, FS_Subset
<1>6. PICK f : f = [r \in F |-> rotation[r].prev]
  OBVIOUS
<1>7. f \in Surjection(F, P)
  <2>1. \A r \in F : f[r] \in P
    BY <1>3, <1>4, <1>6
  <2>2. \A i \in P : \E r \in F : f[r] = i
    BY <1>3, <1>4, <1>6
  <2> QED
    BY <1>6, <2>1, <2>2 DEF Surjection
<1>8. IsFiniteSet(P) /\ Cardinality(P) <= Cardinality(F)
  BY <1>5, <1>7, FS_Surjection
<1>9. Cardinality(P) \in Nat /\ Cardinality(F) \in Nat
  BY <1>5, <1>8, FS_CardinalityType
<1>10. D = S \cup P /\ S \cap P = {}
  BY <1>1, <1>4 DEF Staying
<1>11. Cardinality(S \cup P) = Cardinality(S) + Cardinality(P) - Cardinality(S \cap P)
  BY <1>2, <1>8, FS_Union
<1>12. Cardinality(S \cap P) = 0
  BY <1>10, FS_EmptySet
<1> QED
  BY <1>1, <1>2, <1>5, <1>8, <1>9, <1>10, <1>11, <1>12

\* The invariant of the daily words holds in every reachable state.
LEMMA DailyInvHolds == DailySpec => []DailyInv
<1>1. DailyInit => DailyInv
  <2> SUFFICES ASSUME DailyInit PROVE DailyInv
    OBVIOUS
  <2>1. NoRotation \in RotationPlace /\ NoRotation.pc = "idle"
    BY DEF NoRotation, Place, RotationPlace
  <2>2. Unused \in WordRow /\ Unused.date = 0
    BY DEF Unused, WordRow
  <2>3. words \in Seq(WordRow) /\ \A i \in DOMAIN words : words[i].date = 0
    BY <2>2, DailyAssumption DEF DailyInit
  <2>4. \A r \in Rotations : rotation[r] = NoRotation
    BY DEF DailyInit
  <2>5. DailyTypes /\ TodayServed
    BY <2>1, <2>3, DailyAssumption DEF DailyInit, DailyTypes, TodayServed
  <2>6. \A r \in Rotations : Errand(r)
    BY <2>1, <2>4 DEF Errand, Running
  <2>7. ASSUME NEW d \in 1 .. MaxDays PROVE Counted(d)
    <3>1. Staying(d) = {} /\ RotationsOf(d) = {}
      BY <2>1, <2>3, <2>4 DEF Staying, Dated, RotationsOf, Running
    <3>2. Cardinality({}) = 0
      BY FS_EmptySet
    <3>3. overlaps[d] = 0
      BY DEF DailyInit
    <3> QED
      BY <3>1, <3>2, <3>3 DEF Counted
  <2> QED
    BY <2>5, <2>6, <2>7 DEF DailyInv
<1>2. DailyInv /\ [DailyNext]_dailyVars => DailyInv'
  <2> SUFFICES ASSUME DailyInv, [DailyNext]_dailyVars PROVE DailyInv'
    OBVIOUS
  <2>1. CASE UNCHANGED wordVars
    <3>1. UNCHANGED <<words, today, rotation, overlaps, served, crossed>>
      BY <2>1 DEF wordVars
    <3>2. \A e : Dated(e)' = Dated(e) /\ RotationsOf(e)' = RotationsOf(e)
      BY <3>1 DEF Dated, RotationsOf, Running
    <3>3. \A e : Staying(e)' = Staying(e)
      BY <3>1, <3>2 DEF Staying
    <3> QED
      BY <3>1, <3>2, <3>3 DEF DailyInv, DailyTypes, TodayServed, Errand, Running, Counted
  <2>2. CASE ReadDictionary \/ (\E n \in 0 .. MaxWords : ReplaceCache(n)) \/ UNCHANGED dailyVars
    BY <2>1, <2>2 DEF ReadDictionary, ReplaceCache, dailyVars
  <2> QED
    BY <2>2, BeginStep, FindUnusedStep, FlagWordStep, ResetPoolStep, FreeAndFindStep,
       CommitManualStep, RotationFailsStep, NextDayStep, CreateWordStep DEF DailyNext
<1> QED
  BY <1>1, <1>2, PTL DEF DailySpec

\* A day that an exhausted pool has left without a word was served after all,
\* or finds a word nobody has used.
Unspent == \E i \in DOMAIN words : ~words[i].daily
EmptiedFindsWord ==
    /\ emptied \subseteq 1 .. today
    /\ today \in emptied /\ ~crossed /\ words # << >> => today \in served \/ Unspent

\* Flags are set only together with a date, and the reset clears them all.
LEMMA EmptiedStep ==
    ASSUME DailyInv, EmptiedFindsWord, [DailyNext]_dailyVars
    PROVE  EmptiedFindsWord'
<1>1. /\ words \in Seq(WordRow) /\ today \in 1 .. MaxDays /\ served \subseteq 1 .. today
      /\ \A r \in Rotations : Errand(r)
  BY DEF DailyInv, DailyTypes
<1>2. CASE UNCHANGED <<words, today, served, emptied, crossed>>
  BY <1>2 DEF EmptiedFindsWord, Unspent
<1>3. ASSUME NEW r \in Rotations, FlagWord(r) \/ CommitManual(r)
      PROVE  EmptiedFindsWord'
  <2>1. UNCHANGED <<today, emptied, crossed>> /\ served' = served \cup {rotation[r].day} /\ Running(r)
    BY <1>3 DEF FlagWord, CommitManual, Running
  <2>2. ~crossed => rotation[r].day = today
    BY <1>1, <2>1 DEF Errand
  <2> QED
    BY <2>1, <2>2 DEF EmptiedFindsWord
<1>4. ASSUME NEW r \in Rotations, ResetPool(r)
      PROVE  EmptiedFindsWord'
  <2>1. /\ UNCHANGED <<today, served, crossed>> /\ emptied' = emptied \cup {rotation[r].day}
        /\ words' = AllUnused(words) /\ Running(r)
    BY <1>4 DEF ResetPool, Running
  <2>2. rotation[r].day \in 1 .. today
    BY <1>1, <2>1 DEF Errand
  <2>3. ASSUME words' # << >> PROVE Unspent'
    <3>1. DOMAIN words' = DOMAIN words /\ \A i \in DOMAIN words : ~words'[i].daily
      <4>1. words' = [i \in DOMAIN words |-> [words[i] EXCEPT !.daily = FALSE]]
        BY <2>1 DEF AllUnused
      <4>2. ASSUME NEW i \in DOMAIN words PROVE ~words'[i].daily
        <5>1. words[i] \in WordRow
          BY <1>1, <4>2
        <5>2. words'[i] = [words[i] EXCEPT !.daily = FALSE]
          BY <4>1, <4>2
        <5> QED
          BY <5>1, <5>2 DEF WordRow
      <4> QED
        BY <4>1, <4>2
    <3>2. words' \in Seq(WordRow)
      BY <1>4, ResetPoolStep DEF DailyInv, DailyTypes
    <3>3. 1 \in DOMAIN words'
      BY <2>3, <3>2
    <3> QED
      BY <3>1, <3>3 DEF Unspent
  <2> QED
    BY <2>1, <2>2, <2>3 DEF EmptiedFindsWord
<1>5. CASE NextDay
  <2>1. today' = today + 1 /\ UNCHANGED emptied /\ today \in Nat
    BY <1>1, <1>5, DailyAssumption DEF NextDay
  <2> QED
    BY <2>1 DEF EmptiedFindsWord
<1>6. CASE CreateWord
  <2>1. words' = Append(words, Unused) /\ UNCHANGED <<today, served, emptied, crossed>>
    BY <1>6 DEF CreateWord
  <2>2. Len(words) + 1 \in DOMAIN words' /\ words'[Len(words) + 1] = Unused
    BY <1>1, <2>1
  <2>3. Unspent'
    BY <2>2 DEF Unspent, Unused
  <2> QED
    BY <2>1, <2>3 DEF EmptiedFindsWord
<1>7. ASSUME NEW r \in Rotations, BeginDaily(r) \/ FindUnused(r) \/ BeginManual(r)
                                   \/ FreeAndFind(r) \/ RotationFails(r)
      PROVE  EmptiedFindsWord'
  <2>1. UNCHANGED <<words, today, served, emptied, crossed>>
    BY <1>7 DEF BeginDaily, FindUnused, BeginManual, FreeAndFind, RotationFails
  <2> QED
    BY <1>2, <2>1
<1>8. CASE ReadDictionary \/ (\E n \in 0 .. MaxWords : ReplaceCache(n)) \/ UNCHANGED dailyVars
  <2>1. UNCHANGED <<words, today, served, emptied, crossed>>
    BY <1>8 DEF ReadDictionary, ReplaceCache, dailyVars, wordVars
  <2> QED
    BY <1>2, <2>1
<1> QED
  BY <1>3, <1>4, <1>5, <1>6, <1>7, <1>8 DEF DailyNext

\* A day left without a word by an exhausted pool finds one, in every reachable
\* state.
LEMMA EmptiedHolds == DailySpec => []EmptiedFindsWord
<1>1. DailyInit => EmptiedFindsWord
  BY DEF DailyInit, EmptiedFindsWord
<1>2. DailyInv /\ EmptiedFindsWord /\ [DailyNext]_dailyVars => EmptiedFindsWord'
  BY EmptiedStep
<1> QED
  BY <1>1, <1>2, DailyInvHolds, PTL DEF DailySpec

\* A day has one word, and one more at most for each rotation that began next
\* to another of the day; a day once served keeps a word while it lasts, and one
\* an exhausted pool left without finds a free word, unless a rotation outlived
\* its day: for any number of instances, words and days
\* (ensureTodayWord and rotateNow).
THEOREM AWordADay == DailySpec => []OneWordPerDay
<1>1. DailyInv /\ EmptiedFindsWord => OneWordPerDay
  <2> SUFFICES ASSUME DailyInv, EmptiedFindsWord PROVE OneWordPerDay
    OBVIOUS
  <2>1. words \in Seq(WordRow) /\ TodayServed /\ \A d \in 1 .. MaxDays : Counted(d)
        /\ overlaps \in [1 .. MaxDays -> Nat]
    BY DEF DailyInv, DailyTypes
  <2>2. ASSUME NEW d \in 1 .. MaxDays
        PROVE  Cardinality(Dated(d)) <= 1 + overlaps[d]
    <3>1. Cardinality(Dated(d)) <= Cardinality(Staying(d)) + Cardinality(RotationsOf(d))
          /\ Cardinality(Dated(d)) \in Nat /\ Cardinality(Staying(d)) \in Nat
          /\ Cardinality(RotationsOf(d)) \in Nat
      BY <2>1, CountedSets, DatedCounted
    <3>2. Cardinality(Staying(d)) + Cardinality(RotationsOf(d)) <= 1 + overlaps[d]
          /\ overlaps[d] \in Nat
      BY <2>1 DEF Counted
    <3> QED
      BY <3>1, <3>2
  <2>3. today \in emptied /\ ~crossed /\ words # << >> /\ Dated(today) = {} => Unspent
    BY <2>1 DEF EmptiedFindsWord, TodayServed
  <2> QED
    BY <2>1, <2>2, <2>3 DEF OneWordPerDay, TodayServed, Unspent
<1> QED
  BY <1>1, DailyInvHolds, EmptiedHolds, PTL

\* The rows there can be, their dates, and what the cache has read of them.
DailyBounds ==
    /\ Len(words) <= MaxWords /\ \A i \in DOMAIN words : words[i].date <= MaxDays
    /\ cached \in 0 .. MaxWords /\ reloads \subseteq 0 .. MaxWords

\* As many rows as before, dated no later than the last day.
LEMMA StillDated ==
    ASSUME words \in Seq(WordRow), DailyBounds, words' \in Seq(WordRow),
           DOMAIN words' = DOMAIN words, \A i \in DOMAIN words : words'[i].date <= MaxDays,
           UNCHANGED cacheVars
    PROVE  DailyBounds'
<1>1. Len(words') = Len(words)
  <2>1. Len(words) \in Nat /\ DOMAIN words = 1 .. Len(words)
        /\ Len(words') \in Nat /\ DOMAIN words' = 1 .. Len(words')
    OBVIOUS
  <2> QED
    BY <2>1
<1> QED
  BY <1>1 DEF DailyBounds, cacheVars

\* A date that a statement writes is that of the rotation's day.
LEMMA FlaggedInBounds ==
    ASSUME NEW ws \in Seq(WordRow), NEW i \in DOMAIN ws, NEW d \in 1 .. MaxDays,
           \A j \in DOMAIN ws : ws[j].date <= MaxDays, NEW w, w = Flag(ws, i, d)
    PROVE  w \in Seq(WordRow) /\ DOMAIN w = DOMAIN ws /\ \A j \in DOMAIN ws : w[j].date <= MaxDays
<1>1. d \in Nat /\ d <= MaxDays
  BY DailyAssumption
<1>2. w[i].date = d /\ Redated(w, ws, i)
  BY <1>1, Flagged
<1> QED
  BY <1>1, <1>2 DEF Redated

\* The table of words, the rotations and the cache keep their types: a word is
\* dated with a day that has come, and the cache holds no more than the table may.
THEOREM DailyTyped == DailySpec => []DailyTypeOK
<1>1. DailyInit => DailyBounds
  <2> SUFFICES ASSUME DailyInit PROVE DailyBounds
    OBVIOUS
  <2>1. /\ Len(words) = InitialWords /\ DOMAIN words = 1 .. InitialWords
        /\ \A i \in DOMAIN words : words[i] = Unused
    BY DailyAssumption DEF DailyInit
  <2>2. Unused.date = 0
    BY DEF Unused
  <2> QED
    BY <2>1, <2>2, DailyAssumption DEF DailyInit, DailyBounds
<1>2. DailyInv /\ DailyBounds /\ [DailyNext]_dailyVars => DailyBounds'
  <2> SUFFICES ASSUME DailyInv, DailyBounds, [DailyNext]_dailyVars PROVE DailyBounds'
    OBVIOUS
  <2>1. /\ words \in Seq(WordRow) /\ today \in 1 .. MaxDays /\ rotation \in [Rotations -> RotationPlace]
        /\ \A i \in DOMAIN words : words[i].date <= MaxDays
    BY DEF DailyInv, DailyTypes, DailyBounds
  <2>2. ASSUME NEW r \in Rotations, Running(r)
        PROVE  rotation[r].day \in 1 .. MaxDays /\ rotation[r].prev \in Nat
    <3>1. rotation[r] \in RotationPlace /\ rotation[r].day \in 1 .. today
      BY <2>1, <2>2 DEF DailyInv, Errand
    <3> QED
      BY <2>1, <3>1, DailyAssumption DEF RotationPlace
  <2>3. CASE UNCHANGED <<words, cacheVars>>
    BY <2>3 DEF DailyBounds, cacheVars
  <2>4. ASSUME NEW r \in Rotations,
               BeginDaily(r) \/ FindUnused(r) \/ BeginManual(r) \/ FreeAndFind(r) \/ RotationFails(r)
        PROVE  DailyBounds'
    BY <2>3, <2>4 DEF BeginDaily, FindUnused, BeginManual, FreeAndFind, RotationFails
  <2>5. CASE NextDay \/ UNCHANGED dailyVars
    BY <2>3, <2>5 DEF NextDay, dailyVars, wordVars
  <2>6. ASSUME NEW r \in Rotations, FlagWord(r)
        PROVE  DailyBounds'
    <3>1. /\ words' = Flag(words, rotation[r].word, rotation[r].day) /\ UNCHANGED cacheVars
          /\ rotation[r].pc = "flag"
      BY <2>6 DEF FlagWord
    <3>2. rotation[r].word \in DOMAIN words /\ rotation[r].day \in 1 .. MaxDays
      BY <2>2, <3>1 DEF DailyInv, Errand, Running
    <3>3. /\ words' \in Seq(WordRow) /\ DOMAIN words' = DOMAIN words
          /\ \A j \in DOMAIN words : words'[j].date <= MaxDays
      BY <2>1, <3>1, <3>2, FlaggedInBounds
    <3> QED
      BY <2>1, <3>1, <3>3, StillDated
  <2>7. ASSUME NEW r \in Rotations, ResetPool(r)
        PROVE  DailyBounds'
    <3>1. words' = AllUnused(words) /\ UNCHANGED cacheVars
      BY <2>7 DEF ResetPool
    <3>2. /\ words' \in Seq(WordRow) /\ DOMAIN words' = DOMAIN words
          /\ \A j \in DOMAIN words : words'[j].date = words[j].date
      BY <2>1, <3>1, Cleared
    <3> QED
      BY <2>1, <3>1, <3>2, StillDated
  <2>8. ASSUME NEW r \in Rotations, CommitManual(r)
        PROVE  DailyBounds'
    <3>1. PICK freed : freed = FreeWord(words, rotation[r].prev)
      OBVIOUS
    <3>2. PICK cleared : cleared = AllUnused(freed)
      OBVIOUS
    <3>3. PICK ws : ws = IF rotation[r].all THEN cleared ELSE freed
      OBVIOUS
    <3>4. /\ words' = Flag(ws, rotation[r].word, rotation[r].day) /\ UNCHANGED cacheVars
          /\ rotation[r].pc = "swap"
      BY <2>8, <3>1, <3>2, <3>3 DEF CommitManual
    <3>5. /\ rotation[r].word \in DOMAIN words /\ rotation[r].day \in 1 .. MaxDays
          /\ rotation[r].prev \in Nat
      BY <2>2, <3>4 DEF DailyInv, Errand, Running
    <3>6. /\ Redated(freed, words, rotation[r].prev)
          /\ rotation[r].prev \in DOMAIN words => freed[rotation[r].prev].date = 0
      BY <2>1, <3>1, <3>5, Freed
    <3>7. /\ freed \in Seq(WordRow) /\ DOMAIN freed = DOMAIN words
          /\ \A j \in DOMAIN words : freed[j].date <= MaxDays
      BY <2>1, <3>6, DailyAssumption DEF Redated
    <3>8. /\ cleared \in Seq(WordRow) /\ DOMAIN cleared = DOMAIN words
          /\ \A j \in DOMAIN words : cleared[j].date <= MaxDays
      BY <3>2, <3>7, Cleared
    <3>9. /\ ws \in Seq(WordRow) /\ DOMAIN ws = DOMAIN words
          /\ \A j \in DOMAIN words : ws[j].date <= MaxDays
      BY <3>3, <3>7, <3>8
    <3>10. /\ words' \in Seq(WordRow) /\ DOMAIN words' = DOMAIN words
           /\ \A j \in DOMAIN words : words'[j].date <= MaxDays
      BY <3>4, <3>5, <3>9, FlaggedInBounds
    <3> QED
      BY <2>1, <3>4, <3>10, StillDated
  <2>9. CASE CreateWord
    <3>1. /\ Len(words) \in Nat /\ Len(words) < MaxWords /\ words' = Append(words, Unused)
          /\ UNCHANGED cacheVars
      BY <2>1, <2>9 DEF CreateWord
    <3>2. PICK n \in Nat : n = Len(words)
      BY <3>1
    <3>3. /\ Len(words') = n + 1 /\ DOMAIN words' = DOMAIN words \cup {n + 1}
          /\ words'[n + 1] = Unused /\ \A i \in DOMAIN words : words'[i] = words[i]
      BY <2>1, <3>1, <3>2
    <3>4. Unused.date = 0
      BY DEF Unused
    <3> QED
      BY <3>1, <3>2, <3>3, <3>4, DailyAssumption DEF DailyBounds, cacheVars
  <2>10. CASE ReadDictionary \/ \E n \in 0 .. MaxWords : ReplaceCache(n)
    <3>1. Len(words) \in 0 .. MaxWords
      BY <2>1, DailyAssumption DEF DailyBounds
    <3>2. words' = words /\ cached' \in 0 .. MaxWords /\ reloads' \subseteq 0 .. MaxWords
      BY <2>10, <3>1 DEF ReadDictionary, ReplaceCache, wordVars, DailyBounds
    <3> QED
      BY <3>2 DEF DailyBounds
  <2> QED
    BY <2>4, <2>5, <2>6, <2>7, <2>8, <2>9, <2>10 DEF DailyNext
<1>3. DailyInv /\ DailyBounds => DailyTypeOK
  <2> SUFFICES ASSUME DailyInv, DailyBounds PROVE DailyTypeOK
    OBVIOUS
  <2>1. words \in Seq(WordRow) /\ today \in 1 .. MaxDays /\ rotation \in [Rotations -> RotationPlace]
    BY DEF DailyInv, DailyTypes
  <2>2. ASSUME NEW i \in DOMAIN words
        PROVE  words[i] \in [daily : BOOLEAN, date : 0 .. MaxDays]
    <3>1. words[i] \in WordRow /\ words[i].date <= MaxDays
      BY <2>1 DEF DailyBounds
    <3> QED
      BY <3>1, DailyAssumption DEF WordRow
  <2>3. words \in Seq([daily : BOOLEAN, date : 0 .. MaxDays])
    <3>1. PICK S : S = [daily : BOOLEAN, date : 0 .. MaxDays]
      OBVIOUS
    <3>2. \A i \in DOMAIN words : words[i] \in S
      BY <2>2, <3>1
    <3>3. words \in Seq(S)
      BY <2>1, <3>2
    <3> QED
      BY <3>1, <3>3
  <2>4. \A r \in Rotations : rotation[r].pc \in {"idle", "find", "flag", "reset", "free", "swap"}
    BY <2>1 DEF RotationPlace
  <2> QED
    BY <2>1, <2>3, <2>4 DEF DailyBounds, DailyTypeOK
<1> QED
  BY <1>1, <1>2, <1>3, DailyInvHolds, PTL DEF DailySpec

-----------------------------------------------------------------------------
(* Gameplay transactions: how far the in-flight lock protects *)

\* What the proof needs of the types.
WalletTypes ==
    /\ abandoned \in Nat /\ inFlight \in BOOLEAN
    /\ address \in Accounts \cup {NoAccount}
    /\ polls \subseteq [from : Accounts \cup {NoAccount}, got : Accounts]
    /\ tx \in [Txs -> [pc : {"idle", "signing", "submitting"},
                       account : Accounts \cup {NoAccount}, left : BOOLEAN]]

\* The lock held, or the number of times it was freed by force, pays for every
\* transaction in progress: a late one that frees the lock of another leaves
\* with its own share.
LockAccounts ==
    /\ IsFiniteSet(Active)
    /\ Cardinality(Active) <= abandoned + (IF inFlight THEN 1 ELSE 0)

\* A transaction that was not left behind is the current account's, and so is
\* the result on display.
OwnersMatch ==
    ~reconnected =>
        /\ \A t \in Active : tx[t].account # address => tx[t].left
        /\ \A s \in snapshot : s.account # address => s.left

WalletInv == WalletTypes /\ LockAccounts /\ OwnersMatch

\* The invariant of the transactions holds at first.
LEMMA WalletStart == WalletInit => WalletInv
<1> SUFFICES ASSUME WalletInit
             PROVE  WalletInv
  OBVIOUS
<1>1. Active = {}
  BY DEF WalletInit, Active, NoTx
<1>2. WalletTypes
  BY DEF WalletInit, WalletTypes, NoTx
<1>3. LockAccounts
  BY <1>1, FS_EmptySet DEF WalletInit, LockAccounts
<1>4. OwnersMatch
  BY <1>1 DEF WalletInit, OwnersMatch, NoSnapshot
<1> QED
  BY <1>2, <1>3, <1>4 DEF WalletInv

\* Connecting and polling change no transaction ...
LEMMA WalletCalls ==
    ASSUME WalletInv, NEW a \in Accounts, Connect(a) \/ Poll(a)
    PROVE  WalletInv'
<1>1. /\ tx' = tx /\ inFlight' = inFlight /\ abandoned' = abandoned /\ snapshot' = snapshot
      /\ Active' = Active
  BY DEF Connect, Poll, Active
<1>2. WalletTypes'
  BY <1>1 DEF WalletInv, WalletTypes, Connect, Poll
<1>3. LockAccounts'
  BY <1>1 DEF WalletInv, LockAccounts
<1>4. OwnersMatch'
  <2>1. CASE Connect(a)
    BY <1>1, <2>1 DEF WalletInv, OwnersMatch, Connect, NoSnapshot
  <2>2. CASE Poll(a)
    BY <1>1, <2>2 DEF WalletInv, OwnersMatch, Poll
  <2> QED
    BY <2>1, <2>2
<1> QED
  BY <1>2, <1>3, <1>4 DEF WalletInv

\* ... and neither does disconnecting.
LEMMA IdleCalls ==
    ASSUME WalletInv, Disconnect \/ UNCHANGED walletVars
    PROVE  WalletInv'
<1>1. /\ tx' = tx /\ inFlight' = inFlight /\ abandoned' = abandoned /\ snapshot' = snapshot
      /\ Active' = Active /\ polls' = polls
  BY DEF Disconnect, walletVars, Active
<1>2. WalletTypes' /\ LockAccounts'
  BY <1>1 DEF WalletInv, WalletTypes, LockAccounts, Disconnect, walletVars
<1>3. OwnersMatch'
  BY <1>1 DEF WalletInv, OwnersMatch, Disconnect, NoSnapshot, walletVars
<1> QED
  BY <1>2, <1>3 DEF WalletInv

\* A reset or a switch frees the lock, counts it, and marks what is left.
LEMMA AbandonStep ==
    ASSUME WalletInv, Abandon, address' \in Accounts \cup {NoAccount},
           polls' \subseteq polls, reconnected' = reconnected
    PROVE  WalletInv'
<1> DEFINE TxTypes == [pc : {"idle", "signing", "submitting"},
                       account : Accounts \cup {NoAccount}, left : BOOLEAN]
<1>1. ASSUME NEW t \in Txs
      PROVE  /\ tx'[t] \in TxTypes
             /\ tx'[t].pc = tx[t].pc /\ tx'[t].account = tx[t].account
             /\ t \in Active => tx'[t].left
  <2>1. tx[t] \in TxTypes /\ tx'[t] = [tx[t] EXCEPT !.left = t \in Active]
    BY DEF Abandon, WalletInv, WalletTypes
  <2>2. CASE t \in Active
    <3>1. (t \in Active) = TRUE
      BY <2>2
    <3>2. tx'[t] = [tx[t] EXCEPT !.left = TRUE]
      BY <2>1, <3>1, Zenon
    <3> QED
      BY <2>1, <3>2
  <2>3. CASE t \notin Active
    <3>1. (t \in Active) = FALSE
      BY <2>3
    <3>2. tx'[t] = [tx[t] EXCEPT !.left = FALSE]
      BY <2>1, <3>1, Zenon
    <3> QED
      BY <2>1, <2>3, <3>2
  <2> QED
    BY <2>2, <2>3
<1>2. Active' = Active
  BY <1>1 DEF Active
<1>3. WalletTypes'
  <2>1. tx' \in [Txs -> TxTypes]
    <3>1. tx' = [t \in Txs |-> tx'[t]]
      BY DEF Abandon
    <3> QED
      BY <1>1, <3>1
  <2>2. abandoned' \in Nat
    <3>1. abandoned \in Nat
      BY DEF WalletInv, WalletTypes
    <3>2. abandoned' = abandoned + 1 \/ abandoned' = abandoned + 0
      BY DEF Abandon
    <3> QED
      BY <3>1, <3>2
  <2>4. inFlight' \in BOOLEAN
    BY DEF Abandon
  <2>3. polls' \subseteq [from : Accounts \cup {NoAccount}, got : Accounts]
    BY DEF WalletInv, WalletTypes
  <2> QED
    BY <2>1, <2>2, <2>3, <2>4 DEF WalletTypes
<1>4. LockAccounts'
  <2>1. abandoned' = abandoned + (IF inFlight THEN 1 ELSE 0) /\ inFlight' = FALSE
    BY DEF Abandon
  <2>2. Cardinality(Active) \in Nat /\ abandoned' \in Nat
    BY <1>3, FS_CardinalityType DEF WalletInv, LockAccounts, WalletTypes
  <2>3. Cardinality(Active) <= abandoned'
    BY <2>1, <2>2 DEF WalletInv, LockAccounts, WalletTypes
  <2>4. IsFiniteSet(Active') /\ Cardinality(Active') = Cardinality(Active)
    BY <1>2 DEF WalletInv, LockAccounts
  <2> QED
    BY <2>1, <2>3, <2>4 DEF LockAccounts
<1>5. OwnersMatch'
  <2>1. snapshot' = {}
    BY DEF Abandon, NoSnapshot
  <2>2. \A t \in Active' : tx'[t].left
    BY <1>1, <1>2 DEF Active
  <2> QED
    BY <2>1, <2>2 DEF OwnersMatch
<1> QED
  BY <1>3, <1>4, <1>5 DEF WalletInv

\* Starting a transaction keeps the invariant.
LEMMA ExecuteStep ==
    ASSUME WalletInv, NEW t \in Txs, Execute(t)
    PROVE  WalletInv'
<1>1. /\ t \notin Active /\ ~inFlight /\ inFlight' = TRUE /\ abandoned' = abandoned
      /\ tx' = [tx EXCEPT ![t] = [pc |-> "signing", account |-> address, left |-> FALSE]]
      /\ snapshot' = {[account |-> address, left |-> FALSE]}
      /\ address' = address /\ reconnected' = reconnected /\ polls' = polls
  BY DEF Execute, Busy, Active
<1>2. Active' = Active \cup {t}
  BY <1>1 DEF Active, WalletInv, WalletTypes
<1>3. WalletTypes'
  BY <1>1 DEF WalletInv, WalletTypes
<1>4. LockAccounts'
  <2>1. IsFiniteSet(Active) /\ Cardinality(Active) <= abandoned
    BY <1>1 DEF WalletInv, LockAccounts, WalletTypes
  <2>2. IsFiniteSet(Active') /\ Cardinality(Active') = Cardinality(Active) + 1
    BY <1>1, <1>2, <2>1, FS_AddElement
  <2> QED
    BY <1>1, <2>1, <2>2, FS_CardinalityType DEF LockAccounts, WalletInv, WalletTypes
<1>5. OwnersMatch'
  BY <1>1, <1>2 DEF WalletInv, OwnersMatch, WalletTypes, Active
<1> QED
  BY <1>3, <1>4, <1>5 DEF WalletInv

\* A signature that arrives keeps the invariant.
LEMMA SignedStep ==
    ASSUME WalletInv, NEW t \in Txs, Signed(t)
    PROVE  WalletInv'
<1>1. Active' = Active
  BY DEF Signed, Active, WalletInv, WalletTypes
<1>2. WalletTypes'
  BY DEF Signed, WalletInv, WalletTypes
<1>3. LockAccounts'
  BY <1>1 DEF Signed, WalletInv, LockAccounts
<1>4. OwnersMatch'
  BY <1>1 DEF Signed, WalletInv, OwnersMatch, Active, WalletTypes
<1> QED
  BY <1>2, <1>3, <1>4 DEF WalletInv

\* Whoever finishes frees the lock, its own or another's, and leaves.
LEMMA FinishStep ==
    ASSUME WalletInv, NEW t \in Txs, Finish(t)
    PROVE  WalletInv'
<1>1. /\ t \in Active /\ inFlight' = FALSE /\ abandoned' = abandoned
      /\ tx' = [tx EXCEPT ![t] = NoTx]
      /\ snapshot' = {[account |-> tx[t].account, left |-> tx[t].left]}
      /\ address' = address /\ reconnected' = reconnected /\ polls' = polls
  BY DEF Finish
<1>2. Active' = Active \ {t}
  BY <1>1 DEF Active, WalletInv, WalletTypes, NoTx
<1>3. WalletTypes'
  BY <1>1 DEF WalletInv, WalletTypes, NoTx
<1>4. LockAccounts'
  <2>1. IsFiniteSet(Active') /\ Cardinality(Active') = Cardinality(Active) - 1
    BY <1>1, <1>2, FS_RemoveElement DEF WalletInv, LockAccounts
  <2>2. Cardinality(Active) \in Nat
    BY FS_CardinalityType DEF WalletInv, LockAccounts
  <2> QED
    BY <1>1, <2>1, <2>2 DEF WalletInv, LockAccounts, WalletTypes
<1>5. OwnersMatch'
  <2>1. \A u \in Active' : u \in Active /\ tx'[u] = tx[u]
    BY <1>1, <1>2 DEF Active, WalletInv, WalletTypes
  <2> QED
    BY <1>1, <2>1 DEF WalletInv, OwnersMatch
<1> QED
  BY <1>3, <1>4, <1>5 DEF WalletInv

-----------------------------------------------------------------------------
\* The invariant of the transactions holds in every reachable state.
LEMMA WalletInvHolds == WalletSpec => []WalletInv
<1>1. WalletInv /\ [WalletNext]_walletVars => WalletInv'
  <2> SUFFICES ASSUME WalletInv, [WalletNext]_walletVars
               PROVE  WalletInv'
    OBVIOUS
  <2>1. ASSUME NEW a \in Accounts, Connect(a) \/ Poll(a)
        PROVE  WalletInv'
    BY <2>1, WalletCalls
  <2>2. CASE Disconnect \/ UNCHANGED walletVars
    BY <2>2, IdleCalls
  <2>3. CASE Reset
    BY <2>3, AbandonStep DEF Reset, WalletInv, WalletTypes
  <2>4. ASSUME NEW p \in polls, PollAnswer(p)
        PROVE  WalletInv'
    <3>1. p.got \in Accounts /\ polls' \subseteq polls /\ reconnected' = reconnected
      BY <2>4 DEF PollAnswer, WalletInv, WalletTypes
    <3>2. CASE p.got # p.from
      BY <2>4, <3>1, <3>2, AbandonStep DEF PollAnswer
    <3>3. CASE p.got = p.from
      BY <2>4, <3>1, <3>3 DEF PollAnswer, WalletInv, WalletTypes, LockAccounts, OwnersMatch, Active
    <3> QED
      BY <3>2, <3>3
  <2>5. ASSUME NEW t \in Txs, Execute(t) \/ Signed(t) \/ Finish(t)
        PROVE  WalletInv'
    BY <2>5, ExecuteStep, SignedStep, FinishStep
  <2> QED
    BY <2>1, <2>2, <2>3, <2>4, <2>5 DEF WalletNext
<1> QED
  BY WalletStart, <1>1, PTL DEF WalletSpec

\* Transactions overlap, and results show on another account, only through
\* what resets, switches and reconnections left behind.
THEOREM OverlapsAreAbandoned == WalletSpec => []OnlyAbandonedOverlap
<1>1. WalletInv => OnlyAbandonedOverlap
  <2> SUFFICES ASSUME WalletInv
               PROVE  OnlyAbandonedOverlap
    OBVIOUS
  <2>1. Cardinality(Active) \in Nat
    BY FS_CardinalityType DEF WalletInv, LockAccounts
  <2>2. Cardinality(Active) <= 1 + abandoned
    BY <2>1 DEF WalletInv, LockAccounts, WalletTypes
  <2> QED
    BY <2>2 DEF WalletInv, OwnersMatch, OnlyAbandonedOverlap
<1> QED
  BY <1>1, WalletInvHolds, PTL

\* One transaction at most is on display.
WalletShows == connected \in BOOLEAN /\ (snapshot = {} \/ \E s : snapshot = {s})

\* The wallet's variables keep their types: an address is an account or none,
\* and one transaction at most is on display.
THEOREM WalletTyped == WalletSpec => []WalletTypeOK
<1>1. WalletInit => WalletShows
  BY DEF WalletInit, WalletShows, NoSnapshot
<1>2. WalletShows /\ [WalletNext]_walletVars => WalletShows'
  BY DEF WalletNext, Connect, Poll, Disconnect, Reset, PollAnswer, Abandon, Execute, Signed, Finish,
         walletVars, WalletShows, NoSnapshot
<1>3. WalletInv /\ WalletShows => WalletTypeOK
  <2> SUFFICES ASSUME WalletInv, WalletShows PROVE WalletTypeOK
    OBVIOUS
  <2>1. Cardinality(snapshot) <= 1
    <3>1. CASE snapshot = {}
      BY <3>1, FS_EmptySet
    <3>2. ASSUME NEW s, snapshot = {s} PROVE Cardinality(snapshot) <= 1
      BY <3>2, FS_Singleton
    <3> QED
      BY <3>1, <3>2 DEF WalletShows
  <2> QED
    BY <2>1 DEF WalletInv, WalletTypes, WalletShows, WalletTypeOK
<1> QED
  BY <1>1, <1>2, <1>3, WalletInvHolds, PTL DEF WalletSpec
-----------------------------------------------------------------------------
(* The services as a whole: what is proved of a part holds beside the others *)

\* A step of the whole is, for each part, one of its own or a stutter.
LEMMA PartsMoveAlone ==
    ASSUME [MCNext]_allVars
    PROVE  /\ [DailyNext]_dailyVars /\ [DigestNext]_digestVars /\ [SyncNext]_syncVars
           /\ [WalletNext]_walletVars /\ [AchievementsNext]_achievementVars
           /\ [CairoNext]_cairoVars /\ [DwtNext]_dwtVars /\ [DevicesNext]_deviceVars
<1>1. CASE MCNext
  BY <1>1 DEF MCNext, Moves
<1>2. CASE UNCHANGED allVars
  BY <1>2 DEF allVars
<1> QED
  BY <1>1, <1>2

\* A behaviour of the whole is one of each part.
LEMMA PartsBehave ==
    MCSpec => /\ DailySpec /\ DigestSpec /\ SyncSpec /\ WalletSpec /\ AchievementsSpec
              /\ CairoSpec /\ DwtSpec /\ DevicesSpec
<1>1. MCInit => /\ DailyInit /\ DigestInit /\ SyncInit /\ WalletInit /\ AchievementsInit
                /\ CairoInit /\ DwtInit /\ DevicesInit
  BY DEF MCInit
<1>2. [MCNext]_allVars => /\ [DailyNext]_dailyVars /\ [DigestNext]_digestVars
                          /\ [SyncNext]_syncVars /\ [WalletNext]_walletVars
                          /\ [AchievementsNext]_achievementVars /\ [CairoNext]_cairoVars
                          /\ [DwtNext]_dwtVars /\ [DevicesNext]_deviceVars
  BY PartsMoveAlone
<1>3. MCSpec => MCInit /\ [][MCNext]_allVars
  BY PTL DEF MCSpec
<1> QED
  BY <1>1, <1>2, <1>3, PTL
     DEF DailySpec, DigestSpec, SyncSpec, WalletSpec, AchievementsSpec, CairoSpec, DwtSpec, DevicesSpec

\* The eight components of the services keep their types side by side, for any
\* values of the constants of any of them.
THEOREM ServicesTyped == MCSpec => []ServicesTypeOK
<1>1. (/\ DailyTypeOK /\ DigestTypeOK /\ SyncTypeOK /\ WalletTypeOK /\ AchievementsTypeOK
       /\ CairoTypeOK /\ DwtTypeOK /\ DevicesTypeOK) => ServicesTypeOK
  BY DEF ServicesTypeOK
<1> QED
  BY <1>1, PartsBehave, DailyTyped, DigestTyped, SyncTyped, WalletTyped, AchievementsTyped,
     CairoTyped, TokenTyped, DevicesTyped, PTL
=============================================================================
