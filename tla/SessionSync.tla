---------------------------- MODULE SessionSync ----------------------------
(***************************************************************************)
(* One player's devices following each other through the backend.  On each *)
(* device the page's session (useOfflineSession) is written to storage at  *)
(* every change; the header reads storage when it is mounted and from then *)
(* on exchanges its own copy with the server, several exchanges at a time  *)
(* if they are slow.  The exchanges read the copy of the last render; one  *)
(* that is set is theirs to see only when the page is rendered again.      *)
(* Each action is the code between two awaits, a render or an effect.  The *)
(* endpoints are external: a PATCH may be stored or lose to what the       *)
(* server has, and the active session may end.                             *)
(***************************************************************************)
EXTENDS Integers, FiniteSetsExt

CONSTANTS
    Devices,
    MaxSyncs,       \* bound: exchanges in progress per device
    MaxGuesses,     \* bound: guesses, each at a time of its own
    MaxMounts       \* bound: page loads of one device

\* Times are counted from the first guess on.
ASSUME DevicesAssumption == MaxGuesses \in Nat

VARIABLES
    page,           \* the session of the page, per device
    storage,        \* dewordle_offline_session, per device
    local,          \* the header's copy as last set, per device
    localRef,       \* the copy of the last render, per device
    pushedAt,       \* pushedAtRef, per device
    exchange,       \* per device and exchange, its next step and its state
    active,         \* the server's active session
    clock, mounts

deviceVars == <<page, storage, local, localRef, pushedAt, exchange, active, clock, mounts>>

Time == 0 .. MaxGuesses
Syncs == 1 .. MaxSyncs
NeverPushed == -1
NoRecord == [id |-> 0, guesses |-> {}, startedAt |-> 0, done |-> FALSE]
NoState == [id |-> 0, guesses |-> {}, updatedAt |-> NeverPushed]
NoExchange == [pc |-> "idle", state |-> NoState]

DevicesInit ==
    /\ page = [d \in Devices |-> NoRecord] /\ storage = page
    /\ local = [d \in Devices |-> NoState] /\ localRef = local
    /\ pushedAt = [d \in Devices |-> NeverPushed]
    /\ exchange = [d \in Devices |-> [s \in Syncs |-> NoExchange]]
    /\ active = NoState /\ clock = 0
    /\ mounts = [d \in Devices |-> 0]

-----------------------------------------------------------------------------
(* The page *)

Keep(d, record) ==
    /\ page' = [page EXCEPT ![d] = record]
    /\ storage' = [storage EXCEPT ![d] = record]
    /\ UNCHANGED <<local, localRef, pushedAt, exchange, active, mounts>>

\* submitGuess opens a session if there is none.
Guess(d) == LET now == clock + 1 IN
    /\ now <= MaxGuesses /\ clock' = now
    /\ Keep(d, IF page[d] = NoRecord
               THEN [id |-> now, guesses |-> {now}, startedAt |-> now, done |-> FALSE]
               ELSE [page[d] EXCEPT !.guesses = @ \cup {now}])

EndSession(d) ==
    /\ page[d] # NoRecord /\ UNCHANGED clock
    /\ Keep(d, [page[d] EXCEPT !.done = TRUE])

Discard(d) == page[d] # NoRecord /\ UNCHANGED clock /\ Keep(d, NoRecord)

-----------------------------------------------------------------------------
(* The header *)

\* readLocal: the start of the session passes for its last change.
ReadLocal(record) ==
    IF record = NoRecord \/ record.done THEN NoState
    ELSE [id |-> record.id, guesses |-> record.guesses, updatedAt |-> record.startedAt]

\* An exchange begins with a push unless this copy was pushed already.
NextExchange(copy, at) ==
    IF copy # NoState /\ copy.updatedAt # at THEN [pc |-> "push", state |-> copy]
    ELSE [pc |-> "fetch", state |-> NoState]

\* A page load: one exchange begins, and one more if there is a copy.
Mount(d) == LET copy == ReadLocal(storage[d]) IN
    /\ mounts[d] < MaxMounts /\ mounts' = [mounts EXCEPT ![d] = @ + 1]
    /\ page' = [page EXCEPT ![d] = storage[d]]
    /\ local' = [local EXCEPT ![d] = copy] /\ localRef' = [localRef EXCEPT ![d] = copy]
    /\ pushedAt' = [pushedAt EXCEPT ![d] = NeverPushed]
    /\ exchange' = [exchange EXCEPT ![d] = [s \in Syncs |->
                      IF s = 1 \/ (s = 2 /\ copy # NoState) THEN NextExchange(copy, NeverPushed)
                      ELSE NoExchange]]
    /\ UNCHANGED <<storage, active, clock>>

StepTo(d, s, next) == exchange' = [exchange EXCEPT ![d][s] = next]

\* The interval fires.
IntervalFires(d, s) ==
    /\ mounts[d] > 0 /\ exchange[d][s] = NoExchange
    /\ StepTo(d, s, NextExchange(localRef[d], pushedAt[d]))
    /\ UNCHANGED <<page, storage, local, localRef, pushedAt, active, clock, mounts>>

PushAnswered(d, s) == LET x == exchange[d][s] IN
    /\ x.pc = "push"
    /\ active' \in {x.state, active}
    /\ pushedAt' = [pushedAt EXCEPT ![d] = x.state.updatedAt]
    /\ StepTo(d, s, [pc |-> "fetch", state |-> NoState])
    /\ UNCHANGED <<page, storage, local, localRef, clock, mounts>>

\* The server has read the active session; its answer is on the way.
ActiveRead(d, s) ==
    /\ exchange[d][s].pc = "fetch"
    /\ StepTo(d, s, [pc |-> "resolve", state |-> active])
    /\ UNCHANGED <<page, storage, local, localRef, pushedAt, active, clock, mounts>>

\* A request fails, before or after it reached the server.
ExchangeFails(d, s) == LET x == exchange[d][s] IN
    /\ x.pc \in {"push", "fetch", "resolve"}
    /\ active' \in IF x.pc = "push" THEN {x.state, active} ELSE {active}
    /\ StepTo(d, s, NoExchange)
    /\ UNCHANGED <<page, storage, local, localRef, pushedAt, clock, mounts>>

\* Mutant: what the server has is taken whatever this device has.
RemoteWinsAlways(mine, remote) == remote # NoState

\* resolveConflict: a tie keeps the local copy.
RemoteWins(mine, remote) ==
    remote # NoState /\ (mine = NoState \/ remote.updatedAt > mine.updatedAt)

\* onRemoteState writes storage behind the page, and keeps of the record that
\* was there what the state does not say.
Adopted(record, state) ==
    [record EXCEPT !.id = state.id, !.guesses = state.guesses, !.done = FALSE]

\* The answer is compared with the copy of the last render, which an answer
\* that won since then is not yet in.
Resolve(d, s) == LET remote == exchange[d][s].state IN
    /\ exchange[d][s].pc = "resolve" /\ StepTo(d, s, NoExchange)
    /\ IF RemoteWins(localRef[d], remote)
       THEN /\ local' = [local EXCEPT ![d] = remote]
            /\ storage' = [storage EXCEPT ![d] = Adopted(@, remote)]
            /\ pushedAt' = [pushedAt EXCEPT ![d] = remote.updatedAt]
       ELSE UNCHANGED <<local, storage, pushedAt>>
    /\ UNCHANGED <<page, localRef, active, clock, mounts>>

\* The copies set since the last render are one render's; it has an effect, as
\* the time of the copy is another.  With MaxSyncs exchanges in progress the
\* effect's is one that fails at once.
Render(d) == LET free == {s \in Syncs : exchange[d][s] = NoExchange} IN
    /\ local[d] # localRef[d] /\ localRef' = [localRef EXCEPT ![d] = local[d]]
    /\ IF free = {} THEN UNCHANGED exchange
       ELSE StepTo(d, CHOOSE s \in free : TRUE, [pc |-> "effect", state |-> NoState])
    /\ UNCHANGED <<page, storage, local, pushedAt, active, clock, mounts>>

\* The effect of a render begins an exchange, like the interval.
EffectRuns(d, s) ==
    /\ exchange[d][s].pc = "effect"
    /\ StepTo(d, s, NextExchange(localRef[d], pushedAt[d]))
    /\ UNCHANGED <<page, storage, local, localRef, pushedAt, active, clock, mounts>>

\* The session is over for the server.
ActiveEnds ==
    /\ active # NoState /\ active' = NoState
    /\ UNCHANGED <<page, storage, local, localRef, pushedAt, exchange, clock, mounts>>

DevicesNext ==
    \/ \E d \in Devices :
          \/ Guess(d) \/ EndSession(d) \/ Discard(d) \/ Mount(d) \/ Render(d)
          \/ \E s \in Syncs : \/ IntervalFires(d, s) \/ EffectRuns(d, s) \/ PushAnswered(d, s)
                              \/ ActiveRead(d, s) \/ Resolve(d, s) \/ ExchangeFails(d, s)
    \/ ActiveEnds

DevicesSpec == DevicesInit /\ [][DevicesNext]_deviceVars

-----------------------------------------------------------------------------
DeviceRecord == [id : Time, guesses : SUBSET Time, startedAt : Time, done : BOOLEAN]
DeviceState == [id : Time, guesses : SUBSET Time, updatedAt : Time \cup {NeverPushed}]

DevicesTypeOK ==
    /\ page \in [Devices -> DeviceRecord] /\ storage \in [Devices -> DeviceRecord]
    /\ local \in [Devices -> DeviceState] /\ localRef \in [Devices -> DeviceState]
    /\ active \in DeviceState
    /\ pushedAt \in [Devices -> Time \cup {NeverPushed}]
    /\ \A d \in Devices, s \in Syncs :
          /\ exchange[d][s].pc \in {"idle", "effect", "push", "fetch", "resolve"}
          /\ exchange[d][s].state \in DeviceState

\* Between two page loads the copy that a device renders, and exchanges, never
\* goes back to an older one, however exchanges overlap and answers are late.
\* An answer is compared with the last rendered copy: of two that win between
\* renders the older may be the one left, in storage too, and it is still newer
\* than what it is rendered over.
RenderedNeverGoesBack ==
    [][\A d \in Devices :
          mounts'[d] = mounts[d] => localRef'[d].updatedAt >= localRef[d].updatedAt]_deviceVars

\* session-sync.ts:12, "Last-write-wins on the most recent guess submission":
\* taking over the server's state never takes a later guess off the device.
\* The header compares the start of the session it found when it was mounted.
NewestGuessKept ==
    [][\A d \in Devices :
          page' = page => \A g \in storage[d].guesses :
                             \E h \in storage'[d].guesses : h >= g]_deviceVars
=============================================================================
