------------------------------ MODULE CoreGame ------------------------------
(***************************************************************************)
(* The core_game Soroban contract: day configuration, play sessions,       *)
(* guesses, settlement and player streaks.                                 *)
(*                                                                         *)
(* One action is one transaction.  A transaction that panics is rolled     *)
(* back by the host, so a rejected call is a step that is not enabled.     *)
(* Puzzle and guess commitments are opaque to the contract (only the       *)
(* all-zero guess commitment is refused) and the correctness of a guess is *)
(* an input of submit_guess, so a guess is modelled by that one Boolean.   *)
(***************************************************************************)
EXTENDS Integers, FiniteSets

CONSTANTS
    Players,            \* accounts that play
    Operators,          \* accounts that may be installed as admin
    NoAdmin,            \* value of the admin slot before init
    Nonces,             \* client-chosen u32 nonces
    Days,               \* day ids the admin configures
    AttemptCaps,        \* max_attempts values the admin submits
    CloseTimes,         \* closes_at values the admin submits
    Schedules,          \* rotation intervals the admin submits, in seconds
    MaxAttemptsLimit,   \* MAX_ATTEMPTS_LIMIT (20 in the contract)
    SecondsPerDay,      \* SECONDS_PER_DAY (86400)
    StartTime,          \* ledger timestamp at deployment
    MaxTime             \* bound of the model on the ledger timestamp

ASSUME ConstantsAssumption ==
    /\ MaxAttemptsLimit \in Nat \ {0}
    /\ SecondsPerDay \in Nat \ {0}
    /\ StartTime \in Nat
    /\ MaxTime \in Nat
    /\ Days \subseteq Nat
    /\ AttemptCaps \subseteq Nat
    /\ CloseTimes \subseteq Nat
    /\ Schedules \subseteq Nat
    /\ NoAdmin \notin Operators \cup Players

\* Ledger time is Unix time: no contract is ever deployed on 1970-01-01.  The
\* zero default of last_day_played can therefore not be mistaken for "today".
ASSUME DeployedAfterEpochDay == StartTime >= SecondsPerDay

VARIABLES
    now,          \* timestamp of the ledger being applied
    admin,        \* admin slot of instance storage
    paused,       \* DataKey::Paused
    rotateSchedule, \* "rotate_schedule" with its default of one day
    metadata,     \* the metadata slot: none, defaults of init, or updated
    dayConfig,    \* DataKey::DayConfig, a partial function of day ids
    sessions,     \* DataKey::Session, a partial function of session ids
    usedNonces,   \* DataKey::SessionNonce, the set of keys present
    streak        \* DataKey::Streak with its default

\* History of the run, read by properties only.
VARIABLES
    playedDays,   \* per player, the ledger days on which a session was finalized
    solved        \* ids of sessions that received a correct guess

vars == <<now, admin, paused, rotateSchedule, metadata, dayConfig, sessions, usedNonces,
          streak, playedDays, solved>>

-----------------------------------------------------------------------------
(* Data *)

Status == {"InProgress", "Won", "Lost", "Finalized"}

\* sha256 of (player, day, nonce, ledger sequence, ledger timestamp), taken as
\* injective; `at` stands for the ledger, sequence and timestamp together.
SessionId == [player : Players, day : Days, nonce : Nonces, at : Nat]

Session == [player : Players, day_id : Days, attempts_used : Nat,
            max_attempts : 1 .. MaxAttemptsLimit, status : Status,
            finalized : BOOLEAN, started_at : Nat]

DayConfig == [max_attempts : 1 .. MaxAttemptsLimit, closes_at : Nat]

PlayerStreak == [current : Nat, max : Nat, last_day_played : Nat]

NoStreak == [current |-> 0, max |-> 0, last_day_played |-> 0]

\* Storage maps are partial functions: the empty one, their type, a write.
NoEntries == [k \in {} |-> {}]

IsMap(f, K, V) == DOMAIN f \subseteq K /\ f \in [DOMAIN f -> V]

Put(f, k, v) == [x \in DOMAIN f \cup {k} |-> IF x = k THEN v ELSE f[x]]

CurrentDay == now \div SecondsPerDay

-----------------------------------------------------------------------------
(* Guards and results of the entry points.  A definition marked "Mutant"   *)
(* is a plausible fault of the one after it: it is used by no action, and  *)
(* shows which property would notice that fault.                           *)

RequireAdmin(c) == admin # NoAdmin /\ c = admin

RequireNotPaused == ~paused

\* Mutant: the test for zero attempts is dropped.
ValidCapFromZero(cap) == cap \in 0 .. MaxAttemptsLimit

ValidCap(cap) == cap \in 1 .. MaxAttemptsLimit

NonceKey(p, n) == <<p, n>>

\* Mutant: a consumed nonce is accepted again.
NonceNeverChecked(p, n) == TRUE

NonceFree(p, n) == NonceKey(p, n) \notin usedNonces

\* Mutant: only the status is examined, which settlement has overwritten.
SettleableAgain(s) == s.status # "InProgress"

Settleable(s) == ~s.finalized /\ s.status # "InProgress"

\* Mutant: off by one at the limit of attempts.
GuessableOncePastCap(s) == ~s.finalized /\ s.attempts_used <= s.max_attempts

Guessable(s) == ~s.finalized /\ s.attempts_used < s.max_attempts

NewSession(p, d) ==
    [player |-> p, day_id |-> d, attempts_used |-> 0,
     max_attempts |-> dayConfig[d].max_attempts,
     status |-> "InProgress", finalized |-> FALSE, started_at |-> now]

NextStatus(s, correct) ==
    IF correct THEN "Won"
    ELSE IF s.attempts_used + 1 >= s.max_attempts THEN "Lost"
    ELSE s.status

\* Mutant: the cap is re-read from the day's configuration.
AfterGuessLiveCap(s, correct) ==
    LET live == [s EXCEPT !.max_attempts = dayConfig[s.day_id].max_attempts]
    IN  [live EXCEPT !.attempts_used = @ + 1, !.status = NextStatus(live, correct)]

AfterGuess(s, correct) ==
    [s EXCEPT !.attempts_used = @ + 1, !.status = NextStatus(s, correct)]

Settled(s) == [s EXCEPT !.finalized = TRUE, !.status = "Finalized"]

\* Mutant: every settlement extends the streak unless a day was missed.
NextStreakDoubleCount(s, day) ==
    LET cur == IF s.last_day_played + 1 >= day THEN s.current + 1 ELSE 1
    IN  [current |-> cur,
         max |-> IF cur > s.max THEN cur ELSE s.max,
         last_day_played |-> day]

NextStreak(s, day) ==
    LET cur == IF s.last_day_played + 1 = day THEN s.current + 1
               ELSE IF s.last_day_played # day THEN 1
               ELSE s.current
    IN  [current |-> cur,
         max |-> IF cur > s.max THEN cur ELSE s.max,
         last_day_played |-> day]

-----------------------------------------------------------------------------
(* Initial state: the contract is deployed, init has not been called. *)

Init ==
    /\ now = StartTime
    /\ admin = NoAdmin
    /\ paused = FALSE
    /\ rotateSchedule = SecondsPerDay
    /\ metadata = "none"
    /\ dayConfig = NoEntries
    /\ sessions = NoEntries
    /\ usedNonces = {}
    /\ streak = [p \in Players |-> NoStreak]
    /\ playedDays = [p \in Players |-> {}]
    /\ solved = {}

history == <<playedDays, solved>>

Initialize(a) ==
    /\ admin = NoAdmin
    /\ admin' = a
    /\ paused' = FALSE
    /\ metadata' = "defaults"
    /\ UNCHANGED <<now, rotateSchedule, dayConfig, sessions, usedNonces, streak, history>>

Pause(c, value) ==
    /\ RequireAdmin(c)
    /\ paused' = value
    /\ UNCHANGED <<now, admin, rotateSchedule, metadata, dayConfig, sessions, usedNonces,
                  streak, history>>

\* Nothing reads the interval but its getter: current_day_id divides by the
\* constant SECONDS_PER_DAY.
SetRotateSchedule(c, secs) ==
    /\ RequireAdmin(c)
    /\ rotateSchedule' = secs
    /\ UNCHANGED <<now, admin, paused, metadata, dayConfig, sessions, usedNonces,
                  streak, history>>

\* The admin records the metadata of an upgrade; its content is not told apart.
UpdateMetadata(c) ==
    /\ RequireAdmin(c)
    /\ metadata' = "updated"
    /\ UNCHANGED <<now, admin, paused, rotateSchedule, dayConfig, sessions, usedNonces,
                  streak, history>>

\* The configuration of a day may be overwritten at any time, also while
\* sessions of that day are open.
SetDayConfig(c, d, cap, closes) ==
    /\ RequireAdmin(c)
    /\ ValidCap(cap)
    /\ dayConfig' = Put(dayConfig, d, [max_attempts |-> cap, closes_at |-> closes])
    /\ UNCHANGED <<now, admin, paused, rotateSchedule, metadata, sessions, usedNonces,
                  streak, history>>

\* `published` is TRUE in every stored configuration (set_day_config is its
\* only writer), so DayNotActive cannot occur and the field is dropped.
CreateSession(p, d, n) ==
    LET id == [player |-> p, day |-> d, nonce |-> n, at |-> now]
    IN  /\ RequireNotPaused
        /\ d \in DOMAIN dayConfig
        /\ now <= dayConfig[d].closes_at
        /\ NonceFree(p, n)
        /\ sessions' = Put(sessions, id, NewSession(p, d))
        /\ usedNonces' = usedNonces \cup {NonceKey(p, n)}
        /\ UNCHANGED <<now, admin, paused, rotateSchedule, metadata, dayConfig, streak,
                      history>>

\* Neither the status nor closes_at is examined: a session that is already Won
\* accepts further guesses while attempts remain.
SubmitGuess(p, id, correct) ==
    /\ RequireNotPaused
    /\ id \in DOMAIN sessions
    /\ sessions[id].player = p
    /\ Guessable(sessions[id])
    /\ sessions' = [sessions EXCEPT ![id] = AfterGuess(@, correct)]
    /\ solved' = IF correct THEN solved \cup {id} ELSE solved
    /\ UNCHANGED <<now, admin, paused, rotateSchedule, metadata, dayConfig, usedNonces,
                  streak, playedDays>>

\* The day credited is the day of the ledger, not the day of the session.
FinalizeSession(p, id) ==
    /\ RequireNotPaused
    /\ id \in DOMAIN sessions
    /\ sessions[id].player = p
    /\ Settleable(sessions[id])
    /\ sessions' = [sessions EXCEPT ![id] = Settled(@)]
    /\ streak' = [streak EXCEPT ![p] = NextStreak(@, CurrentDay)]
    /\ playedDays' = [playedDays EXCEPT ![p] = @ \cup {CurrentDay}]
    /\ UNCHANGED <<now, admin, paused, rotateSchedule, metadata, dayConfig, usedNonces,
                  solved>>

\* The next ledger closes; close times strictly increase.
CloseLedger(t) ==
    /\ t > now
    /\ now' = t
    /\ UNCHANGED <<admin, paused, rotateSchedule, metadata, dayConfig, sessions, usedNonces,
                  streak, history>>

AdminStep ==
    \/ \E a \in Operators : Initialize(a)
    \/ \E c \in Operators \cup Players :
          \/ \E value \in BOOLEAN : Pause(c, value)
          \/ \E secs \in Schedules : SetRotateSchedule(c, secs)
          \/ UpdateMetadata(c)
          \/ \E d \in Days, cap \in AttemptCaps, closes \in CloseTimes :
                SetDayConfig(c, d, cap, closes)

PlayerStep ==
    \E p \in Players :
       \/ \E d \in Days, n \in Nonces : CreateSession(p, d, n)
       \/ \E id \in DOMAIN sessions :
             \/ \E correct \in BOOLEAN : SubmitGuess(p, id, correct)
             \/ FinalizeSession(p, id)

Next ==
    \/ AdminStep
    \/ PlayerStep
    \/ \E t \in now + 1 .. MaxTime : CloseLedger(t)

Spec == Init /\ [][Next]_vars

-----------------------------------------------------------------------------
(* Properties *)

\* Type correctness of the contract's storage and of the history.  No budget of
\* zero attempts, or above the limit, is ever stored with a day or a session.
TypeOK ==
    /\ now \in Nat /\ now >= StartTime
    /\ admin \in Operators \cup {NoAdmin}
    /\ paused \in BOOLEAN
    /\ rotateSchedule \in Nat
    /\ metadata \in {"none", "defaults", "updated"}
    /\ IsMap(dayConfig, Days, DayConfig)
    /\ IsMap(sessions, SessionId, Session)
    /\ usedNonces \subseteq Players \X Nonces
    /\ streak \in [Players -> PlayerStreak]
    /\ playedDays \in [Players -> SUBSET Nat]
    /\ solved \subseteq DOMAIN sessions

\* What session s stored under id satisfies, `won` being the ids ever solved.
Consistent(id, s, won) ==
    /\ s.max_attempts \in 1 .. MaxAttemptsLimit
    /\ s.attempts_used <= s.max_attempts
    /\ s.status = "InProgress" => s.attempts_used < s.max_attempts /\ id \notin won
    /\ s.status = "Lost" => s.attempts_used = s.max_attempts
    /\ s.status = "Won" => id \in won
    /\ s.finalized <=> s.status = "Finalized"
    /\ s.status # "InProgress" => s.attempts_used >= 1

\* Over any interleaving of guesses, settlements and overwritten day
\* configurations: the budget of attempts is within the contract's limit and
\* is never exceeded; a session still in progress has attempts left and was
\* never solved; a lost one has spent its whole budget; `finalized` and the
\* status Finalized go together, and a decided session has been played.
SessionConsistent ==
    \A id \in DOMAIN sessions : Consistent(id, sessions[id], solved)

\* A nonce opens at most one session, whatever the day and the ledger it is
\* submitted on: sessions and consumed nonces correspond one to one.
NonceOpensOneSession ==
    /\ usedNonces = {<<id.player, id.nonce>> : id \in DOMAIN sessions}
    /\ \A id1, id2 \in DOMAIN sessions :
          id1.player = id2.player /\ id1.nonce = id2.nonce => id1 = id2

\* cur, max and last describe the non-empty set of days `played`: `last` is its
\* latest day, `cur` the length of the run of consecutive days that ends there,
\* `max` the length of its longest run.
DescribesRuns(cur, max, last, played) ==
    /\ \A d \in played : d <= last
    /\ cur \in 1 .. last
    /\ last - cur \notin played
    /\ last - cur + 1 .. last \subseteq played
    /\ \E d \in played : d .. d + max - 1 \subseteq played
    /\ \A d \in played : ~(d .. d + max \subseteq played)

\* Streak accounting (docs/gameplay/game-rules.md, "Streak calculation") against
\* the full history of a player: the three counters that update_streak derives
\* from the previous ones describe the runs of days on which the player settled
\* a session, whatever the gaps and however often the player played in a day.
StreakIsRun ==
    \A p \in Players :
       IF playedDays[p] = {} THEN streak[p] = NoStreak
       ELSE DescribesRuns(streak[p].current, streak[p].max,
                          streak[p].last_day_played, playedDays[p])

\* A streak is earned: its high-water mark never exceeds the number of
\* sessions the player has settled.
StreakEarned ==
    \A p \in Players :
       streak[p].max <=
          Cardinality({id \in DOMAIN sessions :
                          id.player = p /\ sessions[id].finalized})

\* The attempt budget of a session is the one of the day when it was opened,
\* even if the admin publishes the day again; attempts are spent one at a
\* time; a settled session is never touched again and none is ever deleted.
SessionsOnlyProgress ==
    [][/\ DOMAIN sessions \subseteq DOMAIN sessions'
       /\ \A id \in DOMAIN sessions :
             /\ sessions'[id].max_attempts = sessions[id].max_attempts
             /\ sessions'[id].attempts_used - sessions[id].attempts_used \in {0, 1}
             /\ sessions[id].finalized => sessions'[id] = sessions[id]]_vars

\* While the contract stays paused nothing a player owns can change.
PauseFreezesPlay ==
    [][paused /\ paused' => UNCHANGED <<sessions, usedNonces, streak>>]_vars

\* docs/GAME_SESSION_API.md:148 says of `lost`: "All attempts exhausted without
\* correct guess".  submit_guess does not look at the status, so a Won session
\* can be guessed on until the budget is spent and then becomes Lost.
LostMeansNeverSolved ==
    \A id \in DOMAIN sessions : sessions[id].status = "Lost" => id \notin solved
=============================================================================
