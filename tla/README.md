# Formal models of DeWordle

TLA+ models of the parts of DeWordle that carry game state, accounts and
money-like state, model-checked with TLC, with the main results proved for all
values of the constants with TLAPS. Paths below are relative to the root of the
source tree; "lib.rs" is the contract named in the section.

Contents: [inventory](#inventory) · [plan](#plan) · contracts:
[core_game](#coregame--the-game-contract),
[rewards](#rewards--points-and-payouts),
[achievements](#achievements--unlocks-and-their-nonces),
[Starknet](#cairodewordle-and-dwttoken--the-starknet-contracts) ·
[indexer](#indexer--the-event-pipeline) · backend:
[accounts](#refreshtokens-loginlockout-and-passwordreset--accounts),
[sessions](#gamesessions-and-wordengine--sessions-and-the-leaderboard),
[matchmaking](#matchmaking--pairs-timers-and-results),
[words](#dailywords-and-wordsuggestions--the-dictionary),
[digest](#digest--the-weekly-mail) · frontend:
[offline play](#offlinesync-and-sessionsync--the-players-browser),
[transactions](#wallettx--gameplay-transactions) ·
[composite runs](#the-composite-runs) · [proofs](#what-is-proved) ·
[limits](#what-is-not-modelled)

## Inventory

A player opens a session for a day on the `core_game` contract, submits guesses
and settles the session. Every transaction emits events. The backend's indexer
polls them into PostgreSQL and projects finalized sessions into a read model;
points are then credited on `rewards` by its admin and claimed by the player.
Next to this on-chain path the backend keeps game sessions of its own, accounts,
refresh tokens, matchmaking and a daily word, and the frontend keeps unfinished
and unsynced sessions in the browser. An older Starknet contract plays the game
without any of this.

| Part | State | Operations | Interacts with | Hard about it | Correct when |
|---|---|---|---|---|---|
| `core_game` (soroban) | admin, pause flag, metadata, day configurations, sessions, nonces, streaks | init, pause, set_rotate_schedule, update_metadata, set_day_config, create_session, submit_guess, finalize_session | indexer, through events | admin republishes days under open sessions; streak arithmetic; replayed nonces | budget is never exceeded, a settled session is final, streaks match the days played |
| `rewards` (soroban) | admin, metadata, emissions, balances, claimed totals, nonces, wins, ranks | init, update_metadata, set_emission, accrue, claim(_for), record_win, set_rank | whoever holds the admin key | u64 and u32 limits, one nonce space for two calls, two parties may claim | points are conserved, nonces accepted once |
| `achievements` (soroban) | admin, metadata, definitions, unlocks, nonces | init, define, update_metadata, unlock | admin | two uniqueness keys per unlock, definitions that change | an achievement is unlocked once, for good |
| `admin_registry`, commons (soroban) | contract and role tables | set_contract, set_role | admin | none: single-key writes | — |
| indexer (backend) | cursor row, `ingested_events`, `session_projections`, dedup cache in Redis | tick/poll, posted ingest, checkpoint, resets | RPC node, `core_game` events | overlapping polls, failure between two awaits, cache expiry, pagination | an event is projected at most once and none is skipped |
| game sessions, leaderboard (backend) | sessions, guess history, totals | create, guess, upsertEntry | word service, event emitter | read-modify-write per request | attempts are numbered, the status follows the guesses, totals are sums |
| refresh tokens (backend) | families of tokens | issue, rotate, revoke, log out | users | concurrent rotations, replay detection | one successor per token, a replay ends the wallet's sessions and nobody else's |
| login lockout (backend) | Redis counters and lock | attempt, fail, succeed, unlock | login | INCR and EXPIRE are two commands; logins overlap | the account locks at the threshold, no counter stays for ever |
| password reset (backend) | links, the user's password | forgotPassword, resetPassword | mail | check, save, delete in three steps | a link sets the password once |
| matchmaking (backend) | in-memory queue with timers, matches | enqueue, timeout, submitResult, shutdown | word service, event emitter | awaits between removing and creating | nobody is stranded, a match completes once |
| daily words (backend) | words with daily flag and date, in-memory cache | rotation by cron, retry, startup, hand; reconcile | cron | two instances, exhausted pool, late reloads | one word per day |
| word suggestions (backend) | suggestions with voters and a count | create, vote | dictionary | save re-reads and writes columns | every vote counted once |
| weekly digest (backend) | deliveries, template | run, send, record, update template | mail | send-then-record | one mail a week |
| jobs, rate limiter, pool pressure, duel gateway (backend) | Bull queues, Redis windows | enqueue, count, relay | Redis | none of their own | — |
| offline play (frontend) | session and queue of results in browser storage | play, complete, flush, reload | external sync endpoint | lost answers, overlapping flushes, reloads | a result is delivered, once |
| devices in sync (frontend) | page session, storage, header's copy, the server's active session | push, fetch, take over | external endpoint, other devices | overlapping exchanges, stale copies | the newest guess wins |
| wallet transactions (frontend) | lock, snapshot, account | execute, reset, poll, switch | wallet, RPC | the result of an old account arrives late | one transaction at a time, of the account on display |
| Starknet game (onchain) | word, per-player attempts and streaks, end of day | set_daily_word, play, guess | token, access control | the day's end is shared, moved by anyone | a streak is a run of days won |
| Starknet token (onchain) | balances, allowances, supply | transfer(_from), approve, mint | — | reads before writes | balances add up to the supply |
| CRUD, analytics, pages, scripts, infrastructure | rows, views | — | — | none of their own | — |

`PROJECT.json` lists the same parts with their status, and under `hazards` each
hard spot at its line with the properties that watch it.

## Plan

Done, in this order: **CoreGame**; **EventLedger** (what the pipeline promises)
and **Indexer**; **Rewards**; the six backend services of **MCBackend**
(RefreshTokens, LoginLockout, PasswordReset, GameSessions with WordEngine,
Matchmaking, WordSuggestions); the eight of **MCServices** (DailyWords, Digest,
OfflineSync, SessionSync, WalletTx, Achievements, CairoDeWordle, DwtToken).

Two modules of the first plan were dropped. No code composes `core_game` and
`rewards` (an admin outside the repository credits points), so a *Lifecycle*
module would model a program that is not there. `admin_registry` overwrites one
key per call; nothing about it takes more than one step.

Then the proofs: what the runs check about these modules, component by
component, for all values of the constants. Seven proof modules follow the parts of
the system (**CoreGameProofs**, **RewardsProofs**, **ContractsProofs**,
**IndexerProofs**, **AccountsProofs**, **PlayProofs**, **ServicesProofs**), and
**CountingLemmas** holds what they need about least elements and finite sets.
PlayProofs and ServicesProofs extend the composites MCBackend and MCServices and
end with what is proved of them as a whole. No safety property of a passing run is
left without a theorem.

Conventions. A definition under the comment *Mutant* is a plausible fault of the
definition that follows it; nothing uses it, and substituting it makes the
property it is paired with fail (`mutants` in `PROJECT.json`). Variables under
*History* are read by properties only. On-chain calls are one action
each: a transaction is atomic and a panic rolls it back, so a rejected call is a
disabled action and needs no step of its own. In the backend and the frontend
an action is the code between two awaits: Node runs it without interruption.
The database is PostgreSQL at READ COMMITTED: a statement sees what was
committed before it began, and an UPDATE waits for rows another transaction has
written.

## CoreGame — the game contract

`CoreGame.tla` models `soroban/contracts/core_game/src/lib.rs` with the types and
helpers of `soroban/crates`. `dayConfig` and `sessions` are the contract's
persistent maps as partial functions; `usedNonces` is the set of `SessionNonce`
keys; `streak` includes the default that `get_streak` returns. A session id is
the record of the inputs of the sha256, which is taken as injective. Whether a
guess is correct is an argument of `submit_guess`, so it is an input of the
action. `rotateSchedule` is stored and returned; no rule reads it.

What the checks say:

* `SessionConsistent` ties attempts, cap, status, `finalized` and the set of
  solved sessions together. It is the place where a dropped guard of any of the
  three session calls would show.
* `SessionsOnlyProgress` compares a session before and after every step: the
  budget is the one of the day *when the session was opened*.
* `NonceOpensOneSession`: a bijection between sessions and consumed nonces.
* `StreakIsRun` compares three incremental counters with the history of days:
  the current streak is the maximal run ending at the last day, the record is
  the longest run. `StreakEarned`: the record never exceeds
  the number of settled sessions.

`PauseFreezesPlay` (nothing a player owns changes while paused) is proved and
not run. `metadata` tells only whether the slot is empty, as `init` left it, or
updated.

`DeployedAfterEpochDay` (the first ledger is not on 1970-01-01) is an assumption
on the environment: on day zero the zero default of `last_day_played` would read
as "already played today".

| Run | Instance | Shows |
|---|---|---|
| `CoreGameRuns` | 2 players and 4 nonces in two regions (`Explored`). Rules: one session each, 2 days, caps 0..3 with limit 2, 3 ledger times. Streaks: 1 player, 4 sessions of one attempt, 5 one-second days | session rules under republished days, pause, closing times, both illegal caps; every pattern of four settlements over five days |
| `CoreGameWonLost` | 1 player, cap 2 | expected violation: a Won session becomes Lost, against docs/GAME_SESSION_API.md:148 |

The bounds cover the cases the code distinguishes: a cap of one (first wrong
guess loses) and of two (in-progress in between), a closing time passed and not
passed, same day / next day / gap for streaks, and runs broken and begun again.
The constraint keeps rotation interval and metadata, which no entry point reads,
from changing once a day is published.
The proofs below remove the bounds for every property of these runs that holds.

## Rewards — points and payouts

`Rewards.tla` models `soroban/contracts/rewards/src/lib.rs`. `claim` is
`claim_for` by the player. The two integer widths are the constants `MaxU64` and
`MaxU32`: sums of points are checked and rejected, the statistics view saturates,
and `games_won + 1` wraps, because the workspace declares no profile with
overflow checks. The reentrancy guard is entered and left within one action and
no call leaves the contract meanwhile, so it has no state here. The emission
configuration is written and never read by `accrue`; of the metadata only its
being written is kept.

* `PointsConserved`: balance plus paid-out total equals what was credited, also
  after rejected overflows and claims by the admin.
* `NonceAcceptedOnce`: over `accrue` *and* `record_win` a nonce counts once.
* `WinsCounted`: the wrapped counter is the number of distinct wins modulo 2^32.
* `TokensEarnedNeverFall`: the reported lifetime earnings never drop.

`RewardsLedger` uses two accounts (either may be admin, and the admin may also be
a player), three nonces, `MaxU64 = 3` and `MaxU32 = 1`: two accruals overflow a
balance, a payout overflows a total, and the second win wraps.

docs/architecture/threat-model.md:41 says that `claim` checks a nonce; it does
not, and needs none: a second claim pays zero.

## Achievements — unlocks and their nonces

`Achievements.tla` models `soroban/contracts/achievements/src/lib.rs`. The admin
signs every call. `define` overwrites a definition, also to disable it; `unlock`
looks at its existence only, so a disabled achievement can still be unlocked.
`OneUnlockPerNonce` relates the two uniqueness keys (per achievement, per nonce)
to each other and to the definitions: neither key can be set without the other.

## CairoDeWordle and DwtToken — the Starknet contracts

`CairoDeWordle.tla` models `onchain/src/contracts/dewordle.cairo` with time in
parts of a day. Whether a guess is right is an input. What the contract does
beside that is kept: a wrong guess reads the letters of the word, which only an
admin may do, and the comparison fails once a second word was appended to them,
so every other wrong guess reverts; the first guess after the end of the day
refreshes its caller only; `set_daily_word` moves the end to a full day from now
and not to midnight. `StreakIsChain` compares the incremental streak with the
ends of day the player won under (`won_ends`, history): zero, or the run of them
at most a day apart that leads to the last.

`DwtToken.tla` models `onchain/src/contracts/erc20.cairo`. Both balances are read
before either is written, so an address that sends to itself gains the amount:
`SupplyAccountsForBalances` is conservation with exactly that term (`selfSent`,
history). Anyone may mint, as in the code.

## Indexer — the event pipeline

`Indexer.tla` models `backend/src/indexer`. A worker is one run of the pipeline:
a poll, or one posted event. Every action is the code between two awaits, and
`pc` names the await a worker returns from next:

    idle → fetch → (dedup → mark → find → save → apply → ckread → ckselect → cksave)* → idle

with the shortcuts the code has: a dedup hit goes to the next event without a
checkpoint, an existing row skips save and projection but not the checkpoint, a
refused checkpoint saves nothing. TypeORM's `save` of the cursor is two statements:
it reads the row again and updates the columns that differ from that (`Updated`), so
two checkpoints, or a checkpoint and a reset, may leave a cursor whose ledger, hash
and index are not of one event. A reset of the cursor (`StartReset`, `ResetCursor`)
is a run of its own, through the same two halves of a save. `todo` is the rest of the
sorted page. An exception (`Fail`, `SaveConflict`) drops the page; `Crash` drops all
workers and keeps the stores. The unique index on `ingested_events` is `RowFree`.

`Pages` abstracts the RPC node: the oldest whole ledgers, the last of them cut
anywhere, at most `PageLimit` events. Events carry their rank in
`compareEventsByCursor`'s order instead of hashes, and a Boolean for the verdict
of the structural and semantic validation. `leftOut` (history) puts on record the
events that a step leaves without a row and outside every worker's page: those a
page was cut before, those that stand before an event posted by hand, and the rest
of the page of a worker whose insert is refused.

`EventLedger.tla` is what the tables promise in spite of all this: rows are
appended once, an event is projected only after its row exists and at most once
ever, and the read model changes in no other way but an operator's clearing.
`LedgerSpec` states that `Indexer` implements it.

What the checks say beyond the refinement:

* `ReadModelBacked`: every projected session has a row, and each column of the
  cursor is that of an event with a row, over overlapping runs, failures and resets.
  The three columns together need not be any event's position.
* `LossNeedsFailure`: an event whose dedup key is set but which has no row, or
  with a row that was never projected, is in the hands of a worker; only a
  failure or a crash between those awaits leaves one behind, and then for good.
* `SkipsHaveCause`: the next poll starts at the ledger after the cursor's, so a valid
  event up to the cursor is stored, in a worker's page, or lost. Without failures
  only the three causes on record lose one; overlapping polls, mixed columns, a
  cursor taken back, expired keys and resets do not.
* `NothingSkipped` is what docs/adr/0009-soroban-event-indexing.md:37 says, "This
  ensures no events are lost during downtime": no cause excuses a loss. It is false.
* `EveryEventIndexed`: polls that do not overlap catch up while a page has room for
  the backlog.

| Run | Instance | Shows |
|---|---|---|
| `IndexerConcurrent` | 2 workers, 4 events in 2 ledgers (one refused), page of 2, one failure, crash or reset (`OneMishap`), the last valid event also posted | refinement of `EventLedger`; cursor and read model come from rows; losses need a failure; skips have a cause |
| `IndexerSerial` | 1 worker, 5 events in 3 ledgers, page of 4, no failure, the first event also posted | `EveryEventIndexed` under fairness |
| `IndexerSkips` | 1 worker, ledgers of one and two events, page of 2, no failure | expected violation: the event the page cut off is never fetched |
| `IndexerStuckPage` | 1 worker, a refused event ahead of a valid one, page of 1 | expected violation: the page is fetched for ever, against docs/adr/0009:86 |
| `IndexerRegress` | 2 workers, 2 events | expected violation: the cursor goes back |
| `IndexerRebuild` | 1 worker, two resets | expected violation: a cleared read model is not rebuilt |

Two workers are the least that overlap; a third adds no new pair of awaits. In
`IndexerConcurrent` a page of 2 ends within ledger 2, next to a refused event, and
a post goes ahead of the other event of that ledger, so all three causes of
`SkipsHaveCause` occur, and so does a cursor with columns of two positions. In
`IndexerSerial` a page of 4 holds any backlog, which is the condition under which
the code catches up; the two violation runs for it and for skipping show what
happens without.

Fairness. `FairSpec` asks that a worker that can go on does (`WF` on
`WorkerStep`: promises settle) and that the scheduler fires again and again
although posted events may occupy the worker in between (`SF` on `StartPoll`:
`@Cron(EVERY_10_SECONDS)`). Nothing is asked of operators, the chain, the cache
or failures. In the fair runs `MaxFailures` is 0: with a crash between saving the
row and updating the projection, or a failure after the dedup key was set, the
code does lose the event, and no fairness brings it back.

## RefreshTokens, LoginLockout and PasswordReset — accounts

`RefreshTokens.tla` models `backend/src/auth/refresh-token.service.ts` with the
calls of `auth.service.ts`. `tokens` is the table in order of issue; a request
goes `idle → read → claim → claimed → idle` through the transaction, or to
`replay → revoking` after it. A claimed row is locked until commit; the
revocation writes the rows that were visible when its statement began, so a
successor committed in between escapes it, as in the code.

* `ChainPerFamily`: used exactly if it has one successor, of its own wallet and
  family, whatever claims overlap, fail and retry.
* `RevokedStaysUnused`: nothing revoked is exchanged later, not even by a rotation
  that had read it while it was good.
* `RevokedWithCause`: a client is logged out for a reason within its wallet
  (`presented` is history). Two rotations of one token at once are such a reason:
  the loser of the claim is taken for a replay. So is a logout during a rotation.

`LoginLockout.tla` models `account-lockout.service.ts` and
`login-attempt.store.ts` for one account. `keys` are the Redis counters, with
whether they have a time to live; `Incr` and `Expire` are two commands.
`CountersExpire`: a counter without a time to live means that a login is about to
set it, or was lost between the two (`lost`). `FailuresBounded`: overlapping
logins pass the threshold by less than their number, and while the counter stands
at it somebody is on the way to lock.

`PasswordReset.tla` models `forgotPassword` and `resetPassword` for one user.
`LinksSetOnce`: a link sets the password once and once more per use that began
while another was in progress or that did not get to delete the row; older links
are gone unless two requests were both about to store theirs (`uses`, `excuses`
and `crossed` are history). The comment at auth.service.ts:80-81 "Guarantees
expiration validation and instant replay attack execution protection", and line 108
says that a used link is "instantly" invalidated. The property promises less,
because the code does: check, save and delete are three statements without a
transaction, and a second use that begins before the delete sets the password too.

## GameSessions and WordEngine — sessions and the leaderboard

`GameSessions.tla` models `backend/src/game-sessions/game-sessions.service.ts` and
`leaderboard.service.ts`. A handler is a request between two awaits, with what it
has read. Users create sessions and go on to `FindEntry`/`SaveEntry`; guests play
guess by guess. `WordEngine.tla` is the two-pass evaluation of
`dewordle/wordle.engine.ts` over words as sequences of letters. The engine throws
for a guess of another length than the solution, so such a guess is never saved
(`SaveGuess`).

* `StatusFollowsHistory`: guesses submitted together leave a session whose status
  is the one its recorded guesses call for, at most `MAX_ATTEMPTS` of them. What
  protects it is the unique index on (session, attempt number).
* `MarksAreSound` compares the marks with a declarative reading of the board:
  exact places, as many copies as both words hold, the first ones marked.
* `BoardCountsSessions`: the totals equal the saved sessions for users none of
  whose creations overlapped or failed (`uneven`), and never exceed them.

## Matchmaking — pairs, timers and results

`Matchmaking.tla` models `backend/src/matchmaking/matchmaking.module.ts`: one
process, the queue in memory, rows in the database. `creating` and `submits` are
the calls suspended at their await. The queue is a `Map`: to take a player out
(`Without`) leaves the order of the others, and does nothing for who is not in it.

* `NobodyStranded`: each accepted join waits, is being paired, ended in a match or
  was dropped by a failed creation or a restart, exactly once; timers are those
  of the waiting players; two waiting players never suit each other.
* `CompletesOnce`: a match of two is announced at most once, and once more for each
  submission that began while another was under way and each save that failed after
  the event (`completions`, history, counts both). A match without any is announced
  exactly when both results are in, and that save completes it.

A submission is three steps: `ReadMatch`, then the event and the SELECT of TypeORM's
`save` (`CompareResult`), then the UPDATE of the columns that differ (`SaveResult`).
Of two submissions at once each may fill in its side of a match without the other's
result. Their columns then add up to both results under the status ACTIVE, and
nothing completes the match until somebody submits again; or, when the first save
falls between the second one's read and its SELECT, the second writes null over the
first one's result. Both are reached in the run and are counted as overlaps.

## DailyWords and WordSuggestions — the dictionary

`DailyWords.tla` models `backend/src/dewordle/words/word.scheduler.ts` and
`word-cache.service.ts`, with rotations of several instances. `ensureTodayWord`
reads, then writes, outside any transaction; `rotateNow` reads the word of the day
outside its transaction, then frees it, picks and flags inside. Both throw when
the pool holds no word at all.

* `OneWordPerDay`: a second word of a day is owed to a rotation that began while
  another ran (`overlaps`); a day once served keeps a word while it lasts, unless
  a rotation outlived its day (`served`, `crossed`). A day that an exhausted pool has
  left without a word (`emptied`) finds a free one at the next trigger.
* `CacheSettles`: the cache ends on the whole dictionary once no word is created,
  under fairness of the reconcile interval and of its query.

A rotation by hand takes the oldest unused word after freeing the day's own, so
it usually picks the same word again (`FreeAndFind` lets it); the comment at
word.scheduler.ts:217 speaks of a new one.

`WordSuggestions.tla` models `word-suggestions.module.ts`. TypeORM's `save` reads
the row again and writes the columns in which the copy differs: `CompareRow` and
`WriteRow`. `VotesKept`: votes are lost only if a save wrote a copy older than
the row (`stale`), and the count departs from the voters only if the row changed
between the halves of a save (`torn`).

## Digest — the weekly mail

`Digest.tla` models `backend/src/digest/digest.service.ts`: look for a row, send,
record. `MailedOnce`: one mail per recipient, plus one for each sent mail that
was not recorded and each look while another run was at the recipient
(`mishaps`); a row that says sent means a mail went out.

## OfflineSync and SessionSync — the player's browser

`OfflineSync.tla` models `frontend/src/hooks/useOfflineSession.ts`. A flush works
through the queue as it was when it began; a reload ends all flushes, enqueues a
completed session that is still in storage again, and flushes. An item that was
posted is taken out by its id (`Drop`, an `Array.filter`). The server accepts,
refuses, or accepts and the answer is lost. `ResultsDelivered`: a finished session
is in the queue until its result was accepted, and is posted twice only after a
lost answer, an enqueuing by reload or overlapping flushes (`repeated`).

`SessionSync.tla` models `hooks/useSessionSync.ts`, `lib/session-sync.ts` and
`components/HeaderSyncStatus.tsx` on several devices. `page`, `storage` and
`local` are three copies on one device: the hook's, the browser's and the
header's, which reads storage only when mounted. React renders a copy that was set
after an await at some later time (`Render`), and only then refreshes the ref that
exchanges read and answers are compared with (`localRef`); the render has an effect
that begins an exchange (`EffectRuns`). So of two answers that win between renders
the older may be adopted last. `RenderedNeverGoesBack`: between two page loads what
the device renders, and exchanges, never becomes older all the same, for each
winner was newer than the last rendered copy.
`NewestGuessKept` is what the comments say and the
code does not do: the header compares the start of the session it found.

## WalletTx — gameplay transactions

`WalletTx.tla` models `frontend/src/hooks/useGameplayTx.ts` with the account
switches of `providers/stellar-wallet-provider.tsx`. `reset` and a switch free the
lock under a transaction in progress, whose late result frees it again and goes on
display. `OnlyAbandonedOverlap` bounds what comes of this: as many further
transactions at once as were abandoned, and a result of another account only from
one left behind by a switch, unless the wallet was connected anew
(`abandoned`, `reconnected` and `left` are history). Two comments in useGameplayTx.ts
promise more than that: line 17 that the lock "prevents duplicate submissions", and
lines 20-23 that no snapshot of the previous account stays mounted after a switch.
The lock does not while an abandoned transaction is pending, and the snapshot is
cleared by the switch but written again by the late result.

## The composite runs

`MCBackend` and `MCServices` put components side by side that share no variable;
`part` says which of them moves. A behaviour of all of them is, for each, one of
its own with stuttering, and no property reads two parts, so nothing is lost by
taking them in turn, and the state spaces add up instead of multiplying.

| Run | Instance | Shows |
|---|---|---|
| `Backend` | tokens: 2 wallets, 2 requests, 3 rows, depth limit 1; lockout: 2 logins, rate limit 2, threshold 2, 2 lockouts; reset: 2 requests, 3 links, 1 failure; sessions: a user and a guest, 2 requests, 4 words of 3 letters, 2 attempts, 2 sessions; matchmaking: 3 players of skills 0, 2, 4 with tolerance 2, 1 match, 2 joins each, 2 submissions at a time, 2 excuses a match; suggestions: 3 users, 2 calls, 1 word | the twelve invariants and `RevokedStaysUnused` above |
| `Services` | words: 2 rotations, 2 to 3 words, 2 days, 2 overlaps a day, 2 reloads; digest: 2 runs, 2 recipients, 3 mails; sync: 2 flushes, 3 games, 2 posts; wallet: 2 accounts, 3 transactions, 2 polls, 2 abandoned; achievements: 2 players, 2 ids, 2 nonces; Starknet: 2 callers of whom 1 is admin, a day of 2 ticks, 2 attempts, 6 ticks, 2 token holders, amounts to 3; devices: 2 with 2 exchanges each, 3 at a time in all, 2 guesses, 2 page loads of one device or 1 of each (`Explored`) | the invariants of these eight, `CacheSettles`, `RenderedNeverGoesBack` |
| `MultiDevice` | the devices as in `Services`, 1 page load each | expected violation: a takeover drops the newest guess of a device |

Why the bounds are enough. Two of a kind are the least that race, and no code path
here distinguishes three: a third request, rotation or flush meets the same locks
and the same stale reads. Where a third matters there is one: three tokens let a
family reach its depth limit and outlive a replay; three players with skills in
a chain make the middle one suit both ends; three transactions show the lock taken
once more after a late result freed it; three voters let one vote get lost and a
third be cast; three games keep two results queued while one is played. Words of
three letters over three letters have repeats in every position against each
other. Two guesses per session separate in progress from lost and leave room for
two guesses racing for the last attempt. Three days of two ticks hold a streak,
a gap and a day ended early. Every action of every component is seen to fire.

`Backend` uses symmetry in wallets and requests, which nothing orders and no
liveness property is checked with; handlers, logins and players are told apart.
Deadlock is not checked in these runs: the bounds on rows, days and calls stop
the system, and so do the components whose work is done.

Fairness is asked of the dictionary cache alone: `WF` on `ReadDictionary` (the
interval of `reconcile` fires) and on `ReplaceCache` (a query that was sent
returns). Nothing is asked of the creation of words, which the bound stops.

## What is proved

A proof module extends the components it is about. All theorems hold for every
value of the constants that satisfies the named assumptions: any number of
players, wallets, requests, rotations, devices or holders, any bounds.

| Module | Theorems |
|---|---|
| `CoreGameProofs` | `TypeCorrect`, `SessionsConsistent`, `NoncesOpenOneSession`, `SessionsProgress`, `PausedPlayFrozen`, `StreaksDescribeHistory`, `StreaksAreEarned` |
| `RewardsProofs` | `TypeCorrect`, `PointsAreConserved`, `NoncesAcceptedOnce`, `WinsAreCounted`, `EarningsNeverFall` |
| `ContractsProofs` | `AchievementsTyped`, `NonceUnlocksOnce`, `UnlocksFinal`; `StreaksAreChains`, `CairoTyped` (Starknet game); `BalancesAddUp`, `TokenTyped` (Starknet token) |
| `IndexerProofs` | `TypeCorrect`, `ImplementsLedger` (refinement), `CursorAndReadModelBacked`, `LossesNeedFailures`, `SkipsDoHaveCauses` |
| `AccountsProofs` | `TokensFormChains`, `RevokedNeverExchanged`, `RevocationsHaveCauses`, `TokensTyped`; `CountersDoExpire`, `FailuresStayBounded`, `LockoutTyped`; `ResetLinksSetOnce`, `ResetTyped` |
| `PlayProofs` | `SessionsFollowTheirGuesses`, `LeaderboardCounts`, `MarksTellTheTruth`, `SessionsTyped`; `VotesAreKept`, `SuggestionsTyped`; `MatchesCompleteOnce`, `NobodyIsStranded`, `MatchmakingTyped`; `BackendTyped` (the composite) |
| `ServicesProofs` | `AWordADay`, `DailyTyped`; `OneMailAWeek`, `DigestTyped`; `ResultsAreDelivered`, `SyncTyped`; `RenderedCopiesNeverGoBack`, `DevicesTyped`; `OverlapsAreAbandoned`, `WalletTyped`; `ServicesTyped` (the composite) |
| `CountingLemmas` | none of its own: least elements, disjoint counts, ranks of a maximum |

### Why the invariants had to be strengthened

* `CoreGameProofs`. `SessionConsistent` alone is not inductive, because a new
  session takes its cap from the day configuration (`CapsValid`) and must be
  stored under an unused id (the nonce bijection, with `OwnerIsKey`): `SessionInv`.
  `SessionsProgress` uses the same invariant: a create must not overwrite.
  `StreaksDescribeHistory` uses that no day played lies in the future of the
  ledger, and one lemma for each branch of `update_streak` (`FirstDay`, `NextDay`,
  `LaterDay`). `StreaksAreEarned` counts: a settlement adds a session that was not
  settled before (by `SessionInv`) and raises the record by one at most.
* `RewardsProofs`. `WinsAreCounted` needs that the nonces under which a player won
  are finitely many and a win is never recorded twice under one, so that each
  `record_win` adds one to both sides of a congruence. `EarningsNeverFall` follows
  from conservation, because what was credited only grows and saturation is
  monotone.
* `ContractsProofs`. Uniqueness of unlocks alone is not inductive, for an unused
  nonce must also be on no achievement (`UnlockAddsNonce`). `StreaksAreChains` adds
  that the last win is under the latest of the ends of day won under, and that a
  streak was cut only once the day's end had moved past it by more than a day
  (`ChainKept`); then a win extends the last chain or begins one. `BalancesAddUp`
  turns the sum of the balances into the cardinality of the set of their units
  (`Units`), which a transfer moves one by one; the sum in the model is a fold, about
  which nothing can be proved by induction here.
* `IndexerProofs`. `ImplementsLedger`: a worker at `apply` is the one that inserted
  the row of its current event, no other worker is at `apply` for that event, and the
  event was not applied before (`RowsInv`); every other step maps to a stutter.
  `CursorAndReadModelBacked`: a worker past `find` holds an event that has a row, and
  each column it saves is one of that event's or of the cursor before.
  `LossesNeedFailures`: each step of a worker either keeps its event in hand or
  finishes with it. For `SkipsDoHaveCauses`, everything up to an event in a worker's
  page must be stored, in hand or on record when the worker took the page, and so
  must everything up to the cursor a poll is about to fetch after (`SkipInv`); the
  ledger of the cursor is one of those, whatever other columns it has.
* `AccountsProofs`. For `TokensFormChains`, a claimed row is unused, not revoked and
  claimed by one request (`Claims`), and a successor is younger than its
  predecessor (`Ordered`). For `RevocationsHaveCauses`, the rows of a family differ in depth
  and all but the deepest are used (`Linear`), so whoever finds a row used presents
  one that was presented before (`Presentations`). `FailuresStayBounded`: each
  failure past the threshold is owed to a login that reached it and has not cleared
  the counter yet (`FailuresOwed`). `ResetLinksSetOnce` counts the uses of a link and
  the requests that hold it against the excuses, and the rows against the crossed
  requests (`UsesExcused`, `RowsCrossed`).
* `PlayProofs`. `SessionsFollowTheirGuesses`: a handler that has read the whole
  history read it before the end of the game (`GuessesCurrent`), and the unique index
  refuses the guess of any other. `LeaderboardCounts` adds up the creations under
  way. `NobodyIsStranded` carries one account per player: joins are what waits, what
  is being paired, what was matched and what was dropped. The best opponent is the
  minimum over a filter of the queue, and two who would suit never both wait.
  `MatchesCompleteOnce`: what was announced and what the submissions in progress will
  announce is at most the excuses (`Excusable`), or one more, and then every
  submission in progress saves a completed match (`OneAhead`); without excuses there
  is one submission at a time, of a row that nobody has changed since (`Calm`).
  `MarksTellTheTruth`: the evaluation is two folds over positions, the second of
  which spends letters. Each fold is shown to equal a closed form (`EvaluateIs`: a
  letter is marked present exactly while copies of it are unplaced), from which exact
  places and the number of marked copies follow by counting. `SuggestionsTyped` is
  more than a type: that a torn save is a stale one (`torn \subseteq stale`) needs
  that, while no save of a word was stale, its row never comes back to a copy some
  call still holds (`CopiesPrecede`).
* `ServicesProofs`. `AWordADay` counts, for a day, the words that carry its date and
  will keep it against the rotations under way and the overlaps (`Counted`); a
  rotation's errand says what it may still write. After an exhausted pool the next
  flag is set together with a date, so a day without one has a free word
  (`EmptiedFindsWord`). `RenderedCopiesNeverGoBack`: whatever is adopted and not yet
  rendered is at least as new as what is rendered. `OneMailAWeek` counts mails
  against the runs that owe one (`Owing`). `ResultsAreDelivered` says of every
  finished session where its result is, and of every one that was not `repeated`
  that it is in one place only (`OneWay`). `OverlapsAreAbandoned`: a transaction in
  progress is paid for by the lock, if held, or by a time it was freed by force
  (`LockAccounts`), and what was not left behind belongs to the current account
  (`OwnersMatch`).
* The composites. A step of the whole is a step or a stutter of each part
  (`PartsMoveAlone`), so a behaviour of the whole is one of each part
  (`PartsBehave`), and every theorem of a part holds beside the others. The types
  need the inductive invariant of their component, because the ranges depend on it:
  a total of the leaderboard is bounded by the sessions saved, a word's date by the
  day of the rotation that flags it, the end of a Starknet day by the clock.

Each property was checked on its run before it was proved.

Where the model uses a fold (`MapThenSumSet`, the two passes of the evaluation, the
search for the best opponent), its value is pinned down by the recursive equation
that `Folds` gives it, and a closed form is proved by its least counterexample: the
induction theorems of the library take an operator as a parameter, which the
provers cannot instantiate.

### Assumptions on the constants

None fixes a number. On the contracts and the indexer: `ConstantsAssumption` (limits
and times are naturals, a day has a length) and `DeployedAfterEpochDay`,
`RewardsAssumption` (widths, and points within them), `NotUnlockedAssumption` and
`IndexerAssumption` (events are ordered by ledger and position, pages have room for
one). The bounds on rows and calls
(`MaxTokens`, `MaxLinks`, `Games`, `MaxGuesses`, `MaxDays`, ...) are naturals and
only stop the counters; the table of words has room for the initial ones, and the
bound on time for the first day. What runs at one time is finite (`Handlers`, `Logins`,
`ResetRequests`, `Rotations`, `Runs`, `Holders`): the invariants that count them
need it, and every process and contract has finitely many. Thresholds the code
fixes above zero are (`Threshold`, `MaxAttempts`, `Day`). Words are sequences of
letters; `Guest`, `NoPlayer` and `NoAccount` are none of those they stand beside;
skills, tolerances and token amounts are natural numbers, as validated statistics
and unsigned integers are. The set of transactions of `WalletTx`, of wallets, of
users and of players need not be finite.

### Model-checked only

* `EveryEventIndexed` and `CacheSettles`, because the proof system has no liveness
  under fairness.
* The properties the runs refute (`IndexerSkips`, `IndexerStuckPage`, `IndexerRegress`,
  `IndexerRebuild`, `CoreGameWonLost`, `MultiDevice`): they are false.

## What is not modelled

Left out of the components above, by choice:

* Contracts: pure views, event payloads, log lines, what the metadata says.
  Storage expiry is not in the source either: the contracts never extend a TTL,
  and an archived entry must be restored before use, which the models treat as
  always done.
* Indexer: metrics, the sink of malformed events, the lag and reward-summary
  views, and the in-memory admin-registry processor, which waits for
  `admin_role_registered`, a name the contract never emits (it emits `role_set`).
* Sessions: scores and wins on the leaderboard (`create` passes `win=false`, so
  wins stay 0); the `submitGuess` provider, which no route reaches. A guess by a
  user never changes anything: its query selects no status, so the call is refused.
* Accounts: uniqueness at signup, access tokens, `AuthSession` rows, which nothing
  creates. The reset saves the user entity it read; other columns are not told
  apart.
* Matchmaking: the result of a solo match may be submitted again and again.
* Words: time-zone arithmetic, scoring and enrichment. An exhausted pool leaves
  the day without a word until the next trigger, as modelled (`ResetPool`); that a
  trigger comes is not claimed.
* Offline play: storage quotas; an item that failed while online waits for the
  next trigger, as modelled. The sync endpoints are not in this repository.
* Wallet: the network guard, which only refuses, and the status beside the
  snapshot.
* Starknet: `compare_word` and its letter counts, `won_at_attempt`, the views
  (`get_player_daily_stat` reports six attempts to a player with none left), the
  embedded AccessControl and Ownable.

Components without a module:

* `admin_registry`: plain key writes by the admin. `session_rate_limit.rs` and
  `payout_throttle.rs` in the commons: no entry point calls them.
* Jobs and dead letters: thin wrappers over Bull, whose retries are the library's.
* The sliding-window limiter counts and adds in two commands and may admit the
  limit plus the requests in progress; no route uses the guard. The retry under
  pool pressure and `UserGameStats.updateStats` have no caller. The duel gateway
  relays without state. `DictionaryService` is injected nowhere.
* The SDK's transaction polling answers NOT_FOUND at once, as its test expects.
* CRUD, analytics, telemetry, health, configuration, migrations: single-row reads
  and writes without protocol.
* Pages, presentational components, the repository's maintenance scripts,
  infrastructure and end-to-end tests.

These last two make up by far the largest share of the source, which is why the
definitions here stand for a small part of its lines and for nearly all of its
state machines.
