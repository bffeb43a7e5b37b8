------------------------------ MODULE Rewards ------------------------------
(***************************************************************************)
(* The rewards Soroban contract: accrual of points, payouts, recorded wins *)
(* and the lifetime statistics of a player.                                *)
(*                                                                         *)
(* One action is one transaction, and a call that panics is a step that is *)
(* not enabled.  The reentrancy guard is entered and left within claim_for,*)
(* which calls no other contract.                                          *)
(***************************************************************************)
EXTENDS Integers, FiniteSets

CONSTANTS
    Accounts,       \* addresses: players, and whoever is installed as admin
    NoAdmin,        \* value of the admin slot before init
    Nonces,         \* u64 nonces chosen by the caller
    Points,         \* amounts submitted to accrue and set_emission
    DayIds,         \* days with an emission configuration
    Ranks,          \* ranks submitted to set_rank
    MaxU64,         \* u64::MAX
    MaxU32          \* u32::MAX

ASSUME RewardsAssumption ==
    /\ NoAdmin \notin Accounts
    /\ MaxU64 \in Nat
    /\ MaxU32 \in Nat
    /\ Points \subseteq 0 .. MaxU64
    /\ Ranks \subseteq 0 .. MaxU32

VARIABLES
    admin,          \* DataKey::Admin
    metadata,       \* the metadata slot: none, defaults of init, or updated
    emission,       \* DataKey::Emission, a partial function of day ids
    balance,        \* DataKey::Balance with its default
    claimed,        \* DataKey::Claimed with its default
    usedNonces,     \* DataKey::Nonce, the set of keys present
    gamesWon,       \* DataKey::GamesWon with its default
    rank            \* DataKey::Rank with its default

\* History of the run, read by properties only.
VARIABLES
    credited,       \* per player, the sum of the points of accepted accruals
    accruals,       \* per player and nonce, the accepted calls of accrue
    wins            \* per player and nonce, the accepted calls of record_win

storage == <<admin, metadata, emission, balance, claimed, usedNonces, gamesWon, rank>>
history == <<credited, accruals, wins>>
vars == <<storage, history>>

-----------------------------------------------------------------------------
(* Guards and results of the entry points.  A definition marked "Mutant"   *)
(* is a plausible fault of the one after it; no action uses it.            *)

RequireAdmin(c) == admin # NoAdmin /\ c = admin

RequireOwnerOrAdmin(c, p) == c = p \/ c = admin

\* Mutant: a consumed nonce is accepted again.
NonceNeverChecked(p, n) == TRUE

\* One key space serves accrue and record_win.
NonceFree(p, n) == <<p, n>> \notin usedNonces

\* Mutant: the sum is not checked.
FitsAlways(a, b) == TRUE

\* checked_add of two u64.
Fits(a, b) == a + b <= MaxU64

\* Mutant: the last payout replaces the lifetime total.
ClaimedAfterLastOnly(p) == balance[p]

ClaimedAfter(p) == claimed[p] + balance[p]

\* Mutant: the counter stops at its limit.
WinsAfterSaturating(p) == IF gamesWon[p] < MaxU32 THEN gamesWon[p] + 1 ELSE MaxU32

\* The workspace has no profile with overflow-checks: in the release build the
\* u32 addition wraps.
WinsAfter(p) == (gamesWon[p] + 1) % (MaxU32 + 1)

\* tokens_earned of get_player_stats.  Mutant: wrapping instead of saturating.
TokensEarnedWrapping(p) == (balance[p] + claimed[p]) % (MaxU64 + 1)

TokensEarned(p) ==
    IF Fits(balance[p], claimed[p]) THEN balance[p] + claimed[p] ELSE MaxU64

-----------------------------------------------------------------------------

Init ==
    /\ admin = NoAdmin
    /\ metadata = "none"
    /\ emission = [d \in {} |-> {}]
    /\ balance = [p \in Accounts |-> 0]
    /\ claimed = [p \in Accounts |-> 0]
    /\ usedNonces = {}
    /\ gamesWon = [p \in Accounts |-> 0]
    /\ rank = [p \in Accounts |-> 0]
    /\ credited = [p \in Accounts |-> 0]
    /\ accruals = [k \in Accounts \X Nonces |-> 0]
    /\ wins = [k \in Accounts \X Nonces |-> 0]

Initialize(a) ==
    /\ admin = NoAdmin
    /\ admin' = a
    /\ metadata' = "defaults"
    /\ UNCHANGED <<emission, balance, claimed, usedNonces, gamesWon, rank, history>>

\* Nothing but its getter reads the emission: the points of an accrual are the
\* caller's.
SetEmission(c, d, win, participation) ==
    /\ RequireAdmin(c)
    /\ emission' = [x \in DOMAIN emission \cup {d} |->
                      IF x = d THEN [win_points |-> win, participation_points |-> participation]
                      ELSE emission[x]]
    /\ UNCHANGED <<admin, metadata, balance, claimed, usedNonces, gamesWon, rank, history>>

Accrue(c, p, points, n) ==
    /\ RequireAdmin(c)
    /\ NonceFree(p, n)
    /\ Fits(balance[p], points)
    /\ balance' = [balance EXCEPT ![p] = @ + points]
    /\ usedNonces' = usedNonces \cup {<<p, n>>}
    /\ credited' = [credited EXCEPT ![p] = @ + points]
    /\ accruals' = [accruals EXCEPT ![<<p, n>>] = @ + 1]
    /\ UNCHANGED <<admin, metadata, emission, claimed, gamesWon, rank, wins>>

\* claim_for, and claim when c = p.  A payout that would overflow the lifetime
\* total is rolled back and leaves the balance where it is.
Claim(c, p) ==
    /\ admin # NoAdmin
    /\ RequireOwnerOrAdmin(c, p)
    /\ Fits(claimed[p], balance[p])
    /\ balance' = [balance EXCEPT ![p] = 0]
    /\ claimed' = [claimed EXCEPT ![p] = ClaimedAfter(p)]
    /\ UNCHANGED <<admin, metadata, emission, usedNonces, gamesWon, rank, history>>

RecordWin(c, p, n) ==
    /\ RequireAdmin(c)
    /\ NonceFree(p, n)
    /\ gamesWon' = [gamesWon EXCEPT ![p] = WinsAfter(p)]
    /\ usedNonces' = usedNonces \cup {<<p, n>>}
    /\ wins' = [wins EXCEPT ![<<p, n>>] = @ + 1]
    /\ UNCHANGED <<admin, metadata, emission, balance, claimed, rank, credited, accruals>>

SetRank(c, p, r) ==
    /\ RequireAdmin(c)
    /\ rank' = [rank EXCEPT ![p] = r]
    /\ UNCHANGED <<admin, metadata, emission, balance, claimed, usedNonces, gamesWon, history>>

\* The admin records the metadata of an upgrade; its content is not told apart.
UpdateMetadata(c) ==
    /\ RequireAdmin(c)
    /\ metadata' = "updated"
    /\ UNCHANGED <<admin, emission, balance, claimed, usedNonces, gamesWon, rank, history>>

PlayerCall(c, p) ==
    \/ Claim(c, p)
    \/ \E n \in Nonces, points \in Points : Accrue(c, p, points, n)
    \/ \E n \in Nonces : RecordWin(c, p, n)
    \/ \E r \in Ranks : SetRank(c, p, r)

Next ==
    \/ \E a \in Accounts : Initialize(a)
    \/ \E c \in Accounts : UpdateMetadata(c)
    \/ \E c \in Accounts, d \in DayIds, win, participation \in Points :
          SetEmission(c, d, win, participation)
    \/ \E c, p \in Accounts : PlayerCall(c, p)

Spec == Init /\ [][Next]_vars

-----------------------------------------------------------------------------
(* Properties *)

\* Type correctness; every stored amount fits its integer type, so the checked
\* additions are checks enough.
TypeOK ==
    /\ admin \in Accounts \cup {NoAdmin}
    /\ metadata \in {"none", "defaults", "updated"}
    /\ DOMAIN emission \subseteq DayIds
    /\ emission \in [DOMAIN emission -> [win_points : Points, participation_points : Points]]
    /\ balance \in [Accounts -> 0 .. MaxU64]
    /\ claimed \in [Accounts -> 0 .. MaxU64]
    /\ usedNonces \subseteq Accounts \X Nonces
    /\ gamesWon \in [Accounts -> 0 .. MaxU32]
    /\ rank \in [Accounts -> 0 .. MaxU32]
    /\ credited \in [Accounts -> Nat]
    /\ accruals \in [Accounts \X Nonces -> Nat]
    /\ wins \in [Accounts \X Nonces -> Nat]

\* Conservation: over accruals, payouts by the player or by the admin, and
\* rejected overflows, the points a player holds and the points paid out add
\* up to the points ever credited to that player.
PointsConserved ==
    \A p \in Accounts : balance[p] + claimed[p] = credited[p]

\* docs/tokenomics/token-distribution-model.md:55-57, "the same accrual can't be
\* replayed twice": over accrue and record_win together a nonce is accepted at
\* most once for a player, and it stays refused afterwards.
NonceAcceptedOnce ==
    \A p \in Accounts, n \in Nonces :
       accruals[<<p, n>>] + wins[<<p, n>>] = IF <<p, n>> \in usedNonces THEN 1 ELSE 0

\* games_won is the number of wins recorded under distinct nonces, modulo the
\* width of the counter.
WinsCounted ==
    \A p \in Accounts :
       gamesWon[p] = Cardinality({n \in Nonces : wins[<<p, n>>] > 0}) % (MaxU32 + 1)

\* The lifetime earnings that get_player_stats reports never fall, neither by a
\* payout nor when balance and claimed total exceed u64::MAX together.
TokensEarnedNeverFall ==
    [][\A p \in Accounts : TokensEarned(p)' >= TokensEarned(p)]_vars
=============================================================================
