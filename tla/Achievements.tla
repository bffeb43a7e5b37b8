---------------------------- MODULE Achievements ----------------------------
(***************************************************************************)
(* The achievements contract: definitions, unlocks and the nonces that     *)
(* unlocks consume.  Each call is a transaction; a call whose check fails  *)
(* panics and changes nothing.  The admin signs every call but init.       *)
(***************************************************************************)
EXTENDS Naturals, FiniteSets

CONSTANTS
    Achievers,      \* player addresses
    AchievementIds, \* symbols that name an achievement
    UnlockNonces,   \* nonces the admin may pass
    NotUnlocked     \* get_unlocked gives None

ASSUME NotUnlockedAssumption == NotUnlocked \notin UnlockNonces

VARIABLES
    admin,          \* whether DataKey::Admin is set
    definition,     \* per id: none, enabled or disabled
    unlocked,       \* per player and id, the nonce of the unlock
    spent,          \* UnlockNonce(player, nonce) is set
    metadata        \* none, defaults or updated

achievementVars == <<admin, definition, unlocked, spent, metadata>>

AchievementsInit ==
    /\ admin = FALSE /\ metadata = "none"
    /\ definition = [id \in AchievementIds |-> "none"]
    /\ unlocked = [p \in Achievers |-> [id \in AchievementIds |-> NotUnlocked]]
    /\ spent = [p \in Achievers |-> {}]

-----------------------------------------------------------------------------
InitContract ==
    /\ ~admin
    /\ admin' = TRUE /\ metadata' = "defaults"
    /\ UNCHANGED <<definition, unlocked, spent>>

\* define overwrites: it also disables and enables, and touches no unlock.
Define(id, enabled) ==
    /\ admin
    /\ definition' = [definition EXCEPT ![id] = IF enabled THEN "enabled" ELSE "disabled"]
    /\ UNCHANGED <<admin, unlocked, spent, metadata>>

UpdateMetadata ==
    /\ admin /\ metadata' = "updated"
    /\ UNCHANGED <<admin, definition, unlocked, spent>>

\* Mutant: a nonce may be used again.
AnyNonce(p, n) == TRUE

UnusedNonce(p, n) == n \notin spent[p]

\* unlock looks at the definition's existence only, not at enabled.
UnlockAchievement(p, id, n) ==
    /\ admin
    /\ definition[id] # "none"
    /\ unlocked[p][id] = NotUnlocked
    /\ UnusedNonce(p, n)
    /\ unlocked' = [unlocked EXCEPT ![p][id] = n]
    /\ spent' = [spent EXCEPT ![p] = @ \cup {n}]
    /\ UNCHANGED <<admin, definition, metadata>>

AchievementsNext ==
    \/ InitContract \/ UpdateMetadata
    \/ \E id \in AchievementIds : \E enabled \in BOOLEAN : Define(id, enabled)
    \/ \E p \in Achievers, id \in AchievementIds, n \in UnlockNonces : UnlockAchievement(p, id, n)

AchievementsSpec == AchievementsInit /\ [][AchievementsNext]_achievementVars

-----------------------------------------------------------------------------
AchievementsTypeOK ==
    /\ admin \in BOOLEAN /\ metadata \in {"none", "defaults", "updated"}
    /\ definition \in [AchievementIds -> {"none", "enabled", "disabled"}]
    /\ unlocked \in [Achievers -> [AchievementIds -> UnlockNonces \cup {NotUnlocked}]]
    /\ spent \in [Achievers -> SUBSET UnlockNonces]

\* A nonce unlocks at most one achievement of a player, every nonce marked as
\* spent has unlocked one, and nobody holds an achievement never defined,
\* through redefinitions, disabling and refused calls.
OneUnlockPerNonce ==
    \A p \in Achievers :
        /\ \A id, other \in AchievementIds :
              unlocked[p][id] # NotUnlocked /\ unlocked[p][id] = unlocked[p][other] => id = other
        /\ spent[p] = {unlocked[p][id] : id \in AchievementIds} \ {NotUnlocked}
        /\ \A id \in AchievementIds : unlocked[p][id] # NotUnlocked => definition[id] # "none"

\* An unlock is for good: no later call takes it away or gives it another nonce.
UnlocksAreFinal ==
    [][\A p \in Achievers, id \in AchievementIds :
          unlocked[p][id] # NotUnlocked => unlocked'[p][id] = unlocked[p][id]]_achievementVars
=============================================================================
