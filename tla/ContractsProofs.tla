--------------------------- MODULE ContractsProofs ---------------------------
(***************************************************************************)
(* Theorems of the smaller contracts: the achievements of Soroban, and on  *)
(* Starknet the game with its streaks and the token, for any callers,      *)
(* achievements, nonces, day length and amounts.                           *)
(***************************************************************************)
EXTENDS Achievements, CairoDeWordle, DwtToken, CountingLemmas

-----------------------------------------------------------------------------
(* The achievements.  The three parts of OneUnlockPerNonce need each other:  *)
(* an unlock may take a nonce because unused means that no achievement of    *)
(* the player carries it.                                                    *)

\* The contract's storage keeps its types.
THEOREM AchievementsTyped == AchievementsSpec => []AchievementsTypeOK
<1>1. AchievementsInit => AchievementsTypeOK
  BY DEF AchievementsInit, AchievementsTypeOK
<1>2. AchievementsTypeOK /\ [AchievementsNext]_achievementVars => AchievementsTypeOK'
  <2> SUFFICES ASSUME AchievementsTypeOK, [AchievementsNext]_achievementVars
               PROVE  AchievementsTypeOK'
    OBVIOUS
  <2> USE DEF AchievementsTypeOK
  <2>1. CASE InitContract \/ UpdateMetadata
    BY <2>1 DEF InitContract, UpdateMetadata
  <2>2. ASSUME NEW id \in AchievementIds, NEW enabled \in BOOLEAN, Define(id, enabled)
        PROVE  AchievementsTypeOK'
    BY <2>2 DEF Define
  <2>3. ASSUME NEW p \in Achievers, NEW id \in AchievementIds, NEW n \in UnlockNonces,
               UnlockAchievement(p, id, n)
        PROVE  AchievementsTypeOK'
    BY <2>3 DEF UnlockAchievement
  <2>4. CASE UNCHANGED achievementVars
    BY <2>4 DEF achievementVars
  <2> QED
    BY <2>1, <2>2, <2>3, <2>4 DEF AchievementsNext
<1> QED
  BY <1>1, <1>2, PTL DEF AchievementsSpec

-----------------------------------------------------------------------------
\* An unlock of p adds its nonce to exactly one achievement.
LEMMA UnlockAddsNonce ==
    ASSUME AchievementsTypeOK, OneUnlockPerNonce,
           NEW p \in Achievers, NEW id \in AchievementIds, NEW n \in UnlockNonces,
           UnlockAchievement(p, id, n)
    PROVE  OneUnlockPerNonce'
<1> USE NotUnlockedAssumption DEF AchievementsTypeOK
<1>1. /\ unlocked' = [unlocked EXCEPT ![p][id] = n]
      /\ spent' = [spent EXCEPT ![p] = @ \cup {n}]
      /\ definition' = definition /\ definition[id] # "none"
      /\ unlocked[p][id] = NotUnlocked /\ n \notin spent[p] /\ n # NotUnlocked
  BY DEF UnlockAchievement, UnusedNonce
<1> SUFFICES ASSUME NEW q \in Achievers
             PROVE  /\ \A i, j \in AchievementIds :
                         unlocked'[q][i] # NotUnlocked /\ unlocked'[q][i] = unlocked'[q][j] => i = j
                    /\ spent'[q] = {unlocked'[q][i] : i \in AchievementIds} \ {NotUnlocked}
                    /\ \A i \in AchievementIds :
                         unlocked'[q][i] # NotUnlocked => definition'[i] # "none"
  BY DEF OneUnlockPerNonce
<1>2. /\ \A i, j \in AchievementIds :
            unlocked[q][i] # NotUnlocked /\ unlocked[q][i] = unlocked[q][j] => i = j
      /\ spent[q] = {unlocked[q][i] : i \in AchievementIds} \ {NotUnlocked}
      /\ \A i \in AchievementIds : unlocked[q][i] # NotUnlocked => definition[i] # "none"
  BY DEF OneUnlockPerNonce
<1>3. CASE q # p
  <2>1. unlocked'[q] = unlocked[q] /\ spent'[q] = spent[q]
    BY <1>1, <1>3
  <2> QED
    BY <1>1, <1>2, <2>1
<1>4. CASE q = p
  <2>1. /\ unlocked'[p][id] = n
        /\ \A i \in AchievementIds : i # id => unlocked'[p][i] = unlocked[p][i]
        /\ spent'[p] = spent[p] \cup {n}
    BY <1>1
  <2>2. \A i \in AchievementIds : unlocked[p][i] # n
    BY <1>1, <1>2, <1>4
  <2>3. \A i, j \in AchievementIds :
          unlocked'[p][i] # NotUnlocked /\ unlocked'[p][i] = unlocked'[p][j] => i = j
    BY <1>2, <1>4, <2>1, <2>2
  <2>4. spent'[p] = {unlocked'[p][i] : i \in AchievementIds} \ {NotUnlocked}
    <3>1. ASSUME NEW x
          PROVE  x \in spent'[p] <=> x # NotUnlocked /\ \E i \in AchievementIds : x = unlocked'[p][i]
      <4>1. CASE x = n
        BY <1>1, <2>1, <4>1
      <4>2. CASE x # n
        <5>1. x \in spent'[p] <=> x \in spent[p]
          BY <2>1, <4>2
        <5>2. x \in spent[p] <=> x # NotUnlocked /\ \E i \in AchievementIds : x = unlocked[p][i]
          BY <1>2, <1>4
        <5>3. ASSUME x # NotUnlocked
              PROVE  \A i \in AchievementIds : x = unlocked[p][i] <=> x = unlocked'[p][i]
          BY <1>1, <2>1, <4>2, <5>3
        <5> QED
          BY <5>1, <5>2, <5>3
      <4> QED
        BY <4>1, <4>2
    <3> QED
      BY <3>1
  <2>5. \A i \in AchievementIds : unlocked'[p][i] # NotUnlocked => definition'[i] # "none"
    BY <1>1, <1>2, <1>4, <2>1
  <2> QED
    BY <1>4, <2>3, <2>4, <2>5
<1> QED
  BY <1>3, <1>4

\* Nonces and unlocks correspond, and what is unlocked is defined.
THEOREM NonceUnlocksOnce == AchievementsSpec => []OneUnlockPerNonce
<1>1. AchievementsInit => OneUnlockPerNonce
  <2> SUFFICES ASSUME AchievementsInit
               PROVE  OneUnlockPerNonce
    OBVIOUS
  <2>1. \A p \in Achievers : spent[p] = {} /\ \A id \in AchievementIds : unlocked[p][id] = NotUnlocked
    BY DEF AchievementsInit
  <2> QED
    BY <2>1 DEF OneUnlockPerNonce
<1>2. AchievementsTypeOK /\ OneUnlockPerNonce /\ [AchievementsNext]_achievementVars
        => OneUnlockPerNonce'
  <2> SUFFICES ASSUME AchievementsTypeOK, OneUnlockPerNonce, [AchievementsNext]_achievementVars
               PROVE  OneUnlockPerNonce'
    OBVIOUS
  <2>1. CASE InitContract \/ UpdateMetadata \/ UNCHANGED achievementVars
    BY <2>1 DEF InitContract, UpdateMetadata, achievementVars, OneUnlockPerNonce
  <2>2. ASSUME NEW id \in AchievementIds, NEW enabled \in BOOLEAN, Define(id, enabled)
        PROVE  OneUnlockPerNonce'
    <3>1. \A i \in AchievementIds : definition[i] # "none" => definition'[i] # "none"
      BY <2>2 DEF Define, AchievementsTypeOK
    <3>2. unlocked' = unlocked /\ spent' = spent
      BY <2>2 DEF Define
    <3> QED
      BY <3>1, <3>2 DEF OneUnlockPerNonce
  <2>3. ASSUME NEW p \in Achievers, NEW id \in AchievementIds, NEW n \in UnlockNonces,
               UnlockAchievement(p, id, n)
        PROVE  OneUnlockPerNonce'
    BY <2>3, UnlockAddsNonce
  <2> QED
    BY <2>1, <2>2, <2>3 DEF AchievementsNext
<1> QED
  BY <1>1, <1>2, AchievementsTyped, PTL DEF AchievementsSpec

\* No later call takes an unlock away or changes its nonce.
THEOREM UnlocksFinal == AchievementsSpec => UnlocksAreFinal
<1>1. AchievementsTypeOK /\ [AchievementsNext]_achievementVars =>
        [\A p \in Achievers, id \in AchievementIds :
            unlocked[p][id] # NotUnlocked => unlocked'[p][id] = unlocked[p][id]]_achievementVars
  <2> SUFFICES ASSUME AchievementsTypeOK, AchievementsNext,
                      NEW p \in Achievers, NEW id \in AchievementIds,
                      unlocked[p][id] # NotUnlocked
               PROVE  unlocked'[p][id] = unlocked[p][id]
    OBVIOUS
  <2>1. CASE unlocked' = unlocked
    BY <2>1
  <2>2. ASSUME NEW q \in Achievers, NEW i \in AchievementIds, NEW n \in UnlockNonces,
               UnlockAchievement(q, i, n)
        PROVE  unlocked'[p][id] = unlocked[p][id]
    BY <2>2 DEF UnlockAchievement, AchievementsTypeOK
  <2> QED
    BY <2>1, <2>2 DEF AchievementsNext, InitContract, UpdateMetadata, Define
<1> QED
  BY <1>1, AchievementsTyped, PTL DEF AchievementsSpec, UnlocksAreFinal

-----------------------------------------------------------------------------
(* The Starknet contract: a streak is a chain of days won *)

ChainOf(W) == {e \in W : \A x \in W : e <= x /\ x # Max(W) =>
                             \E y \in W : x < y /\ y <= x + Day}

\* A win after a gap begins a chain.
LEMMA ChainBegins ==
    ASSUME NEW W \in SUBSET Nat, NEW T \in Nat, NEW U, U = W \cup {T}, \A e \in W : e < T,
           W = {} \/ \E m \in W : T > m + Day /\ \A e \in W : e <= m
    PROVE  Chain(U) = 1
<1>1. U \in SUBSET Nat /\ T \in U /\ \A e \in U : e <= T
  OBVIOUS
<1>2. Max(U) = T
  BY <1>1, MaxIs
<1>3. T \in ChainOf(U)
  <2>1. ASSUME NEW x \in U, T <= x, x # T PROVE FALSE
    BY <1>1, <2>1
  <2> QED
    BY <1>1, <1>2, <2>1 DEF ChainOf
<1>4. ASSUME NEW e \in W PROVE e \notin ChainOf(U)
  <2>1. PICK m \in W : T > m + Day /\ \A d \in W : d <= m
    BY <1>4
  <2>2. m \in U /\ e <= m /\ m # T
    BY <2>1
  <2>3. ASSUME NEW y \in U, m < y, y <= m + Day PROVE FALSE
    <3>1. CASE y \in W
      BY <2>1, <2>3, <3>1
    <3>2. CASE y = T
      BY <2>1, <2>3, <3>2, CairoAssumption
    <3> QED
      BY <3>1, <3>2
  <2> QED
    BY <1>2, <2>2, <2>3 DEF ChainOf
<1>5. ChainOf(U) = {T}
  <2>1. ChainOf(U) \subseteq W \cup {T}
    BY DEF ChainOf
  <2> QED
    BY <1>3, <1>4, <2>1
<1> QED
  BY <1>5, FS_Singleton DEF Chain, ChainOf

\* A win within a day of the last one makes the chain one longer.
LEMMA ChainGrows ==
    ASSUME NEW W \in SUBSET Nat, IsFiniteSet(W), NEW T \in Nat, NEW U, U = W \cup {T},
           \A e \in W : e < T,
           NEW m \in W, T <= m + Day, \A e \in W : e <= m
    PROVE  Chain(U) = Chain(W) + 1
<1>1. U \in SUBSET Nat /\ T \in U /\ \A e \in U : e <= T
  OBVIOUS
<1>2. Max(U) = T /\ Max(W) = m
  BY <1>1, MaxIs
<1>3. T \in ChainOf(U)
  <2>1. ASSUME NEW x \in U, T <= x, x # T PROVE FALSE
    BY <1>1, <2>1
  <2> QED
    BY <1>1, <1>2, <2>1 DEF ChainOf
<1>4. ASSUME NEW e \in W, e \in ChainOf(U) PROVE e \in ChainOf(W)
  <2>1. ASSUME NEW x \in W, e <= x, x # m
        PROVE  \E y \in W : x < y /\ y <= x + Day
    <3>1. x \in U /\ x # T /\ x < m /\ m < T
      BY <2>1
    <3>2. PICK y \in U : x < y /\ y <= x + Day
      BY <1>2, <1>4, <2>1, <3>1 DEF ChainOf
    <3>3. CASE y \in W
      BY <3>2, <3>3
    <3>4. CASE y = T
      BY <3>1, <3>2, <3>4, CairoAssumption
    <3> QED
      BY <3>3, <3>4
  <2> QED
    BY <1>2, <2>1 DEF ChainOf
<1>5. ASSUME NEW e \in W, e \in ChainOf(W) PROVE e \in ChainOf(U)
  <2>1. ASSUME NEW x \in U, e <= x, x # T
        PROVE  \E y \in U : x < y /\ y <= x + Day
    <3>1. x \in W /\ T \in U /\ W \subseteq U
      BY <2>1
    <3>2. CASE x = m
      BY <3>1, <3>2
    <3>3. CASE x # m
      <4>1. \E y \in W : x < y /\ y <= x + Day
        BY <1>2, <1>5, <2>1, <3>1, <3>3 DEF ChainOf
      <4> QED
        BY <3>1, <4>1
    <3> QED
      BY <3>2, <3>3
  <2> QED
    BY <1>2, <2>1 DEF ChainOf
<1>6. PICK C \in SUBSET W : C = ChainOf(W)
  BY DEF ChainOf
<1>7. ChainOf(U) = C \cup {T}
  <2>1. \A e \in W : e \in ChainOf(U) <=> e \in C
    BY <1>4, <1>5, <1>6
  <2>2. ChainOf(U) \subseteq W \cup {T}
    BY DEF ChainOf
  <2> QED
    BY <1>3, <1>6, <2>1, <2>2
<1>8. T \notin C /\ IsFiniteSet(C)
  BY <1>6, FS_Subset
<1>9. Cardinality(C \cup {T}) = Cardinality(C) + 1
  BY <1>8, FS_AddElement
<1> QED
  BY <1>6, <1>7, <1>9 DEF Chain, ChainOf

\* A chain has no more links than there are winning days.
LEMMA ChainBound ==
    ASSUME NEW W, IsFiniteSet(W)
    PROVE  Chain(W) \in Nat /\ Cardinality(W) \in Nat /\ Chain(W) <= Cardinality(W)
<1>1. PICK C \in SUBSET W : C = ChainOf(W)
  BY DEF ChainOf
<1>2. IsFiniteSet(C)
  BY <1>1, FS_Subset
<1>3. Cardinality(C) <= Cardinality(W)
  BY <1>1, FS_Subset
<1>4. Cardinality(C) \in Nat /\ Cardinality(W) \in Nat
  BY <1>2, FS_CardinalityType
<1> QED
  BY <1>1, <1>3, <1>4 DEF Chain, ChainOf
CairoTypes ==
    /\ timestamp \in Nat /\ end_of_day \in Nat \ {0}
    /\ streaks \in [Callers -> Nat] /\ max_streaks \in [Callers -> Nat]
    /\ last_played \in [Callers -> Nat] /\ won_ends \in [Callers -> SUBSET Nat]

\* The last win is the latest, the end of day never falls behind it, and a
\* streak that was set back stays out of reach of the day after.
ChainKept(p) ==
    /\ IsFiniteSet(won_ends[p]) /\ last_played[p] <= end_of_day
    /\ won_ends[p] = {} => last_played[p] = 0
    /\ won_ends[p] # {} => last_played[p] \in won_ends[p]
    /\ \A e \in won_ends[p] : e <= last_played[p]
    /\ streaks[p] = 0 \/ streaks[p] = Chain(won_ends[p])
    /\ won_ends[p] # {} /\ streaks[p] = 0 => end_of_day > last_played[p] + Day
    /\ streaks[p] <= max_streaks[p] /\ max_streaks[p] <= Cardinality(won_ends[p])

CairoInv == CairoTypes /\ \A p \in Callers : ChainKept(p)

\* However the day ends, its end moves on.
LEMMA TodayMovesOn ==
    ASSUME CairoTypes
    PROVE  /\ NextMidnight \in Nat /\ NextMidnight > timestamp
           /\ Today \in Nat \ {0} /\ end_of_day <= Today
<1>1. timestamp \in Nat /\ end_of_day \in Nat \ {0} /\ Day \in Nat \ {0}
  BY CairoAssumption DEF CairoTypes
<1>2. (timestamp % Day) \in 0 .. Day - 1 /\ (timestamp % Day) <= timestamp
  BY <1>1
<1>3. PICK m \in 0 .. Day - 1 : m = timestamp % Day /\ m <= timestamp
  BY <1>2
<1>4. NextMidnight = (timestamp - m) + Day
  BY <1>3 DEF NextMidnight
<1>5. NextMidnight \in Nat /\ NextMidnight > timestamp
  BY <1>1, <1>3, <1>4
<1>6. CASE DayOver
  BY <1>1, <1>5, <1>6 DEF Today, DayOver
<1>7. CASE ~DayOver
  BY <1>1, <1>5, <1>7 DEF Today
<1> QED
  BY <1>5, <1>6, <1>7

\* Steps that move the end of the day and touch no player.
LEMMA DayStep ==
    ASSUME CairoInv, UNCHANGED <<streaks, max_streaks, last_played, won_ends>>,
           timestamp' \in Nat, end_of_day' \in Nat, end_of_day <= end_of_day'
    PROVE  CairoInv'
<1>1. CairoTypes'
  BY DEF CairoInv, CairoTypes
<1>2. ASSUME NEW p \in Callers PROVE ChainKept(p)'
  <2>1. ChainKept(p) /\ last_played[p] \in Nat /\ end_of_day \in Nat
    BY DEF CairoInv, CairoTypes
  <2>2. last_played[p] <= end_of_day'
        /\ (end_of_day > last_played[p] + Day => end_of_day' > last_played[p] + Day)
    BY <2>1, CairoAssumption DEF ChainKept
  <2> QED
    BY <2>1, <2>2 DEF ChainKept
<1> QED
  BY <1>1, <1>2 DEF CairoInv

\* A guess keeps the chains of the other players.
LEMMA OthersKept ==
    ASSUME CairoInv, NEW p \in Callers, end_of_day' = Today, UNCHANGED timestamp,
           NEW s \in Nat, streaks' = [streaks EXCEPT ![p] = s],
           NEW m \in Nat, max_streaks' = [max_streaks EXCEPT ![p] = m],
           NEW l \in Nat, last_played' = [last_played EXCEPT ![p] = l],
           NEW W \in SUBSET Nat, won_ends' = [won_ends EXCEPT ![p] = W],
           ChainKept(p)'
    PROVE  CairoInv'
<1>1. CairoTypes /\ \A q \in Callers : ChainKept(q)
  BY DEF CairoInv
<1>2. Today \in Nat \ {0} /\ end_of_day <= Today
  BY <1>1, TodayMovesOn
<1>3. CairoTypes'
  BY <1>1, <1>2 DEF CairoTypes
<1>4. ASSUME NEW q \in Callers, q # p PROVE ChainKept(q)'
  <2>1. streaks'[q] = streaks[q] /\ max_streaks'[q] = max_streaks[q]
        /\ last_played'[q] = last_played[q] /\ won_ends'[q] = won_ends[q]
    BY <1>1, <1>4 DEF CairoTypes
  <2>2. ChainKept(q) /\ last_played[q] \in Nat /\ end_of_day \in Nat
    BY <1>1 DEF CairoTypes
  <2>3. last_played[q] <= end_of_day'
        /\ (end_of_day > last_played[q] + Day => end_of_day' > last_played[q] + Day)
    BY <1>2, <2>2, CairoAssumption DEF ChainKept
  <2> QED
    BY <2>1, <2>2, <2>3 DEF ChainKept
<1> QED
  BY <1>3, <1>4 DEF CairoInv

\* What a guess is up against.
LEMMA PlayerFacts ==
    ASSUME CairoInv, NEW p \in Callers
    PROVE  /\ ChainKept(p) /\ Today \in Nat \ {0} /\ end_of_day <= Today /\ end_of_day \in Nat
           /\ streaks[p] \in Nat /\ max_streaks[p] \in Nat /\ last_played[p] \in Nat
           /\ won_ends[p] \in SUBSET Nat /\ last_played[p] <= Today
           /\ KeptStreak(p) \in Nat
           /\ Today > last_played[p] + Day => KeptStreak(p) = 0
           /\ ~(Today > last_played[p] + Day) => KeptStreak(p) = streaks[p]
<1>1. CairoTypes /\ ChainKept(p)
  BY DEF CairoInv
<1>2. Today \in Nat \ {0} /\ end_of_day <= Today /\ end_of_day \in Nat
  BY <1>1, TodayMovesOn DEF CairoTypes
<1>3. streaks[p] \in Nat /\ max_streaks[p] \in Nat /\ last_played[p] \in Nat
      /\ won_ends[p] \in SUBSET Nat
  BY <1>1 DEF CairoTypes
<1>4. last_played[p] <= Today
  BY <1>1, <1>2, <1>3 DEF ChainKept
<1> QED
  BY <1>1, <1>2, <1>3, <1>4 DEF KeptStreak

\* A wrong guess that is heard sets back a streak whose day was missed.
LEMMA GuessWrongStep ==
    ASSUME CairoInv, NEW p \in Callers, GuessWrong(p)
    PROVE  CairoInv'
<1>1. /\ end_of_day' = Today /\ streaks' = [streaks EXCEPT ![p] = KeptStreak(p)]
      /\ UNCHANGED <<timestamp, max_streaks, last_played, won_ends>>
  BY DEF GuessWrong
<1>2. /\ ChainKept(p) /\ Today \in Nat \ {0} /\ end_of_day <= Today /\ end_of_day \in Nat
      /\ streaks[p] \in Nat /\ max_streaks[p] \in Nat /\ last_played[p] \in Nat
      /\ won_ends[p] \in SUBSET Nat /\ last_played[p] <= Today
      /\ KeptStreak(p) \in Nat
      /\ Today > last_played[p] + Day => KeptStreak(p) = 0
      /\ ~(Today > last_played[p] + Day) => KeptStreak(p) = streaks[p]
  BY PlayerFacts
<1>3. PICK s \in Nat, t \in Nat : s = KeptStreak(p) /\ t = Today
  BY <1>2
<1>4. streaks' = [streaks EXCEPT ![p] = s] /\ streaks'[p] = s
  BY <1>1, <1>3 DEF CairoInv, CairoTypes
<1>5. Cardinality(won_ends[p]) \in Nat
  BY <1>2, ChainBound DEF ChainKept
<1>6. /\ s = 0 \/ s = Chain(won_ends[p])
      /\ s <= max_streaks[p]
      /\ won_ends[p] # {} /\ s = 0 => t > last_played[p] + Day
  <2>1. CASE t > last_played[p] + Day
    BY <1>2, <1>3, <2>1
  <2>2. CASE ~(t > last_played[p] + Day)
    BY <1>2, <1>3, <2>2, CairoAssumption DEF ChainKept
  <2> QED
    BY <2>1, <2>2
<1>7. ChainKept(p)'
  BY <1>1, <1>2, <1>3, <1>4, <1>6 DEF ChainKept
<1>8. /\ max_streaks' = [max_streaks EXCEPT ![p] = max_streaks[p]]
      /\ last_played' = [last_played EXCEPT ![p] = last_played[p]]
      /\ won_ends' = [won_ends EXCEPT ![p] = won_ends[p]]
  BY <1>1 DEF CairoInv, CairoTypes
<1> QED
  BY <1>1, <1>2, <1>3, <1>4, <1>7, <1>8, OthersKept

\* A first win of the day extends the chain or begins one; a further one adds
\* nothing.
LEMMA GuessRightStep ==
    ASSUME CairoInv, NEW p \in Callers, GuessRight(p)
    PROVE  CairoInv'
<1>1. end_of_day' = Today /\ UNCHANGED timestamp
  BY DEF GuessRight
<1>2. /\ ChainKept(p) /\ Today \in Nat \ {0} /\ end_of_day <= Today /\ end_of_day \in Nat
      /\ streaks[p] \in Nat /\ max_streaks[p] \in Nat /\ last_played[p] \in Nat
      /\ won_ends[p] \in SUBSET Nat /\ last_played[p] <= Today
      /\ KeptStreak(p) \in Nat
      /\ Today > last_played[p] + Day => KeptStreak(p) = 0
      /\ ~(Today > last_played[p] + Day) => KeptStreak(p) = streaks[p]
  BY PlayerFacts
<1>3. PICK k \in Nat, t \in Nat, l \in Nat, W \in SUBSET Nat :
         k = KeptStreak(p) /\ t = Today /\ l = last_played[p] /\ W = won_ends[p]
  BY <1>2
<1>4. PICK U \in SUBSET Nat : U = W \cup {t}
  BY <1>3
<1>5. won_ends' = [won_ends EXCEPT ![p] = U] /\ won_ends'[p] = U
  <2>1. won_ends' = [won_ends EXCEPT ![p] = U]
    BY <1>3, <1>4 DEF GuessRight
  <2> QED
    BY <2>1 DEF CairoInv, CairoTypes
<1>6. IsFiniteSet(W) /\ l <= t /\ t # 0 /\ \A e \in W : e <= l
  BY <1>2, <1>3 DEF ChainKept
<1>7. Chain(W) \in Nat /\ Cardinality(W) \in Nat /\ Chain(W) <= Cardinality(W)
  BY <1>6, ChainBound
<1>8. CASE FirstWin(p)
  <2>1. /\ streaks' = [streaks EXCEPT ![p] = k + 1]
        /\ max_streaks' = [max_streaks EXCEPT ![p] = IF k + 1 > @ THEN k + 1 ELSE @]
        /\ last_played' = [last_played EXCEPT ![p] = t]
    BY <1>3, <1>8 DEF GuessRight
  <2>2. t > l
    BY <1>3, <1>8 DEF FirstWin
  <2>3. \A e \in W : e < t
    BY <1>6, <2>2
  <2>4. Chain(U) = k + 1
    <3>1. CASE W = {} \/ t > l + Day
      <4>1. k = 0
        <5>1. CASE W = {}
          <6>1. Chain(W) = 0
            BY <1>6, <1>7, <5>1, FS_EmptySet
          <6> QED
            BY <1>2, <1>3, <5>1, <6>1 DEF ChainKept
        <5>2. CASE t > l + Day
          BY <1>2, <1>3, <5>2
        <5> QED
          BY <3>1, <5>1, <5>2
      <4>2. W = {} \/ \E m \in W : t > m + Day /\ \A e \in W : e <= m
        BY <1>2, <1>3, <1>6, <3>1 DEF ChainKept
      <4>3. Chain(U) = 1
        BY <1>4, <2>3, <4>2, ChainBegins
      <4> QED
        BY <4>1, <4>3
    <3>2. CASE W # {} /\ ~(t > l + Day)
      <4>1. k = Chain(W)
        BY <1>2, <1>3, <3>2, CairoAssumption DEF ChainKept
      <4>2. l \in W /\ t <= l + Day
        BY <1>2, <1>3, <3>2, CairoAssumption DEF ChainKept
      <4>3. Chain(U) = Chain(W) + 1
        BY <1>4, <1>6, <2>3, <4>2, ChainGrows
      <4> QED
        BY <4>1, <4>3
    <3> QED
      BY <3>1, <3>2
  <2>5. IsFiniteSet(U) /\ Cardinality(U) = Cardinality(W) + 1
    <3>1. t \notin W
      BY <2>3
    <3> QED
      BY <1>4, <1>6, <3>1, FS_AddElement
  <2>6. Chain(U) <= Cardinality(U)
    BY <2>5, ChainBound
  <2>7. PICK m \in Nat :
           /\ m = IF k + 1 > max_streaks[p] THEN k + 1 ELSE max_streaks[p]
           /\ k + 1 <= m /\ m <= Cardinality(U)
    <3>1. max_streaks[p] <= Cardinality(W)
      BY <1>2, <1>3 DEF ChainKept
    <3> QED
      BY <1>2, <1>7, <2>4, <2>5, <2>6, <3>1
  <2>8. /\ max_streaks' = [max_streaks EXCEPT ![p] = m]
        /\ streaks'[p] = k + 1 /\ max_streaks'[p] = m /\ last_played'[p] = t
    <3>1. max_streaks' = [max_streaks EXCEPT ![p] = m]
      BY <2>1, <2>7
    <3> QED
      BY <2>1, <3>1 DEF CairoInv, CairoTypes
  <2>9. /\ \A e \in U : e <= t
        /\ t \in U /\ k + 1 # 0 /\ t <= t
    BY <1>4, <2>3
  <2>10. ChainKept(p)'
    BY <1>1, <1>3, <1>5, <2>4, <2>5, <2>7, <2>8, <2>9 DEF ChainKept
  <2>11. PICK s \in Nat : s = k + 1
    OBVIOUS
  <2> QED
    BY <1>1, <1>5, <2>1, <2>8, <2>10, <2>11, OthersKept
<1>9. CASE ~FirstWin(p)
  <2>1. /\ streaks' = [streaks EXCEPT ![p] = k + 0]
        /\ max_streaks' = max_streaks /\ last_played' = last_played
    BY <1>3, <1>9 DEF GuessRight, CairoInv, CairoTypes
  <2>2. t = l
    BY <1>3, <1>6, <1>9 DEF FirstWin
  <2>3. k + 0 = k /\ k = streaks[p]
    BY <1>2, <1>3, <2>2, CairoAssumption
  <2>4. U = W
    <3>1. W # {}
      BY <1>2, <1>3, <1>6, <2>2 DEF ChainKept
    <3>2. l \in W
      BY <1>2, <1>3, <3>1 DEF ChainKept
    <3> QED
      BY <1>4, <2>2, <3>2
  <2>5. /\ streaks' = streaks /\ won_ends' = won_ends
    BY <1>3, <1>5, <2>1, <2>3, <2>4 DEF CairoInv, CairoTypes
  <2>6. timestamp' \in Nat /\ end_of_day' \in Nat /\ end_of_day <= end_of_day'
    BY <1>1, <1>2 DEF CairoInv, CairoTypes
  <2> QED
    BY <2>1, <2>5, <2>6, DayStep
<1> QED
  BY <1>8, <1>9

\* The invariant of the chains holds in every reachable state.
LEMMA CairoInvHolds == CairoSpec => []CairoInv
<1>1. CairoInit => CairoInv
  <2> SUFFICES ASSUME CairoInit PROVE CairoInv
    OBVIOUS
  <2>1. timestamp \in Nat /\ timestamp < Day
    BY CairoAssumption DEF CairoInit
  <2>2. PICK m \in 0 .. Day - 1 : m = timestamp % Day /\ m <= timestamp
    BY <2>1, CairoAssumption
  <2>3. end_of_day = (timestamp - m) + Day
    BY <2>2 DEF CairoInit, NextMidnight
  <2>4. end_of_day \in Nat \ {0}
    BY <2>1, <2>2, <2>3, CairoAssumption
  <2>5. CairoTypes
    BY <2>1, <2>4 DEF CairoInit, CairoTypes
  <2>6. ASSUME NEW p \in Callers PROVE ChainKept(p)
    <3>1. streaks[p] = 0 /\ max_streaks[p] = 0 /\ last_played[p] = 0 /\ won_ends[p] = {}
      BY DEF CairoInit
    <3>2. IsFiniteSet({}) /\ Cardinality({}) = 0
      BY FS_EmptySet
    <3> QED
      BY <2>4, <3>1, <3>2 DEF ChainKept
  <2> QED
    BY <2>5, <2>6 DEF CairoInv
<1>2. CairoInv /\ [CairoNext]_cairoVars => CairoInv'
  <2> SUFFICES ASSUME CairoInv, [CairoNext]_cairoVars PROVE CairoInv'
    OBVIOUS
  <2>1. timestamp \in Nat /\ end_of_day \in Nat /\ CairoTypes
    BY DEF CairoInv, CairoTypes
  <2>2. NextMidnight \in Nat /\ NextMidnight > timestamp
    BY <2>1, TodayMovesOn
  <2>3. CASE SetDailyWord
    BY <2>1, <2>3, DayStep, CairoAssumption DEF SetDailyWord, DayOver
  <2>4. CASE UpdateEndOfDay
    BY <2>1, <2>2, <2>4, DayStep DEF UpdateEndOfDay, DayOver
  <2>5. CASE Tick \/ UNCHANGED cairoVars \/ \E p \in Callers : PlayDay(p)
    BY <2>1, <2>5, DayStep DEF Tick, cairoVars, PlayDay
  <2> QED
    BY <2>3, <2>4, <2>5, GuessRightStep, GuessWrongStep DEF CairoNext
<1> QED
  BY <1>1, <1>2, PTL DEF CairoSpec

\* The streak of a player is the chain of days won that leads to the last one,
\* or was set back, and the best one lies between it and the days won, for any
\* number of players and any length of a day (dewordle.cairo).
THEOREM StreaksAreChains == CairoSpec => []StreakIsChain
<1>1. CairoInv => StreakIsChain
  BY DEF CairoInv, ChainKept, StreakIsChain
<1> QED
  BY <1>1, CairoInvHolds, PTL

\* Time, the letters of the word and the attempts left stay within their bounds.
CairoBounds ==
    /\ timestamp <= MaxTime /\ end_of_day <= MaxTime + Day /\ letters \in 0 .. 2
    /\ stat \in [Callers -> [left : 0 .. Attempts, won : BOOLEAN]]
    /\ \A p \in Callers : last_played[p] <= MaxTime + Day

\* The next midnight is at most a day away.
LEMMA MidnightBound ==
    ASSUME CairoTypes, timestamp <= MaxTime
    PROVE  NextMidnight <= MaxTime + Day
<1>1. timestamp \in Nat
  BY DEF CairoTypes
<1>2. PICK m \in 0 .. Day - 1 : m = timestamp % Day
  BY <1>1, CairoAssumption
<1> QED
  BY <1>1, <1>2, CairoAssumption DEF NextMidnight

\* A guess takes one of the attempts left, today's or those of a fresh day.
LEMMA GuessInBounds ==
    ASSUME CairoTypes, CairoBounds, NEW p \in Callers, MayGuess(p), NEW w \in BOOLEAN,
           end_of_day' = Today, stat' = [stat EXCEPT ![p] = [left |-> StatOf(p).left - 1, won |-> w]],
           last_played' = last_played \/ last_played' = [last_played EXCEPT ![p] = Today],
           UNCHANGED <<timestamp, letters>>
    PROVE  CairoBounds'
<1>1. Fresh \in [left : 0 .. Attempts, won : BOOLEAN] /\ stat[p] \in [left : 0 .. Attempts, won : BOOLEAN]
  BY CairoAssumption DEF Fresh, CairoBounds
<1>2. StatOf(p) \in [left : 0 .. Attempts, won : BOOLEAN]
  BY <1>1 DEF StatOf
<1>3. StatOf(p).left - 1 \in 0 .. Attempts
  BY <1>2, CairoAssumption DEF MayGuess
<1>4. PICK next : next = [left |-> StatOf(p).left - 1, won |-> w]
  OBVIOUS
<1>5. next \in [left : 0 .. Attempts, won : BOOLEAN]
  BY <1>3, <1>4
<1>6. stat' \in [Callers -> [left : 0 .. Attempts, won : BOOLEAN]]
  BY <1>4, <1>5 DEF CairoBounds
<1>7. Today <= MaxTime + Day
  BY MidnightBound DEF CairoBounds, Today
<1>8. \A q \in Callers : last_played'[q] <= MaxTime + Day
  BY <1>7 DEF CairoTypes, CairoBounds
<1> QED
  BY <1>6, <1>7, <1>8 DEF CairoBounds

\* The contract's storage keeps its types: nobody has more attempts than a day
\* gives, and the end of the day is never more than a day ahead of the clock.
THEOREM CairoTyped == CairoSpec => []CairoTypeOK
<1>1. CairoInit => CairoBounds
  <2> SUFFICES ASSUME CairoInit PROVE CairoBounds
    OBVIOUS
  <2>1. timestamp \in Nat /\ timestamp <= MaxTime
    BY CairoAssumption DEF CairoInit
  <2>2. PICK m \in 0 .. Day - 1 : m = timestamp % Day
    BY <2>1, CairoAssumption
  <2>3. end_of_day <= MaxTime + Day
    BY <2>1, <2>2, CairoAssumption DEF CairoInit, NextMidnight
  <2>4. \A p \in Callers : last_played[p] = 0
    BY DEF CairoInit
  <2> QED
    BY <2>1, <2>3, <2>4, CairoAssumption DEF CairoInit, CairoBounds
<1>2. CairoInv /\ CairoBounds /\ [CairoNext]_cairoVars => CairoBounds'
  <2> SUFFICES ASSUME CairoInv, CairoBounds, [CairoNext]_cairoVars PROVE CairoBounds'
    OBVIOUS
  <2>1. CairoTypes /\ timestamp \in Nat /\ timestamp <= MaxTime
    BY DEF CairoInv, CairoTypes, CairoBounds
  <2>2. CASE SetDailyWord \/ UpdateEndOfDay
    <3>1. NextMidnight <= MaxTime + Day /\ timestamp + Day <= MaxTime + Day
      BY <2>1, MidnightBound, CairoAssumption
    <3>2. end_of_day' <= MaxTime + Day /\ letters' \in 0 .. 2
          /\ UNCHANGED <<timestamp, stat, last_played>>
      BY <2>2, <3>1 DEF SetDailyWord, UpdateEndOfDay, CairoBounds
    <3> QED
      BY <3>2 DEF CairoBounds
  <2>3. CASE Tick \/ UNCHANGED cairoVars
    BY <2>1, <2>3, CairoAssumption DEF Tick, cairoVars, CairoBounds
  <2>4. ASSUME NEW p \in Callers, PlayDay(p)
        PROVE  CairoBounds'
    BY <2>4, CairoAssumption DEF PlayDay, Fresh, CairoBounds
  <2>5. ASSUME NEW p \in Callers, GuessRight(p)
        PROVE  CairoBounds'
    <3>1. last_played' = last_played \/ last_played' = [last_played EXCEPT ![p] = Today]
      <4>1. last_played' = [last_played EXCEPT ![p] = IF FirstWin(p) THEN Today ELSE @]
        BY <2>5 DEF GuessRight
      <4> QED
        BY <2>1, <4>1 DEF CairoTypes
    <3> QED
      BY <2>1, <2>5, <3>1, GuessInBounds DEF GuessRight
  <2>6. ASSUME NEW p \in Callers, GuessWrong(p)
        PROVE  CairoBounds'
    BY <2>1, <2>6, GuessInBounds DEF GuessWrong
  <2> QED
    BY <2>2, <2>3, <2>4, <2>5, <2>6 DEF CairoNext
<1>3. CairoInv /\ CairoBounds => CairoTypeOK
  BY CairoAssumption DEF CairoInv, CairoTypes, CairoBounds, CairoTypeOK
<1> QED
  BY <1>1, <1>2, <1>3, CairoInvHolds, PTL DEF CairoSpec

-----------------------------------------------------------------------------
(* The Starknet token: balances and supply *)

\* The units of token that the addresses of S hold under the balances b, one by
\* one: counting them is a way to add up balances without adding.
Units(S, b) == {k \in S \X (1 .. MaxU256) : k[2] <= b[k[1]]}

\* The equation a sum over the subsets of S satisfies.
AddsUp(g, S, b) ==
    g = [s \in SUBSET S |-> IF s = {} THEN 0
                            ELSE LET x == CHOOSE x \in s : TRUE IN b[x] + g[s \ {x}]]

\* The units of one address are as many as its balance, the rest are the others'.
LEMMA UnitsWithout ==
    ASSUME NEW S \in SUBSET Holders, NEW b \in [Holders -> Amount], NEW x \in S
    PROVE  /\ Cardinality(Units(S, b)) = b[x] + Cardinality(Units(S \ {x}, b))
           /\ Cardinality(Units(S \ {x}, b)) \in Nat
<1> DEFINE own == Units({x}, b)
           others == Units(S \ {x}, b)
<1>1. b[x] \in Nat /\ b[x] <= MaxU256 /\ MaxU256 \in Nat /\ IsFiniteSet(S)
  BY DwtAssumption, FS_Subset DEF Amount
<1>2. IsFiniteSet(1 .. MaxU256) /\ IsFiniteSet(S \ {x})
  BY <1>1, FS_Interval, FS_Subset
<1>3. IsFiniteSet((S \ {x}) \X (1 .. MaxU256))
  BY <1>2, FS_Product
<1>4. IsFiniteSet(others)
  BY <1>3, FS_Subset DEF Units
<1>5. IsFiniteSet(1 .. b[x]) /\ Cardinality(1 .. b[x]) = b[x]
  <2>1. PICK k \in Nat : k = b[x]
    BY <1>1
  <2>2. IsFiniteSet(1 .. k) /\ Cardinality(1 .. k) = k
    BY FS_Interval
  <2> QED
    BY <2>1, <2>2
<1>6. IsFiniteSet(own) /\ Cardinality(own) = b[x]
  <2> DEFINE unit == [i \in 1 .. b[x] |-> <<x, i>>]
  <2>1. own = {<<x, i>> : i \in 1 .. b[x]}
    BY <1>1 DEF Units
  <2>2. unit \in Bijection(1 .. b[x], own)
    BY <2>1 DEF Bijection, Injection, Surjection, IsInjective
  <2>3. ExistsBijection(1 .. b[x], own)
    BY <2>2 DEF ExistsBijection
  <2>4. QED
    BY <1>5, <2>3, FS_Bijection
<1>7. Units(S, b) = own \cup others /\ own \cap others = {}
  BY DEF Units
<1>8. Cardinality(own \cup others)
         = Cardinality(own) + Cardinality(others) - Cardinality(own \cap others)
  BY <1>4, <1>6, FS_Union
<1>9. Cardinality(own \cap others) = 0 /\ Cardinality(others) \in Nat
  BY <1>4, <1>7, FS_EmptySet, FS_CardinalityType
<1>10. QED
  <2> HIDE DEF own
  <2> QED
    BY <1>1, <1>6, <1>7, <1>8, <1>9

\* Nobody holds nothing.
LEMMA NoUnits == ASSUME NEW b PROVE Cardinality(Units({}, b)) = 0
<1>1. Units({}, b) = {}
  BY DEF Units
<1> QED
  BY <1>1, FS_EmptySet

\* Whatever adds up the balances counts the units: the equation has this one
\* solution.
LEMMA UnitsAddUp ==
    ASSUME NEW b \in [Holders -> Amount], NEW g, AddsUp(g, Holders, b), NEW s \in SUBSET Holders
    PROVE  g[s] = Cardinality(Units(s, b))
<1> DEFINE off == {n \in Nat : \E r \in SUBSET Holders :
                       Cardinality(r) = n /\ g[r] # Cardinality(Units(r, b))}
<1>1. ASSUME NEW r \in SUBSET Holders PROVE IsFiniteSet(r) /\ Cardinality(r) \in Nat
  BY DwtAssumption, FS_Subset, FS_CardinalityType
<1>2. off # {} => \E n \in off : \A m \in off : n <= m
  BY LeastOf
<1>3. ASSUME NEW n \in off, \A m \in off : n <= m PROVE FALSE
  <2>1. PICK r \in SUBSET Holders : Cardinality(r) = n /\ g[r] # Cardinality(Units(r, b))
    OBVIOUS
  <2>2. r # {}
    <3>1. g[{}] = 0
      BY DEF AddsUp
    <3> QED
      BY <2>1, <3>1, NoUnits
  <2>3. PICK x : x = CHOOSE y \in r : TRUE
    OBVIOUS
  <2>4. x \in r /\ g[r] = b[x] + g[r \ {x}]
    BY <2>2, <2>3 DEF AddsUp
  <2>5. Cardinality(r \ {x}) = n - 1
    BY <1>1, <2>1, <2>4, FS_RemoveElement
  <2>6. n \in Nat /\ n - 1 \in Nat /\ n - 1 \notin off
    <3>1. Cardinality(r \ {x}) \in Nat /\ n \in Nat
      BY <1>1
    <3> QED
      BY <1>3, <2>5, <3>1
  <2>7. g[r \ {x}] = Cardinality(Units(r \ {x}, b))
    BY <2>5, <2>6
  <2>8. QED
    BY <2>1, <2>4, <2>7, UnitsWithout
<1>4. off = {}
  BY <1>2, <1>3
<1>5. QED
  BY <1>1, <1>4

\* The sum the property speaks of is the number of units held.
LEMMA SumCountsUnits ==
    ASSUME NEW b \in [Holders -> Amount]
    PROVE  MapThenSumSet(LAMBDA h : b[h], Holders) = Cardinality(Units(Holders, b))
<1> DEFINE count == [s \in SUBSET Holders |-> Cardinality(Units(s, b))]
<1>1. AddsUp(count, Holders, b)
  <2>1. ASSUME NEW s \in SUBSET Holders, s # {}, NEW x, x = CHOOSE y \in s : TRUE
        PROVE  count[s] = b[x] + count[s \ {x}]
    BY <2>1, UnitsWithout
  <2>2. count[{}] = 0
    BY NoUnits
  <2>3. count = [s \in SUBSET Holders |-> IF s = {} THEN 0
                    ELSE LET x == CHOOSE x \in s : TRUE IN b[x] + count[s \ {x}]]
    <3>1. \A s \in SUBSET Holders :
             count[s] = IF s = {} THEN 0
                        ELSE LET x == CHOOSE x \in s : TRUE IN b[x] + count[s \ {x}]
      BY <2>1, <2>2
    <3>2. count = [s \in SUBSET Holders |-> count[s]]
      OBVIOUS
    <3> HIDE DEF count
    <3> QED
      BY <3>1, <3>2
  <2> QED
    BY <2>3 DEF AddsUp
<1>2. PICK g : g = CHOOSE f : AddsUp(f, Holders, b)
  OBVIOUS
<1>3. AddsUp(g, Holders, b)
  <2> HIDE DEF count
  <2> QED
    BY <1>1, <1>2
<1>4. MapThenSumSet(LAMBDA h : b[h], Holders) = g[Holders]
  BY <1>2 DEF MapThenSumSet, MapThenFoldSet, AddsUp
<1>5. QED
  BY <1>3, <1>4, UnitsAddUp

\* Changing one balance changes the number of units by as much.
LEMMA UnitsChange ==
    ASSUME NEW b \in [Holders -> Amount], NEW c \in [Holders -> Amount], NEW x \in Holders,
           \A y \in Holders : y # x => b[y] = c[y]
    PROVE  /\ Cardinality(Units(Holders, c)) + b[x] = Cardinality(Units(Holders, b)) + c[x]
           /\ Cardinality(Units(Holders, b)) \in Nat /\ Cardinality(Units(Holders, c)) \in Nat
<1>1. Units(Holders \ {x}, b) = Units(Holders \ {x}, c)
  BY DEF Units
<1>2. b[x] \in Nat /\ c[x] \in Nat
  BY DwtAssumption DEF Amount
<1>3. PICK n : n = Cardinality(Units(Holders \ {x}, b))
  OBVIOUS
<1>4. n \in Nat /\ Cardinality(Units(Holders, b)) = b[x] + n
               /\ Cardinality(Units(Holders, c)) = c[x] + n
  BY <1>1, <1>3, UnitsWithout
<1>5. QED
  BY <1>2, <1>4

\* The invariant that is proved: types, and the units add up to the supply.
TokenInv == DwtTypeOK /\ Cardinality(Units(Holders, balances)) = totalSupply + selfSent

\* Nobody holds anything of nothing.
LEMMA TokenInit == DwtInit => TokenInv
<1> SUFFICES ASSUME DwtInit PROVE TokenInv
  OBVIOUS
<1>1. DwtTypeOK
  BY DwtAssumption DEF DwtInit, DwtTypeOK, Amount
<1>2. Units(Holders, balances) = {}
  BY DwtAssumption DEF DwtInit, Units
<1>3. QED
  BY <1>1, <1>2, FS_EmptySet DEF TokenInv, DwtInit

\* Moving an amount moves as many units, or makes them when it goes to its sender.
LEMMA MovedUnits ==
    ASSUME TokenInv, NEW h \in Holders, NEW g \in Holders, NEW n \in Amount, Covered(h, g, n),
           balances' = Moved(h, g, n), NoteSelf(h, g, n), UNCHANGED totalSupply
    PROVE  /\ balances' \in [Holders -> Amount] /\ selfSent' \in Nat
           /\ Cardinality(Units(Holders, balances)') = totalSupply' + selfSent'
<1>1. /\ balances \in [Holders -> Amount] /\ totalSupply \in Nat /\ selfSent \in Nat
      /\ n \in Nat /\ balances[h] \in Nat /\ balances[g] \in Nat
      /\ n <= balances[h] /\ balances[g] + n <= MaxU256 /\ MaxU256 \in Nat
      /\ Cardinality(Units(Holders, balances)) = totalSupply + selfSent
  BY DwtAssumption DEF TokenInv, DwtTypeOK, Amount, Covered
<1>2. PICK mid : mid = [balances EXCEPT ![h] = @ - n]
  OBVIOUS
<1>3. PICK after : after = balances' /\ after = [mid EXCEPT ![g] = balances[g] + n]
  BY <1>2 DEF Moved
<1>4. balances[h] - n \in Amount /\ balances[g] + n \in Amount
  BY <1>1 DEF Amount
<1>5. mid \in [Holders -> Amount] /\ after \in [Holders -> Amount]
  BY <1>1, <1>2, <1>3, <1>4
<1>6. /\ Cardinality(Units(Holders, mid)) + balances[h]
            = Cardinality(Units(Holders, balances)) + mid[h]
      /\ Cardinality(Units(Holders, mid)) \in Nat
  BY <1>1, <1>2, <1>5, UnitsChange
<1>7. /\ Cardinality(Units(Holders, after)) + mid[g]
            = Cardinality(Units(Holders, mid)) + after[g]
      /\ Cardinality(Units(Holders, after)) \in Nat
  BY <1>3, <1>5, UnitsChange
<1>8. mid[h] = balances[h] - n /\ after[g] = balances[g] + n
  BY <1>1, <1>2, <1>3, <1>5
<1>9. CASE h = g
  <2>1. selfSent' = selfSent + n
    BY <1>9 DEF NoteSelf
  <2>2. Cardinality(Units(Holders, after)) = totalSupply + selfSent + n
    BY <1>1, <1>6, <1>7, <1>8, <1>9
  <2> QED
    BY <1>1, <1>3, <1>5, <2>1, <2>2
<1>10. CASE h # g
  <2>1. selfSent' = selfSent
    BY <1>1, <1>10 DEF NoteSelf
  <2>2. mid[g] = balances[g]
    BY <1>1, <1>2, <1>10
  <2>3. Cardinality(Units(Holders, mid)) + n = totalSupply + selfSent
    BY <1>1, <1>6, <1>8
  <2>4. Cardinality(Units(Holders, after)) = Cardinality(Units(Holders, mid)) + n
    <3>1. PICK u \in Nat, v \in Nat, k \in Nat :
             /\ u = Cardinality(Units(Holders, after)) /\ v = Cardinality(Units(Holders, mid))
             /\ k = balances[g]
      BY <1>1, <1>6, <1>7
    <3>2. u + k = v + (k + n)
      BY <1>7, <1>8, <2>2, <3>1
    <3>3. u = v + n
      BY <1>1, <3>2
    <3> QED
      BY <3>1, <3>3
  <2>5. Cardinality(Units(Holders, after)) = totalSupply + selfSent
    BY <2>3, <2>4
  <2> QED
    BY <1>1, <1>3, <1>5, <2>1, <2>5
<1>11. QED
  BY <1>9, <1>10

\* Every transaction keeps the units and the supply together.
LEMMA TokenStep == TokenInv /\ [DwtNext]_dwtVars => TokenInv'
<1> SUFFICES ASSUME TokenInv, [DwtNext]_dwtVars PROVE TokenInv'
  OBVIOUS
<1>1. DwtTypeOK /\ Cardinality(Units(Holders, balances)) = totalSupply + selfSent
  BY DEF TokenInv
<1>2. ASSUME NEW h \in Holders, NEW g \in Holders, NEW n \in Amount, Transfer(h, g, n)
      PROVE  TokenInv'
  <2>1. /\ Covered(h, g, n) /\ balances' = Moved(h, g, n) /\ NoteSelf(h, g, n)
        /\ UNCHANGED <<allowances, totalSupply>>
    BY <1>2 DEF Transfer
  <2>2. /\ balances' \in [Holders -> Amount] /\ selfSent' \in Nat
        /\ Cardinality(Units(Holders, balances)') = totalSupply' + selfSent'
    BY <2>1, MovedUnits
  <2> QED
    BY <1>1, <2>1, <2>2 DEF TokenInv, DwtTypeOK
<1>3. ASSUME NEW s \in Holders, NEW h \in Holders, NEW g \in Holders, NEW n \in Amount,
             TransferFrom(s, h, g, n)
      PROVE  TokenInv'
  <2>1. /\ Covered(h, g, n) /\ balances' = Moved(h, g, n) /\ NoteSelf(h, g, n)
        /\ UNCHANGED totalSupply
        /\ n <= allowances[<<h, s>>]
        /\ allowances' = [allowances EXCEPT ![<<h, s>>] = @ - n]
    BY <1>3 DEF TransferFrom
  <2>2. /\ balances' \in [Holders -> Amount] /\ selfSent' \in Nat
        /\ Cardinality(Units(Holders, balances)') = totalSupply' + selfSent'
    BY <2>1, MovedUnits
  <2>3. allowances[<<h, s>>] - n \in Amount
    BY <1>1, <2>1, DwtAssumption DEF DwtTypeOK, Amount
  <2>4. allowances' \in [Holders \X Holders -> Amount]
    BY <1>1, <2>1, <2>3 DEF DwtTypeOK
  <2> QED
    BY <1>1, <2>1, <2>2, <2>4 DEF TokenInv, DwtTypeOK
<1>4. ASSUME NEW h \in Holders, NEW g \in Holders, NEW n \in Amount, Approve(h, g, n)
      PROVE  TokenInv'
  BY <1>1, <1>4 DEF Approve, TokenInv, DwtTypeOK
<1>5. ASSUME NEW h \in Holders, NEW n \in Amount, Mint(h, n)
      PROVE  TokenInv'
  <2>1. /\ totalSupply + n <= MaxU256 /\ balances[h] + n <= MaxU256
        /\ totalSupply' = totalSupply + n
        /\ balances' = [balances EXCEPT ![h] = @ + n]
        /\ UNCHANGED <<allowances, selfSent>>
    BY <1>5 DEF Mint
  <2>2. /\ balances \in [Holders -> Amount] /\ balances[h] \in Nat /\ n \in Nat
        /\ totalSupply \in Nat /\ selfSent \in Nat /\ MaxU256 \in Nat
    BY <1>1, DwtAssumption DEF DwtTypeOK, Amount
  <2>3. balances[h] + n \in Amount /\ totalSupply' \in Amount
    BY <2>1, <2>2 DEF Amount
  <2>4. PICK after : after = balances' /\ after = [balances EXCEPT ![h] = @ + n]
    BY <2>1
  <2>5. after \in [Holders -> Amount] /\ after[h] = balances[h] + n
    BY <2>2, <2>3, <2>4
  <2>6. /\ Cardinality(Units(Holders, after)) + balances[h]
              = Cardinality(Units(Holders, balances)) + after[h]
        /\ Cardinality(Units(Holders, after)) \in Nat
    BY <2>2, <2>4, <2>5, UnitsChange
  <2>7. Cardinality(Units(Holders, after)) = totalSupply' + selfSent'
    BY <1>1, <2>1, <2>2, <2>5, <2>6
  <2>8. DwtTypeOK'
    BY <1>1, <2>1, <2>3, <2>4, <2>5 DEF DwtTypeOK
  <2> QED
    BY <2>4, <2>7, <2>8 DEF TokenInv
<1>6. CASE UNCHANGED dwtVars
  BY <1>1, <1>6 DEF dwtVars, tokenStorage, TokenInv, DwtTypeOK
<1>7. QED
  BY <1>2, <1>3, <1>4, <1>5, <1>6 DEF DwtNext

\* The invariant of the token holds in every reachable state.
LEMMA TokenInvHolds == DwtSpec => []TokenInv
  BY TokenInit, TokenStep, PTL DEF DwtSpec

\* For any addresses and any width of the amounts the balances add up to the
\* total supply and what was sent to its sender, over every sequence of mints,
\* approvals and transfers.
THEOREM BalancesAddUp == DwtSpec => []SupplyAccountsForBalances
<1>1. TokenInv => SupplyAccountsForBalances
  <2> SUFFICES ASSUME TokenInv PROVE SupplyAccountsForBalances
    OBVIOUS
  <2>1. PICK b : b = balances /\ b \in [Holders -> Amount]
    BY DEF TokenInv, DwtTypeOK
  <2>2. MapThenSumSet(LAMBDA h : b[h], Holders) = Cardinality(Units(Holders, b))
    BY <2>1, SumCountsUnits
  <2> QED
    BY <2>1, <2>2 DEF TokenInv, SupplyAccountsForBalances
<1> QED
  BY <1>1, TokenInvHolds, PTL

\* Balances, allowances and the supply stay within a u256, whatever is minted,
\* approved and transferred.
THEOREM TokenTyped == DwtSpec => []DwtTypeOK
<1>1. TokenInv => DwtTypeOK
  BY DEF TokenInv
<1> QED
  BY <1>1, TokenInvHolds, PTL
=============================================================================
