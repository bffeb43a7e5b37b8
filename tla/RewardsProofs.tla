--------------------------- MODULE RewardsProofs ---------------------------
(* Machine-checked proofs of the invariants and of the action property of  *)
(* Rewards, for every value of its constants.                              *)
EXTENDS Rewards, FiniteSetTheorems, TLAPS

-----------------------------------------------------------------------------
(* Arithmetic of the two integer widths *)

\* A checked sum of two amounts that fit is an amount that fits.
LEMMA CheckedSum ==
    ASSUME NEW a \in 0 .. MaxU64, NEW b \in 0 .. MaxU64, Fits(a, b)
    PROVE  a + b \in 0 .. MaxU64
BY RewardsAssumption DEF Fits

\* The wrapped counter fits.
LEMMA WrappedCounter ==
    ASSUME NEW m \in Nat
    PROVE  (m + 1) % (MaxU32 + 1) \in 0 .. MaxU32
BY RewardsAssumption

\* Reading get_player_stats is monotone in the points held and paid out.
LEMMA SaturatingMonotone ==
    ASSUME NEW m \in Nat, NEW n \in Nat, m <= n
    PROVE  (IF n <= MaxU64 THEN n ELSE MaxU64) >= (IF m <= MaxU64 THEN m ELSE MaxU64)
BY RewardsAssumption

-----------------------------------------------------------------------------
(* Type correctness *)

\* The amounts fit their widths at first.
LEMMA TypeInit == Init => TypeOK
BY RewardsAssumption DEF Init, TypeOK

\* Every call keeps the amounts within their widths.
LEMMA TypeStep == TypeOK /\ [Next]_vars => TypeOK'
<1> SUFFICES ASSUME TypeOK, [Next]_vars PROVE TypeOK'
  OBVIOUS
<1>1. ASSUME NEW a \in Accounts, Initialize(a) PROVE TypeOK'
  BY <1>1 DEF Initialize, history, TypeOK
<1>2. ASSUME NEW c \in Accounts, NEW d \in DayIds, NEW win \in Points,
             NEW participation \in Points, SetEmission(c, d, win, participation)
      PROVE  TypeOK'
  <2> DEFINE E == [win_points : Points, participation_points : Points]
  <2>1. /\ DOMAIN emission \subseteq DayIds
        /\ emission \in [DOMAIN emission -> E]
    BY DEF TypeOK
  <2>2. emission' = [x \in DOMAIN emission \cup {d} |->
                       IF x = d THEN [win_points |-> win, participation_points |-> participation]
                       ELSE emission[x]]
    BY <1>2 DEF SetEmission
  <2>3. [win_points |-> win, participation_points |-> participation] \in E
    OBVIOUS
  <2> HIDE DEF E
  <2>4. /\ DOMAIN emission' \subseteq DayIds
        /\ emission' \in [DOMAIN emission' -> E]
    BY <2>1, <2>2, <2>3
  <2>5. UNCHANGED <<admin, metadata, balance, claimed, usedNonces, gamesWon, rank, credited,
                    accruals, wins>>
    BY <1>2 DEF SetEmission, history
  <2>6. QED
    BY <2>4, <2>5 DEF TypeOK, E
<1>3. ASSUME NEW c, NEW p \in Accounts, NEW n \in Nonces, NEW points \in Points,
             Accrue(c, p, points, n)
      PROVE  TypeOK'
  <2>1. balance' \in [Accounts -> 0 .. MaxU64]
    <3>1. balance[p] \in 0 .. MaxU64 /\ points \in 0 .. MaxU64
      BY RewardsAssumption DEF TypeOK
    <3>2. balance[p] + points \in 0 .. MaxU64
      BY <1>3, <3>1, CheckedSum DEF Accrue
    <3>3. QED
      BY <1>3, <3>2 DEF Accrue, TypeOK
  <2>2. credited' \in [Accounts -> Nat] /\ accruals' \in [Accounts \X Nonces -> Nat]
    <3>1. credited[p] + points \in Nat /\ accruals[<<p, n>>] + 1 \in Nat
      BY RewardsAssumption DEF TypeOK
    <3>2. QED
      BY <1>3, <3>1 DEF Accrue, TypeOK
  <2>3. usedNonces' \subseteq Accounts \X Nonces
    BY <1>3 DEF Accrue, TypeOK
  <2>4. UNCHANGED <<admin, metadata, emission, claimed, gamesWon, rank, wins>>
    BY <1>3 DEF Accrue
  <2>5. QED
    BY <2>1, <2>2, <2>3, <2>4 DEF TypeOK
<1>4. ASSUME NEW c, NEW p \in Accounts, Claim(c, p) PROVE TypeOK'
  <2>1. claimed[p] \in 0 .. MaxU64 /\ balance[p] \in 0 .. MaxU64
    BY DEF TypeOK
  <2>2. ClaimedAfter(p) \in 0 .. MaxU64
    BY <1>4, <2>1, CheckedSum DEF Claim, ClaimedAfter
  <2>3. claimed' \in [Accounts -> 0 .. MaxU64] /\ balance' \in [Accounts -> 0 .. MaxU64]
    BY <1>4, <2>2, RewardsAssumption DEF Claim, TypeOK
  <2>4. UNCHANGED <<admin, metadata, emission, usedNonces, gamesWon, rank, credited, accruals, wins>>
    BY <1>4 DEF Claim, history
  <2>5. QED
    BY <2>3, <2>4 DEF TypeOK
<1>5. ASSUME NEW c, NEW p \in Accounts, NEW n \in Nonces, RecordWin(c, p, n)
      PROVE  TypeOK'
  <2>1. WinsAfter(p) \in 0 .. MaxU32
    BY WrappedCounter DEF WinsAfter, TypeOK
  <2>2. wins[<<p, n>>] + 1 \in Nat
    BY DEF TypeOK
  <2>3. /\ gamesWon' \in [Accounts -> 0 .. MaxU32]
        /\ wins' \in [Accounts \X Nonces -> Nat]
        /\ usedNonces' \subseteq Accounts \X Nonces
    BY <1>5, <2>1, <2>2 DEF RecordWin, TypeOK
  <2>4. UNCHANGED <<admin, metadata, emission, balance, claimed, rank, credited, accruals>>
    BY <1>5 DEF RecordWin
  <2>5. QED
    BY <2>3, <2>4 DEF TypeOK
<1>6. ASSUME NEW c, NEW p \in Accounts, NEW r \in Ranks, SetRank(c, p, r) PROVE TypeOK'
  BY <1>6, RewardsAssumption DEF SetRank, history, TypeOK
<1>7. CASE UNCHANGED vars
  BY <1>7 DEF vars, storage, history, TypeOK
<1>8. ASSUME NEW c, UpdateMetadata(c) PROVE TypeOK'
  BY <1>8 DEF UpdateMetadata, history, TypeOK
<1>9. QED
  BY <1>1, <1>2, <1>3, <1>4, <1>5, <1>6, <1>7, <1>8 DEF Next, PlayerCall

\* Every stored amount fits its width, over every sequence of calls.
THEOREM TypeCorrect == Spec => []TypeOK
BY TypeInit, TypeStep, PTL DEF Spec

-----------------------------------------------------------------------------
(* Conservation of points *)

\* A step that moves neither amounts nor the history of credits.
LEMMA CalmPoints ==
    PointsConserved /\ UNCHANGED <<balance, claimed, credited>> => PointsConserved'
BY DEF PointsConserved

\* Every call conserves the points.
LEMMA PointsStep == TypeOK /\ PointsConserved /\ [Next]_vars => PointsConserved'
<1> SUFFICES ASSUME TypeOK, PointsConserved, [Next]_vars PROVE PointsConserved'
  OBVIOUS
<1>1. ASSUME NEW c, NEW p \in Accounts, NEW n \in Nonces, NEW points \in Points,
             Accrue(c, p, points, n)
      PROVE  PointsConserved'
  <2>1. points \in Nat
    BY RewardsAssumption
  <2>2. QED
    BY <1>1, <2>1 DEF Accrue, TypeOK, PointsConserved
<1>2. ASSUME NEW c, NEW p \in Accounts, Claim(c, p) PROVE PointsConserved'
  BY <1>2 DEF Claim, ClaimedAfter, history, TypeOK, PointsConserved
<1>3. ASSUME NEW a, Initialize(a) PROVE PointsConserved'
  BY <1>3, CalmPoints DEF Initialize, history
<1>4. ASSUME NEW c, NEW d, NEW win, NEW participation, SetEmission(c, d, win, participation)
      PROVE  PointsConserved'
  BY <1>4, CalmPoints DEF SetEmission, history
<1>5. ASSUME NEW c, NEW p, NEW n, RecordWin(c, p, n) PROVE PointsConserved'
  BY <1>5, CalmPoints DEF RecordWin
<1>6. ASSUME NEW c, NEW p, NEW r, SetRank(c, p, r) PROVE PointsConserved'
  BY <1>6, CalmPoints DEF SetRank, history
<1>7. CASE UNCHANGED vars
  BY <1>7, CalmPoints DEF vars, storage, history
<1>8. ASSUME NEW c, UpdateMetadata(c) PROVE PointsConserved'
  BY <1>8, CalmPoints DEF UpdateMetadata, history
<1>9. QED
  BY <1>1, <1>2, <1>3, <1>4, <1>5, <1>6, <1>7, <1>8 DEF Next, PlayerCall

\* No sequence of accruals, payouts and refused overflows makes or loses points.
THEOREM PointsAreConserved == Spec => []PointsConserved
<1>1. Init => PointsConserved
  BY DEF Init, PointsConserved
<1>2. QED
  BY <1>1, TypeCorrect, PointsStep, PTL DEF Spec

-----------------------------------------------------------------------------
(* Replay protection *)

\* What NonceAcceptedOnce says of one key.
SpentOnce(k) == accruals[k] + wins[k] = IF k \in usedNonces THEN 1 ELSE 0

\* A step that uses no nonce.
LEMMA CalmNonces ==
    NonceAcceptedOnce /\ UNCHANGED <<usedNonces, accruals, wins>> => NonceAcceptedOnce'
BY DEF NonceAcceptedOnce

\* Every call keeps the nonces accepted once.
LEMMA NonceStep == TypeOK /\ NonceAcceptedOnce /\ [Next]_vars => NonceAcceptedOnce'
<1> SUFFICES ASSUME TypeOK, NonceAcceptedOnce, [Next]_vars PROVE NonceAcceptedOnce'
  OBVIOUS
<1>1. ASSUME NEW c, NEW p \in Accounts, NEW n \in Nonces, NEW points \in Points,
             Accrue(c, p, points, n)
      PROVE  NonceAcceptedOnce'
  <2> SUFFICES ASSUME NEW k \in Accounts \X Nonces
               PROVE  SpentOnce(k)'
    BY DEF NonceAcceptedOnce, SpentOnce
  <2>1. SpentOnce(k) /\ accruals[k] \in Nat /\ wins[k] \in Nat
    BY DEF NonceAcceptedOnce, SpentOnce, TypeOK
  <2>2. /\ usedNonces' = usedNonces \cup {<<p, n>>}
        /\ accruals' = [accruals EXCEPT ![<<p, n>>] = @ + 1]
        /\ wins' = wins
    BY <1>1 DEF Accrue
  <2>3. CASE k = <<p, n>>
    <3>1. k \notin usedNonces /\ k \in usedNonces'
      BY <1>1, <2>2, <2>3 DEF Accrue, NonceFree
    <3>2. accruals'[k] = accruals[k] + 1
      BY <2>2, <2>3 DEF TypeOK
    <3>3. QED
      BY <2>1, <2>2, <3>1, <3>2 DEF SpentOnce
  <2>4. CASE k # <<p, n>>
    <3>1. k \in usedNonces' <=> k \in usedNonces
      BY <2>2, <2>4
    <3>2. accruals'[k] = accruals[k]
      BY <2>2, <2>4 DEF TypeOK
    <3>3. QED
      BY <2>1, <2>2, <3>1, <3>2 DEF SpentOnce
  <2>5. QED
    BY <2>3, <2>4
<1>2. ASSUME NEW c, NEW p \in Accounts, NEW n \in Nonces, RecordWin(c, p, n)
      PROVE  NonceAcceptedOnce'
  <2> SUFFICES ASSUME NEW k \in Accounts \X Nonces
               PROVE  SpentOnce(k)'
    BY DEF NonceAcceptedOnce, SpentOnce
  <2>1. SpentOnce(k) /\ accruals[k] \in Nat /\ wins[k] \in Nat
    BY DEF NonceAcceptedOnce, SpentOnce, TypeOK
  <2>2. /\ usedNonces' = usedNonces \cup {<<p, n>>}
        /\ wins' = [wins EXCEPT ![<<p, n>>] = @ + 1]
        /\ accruals' = accruals
    BY <1>2 DEF RecordWin
  <2>3. CASE k = <<p, n>>
    <3>1. k \notin usedNonces /\ k \in usedNonces'
      BY <1>2, <2>2, <2>3 DEF RecordWin, NonceFree
    <3>2. wins'[k] = wins[k] + 1
      BY <2>2, <2>3 DEF TypeOK
    <3>3. QED
      BY <2>1, <2>2, <3>1, <3>2 DEF SpentOnce
  <2>4. CASE k # <<p, n>>
    <3>1. k \in usedNonces' <=> k \in usedNonces
      BY <2>2, <2>4
    <3>2. wins'[k] = wins[k]
      BY <2>2, <2>4 DEF TypeOK
    <3>3. QED
      BY <2>1, <2>2, <3>1, <3>2 DEF SpentOnce
  <2>5. QED
    BY <2>3, <2>4
<1>3. ASSUME NEW a, Initialize(a) PROVE NonceAcceptedOnce'
  BY <1>3, CalmNonces DEF Initialize, history
<1>4. ASSUME NEW c, NEW d, NEW win, NEW participation, SetEmission(c, d, win, participation)
      PROVE  NonceAcceptedOnce'
  BY <1>4, CalmNonces DEF SetEmission, history
<1>5. ASSUME NEW c, NEW p, Claim(c, p) PROVE NonceAcceptedOnce'
  BY <1>5, CalmNonces DEF Claim, history
<1>6. ASSUME NEW c, NEW p, NEW r, SetRank(c, p, r) PROVE NonceAcceptedOnce'
  BY <1>6, CalmNonces DEF SetRank, history
<1>7. CASE UNCHANGED vars
  BY <1>7, CalmNonces DEF vars, storage, history
<1>8. ASSUME NEW c, UpdateMetadata(c) PROVE NonceAcceptedOnce'
  BY <1>8, CalmNonces DEF UpdateMetadata, history
<1>9. QED
  BY <1>1, <1>2, <1>3, <1>4, <1>5, <1>6, <1>7, <1>8 DEF Next, PlayerCall

\* Over accrue and record_win together a nonce is accepted once per player.
THEOREM NoncesAcceptedOnce == Spec => []NonceAcceptedOnce
<1>1. Init => NonceAcceptedOnce
  BY DEF Init, NonceAcceptedOnce
<1>2. QED
  BY <1>1, TypeCorrect, NonceStep, PTL DEF Spec

-----------------------------------------------------------------------------
(* Lifetime earnings *)

\* In a state where points are conserved the view reports what was credited,
\* capped at the width.
LEMMA ViewReportsCredit ==
    ASSUME PointsConserved, NEW p \in Accounts
    PROVE  TokensEarned(p) = IF credited[p] <= MaxU64 THEN credited[p] ELSE MaxU64
BY DEF PointsConserved, TokensEarned, Fits

\* No step lowers what was credited.
LEMMA CreditGrows ==
    ASSUME TypeOK, [Next]_vars, NEW q \in Accounts
    PROVE  credited'[q] >= credited[q]
<1>1. ASSUME NEW c, NEW p \in Accounts, NEW n \in Nonces, NEW points \in Points,
             Accrue(c, p, points, n)
      PROVE  credited'[q] >= credited[q]
  <2>1. points \in Nat
    BY RewardsAssumption
  <2>2. QED
    BY <1>1, <2>1 DEF Accrue, TypeOK
<1>2. CASE UNCHANGED credited
  BY <1>2 DEF TypeOK
<1>3. QED
  BY <1>1, <1>2
  DEF Next, PlayerCall, Initialize, SetEmission, Claim, RecordWin, SetRank,
      UpdateMetadata, vars, history

\* Payouts, overflows and refused calls never lower the lifetime earnings shown.
THEOREM EarningsNeverFall == Spec => TokensEarnedNeverFall
<1>1. ASSUME TypeOK, TypeOK', PointsConserved, PointsConserved', [Next]_vars
      PROVE  [\A p \in Accounts : TokensEarned(p)' >= TokensEarned(p)]_vars
  <2> SUFFICES ASSUME NEW p \in Accounts PROVE TokensEarned(p)' >= TokensEarned(p)
    OBVIOUS
  <2>1. TokensEarned(p) = IF credited[p] <= MaxU64 THEN credited[p] ELSE MaxU64
    BY <1>1, ViewReportsCredit
  <2>2. TokensEarned(p)' = IF credited'[p] <= MaxU64 THEN credited'[p] ELSE MaxU64
    BY <1>1 DEF PointsConserved, TokensEarned, Fits
  <2>3. credited[p] \in Nat /\ credited'[p] \in Nat
    BY <1>1 DEF TypeOK
  <2>4. credited'[p] >= credited[p]
    BY <1>1, CreditGrows
  <2>5. QED
    BY <2>1, <2>2, <2>3, <2>4, SaturatingMonotone
<1>2. QED
  BY <1>1, TypeCorrect, PointsAreConserved, PTL DEF Spec, TokensEarnedNeverFall
-----------------------------------------------------------------------------
(* The counter of wins *)

\* Quotient and remainder are determined by the number.
LEMMA SameRemainder ==
    ASSUME NEW m \in Nat, NEW q \in Int, NEW r \in Nat, r < m,
           NEW a \in Int, NEW b \in Nat, b < m, m * q + r = m * a + b
    PROVE  r = b
<1>1. m * (q - a) = b - r
  OBVIOUS
<1>2. CASE q - a >= 1
  <2>1. m * (q - a) >= m
    BY <1>2
  <2> QED
    BY <1>1, <2>1
<1>3. CASE q - a <= -1
  <2>1. m * (q - a) <= -m
    BY <1>3
  <2> QED
    BY <1>1, <2>1
<1>4. CASE q = a
  BY <1>1, <1>4
<1> QED
  BY <1>2, <1>3, <1>4

\* Every number has a quotient and a remainder.
LEMMA Divided ==
    ASSUME NEW c \in Nat, NEW m \in Nat, m > 0
    PROVE  /\ c \div m \in Int /\ c % m \in Nat
           /\ c % m < m
           /\ c = m * (c \div m) + (c % m)
OBVIOUS

\* Counting modulo the width is the count modulo the width.
LEMMA NextRemainder ==
    ASSUME NEW c \in Nat, NEW m \in Nat, m > 0
    PROVE  ((c % m) + 1) % m = (c + 1) % m
<1> DEFINE q == c \div m
<1> DEFINE r == c % m
<1> DEFINE a == (c + 1) \div m
<1> DEFINE b == (c + 1) % m
<1>1. q \in Int /\ r \in Nat /\ r < m /\ c = m * q + r
  BY Divided
<1>2. a \in Int /\ b \in Nat /\ b < m /\ c + 1 = m * a + b
  BY Divided
<1>3. (r + 1 < m => (r + 1) % m = r + 1) /\ (r + 1 = m => (r + 1) % m = 0)
  BY <1>1
<1> HIDE DEF q, r, a, b
<1>4. CASE r + 1 < m
  <2>1. m * q + (r + 1) = m * a + b
    BY <1>1, <1>2
  <2>2. r + 1 = b
    BY <2>1, <1>1, <1>2, <1>4, SameRemainder
  <2> QED
    BY <1>3, <1>4, <2>2 DEF r, b
<1>5. CASE r + 1 = m
  <2>1. m * (q + 1) + 0 = m * a + b
    BY <1>1, <1>2, <1>5
  <2>2. 0 = b
    BY <2>1, <1>1, <1>2, <1>5, SameRemainder
  <2> QED
    BY <1>3, <1>5, <2>2 DEF r, b
<1> QED
  BY <1>1, <1>4, <1>5

\* The nonces under which a player's wins were recorded; finitely many in every
\* reachable state, however many nonces there are.
WonUnder(p) == {n \in Nonces : wins[<<p, n>>] > 0}

WinsInv ==
    /\ TypeOK /\ NonceAcceptedOnce
    /\ \A p \in Accounts : IsFiniteSet(WonUnder(p))
    /\ WinsCounted

\* A recorded win is one more nonce and one more win.
LEMMA RecordWinCounts ==
    ASSUME WinsInv, NEW c, NEW p \in Accounts, NEW n \in Nonces, RecordWin(c, p, n),
           NEW q \in Accounts
    PROVE  /\ IsFiniteSet(WonUnder(q)')
           /\ gamesWon'[q] = Cardinality(WonUnder(q)') % (MaxU32 + 1)
<1>1. /\ wins' = [wins EXCEPT ![<<p, n>>] = @ + 1]
      /\ gamesWon' = [gamesWon EXCEPT ![p] = WinsAfter(p)]
      /\ <<p, n>> \notin usedNonces
  BY DEF RecordWin, NonceFree
<1>2. /\ wins \in [Accounts \X Nonces -> Nat] /\ gamesWon \in [Accounts -> 0 .. MaxU32]
      /\ accruals \in [Accounts \X Nonces -> Nat]
  BY DEF WinsInv, TypeOK
<1>3. IsFiniteSet(WonUnder(q)) /\ gamesWon[q] = Cardinality(WonUnder(q)) % (MaxU32 + 1)
  BY DEF WinsInv, WinsCounted, WonUnder
<1>4. CASE q # p
  <2>1. \A m \in Nonces : wins'[<<q, m>>] = wins[<<q, m>>]
    BY <1>1, <1>2, <1>4
  <2>2. WonUnder(q)' = WonUnder(q) /\ gamesWon'[q] = gamesWon[q]
    BY <1>1, <1>2, <1>4, <2>1 DEF WonUnder
  <2> QED
    BY <1>3, <2>2
<1>5. CASE q = p
  <2>1. wins[<<p, n>>] = 0
    BY <1>1, <1>2 DEF WinsInv, NonceAcceptedOnce
  <2>2. /\ wins'[<<p, n>>] = 1
        /\ \A m \in Nonces : m # n => wins'[<<p, m>>] = wins[<<p, m>>]
    BY <1>1, <1>2, <2>1
  <2>3. n \notin WonUnder(p) /\ WonUnder(p)' = WonUnder(p) \cup {n}
    BY <2>1, <2>2 DEF WonUnder
  <2>4. /\ IsFiniteSet(WonUnder(p)') /\ Cardinality(WonUnder(p)) \in Nat
        /\ Cardinality(WonUnder(p)') = Cardinality(WonUnder(p)) + 1
    BY <1>3, <1>5, <2>3, FS_AddElement, FS_CardinalityType
  <2>5. gamesWon'[p] = (gamesWon[p] + 1) % (MaxU32 + 1)
    BY <1>1, <1>2 DEF WinsAfter
  <2>6. MaxU32 + 1 \in Nat /\ MaxU32 + 1 > 0
    BY RewardsAssumption
  <2>7. ((Cardinality(WonUnder(p)) % (MaxU32 + 1)) + 1) % (MaxU32 + 1)
          = (Cardinality(WonUnder(p)) + 1) % (MaxU32 + 1)
    BY <2>4, <2>6, NextRemainder
  <2> QED
    BY <1>3, <1>5, <2>4, <2>5, <2>7
<1> QED
  BY <1>4, <1>5

\* games_won is the number of wins recorded, modulo the width of the counter,
\* whatever the nonces and the order of the calls (record_win).
THEOREM WinsAreCounted == Spec => []WinsCounted
<1>1. Init => WinsInv
  <2> SUFFICES ASSUME Init PROVE WinsInv
    OBVIOUS
  <2>1. TypeOK /\ NonceAcceptedOnce
    BY TypeInit DEF Init, NonceAcceptedOnce
  <2>2. \A p \in Accounts : WonUnder(p) = {}
    BY DEF Init, WonUnder
  <2>3. 0 % (MaxU32 + 1) = 0
    BY RewardsAssumption
  <2> QED
    BY <2>1, <2>2, <2>3, FS_EmptySet DEF WinsInv, WinsCounted, WonUnder, Init
<1>2. WinsInv /\ [Next]_vars => WinsInv'
  <2> SUFFICES ASSUME WinsInv, [Next]_vars PROVE WinsInv'
    OBVIOUS
  <2>1. TypeOK' /\ NonceAcceptedOnce'
    BY TypeStep, NonceStep DEF WinsInv
  <2>2. CASE UNCHANGED <<wins, gamesWon>>
    BY <2>1, <2>2 DEF WinsInv, WinsCounted, WonUnder
  <2>3. ASSUME NEW c, NEW p \in Accounts, NEW n \in Nonces, RecordWin(c, p, n)
        PROVE  WinsInv'
    BY <2>1, <2>3, RecordWinCounts DEF WinsInv, WinsCounted, WonUnder
  <2> QED
    BY <2>2, <2>3 DEF Next, PlayerCall, Initialize, SetEmission, Claim, Accrue, SetRank,
       UpdateMetadata, vars, storage, history
<1>3. WinsInv => WinsCounted
  BY DEF WinsInv
<1> QED
  BY <1>1, <1>2, <1>3, PTL DEF Spec
=============================================================================
