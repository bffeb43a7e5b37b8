--------------------------- MODULE CoreGameProofs ---------------------------
(* Machine-checked proofs of the invariants and action properties of       *)
(* CoreGame, for every value of its constants.                             *)
EXTENDS CoreGame, FiniteSetTheorems, TLAPS

-----------------------------------------------------------------------------
(* Lemmas about the operators the model is built from. *)

\* A write to a storage map adds exactly the key written, ...
LEMMA PutDomain ==
    ASSUME NEW f, NEW k, NEW v
    PROVE  DOMAIN Put(f, k, v) = DOMAIN f \cup {k}
BY DEF Put

\* ... keeps the type of the map, ...
LEMMA PutType ==
    ASSUME NEW R, NEW f, f \in [DOMAIN f -> R], NEW k, NEW v \in R
    PROVE  Put(f, k, v) \in [DOMAIN f \cup {k} -> R]
BY DEF Put

\* ... stores the value under the key and leaves every other entry alone.
LEMMA PutEntries ==
    ASSUME NEW f, NEW k, NEW v
    PROVE  /\ Put(f, k, v)[k] = v
           /\ \A x \in DOMAIN f : x # k => Put(f, k, v)[x] = f[x]
BY DEF Put

\* Writing a typed entry keeps a typed map; so does overwriting one.
LEMMA PutIsMap ==
    ASSUME NEW K, NEW V, NEW f, IsMap(f, K, V), NEW k \in K, NEW v \in V
    PROVE  IsMap(Put(f, k, v), K, V)
<1>1. DOMAIN f \subseteq K /\ f \in [DOMAIN f -> V]
  BY DEF IsMap
<1>2. Put(f, k, v) \in [DOMAIN f \cup {k} -> V]
  BY <1>1, PutType
<1>3. DOMAIN Put(f, k, v) = DOMAIN f \cup {k}
  BY PutDomain
<1>4. QED
  BY <1>1, <1>2, <1>3 DEF IsMap

\* A map with one entry changed is a map.
LEMMA ExceptIsMap ==
    ASSUME NEW K, NEW V, NEW f, IsMap(f, K, V), NEW k \in DOMAIN f, NEW v \in V
    PROVE  IsMap([f EXCEPT ![k] = v], K, V)
BY DEF IsMap

\* The map without entries is a map.
LEMMA NoEntriesIsMap ==
    ASSUME NEW K, NEW V PROVE IsMap(NoEntries, K, V)
BY DEF NoEntries, IsMap

\* Day numbers follow the clock: integer division by the length of a day is a
\* natural number, positive from the first full day on, and monotone.
LEMMA DayBasics ==
    ASSUME NEW t \in Nat, t >= SecondsPerDay
    PROVE  t \div SecondsPerDay \in Nat \ {0}
BY ConstantsAssumption

\* Later timestamps are of no earlier day.
LEMMA DayMonotone ==
    ASSUME NEW t \in Nat, NEW u \in Nat, t <= u
    PROVE  t \div SecondsPerDay <= u \div SecondsPerDay
BY ConstantsAssumption

\* The contract is never called on day zero.
LEMMA CurrentDayPositive ==
    TypeOK => CurrentDay \in Nat \ {0}
BY DayBasics, ConstantsAssumption, DeployedAfterEpochDay DEF CurrentDay, TypeOK

-----------------------------------------------------------------------------
(* Type correctness *)

\* The record operations keep their types.
LEMMA RecordTypes ==
    /\ \A s \in Session, correct \in BOOLEAN : AfterGuess(s, correct) \in Session
    /\ \A s \in Session : Settled(s) \in Session
    /\ \A s \in PlayerStreak, d \in Nat : NextStreak(s, d) \in PlayerStreak
    /\ NoStreak \in PlayerStreak
<1>1. ASSUME NEW s \in Session, NEW correct \in BOOLEAN
      PROVE  AfterGuess(s, correct) \in Session
  <2> DEFINE st == NextStatus(s, correct)
  <2>1. st \in Status
    BY DEF NextStatus, Session, Status
  <2>2. s.attempts_used + 1 \in Nat
    BY DEF Session
  <2>3. AfterGuess(s, correct) = [s EXCEPT !.attempts_used = @ + 1, !.status = st]
    BY DEF AfterGuess
  <2> HIDE DEF st
  <2>4. QED
    BY <2>1, <2>2, <2>3 DEF Session
<1>2. \A s \in Session : Settled(s) \in Session
  BY DEF Session, Status, Settled
<1>3. /\ \A s \in PlayerStreak, d \in Nat : NextStreak(s, d) \in PlayerStreak
      /\ NoStreak \in PlayerStreak
  BY DEF PlayerStreak, NextStreak, NoStreak
<1>4. QED
  BY <1>1, <1>2, <1>3

\* The storage has its type after deployment.
LEMMA TypeInit == Init => TypeOK
<1> SUFFICES ASSUME Init PROVE TypeOK
  OBVIOUS
<1>1. IsMap(dayConfig, Days, DayConfig) /\ IsMap(sessions, SessionId, Session)
  BY NoEntriesIsMap DEF Init
<1>2. /\ streak \in [Players -> PlayerStreak]
      /\ playedDays \in [Players -> SUBSET Nat]
  BY RecordTypes DEF Init
<1>3. now \in Nat /\ now >= StartTime
  BY ConstantsAssumption DEF Init
<1>4. /\ admin \in Operators \cup {NoAdmin} /\ paused \in BOOLEAN /\ rotateSchedule \in Nat
      /\ metadata \in {"none", "defaults", "updated"}
  BY ConstantsAssumption DEF Init
<1>5. usedNonces \subseteq Players \X Nonces /\ solved \subseteq DOMAIN sessions
  BY DEF Init
<1>6. QED
  BY <1>1, <1>2, <1>3, <1>4, <1>5 DEF TypeOK

\* Every transaction keeps the types of the storage.
LEMMA TypeStep == TypeOK /\ [Next]_vars => TypeOK'
<1> SUFFICES ASSUME TypeOK, [Next]_vars PROVE TypeOK'
  OBVIOUS
<1>1. ASSUME NEW a \in Operators, Initialize(a) PROVE TypeOK'
  BY <1>1 DEF Initialize, history, TypeOK
<1>2. ASSUME NEW c, NEW value \in BOOLEAN, Pause(c, value) PROVE TypeOK'
  BY <1>2 DEF Pause, history, TypeOK
<1>10. ASSUME NEW c, NEW secs \in Schedules, SetRotateSchedule(c, secs) PROVE TypeOK'
  BY <1>10, ConstantsAssumption DEF SetRotateSchedule, history, TypeOK
<1>11. ASSUME NEW c, UpdateMetadata(c) PROVE TypeOK'
  BY <1>11 DEF UpdateMetadata, history, TypeOK
<1>3. ASSUME NEW c, NEW d \in Days, NEW cap \in AttemptCaps,
             NEW closes \in CloseTimes, SetDayConfig(c, d, cap, closes)
      PROVE  TypeOK'
  <2> DEFINE cfg == [max_attempts |-> cap, closes_at |-> closes]
  <2>1. cfg \in DayConfig
    BY <1>3, ConstantsAssumption DEF SetDayConfig, ValidCap, DayConfig
  <2>2. dayConfig' = Put(dayConfig, d, cfg)
    BY <1>3 DEF SetDayConfig
  <2> HIDE DEF cfg
  <2>3. IsMap(dayConfig', Days, DayConfig)
    BY <2>1, <2>2, PutIsMap DEF TypeOK
  <2>4. UNCHANGED <<now, admin, paused, rotateSchedule, metadata, sessions, usedNonces,
                  streak, playedDays, solved>>
    BY <1>3 DEF SetDayConfig, history
  <2>5. QED
    BY <2>3, <2>4 DEF TypeOK
<1>4. ASSUME NEW p \in Players, NEW d \in Days, NEW n \in Nonces,
             CreateSession(p, d, n)
      PROVE  TypeOK'
  <2> DEFINE id == [player |-> p, day |-> d, nonce |-> n, at |-> now]
  <2>1. id \in SessionId
    BY DEF SessionId, TypeOK
  <2>2. NewSession(p, d) \in Session
    BY <1>4 DEF CreateSession, NewSession, Session, Status, DayConfig, TypeOK, IsMap
  <2>3. sessions' = Put(sessions, id, NewSession(p, d))
    BY <1>4 DEF CreateSession
  <2>4. usedNonces' \subseteq Players \X Nonces
    BY <1>4 DEF CreateSession, NonceKey, TypeOK
  <2>5. UNCHANGED <<now, admin, paused, rotateSchedule, metadata, dayConfig, streak,
                  playedDays, solved>>
    BY <1>4 DEF CreateSession, history
  <2>6. QED
    <3> HIDE DEF id
    <3>1. IsMap(sessions', SessionId, Session)
      BY <2>1, <2>2, <2>3, PutIsMap DEF TypeOK
    <3>2. DOMAIN sessions' = DOMAIN sessions \cup {id}
      BY <2>3, PutDomain
    <3>3. QED
      BY <2>4, <2>5, <3>1, <3>2 DEF TypeOK
<1>5. ASSUME NEW p \in Players, NEW id \in DOMAIN sessions,
             NEW correct \in BOOLEAN, SubmitGuess(p, id, correct)
      PROVE  TypeOK'
  <2>1. AfterGuess(sessions[id], correct) \in Session
    BY RecordTypes DEF TypeOK, IsMap
  <2>2. IsMap(sessions', SessionId, Session) /\ DOMAIN sessions' = DOMAIN sessions
    BY <1>5, <2>1, ExceptIsMap DEF SubmitGuess, TypeOK
  <2>3. QED
    BY <1>5, <2>2 DEF SubmitGuess, TypeOK
<1>6. ASSUME NEW p \in Players, NEW id \in DOMAIN sessions,
             FinalizeSession(p, id)
      PROVE  TypeOK'
  <2>1. Settled(sessions[id]) \in Session
    BY RecordTypes DEF TypeOK, IsMap
  <2>2. IsMap(sessions', SessionId, Session) /\ DOMAIN sessions' = DOMAIN sessions
    BY <1>6, <2>1, ExceptIsMap DEF FinalizeSession, TypeOK
  <2>3. streak' \in [Players -> PlayerStreak]
    BY <1>6, RecordTypes, CurrentDayPositive DEF FinalizeSession, TypeOK
  <2>4. playedDays' \in [Players -> SUBSET Nat]
    BY <1>6, CurrentDayPositive DEF FinalizeSession, TypeOK
  <2>5. QED
    BY <1>6, <2>2, <2>3, <2>4 DEF FinalizeSession, TypeOK
<1>7. ASSUME NEW t \in now + 1 .. MaxTime, CloseLedger(t) PROVE TypeOK'
  BY <1>7, ConstantsAssumption DEF CloseLedger, history, TypeOK
<1>8. CASE UNCHANGED vars
  BY <1>8 DEF vars, TypeOK
<1>9. QED
  BY <1>1, <1>2, <1>3, <1>4, <1>5, <1>6, <1>7, <1>8, <1>10, <1>11
     DEF Next, AdminStep, PlayerStep

\* The contract's storage and the history keep their types.
THEOREM TypeCorrect == Spec => []TypeOK
BY TypeInit, TypeStep, PTL DEF Spec

-----------------------------------------------------------------------------
(* Sessions and nonces *)

\* Every published day has a legal budget, and a session belongs to the player
\* its id names: the facts that make SessionConsistent inductive.
CapsValid == \A d \in DOMAIN dayConfig : ValidCap(dayConfig[d].max_attempts)

OwnerIsKey == \A id \in DOMAIN sessions : sessions[id].player = id.player

SessionRules == CapsValid /\ OwnerIsKey /\ NonceOpensOneSession /\ SessionConsistent

SessionInv == TypeOK /\ SessionRules

\* A guess keeps a session consistent once a correct one has been recorded.
LEMMA GuessKeepsConsistent ==
    ASSUME NEW id, NEW s \in Session, NEW won, NEW correct \in BOOLEAN,
           Consistent(id, s, won), Guessable(s)
    PROVE  /\ Consistent(id, AfterGuess(s, correct),
                         IF correct THEN won \cup {id} ELSE won)
           /\ AfterGuess(s, correct).player = s.player
<1> DEFINE st == NextStatus(s, correct)
<1> DEFINE g == AfterGuess(s, correct)
<1>1. /\ g.attempts_used = s.attempts_used + 1 /\ g.status = st
      /\ g.max_attempts = s.max_attempts /\ g.finalized = s.finalized
      /\ g.player = s.player
  <2>1. s.attempts_used + 1 \in Nat
    BY DEF Session
  <2>2. g = [s EXCEPT !.attempts_used = @ + 1, !.status = st]
    BY DEF AfterGuess
  <2> HIDE DEF g, st
  <2>3. QED
    BY <2>1, <2>2 DEF Session
<1>2. CASE correct
  <2>1. st = "Won"
    BY <1>2 DEF NextStatus
  <2> HIDE DEF g, st
  <2>2. Consistent(id, g, won \cup {id})
    BY <1>1, <2>1, ConstantsAssumption DEF Consistent, Guessable, Session
  <2>3. QED
    BY <1>1, <1>2, <2>2 DEF g
<1>3. CASE ~correct
  <2>1. st = IF s.attempts_used + 1 >= s.max_attempts THEN "Lost" ELSE s.status
    BY <1>3 DEF NextStatus
  <2> HIDE DEF g, st
  <2>2. Consistent(id, g, won)
    BY <1>1, <2>1, ConstantsAssumption DEF Consistent, Guessable, Session
  <2>3. QED
    BY <1>1, <1>3, <2>2 DEF g
<1>4. QED
  BY <1>2, <1>3

\* Settlement keeps a session consistent.
LEMMA SettleKeepsConsistent ==
    ASSUME NEW id, NEW s \in Session, NEW won, Consistent(id, s, won), Settleable(s)
    PROVE  Consistent(id, Settled(s), won) /\ Settled(s).player = s.player
<1> DEFINE g == Settled(s)
<1>1. /\ g.attempts_used = s.attempts_used /\ g.status = "Finalized"
      /\ g.max_attempts = s.max_attempts /\ g.finalized = TRUE
      /\ g.player = s.player
  BY DEF Settled, Session
<1> HIDE DEF g
<1>2. Consistent(id, g, won)
  BY <1>1, ConstantsAssumption DEF Session, Consistent, Settleable
<1>3. QED
  BY <1>1, <1>2 DEF g

\* CreateSession stores under a key that is not in use.
LEMMA FreshId ==
    ASSUME NonceOpensOneSession, NEW p, NEW d, NEW n, NonceFree(p, n)
    PROVE  [player |-> p, day |-> d, nonce |-> n, at |-> now] \notin DOMAIN sessions
BY DEF NonceOpensOneSession, NonceFree, NonceKey

\* The session invariant holds before the first session.
LEMMA SessionInvInit == Init => SessionInv
<1> SUFFICES ASSUME Init PROVE SessionInv
  OBVIOUS
<1>1. DOMAIN dayConfig = {} /\ DOMAIN sessions = {} /\ usedNonces = {}
  BY DEF Init, NoEntries
<1>2. QED
  BY <1>1, TypeInit
     DEF SessionInv, SessionRules, CapsValid, OwnerIsKey, NonceOpensOneSession,
         SessionConsistent

\* Every transaction keeps the session invariant.
LEMMA SessionInvStep == SessionInv /\ [Next]_vars => SessionInv'
<1> SUFFICES ASSUME SessionInv, [Next]_vars
             PROVE  SessionRules'
  BY TypeStep DEF SessionInv
<1>1. ASSUME NEW a \in Operators, Initialize(a) PROVE SessionRules'
  BY <1>1 DEF Initialize, history, SessionInv, SessionRules, CapsValid, OwnerIsKey,
              NonceOpensOneSession, SessionConsistent
<1>2. ASSUME NEW c, NEW value \in BOOLEAN, Pause(c, value) PROVE SessionRules'
  BY <1>2 DEF Pause, history, SessionInv, SessionRules, CapsValid, OwnerIsKey,
              NonceOpensOneSession, SessionConsistent
<1>10. ASSUME NEW c, NEW secs \in Schedules, SetRotateSchedule(c, secs)
       PROVE  SessionRules'
  BY <1>10 DEF SetRotateSchedule, history, SessionInv, SessionRules, CapsValid,
               OwnerIsKey, NonceOpensOneSession, SessionConsistent
<1>11. ASSUME NEW c, UpdateMetadata(c) PROVE SessionRules'
  BY <1>11 DEF UpdateMetadata, history, SessionInv, SessionRules, CapsValid,
               OwnerIsKey, NonceOpensOneSession, SessionConsistent
<1>3. ASSUME NEW c, NEW d \in Days, NEW cap \in AttemptCaps,
             NEW closes \in CloseTimes, SetDayConfig(c, d, cap, closes)
      PROVE  SessionRules'
  <2> DEFINE cfg == [max_attempts |-> cap, closes_at |-> closes]
  <2>1. UNCHANGED <<sessions, usedNonces, solved>>
    BY <1>3 DEF SetDayConfig, history
  <2>2. dayConfig' = Put(dayConfig, d, cfg) /\ ValidCap(cfg.max_attempts)
    BY <1>3 DEF SetDayConfig
  <2> HIDE DEF cfg
  <2>3. /\ DOMAIN dayConfig' = DOMAIN dayConfig \cup {d}
        /\ dayConfig'[d] = cfg
        /\ \A k \in DOMAIN dayConfig : k # d => dayConfig'[k] = dayConfig[k]
    BY <2>2 DEF Put
  <2>4. CapsValid'
    BY <2>2, <2>3 DEF SessionInv, SessionRules, CapsValid
  <2>5. QED
    BY <2>1, <2>4 DEF SessionInv, SessionRules, OwnerIsKey, NonceOpensOneSession, SessionConsistent
<1>4. ASSUME NEW p \in Players, NEW d \in Days, NEW n \in Nonces,
             CreateSession(p, d, n)
      PROVE  SessionRules'
  <2> DEFINE id == [player |-> p, day |-> d, nonce |-> n, at |-> now]
  <2>1. /\ sessions' = Put(sessions, id, NewSession(p, d))
        /\ usedNonces' = usedNonces \cup {<<p, n>>}
        /\ NonceFree(p, n) /\ d \in DOMAIN dayConfig
        /\ UNCHANGED <<dayConfig, solved>>
    BY <1>4 DEF CreateSession, NonceKey, history
  <2>2. id \notin DOMAIN sessions /\ id \notin solved
    BY <2>1, FreshId DEF SessionInv, SessionRules, TypeOK
  <2>3. id.player = p /\ id.nonce = n
    OBVIOUS
  <2>4. NewSession(p, d).player = p /\ Consistent(id, NewSession(p, d), solved)
    <3>1. ValidCap(dayConfig[d].max_attempts)
      BY <2>1 DEF SessionInv, SessionRules, CapsValid
    <3> DEFINE s == NewSession(p, d)
    <3>2. /\ s.player = p /\ s.attempts_used = 0 /\ s.status = "InProgress"
          /\ s.max_attempts = dayConfig[d].max_attempts /\ s.finalized = FALSE
      BY DEF NewSession
    <3> HIDE DEF s
    <3>3. s.player = p /\ Consistent(id, s, solved)
      BY <2>2, <3>1, <3>2, ConstantsAssumption DEF Consistent, ValidCap
    <3>4. QED
      BY <3>3 DEF s
  <2> HIDE DEF id
  <2>5. DOMAIN sessions' = DOMAIN sessions \cup {id}
    BY <2>1, PutDomain
  <2>6. /\ sessions'[id] = NewSession(p, d)
        /\ \A k \in DOMAIN sessions : sessions'[k] = sessions[k]
    BY <2>1, <2>2, PutEntries
  <2>7. CapsValid' /\ OwnerIsKey'
    BY <2>1, <2>3, <2>4, <2>5, <2>6 DEF SessionInv, SessionRules, CapsValid, OwnerIsKey
  <2>8. NonceOpensOneSession'
    <3>1. usedNonces' = {<<k.player, k.nonce>> : k \in DOMAIN sessions'}
      BY <2>1, <2>3, <2>5 DEF SessionInv, SessionRules, NonceOpensOneSession
    <3>2. ASSUME NEW k \in DOMAIN sessions, k.player = p, k.nonce = n PROVE FALSE
      BY <2>1, <3>2 DEF SessionInv, SessionRules, NonceOpensOneSession, NonceFree, NonceKey
    <3>3. QED
      BY <2>3, <2>5, <3>1, <3>2 DEF SessionInv, SessionRules, NonceOpensOneSession
  <2>9. SessionConsistent'
    <3>1. \A k \in DOMAIN sessions : Consistent(k, sessions'[k], solved')
      BY <2>1, <2>6, Zenon DEF SessionInv, SessionRules, SessionConsistent
    <3>2. Consistent(id, sessions'[id], solved')
      BY <2>1, <2>4, <2>6, Zenon
    <3>3. QED
      BY <2>5, <3>1, <3>2 DEF SessionConsistent
  <2>10. QED
    BY <2>7, <2>8, <2>9 DEF SessionRules
<1>5. ASSUME NEW p \in Players, NEW id \in DOMAIN sessions,
             NEW correct \in BOOLEAN, SubmitGuess(p, id, correct)
      PROVE  SessionRules'
  <2>1. /\ DOMAIN sessions' = DOMAIN sessions
        /\ sessions'[id] = AfterGuess(sessions[id], correct)
        /\ \A k \in DOMAIN sessions : k # id => sessions'[k] = sessions[k]
        /\ solved' = IF correct THEN solved \cup {id} ELSE solved
        /\ Guessable(sessions[id]) /\ UNCHANGED <<dayConfig, usedNonces>>
    BY <1>5 DEF SubmitGuess, SessionInv, TypeOK, IsMap
  <2>2. sessions[id] \in Session /\ Consistent(id, sessions[id], solved)
    BY DEF SessionInv, SessionRules, TypeOK, IsMap, SessionConsistent
  <2>3. /\ Consistent(id, sessions'[id], solved')
        /\ sessions'[id].player = sessions[id].player
    <3>1. /\ Consistent(id, AfterGuess(sessions[id], correct),
                        IF correct THEN solved \cup {id} ELSE solved)
          /\ AfterGuess(sessions[id], correct).player = sessions[id].player
      BY <2>1, <2>2, GuessKeepsConsistent, Zenon
    <3>2. QED
      BY <2>1, <3>1, Zenon
  <2>4. SessionConsistent'
    BY <2>1, <2>3 DEF SessionInv, SessionRules, SessionConsistent, Consistent
  <2>5. QED
    BY <2>1, <2>3, <2>4
       DEF SessionInv, SessionRules, CapsValid, OwnerIsKey, NonceOpensOneSession
<1>6. ASSUME NEW p \in Players, NEW id \in DOMAIN sessions,
             FinalizeSession(p, id)
      PROVE  SessionRules'
  <2>1. /\ DOMAIN sessions' = DOMAIN sessions
        /\ sessions'[id] = Settled(sessions[id])
        /\ \A k \in DOMAIN sessions : k # id => sessions'[k] = sessions[k]
        /\ Settleable(sessions[id]) /\ UNCHANGED <<dayConfig, usedNonces, solved>>
    BY <1>6 DEF FinalizeSession, SessionInv, TypeOK, IsMap
  <2>2. sessions[id] \in Session /\ Consistent(id, sessions[id], solved)
    BY DEF SessionInv, SessionRules, TypeOK, IsMap, SessionConsistent
  <2>3. /\ Consistent(id, sessions'[id], solved)
        /\ sessions'[id].player = sessions[id].player
    BY <2>1, <2>2, SettleKeepsConsistent
  <2>4. QED
    BY <2>1, <2>3
       DEF SessionInv, SessionRules, CapsValid, OwnerIsKey, NonceOpensOneSession, SessionConsistent
<1>7. ASSUME NEW t, CloseLedger(t) PROVE SessionRules'
  BY <1>7 DEF CloseLedger, history, SessionInv, SessionRules, CapsValid, OwnerIsKey,
              NonceOpensOneSession, SessionConsistent
<1>8. CASE UNCHANGED vars
  BY <1>8 DEF vars, SessionInv, SessionRules, CapsValid, OwnerIsKey,
              NonceOpensOneSession, SessionConsistent
<1>9. QED
  BY <1>1, <1>2, <1>3, <1>4, <1>5, <1>6, <1>7, <1>8, <1>10, <1>11
     DEF Next, AdminStep, PlayerStep

\* Every stored session is consistent, in every reachable state.
THEOREM SessionsConsistent == Spec => []SessionConsistent
BY SessionInvInit, SessionInvStep, PTL DEF Spec, SessionInv, SessionRules

\* No nonce is ever spent on two sessions.
THEOREM NoncesOpenOneSession == Spec => []NonceOpensOneSession
BY SessionInvInit, SessionInvStep, PTL DEF Spec, SessionInv, SessionRules

-----------------------------------------------------------------------------
(* Streaks *)

\* The current run is one of the runs: it is not longer than the longest.
LEMMA CurrentAtMostMax ==
    ASSUME NEW c \in Nat, NEW m \in Nat, NEW l \in Nat, NEW P \in SUBSET Nat,
           DescribesRuns(c, m, l, P)
    PROVE  c <= m /\ l \in P
<1>1. l - c + 1 \in P /\ l \in P
  BY DEF DescribesRuns
<1>2. ASSUME m < c PROVE FALSE
  <2>1. l - c + 1 .. (l - c + 1) + m \subseteq P
    BY <1>2 DEF DescribesRuns
  <2>2. QED
    BY <1>1, <2>1 DEF DescribesRuns
<1>3. QED
  BY <1>1, <1>2

\* The first settlement of a player.
LEMMA FirstDay ==
    ASSUME NEW D \in Nat \ {0}
    PROVE  DescribesRuns(1, 1, D, {D})
BY DEF DescribesRuns

\* Playing on the day after the last one extends the run that ends there.
LEMMA NextDay ==
    ASSUME NEW c \in Nat, NEW m \in Nat, NEW l \in Nat, NEW P \in SUBSET Nat,
           DescribesRuns(c, m, l, P), NEW n \in Nat,
           \/ c + 1 > m /\ n = c + 1
           \/ c + 1 <= m /\ n = m
    PROVE  DescribesRuns(c + 1, n, l + 1, P \cup {l + 1})
<1> DEFINE Q == P \cup {l + 1}
<1>1. c <= m /\ l \in P
  BY CurrentAtMostMax
<1>2. m <= n /\ c + 1 <= n
  OBVIOUS
<1>3. \A d \in Q : d <= l + 1
  <2>1. \A d \in P : d \in Nat /\ d <= l
    BY DEF DescribesRuns
  <2>2. QED
    BY <2>1
<1>4. /\ c + 1 \in 1 .. l + 1
      /\ (l + 1) - (c + 1) \notin Q
      /\ (l + 1) - (c + 1) + 1 .. l + 1 \subseteq Q
  BY DEF DescribesRuns
<1>5. \E d \in Q : d .. d + n - 1 \subseteq Q
  <2>1. CASE c + 1 > m
    <3>1. l - c + 1 \in Q /\ n = c + 1
      BY <2>1 DEF DescribesRuns
    <3>2. (l - c + 1) .. (l - c + 1) + n - 1 \subseteq Q
      BY <3>1, <1>4 DEF DescribesRuns
    <3>3. QED
      BY <3>1, <3>2
  <2>2. CASE ~(c + 1 > m)
    BY <2>2 DEF DescribesRuns
  <2>3. QED
    BY <2>1, <2>2
<1>6. ASSUME NEW d \in Q, d .. d + n \subseteq Q PROVE FALSE
  <2>1. d + n \in Q /\ d + n <= l + 1 /\ d \in Nat
    BY <1>1, <1>2, <1>3, <1>6
  <2>2. CASE d + n = l + 1
    <3>1. l - c \in d .. d + n
      BY <1>2, <2>1, <2>2 DEF DescribesRuns
    <3>2. QED
      BY <1>4, <1>6, <3>1
  <2>3. CASE d + n < l + 1
    <3>1. d .. d + m \subseteq P /\ d \in P
      BY <1>2, <1>6, <2>1, <2>3
    <3>2. QED
      BY <3>1 DEF DescribesRuns
  <2>4. QED
    BY <2>1, <2>2, <2>3
<1>7. QED
  BY <1>3, <1>4, <1>5, <1>6 DEF DescribesRuns

\* Playing after a gap starts a run of length one.
LEMMA LaterDay ==
    ASSUME NEW c \in Nat, NEW m \in Nat, NEW l \in Nat, NEW P \in SUBSET Nat,
           DescribesRuns(c, m, l, P), NEW D \in Nat, D > l + 1
    PROVE  DescribesRuns(1, m, D, P \cup {D})
<1> DEFINE Q == P \cup {D}
<1>1. c <= m /\ c >= 1 /\ l \in P
  <2>1. c \in 1 .. l
    BY DEF DescribesRuns
  <2>2. QED
    BY <2>1, CurrentAtMostMax
<1>2. /\ \A d \in Q : d <= D
      /\ 1 \in 1 .. D /\ D - 1 \notin Q /\ D - 1 + 1 .. D \subseteq Q
  BY DEF DescribesRuns
<1>3. \E d \in Q : d .. d + m - 1 \subseteq Q
  BY DEF DescribesRuns
<1>4. ASSUME NEW d \in Q, d .. d + m \subseteq Q PROVE FALSE
  <2>1. CASE d = D
    <3>1. D + 1 \in d .. d + m
      BY <1>1, <2>1
    <3>2. QED
      BY <1>2, <1>4, <3>1
  <2>2. CASE d # D
    <3>1. d \in P /\ d <= l /\ d \in Nat
      BY <2>2 DEF DescribesRuns
    <3>2. d + m < D - 1
      <4>1. ASSUME d + m >= D - 1 PROVE FALSE
        <5>1. D - 1 \in d .. d + m
          BY <3>1, <4>1
        <5>2. QED
          BY <1>2, <1>4, <5>1
      <4>2. QED
        BY <3>1, <4>1
    <3>3. d .. d + m \subseteq P
      BY <1>4, <3>1, <3>2
    <3>4. QED
      BY <3>1, <3>3 DEF DescribesRuns
  <2>3. QED
    BY <2>1, <2>2
<1>5. QED
  BY <1>2, <1>3, <1>4 DEF DescribesRuns

\* What StreakIsRun says of one player.
RunsOf(s, played) ==
    IF played = {} THEN s = NoStreak
    ELSE DescribesRuns(s.current, s.max, s.last_day_played, played)

\* update_streak keeps the counters a description of the history.
LEMMA NextStreakDescribes ==
    ASSUME NEW s \in PlayerStreak, NEW P \in SUBSET Nat, RunsOf(s, P),
           NEW D \in Nat \ {0}, s.last_day_played <= D
    PROVE  RunsOf(NextStreak(s, D), P \cup {D})
<1> DEFINE c == s.current
<1> DEFINE m == s.max
<1> DEFINE l == s.last_day_played
<1> DEFINE t == NextStreak(s, D)
<1>1. c \in Nat /\ m \in Nat /\ l \in Nat
  BY DEF PlayerStreak
<1>2. SUFFICES DescribesRuns(t.current, t.max, t.last_day_played, P \cup {D})
  BY DEF RunsOf
<1>3. CASE P = {}
  <2>1. c = 0 /\ m = 0 /\ l = 0
    BY <1>3 DEF RunsOf, NoStreak
  <2>2. t.current = 1 /\ t.max = 1 /\ t.last_day_played = D
    BY <2>1 DEF NextStreak
  <2> HIDE DEF t
  <2>3. QED
    BY <1>3, <2>2, FirstDay
<1>4. CASE P # {}
  <2>1. DescribesRuns(c, m, l, P)
    BY <1>4 DEF RunsOf
  <2>2. CASE D = l
    <3>1. c <= m /\ l \in P
      <4> HIDE DEF c, m, l
      <4> QED
        BY <1>1, <2>1, CurrentAtMostMax
    <3>2. t.current = c /\ t.max = m /\ t.last_day_played = l
      BY <1>1, <2>2, <3>1 DEF NextStreak
    <3>3. P \cup {D} = P
      BY <2>2, <3>1
    <3> HIDE DEF c, m, l, t
    <3>4. QED
      BY <2>1, <3>2, <3>3
  <2>3. CASE D = l + 1
    <3>1. /\ t.current = c + 1 /\ t.last_day_played = l + 1
          /\ \/ c + 1 > m /\ t.max = c + 1
             \/ c + 1 <= m /\ t.max = m
      BY <1>1, <2>3 DEF NextStreak
    <3> HIDE DEF c, m, l, t
    <3>2. t.max \in Nat
      BY <1>1, <3>1
    <3>3. QED
      BY <1>1, <2>1, <2>3, <3>1, <3>2, NextDay
  <2>4. CASE D > l + 1
    <3>1. m >= 1
      <4> HIDE DEF c, m, l
      <4>1. c <= m
        BY <1>1, <2>1, CurrentAtMostMax
      <4>2. QED
        BY <1>1, <2>1, <4>1 DEF DescribesRuns
    <3>2. t.current = 1 /\ t.max = m /\ t.last_day_played = D
      BY <1>1, <2>4, <3>1 DEF NextStreak
    <3> HIDE DEF c, m, l, t
    <3>3. QED
      BY <1>1, <2>1, <2>4, <3>2, LaterDay
  <2>5. QED
    BY <1>1, <2>2, <2>3, <2>4
<1>5. QED
  BY <1>3, <1>4

\* No settlement lies in the future, so the ledger's day is never behind the
\* last day played: what update_streak needs to see a day as new or as today.
NotInFuture == \A p \in Players : streak[p].last_day_played <= CurrentDay

StreakInv == TypeOK /\ StreakIsRun /\ NotInFuture

\* The streak invariant holds before the first settlement.
LEMMA StreakInvInit == Init => StreakInv
<1> SUFFICES ASSUME Init PROVE StreakInv
  OBVIOUS
<1>1. TypeOK /\ CurrentDay \in Nat
  BY TypeInit, CurrentDayPositive
<1>2. \A p \in Players : playedDays[p] = {} /\ streak[p] = NoStreak
  BY DEF Init
<1>3. QED
  BY <1>1, <1>2 DEF StreakInv, StreakIsRun, NotInFuture, NoStreak

\* Every transaction keeps the streak invariant.
LEMMA StreakInvStep == StreakInv /\ [Next]_vars => StreakInv'
<1> SUFFICES ASSUME StreakInv, [Next]_vars PROVE StreakInv'
  OBVIOUS
<1>1. TypeOK /\ TypeOK'
  BY TypeStep DEF StreakInv
<1>2. ASSUME UNCHANGED <<streak, playedDays>>, CurrentDay <= CurrentDay' PROVE StreakInv'
  <2>1. \A p \in Players : streak[p].last_day_played \in Nat
    BY <1>1 DEF TypeOK, PlayerStreak
  <2>2. CurrentDay \in Nat /\ CurrentDay' \in Nat
    <3>1. /\ now \in Nat /\ now >= SecondsPerDay
          /\ now' \in Nat /\ now' >= SecondsPerDay
      BY <1>1, DeployedAfterEpochDay, ConstantsAssumption DEF TypeOK
    <3>2. QED
      BY <3>1, DayBasics DEF CurrentDay
  <2>3. NotInFuture'
    BY <1>2, <2>1, <2>2 DEF StreakInv, NotInFuture
  <2>4. QED
    BY <1>1, <1>2, <2>3 DEF StreakInv, StreakIsRun
<1>3. CurrentDay <= CurrentDay' \/ now' # now
  BY <1>1, CurrentDayPositive DEF CurrentDay
<1>4. ASSUME NEW p \in Players, NEW id \in DOMAIN sessions, FinalizeSession(p, id)
      PROVE  StreakInv'
  <2>1. /\ streak' = [streak EXCEPT ![p] = NextStreak(@, CurrentDay)]
        /\ playedDays' = [playedDays EXCEPT ![p] = @ \cup {CurrentDay}]
        /\ CurrentDay' = CurrentDay
    BY <1>4 DEF FinalizeSession, CurrentDay
  <2>2. \A q \in Players : /\ streak[q] \in PlayerStreak
                            /\ playedDays[q] \in SUBSET Nat
                            /\ RunsOf(streak[q], playedDays[q])
    BY <1>1 DEF TypeOK, StreakInv, StreakIsRun, RunsOf
  <2>3. CurrentDay \in Nat \ {0} /\ streak[p].last_day_played <= CurrentDay
    BY <1>1, CurrentDayPositive DEF StreakInv, NotInFuture
  <2>4. RunsOf(streak'[p], playedDays'[p])
    <3>1. RunsOf(NextStreak(streak[p], CurrentDay), playedDays[p] \cup {CurrentDay})
      BY <2>2, <2>3, NextStreakDescribes
    <3>2. QED
      BY <1>1, <2>1, <3>1 DEF TypeOK
  <2>5. streak'[p].last_day_played = CurrentDay
    BY <1>1, <2>1 DEF TypeOK, NextStreak
  <2>6. \A q \in Players : q # p => streak'[q] = streak[q] /\ playedDays'[q] = playedDays[q]
    BY <1>1, <2>1 DEF TypeOK
  <2>7. \A q \in Players : RunsOf(streak'[q], playedDays'[q])
    BY <2>2, <2>4, <2>6
  <2>8. StreakIsRun'
    BY <2>7 DEF StreakIsRun, RunsOf
  <2>9. NotInFuture'
    BY <2>1, <2>3, <2>5, <2>6 DEF NotInFuture, StreakInv
  <2>10. QED
    BY <1>1, <2>8, <2>9 DEF StreakInv
<1>5. ASSUME NEW t \in now + 1 .. MaxTime, CloseLedger(t) PROVE StreakInv'
  <2>1. now \in Nat /\ t \in Nat /\ now <= t /\ now' = t
    BY <1>1, <1>5, ConstantsAssumption DEF TypeOK, CloseLedger
  <2>2. CurrentDay <= CurrentDay'
    BY <2>1, DayMonotone DEF CurrentDay
  <2>3. QED
    BY <1>2, <1>5, <2>2 DEF CloseLedger, history
<1>6. ASSUME UNCHANGED <<now, streak, playedDays>> PROVE StreakInv'
  BY <1>2, <1>3, <1>6
<1>7. ASSUME AdminStep PROVE StreakInv'
  BY <1>6, <1>7 DEF AdminStep, Initialize, Pause, SetRotateSchedule, UpdateMetadata,
         SetDayConfig, history
<1>8. ASSUME NEW p \in Players, NEW d \in Days, NEW n \in Nonces, CreateSession(p, d, n)
      PROVE  StreakInv'
  BY <1>6, <1>8 DEF CreateSession, history
<1>9. ASSUME NEW p \in Players, NEW id \in DOMAIN sessions,
             NEW correct \in BOOLEAN, SubmitGuess(p, id, correct)
      PROVE  StreakInv'
  BY <1>6, <1>9 DEF SubmitGuess
<1>10. CASE UNCHANGED vars
  BY <1>6, <1>10 DEF vars
<1>11. QED
  BY <1>4, <1>5, <1>7, <1>8, <1>9, <1>10 DEF Next, PlayerStep

\* In every reachable state the streak counters of every player describe that
\* player's whole history of days played.
THEOREM StreaksDescribeHistory == Spec => []StreakIsRun
BY StreakInvInit, StreakInvStep, PTL DEF Spec, StreakInv

-----------------------------------------------------------------------------
(* What a step may never do *)

\* How a session may move in one step.
Progress(old, new) ==
    /\ new.max_attempts = old.max_attempts
    /\ new.attempts_used - old.attempts_used \in {0, 1}
    /\ old.finalized => new = old

OnlyProgress ==
    /\ DOMAIN sessions \subseteq DOMAIN sessions'
    /\ \A id \in DOMAIN sessions : Progress(sessions[id], sessions'[id])

\* The two writes to an existing session are progress, and so is none.
LEMMA WritesAreProgress ==
    ASSUME NEW s \in Session
    PROVE  /\ Progress(s, s)
           /\ \A correct \in BOOLEAN : Guessable(s) => Progress(s, AfterGuess(s, correct))
           /\ Settleable(s) => Progress(s, Settled(s))
<1>1. s.attempts_used \in Nat
  BY DEF Session
<1>2. Progress(s, s)
  BY <1>1 DEF Progress
<1>3. ASSUME NEW correct \in BOOLEAN, Guessable(s) PROVE Progress(s, AfterGuess(s, correct))
  <2> DEFINE st == NextStatus(s, correct)
  <2> DEFINE g == AfterGuess(s, correct)
  <2>1. s.attempts_used + 1 \in Nat
    BY <1>1
  <2>2. g = [s EXCEPT !.attempts_used = @ + 1, !.status = st]
    BY DEF AfterGuess
  <2> HIDE DEF g, st
  <2>3. g.attempts_used = s.attempts_used + 1 /\ g.max_attempts = s.max_attempts
    BY <2>1, <2>2 DEF Session
  <2>4. Progress(s, g)
    BY <1>1, <1>3, <2>3 DEF Progress, Guessable
  <2>5. QED
    BY <2>4 DEF g
<1>4. ASSUME Settleable(s) PROVE Progress(s, Settled(s))
  BY <1>1, <1>4 DEF Progress, Settled, Settleable, Session
<1>5. QED
  BY <1>2, <1>3, <1>4

\* A write to one stored session that is progress for that session.
LEMMA OneWriteIsProgress ==
    ASSUME TypeOK, NEW id \in DOMAIN sessions, NEW s, Progress(sessions[id], s),
           sessions' = [sessions EXCEPT ![id] = s]
    PROVE  OnlyProgress
<1>1. \A k \in DOMAIN sessions : Progress(sessions[k], sessions[k])
  BY WritesAreProgress DEF TypeOK, IsMap
<1>2. QED
  BY <1>1 DEF OnlyProgress

\* A transaction only moves sessions forward.
LEMMA ProgressStep == SessionInv /\ [Next]_vars => OnlyProgress
<1> SUFFICES ASSUME SessionInv, [Next]_vars PROVE OnlyProgress
  OBVIOUS
<1>1. TypeOK /\ NonceOpensOneSession
  BY DEF SessionInv, SessionRules
<1>2. ASSUME NEW p \in Players, NEW d \in Days, NEW n \in Nonces, CreateSession(p, d, n)
      PROVE  OnlyProgress
  <2> DEFINE id == [player |-> p, day |-> d, nonce |-> n, at |-> now]
  <2>1. sessions' = Put(sessions, id, NewSession(p, d)) /\ id \notin DOMAIN sessions
    BY <1>1, <1>2, FreshId DEF CreateSession
  <2> HIDE DEF id
  <2>2. \A k \in DOMAIN sessions : sessions'[k] = sessions[k]
    BY <2>1, PutEntries
  <2>3. DOMAIN sessions' = DOMAIN sessions \cup {id}
    BY <2>1, PutDomain
  <2>4. \A k \in DOMAIN sessions : Progress(sessions[k], sessions'[k])
    <3>1. SUFFICES ASSUME NEW k \in DOMAIN sessions
                   PROVE  Progress(sessions[k], sessions'[k])
      OBVIOUS
    <3>2. sessions[k] \in Session /\ sessions'[k] = sessions[k]
      BY <1>1, <2>2 DEF TypeOK, IsMap
    <3>3. QED
      BY <3>2, WritesAreProgress, Zenon
  <2>5. QED
    BY <2>3, <2>4 DEF OnlyProgress
<1>3. ASSUME NEW p \in Players, NEW id \in DOMAIN sessions,
             NEW correct \in BOOLEAN, SubmitGuess(p, id, correct)
      PROVE  OnlyProgress
  <2>1. Progress(sessions[id], AfterGuess(sessions[id], correct))
    BY <1>1, <1>3, WritesAreProgress DEF SubmitGuess, TypeOK, IsMap
  <2>2. sessions' = [sessions EXCEPT ![id] = AfterGuess(sessions[id], correct)]
    BY <1>3 DEF SubmitGuess
  <2>3. QED
    BY <1>1, <2>1, <2>2, OneWriteIsProgress
<1>4. ASSUME NEW p \in Players, NEW id \in DOMAIN sessions, FinalizeSession(p, id)
      PROVE  OnlyProgress
  <2>1. Progress(sessions[id], Settled(sessions[id]))
    BY <1>1, <1>4, WritesAreProgress DEF FinalizeSession, TypeOK, IsMap
  <2>2. sessions' = [sessions EXCEPT ![id] = Settled(sessions[id])]
    BY <1>4 DEF FinalizeSession
  <2>3. QED
    BY <1>1, <2>1, <2>2, OneWriteIsProgress
<1>5. ASSUME UNCHANGED sessions PROVE OnlyProgress
  BY <1>1, <1>5, WritesAreProgress DEF OnlyProgress, TypeOK, IsMap
<1>6. ASSUME AdminStep PROVE OnlyProgress
  BY <1>5, <1>6 DEF AdminStep, Initialize, Pause, SetRotateSchedule, UpdateMetadata,
         SetDayConfig
<1>7. ASSUME NEW t, CloseLedger(t) PROVE OnlyProgress
  BY <1>5, <1>7 DEF CloseLedger
<1>8. CASE UNCHANGED vars
  BY <1>5, <1>8 DEF vars
<1>9. QED
  BY <1>2, <1>3, <1>4, <1>6, <1>7, <1>8 DEF Next, PlayerStep

\* No step deletes a session, re-reads its budget, spends two attempts or
\* touches it once settled, whatever the admin publishes meanwhile.
THEOREM SessionsProgress == Spec => SessionsOnlyProgress
<1>1. OnlyProgress =>
        [/\ DOMAIN sessions \subseteq DOMAIN sessions'
         /\ \A id \in DOMAIN sessions :
               /\ sessions'[id].max_attempts = sessions[id].max_attempts
               /\ sessions'[id].attempts_used - sessions[id].attempts_used \in {0, 1}
               /\ sessions[id].finalized => sessions'[id] = sessions[id]]_vars
  BY DEF OnlyProgress, Progress
<1>2. QED
  BY <1>1, SessionInvInit, SessionInvStep, ProgressStep, PTL
     DEF Spec, SessionsOnlyProgress

\* A transaction that finds the contract paused, and leaves it so, changes
\* nothing a player owns.
THEOREM PausedPlayFrozen == Spec => PauseFreezesPlay
<1>1. ASSUME [Next]_vars
      PROVE  [paused /\ paused' => UNCHANGED <<sessions, usedNonces, streak>>]_vars
  <2>1. ASSUME PlayerStep PROVE ~paused
    BY <2>1 DEF PlayerStep, CreateSession, SubmitGuess, FinalizeSession, RequireNotPaused
  <2>2. ASSUME AdminStep PROVE UNCHANGED <<sessions, usedNonces, streak>>
    BY <2>2 DEF AdminStep, Initialize, Pause, SetRotateSchedule, UpdateMetadata,
         SetDayConfig
  <2>3. ASSUME NEW t, CloseLedger(t) PROVE UNCHANGED <<sessions, usedNonces, streak>>
    BY <2>3 DEF CloseLedger
  <2>4. CASE UNCHANGED vars
    BY <2>4
  <2>5. QED
    BY <1>1, <2>1, <2>2, <2>3, <2>4 DEF Next
<1>2. QED
  BY <1>1, PTL DEF Spec, PauseFreezesPlay
-----------------------------------------------------------------------------
(* A streak is earned *)

\* The sessions a player has settled; finitely many in every reachable state.
SettledBy(p) ==
    {id \in DOMAIN sessions : id.player = p /\ sessions[id].finalized}

\* The record covers the current streak: without it the record could be passed
\* by a streak longer than the settlements.
Earned(p) ==
    /\ IsFiniteSet(SettledBy(p))
    /\ streak[p].current <= streak[p].max
    /\ streak[p].max <= Cardinality(SettledBy(p))

EarnedInv == SessionInv /\ \A p \in Players : Earned(p)

\* A settlement raises the streak and its record by one at most.
LEMMA NextStreakAddsOne ==
    ASSUME NEW s \in PlayerStreak, NEW day \in Nat, s.current <= s.max
    PROVE  /\ NextStreak(s, day).current <= NextStreak(s, day).max
           /\ NextStreak(s, day).max <= s.max + 1
<1> DEFINE cur == IF s.last_day_played + 1 = day THEN s.current + 1
                  ELSE IF s.last_day_played # day THEN 1 ELSE s.current
<1> DEFINE best == IF cur > s.max THEN cur ELSE s.max
<1>1. s.current \in Nat /\ s.max \in Nat
  BY DEF PlayerStreak
<1>2. cur \in Nat /\ (cur = s.current + 1 \/ cur = 1 \/ cur = s.current)
  BY <1>1
<1>3. NextStreak(s, day).current = cur /\ NextStreak(s, day).max = best
  BY DEF NextStreak
<1> HIDE DEF cur
<1>4. cur <= best /\ best <= s.max + 1
  BY <1>1, <1>2
<1> QED
  BY <1>3, <1>4

\* A step that settles no session and moves no streak.
LEMMA CalmSettlements ==
    ASSUME EarnedInv, UNCHANGED streak, SessionInv',
           \A p \in Players : SettledBy(p)' = SettledBy(p)
    PROVE  EarnedInv'
BY DEF EarnedInv, Earned

\* A settlement adds one session to those its player has settled.
LEMMA FinalizeEarns ==
    ASSUME EarnedInv, NEW p \in Players, NEW id \in DOMAIN sessions, FinalizeSession(p, id),
           NEW q \in Players
    PROVE  Earned(q)'
<1>1. /\ streak \in [Players -> PlayerStreak] /\ id.player = p
      /\ sessions[id] \in Session /\ ~sessions[id].finalized
      /\ CurrentDay \in Nat
  BY CurrentDayPositive DEF EarnedInv, SessionInv, SessionRules, OwnerIsKey, TypeOK, IsMap,
     FinalizeSession, Settleable
<1>2. /\ sessions' = [sessions EXCEPT ![id] = Settled(@)]
      /\ streak' = [streak EXCEPT ![p] = NextStreak(@, CurrentDay)]
  BY DEF FinalizeSession
<1>3. /\ DOMAIN sessions' = DOMAIN sessions /\ sessions'[id].finalized
      /\ \A k \in DOMAIN sessions : k # id => sessions'[k] = sessions[k]
  BY <1>1, <1>2 DEF Settled, Session, EarnedInv, SessionInv, TypeOK, IsMap
<1>4. CASE q # p
  <2>1. SettledBy(q)' = SettledBy(q) /\ streak'[q] = streak[q]
    BY <1>1, <1>2, <1>3, <1>4 DEF SettledBy
  <2> QED
    BY <2>1 DEF EarnedInv, Earned
<1>5. CASE q = p
  <2>1. id \notin SettledBy(p) /\ SettledBy(p)' = SettledBy(p) \cup {id}
    BY <1>1, <1>3 DEF SettledBy
  <2>2. /\ IsFiniteSet(SettledBy(p)') /\ Cardinality(SettledBy(p)) \in Nat
        /\ Cardinality(SettledBy(p)') = Cardinality(SettledBy(p)) + 1
    BY <2>1, FS_AddElement, FS_CardinalityType DEF EarnedInv, Earned
  <2>3. streak'[p] = NextStreak(streak[p], CurrentDay) /\ streak[p] \in PlayerStreak
    BY <1>1, <1>2
  <2>4. streak[p].current <= streak[p].max /\ streak[p].max <= Cardinality(SettledBy(p))
    BY DEF EarnedInv, Earned
  <2>5. streak'[p].current <= streak'[p].max /\ streak'[p].max <= streak[p].max + 1
    BY <1>1, <2>3, <2>4, NextStreakAddsOne
  <2>6. streak[p].max \in Nat /\ streak'[p].max \in Nat
    BY <1>1, <2>3 DEF PlayerStreak, NextStreak
  <2>7. streak'[p].max <= Cardinality(SettledBy(p)')
    BY <2>2, <2>4, <2>5, <2>6
  <2> QED
    BY <1>5, <2>2, <2>5, <2>7 DEF Earned
<1> QED
  BY <1>4, <1>5

\* The other writes to sessions settle none.
LEMMA OthersSettleNone ==
    ASSUME SessionInv, NEW p \in Players,
           \/ \E d \in Days, n \in Nonces : CreateSession(p, d, n)
           \/ \E id \in DOMAIN sessions, correct \in BOOLEAN : SubmitGuess(p, id, correct),
           NEW q \in Players
    PROVE  SettledBy(q)' = SettledBy(q)
<1>1. ASSUME NEW d \in Days, NEW n \in Nonces, CreateSession(p, d, n)
      PROVE  SettledBy(q)' = SettledBy(q)
  <2> DEFINE id == [player |-> p, day |-> d, nonce |-> n, at |-> now]
  <2>1. /\ sessions' = Put(sessions, id, NewSession(p, d))
        /\ NonceFree(p, n)
    BY <1>1 DEF CreateSession
  <2>2. id \notin DOMAIN sessions
    BY <2>1, FreshId DEF SessionInv, SessionRules
  <2>3. ~NewSession(p, d).finalized
    BY DEF NewSession
  <2> HIDE DEF id
  <2>4. DOMAIN sessions' = DOMAIN sessions \cup {id}
    BY <2>1, PutDomain
  <2>5. /\ sessions'[id] = NewSession(p, d)
        /\ \A k \in DOMAIN sessions : sessions'[k] = sessions[k]
    BY <2>1, <2>2, PutEntries
  <2> QED
    BY <2>2, <2>3, <2>4, <2>5 DEF SettledBy
<1>2. ASSUME NEW id \in DOMAIN sessions, NEW correct \in BOOLEAN, SubmitGuess(p, id, correct)
      PROVE  SettledBy(q)' = SettledBy(q)
  <2>1. /\ sessions' = [sessions EXCEPT ![id] = AfterGuess(@, correct)]
        /\ sessions[id] \in Session
    BY <1>2 DEF SubmitGuess, SessionInv, TypeOK, IsMap
  <2>2. AfterGuess(sessions[id], correct).finalized = sessions[id].finalized
    BY <2>1 DEF AfterGuess, Session
  <2>3. /\ DOMAIN sessions' = DOMAIN sessions
        /\ \A k \in DOMAIN sessions : sessions'[k].finalized = sessions[k].finalized
    BY <2>1, <2>2
  <2> QED
    BY <2>3 DEF SettledBy
<1> QED
  BY <1>1, <1>2

\* The record streak of a player never exceeds the number of sessions settled,
\* for any days, repetitions and republished configurations (finalize_session,
\* update_streak).
THEOREM StreaksAreEarned == Spec => []StreakEarned
<1>1. Init => EarnedInv
  <2> SUFFICES ASSUME Init PROVE EarnedInv
    OBVIOUS
  <2>1. SessionInv
    BY SessionInvInit
  <2>2. \A p \in Players : SettledBy(p) = {} /\ streak[p] = NoStreak
    BY DEF Init, SettledBy, NoEntries
  <2> QED
    BY <2>1, <2>2, FS_EmptySet DEF EarnedInv, Earned, NoStreak
<1>2. EarnedInv /\ [Next]_vars => EarnedInv'
  <2> SUFFICES ASSUME EarnedInv, [Next]_vars PROVE EarnedInv'
    OBVIOUS
  <2>1. SessionInv /\ SessionInv'
    BY SessionInvStep DEF EarnedInv
  <2>2. CASE UNCHANGED <<sessions, streak>>
    <3>1. \A p \in Players : SettledBy(p)' = SettledBy(p)
      BY <2>2 DEF SettledBy
    <3> QED
      BY <2>1, <2>2, <3>1, CalmSettlements
  <2>3. ASSUME NEW p \in Players, NEW d \in Days, NEW n \in Nonces, CreateSession(p, d, n)
        PROVE  EarnedInv'
    BY <2>1, <2>3, OthersSettleNone, CalmSettlements DEF CreateSession
  <2>4. ASSUME NEW p \in Players, NEW id \in DOMAIN sessions, NEW correct \in BOOLEAN,
               SubmitGuess(p, id, correct)
        PROVE  EarnedInv'
    BY <2>1, <2>4, OthersSettleNone, CalmSettlements DEF SubmitGuess
  <2>5. ASSUME NEW p \in Players, NEW id \in DOMAIN sessions, FinalizeSession(p, id)
        PROVE  EarnedInv'
    BY <2>1, <2>5, FinalizeEarns DEF EarnedInv
  <2>6. CASE AdminStep
    BY <2>2, <2>6 DEF AdminStep, Initialize, Pause, SetRotateSchedule, UpdateMetadata, SetDayConfig
  <2>7. CASE \E t \in now + 1 .. MaxTime : CloseLedger(t)
    BY <2>2, <2>7 DEF CloseLedger
  <2>8. CASE UNCHANGED vars
    BY <2>2, <2>8 DEF vars
  <2> QED
    BY <2>3, <2>4, <2>5, <2>6, <2>7, <2>8 DEF Next, PlayerStep
<1>3. EarnedInv => StreakEarned
  BY DEF EarnedInv, Earned, StreakEarned, SettledBy
<1> QED
  BY <1>1, <1>2, <1>3, PTL DEF Spec
=============================================================================
