----------------------------- MODULE PlayProofs -----------------------------
(***************************************************************************)
(* Theorems of the play services of the backend: game sessions and their   *)
(* leaderboard, matchmaking, and votes for suggested words, for any number *)
(* of players, words, sessions and requests in progress; at the end, the   *)
(* backend as a whole, with the accounts beside them.                      *)
(***************************************************************************)
EXTENDS MCBackend, AccountsProofs, CountingLemmas

-----------------------------------------------------------------------------
(* Game sessions *)

GuessRows == {[guess |-> g, marks |-> Evaluate(g, w)] : g \in Words, w \in Words}
SessionRow == [owner : Players, solution : Words, status : {"IN_PROGRESS", "WON", "LOST"},
               history : Seq(GuessRows)]

PlayedBy(u) == {s \in DOMAIN sessions : sessions[s].owner = u}
Finding(u) == {h \in Handlers : handler[h].pc = "find" /\ handler[h].user = u}

\* The rows, and what each request has read of them.
Sessions ==
    /\ sessions \in Seq(SessionRow) /\ DOMAIN handler = Handlers
    /\ \A h \in Handlers :
          /\ handler[h].pc \in {"free", "find", "upsert", "guess"}
          /\ handler[h].pc = "guess" =>
                /\ handler[h].sess \in DOMAIN sessions /\ handler[h].guess \in Words
                /\ handler[h].seen \in Nat
                /\ handler[h].seen <= Len(sessions[handler[h].sess].history)

\* A request that read the whole history read it before the end of the game.
GuessesCurrent ==
    \A h \in Handlers : handler[h].pc = "guess" =>
        LET row == sessions[handler[h].sess] IN
        handler[h].seen = Len(row.history) => row.status = "IN_PROGRESS"

\* The board, and what is about to be written to it, stays below the number of
\* sessions saved less those whose creation has not read the board yet.
BelowFor(u) ==
    /\ board[u] + Cardinality(Finding(u)) <= Cardinality(PlayedBy(u))
    /\ \A h \in Handlers : handler[h].pc = "upsert" /\ handler[h].user = u =>
          /\ handler[h].seen \in Nat
          /\ handler[h].seen + 1 + Cardinality(Finding(u)) <= Cardinality(PlayedBy(u))

\* Creations one after the other: at most one is on its way to the board.
EvenFor(u) ==
    u \notin uneven =>
        /\ board[u] + Cardinality(Board(u)) = Cardinality(PlayedBy(u))
        /\ \A g, h \in Board(u) : g = h
        /\ \A h \in Board(u) : handler[h].pc = "upsert" => handler[h].seen = board[u]

BoardTypes ==
    /\ board \in [Users -> Nat]
    /\ \A h \in Handlers : handler[h].pc \in {"find", "upsert"} => handler[h].user \in Users

BoardInv == BoardTypes /\ \A u \in Users : BelowFor(u) /\ EvenFor(u)

SessionsInv == Sessions /\ StatusFollowsHistory /\ GuessesCurrent /\ BoardInv

\* A guess that is saved follows the whole history, of a game still open.
LEMMA SavedGuess ==
    ASSUME Sessions, StatusFollowsHistory, GuessesCurrent, NEW h \in Handlers, SaveGuess(h)
    PROVE  LET s == handler[h].sess
               past == sessions[s].history
               marks == Evaluate(handler[h].guess, sessions[s].solution)
               row == [guess |-> handler[h].guess, marks |-> marks]
           IN  /\ s \in DOMAIN sessions /\ past \in Seq(GuessRows) /\ row \in GuessRows
               /\ sessions[s].status = "IN_PROGRESS" /\ Len(past) < MaxAttempts
               /\ \A k \in DOMAIN past : ~Solved(past[k].marks)
               /\ sessions' \in Seq(SessionRow) /\ DOMAIN sessions' = DOMAIN sessions
               /\ \A r \in DOMAIN sessions \ {s} : sessions'[r] = sessions[r]
               /\ sessions'[s].owner = sessions[s].owner
               /\ sessions'[s].history = Append(past, row)
               /\ sessions'[s].status = StatusAfter(marks, Len(past) + 1)
<1> DEFINE s == handler[h].sess
           past == sessions[s].history
           marks == Evaluate(handler[h].guess, sessions[s].solution)
           row == [guess |-> handler[h].guess, marks |-> marks]
           attempt == handler[h].seen + 1
<1>1. /\ handler[h].pc = "guess" /\ attempt > Len(past)
      /\ sessions' = [sessions EXCEPT ![s].status = StatusAfter(marks, attempt),
                                      ![s].history = Append(@, row)]
  BY Zenon DEF SaveGuess, AttemptFree
<1>2. /\ s \in DOMAIN sessions /\ handler[h].seen \in Nat /\ handler[h].guess \in Words
      /\ handler[h].seen <= Len(past) /\ sessions \in Seq(SessionRow) /\ sessions[s] \in SessionRow
      /\ past \in Seq(GuessRows) /\ sessions[s].solution \in Words /\ Len(past) \in Nat
  <2>1. /\ s \in DOMAIN sessions /\ handler[h].seen \in Nat /\ handler[h].guess \in Words
        /\ handler[h].seen <= Len(past) /\ sessions \in Seq(SessionRow)
    BY <1>1 DEF Sessions
  <2>2. sessions[s] \in SessionRow
    BY <2>1
  <2>3. past \in Seq(GuessRows) /\ sessions[s].solution \in Words
    BY <2>2 DEF SessionRow
  <2>4. Len(past) \in Nat
    BY <2>3
  <2> QED
    BY <2>1, <2>2, <2>3, <2>4
<1>3. handler[h].seen = Len(past) /\ attempt = Len(past) + 1
  <2>1. handler[h].seen + 1 > Len(past)
    BY <1>1
  <2> HIDE DEF past
  <2> QED
    BY <1>2, <2>1
<1>4. sessions[s].status = "IN_PROGRESS"
  BY <1>1, <1>3 DEF GuessesCurrent
<1>5. row \in GuessRows
  BY <1>1, <1>2 DEF GuessRows
<1>6. \A k \in DOMAIN past : ~Solved(past[k].marks)
  <2>1. {k \in DOMAIN past : Solved(past[k].marks)} # {} => sessions[s].status = "WON"
    BY <1>2 DEF StatusFollowsHistory
  <2> QED
    BY <1>4, <2>1
<1>7. Len(past) < MaxAttempts
  <2>1. MaxAttempts \in Nat \ {0}
    BY SessionsAssumption
  <2> QED
    BY <1>1, <1>2, <1>4, <2>1 DEF StatusFollowsHistory
<1>8. StatusAfter(marks, attempt) \in {"IN_PROGRESS", "WON", "LOST"}
  BY DEF StatusAfter
<1> HIDE DEF s, past, marks, row, attempt
<1>9. Append(past, row) \in Seq(GuessRows)
  BY <1>2, <1>5
<1>10. /\ DOMAIN sessions' = DOMAIN sessions
       /\ \A r \in DOMAIN sessions \ {s} : sessions'[r] = sessions[r]
       /\ sessions'[s] = [sessions[s] EXCEPT !.status = StatusAfter(marks, attempt),
                                             !.history = Append(past, row)]
  <2> DEFINE decided == [sessions EXCEPT ![s].status = StatusAfter(marks, attempt)]
  <2>1. /\ DOMAIN decided = DOMAIN sessions
        /\ \A r \in DOMAIN sessions \ {s} : decided[r] = sessions[r]
        /\ decided[s] = [sessions[s] EXCEPT !.status = StatusAfter(marks, attempt)]
    BY <1>2
  <2>2. decided[s].history = past
    BY <1>2, <2>1 DEF SessionRow, past
  <2>3. sessions' = [decided EXCEPT ![s].history = Append(decided[s].history, row)]
    BY <1>1
  <2> HIDE DEF decided
  <2>4. sessions' = [decided EXCEPT ![s].history = Append(past, row)]
    BY <2>2, <2>3
  <2>5. /\ DOMAIN sessions' = DOMAIN sessions
        /\ \A r \in DOMAIN sessions \ {s} : sessions'[r] = sessions[r]
        /\ sessions'[s] = [decided[s] EXCEPT !.history = Append(past, row)]
    BY <1>2, <2>1, <2>4
  <2> QED
    BY <2>1, <2>5
<1>11. /\ sessions'[s].owner = sessions[s].owner /\ sessions'[s].history = Append(past, row)
       /\ sessions'[s].status = StatusAfter(marks, attempt) /\ sessions'[s] \in SessionRow
  BY <1>2, <1>8, <1>9, <1>10 DEF SessionRow
<1>12. sessions' \in Seq(SessionRow)
  <2>1. sessions' = [r \in DOMAIN sessions |-> sessions'[r]]
    BY <1>1, <1>10
  <2>2. \A r \in DOMAIN sessions : sessions'[r] \in SessionRow
    BY <1>2, <1>10, <1>11
  <2> QED
    BY <1>2, <2>1, <2>2
<1> QED
  BY <1>1, <1>2, <1>3, <1>4, <1>5, <1>6, <1>7, <1>10, <1>11, <1>12 DEF s, past, marks, row, attempt

\* A session that is created has a history to come.
LEMMA CreatedSession ==
    ASSUME Sessions, NEW h \in Handlers, NEW u \in Players, NEW w \in Words, CreateSession(h, u, w)
    PROVE  LET n == Len(sessions) + 1
           IN  /\ sessions' \in Seq(SessionRow) /\ DOMAIN sessions' = DOMAIN sessions \cup {n}
               /\ n \notin DOMAIN sessions /\ \A s \in DOMAIN sessions : sessions'[s] = sessions[s]
               /\ sessions'[n] = [owner |-> u, solution |-> w, status |-> "IN_PROGRESS",
                                  history |-> << >>]
<1> DEFINE row == [owner |-> u, solution |-> w, status |-> "IN_PROGRESS", history |-> << >>]
<1>1. << >> \in Seq(GuessRows)
  OBVIOUS
<1>2. row \in SessionRow
  BY <1>1 DEF SessionRow
<1>3. sessions \in Seq(SessionRow) /\ sessions' = Append(sessions, row)
  BY DEF Sessions, CreateSession
<1> HIDE DEF row
<1>4. /\ sessions' \in Seq(SessionRow) /\ Len(sessions') = Len(sessions) + 1
      /\ \A s \in DOMAIN sessions : sessions'[s] = sessions[s]
      /\ sessions'[Len(sessions) + 1] = row
  BY <1>2, <1>3
<1>5. DOMAIN sessions = 1 .. Len(sessions) /\ DOMAIN sessions' = 1 .. Len(sessions) + 1
  BY <1>3, <1>4
<1>6. Len(sessions) \in Nat
  BY <1>3
<1> QED
  BY <1>4, <1>5, <1>6 DEF row

\* The rows keep their types, and games are decided by their guesses.
LEMMA GamesStep ==
    ASSUME Sessions, StatusFollowsHistory, GuessesCurrent, [SessionsNext]_sessionVars
    PROVE  Sessions' /\ StatusFollowsHistory' /\ GuessesCurrent'
<1> DEFINE Goal == Sessions' /\ StatusFollowsHistory' /\ GuessesCurrent'
<1>1. ASSUME NEW h \in Handlers, NEW state, sessions' = sessions,
             handler' = [handler EXCEPT ![h] = state],
             state.pc \in {"free", "find", "upsert", "guess"},
             state.pc = "guess" =>
                /\ state.sess \in DOMAIN sessions /\ state.guess \in Words
                /\ state.seen = Len(sessions[state.sess].history)
                /\ sessions[state.sess].status = "IN_PROGRESS"
      PROVE  Goal
  <2>1. \A s \in DOMAIN sessions : Len(sessions[s].history) \in Nat
    BY DEF Sessions, SessionRow
  <2>2. /\ DOMAIN handler' = Handlers /\ handler'[h] = state
        /\ \A g \in Handlers \ {h} : handler'[g] = handler[g]
    BY <1>1 DEF Sessions
  <2>3. Sessions'
    BY <1>1, <2>1, <2>2 DEF Sessions
  <2>4. StatusFollowsHistory'
    BY <1>1 DEF StatusFollowsHistory
  <2>5. GuessesCurrent'
    BY <1>1, <2>2 DEF GuessesCurrent
  <2> QED
    BY <2>3, <2>4, <2>5
<1>2. ASSUME NEW h \in Handlers, NEW u \in Players, NEW w \in Words, CreateSession(h, u, w)
      PROVE  Goal
  <2> DEFINE n == Len(sessions) + 1
  <2>1. /\ sessions' \in Seq(SessionRow) /\ DOMAIN sessions' = DOMAIN sessions \cup {n}
        /\ \A s \in DOMAIN sessions : sessions'[s] = sessions[s]
        /\ sessions'[n].status = "IN_PROGRESS" /\ sessions'[n].history = << >>
    <3> DEFINE row == [owner |-> u, solution |-> w, status |-> "IN_PROGRESS", history |-> << >>]
    <3>1. /\ sessions' \in Seq(SessionRow) /\ DOMAIN sessions' = DOMAIN sessions \cup {n}
          /\ \A s \in DOMAIN sessions : sessions'[s] = sessions[s]
          /\ sessions'[n] = row
      BY <1>2, CreatedSession
    <3>2. row.status = "IN_PROGRESS" /\ row.history = << >>
      OBVIOUS
    <3> HIDE DEF row, n
    <3> QED
      BY <3>1, <3>2
  <2>2. /\ DOMAIN handler' = Handlers /\ handler'[h].pc \in {"free", "find"}
        /\ \A g \in Handlers \ {h} : handler'[g] = handler[g]
    BY <1>2 DEF CreateSession, Sessions, Free
  <2> HIDE DEF n
  <2>3. Sessions'
    BY <2>1, <2>2 DEF Sessions
  <2>4. StatusFollowsHistory'
    <3>1. ASSUME NEW s \in DOMAIN sessions'
          PROVE  LET past == sessions'[s].history
                     solved == {k \in DOMAIN past : Solved(past[k].marks)} IN
                 /\ Len(past) <= MaxAttempts /\ solved \subseteq {Len(past)}
                 /\ sessions'[s].status = IF solved # {} THEN "WON"
                                          ELSE IF Len(past) = MaxAttempts THEN "LOST" ELSE "IN_PROGRESS"
      <4>1. CASE s = n
        BY <2>1, <4>1, SessionsAssumption
      <4>2. CASE s \in DOMAIN sessions
        BY <2>1, <4>2 DEF StatusFollowsHistory
      <4> QED
        BY <2>1, <4>1, <4>2
    <3> QED
      BY <3>1 DEF StatusFollowsHistory
  <2>5. GuessesCurrent'
    BY <2>1, <2>2 DEF GuessesCurrent, Sessions
  <2> QED
    BY <2>3, <2>4, <2>5
<1>3. ASSUME NEW h \in Handlers, SaveGuess(h)
      PROVE  Goal
  <2> DEFINE s == handler[h].sess
             past == sessions[s].history
             marks == Evaluate(handler[h].guess, sessions[s].solution)
             row == [guess |-> handler[h].guess, marks |-> marks]
  <2>1. /\ s \in DOMAIN sessions /\ past \in Seq(GuessRows) /\ row \in GuessRows
        /\ sessions[s].status = "IN_PROGRESS" /\ Len(past) < MaxAttempts
        /\ \A k \in DOMAIN past : ~Solved(past[k].marks)
        /\ sessions' \in Seq(SessionRow) /\ DOMAIN sessions' = DOMAIN sessions
        /\ \A r \in DOMAIN sessions \ {s} : sessions'[r] = sessions[r]
        /\ sessions'[s].history = Append(past, row)
        /\ sessions'[s].status = StatusAfter(marks, Len(past) + 1)
    BY <1>3, SavedGuess
  <2>2. /\ DOMAIN handler' = Handlers /\ handler'[h].pc = "free"
        /\ \A g \in Handlers \ {h} : handler'[g] = handler[g]
    BY <1>3 DEF SaveGuess, Sessions, Free
  <2>3. row.marks = marks
    OBVIOUS
  <2> HIDE DEF s, past, row, marks
  <2>4. /\ Len(past) \in Nat /\ Len(Append(past, row)) = Len(past) + 1
        /\ DOMAIN Append(past, row) = DOMAIN past \cup {Len(past) + 1}
        /\ \A k \in DOMAIN past : Append(past, row)[k] = past[k]
        /\ Append(past, row)[Len(past) + 1] = row
    BY <2>1
  <2>5. Sessions'
    <3>1. ASSUME NEW g \in Handlers, handler'[g].pc = "guess"
          PROVE  /\ handler'[g].sess \in DOMAIN sessions' /\ handler'[g].guess \in Words
                 /\ handler'[g].seen \in Nat
                 /\ handler'[g].seen <= Len(sessions'[handler'[g].sess].history)
      <4>1. g # h /\ handler'[g] = handler[g] /\ handler[g].sess \in DOMAIN sessions
            /\ handler[g].seen \in Nat /\ handler[g].guess \in Words
            /\ handler[g].seen <= Len(sessions[handler[g].sess].history)
        BY <2>2, <3>1 DEF Sessions
      <4>2. CASE handler[g].sess = s
        BY <2>1, <2>4, <4>1, <4>2 DEF past
      <4>3. CASE handler[g].sess # s
        BY <2>1, <4>1, <4>3
      <4> QED
        BY <4>2, <4>3
    <3>2. \A g \in Handlers : handler'[g].pc \in {"free", "find", "upsert", "guess"}
      BY <2>2 DEF Sessions
    <3> QED
      BY <2>1, <2>2, <3>1, <3>2 DEF Sessions
  <2>6. StatusFollowsHistory'
    <3>1. ASSUME NEW r \in DOMAIN sessions', r # s
          PROVE  LET now == sessions'[r].history
                     solved == {k \in DOMAIN now : Solved(now[k].marks)} IN
                 /\ Len(now) <= MaxAttempts /\ solved \subseteq {Len(now)}
                 /\ sessions'[r].status = IF solved # {} THEN "WON"
                                          ELSE IF Len(now) = MaxAttempts THEN "LOST" ELSE "IN_PROGRESS"
      BY <2>1, <3>1 DEF StatusFollowsHistory
    <3>2. LET now == sessions'[s].history
              solved == {k \in DOMAIN now : Solved(now[k].marks)} IN
          /\ Len(now) <= MaxAttempts /\ solved \subseteq {Len(now)}
          /\ sessions'[s].status = IF solved # {} THEN "WON"
                                   ELSE IF Len(now) = MaxAttempts THEN "LOST" ELSE "IN_PROGRESS"
      <4> DEFINE solved == {k \in DOMAIN Append(past, row) : Solved(Append(past, row)[k].marks)}
      <4>1. solved = IF Solved(marks) THEN {Len(past) + 1} ELSE {}
        BY <2>1, <2>3, <2>4
      <4>2. StatusAfter(marks, Len(past) + 1) =
              IF Solved(marks) THEN "WON"
              ELSE IF Len(past) + 1 = MaxAttempts THEN "LOST" ELSE "IN_PROGRESS"
        BY <2>1, <2>4, SessionsAssumption DEF StatusAfter
      <4>3. Len(past) + 1 <= MaxAttempts
        BY <2>1, <2>4, SessionsAssumption
      <4> HIDE DEF solved
      <4>4. /\ Len(Append(past, row)) <= MaxAttempts /\ solved \subseteq {Len(Append(past, row))}
            /\ sessions'[s].status = IF solved # {} THEN "WON"
                                     ELSE IF Len(Append(past, row)) = MaxAttempts THEN "LOST"
                                     ELSE "IN_PROGRESS"
        BY <2>1, <2>4, <4>1, <4>2, <4>3
      <4> QED
        BY <2>1, <4>4 DEF solved
    <3> QED
      BY <3>1, <3>2 DEF StatusFollowsHistory
  <2>7. GuessesCurrent'
    <3> SUFFICES ASSUME NEW g \in Handlers, handler'[g].pc = "guess",
                        handler'[g].seen = Len(sessions'[handler'[g].sess].history)
                 PROVE  sessions'[handler'[g].sess].status = "IN_PROGRESS"
      BY DEF GuessesCurrent
    <3>1. handler'[g] = handler[g] /\ handler[g].sess \in DOMAIN sessions /\ handler[g].seen \in Nat
          /\ handler[g].seen <= Len(sessions[handler[g].sess].history)
      BY <2>2 DEF Sessions
    <3>2. handler[g].sess # s
      BY <2>1, <2>4, <3>1 DEF past
    <3> QED
      BY <2>1, <3>1, <3>2 DEF GuessesCurrent
  <2> QED
    BY <2>5, <2>6, <2>7
<1>4. ASSUME NEW h \in Handlers, NEW s \in DOMAIN sessions, NEW g \in Words, StartGuess(h, s, g)
      PROVE  Goal
  BY <1>1, <1>4 DEF StartGuess
<1>5. ASSUME NEW h \in Handlers, FindEntry(h) \/ SaveEntry(h) \/ UpsertFails(h) \/ GuessFails(h)
      PROVE  Goal
  BY <1>1, <1>5 DEF FindEntry, SaveEntry, UpsertFails, GuessFails, Free
<1>6. ASSUME UNCHANGED sessionVars
      PROVE  Goal
  BY <1>6 DEF sessionVars, Sessions, StatusFollowsHistory, GuessesCurrent
<1> QED
  BY <1>2, <1>3, <1>4, <1>5, <1>6 DEF SessionsNext

\* The sets the leaderboard is measured by are finite, before a step and after.
LEMMA CountsFinite ==
    ASSUME Sessions, NEW CONSTANT u
    PROVE  /\ IsFiniteSet(PlayedBy(u)) /\ Cardinality(PlayedBy(u)) \in Nat
           /\ IsFiniteSet(Finding(u)) /\ Cardinality(Finding(u)) \in Nat
           /\ IsFiniteSet(Board(u)) /\ Cardinality(Board(u)) \in Nat
<1>1. DOMAIN sessions = 1 .. Len(sessions) /\ Len(sessions) \in Nat
  BY DEF Sessions
<1>2. IsFiniteSet(DOMAIN sessions)
  BY <1>1, FS_Interval
<1>3. PlayedBy(u) \subseteq DOMAIN sessions /\ Finding(u) \subseteq Handlers /\ Board(u) \subseteq Handlers
  BY DEF PlayedBy, Finding, Board
<1> QED
  BY <1>2, <1>3, SessionsAssumption, FS_Subset, FS_CardinalityType

\* The sets that are counted stay finite, in the state after a step.
LEMMA CountsStayFinite ==
    ASSUME Sessions', NEW CONSTANT u
    PROVE  /\ IsFiniteSet(PlayedBy(u)') /\ Cardinality(PlayedBy(u)') \in Nat
           /\ IsFiniteSet(Finding(u)') /\ Cardinality(Finding(u)') \in Nat
           /\ IsFiniteSet(Board(u)') /\ Cardinality(Board(u)') \in Nat
<1>1. DOMAIN sessions' = 1 .. Len(sessions') /\ Len(sessions') \in Nat
  BY DEF Sessions
<1>2. IsFiniteSet(DOMAIN sessions')
  BY <1>1, FS_Interval
<1>3. PlayedBy(u)' \subseteq DOMAIN sessions' /\ Finding(u)' \subseteq Handlers /\ Board(u)' \subseteq Handlers
  BY DEF PlayedBy, Finding, Board
<1> QED
  BY <1>2, <1>3, SessionsAssumption, FS_Subset, FS_CardinalityType

\* Whose requests are on their way to the board, after the move of one.
OnBoard(place, u) == place.pc \in {"find", "upsert"} /\ place.user = u

\* A request that moves enters or leaves the sets of requests that are counted.
LEMMA HandlerMoves ==
    ASSUME Sessions, NEW h \in Handlers, NEW state, handler' = [handler EXCEPT ![h] = state],
           NEW CONSTANT u
    PROVE  /\ handler'[h] = state /\ \A g \in Handlers \ {h} : handler'[g] = handler[g]
           /\ Finding(u)' = IF state.pc = "find" /\ state.user = u THEN Finding(u) \cup {h}
                                                                   ELSE Finding(u) \ {h}
           /\ Board(u)' = IF OnBoard(state, u) THEN Board(u) \cup {h} ELSE Board(u) \ {h}
           /\ h \in Board(u) <=> OnBoard(handler[h], u)
           /\ h \in Finding(u) <=> handler[h].pc = "find" /\ handler[h].user = u
<1>1. /\ DOMAIN handler = Handlers /\ handler'[h] = state
      /\ \A g \in Handlers \ {h} : handler'[g] = handler[g]
  BY DEF Sessions
<1> QED
  BY <1>1 DEF Finding, Board, OnBoard

\* A user none of whose requests moves.
LEMMA UserUntouched ==
    ASSUME Sessions, NEW h \in Handlers, NEW state, handler' = [handler EXCEPT ![h] = state],
           NEW CONSTANT u, BelowFor(u), EvenFor(u),
           ~OnBoard(handler[h], u), ~OnBoard(state, u),
           PlayedBy(u)' = PlayedBy(u), board'[u] = board[u], u \in uneven => u \in uneven'
    PROVE  BelowFor(u)' /\ EvenFor(u)'
<1>1. /\ handler'[h] = state /\ \A g \in Handlers \ {h} : handler'[g] = handler[g]
      /\ Finding(u)' = Finding(u) /\ Board(u)' = Board(u) /\ h \notin Board(u)
  <2>1. /\ ~(state.pc = "find" /\ state.user = u) /\ ~(handler[h].pc = "find" /\ handler[h].user = u)
    BY DEF OnBoard
  <2>2. /\ handler'[h] = state /\ \A g \in Handlers \ {h} : handler'[g] = handler[g]
        /\ Finding(u)' = Finding(u) \ {h} /\ Board(u)' = Board(u) \ {h}
        /\ h \notin Board(u) /\ h \notin Finding(u)
    BY <2>1, HandlerMoves
  <2> QED
    BY <2>2
<1>2. BelowFor(u)'
  BY <1>1 DEF BelowFor, OnBoard
<1>3. EvenFor(u)'
  BY <1>1 DEF EvenFor, Board
<1> QED
  BY <1>2, <1>3

\* create: a session more, and a request more on its way to the board.
LEMMA CreateOnBoard ==
    ASSUME Sessions, Sessions', NEW h \in Handlers, NEW v \in Players, NEW w \in Words,
           CreateSession(h, v, w), NEW CONSTANT u \in Users, BoardTypes, BelowFor(u), EvenFor(u)
    PROVE  BelowFor(u)' /\ EvenFor(u)'
<1> DEFINE n == Len(sessions) + 1
           state == IF v = Guest THEN Free ELSE [pc |-> "find", user |-> v]
<1>1. /\ handler[h] = Free /\ handler' = [handler EXCEPT ![h] = state] /\ board' = board
      /\ uneven' = IF v # Guest /\ Board(v) # {} THEN uneven \cup {v} ELSE uneven
  BY DEF CreateSession
<1>2. PlayedBy(u)' = IF v = u THEN PlayedBy(u) \cup {n} ELSE PlayedBy(u)
  <2>1. /\ DOMAIN sessions' = DOMAIN sessions \cup {n} /\ n \notin DOMAIN sessions
        /\ \A s \in DOMAIN sessions : sessions'[s] = sessions[s]
        /\ sessions'[n].owner = v
    <3> DEFINE row == [owner |-> v, solution |-> w, status |-> "IN_PROGRESS", history |-> << >>]
    <3>1. /\ DOMAIN sessions' = DOMAIN sessions \cup {n} /\ n \notin DOMAIN sessions
          /\ \A s \in DOMAIN sessions : sessions'[s] = sessions[s]
          /\ sessions'[n] = row
      BY CreatedSession
    <3>2. row.owner = v
      OBVIOUS
    <3> HIDE DEF row, n
    <3> QED
      BY <3>1, <3>2
  <2> HIDE DEF n
  <2> QED
    BY <2>1 DEF PlayedBy
<1>3. n \notin PlayedBy(u)
  BY CreatedSession DEF PlayedBy
<1>4. ~OnBoard(handler[h], u) /\ u # Guest
  BY <1>1, SessionsAssumption DEF OnBoard, Free
<1>5. /\ OnBoard(state, u) <=> v = u
      /\ state.pc = "find" /\ state.user = u <=> v = u
      /\ state.pc # "upsert"
  BY <1>4 DEF OnBoard, Free
<1> HIDE DEF n, state
<1>6. CASE v # u
  BY <1>1, <1>2, <1>4, <1>5, <1>6, UserUntouched
<1>7. CASE v = u
  <2>1. /\ handler'[h] = state /\ \A g \in Handlers \ {h} : handler'[g] = handler[g]
        /\ Finding(u)' = Finding(u) \cup {h} /\ Board(u)' = Board(u) \cup {h}
        /\ h \notin Board(u) /\ h \notin Finding(u)
    BY <1>1, <1>4, <1>5, <1>7, HandlerMoves DEF OnBoard
  <2>2. /\ Cardinality(Finding(u)) \in Nat /\ Cardinality(Finding(u)') = Cardinality(Finding(u)) + 1
        /\ Cardinality(PlayedBy(u)) \in Nat /\ Cardinality(PlayedBy(u)') = Cardinality(PlayedBy(u)) + 1
        /\ IsFiniteSet(Board(u)) /\ Cardinality(Board(u)') = Cardinality(Board(u)) + 1
        /\ Cardinality(Board(u)) \in Nat
    BY <1>2, <1>3, <1>7, <2>1, CountsFinite, FS_AddElement
  <2>3. board[u] \in Nat
    BY DEF BoardTypes
  <2>4. BelowFor(u)'
    <3>1. board'[u] + Cardinality(Finding(u)') <= Cardinality(PlayedBy(u)')
      BY <1>1, <2>2, <2>3 DEF BelowFor
    <3>2. ASSUME NEW g \in Handlers, handler'[g].pc = "upsert", handler'[g].user = u
          PROVE  /\ handler'[g].seen \in Nat
                 /\ handler'[g].seen + 1 + Cardinality(Finding(u)') <= Cardinality(PlayedBy(u)')
      <4>1. g # h /\ handler'[g] = handler[g]
        BY <1>5, <2>1, <3>2
      <4> QED
        BY <2>2, <3>2, <4>1 DEF BelowFor
    <3> QED
      BY <3>1, <3>2 DEF BelowFor
  <2>5. EvenFor(u)'
    <3> SUFFICES ASSUME u \notin uneven'
                 PROVE  /\ board'[u] + Cardinality(Board(u)') = Cardinality(PlayedBy(u)')
                        /\ Board(u)' = {h} /\ handler'[h].pc # "upsert"
      BY DEF EvenFor
    <3>1. u \notin uneven /\ Board(u) = {}
      BY <1>1, <1>4, <1>7
    <3> QED
      BY <1>1, <1>5, <2>1, <2>2, <2>3, <3>1 DEF EvenFor
  <2> QED
    BY <2>4, <2>5
<1> QED
  BY <1>6, <1>7

\* upsertEntry: the entry is read, saved, or not saved.
LEMMA UpsertOnBoard ==
    ASSUME Sessions, Sessions', NEW h \in Handlers, FindEntry(h) \/ SaveEntry(h) \/ UpsertFails(h),
           NEW CONSTANT u \in Users, BoardTypes, BelowFor(u), EvenFor(u)
    PROVE  BelowFor(u)' /\ EvenFor(u)'
<1>1. /\ PlayedBy(u)' = PlayedBy(u) /\ (u \in uneven => u \in uneven')
      /\ handler[h].pc \in {"find", "upsert"} /\ handler[h].user \in Users
      /\ board \in [Users -> Nat]
  BY DEF FindEntry, SaveEntry, UpsertFails, PlayedBy, BoardTypes
<1>2. ~OnBoard(Free, u)
  BY DEF OnBoard, Free
<1>3. /\ Cardinality(Finding(u)) \in Nat /\ Cardinality(Finding(u)') \in Nat
      /\ Cardinality(PlayedBy(u)) \in Nat /\ IsFiniteSet(Finding(u)) /\ IsFiniteSet(Board(u))
      /\ Cardinality(Board(u)) \in Nat /\ Cardinality(Board(u)') \in Nat /\ board[u] \in Nat
  BY <1>1, CountsFinite, CountsStayFinite
<1>4. CASE FindEntry(h)
  <2> DEFINE state == [pc |-> "upsert", user |-> handler[h].user, seen |-> board[handler[h].user]]
  <2>1. /\ handler[h].pc = "find" /\ handler' = [handler EXCEPT ![h] = state]
        /\ board' = board /\ uneven' = uneven
    BY <1>4 DEF FindEntry, Sessions
  <2>2. state.pc = "upsert" /\ state.user = handler[h].user /\ state.seen = board[handler[h].user]
    OBVIOUS
  <2> HIDE DEF state
  <2>3. CASE handler[h].user # u
    BY <1>1, <2>1, <2>2, <2>3, UserUntouched DEF OnBoard
  <2>4. CASE handler[h].user = u
    <3>1. /\ handler'[h] = state /\ \A g \in Handlers \ {h} : handler'[g] = handler[g]
          /\ Finding(u)' = Finding(u) \ {h} /\ Board(u)' = Board(u) /\ h \in Finding(u)
      <4>1. OnBoard(state, u) /\ OnBoard(handler[h], u) /\ state.pc # "find"
        BY <2>1, <2>2, <2>4 DEF OnBoard
      <4>2. /\ handler'[h] = state /\ \A g \in Handlers \ {h} : handler'[g] = handler[g]
            /\ Finding(u)' = Finding(u) \ {h} /\ Board(u)' = Board(u) \cup {h}
            /\ h \in Board(u) /\ h \in Finding(u)
        <5>1. Sessions /\ handler' = [handler EXCEPT ![h] = state]
          BY <2>1
        <5>2. /\ handler'[h] = state /\ \A g \in Handlers \ {h} : handler'[g] = handler[g]
              /\ Finding(u)' = IF state.pc = "find" /\ state.user = u THEN Finding(u) \cup {h}
                                                                    ELSE Finding(u) \ {h}
              /\ Board(u)' = IF OnBoard(state, u) THEN Board(u) \cup {h} ELSE Board(u) \ {h}
              /\ h \in Board(u) <=> OnBoard(handler[h], u)
              /\ h \in Finding(u) <=> handler[h].pc = "find" /\ handler[h].user = u
          BY <5>1, HandlerMoves
        <5>3. handler[h].pc = "find"
          BY <2>1
        <5> QED
          BY <2>4, <4>1, <5>2, <5>3
      <4>3. Board(u)' = Board(u)
        BY <4>2
      <4>4. Finding(u)' = Finding(u) \ {h} /\ h \in Finding(u)
        BY <4>2
      <4>5. handler'[h] = state /\ \A g \in Handlers \ {h} : handler'[g] = handler[g]
        BY <4>2
      <4> QED
        BY <4>3, <4>4, <4>5
    <3>2. Cardinality(Finding(u)') = Cardinality(Finding(u)) - 1
      BY <1>3, <3>1, FS_RemoveElement
    <3>3. BelowFor(u)'
      <4>1. board'[u] + Cardinality(Finding(u)') <= Cardinality(PlayedBy(u)')
        BY <1>1, <1>3, <2>1, <3>2 DEF BelowFor
      <4>2. ASSUME NEW g \in Handlers, handler'[g].pc = "upsert", handler'[g].user = u
            PROVE  /\ handler'[g].seen \in Nat
                   /\ handler'[g].seen + 1 + Cardinality(Finding(u)') <= Cardinality(PlayedBy(u)')
        <5>1. CASE g = h
          BY <1>1, <1>3, <2>2, <2>4, <3>1, <3>2, <5>1 DEF BelowFor
        <5>2. CASE g # h
          BY <1>1, <1>3, <3>1, <3>2, <4>2, <5>2 DEF BelowFor
        <5> QED
          BY <5>1, <5>2
      <4> QED
        BY <4>1, <4>2 DEF BelowFor
    <3>4. EvenFor(u)'
      <4>1. \A g \in Board(u) : g \in Handlers
        BY DEF Board
      <4> QED
        BY <1>1, <2>1, <2>2, <2>4, <3>1, <4>1 DEF EvenFor
    <3> QED
      BY <3>3, <3>4
  <2> QED
    BY <2>3, <2>4
<1>5. CASE SaveEntry(h)
  <2>1. /\ handler[h].pc = "upsert" /\ handler' = [handler EXCEPT ![h] = Free] /\ uneven' = uneven
        /\ board' = [board EXCEPT ![handler[h].user] = handler[h].seen + 1]
    BY <1>5 DEF SaveEntry, TotalsAfter
  <2>2. CASE handler[h].user # u
    BY <1>1, <1>2, <2>1, <2>2, UserUntouched DEF OnBoard
  <2>3. CASE handler[h].user = u
    <3>1. /\ handler'[h] = Free /\ \A g \in Handlers \ {h} : handler'[g] = handler[g]
          /\ Finding(u)' = Finding(u) /\ Board(u)' = Board(u) \ {h} /\ h \in Board(u)
      <4>1. OnBoard(handler[h], u) /\ Free.pc # "find" /\ handler[h].pc # "find"
        BY <2>1, <2>3 DEF OnBoard, Free
      <4>2. /\ handler'[h] = Free /\ \A g \in Handlers \ {h} : handler'[g] = handler[g]
            /\ Finding(u)' = Finding(u) \ {h} /\ Board(u)' = Board(u) \ {h}
            /\ h \in Board(u) /\ h \notin Finding(u)
        BY <1>2, <2>1, <4>1, HandlerMoves
      <4> QED
        BY <4>2
    <3>2. /\ board'[u] = handler[h].seen + 1 /\ handler[h].seen \in Nat
          /\ handler[h].seen + 1 + Cardinality(Finding(u)) <= Cardinality(PlayedBy(u))
      BY <1>1, <2>1, <2>3 DEF BelowFor
    <3>3. BelowFor(u)'
      BY <1>1, <3>1, <3>2 DEF BelowFor, Free
    <3>4. EvenFor(u)'
      <4> SUFFICES ASSUME u \notin uneven
                   PROVE  Board(u)' = {} /\ board'[u] = Cardinality(PlayedBy(u)')
        <5>1. Cardinality({}) = 0
          BY FS_EmptySet
        <5>2. board'[u] \in Nat
          BY <3>2
        <5>3. ASSUME Board(u)' = {}, board'[u] = Cardinality(PlayedBy(u)')
              PROVE  board'[u] + Cardinality(Board(u)') = Cardinality(PlayedBy(u)')
          BY <5>1, <5>2, <5>3
        <5> QED
          BY <2>1, <5>3 DEF EvenFor
      <4>1. Board(u) = {h} /\ handler[h].seen = board[u]
        BY <2>1, <3>1 DEF EvenFor
      <4>2. Cardinality(Board(u)) = 1
        BY <4>1, FS_Singleton
      <4>3. board[u] + Cardinality(Board(u)) = Cardinality(PlayedBy(u))
        BY DEF EvenFor
      <4> QED
        BY <1>1, <1>3, <3>1, <3>2, <4>1, <4>2, <4>3
    <3> QED
      BY <3>3, <3>4
  <2> QED
    BY <2>2, <2>3
<1>6. CASE UpsertFails(h)
  <2>1. /\ handler' = [handler EXCEPT ![h] = Free] /\ uneven' = uneven \cup {handler[h].user}
        /\ board' = board
    BY <1>6 DEF UpsertFails
  <2>2. CASE handler[h].user # u
    BY <1>1, <1>2, <2>1, <2>2, UserUntouched DEF OnBoard
  <2>3. CASE handler[h].user = u
    <3>1. /\ handler'[h] = Free /\ \A g \in Handlers \ {h} : handler'[g] = handler[g]
          /\ Finding(u)' = Finding(u) \ {h}
      <4>1. Free.pc # "find"
        BY DEF Free
      <4> QED
        BY <2>1, <4>1, HandlerMoves
    <3>2. Cardinality(Finding(u)') <= Cardinality(Finding(u))
      BY <1>3, <3>1, FS_Subset
    <3>3. BelowFor(u)'
      <4>1. board'[u] + Cardinality(Finding(u)') <= Cardinality(PlayedBy(u)')
        BY <1>1, <1>3, <2>1, <3>2 DEF BelowFor
      <4>2. ASSUME NEW g \in Handlers, handler'[g].pc = "upsert", handler'[g].user = u
            PROVE  /\ handler'[g].seen \in Nat
                   /\ handler'[g].seen + 1 + Cardinality(Finding(u)') <= Cardinality(PlayedBy(u)')
        <5>1. g # h /\ handler'[g] = handler[g]
          BY <3>1, <4>2 DEF Free
        <5> QED
          BY <1>1, <1>3, <3>2, <4>2, <5>1 DEF BelowFor
      <4> QED
        BY <4>1, <4>2 DEF BelowFor
    <3>4. EvenFor(u)'
      BY <2>1, <2>3 DEF EvenFor
    <3> QED
      BY <3>3, <3>4
  <2> QED
    BY <2>2, <2>3
<1> QED
  BY <1>4, <1>5, <1>6

\* Guesses do not touch the leaderboard.
LEMMA GuessOnBoard ==
    ASSUME Sessions, StatusFollowsHistory, GuessesCurrent, NEW h \in Handlers,
           SaveGuess(h) \/ GuessFails(h) \/ \E s \in DOMAIN sessions, g \in Words : StartGuess(h, s, g),
           NEW CONSTANT u \in Users, BoardTypes, BelowFor(u), EvenFor(u)
    PROVE  BelowFor(u)' /\ EvenFor(u)'
<1>1. PlayedBy(u)' = PlayedBy(u)
  <2>1. CASE SaveGuess(h)
    <3>1. /\ DOMAIN sessions' = DOMAIN sessions
          /\ \A s \in DOMAIN sessions : sessions'[s].owner = sessions[s].owner
      BY <2>1, SavedGuess
    <3> QED
      BY <3>1 DEF PlayedBy
  <2>2. CASE ~SaveGuess(h)
    BY <2>2 DEF PlayedBy, GuessFails, StartGuess
  <2> QED
    BY <2>1, <2>2
<1>2. board' = board /\ uneven' = uneven
  BY DEF SaveGuess, GuessFails, StartGuess
<1>3. ~OnBoard(handler[h], u)
  BY DEF SaveGuess, GuessFails, StartGuess, OnBoard, Free
<1>4. ASSUME NEW state, handler' = [handler EXCEPT ![h] = state], state.pc \in {"free", "guess"}
      PROVE  BelowFor(u)' /\ EvenFor(u)'
  <2>1. ~OnBoard(state, u)
    BY <1>4 DEF OnBoard
  <2> QED
    BY <1>1, <1>2, <1>3, <1>4, <2>1, UserUntouched
<1>5. CASE SaveGuess(h) \/ GuessFails(h)
  BY <1>4, <1>5 DEF SaveGuess, GuessFails, Free
<1>6. ASSUME NEW s \in DOMAIN sessions, NEW g \in Words, StartGuess(h, s, g)
      PROVE  BelowFor(u)' /\ EvenFor(u)'
  BY <1>4, <1>6 DEF StartGuess
<1> QED
  BY <1>5, <1>6

\* The leaderboard keeps its type.
LEMMA BoardTypesStep ==
    ASSUME Sessions, BoardInv, [SessionsNext]_sessionVars
    PROVE  BoardTypes'
<1>1. /\ board \in [Users -> Nat] /\ DOMAIN handler = Handlers
      /\ \A h \in Handlers : handler[h].pc \in {"find", "upsert"} => handler[h].user \in Users
      /\ \A h \in Handlers : handler[h].pc = "upsert" => handler[h].seen \in Nat
  BY DEF BoardInv, BoardTypes, Sessions, BelowFor
<1>2. ASSUME NEW h \in Handlers, NEW state, handler' = [handler EXCEPT ![h] = state],
             state.pc \in {"find", "upsert"} => state.user \in Users
      PROVE  \A g \in Handlers : handler'[g].pc \in {"find", "upsert"} => handler'[g].user \in Users
  BY <1>1, <1>2
<1>3. ASSUME NEW h \in Handlers, NEW u \in Players, NEW w \in Words, CreateSession(h, u, w)
      PROVE  BoardTypes'
  BY <1>1, <1>2, <1>3 DEF CreateSession, Players, Free, BoardTypes
<1>4. ASSUME NEW h \in Handlers, FindEntry(h) \/ UpsertFails(h) \/ SaveGuess(h) \/ GuessFails(h)
      PROVE  BoardTypes'
  BY <1>1, <1>2, <1>4 DEF FindEntry, UpsertFails, SaveGuess, GuessFails, Free, BoardTypes
<1>5. ASSUME NEW h \in Handlers, SaveEntry(h)
      PROVE  BoardTypes'
  BY <1>1, <1>2, <1>5 DEF SaveEntry, TotalsAfter, Free, BoardTypes
<1>6. ASSUME NEW h \in Handlers, NEW s \in DOMAIN sessions, NEW g \in Words, StartGuess(h, s, g)
      PROVE  BoardTypes'
  BY <1>1, <1>2, <1>6 DEF StartGuess, BoardTypes
<1>7. ASSUME UNCHANGED sessionVars
      PROVE  BoardTypes'
  BY <1>7, <1>1 DEF sessionVars, BoardTypes
<1> QED
  BY <1>3, <1>4, <1>5, <1>6, <1>7 DEF SessionsNext

\* The invariant of sessions and leaderboard holds in every reachable state.
LEMMA SessionsInvHolds == SessionsSpec => []SessionsInv
<1>1. SessionsInit => SessionsInv
  <2> SUFFICES ASSUME SessionsInit
               PROVE  SessionsInv
    OBVIOUS
  <2>1. Sessions /\ StatusFollowsHistory /\ GuessesCurrent /\ BoardTypes
    BY DEF SessionsInit, Sessions, StatusFollowsHistory, GuessesCurrent, BoardTypes, Free
  <2>2. ASSUME NEW u \in Users
        PROVE  BelowFor(u) /\ EvenFor(u)
    <3>1. PlayedBy(u) = {} /\ Finding(u) = {} /\ Board(u) = {} /\ board[u] = 0
          /\ \A h \in Handlers : handler[h].pc = "free"
      BY DEF SessionsInit, PlayedBy, Finding, Board, Free
    <3>2. Cardinality({}) = 0
      BY FS_EmptySet
    <3> QED
      BY <3>1, <3>2 DEF BelowFor, EvenFor
  <2> QED
    BY <2>1, <2>2 DEF SessionsInv, BoardInv
<1>2. SessionsInv /\ [SessionsNext]_sessionVars => SessionsInv'
  <2> SUFFICES ASSUME SessionsInv, [SessionsNext]_sessionVars
               PROVE  SessionsInv'
    OBVIOUS
  <2>1. /\ Sessions /\ StatusFollowsHistory /\ GuessesCurrent
        /\ Sessions' /\ StatusFollowsHistory' /\ GuessesCurrent'
    BY GamesStep DEF SessionsInv
  <2>2. BoardInv /\ BoardTypes /\ BoardTypes'
    BY BoardTypesStep DEF SessionsInv, BoardInv
  <2>3. ASSUME NEW CONSTANT u \in Users
        PROVE  BelowFor(u)' /\ EvenFor(u)'
    <3>1. BelowFor(u) /\ EvenFor(u)
      BY <2>2 DEF BoardInv
    <3>2. ASSUME NEW h \in Handlers, NEW v \in Players, NEW w \in Words, CreateSession(h, v, w)
          PROVE  BelowFor(u)' /\ EvenFor(u)'
      BY <2>1, <2>2, <3>1, <3>2, CreateOnBoard
    <3>3. ASSUME NEW h \in Handlers, FindEntry(h) \/ SaveEntry(h) \/ UpsertFails(h)
          PROVE  BelowFor(u)' /\ EvenFor(u)'
      BY <2>1, <2>2, <3>1, <3>3, UpsertOnBoard
    <3>4. ASSUME NEW h \in Handlers,
                 SaveGuess(h) \/ GuessFails(h)
                 \/ \E s \in DOMAIN sessions, g \in Words : StartGuess(h, s, g)
          PROVE  BelowFor(u)' /\ EvenFor(u)'
      BY <2>1, <2>2, <3>1, <3>4, GuessOnBoard
    <3>5. ASSUME UNCHANGED sessionVars
          PROVE  BelowFor(u)' /\ EvenFor(u)'
      BY <3>1, <3>5 DEF sessionVars, BelowFor, EvenFor, PlayedBy, Finding, Board
    <3> QED
      BY <3>2, <3>3, <3>4, <3>5 DEF SessionsNext
  <2> QED
    BY <2>1, <2>2, <2>3 DEF SessionsInv, BoardInv
<1> QED
  BY <1>1, <1>2, PTL DEF SessionsSpec

\* Guesses submitted together never break a session: at most MAX_ATTEMPTS are
\* recorded, nothing follows a solved or a last guess, and the status is the one
\* the guesses call for, whatever number of requests read it at the same time
\* (guess, calculateNewStatus, the unique index of guess_history).
THEOREM SessionsFollowTheirGuesses == SessionsSpec => []StatusFollowsHistory
<1>1. SessionsInv => StatusFollowsHistory
  BY DEF SessionsInv
<1> QED
  BY <1>1, SessionsInvHolds, PTL

\* The leaderboard never counts a session that was not saved, and counts every
\* one of a user whose creations did not overlap or fail (upsertEntry).
THEOREM LeaderboardCounts == SessionsSpec => []BoardCountsSessions
<1>1. SessionsInv => BoardCountsSessions
  <2> SUFFICES ASSUME SessionsInv, NEW CONSTANT u \in Users
               PROVE  /\ board[u] + (IF u \in uneven THEN 0 ELSE Cardinality(Board(u)))
                           <= Cardinality(PlayedBy(u))
                      /\ u \notin uneven => board[u] + Cardinality(Board(u)) = Cardinality(PlayedBy(u))
    BY DEF BoardCountsSessions, PlayedBy
  <2>1. board[u] \in Nat /\ BelowFor(u) /\ EvenFor(u)
    BY DEF SessionsInv, BoardInv, BoardTypes
  <2>2. /\ Cardinality(PlayedBy(u)) \in Nat /\ Cardinality(Finding(u)) \in Nat
        /\ Cardinality(Board(u)) \in Nat
    BY CountsFinite DEF SessionsInv
  <2> QED
    BY <2>1, <2>2 DEF BelowFor, EvenFor
<1> QED
  BY <1>1, SessionsInvHolds, PTL

\* The sessions that are saved, and the users whose creations met.
SessionBounds == Len(sessions) <= MaxSessions /\ uneven \subseteq Users

\* A user has no more sessions than there are.
LEMMA PlayedBounded ==
    ASSUME Sessions, NEW u
    PROVE  Len(sessions) \in Nat /\ Cardinality(PlayedBy(u)) <= Len(sessions)
<1>1. PICK n \in Nat : n = Len(sessions) /\ PlayedBy(u) \subseteq 1 .. n
  BY DEF Sessions, PlayedBy
<1>2. IsFiniteSet(1 .. n)
  BY FS_Interval
<1>3. Cardinality(1 .. n) = n
  BY FS_Interval
<1>4. Cardinality(PlayedBy(u)) <= Cardinality(1 .. n)
  BY <1>1, <1>2, FS_Subset
<1> QED
  BY <1>1, <1>3, <1>4

\* The rows, requests and totals of the game sessions keep their types, and no
\* total of the board exceeds the sessions there can be.
THEOREM SessionsTyped == SessionsSpec => []SessionsTypeOK
<1>1. SessionsInit => SessionBounds
  BY SessionsAssumption DEF SessionsInit, SessionBounds
<1>2. SessionsInv /\ SessionBounds /\ [SessionsNext]_sessionVars => SessionBounds'
  <2> SUFFICES ASSUME SessionsInv, SessionBounds, [SessionsNext]_sessionVars
               PROVE  SessionBounds'
    OBVIOUS
  <2>1. sessions \in Seq(SessionRow) /\ Len(sessions) \in Nat /\ MaxSessions \in Nat
    BY SessionsAssumption DEF SessionsInv, Sessions
  <2>2. ASSUME NEW h \in Handlers, NEW u \in Players, NEW w \in Words, CreateSession(h, u, w)
        PROVE  SessionBounds'
    <3>1. PICK row : sessions' = Append(sessions, row)
      BY <2>2 DEF CreateSession
    <3>2. Len(sessions') = Len(sessions) + 1
      BY <2>1, <3>1
    <3>3. Len(sessions) < MaxSessions /\ uneven' \subseteq Users
      BY <2>2 DEF CreateSession, Players, SessionBounds
    <3> QED
      BY <2>1, <3>2, <3>3 DEF SessionBounds
  <2>3. ASSUME NEW h \in Handlers, UpsertFails(h)
        PROVE  SessionBounds'
    <3>1. handler[h].user \in Users
      BY <2>3 DEF UpsertFails, SessionsInv, BoardInv, BoardTypes
    <3> QED
      BY <2>3, <3>1 DEF UpsertFails, SessionBounds
  <2>4. ASSUME NEW h \in Handlers, SaveGuess(h)
        PROVE  SessionBounds'
    <3>1. DOMAIN sessions' = DOMAIN sessions /\ uneven' = uneven
      BY <2>4 DEF SaveGuess
    <3>2. sessions' \in Seq(SessionRow)
      BY GamesStep DEF SessionsInv, Sessions
    <3>3. Len(sessions') = Len(sessions)
      BY <2>1, <3>1, <3>2
    <3> QED
      BY <3>1, <3>3 DEF SessionBounds
  <2>5. ASSUME UNCHANGED <<sessions, uneven>>
        PROVE  SessionBounds'
    BY <2>5 DEF SessionBounds
  <2> QED
    BY <2>2, <2>3, <2>4, <2>5
       DEF SessionsNext, FindEntry, SaveEntry, StartGuess, GuessFails, sessionVars
<1>3. SessionsInv /\ SessionBounds => SessionsTypeOK
  <2> SUFFICES ASSUME SessionsInv, SessionBounds
               PROVE  SessionsTypeOK
    OBVIOUS
  <2>1. Sessions /\ BoardTypes /\ \A u \in Users : BelowFor(u)
    BY DEF SessionsInv, BoardInv
  <2>2. ASSUME NEW u \in Users
        PROVE  board[u] \in 0 .. MaxSessions
    <3>1. PICK f \in Nat, p \in Nat : f = Cardinality(Finding(u)) /\ p = Cardinality(PlayedBy(u))
      BY CountsFinite DEF SessionsInv
    <3>2. board[u] \in Nat /\ board[u] + f <= p
      BY <2>1, <3>1 DEF BoardTypes, BelowFor
    <3>3. Len(sessions) \in Nat /\ p <= Len(sessions)
      BY <2>1, <3>1, PlayedBounded
    <3> QED
      BY <3>2, <3>3, SessionsAssumption DEF SessionBounds
  <2>3. ASSUME NEW s \in DOMAIN sessions
        PROVE  /\ sessions[s].owner \in Players /\ sessions[s].solution \in Words
               /\ sessions[s].status \in {"IN_PROGRESS", "WON", "LOST"}
               /\ \A k \in DOMAIN sessions[s].history : sessions[s].history[k].guess \in Words
    <3>1. sessions \in Seq(SessionRow)
      BY <2>1 DEF Sessions
    <3>2. sessions[s] \in SessionRow
      BY <3>1
    <3>3. /\ sessions[s].owner \in Players /\ sessions[s].solution \in Words
          /\ sessions[s].status \in {"IN_PROGRESS", "WON", "LOST"}
          /\ sessions[s].history \in Seq(GuessRows)
      BY <3>2 DEF SessionRow
    <3>4. \A k \in DOMAIN sessions[s].history : sessions[s].history[k] \in GuessRows
      BY <3>3
    <3>5. \A row \in GuessRows : row.guess \in Words
      BY DEF GuessRows
    <3> QED
      BY <3>3, <3>4, <3>5
  <2>4. board \in [Users -> 0 .. MaxSessions]
    BY <2>1, <2>2 DEF BoardTypes
  <2> QED
    BY <2>1, <2>3, <2>4 DEF SessionsTypeOK, SessionBounds, Sessions
<1> QED
  BY <1>1, <1>2, <1>3, SessionsInvHolds, PTL DEF SessionsSpec

-----------------------------------------------------------------------------
(* The evaluation of a guess *)

\* Two words of one length, as the engine requires.
WordPair(g, w) == \E n \in Nat : DOMAIN g = 1 .. n /\ DOMAIN w = 1 .. n

\* The positions at which the words agree, and the letters the first pass leaves.
Agree(g, w) == {i \in DOMAIN g : g[i] = w[i]}
Left(g, w) == LettersLeft(g, w, Agree(g, w))

\* The two passes of Evaluate, and the equation its fold satisfies.
Start(g, w) ==
    [left  |-> Left(g, w),
     marks |-> [i \in DOMAIN g |-> IF i \in Agree(g, w) THEN "correct" ELSE "absent"]]

Pass(g, w, acc, i) ==
    IF i \in Agree(g, w) \/ acc.left[g[i]] = 0 THEN acc
    ELSE [left  |-> [acc.left EXCEPT ![g[i]] = @ - 1],
          marks |-> [acc.marks EXCEPT ![i] = "present"]]

Passes(f, g, w) ==
    f = [s \in SUBSET DOMAIN [i \in DOMAIN g |-> i] |->
           IF s = {} THEN Start(g, w)
           ELSE LET x == Max(s) IN Pass(g, w, f[s \ {x}], [i \in DOMAIN g |-> i][x])]

\* The positions of s with the letter c that are not in place: the second pass
\* marks those that rank no higher than there are letters left.
Unplaced(g, w, s, c) == {i \in s \ Agree(g, w) : g[i] = c}

SmallerNumber(m, n) == IF m <= n THEN m ELSE n

Spent(g, w, s, c) == SmallerNumber(Cardinality(Unplaced(g, w, s, c)), Left(g, w)[c])

MarkOf(g, w, s, i) ==
    IF i \in Agree(g, w) THEN "correct"
    ELSE IF i \in s /\ Cardinality(UpTo(Unplaced(g, w, s, g[i]), i)) <= Left(g, w)[g[i]]
         THEN "present" ELSE "absent"

Marked(g, w, s) ==
    [left  |-> [c \in Range(g) |-> Left(g, w)[c] - Spent(g, w, s, c)],
     marks |-> [i \in DOMAIN g |-> MarkOf(g, w, s, i)]]

\* How many letters are left is a number.
LEMMA LeftTyped ==
    ASSUME NEW g, NEW w, WordPair(g, w), NEW c \in Range(g)
    PROVE  /\ Left(g, w)[c] = Cardinality({i \in DOMAIN w \ Agree(g, w) : w[i] = c})
           /\ Left(g, w)[c] \in Nat
<1>1. Left(g, w)[c] = Cardinality({i \in DOMAIN w \ Agree(g, w) : w[i] = c})
  BY DEF Left, LettersLeft
<1>2. PICK n \in Nat : DOMAIN w = 1 .. n
  BY DEF WordPair
<1>3. IsFiniteSet({i \in DOMAIN w \ Agree(g, w) : w[i] = c})
  BY <1>2, FS_Interval, FS_Subset
<1>4. QED
  BY <1>1, <1>3, FS_CardinalityType

\* The second pass starts from what the first has marked.
LEMMA MarkedStart ==
    ASSUME NEW g, NEW w, WordPair(g, w)
    PROVE  Marked(g, w, {}) = Start(g, w)
<1>1. ASSUME NEW c \in Range(g) PROVE Left(g, w)[c] - Spent(g, w, {}, c) = Left(g, w)[c]
  <2>1. Unplaced(g, w, {}, c) = {}
    BY DEF Unplaced
  <2>2. Cardinality(Unplaced(g, w, {}, c)) = 0
    BY <2>1, FS_EmptySet
  <2>3. Left(g, w)[c] \in Nat
    BY LeftTyped
  <2>4. Spent(g, w, {}, c) = 0
    BY <2>2, <2>3 DEF Spent, SmallerNumber
  <2> QED
    BY <2>3, <2>4
<1>2. Left(g, w) = [c \in Range(g) |-> Left(g, w)[c]]
  BY DEF Left, LettersLeft
<1>3. [c \in Range(g) |-> Left(g, w)[c] - Spent(g, w, {}, c)] = Left(g, w)
  BY <1>1, <1>2
<1>4. \A i \in DOMAIN g : MarkOf(g, w, {}, i) = IF i \in Agree(g, w) THEN "correct" ELSE "absent"
  BY DEF MarkOf
<1>5. QED
  BY <1>3, <1>4 DEF Marked, Start

\* The pass over the highest position of s fills s from what the others filled.
LEMMA MarkedStep ==
    ASSUME NEW g, NEW w, WordPair(g, w), NEW s \in SUBSET DOMAIN g, NEW x \in s,
           \A y \in s : y <= x
    PROVE  Marked(g, w, s) = Pass(g, w, Marked(g, w, s \ {x}), x)
<1>1. PICK n \in Nat : DOMAIN g = 1 .. n /\ DOMAIN w = 1 .. n
  BY DEF WordPair
<1>2. PICK r : r = s \ {x}
  OBVIOUS
<1>3. /\ s \in SUBSET (1 .. n) /\ r \in SUBSET (1 .. n) /\ x \in 1 .. n
      /\ s = r \cup {x} /\ \A y \in r : y < x
  BY <1>1, <1>2
<1>4. PICK e : e = g[x] /\ e \in Range(g)
  BY <1>1, <1>3 DEF Range
<1>5. \A c : c # e \/ x \in Agree(g, w) => Unplaced(g, w, s, c) = Unplaced(g, w, r, c)
  BY <1>3, <1>4 DEF Unplaced
<1>6. \A c : Unplaced(g, w, r, c) \in SUBSET (1 .. n)
  BY <1>3 DEF Unplaced
<1>7. ASSUME NEW i \in DOMAIN g, i # x, g[i] # e \/ x \in Agree(g, w)
      PROVE  MarkOf(g, w, s, i) = MarkOf(g, w, r, i)
  <2>1. Unplaced(g, w, s, g[i]) = Unplaced(g, w, r, g[i]) /\ (i \in s <=> i \in r)
    BY <1>3, <1>5, <1>7
  <2> QED
    BY <2>1 DEF MarkOf
<1>8. CASE x \in Agree(g, w)
  <2>1. \A c \in Range(g) : Spent(g, w, s, c) = Spent(g, w, r, c)
    BY <1>5, <1>8 DEF Spent
  <2>2. \A i \in DOMAIN g : MarkOf(g, w, s, i) = MarkOf(g, w, r, i)
    <3>1. MarkOf(g, w, s, x) = MarkOf(g, w, r, x)
      BY <1>8 DEF MarkOf
    <3> QED
      BY <1>7, <1>8, <3>1
  <2>3. Marked(g, w, s) = Marked(g, w, r)
    BY <2>1, <2>2 DEF Marked
  <2> QED
    BY <1>2, <1>8, <2>3 DEF Pass
<1>9. CASE x \notin Agree(g, w)
  <2>1. PICK W : W = Unplaced(g, w, r, e) /\ W \in SUBSET (1 .. n)
    BY <1>6
  <2>2. Unplaced(g, w, s, e) = W \cup {x} /\ \A y \in W : y < x
    BY <1>3, <1>4, <1>9, <2>1 DEF Unplaced
  <2>3. /\ Cardinality(UpTo(W \cup {x}, x)) = Cardinality(W) + 1
        /\ Cardinality(W \cup {x}) = Cardinality(W) + 1
    BY <1>3, <2>1, <2>2, NextRank
  <2>4. \A i \in 1 .. n : i < x => UpTo(W \cup {x}, i) = UpTo(W, i)
    BY <1>3, <2>1, <2>2, NextRank
  <2>5. PICK k \in Nat : k = Cardinality(W)
    BY <2>1, Ranks
  <2>6. PICK m \in Nat : m = Left(g, w)[e]
    BY <1>4, LeftTyped
  <2>7. ASSUME NEW i \in DOMAIN g, i # x PROVE MarkOf(g, w, s, i) = MarkOf(g, w, r, i)
    <3>1. CASE g[i] # e
      BY <1>7, <2>7, <3>1
    <3>2. CASE g[i] = e /\ i \in r
      <4>1. i < x /\ i \in s
        BY <1>3, <3>2
      <4>2. UpTo(Unplaced(g, w, s, e), i) = UpTo(Unplaced(g, w, r, e), i)
        BY <1>1, <2>1, <2>2, <2>4, <4>1
      <4> QED
        BY <3>2, <4>1, <4>2 DEF MarkOf
    <3>3. CASE i \notin r
      BY <1>3, <2>7, <3>3 DEF MarkOf
    <3> QED
      BY <3>1, <3>2, <3>3
  <2>8. \A c \in Range(g) : c # e => Spent(g, w, s, c) = Spent(g, w, r, c)
    BY <1>5 DEF Spent
  <2>9. /\ Spent(g, w, r, e) = SmallerNumber(k, m) /\ Spent(g, w, s, e) = SmallerNumber(k + 1, m)
        /\ MarkOf(g, w, s, x) = IF k + 1 <= m THEN "present" ELSE "absent"
        /\ MarkOf(g, w, r, x) = "absent"
    BY <1>3, <1>4, <1>9, <2>1, <2>2, <2>3, <2>5, <2>6 DEF Spent, MarkOf
  <2>10. PICK old : old = Marked(g, w, r)
    OBVIOUS
  <2>11. /\ old.left = [c \in Range(g) |-> Left(g, w)[c] - Spent(g, w, r, c)]
         /\ old.marks = [i \in DOMAIN g |-> MarkOf(g, w, r, i)]
    BY <2>10 DEF Marked
  <2>12. old.left[g[x]] = m - SmallerNumber(k, m)
    BY <1>4, <2>6, <2>9, <2>11
  <2>13. CASE k < m
    <3>1. /\ SmallerNumber(k, m) = k /\ SmallerNumber(k + 1, m) = k + 1
          /\ MarkOf(g, w, s, x) = "present" /\ m - k # 0 /\ m - (k + 1) = (m - k) - 1
      BY <2>9, <2>13 DEF SmallerNumber
    <3>2. Pass(g, w, old, x) = [left  |-> [old.left EXCEPT ![g[x]] = @ - 1],
                                marks |-> [old.marks EXCEPT ![x] = "present"]]
      BY <1>9, <2>12, <3>1 DEF Pass
    <3>3. [old.left EXCEPT ![g[x]] = @ - 1] = [c \in Range(g) |-> Left(g, w)[c] - Spent(g, w, s, c)]
      <4>1. Left(g, w)[e] - Spent(g, w, s, e) = old.left[e] - 1
        BY <1>4, <2>6, <2>9, <2>12, <3>1
      <4>2. \A c \in Range(g) : c # e => old.left[c] = Left(g, w)[c] - Spent(g, w, s, c)
        BY <2>8, <2>11
      <4> QED
        BY <1>4, <2>11, <4>1, <4>2
    <3>4. [old.marks EXCEPT ![x] = "present"] = [i \in DOMAIN g |-> MarkOf(g, w, s, i)]
      BY <2>7, <2>11, <3>1
    <3> QED
      BY <1>2, <2>10, <3>2, <3>3, <3>4 DEF Marked
  <2>14. CASE ~(k < m)
    <3>1. /\ SmallerNumber(k, m) = m /\ SmallerNumber(k + 1, m) = m
          /\ MarkOf(g, w, s, x) = "absent" /\ m - m = 0
      BY <2>9, <2>14 DEF SmallerNumber
    <3>2. Pass(g, w, old, x) = old
      BY <2>12, <3>1 DEF Pass
    <3>3. \A c \in Range(g) : Spent(g, w, s, c) = Spent(g, w, r, c)
      BY <2>8, <2>9, <3>1
    <3>4. \A i \in DOMAIN g : MarkOf(g, w, s, i) = MarkOf(g, w, r, i)
      BY <2>7, <2>9, <3>1
    <3>5. Marked(g, w, s) = old
      BY <2>10, <3>3, <3>4 DEF Marked
    <3> QED
      BY <1>2, <2>10, <3>2, <3>5
  <2> QED
    BY <2>13, <2>14
<1>10. QED
  BY <1>8, <1>9

\* A set of positions has a highest one.
LEMMA HighestPosition ==
    ASSUME NEW n \in Nat, NEW s \in SUBSET (1 .. n), s # {}
    PROVE  Max(s) \in s /\ \A y \in s : y <= Max(s)
<1> DEFINE mirrored == {n - y : y \in s}
<1>1. mirrored \in SUBSET Nat /\ mirrored # {}
  <2>1. \A y \in s : n - y \in Nat
    OBVIOUS
  <2>2. PICK t \in s : n - t \in mirrored
    OBVIOUS
  <2> QED
    BY <2>1, <2>2
<1>2. PICK l \in mirrored : \A m \in mirrored : l <= m
  BY <1>1, LeastOf
<1>3. PICK y \in s : l = n - y
  OBVIOUS
<1>4. \A z \in s : z <= y
  <2> TAKE z \in s
  <2>1. n - z \in mirrored
    OBVIOUS
  <2>2. n - y <= n - z
    BY <1>2, <1>3, <2>1
  <2> QED
    BY <2>2
<1>5. s \in SUBSET Nat
  OBVIOUS
<1>6. Max(s) = y
  BY <1>4, <1>5, MaxIs
<1>7. QED
  BY <1>4, <1>6

\* The fold of Evaluate fills in the marks: its equation has this one solution.
LEMMA PassesFill ==
    ASSUME NEW g, NEW w, WordPair(g, w), NEW f, Passes(f, g, w), NEW s \in SUBSET DOMAIN g
    PROVE  f[s] = Marked(g, w, s)
<1> DEFINE off == {k \in Nat : \E r \in SUBSET DOMAIN g :
                       Cardinality(r) = k /\ f[r] # Marked(g, w, r)}
<1>1. PICK n \in Nat : DOMAIN g = 1 .. n
  BY DEF WordPair
<1>2. ASSUME NEW r \in SUBSET DOMAIN g PROVE IsFiniteSet(r) /\ Cardinality(r) \in Nat
  BY <1>1, Ranks
<1>3. off # {} => \E k \in off : \A m \in off : k <= m
  BY LeastOf
<1>4. ASSUME NEW k \in off, \A m \in off : k <= m PROVE FALSE
  <2>1. PICK r \in SUBSET DOMAIN g : Cardinality(r) = k /\ f[r] # Marked(g, w, r)
    OBVIOUS
  <2>2. r # {}
    <3>1. f[{}] = Start(g, w)
      BY DEF Passes
    <3> QED
      BY <2>1, <3>1, MarkedStart
  <2>3. PICK x : x = Max(r)
    OBVIOUS
  <2>4. x \in r /\ \A y \in r : y <= x
    BY <1>1, <2>2, <2>3, HighestPosition
  <2>5. f[r] = Pass(g, w, f[r \ {x}], x)
    BY <2>2, <2>3, <2>4 DEF Passes
  <2>6. Cardinality(r \ {x}) = k - 1
    BY <1>2, <2>1, <2>4, FS_RemoveElement
  <2>7. k \in Nat /\ k - 1 \in Nat /\ k - 1 \notin off
    <3>1. Cardinality(r \ {x}) \in Nat /\ k \in Nat
      BY <1>2
    <3> QED
      BY <1>4, <2>6, <3>1
  <2>8. f[r \ {x}] = Marked(g, w, r \ {x})
    BY <2>6, <2>7
  <2>9. QED
    BY <2>1, <2>4, <2>5, <2>8, MarkedStep
<1>5. off = {}
  BY <1>3, <1>4
<1>6. QED
  BY <1>2, <1>5

\* So Evaluate gives every position its mark.
LEMMA EvaluateIs ==
    ASSUME NEW g, NEW w, WordPair(g, w)
    PROVE  Evaluate(g, w) = [i \in DOMAIN g |-> MarkOf(g, w, DOMAIN g, i)]
<1> DEFINE fill == [s \in SUBSET DOMAIN g |-> Marked(g, w, s)]
           places == [i \in DOMAIN g |-> i]
<1>1. PICK n \in Nat : DOMAIN g = 1 .. n
  BY DEF WordPair
<1>2. Passes(fill, g, w)
  <2>1. fill[{}] = Start(g, w)
    BY MarkedStart
  <2>2. ASSUME NEW s \in SUBSET DOMAIN g, s # {}, NEW x, x = Max(s)
        PROVE  fill[s] = Pass(g, w, fill[s \ {x}], places[x])
    <3>1. x \in s /\ \A y \in s : y <= x
      BY <1>1, <2>2, HighestPosition
    <3>2. Marked(g, w, s) = Pass(g, w, Marked(g, w, s \ {x}), x)
      BY <3>1, MarkedStep
    <3> QED
      BY <3>1, <3>2
  <2>3. DOMAIN places = DOMAIN g
    OBVIOUS
  <2>4. fill = [s \in SUBSET DOMAIN places |-> fill[s]]
    BY <2>3
  <2>5. \A s \in SUBSET DOMAIN places :
           fill[s] = IF s = {} THEN Start(g, w)
                     ELSE LET x == Max(s) IN Pass(g, w, fill[s \ {x}], places[x])
    <3> HIDE DEF fill, places
    <3> QED
      BY <2>1, <2>2, <2>3
  <2>6. fill = [s \in SUBSET DOMAIN places |->
                  IF s = {} THEN Start(g, w)
                  ELSE LET x == Max(s) IN Pass(g, w, fill[s \ {x}], places[x])]
    <3> HIDE DEF fill, places
    <3> QED
      BY <2>4, <2>5
  <2> QED
    <3> HIDE DEF fill
    <3> QED
      BY <2>6 DEF Passes
<1>3. PICK f : f = CHOOSE h : Passes(h, g, w)
  OBVIOUS
<1>4. Passes(f, g, w)
  <2> HIDE DEF fill
  <2> QED
    BY <1>2, <1>3
<1>5. Evaluate(g, w) = f[DOMAIN places].marks
  BY <1>3 DEF Evaluate, FoldLeftDomain, FoldLeft, MapThenFoldSet, Passes, Pass, Start, Agree, Left
<1>6. DOMAIN places = DOMAIN g
  OBVIOUS
<1>7. f[DOMAIN g] = Marked(g, w, DOMAIN g)
  BY <1>4, PassesFill
<1>8. QED
  BY <1>5, <1>6, <1>7 DEF Marked

\* As many copies of a letter are marked as both words hold: those in place, and
\* as many of the others as are left.
LEMMA CopiesMarked ==
    ASSUME NEW g, NEW w, WordPair(g, w), NEW c \in Range(g), NEW given, NEW held, NEW marked,
           given = {i \in DOMAIN g : g[i] = c}, held = {i \in DOMAIN w : w[i] = c},
           marked = {i \in given : MarkOf(g, w, DOMAIN g, i) \in {"correct", "present"}}
    PROVE  Cardinality(marked) = IF Cardinality(given) < Cardinality(held)
                                 THEN Cardinality(given) ELSE Cardinality(held)
<1>1. PICK n \in Nat : DOMAIN g = 1 .. n /\ DOMAIN w = 1 .. n
  BY DEF WordPair
<1>2. PICK W : W = Unplaced(g, w, DOMAIN g, c)
  OBVIOUS
<1>3. PICK E : E = given \cap Agree(g, w)
  OBVIOUS
<1>4. PICK F : F = {i \in DOMAIN w \ Agree(g, w) : w[i] = c}
  OBVIOUS
<1>5. PICK m \in Nat : m = Left(g, w)[c] /\ m = Cardinality(F)
  BY <1>4, LeftTyped
<1>6. PICK P : P = FirstOf(W, m) /\ P = {i \in W : Cardinality(UpTo(W, i)) <= m}
  BY DEF FirstOf
<1>7. /\ W \in SUBSET (1 .. n) /\ E \in SUBSET (1 .. n) /\ F \in SUBSET (1 .. n)
      /\ given = E \cup W /\ E \cap W = {} /\ held = E \cup F /\ E \cap F = {}
  BY <1>1, <1>2, <1>3, <1>4 DEF Unplaced, Agree
<1>8. marked = E \cup P /\ E \cap P = {}
  <2>1. ASSUME NEW i \in given
        PROVE  i \in marked <=> i \in E \cup P
    <3>1. i \in DOMAIN g /\ g[i] = c
      OBVIOUS
    <3>2. i \in Agree(g, w) => i \in marked /\ i \in E
      BY <1>3 DEF MarkOf
    <3>3. i \notin Agree(g, w) => i \in W /\ i \notin E
      BY <1>2, <1>3, <3>1 DEF Unplaced
    <3>4. i \notin Agree(g, w) => (i \in marked <=> i \in P)
      BY <1>2, <1>5, <1>6, <3>1, <3>3 DEF MarkOf
    <3> QED
      BY <1>2, <1>3, <1>6, <3>2, <3>3, <3>4
  <2> QED
    BY <1>3, <1>6, <1>7, <2>1
<1>9. /\ IsFiniteSet(W) /\ IsFiniteSet(E) /\ IsFiniteSet(F)
      /\ Cardinality(W) \in Nat /\ Cardinality(E) \in Nat
  BY <1>7, Ranks
<1>10. /\ IsFiniteSet(P) /\ Cardinality(P) \in Nat
       /\ Cardinality(W) <= m => Cardinality(P) = Cardinality(W)
       /\ Cardinality(W) >= m => Cardinality(P) = m
  <2>1. /\ IsFiniteSet(FirstOf(W, m)) /\ Cardinality(FirstOf(W, m)) \in Nat
        /\ Cardinality(W) <= m => Cardinality(FirstOf(W, m)) = Cardinality(W)
        /\ Cardinality(W) >= m => Cardinality(FirstOf(W, m)) = m
    BY <1>7, FirstRanks
  <2>2. P = FirstOf(W, m)
    BY <1>6
  <2> QED
    BY <2>1, <2>2
<1>11. Cardinality(given) = Cardinality(E) + Cardinality(W)
  <2>1. Cardinality(E \cup W) = Cardinality(E) + Cardinality(W)
    BY <1>7, <1>9, DisjointCount
  <2> QED
    BY <1>7, <2>1
<1>12. Cardinality(held) = Cardinality(E) + m
  BY <1>5, <1>7, <1>9, DisjointCount
<1>13. Cardinality(marked) = Cardinality(E) + Cardinality(P)
  BY <1>8, <1>9, <1>10, DisjointCount
<1>14. PICK a \in Nat, b \in Nat, d \in Nat :
         a = Cardinality(E) /\ b = Cardinality(W) /\ d = Cardinality(P)
  BY <1>9, <1>10
<1>15. (b <= m => d = b) /\ (b >= m => d = m)
  BY <1>10, <1>14
<1>16. a + d = IF a + b < a + m THEN a + b ELSE a + m
  BY <1>15
<1>17. QED
  BY <1>11, <1>12, <1>13, <1>14, <1>16

\* The marks of two words of one length say what SoundMarks asks for.
LEMMA MarksSound ==
    ASSUME NEW g, NEW w, WordPair(g, w)
    PROVE  SoundMarks(g, w, Evaluate(g, w))
<1>1. PICK marks : marks = Evaluate(g, w) /\ marks = [i \in DOMAIN g |-> MarkOf(g, w, DOMAIN g, i)]
  BY EvaluateIs
<1>2. DOMAIN marks = DOMAIN g /\ \A i \in DOMAIN g : marks[i] = MarkOf(g, w, DOMAIN g, i)
  BY <1>1
<1>3. \A i \in DOMAIN g : marks[i] = "correct" <=> g[i] = w[i]
  BY <1>2 DEF MarkOf, Agree
<1>4. ASSUME NEW c \in Range(g), NEW given, given = {i \in DOMAIN g : g[i] = c},
             NEW held, held = {i \in DOMAIN w : w[i] = c}
      PROVE  Cardinality(given \cap Marks(g, marks, {"correct", "present"}))
                = IF Cardinality(given) < Cardinality(held)
                  THEN Cardinality(given) ELSE Cardinality(held)
  <2>1. PICK marked :
          marked = {i \in given : MarkOf(g, w, DOMAIN g, i) \in {"correct", "present"}}
    OBVIOUS
  <2>2. given \cap Marks(g, marks, {"correct", "present"}) = marked
    BY <1>2, <1>4, <2>1 DEF Marks
  <2>3. Cardinality(marked) = IF Cardinality(given) < Cardinality(held)
                              THEN Cardinality(given) ELSE Cardinality(held)
    BY <1>4, <2>1, CopiesMarked
  <2> QED
    BY <2>2, <2>3
<1>5. ASSUME NEW i \in DOMAIN g, NEW j \in DOMAIN g,
             g[i] = g[j], marks[i] = "absent", marks[j] = "present"
      PROVE  j < i
  <2>1. PICK n \in Nat : DOMAIN g = 1 .. n
    BY DEF WordPair
  <2>2. PICK c : c = g[i] /\ c \in Range(g)
    BY DEF Range
  <2>3. PICK W : W = Unplaced(g, w, DOMAIN g, c)
    OBVIOUS
  <2>4. PICK m \in Nat : m = Left(g, w)[c]
    BY <2>2, LeftTyped
  <2>5. /\ ~(Cardinality(UpTo(W, i)) <= m) /\ Cardinality(UpTo(W, j)) <= m
    BY <1>2, <1>5, <2>2, <2>3, <2>4 DEF MarkOf
  <2>6. W \in SUBSET (1 .. n)
    BY <2>1, <2>3 DEF Unplaced
  <2>7. ASSUME i <= j PROVE FALSE
    <3>1. UpTo(W, i) \subseteq UpTo(W, j) /\ UpTo(W, j) \in SUBSET (1 .. n)
      <4>1. \A k \in W : k \in Nat /\ (k <= i => k <= j)
        BY <2>1, <2>6, <2>7
      <4> QED
        BY <2>6, <4>1 DEF UpTo
    <3>2. IsFiniteSet(UpTo(W, j))
      BY <3>1, Ranks
    <3>3. /\ Cardinality(UpTo(W, i)) <= Cardinality(UpTo(W, j))
          /\ IsFiniteSet(UpTo(W, i))
      BY <3>1, <3>2, FS_Subset
    <3>4. Cardinality(UpTo(W, i)) \in Nat /\ Cardinality(UpTo(W, j)) \in Nat
      BY <3>2, <3>3, FS_CardinalityType
    <3> QED
      BY <2>5, <3>3, <3>4
  <2> QED
    BY <2>1, <2>7
<1>6. QED
  BY <1>1, <1>2, <1>3, <1>4, <1>5 DEF SoundMarks

\* Every recorded guess carries the marks the engine gave it, which compared two
\* words of one length.
Evaluated(guess, solution) ==
    /\ guess.guess \in Words /\ Len(guess.guess) = Len(solution)
    /\ guess.marks = Evaluate(guess.guess, solution)

MarksInv ==
    \A s \in DOMAIN sessions : \A k \in DOMAIN sessions[s].history :
        Evaluated(sessions[s].history[k], sessions[s].solution)

\* A guess that is saved is evaluated then.
LEMMA MarksStep == SessionsInv /\ MarksInv /\ [SessionsNext]_sessionVars => MarksInv'
<1> SUFFICES ASSUME SessionsInv, MarksInv, [SessionsNext]_sessionVars PROVE MarksInv'
  OBVIOUS
<1>1. Sessions
  BY DEF SessionsInv
<1>2. ASSUME NEW h \in Handlers, NEW u \in Players, NEW w \in Words, CreateSession(h, u, w)
      PROVE  MarksInv'
  <2>1. PICK row : /\ row = [owner |-> u, solution |-> w, status |-> "IN_PROGRESS", history |-> << >>]
                   /\ sessions' = Append(sessions, row)
    BY <1>2 DEF CreateSession
  <2>2. sessions \in Seq(SessionRow) /\ DOMAIN row.history = {}
    BY <1>1, <2>1 DEF Sessions
  <2>3. /\ DOMAIN sessions' = DOMAIN sessions \cup {Len(sessions) + 1}
        /\ \A s \in DOMAIN sessions : sessions'[s] = sessions[s]
        /\ sessions'[Len(sessions) + 1] = row
    BY <2>1, <2>2
  <2> QED
    BY <2>2, <2>3 DEF MarksInv
<1>3. ASSUME NEW h \in Handlers, SaveGuess(h) PROVE MarksInv'
  <2>1. PICK s \in DOMAIN sessions, g \in Words : s = handler[h].sess /\ g = handler[h].guess
    BY <1>1, <1>3 DEF Sessions, SaveGuess
  <2>2. PICK new : /\ new = [guess |-> g, marks |-> Evaluate(g, sessions[s].solution)]
                   /\ Len(g) = Len(sessions[s].solution)
    BY <1>3, <2>1 DEF SaveGuess
  <2>3. PICK status : sessions' = [sessions EXCEPT ![s].status = status,
                                                   ![s].history = Append(@, new)]
    BY <1>3, <2>1, <2>2 DEF SaveGuess
  <2>4. sessions[s] \in SessionRow /\ sessions[s].history \in Seq(GuessRows)
    <3>1. sessions \in Seq(SessionRow)
      BY <1>1 DEF Sessions
    <3>2. sessions[s] \in SessionRow
      BY <3>1
    <3> QED
      BY <3>2 DEF SessionRow
  <2>5. /\ DOMAIN sessions' = DOMAIN sessions
        /\ \A r \in DOMAIN sessions : r # s => sessions'[r] = sessions[r]
        /\ sessions'[s].solution = sessions[s].solution
        /\ sessions'[s].history = Append(sessions[s].history, new)
    BY <2>3, <2>4 DEF SessionRow
  <2>6. Evaluated(new, sessions[s].solution)
    BY <2>2 DEF Evaluated
  <2>7. ASSUME NEW k \in DOMAIN Append(sessions[s].history, new)
        PROVE  Evaluated(Append(sessions[s].history, new)[k], sessions[s].solution)
    <3>1. CASE k \in DOMAIN sessions[s].history
      <4>1. Append(sessions[s].history, new)[k] = sessions[s].history[k]
        BY <2>4, <3>1
      <4> QED
        BY <3>1, <4>1 DEF MarksInv
    <3>2. CASE k \notin DOMAIN sessions[s].history
      <4>1. Append(sessions[s].history, new)[k] = new
        BY <2>4, <3>2
      <4> QED
        BY <2>6, <4>1
    <3> QED
      BY <3>1, <3>2
  <2>8. ASSUME NEW r \in DOMAIN sessions', NEW k \in DOMAIN sessions'[r].history
        PROVE  Evaluated(sessions'[r].history[k], sessions'[r].solution)
    <3>1. CASE r = s
      BY <2>5, <2>7, <2>8, <3>1
    <3>2. CASE r # s
      BY <2>5, <2>8, <3>2 DEF MarksInv
    <3> QED
      BY <3>1, <3>2
  <2> QED
    BY <2>8 DEF MarksInv, Evaluated
<1>4. ASSUME sessions' = sessions PROVE MarksInv'
  BY <1>4 DEF MarksInv, Evaluated
<1>5. ASSUME NEW h \in Handlers,
             FindEntry(h) \/ SaveEntry(h) \/ UpsertFails(h) \/ GuessFails(h)
             \/ \E s \in DOMAIN sessions, g \in Words : StartGuess(h, s, g)
      PROVE  MarksInv'
  BY <1>4, <1>5 DEF FindEntry, SaveEntry, UpsertFails, GuessFails, StartGuess
<1>6. CASE UNCHANGED sessionVars
  BY <1>4, <1>6 DEF sessionVars
<1>7. QED
  BY <1>2, <1>3, <1>5, <1>6 DEF SessionsNext

\* The marks of every recorded guess are true of the solution, for words of any
\* length over any letters: exact places, as many copies of a letter as both
\* words hold, the first ones marked (evaluateGuess with its two passes).
THEOREM MarksTellTheTruth == SessionsSpec => []MarksAreSound
<1>1. SessionsInit => MarksInv
  BY DEF SessionsInit, MarksInv
<1>2. SessionsInv /\ MarksInv => MarksAreSound
  <2> SUFFICES ASSUME SessionsInv, MarksInv, NEW CONSTANT s \in DOMAIN sessions,
                      NEW CONSTANT k \in DOMAIN sessions[s].history
               PROVE  SoundMarks(sessions[s].history[k].guess, sessions[s].solution,
                                 sessions[s].history[k].marks)
    BY DEF MarksAreSound
  <2>1. PICK g, w : g = sessions[s].history[k].guess /\ w = sessions[s].solution
    OBVIOUS
  <2>2. g \in Words /\ Len(g) = Len(w) /\ sessions[s].history[k].marks = Evaluate(g, w)
    BY <2>1 DEF MarksInv, Evaluated
  <2>3. w \in Words
    <3>1. sessions \in Seq(SessionRow)
      BY DEF SessionsInv, Sessions
    <3>2. sessions[s] \in SessionRow
      BY <3>1
    <3> QED
      BY <2>1, <3>2 DEF SessionRow
  <2>4. WordPair(g, w)
    BY <2>2, <2>3, SessionsAssumption DEF WordPair
  <2> QED
    BY <2>1, <2>2, <2>4, MarksSound
<1>3. QED
  BY <1>1, <1>2, MarksStep, SessionsInvHolds, PTL DEF SessionsSpec

-----------------------------------------------------------------------------
(* Votes for suggested words *)

VoteRow == [voters : {S \in SUBSET Voters : IsFiniteSet(S)}, voteCount : Nat]

\* The rows, and the votes that were saved for them.
Rows ==
    /\ DOMAIN suggestions \subseteq Proposals /\ DOMAIN call = Calls
    /\ voted \in [Proposals -> SUBSET Voters]
    /\ \A w \in DOMAIN suggestions : suggestions[w] \in VoteRow
    /\ \A w \in Proposals \ DOMAIN suggestions : voted[w] = {}

\* A call that votes holds the row as it was, with the vote added to it.
Voting(k) ==
    /\ k.word \in DOMAIN suggestions /\ k.user \in Voters
    /\ k.read \in VoteRow /\ k.user \notin k.read.voters /\ k.copy = WithVote(k.read, k.user)
    /\ k.read.voters \subseteq voted[k.word]
    /\ k.word \notin torn => k.read.voteCount = Cardinality(k.read.voters)

\* A call that writes knows which columns differ from the row it saw, and while
\* no save was stale no voter it saw has gone.
Writing(k) ==
    /\ k.seen \in VoteRow /\ k.columns = {f \in {"voters", "voteCount"} : k.seen[f] # k.copy[f]}
    /\ k.word \notin stale => k.seen.voters \subseteq suggestions[k.word].voters

CallsInv ==
    \A c \in Calls :
        /\ call[c].pc \in {"idle", "insert", "compare", "write"}
        /\ call[c].pc = "insert" => call[c].word \in Proposals
        /\ call[c].pc \in {"compare", "write"} => Voting(call[c])
        /\ call[c].pc = "write" => Writing(call[c])

VotesInv == Rows /\ CallsInv /\ VotesKept

\* A copy is a row with one voter and one vote more.
LEMMA CopyCounts ==
    ASSUME NEW row \in VoteRow, NEW u \in Voters, u \notin row.voters
    PROVE  /\ WithVote(row, u) \in VoteRow /\ DOMAIN WithVote(row, u) = {"voters", "voteCount"}
           /\ WithVote(row, u).voters = row.voters \cup {u}
           /\ WithVote(row, u).voteCount = row.voteCount + 1
           /\ row.voteCount = Cardinality(row.voters)
                 => WithVote(row, u).voteCount = Cardinality(WithVote(row, u).voters)
<1>1. IsFiniteSet(row.voters) /\ row.voters \subseteq Voters /\ row.voteCount \in Nat
  BY DEF VoteRow
<1>2. /\ IsFiniteSet(row.voters \cup {u})
      /\ Cardinality(row.voters \cup {u}) = Cardinality(row.voters) + 1
  BY <1>1, FS_AddElement
<1>3. /\ WithVote(row, u).voters = row.voters \cup {u}
      /\ WithVote(row, u).voteCount = row.voteCount + 1
      /\ DOMAIN WithVote(row, u) = {"voters", "voteCount"}
  BY DEF WithVote
<1>4. WithVote(row, u) \in VoteRow
  BY <1>1, <1>2 DEF WithVote, VoteRow
<1> QED
  BY <1>2, <1>3, <1>4

\* What a save leaves in the row: the columns in which its copy differed from
\* the row it saw, and the others as they are.
LEMMA WrittenRow ==
    ASSUME Rows, CallsInv, NEW c \in Calls, WriteRow(c)
    PROVE  LET k == call[c]
               new == suggestions'[k.word]
               old == suggestions[k.word]
           IN  /\ Voting(k) /\ Writing(k) /\ old \in VoteRow /\ k.copy \in VoteRow
               /\ DOMAIN suggestions' = DOMAIN suggestions /\ new \in VoteRow
               /\ \A w \in DOMAIN suggestions \ {k.word} : suggestions'[w] = suggestions[w]
               /\ new.voters = IF k.seen.voters # k.copy.voters THEN k.copy.voters ELSE old.voters
               /\ new.voteCount = IF k.seen.voteCount # k.copy.voteCount THEN k.copy.voteCount
                                                                        ELSE old.voteCount
<1> DEFINE k == call[c]
           w == k.word
           old == suggestions[w]
           written == [f \in DOMAIN old |-> IF f \in k.columns THEN k.copy[f] ELSE old[f]]
<1>1. k.pc = "write" /\ Voting(k) /\ Writing(k)
  BY DEF WriteRow, CallAt, CallsInv
<1>2. w \in DOMAIN suggestions /\ old \in VoteRow
  BY <1>1 DEF Voting, Rows
<1>3. k.copy \in VoteRow
  BY <1>1, CopyCounts DEF Voting
<1>4. /\ DOMAIN suggestions' = DOMAIN suggestions
      /\ \A v \in DOMAIN suggestions \ {w} : suggestions'[v] = suggestions[v]
      /\ suggestions'[w] = written
  BY <1>2 DEF WriteRow
<1>5. /\ written.voters = IF k.seen.voters # k.copy.voters THEN k.copy.voters ELSE old.voters
      /\ written.voteCount = IF k.seen.voteCount # k.copy.voteCount THEN k.copy.voteCount
                                                                    ELSE old.voteCount
  <2>1. DOMAIN old = {"voters", "voteCount"}
    BY <1>2 DEF VoteRow
  <2>2. /\ "voters" \in k.columns <=> k.seen.voters # k.copy.voters
        /\ "voteCount" \in k.columns <=> k.seen.voteCount # k.copy.voteCount
    BY <1>1 DEF Writing
  <2> HIDE DEF k, old
  <2> QED
    BY <2>1, <2>2
<1>6. written \in VoteRow
  <2>1. written = [voters |-> written.voters, voteCount |-> written.voteCount]
    BY <1>2 DEF VoteRow
  <2>2. /\ old.voters \in {S \in SUBSET Voters : IsFiniteSet(S)} /\ old.voteCount \in Nat
        /\ k.copy.voters \in {S \in SUBSET Voters : IsFiniteSet(S)} /\ k.copy.voteCount \in Nat
    BY <1>2, <1>3 DEF VoteRow
  <2> HIDE DEF written, old, k
  <2>3. written.voters \in {S \in SUBSET Voters : IsFiniteSet(S)} /\ written.voteCount \in Nat
    BY <1>5, <2>2
  <2> QED
    BY <2>1, <2>3 DEF VoteRow
<1> HIDE DEF written
<1> QED
  BY <1>1, <1>2, <1>3, <1>4, <1>5, <1>6

\* A save keeps every vote, unless its copy was older than the row.
LEMMA WriteKeepsVotes ==
    ASSUME VotesInv, NEW c \in Calls, WriteRow(c)
    PROVE  VotesInv'
<1> DEFINE k == call[c]
           w == k.word
           old == suggestions[w]
           new == suggestions'[w]
<1>1. /\ Voting(k) /\ Writing(k) /\ old \in VoteRow /\ k.copy \in VoteRow
      /\ DOMAIN suggestions' = DOMAIN suggestions /\ new \in VoteRow
      /\ \A v \in DOMAIN suggestions \ {w} : suggestions'[v] = suggestions[v]
      /\ new.voters = IF k.seen.voters # k.copy.voters THEN k.copy.voters ELSE old.voters
      /\ new.voteCount = IF k.seen.voteCount # k.copy.voteCount THEN k.copy.voteCount
                                                               ELSE old.voteCount
  BY WrittenRow DEF VotesInv
<1>2. /\ w \in DOMAIN suggestions /\ k.user \in Voters /\ k.user \notin k.read.voters
      /\ k.read \in VoteRow /\ k.copy = WithVote(k.read, k.user)
      /\ k.read.voters \subseteq voted[w]
      /\ w \notin torn => k.read.voteCount = Cardinality(k.read.voters)
      /\ w \notin stale => k.seen.voters \subseteq old.voters
      /\ k.seen \in VoteRow
  BY <1>1 DEF Voting, Writing
<1>3. /\ k.copy.voters = k.read.voters \cup {k.user}
      /\ k.read.voteCount = Cardinality(k.read.voters) => k.copy.voteCount = Cardinality(k.copy.voters)
  BY <1>2, CopyCounts
<1>4. /\ voted' = [voted EXCEPT ![w] = @ \cup {k.user}]
      /\ stale' = stale \cup (IF old = k.read THEN {} ELSE {w})
      /\ torn' = torn \cup (IF old = k.seen THEN {} ELSE {w})
      /\ call' = [call EXCEPT ![c] = NoCall]
  BY DEF WriteRow, Proceed
<1>5. /\ DOMAIN suggestions \subseteq Proposals /\ DOMAIN call = Calls
      /\ voted \in [Proposals -> SUBSET Voters] /\ w \in Proposals
      /\ \A v \in DOMAIN suggestions : suggestions[v] \in VoteRow
      /\ \A v \in Proposals \ DOMAIN suggestions : voted[v] = {}
  BY <1>2 DEF VotesInv, Rows
<1>6. /\ old.voters \subseteq voted[w] /\ (w \notin stale => old.voters = voted[w])
      /\ (w \notin torn => old.voteCount = Cardinality(old.voters))
  BY <1>2 DEF VotesInv, VotesKept
<1>7. /\ voted'[w] = voted[w] \cup {k.user} /\ \A v \in Proposals \ {w} : voted'[v] = voted[v]
      /\ call'[c] = NoCall /\ \A d \in Calls \ {c} : call'[d] = call[d]
      /\ DOMAIN call' = Calls /\ voted' \in [Proposals -> SUBSET Voters]
  BY <1>2, <1>4, <1>5
<1>8. new.voters \subseteq voted'[w]
  BY <1>1, <1>2, <1>3, <1>6, <1>7
<1>9. w \notin stale' => new.voters = voted'[w] /\ old.voters \subseteq new.voters
  <2>1. SUFFICES ASSUME w \notin stale'
                 PROVE  new.voters = voted'[w] /\ old.voters \subseteq new.voters
    OBVIOUS
  <2>2. old = k.read /\ w \notin stale
    BY <1>4, <2>1
  <2>3. k.seen.voters # k.copy.voters
    BY <1>2, <1>3, <2>2
  <2> HIDE DEF k, w, old, new
  <2> QED
    BY <1>1, <1>3, <1>6, <1>7, <2>2, <2>3
<1>10. w \notin torn' => new.voteCount = Cardinality(new.voters)
  <2>1. SUFFICES ASSUME w \notin torn'
                 PROVE  new.voteCount = Cardinality(new.voters)
    OBVIOUS
  <2>2. old = k.seen /\ w \notin torn
    BY <1>4, <2>1
  <2>3. new.voteCount = k.copy.voteCount /\ new.voters = k.copy.voters
    BY <1>1, <2>2
  <2>4. k.copy.voteCount = Cardinality(k.copy.voters)
    BY <1>2, <1>3, <2>2
  <2> QED
    BY <2>3, <2>4
<1>11. \A v \in Proposals \ {w} : (v \in stale' <=> v \in stale) /\ (v \in torn' <=> v \in torn)
  BY <1>4
<1>12. (w \in stale => w \in stale') /\ (w \in torn => w \in torn')
  BY <1>4
<1> HIDE DEF k, w, old, new
<1>13. Rows'
  BY <1>1, <1>2, <1>5, <1>7 DEF Rows, new
<1>14. VotesKept'
  <2>1. /\ suggestions'[w].voters \subseteq voted'[w]
        /\ w \notin stale' => suggestions'[w].voters = voted'[w]
        /\ w \notin torn' => suggestions'[w].voteCount = Cardinality(suggestions'[w].voters)
    BY <1>8, <1>9, <1>10 DEF new
  <2>2. ASSUME NEW v \in DOMAIN suggestions, v # w
        PROVE  /\ suggestions'[v].voters \subseteq voted'[v]
               /\ v \notin stale' => suggestions'[v].voters = voted'[v]
               /\ v \notin torn' => suggestions'[v].voteCount = Cardinality(suggestions'[v].voters)
    BY <1>1, <1>5, <1>7, <1>11, <2>2 DEF VotesInv, VotesKept
  <2> QED
    BY <1>1, <2>1, <2>2 DEF VotesKept
<1>15. CallsInv'
  <2> SUFFICES ASSUME NEW d \in Calls
               PROVE  /\ call'[d].pc \in {"idle", "insert", "compare", "write"}
                      /\ call'[d].pc = "insert" => call'[d].word \in Proposals
                      /\ call'[d].pc \in {"compare", "write"} => Voting(call[d])'
                      /\ call'[d].pc = "write" => Writing(call[d])'
    BY DEF CallsInv
  <2>1. CASE d = c
    BY <1>7, <2>1 DEF NoCall
  <2>2. CASE d # c
    <3>1. /\ call'[d] = call[d] /\ call[d].pc \in {"idle", "insert", "compare", "write"}
          /\ call[d].pc = "insert" => call[d].word \in Proposals
          /\ call[d].pc \in {"compare", "write"} => Voting(call[d])
          /\ call[d].pc = "write" => Writing(call[d])
      BY <1>7, <2>2 DEF VotesInv, CallsInv
    <3>2. ASSUME Voting(call[d])
          PROVE  Voting(call[d])'
      BY <1>1, <1>4, <1>5, <1>7, <1>11, <1>12, <3>1, <3>2 DEF Voting
    <3>3. ASSUME Voting(call[d]), Writing(call[d])
          PROVE  Writing(call[d])'
      BY <1>1, <1>5, <1>7, <1>9, <1>11, <1>12, <3>1, <3>3 DEF Voting, Writing, old, new
    <3> QED
      BY <3>1, <3>2, <3>3
  <2> QED
    BY <2>1, <2>2
<1> QED
  BY <1>13, <1>14, <1>15 DEF VotesInv
\* A call that goes on to its next step, the rows being as they were.
LEMMA CallProceeds ==
    ASSUME VotesInv, NEW c \in Calls, NEW k, Proceed(c, k),
           UNCHANGED <<suggestions, voted, stale, torn>>,
           k.pc \in {"idle", "insert", "compare", "write"}, k.pc = "insert" => k.word \in Proposals,
           k.pc \in {"compare", "write"} => Voting(k), k.pc = "write" => Writing(k)
    PROVE  VotesInv'
<1>1. /\ DOMAIN call' = Calls /\ call'[c] = k /\ \A d \in Calls \ {c} : call'[d] = call[d]
  BY DEF Proceed, VotesInv, Rows
<1>2. Rows' /\ VotesKept'
  BY <1>1 DEF VotesInv, Rows, VotesKept
<1>3. ASSUME NEW d \in Calls
      PROVE  /\ call'[d].pc \in {"idle", "insert", "compare", "write"}
             /\ call'[d].pc = "insert" => call'[d].word \in Proposals
             /\ call'[d].pc \in {"compare", "write"} => Voting(call[d])'
             /\ call'[d].pc = "write" => Writing(call[d])'
  <2>1. CASE d = c
    BY <1>1, <2>1 DEF Voting, Writing
  <2>2. CASE d # c
    BY <1>1, <2>2 DEF VotesInv, CallsInv, Voting, Writing
  <2> QED
    BY <2>1, <2>2
<1> QED
  BY <1>2, <1>3 DEF VotesInv, CallsInv

\* create: a new row, without votes.
LEMMA InsertKeepsVotes ==
    ASSUME VotesInv, NEW c \in Calls, InsertWord(c)
    PROVE  VotesInv'
<1> DEFINE w == call[c].word
<1>1. /\ w \in Proposals /\ Proceed(c, NoCall) /\ UNCHANGED <<voted, stale, torn>>
      /\ suggestions' = IF w \in DOMAIN suggestions THEN suggestions
                        ELSE [v \in DOMAIN suggestions \cup {w} |->
                                IF v = w THEN NoVotes ELSE suggestions[v]]
  BY DEF InsertWord, CallAt, VotesInv, CallsInv
<1> HIDE DEF w
<1>2. CASE w \in DOMAIN suggestions
  <2>1. suggestions' = suggestions
    BY <1>1, <1>2
  <2> QED
    BY <1>1, <2>1, CallProceeds DEF NoCall
<1>3. CASE w \notin DOMAIN suggestions
  <2>1. /\ DOMAIN suggestions' = DOMAIN suggestions \cup {w} /\ suggestions'[w] = NoVotes
        /\ \A v \in DOMAIN suggestions : suggestions'[v] = suggestions[v]
    BY <1>1, <1>3
  <2>2. /\ DOMAIN call' = Calls /\ call'[c].pc = "idle" /\ \A d \in Calls \ {c} : call'[d] = call[d]
    BY <1>1 DEF Proceed, VotesInv, Rows, NoCall
  <2>3. NoVotes \in VoteRow /\ NoVotes.voters = {} /\ NoVotes.voteCount = Cardinality({})
    BY FS_EmptySet DEF NoVotes, VoteRow
  <2>4. Rows'
    BY <1>1, <2>1, <2>2, <2>3 DEF VotesInv, Rows
  <2>5. VotesKept'
    <3>1. voted[w] = {}
      BY <1>1, <1>3 DEF VotesInv, Rows
    <3> QED
      BY <1>1, <2>1, <2>3, <3>1 DEF VotesInv, VotesKept
  <2>6. ASSUME NEW d \in Calls
        PROVE  /\ call'[d].pc \in {"idle", "insert", "compare", "write"}
               /\ call'[d].pc = "insert" => call'[d].word \in Proposals
               /\ call'[d].pc \in {"compare", "write"} => Voting(call[d])'
               /\ call'[d].pc = "write" => Writing(call[d])'
    <3>1. CASE d = c
      BY <2>2, <3>1
    <3>2. CASE d # c
      BY <1>1, <2>1, <2>2, <3>2 DEF VotesInv, CallsInv, Voting, Writing
    <3> QED
      BY <3>1, <3>2
  <2> QED
    BY <2>4, <2>5, <2>6 DEF VotesInv, CallsInv
<1> QED
  BY <1>2, <1>3

\* The invariant of suggestions and votes holds in every reachable state.
LEMMA VotesInvHolds == SuggestionsSpec => []VotesInv
<1>1. SuggestionsInit => VotesInv
  BY DEF SuggestionsInit, VotesInv, Rows, CallsInv, VotesKept, NoCall
<1>2. VotesInv /\ [SuggestionsNext]_suggestionVars => VotesInv'
  <2> SUFFICES ASSUME VotesInv, [SuggestionsNext]_suggestionVars
               PROVE  VotesInv'
    OBVIOUS
  <2>1. ASSUME NEW c \in Calls, NEW w \in Proposals, LookUpWord(c, w)
        PROVE  VotesInv'
    BY <2>1, CallProceeds DEF LookUpWord
  <2>2. ASSUME NEW c \in Calls, NEW w \in Proposals, NEW u \in Voters, ReadRow(c, w, u)
        PROVE  VotesInv'
    <3> DEFINE k == [pc |-> "compare", word |-> w, user |-> u, read |-> suggestions[w],
                     copy |-> WithVote(suggestions[w], u)]
    <3>1. /\ w \in DOMAIN suggestions /\ u \notin suggestions[w].voters /\ Proceed(c, k)
          /\ UNCHANGED <<suggestions, voted, stale, torn>>
      BY <2>2 DEF ReadRow, Voted
    <3>2. /\ k.pc = "compare" /\ k.word = w /\ k.user = u /\ k.read = suggestions[w]
          /\ k.copy = WithVote(suggestions[w], u)
      OBVIOUS
    <3> HIDE DEF k
    <3>3. Voting(k)
      BY <3>1, <3>2 DEF VotesInv, Rows, VotesKept, Voting
    <3> QED
      BY <3>1, <3>2, <3>3, CallProceeds
  <2>3. ASSUME NEW c \in Calls, CompareRow(c)
        PROVE  VotesInv'
    <3> DEFINE row == suggestions[call[c].word]
               columns == {f \in DOMAIN row : row[f] # call[c].copy[f]}
               k == [pc |-> "write", word |-> call[c].word, user |-> call[c].user,
                     read |-> call[c].read, seen |-> row, copy |-> call[c].copy,
                     columns |-> columns]
    <3>1. /\ call[c].pc = "compare" /\ Proceed(c, k)
          /\ UNCHANGED <<suggestions, voted, stale, torn>>
      BY <2>3 DEF CompareRow, CallAt
    <3>2. Voting(call[c])
      BY <3>1 DEF VotesInv, CallsInv
    <3>3. row \in VoteRow /\ DOMAIN row = {"voters", "voteCount"}
      <4>1. row \in VoteRow
        BY <3>2 DEF VotesInv, Rows, Voting
      <4> QED
        BY <4>1 DEF VoteRow
    <3>4. /\ k.pc = "write" /\ k.word = call[c].word /\ k.user = call[c].user
          /\ k.read = call[c].read /\ k.seen = row /\ k.copy = call[c].copy
          /\ k.columns = {f \in {"voters", "voteCount"} : row[f] # call[c].copy[f]}
      BY <3>3
    <3> HIDE DEF k
    <3>5. Voting(k) /\ Writing(k)
      BY <3>2, <3>3, <3>4 DEF Voting, Writing
    <3> QED
      BY <3>1, <3>4, <3>5, CallProceeds
  <2>4. ASSUME NEW c \in Calls, CallFails(c)
        PROVE  VotesInv'
    BY <2>4, CallProceeds DEF CallFails, NoCall
  <2>5. ASSUME UNCHANGED suggestionVars
        PROVE  VotesInv'
    BY <2>5 DEF suggestionVars, VotesInv, Rows, CallsInv, VotesKept, Voting, Writing
  <2> QED
    BY <2>1, <2>2, <2>3, <2>4, <2>5, InsertKeepsVotes, WriteKeepsVotes DEF SuggestionsNext
<1> QED
  BY <1>1, <1>2, PTL DEF SuggestionsSpec

\* The votes for suggested words: none that was saved is lost and no user votes
\* twice, unless a save wrote a copy older than the row, and voteCount is the
\* number of voters unless the row changed inside a save (vote of
\* word-suggestions.service.ts, and the save of its repository).
THEOREM VotesAreKept == SuggestionsSpec => []VotesKept
<1>1. VotesInv => VotesKept
  BY DEF VotesInv
<1> QED
  BY <1>1, VotesInvHolds, PTL

\* A row of votes that comes after another: with more votes, or the same row.
Follows(new, old) == old.voteCount <= new.voteCount /\ (old.voteCount = new.voteCount => new = old)

\* While no save of a word was stale, its row follows every copy of it.
CopiesPrecede ==
    /\ stale \subseteq Proposals /\ torn \subseteq stale
    /\ \A c \in Calls : call[c].pc \in {"compare", "write"} /\ call[c].word \notin stale =>
          /\ Follows(suggestions[call[c].word], call[c].read)
          /\ call[c].pc = "write" => /\ Follows(call[c].seen, call[c].read)
                                     /\ Follows(suggestions[call[c].word], call[c].seen)

\* A row that follows the next follows what that one follows.
LEMMA FollowsOn ==
    ASSUME NEW r \in VoteRow, NEW s \in VoteRow, NEW t \in VoteRow, Follows(s, r), Follows(t, s)
    PROVE  Follows(t, r)
<1>1. r.voteCount \in Nat /\ s.voteCount \in Nat /\ t.voteCount \in Nat
  BY DEF VoteRow
<1> QED
  BY <1>1 DEF Follows

\* A save onto a row that changed inside it is stale, and any other one adds a
\* vote to the row that was read.
LEMMA WriteKeepsOrder ==
    ASSUME VotesInv, CopiesPrecede, NEW c \in Calls, WriteRow(c)
    PROVE  CopiesPrecede'
<1> DEFINE k == call[c]
           w == k.word
           old == suggestions[w]
           new == suggestions'[w]
<1>1. /\ Voting(k) /\ Writing(k) /\ old \in VoteRow /\ k.copy \in VoteRow
      /\ new \in VoteRow /\ DOMAIN suggestions' = DOMAIN suggestions
      /\ \A v \in DOMAIN suggestions \ {w} : suggestions'[v] = suggestions[v]
      /\ new.voteCount = IF k.seen.voteCount # k.copy.voteCount THEN k.copy.voteCount
                                                               ELSE old.voteCount
  BY WrittenRow DEF VotesInv
<1>2. /\ k.pc = "write" /\ w \in Proposals
      /\ stale' = stale \cup IF old = k.read THEN {} ELSE {w}
      /\ torn' = torn \cup IF old = k.seen THEN {} ELSE {w}
      /\ DOMAIN call' = Calls /\ call'[c].pc = "idle"
      /\ \A d \in Calls \ {c} : call'[d] = call[d]
  BY <1>1 DEF WriteRow, CallAt, Proceed, NoCall, VotesInv, Rows, Voting
<1>3. ASSUME w \notin stale'
      PROVE  old = k.seen /\ Follows(new, old)
  <2>1. w \notin stale /\ old = k.read
    BY <1>2, <1>3
  <2>2. Follows(k.seen, k.read) /\ Follows(old, k.seen)
    BY <1>2, <2>1 DEF CopiesPrecede
  <2>3. k.seen \in VoteRow /\ k.read \in VoteRow /\ k.copy.voteCount = k.read.voteCount + 1
    BY <1>1, CopyCounts DEF Voting, Writing
  <2>4. k.seen.voteCount \in Nat /\ k.read.voteCount \in Nat
    BY <2>3 DEF VoteRow
  <2> HIDE DEF k, old, new
  <2>5. k.seen.voteCount = k.read.voteCount
    BY <2>1, <2>2, <2>4 DEF Follows
  <2>6. k.seen = k.read
    BY <2>2, <2>5 DEF Follows
  <2>7. new.voteCount = old.voteCount + 1
    BY <1>1, <2>1, <2>3, <2>4, <2>6
  <2> QED
    BY <2>1, <2>4, <2>6, <2>7 DEF Follows
<1>4. stale' \subseteq Proposals /\ torn' \subseteq stale'
  <2>1. stale \subseteq Proposals /\ torn \subseteq stale
    BY DEF CopiesPrecede
  <2> HIDE DEF w, k, old, new
  <2> QED
    BY <1>2, <1>3, <2>1
<1>5. ASSUME NEW d \in Calls, call'[d].pc \in {"compare", "write"}, call'[d].word \notin stale'
      PROVE  /\ Follows(suggestions'[call'[d].word], call'[d].read)
             /\ call'[d].pc = "write" => /\ Follows(call'[d].seen, call'[d].read)
                                         /\ Follows(suggestions'[call'[d].word], call'[d].seen)
  <2>1. d # c /\ call'[d] = call[d] /\ call[d].word \notin stale
    BY <1>2, <1>5
  <2>2. /\ Follows(suggestions[call[d].word], call[d].read)
        /\ call[d].pc = "write" => /\ Follows(call[d].seen, call[d].read)
                                   /\ Follows(suggestions[call[d].word], call[d].seen)
    BY <1>5, <2>1 DEF CopiesPrecede
  <2>3. /\ Voting(call[d]) /\ call[d].read \in VoteRow /\ call[d].word \in DOMAIN suggestions
        /\ call[d].pc = "write" => call[d].seen \in VoteRow
    BY <1>5, <2>1 DEF VotesInv, CallsInv, Voting, Writing
  <2>4. CASE call[d].word = w
    <3>1. Follows(new, old) /\ w = call[d].word
      BY <1>3, <1>5, <2>1, <2>4
    <3> HIDE DEF k, old, new
    <3>2. old = suggestions[call[d].word] /\ new = suggestions'[call[d].word]
      BY <2>4 DEF old, new
    <3>3. Follows(new, call[d].read)
      BY <1>1, <2>2, <2>3, <3>1, <3>2, FollowsOn
    <3>4. call[d].pc = "write" => Follows(new, call[d].seen)
      BY <1>1, <2>2, <2>3, <3>1, <3>2, FollowsOn
    <3> QED
      BY <2>1, <2>2, <3>2, <3>3, <3>4
  <2>5. CASE call[d].word # w
    BY <1>1, <2>1, <2>2, <2>3, <2>5
  <2> QED
    BY <2>4, <2>5
<1> QED
  BY <1>4, <1>5 DEF CopiesPrecede

\* The rows, calls and votes of the suggestions keep their types, and a save
\* whose row changed between its halves was a stale one: a row never comes back
\* to what a call had read without a stale save (vote, and the save of its
\* repository).
THEOREM SuggestionsTyped == SuggestionsSpec => []SuggestionsTypeOK
<1>1. SuggestionsInit => CopiesPrecede
  BY DEF SuggestionsInit, CopiesPrecede, NoCall
<1>2. VotesInv /\ CopiesPrecede /\ [SuggestionsNext]_suggestionVars => CopiesPrecede'
  <2> SUFFICES ASSUME VotesInv, CopiesPrecede, [SuggestionsNext]_suggestionVars
               PROVE  CopiesPrecede'
    OBVIOUS
  <2>1. DOMAIN call = Calls
    BY DEF VotesInv, Rows
  <2>2. ASSUME NEW c \in Calls, NEW w \in Proposals, LookUpWord(c, w)
        PROVE  CopiesPrecede'
    BY <2>1, <2>2 DEF LookUpWord, Proceed, CopiesPrecede
  <2>3. ASSUME NEW c \in Calls, InsertWord(c)
        PROVE  CopiesPrecede'
    <3>1. /\ DOMAIN call' = Calls /\ call'[c].pc = "idle" /\ \A d \in Calls \ {c} : call'[d] = call[d]
          /\ stale' = stale /\ torn' = torn
      BY <2>1, <2>3 DEF InsertWord, Proceed, NoCall
    <3>2. \A v \in DOMAIN suggestions : suggestions'[v] = suggestions[v]
      BY <2>3 DEF InsertWord
    <3>3. \A d \in Calls : call[d].pc \in {"compare", "write"} => call[d].word \in DOMAIN suggestions
      BY DEF VotesInv, CallsInv, Voting
    <3> QED
      BY <3>1, <3>2, <3>3 DEF CopiesPrecede
  <2>4. ASSUME NEW c \in Calls, NEW w \in Proposals, NEW u \in Voters, ReadRow(c, w, u)
        PROVE  CopiesPrecede'
    <3>1. /\ call'[c].pc = "compare" /\ call'[c].word = w /\ call'[c].read = suggestions[w]
          /\ \A d \in Calls \ {c} : call'[d] = call[d]
          /\ suggestions' = suggestions /\ stale' = stale /\ torn' = torn
      BY <2>1, <2>4 DEF ReadRow, Proceed
    <3>2. suggestions[w] \in VoteRow
      BY <2>4 DEF ReadRow, VotesInv, Rows
    <3>3. Follows(suggestions[w], suggestions[w])
      BY <3>2 DEF VoteRow, Follows
    <3> QED
      BY <3>1, <3>3 DEF CopiesPrecede
  <2>5. ASSUME NEW c \in Calls, CompareRow(c)
        PROVE  CopiesPrecede'
    <3>1. /\ call[c].pc = "compare" /\ call'[c].pc = "write" /\ call'[c].word = call[c].word
          /\ call'[c].read = call[c].read /\ call'[c].seen = suggestions[call[c].word]
          /\ \A d \in Calls \ {c} : call'[d] = call[d]
          /\ suggestions' = suggestions /\ stale' = stale /\ torn' = torn
      BY <2>1, <2>5 DEF CompareRow, CallAt, Proceed
    <3>2. suggestions[call[c].word] \in VoteRow
      BY <3>1 DEF VotesInv, Rows, CallsInv, Voting
    <3>3. Follows(suggestions[call[c].word], suggestions[call[c].word])
      BY <3>2 DEF VoteRow, Follows
    <3> QED
      BY <3>1, <3>3 DEF CopiesPrecede
  <2>6. ASSUME NEW c \in Calls, CallFails(c)
        PROVE  CopiesPrecede'
    BY <2>1, <2>6 DEF CallFails, Proceed, NoCall, CopiesPrecede
  <2>7. ASSUME UNCHANGED suggestionVars
        PROVE  CopiesPrecede'
    BY <2>7 DEF suggestionVars, CopiesPrecede
  <2> QED
    BY <2>2, <2>3, <2>4, <2>5, <2>6, <2>7, WriteKeepsOrder DEF SuggestionsNext
<1>3. VotesInv /\ CopiesPrecede => SuggestionsTypeOK
  <2> SUFFICES ASSUME VotesInv, CopiesPrecede
               PROVE  SuggestionsTypeOK
    OBVIOUS
  <2>1. \A c \in Calls : CallAt(c, "idle") \/ call[c].word \in Proposals
    BY DEF VotesInv, Rows, CallsInv, Voting, CallAt
  <2>2. \A w \in DOMAIN suggestions : suggestions[w] \in [voters : SUBSET Voters, voteCount : Nat]
    BY DEF VotesInv, Rows, VoteRow
  <2> QED
    BY <2>1, <2>2 DEF VotesInv, Rows, CopiesPrecede, SuggestionsTypeOK
<1> QED
  BY <1>1, <1>2, <1>3, VotesInvHolds, PTL DEF SuggestionsSpec

-----------------------------------------------------------------------------
(* The queue of the matchmaker *)

Distinct(q) == \A i, j \in DOMAIN q : q[i] = q[j] => i = j

QueueTypes ==
    /\ queue \in Seq(Gamers) /\ Distinct(queue)
    /\ creating \subseteq Gamers \X (Gamers \cup {NoPlayer}) /\ IsFiniteSet(creating)

QueueInv == QueueTypes /\ TimersFollowQueue /\ QueueIsUnmatchable

\* Map.delete takes one player out of the queue, and no other.
LEMMA WithoutPlayer ==
    ASSUME NEW q \in Seq(Gamers), Distinct(q), NEW p
    PROVE  LET r == Without(q, p)
           IN  /\ r \in Seq(Gamers) /\ Distinct(r)
               /\ {r[i] : i \in DOMAIN r} = {q[i] : i \in DOMAIN q} \ {p}
<1>1. CASE \A i \in DOMAIN q : q[i] # p
  BY <1>1 DEF Without
<1>2. CASE \E i \in DOMAIN q : q[i] = p
  <2> DEFINE k == Index(q, p)
             n == Len(q)
             r == SubSeq(q, 1, k - 1) \o SubSeq(q, k + 1, n)
  <2>1. k \in DOMAIN q /\ q[k] = p /\ Without(q, p) = r
    BY <1>2 DEF Index, Without
  <2>2. k \in 1 .. n /\ n \in Nat /\ DOMAIN q = 1 .. n
    BY <2>1
  <2>3. /\ r \in Seq(Gamers) /\ Len(r) = n - 1
        /\ \A i \in 1 .. n - 1 : r[i] = IF i < k THEN q[i] ELSE q[i + 1]
    <3>1. SubSeq(q, 1, k - 1) \in Seq(Gamers) /\ Len(SubSeq(q, 1, k - 1)) = k - 1
      BY <2>2
    <3>2. SubSeq(q, k + 1, n) \in Seq(Gamers) /\ Len(SubSeq(q, k + 1, n)) = n - k
      BY <2>2
    <3> HIDE DEF k, n
    <3>3. r \in Seq(Gamers) /\ Len(r) = n - 1
      BY <2>2, <3>1, <3>2
    <3> QED
      BY <2>2, <3>1, <3>2, <3>3
  <2> HIDE DEF k, n, r
  <2>4. DOMAIN r = 1 .. n - 1
    BY <2>2, <2>3
  <2>5. Distinct(r)
    BY <2>2, <2>3, <2>4 DEF Distinct
  <2>6. \A i \in DOMAIN r : r[i] \in {q[j] : j \in DOMAIN q} \ {p}
    <3> TAKE i \in DOMAIN r
    <3>1. PICK j \in DOMAIN q : j # k /\ r[i] = q[j]
      <4>1. CASE i < k
        BY <2>2, <2>3, <2>4, <4>1
      <4>2. CASE ~(i < k)
        <5>1. r[i] = q[i + 1] /\ i + 1 \in DOMAIN q /\ i + 1 # k
          BY <2>2, <2>3, <2>4, <4>2
        <5> QED
          BY <5>1
      <4> QED
        BY <4>1, <4>2
    <3> QED
      BY <2>1, <3>1 DEF Distinct
  <2>7. \A j \in DOMAIN q : q[j] # p => \E i \in DOMAIN r : r[i] = q[j]
    <3> TAKE j \in DOMAIN q
    <3>1. CASE j < k
      BY <2>2, <2>3, <2>4, <3>1
    <3>2. CASE j > k
      <4>1. j - 1 \in DOMAIN r /\ r[j - 1] = q[j]
        BY <2>2, <2>3, <2>4, <3>2
      <4> QED
        BY <4>1
    <3>3. CASE j = k
      BY <2>1, <3>3
    <3> QED
      BY <2>2, <3>1, <3>2, <3>3
  <2> QED
    BY <2>1, <2>3, <2>5, <2>6, <2>7
<1> QED
  BY <1>1, <1>2

\* The distance of two players is a number, the same both ways.
LEMMA DistanceTyped ==
    ASSUME NEW p \in Gamers, NEW q \in Gamers
    PROVE  Distance(p, q) \in Nat /\ Distance(p, q) = Distance(q, p)
<1>1. Skill(p) \in Nat /\ Skill(q) \in Nat
  BY MatchmakingAssumption
<1> QED
  BY <1>1 DEF Distance

\* findOpponent misses nobody: beside a waiting player within the tolerance
\* there is a nearest one, and the latest of those.
LEMMA OpponentFound ==
    ASSUME queue \in Seq(Gamers), NEW p \in Gamers, NEW k \in DOMAIN queue, queue[k] # p,
           Distance(queue[k], p) <= Tolerance
    PROVE  Opponents(p) # {}
<1> DEFINE others == {j \in DOMAIN queue : queue[j] # p}
           distances == {Distance(queue[j], p) : j \in others}
<1>1. \A j \in DOMAIN queue : queue[j] \in Gamers /\ Distance(queue[j], p) \in Nat
  BY DistanceTyped
<1>2. distances \in SUBSET Nat /\ Distance(queue[k], p) \in distances
  BY <1>1
<1>3. PICK d \in distances : \A e \in distances : d <= e
  <2> HIDE DEF distances
  <2> QED
    BY <1>2, LeastOf
<1> DEFINE nearest == {j \in others : Distance(queue[j], p) = d}
           ranks == {Len(queue) - j : j \in nearest}
<1>4. /\ Len(queue) \in Nat /\ nearest # {}
      /\ \A j \in nearest : j \in Nat /\ j <= Len(queue)
  BY <1>3
<1>5. ranks \in SUBSET Nat /\ ranks # {}
  <2> HIDE DEF nearest
  <2> QED
    BY <1>4
<1>6. PICK r \in ranks : \A e \in ranks : r <= e
  <2> HIDE DEF ranks
  <2> QED
    BY <1>5, LeastOf
<1>7. PICK i \in nearest : r = Len(queue) - i
  BY <1>6
<1>8. \A j \in nearest : j <= i
  <2> TAKE j \in nearest
  <2>1. r <= Len(queue) - j
    BY <1>6
  <2> HIDE DEF nearest
  <2> QED
    BY <1>4, <1>7, <2>1
<1>9. /\ i \in DOMAIN queue /\ queue[i] # p /\ Distance(queue[i], p) = d
      /\ d <= Distance(queue[k], p)
  BY <1>2, <1>3, <1>7
<1>10. Distance(queue[i], p) <= Tolerance
  BY <1>1, <1>9, MatchmakingAssumption
<1>11. ASSUME NEW j \in DOMAIN queue, queue[j] # p
       PROVE  \/ Distance(queue[i], p) < Distance(queue[j], p)
              \/ Distance(queue[i], p) = Distance(queue[j], p) /\ j <= i
  <2>1. d <= Distance(queue[j], p) /\ Distance(queue[j], p) \in Nat /\ d \in Nat
    BY <1>1, <1>2, <1>3, <1>11
  <2>2. CASE Distance(queue[j], p) = d
    BY <1>8, <1>9, <1>11, <2>2
  <2>3. CASE Distance(queue[j], p) # d
    BY <1>9, <2>1, <2>3
  <2> QED
    BY <2>2, <2>3
<1> QED
  BY <1>9, <1>10, <1>11 DEF Opponents

\* Without removes a player from the queue and nobody else.
LEMMA PlayerLeaves ==
    ASSUME QueueTypes, NEW p, queue' = Without(queue, p)
    PROVE  queue' \in Seq(Gamers) /\ Distinct(queue') /\ Waiting' = Waiting \ {p}
<1>1. PICK r : r = Without(queue, p)
  OBVIOUS
<1>2. /\ r \in Seq(Gamers) /\ Distinct(r)
      /\ {r[i] : i \in DOMAIN r} = {queue[i] : i \in DOMAIN queue} \ {p}
  BY <1>1, WithoutPlayer DEF QueueTypes
<1>3. queue' = r
  BY <1>1
<1>4. queue' \in Seq(Gamers) /\ Distinct(queue')
  BY <1>2, <1>3
<1>5. Waiting' = {r[i] : i \in DOMAIN r}
  BY <1>3 DEF Waiting
<1>6. Waiting = {queue[i] : i \in DOMAIN queue}
  BY DEF Waiting
<1> QED
  BY <1>2, <1>4, <1>5, <1>6

\* Players who leave the queue take nothing else with them.
LEMMA LeavingQueue ==
    ASSUME QueueInv, NEW p, queue' = Without(queue, p), timers' = timers \ {p},
           creating' \subseteq Gamers \X (Gamers \cup {NoPlayer}), IsFiniteSet(creating')
    PROVE  QueueInv' /\ Waiting' = Waiting \ {p}
<1>1. /\ queue' \in Seq(Gamers) /\ Distinct(queue') /\ Waiting' = Waiting \ {p}
  BY PlayerLeaves DEF QueueInv
<1> QED
  BY <1>1 DEF QueueInv, QueueTypes, TimersFollowQueue, QueueIsUnmatchable

\* A player who joins is last, and suits nobody who waits.
LEMMA JoiningQueue ==
    ASSUME QueueInv, NEW p \in Gamers, EnqueueWaiting(p)
    PROVE  QueueInv' /\ Waiting' = Waiting \cup {p} /\ p \notin Waiting
<1>1. /\ p \notin Waiting /\ Opponents(p) = {} /\ queue' = Append(queue, p)
      /\ timers' = timers \cup {p} /\ creating' = creating
      /\ queue \in Seq(Gamers) /\ Distinct(queue)
  BY DEF EnqueueWaiting, QueueInv, QueueTypes
<1>2. /\ queue' \in Seq(Gamers) /\ Len(queue) \in Nat /\ DOMAIN queue = 1 .. Len(queue)
      /\ DOMAIN queue' = DOMAIN queue \cup {Len(queue) + 1} /\ Len(queue) + 1 \notin DOMAIN queue
      /\ queue'[Len(queue) + 1] = p
      /\ \A i \in DOMAIN queue : queue'[i] = queue[i]
  BY <1>1
<1>3. Distinct(queue') /\ Waiting' = Waiting \cup {p}
  BY <1>1, <1>2 DEF Distinct, Waiting
<1>4. \A q \in Waiting : Distance(q, p) > Tolerance /\ Distance(p, q) > Tolerance
  <2> TAKE q \in Waiting
  <2>1. PICK k \in DOMAIN queue : queue[k] = q
    BY DEF Waiting
  <2>2. q \in Gamers /\ q # p
    BY <1>1, <2>1
  <2>3. ~(Distance(q, p) <= Tolerance)
    BY <1>1, <2>1, <2>2, OpponentFound
  <2> QED
    BY <2>2, <2>3, DistanceTyped, MatchmakingAssumption
<1>5. QueueTypes' /\ TimersFollowQueue'
  BY <1>1, <1>2, <1>3 DEF QueueInv, QueueTypes, TimersFollowQueue
<1>6. QueueIsUnmatchable'
  BY <1>3, <1>4 DEF QueueInv, QueueIsUnmatchable
<1> QED
  BY <1>1, <1>3, <1>5, <1>6 DEF QueueInv

\* The invariant of the queue and its timers holds in every reachable state.
LEMMA QueueInvHolds == MatchmakingSpec => []QueueInv
<1>1. MatchmakingInit => QueueInv
  BY FS_EmptySet DEF MatchmakingInit, QueueInv, QueueTypes, Distinct, TimersFollowQueue,
     QueueIsUnmatchable, Waiting
<1>2. QueueInv /\ [MatchmakingNext]_matchmakingVars => QueueInv'
  <2> SUFFICES ASSUME QueueInv, [MatchmakingNext]_matchmakingVars
               PROVE  QueueInv'
    OBVIOUS
  <2>1. /\ queue \in Seq(Gamers) /\ IsFiniteSet(creating)
        /\ creating \subseteq Gamers \X (Gamers \cup {NoPlayer})
    BY DEF QueueInv, QueueTypes
  <2>2. /\ \A x : IsFiniteSet(creating \ {x})
        /\ \A x \in Gamers \X (Gamers \cup {NoPlayer}) :
              /\ creating \cup {x} \subseteq Gamers \X (Gamers \cup {NoPlayer})
              /\ IsFiniteSet(creating \cup {x})
    BY <2>1, FS_AddElement, FS_RemoveElement
  <2>3. ASSUME NEW p \in Gamers, EnqueueMatched(p)
        PROVE  QueueInv'
    <3>1. PICK i \in Opponents(p) :
              /\ queue' = Without(queue, queue[i]) /\ timers' = timers \ {queue[i]}
              /\ creating' = creating \cup {<<queue[i], p>>}
      BY <2>3 DEF EnqueueMatched, LeaveQueue, ClearTimer
    <3>2. queue[i] \in Gamers
      BY <2>1 DEF Opponents
    <3>3. <<queue[i], p>> \in Gamers \X (Gamers \cup {NoPlayer})
      BY <3>2
    <3>4. creating' \subseteq Gamers \X (Gamers \cup {NoPlayer}) /\ IsFiniteSet(creating')
      BY <2>2, <3>1, <3>3, Zenon
    <3> QED
      BY <3>1, <3>4, LeavingQueue
  <2>4. ASSUME NEW p \in Gamers, QueueTimeout(p)
        PROVE  QueueInv'
    <3>1. /\ queue' = Without(queue, p) /\ timers' = timers \ {p}
          /\ creating' \in {creating, creating \cup {<<p, NoPlayer>>}}
      BY <2>4 DEF QueueTimeout
    <3>2. <<p, NoPlayer>> \in Gamers \X (Gamers \cup {NoPlayer})
      OBVIOUS
    <3>3. creating' \subseteq Gamers \X (Gamers \cup {NoPlayer}) /\ IsFiniteSet(creating')
      BY <2>1, <2>2, <3>1, <3>2, Zenon
    <3> QED
      BY <3>1, <3>3, LeavingQueue
  <2>5. ASSUME NEW c \in creating, CreateMatch(c) \/ CreateFails(c)
        PROVE  QueueInv'
    <3>1. queue' = queue /\ timers' = timers /\ creating' = creating \ {c}
      BY <2>5 DEF CreateMatch, CreateFails
    <3>2. QueueTypes'
      BY <2>1, <2>2, <3>1 DEF QueueInv, QueueTypes
    <3>3. Waiting' = Waiting /\ TimersFollowQueue'
      BY <2>1, <3>1 DEF QueueInv, TimersFollowQueue, Waiting
    <3>4. QueueIsUnmatchable'
      BY <2>1, <3>3 DEF QueueInv, QueueIsUnmatchable
    <3> QED
      BY <3>2, <3>3, <3>4 DEF QueueInv
  <2>6. ASSUME Restart
        PROVE  QueueInv'
    BY <2>6, FS_EmptySet
       DEF Restart, QueueInv, QueueTypes, Distinct, TimersFollowQueue, QueueIsUnmatchable, Waiting
  <2>7. ASSUME UNCHANGED queueVars
        PROVE  QueueInv'
    BY <2>7
       DEF queueVars, QueueInv, QueueTypes, TimersFollowQueue, QueueIsUnmatchable, Waiting
  <2>8. ASSUME NEW i \in Submits, NEW m \in DOMAIN matches, NEW p \in Gamers, ReadMatch(m, p, i)
        PROVE  QueueInv'
    BY <2>7, <2>8 DEF ReadMatch
  <2>9. ASSUME NEW i \in Submits, CompareResult(i) \/ SaveResult(i) \/ SaveFails(i)
        PROVE  QueueInv'
    BY <2>7, <2>9 DEF CompareResult, SaveResult, SaveFails
  <2>10. ASSUME UNCHANGED matchmakingVars
         PROVE  QueueInv'
    BY <2>7, <2>10 DEF matchmakingVars
  <2> QED
    BY <2>3, <2>4, <2>5, <2>6, <2>8, <2>9, <2>10, JoiningQueue DEF MatchmakingNext
<1> QED
  BY <1>1, <1>2, PTL DEF MatchmakingSpec

-----------------------------------------------------------------------------
(* The results of a match *)

Match == [player1 : Gamers, player2 : Gamers \cup {NoPlayer}, attempts1 : BOOLEAN,
          attempts2 : BOOLEAN, status : {"ACTIVE", "SOLO", "COMPLETED"}]
Completion == [emitted : Nat, excuses : Nat]

MatchRows ==
    /\ matches \in Seq(Match) /\ completions \in Seq(Completion)
    /\ Len(completions) = Len(matches)

\* A submission read an open match, whose players do not change, or has a copy
\* of it to save.
SubmitEntry ==
    [stage : {"idle"}]
    \cup [stage : {"read"}, match : Nat, player : Gamers, seen : Match]
    \cup [stage : {"saving"}, match : Nat, copy : Match, base : Match]

Submissions ==
    /\ submits \in [Submits -> SubmitEntry]
    /\ \A i \in Submits : submits[i].stage # "idle" => submits[i].match \in DOMAIN matches
    /\ \A i \in Submits : submits[i].stage = "read" =>
          /\ submits[i].seen.player1 = matches[submits[i].match].player1
          /\ submits[i].seen.player2 = matches[submits[i].match].player2
          /\ submits[i].seen.status # "COMPLETED"

Reading(m) == SubmitsOf(m, "read")
Saving(m) == SubmitsOf(m, "saving")
ToAnnounce(m) == Cardinality(Reading(m))

\* Each submission announces once at the most, and all but the first of those
\* that overlap are excuses.  So the events so far, and those to come of the
\* submissions that have only read, do not exceed the excuses, ...
Excusable(m) == completions[m].emitted + ToAnnounce(m) <= completions[m].excuses

\* ... or exceed them by one, when all that overlap announce: then all of them
\* save a completed match, and with the last of them it is completed for good.
OneAhead(m) ==
    /\ completions[m].emitted + ToAnnounce(m) <= 1 + completions[m].excuses
    /\ Reading(m) \cup Saving(m) = {} => matches[m].status = "COMPLETED"
    /\ \A i \in Saving(m) :
          /\ submits[i].copy.status = "COMPLETED"
          /\ submits[i].base.status = "COMPLETED" => matches[m].status = "COMPLETED"

\* With nothing to excuse there is one submission at a time, of a row as it is.
Calm(m) ==
    completions[m].excuses = 0 =>
        /\ \A i, j \in Reading(m) \cup Saving(m) : i = j
        /\ \A i \in Reading(m) : submits[i].seen = matches[m]
        /\ \A i \in Saving(m) :
              /\ submits[i].base = matches[m] /\ matches[m].status # "COMPLETED"
              /\ submits[i].copy.status = "COMPLETED"
                    <=> submits[i].copy.attempts1 /\ submits[i].copy.attempts2
        /\ completions[m].emitted = IF matches[m].status = "COMPLETED" \/ Announced(m) THEN 1 ELSE 0
        /\ matches[m].status = "COMPLETED" <=> matches[m].attempts1 /\ matches[m].attempts2

Settles(m) == matches[m].player2 # NoPlayer => (Excusable(m) \/ OneAhead(m)) /\ Calm(m)

ResultsInv == MatchRows /\ Submissions /\ \A m \in DOMAIN matches : Settles(m)

\* What a submission makes of the match it read.
LEMMA FilledMatch ==
    ASSUME NEW s, s.seen \in Match
    PROVE  /\ Filled(s) \in Match
           /\ Filled(s).player1 = s.seen.player1 /\ Filled(s).player2 = s.seen.player2
           /\ s.seen.player2 # NoPlayer =>
                 /\ Completes(s) <=> Filled(s).attempts1 /\ Filled(s).attempts2
                 /\ Filled(s).status = IF Completes(s) THEN "COMPLETED" ELSE s.seen.status
<1> DEFINE row == IF s.player = s.seen.player1 THEN [s.seen EXCEPT !.attempts1 = TRUE]
                                               ELSE [s.seen EXCEPT !.attempts2 = TRUE]
           both == row.attempts1 /\ (row.player2 = NoPlayer \/ row.attempts2)
           status == IF ~both THEN row.status ELSE IF row.player2 = NoPlayer THEN "SOLO"
                                                                             ELSE "COMPLETED"
<1>1. row \in Match /\ row.player1 = s.seen.player1 /\ row.player2 = s.seen.player2
      /\ row.status = s.seen.status
  BY DEF Match
<1>2. Filled(s) = [row EXCEPT !.status = status]
  BY DEF Filled
<1>3. status \in {"ACTIVE", "SOLO", "COMPLETED"}
  BY <1>1 DEF Match
<1>4. both <=> row.attempts1 /\ (s.seen.player2 = NoPlayer \/ row.attempts2)
  BY <1>1
<1>5. status = IF ~both THEN row.status ELSE IF row.player2 = NoPlayer THEN "SOLO" ELSE "COMPLETED"
  OBVIOUS
<1> HIDE DEF row, both, status
<1>6. /\ Filled(s) \in Match /\ Filled(s).player1 = row.player1 /\ Filled(s).player2 = row.player2
      /\ Filled(s).attempts1 = row.attempts1 /\ Filled(s).attempts2 = row.attempts2
      /\ Filled(s).status = status
  BY <1>1, <1>2, <1>3 DEF Match
<1>7. Completes(s) <=> both
  BY <1>4, <1>6 DEF Completes
<1> QED
  BY <1>1, <1>4, <1>5, <1>6, <1>7

\* A match that is created, with nothing submitted.
LEMMA CreatedMatch ==
    ASSUME MatchRows, QueueTypes, NEW c, CreateMatch(c)
    PROVE  LET n == Len(matches) + 1
           IN  /\ MatchRows' /\ DOMAIN matches' = DOMAIN matches \cup {n} /\ n \notin DOMAIN matches
               /\ \A m \in DOMAIN matches : /\ matches'[m] = matches[m]
                                            /\ completions'[m] = completions[m]
               /\ matches'[n].player1 = c[1] /\ matches'[n].player2 = c[2]
               /\ matches'[n].status # "COMPLETED" /\ completions'[n] = [emitted |-> 0, excuses |-> 0]
               /\ ~(matches'[n].attempts1) /\ c[1] \in Gamers /\ c[2] \in Gamers \cup {NoPlayer}
<1> DEFINE n == Len(matches) + 1
           none == [emitted |-> 0, excuses |-> 0]
<1>1. /\ c \in creating /\ creating' = creating \ {c}
      /\ matches' = Append(matches, MatchRow(c[1], c[2]))
      /\ completions' = Append(completions, none)
  BY DEF CreateMatch
<1>2. c[1] \in Gamers /\ c[2] \in Gamers \cup {NoPlayer}
  BY <1>1 DEF QueueTypes
<1>3. /\ MatchRow(c[1], c[2]) \in Match
      /\ MatchRow(c[1], c[2]).player1 = c[1] /\ MatchRow(c[1], c[2]).player2 = c[2]
      /\ MatchRow(c[1], c[2]).status # "COMPLETED" /\ MatchRow(c[1], c[2]).attempts1 = FALSE
  BY <1>2 DEF MatchRow, Match
<1>4. none \in Completion /\ none = [emitted |-> 0, excuses |-> 0]
  BY DEF Completion
<1> HIDE DEF none
<1>5. /\ matches \in Seq(Match) /\ completions \in Seq(Completion) /\ Len(completions) = Len(matches)
      /\ Len(matches) \in Nat
  BY DEF MatchRows
<1>6. /\ matches' \in Seq(Match) /\ Len(matches') = n /\ matches'[n] = MatchRow(c[1], c[2])
      /\ DOMAIN matches' = 1 .. n /\ DOMAIN matches = 1 .. Len(matches)
      /\ \A m \in DOMAIN matches : matches'[m] = matches[m]
  BY <1>1, <1>3, <1>5
<1>7. /\ completions' \in Seq(Completion) /\ Len(completions') = n /\ completions'[n] = none
      /\ \A m \in DOMAIN matches : completions'[m] = completions[m]
  BY <1>1, <1>4, <1>5
<1>8. MatchRows'
  BY <1>1, <1>5, <1>6, <1>7 DEF MatchRows
<1>9. DOMAIN matches' = DOMAIN matches \cup {n} /\ n \notin DOMAIN matches
  BY <1>5, <1>6
<1> QED
  BY <1>2, <1>3, <1>4, <1>6, <1>7, <1>8, <1>9

\* A submission that is read, saved or lost changes its own match only.
LEMMA SubmissionWrites ==
    ASSUME MatchRows, NEW m \in DOMAIN matches, NEW row \in Match, NEW done \in Completion,
           matches' = [matches EXCEPT ![m] = row] \/ (matches' = matches /\ row = matches[m]),
           completions' = [completions EXCEPT ![m] = done]
    PROVE  /\ MatchRows' /\ DOMAIN matches' = DOMAIN matches
           /\ matches'[m] = row /\ completions'[m] = done
           /\ \A k \in DOMAIN matches \ {m} : /\ matches'[k] = matches[k]
                                              /\ completions'[k] = completions[k]
<1>1. /\ matches \in Seq(Match) /\ completions \in Seq(Completion) /\ Len(completions) = Len(matches)
      /\ DOMAIN matches = 1 .. Len(matches) /\ DOMAIN completions = DOMAIN matches
  BY DEF MatchRows
<1>2. /\ matches' \in Seq(Match) /\ Len(matches') = Len(matches) /\ DOMAIN matches' = DOMAIN matches
      /\ matches'[m] = row /\ \A k \in DOMAIN matches \ {m} : matches'[k] = matches[k]
  BY <1>1
<1>3. /\ completions' \in Seq(Completion) /\ Len(completions') = Len(completions)
      /\ completions'[m] = done
      /\ \A k \in DOMAIN matches \ {m} : completions'[k] = completions[k]
  BY <1>1
<1> QED
  BY <1>1, <1>2, <1>3 DEF MatchRows

\* One slot that moves on enters and leaves sets of its own match only.
LEMMA SlotMoves ==
    ASSUME NEW i \in Submits, NEW k, \A j \in Submits \ {i} : submits'[j] = submits[j]
    PROVE  /\ i \in Reading(k) <=> submits[i].stage = "read" /\ submits[i].match = k
           /\ i \in Saving(k) <=> submits[i].stage = "saving" /\ submits[i].match = k
           /\ submits'[i].stage = "read" /\ submits'[i].match = k => Reading(k)' = Reading(k) \cup {i}
           /\ submits'[i].stage # "read" \/ submits'[i].match # k => Reading(k)' = Reading(k) \ {i}
           /\ submits'[i].stage = "saving" /\ submits'[i].match = k => Saving(k)' = Saving(k) \cup {i}
           /\ submits'[i].stage # "saving" \/ submits'[i].match # k => Saving(k)' = Saving(k) \ {i}
           /\ \A j \in (Reading(k) \cup Saving(k)) \ {i} : submits'[j] = submits[j]
<1>2. /\ Reading(k)' = {j \in Submits : submits'[j].stage = "read" /\ submits'[j].match = k}
      /\ Reading(k) = {j \in Submits : submits[j].stage = "read" /\ submits[j].match = k}
      /\ Saving(k)' = {j \in Submits : submits'[j].stage = "saving" /\ submits'[j].match = k}
      /\ Saving(k) = {j \in Submits : submits[j].stage = "saving" /\ submits[j].match = k}
  BY DEF Reading, Saving, SubmitsOf, Submits
<1>3. /\ i \in Reading(k) <=> submits[i].stage = "read" /\ submits[i].match = k
      /\ i \in Saving(k) <=> submits[i].stage = "saving" /\ submits[i].match = k
  BY <1>2
<1>4. /\ submits'[i].stage = "read" /\ submits'[i].match = k => Reading(k)' = Reading(k) \cup {i}
      /\ submits'[i].stage # "read" \/ submits'[i].match # k => Reading(k)' = Reading(k) \ {i}
  BY <1>2
<1>5. /\ submits'[i].stage = "saving" /\ submits'[i].match = k => Saving(k)' = Saving(k) \cup {i}
      /\ submits'[i].stage # "saving" \/ submits'[i].match # k => Saving(k)' = Saving(k) \ {i}
  BY <1>2
<1>6. \A j \in (Reading(k) \cup Saving(k)) \ {i} : submits'[j] = submits[j]
  BY <1>2
<1> QED
  BY <1>3, <1>4, <1>5, <1>6

\* How many have only read.
LEMMA ReadersCounted ==
    ASSUME NEW m
    PROVE  /\ ToAnnounce(m) \in Nat /\ (ToAnnounce(m) = 0 <=> Reading(m) = {})
           /\ \A i : i \notin Reading(m) => Cardinality(Reading(m) \cup {i}) = ToAnnounce(m) + 1
           /\ \A i \in Reading(m) : Cardinality(Reading(m) \ {i}) = ToAnnounce(m) - 1
<1>1. MaxSubmits \in Nat
  BY MatchmakingAssumption
<1>2. IsFiniteSet(Submits)
  BY <1>1, FS_Interval DEF Submits
<1>3. Reading(m) \subseteq Submits
  BY DEF Reading, SubmitsOf
<1>4. IsFiniteSet(Reading(m))
  BY <1>2, <1>3, FS_Subset
<1>5. ToAnnounce(m) \in Nat /\ ToAnnounce(m) = Cardinality(Reading(m))
  BY <1>4, FS_CardinalityType DEF ToAnnounce
<1>6. Cardinality(Reading(m)) = 0 <=> Reading(m) = {}
  BY <1>4, FS_EmptySet
<1>7. ASSUME NEW i, i \notin Reading(m)
      PROVE  Cardinality(Reading(m) \cup {i}) = Cardinality(Reading(m)) + 1
  BY <1>4, <1>7, FS_AddElement
<1>8. ASSUME NEW i \in Reading(m)
      PROVE  Cardinality(Reading(m) \ {i}) = Cardinality(Reading(m)) - 1
  BY <1>4, FS_RemoveElement
<1> QED
  BY <1>5, <1>6, <1>7, <1>8

\* The submissions stay what they are when one of them moves on.
LEMMA SubmissionsKept ==
    ASSUME Submissions, NEW i \in Submits, NEW e \in SubmitEntry, submits' = [submits EXCEPT ![i] = e],
           DOMAIN matches' = DOMAIN matches,
           \A k \in DOMAIN matches : /\ matches'[k].player1 = matches[k].player1
                                     /\ matches'[k].player2 = matches[k].player2,
           e.stage # "idle" => e.match \in DOMAIN matches,
           e.stage = "read" => /\ e.seen.player1 = matches[e.match].player1
                               /\ e.seen.player2 = matches[e.match].player2
                               /\ e.seen.status # "COMPLETED"
    PROVE  Submissions'
<1>1. submits' \in [Submits -> SubmitEntry]
  BY DEF Submissions
<1>2. submits'[i] = e /\ \A j \in Submits \ {i} : submits'[j] = submits[j]
  BY DEF Submissions
<1>3. ASSUME NEW j \in Submits, submits'[j].stage # "idle"
      PROVE  submits'[j].match \in DOMAIN matches
  BY <1>2, <1>3 DEF Submissions
<1>4. ASSUME NEW j \in Submits, submits'[j].stage = "read"
      PROVE  /\ submits'[j].seen.player1 = matches'[submits'[j].match].player1
             /\ submits'[j].seen.player2 = matches'[submits'[j].match].player2
             /\ submits'[j].seen.status # "COMPLETED"
  <2>1. submits'[j].match \in DOMAIN matches
    BY <1>3, <1>4
  <2>2. CASE j = i
    BY <1>2, <1>4, <2>1, <2>2
  <2>3. CASE j # i
    BY <1>2, <1>4, <2>1, <2>3 DEF Submissions
  <2> QED
    BY <2>2, <2>3
<1> QED
  BY <1>1, <1>3, <1>4 DEF Submissions, Submits

\* The other matches see nothing of it.
LEMMA OthersSettle ==
    ASSUME ResultsInv, NEW i \in Submits, NEW m \in DOMAIN matches, NEW e,
           submits' = [submits EXCEPT ![i] = e],
           e.stage = "idle" \/ e.match = m, submits[i].stage = "idle" \/ submits[i].match = m,
           \A k \in DOMAIN matches \ {m} : /\ matches'[k] = matches[k]
                                           /\ completions'[k] = completions[k]
    PROVE  \A k \in DOMAIN matches \ {m} : Settles(k)'
<1> SUFFICES ASSUME NEW k \in DOMAIN matches, k # m PROVE Settles(k)'
  OBVIOUS
<1>1. Submissions /\ Settles(k)
  BY DEF ResultsInv
<1>2. /\ Reading(k)' = Reading(k) \ {i} /\ Saving(k)' = Saving(k) \ {i}
      /\ i \notin Reading(k) /\ i \notin Saving(k)
      /\ \A j \in (Reading(k) \cup Saving(k)) \ {i} : submits'[j] = submits[j]
  <2>1. submits'[i] = e /\ \A j \in Submits \ {i} : submits'[j] = submits[j]
    BY <1>1 DEF Submissions
  <2> QED
    BY <2>1, SlotMoves
<1>3. Reading(k)' = Reading(k) /\ Saving(k)' = Saving(k)
  BY <1>2
<1>4. \A j \in Reading(k) \cup Saving(k) : submits'[j] = submits[j]
  BY <1>2
<1>5. Announced(k)' <=> Announced(k)
  BY <1>3, <1>4 DEF Announced, Saving
<1>6. matches'[k] = matches[k] /\ completions'[k] = completions[k]
  OBVIOUS
<1>7. ToAnnounce(k)' = ToAnnounce(k)
  BY <1>3 DEF ToAnnounce
<1>8. (Excusable(k)' <=> Excusable(k)) /\ (OneAhead(k)' <=> OneAhead(k))
  BY <1>3, <1>4, <1>6, <1>7 DEF Excusable, OneAhead
<1>9. Calm(k)' <=> Calm(k)
  BY <1>3, <1>4, <1>5, <1>6 DEF Calm
<1> QED
  BY <1>1, <1>6, <1>8, <1>9 DEF Settles

\* What is left to show of a step of a submission: its own match.
LEMMA OwnMatch ==
    ASSUME ResultsInv, NEW i \in Submits, NEW m \in DOMAIN matches, NEW e \in SubmitEntry,
           submits' = [submits EXCEPT ![i] = e],
           e.stage = "idle" \/ e.match = m, submits[i].stage = "idle" \/ submits[i].match = m,
           e.stage = "read" => /\ e.seen.player1 = matches[m].player1
                               /\ e.seen.player2 = matches[m].player2
                               /\ e.seen.status # "COMPLETED",
           NEW row \in Match, row.player1 = matches[m].player1, row.player2 = matches[m].player2,
           NEW done \in Completion,
           matches' = [matches EXCEPT ![m] = row] \/ (matches' = matches /\ row = matches[m]),
           completions' = [completions EXCEPT ![m] = done],
           Settles(m)'
    PROVE  ResultsInv'
<1>1. MatchRows /\ Submissions
  BY DEF ResultsInv
<1>2. /\ MatchRows' /\ DOMAIN matches' = DOMAIN matches /\ matches'[m] = row
      /\ \A k \in DOMAIN matches \ {m} : /\ matches'[k] = matches[k]
                                         /\ completions'[k] = completions[k]
  BY <1>1, SubmissionWrites
<1>3. \A k \in DOMAIN matches \ {m} : Settles(k)'
  BY <1>2, OthersSettle
<1>4. \A k \in DOMAIN matches : /\ matches'[k].player1 = matches[k].player1
                                /\ matches'[k].player2 = matches[k].player2
  BY <1>2
<1>5. Submissions'
  BY <1>1, <1>2, <1>4, SubmissionsKept
<1> QED
  BY <1>2, <1>3, <1>5 DEF ResultsInv

\* The numbers of a match, and what the rest of the invariant says of it.
LEMMA MatchNumbers ==
    ASSUME ResultsInv, NEW m \in DOMAIN matches
    PROVE  /\ MatchRows /\ Submissions /\ Settles(m)
           /\ matches[m] \in Match /\ completions[m] \in Completion
           /\ completions[m].emitted \in Nat /\ completions[m].excuses \in Nat
           /\ ToAnnounce(m) \in Nat /\ DOMAIN completions = DOMAIN matches
<1>1. MatchRows /\ Submissions /\ Settles(m)
  BY DEF ResultsInv
<1>2. matches[m] \in Match /\ completions[m] \in Completion /\ DOMAIN completions = DOMAIN matches
  BY <1>1 DEF MatchRows
<1>3. completions[m].emitted \in Nat /\ completions[m].excuses \in Nat
  BY <1>2 DEF Completion
<1> QED
  BY <1>1, <1>2, <1>3, ReadersCounted

\* submitResult reads the match.
LEMMA ReadKeepsResults ==
    ASSUME ResultsInv, NEW i \in Submits, NEW m \in DOMAIN matches, NEW p \in Gamers,
           ReadMatch(m, p, i)
    PROVE  ResultsInv'
<1> DEFINE e == [stage |-> "read", match |-> m, player |-> p, seen |-> matches[m]]
           overlaps == IF SubmitsOf(m, "read") \cup SubmitsOf(m, "saving") = {} THEN 0 ELSE 1
           done == [completions[m] EXCEPT !.excuses = completions[m].excuses + overlaps]
<1>1. /\ MatchRows /\ Submissions /\ Settles(m)
      /\ matches[m] \in Match /\ completions[m] \in Completion
      /\ completions[m].emitted \in Nat /\ completions[m].excuses \in Nat
      /\ ToAnnounce(m) \in Nat /\ DOMAIN completions = DOMAIN matches
  BY MatchNumbers
<1>2. /\ submits[i] = NoSubmit /\ matches[m].status # "COMPLETED"
      /\ submits' = [submits EXCEPT ![i] = e] /\ matches' = matches
      /\ completions' = [completions EXCEPT ![m].excuses = @ + overlaps]
  BY DEF ReadMatch, Open
<1>3. e.stage = "read" /\ e.match = m /\ e.seen = matches[m] /\ submits[i].stage = "idle"
  BY <1>2 DEF NoSubmit
<1>4. e \in SubmitEntry
  <2>1. m \in Nat
    BY <1>1 DEF MatchRows
  <2> QED
    BY <1>1, <2>1 DEF SubmitEntry
<1>5. /\ overlaps \in {0, 1} /\ (overlaps = 0 <=> Reading(m) \cup Saving(m) = {})
  BY DEF Reading, Saving
<1>6. /\ done \in Completion /\ completions' = [completions EXCEPT ![m] = done]
      /\ done.emitted = completions[m].emitted
      /\ done.excuses = completions[m].excuses + overlaps
  <2>1. completions[m].excuses + overlaps \in Nat
    BY <1>1, <1>5
  <2> HIDE DEF overlaps
  <2> QED
    BY <1>1, <1>2, <2>1 DEF Completion
<1> HIDE DEF e, overlaps, done
<1>7. /\ submits'[i] = e /\ \A j \in Submits \ {i} : submits'[j] = submits[j]
      /\ Reading(m)' = Reading(m) \cup {i} /\ Saving(m)' = Saving(m)
      /\ i \notin Reading(m) \cup Saving(m)
  <2>1. submits'[i] = e /\ \A j \in Submits \ {i} : submits'[j] = submits[j]
    BY <1>1, <1>2 DEF Submissions
  <2>2. /\ Reading(m)' = Reading(m) \cup {i} /\ Saving(m)' = Saving(m) \ {i}
        /\ i \notin Reading(m) /\ i \notin Saving(m)
    BY <1>3, <2>1, SlotMoves
  <2> QED
    BY <2>1, <2>2
<1>8. ToAnnounce(m)' = ToAnnounce(m) + 1
  BY <1>7, ReadersCounted DEF ToAnnounce
<1>9. \A j \in Reading(m) \cup Saving(m) : submits'[j] = submits[j]
  BY <1>7 DEF Reading, Saving, SubmitsOf
<1>10. completions'[m] = done
  BY <1>1, <1>6
<1>11. ASSUME matches[m].player2 # NoPlayer
       PROVE  (Excusable(m)' \/ OneAhead(m)') /\ Calm(m)'
  <2>1. (Excusable(m) \/ OneAhead(m)) /\ Calm(m)
    BY <1>1, <1>11 DEF Settles
  <2>2. CASE overlaps = 0
    <3>1. Reading(m) = {} /\ Saving(m) = {}
      BY <1>5, <2>2
    <3>2. Excusable(m)
      BY <1>2, <2>1, <3>1 DEF OneAhead
    <3>3. completions'[m].emitted + ToAnnounce(m)' <= 1 + completions'[m].excuses
      BY <1>1, <1>6, <1>8, <1>10, <2>2, <3>2 DEF Excusable
    <3>4. OneAhead(m)'
      BY <1>7, <3>1, <3>3 DEF OneAhead
    <3>5. ~Announced(m) /\ ~Announced(m)'
      BY <1>7, <3>1 DEF Announced, Saving
    <3>6. completions'[m].emitted = completions[m].emitted
          /\ completions'[m].excuses = completions[m].excuses
      BY <1>1, <1>6, <1>10, <2>2
    <3>7. Calm(m)'
      BY <1>2, <1>3, <1>7, <2>1, <3>1, <3>5, <3>6 DEF Calm
    <3> QED
      BY <3>4, <3>7
  <2>3. CASE overlaps = 1
    <3>1. completions'[m].excuses = completions[m].excuses + 1
          /\ completions'[m].emitted = completions[m].emitted
      BY <1>6, <1>10, <2>3
    <3>2. Calm(m)'
      <4>1. completions'[m].excuses # 0
        BY <1>1, <3>1
      <4> QED
        BY <4>1 DEF Calm
    <3>3. ASSUME Excusable(m) PROVE Excusable(m)'
      BY <1>1, <1>8, <3>1, <3>3 DEF Excusable
    <3>4. ASSUME OneAhead(m) PROVE OneAhead(m)'
      <4>1. completions'[m].emitted + ToAnnounce(m)' <= 1 + completions'[m].excuses
        BY <1>1, <1>8, <3>1, <3>4 DEF OneAhead
      <4>2. Reading(m)' \cup Saving(m)' # {}
        BY <1>7
      <4>3. \A j \in Saving(m)' : /\ submits'[j].copy.status = "COMPLETED"
                                  /\ submits'[j].base.status = "COMPLETED" => matches'[m].status = "COMPLETED"
        BY <1>2, <1>7, <1>9, <3>4 DEF OneAhead
      <4> QED
        BY <4>1, <4>2, <4>3 DEF OneAhead
    <3> QED
      BY <2>1, <3>2, <3>3, <3>4
  <2> QED
    BY <1>5, <2>2, <2>3
<1>12. Settles(m)'
  BY <1>2, <1>11 DEF Settles
<1> QED
  BY <1>1, <1>2, <1>3, <1>4, <1>6, <1>12, OwnMatch

\* What a submission at stage read or saving is.
LEMMA EntryTyped ==
    ASSUME Submissions, NEW i \in Submits
    PROVE  /\ submits[i].stage \in {"idle", "read", "saving"}
           /\ submits[i].stage = "read" => submits[i].seen \in Match
           /\ submits[i].stage = "saving" => submits[i].copy \in Match /\ submits[i].base \in Match
           /\ submits[i].stage # "idle" => submits[i].match \in DOMAIN matches
<1>1. submits[i] \in SubmitEntry
  BY DEF Submissions
<1> QED
  BY <1>1 DEF SubmitEntry, Submissions
\* What a submission that has read will save, and whether it announces.
LEMMA AnnouncedByRead ==
    ASSUME MatchRows, Submissions, NEW i \in Submits, submits[i].stage = "read"
    PROVE  LET s == submits[i]
           IN  /\ s.match \in DOMAIN matches /\ Filled(s) \in Match /\ Announces(s) \in {0, 1}
               /\ matches[s.match].player2 # NoPlayer =>
                     /\ Announces(s) = 1 <=> Filled(s).status = "COMPLETED"
                     /\ Filled(s).status = "COMPLETED" <=> Filled(s).attempts1 /\ Filled(s).attempts2
<1> DEFINE s == submits[i]
<1>1. /\ s.match \in DOMAIN matches /\ s.seen \in Match
      /\ s.seen.player2 = matches[s.match].player2 /\ s.seen.status # "COMPLETED"
  BY EntryTyped DEF Submissions
<1> HIDE DEF s
<1>2. /\ Filled(s) \in Match
      /\ s.seen.player2 # NoPlayer =>
            /\ Completes(s) <=> Filled(s).attempts1 /\ Filled(s).attempts2
            /\ Filled(s).status = IF Completes(s) THEN "COMPLETED" ELSE s.seen.status
  BY <1>1, FilledMatch
<1>3. /\ Announces(s) \in {0, 1}
      /\ s.seen.player2 # NoPlayer => (Announces(s) = 1 <=> Completes(s))
  BY DEF Announces
<1>4. s.seen.player2 # NoPlayer => (Filled(s).status = "COMPLETED" <=> Completes(s))
  BY <1>1, <1>2
<1> QED
  BY <1>1, <1>2, <1>3, <1>4 DEF s

\* The event is emitted, and the row is read again.
LEMMA CompareKeepsResults ==
    ASSUME ResultsInv, NEW i \in Submits, NEW m, m = submits[i].match, CompareResult(i)
    PROVE  ResultsInv'
<1> DEFINE s == submits[i]
           copy == Filled(s)
           a == Announces(s)
           e == [stage |-> "saving", match |-> m, copy |-> copy, base |-> matches[m]]
           done == [completions[m] EXCEPT !.emitted = completions[m].emitted + a]
<1>1. /\ s.stage = "read" /\ submits' = [submits EXCEPT ![i] = e] /\ matches' = matches
      /\ completions' = [completions EXCEPT ![m].emitted = @ + a]
  BY DEF CompareResult
<1>2. /\ m \in DOMAIN matches /\ copy \in Match /\ a \in {0, 1}
      /\ matches[m].player2 # NoPlayer =>
            /\ a = 1 <=> copy.status = "COMPLETED"
            /\ copy.status = "COMPLETED" <=> copy.attempts1 /\ copy.attempts2
  BY <1>1, AnnouncedByRead DEF ResultsInv
<1>3. /\ MatchRows /\ Submissions /\ Settles(m)
      /\ matches[m] \in Match /\ completions[m] \in Completion
      /\ completions[m].emitted \in Nat /\ completions[m].excuses \in Nat
      /\ ToAnnounce(m) \in Nat /\ DOMAIN completions = DOMAIN matches
  BY <1>2, MatchNumbers
<1>4. e.stage = "saving" /\ e.match = m /\ e.copy = copy /\ e.base = matches[m]
  OBVIOUS
<1>5. e \in SubmitEntry
  <2>1. m \in Nat
    BY <1>2, <1>3 DEF MatchRows
  <2> HIDE DEF copy
  <2> QED
    BY <1>2, <1>3, <2>1 DEF SubmitEntry
<1> HIDE DEF a
<1>6. /\ done \in Completion /\ completions' = [completions EXCEPT ![m] = done]
      /\ done.emitted = completions[m].emitted + a /\ done.excuses = completions[m].excuses
  <2>1. completions[m].emitted + a \in Nat
    BY <1>2, <1>3
  <2> QED
    BY <1>1, <1>3, <2>1 DEF Completion
<1>7. submits[i].stage = "read" /\ submits[i].match = m /\ s = submits[i]
  BY <1>1
<1> HIDE DEF s, copy, e, done
<1>8. /\ submits'[i] = e /\ \A j \in Submits \ {i} : submits'[j] = submits[j]
      /\ Reading(m)' = Reading(m) \ {i} /\ Saving(m)' = Saving(m) \cup {i}
      /\ i \in Reading(m) /\ i \notin Saving(m)
  <2>1. submits'[i] = e /\ \A j \in Submits \ {i} : submits'[j] = submits[j]
    BY <1>1, <1>3 DEF Submissions
  <2> QED
    BY <1>4, <1>7, <2>1, SlotMoves
<1>9. ToAnnounce(m)' = ToAnnounce(m) - 1
  BY <1>8, ReadersCounted DEF ToAnnounce
<1>10. \A j \in Saving(m) : submits'[j] = submits[j]
  BY <1>8 DEF Saving, SubmitsOf
<1>11. completions'[m] = done
  BY <1>2, <1>3, <1>6
<1>12. ASSUME matches[m].player2 # NoPlayer
       PROVE  (Excusable(m)' \/ OneAhead(m)') /\ Calm(m)'
  <2>1. (Excusable(m) \/ OneAhead(m)) /\ Calm(m)
    BY <1>3, <1>12 DEF Settles
  <2>2. ASSUME Excusable(m) PROVE Excusable(m)'
    <3>1. completions'[m].emitted + ToAnnounce(m)' <= completions'[m].excuses
      BY <1>2, <1>3, <1>6, <1>9, <1>11, <2>2 DEF Excusable
    <3> QED
      BY <3>1 DEF Excusable
  <2>3. ASSUME OneAhead(m), a = 0 PROVE Excusable(m)'
    <3>1. completions[m].emitted + ToAnnounce(m) <= 1 + completions[m].excuses
      BY <2>3 DEF OneAhead
    <3>2. completions'[m].emitted + ToAnnounce(m)' <= completions'[m].excuses
      BY <1>3, <1>6, <1>9, <1>11, <2>3, <3>1
    <3> QED
      BY <3>2 DEF Excusable
  <2>4. ASSUME OneAhead(m), a = 1 PROVE OneAhead(m)'
    <3>1. completions[m].emitted + ToAnnounce(m) <= 1 + completions[m].excuses
      BY <2>4 DEF OneAhead
    <3>2. completions'[m].emitted + ToAnnounce(m)' <= 1 + completions'[m].excuses
      BY <1>3, <1>6, <1>9, <1>11, <2>4, <3>1
    <3>3. copy.status = "COMPLETED"
      BY <1>2, <1>12, <2>4
    <3>4. \A j \in Saving(m)' : /\ submits'[j].copy.status = "COMPLETED"
                                /\ submits'[j].base.status = "COMPLETED" => matches'[m].status = "COMPLETED"
      BY <1>1, <1>4, <1>8, <1>10, <2>4, <3>3 DEF OneAhead
    <3>5. Reading(m)' \cup Saving(m)' # {}
      BY <1>8
    <3> QED
      BY <3>2, <3>4, <3>5 DEF OneAhead
  <2>5. ASSUME completions'[m].excuses = 0
        PROVE  /\ \A j, k \in Reading(m)' \cup Saving(m)' : j = k
               /\ \A j \in Reading(m)' : submits'[j].seen = matches'[m]
               /\ \A j \in Saving(m)' :
                     /\ submits'[j].base = matches'[m] /\ matches'[m].status # "COMPLETED"
                     /\ submits'[j].copy.status = "COMPLETED"
                           <=> submits'[j].copy.attempts1 /\ submits'[j].copy.attempts2
               /\ completions'[m].emitted = IF matches'[m].status = "COMPLETED" \/ Announced(m)'
                                            THEN 1 ELSE 0
               /\ matches'[m].status = "COMPLETED" <=> matches'[m].attempts1 /\ matches'[m].attempts2
    <3>1. completions[m].excuses = 0
      BY <1>6, <1>11, <2>5
    <3>2. /\ \A j, k \in Reading(m) \cup Saving(m) : j = k
          /\ s.seen = matches[m]
          /\ completions[m].emitted = IF matches[m].status = "COMPLETED" \/ Announced(m) THEN 1 ELSE 0
          /\ matches[m].status = "COMPLETED" <=> matches[m].attempts1 /\ matches[m].attempts2
      BY <1>7, <1>8, <2>1, <3>1 DEF Calm
    <3>3. Saving(m) = {} /\ Reading(m) = {i}
      BY <1>8, <3>2
    <3>4. matches[m].status # "COMPLETED"
      BY <1>3, <1>7, <3>2 DEF Submissions
    <3>5. ~Announced(m)
      BY <3>3 DEF Announced, Saving
    <3>6. Reading(m)' = {} /\ Saving(m)' = {i}
      BY <1>8, <3>3
    <3>7. Announced(m)' <=> copy.status = "COMPLETED"
      BY <1>4, <1>8, <3>6 DEF Announced, Saving
    <3>8. completions'[m].emitted = a
      BY <1>2, <1>6, <1>11, <3>2, <3>4, <3>5
    <3>9. completions'[m].emitted = IF matches'[m].status = "COMPLETED" \/ Announced(m)' THEN 1 ELSE 0
      BY <1>1, <1>2, <1>12, <3>4, <3>7, <3>8
    <3>10. submits'[i].base = matches[m] /\ submits'[i].copy = copy
      BY <1>4, <1>8
    <3> QED
      BY <1>1, <1>2, <1>12, <3>2, <3>4, <3>6, <3>9, <3>10
  <2>6. Calm(m)'
    BY <2>5 DEF Calm
  <2> QED
    BY <1>2, <2>1, <2>2, <2>3, <2>4, <2>6
<1>13. Settles(m)'
  BY <1>1, <1>12 DEF Settles
<1> QED
  BY <1>1, <1>2, <1>3, <1>4, <1>5, <1>6, <1>7, <1>13, OwnMatch

\* The columns that differ are updated.
LEMMA SaveKeepsResults ==
    ASSUME ResultsInv, NEW i \in Submits, NEW m, m = submits[i].match, SaveResult(i)
    PROVE  ResultsInv'
<1> DEFINE s == submits[i]
           row == UpdatedRow(matches[m], s.base, s.copy)
<1>1. /\ s.stage = "saving" /\ submits' = [submits EXCEPT ![i] = NoSubmit]
      /\ matches' = [matches EXCEPT ![m] = row] /\ completions' = completions
  BY DEF SaveResult
<1>2. m \in DOMAIN matches /\ s.copy \in Match /\ s.base \in Match
  BY <1>1, EntryTyped DEF ResultsInv
<1>3. /\ MatchRows /\ Submissions /\ Settles(m)
      /\ matches[m] \in Match /\ completions[m] \in Completion
      /\ completions[m].emitted \in Nat /\ completions[m].excuses \in Nat
      /\ ToAnnounce(m) \in Nat /\ DOMAIN completions = DOMAIN matches
  BY <1>2, MatchNumbers
<1>4. NoSubmit \in SubmitEntry /\ NoSubmit.stage = "idle"
  BY DEF NoSubmit, SubmitEntry
<1>5. submits[i].stage = "saving" /\ submits[i].match = m /\ s = submits[i]
  BY <1>1
<1> HIDE DEF s
<1>6. /\ row \in Match /\ row.player1 = matches[m].player1 /\ row.player2 = matches[m].player2
      /\ row.status = IF s.copy.status = s.base.status THEN matches[m].status ELSE s.copy.status
      /\ row.attempts1 = IF s.copy.attempts1 = s.base.attempts1 THEN matches[m].attempts1
                                                                ELSE s.copy.attempts1
      /\ row.attempts2 = IF s.copy.attempts2 = s.base.attempts2 THEN matches[m].attempts2
                                                                ELSE s.copy.attempts2
  BY <1>2, <1>3, ZenonT(40) DEF UpdatedRow, Match
<1> HIDE DEF row
<1>7. /\ \A j \in Submits \ {i} : submits'[j] = submits[j]
      /\ Reading(m)' = Reading(m) /\ Saving(m)' = Saving(m) \ {i}
      /\ i \notin Reading(m) /\ i \in Saving(m)
  <2>1. submits'[i] = NoSubmit /\ \A j \in Submits \ {i} : submits'[j] = submits[j]
    BY <1>1, <1>3 DEF Submissions
  <2> QED
    BY <1>4, <1>5, <2>1, SlotMoves
<1>8. ToAnnounce(m)' = ToAnnounce(m)
  BY <1>7 DEF ToAnnounce
<1>9. \A j \in Reading(m)' \cup Saving(m)' : submits'[j] = submits[j]
  BY <1>7 DEF Reading, Saving, SubmitsOf
<1>10. completions'[m] = completions[m] /\ matches'[m] = row
  BY <1>1, <1>2
<1>11. ASSUME matches[m].player2 # NoPlayer
       PROVE  (Excusable(m)' \/ OneAhead(m)') /\ Calm(m)'
  <2>1. (Excusable(m) \/ OneAhead(m)) /\ Calm(m)
    BY <1>3, <1>11 DEF Settles
  <2>2. ASSUME Excusable(m) PROVE Excusable(m)'
    BY <1>8, <1>10, <2>2 DEF Excusable
  <2>3. ASSUME OneAhead(m) PROVE OneAhead(m)'
    <3>1. /\ s.copy.status = "COMPLETED"
          /\ s.base.status = "COMPLETED" => matches[m].status = "COMPLETED"
      BY <1>5, <1>7, <2>3 DEF OneAhead
    <3>2. row.status = "COMPLETED"
      BY <1>6, <3>1
    <3>3. \A j \in Saving(m)' : submits'[j].copy.status = "COMPLETED"
      BY <1>7, <1>9, <2>3 DEF OneAhead
    <3>4. completions'[m].emitted + ToAnnounce(m)' <= 1 + completions'[m].excuses
      BY <1>8, <1>10, <2>3 DEF OneAhead
    <3> QED
      BY <1>10, <3>2, <3>3, <3>4 DEF OneAhead
  <2>4. ASSUME completions'[m].excuses = 0
        PROVE  /\ Reading(m)' = {} /\ Saving(m)' = {}
               /\ completions'[m].emitted = IF matches'[m].status = "COMPLETED" \/ Announced(m)'
                                            THEN 1 ELSE 0
               /\ matches'[m].status = "COMPLETED" <=> matches'[m].attempts1 /\ matches'[m].attempts2
    <3>1. /\ \A j, k \in Reading(m) \cup Saving(m) : j = k
          /\ s.base = matches[m] /\ matches[m].status # "COMPLETED"
          /\ s.copy.status = "COMPLETED" <=> s.copy.attempts1 /\ s.copy.attempts2
          /\ completions[m].emitted = IF matches[m].status = "COMPLETED" \/ Announced(m) THEN 1 ELSE 0
      BY <1>5, <1>7, <1>10, <2>1, <2>4 DEF Calm
    <3>2. Reading(m) = {} /\ Saving(m) = {i}
      BY <1>7, <3>1
    <3>3. Reading(m)' = {} /\ Saving(m)' = {}
      BY <1>7, <3>2
    <3>4. Announced(m) <=> s.copy.status = "COMPLETED"
      BY <1>5, <3>2 DEF Announced, Saving
    <3>5. ~Announced(m)'
      BY <3>3 DEF Announced, Saving
    <3>6. /\ row.status = s.copy.status /\ row.attempts1 = s.copy.attempts1
          /\ row.attempts2 = s.copy.attempts2
      BY <1>6, <3>1
    <3> QED
      BY <1>10, <3>1, <3>3, <3>4, <3>5, <3>6
  <2>5. Calm(m)'
    BY <2>4 DEF Calm
  <2> QED
    BY <2>1, <2>2, <2>3, <2>5
<1>12. Settles(m)'
  BY <1>6, <1>10, <1>11 DEF Settles
<1>13. completions' = [completions EXCEPT ![m] = completions[m]]
  BY <1>1, <1>3 DEF MatchRows
<1> QED
  BY <1>1, <1>2, <1>3, <1>4, <1>5, <1>6, <1>12, <1>13, OwnMatch

\* A save that fails is an excuse, if its event is out.
LEMMA FailKeepsResults ==
    ASSUME ResultsInv, NEW i \in Submits, NEW m, m = submits[i].match, SaveFails(i)
    PROVE  ResultsInv'
<1> DEFINE s == submits[i]
<1>1. /\ s.stage # "idle" /\ submits' = [submits EXCEPT ![i] = NoSubmit] /\ matches' = matches
  BY DEF SaveFails
<1>2. m \in DOMAIN matches /\ s.stage \in {"read", "saving"}
  BY <1>1, EntryTyped DEF ResultsInv
<1>3. /\ MatchRows /\ Submissions /\ Settles(m)
      /\ matches[m] \in Match /\ completions[m] \in Completion
      /\ completions[m].emitted \in Nat /\ completions[m].excuses \in Nat
      /\ ToAnnounce(m) \in Nat /\ DOMAIN completions = DOMAIN matches
  BY <1>2, MatchNumbers
<1>4. NoSubmit \in SubmitEntry /\ NoSubmit.stage = "idle"
  BY DEF NoSubmit, SubmitEntry
<1>5. submits[i] = s /\ submits[i].match = m /\ i \in Reading(m) \cup Saving(m)
  BY <1>2 DEF Reading, Saving, SubmitsOf
<1>6. PICK a, b : /\ a \in {0, 1} /\ b \in {0, 1}
                  /\ completions' = [completions EXCEPT ![m] =
                        [emitted |-> completions[m].emitted + a, excuses |-> completions[m].excuses + b]]
                  /\ s.stage = "read" => a = b
                  /\ s.stage = "saving" =>
                        a = 0 /\ (matches[m].player2 # NoPlayer => (b = 1 <=> s.copy.status = "COMPLETED"))
  <2>1. CASE s.stage = "read"
    <3>1. Announces(s) \in {0, 1}
      BY <1>3, <2>1, AnnouncedByRead
    <3>2. completions' = [completions EXCEPT ![m] = [emitted |-> @.emitted + Announces(s),
                                                    excuses |-> @.excuses + Announces(s)]]
      BY <2>1 DEF SaveFails
    <3>3. s.stage # "saving"
      BY <2>1
    <3> HIDE DEF s
    <3>4. completions' = [completions EXCEPT ![m] =
             [emitted |-> completions[m].emitted + Announces(s),
              excuses |-> completions[m].excuses + Announces(s)]]
      BY <1>2, <1>3, <3>2
    <3> QED
      BY <3>1, <3>3, <3>4
  <2>2. CASE s.stage = "saving"
    <3> DEFINE missed == IF s.copy.status = "COMPLETED" THEN 1 ELSE 0
    <3>1. completions' = [completions EXCEPT ![m].excuses = @ + missed]
      BY <2>2 DEF SaveFails
    <3>2. missed \in {0, 1} /\ (missed = 1 <=> s.copy.status = "COMPLETED")
      OBVIOUS
    <3>3. s.stage # "read"
      BY <2>2
    <3> HIDE DEF s, missed
    <3>4. [completions[m] EXCEPT !.excuses = completions[m].excuses + missed]
            = [emitted |-> completions[m].emitted + 0, excuses |-> completions[m].excuses + missed]
      BY <1>3 DEF Completion
    <3>5. completions' = [completions EXCEPT ![m] =
             [completions[m] EXCEPT !.excuses = completions[m].excuses + missed]]
      BY <1>2, <1>3, <3>1
    <3>6. completions' = [completions EXCEPT ![m] =
             [emitted |-> completions[m].emitted + 0, excuses |-> completions[m].excuses + missed]]
      BY <3>4, <3>5
    <3> QED
      BY <3>2, <3>3, <3>6
  <2> QED
    BY <1>2, <2>1, <2>2
<1> DEFINE done == [emitted |-> completions[m].emitted + a, excuses |-> completions[m].excuses + b]
<1>7. /\ done \in Completion /\ completions' = [completions EXCEPT ![m] = done]
      /\ done.emitted = completions[m].emitted + a /\ done.excuses = completions[m].excuses + b
  BY <1>3, <1>6 DEF Completion
<1> HIDE DEF s, done
<1>8. /\ \A j \in Submits \ {i} : submits'[j] = submits[j]
      /\ Reading(m)' = Reading(m) \ {i} /\ Saving(m)' = Saving(m) \ {i}
  <2>1. submits'[i] = NoSubmit /\ \A j \in Submits \ {i} : submits'[j] = submits[j]
    BY <1>1, <1>3 DEF Submissions
  <2> QED
    BY <1>4, <2>1, SlotMoves
<1>9. \A j \in Reading(m)' \cup Saving(m)' : submits'[j] = submits[j]
  BY <1>8 DEF Reading, Saving, SubmitsOf
<1>10. completions'[m] = done
  BY <1>2, <1>3, <1>7
<1>11. /\ s.stage = "read" => ToAnnounce(m)' = ToAnnounce(m) - 1 /\ Saving(m)' = Saving(m)
       /\ s.stage = "saving" => ToAnnounce(m)' = ToAnnounce(m) /\ i \in Saving(m)
  <2>1. /\ s.stage = "read" => i \in Reading(m) /\ i \notin Saving(m)
        /\ s.stage = "saving" => i \in Saving(m) /\ i \notin Reading(m)
    BY <1>5 DEF Reading, Saving, SubmitsOf
  <2>2. i \in Reading(m) => ToAnnounce(m)' = ToAnnounce(m) - 1
    BY <1>8, ReadersCounted DEF ToAnnounce
  <2>3. i \notin Reading(m) => ToAnnounce(m)' = ToAnnounce(m)
    <3>1. i \notin Reading(m) => Reading(m)' = Reading(m)
      BY <1>8
    <3> QED
      BY <3>1 DEF ToAnnounce
  <2> QED
    BY <1>8, <2>1, <2>2, <2>3
<1>12. ASSUME matches[m].player2 # NoPlayer
       PROVE  (Excusable(m)' \/ OneAhead(m)') /\ Calm(m)'
  <2>1. (Excusable(m) \/ OneAhead(m)) /\ Calm(m)
    BY <1>3, <1>12 DEF Settles
  <2>2. completions[m].emitted + ToAnnounce(m) <= 1 + completions[m].excuses
    BY <1>3, <2>1 DEF Excusable, OneAhead
  <2>3. Excusable(m)'
    <3>1. CASE s.stage = "read"
      <4>1. completions'[m].emitted + ToAnnounce(m)' <= completions'[m].excuses
        BY <1>3, <1>6, <1>7, <1>10, <1>11, <2>2, <3>1
      <4> QED
        BY <4>1 DEF Excusable
    <3>2. CASE s.stage = "saving" /\ b = 1
      <4>1. completions'[m].emitted + ToAnnounce(m)' <= completions'[m].excuses
        BY <1>3, <1>6, <1>7, <1>10, <1>11, <2>2, <3>2
      <4> QED
        BY <4>1 DEF Excusable
    <3>3. CASE s.stage = "saving" /\ b = 0
      <4>1. ~OneAhead(m)
        BY <1>5, <1>6, <1>11, <1>12, <3>3 DEF OneAhead
      <4>2. completions[m].emitted + ToAnnounce(m) <= completions[m].excuses
        BY <2>1, <4>1 DEF Excusable
      <4>3. completions'[m].emitted + ToAnnounce(m)' <= completions'[m].excuses
        BY <1>3, <1>6, <1>7, <1>10, <1>11, <3>3, <4>2
      <4> QED
        BY <4>3 DEF Excusable
    <3> QED
      BY <1>2, <1>6, <3>1, <3>2, <3>3
  <2>4. ASSUME completions'[m].excuses = 0
        PROVE  /\ Reading(m)' = {} /\ Saving(m)' = {}
               /\ completions'[m].emitted = IF matches'[m].status = "COMPLETED" \/ Announced(m)'
                                            THEN 1 ELSE 0
               /\ matches'[m].status = "COMPLETED" <=> matches'[m].attempts1 /\ matches'[m].attempts2
    <3>1. completions[m].excuses = 0 /\ b = 0
      BY <1>3, <1>6, <1>7, <1>10, <2>4
    <3>2. a = 0
      BY <1>2, <1>6, <3>1
    <3>3. completions'[m].emitted = completions[m].emitted
      BY <1>3, <1>7, <1>10, <3>2
    <3>4. /\ \A j, k \in Reading(m) \cup Saving(m) : j = k
          /\ completions[m].emitted = IF matches[m].status = "COMPLETED" \/ Announced(m) THEN 1 ELSE 0
          /\ matches[m].status = "COMPLETED" <=> matches[m].attempts1 /\ matches[m].attempts2
      BY <2>1, <3>1 DEF Calm
    <3>5. Reading(m)' = {} /\ Saving(m)' = {}
      BY <1>5, <1>8, <3>4
    <3>6. ~Announced(m)'
      BY <3>5 DEF Announced, Saving
    <3>7. ~Announced(m)
      <4>1. Saving(m) = {} \/ (Saving(m) = {i} /\ s.stage = "saving")
        BY <1>2, <1>5, <3>4 DEF Saving, Reading, SubmitsOf
      <4>2. s.stage = "saving" => submits[i].copy.status # "COMPLETED"
        BY <1>5, <1>6, <1>12, <3>1
      <4> QED
        BY <4>1, <4>2 DEF Announced, Saving
    <3> QED
      BY <1>1, <3>3, <3>4, <3>5, <3>6, <3>7
  <2>5. Calm(m)'
    BY <2>4 DEF Calm
  <2> QED
    BY <2>3, <2>5
<1>13. Settles(m)'
  BY <1>1, <1>12 DEF Settles
<1> QED
  BY <1>1, <1>2, <1>3, <1>4, <1>5, <1>7, <1>13, OwnMatch

\* A restart is an excuse of the matches whose completion was being saved.
LEMMA RestartKeepsResults ==
    ASSUME ResultsInv, Restart
    PROVE  ResultsInv'
<1> DEFINE Lost(m) == IF Announced(m) THEN 1 ELSE 0
           Done(m) == [completions[m] EXCEPT !.excuses = completions[m].excuses + Lost(m)]
<1>1. /\ submits' = [i \in Submits |-> NoSubmit] /\ matches' = matches
      /\ completions' = [m \in DOMAIN completions |-> Done(m)]
  BY DEF Restart
<1>2. MatchRows /\ Submissions
  BY DEF ResultsInv
<1>3. \A m \in DOMAIN matches :
         /\ Lost(m) \in {0, 1} /\ (Lost(m) = 1 <=> Announced(m))
         /\ Done(m) \in Completion /\ Done(m).emitted = completions[m].emitted
         /\ Done(m).excuses = completions[m].excuses + Lost(m)
  <2> SUFFICES ASSUME NEW m \in DOMAIN matches
               PROVE  /\ Lost(m) \in {0, 1} /\ (Lost(m) = 1 <=> Announced(m))
                      /\ Done(m) \in Completion /\ Done(m).emitted = completions[m].emitted
                      /\ Done(m).excuses = completions[m].excuses + Lost(m)
    OBVIOUS
  <2>1. completions[m] \in Completion
    BY <1>2 DEF MatchRows
  <2>2. Lost(m) \in {0, 1} /\ (Lost(m) = 1 <=> Announced(m))
    OBVIOUS
  <2> HIDE DEF Lost
  <2> QED
    BY <2>1, <2>2 DEF Completion
<1> HIDE DEF Lost, Done
<1>4. DOMAIN completions = DOMAIN matches /\ DOMAIN matches = 1 .. Len(matches) /\ Len(matches) \in Nat
  BY <1>2 DEF MatchRows
<1>5. completions' \in Seq(Completion) /\ Len(completions') = Len(completions)
      /\ \A m \in DOMAIN matches : completions'[m] = Done(m)
  <2>1. completions' = [m \in 1 .. Len(matches) |-> Done(m)]
    BY <1>1, <1>4
  <2>2. \A m \in 1 .. Len(matches) : Done(m) \in Completion
    BY <1>3, <1>4
  <2>3. completions' \in Seq(Completion) /\ Len(completions') = Len(matches)
    BY <1>4, <2>1, <2>2
  <2> QED
    BY <1>2, <1>4, <2>1, <2>3 DEF MatchRows
<1>6. MatchRows'
  BY <1>1, <1>2, <1>5 DEF MatchRows
<1>7. Submissions'
  BY <1>1 DEF Submissions, SubmitEntry, NoSubmit, Submits
<1>8. ASSUME NEW m \in DOMAIN matches, matches[m].player2 # NoPlayer
      PROVE  (Excusable(m)' \/ OneAhead(m)') /\ Calm(m)'
  <2>1. /\ (Excusable(m) \/ OneAhead(m)) /\ Calm(m)
        /\ completions[m].emitted \in Nat /\ completions[m].excuses \in Nat
        /\ ToAnnounce(m) \in Nat
    BY <1>8, MatchNumbers DEF Settles
  <2>2. \A i \in Submits : submits'[i].stage = "idle"
    BY <1>1 DEF NoSubmit
  <2>3. /\ SubmitsOf(m, "read")' = {j \in Submits : submits'[j].stage = "read" /\ submits'[j].match = m}
        /\ SubmitsOf(m, "saving")' = {j \in Submits : submits'[j].stage = "saving" /\ submits'[j].match = m}
    BY DEF SubmitsOf, Submits
  <2>4. Reading(m)' = {} /\ Saving(m)' = {}
    BY <2>2, <2>3 DEF Reading, Saving
  <2>5. ToAnnounce(m)' = 0 /\ ~Announced(m)'
    BY <2>4, FS_EmptySet DEF ToAnnounce, Announced, Saving
  <2>6. /\ completions'[m].emitted = completions[m].emitted
        /\ completions'[m].excuses = completions[m].excuses + Lost(m)
        /\ Lost(m) \in {0, 1} /\ (Lost(m) = 1 <=> Announced(m))
    BY <1>3, <1>5
  <2>7. ASSUME Excusable(m) PROVE Excusable(m)'
    <3>1. completions[m].emitted + ToAnnounce(m) <= completions[m].excuses
      BY <2>7 DEF Excusable
    <3>2. completions'[m].emitted + ToAnnounce(m)' <= completions'[m].excuses
      BY <2>1, <2>5, <2>6, <3>1
    <3> QED
      BY <3>2 DEF Excusable
  <2>8. ASSUME OneAhead(m) PROVE Excusable(m)' \/ OneAhead(m)'
    <3>1. completions[m].emitted + ToAnnounce(m) <= 1 + completions[m].excuses
      BY <2>8 DEF OneAhead
    <3>2. CASE Announced(m) \/ Reading(m) # {}
      <4>1. ToAnnounce(m) = 0 <=> Reading(m) = {}
        BY ReadersCounted
      <4>2. completions'[m].emitted + ToAnnounce(m)' <= completions'[m].excuses
        BY <2>1, <2>5, <2>6, <3>1, <3>2, <4>1
      <4> QED
        BY <4>2 DEF Excusable
    <3>3. CASE ~Announced(m) /\ Reading(m) = {}
      <4>1. Saving(m) = {}
        BY <2>8, <3>3 DEF OneAhead, Announced, Saving
      <4>2. matches'[m].status = "COMPLETED"
        BY <1>1, <2>8, <3>3, <4>1 DEF OneAhead
      <4>3. completions'[m].emitted + ToAnnounce(m)' <= 1 + completions'[m].excuses
        BY <2>1, <2>5, <2>6, <3>1
      <4> QED
        BY <2>4, <4>2, <4>3 DEF OneAhead
    <3> QED
      BY <3>2, <3>3
  <2>9. ASSUME completions'[m].excuses = 0
        PROVE  /\ completions'[m].emitted = IF matches'[m].status = "COMPLETED" \/ Announced(m)'
                                            THEN 1 ELSE 0
               /\ matches'[m].status = "COMPLETED" <=> matches'[m].attempts1 /\ matches'[m].attempts2
    <3>1. completions[m].excuses = 0 /\ ~Announced(m)
      BY <2>1, <2>6, <2>9
    <3> QED
      BY <1>1, <2>1, <2>5, <2>6, <3>1 DEF Calm
  <2>10. Calm(m)'
    BY <2>4, <2>9 DEF Calm
  <2> QED
    BY <2>1, <2>7, <2>8, <2>10
<1>9. \A m \in DOMAIN matches : Settles(m)'
  BY <1>1, <1>8 DEF Settles
<1> QED
  BY <1>1, <1>6, <1>7, <1>9 DEF ResultsInv

\* A match begins with nothing announced and nothing to excuse.
LEMMA CreationKeepsResults ==
    ASSUME ResultsInv, QueueTypes, NEW c, CreateMatch(c)
    PROVE  ResultsInv'
<1>0. PICK n : n = Len(matches) + 1
  OBVIOUS
<1>1. /\ MatchRows' /\ DOMAIN matches' = DOMAIN matches \cup {n} /\ n \notin DOMAIN matches
      /\ \A m \in DOMAIN matches : matches'[m] = matches[m] /\ completions'[m] = completions[m]
      /\ matches'[n].status # "COMPLETED" /\ completions'[n] = [emitted |-> 0, excuses |-> 0]
      /\ ~(matches'[n].attempts1) /\ submits' = submits
  BY <1>0, CreatedMatch DEF ResultsInv, CreateMatch
<1>2. Submissions
  BY DEF ResultsInv
<1>3. Submissions'
  BY <1>1, <1>2 DEF Submissions, Submits
<1>4. \A k, t : SubmitsOf(k, t)' = SubmitsOf(k, t)
  BY <1>1 DEF SubmitsOf, Submits
<1>5. \A k : Reading(k)' = Reading(k) /\ Saving(k)' = Saving(k)
  BY <1>4 DEF Reading, Saving
<1>6. \A k : (Announced(k)' <=> Announced(k)) /\ ToAnnounce(k)' = ToAnnounce(k)
  BY <1>1, <1>5 DEF Announced, Saving, ToAnnounce
<1>7. ASSUME NEW k \in DOMAIN matches
      PROVE  Settles(k)'
  <2>1. Settles(k) /\ matches'[k] = matches[k] /\ completions'[k] = completions[k]
    BY <1>1 DEF ResultsInv
  <2>2. (Excusable(k)' <=> Excusable(k)) /\ (OneAhead(k)' <=> OneAhead(k))
    BY <1>1, <1>5, <1>6, <2>1 DEF Excusable, OneAhead
  <2>3. Calm(k)' <=> Calm(k)
    BY <1>1, <1>5, <1>6, <2>1 DEF Calm
  <2> QED
    BY <2>1, <2>2, <2>3 DEF Settles
<1>8. Settles(n)'
  <2>1. Reading(n) = {} /\ Saving(n) = {}
    BY <1>1, <1>2 DEF Reading, Saving, SubmitsOf, Submissions
  <2>2. ToAnnounce(n)' = 0 /\ ~Announced(n)' /\ Reading(n)' = {} /\ Saving(n)' = {}
    BY <1>5, <1>6, <2>1, FS_EmptySet DEF ToAnnounce, Announced, Saving
  <2>3. Excusable(n)'
    BY <1>1, <2>2 DEF Excusable
  <2>4. Calm(n)'
    BY <1>1, <2>2 DEF Calm
  <2> QED
    BY <2>3, <2>4 DEF Settles
<1> QED
  BY <1>1, <1>3, <1>7, <1>8 DEF ResultsInv

\* The invariant of matches and submissions holds in every reachable state.
LEMMA ResultsInvHolds == MatchmakingSpec => []ResultsInv
<1>1. MatchmakingInit => ResultsInv
  <2> SUFFICES ASSUME MatchmakingInit PROVE ResultsInv
    OBVIOUS
  <2>1. MatchRows /\ DOMAIN matches = {}
    BY DEF MatchmakingInit, MatchRows
  <2>2. Submissions
    BY DEF MatchmakingInit, Submissions, SubmitEntry, NoSubmit
  <2> QED
    BY <2>1, <2>2 DEF ResultsInv
<1>2. QueueInv /\ ResultsInv /\ [MatchmakingNext]_matchmakingVars => ResultsInv'
  <2> SUFFICES ASSUME QueueInv, ResultsInv, [MatchmakingNext]_matchmakingVars
               PROVE  ResultsInv'
    OBVIOUS
  <2>1. ASSUME NEW c \in creating, CreateMatch(c)
        PROVE  ResultsInv'
    BY <2>1, CreationKeepsResults DEF QueueInv
  <2>2. ASSUME UNCHANGED matchVars
        PROVE  ResultsInv'
    <3>1. MatchRows' /\ Submissions' /\ DOMAIN matches' = DOMAIN matches
      BY <2>2 DEF matchVars, ResultsInv, MatchRows, Submissions, Submits
    <3>2. ASSUME NEW m
          PROVE  Settles(m)' <=> Settles(m)
      <4>1. Reading(m)' = Reading(m) /\ Saving(m)' = Saving(m)
        BY <2>2 DEF matchVars, Reading, Saving, SubmitsOf, Submits
      <4>2. (Announced(m)' <=> Announced(m)) /\ ToAnnounce(m)' = ToAnnounce(m)
        BY <2>2, <4>1 DEF matchVars, Announced, Saving, ToAnnounce
      <4> QED
        BY <2>2, <4>1, <4>2 DEF matchVars, Settles, Excusable, OneAhead, Calm
    <3> QED
      BY <3>1, <3>2 DEF ResultsInv
  <2>3. ASSUME NEW p \in Gamers, EnqueueMatched(p) \/ EnqueueWaiting(p) \/ QueueTimeout(p)
        PROVE  ResultsInv'
    BY <2>2, <2>3 DEF EnqueueMatched, EnqueueWaiting, QueueTimeout
  <2>4. ASSUME NEW c \in creating, CreateFails(c)
        PROVE  ResultsInv'
    BY <2>2, <2>4 DEF CreateFails
  <2>5. ASSUME UNCHANGED matchmakingVars
        PROVE  ResultsInv'
    BY <2>2, <2>5 DEF matchmakingVars
  <2> QED
    BY <2>1, <2>3, <2>4, <2>5, ReadKeepsResults, CompareKeepsResults, SaveKeepsResults,
       FailKeepsResults, RestartKeepsResults DEF MatchmakingNext
<1> QED
  BY <1>1, <1>2, QueueInvHolds, PTL DEF MatchmakingSpec

\* A match of two is announced once, and once more at the most for each
\* submission that overlapped another and each save lost after the event; and
\* without any it is completed when both results are there, however many matches,
\* players and submissions there are (submitResult of MatchmakingService).
THEOREM MatchesCompleteOnce == MatchmakingSpec => []CompletesOnce
<1>1. ResultsInv => CompletesOnce
  <2> SUFFICES ASSUME ResultsInv, NEW m \in DOMAIN matches, matches[m].player2 # NoPlayer
               PROVE  /\ completions[m].emitted <= 1 + completions[m].excuses
                      /\ completions[m].excuses = 0 =>
                            /\ completions[m].emitted =
                                  IF matches[m].status = "COMPLETED" \/ Announced(m) THEN 1 ELSE 0
                            /\ matches[m].status = "COMPLETED"
                                  <=> matches[m].attempts1 /\ matches[m].attempts2
    BY DEF CompletesOnce
  <2>1. /\ (Excusable(m) \/ OneAhead(m)) /\ Calm(m)
        /\ completions[m].emitted \in Nat /\ completions[m].excuses \in Nat /\ ToAnnounce(m) \in Nat
    BY MatchNumbers DEF Settles
  <2>2. completions[m].emitted <= 1 + completions[m].excuses
    BY <2>1 DEF Excusable, OneAhead
  <2> QED
    BY <2>1, <2>2 DEF Calm
<1> QED
  BY <1>1, ResultsInvHolds, PTL

\* The queue, the timers, the creations in progress and the matches keep their
\* types.
THEOREM MatchmakingTyped == MatchmakingSpec => []MatchmakingTypeOK
<1>1. QueueInv /\ ResultsInv => MatchmakingTypeOK
  <2> SUFFICES ASSUME QueueInv, ResultsInv
               PROVE  MatchmakingTypeOK
    OBVIOUS
  <2>1. queue \in Seq(Gamers) /\ creating \subseteq Gamers \X (Gamers \cup {NoPlayer})
    BY DEF QueueInv, QueueTypes
  <2>2. timers \subseteq Gamers
    BY <2>1 DEF QueueInv, TimersFollowQueue, Waiting
  <2>3. matches \in Seq(Match) /\ Len(completions) = Len(matches)
    BY DEF ResultsInv, MatchRows
  <2>4. ASSUME NEW m \in DOMAIN matches
        PROVE  matches[m].status \in {"ACTIVE", "SOLO", "COMPLETED"}
    <3>1. matches[m] \in Match
      BY <2>3
    <3> QED
      BY <3>1 DEF Match
  <2> QED
    BY <2>1, <2>2, <2>3, <2>4 DEF MatchmakingTypeOK
<1> QED
  BY <1>1, QueueInvHolds, ResultsInvHolds, PTL

-----------------------------------------------------------------------------
(* What becomes of a join *)

InQueue(p) == {i \in DOMAIN queue : queue[i] = p}
Matched(p) == {m \in DOMAIN matches : p \in {matches[m].player1, matches[m].player2}}

JoinsInv ==
    /\ joins \in [Gamers -> Nat] /\ dropped \in [Gamers -> Nat]
    /\ JoinsAccounted

\* A player waits once or not at all.
LEMMA WaitsOnce ==
    ASSUME NEW q, Distinct(q), NEW p
    PROVE  Cardinality({i \in DOMAIN q : q[i] = p}) = IF p \in {q[i] : i \in DOMAIN q} THEN 1 ELSE 0
<1>1. CASE p \in {q[i] : i \in DOMAIN q}
  <2>1. PICK k \in DOMAIN q : q[k] = p
    BY <1>1
  <2>2. {i \in DOMAIN q : q[i] = p} = {k}
    BY <2>1 DEF Distinct
  <2> QED
    BY <1>1, <2>2, FS_Singleton
<1>2. CASE p \notin {q[i] : i \in DOMAIN q}
  <2>1. {i \in DOMAIN q : q[i] = p} = {}
    BY <1>2
  <2> QED
    BY <1>2, <2>1, FS_EmptySet
<1> QED
  BY <1>1, <1>2

\* One match more or less among those being created.
Plays(p, c) == p \in {c[1], c[2]}

\* One more pair counts once for each of its players.
LEMMA CountOne ==
    ASSUME NEW S, IsFiniteSet(S), NEW x, x \notin S, NEW U, U = S \cup {x}, NEW p
    PROVE  /\ Count(p, S) \in Nat
           /\ (Plays(p, x) => Count(p, U) = Count(p, S) + 1)
           /\ (~Plays(p, x) => Count(p, U) = Count(p, S))
<1> DEFINE T == {y \in S : p \in {y[1], y[2]}}
<1>1. IsFiniteSet(T) /\ Cardinality(T) \in Nat /\ x \notin T
  BY FS_Subset, FS_CardinalityType
<1>2. CASE Plays(p, x)
  <2>1. {y \in U : p \in {y[1], y[2]}} = T \cup {x}
    BY <1>2 DEF Plays
  <2> HIDE DEF T
  <2>2. Cardinality(T \cup {x}) = Cardinality(T) + 1
    BY <1>1, FS_AddElement
  <2> QED
    BY <1>1, <1>2, <2>1, <2>2 DEF Count, T
<1>3. CASE ~Plays(p, x)
  <2>1. {y \in U : p \in {y[1], y[2]}} = T
    BY <1>3 DEF Plays
  <2>2. Count(p, S) = Cardinality(T) /\ Count(p, U) = Cardinality(T)
    BY <2>1, Zenon DEF Count
  <2> HIDE DEF T
  <2> QED
    BY <1>1, <1>3, <2>2
<1> QED
  BY <1>2, <1>3

\* Count of no pair and of one.
LEMMA CountNoneOrOne ==
    ASSUME NEW x, NEW p
    PROVE  Count(p, {}) = 0 /\ Count(p, {x}) = IF Plays(p, x) THEN 1 ELSE 0
<1>1. /\ {y \in {} : p \in {y[1], y[2]}} = {}
      /\ {y \in {x} : p \in {y[1], y[2]}} = IF Plays(p, x) THEN {x} ELSE {}
  BY DEF Plays
<1>2. Cardinality({x}) = 1 /\ Cardinality({}) = 0
  BY FS_Singleton, FS_EmptySet
<1> QED
  BY <1>1, <1>2 DEF Count

\* CountOne, for a pair given by its players.
LEMMA CountPair ==
    ASSUME NEW S, IsFiniteSet(S), NEW a, NEW b, <<a, b>> \notin S,
           NEW U, U = S \cup {<<a, b>>}, NEW p
    PROVE  /\ Count(p, S) \in Nat
           /\ p \in {a, b} => Count(p, U) = Count(p, S) + 1
           /\ p \notin {a, b} => Count(p, U) = Count(p, S)
<1>1. PICK x : x = <<a, b>>
  OBVIOUS
<1>2. (Plays(p, x) <=> p \in {a, b}) /\ x \notin S /\ U = S \cup {x}
  BY <1>1 DEF Plays
<1>3. /\ Count(p, S) \in Nat
      /\ Plays(p, x) => Count(p, U) = Count(p, S) + 1
      /\ ~Plays(p, x) => Count(p, U) = Count(p, S)
  BY <1>2, CountOne
<1> QED
  BY <1>2, <1>3

\* The matches of a player are finitely many.
LEMMA MatchedFinite ==
    ASSUME MatchRows, NEW p
    PROVE  IsFiniteSet(Matched(p)) /\ Cardinality(Matched(p)) \in Nat
<1>1. Matched(p) \subseteq 1 .. Len(matches) /\ Len(matches) \in Nat
  BY DEF Matched, MatchRows
<1>2. IsFiniteSet(1 .. Len(matches))
  BY <1>1, FS_Interval
<1> QED
  BY <1>1, <1>2, FS_Subset, FS_CardinalityType

\* The terms of the account of a player.
LEMMA JoinsAccount ==
    ASSUME QueueInv, MatchRows, JoinsInv, NEW p \in Gamers
    PROVE  /\ joins[p] \in Nat /\ dropped[p] \in Nat /\ Count(p, creating) \in Nat
           /\ Cardinality(Matched(p)) \in Nat
           /\ Cardinality(InQueue(p)) = IF p \in Waiting THEN 1 ELSE 0
           /\ joins[p] = Cardinality(InQueue(p)) + Count(p, creating) + dropped[p]
                         + Cardinality(Matched(p))
<1>1. Cardinality(InQueue(p)) = IF p \in Waiting THEN 1 ELSE 0
  BY WaitsOnce DEF QueueInv, QueueTypes, InQueue, Waiting
<1>2. Count(p, creating) \in Nat
  <2>1. {x \in creating : p \in {x[1], x[2]}} \subseteq creating /\ IsFiniteSet(creating)
    BY DEF QueueInv, QueueTypes
  <2> QED
    BY <2>1, FS_Subset, FS_CardinalityType DEF Count
<1> QED
  BY <1>1, <1>2, MatchedFinite DEF JoinsInv, JoinsAccounted, InQueue, Matched

\* The account of one player is settled by what changes its terms.
LEMMA JoinsSettled ==
    ASSUME QueueInv, QueueInv', MatchRows, JoinsInv,
           joins' \in [Gamers -> Nat], dropped' \in [Gamers -> Nat],
           \A p \in Gamers :
              joins'[p] = (IF p \in Waiting' THEN 1 ELSE 0) + Count(p, creating') + dropped'[p]
                          + Cardinality(Matched(p)')
    PROVE  JoinsInv'
<1>1. ASSUME NEW p \in Gamers
      PROVE  Cardinality(InQueue(p)') = IF p \in Waiting' THEN 1 ELSE 0
  <2>1. PICK q : q = queue'
    OBVIOUS
  <2>2. Distinct(q)
    BY <2>1 DEF QueueInv, QueueTypes
  <2> QED
    BY <2>1, <2>2, WaitsOnce DEF InQueue, Waiting
<1> QED
  BY <1>1 DEF JoinsInv, JoinsAccounted, InQueue, Matched

\* Arrivals, timeouts and restarts.
LEMMA QueueKeepsJoins ==
    ASSUME QueueInv, QueueInv', MatchRows, JoinsInv,
           \/ \E p \in Gamers : EnqueueMatched(p) \/ EnqueueWaiting(p) \/ QueueTimeout(p)
           \/ Restart
    PROVE  JoinsInv'
<1>1. Matched(1)' = Matched(1) /\ \A p : Matched(p)' = Matched(p)
  BY DEF EnqueueMatched, EnqueueWaiting, QueueTimeout, Restart, matchVars, Matched
<1>2. /\ joins \in [Gamers -> Nat] /\ dropped \in [Gamers -> Nat] /\ IsFiniteSet(creating)
      /\ queue \in Seq(Gamers) /\ timers = Waiting
  BY DEF JoinsInv, QueueInv, QueueTypes, TimersFollowQueue
<1>3. \A q \in Gamers : /\ joins[q] \in Nat /\ dropped[q] \in Nat /\ Count(q, creating) \in Nat
                        /\ Cardinality(Matched(q)) \in Nat
                        /\ joins[q] = (IF q \in Waiting THEN 1 ELSE 0) + Count(q, creating)
                                      + dropped[q] + Cardinality(Matched(q))
  BY JoinsAccount
<1>4. ASSUME NEW p \in Gamers, EnqueueMatched(p)
      PROVE  JoinsInv'
  <2>1. PICK i \in Opponents(p) :
            /\ queue' = Without(queue, queue[i]) /\ creating' = creating \cup {<<queue[i], p>>}
            /\ <<queue[i], p>> \notin creating
    BY <1>4 DEF EnqueueMatched, LeaveQueue
  <2>2. /\ p \notin Waiting /\ joins' = [joins EXCEPT ![p] = @ + 1] /\ dropped' = dropped
    BY <1>4 DEF EnqueueMatched, Joined
  <2>3. queue[i] # p /\ queue[i] \in Waiting
    BY <2>1 DEF Opponents, Waiting
  <2>4. Waiting' = Waiting \ {queue[i]}
    BY <2>1, PlayerLeaves DEF QueueInv
  <2>5. \A q \in Gamers :
            /\ q \in {queue[i], p} => Count(q, creating') = Count(q, creating) + 1
            /\ q \notin {queue[i], p} => Count(q, creating') = Count(q, creating)
    <3>1. PICK o : o = queue[i]
      OBVIOUS
    <3>2. <<o, p>> \notin creating /\ creating' = creating \cup {<<o, p>>}
      BY <2>1, <3>1
    <3>3. \A q \in Gamers :
              /\ q \in {o, p} => Count(q, creating') = Count(q, creating) + 1
              /\ q \notin {o, p} => Count(q, creating') = Count(q, creating)
      BY <1>2, <3>2, CountPair
    <3> QED
      BY <3>1, <3>3
  <2>6. /\ joins' \in [Gamers -> Nat] /\ joins'[p] = joins[p] + 1
        /\ \A q \in Gamers \ {p} : joins'[q] = joins[q]
    BY <1>2, <1>3, <2>2
  <2>7. ASSUME NEW q \in Gamers
        PROVE  joins'[q] = (IF q \in Waiting' THEN 1 ELSE 0) + Count(q, creating') + dropped'[q]
                           + Cardinality(Matched(q)')
    <3>1. CASE q = p
      BY <1>1, <1>3, <2>2, <2>3, <2>4, <2>5, <2>6, <3>1
    <3>2. CASE q = queue[i]
      BY <1>1, <1>3, <2>2, <2>3, <2>4, <2>5, <2>6, <3>2
    <3>3. CASE q # p /\ q # queue[i]
      BY <1>1, <1>3, <2>2, <2>3, <2>4, <2>5, <2>6, <3>3
    <3> QED
      BY <3>1, <3>2, <3>3
  <2> QED
    BY <1>2, <2>2, <2>6, <2>7, JoinsSettled
<1>5. ASSUME NEW p \in Gamers, EnqueueWaiting(p)
      PROVE  JoinsInv'
  <2>1. /\ Waiting' = Waiting \cup {p} /\ p \notin Waiting /\ creating' = creating
        /\ dropped' = dropped /\ joins' = [joins EXCEPT ![p] = @ + 1]
    BY <1>5, JoiningQueue DEF EnqueueWaiting, Joined
  <2>2. /\ joins' \in [Gamers -> Nat] /\ joins'[p] = joins[p] + 1
        /\ \A q \in Gamers \ {p} : joins'[q] = joins[q]
    BY <1>2, <1>3, <2>1
  <2>3. ASSUME NEW q \in Gamers
        PROVE  joins'[q] = (IF q \in Waiting' THEN 1 ELSE 0) + Count(q, creating') + dropped'[q]
                           + Cardinality(Matched(q)')
    <3>1. CASE q = p
      BY <1>1, <1>3, <2>1, <2>2, <3>1
    <3>2. CASE q # p
      BY <1>1, <1>3, <2>1, <2>2, <3>2
    <3> QED
      BY <3>1, <3>2
  <2> QED
    BY <1>2, <2>1, <2>2, <2>3, JoinsSettled
<1>6. ASSUME NEW p \in Gamers, QueueTimeout(p)
      PROVE  JoinsInv'
  <2>1. /\ p \in Waiting /\ queue' = Without(queue, p) /\ dropped' = dropped /\ joins' = joins
        /\ creating' = creating \cup {<<p, NoPlayer>>} /\ <<p, NoPlayer>> \notin creating
    BY <1>2, <1>6 DEF QueueTimeout
  <2>2. Waiting' = Waiting \ {p}
    BY <2>1, PlayerLeaves DEF QueueInv
  <2>3. \A q \in Gamers :
            /\ q \in {p, NoPlayer} => Count(q, creating') = Count(q, creating) + 1
            /\ q \notin {p, NoPlayer} => Count(q, creating') = Count(q, creating)
    BY <1>2, <2>1, CountPair
  <2>4. ASSUME NEW q \in Gamers
        PROVE  joins'[q] = (IF q \in Waiting' THEN 1 ELSE 0) + Count(q, creating') + dropped'[q]
                           + Cardinality(Matched(q)')
    <3>1. CASE q = p
      <4>1. Count(q, creating') = Count(q, creating) + 1 /\ q \in Waiting /\ q \notin Waiting'
        BY <2>1, <2>2, <2>3, <3>1
      <4> QED
        BY <1>1, <1>3, <2>1, <4>1
    <3>2. CASE q # p
      <4>1. Count(q, creating') = Count(q, creating) /\ (q \in Waiting <=> q \in Waiting')
        BY <2>2, <2>3, <3>2, MatchmakingAssumption
      <4> QED
        BY <1>1, <1>3, <2>1, <4>1
    <3> QED
      BY <3>1, <3>2
  <2> QED
    BY <1>2, <2>1, <2>4, JoinsSettled
<1>7. ASSUME Restart
      PROVE  JoinsInv'
  <2>1. /\ joins' = joins /\ queue' = << >> /\ creating' = {}
        /\ dropped' = [p \in Gamers |-> dropped[p] + Count(p, creating)
                                           + IF p \in Waiting THEN 1 ELSE 0]
    BY <1>7 DEF Restart
  <2>2. Waiting' = {} /\ dropped' \in [Gamers -> Nat]
    BY <1>3, <2>1 DEF Waiting
  <2>3. \A q : Count(q, {}) = 0
    BY FS_EmptySet DEF Count
  <2>4. ASSUME NEW q \in Gamers
        PROVE  joins'[q] = (IF q \in Waiting' THEN 1 ELSE 0) + Count(q, creating') + dropped'[q]
                           + Cardinality(Matched(q)')
    <3>1. dropped'[q] = dropped[q] + Count(q, creating) + IF q \in Waiting THEN 1 ELSE 0
      BY <2>1
    <3> QED
      BY <1>1, <1>3, <2>1, <2>2, <2>3, <3>1
  <2> QED
    BY <1>2, <2>1, <2>2, <2>4, JoinsSettled
<1> QED
  BY <1>4, <1>5, <1>6, <1>7

\* Creations, which end in a row or in a failure.
LEMMA CreationKeepsJoins ==
    ASSUME QueueInv, QueueInv', MatchRows, JoinsInv, NEW c \in creating, CreateMatch(c) \/ CreateFails(c)
    PROVE  JoinsInv'
<1> DEFINE rest == creating \ {c}
           share(q) == IF Plays(q, c) THEN 1 ELSE 0
<1>1. /\ joins \in [Gamers -> Nat] /\ dropped \in [Gamers -> Nat]
      /\ joins' = joins /\ queue' = queue /\ creating' = rest
  BY DEF JoinsInv, CreateMatch, CreateFails
<1>2. \A q \in Gamers : /\ joins[q] \in Nat /\ dropped[q] \in Nat
                        /\ Cardinality(Matched(q)) \in Nat /\ IsFiniteSet(Matched(q))
                        /\ joins[q] = (IF q \in Waiting THEN 1 ELSE 0) + Count(q, creating)
                                      + dropped[q] + Cardinality(Matched(q))
  BY JoinsAccount, MatchedFinite
<1>3. \A q \in Gamers : /\ Count(q, rest) \in Nat /\ Count(q, {c}) = share(q)
                        /\ Count(q, creating) = Count(q, rest) + share(q)
  <2>1. IsFiniteSet(rest) /\ c \notin rest /\ rest \cup {c} = creating
    BY FS_RemoveElement DEF QueueInv, QueueTypes
  <2> HIDE DEF rest
  <2>2. \A q \in Gamers :
            /\ Count(q, rest) \in Nat
            /\ Count(q, {c}) = IF Plays(q, c) THEN 1 ELSE 0
            /\ Plays(q, c) => Count(q, creating) = Count(q, rest) + 1
            /\ ~Plays(q, c) => Count(q, creating) = Count(q, rest)
    <3> TAKE q \in Gamers
    <3>1. Count(q, rest) \in Nat /\ Count(q, {c}) = IF Plays(q, c) THEN 1 ELSE 0
      BY <2>1, CountOne, CountNoneOrOne
    <3>2. /\ Plays(q, c) => Count(q, creating) = Count(q, rest) + 1
          /\ ~Plays(q, c) => Count(q, creating) = Count(q, rest)
      BY <2>1, CountOne
    <3> QED
      BY <3>1, <3>2
  <2> QED
    BY <2>1, <2>2
<1>4. Waiting' = Waiting /\ \A q : share(q) \in {0, 1}
  BY <1>1 DEF Waiting
<1>5. CASE CreateMatch(c)
  <2> DEFINE n == Len(matches) + 1
  <2>1. /\ DOMAIN matches' = DOMAIN matches \cup {n} /\ n \notin DOMAIN matches
        /\ \A m \in DOMAIN matches : matches'[m] = matches[m]
        /\ matches'[n].player1 = c[1] /\ matches'[n].player2 = c[2] /\ dropped' = dropped
    BY <1>5, CreatedMatch DEF QueueInv, CreateMatch
  <2> HIDE DEF n, share, rest
  <2>2. \A q : Matched(q)' = IF Plays(q, c) THEN Matched(q) \cup {n} ELSE Matched(q)
    BY <2>1 DEF Matched, Plays
  <2>3. ASSUME NEW q \in Gamers
        PROVE  Cardinality(Matched(q)') = Cardinality(Matched(q)) + share(q)
    <3>1. n \notin Matched(q) /\ IsFiniteSet(Matched(q))
      BY <1>2, <2>1 DEF Matched
    <3> QED
      BY <1>2, <2>2, <3>1, FS_AddElement DEF share
  <2>4. ASSUME NEW q \in Gamers
        PROVE  joins'[q] = (IF q \in Waiting' THEN 1 ELSE 0) + Count(q, creating') + dropped'[q]
                           + Cardinality(Matched(q)')
    BY <1>1, <1>2, <1>3, <1>4, <2>1, <2>3
  <2> QED
    BY <1>1, <2>1, <2>4, JoinsSettled
<1>6. CASE CreateFails(c)
  <2>1. matches' = matches /\ dropped' = [q \in Gamers |-> dropped[q] + Count(q, {c})]
    BY <1>6 DEF CreateFails, matchVars
  <2> HIDE DEF rest, share
  <2>2. \A q \in Gamers : Matched(q)' = Matched(q) /\ dropped'[q] = dropped[q] + share(q)
    BY <1>3, <2>1 DEF Matched
  <2>3. dropped' \in [Gamers -> Nat]
    BY <1>2, <1>4, <2>1, <2>2
  <2>4. ASSUME NEW q \in Gamers
        PROVE  joins'[q] = (IF q \in Waiting' THEN 1 ELSE 0) + Count(q, creating') + dropped'[q]
                           + Cardinality(Matched(q)')
    BY <1>1, <1>2, <1>3, <1>4, <2>2
  <2> QED
    BY <1>1, <2>3, <2>4, JoinsSettled
<1> QED
  BY <1>5, <1>6

\* Whatever the order of arrivals, timeouts, creations and restarts, every join
\* is waiting, being paired, in a match or dropped; timers are pending exactly
\* for the players who wait; and nobody waits beside a player who would suit
\* (enqueue, findOpponent and onQueueTimeout of MatchmakingService).
THEOREM NobodyIsStranded == MatchmakingSpec => []NobodyStranded
<1>1. MatchmakingInit => JoinsInv
  <2> SUFFICES ASSUME MatchmakingInit
               PROVE  JoinsInv
    OBVIOUS
  <2>1. \A p : /\ {i \in DOMAIN queue : queue[i] = p} = {}
               /\ {x \in creating : p \in {x[1], x[2]}} = {}
               /\ {m \in DOMAIN matches : p \in {matches[m].player1, matches[m].player2}} = {}
    BY DEF MatchmakingInit
  <2>2. Cardinality({}) = 0
    BY FS_EmptySet
  <2> QED
    BY <2>1, <2>2 DEF MatchmakingInit, JoinsInv, JoinsAccounted, Count
<1>2. QueueInv /\ QueueInv' /\ ResultsInv /\ JoinsInv /\ [MatchmakingNext]_matchmakingVars => JoinsInv'
  <2> SUFFICES ASSUME QueueInv, QueueInv', ResultsInv, JoinsInv, [MatchmakingNext]_matchmakingVars
               PROVE  JoinsInv'
    OBVIOUS
  <2>1. MatchRows /\ Submissions
    BY DEF ResultsInv
  <2>2. ASSUME UNCHANGED queueVars, DOMAIN matches' = DOMAIN matches,
               \A m \in DOMAIN matches : /\ matches'[m].player1 = matches[m].player1
                                         /\ matches'[m].player2 = matches[m].player2
        PROVE  JoinsInv'
    BY <2>2 DEF queueVars, JoinsInv, JoinsAccounted
  <2>3. ASSUME NEW i \in Submits, SaveResult(i)
        PROVE  JoinsInv'
    <3> DEFINE m == submits[i].match
               row == UpdatedRow(matches[m], submits[i].base, submits[i].copy)
    <3>1. m \in DOMAIN matches /\ matches[m] \in Match
      BY <2>1, <2>3 DEF SaveResult, Submissions, MatchRows
    <3>2. row.player1 = matches[m].player1 /\ row.player2 = matches[m].player2
      BY <3>1 DEF UpdatedRow, Match
    <3>3. UNCHANGED queueVars /\ matches' = [matches EXCEPT ![m] = row]
      BY <2>3 DEF SaveResult
    <3> HIDE DEF m, row
    <3> QED
      BY <2>1, <2>2, <3>1, <3>2, <3>3 DEF MatchRows
  <2>4. ASSUME NEW i \in Submits, CompareResult(i) \/ SaveFails(i)
        PROVE  JoinsInv'
    BY <2>2, <2>4 DEF CompareResult, SaveFails
  <2>5. ASSUME NEW i \in Submits, NEW m \in DOMAIN matches, NEW p \in Gamers, ReadMatch(m, p, i)
        PROVE  JoinsInv'
    BY <2>2, <2>5 DEF ReadMatch
  <2>6. ASSUME UNCHANGED matchmakingVars
        PROVE  JoinsInv'
    BY <2>2, <2>6 DEF matchmakingVars, matchVars
  <2> QED
    BY <2>1, <2>3, <2>4, <2>5, <2>6, QueueKeepsJoins, CreationKeepsJoins DEF MatchmakingNext
<1>3. QueueInv /\ JoinsInv => NobodyStranded
  BY DEF QueueInv, JoinsInv, NobodyStranded
<1> QED
  BY <1>1, <1>2, <1>3, QueueInvHolds, ResultsInvHolds, PTL DEF MatchmakingSpec
-----------------------------------------------------------------------------
(* The backend as a whole: what is proved of a part holds beside the others *)

\* A step of the whole is, for each part, one of its own or a stutter.
LEMMA PartsMoveAlone ==
    ASSUME [MCNext]_allVars
    PROVE  /\ [TokensNext]_tokenVars /\ [LockoutStep]_lockVars /\ [ResetNext]_resetVars
           /\ [SessionsNext]_sessionVars /\ [MatchmakingNext]_matchmakingVars
           /\ [SuggestionsNext]_suggestionVars
<1>1. CASE MCNext
  BY <1>1 DEF MCNext, Moves
<1>2. CASE UNCHANGED allVars
  BY <1>2 DEF allVars
<1> QED
  BY <1>1, <1>2

\* A behaviour of the whole is one of each part.
LEMMA PartsBehave ==
    MCSpec => /\ TokensSpec /\ LockoutSpec /\ ResetSpec
              /\ SessionsSpec /\ MatchmakingSpec /\ SuggestionsSpec
<1>1. MCInit => /\ TokensInit /\ LockoutInit /\ ResetInit
                /\ SessionsInit /\ MatchmakingInit /\ SuggestionsInit
  BY DEF MCInit
<1>2. [MCNext]_allVars => /\ [TokensNext]_tokenVars /\ [LockoutStep]_lockVars
                          /\ [ResetNext]_resetVars /\ [SessionsNext]_sessionVars
                          /\ [MatchmakingNext]_matchmakingVars /\ [SuggestionsNext]_suggestionVars
  BY PartsMoveAlone
<1> QED
  BY <1>1, <1>2, PTL
     DEF MCSpec, TokensSpec, LockoutSpec, ResetSpec, SessionsSpec, MatchmakingSpec, SuggestionsSpec

\* The six components of the backend keep their types side by side, for any
\* values of the constants of any of them.
THEOREM BackendTyped == MCSpec => []BackendTypeOK
<1>1. (/\ TokensTypeOK /\ LockoutTypeOK /\ ResetTypeOK
       /\ SessionsTypeOK /\ MatchmakingTypeOK /\ SuggestionsTypeOK) => BackendTypeOK
  BY DEF BackendTypeOK
<1> QED
  BY <1>1, PartsBehave, TokensTyped, LockoutTyped, ResetTyped, SessionsTyped, MatchmakingTyped,
     SuggestionsTyped, PTL
=============================================================================
