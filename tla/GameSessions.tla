---------------------------- MODULE GameSessions ----------------------------
(***************************************************************************)
(* Game sessions of the backend and the leaderboard they feed.  Requests   *)
(* are handled concurrently, one await at a time; a save is a transaction  *)
(* of the database.  Users create sessions that count on the leaderboard;  *)
(* guests create them anonymously and play them guess by guess.            *)
(*                                                                         *)
(* A guess by a user never passes: its findOne selects id, solution and    *)
(* history, so the status it tests is undefined and the call is refused    *)
(* without a change of state.                                              *)
(***************************************************************************)
EXTENDS WordEngine

CONSTANTS
    Users,          \* authenticated players (one game)
    Guest,          \* the owner of a guest session
    Handlers,       \* requests in progress at one time
    Words,          \* the dictionary, and the words getRandomWord draws from
    MaxAttempts,    \* MAX_ATTEMPTS
    MaxSessions     \* bound: rows of game_session

ASSUME SessionsAssumption ==
    /\ IsFiniteSet(Handlers) /\ MaxAttempts \in Nat \ {0} /\ Guest \notin Users /\ MaxSessions \in Nat
    /\ \A w \in Words : Len(w) \in Nat /\ DOMAIN w = 1 .. Len(w)

VARIABLES
    sessions,       \* game_session with its guess_history
    board,          \* leaderboard_entry.totalSessions, 0 without an entry
    handler         \* the requests, with what each has read

\* History, read by properties only: users two of whose creations overlapped,
\* or one of whose leaderboard updates failed.
VARIABLE uneven

sessionVars == <<sessions, board, handler, uneven>>

Free == [pc |-> "free"]
Players == Users \cup {Guest}
Board(u) == {h \in Handlers : handler[h].pc \in {"find", "upsert"} /\ handler[h].user = u}

SessionsInit ==
    /\ sessions = << >>
    /\ board = [u \in Users |-> 0]
    /\ handler = [h \in Handlers |-> Free]
    /\ uneven = {}

-----------------------------------------------------------------------------
\* create: the session is saved, and a user's goes on to the leaderboard.
CreateSession(h, u, w) ==
    /\ handler[h] = Free /\ Len(sessions) < MaxSessions
    /\ sessions' = Append(sessions, [owner |-> u, solution |-> w, status |-> "IN_PROGRESS",
                                     history |-> << >>])
    /\ handler' = [handler EXCEPT ![h] = IF u = Guest THEN Free
                                                      ELSE [pc |-> "find", user |-> u]]
    /\ uneven' = IF u # Guest /\ Board(u) # {} THEN uneven \cup {u} ELSE uneven
    /\ UNCHANGED board

\* upsertEntry reads the entry of the user.
FindEntry(h) ==
    /\ handler[h].pc = "find"
    /\ handler' = [handler EXCEPT ![h] = [pc |-> "upsert", user |-> @.user,
                                          seen |-> board[handler[h].user]]]
    /\ UNCHANGED <<sessions, board, uneven>>

\* Mutant: the entry is found again when it is saved, and counts double.
TotalsTwice(seen) == seen + 2

TotalsAfter(seen) == seen + 1

\* It saves the totals it read plus one; two first entries of one user meet
\* the unique index on (user, game).
SaveEntry(h) == LET u == handler[h].user IN
    /\ handler[h].pc = "upsert"
    /\ handler[h].seen = 0 => board[u] = 0
    /\ board' = [board EXCEPT ![u] = TotalsAfter(handler[h].seen)]
    /\ handler' = [handler EXCEPT ![h] = Free]
    /\ UNCHANGED <<sessions, uneven>>

\* The read or the save fails: the client gets an error for a saved session.
UpsertFails(h) ==
    /\ handler[h].pc \in {"find", "upsert"}
    /\ uneven' = uneven \cup {handler[h].user}
    /\ handler' = [handler EXCEPT ![h] = Free]
    /\ UNCHANGED <<sessions, board>>

-----------------------------------------------------------------------------
\* guess: the session is read with its history and the guess is checked.
StartGuess(h, s, g) ==
    /\ handler[h] = Free
    /\ sessions[s].owner = Guest
    /\ sessions[s].status = "IN_PROGRESS"
    /\ \A k \in DOMAIN sessions[s].history : sessions[s].history[k].guess # g
    /\ handler' = [handler EXCEPT ![h] = [pc |-> "guess", sess |-> s, guess |-> g,
                                          seen |-> Len(sessions[s].history)]]
    /\ UNCHANGED <<sessions, board, uneven>>

StatusAfter(marks, attempt) ==
    IF attempt > MaxAttempts THEN "LOST"
    ELSE IF Solved(marks) THEN "WON"
    ELSE IF attempt = MaxAttempts THEN "LOST" ELSE "IN_PROGRESS"

\* Mutant: no unique index, both of two guesses are saved.
AnyAttempt(s, attempt) == TRUE

\* The unique index on (session, attemptNumber).
AttemptFree(s, attempt) == attempt > Len(sessions[s].history)

\* After the dictionary has answered, the guess is evaluated and saved with
\* the status, under the number that follows the history that was read.  The
\* engine throws for a guess of another length than the solution.
SaveGuess(h) ==
    LET s == handler[h].sess
        attempt == handler[h].seen + 1
        marks == Evaluate(handler[h].guess, sessions[s].solution) IN
    /\ handler[h].pc = "guess"
    /\ AttemptFree(s, attempt) /\ Len(handler[h].guess) = Len(sessions[s].solution)
    /\ sessions' = [sessions EXCEPT ![s].status = StatusAfter(marks, attempt),
                                    ![s].history = Append(@, [guess |-> handler[h].guess, marks |-> marks])]
    /\ handler' = [handler EXCEPT ![h] = Free]
    /\ UNCHANGED <<board, uneven>>

\* Not in the dictionary, or the save fails as a whole.
GuessFails(h) ==
    /\ handler[h].pc = "guess"
    /\ handler' = [handler EXCEPT ![h] = Free]
    /\ UNCHANGED <<sessions, board, uneven>>

SessionsNext ==
    \E h \in Handlers :
        \/ \E u \in Players, w \in Words : CreateSession(h, u, w)
        \/ FindEntry(h) \/ SaveEntry(h) \/ UpsertFails(h)
        \/ \E s \in DOMAIN sessions, g \in Words : StartGuess(h, s, g)
        \/ SaveGuess(h) \/ GuessFails(h)

SessionsSpec == SessionsInit /\ [][SessionsNext]_sessionVars

-----------------------------------------------------------------------------
SessionsTypeOK ==
    /\ board \in [Users -> 0 .. MaxSessions]
    /\ uneven \subseteq Users
    /\ \A s \in DOMAIN sessions :
          /\ sessions[s].owner \in Players /\ sessions[s].solution \in Words
          /\ sessions[s].status \in {"IN_PROGRESS", "WON", "LOST"}
          /\ \A k \in DOMAIN sessions[s].history : sessions[s].history[k].guess \in Words
    /\ \A h \in Handlers : handler[h].pc \in {"free", "find", "upsert", "guess"}

\* Guesses submitted together do not break a session: at most MAX_ATTEMPTS
\* are recorded, nothing follows a solved or a last guess, and the status is
\* the one the recorded guesses call for.
StatusFollowsHistory ==
    \A s \in DOMAIN sessions :
        LET past == sessions[s].history
            solved == {k \in DOMAIN past : Solved(past[k].marks)} IN
        /\ Len(past) <= MaxAttempts /\ solved \subseteq {Len(past)}
        /\ sessions[s].status = IF solved # {} THEN "WON"
                                ELSE IF Len(past) = MaxAttempts THEN "LOST" ELSE "IN_PROGRESS"

\* The marks of every recorded guess say what is true of the solution.
MarksAreSound ==
    \A s \in DOMAIN sessions : \A k \in DOMAIN sessions[s].history :
        SoundMarks(sessions[s].history[k].guess, sessions[s].solution, sessions[s].history[k].marks)

\* The leaderboard never counts a session that was not saved, and it counts
\* each of them as long as no two creations of the user overlapped and none
\* of its updates failed.
BoardCountsSessions ==
    \A u \in Users :
        LET played == Cardinality({s \in DOMAIN sessions : sessions[s].owner = u}) IN
        /\ board[u] + (IF u \in uneven THEN 0 ELSE Cardinality(Board(u))) <= played
        /\ u \notin uneven => board[u] + Cardinality(Board(u)) = played
=============================================================================
