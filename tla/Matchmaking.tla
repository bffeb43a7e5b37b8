---------------------------- MODULE Matchmaking ----------------------------
(***************************************************************************)
(* The matchmaking service: one Node process, so that the code between two *)
(* awaits is one step, with the queue in memory and the matches in the     *)
(* database.  A step that ends in an await leaves an entry in creating or  *)
(* submits, which a later step completes.  The repository's save of a row  *)
(* it has is two statements: it reads the row again, and updates the       *)
(* columns in which the copy differs from that.                            *)
(***************************************************************************)
EXTENDS Naturals, FiniteSets, Sequences

CONSTANTS
    Gamers,         \* players of competitive matches
    Skill(_),       \* computeSkillScore of a player's statistics
    Tolerance,      \* SKILL_TOLERANCE
    NoPlayer,       \* null in player2Id
    MaxMatches,     \* bound: rows of match
    MaxJoins,       \* bound: calls of enqueue that are accepted, per player
    MaxSubmits,     \* bound: submitResult calls in progress at one time
    MaxExcuses      \* bound: submissions that overlap or fail, per match

\* Scores of validated statistics are not negative; a unit is what a double tells apart.
ASSUME MatchmakingAssumption ==
    /\ NoPlayer \notin Gamers /\ Tolerance \in Nat /\ \A p \in Gamers : Skill(p) \in Nat
    /\ MaxSubmits \in Nat

VARIABLES
    queue,          \* the players waiting, in order of arrival
    timers,         \* players with a pending queue timeout
    creating,       \* matches being created: <<player1, player2>>
    matches,        \* rows of match
    submits         \* results being submitted: the match as read, or as to be saved

\* History, read by properties only.
VARIABLES
    joins,          \* per player, accepted calls of enqueue
    dropped,        \* per player, joins lost to a failed creation or a restart
    completions     \* per match, [emitted, excuses]: match.completed events of a match
                    \* of two; submissions begun while another was in progress, and
                    \* saves that failed after the event

queueVars == <<queue, timers, creating, joins, dropped>>
matchVars == <<matches, submits, completions>>
matchmakingVars == <<queueVars, matchVars>>

Submits == 1 .. MaxSubmits
NoSubmit == [stage |-> "idle"]
SubmitsOf(m, stage) == {i \in Submits : submits[i].stage = stage /\ submits[i].match = m}

Waiting == {queue[i] : i \in DOMAIN queue}
Index(q, p) == CHOOSE i \in DOMAIN q : q[i] = p

\* Map.delete: the one entry of p, if there is one.
Without(q, p) ==
    IF \A i \in DOMAIN q : q[i] # p THEN q
    ELSE SubSeq(q, 1, Index(q, p) - 1) \o SubSeq(q, Index(q, p) + 1, Len(q))

Count(p, S) == Cardinality({x \in S : p \in {x[1], x[2]}})
Distance(p, q) == IF Skill(p) < Skill(q) THEN Skill(q) - Skill(p) ELSE Skill(p) - Skill(q)

MatchRow(p, q) == [player1 |-> p, player2 |-> q, attempts1 |-> FALSE, attempts2 |-> FALSE,
                   status |-> IF q = NoPlayer THEN "SOLO" ELSE "ACTIVE"]

MatchmakingInit ==
    /\ queue = << >> /\ timers = {} /\ creating = {}
    /\ matches = << >> /\ submits = [i \in Submits |-> NoSubmit]
    /\ joins = [p \in Gamers |-> 0] /\ dropped = [p \in Gamers |-> 0]
    /\ completions = << >>

-----------------------------------------------------------------------------
\* findOpponent: the nearest within the tolerance, the latest of equals.
Opponents(p) ==
    {i \in DOMAIN queue :
        /\ queue[i] # p /\ Distance(queue[i], p) <= Tolerance
        /\ \A j \in DOMAIN queue : queue[j] # p =>
              \/ Distance(queue[i], p) < Distance(queue[j], p)
              \/ Distance(queue[i], p) = Distance(queue[j], p) /\ j <= i}

Joined(p) == joins[p] < MaxJoins /\ joins' = [joins EXCEPT ![p] = @ + 1]

\* Mutant: the opponent found stays in the queue.
QueueKept(p) == queue

LeaveQueue(p) == Without(queue, p)
ClearTimer(p) == timers \ {p}

\* enqueue with an opponent waiting, who leaves the queue before the await.
EnqueueMatched(p) == \E i \in Opponents(p) :
    /\ p \notin Waiting /\ Joined(p)
    /\ <<queue[i], p>> \notin creating
    /\ queue' = LeaveQueue(queue[i])
    /\ timers' = ClearTimer(queue[i])
    /\ creating' = creating \cup {<<queue[i], p>>}
    /\ UNCHANGED <<dropped, matchVars>>

\* enqueue without one: a player who waits already only gets an answer.
EnqueueWaiting(p) ==
    /\ p \notin Waiting /\ Opponents(p) = {} /\ Joined(p)
    /\ queue' = Append(queue, p)
    /\ timers' = timers \cup {p}
    /\ UNCHANGED <<creating, dropped, matchVars>>

\* onQueueTimeout: only a player still in the queue goes on to a solo match.
QueueTimeout(p) ==
    /\ p \in timers /\ <<p, NoPlayer>> \notin creating
    /\ timers' = timers \ {p}
    /\ queue' = Without(queue, p)
    /\ creating' = IF p \in Waiting THEN creating \cup {<<p, NoPlayer>>} ELSE creating
    /\ UNCHANGED <<joins, dropped, matchVars>>

\* createMatch and createSoloMatch: the row is saved ...
CreateMatch(c) ==
    /\ c \in creating /\ Len(matches) < MaxMatches
    /\ creating' = creating \ {c}
    /\ matches' = Append(matches, MatchRow(c[1], c[2]))
    /\ completions' = Append(completions, [emitted |-> 0, excuses |-> 0])
    /\ UNCHANGED <<queue, timers, submits, joins, dropped>>

\* ... or the word or the save fails: nobody goes back to the queue.
CreateFails(c) ==
    /\ c \in creating
    /\ creating' = creating \ {c}
    /\ dropped' = [p \in Gamers |-> dropped[p] + Count(p, {c})]
    /\ UNCHANGED <<queue, timers, joins, matchVars>>

-----------------------------------------------------------------------------
\* Mutant: a completed match takes another result.
Always(m) == TRUE

Open(m) == matches[m].status # "COMPLETED"

\* The excuses a match gets, within the bound.
MayExcuse(m, n) == completions[m].excuses + n <= MaxExcuses

\* submitResult reads the match.
ReadMatch(m, p, i) ==
    LET overlaps == IF SubmitsOf(m, "read") \cup SubmitsOf(m, "saving") = {} THEN 0 ELSE 1 IN
    /\ submits[i] = NoSubmit /\ \A j \in 1 .. (i - 1) : submits[j] # NoSubmit
    /\ Open(m) /\ p \in Gamers \cap {matches[m].player1, matches[m].player2}
    /\ MayExcuse(m, overlaps)
    /\ submits' = [submits EXCEPT ![i] =
                      [stage |-> "read", match |-> m, player |-> p, seen |-> matches[m]]]
    /\ completions' = [completions EXCEPT ![m].excuses = @ + overlaps]
    /\ UNCHANGED <<matches, queueVars>>

\* It fills in one side of what it read.
Filled(s) ==
    LET row == IF s.player = s.seen.player1 THEN [s.seen EXCEPT !.attempts1 = TRUE]
                                            ELSE [s.seen EXCEPT !.attempts2 = TRUE]
        both == row.attempts1 /\ (row.player2 = NoPlayer \/ row.attempts2) IN
    [row EXCEPT !.status = IF ~both THEN @ ELSE IF row.player2 = NoPlayer THEN "SOLO"
                                                                         ELSE "COMPLETED"]

Completes(s) == Filled(s).attempts1 /\ (s.seen.player2 = NoPlayer \/ Filled(s).attempts2)

Announces(s) == IF Completes(s) /\ s.seen.player2 # NoPlayer THEN 1 ELSE 0

\* The event is emitted, and save reads the row ...
CompareResult(i) == LET s == submits[i] IN
    /\ s.stage = "read"
    /\ submits' = [submits EXCEPT ![i] = [stage |-> "saving", match |-> s.match,
                                          copy |-> Filled(s), base |-> matches[s.match]]]
    /\ completions' = [completions EXCEPT ![s.match].emitted = @ + Announces(s)]
    /\ UNCHANGED <<matches, queueVars>>

\* The row after an UPDATE of the columns in which copy differs from the row read.
UpdatedRow(row, base, copy) ==
    LET Column(now, old, new) == IF new = old THEN now ELSE new
    IN  [row EXCEPT !.attempts1 = Column(@, base.attempts1, copy.attempts1),
                    !.attempts2 = Column(@, base.attempts2, copy.attempts2),
                    !.status    = Column(@, base.status, copy.status)]

\* ... and updates its columns ...
SaveResult(i) == LET s == submits[i] IN
    /\ s.stage = "saving"
    /\ submits' = [submits EXCEPT ![i] = NoSubmit]
    /\ matches' = [matches EXCEPT ![s.match] = UpdatedRow(@, s.base, s.copy)]
    /\ UNCHANGED <<completions, queueVars>>

\* ... or one of the two fails, and the event is out.
SaveFails(i) == LET s == submits[i] IN
    /\ s.stage # "idle"
    /\ submits' = [submits EXCEPT ![i] = NoSubmit]
    /\ \/ /\ s.stage = "read" /\ MayExcuse(s.match, Announces(s))
          /\ completions' = [completions EXCEPT ![s.match] =
                                [emitted |-> @.emitted + Announces(s),
                                 excuses |-> @.excuses + Announces(s)]]
       \/ LET lost == IF s.copy.status = "COMPLETED" THEN 1 ELSE 0 IN
          /\ s.stage = "saving" /\ MayExcuse(s.match, lost)
          /\ completions' = [completions EXCEPT ![s.match].excuses = @ + lost]
    /\ UNCHANGED <<matches, queueVars>>

\* The completion of m is announced, and being saved.
Announced(m) == \E i \in SubmitsOf(m, "saving") : submits[i].copy.status = "COMPLETED"

\* onModuleDestroy: the timers are cleared and the queue is gone, and with the
\* process goes every request in progress.  (With nobody waiting a restart is
\* no more than requests that fail.)
Restart ==
    /\ queue # << >>
    /\ dropped' = [p \in Gamers |-> dropped[p] + Count(p, creating)
                                       + IF p \in Waiting THEN 1 ELSE 0]
    /\ queue' = << >> /\ timers' = {} /\ creating' = {}
    /\ submits' = [i \in Submits |-> NoSubmit]
    /\ \A m \in DOMAIN matches : Announced(m) => MayExcuse(m, 1)
    /\ completions' = [m \in DOMAIN completions |->
                          [completions[m] EXCEPT !.excuses = @ + IF Announced(m) THEN 1 ELSE 0]]
    /\ UNCHANGED <<matches, joins>>

MatchmakingNext ==
    \/ \E p \in Gamers : EnqueueMatched(p) \/ EnqueueWaiting(p) \/ QueueTimeout(p)
    \/ \E c \in creating : CreateMatch(c) \/ CreateFails(c)
    \/ \E i \in Submits :
          \/ \E m \in DOMAIN matches, p \in Gamers : ReadMatch(m, p, i)
          \/ CompareResult(i) \/ SaveResult(i) \/ SaveFails(i)
    \/ Restart

MatchmakingSpec == MatchmakingInit /\ [][MatchmakingNext]_matchmakingVars

-----------------------------------------------------------------------------
MatchmakingTypeOK ==
    /\ queue \in Seq(Gamers) /\ timers \subseteq Gamers
    /\ creating \subseteq Gamers \X (Gamers \cup {NoPlayer})
    /\ \A m \in DOMAIN matches : matches[m].status \in {"ACTIVE", "SOLO", "COMPLETED"}
    /\ Len(completions) = Len(matches)

\* Every accepted join is accounted for once: it waits, is being paired, ended
\* in a match, or was dropped by a creation that failed or by a restart,
\* whatever the order of arrivals, timeouts and creations.
JoinsAccounted ==
    \A p \in Gamers :
        joins[p] = Cardinality({i \in DOMAIN queue : queue[i] = p}) + Count(p, creating) + dropped[p]
                   + Cardinality({m \in DOMAIN matches : p \in {matches[m].player1, matches[m].player2}})

\* A timeout is pending exactly for the players who wait, so that none of them
\* waits for ever and none is sent to a solo match by a timer of an earlier wait.
TimersFollowQueue == timers = Waiting

\* Two waiting players never suit each other: the later would have been paired.
QueueIsUnmatchable ==
    \A p, q \in Waiting : p # q => Distance(p, q) > Tolerance

\* No player is stranded by the races of arrivals, timeouts, creations and
\* restarts: joins are accounted for, who waits has a timer and who has a timer
\* waits, and nobody waits beside a player who would suit.
NobodyStranded == JoinsAccounted /\ TimersFollowQueue /\ QueueIsUnmatchable

\* A match of two is announced as completed once, and once more at the most for
\* each submission that overlapped another and each save that failed after the
\* event.  Without any, it is announced when both results are there, and is
\* completed by that save: neither earlier nor never.
CompletesOnce ==
    \A m \in DOMAIN matches : LET row == matches[m] IN
        row.player2 # NoPlayer =>
            /\ completions[m].emitted <= 1 + completions[m].excuses
            /\ completions[m].excuses = 0 =>
                  /\ completions[m].emitted = IF row.status = "COMPLETED" \/ Announced(m) THEN 1 ELSE 0
                  /\ row.status = "COMPLETED" <=> row.attempts1 /\ row.attempts2
=============================================================================
