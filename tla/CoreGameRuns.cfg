\* Two regions of one instance.  Rules: two players with one session each, two
\* days that the admin may publish again and again, caps from one below the
\* legal range to one above it.  Streaks: one player settling up to four
\* sessions over five days, one or more a day, with gaps.
CONSTANTS
    p1 = p1
    p2 = p2
    op = op
    n1 = n1
    n2 = n2
    n3 = n3
    n4 = n4
    NoAdmin = NoAdmin
    Players = {p1, p2}
    Operators = {op}
    Nonces = {n1, n2, n3, n4}
    Days = {1, 2}
    AttemptCaps = {0, 1, 2, 3}
    CloseTimes = {1, 2, 5}
    Schedules = {2}
    MaxAttemptsLimit = 2
    SecondsPerDay = 1
    StartTime = 1
    MaxTime = 5
SPECIFICATION Spec
INVARIANTS TypeOK SessionConsistent NonceOpensOneSession StreakIsRun StreakEarned
PROPERTY SessionsOnlyProgress
CONSTRAINT Explored
SYMMETRY Symmetry
