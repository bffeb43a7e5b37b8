\* A solved session that is guessed on until its attempts are spent.
CONSTANTS
    p1 = p1
    p2 = p2
    op = op
    n1 = n1
    NoAdmin = NoAdmin
    Players = {p1, p2}
    Operators = {op}
    Nonces = {n1}
    Days = {1, 2}
    AttemptCaps = {2}
    CloseTimes = {2, 3}
    Schedules = {}
    MaxAttemptsLimit = 2
    SecondsPerDay = 2
    StartTime = 2
    MaxTime = 4
SPECIFICATION Spec
INVARIANT LostMeansNeverSolved
