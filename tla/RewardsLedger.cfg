\* An admin and a player, three nonces each, counters of two bits and of one:
\* sums overflow after two accruals, and the wins wrap at the second.
CONSTANTS
    a1 = a1
    a2 = a2
    n1 = n1
    n2 = n2
    n3 = n3
    NoAdmin = NoAdmin
    Accounts = {a1, a2}
    Nonces = {n1, n2, n3}
    Points = {0, 2, 3}
    DayIds = {1}
    Ranks = {1}
    MaxU64 = 3
    MaxU32 = 1
SPECIFICATION Spec
INVARIANTS TypeOK PointsConserved NonceAcceptedOnce WinsCounted
PROPERTY TokensEarnedNeverFall
SYMMETRY Symmetry
