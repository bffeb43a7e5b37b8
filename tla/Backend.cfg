CONSTANTS
    w1 = w1
    w2 = w2
    r1 = r1
    r2 = r2
    l1 = l1
    l2 = l2
    h1 = h1
    h2 = h2
    g1 = g1
    g2 = g2
    g3 = g3
    Wallets = {w1, w2}
    Requests = {r1, r2}
    MaxTokens = 3
    MaxDepth = 1
    Logins = {l1, l2}
    RateLimit = 2
    Threshold = 2
    MaxLockouts = 2
    MaxRate = 3
    Users = {u1}
    Guest = Guest
    Handlers = {h1, h2}
    Words <- MCWords
    MaxAttempts = 2
    MaxSessions = 2
    Gamers = {g1, g2, g3}
    Skill <- MCSkill
    Tolerance = 2
    NoPlayer = NoPlayer
    MaxMatches = 1
    MaxJoins = 2
    MaxSubmits = 2
    MaxExcuses = 2
    ResetRequests = {r1, r2}
    MaxLinks = 3
    MaxMisses = 1
    Voters = {g1, g2, g3}
    Calls = {h1, h2}
    Proposals = {p1}
SPECIFICATION MCSpec
INVARIANTS BackendTypeOK ChainPerFamily RevokedWithCause CountersExpire FailuresBounded LinksSetOnce StatusFollowsHistory MarksAreSound BoardCountsSessions NobodyStranded CompletesOnce VotesKept
PROPERTY RevokedStaysUnused
SYMMETRY Symmetry
CHECK_DEADLOCK FALSE
