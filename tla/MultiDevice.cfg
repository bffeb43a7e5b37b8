CONSTANTS
    x1 = x1
    x2 = x2
    x3 = x3
    Rotations <- MCTwo
    InitialWords = 2
    MaxWords = 3
    MaxDays = 2
    MaxOverlaps = 2
    MaxReloads = 2
    Runs <- MCTwo
    Recipients = 2
    MaxMails = 3
    Flushes <- MCTwo
    Games = 3
    MaxPosts = 2
    Accounts <- MCTwo
    NoAccount = NoAccount
    Txs <- MCThree
    MaxPolls = 2
    MaxAbandoned = 2
    Achievers <- MCTwo
    AchievementIds <- MCTwo
    UnlockNonces <- MCTwo
    NotUnlocked = NotUnlocked
    Callers <- MCTwo
    Admins <- MCOne
    Day = 2
    Attempts = 2
    MaxTime = 6
    Holders <- MCTwo
    MaxU256 = 3
    Devices <- MCTwo
    MaxSyncs = 2
    MaxGuesses = 2
    MaxMounts = 1
SPECIFICATION MCSpec
PROPERTY NewestGuessKept
CHECK_DEADLOCK FALSE
