\* No failure, a page filled by an event that the normalizer refuses.
CONSTANTS
    s1 = s1
    s2 = s2
    w1 = w1
    w2 = w2
    Sessions = {s1, s2}
    NoSession = NoSession
    Workers = {w1}
    ChainEvents <- ClutteredChain
    Posted <- NoPosts
    PageLimit = 1
    MaxLedger = 2
    MaxFailures = 0
    MaxResets = 0
SPECIFICATION FairSpec
PROPERTY EveryEventIndexed
