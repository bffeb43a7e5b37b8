\* Read model and cursor are reset for a rebuild.
CONSTANTS
    s1 = s1
    s2 = s2
    w1 = w1
    w2 = w2
    Sessions = {s1, s2}
    NoSession = NoSession
    Workers = {w1}
    ChainEvents <- ShortChain
    Posted <- NoPosts
    PageLimit = 4
    MaxLedger = 2
    MaxFailures = 0
    MaxResets = 2
SPECIFICATION FairSpec
PROPERTY RebuiltFromGenesis
