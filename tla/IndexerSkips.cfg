\* One poll at a time, no failure, a page that ends within a ledger.
CONSTANTS
    s1 = s1
    s2 = s2
    w1 = w1
    w2 = w2
    Sessions = {s1, s2}
    NoSession = NoSession
    Workers = {w1}
    ChainEvents <- CutChain
    Posted <- NoPosts
    PageLimit = 2
    MaxLedger = 2
    MaxFailures = 0
    MaxResets = 0
SPECIFICATION Spec
INVARIANT NothingSkipped
