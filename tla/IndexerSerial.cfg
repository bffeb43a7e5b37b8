\* One run at a time, nothing fails, every page has room for the whole backlog;
\* operators may post the one valid event of ledger 1 again and again.
CONSTANTS
    s1 = s1
    s2 = s2
    w1 = w1
    w2 = w2
    Sessions = {s1, s2}
    NoSession = NoSession
    Workers = {w1}
    ChainEvents <- SerialChain
    Posted <- PostedEvents
    PageLimit = 4
    MaxLedger = 3
    MaxFailures = 0
    MaxResets = 0
SPECIFICATION FairSpec
PROPERTY EveryEventIndexed
