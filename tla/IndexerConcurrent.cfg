\* Two overlapping runs of the pipeline, one failure and one reset at any time;
\* pages that end within a ledger, and a post ahead of other events.
CONSTANTS
    s1 = s1
    s2 = s2
    w1 = w1
    w2 = w2
    Sessions = {s1, s2}
    NoSession = NoSession
    Workers = {w1, w2}
    ChainEvents <- BusyChain
    Posted <- EarlyPost
    PageLimit = 2
    MaxLedger = 2
    MaxFailures = 1
    MaxResets = 1
SPECIFICATION Spec
INVARIANTS TypeOK ReadModelBacked LossNeedsFailure SkipsHaveCause
PROPERTY LedgerSpec
CONSTRAINT OneMishap
SYMMETRY Symmetry
