\* Two workers and the master verify one block after the other.
SPECIFICATION FairSpec
CONSTANTS
    w1 = w1 w2 = w2
    Workers = {w1, w2}
    Master = Master
    nBatchSize = 2
    MaxChecks = 4
INVARIANTS
    VerdictIsExact
    NothingLeftBehind
    CountersExact
PROPERTIES
    VerificationEnds
    PoolStops
