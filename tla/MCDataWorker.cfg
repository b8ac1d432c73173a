CONSTANTS
    j1 = j1
    j2 = j2
    j3 = j3
    w1 = w1
    w2 = w2
    Jobs = {j1, j2, j3}
    NoJob = NoJob
    Workers = {w1, w2}
    NoWorker = NoWorker
    Base <- MCBase
    Lease = 1
    Retry = 0
    Limit = 1
    MaxStale = 1
    Deployments <- MCDeployments
    Timeout = 1
    MaxGen = 2
    MaxCrashes = 1
SPECIFICATION MCSpec
INVARIANTS TypeOK
INVARIANTS CallsCounted SucceededIsPublished InputCompletedOnce
PROPERTIES PublishedUnderGrant KeepsAllowance JobsEnd
