SPECIFICATION FairSpec
CONSTANTS
    Workers = {w1, w2}
    NoWorker = NoWorker
    Schedulers = {s1}
    Deadline = 5
    Lease = 2
    Timeout = 2
    SendRunway = 2
    Runway = 2
    Backoff = 1
    Cooldown = 1
    MaxFailures = 2
    MaxRecoveries = 1
    MaxGen = 2
    PromptSends = FALSE
PROPERTIES
    JobSettles
    CallsByPermission
