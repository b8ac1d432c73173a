SPECIFICATION Spec
CONSTANTS
    Workers = {w1, w2}
    NoWorker = NoWorker
    Schedulers = {s1, s2}
    Deadline = 6
    Lease = 2
    Timeout = 2
    SendRunway = 2
    Runway = 3
    Backoff = 1
    Cooldown = 1
    MaxFailures = 2
    MaxRecoveries = 1
    MaxGen = 3
    PromptSends = TRUE
SYMMETRY Symmetry
INVARIANTS
    CallsAreAnnounced
    PauseExposure
    RecoveriesBounded
    WorkerInvariant
PROPERTIES
    OnlyFailedRecovers
    CallsByPermission
