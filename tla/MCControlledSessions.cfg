CONSTANTS
    r1 = r1
    r2 = r2
    r3 = r3
    o1 = o1
    o2 = o2
    w1 = w1
    q1 = q1
    q2 = q2
    p1 = p1
    Scheduler = Scheduler
    Never = Never
    Reservations = {r1, r2, r3}
    Orders = {o1, o2}
    Plan <- MCPlan
    Age = 1
    Window = 2
    Stability = 1
    Lifetime = 3
    Watchers = {Scheduler, w1}
    Requests = {q1, q2}
    Operators = {p1}
    MaxTime = 3
    MaxRevision = 3
    MaxCrashes = 1
SPECIFICATION MCSpec
INVARIANTS TypeOK OrdersWithinCapacity SharedRateHeld ReplacementsEarned
PROPERTIES DisableEndsSessions OneWayAuthority BlockedGatesPause
