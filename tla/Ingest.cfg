\* Intake, limiter, queue and worker, with crashes, lost replies and an outage that ends.
SPECIFICATION RecoveringSpec
CONSTANTS
    Events = {e1, e2}
    Handlers = {h1, h2}
    Jobs = {j1, j2}
    MaxBatch = 1
    Limit = 1
    Window = 2
    MaxClock = 2
    MaxOutages = 1
    RedisEnabled = TRUE
    MayFail = TRUE
    MayCrash = TRUE
INVARIANTS AcceptedNotLost RateBound
PROPERTIES ImplementsDelivery AcceptedSettles BatchAnswered
