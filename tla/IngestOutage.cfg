\* Redis goes away; nothing promises that it comes back.
SPECIFICATION Spec
CONSTANTS
    Events = {e1, e2}
    Handlers = {h1, h2}
    Jobs = {j1, j2}
    MaxBatch = 1
    Limit = 1
    Window = 0
    MaxClock = 0
    MaxOutages = 1
    RedisEnabled = TRUE
    MayFail = TRUE
    MayCrash = TRUE
PROPERTIES DegradedInsert
