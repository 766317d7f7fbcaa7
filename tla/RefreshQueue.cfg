\* Queue, worker, in-request fallback, failures, a crash.
SPECIFICATION Spec
CONSTANTS
    Sources = {"profile", "favorites"}
    Handlers = {h1, h2}
    Jobs = {j1, j2}
    Concurrency = 1
    MaxWrites = 1
    MaxCrashes = 2
    AddMay = {"resolve", "reject"}
    MayFail = TRUE
INVARIANTS AckedIsCovered NewestIsFreshest
PROPERTIES AckedReachesHome
CHECK_DEADLOCK FALSE
