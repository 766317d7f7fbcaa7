-------------------------- MODULE InteractionIngest --------------------------
(***************************************************************************)
(* Telemetry intake: POST /v1/interactions/batch (InteractionsService), the *)
(* BullMQ queue interactions-ingest, and the worker that drains it          *)
(* (InteractionIngestProcessor).                                            *)
(*                                                                          *)
(* One user is modelled: the rate limiter keeps one list per user and the   *)
(* unique index on event_id makes no difference between users.  An event is *)
(* its event_id.  The queue is external code; its actions say what the      *)
(* options this repository passes to it allow: a command waits while Redis  *)
(* is unreachable (maxRetriesPerRequest is null) and may be sent twice, a   *)
(* job is tried MaxAttempts times, a finished job is removed, a failed one  *)
(* is kept, and the job of a worker that died is handed out again once.     *)
(*                                                                          *)
(* A definition preceded by forms of it that are named after a mistake      *)
(* (InsertAll before Insert) is mutated to them in PROJECT.json; nothing    *)
(* else uses them.                                                          *)
(***************************************************************************)
EXTENDS Naturals, FiniteSets

CONSTANTS
    Events,         \* event ids a client may send
    Handlers,       \* requests that can be in flight at once
    Jobs,           \* job ids that can be drawn: the bound on queue.add calls
    MaxBatch,       \* MAX_INTERACTION_BATCH_SIZE
    Limit,          \* INTERACTION_RATE_LIMIT_PER_MINUTE
    Window,         \* windowMs
    MaxClock,       \* bound on the clock
    MaxOutages,     \* bound on Redis outages
    RedisEnabled,   \* isRedisEnabled()
    MayFail,        \* TRUE: database calls and queue.add may reject
    MayCrash        \* TRUE: the process may stop and start again

ASSUME IngestAssumption ==
    /\ MaxBatch \in Nat /\ Limit \in Nat /\ Window \in Nat
    /\ MaxClock \in Nat /\ MaxOutages \in Nat
    /\ RedisEnabled \in BOOLEAN /\ MayFail \in BOOLEAN /\ MayCrash \in BOOLEAN

VARIABLES
    rows,       \* user_interaction: number of rows with this event_id
    jobs,       \* the queue in Redis
    redisUp, outages,
    pc, batch,  \* per handler: the call it awaits, the events it validated
    clock,
    stamps,     \* requestTimestamps of the user, in process memory: <<t, k>>
                \*   is the k-th entry t of the list
    (* History variables: read by properties only. *)
    acked,      \* events answered with 202 as accepted
    admitted    \* <<t, k>>: this process let a k-th request pass at time t; no
                \*   more than Limit + 1 of one time are recorded

vars == <<rows, jobs, redisUp, outages, pc, batch, clock, stamps, acked, admitted>>
redisVars == <<jobs, redisUp, outages>>
limiterVars == <<clock, stamps, admitted>>

MaxAttempts == 3    \* attempts: 3
MaxStalls == 1      \* BullMQ's default maxStalledCount

(* "saved": the worker has inserted the rows and not yet reported it.  A      *)
(* completed job is removed, so its id is back in state "none" but spent.     *)
JobState == {"none", "waiting", "active", "saved", "stalled", "failed", "removed"}
Job == [state: JobState, events: SUBSET Events, attempts: 0..MaxAttempts, stalls: 0..MaxStalls]
NoJob == [state |-> "none", events |-> {}, attempts |-> 0, stalls |-> 0]

TypeOK ==
    /\ rows \in [Events -> Nat]
    /\ jobs \in [Jobs -> Job]
    /\ redisUp \in BOOLEAN
    /\ outages \in 0..MaxOutages
    /\ pc \in [Handlers -> {"idle", "enqueue", "persist"}]
    /\ batch \in [Handlers -> SUBSET Events]
    /\ clock \in 0..MaxClock
    /\ stamps \in SUBSET ((0..MaxClock) \X Nat)
    /\ acked \in SUBSET Events
    /\ admitted \in SUBSET ((0..MaxClock) \X (1..Limit + 1))

Init ==
    /\ rows = [e \in Events |-> 0]
    /\ jobs = [j \in Jobs |-> NoJob]
    /\ redisUp = TRUE
    /\ outages = 0
    /\ pc = [h \in Handlers |-> "idle"]
    /\ batch = [h \in Handlers |-> {}]
    /\ clock = 0
    /\ stamps = {}
    /\ acked = {}
    /\ admitted = {}

-----------------------------------------------------------------------------
Goto(h, label, events) ==
    /\ pc' = [pc EXCEPT ![h] = label]
    /\ batch' = [batch EXCEPT ![h] = events]

Unanswered == UNCHANGED acked

(* 202 for the events of the handler's batch. *)
Accept(h) == Goto(h, "idle", {}) /\ acked' = acked \cup batch[h]

(* An error status, or an answer with nothing accepted. *)
Refuse(h) == Goto(h, "idle", {}) /\ Unanswered

InsertAll(events) == rows' = [e \in Events |-> IF e \in events THEN rows[e] + 1 ELSE rows[e]]

(* createMany with skipDuplicates: one statement that inserts the events that *)
(* have no row yet.                                                           *)
Insert(events) ==
    rows' = [e \in Events |-> IF e \in events /\ rows[e] = 0 THEN 1 ELSE rows[e]]

(* assertRateLimit: the list is filtered, and written back only by a request  *)
(* that is let through.  The code looks at its length and at the times in it, *)
(* never at their order.                                                      *)
Recent == {a \in stamps : clock - a[1] < Window}
WithinLimitOrAt == Cardinality(Recent) <= Limit
WithinLimit == Cardinality(Recent) < Limit

Stamp(list) == <<clock, Cardinality({a \in list : a[1] = clock}) + 1>>

Admit ==
    /\ WithinLimit
    /\ stamps' = Recent \cup {Stamp(Recent)}
    /\ admitted' = IF Stamp(admitted)[2] <= Limit + 1
                   THEN admitted \cup {Stamp(admitted)} ELSE admitted

(* Bound: a batch goes on to the queue only while all handlers on that way can *)
(* draw a job id, and draw it once more for each outage to come.               *)
HasRoom ==
    \/ ~RedisEnabled
    \/ Cardinality({j \in Jobs : jobs[j].state = "none"}) + outages
           > Cardinality({h \in Handlers : pc[h] = "enqueue"}) + MaxOutages

(* submitBatch up to its first await.  A batch is some events, of which the   *)
(* validator accepts those in valid.  The limiter counts a batch that is then *)
(* refused as too large.                                                      *)
Submit(h, events, valid) ==
    /\ pc[h] = "idle"
    /\ \/ /\ ~WithinLimit
          /\ Refuse(h)
          /\ UNCHANGED limiterVars
       \/ /\ Admit
          /\ UNCHANGED clock
          /\ \/ Cardinality(events) > MaxBatch /\ Refuse(h)
             \/ Cardinality(events) <= MaxBatch /\ valid = {} /\ Refuse(h)
             \/ /\ Cardinality(events) <= MaxBatch /\ valid # {} /\ HasRoom
                /\ Goto(h, "enqueue", valid)
                /\ Unanswered
    /\ UNCHANGED <<rows, redisVars>>

(* queue.add resolves: the job is in Redis.  With Redis disabled the queue is *)
(* a stub whose add always throws.                                            *)
EnqueueOk(h) ==
    /\ pc[h] = "enqueue" /\ RedisEnabled /\ redisUp
    /\ \E j \in Jobs :
          /\ jobs[j].state = "none"
          /\ jobs' = [jobs EXCEPT ![j] = [NoJob EXCEPT !.state = "waiting", !.events = batch[h]]]
    /\ Accept(h)
    /\ UNCHANGED <<rows, redisUp, outages, limiterVars>>

(* The job is added but the connection drops before the reply: the command    *)
(* is sent again.                                                             *)
EnqueueReplyLost(h) ==
    /\ pc[h] = "enqueue" /\ RedisEnabled /\ redisUp /\ outages < MaxOutages
    /\ \E j \in Jobs :
          /\ jobs[j].state = "none"
          /\ jobs' = [jobs EXCEPT ![j] = [NoJob EXCEPT !.state = "waiting", !.events = batch[h]]]
    /\ redisUp' = FALSE
    /\ outages' = outages + 1
    /\ UNCHANGED <<rows, pc, batch, acked, limiterVars>>

EnqueueRejectedSwallowed(h) ==
    /\ pc[h] = "enqueue"
    /\ ~RedisEnabled \/ (MayFail /\ redisUp)
    /\ Accept(h)
    /\ UNCHANGED <<rows, redisVars, limiterVars>>

(* queue.add rejects: the handler falls back to inserting the rows itself. *)
EnqueueRejected(h) ==
    /\ pc[h] = "enqueue"
    /\ ~RedisEnabled \/ (MayFail /\ redisUp)
    /\ Goto(h, "persist", batch[h])
    /\ UNCHANGED <<rows, redisVars, acked, limiterVars>>

PersistOk(h) ==
    /\ pc[h] = "persist"
    /\ Insert(batch[h])
    /\ Accept(h)
    /\ UNCHANGED <<redisVars, limiterVars>>

PersistFailedRetries(h) ==
    /\ pc[h] = "persist" /\ MayFail
    /\ Goto(h, "enqueue", batch[h]) /\ Unanswered
    /\ UNCHANGED <<rows, redisVars, limiterVars>>

(* The insert rejects (500); it may have been committed all the same. *)
PersistFailed(h) ==
    /\ pc[h] = "persist" /\ MayFail
    /\ Insert(batch[h]) \/ UNCHANGED rows
    /\ Refuse(h)
    /\ UNCHANGED <<redisVars, limiterVars>>

-----------------------------------------------------------------------------
(* The worker: one job at a time. *)
Busy == \E j \in Jobs : jobs[j].state \in {"active", "saved"}
Move(j, st) == jobs' = [jobs EXCEPT ![j].state = st]

Take(j) ==
    /\ redisUp /\ ~Busy
    /\ jobs[j].state = "waiting"
    /\ Move(j, "active")
    /\ UNCHANGED <<rows, redisUp, outages, pc, batch, acked, limiterVars>>

(* process: the same createMany as the fallback. *)
Process(j) ==
    /\ jobs[j].state = "active"
    /\ Insert(jobs[j].events)
    /\ Move(j, "saved")
    /\ UNCHANGED <<redisUp, outages, pc, batch, acked, limiterVars>>

CompleteEarly(j) ==
    /\ redisUp
    /\ jobs[j].state \in {"active", "saved"}
    /\ Move(j, "removed")
    /\ UNCHANGED <<rows, redisUp, outages, pc, batch, acked, limiterVars>>

(* removeOnComplete: TRUE. *)
Complete(j) ==
    /\ redisUp
    /\ jobs[j].state = "saved"
    /\ Move(j, "removed")
    /\ UNCHANGED <<rows, redisUp, outages, pc, batch, acked, limiterVars>>

(* What becomes of a job whose attempt number n has failed. *)
AfterAttemptRemoved(n) == IF n < MaxAttempts THEN "waiting" ELSE "removed"
AfterAttempt(n) == IF n < MaxAttempts THEN "waiting" ELSE "failed"

(* process rethrows: the job is tried again after a backoff, or kept in the   *)
(* failed set (removeOnFail: FALSE).                                          *)
AttemptFails(j) ==
    /\ MayFail /\ redisUp
    /\ jobs[j].state = "active"
    /\ Insert(jobs[j].events) \/ UNCHANGED rows
    /\ LET tried == jobs[j].attempts + 1 IN
       jobs' = [jobs EXCEPT ![j].attempts = tried, ![j].state = AfterAttempt(tried)]
    /\ UNCHANGED <<redisUp, outages, pc, batch, acked, limiterVars>>

(* The lock of a dead worker's job has run out. *)
StalledCheck(j) ==
    /\ redisUp
    /\ jobs[j].state = "stalled"
    /\ \/ /\ jobs[j].stalls < MaxStalls
          /\ jobs' = [jobs EXCEPT ![j].state = "waiting", ![j].stalls = @ + 1]
       \/ /\ jobs[j].stalls = MaxStalls
          /\ Move(j, "failed")
    /\ UNCHANGED <<rows, redisUp, outages, pc, batch, acked, limiterVars>>

-----------------------------------------------------------------------------
(* The process dies: handlers answer nothing, the limiter forgets. *)
Crash ==
    /\ MayCrash
    /\ pc' = [h \in Handlers |-> "idle"]
    /\ batch' = [h \in Handlers |-> {}]
    /\ stamps' = {} /\ admitted' = {}
    /\ jobs' = [j \in Jobs |-> IF jobs[j].state \in {"active", "saved"}
                               THEN [jobs[j] EXCEPT !.state = "stalled"] ELSE jobs[j]]
    /\ UNCHANGED <<rows, redisUp, outages, clock, acked>>

RedisDown ==
    /\ RedisEnabled /\ redisUp /\ outages < MaxOutages
    /\ redisUp' = FALSE
    /\ outages' = outages + 1
    /\ UNCHANGED <<rows, jobs, pc, batch, acked, limiterVars>>

RedisBack ==
    /\ ~redisUp
    /\ redisUp' = TRUE
    /\ UNCHANGED <<rows, jobs, outages, pc, batch, acked, limiterVars>>

Tick ==
    /\ clock < MaxClock
    /\ clock' = clock + 1
    /\ UNCHANGED <<rows, redisVars, pc, batch, acked, stamps, admitted>>

Arrive(h) ==
    \E events \in SUBSET Events \ {{}} : \E valid \in SUBSET events :
        Submit(h, events, valid)

Resume(h) ==
    \/ EnqueueOk(h) \/ EnqueueReplyLost(h) \/ EnqueueRejected(h)
    \/ PersistOk(h) \/ PersistFailed(h)

Work(j) == Take(j) \/ Process(j) \/ Complete(j) \/ AttemptFails(j) \/ StalledCheck(j)

Next ==
    \/ \E h \in Handlers : Arrive(h) \/ Resume(h)
    \/ \E j \in Jobs : Work(j)
    \/ Crash \/ RedisDown \/ RedisBack \/ Tick

Safety == Init /\ [][Next]_vars

(* A handler whose awaited call settles goes on; the worker keeps polling. *)
Fairness ==
    /\ \A h \in Handlers : WF_vars(Resume(h))
    /\ \A j \in Jobs : WF_vars(Work(j))

Spec == Safety /\ Fairness

(* The same, when every Redis outage ends. *)
RecoveringSpec == Spec /\ WF_vars(RedisBack)

-----------------------------------------------------------------------------
Kept(e) ==
    \E j \in Jobs :
        jobs[j].state \in {"waiting", "active", "saved", "stalled", "failed"} /\ e \in jobs[j].events

(* "Do not silently drop": an event answered as accepted has a row or is in a *)
(* job that Redis still holds, whatever crashed in between.                   *)
AcceptedNotLost == \A e \in acked : rows[e] > 0 \/ Kept(e)

(* Seen from the events, retries, redeliveries, outages and crashes do nothing *)
(* that EventDelivery does not allow: an event that is delivered again, sent  *)
(* again by the client, or inserted by the worker and by a request keeps its  *)
(* one row, it leaves the queue only with that row, and 202 is answered only  *)
(* for what is stored or queued in that step.                                 *)
Delivery == INSTANCE EventDelivery WITH rows <- rows, queued <- {e \in Events : Kept(e)}
ImplementsDelivery == Delivery!Spec

(* In no window of Window milliseconds does a process let more than Limit     *)
(* requests pass (a restart begins with an empty list).                       *)
RateBound ==
    \A t \in 0..MaxClock :
        Cardinality({a \in admitted : t <= a[1] /\ a[1] < t + Window}) <= Limit

(* An accepted event is stored, or its job is visible in the failed set. *)
AcceptedSettles ==
    \A e \in Events :
        e \in acked ~> \/ rows[e] > 0
                       \/ \E j \in Jobs : jobs[j].state = "failed" /\ e \in jobs[j].events

(* If every Redis outage ends, each request that got as far as the queue is    *)
(* answered, whatever is rejected, sent again or cut short by a crash.  (While *)
(* Redis stays away it is not: DegradedInsert.)                                *)
BatchAnswered == \A h \in Handlers : pc[h] # "idle" ~> pc[h] = "idle"

(* "BullMQ unavailable -> degraded sync insert succeeds": a request that meets *)
(* Redis unreachable ends, if not by the queue then by the insert.  The code   *)
(* does not keep this: with maxRetriesPerRequest null queue.add waits and does *)
(* not reject, so the catch that leads to the insert is not reached.           *)
DegradedInsert ==
    \A h \in Handlers : (pc[h] = "enqueue" /\ ~redisUp) ~> pc[h] = "idle"
=============================================================================
