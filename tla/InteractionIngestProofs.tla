----------------------- MODULE InteractionIngestProofs -----------------------
(***************************************************************************)
(* Telemetry intake delivers, for any events, handlers, jobs, limits and   *)
(* numbers of outages: InteractionIngest implements EventDelivery, whose   *)
(* promise is that an event gets one row however often it is stored and    *)
(* that no acknowledged event is lost.  The limiter plays no part in this; *)
(* its bound is proved last, from an inductive invariant of its own.       *)
(*                                                                         *)
(* The inductive invariant adds to the types what the queue knows of the   *)
(* table: the events of a job that was processed have rows (SavedIsStored),*)
(* and a job that is still to be tried has an attempt left (AttemptsLeft), *)
(* so that what AfterAttempt says of the last attempt is true.             *)
(***************************************************************************)
EXTENDS InteractionIngest, FiniteSetTheorems, TLAPS

DeliveryTypeOK ==
    /\ rows \in [Events -> Nat]
    /\ jobs \in [Jobs -> Job]
    /\ pc \in [Handlers -> {"idle", "enqueue", "persist"}]
    /\ batch \in [Handlers -> SUBSET Events]
    /\ acked \in SUBSET Events

(* skipDuplicates in both paths: no event has a second row. *)
NoDuplicateRows == \A e \in Events : rows[e] <= 1

(* A job that was processed or removed has stored its events. *)
SavedIsStored ==
    \A j \in Jobs : jobs[j].state \in {"saved", "removed"} =>
        \A e \in jobs[j].events : rows[e] > 0

InHand == {"waiting", "active", "saved", "stalled"}
AttemptsLeft == \A j \in Jobs : jobs[j].state \in InHand => jobs[j].attempts < MaxAttempts

IInv == DeliveryTypeOK /\ NoDuplicateRows /\ SavedIsStored /\ AttemptsLeft

Queued == {e \in Events : Kept(e)}

-----------------------------------------------------------------------------
(* createMany with skipDuplicates stores what it is given and nothing else,   *)
(* and gives no event a second row.                                           *)
LEMMA InsertStores ==
    ASSUME rows \in [Events -> Nat], NEW S \in SUBSET Events, Insert(S)
    PROVE  /\ rows' \in [Events -> Nat]
           /\ \A e \in S : rows'[e] > 0
           /\ \A e \in Events : rows[e] > 0 => rows'[e] > 0
           /\ NoDuplicateRows =>
                 /\ NoDuplicateRows'
                 /\ rows' = [e \in Events |-> IF e \in S THEN 1 ELSE rows[e]]
<1>1. \A e \in Events : rows'[e] = IF e \in S /\ rows[e] = 0 THEN 1 ELSE rows[e]
  BY DEF Insert
<1>2. rows' \in [Events -> Nat]
  BY DEF Insert
<1>3. \A e \in S : rows'[e] > 0
  BY <1>1
<1>4. ASSUME NoDuplicateRows
      PROVE  /\ NoDuplicateRows'
             /\ rows' = [e \in Events |-> IF e \in S THEN 1 ELSE rows[e]]
  <2>1. \A e \in Events : rows[e] \in {0, 1}
    BY <1>4 DEF NoDuplicateRows
  <2>2. \A e \in Events : rows'[e] = IF e \in S THEN 1 ELSE rows[e]
    BY <1>1, <2>1
  <2>3. NoDuplicateRows'
    BY <2>1, <2>2 DEF NoDuplicateRows
  <2>4. QED
    BY <1>2, <2>2, <2>3
<1>5. QED
  BY <1>1, <1>2, <1>3, <1>4

(* An insert that may not have happened. *)
LEMMA MaybeInsertStores ==
    ASSUME rows \in [Events -> Nat], NEW S \in SUBSET Events, Insert(S) \/ UNCHANGED rows
    PROVE  /\ rows' \in [Events -> Nat]
           /\ \A e \in Events : rows[e] > 0 => rows'[e] > 0
           /\ NoDuplicateRows => NoDuplicateRows'
<1>1. CASE Insert(S)
  BY <1>1, InsertStores
<1>2. CASE UNCHANGED rows
  BY <1>2 DEF NoDuplicateRows
<1>3. QED
  BY <1>1, <1>2

(* Rows are never removed: jobs that stay as they are stay stored. *)
LEMMA SavedStaysStored ==
    ASSUME DeliveryTypeOK, SavedIsStored, UNCHANGED jobs,
           \A e \in Events : rows[e] > 0 => rows'[e] > 0
    PROVE  SavedIsStored'
BY DEF SavedIsStored, DeliveryTypeOK, Job

(* A step of one job that leaves the rows alone and does not end in "saved" or *)
(* "removed".                                                                  *)
LEMMA OneJobMoves ==
    ASSUME IInv, NEW j \in Jobs, NEW k \in Job,
           jobs' = [jobs EXCEPT ![j] = k],
           \A e \in Events : rows[e] > 0 => rows'[e] > 0,
           k.state \in {"saved", "removed"} => \A e \in k.events : rows'[e] > 0,
           k.state \in InHand => k.attempts < MaxAttempts
    PROVE  jobs' \in [Jobs -> Job] /\ SavedIsStored' /\ AttemptsLeft'
<1>1. jobs' \in [Jobs -> Job]
  BY DEF IInv, DeliveryTypeOK
<1>2. \A i \in Jobs : jobs'[i] = IF i = j THEN k ELSE jobs[i]
  BY DEF IInv, DeliveryTypeOK
<1>3. \A i \in Jobs : jobs[i].events \subseteq Events
  BY DEF IInv, DeliveryTypeOK, Job
<1>4. SavedIsStored'
  BY <1>2, <1>3 DEF IInv, SavedIsStored
<1>5. AttemptsLeft'
  BY <1>2 DEF IInv, AttemptsLeft
<1>6. QED
  BY <1>1, <1>4, <1>5

-----------------------------------------------------------------------------
LEMMA InitInv == Init => IInv
BY DEF Init, IInv, DeliveryTypeOK, NoDuplicateRows, SavedIsStored, AttemptsLeft, Job, NoJob,
       JobState, MaxAttempts, MaxStalls, InHand

(* What a handler does to its own locals and to the answer. *)
LEMMA GotoTypes ==
    ASSUME DeliveryTypeOK, NEW h \in Handlers, NEW label \in {"idle", "enqueue", "persist"},
           NEW S \in SUBSET Events, Goto(h, label, S), acked' \in {acked, acked \cup batch[h]}
    PROVE  /\ pc' \in [Handlers -> {"idle", "enqueue", "persist"}]
           /\ batch' \in [Handlers -> SUBSET Events]
           /\ acked' \in SUBSET Events
BY DEF DeliveryTypeOK, Goto

(* queue.add puts a job into a free place. *)
LEMMA AddedJob ==
    ASSUME IInv, NEW h \in Handlers, NEW j \in Jobs, UNCHANGED rows,
           jobs' = [jobs EXCEPT ![j] = [NoJob EXCEPT !.state = "waiting", !.events = batch[h]]]
    PROVE  jobs' \in [Jobs -> Job] /\ SavedIsStored' /\ AttemptsLeft'
<1> DEFINE k == [NoJob EXCEPT !.state = "waiting", !.events = batch[h]]
<1>1. batch[h] \in SUBSET Events
  BY DEF IInv, DeliveryTypeOK
<1>2. NoJob \in Job /\ NoJob.attempts = 0 /\ 0 < MaxAttempts
  BY DEF NoJob, Job, JobState, MaxAttempts, MaxStalls
<1>3. k.state = "waiting" /\ k.attempts = 0
  BY <1>2 DEF Job
<1>4. k \in Job
  BY <1>1, <1>2 DEF Job, JobState
<1>5. QED
  BY <1>2, <1>3, <1>4, OneJobMoves

LEMMA SubmitInv ==
    ASSUME IInv, NEW h \in Handlers, NEW events \in SUBSET Events, NEW valid \in SUBSET events,
           Submit(h, events, valid)
    PROVE  IInv'
<1>1. UNCHANGED <<rows, jobs, acked>>
  BY DEF Submit, Refuse, Unanswered, redisVars
<1>2. \E label \in {"idle", "enqueue", "persist"}, S \in SUBSET Events : Goto(h, label, S)
  BY DEF Submit, Refuse
<1>3. DeliveryTypeOK'
  BY <1>1, <1>2, GotoTypes DEF IInv, DeliveryTypeOK
<1>4. QED
  BY <1>1, <1>3 DEF IInv, NoDuplicateRows, SavedIsStored, AttemptsLeft

LEMMA EnqueueInv ==
    ASSUME IInv, NEW h \in Handlers, EnqueueOk(h) \/ EnqueueReplyLost(h)
    PROVE  IInv'
<1>1. UNCHANGED rows /\ jobs' \in [Jobs -> Job] /\ SavedIsStored' /\ AttemptsLeft'
  BY AddedJob DEF EnqueueOk, EnqueueReplyLost
<1>2. CASE EnqueueOk(h)
  BY <1>1, <1>2, GotoTypes DEF IInv, EnqueueOk, Accept, DeliveryTypeOK, NoDuplicateRows
<1>3. CASE EnqueueReplyLost(h)
  BY <1>1, <1>3 DEF IInv, EnqueueReplyLost, DeliveryTypeOK, NoDuplicateRows
<1>4. QED
  BY <1>2, <1>3

LEMMA FallbackInv ==
    ASSUME IInv, NEW h \in Handlers, EnqueueRejected(h) \/ PersistOk(h) \/ PersistFailed(h)
    PROVE  IInv'
<1>1. batch[h] \in SUBSET Events /\ {} \in SUBSET Events /\ rows \in [Events -> Nat]
  BY DEF IInv, DeliveryTypeOK
<1>2. UNCHANGED jobs /\ (Insert(batch[h]) \/ UNCHANGED rows)
  BY DEF EnqueueRejected, PersistOk, PersistFailed, redisVars
<1>3. /\ rows' \in [Events -> Nat]
      /\ \A e \in Events : rows[e] > 0 => rows'[e] > 0
      /\ NoDuplicateRows'
  BY <1>1, <1>2, MaybeInsertStores DEF IInv
<1>4. \E label \in {"idle", "enqueue", "persist"}, S \in SUBSET Events : Goto(h, label, S)
  BY <1>1 DEF EnqueueRejected, PersistOk, PersistFailed, Accept, Refuse
<1>5. acked' \in {acked, acked \cup batch[h]}
  BY DEF EnqueueRejected, PersistOk, PersistFailed, Accept, Refuse, Unanswered
<1>6. DeliveryTypeOK'
  BY <1>2, <1>3, <1>4, <1>5, GotoTypes DEF IInv, DeliveryTypeOK
<1>7. SavedIsStored'
  BY <1>2, <1>3, SavedStaysStored DEF IInv
<1>8. QED
  BY <1>2, <1>3, <1>6, <1>7 DEF IInv, AttemptsLeft

(* The worker: each step gives one job a new state, after an insert or not. *)
LEMMA WorkInv ==
    ASSUME IInv, NEW j \in Jobs, Work(j)
    PROVE  IInv'
<1> DEFINE job == jobs[j]
<1>0. job \in Job /\ job.events \in SUBSET Events /\ rows \in [Events -> Nat]
  BY DEF IInv, DeliveryTypeOK, Job
<1>1. /\ rows' \in [Events -> Nat]
      /\ \A e \in Events : rows[e] > 0 => rows'[e] > 0
      /\ NoDuplicateRows'
  <2>1. Insert(job.events) \/ UNCHANGED rows
    BY DEF Work, Take, Process, Complete, AttemptFails, StalledCheck
  <2>2. QED
    BY <1>0, <2>1, MaybeInsertStores DEF IInv
<1>2. jobs' \in [Jobs -> Job] /\ SavedIsStored' /\ AttemptsLeft'
  <2>1. CASE Take(j)
    <3> DEFINE k == [job EXCEPT !.state = "active"]
    <3>1. jobs' = [jobs EXCEPT ![j] = k] /\ job.state = "waiting"
      BY <2>1 DEF Take, Move
    <3>2. k \in Job /\ k.state = "active" /\ k.attempts < MaxAttempts
      BY <1>0, <3>1 DEF Job, JobState, IInv, AttemptsLeft, InHand
    <3>3. QED
      BY <1>1, <3>1, <3>2, OneJobMoves
  <2>2. CASE Process(j)
    <3> DEFINE k == [job EXCEPT !.state = "saved"]
    <3>1. jobs' = [jobs EXCEPT ![j] = k] /\ job.state = "active" /\ Insert(job.events)
      BY <2>2 DEF Process, Move
    <3>2. k \in Job /\ k.state = "saved" /\ k.attempts < MaxAttempts /\ k.events = job.events
      BY <1>0, <3>1 DEF Job, JobState, IInv, AttemptsLeft, InHand
    <3>3. \A e \in job.events : rows'[e] > 0
      BY <1>0, <3>1, InsertStores
    <3>4. QED
      BY <1>1, <3>1, <3>2, <3>3, OneJobMoves
  <2>3. CASE Complete(j)
    <3> DEFINE k == [job EXCEPT !.state = "removed"]
    <3>1. jobs' = [jobs EXCEPT ![j] = k] /\ job.state = "saved"
      BY <2>3 DEF Complete, Move
    <3>2. k \in Job /\ k.state = "removed" /\ k.events = job.events
      BY <1>0, <3>1 DEF Job, JobState
    <3>3. \A e \in k.events : rows'[e] > 0
      BY <1>0, <1>1, <3>1, <3>2 DEF IInv, SavedIsStored
    <3>4. QED
      BY <1>1, <3>1, <3>2, <3>3, OneJobMoves DEF InHand
  <2>4. CASE AttemptFails(j)
    <3> DEFINE tried == job.attempts + 1
               k == [job EXCEPT !.attempts = tried, !.state = AfterAttempt(tried)]
    <3>1. jobs' = [jobs EXCEPT ![j] = k] /\ job.state = "active"
      BY <2>4 DEF AttemptFails
    <3>2. tried \in 0..MaxAttempts
      BY <1>0, <3>1 DEF Job, MaxAttempts, IInv, AttemptsLeft, InHand
    <3>3. /\ AfterAttempt(tried) \in {"waiting", "failed"}
          /\ AfterAttempt(tried) = "waiting" => tried < MaxAttempts
      BY <3>2 DEF AfterAttempt
    <3>4. k.state = AfterAttempt(tried) /\ k.attempts = tried
      BY <1>0 DEF Job
    <3>5. k \in Job
      BY <1>0, <3>2, <3>3 DEF Job, JobState
    <3>6. QED
      BY <1>1, <3>1, <3>3, <3>4, <3>5, OneJobMoves DEF InHand
  <2>5. CASE StalledCheck(j)
    <3> DEFINE again == [job EXCEPT !.state = "waiting", !.stalls = @ + 1]
               lost == [job EXCEPT !.state = "failed"]
    <3>1. job.state = "stalled" /\ job.attempts < MaxAttempts
      BY <2>5 DEF StalledCheck, IInv, AttemptsLeft, InHand
    <3>2. CASE job.stalls < MaxStalls /\ jobs' = [jobs EXCEPT ![j] = again]
      <4>1. again.state = "waiting" /\ again.attempts = job.attempts
        BY <1>0 DEF Job
      <4>2. job.stalls + 1 \in 0..MaxStalls
        BY <1>0, <3>2 DEF Job, MaxStalls
      <4>3. again \in Job
        BY <1>0, <4>2 DEF Job, JobState
      <4>4. QED
        BY <1>1, <3>1, <3>2, <4>1, <4>3, OneJobMoves
    <3>3. CASE jobs' = [jobs EXCEPT ![j] = lost]
      <4>1. lost \in Job /\ lost.state = "failed"
        BY <1>0 DEF Job, JobState
      <4>2. QED
        BY <1>1, <3>3, <4>1, OneJobMoves DEF InHand
    <3>4. QED
      BY <2>5, <3>2, <3>3 DEF StalledCheck, Move
  <2>6. QED
    BY <2>1, <2>2, <2>3, <2>4, <2>5 DEF Work
<1>3. UNCHANGED <<pc, batch, acked>>
  BY DEF Work, Take, Process, Complete, AttemptFails, StalledCheck
<1>4. QED
  BY <1>1, <1>2, <1>3 DEF IInv, DeliveryTypeOK

LEMMA CrashInv ==
    ASSUME IInv, Crash
    PROVE  IInv'
<1>1. \A j \in Jobs :
        /\ jobs'[j] \in Job
        /\ jobs'[j].events = jobs[j].events /\ jobs'[j].attempts = jobs[j].attempts
        /\ jobs'[j].state \in {"saved", "removed"} => jobs'[j].state = jobs[j].state
        /\ jobs'[j].state \in InHand => jobs[j].state \in InHand
  BY DEF Crash, IInv, DeliveryTypeOK, Job, JobState, InHand
<1>2. UNCHANGED <<rows, acked>>
  BY DEF Crash
<1>3. DeliveryTypeOK'
  <2>1. jobs' \in [Jobs -> Job]
    BY <1>1 DEF Crash
  <2>2. QED
    BY <1>2, <2>1 DEF Crash, IInv, DeliveryTypeOK
<1>4. SavedIsStored' /\ AttemptsLeft' /\ NoDuplicateRows'
  BY <1>1, <1>2 DEF IInv, SavedIsStored, AttemptsLeft, NoDuplicateRows
<1>5. QED
  BY <1>3, <1>4 DEF IInv

LEMMA StepInv == IInv /\ [Next]_vars => IInv'
<1> SUFFICES ASSUME IInv, [Next]_vars PROVE IInv'
  OBVIOUS
<1>1. ASSUME NEW h \in Handlers, Arrive(h) PROVE IInv'
  BY <1>1, SubmitInv DEF Arrive
<1>2. ASSUME NEW h \in Handlers, Resume(h) PROVE IInv'
  BY <1>2, EnqueueInv, FallbackInv DEF Resume
<1>3. ASSUME NEW j \in Jobs, Work(j) PROVE IInv'
  BY <1>3, WorkInv
<1>4. CASE Crash
  BY <1>4, CrashInv
<1>5. CASE RedisDown \/ RedisBack \/ Tick \/ UNCHANGED vars
  <2>1. UNCHANGED <<rows, jobs, pc, batch, acked>>
    BY <1>5 DEF RedisDown, RedisBack, Tick, vars, redisVars
  <2>2. QED
    BY <2>1 DEF IInv, DeliveryTypeOK, NoDuplicateRows, SavedIsStored, AttemptsLeft
<1>6. QED
  BY <1>1, <1>2, <1>3, <1>4, <1>5 DEF Next

(* In every reachable state no event has two rows, processed jobs are stored, *)
(* and a job in hand has an attempt left.                                     *)
THEOREM Invariance == Safety => []IInv
BY InitInv, StepInv, PTL DEF Safety

-----------------------------------------------------------------------------
(* The refinement.  What a step does to the events of the queue and of the    *)
(* table is what one action of EventDelivery does.                            *)

Held == {"waiting", "active", "saved", "stalled", "failed"}

(* The jobs keep their events, and none enters or leaves the queue. *)
LEMMA QueueStays ==
    ASSUME \A j \in Jobs : /\ jobs'[j].events = jobs[j].events
                           /\ jobs'[j].state \in Held <=> jobs[j].state \in Held
    PROVE  Queued' = Queued
BY DEF Queued, Kept, Held

LEMMA JobMovesInQueue ==
    ASSUME IInv, NEW j \in Jobs, jobs[j].state \in Held, NEW k \in Job,
           jobs' = [jobs EXCEPT ![j] = k], k.events = jobs[j].events, k.state \in Held
    PROVE  Queued' = Queued
<1>1. \A i \in Jobs : jobs'[i] = IF i = j THEN k ELSE jobs[i]
  BY DEF IInv, DeliveryTypeOK
<1>2. QED
  BY <1>1, QueueStays

LEMMA AddDelivers ==
    ASSUME IInv, NEW h \in Handlers, EnqueueOk(h) \/ EnqueueReplyLost(h)
    PROVE  Delivery!Queue(batch[h])
<1>1. PICK j \in Jobs :
        /\ jobs[j].state = "none"
        /\ jobs' = [jobs EXCEPT ![j] = [NoJob EXCEPT !.state = "waiting", !.events = batch[h]]]
  BY DEF EnqueueOk, EnqueueReplyLost
<1> DEFINE k == [NoJob EXCEPT !.state = "waiting", !.events = batch[h]]
<1>2. NoJob \in Job
  BY DEF NoJob, Job, JobState, MaxAttempts, MaxStalls
<1>3. k.state = "waiting" /\ k.events = batch[h]
  BY <1>2 DEF Job
<1>4. \A i \in Jobs : jobs'[i] = IF i = j THEN k ELSE jobs[i]
  BY <1>1 DEF IInv, DeliveryTypeOK
<1>5. batch[h] \in SUBSET Events
  BY DEF IInv, DeliveryTypeOK
<1>6. Queued' = Queued \cup batch[h]
  <2>1. ASSUME NEW e \in Events PROVE Kept(e)' <=> Kept(e) \/ e \in batch[h]
    BY <1>1, <1>3, <1>4 DEF Kept
  <2>2. QED
    BY <1>5, <2>1 DEF Queued
<1>7. acked' \in {acked, acked \cup batch[h]} /\ rows' = rows
  BY DEF EnqueueOk, EnqueueReplyLost, Accept
<1>8. QED
  BY <1>6, <1>7 DEF Delivery!Queue, Delivery!Answer, Queued

(* The fallback insert, with or without an answer. *)
LEMMA PersistDelivers ==
    ASSUME IInv, NEW h \in Handlers, PersistOk(h) \/ PersistFailed(h)
    PROVE  Delivery!Store(batch[h]) \/ UNCHANGED Delivery!vars
<1>1. batch[h] \in SUBSET Events /\ rows \in [Events -> Nat]
  BY DEF IInv, DeliveryTypeOK
<1>2. Queued' = Queued
  BY DEF PersistOk, PersistFailed, redisVars, Queued, Kept
<1>3. CASE Insert(batch[h])
  <2>1. rows' = [e \in Events |-> IF e \in batch[h] THEN 1 ELSE rows[e]]
    BY <1>1, <1>3, InsertStores DEF IInv
  <2>2. acked' \in {acked, acked \cup batch[h]}
    BY DEF PersistOk, PersistFailed, Accept, Refuse, Unanswered
  <2>3. QED
    BY <1>2, <2>1, <2>2 DEF Delivery!Store, Delivery!Answer, Queued
<1>4. CASE PersistFailed(h) /\ UNCHANGED rows
  <2>1. acked' = acked
    BY <1>4 DEF PersistFailed, Refuse, Unanswered
  <2>2. QED
    BY <1>2, <1>4, <2>1 DEF Delivery!vars, Queued
<1>5. QED
  BY <1>3, <1>4 DEF PersistOk, PersistFailed

(* A removed job takes only stored events out of the queue. *)
LEMMA CompleteDelivers ==
    ASSUME IInv, NEW j \in Jobs, Complete(j)
    PROVE  \E S \in SUBSET Events : Delivery!Leave(S)
<1> DEFINE S == Queued \ Queued'
           k == [jobs[j] EXCEPT !.state = "removed"]
<1>0. jobs[j] \in Job
  BY DEF IInv, DeliveryTypeOK
<1>1. /\ \A i \in Jobs : jobs'[i] = IF i = j THEN k ELSE jobs[i]
      /\ k.events = jobs[j].events /\ k.state = "removed" /\ jobs[j].state = "saved"
  BY <1>0 DEF Complete, Move, IInv, DeliveryTypeOK, Job
<1>2. \A e \in Events : Kept(e)' => Kept(e)
  BY <1>1 DEF Kept
<1>3. Queued' \subseteq Queued
  BY <1>2 DEF Queued
<1>4. \A e \in S : e \in Events /\ e \in jobs[j].events
  BY <1>1 DEF Queued, Kept
<1>5. \A e \in S : rows[e] > 0
  BY <1>1, <1>4 DEF IInv, SavedIsStored
<1>6. \A e \in S : rows[e] = 1
  BY <1>4, <1>5 DEF IInv, DeliveryTypeOK, NoDuplicateRows
<1>7. rows' = rows /\ acked' = acked /\ Queued' = Queued \ S
  BY <1>3 DEF Complete
<1>8. Delivery!Leave(S)
  BY <1>6, <1>7 DEF Delivery!Leave, Queued
<1>9. S \in SUBSET Events
  BY DEF Queued
<1>10. QED
  BY <1>8, <1>9

(* The worker inserts, or it moves a job that stays in the queue. *)
LEMMA WorkDelivers ==
    ASSUME IInv, NEW j \in Jobs, Work(j), ~Complete(j)
    PROVE  Delivery!Store(jobs[j].events) \/ UNCHANGED Delivery!vars
<1> DEFINE job == jobs[j]
<1>0. job \in Job /\ job.events \in SUBSET Events /\ rows \in [Events -> Nat]
  BY DEF IInv, DeliveryTypeOK, Job
<1>1. \A i \in Jobs \ {j} : jobs'[i] = jobs[i]
  BY DEF Work, Take, Process, AttemptFails, StalledCheck, Move, IInv, DeliveryTypeOK
<1>2. jobs'[j].events = job.events /\ job.state \in Held /\ jobs'[j].state \in Held
  <2>1. CASE Take(j) \/ Process(j)
    BY <1>0, <2>1 DEF Take, Process, Move, Held, IInv, DeliveryTypeOK, Job
  <2>2. CASE AttemptFails(j)
    BY <1>0, <2>2 DEF AttemptFails, AfterAttempt, Held, IInv, DeliveryTypeOK, Job
  <2>3. CASE StalledCheck(j)
    BY <1>0, <2>3 DEF StalledCheck, Move, Held, IInv, DeliveryTypeOK, Job
  <2>4. QED
    BY <2>1, <2>2, <2>3 DEF Work
<1>3. Queued' = Queued
  BY <1>1, <1>2, QueueStays
<1>4. acked' = acked /\ (Insert(job.events) \/ UNCHANGED rows)
  BY DEF Work, Take, Process, AttemptFails, StalledCheck
<1>5. CASE Insert(job.events)
  <2>1. rows' = [e \in Events |-> IF e \in job.events THEN 1 ELSE rows[e]]
    BY <1>0, <1>5, InsertStores DEF IInv
  <2>2. QED
    BY <1>3, <1>4, <2>1 DEF Delivery!Store, Delivery!Answer, Queued
<1>6. CASE UNCHANGED rows
  BY <1>3, <1>4, <1>6 DEF Delivery!vars, Queued
<1>7. QED
  BY <1>4, <1>5, <1>6

LEMMA CrashDelivers ==
    ASSUME IInv, Crash
    PROVE  UNCHANGED Delivery!vars
<1>1. \A j \in Jobs : /\ jobs'[j].events = jobs[j].events
                     /\ jobs'[j].state \in Held <=> jobs[j].state \in Held
  BY DEF Crash, IInv, DeliveryTypeOK, Job, JobState, Held
<1>2. QED
  BY <1>1, QueueStays DEF Crash, Delivery!vars, Queued

LEMMA DeliveryInit == Init => Delivery!Init
BY DEF Init, Delivery!Init, Kept, NoJob

LEMMA DeliveryStep == IInv /\ [Next]_vars => [Delivery!Next]_(Delivery!vars)
<1> SUFFICES ASSUME IInv, [Next]_vars PROVE Delivery!Next \/ UNCHANGED Delivery!vars
  OBVIOUS
<1>1. ASSUME NEW h \in Handlers, Resume(h) PROVE Delivery!Next \/ UNCHANGED Delivery!vars
  <2>1. batch[h] \in SUBSET Events
    BY DEF IInv, DeliveryTypeOK
  <2>2. CASE EnqueueRejected(h)
    BY <2>2 DEF EnqueueRejected, redisVars, Delivery!vars, Kept
  <2>3. CASE EnqueueOk(h) \/ EnqueueReplyLost(h)
    <3>1. Delivery!Queue(batch[h])
      BY <2>3, AddDelivers
    <3>2. QED
      BY <2>1, <3>1 DEF Delivery!Next
  <2>4. CASE PersistOk(h) \/ PersistFailed(h)
    <3>1. Delivery!Store(batch[h]) \/ UNCHANGED Delivery!vars
      BY <2>4, PersistDelivers
    <3>2. Delivery!Store(batch[h]) => Delivery!Next
      BY <2>1 DEF Delivery!Next, Delivery!Store, Delivery!Answer
    <3>3. QED
      BY <3>1, <3>2
  <2>5. QED
    BY <1>1, <2>2, <2>3, <2>4 DEF Resume
<1>2. ASSUME NEW j \in Jobs, Work(j) PROVE Delivery!Next \/ UNCHANGED Delivery!vars
  <2>1. jobs[j].events \in SUBSET Events
    BY DEF IInv, DeliveryTypeOK, Job
  <2>2. CASE Complete(j)
    BY <2>2, CompleteDelivers DEF Delivery!Next
  <2>3. CASE ~Complete(j)
    <3>1. Delivery!Store(jobs[j].events) \/ UNCHANGED Delivery!vars
      BY <1>2, <2>3, WorkDelivers
    <3>2. Delivery!Store(jobs[j].events) => Delivery!Next
      BY <2>1 DEF Delivery!Next, Delivery!Store, Delivery!Answer
    <3>3. QED
      BY <3>1, <3>2
  <2>4. QED
    BY <2>2, <2>3
<1>3. CASE Crash
  BY <1>3, CrashDelivers
<1>4. ASSUME NEW h \in Handlers, Arrive(h) PROVE UNCHANGED Delivery!vars
  <2>1. UNCHANGED <<rows, jobs, acked>>
    BY <1>4 DEF Arrive, Submit, Refuse, Unanswered, redisVars
  <2>2. QED
    BY <2>1 DEF Delivery!vars, Kept
<1>5. CASE RedisDown \/ RedisBack \/ Tick \/ UNCHANGED vars
  <2>1. UNCHANGED <<rows, jobs, acked>>
    BY <1>5 DEF RedisDown, RedisBack, Tick, vars, redisVars
  <2>2. QED
    BY <2>1 DEF Delivery!vars, Kept
<1>6. QED
  BY <1>1, <1>2, <1>3, <1>4, <1>5 DEF Next

(* Requests, retries, redeliveries, outages and crashes do to the events only  *)
(* what EventDelivery allows.                                                  *)
THEOREM IngestImplementsDelivery == Safety => ImplementsDelivery
BY DeliveryInit, DeliveryStep, Invariance, PTL DEF Safety, ImplementsDelivery, Delivery!Spec

(* The promise of the abstract specification: what is acknowledged is stored   *)
(* or in the queue.                                                            *)
THEOREM DeliveryLosesNothing == Delivery!Spec => []Delivery!NothingLost
<1> DEFINE Promise == acked \in SUBSET Events /\ Delivery!NothingLost
<1>1. Delivery!Init => Promise
  BY DEF Delivery!Init, Delivery!NothingLost
<1>2. Promise /\ [Delivery!Next]_(Delivery!vars) => Promise'
  BY DEF Delivery!NothingLost, Delivery!Next, Delivery!vars, Delivery!Queue, Delivery!Store,
         Delivery!Leave, Delivery!Answer
<1>3. QED
  BY <1>1, <1>2, PTL DEF Delivery!Spec

(* An event answered with 202 has a row or is in a job that Redis still holds, *)
(* the failed ones included.                                                   *)
THEOREM AcceptedIsNotLost == Safety => []AcceptedNotLost
<1>1. Delivery!NothingLost => AcceptedNotLost
  BY DEF Delivery!NothingLost, AcceptedNotLost
<1>2. QED
  BY <1>1, IngestImplementsDelivery, DeliveryLosesNothing, PTL DEF ImplementsDelivery

-----------------------------------------------------------------------------
(* The limiter.  Its list forgets: what makes the bound inductive is that it  *)
(* holds every request of the current window (ListIsRecent), and that the     *)
(* requests of one time are numbered without a gap (AreNumbered), so that one *)
(* more is one more.                                                          *)

RestTypeOK ==
    /\ redisUp \in BOOLEAN
    /\ outages \in 0..MaxOutages
    /\ clock \in 0..MaxClock
    /\ stamps \in SUBSET ((0..MaxClock) \X Nat)
    /\ admitted \in SUBSET ((0..MaxClock) \X (1..Limit + 1))

At(A, t) == {a \in A : a[1] = t}
AreNumbered ==
    /\ IsFiniteSet(admitted)
    /\ \A a \in admitted : a[1] <= clock /\ a[2] <= Cardinality(At(admitted, a[1]))
ListIsRecent == Recent = {a \in admitted : clock - a[1] < Window}

LimiterInv == RestTypeOK /\ AreNumbered /\ ListIsRecent /\ RateBound

LEMMA InitLimiter == Init => LimiterInv
<1> SUFFICES ASSUME Init PROVE LimiterInv
  OBVIOUS
<1>1. RestTypeOK
  BY IngestAssumption DEF Init, RestTypeOK
<1>2. admitted = {} /\ stamps = {}
  BY DEF Init
<1>3. AreNumbered /\ ListIsRecent
  BY <1>2, FS_EmptySet DEF AreNumbered, ListIsRecent, Recent
<1>4. RateBound
  <2> SUFFICES ASSUME NEW t \in 0..MaxClock
               PROVE  Cardinality({a \in admitted : t <= a[1] /\ a[1] < t + Window}) <= Limit
    BY DEF RateBound
  <2>1. {a \in admitted : t <= a[1] /\ a[1] < t + Window} = {}
    BY <1>2
  <2>2. QED
    BY <2>1, FS_EmptySet, IngestAssumption
<1>5. QED
  BY <1>1, <1>3, <1>4 DEF LimiterInv

(* The number of a new request is free. *)
LEMMA StampIsNew ==
    ASSUME LimiterInv
    PROVE  /\ Stamp(admitted) \notin admitted
           /\ Stamp(admitted)[1] = clock
           /\ Stamp(admitted)[2] = Cardinality(At(admitted, clock)) + 1
           /\ IsFiniteSet(At(admitted, clock))
           /\ Cardinality(At(admitted, clock)) \in Nat
<1> DEFINE n == Cardinality(At(admitted, clock))
<1>1. IsFiniteSet(At(admitted, clock))
  BY FS_Subset DEF LimiterInv, AreNumbered, At
<1>2. n \in Nat
  BY <1>1, FS_CardinalityType
<1>3. Stamp(admitted) = <<clock, n + 1>>
  BY DEF Stamp, At
<1> HIDE DEF n
<1>4. ASSUME <<clock, n + 1>> \in admitted PROVE FALSE
  <2>1. n + 1 <= n
    BY <1>4 DEF LimiterInv, AreNumbered, n
  <2>2. QED
    BY <1>2, <2>1
<1>5. QED
  BY <1>1, <1>2, <1>3, <1>4 DEF n

(* A request that is let through. *)
LEMMA AdmitLimiter == ASSUME LimiterInv, Admit, UNCHANGED <<clock, redisUp, outages>> PROVE LimiterInv'
<1> DEFINE e == Stamp(admitted)
<1>1. /\ e \notin admitted /\ e[1] = clock /\ e[2] = Cardinality(At(admitted, clock)) + 1
      /\ IsFiniteSet(At(admitted, clock)) /\ Cardinality(At(admitted, clock)) \in Nat
  BY StampIsNew
<1>2. /\ clock \in 0..MaxClock /\ MaxClock \in Nat /\ Window \in Nat /\ Limit \in Nat
      /\ admitted \subseteq (0..MaxClock) \X (1..Limit + 1) /\ IsFiniteSet(admitted)
      /\ stamps \subseteq (0..MaxClock) \X Nat
  BY IngestAssumption DEF LimiterInv, RestTypeOK, AreNumbered
<1>3. admitted' \in {admitted, admitted \cup {e}} /\ (admitted' = admitted => e[2] > Limit + 1)
  BY <1>1, <1>2 DEF Admit
<1>4. IsFiniteSet(admitted')
  BY <1>2, <1>3, FS_AddElement
<1>5. RestTypeOK'
  <2>1. e = <<clock, e[2]>> /\ e[2] \in Nat /\ e[2] >= 1
    BY <1>1 DEF Stamp
  <2>2. admitted' \subseteq (0..MaxClock) \X (1..Limit + 1)
    <3>1. CASE e[2] <= Limit + 1
      BY <1>2, <1>3, <2>1, <3>1
    <3>2. CASE ~(e[2] <= Limit + 1)
      BY <1>2, <3>2 DEF Admit
    <3>3. QED
      BY <3>1, <3>2
  <2>3. stamps' \subseteq (0..MaxClock) \X Nat
    <3>1. Recent \subseteq stamps
      BY DEF Recent
    <3>2. IsFiniteSet({a \in Recent : a[1] = clock})
      <4>1. {a \in Recent : a[1] = clock} \subseteq admitted
        BY DEF LimiterInv, ListIsRecent
      <4>2. QED
        BY <1>2, <4>1, FS_Subset
    <3>3. Stamp(Recent) \in (0..MaxClock) \X Nat
      BY <1>2, <3>2, FS_CardinalityType DEF Stamp
    <3>4. QED
      BY <1>2, <3>1, <3>3 DEF Admit
  <2>4. QED
    BY <2>2, <2>3 DEF LimiterInv, RestTypeOK
<1>6. AreNumbered'
  <2> SUFFICES ASSUME NEW a \in admitted'
               PROVE  a[1] <= clock /\ a[2] <= Cardinality(At(admitted', a[1]))
    BY <1>4 DEF AreNumbered, At
  <2>1. At(admitted, a[1]) \subseteq At(admitted', a[1]) /\ IsFiniteSet(At(admitted', a[1]))
    BY <1>3, <1>4, FS_Subset DEF At
  <2>2. CASE a \in admitted
    <3>1. a[2] <= Cardinality(At(admitted, a[1])) /\ a[1] <= clock /\ a[2] \in Nat
      BY <1>2, <2>2 DEF LimiterInv, AreNumbered
    <3>2. Cardinality(At(admitted, a[1])) <= Cardinality(At(admitted', a[1]))
      BY <2>1, FS_Subset
    <3>3. IsFiniteSet(At(admitted, a[1]))
      BY <2>1, FS_Subset
    <3>4. Cardinality(At(admitted, a[1])) \in Nat /\ Cardinality(At(admitted', a[1])) \in Nat
      BY <2>1, <3>3, FS_CardinalityType
    <3>5. QED
      BY <3>1, <3>2, <3>4
  <2>3. CASE a = e /\ admitted' = admitted \cup {e}
    <3>1. At(admitted', clock) = At(admitted, clock) \cup {e} /\ e \notin At(admitted, clock)
      BY <1>1, <2>3 DEF At
    <3>2. Cardinality(At(admitted', clock)) = Cardinality(At(admitted, clock)) + 1
      BY <1>1, <3>1, FS_AddElement
    <3>3. QED
      BY <1>1, <1>2, <2>3, <3>2
  <2>4. QED
    BY <1>3, <2>2, <2>3
<1>7. Cardinality(Recent) < Limit /\ IsFiniteSet(Recent) /\ Cardinality(Recent) \in Nat
  <2>1. Recent \subseteq admitted
    BY DEF LimiterInv, ListIsRecent
  <2>2. QED
    BY <1>2, <2>1, FS_Subset, FS_CardinalityType DEF Admit, WithinLimit
<1>8. ASSUME Window # 0
      PROVE  At(Recent, clock) = At(admitted, clock) /\ Stamp(Recent) = e /\ admitted' = admitted \cup {e}
  <2>1. At(Recent, clock) = At(admitted, clock)
    BY <1>2, <1>8 DEF LimiterInv, ListIsRecent, At
  <2>2. Stamp(Recent) = e
    BY <2>1 DEF Stamp, At
  <2>3. Cardinality(At(Recent, clock)) <= Cardinality(Recent)
    BY <1>7, FS_Subset DEF At
  <2>4. e[2] <= Limit + 1
    BY <1>1, <1>2, <1>7, <2>1, <2>3
  <2>5. QED
    BY <2>1, <2>2, <2>4 DEF Admit
<1>9. ListIsRecent'
  <2>1. Recent = {a \in admitted : clock - a[1] < Window}
    BY DEF LimiterInv, ListIsRecent
  <2>2. SUFFICES {a \in stamps' : clock - a[1] < Window} = {a \in admitted' : clock - a[1] < Window}
    BY DEF ListIsRecent, Recent
  <2>3. CASE Window = 0
    <3>1. \A a \in stamps' \cup admitted' : ~(clock - a[1] < Window)
      <4>1. \A a \in stamps' : a = Stamp(Recent) \/ clock - a[1] < Window
        BY DEF Admit, Recent
      <4>2. \A a \in stamps' \cup admitted' : a[1] \in Nat
        BY <1>5 DEF RestTypeOK
      <4>3. \A a \in Recent : a \in admitted
        BY <2>1
      <4>4. \A a \in admitted : a[1] <= clock
        BY DEF LimiterInv, AreNumbered
      <4>5. Stamp(Recent)[1] = clock
        BY DEF Stamp
      <4>6. \A a \in stamps' \cup admitted' : a[1] <= clock
        BY <1>1, <1>2, <1>3, <4>3, <4>4, <4>5 DEF Admit
      <4>7. QED
        BY <1>2, <2>3, <4>2, <4>6
    <3>2. QED
      BY <3>1
  <2>4. CASE Window # 0
    <3>1. stamps' = Recent \cup {e} /\ admitted' = admitted \cup {e}
      BY <1>8, <2>4 DEF Admit
    <3>2. \A a \in Recent : clock - a[1] < Window
      BY DEF Recent
    <3>3. QED
      BY <2>1, <3>1, <3>2
  <2>5. QED
    BY <2>3, <2>4
<1>10. RateBound'
  <2> SUFFICES ASSUME NEW t \in 0..MaxClock
               PROVE  Cardinality({a \in admitted' : t <= a[1] /\ a[1] < t + Window}) <= Limit
    BY DEF RateBound
  <2> DEFINE S == {a \in admitted : t <= a[1] /\ a[1] < t + Window}
             T == {a \in admitted' : t <= a[1] /\ a[1] < t + Window}
  <2>1. Cardinality(S) <= Limit
    BY DEF LimiterInv, RateBound
  <2>2. CASE T = S
    BY <2>1, <2>2
  <2>3. CASE T # S
    <3>1. T = S \cup {e} /\ t <= clock /\ clock < t + Window /\ e \notin S
      BY <1>1, <1>3, <2>3
    <3>2. \A a \in admitted : a[1] \in Nat
      BY <1>2
    <3>3. S \subseteq Recent
      BY <1>2, <3>1, <3>2 DEF LimiterInv, ListIsRecent
    <3>4. IsFiniteSet(S) /\ Cardinality(S) <= Cardinality(Recent)
      BY <1>7, <3>3, FS_Subset
    <3>5. Cardinality(S) \in Nat
      BY <3>4, FS_CardinalityType
    <3>6. Cardinality(T) = Cardinality(S) + 1
      BY <3>1, <3>4, FS_AddElement
    <3>7. QED
      BY <1>2, <1>7, <3>4, <3>5, <3>6
  <2>4. QED
    BY <2>2, <2>3
<1>11. QED
  BY <1>5, <1>6, <1>9, <1>10 DEF LimiterInv

(* Time goes on: the window that the list holds only gets smaller. *)
LEMMA TickLimiter == ASSUME LimiterInv, Tick PROVE LimiterInv'
<1>1. UNCHANGED <<stamps, admitted, redisUp, outages>> /\ clock' = clock + 1 /\ clock < MaxClock
  BY DEF Tick, redisVars
<1>2. /\ clock \in 0..MaxClock /\ MaxClock \in Nat /\ Window \in Nat
      /\ \A a \in admitted \cup stamps : a[1] \in Nat
  BY IngestAssumption DEF LimiterInv, RestTypeOK
<1>3. RestTypeOK'
  BY <1>1, <1>2 DEF LimiterInv, RestTypeOK
<1>4. AreNumbered'
  BY <1>1, <1>2 DEF LimiterInv, AreNumbered, At
<1>5. ListIsRecent'
  <2>1. \A a \in admitted \cup stamps : clock' - a[1] < Window => clock - a[1] < Window
    BY <1>1, <1>2
  <2>2. {a \in stamps : clock - a[1] < Window} = {a \in admitted : clock - a[1] < Window}
    BY DEF LimiterInv, ListIsRecent, Recent
  <2>3. {a \in stamps : clock' - a[1] < Window} = {a \in admitted : clock' - a[1] < Window}
    BY <2>1, <2>2
  <2>4. QED
    BY <1>1, <2>3 DEF ListIsRecent, Recent
<1>6. RateBound'
  BY <1>1 DEF LimiterInv, RateBound
<1>7. QED
  BY <1>3, <1>4, <1>5, <1>6 DEF LimiterInv

LEMMA CrashLimiter == ASSUME LimiterInv, Crash PROVE LimiterInv'
<1>1. stamps' = {} /\ admitted' = {} /\ UNCHANGED <<clock, redisUp, outages>>
  BY DEF Crash
<1>2. RestTypeOK'
  BY <1>1 DEF LimiterInv, RestTypeOK
<1>3. AreNumbered' /\ ListIsRecent'
  BY <1>1, FS_EmptySet DEF AreNumbered, ListIsRecent, Recent
<1>4. RateBound'
  <2> SUFFICES ASSUME NEW t \in 0..MaxClock
               PROVE  Cardinality({a \in admitted' : t <= a[1] /\ a[1] < t + Window}) <= Limit
    BY DEF RateBound
  <2>1. {a \in admitted' : t <= a[1] /\ a[1] < t + Window} = {}
    BY <1>1
  <2>2. QED
    BY <2>1, FS_EmptySet, IngestAssumption
<1>5. QED
  BY <1>2, <1>3, <1>4 DEF LimiterInv

LEMMA LimiterStays ==
    ASSUME LimiterInv, UNCHANGED limiterVars, redisUp' \in BOOLEAN, outages' \in 0..MaxOutages
    PROVE  LimiterInv'
BY DEF limiterVars, LimiterInv, RestTypeOK, AreNumbered, At, ListIsRecent, Recent, RateBound

LEMMA LimiterStep == ASSUME LimiterInv, [Next]_vars PROVE LimiterInv'
<1>1. redisUp \in BOOLEAN /\ outages \in 0..MaxOutages
  BY DEF LimiterInv, RestTypeOK
<1>2. ASSUME NEW h \in Handlers, Arrive(h) PROVE LimiterInv'
  <2>1. UNCHANGED <<redisUp, outages>> /\ (UNCHANGED limiterVars \/ (Admit /\ UNCHANGED clock))
    BY <1>2 DEF Arrive, Submit, redisVars
  <2>2. QED
    BY <1>1, <2>1, AdmitLimiter, LimiterStays
<1>3. ASSUME NEW h \in Handlers, Resume(h) PROVE LimiterInv'
  <2>1. UNCHANGED limiterVars
    BY <1>3 DEF Resume, EnqueueOk, EnqueueReplyLost, EnqueueRejected, PersistOk, PersistFailed
  <2>2. redisUp' \in BOOLEAN
    BY <1>1, <1>3
       DEF Resume, EnqueueOk, EnqueueReplyLost, EnqueueRejected, PersistOk, PersistFailed, redisVars
  <2>3. outages' = outages \/ (outages < MaxOutages /\ outages' = outages + 1)
    BY <1>3
       DEF Resume, EnqueueOk, EnqueueReplyLost, EnqueueRejected, PersistOk, PersistFailed, redisVars
  <2>4. QED
    BY <1>1, <2>1, <2>2, <2>3, LimiterStays, IngestAssumption
<1>4. ASSUME NEW j \in Jobs, Work(j) PROVE LimiterInv'
  BY <1>1, <1>4, LimiterStays DEF Work, Take, Process, Complete, AttemptFails, StalledCheck
<1>5. CASE Crash
  BY <1>5, CrashLimiter
<1>6. CASE RedisDown
  <2>1. redisUp' \in BOOLEAN /\ UNCHANGED limiterVars
    BY <1>6 DEF RedisDown
  <2>2. outages' \in 0..MaxOutages
    BY <1>1, <1>6, IngestAssumption DEF RedisDown
  <2>3. QED
    BY <2>1, <2>2, LimiterStays
<1>7. CASE RedisBack
  BY <1>1, <1>7, LimiterStays DEF RedisBack
<1>8. CASE Tick
  BY <1>8, TickLimiter
<1>9. CASE UNCHANGED vars
  BY <1>1, <1>9, LimiterStays DEF vars, limiterVars
<1>10. QED
  BY <1>2, <1>3, <1>4, <1>5, <1>6, <1>7, <1>8, <1>9 DEF Next

LEMMA LimiterInvariance == Safety => []LimiterInv
BY InitLimiter, LimiterStep, PTL DEF Safety

(* The types of every variable: tables, queue, handlers and limiter. *)
THEOREM IngestTypeOK == Safety => []TypeOK
<1>1. IInv /\ LimiterInv => TypeOK
  BY DEF IInv, DeliveryTypeOK, LimiterInv, RestTypeOK, TypeOK
<1>2. QED
  BY <1>1, Invariance, LimiterInvariance, PTL

(* Although the list forgets, and is written back only by requests that pass, *)
(* no window of one process's life lets more than Limit requests through.     *)
THEOREM LimiterBoundsEveryWindow == Safety => []RateBound
<1>1. LimiterInv => RateBound
  BY DEF LimiterInv
<1>2. QED
  BY <1>1, LimiterInvariance, PTL
=============================================================================
