------------------------ MODULE RecommendationRefresh ------------------------
(***************************************************************************)
(* How a user's home-feed snapshot follows the data it is computed from:   *)
(* FavoritesService and PersonalityService write a signal and then call    *)
(* RecommendationRefreshService.enqueue, which adds a job to the BullMQ    *)
(* queue recommendations-refresh or, when add rejects, refreshes in the    *)
(* request itself; RecommendationRefreshProcessor works the queue off.     *)
(*                                                                         *)
(* One user is modelled, since no step touches two.  A signal source (the  *)
(* personality profile, the favourites) is a version counter: every write  *)
(* makes a new version, and a snapshot is the version of each source that  *)
(* the AI service was asked about.  The AI service and the queue are       *)
(* external: a call may succeed or fail, a job is tried MaxAttempts times, *)
(* removed when it completes and kept when it fails for good.              *)
(*                                                                         *)
(* A definition preceded by forms of it that are named after a mistake     *)
(* (FailSwallowed before Fail) is mutated to them in PROJECT.json; nothing *)
(* else uses them.                                                         *)
(***************************************************************************)
EXTENDS Naturals, FiniteSets

CONSTANTS
    Sources,        \* signal sources whose writes trigger a refresh
    Handlers,       \* requests that can be in flight at once
    Jobs,           \* job ids that can be drawn: the bound on queue.add calls
    Concurrency,    \* jobs worked on at once: worker processes of concurrency 1
    MaxWrites,      \* bound on the versions of a source
    MaxCrashes,     \* bound on crashes of the process
    AddMay,         \* what queue.add may do: "resolve", "reject"
    MayFail         \* TRUE: the AI service and the database may fail

ASSUME RefreshAssumption ==
    /\ Handlers \cap Jobs = {}
    /\ IsFiniteSet(Handlers) /\ IsFiniteSet(Jobs)
    /\ Concurrency \in Nat /\ MaxWrites \in Nat /\ MaxCrashes \in Nat
    /\ AddMay \subseteq {"resolve", "reject"}
    /\ MayFail \in BOOLEAN

VARIABLES
    version,    \* the signal tables: the current version of each source
    pc, cause,  \* per handler: the call it awaits, the write it has made
    jobs,       \* the queue in Redis
    run,        \* per handler or job: the refreshSnapshotForUser it executes
    clock,      \* the time that generatedAt is taken from
    newest,     \* the snapshot with the latest generatedAt: what home serves
    crashes,
    reply,      \* what the last step answered
    (* History variables: read by properties only. *)
    acked,      \* triggering writes that were answered with success
    best,       \* the newest version of each source that any snapshot has seen
    fellBack    \* a handler has refreshed by itself

vars == <<version, pc, cause, jobs, run, clock, newest, crashes, reply, acked, best, fellBack>>

MaxAttempts == 3
MaxStalls == 1
Runners == Handlers \cup Jobs

Versions == [Sources -> 0..MaxWrites]
NoVersion == [s \in Sources |-> 0]
Write == Sources \X (1..MaxWrites)
NoWrite == <<>>

(* unread: sources of the Promise.all that have not been read yet; at: the   *)
(* generatedAt that was taken when the AI service answered.                  *)
RunState == [step: {"off", "read", "ask", "create"}, unread: SUBSET Sources,
             view: Versions, at: Nat]
NoRun == [step |-> "off", unread |-> {}, view |-> NoVersion, at |-> 0]
NewRun == [NoRun EXCEPT !.step = "read", !.unread = Sources]

Job == [state: {"none", "waiting", "active", "stalled", "failed", "removed"},
        attempts: 0..MaxAttempts, stalls: 0..MaxStalls, cause: Write \cup {NoWrite}]
NoJob == [state |-> "none", attempts |-> 0, stalls |-> 0, cause |-> NoWrite]

TypeOK ==
    /\ version \in Versions
    /\ pc \in [Handlers -> {"idle", "enqueue", "refresh"}]
    /\ cause \in [Handlers -> Write \cup {NoWrite}]
    /\ jobs \in [Jobs -> Job]
    /\ run \in [Runners -> RunState]
    /\ clock \in Nat
    /\ newest \in [at: Nat, view: Versions]
    /\ crashes \in 0..MaxCrashes
    /\ reply \in {"none", "ok", "error", "aiError"}
    /\ acked \in SUBSET Write
    /\ best \in Versions
    /\ fellBack \in BOOLEAN

Init ==
    /\ version = NoVersion
    /\ pc = [h \in Handlers |-> "idle"]
    /\ cause = [h \in Handlers |-> NoWrite]
    /\ jobs = [j \in Jobs |-> NoJob]
    /\ run = [x \in Runners |-> NoRun]
    /\ clock = 0
    /\ newest = [at |-> 0, view |-> NoVersion]
    /\ crashes = 0
    /\ reply = "none"
    /\ acked = {}
    /\ best = NoVersion
    /\ fellBack = FALSE

tables == <<version, newest, best>>

-----------------------------------------------------------------------------
(* The request handlers. *)

Answer(h, outcome) ==
    /\ pc' = [pc EXCEPT ![h] = "idle"]
    /\ cause' = [cause EXCEPT ![h] = NoWrite]
    /\ reply' = outcome
    /\ acked' = IF outcome = "ok" THEN acked \cup {cause[h]} ELSE acked

Silent == reply' = "none" /\ UNCHANGED acked

NewVersion(s) ==
    /\ version[s] < MaxWrites
    /\ version' = [version EXCEPT ![s] = @ + 1]

(* Bound: a write is made only while every handler can draw a job id. *)
HasRoom ==
    "resolve" \in AddMay =>
        Cardinality({j \in Jobs : jobs[j].state = "none"})
            > Cardinality({h \in Handlers : pc[h] = "enqueue"})

(* addFavorite and submitQuiz up to the write of the signal.  A request whose *)
(* target is not published stops before it and changes nothing.  A favourite  *)
(* that is there already counts as a new version although its upsert has an   *)
(* empty update: the refresh is asked for all the same, and held to more.     *)
WriteSignal(h, s) ==
    /\ pc[h] = "idle" /\ HasRoom
    /\ NewVersion(s)
    /\ pc' = [pc EXCEPT ![h] = "enqueue"]
    /\ cause' = [cause EXCEPT ![h] = <<s, version'[s]>>]
    /\ Silent
    /\ UNCHANGED <<jobs, run, clock, newest, crashes, best, fellBack>>

(* removeFavorite: a write of the favourites that triggers nothing. *)
RemoveFavorite ==
    /\ "favorites" \in Sources
    /\ NewVersion("favorites")
    /\ Silent
    /\ UNCHANGED <<pc, cause, jobs, run, clock, newest, crashes, best, fellBack>>

(* enqueue: the job is added and the request answered ... *)
EnqueueOk(h) ==
    /\ pc[h] = "enqueue" /\ "resolve" \in AddMay
    /\ \E j \in Jobs :
          /\ jobs[j].state = "none"
          /\ jobs' = [jobs EXCEPT ![j] = [NoJob EXCEPT !.state = "waiting", !.cause = cause[h]]]
    /\ Answer(h, "ok")
    /\ UNCHANGED <<tables, run, clock, crashes, fellBack>>

(* ... or add rejects and the handler refreshes by itself. *)
EnqueueRejected(h) ==
    /\ pc[h] = "enqueue" /\ "reject" \in AddMay
    /\ pc' = [pc EXCEPT ![h] = "refresh"]
    /\ run' = [run EXCEPT ![h] = NewRun]
    /\ fellBack' = TRUE
    /\ Silent
    /\ UNCHANGED <<tables, cause, jobs, clock, crashes>>

-----------------------------------------------------------------------------
(* The worker. *)

TakeUnbounded(j) ==
    /\ jobs[j].state = "waiting"
    /\ jobs' = [jobs EXCEPT ![j].state = "active"]
    /\ run' = [run EXCEPT ![j] = NewRun]
    /\ Silent
    /\ UNCHANGED <<tables, pc, cause, clock, crashes, fellBack>>

Take(j) ==
    /\ jobs[j].state = "waiting"
    /\ Cardinality({k \in Jobs : jobs[k].state = "active"}) < Concurrency
    /\ jobs' = [jobs EXCEPT ![j].state = "active"]
    /\ run' = [run EXCEPT ![j] = NewRun]
    /\ Silent
    /\ UNCHANGED <<tables, pc, cause, clock, crashes, fellBack>>

(* A job whose worker died is handed out once more. *)
StalledCheck(j) ==
    /\ jobs[j].state = "stalled"
    /\ jobs' = [jobs EXCEPT
          ![j].state = IF jobs[j].stalls < MaxStalls THEN "waiting" ELSE "failed",
          ![j].stalls = IF @ < MaxStalls THEN @ + 1 ELSE @]
    /\ Silent
    /\ UNCHANGED <<tables, pc, cause, run, clock, crashes, fellBack>>

-----------------------------------------------------------------------------
(* refreshSnapshotForUser, in a handler or in a job. *)

(* Its caller goes on: the handler answers, the job completes. *)
Succeed(x) ==
    /\ run' = [run EXCEPT ![x] = NoRun]
    /\ \/ x \in Handlers /\ Answer(x, "ok") /\ UNCHANGED jobs
       \/ /\ x \in Jobs
          /\ jobs' = [jobs EXCEPT ![x].state = "removed"]
          /\ Silent
          /\ UNCHANGED <<pc, cause>>

FailSwallowed(x, outcome) == Succeed(x)

AfterAttempt(n) == IF n < MaxAttempts THEN "waiting" ELSE "failed"

(* It throws, and so does its caller: the request is answered with a 500, the *)
(* attempt of the job has failed.                                             *)
Fail(x, outcome) ==
    /\ run' = [run EXCEPT ![x] = NoRun]
    /\ \/ x \in Handlers /\ Answer(x, outcome) /\ UNCHANGED jobs
       \/ /\ x \in Jobs
          /\ LET tried == jobs[x].attempts + 1 IN
             jobs' = [jobs EXCEPT ![x].attempts = tried,
                                  ![x].state = AfterAttempt(tried)]
          /\ Silent
          /\ UNCHANGED <<pc, cause>>

(* buildSignals: the queries of the Promise.all are answered in any order. *)
ReadSignal(x, s) ==
    /\ run[x].step = "read" /\ s \in run[x].unread
    /\ LET left == run[x].unread \ {s} IN
       run' = [run EXCEPT ![x].unread = left,
                          ![x].view[s] = version[s],
                          ![x].step = IF left = {} THEN "ask" ELSE "read"]
    /\ Silent
    /\ UNCHANGED <<tables, pc, cause, jobs, clock, crashes, fellBack>>

(* The AI service answers; generatedAt is taken before the insert is sent. *)
AiReplies(x) ==
    /\ run[x].step = "ask"
    /\ clock' = clock + 1
    /\ run' = [run EXCEPT ![x].step = "create", ![x].at = clock']
    /\ Silent
    /\ UNCHANGED <<tables, pc, cause, jobs, crashes, fellBack>>

AiFails(x) ==
    /\ MayFail /\ run[x].step = "ask"
    /\ Fail(x, "aiError")
    /\ UNCHANGED <<tables, clock, crashes, fellBack>>

(* recommendationSnapshot.create; home reads the row with the latest          *)
(* generatedAt.                                                               *)
InsertServesOldest(x) ==
    /\ newest' = IF newest.at = 0 THEN [at |-> run[x].at, view |-> run[x].view] ELSE newest
    /\ best' = [s \in Sources |-> IF run[x].view[s] > best[s] THEN run[x].view[s] ELSE best[s]]

Insert(x) ==
    /\ newest' = IF run[x].at > newest.at
                 THEN [at |-> run[x].at, view |-> run[x].view] ELSE newest
    /\ best' = [s \in Sources |-> IF run[x].view[s] > best[s] THEN run[x].view[s] ELSE best[s]]

CreateOk(x) ==
    /\ run[x].step = "create"
    /\ Insert(x)
    /\ Succeed(x)
    /\ UNCHANGED <<version, clock, crashes, fellBack>>

(* The database rejects a query, or the insert, which it may have committed. *)
DatabaseFails(x) ==
    /\ MayFail
    /\ \/ run[x].step = "read" /\ UNCHANGED <<newest, best>>
       \/ run[x].step = "create" /\ (Insert(x) \/ UNCHANGED <<newest, best>>)
    /\ Fail(x, "error")
    /\ UNCHANGED <<version, clock, crashes, fellBack>>

-----------------------------------------------------------------------------
(* The process dies: requests are gone, the worker's job stalls, and an       *)
(* insert that was on its way may still be committed.                         *)
Crash ==
    /\ crashes < MaxCrashes
    /\ crashes' = crashes + 1
    /\ pc' = [h \in Handlers |-> "idle"]
    /\ cause' = [h \in Handlers |-> NoWrite]
    /\ run' = [x \in Runners |-> NoRun]
    /\ jobs' = [j \in Jobs |-> IF jobs[j].state = "active"
                               THEN [jobs[j] EXCEPT !.state = "stalled"] ELSE jobs[j]]
    /\ \/ UNCHANGED <<newest, best>>
       \/ \E x \in Runners : run[x].step = "create" /\ Insert(x)
    /\ Silent
    /\ UNCHANGED <<version, clock, fellBack>>

Refresh(x) ==
    \/ \E s \in Sources : ReadSignal(x, s)
    \/ AiReplies(x) \/ AiFails(x)
    \/ CreateOk(x) \/ DatabaseFails(x)

Enqueue(h) == EnqueueOk(h) \/ EnqueueRejected(h)
Work(j) == Take(j) \/ StalledCheck(j)

Next ==
    \/ \E h \in Handlers, s \in Sources : WriteSignal(h, s)
    \/ RemoveFavorite
    \/ \E h \in Handlers : Enqueue(h)
    \/ \E j \in Jobs : Work(j)
    \/ \E x \in Runners : Refresh(x)
    \/ Crash

(* Calls that were made settle (the AI client has a timeout), Redis stays up,  *)
(* and a worker takes a job whenever it has none.                              *)
Spec ==
    /\ Init /\ [][Next]_vars
    /\ \A h \in Handlers : WF_vars(Enqueue(h))
    /\ \A j \in Jobs : SF_vars(Take(j)) /\ WF_vars(StalledCheck(j))
    /\ \A x \in Runners : WF_vars(Refresh(x))

-----------------------------------------------------------------------------
(* A write that was answered with success has reached a snapshot, or the job  *)
(* it caused is still in Redis: waiting, worked on, stalled or failed.        *)
AckedIsCovered ==
    \A w \in acked :
        \/ best[w[1]] >= w[2]
        \/ \E j \in Jobs : jobs[j].cause = w
                           /\ jobs[j].state \in {"waiting", "active", "stalled", "failed"}

(* Home never goes back while the queue does the refreshes: the snapshot with *)
(* the latest generatedAt has seen of every source at least what any other    *)
(* snapshot has seen, through retries and crashes of the worker.              *)
NewestIsFreshest == ~fellBack => newest.view = best

(* A write that was answered with success shows up in the snapshot that home  *)
(* serves, unless its job ends in the failed set or a handler has refreshed   *)
(* by itself, possibly beside another refresh that overtakes it.              *)
AckedReachesHome ==
    \A w \in Write :
        w \in acked ~> \/ newest.view[w[1]] >= w[2]
                       \/ \E j \in Jobs : jobs[j].cause = w /\ jobs[j].state = "failed"
                       \/ fellBack
=============================================================================
