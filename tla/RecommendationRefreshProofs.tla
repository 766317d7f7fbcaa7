---------------------- MODULE RecommendationRefreshProofs ----------------------
(***************************************************************************)
(* The refresh of the home-feed snapshot, for any sources, requests, jobs, *)
(* failures and crashes: every write that was answered with success has    *)
(* reached a snapshot or is the cause of a job that Redis still holds, and *)
(* with the one worker the code starts home never serves a snapshot that   *)
(* another one has overtaken, as long as no request refreshes by itself.   *)
(*                                                                         *)
(* What makes the first inductive is that a refresh starts to read after   *)
(* its cause was written (CausesAreMade), so that whatever it has read has *)
(* seen the cause (ReadsSeeCause) when it comes to the insert; and that a  *)
(* job on its way still has an attempt (AttemptsLeft).  The second follows *)
(* the one refresh that runs: it has read at least what the best snapshot  *)
(* has, and takes its generatedAt after every snapshot there is.           *)
(***************************************************************************)
EXTENDS RecommendationRefresh, FiniteSetTheorems, TLAPS

(* A write that was made: the table has its version, or a later one. *)
Made(w) == w \in Write /\ w[2] <= version[w[1]]

HandlerCausesMade == \A h \in Handlers : pc[h] # "idle" => Made(cause[h])
JobCausesMade == \A j \in Jobs : jobs[j].state # "none" => Made(jobs[j].cause)
CausesAreMade == HandlerCausesMade /\ JobCausesMade

(* A refresh is executed by a handler in its fallback or by an active job. *)
RunsHaveCallers ==
    /\ \A h \in Handlers : pc[h] # "refresh" => run[h].step = "off"
    /\ \A j \in Jobs : jobs[j].state # "active" => run[j].step = "off"

ReadThrough == \A x \in Runners : run[x].step \in {"ask", "create"} => run[x].unread = {}

Retried == {"waiting", "active", "stalled"}
AttemptsLeft == \A j \in Jobs : jobs[j].state \in Retried => jobs[j].attempts < MaxAttempts

(* What refresh r has read includes the write w. *)
Sees(r, w) == w[1] \notin r.unread => r.view[w[1]] >= w[2]

ReadsSeeCause ==
    /\ \A h \in Handlers : run[h].step # "off" => Sees(run[h], cause[h])
    /\ \A j \in Jobs : run[j].step # "off" => Sees(run[j], jobs[j].cause)

Covered(w) == best[w[1]] >= w[2]
RemovedIsCovered == \A j \in Jobs : jobs[j].state = "removed" => Covered(jobs[j].cause)

IInv == TypeOK /\ CausesAreMade /\ RunsHaveCallers /\ ReadThrough /\ AttemptsLeft
        /\ ReadsSeeCause /\ RemovedIsCovered /\ AckedIsCovered

-----------------------------------------------------------------------------
LEMMA Initials == NoRun \in RunState /\ NewRun \in RunState /\ NoJob \in Job
<1>1. NoVersion \in Versions
  BY RefreshAssumption DEF NoVersion, Versions
<1>2. NoRun \in RunState
  BY <1>1 DEF NoRun, RunState
<1>3. NewRun \in RunState
  BY <1>2 DEF NewRun, RunState
<1>4. NoJob \in Job
  BY DEF NoJob, Job, MaxAttempts, MaxStalls
<1>5. QED
  BY <1>2, <1>3, <1>4

LEMMA InitInv == Init => IInv
<1> SUFFICES ASSUME Init PROVE IInv
  OBVIOUS
<1>1. NoVersion \in Versions
  BY RefreshAssumption DEF NoVersion, Versions
<1>2. NoRun.step = "off" /\ NoJob.state = "none"
  BY DEF NoRun, NoJob
<1>3. TypeOK
  <2>1. cause \in [Handlers -> Write \cup {NoWrite}]
    BY DEF Init
  <2>2. jobs \in [Jobs -> Job] /\ run \in [Runners -> RunState]
    BY Initials DEF Init
  <2>3. pc \in [Handlers -> {"idle", "enqueue", "refresh"}]
    BY DEF Init
  <2>4. newest \in [at: Nat, view: Versions] /\ version \in Versions /\ best \in Versions
    BY <1>1 DEF Init
  <2>5. crashes \in 0..MaxCrashes /\ clock \in Nat
    BY RefreshAssumption DEF Init
  <2>6. reply \in {"none", "ok", "error", "aiError"} /\ acked \in SUBSET Write /\ fellBack \in BOOLEAN
    BY DEF Init
  <2>7. QED
    BY <2>1, <2>2, <2>3, <2>4, <2>5, <2>6 DEF TypeOK
<1>4. CausesAreMade /\ RunsHaveCallers /\ ReadThrough /\ AttemptsLeft
  BY <1>2 DEF Init, CausesAreMade, HandlerCausesMade, JobCausesMade, RunsHaveCallers,
              ReadThrough, AttemptsLeft, Retried, Runners
<1>5. ReadsSeeCause /\ RemovedIsCovered /\ AckedIsCovered
  BY <1>2 DEF Init, ReadsSeeCause, RemovedIsCovered, AckedIsCovered, Runners
<1>6. QED
  BY <1>3, <1>4, <1>5 DEF IInv

-----------------------------------------------------------------------------
(* Versions only grow. *)
Grows(old, new) == \A s \in Sources : old[s] <= new[s]

LEMMA InsertCovers ==
    ASSUME TypeOK, NEW x \in Runners, Insert(x)
    PROVE  /\ newest' \in [at: Nat, view: Versions]
           /\ best' \in Versions
           /\ \A s \in Sources : best'[s] >= best[s] /\ best'[s] >= run[x].view[s]
           /\ \A s \in Sources : best'[s] \in {best[s], run[x].view[s]}
<1>1. run[x] \in RunState
  BY DEF TypeOK
<1>2. run[x].at \in Nat /\ run[x].view \in Versions
  BY <1>1 DEF RunState
<1>3. newest' \in [at: Nat, view: Versions]
  BY <1>2 DEF TypeOK, Insert
<1>4. \A s \in Sources : best[s] \in 0..MaxWrites /\ run[x].view[s] \in 0..MaxWrites
  BY <1>2 DEF TypeOK, Versions
<1>5. \A s \in Sources : best'[s] = IF run[x].view[s] > best[s] THEN run[x].view[s] ELSE best[s]
  BY DEF Insert
<1>6. best' \in Versions
  BY <1>4 DEF Insert, Versions
<1>7. \A s \in Sources : best'[s] >= best[s] /\ best'[s] >= run[x].view[s]
  BY <1>4, <1>5, RefreshAssumption
<1>8. QED
  BY <1>3, <1>5, <1>6, <1>7

(* What a write has in the tables it keeps when they grow. *)
LEMMA GrowthKeeps ==
    ASSUME NEW w \in Write, NEW old \in Versions, NEW new \in Versions, Grows(old, new),
           old[w[1]] >= w[2]
    PROVE  new[w[1]] >= w[2]
<1>1. w[1] \in Sources /\ w[2] \in Nat
  BY DEF Write
<1>2. old[w[1]] \in Nat /\ new[w[1]] \in Nat
  BY <1>1, RefreshAssumption DEF Versions
<1>3. QED
  BY <1>1, <1>2 DEF Grows

(* A step of job j that keeps its cause.  It may be the end of it, when the   *)
(* cause is covered.                                                          *)
LEMMA JobMoves ==
    ASSUME IInv, NEW j \in Jobs, NEW k \in Job,
           jobs[j].state # "none", k.state # "none", k.cause = jobs[j].cause,
           k.state \in Retried => k.attempts < MaxAttempts,
           k.state = "removed" => best'[k.cause[1]] >= k.cause[2],
           jobs' = [jobs EXCEPT ![j] = k],
           UNCHANGED <<version, acked>>, best' \in Versions, Grows(best, best')
    PROVE  /\ jobs' \in [Jobs -> Job]
           /\ JobCausesMade'
           /\ AttemptsLeft' /\ RemovedIsCovered' /\ AckedIsCovered'
<1>1. jobs' \in [Jobs -> Job]
  BY DEF IInv, TypeOK
<1>2. \A i \in Jobs : jobs'[i] = IF i = j THEN k ELSE jobs[i]
  BY DEF IInv, TypeOK
<1>3. JobCausesMade'
  BY <1>2 DEF IInv, CausesAreMade, HandlerCausesMade, JobCausesMade, Made
<1>4. AttemptsLeft'
  BY <1>2 DEF IInv, AttemptsLeft
<1>5. best \in Versions /\ acked \subseteq Write
  BY DEF IInv, TypeOK
<1>6. RemovedIsCovered'
  <2> SUFFICES ASSUME NEW i \in Jobs, jobs'[i].state = "removed"
               PROVE  best'[jobs'[i].cause[1]] >= jobs'[i].cause[2]
    BY DEF RemovedIsCovered, Covered
  <2>1. CASE i = j
    BY <1>2, <2>1
  <2>2. CASE i # j
    <3>1. jobs'[i] = jobs[i] /\ jobs[i].cause \in Write
      BY <1>2, <2>2 DEF IInv, CausesAreMade, HandlerCausesMade, JobCausesMade, Made
    <3>2. QED
      BY <1>5, <3>1, GrowthKeeps DEF IInv, RemovedIsCovered, Covered
  <2>3. QED
    BY <2>1, <2>2
<1>7. AckedIsCovered'
  <2> SUFFICES ASSUME NEW w \in acked
               PROVE  \/ best'[w[1]] >= w[2]
                      \/ \E i \in Jobs : jobs'[i].cause = w
                            /\ jobs'[i].state \in {"waiting", "active", "stalled", "failed"}
    BY DEF AckedIsCovered
  <2>1. CASE best[w[1]] >= w[2]
    BY <1>5, <2>1, GrowthKeeps
  <2>2. ASSUME NEW i \in Jobs, jobs[i].cause = w,
               jobs[i].state \in {"waiting", "active", "stalled", "failed"}
        PROVE  \/ best'[w[1]] >= w[2]
               \/ jobs'[i].cause = w
                  /\ jobs'[i].state \in {"waiting", "active", "stalled", "failed"}
    <3>1. k.state \in {"waiting", "active", "stalled", "failed", "removed"}
      BY DEF Job
    <3>2. QED
      BY <1>2, <2>2, <3>1
  <2>3. QED
    BY <2>1, <2>2 DEF IInv, AckedIsCovered
<1>8. QED
  BY <1>1, <1>3, <1>4, <1>6, <1>7

(* A handler answers, successfully only when its cause is covered. *)
LEMMA AnswerKeeps ==
    ASSUME IInv, NEW h \in Handlers, pc[h] # "idle",
           NEW outcome \in {"ok", "error", "aiError"}, Answer(h, outcome),
           outcome = "ok" => \/ best'[cause[h][1]] >= cause[h][2]
                             \/ \E j \in Jobs : jobs'[j].cause = cause[h]
                                    /\ jobs'[j].state = "waiting",
           \A j \in Jobs : jobs[j].state # "none" => jobs'[j] = jobs[j],
           version' = version, best' \in Versions, Grows(best, best')
    PROVE  /\ pc' \in [Handlers -> {"idle", "enqueue", "refresh"}]
           /\ cause' \in [Handlers -> Write \cup {NoWrite}]
           /\ reply' \in {"none", "ok", "error", "aiError"}
           /\ acked' \in SUBSET Write
           /\ HandlerCausesMade'
           /\ \A g \in Handlers : g # h => pc'[g] = pc[g] /\ cause'[g] = cause[g]
           /\ AckedIsCovered'
<1>1. cause[h] \in Write
  BY DEF IInv, CausesAreMade, HandlerCausesMade, JobCausesMade, Made
<1>2. /\ pc' \in [Handlers -> {"idle", "enqueue", "refresh"}]
      /\ cause' \in [Handlers -> Write \cup {NoWrite}]
      /\ reply' \in {"none", "ok", "error", "aiError"}
  BY DEF IInv, TypeOK, Answer
<1>3. acked' \in SUBSET Write
  BY <1>1 DEF IInv, TypeOK, Answer
<1>4. pc'[h] = "idle" /\ \A g \in Handlers : g # h => pc'[g] = pc[g] /\ cause'[g] = cause[g]
  BY DEF IInv, TypeOK, Answer
<1>5. HandlerCausesMade'
  BY <1>4 DEF IInv, CausesAreMade, HandlerCausesMade, JobCausesMade, Made
<1>6. AckedIsCovered'
  <2> SUFFICES ASSUME NEW w \in acked'
               PROVE  \/ best'[w[1]] >= w[2]
                      \/ \E i \in Jobs : jobs'[i].cause = w
                            /\ jobs'[i].state \in {"waiting", "active", "stalled", "failed"}
    BY DEF AckedIsCovered
  <2>1. CASE w \in acked
    <3>1. CASE best[w[1]] >= w[2]
      BY <2>1, <3>1, GrowthKeeps DEF IInv, TypeOK
    <3>2. ASSUME NEW i \in Jobs, jobs[i].cause = w,
                 jobs[i].state \in {"waiting", "active", "stalled", "failed"}
          PROVE  jobs'[i].cause = w
                 /\ jobs'[i].state \in {"waiting", "active", "stalled", "failed"}
      BY <3>2
    <3>3. QED
      BY <2>1, <3>1, <3>2 DEF IInv, AckedIsCovered
  <2>2. CASE w \notin acked
    <3>1. w = cause[h] /\ outcome = "ok"
      BY <2>2 DEF Answer
    <3>2. QED
      BY <3>1
  <2>3. QED
    BY <2>1, <2>2
<1>7. QED
  BY <1>2, <1>3, <1>4, <1>5, <1>6

-----------------------------------------------------------------------------
(* What was made stays made. *)
LEMMA MadeStays ==
    ASSUME IInv, version' \in Versions, Grows(version, version')
    PROVE  \A w : Made(w) => Made(w)'
<1> SUFFICES ASSUME NEW w, Made(w) PROVE w \in Write /\ w[2] <= version'[w[1]]
  BY DEF Made
<1>1. w \in Write /\ w[2] <= version[w[1]] /\ version \in Versions
  BY DEF Made, IInv, TypeOK
<1>2. version[w[1]] >= w[2]
  BY <1>1, RefreshAssumption DEF Write, Versions
<1>3. version'[w[1]] >= w[2]
  BY <1>1, <1>2, GrowthKeeps
<1>4. QED
  BY <1>1, <1>3, RefreshAssumption DEF Write, Versions

LEMMA NewVersionGrows ==
    ASSUME IInv, NEW s \in Sources, NewVersion(s)
    PROVE  /\ version' \in Versions /\ Grows(version, version')
           /\ <<s, version'[s]>> \in Write
<1>1. \A t \in Sources : version[t] \in 0..MaxWrites
  BY DEF IInv, TypeOK, Versions
<1>2. \A t \in Sources : version'[t] = IF t = s THEN version[t] + 1 ELSE version[t]
  BY DEF NewVersion, IInv, TypeOK, Versions
<1>3. version[s] + 1 \in 1..MaxWrites
  BY <1>1, RefreshAssumption DEF NewVersion
<1>4. version' \in Versions
  BY <1>1, <1>3, RefreshAssumption DEF NewVersion, IInv, TypeOK, Versions
<1>5. Grows(version, version')
  BY <1>1, <1>2, RefreshAssumption DEF Grows
<1>6. <<s, version'[s]>> \in Write
  BY <1>2, <1>3 DEF Write
<1>7. QED
  BY <1>4, <1>5, <1>6

LEMMA WriteSignalInv ==
    ASSUME IInv, NEW h \in Handlers, NEW s \in Sources, WriteSignal(h, s)
    PROVE  IInv'
<1>1. /\ version' \in Versions /\ Grows(version, version')
      /\ <<s, version'[s]>> \in Write
  BY NewVersionGrows DEF WriteSignal
<1>2. UNCHANGED <<jobs, run, clock, newest, crashes, best, fellBack, acked>> /\ pc[h] = "idle"
  BY DEF WriteSignal, Silent
<1>3. \A g \in Handlers : /\ pc'[g] = IF g = h THEN "enqueue" ELSE pc[g]
                          /\ cause'[g] = IF g = h THEN <<s, version'[s]>> ELSE cause[g]
  BY DEF WriteSignal, IInv, TypeOK
<1>4. TypeOK'
  <2>1. pc' \in [Handlers -> {"idle", "enqueue", "refresh"}] /\ reply' = "none"
    BY DEF WriteSignal, Silent, IInv, TypeOK
  <2>2. cause' \in [Handlers -> Write \cup {NoWrite}]
    BY <1>1 DEF WriteSignal, IInv, TypeOK
  <2>3. QED
    BY <1>1, <1>2, <2>1, <2>2 DEF IInv, TypeOK
<1>5. CausesAreMade'
  <2>1. version'[s] <= version'[s]
    BY <1>1, RefreshAssumption DEF Versions
  <2>3. HandlerCausesMade'
    <3> SUFFICES ASSUME NEW g \in Handlers, pc'[g] # "idle" PROVE Made(cause[g])'
      BY DEF HandlerCausesMade
    <3>1. CASE g = h
      BY <1>1, <1>3, <2>1, <3>1 DEF Made
    <3>2. CASE g # h
      <4>1. cause'[g] = cause[g] /\ Made(cause[g])
        BY <1>3, <3>2 DEF IInv, CausesAreMade, HandlerCausesMade
      <4>2. cause[g] \in Write /\ cause[g][2] <= version'[cause[g][1]]
        BY <1>1, <4>1, MadeStays DEF Made
      <4>3. QED
        BY <4>1, <4>2 DEF Made
    <3>3. QED
      BY <3>1, <3>2
  <2>4. JobCausesMade'
    BY <1>1, <1>2, MadeStays DEF IInv, CausesAreMade, JobCausesMade, Made
  <2>5. QED
    BY <2>3, <2>4 DEF CausesAreMade
<1>6. RunsHaveCallers' /\ ReadThrough' /\ AttemptsLeft'
  BY <1>2, <1>3 DEF IInv, RunsHaveCallers, ReadThrough, AttemptsLeft
<1>7. ReadsSeeCause'
  <2>1. run[h].step = "off"
    BY <1>2 DEF IInv, RunsHaveCallers
  <2>2. QED
    BY <1>2, <1>3, <2>1 DEF IInv, ReadsSeeCause, Sees
<1>8. RemovedIsCovered' /\ AckedIsCovered'
  BY <1>2 DEF IInv, RemovedIsCovered, AckedIsCovered, Covered
<1>9. QED
  BY <1>4, <1>5, <1>6, <1>7, <1>8 DEF IInv

LEMMA RemoveFavoriteInv == ASSUME IInv, RemoveFavorite PROVE IInv'
<1>1. version' \in Versions /\ Grows(version, version')
  BY NewVersionGrows DEF RemoveFavorite
<1>2. UNCHANGED <<pc, cause, jobs, run, clock, newest, crashes, best, fellBack, acked>>
  BY DEF RemoveFavorite, Silent
<1>3. TypeOK'
  BY <1>1, <1>2 DEF RemoveFavorite, Silent, IInv, TypeOK
<1>4. CausesAreMade'
  BY <1>1, <1>2, MadeStays DEF IInv, CausesAreMade, HandlerCausesMade, JobCausesMade, Made
<1>5. RunsHaveCallers' /\ ReadThrough' /\ AttemptsLeft' /\ ReadsSeeCause'
  BY <1>2 DEF IInv, RunsHaveCallers, ReadThrough, AttemptsLeft, ReadsSeeCause, Sees
<1>6. RemovedIsCovered' /\ AckedIsCovered'
  BY <1>2 DEF IInv, RemovedIsCovered, AckedIsCovered, Covered
<1>7. QED
  BY <1>3, <1>4, <1>5, <1>6 DEF IInv

-----------------------------------------------------------------------------
(* The end of a refresh. *)
LEMMA NobodyRuns ==
    ASSUME IInv, NEW x \in Runners, run' = [run EXCEPT ![x] = NoRun]
    PROVE  /\ run' \in [Runners -> RunState] /\ ReadThrough'
           /\ \A y \in Runners : run'[y].step # "off" => y # x /\ run'[y] = run[y]
<1>1. NoRun \in RunState /\ NoRun.step = "off"
  BY Initials DEF NoRun
<1>2. run' \in [Runners -> RunState]
  BY <1>1 DEF IInv, TypeOK
<1>3. \A y \in Runners : run'[y] = IF y = x THEN NoRun ELSE run[y]
  BY DEF IInv, TypeOK
<1>4. ReadThrough'
  BY <1>1, <1>3 DEF IInv, ReadThrough
<1>5. QED
  BY <1>1, <1>2, <1>3, <1>4

(* A handler whose refresh has ended, well only when it has covered the cause. *)
LEMMA HandlerEnds ==
    ASSUME IInv, NEW h \in Handlers, run[h].step # "off", run' = [run EXCEPT ![h] = NoRun],
           NEW outcome \in {"ok", "error", "aiError"}, Answer(h, outcome),
           outcome = "ok" => best'[cause[h][1]] >= cause[h][2],
           best' \in Versions, Grows(best, best'), newest' \in [at: Nat, view: Versions],
           UNCHANGED <<version, jobs, crashes, fellBack>>, clock' = clock
    PROVE  IInv'
<1>1. h \in Runners /\ pc[h] = "refresh"
  BY DEF IInv, RunsHaveCallers, Runners
<1>2. /\ run' \in [Runners -> RunState] /\ ReadThrough'
      /\ \A y \in Runners : run'[y].step # "off" => y # h /\ run'[y] = run[y]
  BY <1>1, NobodyRuns
<1>3. /\ pc' \in [Handlers -> {"idle", "enqueue", "refresh"}]
      /\ cause' \in [Handlers -> Write \cup {NoWrite}]
      /\ reply' \in {"none", "ok", "error", "aiError"}
      /\ acked' \in SUBSET Write
      /\ HandlerCausesMade'
      /\ \A g \in Handlers : g # h => pc'[g] = pc[g] /\ cause'[g] = cause[g]
      /\ AckedIsCovered'
  BY <1>1, AnswerKeeps
<1>4. TypeOK'
  BY <1>2, <1>3 DEF IInv, TypeOK
<1>5. CausesAreMade'
  BY <1>3 DEF IInv, CausesAreMade, JobCausesMade, Made
<1>6. RunsHaveCallers'
  BY <1>2, <1>3 DEF IInv, RunsHaveCallers, Runners
<1>7. AttemptsLeft'
  BY DEF IInv, AttemptsLeft
<1>8. ReadsSeeCause'
  BY <1>2, <1>3, RefreshAssumption DEF IInv, ReadsSeeCause, Sees, Runners
<1>9. RemovedIsCovered'
  <2> SUFFICES ASSUME NEW j \in Jobs, jobs[j].state = "removed"
               PROVE  best'[jobs[j].cause[1]] >= jobs[j].cause[2]
    BY DEF RemovedIsCovered, Covered
  <2>1. jobs[j].cause \in Write /\ best[jobs[j].cause[1]] >= jobs[j].cause[2]
    BY DEF IInv, CausesAreMade, JobCausesMade, Made, RemovedIsCovered, Covered
  <2>2. QED
    BY <2>1, GrowthKeeps DEF IInv, TypeOK
<1>10. QED
  BY <1>2, <1>3, <1>4, <1>5, <1>6, <1>7, <1>8, <1>9 DEF IInv

(* A job whose refresh has ended, well only when it has covered the cause. *)
LEMMA JobEnds ==
    ASSUME IInv, NEW j \in Jobs, run[j].step # "off", run' = [run EXCEPT ![j] = NoRun],
           NEW k \in Job, jobs' = [jobs EXCEPT ![j] = k], k.cause = jobs[j].cause,
           k.state \in {"waiting", "failed", "removed"},
           k.state = "waiting" => k.attempts < MaxAttempts,
           k.state = "removed" => best'[k.cause[1]] >= k.cause[2],
           best' \in Versions, Grows(best, best'), newest' \in [at: Nat, view: Versions],
           UNCHANGED <<version, pc, cause, crashes, fellBack, acked>>, clock' = clock,
           reply' = "none"
    PROVE  IInv'
<1>1. j \in Runners /\ jobs[j].state = "active" /\ j \notin Handlers
  BY RefreshAssumption DEF IInv, RunsHaveCallers, Runners
<1>2. /\ run' \in [Runners -> RunState] /\ ReadThrough'
      /\ \A y \in Runners : run'[y].step # "off" => y # j /\ run'[y] = run[y]
  BY <1>1, NobodyRuns
<1>3. /\ jobs' \in [Jobs -> Job] /\ JobCausesMade' /\ AttemptsLeft' /\ RemovedIsCovered'
      /\ AckedIsCovered'
  BY <1>1, JobMoves DEF Retried
<1>4. \A i \in Jobs : i # j => jobs'[i] = jobs[i]
  BY DEF IInv, TypeOK
<1>5. TypeOK'
  BY <1>2, <1>3 DEF IInv, TypeOK
<1>6. CausesAreMade'
  BY <1>3 DEF IInv, CausesAreMade, HandlerCausesMade, Made
<1>7. RunsHaveCallers'
  BY <1>2, <1>4 DEF IInv, RunsHaveCallers, Runners
<1>8. ReadsSeeCause'
  BY <1>2, <1>4 DEF IInv, ReadsSeeCause, Sees, Runners
<1>9. QED
  BY <1>2, <1>3, <1>5, <1>6, <1>7, <1>8 DEF IInv

LEMMA SucceedInv ==
    ASSUME IInv, NEW x \in Runners, run[x].step = "create", Succeed(x), Insert(x),
           UNCHANGED <<version, clock, crashes, fellBack>>
    PROVE  IInv'
<1>1. /\ newest' \in [at: Nat, view: Versions] /\ best' \in Versions
      /\ \A s \in Sources : best'[s] >= best[s] /\ best'[s] >= run[x].view[s]
  BY InsertCovers DEF IInv
<1>2. /\ \A s \in Sources : best[s] \in Nat /\ best'[s] \in Nat /\ run[x].view[s] \in Nat
      /\ run[x].unread = {}
  BY <1>1, RefreshAssumption DEF IInv, TypeOK, RunState, Versions, ReadThrough
<1>3. Grows(best, best')
  BY <1>1, <1>2 DEF Grows
<1>4. ASSUME NEW w \in Write, Sees(run[x], w) PROVE best'[w[1]] >= w[2]
  <2>1. w[1] \in Sources /\ w[2] \in Nat
    BY DEF Write
  <2>2. QED
    BY <1>1, <1>2, <1>4, <2>1 DEF Sees
<1>5. CASE x \in Handlers /\ Answer(x, "ok") /\ UNCHANGED jobs
  <2>1. cause[x] \in Write
    BY <1>5 DEF IInv, CausesAreMade, HandlerCausesMade, Made, RunsHaveCallers
  <2>2. best'[cause[x][1]] >= cause[x][2]
    BY <1>4, <1>5, <2>1 DEF IInv, ReadsSeeCause
  <2>3. run' = [run EXCEPT ![x] = NoRun]
    BY DEF Succeed
  <2>4. "ok" \in {"ok", "error", "aiError"}
    OBVIOUS
  <2>5. QED
    BY <1>1, <1>3, <1>5, <2>2, <2>3, <2>4, HandlerEnds
<1>6. CASE x \in Jobs /\ jobs' = [jobs EXCEPT ![x].state = "removed"] /\ Silent
           /\ UNCHANGED <<pc, cause>>
  <2> DEFINE k == [jobs[x] EXCEPT !.state = "removed"]
  <2>1. jobs[x] \in Job
    BY <1>6 DEF IInv, TypeOK
  <2>2. k \in Job /\ k.cause = jobs[x].cause /\ k.state = "removed"
    BY <2>1 DEF Job
  <2>3. jobs[x].cause \in Write
    BY <1>6 DEF IInv, CausesAreMade, JobCausesMade, Made, RunsHaveCallers
  <2>4. best'[k.cause[1]] >= k.cause[2]
    BY <1>4, <1>6, <2>2, <2>3 DEF IInv, ReadsSeeCause
  <2>5. jobs' = [jobs EXCEPT ![x] = k]
    BY <1>6
  <2>6. run' = [run EXCEPT ![x] = NoRun] /\ UNCHANGED acked /\ reply' = "none"
    BY <1>6 DEF Succeed, Silent
  <2> HIDE DEF k
  <2>7. QED
    BY <1>1, <1>3, <1>6, <2>2, <2>4, <2>5, <2>6, JobEnds
<1>7. QED
  BY <1>5, <1>6 DEF Succeed

LEMMA FailInv ==
    ASSUME IInv, NEW x \in Runners, run[x].step # "off",
           NEW outcome \in {"error", "aiError"}, Fail(x, outcome),
           Insert(x) \/ UNCHANGED <<newest, best>>,
           UNCHANGED <<version, crashes, fellBack>>, clock' = clock
    PROVE  IInv'
<1>1. /\ newest' \in [at: Nat, view: Versions] /\ best' \in Versions
      /\ \A s \in Sources : best[s] \in Nat /\ best'[s] \in Nat /\ best'[s] >= best[s]
  <2>1. best \in Versions /\ newest \in [at: Nat, view: Versions]
    BY DEF IInv, TypeOK
  <2>2. \A s \in Sources : best[s] \in Nat
    BY <2>1, RefreshAssumption DEF Versions
  <2>3. CASE Insert(x)
    BY <2>2, <2>3, InsertCovers, RefreshAssumption DEF IInv, Versions
  <2>4. CASE UNCHANGED <<newest, best>>
    BY <2>1, <2>2, <2>4
  <2>5. QED
    BY <2>3, <2>4
<1>2. Grows(best, best')
  BY <1>1 DEF Grows
<1>3. run' = [run EXCEPT ![x] = NoRun]
  BY DEF Fail
<1>4. CASE x \in Handlers /\ Answer(x, outcome) /\ UNCHANGED jobs
  <2>1. outcome # "ok" /\ outcome \in {"ok", "error", "aiError"}
    OBVIOUS
  <2>2. QED
    BY <1>1, <1>2, <1>3, <1>4, <2>1, HandlerEnds
<1>5. ASSUME x \in Jobs,
             jobs' = [jobs EXCEPT ![x].attempts = jobs[x].attempts + 1,
                                  ![x].state = AfterAttempt(jobs[x].attempts + 1)],
             Silent, UNCHANGED <<pc, cause>>
      PROVE  IInv'
  <2> DEFINE k == [jobs[x] EXCEPT !.attempts = jobs[x].attempts + 1,
                                  !.state = AfterAttempt(jobs[x].attempts + 1)]
  <2>1. jobs[x] \in Job /\ jobs[x].state = "active"
    BY <1>5 DEF IInv, TypeOK, RunsHaveCallers
  <2>2. jobs[x].attempts < MaxAttempts /\ jobs[x].attempts \in 0..MaxAttempts
    BY <1>5, <2>1 DEF IInv, AttemptsLeft, Retried, Job
  <2>3. /\ AfterAttempt(jobs[x].attempts + 1) \in {"waiting", "failed"}
        /\ AfterAttempt(jobs[x].attempts + 1) = "waiting" => jobs[x].attempts + 1 < MaxAttempts
        /\ jobs[x].attempts + 1 \in 0..MaxAttempts
    BY <2>2 DEF AfterAttempt, MaxAttempts
  <2>4. k \in Job /\ k.cause = jobs[x].cause
    BY <2>1, <2>3 DEF Job
  <2>5. /\ k.state \in {"waiting", "failed", "removed"} /\ k.state # "removed"
        /\ k.state = "waiting" => k.attempts < MaxAttempts
    BY <2>1, <2>3 DEF Job
  <2>6. jobs' = [jobs EXCEPT ![x] = k]
    BY <1>5
  <2>7. UNCHANGED acked /\ reply' = "none"
    BY <1>5 DEF Silent
  <2> HIDE DEF k
  <2>8. QED
    BY <1>1, <1>2, <1>3, <1>5, <2>4, <2>5, <2>6, <2>7, JobEnds
<1>6. QED
  BY <1>4, <1>5 DEF Fail

-----------------------------------------------------------------------------
(* The steps of a refresh before its end change its own state only. *)
LEMMA RunMoves ==
    ASSUME IInv, NEW x \in Runners, NEW r \in RunState, run' = [run EXCEPT ![x] = r],
           run[x].step # "off", r.step \in {"ask", "create"} => r.unread = {},
           \A w \in Write : Sees(run[x], w) /\ w[2] <= version[w[1]] => Sees(r, w),
           clock' \in Nat, reply' = "none",
           UNCHANGED <<version, pc, cause, jobs, newest, crashes, acked, best, fellBack>>
    PROVE  IInv'
<1>1. \A y \in Runners : run'[y] = IF y = x THEN r ELSE run[y]
  BY DEF IInv, TypeOK
<1>2. TypeOK'
  <2>1. run' \in [Runners -> RunState]
    BY DEF IInv, TypeOK
  <2>2. QED
    BY <2>1 DEF IInv, TypeOK
<1>3. CausesAreMade' /\ AttemptsLeft'
  BY DEF IInv, CausesAreMade, HandlerCausesMade, JobCausesMade, Made, AttemptsLeft
<1>4. RunsHaveCallers' /\ ReadThrough'
  BY <1>1 DEF IInv, RunsHaveCallers, ReadThrough, Runners
<1>5. ReadsSeeCause'
  <2>1. ASSUME NEW h \in Handlers, run'[h].step # "off"
        PROVE  Sees(run'[h], cause[h])
    <3>1. h \in Runners
      BY DEF Runners
    <3>2. CASE h # x
      BY <1>1, <2>1, <3>1, <3>2 DEF IInv, ReadsSeeCause
    <3>3. CASE h = x
      <4>1. Sees(run[x], cause[x]) /\ Made(cause[x])
        BY <3>3 DEF IInv, ReadsSeeCause, CausesAreMade, HandlerCausesMade, RunsHaveCallers
      <4>2. QED
        BY <1>1, <3>1, <3>3, <4>1 DEF Made
    <3>4. QED
      BY <3>2, <3>3
  <2>2. ASSUME NEW j \in Jobs, run'[j].step # "off"
        PROVE  Sees(run'[j], jobs[j].cause)
    <3>1. j \in Runners
      BY DEF Runners
    <3>2. CASE j # x
      BY <1>1, <2>2, <3>1, <3>2 DEF IInv, ReadsSeeCause
    <3>3. CASE j = x
      <4>1. Sees(run[x], jobs[x].cause) /\ Made(jobs[x].cause)
        BY <3>3 DEF IInv, ReadsSeeCause, CausesAreMade, JobCausesMade, RunsHaveCallers
      <4>2. QED
        BY <1>1, <3>1, <3>3, <4>1 DEF Made
    <3>4. QED
      BY <3>2, <3>3
  <2>3. QED
    BY <2>1, <2>2 DEF ReadsSeeCause, Sees
<1>6. RemovedIsCovered' /\ AckedIsCovered'
  BY DEF IInv, RemovedIsCovered, AckedIsCovered, Covered
<1>7. QED
  BY <1>2, <1>3, <1>4, <1>5, <1>6 DEF IInv

LEMMA ReadSignalInv ==
    ASSUME IInv, NEW x \in Runners, NEW s \in Sources, ReadSignal(x, s)
    PROVE  IInv'
<1> DEFINE left == run[x].unread \ {s}
           r == [run[x] EXCEPT !.unread = left, !.view[s] = version[s],
                               !.step = IF left = {} THEN "ask" ELSE "read"]
<1>1. run[x] \in RunState /\ run[x].step = "read" /\ version[s] \in 0..MaxWrites
  BY DEF IInv, TypeOK, Versions, ReadSignal
<1>2. /\ r.unread = left /\ r.view = [run[x].view EXCEPT ![s] = version[s]]
      /\ r.step = (IF left = {} THEN "ask" ELSE "read") /\ r.at = run[x].at
  BY <1>1 DEF RunState
<1>3. r.view \in Versions /\ left \in SUBSET Sources
  BY <1>1, <1>2 DEF RunState, Versions
<1>4. r \in RunState
  BY <1>1, <1>2, <1>3 DEF RunState
<1>5. run' = [run EXCEPT ![x] = r]
  BY DEF ReadSignal
<1>6. r.step \in {"ask", "create"} => r.unread = {}
  BY <1>2
<1>7. ASSUME NEW w \in Write, Sees(run[x], w), w[2] <= version[w[1]]
      PROVE  Sees(r, w)
  <2>1. w[1] \in Sources /\ w[2] \in Nat /\ version[s] \in Nat
    BY <1>1, RefreshAssumption DEF Write
  <2>2. \A t \in Sources : r.view[t] = IF t = s THEN version[s] ELSE run[x].view[t]
    BY <1>1, <1>2 DEF RunState, Versions
  <2>3. QED
    BY <1>2, <1>7, <2>1, <2>2 DEF Sees
<1>8. /\ UNCHANGED <<version, pc, cause, jobs, newest, crashes, acked, best, fellBack>>
      /\ clock' \in Nat /\ reply' = "none"
  BY DEF ReadSignal, Silent, tables, IInv, TypeOK
<1> HIDE DEF r
<1>9. QED
  BY <1>1, <1>4, <1>5, <1>6, <1>7, <1>8, RunMoves

LEMMA AiRepliesInv == ASSUME IInv, NEW x \in Runners, AiReplies(x) PROVE IInv'
<1> DEFINE r == [run[x] EXCEPT !.step = "create", !.at = clock']
<1>1. run[x] \in RunState /\ run[x].step = "ask" /\ clock' \in Nat
  BY DEF IInv, TypeOK, AiReplies
<1>2. r \in RunState /\ r.unread = run[x].unread /\ r.view = run[x].view
  BY <1>1 DEF RunState
<1>3. run[x].unread = {}
  BY <1>1 DEF IInv, ReadThrough
<1>4. run' = [run EXCEPT ![x] = r]
  BY DEF AiReplies
<1>5. /\ UNCHANGED <<version, pc, cause, jobs, newest, crashes, acked, best, fellBack>>
      /\ reply' = "none"
  BY DEF AiReplies, Silent, tables
<1>6. \A w \in Write : Sees(run[x], w) => Sees(r, w)
  BY <1>2 DEF Sees
<1> HIDE DEF r
<1>7. QED
  BY <1>1, <1>2, <1>3, <1>4, <1>5, <1>6, RunMoves

-----------------------------------------------------------------------------
(* A refresh begins with everything still to read. *)
LEMMA NewRunSees == /\ NewRun.step = "read" /\ \A w \in Write : Sees(NewRun, w)
BY Initials DEF NewRun, NoRun, Sees, Write

LEMMA EnqueueOkInv == ASSUME IInv, NEW h \in Handlers, EnqueueOk(h) PROVE IInv'
<1> DEFINE k == [NoJob EXCEPT !.state = "waiting", !.cause = cause[h]]
<1>1. PICK j \in Jobs : jobs[j].state = "none" /\ jobs' = [jobs EXCEPT ![j] = k]
  BY DEF EnqueueOk
<1>2. /\ UNCHANGED <<version, newest, best, run, clock, crashes, fellBack>>
      /\ pc[h] = "enqueue" /\ Answer(h, "ok")
  BY DEF EnqueueOk, tables
<1>3. Made(cause[h])
  BY <1>2 DEF IInv, CausesAreMade, HandlerCausesMade
<1>4. NoJob \in Job /\ NoJob.attempts = 0 /\ 0 < MaxAttempts
  BY Initials DEF NoJob, MaxAttempts
<1>5. k \in Job /\ k.state = "waiting" /\ k.cause = cause[h] /\ k.attempts < MaxAttempts
  BY <1>3, <1>4 DEF Job, Made
<1> HIDE DEF k
<1>6. jobs' \in [Jobs -> Job] /\ \A i \in Jobs : jobs'[i] = IF i = j THEN k ELSE jobs[i]
  BY <1>1, <1>5 DEF IInv, TypeOK
<1>7. JobCausesMade' /\ AttemptsLeft' /\ RemovedIsCovered'
  BY <1>2, <1>3, <1>5, <1>6
     DEF IInv, CausesAreMade, JobCausesMade, Made, AttemptsLeft, RemovedIsCovered, Covered
<1>8. best' \in Versions /\ Grows(best, best')
  BY <1>2, RefreshAssumption DEF IInv, TypeOK, Versions, Grows
<1>9. /\ pc' \in [Handlers -> {"idle", "enqueue", "refresh"}]
      /\ cause' \in [Handlers -> Write \cup {NoWrite}]
      /\ reply' \in {"none", "ok", "error", "aiError"}
      /\ acked' \in SUBSET Write
      /\ HandlerCausesMade'
      /\ \A g \in Handlers : g # h => pc'[g] = pc[g] /\ cause'[g] = cause[g]
      /\ AckedIsCovered'
  <2>1. \A i \in Jobs : jobs[i].state # "none" => jobs'[i] = jobs[i]
    BY <1>1, <1>6
  <2>2. \E i \in Jobs : jobs'[i].cause = cause[h] /\ jobs'[i].state = "waiting"
    BY <1>1, <1>5, <1>6
  <2>3. "ok" \in {"ok", "error", "aiError"}
    OBVIOUS
  <2>4. QED
    BY <1>2, <1>8, <2>1, <2>2, <2>3, AnswerKeeps
<1>10. TypeOK'
  BY <1>2, <1>6, <1>9 DEF IInv, TypeOK
<1>11. run[h].step = "off" /\ run[j].step = "off"
  BY <1>1, <1>2 DEF IInv, RunsHaveCallers
<1>12. RunsHaveCallers' /\ ReadThrough'
  BY <1>2, <1>6, <1>9, <1>11 DEF IInv, RunsHaveCallers, ReadThrough
<1>13. ReadsSeeCause'
  BY <1>2, <1>6, <1>9, <1>11 DEF IInv, ReadsSeeCause, Sees
<1>14. QED
  BY <1>7, <1>9, <1>10, <1>12, <1>13 DEF IInv, CausesAreMade

LEMMA EnqueueRejectedInv == ASSUME IInv, NEW h \in Handlers, EnqueueRejected(h) PROVE IInv'
<1>1. /\ UNCHANGED <<version, newest, best, cause, jobs, clock, crashes, acked>>
      /\ pc[h] = "enqueue" /\ fellBack' = TRUE /\ reply' = "none"
      /\ pc' = [pc EXCEPT ![h] = "refresh"] /\ run' = [run EXCEPT ![h] = NewRun]
  BY DEF EnqueueRejected, Silent, tables
<1>2. h \in Runners /\ h \notin Jobs
  BY RefreshAssumption DEF Runners
<1>3. /\ \A g \in Handlers : pc'[g] = IF g = h THEN "refresh" ELSE pc[g]
      /\ \A y \in Runners : run'[y] = IF y = h THEN NewRun ELSE run[y]
  BY <1>1 DEF IInv, TypeOK
<1>4. TypeOK'
  <2>1. run' \in [Runners -> RunState]
    BY <1>1, Initials DEF IInv, TypeOK
  <2>2. pc' \in [Handlers -> {"idle", "enqueue", "refresh"}]
    BY <1>1 DEF IInv, TypeOK
  <2>3. QED
    BY <1>1, <2>1, <2>2 DEF IInv, TypeOK
<1>5. CausesAreMade' /\ AttemptsLeft'
  BY <1>1, <1>3
     DEF IInv, CausesAreMade, HandlerCausesMade, JobCausesMade, Made, AttemptsLeft
<1>6. RunsHaveCallers' /\ ReadThrough'
  BY <1>1, <1>2, <1>3, NewRunSees DEF IInv, RunsHaveCallers, ReadThrough, Runners
<1>7. ReadsSeeCause'
  <2>1. Sees(NewRun, cause[h])
    BY <1>1, NewRunSees DEF IInv, CausesAreMade, HandlerCausesMade, Made
  <2>2. QED
    BY <1>1, <1>2, <1>3, <2>1 DEF IInv, ReadsSeeCause, Sees, Runners
<1>8. RemovedIsCovered' /\ AckedIsCovered'
  BY <1>1 DEF IInv, RemovedIsCovered, AckedIsCovered, Covered
<1>9. QED
  BY <1>4, <1>5, <1>6, <1>7, <1>8 DEF IInv

LEMMA TakeInv == ASSUME IInv, NEW j \in Jobs, Take(j) PROVE IInv'
<1> DEFINE k == [jobs[j] EXCEPT !.state = "active"]
<1>1. /\ UNCHANGED <<version, newest, best, pc, cause, clock, crashes, acked, fellBack>>
      /\ jobs[j].state = "waiting" /\ reply' = "none"
      /\ jobs' = [jobs EXCEPT ![j] = k] /\ run' = [run EXCEPT ![j] = NewRun]
  BY DEF Take, Silent, tables
<1>2. j \in Runners /\ j \notin Handlers
  BY RefreshAssumption DEF Runners
<1>3. jobs[j] \in Job
  BY DEF IInv, TypeOK
<1>4. /\ k \in Job /\ k.state = "active" /\ k.cause = jobs[j].cause
      /\ k.attempts = jobs[j].attempts
  BY <1>3 DEF Job
<1> HIDE DEF k
<1>5. best' \in Versions /\ Grows(best, best')
  BY <1>1, RefreshAssumption DEF IInv, TypeOK, Versions, Grows
<1>6. k.attempts < MaxAttempts
  BY <1>1, <1>4 DEF IInv, AttemptsLeft, Retried
<1>7. /\ jobs' \in [Jobs -> Job] /\ JobCausesMade' /\ AttemptsLeft' /\ RemovedIsCovered'
      /\ AckedIsCovered'
  BY <1>1, <1>4, <1>5, <1>6, JobMoves
<1>8. /\ \A i \in Jobs : jobs'[i] = IF i = j THEN k ELSE jobs[i]
      /\ \A y \in Runners : run'[y] = IF y = j THEN NewRun ELSE run[y]
  BY <1>1 DEF IInv, TypeOK
<1>9. TypeOK'
  <2>1. run' \in [Runners -> RunState]
    BY <1>1, Initials DEF IInv, TypeOK
  <2>2. QED
    BY <1>1, <1>7, <2>1 DEF IInv, TypeOK
<1>10. CausesAreMade'
  BY <1>1, <1>7 DEF IInv, CausesAreMade, HandlerCausesMade, Made
<1>11. RunsHaveCallers' /\ ReadThrough'
  BY <1>1, <1>2, <1>4, <1>8, NewRunSees DEF IInv, RunsHaveCallers, ReadThrough, Runners
<1>12. ReadsSeeCause'
  <2>1. Sees(NewRun, k.cause)
    BY <1>1, <1>4, NewRunSees DEF IInv, CausesAreMade, JobCausesMade, Made
  <2>2. QED
    BY <1>1, <1>2, <1>4, <1>8, <2>1 DEF IInv, ReadsSeeCause, Sees, Runners
<1>13. QED
  BY <1>7, <1>9, <1>10, <1>11, <1>12 DEF IInv

LEMMA StalledCheckInv == ASSUME IInv, NEW j \in Jobs, StalledCheck(j) PROVE IInv'
<1> DEFINE k == [jobs[j] EXCEPT
                    !.state = IF jobs[j].stalls < MaxStalls THEN "waiting" ELSE "failed",
                    !.stalls = IF jobs[j].stalls < MaxStalls THEN jobs[j].stalls + 1
                                                             ELSE jobs[j].stalls]
<1>1. /\ UNCHANGED <<version, newest, best, pc, cause, run, clock, crashes, acked, fellBack>>
      /\ jobs[j].state = "stalled" /\ reply' = "none"
  BY DEF StalledCheck, Silent, tables
<1>2. jobs[j] \in Job
  BY DEF IInv, TypeOK
<1>3. jobs' = [jobs EXCEPT ![j] = k]
  BY <1>2 DEF StalledCheck, Job
<1>4. jobs[j].stalls \in 0..MaxStalls
  BY <1>2 DEF Job
<1>5. /\ k \in Job /\ k.state \in {"waiting", "failed"} /\ k.cause = jobs[j].cause
      /\ k.attempts = jobs[j].attempts
  <2>1. CASE jobs[j].stalls < MaxStalls
    <3>1. jobs[j].stalls + 1 \in 0..MaxStalls
      BY <1>4, <2>1 DEF MaxStalls
    <3>2. k = [jobs[j] EXCEPT !.state = "waiting", !.stalls = jobs[j].stalls + 1]
      BY <2>1
    <3>3. QED
      BY <1>2, <3>1, <3>2 DEF Job
  <2>2. CASE ~(jobs[j].stalls < MaxStalls)
    <3>1. k = [jobs[j] EXCEPT !.state = "failed", !.stalls = jobs[j].stalls]
      BY <2>2
    <3>2. QED
      BY <1>2, <3>1 DEF Job
  <2>3. QED
    BY <2>1, <2>2
<1> HIDE DEF k
<1>6. best' \in Versions /\ Grows(best, best')
  BY <1>1, RefreshAssumption DEF IInv, TypeOK, Versions, Grows
<1>7. k.attempts < MaxAttempts
  BY <1>1, <1>5 DEF IInv, AttemptsLeft, Retried
<1>8. /\ jobs' \in [Jobs -> Job] /\ JobCausesMade' /\ AttemptsLeft' /\ RemovedIsCovered'
      /\ AckedIsCovered'
  BY <1>1, <1>3, <1>5, <1>6, <1>7, JobMoves
<1>9. \A i \in Jobs : jobs'[i] = IF i = j THEN k ELSE jobs[i]
  BY <1>3 DEF IInv, TypeOK
<1>10. TypeOK'
  BY <1>1, <1>8 DEF IInv, TypeOK
<1>11. CausesAreMade'
  BY <1>1, <1>8 DEF IInv, CausesAreMade, HandlerCausesMade, Made
<1>12. RunsHaveCallers' /\ ReadThrough'
  BY <1>1, <1>9 DEF IInv, RunsHaveCallers, ReadThrough
<1>13. ReadsSeeCause'
  BY <1>1, <1>5, <1>9 DEF IInv, ReadsSeeCause, Sees
<1>14. QED
  BY <1>8, <1>10, <1>11, <1>12, <1>13 DEF IInv

LEMMA CrashInv == ASSUME IInv, Crash PROVE IInv'
<1> DEFINE k(j) == [jobs[j] EXCEPT !.state = "stalled"]
<1>1. /\ UNCHANGED <<version, clock, fellBack, acked>> /\ reply' = "none"
      /\ pc' = [h \in Handlers |-> "idle"] /\ cause' = [h \in Handlers |-> NoWrite]
      /\ run' = [x \in Runners |-> NoRun]
      /\ jobs' = [j \in Jobs |-> IF jobs[j].state = "active" THEN k(j) ELSE jobs[j]]
  BY DEF Crash, Silent
<1>2. crashes' \in 0..MaxCrashes
  BY RefreshAssumption DEF Crash, IInv, TypeOK
<1>3. \A j \in Jobs : jobs[j] \in Job
  BY DEF IInv, TypeOK
<1>4. \A j \in Jobs : /\ k(j) \in Job /\ k(j).state = "stalled"
                      /\ k(j).cause = jobs[j].cause /\ k(j).attempts = jobs[j].attempts
  BY <1>3 DEF Job
<1> HIDE DEF k
<1>5. \A j \in Jobs : jobs'[j] = IF jobs[j].state = "active" THEN k(j) ELSE jobs[j]
  BY <1>1
<1>6. /\ newest' \in [at: Nat, view: Versions] /\ best' \in Versions
      /\ Grows(best, best')
  <2>1. newest \in [at: Nat, view: Versions] /\ best \in Versions
    BY DEF IInv, TypeOK
  <2>2. \A s \in Sources : best[s] \in Nat
    BY <2>1, RefreshAssumption DEF Versions
  <2>3. CASE UNCHANGED <<newest, best>>
    BY <2>1, <2>2, <2>3 DEF Grows
  <2>4. CASE \E x \in Runners : run[x].step = "create" /\ Insert(x)
    <3>1. /\ newest' \in [at: Nat, view: Versions] /\ best' \in Versions
          /\ \A s \in Sources : best'[s] >= best[s]
      BY <2>4, InsertCovers DEF IInv
    <3>2. \A s \in Sources : best'[s] \in Nat
      BY <3>1, RefreshAssumption DEF Versions
    <3>3. QED
      BY <2>2, <3>1, <3>2 DEF Grows
  <2>5. QED
    BY <2>3, <2>4 DEF Crash
<1>7. NoRun.step = "off"
  BY DEF NoRun
<1>8. TypeOK'
  <2>1. jobs' \in [Jobs -> Job]
    BY <1>1, <1>3, <1>4
  <2>2. run' \in [Runners -> RunState]
    BY <1>1, Initials
  <2>3. pc' \in [Handlers -> {"idle", "enqueue", "refresh"}]
    BY <1>1
  <2>4. cause' \in [Handlers -> Write \cup {NoWrite}]
    BY <1>1
  <2>5. QED
    BY <1>1, <1>2, <1>6, <2>1, <2>2, <2>3, <2>4 DEF IInv, TypeOK
<1>9. CausesAreMade'
  BY <1>1, <1>4, <1>5 DEF IInv, CausesAreMade, HandlerCausesMade, JobCausesMade, Made
<1>10. RunsHaveCallers' /\ ReadThrough' /\ ReadsSeeCause'
  BY <1>1, <1>7 DEF RunsHaveCallers, ReadThrough, ReadsSeeCause, Runners
<1>11. AttemptsLeft'
  BY <1>4, <1>5 DEF IInv, AttemptsLeft, Retried
<1>12. RemovedIsCovered'
  <2> SUFFICES ASSUME NEW j \in Jobs, jobs'[j].state = "removed"
               PROVE  best'[jobs'[j].cause[1]] >= jobs'[j].cause[2]
    BY DEF RemovedIsCovered, Covered
  <2>1. jobs'[j] = jobs[j]
    BY <1>4, <1>5
  <2>2. jobs[j].cause \in Write /\ best[jobs[j].cause[1]] >= jobs[j].cause[2]
    BY <2>1 DEF IInv, CausesAreMade, JobCausesMade, Made, RemovedIsCovered, Covered
  <2>3. QED
    BY <1>6, <2>1, <2>2, GrowthKeeps DEF IInv, TypeOK
<1>13. AckedIsCovered'
  <2> SUFFICES ASSUME NEW w \in acked
               PROVE  \/ best'[w[1]] >= w[2]
                      \/ \E i \in Jobs : jobs'[i].cause = w
                            /\ jobs'[i].state \in {"waiting", "active", "stalled", "failed"}
    BY <1>1 DEF AckedIsCovered
  <2>1. CASE best[w[1]] >= w[2]
    BY <1>6, <2>1, GrowthKeeps DEF IInv, TypeOK
  <2>2. ASSUME NEW i \in Jobs, jobs[i].cause = w,
               jobs[i].state \in {"waiting", "active", "stalled", "failed"}
        PROVE  jobs'[i].cause = w
               /\ jobs'[i].state \in {"waiting", "active", "stalled", "failed"}
    BY <1>4, <1>5, <2>2
  <2>3. QED
    BY <2>1, <2>2 DEF IInv, AckedIsCovered
<1>14. QED
  BY <1>8, <1>9, <1>10, <1>11, <1>12, <1>13 DEF IInv

-----------------------------------------------------------------------------
LEMMA RefreshInv == ASSUME IInv, NEW x \in Runners, Refresh(x) PROVE IInv'
<1>1. ASSUME NEW s \in Sources, ReadSignal(x, s) PROVE IInv'
  BY <1>1, ReadSignalInv
<1>2. CASE AiReplies(x)
  BY <1>2, AiRepliesInv
<1>3. CASE AiFails(x)
  BY <1>3, FailInv DEF AiFails, tables
<1>4. CASE CreateOk(x)
  BY <1>4, SucceedInv DEF CreateOk
<1>5. CASE DatabaseFails(x)
  BY <1>5, FailInv DEF DatabaseFails
<1>6. QED
  BY <1>1, <1>2, <1>3, <1>4, <1>5 DEF Refresh

LEMMA StutterInv == ASSUME IInv, UNCHANGED vars PROVE IInv'
<1>1. TypeOK' /\ CausesAreMade' /\ RunsHaveCallers' /\ ReadThrough'
  BY DEF vars, IInv, TypeOK, CausesAreMade, HandlerCausesMade, JobCausesMade, Made,
         RunsHaveCallers, ReadThrough
<1>2. AttemptsLeft' /\ ReadsSeeCause' /\ RemovedIsCovered' /\ AckedIsCovered'
  BY DEF vars, IInv, AttemptsLeft, ReadsSeeCause, Sees, RemovedIsCovered, Covered, AckedIsCovered
<1>3. QED
  BY <1>1, <1>2 DEF IInv

LEMMA Invariance == ASSUME IInv, [Next]_vars PROVE IInv'
<1>1. ASSUME NEW h \in Handlers, NEW s \in Sources, WriteSignal(h, s) PROVE IInv'
  BY <1>1, WriteSignalInv
<1>2. CASE RemoveFavorite
  BY <1>2, RemoveFavoriteInv
<1>3. ASSUME NEW h \in Handlers, Enqueue(h) PROVE IInv'
  BY <1>3, EnqueueOkInv, EnqueueRejectedInv DEF Enqueue
<1>4. ASSUME NEW j \in Jobs, Work(j) PROVE IInv'
  BY <1>4, TakeInv, StalledCheckInv DEF Work
<1>5. ASSUME NEW x \in Runners, Refresh(x) PROVE IInv'
  BY <1>5, RefreshInv
<1>6. CASE Crash
  BY <1>6, CrashInv
<1>7. CASE UNCHANGED vars
  BY <1>7, StutterInv
<1>8. QED
  BY <1>1, <1>2, <1>3, <1>4, <1>5, <1>6, <1>7 DEF Next

Safety == Init /\ [][Next]_vars

LEMMA SpecIsSafe == Spec => Safety
BY PTL DEF Spec, Safety

LEMMA SafetyInv == Safety => []IInv
BY InitInv, Invariance, PTL DEF Safety

(* The types of tables, queue, requests and refreshes hold in every state. *)
THEOREM SpecTypeOK == Spec => []TypeOK
<1>1. IInv => TypeOK
  BY DEF IInv
<1>2. QED
  BY <1>1, SafetyInv, SpecIsSafe, PTL

(* Whatever fails or crashes, a write that was answered with success has      *)
(* reached a snapshot, or the job it caused is still in Redis.                *)
THEOREM SpecAckedIsCovered == Spec => []AckedIsCovered
<1>1. IInv => AckedIsCovered
  BY DEF IInv
<1>2. QED
  BY <1>1, SafetyInv, SpecIsSafe, PTL

-----------------------------------------------------------------------------
(* The snapshot that home serves.  From here on one job is worked on at a     *)
(* time, as by the one worker process of concurrency 1 that the code starts.  *)

OneWorks == \A j, k \in Jobs : jobs[j].state = "active" /\ jobs[k].state = "active" => j = k
NoFallback == ~fellBack => \A h \in Handlers : pc[h] # "refresh"

(* Nothing has seen a version before it was made, or comes from the future. *)
SeenIsMade ==
    /\ \A s \in Sources : best[s] <= version[s]
    /\ \A x \in Runners, s \in Sources : run[x].view[s] <= version[s]
StampsArePast == newest.at <= clock /\ \A x \in Runners : run[x].at <= clock

(* The refresh that runs overtakes every snapshot there is. *)
ReadsSeeBest ==
    ~fellBack => \A x \in Runners : run[x].step # "off" =>
        \A s \in Sources \ run[x].unread : best[s] <= run[x].view[s]
InsertIsLatest ==
    ~fellBack => \A x \in Runners : run[x].step = "create" => run[x].at > newest.at

FreshInv == OneWorks /\ NoFallback /\ SeenIsMade /\ StampsArePast /\ ReadsSeeBest
            /\ InsertIsLatest /\ NewestIsFreshest

LEMMA InitFresh == Init => FreshInv
<1> SUFFICES ASSUME Init PROVE FreshInv
  OBVIOUS
<1>1. /\ NoRun.step = "off" /\ NoRun.at = 0 /\ NoRun.view = NoVersion
      /\ NoJob.state = "none" /\ \A s \in Sources : NoVersion[s] = 0
  BY DEF NoRun, NoJob, NoVersion
<1>2. OneWorks /\ NoFallback
  BY <1>1 DEF Init, OneWorks, NoFallback
<1>3. SeenIsMade /\ StampsArePast
  BY <1>1 DEF Init, SeenIsMade, StampsArePast
<1>4. ReadsSeeBest /\ InsertIsLatest /\ NewestIsFreshest
  BY <1>1 DEF Init, ReadsSeeBest, InsertIsLatest, NewestIsFreshest
<1>5. QED
  BY <1>2, <1>3, <1>4 DEF FreshInv

(* What the types say of the numbers that are compared. *)
LEMMA Numbers ==
    ASSUME TypeOK
    PROVE  /\ \A s \in Sources : version[s] \in Nat /\ best[s] \in Nat
           /\ \A x \in Runners, s \in Sources : run[x].view[s] \in Nat
           /\ \A x \in Runners : run[x].at \in Nat /\ run[x].view \in Versions
           /\ newest.at \in Nat /\ clock \in Nat /\ newest.view \in Versions
<1>1. \A v \in Versions, s \in Sources : v[s] \in Nat
  BY RefreshAssumption DEF Versions
<1>2. \A x \in Runners : run[x].at \in Nat /\ run[x].view \in Versions
  BY DEF TypeOK, RunState
<1>3. version \in Versions /\ best \in Versions /\ newest \in [at: Nat, view: Versions]
  BY DEF TypeOK
<1>4. QED
  BY <1>1, <1>2, <1>3 DEF TypeOK

LEMMA SoleRunner ==
    ASSUME IInv, FreshInv, ~fellBack, NEW x \in Runners, NEW y \in Runners,
           run[x].step # "off", run[y].step # "off"
    PROVE  x = y
<1>1. x \in Jobs /\ y \in Jobs
  BY DEF IInv, RunsHaveCallers, FreshInv, NoFallback, Runners
<1>2. QED
  BY <1>1 DEF IInv, RunsHaveCallers, FreshInv, OneWorks

(* A step in which refreshes at most end, the one that ends possibly with its *)
(* snapshot inserted.                                                         *)
LEMMA QuietStep ==
    ASSUME IInv, TypeOK', FreshInv, Grows(version, version'), clock' = clock, fellBack' = fellBack,
           \A y \in Runners : run'[y] \in {run[y], NoRun},
           \A h \in Handlers : pc'[h] = "refresh" => pc[h] = "refresh",
           \A j \in Jobs : jobs'[j].state = "active" => jobs[j].state = "active",
           \/ UNCHANGED <<newest, best>>
           \/ \E x \in Runners : run[x].step = "create" /\ Insert(x) /\ run'[x] = NoRun
    PROVE  FreshInv'
<1>1. OneWorks' /\ NoFallback'
  BY DEF FreshInv, OneWorks, NoFallback
<1>2. /\ NoRun.step = "off" /\ NoRun.at = 0 /\ NoRun.view = NoVersion
      /\ \A s \in Sources : NoVersion[s] = 0
  BY DEF NoRun, NoVersion
<1>3. /\ \A s \in Sources : version[s] \in Nat /\ best[s] \in Nat
      /\ \A x \in Runners, s \in Sources : run[x].view[s] \in Nat
      /\ \A x \in Runners : run[x].at \in Nat
      /\ newest.at \in Nat /\ clock \in Nat
  BY Numbers DEF IInv
<1>4. \A s \in Sources : version'[s] \in Nat /\ best'[s] \in Nat
  <2>1. version' \in Versions /\ best' \in Versions
    BY DEF TypeOK
  <2>2. QED
    BY <2>1, RefreshAssumption DEF Versions
<1>5. CASE UNCHANGED <<newest, best>>
  <2>1. SeenIsMade'
    BY <1>2, <1>3, <1>4, <1>5 DEF FreshInv, SeenIsMade, Grows
  <2>2. StampsArePast'
    BY <1>2, <1>3, <1>5 DEF FreshInv, StampsArePast
  <2>3. ReadsSeeBest' /\ InsertIsLatest' /\ NewestIsFreshest'
    BY <1>2, <1>5 DEF FreshInv, ReadsSeeBest, InsertIsLatest, NewestIsFreshest
  <2>4. QED
    BY <1>1, <2>1, <2>2, <2>3 DEF FreshInv
<1>6. ASSUME NEW x \in Runners, run[x].step = "create", Insert(x), run'[x] = NoRun
      PROVE  FreshInv'
  <2>1. \A s \in Sources : best'[s] \in {best[s], run[x].view[s]}
    BY <1>6, InsertCovers DEF IInv
  <2>2. SeenIsMade'
    BY <1>2, <1>3, <1>4, <2>1 DEF FreshInv, SeenIsMade, Grows
  <2>3. newest'.at \in {newest.at, run[x].at}
    BY <1>6 DEF Insert
  <2>4. StampsArePast'
    BY <1>2, <1>3, <2>3 DEF FreshInv, StampsArePast
  <2>5. ASSUME ~fellBack PROVE \A y \in Runners : run'[y].step = "off"
    BY <1>2, <1>6, <2>5, SoleRunner
  <2>6. ReadsSeeBest' /\ InsertIsLatest'
    BY <2>5 DEF ReadsSeeBest, InsertIsLatest
  <2>7. ASSUME ~fellBack PROVE newest'.view = best'
    <3>1. newest'.view = run[x].view
      BY <1>6, <2>7 DEF Insert, FreshInv, InsertIsLatest
    <3>2. run[x].unread = {}
      BY <1>6 DEF IInv, ReadThrough
    <3>3. \A s \in Sources : best[s] <= run[x].view[s]
      BY <1>6, <2>7, <3>2 DEF FreshInv, ReadsSeeBest
    <3>4. \A s \in Sources : best'[s] = run[x].view[s]
      BY <1>3, <1>6, <3>3 DEF Insert
    <3>5. best' \in Versions /\ run[x].view \in Versions
      BY <1>6, Numbers DEF IInv, TypeOK
    <3>6. best' = run[x].view
      BY <3>4, <3>5 DEF Versions
    <3>7. QED
      BY <3>1, <3>6
  <2>8. NewestIsFreshest'
    BY <2>7 DEF NewestIsFreshest
  <2>9. QED
    BY <1>1, <2>2, <2>4, <2>6, <2>8 DEF FreshInv
<1>7. QED
  BY <1>5, <1>6

(* A step that adds a refresh or takes it a step further. *)
LEMMA RunStep ==
    ASSUME IInv, FreshInv, NEW x \in Runners, NEW r \in RunState,
           run' = [run EXCEPT ![x] = r], UNCHANGED <<version, newest, best>>,
           clock' \in Nat, clock <= clock', r.at <= clock',
           \A s \in Sources : r.view[s] <= version[s],
           ~fellBack' => \A s \in Sources \ r.unread : best[s] <= r.view[s],
           ~fellBack' => (r.step = "create" => r.at > newest.at),
           fellBack => fellBack'
    PROVE  SeenIsMade' /\ StampsArePast' /\ ReadsSeeBest' /\ InsertIsLatest' /\ NewestIsFreshest'
<1>1. \A y \in Runners : run'[y] = IF y = x THEN r ELSE run[y]
  BY DEF IInv, TypeOK
<1>2. SeenIsMade'
  BY <1>1 DEF FreshInv, SeenIsMade
<1>3. newest.at \in Nat /\ clock \in Nat /\ \A y \in Runners : run[y].at \in Nat
  BY Numbers DEF IInv
<1>4. StampsArePast'
  BY <1>1, <1>3 DEF FreshInv, StampsArePast, RunState
<1>5. ReadsSeeBest' /\ InsertIsLatest' /\ NewestIsFreshest'
  BY <1>1 DEF FreshInv, ReadsSeeBest, InsertIsLatest, NewestIsFreshest
<1>6. QED
  BY <1>2, <1>4, <1>5

LEMMA NewRunIsFresh ==
    /\ NewRun \in RunState /\ NewRun.step = "read" /\ NewRun.unread = Sources /\ NewRun.at = 0
    /\ \A s \in Sources : NewRun.view[s] = 0
<1>1. NoRun.view = NoVersion /\ NoRun.at = 0 /\ \A s \in Sources : NoVersion[s] = 0
  BY DEF NoRun, NoVersion
<1>2. NewRun.view = NoRun.view /\ NewRun.at = NoRun.at
  BY DEF NewRun, NoRun
<1>3. NewRun.step = "read" /\ NewRun.unread = Sources
  BY DEF NewRun, NoRun
<1>4. QED
  BY <1>1, <1>2, <1>3, Initials

LEMMA EnqueueRejectedFresh ==
    ASSUME IInv, FreshInv, NEW h \in Handlers, EnqueueRejected(h)
    PROVE  FreshInv'
<1>1. UNCHANGED <<version, newest, best, jobs, clock>> /\ fellBack' = TRUE
  BY DEF EnqueueRejected, tables
<1>2. h \in Runners /\ run' = [run EXCEPT ![h] = NewRun]
  BY DEF EnqueueRejected, Runners
<1>3. OneWorks' /\ NoFallback'
  BY <1>1 DEF FreshInv, OneWorks, NoFallback
<1>4. /\ clock' \in Nat /\ clock <= clock' /\ NewRun.at <= clock' /\ (fellBack => fellBack')
      /\ \A s \in Sources : NewRun.view[s] <= version[s]
      /\ Sources \ NewRun.unread = {} /\ NewRun.step # "create"
  <2>1. clock \in Nat /\ \A s \in Sources : version[s] \in Nat
    BY Numbers DEF IInv
  <2>2. QED
    BY <1>1, <2>1, NewRunIsFresh
<1>5. SeenIsMade' /\ StampsArePast' /\ ReadsSeeBest' /\ InsertIsLatest' /\ NewestIsFreshest'
  BY <1>1, <1>2, <1>4, NewRunIsFresh, RunStep
<1>6. QED
  BY <1>3, <1>5 DEF FreshInv

(* A worker with one place takes a job only when none is active. *)
LEMMA TakeFresh ==
    ASSUME Concurrency = 1, IInv, FreshInv, NEW j \in Jobs, Take(j)
    PROVE  FreshInv'
<1> DEFINE active == {k \in Jobs : jobs[k].state = "active"}
<1>1. UNCHANGED <<version, newest, best, pc, clock, fellBack>> /\ Cardinality(active) < 1
  BY DEF Take, tables
<1>2. j \in Runners /\ run' = [run EXCEPT ![j] = NewRun]
  BY DEF Take, Runners
<1>3. active = {}
  <2>1. IsFiniteSet(active)
    BY FS_Subset, RefreshAssumption
  <2>2. Cardinality(active) \in Nat
    BY <2>1, FS_CardinalityType
  <2>3. Cardinality(active) = 0
    BY <1>1, <2>2
  <2>4. QED
    BY <2>1, <2>3, FS_EmptySet
<1>4. \A k \in Jobs : jobs'[k].state = "active" => k = j
  BY <1>3 DEF Take, IInv, TypeOK
<1>5. OneWorks' /\ NoFallback'
  BY <1>1, <1>4 DEF FreshInv, OneWorks, NoFallback
<1>6. /\ clock' \in Nat /\ clock <= clock' /\ NewRun.at <= clock' /\ (fellBack => fellBack')
      /\ \A s \in Sources : NewRun.view[s] <= version[s]
      /\ Sources \ NewRun.unread = {} /\ NewRun.step # "create"
  <2>1. clock \in Nat /\ \A s \in Sources : version[s] \in Nat
    BY Numbers DEF IInv
  <2>2. QED
    BY <1>1, <2>1, NewRunIsFresh
<1>7. SeenIsMade' /\ StampsArePast' /\ ReadsSeeBest' /\ InsertIsLatest' /\ NewestIsFreshest'
  BY <1>1, <1>2, <1>6, NewRunIsFresh, RunStep
<1>8. QED
  BY <1>5, <1>7 DEF FreshInv

LEMMA ReadSignalFresh ==
    ASSUME IInv, FreshInv, NEW x \in Runners, NEW s \in Sources, ReadSignal(x, s)
    PROVE  FreshInv'
<1> DEFINE left == run[x].unread \ {s}
           r == [run[x] EXCEPT !.unread = left, !.view[s] = version[s],
                               !.step = IF left = {} THEN "ask" ELSE "read"]
<1>1. run[x] \in RunState /\ run[x].step = "read" /\ version[s] \in 0..MaxWrites
  BY DEF IInv, TypeOK, Versions, ReadSignal
<1>2. /\ r.unread = left /\ r.view = [run[x].view EXCEPT ![s] = version[s]]
      /\ r.step = (IF left = {} THEN "ask" ELSE "read") /\ r.at = run[x].at
  BY <1>1 DEF RunState
<1>3. r.view \in Versions /\ left \in SUBSET Sources
  BY <1>1, <1>2 DEF RunState, Versions
<1>4. r \in RunState
  BY <1>1, <1>2, <1>3 DEF RunState
<1>5. \A t \in Sources : r.view[t] = IF t = s THEN version[s] ELSE run[x].view[t]
  BY <1>1, <1>2 DEF RunState, Versions
<1>6. run' = [run EXCEPT ![x] = r]
  BY DEF ReadSignal
<1>7. UNCHANGED <<version, newest, best, pc, jobs, clock, fellBack>>
  BY DEF ReadSignal, tables
<1>8. clock \in Nat /\ \A t \in Sources : version[t] \in Nat
  BY Numbers DEF IInv
<1>9. \A t \in Sources : r.view[t] <= version[t]
  BY <1>5, <1>8 DEF FreshInv, SeenIsMade
<1>10. ~fellBack => \A t \in Sources \ r.unread : best[t] <= r.view[t]
  BY <1>1, <1>2, <1>5 DEF FreshInv, SeenIsMade, ReadsSeeBest
<1>11. /\ r.step # "create" /\ r.at <= clock' /\ clock <= clock' /\ clock' \in Nat
       /\ (~fellBack' => ~fellBack) /\ (fellBack => fellBack')
  BY <1>2, <1>7, <1>8 DEF FreshInv, StampsArePast
<1> HIDE DEF r
<1>12. SeenIsMade' /\ StampsArePast' /\ ReadsSeeBest' /\ InsertIsLatest' /\ NewestIsFreshest'
  BY <1>4, <1>6, <1>7, <1>8, <1>9, <1>10, <1>11, RunStep
<1>13. OneWorks' /\ NoFallback'
  BY <1>7 DEF FreshInv, OneWorks, NoFallback
<1>14. QED
  BY <1>12, <1>13 DEF FreshInv

LEMMA AiRepliesFresh ==
    ASSUME IInv, FreshInv, NEW x \in Runners, AiReplies(x)
    PROVE  FreshInv'
<1> DEFINE r == [run[x] EXCEPT !.step = "create", !.at = clock']
<1>1. run[x] \in RunState /\ run[x].step = "ask"
  BY DEF IInv, TypeOK, AiReplies
<1>2. clock \in Nat /\ clock' = clock + 1 /\ newest.at \in Nat
  BY Numbers DEF IInv, AiReplies
<1>3. r \in RunState /\ r.unread = run[x].unread /\ r.view = run[x].view /\ r.at = clock'
  <2>1. clock' \in Nat
    BY <1>2
  <2>2. QED
    BY <1>1, <2>1 DEF RunState
<1>4. run' = [run EXCEPT ![x] = r]
  BY DEF AiReplies
<1>5. UNCHANGED <<version, newest, best, pc, jobs, fellBack>>
  BY DEF AiReplies, tables
<1>6. \A t \in Sources : r.view[t] <= version[t]
  BY <1>3 DEF FreshInv, SeenIsMade
<1>7. ~fellBack => \A t \in Sources \ r.unread : best[t] <= r.view[t]
  BY <1>1, <1>3 DEF FreshInv, ReadsSeeBest
<1>8. r.at > newest.at /\ r.at <= clock' /\ clock <= clock' /\ clock' \in Nat
  BY <1>2, <1>3 DEF FreshInv, StampsArePast
<1> HIDE DEF r
<1>9. SeenIsMade' /\ StampsArePast' /\ ReadsSeeBest' /\ InsertIsLatest' /\ NewestIsFreshest'
  BY <1>3, <1>4, <1>5, <1>6, <1>7, <1>8, RunStep
<1>10. OneWorks' /\ NoFallback'
  BY <1>5 DEF FreshInv, OneWorks, NoFallback
<1>11. QED
  BY <1>9, <1>10 DEF FreshInv

(* The end of a refresh, with or without its snapshot. *)
LEMMA EndFresh ==
    ASSUME IInv, TypeOK', FreshInv, NEW x \in Runners, run[x].step # "off",
           \/ Succeed(x)
           \/ \E outcome \in {"error", "aiError"} : Fail(x, outcome),
           UNCHANGED <<version, clock, fellBack>>,
           UNCHANGED <<newest, best>> \/ (run[x].step = "create" /\ Insert(x))
    PROVE  FreshInv'
<1>1. run' = [run EXCEPT ![x] = NoRun]
  BY DEF Succeed, Fail
<1>2. run'[x] = NoRun /\ \A y \in Runners : run'[y] \in {run[y], NoRun}
  BY <1>1 DEF IInv, TypeOK
<1>3. \A h \in Handlers : pc'[h] = "refresh" => pc[h] = "refresh"
  BY DEF Succeed, Fail, Answer, IInv, TypeOK
<1>4. \A j \in Jobs : jobs'[j].state = "active" => jobs[j].state = "active"
  BY DEF Succeed, Fail, AfterAttempt, IInv, TypeOK, Job
<1>5. Grows(version, version')
  BY Numbers DEF Grows, IInv
<1>6. QED
  BY <1>2, <1>3, <1>4, <1>5, QuietStep

LEMMA CrashFresh == ASSUME IInv, TypeOK', FreshInv, Crash PROVE FreshInv'
<1>1. UNCHANGED <<version, clock, fellBack>>
  BY DEF Crash
<1>2. \A y \in Runners : run'[y] = NoRun
  BY DEF Crash
<1>3. \A h \in Handlers : pc'[h] = "idle"
  BY DEF Crash
<1>4. \A j \in Jobs : jobs'[j].state = "active" => jobs[j].state = "active"
  BY DEF Crash, IInv, TypeOK, Job
<1>5. Grows(version, version')
  BY <1>1, Numbers DEF Grows, IInv
<1>6. \/ UNCHANGED <<newest, best>>
      \/ \E x \in Runners : run[x].step = "create" /\ Insert(x) /\ run'[x] = NoRun
  BY <1>2 DEF Crash
<1>7. QED
  BY <1>1, <1>2, <1>3, <1>4, <1>5, <1>6, QuietStep

LEMMA RefreshFresh == ASSUME IInv, TypeOK', FreshInv, NEW x \in Runners, Refresh(x) PROVE FreshInv'
<1>1. ASSUME NEW s \in Sources, ReadSignal(x, s) PROVE FreshInv'
  BY <1>1, ReadSignalFresh
<1>2. CASE AiReplies(x)
  BY <1>2, AiRepliesFresh
<1>3. CASE AiFails(x)
  BY <1>3, EndFresh DEF AiFails, tables
<1>4. CASE CreateOk(x)
  BY <1>4, EndFresh DEF CreateOk
<1>5. CASE DatabaseFails(x)
  BY <1>5, EndFresh DEF DatabaseFails
<1>6. QED
  BY <1>1, <1>2, <1>3, <1>4, <1>5 DEF Refresh

(* The steps that leave the refreshes alone. *)
LEMMA RestFresh ==
    ASSUME IInv, TypeOK', FreshInv, UNCHANGED <<run, newest, best, clock, fellBack>>,
           \/ \E h \in Handlers, s \in Sources : WriteSignal(h, s)
           \/ RemoveFavorite
           \/ \E h \in Handlers : EnqueueOk(h)
           \/ \E j \in Jobs : StalledCheck(j)
           \/ UNCHANGED vars
    PROVE  FreshInv'
<1>1. Grows(version, version')
  <2>1. CASE \E s \in Sources : NewVersion(s)
    BY <2>1, NewVersionGrows
  <2>2. CASE UNCHANGED version
    BY <2>2, Numbers DEF Grows, IInv
  <2>3. QED
    BY <2>1, <2>2 DEF WriteSignal, RemoveFavorite, EnqueueOk, StalledCheck, vars, tables
<1>2. \A h \in Handlers : pc'[h] = "refresh" => pc[h] = "refresh"
  BY DEF WriteSignal, RemoveFavorite, EnqueueOk, StalledCheck, vars, Answer, IInv, TypeOK
<1>3. \A j \in Jobs : jobs'[j].state = "active" => jobs[j].state = "active"
  <2>1. CASE UNCHANGED jobs
    BY <2>1
  <2>2. ASSUME NEW h \in Handlers, EnqueueOk(h)
        PROVE  \A j \in Jobs : jobs'[j].state = "active" => jobs[j].state = "active"
    BY <2>2 DEF EnqueueOk, NoJob, IInv, TypeOK
  <2>3. ASSUME NEW k \in Jobs, StalledCheck(k)
        PROVE  \A j \in Jobs : jobs'[j].state = "active" => jobs[j].state = "active"
    BY <2>3 DEF StalledCheck, IInv, TypeOK, Job
  <2>4. QED
    BY <2>1, <2>2, <2>3 DEF WriteSignal, RemoveFavorite, vars
<1>4. QED
  BY <1>1, <1>2, <1>3, QuietStep

LEMMA FreshInvariance ==
    ASSUME Concurrency = 1, IInv, IInv', FreshInv, [Next]_vars
    PROVE  FreshInv'
<1>1. TypeOK'
  BY DEF IInv
<1>2. ASSUME NEW h \in Handlers, NEW s \in Sources, WriteSignal(h, s) PROVE FreshInv'
  BY <1>1, <1>2, RestFresh DEF WriteSignal
<1>3. CASE RemoveFavorite
  BY <1>1, <1>3, RestFresh DEF RemoveFavorite
<1>4. ASSUME NEW h \in Handlers, EnqueueOk(h) PROVE FreshInv'
  BY <1>1, <1>4, RestFresh DEF EnqueueOk, tables
<1>5. ASSUME NEW h \in Handlers, EnqueueRejected(h) PROVE FreshInv'
  BY <1>5, EnqueueRejectedFresh
<1>6. ASSUME NEW j \in Jobs, Take(j) PROVE FreshInv'
  BY <1>6, TakeFresh
<1>7. ASSUME NEW j \in Jobs, StalledCheck(j) PROVE FreshInv'
  BY <1>1, <1>7, RestFresh DEF StalledCheck, tables
<1>8. ASSUME NEW x \in Runners, Refresh(x) PROVE FreshInv'
  BY <1>1, <1>8, RefreshFresh
<1>9. CASE Crash
  BY <1>1, <1>9, CrashFresh
<1>10. CASE UNCHANGED vars
  BY <1>1, <1>10, RestFresh DEF vars
<1>11. QED
  BY <1>2, <1>3, <1>4, <1>5, <1>6, <1>7, <1>8, <1>9, <1>10 DEF Next, Enqueue, Work

(* With one worker, and as long as no request refreshes by itself, the        *)
(* snapshot that home serves has seen of every source the newest version that *)
(* any snapshot has seen, through retries, crashes and inserts that were      *)
(* committed although the worker died.                                        *)
THEOREM SpecNewestIsFreshest ==
    ASSUME Concurrency = 1
    PROVE  Spec => []NewestIsFreshest
<1>1. IInv /\ IInv' /\ FreshInv /\ [Next]_vars => FreshInv'
  BY FreshInvariance
<1>2. FreshInv => NewestIsFreshest
  BY DEF FreshInv
<1>3. Safety => []FreshInv
  BY <1>1, InitFresh, SafetyInv, PTL DEF Safety
<1>4. QED
  BY <1>2, <1>3, SpecIsSafe, PTL

LEMMA BestGrows ==
    ASSUME IInv, [Next]_vars
    PROVE  Grows(best, best') /\ (fellBack => fellBack')
<1>1. \A s \in Sources : best[s] \in Nat
  BY Numbers DEF IInv
<1>2. ASSUME NEW x \in Runners, Insert(x) PROVE Grows(best, best')
  <2>1. best' \in Versions /\ \A s \in Sources : best'[s] >= best[s]
    BY <1>2, InsertCovers DEF IInv
  <2>2. QED
    BY <1>1, <2>1, RefreshAssumption DEF Grows, Versions
<1>3. \/ UNCHANGED best
      \/ \E x \in Runners : Insert(x)
  BY DEF Next, WriteSignal, RemoveFavorite, Enqueue, EnqueueOk, EnqueueRejected, Work, Take,
         StalledCheck, Refresh, ReadSignal, AiReplies, AiFails, CreateOk, DatabaseFails, Crash,
         tables, vars
<1>4. fellBack' = TRUE \/ UNCHANGED fellBack
  BY DEF Next, WriteSignal, RemoveFavorite, Enqueue, EnqueueOk, EnqueueRejected, Work, Take,
         StalledCheck, Refresh, ReadSignal, AiReplies, AiFails, CreateOk, DatabaseFails, Crash,
         tables, vars
<1>5. QED
  BY <1>1, <1>2, <1>3, <1>4 DEF Grows

(* What home serves never loses a write that it has shown: with one worker    *)
(* and without a fallback, no step replaces the latest snapshot by one that   *)
(* has seen less of any source.                                               *)
THEOREM SpecHomeNeverGoesBack ==
    ASSUME Concurrency = 1
    PROVE  Spec => [][~fellBack' => Grows(newest.view, newest'.view)]_vars
<1>1. ASSUME IInv, FreshInv, FreshInv', [Next]_vars, ~fellBack'
      PROVE  Grows(newest.view, newest'.view)
  BY <1>1, BestGrows DEF FreshInv, NewestIsFreshest
<1>2. IInv /\ IInv' /\ FreshInv /\ [Next]_vars => FreshInv'
  BY FreshInvariance
<1>3. IInv /\ IInv' /\ FreshInv /\ FreshInv' /\ [Next]_vars
        => [~fellBack' => Grows(newest.view, newest'.view)]_vars
  BY <1>1
<1>4. Safety => []FreshInv
  BY <1>2, InitFresh, SafetyInv, PTL DEF Safety
<1>5. QED
  BY <1>3, <1>4, SafetyInv, SpecIsSafe, PTL DEF Safety
=============================================================================
