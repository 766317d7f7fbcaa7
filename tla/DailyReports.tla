---------------------------- MODULE DailyReports ----------------------------
(***************************************************************************)
(* The daily limit on content reports: ReportsService.createReport.        *)
(*                                                                         *)
(* One user is modelled (the count is per user).  The handler awaits three *)
(* database calls, with nothing that ties them together: it counts the     *)
(* user's reports since midnight, looks the target up, and inserts.  Time  *)
(* is the day it is; the report is dated when it is inserted.              *)
(*                                                                         *)
(* LimitReachedLate is a mistaken form of LimitReached, used by a mutation *)
(* in PROJECT.json only.                                                   *)
(***************************************************************************)
EXTENDS Naturals, FiniteSets

CONSTANTS
    Handlers,   \* requests of the user that can be in flight at once
    MaxReports, \* MAX_REPORTS_PER_DAY
    MaxDay,     \* bound on the days
    MayFail     \* TRUE: a database call may reject, or the process may stop

ASSUME ReportsAssumption ==
    /\ IsFiniteSet(Handlers)
    /\ MaxReports \in Nat \ {0}
    /\ MaxDay \in Nat
    /\ MayFail \in BOOLEAN

VARIABLES
    filed,      \* report table: how many reports are dated on each day
    today,      \* the server's date
    pc,         \* per handler: the database call it awaits
    since       \* per handler: startOfDay

vars == <<filed, today, pc, since>>

Days == 0..MaxDay

TypeOK ==
    /\ filed \in [Days -> Nat]
    /\ today \in Days
    /\ pc \in [Handlers -> {"idle", "count", "target", "create"}]
    /\ since \in [Handlers -> Days]

Init ==
    /\ filed = [d \in Days |-> 0]
    /\ today = 0
    /\ pc = [h \in Handlers |-> "idle"]
    /\ since = [h \in Handlers |-> 0]

Goto(h, label) == pc' = [pc EXCEPT ![h] = label]

-----------------------------------------------------------------------------
(* assertDailyReportLimit: startOfDay is taken before the query is sent. *)
CreateReport(h) ==
    /\ pc[h] = "idle"
    /\ Goto(h, "count")
    /\ since' = [since EXCEPT ![h] = today]
    /\ UNCHANGED <<filed, today>>

(* The count covers startOfDay and whatever came after it: at most two days   *)
(* are told apart, because a request does not outlive the next midnight.      *)
Counted(h) == IF since[h] = today THEN filed[today] ELSE filed[since[h]] + filed[today]

LimitReachedLate(h) == Counted(h) > MaxReports
LimitReached(h) == Counted(h) >= MaxReports

(* 429, or a target that is not exactly one of city and monument (400), or    *)
(* the look-up of the target is sent.                                         *)
CountReports(h) ==
    /\ pc[h] = "count"
    /\ \/ LimitReached(h) /\ Goto(h, "idle")
       \/ ~LimitReached(h) /\ (Goto(h, "idle") \/ Goto(h, "target"))
    /\ UNCHANGED <<filed, today, since>>

(* assertPublishedTarget: 404, or the insert is sent. *)
FindTarget(h) ==
    /\ pc[h] = "target"
    /\ Goto(h, "idle") \/ Goto(h, "create")
    /\ UNCHANGED <<filed, today, since>>

(* report.create *)
InsertReport(h) ==
    /\ pc[h] = "create"
    /\ filed' = [filed EXCEPT ![today] = @ + 1]
    /\ Goto(h, "idle")
    /\ UNCHANGED <<today, since>>

(* The call rejects (500); an insert may have been committed all the same. *)
Abort(h) ==
    /\ MayFail /\ pc[h] # "idle"
    /\ Goto(h, "idle")
    /\ \/ UNCHANGED filed
       \/ pc[h] = "create" /\ filed' = [filed EXCEPT ![today] = @ + 1]
    /\ UNCHANGED <<today, since>>

(* Bound: the date moves on only when no handler is left from the day before. *)
Midnight ==
    /\ today < MaxDay
    /\ \A h \in Handlers : pc[h] # "idle" => since[h] = today
    /\ today' = today + 1
    /\ UNCHANGED <<filed, pc, since>>

Next ==
    \/ \E h \in Handlers :
          CreateReport(h) \/ CountReports(h) \/ FindTarget(h) \/ InsertReport(h) \/ Abort(h)
    \/ Midnight

Spec == Init /\ [][Next]_vars

-----------------------------------------------------------------------------
(* Handlers that have passed the limit and not yet inserted. *)
Passed == {h \in Handlers : pc[h] \in {"target", "create"}}

(* The check and the insert are not atomic, yet the overshoot is bounded:     *)
(* with one request at a time the limit is exact, and every further request   *)
(* in flight can add at most one report, midnight included.                   *)
OvershootBound ==
    \A d \in Days : filed[d] + 1 <= MaxReports + Cardinality(Handlers)

(* The inductive form: the handlers past the check are already paid for. *)
Reserved == filed[today] + Cardinality(Passed) + 1 <= MaxReports + Cardinality(Handlers)

(* Nothing is dated in the future. *)
FutureEmpty == \A d \in Days : d > today => filed[d] = 0

IInv == TypeOK /\ FutureEmpty /\ OvershootBound /\ Reserved

(* "Max 3 reports per user per day (throttle)": the code keeps this as long as *)
(* the requests of a user do not overlap, and not when two of them pass the    *)
(* count before either inserts.                                                *)
MaxPerDay == \A d \in Days : filed[d] <= MaxReports
=============================================================================
