-------------------------- MODULE UserRequestsProofs --------------------------
(***************************************************************************)
(* For any notifications, any limit and any number of handlers in flight.  *)
(*                                                                         *)
(* Reports: the overshoot of the daily limit is bounded.  The invariant    *)
(* that carries it is Reserved: a handler that has passed the check holds  *)
(* a place until it inserts, so the inserts that are still to come are     *)
(* counted in advance.                                                     *)
(*                                                                         *)
(* Notifications: none is counted twice, and only what its owner asked for *)
(* is read.  The reports beside them keep what is proved of DailyReports:  *)
(* nothing in UserRequests touches their state.                            *)
(***************************************************************************)
EXTENDS UserRequests, FiniteSetTheorems, TLAPS

-----------------------------------------------------------------------------
(* The reports, as DailyReports specifies them. *)

USE ReportsAssumption

LEMMA PassedCard ==
    /\ IsFiniteSet(Passed)
    /\ Cardinality(Passed) \in Nat
    /\ Cardinality(Handlers) \in Nat
    /\ Cardinality(Passed) <= Cardinality(Handlers)
<1>1. Passed \subseteq Handlers
  BY DEF Passed
<1>2. QED
  BY <1>1, FS_Subset, FS_CardinalityType

(* The same of the next state: the lemma holds in every state. *)
LEMMA PassedCardNext ==
    /\ IsFiniteSet(Passed')
    /\ Cardinality(Passed') \in Nat
    /\ Cardinality(Passed') <= Cardinality(Handlers)
<1>1. Passed' \subseteq Handlers
  BY DEF Passed
<1>2. QED
  BY <1>1, FS_Subset, FS_CardinalityType

(* A step that lets no handler past the check takes no new place. *)
LEMMA FewerPassed ==
    ASSUME Passed' \subseteq Passed
    PROVE  Cardinality(Passed') <= Cardinality(Passed)
BY PassedCard, FS_Subset

(* An insert uses the place that its handler held. *)
LEMMA PlaceUsed ==
    ASSUME TypeOK, NEW h \in Handlers, pc[h] = "create", Goto(h, "idle")
    PROVE  Cardinality(Passed') + 1 = Cardinality(Passed)
<1>1. h \in Passed /\ Passed' = Passed \ {h}
  BY DEF TypeOK, Passed, Goto
<1>2. Cardinality(Passed \ {h}) = Cardinality(Passed) - 1
  BY <1>1, PassedCard, FS_RemoveElement
<1>3. QED
  BY <1>1, <1>2, PassedCard

LEMMA InitInv == Init => IInv
<1> SUFFICES ASSUME Init PROVE IInv
  OBVIOUS
<1>1. TypeOK /\ FutureEmpty
  BY DEF Init, TypeOK, FutureEmpty, Days
<1>2. OvershootBound
  BY PassedCard DEF Init, OvershootBound, Days
<1>3. Reserved
  BY PassedCard DEF Init, Reserved, Days
<1>4. QED
  BY <1>1, <1>2, <1>3 DEF IInv

(* A step that inserts nothing and lets nobody past the check. *)
LEMMA QuietStep ==
    ASSUME IInv, TypeOK', UNCHANGED <<filed, today>>, Passed' \subseteq Passed
    PROVE  IInv'
<1>1. filed[today] \in Nat
  BY DEF IInv, TypeOK
<1>2. Reserved'
  BY <1>1, FewerPassed, PassedCard, PassedCardNext DEF IInv, Reserved
<1>3. QED
  BY <1>2 DEF IInv, FutureEmpty, OvershootBound

(* A step in which h inserts a report. *)
LEMMA InsertStep ==
    ASSUME IInv, TypeOK', NEW h \in Handlers, pc[h] = "create", Goto(h, "idle"),
           filed' = [filed EXCEPT ![today] = @ + 1], UNCHANGED today
    PROVE  IInv'
<1>1. filed \in [Days -> Nat] /\ today \in Days /\ today \in Nat
  BY DEF IInv, TypeOK, Days
<1>2. filed'[today] = filed[today] + 1 /\ \A d \in Days \ {today} : filed'[d] = filed[d]
  BY <1>1
<1>3. Cardinality(Passed') + 1 = Cardinality(Passed)
  BY PlaceUsed DEF IInv
<1>4. Reserved'
  BY <1>1, <1>2, <1>3, PassedCard, PassedCardNext DEF IInv, Reserved
<1>5. OvershootBound'
  <2> SUFFICES ASSUME NEW d \in Days
               PROVE  filed'[d] + 1 <= MaxReports + Cardinality(Handlers)
    BY DEF OvershootBound
  <2>1. CASE d = today
    BY <1>1, <1>2, <1>4, <2>1, PassedCardNext, PassedCard DEF Reserved
  <2>2. CASE d # today
    BY <1>2, <2>2 DEF IInv, OvershootBound
  <2>3. QED
    BY <2>1, <2>2
<1>6. FutureEmpty'
  BY <1>1, <1>2 DEF IInv, FutureEmpty, Days
<1>7. QED
  BY <1>4, <1>5, <1>6 DEF IInv

LEMMA TypeStep == TypeOK /\ [Next]_vars => TypeOK'
<1> SUFFICES ASSUME TypeOK, [Next]_vars PROVE TypeOK'
  OBVIOUS
<1> USE DEF TypeOK, Goto, Days
<1>1. ASSUME NEW h \in Handlers, CreateReport(h) PROVE TypeOK'
  BY <1>1 DEF CreateReport
<1>2. ASSUME NEW h \in Handlers, CountReports(h) \/ FindTarget(h) PROVE TypeOK'
  BY <1>2 DEF CountReports, FindTarget
<1>3. ASSUME NEW h \in Handlers, InsertReport(h) \/ Abort(h) PROVE TypeOK'
  <2>1. pc' \in [Handlers -> {"idle", "count", "target", "create"}]
        /\ UNCHANGED <<today, since>>
    BY <1>3 DEF InsertReport, Abort
  <2>2. filed' = filed \/ filed' = [filed EXCEPT ![today] = @ + 1]
    BY <1>3 DEF InsertReport, Abort
  <2>3. filed' \in [Days -> Nat]
    BY <2>2
  <2>4. QED
    BY <2>1, <2>3
<1>4. CASE Midnight
  BY <1>4 DEF Midnight
<1>5. CASE UNCHANGED vars
  BY <1>5 DEF vars
<1>6. QED
  BY <1>1, <1>2, <1>3, <1>4, <1>5 DEF Next

LEMMA NextInv == IInv /\ [Next]_vars => IInv'
<1> SUFFICES ASSUME IInv, [Next]_vars PROVE IInv'
  OBVIOUS
<1>0. TypeOK /\ TypeOK'
  BY TypeStep DEF IInv
<1>1. ASSUME NEW h \in Handlers, CreateReport(h) PROVE IInv'
  <2>1. Passed' \subseteq Passed
    BY <1>0, <1>1 DEF CreateReport, Passed, Goto, TypeOK
  <2>2. QED
    BY <1>0, <1>1, <2>1, QuietStep DEF CreateReport
<1>2. ASSUME NEW h \in Handlers, CountReports(h) PROVE IInv'
  <2>1. CASE Goto(h, "idle")
    <3>1. Passed' \subseteq Passed
      BY <1>0, <2>1 DEF Passed, Goto, TypeOK
    <3>2. QED
      BY <1>0, <1>2, <3>1, QuietStep DEF CountReports
  <2>2. CASE ~LimitReached(h) /\ Goto(h, "target")
    <3>1. filed[today] \in Nat /\ filed[since[h]] \in Nat
      BY <1>0 DEF TypeOK
    <3>2. filed[today] + 1 <= MaxReports
      BY <2>2, <3>1 DEF LimitReached, Counted
    <3>3. Reserved'
      BY <1>2, <3>1, <3>2, PassedCard, PassedCardNext DEF CountReports, Reserved
    <3>4. QED
      BY <1>0, <1>2, <3>3 DEF IInv, CountReports, FutureEmpty, OvershootBound
  <2>3. QED
    BY <1>2, <2>1, <2>2 DEF CountReports
<1>3. ASSUME NEW h \in Handlers, FindTarget(h) PROVE IInv'
  <2>1. Passed' \subseteq Passed
    BY <1>0, <1>3 DEF FindTarget, Passed, Goto, TypeOK
  <2>2. QED
    BY <1>0, <1>3, <2>1, QuietStep DEF FindTarget
<1>4. ASSUME NEW h \in Handlers, InsertReport(h) PROVE IInv'
  BY <1>0, <1>4, InsertStep DEF InsertReport
<1>5. ASSUME NEW h \in Handlers, Abort(h) PROVE IInv'
  <2>1. CASE UNCHANGED filed
    <3>1. Passed' \subseteq Passed
      BY <1>0, <1>5 DEF Abort, Passed, Goto, TypeOK
    <3>2. QED
      BY <1>0, <1>5, <2>1, <3>1, QuietStep DEF Abort
  <2>2. CASE pc[h] = "create" /\ filed' = [filed EXCEPT ![today] = @ + 1]
    BY <1>0, <1>5, <2>2, InsertStep DEF Abort
  <2>3. QED
    BY <1>5, <2>1, <2>2 DEF Abort
<1>6. CASE Midnight
  <2>1. /\ filed' = filed /\ today' \in Days /\ today' > today /\ today \in Nat
        /\ Passed' = Passed
    BY <1>0, <1>6 DEF Midnight, TypeOK, Days, Passed
  <2>2. filed'[today'] = 0
    BY <2>1 DEF IInv, FutureEmpty
  <2>3. Reserved'
    BY <2>2, PassedCard, PassedCardNext DEF Reserved
  <2>4. FutureEmpty'
    BY <1>0, <2>1 DEF IInv, FutureEmpty, Days
  <2>5. QED
    BY <1>0, <2>1, <2>3, <2>4 DEF IInv, OvershootBound
<1>7. CASE UNCHANGED vars
  BY <1>0, <1>7, QuietStep DEF vars, Passed
<1>8. QED
  BY <1>1, <1>2, <1>3, <1>4, <1>5, <1>6, <1>7 DEF Next

(* The inductive invariant holds in every reachable state. *)
THEOREM Invariance == Spec => []IInv
<1>1. QED
  BY InitInv, NextInv, PTL DEF Spec

(* However many requests of a user overlap, a day gets at most MaxReports - 1 *)
(* reports more than there are handlers.                                      *)
THEOREM OvershootIsBounded == Spec => []OvershootBound
<1>1. IInv => OvershootBound
  BY DEF IInv
<1>2. QED
  BY <1>1, Invariance, PTL

(* With one request at a time the documented limit is exact. *)
THEOREM SerialLimitIsExact ==
    ASSUME Cardinality(Handlers) = 1
    PROVE  Spec => []MaxPerDay
<1>1. IInv => MaxPerDay
  BY DEF IInv, TypeOK, OvershootBound, MaxPerDay
<1>2. QED
  BY <1>1, Invariance, PTL

-----------------------------------------------------------------------------
(* Marking notifications. *)

USE NotesAssumption

NotesTypeOK ==
    /\ arrived \in SUBSET Notes /\ isRead \in SUBSET Notes
    /\ marking \in [Handlers -> Notes \cup {None}]
    /\ counted \in Nat
    /\ asked \in SUBSET Notes

(* A handler holds a row that its user owns and has asked for. *)
MarkingWasAsked == \A h \in Handlers : marking[h] # None => marking[h] \in asked \cap Mine

NotesInv == NotesTypeOK /\ MarkingWasAsked /\ ReadWasAsked /\ CountedOnce

LEMMA NotesFinite ==
    ASSUME NEW S \in SUBSET Notes
    PROVE  IsFiniteSet(S) /\ Cardinality(S) \in Nat
BY FS_Subset, FS_CardinalityType

LEMMA NotesInit == RequestInit => NotesInv
<1> SUFFICES ASSUME RequestInit PROVE NotesInv
  OBVIOUS
<1>1. NotesTypeOK /\ MarkingWasAsked /\ ReadWasAsked
  BY DEF RequestInit, NotesTypeOK, MarkingWasAsked, ReadWasAsked
<1>2. CountedOnce
  BY NotesFinite DEF RequestInit, CountedOnce
<1>3. QED
  BY <1>1, <1>2 DEF NotesInv

(* More rows are read, and the count is what it was. *)
LEMMA MoreRead ==
    ASSUME NotesInv, isRead \subseteq isRead', isRead' \in SUBSET Notes, UNCHANGED counted
    PROVE  CountedOnce'
<1>1. isRead \cap Mine \subseteq isRead' \cap Mine
  OBVIOUS
<1>2. Cardinality(isRead \cap Mine) <= Cardinality(isRead' \cap Mine)
  BY <1>1, NotesFinite, FS_Subset
<1>3. QED
  BY <1>2, NotesFinite DEF NotesInv, NotesTypeOK, CountedOnce

(* read-all counts rows that were unread, so none that was counted before. *)
LEMMA CountAdds ==
    ASSUME NotesInv, isRead' = isRead \cup Updated, counted' = counted + Cardinality(Updated)
    PROVE  CountedOnce'
<1> DEFINE before == isRead \cap Mine
           after == isRead' \cap Mine
<1>1. /\ before \in SUBSET Notes /\ Updated \in SUBSET Notes
      /\ before \cap Updated = {} /\ after = before \cup Updated
  BY DEF Updated, OfUser, NotesInv, NotesTypeOK
<1>2. Cardinality(before) \in Nat /\ Cardinality(Updated) \in Nat /\ Cardinality({}) = 0
  BY <1>1, NotesFinite, FS_EmptySet
<1>3. counted \in Nat /\ counted <= Cardinality(before)
  BY DEF NotesInv, NotesTypeOK, CountedOnce
<1> HIDE DEF before, after
<1>4. Cardinality(after) = Cardinality(before) + Cardinality(Updated)
  <2>1. IsFiniteSet(before) /\ IsFiniteSet(Updated)
    BY <1>1, NotesFinite
  <2>2. Cardinality(before \cup Updated)
            = Cardinality(before) + Cardinality(Updated) - Cardinality(before \cap Updated)
    BY <2>1, FS_Union
  <2>3. Cardinality(before \cup Updated) = Cardinality(after)
    BY <1>1, Zenon
  <2>4. Cardinality(before \cap Updated) = 0
    BY <1>1, <1>2, Zenon
  <2>5. QED
    BY <1>2, <2>2, <2>3, <2>4
<1>5. counted' <= Cardinality(after)
  BY <1>2, <1>3, <1>4
<1>6. QED
  BY <1>5 DEF CountedOnce, after

LEMMA NotesStep == NotesInv /\ [RequestNext]_requestVars => NotesInv'
<1> SUFFICES ASSUME NotesInv, [RequestNext]_requestVars PROVE NotesInv'
  OBVIOUS
<1> USE DEF NotesInv, NotesTypeOK, MarkingWasAsked, ReadWasAsked
<1>1. ASSUME NEW h \in Handlers, NEW n \in Notes, MarkRead(h, n) PROVE NotesInv'
  <2>1. UNCHANGED <<arrived, isRead, counted>> /\ n \in Notes \cap Mine
    BY <1>1 DEF MarkRead, OfUser
  <2>2. NotesTypeOK' /\ MarkingWasAsked' /\ ReadWasAsked'
    BY <1>1, <2>1 DEF MarkRead
  <2>3. QED
    BY <2>1, <2>2, MoreRead
<1>2. ASSUME NEW h \in Handlers, MarkReadUpdate(h) PROVE NotesInv'
  <2>1. NotesTypeOK' /\ MarkingWasAsked' /\ ReadWasAsked'
    BY <1>2 DEF MarkReadUpdate
  <2>2. QED
    BY <1>2, <2>1, MoreRead DEF MarkReadUpdate
<1>3. ASSUME NEW h \in Handlers, MarkReadFails(h) PROVE NotesInv'
  <2>1. NotesTypeOK' /\ MarkingWasAsked' /\ ReadWasAsked'
    BY <1>3 DEF MarkReadFails
  <2>2. QED
    BY <1>3, <2>1, MoreRead DEF MarkReadFails
<1>4. ASSUME NEW h \in Handlers, MarkAllRead(h) PROVE NotesInv'
  <2>1. Updated \in SUBSET Notes /\ Updated \subseteq Mine /\ Updated \subseteq asked'
    BY <1>4 DEF MarkAllRead, Updated, OfUser
  <2>2. counted' \in Nat
    BY <1>4, <2>1, NotesFinite DEF MarkAllRead
  <2>3. NotesTypeOK' /\ MarkingWasAsked' /\ ReadWasAsked'
    BY <1>4, <2>1, <2>2 DEF MarkAllRead, OfUser
  <2>4. CountedOnce'
    BY <1>4, <2>3, MoreRead, CountAdds DEF MarkAllRead
  <2>5. QED
    BY <2>3, <2>4
<1>5. ASSUME NEW n \in Notes, Arrive(n) PROVE NotesInv'
  BY <1>5, MoreRead DEF Arrive
<1>6. CASE UNCHANGED noteVars
  BY <1>6, MoreRead DEF noteVars
<1>7. QED
  BY <1>1, <1>2, <1>3, <1>4, <1>5, <1>6 DEF RequestNext, Report, requestVars

(* What the notifications of a user look like in every reachable state. *)
THEOREM NotesInvariance == RequestSpec => []NotesInv
BY NotesInit, NotesStep, PTL DEF RequestSpec

(* All counts that read-all ever answered name each notification at most once. *)
THEOREM NotesAreCountedOnce == RequestSpec => []CountedOnce
<1>1. NotesInv => CountedOnce
  BY DEF NotesInv
<1>2. QED
  BY <1>1, NotesInvariance, PTL

(* Only what its owner asked for is read, although the update names no user. *)
THEOREM OnlyWhatWasAskedIsRead == RequestSpec => []ReadWasAsked
<1>1. NotesInv => ReadWasAsked
  BY DEF NotesInv
<1>2. QED
  BY <1>1, NotesInvariance, PTL

(* Seen from the report table, the requests of a user are those of DailyReports. *)
THEOREM RequestsFileReports == RequestSpec => Spec
<1>1. RequestInit => Init
  BY DEF RequestInit
<1>2. [RequestNext]_requestVars => [Next]_vars
  BY DEF RequestNext, Report, MarkRead, MarkReadUpdate, MarkReadFails, MarkAllRead, Arrive,
         requestVars, Next
<1>3. QED
  BY <1>1, <1>2, PTL DEF RequestSpec, Spec

(* The daily limit is exceeded by one less than the handlers in flight at most, *)
(* whatever else the user's requests do.                                        *)
THEOREM OvershootBesideNotes == RequestSpec => []OvershootBound
BY RequestsFileReports, OvershootIsBounded, PTL
=============================================================================
