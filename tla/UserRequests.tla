---------------------------- MODULE UserRequests ----------------------------
(***************************************************************************)
(* What else a user's overlapping requests do, beside the reports of       *)
(* DailyReports: NotificationsService.markRead and markAllRead.  Nothing   *)
(* in this repository creates notifications, so they just arrive.  Their   *)
(* list is a walk of CursorPaging.                                         *)
(*                                                                         *)
(* The second definition of a pair is the code's, the first, named after a *)
(* mistake, is used by a mutation in PROJECT.json only.                    *)
(***************************************************************************)
EXTENDS DailyReports

CONSTANTS
    Notes,      \* notifications of all users
    Mine,       \* those of the user whose requests these are
    None        \* no notification

ASSUME NotesAssumption == IsFiniteSet(Notes) /\ Mine \subseteq Notes /\ None \notin Notes

VARIABLES
    arrived,    \* notification table
    isRead,     \* the rows whose column is_read is true
    marking,    \* per handler: the row that markRead has read as unread
    (* History variables: read by properties only. *)
    counted,    \* the sum of all "updated" answered by read-all
    asked       \* notifications whose marking, one by one or all, was asked for

noteVars == <<arrived, isRead, marking, counted, asked>>
requestVars == <<vars, noteVars>>

RequestTypeOK ==
    /\ TypeOK
    /\ arrived \in SUBSET Notes /\ isRead \in SUBSET Notes
    /\ marking \in [Handlers -> Notes \cup {None}]
    /\ counted \in Nat
    /\ asked \in SUBSET Notes

RequestInit ==
    /\ Init
    /\ arrived = {} /\ isRead = {}
    /\ marking = [h \in Handlers |-> None]
    /\ counted = 0
    /\ asked = {}

Idle(h) == pc[h] = "idle" /\ marking[h] = None

-----------------------------------------------------------------------------
OfAnyone == arrived
OfUser == arrived \cap Mine

(* markRead up to the update.  What it answers without one, 404 or a row that  *)
(* is read already, changes nothing.                                           *)
MarkRead(h, n) ==
    /\ Idle(h)
    /\ n \in OfUser \ isRead
    /\ marking' = [marking EXCEPT ![h] = n]
    /\ asked' = asked \cup {n}
    /\ UNCHANGED <<vars, arrived, isRead, counted>>

(* The update goes by the id alone and does not look at is_read again. *)
MarkReadUpdate(h) ==
    /\ marking[h] # None
    /\ isRead' = isRead \cup {marking[h]}
    /\ marking' = [marking EXCEPT ![h] = None]
    /\ UNCHANGED <<vars, arrived, counted, asked>>

(* The update rejects; one that was committed all the same is the step above. *)
MarkReadFails(h) ==
    /\ MayFail /\ marking[h] # None
    /\ marking' = [marking EXCEPT ![h] = None]
    /\ UNCHANGED <<vars, arrived, isRead, counted, asked>>

UpdatedAll == OfUser
Updated == OfUser \ isRead

(* markAllRead: one updateMany, answered with its count unless that is lost. *)
MarkAllRead(h) ==
    /\ Idle(h)
    /\ isRead' = isRead \cup Updated
    /\ \/ counted' = counted + Cardinality(Updated)
       \/ MayFail /\ UNCHANGED counted
    /\ asked' = asked \cup OfUser
    /\ UNCHANGED <<vars, arrived, marking>>

Arrive(n) ==
    /\ n \notin arrived
    /\ arrived' = arrived \cup {n}
    /\ UNCHANGED <<vars, isRead, marking, counted, asked>>

Report(h) ==
    /\ marking[h] = None
    /\ CreateReport(h) \/ CountReports(h) \/ FindTarget(h) \/ InsertReport(h) \/ Abort(h)
    /\ UNCHANGED noteVars

RequestNext ==
    \/ \E h \in Handlers :
          \/ Report(h)
          \/ \E n \in Notes : MarkRead(h, n)
          \/ MarkReadUpdate(h) \/ MarkReadFails(h) \/ MarkAllRead(h)
    \/ \E n \in Notes : Arrive(n)
    \/ Midnight /\ UNCHANGED noteVars

RequestSpec == RequestInit /\ [][RequestNext]_requestVars

-----------------------------------------------------------------------------
(* However read and read-all overlap, all counts that were ever answered      *)
(* together name each notification of the user at most once.                  *)
CountedOnce == counted <= Cardinality(isRead \cap Mine)

(* A notification is read only if its owner's request asked for that, and of  *)
(* other users' notifications none is ever touched, although the update names *)
(* no user.                                                                   *)
ReadWasAsked == isRead \subseteq asked \cap Mine
=============================================================================
