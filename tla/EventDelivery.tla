---------------------------- MODULE EventDelivery ----------------------------
(***************************************************************************)
(* What telemetry intake promises of each event, without requests, jobs,   *)
(* attempts, Redis or crashes: an event may be put into the queue, it may   *)
(* be stored, which leaves it with one row however often it happens, it    *)
(* leaves the queue only once it is stored, and it is acknowledged only    *)
(* when it is in one of the two.  InteractionIngest implements this        *)
(* specification: persistEvents stores, queue.add puts into the queue, the *)
(* failed set is part of the queue.                                        *)
(***************************************************************************)
EXTENDS Naturals

CONSTANT Events

VARIABLES
    rows,       \* number of rows of an event
    queued,     \* events that the queue holds, those of failed jobs included
    acked       \* events answered with 202

vars == <<rows, queued, acked>>

Init == rows = [e \in Events |-> 0] /\ queued = {} /\ acked = {}

(* The answer that goes with a step: 202 for the events S, or none yet. *)
Answer(S) == acked' \in {acked, acked \cup S}

Queue(S) == queued' = queued \cup S /\ Answer(S) /\ UNCHANGED rows

(* Each event of S has one row afterwards, whatever it had: storing it again *)
(* changes nothing, and no row is ever removed.                              *)
Store(S) ==
    /\ rows' = [e \in Events |-> IF e \in S THEN 1 ELSE rows[e]]
    /\ Answer(S)
    /\ UNCHANGED queued

Leave(S) == (\A e \in S : rows[e] = 1) /\ queued' = queued \ S /\ UNCHANGED <<rows, acked>>

Next == \E S \in SUBSET Events : Queue(S) \/ Store(S) \/ Leave(S)

Spec == Init /\ [][Next]_vars

-----------------------------------------------------------------------------
(* "Do not silently drop": the delivery of what was acknowledged. *)
NothingLost == \A e \in acked : rows[e] = 1 \/ e \in queued
=============================================================================
