--------------------------- MODULE SessionLedger ----------------------------
(***************************************************************************)
(* What the session table promises, without the handlers that work on it:  *)
(* sessions are opened, retired, rotated and purged, and every change is   *)
(* one atomic step.  AuthSessions implements this specification.           *)
(*                                                                         *)
(* Rotation is deliberately two steps here as well.  A token is retired    *)
(* first and a successor may appear at any later time, because the service *)
(* keeps no link between the two database calls; what the ledger does      *)
(* promise is that a successor never appears beside a live predecessor.    *)
(***************************************************************************)
EXTENDS Naturals

CONSTANTS Emails, Sids, NoOne

VARIABLE session

vars == <<session>>

NoRow == [state |-> "none", user |-> NoOne, family |-> NoOne, parent |-> NoOne]

Init == session = [s \in Sids |-> NoRow]

Family(f) == {s \in Sids : session[s].state # "none" /\ session[s].family = f}

SetStates(S, st) ==
    session' = [s \in Sids |-> IF s \in S THEN [session[s] EXCEPT !.state = st] ELSE session[s]]

(* A user signs in: a family of one live session. *)
Open(s, e) ==
    /\ session[s].state = "none"
    /\ session' = [session EXCEPT ![s] =
                      [state |-> "live", user |-> e, family |-> s, parent |-> NoOne]]

(* Some live sessions, of one user, stop being usable. *)
Retire(S) ==
    /\ \A s \in S : session[s].state = "live"
    /\ \A s, t \in S : session[s].user = session[t].user
    /\ SetStates(S, "revoked")

(* A retired session gets a successor in its family. *)
Succeed(p, s) ==
    /\ session[p].state \in {"revoked", "deleted"}
    /\ session[s].state = "none"
    /\ session' = [session EXCEPT ![s] =
                      [state |-> "live", user |-> session[p].user,
                       family |-> session[p].family, parent |-> p]]

(* A family one of whose tokens was retired is removed as a whole. *)
Purge(f) ==
    /\ \E s \in Family(f) : session[s].state \in {"revoked", "deleted"}
    /\ SetStates(Family(f), "deleted")

Next ==
    \/ \E s \in Sids, e \in Emails : Open(s, e)
    \/ \E S \in SUBSET Sids : Retire(S)
    \/ \E p, s \in Sids : Succeed(p, s)
    \/ \E f \in Sids : Purge(f)

Spec == Init /\ [][Next]_vars
=============================================================================
