---------------------------- MODULE AccessTokens ----------------------------
(***************************************************************************)
(* The access tokens beside the sessions of AuthSessions: JwtAuthGuard and *)
(* JwtStrategy before every handler that is not @Public().                 *)
(*                                                                         *)
(* issueTokenPair signs an access token next to each session it creates;   *)
(* the token names the user and no session, so nothing revokes it and it   *)
(* ends by the clock alone.  It is named here by the session it came with. *)
(* Whatever instant of its fifteen minutes is reached, a token lapses      *)
(* before its session's seven days are over.                               *)
(*                                                                         *)
(* logout-all, a single action of AuthSessions, is two steps here: the     *)
(* token is verified, and later the sessions of its user are revoked.      *)
(* RolesGuard lets every request pass, since no handler carries @Roles.    *)
(***************************************************************************)
EXTENDS AuthSessions

(* The endpoints called directly are the @Public() ones. *)
ASSUME AccessAssumption == "logout-all" \notin Calls

VARIABLES
    lapsed,     \* sessions whose access token is past its exp
    gate        \* per request: request.user, NoOne unless the guard admitted it

accessVars == <<vars, lapsed, gate>>

AccessTypeOK == TypeOK /\ lapsed \in SUBSET Sids /\ gate \in [Requests -> MaybeUser]

AccessInit == Init /\ lapsed = {} /\ gate = [r \in Requests |-> NoOne]

-----------------------------------------------------------------------------
(* ignoreExpiration: FALSE. *)
VerifiesLapsed(s) == s \in Issued
Verifies(s) == s \in Issued /\ s \notin lapsed

(* The guard verifies the token and finds its user (users are not deleted); *)
(* s = NoOne is no token, or one that this service did not sign.            *)
Authenticate(r, s) ==
    /\ pc[r] = "idle" /\ gate[r] = NoOne
    /\ \/ /\ Verifies(s)
          /\ gate' = [gate EXCEPT ![r] = session[s].user]
          /\ reply' = "none"
       \/ /\ ~Verifies(s)
          /\ reply' = "unauthorized"
          /\ UNCHANGED gate
    /\ UNCHANGED <<account, session, expired, pc, ctx, hist, lapsed>>

(* The handler behind the guard goes by request.user, not by the token. *)
LogoutAllOf(r) ==
    /\ gate[r] # NoOne
    /\ LogoutAll(r, gate[r])
    /\ gate' = [gate EXCEPT ![r] = NoOne]
    /\ UNCHANGED lapsed

(* Any other handler behind the guard; none of them touches the sessions. *)
Serve(r) ==
    /\ gate[r] # NoOne
    /\ gate' = [gate EXCEPT ![r] = NoOne]
    /\ reply' \in {"ok", "fault"}
    /\ UNCHANGED <<account, session, expired, pc, ctx, hist, lapsed>>

(* A handler of AuthSessions: a @Public() one that begins, or one that goes on. *)
Public(r) ==
    /\ gate[r] = NoOne
    /\ Arrive(r) \/ Resume(r) \/ Abort(r)
    /\ UNCHANGED <<lapsed, gate>>

(* Fifteen minutes have passed since the token of s was signed. *)
Lapse(s) ==
    /\ s \in Issued /\ s \notin lapsed
    /\ lapsed' = lapsed \cup {s}
    /\ UNCHANGED <<vars, gate>>

ExpireSession(s) == s \in lapsed /\ Expire(s) /\ UNCHANGED <<lapsed, gate>>

AccessNext ==
    \/ \E r \in Requests : Public(r) \/ LogoutAllOf(r) \/ Serve(r)
    \/ \E r \in Requests, s \in Sids \cup {NoOne} : Authenticate(r, s)
    \/ \E s \in Sids : Lapse(s) \/ ExpireSession(s)

AccessSpec == AccessInit /\ [][AccessNext]_accessVars

-----------------------------------------------------------------------------
(* Someone acts, or may act without a password, as user e: a live session, a *)
(* session about to be created, a token that still verifies, a request that  *)
(* the guard has admitted.                                                   *)
Present(e) ==
    \/ \E s \in Sids : session[s].user = e /\ (session[s].state = "live" \/ s \in Issued \ lapsed)
    \/ \E r \in Requests :
          \/ gate[r] = e
          \/ ctx[r].user = e /\ pc[r] \in {"register.create", "refresh.revoke", "issue"}

(* Request r has begun a registration, or a login whose password was right. *)
SignsIn(r, e) ==
    pc[r] = "idle" /\ ctx'[r] = [NoCtx EXCEPT !.user = e] /\ pc'[r] \in {"register.create", "issue"}

(* A user who is signed out everywhere stays so until the password is given: *)
(* neither a kept refresh token, nor a kept access token, nor a handler that  *)
(* was under way brings anyone back.                                          *)
LockedOutStaysOut ==
    [][\A e \in Emails : Present(e)' =>
          Present(e) \/ \E r \in Requests : SignsIn(r, e)]_accessVars
=============================================================================
