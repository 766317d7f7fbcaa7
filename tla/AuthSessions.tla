---------------------------- MODULE AuthSessions ----------------------------
(***************************************************************************)
(* Accounts and refresh-token sessions: AuthService in                     *)
(* src/src/modules/auth/auth.service.ts.                                   *)
(*                                                                         *)
(* No handler uses a database transaction, so every "await prisma..." is a *)
(* step of its own and handlers of different requests interleave between   *)
(* any two of them.  Work a handler does between two database calls        *)
(* (bcrypt, signing, comparing) touches no shared state and belongs to the *)
(* step before it.                                                         *)
(*                                                                         *)
(* Abstractions.  A user is the lower-cased e-mail it is keyed by (users   *)
(* are never deleted).  A session is its random id, never reused; a family *)
(* is named by the session that started it, which stands for the fresh     *)
(* familyId drawn at that moment.  The seven-day lifetime is the set of    *)
(* sessions whose expiresAt has passed; a session may expire at any time.  *)
(*                                                                         *)
(* Some definitions are preceded by a mistaken form of theirs, named after *)
(* the mistake (StolenNever, SetStateSkipped, ...).  No specification uses *)
(* them: they are the mutations of PROJECT.json, which every property of   *)
(* the passing runs is shown to catch.                                     *)
(***************************************************************************)
EXTENDS Naturals, FiniteSets

CONSTANTS
    Emails,     \* lower-cased e-mail addresses
    Sids,       \* session ids that can be drawn: the bound on sessions created
    Requests,   \* handler slots: how many requests can be in flight at once
    NoOne,      \* null
    Calls,      \* bound: the endpoints that the clients of an instance call
    MayFail     \* TRUE: a database call may reject, or the process may die

ASSUME AuthAssumption ==
    /\ NoOne \notin Emails \cup Sids
    /\ IsFiniteSet(Requests)
    /\ Calls \subseteq {"register", "login", "refresh", "logout", "logout-all"}
    /\ MayFail \in BOOLEAN

VARIABLES
    account,    \* user table: number of rows with this lower-cased e-mail
    session,    \* session table, with what is known of deleted rows
    expired,    \* sessions whose expiresAt is in the past
    pc,         \* per request: the database call its handler awaits next
    ctx,        \* per request: the locals the handler keeps across the await
    reply,      \* what the last step answered, "none" if it answered nothing
    (* History variables: read by properties only. *)
    uses,       \* per token: 1 when its secret was shown in time or a logout-all
                \* found it live, 2 when a refresh named its id after that
    reused,     \* families whose reuse was answered with 401
    ended       \* families that existed when their owner's logout-all was answered

hist == <<uses, reused, ended>>
vars == <<account, session, expired, pc, ctx, reply, hist>>

-----------------------------------------------------------------------------
(* "none": id not drawn yet.  A row exists in states "live" (revokedAt is   *)
(* null) and "revoked"; "deleted" remembers a row that was removed.  parent *)
(* is no column but history: the session that this one was exchanged for.   *)
SessionState == {"none", "live", "revoked", "deleted"}
MaybeSid == Sids \cup {NoOne}
MaybeUser == Emails \cup {NoOne}

Row == [state: SessionState, user: MaybeUser, family: MaybeSid, parent: MaybeSid]
NoRow == [state |-> "none", user |-> NoOne, family |-> NoOne, parent |-> NoOne]

Ctx == [user: MaybeUser, family: MaybeSid, sid: MaybeSid]
NoCtx == [user |-> NoOne, family |-> NoOne, sid |-> NoOne]

Label == {"idle", "register.create", "refresh.purge", "refresh.revoke",
          "logout.revoke", "issue"}

(* "error" is a 500 the code itself causes, "fault" one the environment does. *)
Outcome == {"none", "ok", "unauthorized", "conflict", "error", "fault"}

TypeOK ==
    /\ account \in [Emails -> Nat]
    /\ session \in [Sids -> Row]
    /\ expired \in SUBSET Sids
    /\ pc \in [Requests -> Label]
    /\ ctx \in [Requests -> Ctx]
    /\ reply \in Outcome
    /\ uses \in [Sids -> 0..2]
    /\ reused \in SUBSET MaybeSid
    /\ ended \in SUBSET Sids

Free == {s \in Sids : session[s].state = "none"}
HasRow(s) == session[s].state \in {"live", "revoked"}
Family(f) == {s \in Sids : session[s].state # "none" /\ session[s].family = f}
Children(s) == {c \in Sids : session[c].parent = s}

(* Bound: a request goes on to create a session only if an id is left for it *)
(* besides those that the handlers already on that way will draw.            *)
Creating == {r \in Requests : pc[r] \in {"register.create", "refresh.revoke", "issue"}}
HasRoom == Cardinality(Free) > Cardinality(Creating)

Init ==
    /\ account = [e \in Emails |-> 0]
    /\ session = [s \in Sids |-> NoRow]
    /\ expired = {}
    /\ pc = [r \in Requests |-> "idle"]
    /\ ctx = [r \in Requests |-> NoCtx]
    /\ reply = "none"
    /\ uses = [s \in Sids |-> 0]
    /\ reused = {}
    /\ ended = {}

-----------------------------------------------------------------------------
(* How a step leaves its handler: waiting for another call, or answered. *)
Await(r, label, locals) ==
    /\ pc' = [pc EXCEPT ![r] = label]
    /\ ctx' = [ctx EXCEPT ![r] = locals]
    /\ reply' = "none"

Answer(r, outcome) ==
    /\ pc' = [pc EXCEPT ![r] = "idle"]
    /\ ctx' = [ctx EXCEPT ![r] = NoCtx]
    /\ reply' = outcome

SetStateSkipped(s, st) == UNCHANGED session
SetState(s, st) == session' = [session EXCEPT ![s].state = st]

Use(S) ==
    uses' = [s \in Sids |-> IF s \in S /\ uses[s] < 2 THEN uses[s] + 1 ELSE uses[s]]

(* The first use of each token of S. *)
FirstUse(S) == Use({s \in S : uses[s] = 0})

(* register: the look-up uses the e-mail as it was typed, so an account is  *)
(* found only if the caller typed it in lower case; the row that is created *)
(* is keyed by the lower-cased e-mail.                                      *)
RegisterLookup(r, e, typedLowerCase) ==
    /\ pc[r] = "idle"
    /\ LET found == account[e] > 0 /\ typedLowerCase IN
       \/ found /\ Answer(r, "conflict")
       \/ ~found /\ HasRoom /\ Await(r, "register.create", [NoCtx EXCEPT !.user = e])
    /\ UNCHANGED <<account, session, expired, hist>>

(* user.create; the unique index on email rejects a second row (500). *)
RegisterCreate(r) ==
    /\ pc[r] = "register.create"
    /\ LET e == ctx[r].user IN
       \/ /\ account[e] > 0
          /\ Answer(r, "error")
          /\ UNCHANGED account
       \/ /\ account[e] = 0
          /\ account' = [account EXCEPT ![e] = @ + 1]
          /\ Await(r, "issue", ctx[r])
    /\ UNCHANGED <<session, expired, hist>>

Login(r, e, passwordValid) ==
    /\ pc[r] = "idle"
    /\ LET accepted == account[e] > 0 /\ passwordValid IN
       \/ accepted /\ HasRoom /\ Await(r, "issue", [NoCtx EXCEPT !.user = e])
       \/ ~accepted /\ Answer(r, "unauthorized")
    /\ UNCHANGED <<account, session, expired, hist>>

(* Reuse: the row that was read has been revoked before. *)
StolenNever(s) == FALSE
StolenOrExpired(s) == session[s].state = "revoked" \/ s \in expired
Stolen(s) == session[s].state = "revoked"

(* refresh, up to the decision taken on the row that was read.  s = NoOne is *)
(* a token with no session id in it: 401 without the dot, 500 when what is   *)
(* before the dot is no uuid and the query rejects.  Revocation is tested    *)
(* before the secret is compared: whoever names a revoked id, with whatever  *)
(* secret, has its family purged.                                            *)
RefreshRead(r, s, tokenValid) ==
    /\ pc[r] = "idle"
    /\ \/ /\ s = NoOne
          /\ Answer(r, "unauthorized") \/ Answer(r, "error")
       \/ /\ s \in Sids
          /\ LET row == session[s]
                 locals == [user |-> row.user, family |-> row.family, sid |-> s]
                 usable == s \notin expired /\ tokenValid
             IN
             \/ ~HasRow(s) /\ Answer(r, "unauthorized")
             \/ HasRow(s) /\ Stolen(s) /\ Await(r, "refresh.purge", locals)
             \/ HasRow(s) /\ ~Stolen(s) /\ ~usable /\ Answer(r, "unauthorized")
             \/ /\ HasRow(s) /\ ~Stolen(s) /\ usable /\ HasRoom
                /\ Await(r, "refresh.revoke", locals)
    /\ Use({t \in Sids : t = s /\ (uses[t] = 1 \/ (tokenValid /\ t \notin expired))})
    /\ UNCHANGED <<account, session, expired, reused, ended>>

RefreshPurgeOwnRow(r) ==
    /\ pc[r] = "refresh.purge"
    /\ session' = [session EXCEPT ![ctx[r].sid].state = "deleted"]
    /\ reused' = reused \cup {ctx[r].family}
    /\ Answer(r, "unauthorized")
    /\ UNCHANGED <<account, expired, uses, ended>>

(* revokeFamily, then 401: every row of the family is deleted. *)
RefreshPurge(r) ==
    /\ pc[r] = "refresh.purge"
    /\ session' = [s \in Sids |-> IF s \in Family(ctx[r].family)
                                  THEN [session[s] EXCEPT !.state = "deleted"]
                                  ELSE session[s]]
    /\ reused' = reused \cup {ctx[r].family}
    /\ Answer(r, "unauthorized")
    /\ UNCHANGED <<account, expired, uses, ended>>

RefreshRevokeOnly(r) ==
    /\ pc[r] = "refresh.revoke"
    /\ \/ HasRow(ctx[r].sid) /\ SetState(ctx[r].sid, "revoked") /\ Answer(r, "ok")
       \/ ~HasRow(ctx[r].sid) /\ Answer(r, "error") /\ UNCHANGED session
    /\ UNCHANGED <<account, expired, hist>>

(* session.update by id: it does not look at revokedAt again, and it rejects *)
(* (500) when the row has been deleted since it was read.                    *)
RefreshRevoke(r) ==
    /\ pc[r] = "refresh.revoke"
    /\ \/ /\ HasRow(ctx[r].sid)
          /\ SetState(ctx[r].sid, "revoked")
          /\ Await(r, "issue", ctx[r])
       \/ /\ ~HasRow(ctx[r].sid)
          /\ Answer(r, "error")
          /\ UNCHANGED session
    /\ UNCHANGED <<account, expired, hist>>

(* The row of a new session: login and register start a family, refresh      *)
(* passes its own.                                                           *)
NewRowOldFamily(r, s) ==
    [state |-> "live", user |-> ctx[r].user, parent |-> ctx[r].sid,
     family |-> IF Free = Sids THEN s ELSE CHOOSE f \in Sids : session[f].family = f]
NewRow(r, s) ==
    [state |-> "live",
     user |-> ctx[r].user,
     family |-> IF ctx[r].family = NoOne THEN s ELSE ctx[r].family,
     parent |-> ctx[r].sid]

IssueTokenPair(r) ==
    /\ pc[r] = "issue"
    /\ \E s \in Free : session' = [session EXCEPT ![s] = NewRow(r, s)]
    /\ Answer(r, "ok")
    /\ UNCHANGED <<account, expired, hist>>

(* logout answers success whatever it finds, but 500 to an id that is no uuid. *)
LogoutRead(r, s, tokenValid) ==
    /\ pc[r] = "idle"
    /\ LET open == s \in Sids /\ session[s].state = "live" /\ tokenValid IN
       \/ ~open /\ Answer(r, "ok")
       \/ s = NoOne /\ Answer(r, "error")
       \/ open /\ Await(r, "logout.revoke", [NoCtx EXCEPT !.sid = s])
    /\ FirstUse({t \in Sids : t = s /\ tokenValid})
    /\ UNCHANGED <<account, session, expired, reused, ended>>

LogoutRevoke(r) ==
    /\ pc[r] = "logout.revoke"
    /\ \/ /\ HasRow(ctx[r].sid)
          /\ SetState(ctx[r].sid, "revoked")
          /\ Answer(r, "ok")
       \/ /\ ~HasRow(ctx[r].sid)
          /\ Answer(r, "error")
          /\ UNCHANGED session
    /\ UNCHANGED <<account, expired, hist>>

LogoutAllOneSession(r, e) ==
    /\ pc[r] = "idle" /\ account[e] > 0
    /\ LET open == {s \in Sids : session[s].state = "live" /\ session[s].user = e} IN
       \/ open = {} /\ UNCHANGED session
       \/ \E s \in open : SetState(s, "revoked")
    /\ ended' = ended \cup {s \in Sids : session[s].family = s /\ session[s].user = e}
    /\ Answer(r, "ok")
    /\ UNCHANGED <<account, expired, uses, reused>>

(* logoutAll: one updateMany over the rows of the user that are not revoked. *)
LogoutAll(r, e) ==
    /\ pc[r] = "idle" /\ account[e] > 0
    /\ LET open == {s \in Sids : session[s].state = "live" /\ session[s].user = e} IN
       /\ session' = [s \in Sids |-> IF s \in open
                                     THEN [session[s] EXCEPT !.state = "revoked"]
                                     ELSE session[s]]
       /\ FirstUse(open)
    /\ ended' = ended \cup {s \in Sids : session[s].family = s /\ session[s].user = e}
    /\ Answer(r, "ok")
    /\ UNCHANGED <<account, expired, reused>>

-----------------------------------------------------------------------------
(* Seven days pass for a live session; refresh looks at revokedAt first, so   *)
(* the expiry of a revoked one is never read.                                 *)
Expire(s) ==
    /\ s \notin expired /\ session[s].state = "live"
    /\ expired' = expired \cup {s}
    /\ reply' = "none"
    /\ UNCHANGED <<account, session, pc, ctx, hist>>

(* The awaited call rejects, or the process stops: the handler goes no further. *)
(* A call that was committed although it rejected is its normal step, followed *)
(* by this one.                                                                *)
Abort(r) ==
    /\ MayFail /\ pc[r] # "idle"
    /\ Answer(r, "fault")
    /\ UNCHANGED <<account, session, expired, hist>>

(* Clients call the API; a refresh token they hold was issued by the server. *)
Issued == {s \in Sids : session[s].state # "none"}

Arrive(r) ==
    \/ \E e \in Emails, flag \in BOOLEAN :
          \/ "register" \in Calls /\ RegisterLookup(r, e, flag)
          \/ "login" \in Calls /\ Login(r, e, flag)
    \/ \E s \in Issued \cup {NoOne}, valid \in BOOLEAN :
          \/ "refresh" \in Calls /\ RefreshRead(r, s, valid)
          \/ "logout" \in Calls /\ LogoutRead(r, s, valid)
    \/ \E e \in Emails : "logout-all" \in Calls /\ LogoutAll(r, e)

Resume(r) ==
    \/ RegisterCreate(r)
    \/ RefreshPurge(r)
    \/ RefreshRevoke(r)
    \/ IssueTokenPair(r)
    \/ LogoutRevoke(r)

Next ==
    \/ \E r \in Requests : Arrive(r) \/ Resume(r) \/ Abort(r)
    \/ \E s \in Sids : Expire(s)

(* Node keeps running a handler whose awaited call has settled. *)
Spec == Init /\ [][Next]_vars /\ \A r \in Requests : WF_vars(Resume(r))

-----------------------------------------------------------------------------
(* Safety under any interleaving. *)

(* "Returns a newly rotated token pair and invalidates the previous refresh  *)
(* token": whenever a successor exists its predecessor is no longer live.    *)
ParentRetired ==
    \A s \in Sids : \A c \in Children(s) : session[s].state \in {"revoked", "deleted"}

(* Every session of a family belongs to the user who opened the family. *)
FamilyHasOneOwner ==
    \A s, t \in Sids : s \in Family(session[t].family) => session[s].user = session[t].user

(* Refreshes that have accepted token s and not yet answered. *)
Rotating(s) == {r \in Requests : ctx[r].sid = s /\ pc[r] \in {"refresh.revoke", "issue"}}

(* A token has, or is about to have, at most one successor per handler that  *)
(* can be in flight: only refreshes that read the row before the first of    *)
(* them revoked it are accepted, and every later one is a reuse.             *)
ForkBound ==
    \A s \in Sids :
        Cardinality(Children(s)) + Cardinality(Rotating(s)) <= Cardinality(Requests)

(* What a purge takes as theft: a family is deleted only if the id of one of  *)
(* its tokens was named by a refresh after that token had been spent: its     *)
(* secret shown to a refresh in time or to a logout, or its session revoked   *)
(* by a logout-all.  The secret is not compared then (auth.service.ts:88 is   *)
(* before :103), so the second call need not be the client's, and a client    *)
(* whose successor was never created meets the purge when it tries again.     *)
(* But no family is deleted because of a failed call, an expiry, guesses at a *)
(* token that is not spent, or what happens to other families.                *)
DeletionHasCause ==
    \A d \in Sids : session[d].state = "deleted" =>
        \E s \in Family(session[d].family) : uses[s] = 2

(* A family with no live session and no refresh of it under way. *)
Dead(f) ==
    /\ session[f].state # "none"
    /\ \A s \in Family(f) : session[s].state # "live"
    /\ \A r \in Requests : ctx[r].family = f => pc[r] = "refresh.purge"

(* Logout is final: a dead family never has a live session again. *)
DeadStaysDead == [][\A f \in Sids : Dead(f) => Dead(f)']_vars

(* Revocation and deletion are final for each session. *)
NeverRevived ==
    [][\A s \in Sids :
        /\ session[s].state \in {"revoked", "deleted"} => session'[s].state # "live"
        /\ session[s].state = "deleted" => session'[s].state = "deleted"]_vars

(* The handlers, step by step, do nothing to the table that the ledger of    *)
(* atomic operations does not allow.                                         *)
Ledger == INSTANCE SessionLedger WITH session <- session
ImplementsLedger == Ledger!Spec

(* Liveness, when no call fails. *)

(* A reuse that was detected ends with every session of the family removed. *)
DetectedReusePurged ==
    \A f \in Sids :
        (\E r \in Requests : pc[r] = "refresh.purge" /\ ctx[r].family = f)
            ~> (\A s \in Family(f) : ~HasRow(s))

(* A refresh that was accepted does not strand its client: the token it gives *)
(* up gets a successor, unless the family is purged meanwhile.                *)
AcceptedRefreshReplaces ==
    \A s \in Sids :
        (\E r \in Requests : pc[r] = "refresh.revoke" /\ ctx[r].sid = s)
            ~> (Children(s) # {} \/ session[s].state = "deleted")

-----------------------------------------------------------------------------
(* Promises of the documentation, kept only while requests do not overlap. *)

(* A family has at most one usable refresh token. *)
OneLivePerFamily ==
    \A f \in Sids : Cardinality({s \in Family(f) : session[s].state = "live"}) <= 1

(* After a refresh was refused as a reuse, its family has no session left. *)
ReuseEndsFamily == \A f \in reused : \A s \in Family(f) : ~HasRow(s)

(* After logout-all, no session of the families it found is usable. *)
LogoutAllEndsFamilies == \A f \in ended : \A s \in Family(f) : session[s].state # "live"
-----------------------------------------------------------------------------
(* The inductive invariant behind the safety properties above. *)

(* One row at most per lower-cased e-mail: the unique index. *)
UniqueAccount == \A e \in Emails : account[e] <= 1

Retired == {s \in Sids : session[s].state \in {"revoked", "deleted"}}

(* Lineage: a row's family was opened by a session of the same user, and its *)
(* predecessor is a retired session of the same family.                      *)
LineageOK ==
    \A s \in Sids :
        /\ session[s].state = "none" => session[s] = NoRow
        /\ session[s].state # "none" =>
              /\ session[s].user \in Emails
              /\ session[s].family \in Sids
              /\ session[session[s].family].state # "none"
              /\ session[session[s].family].family = session[s].family
              /\ session[session[s].family].user = session[s].user
        /\ session[s].parent \in Sids =>
              /\ session[s].parent \in Retired
              /\ session[session[s].parent].family = session[s].family

(* What a handler kept across an await still describes the session it read;  *)
(* one that detected a reuse, or retired a token, did see it retired.        *)
LocalsOf(r) ==
    /\ pc[r] = "idle" => ctx[r] = NoCtx
    /\ pc[r] = "register.create" => ctx[r].sid = NoOne
    /\ pc[r] \in {"register.create", "issue"} => ctx[r].user \in Emails
    /\ pc[r] \in {"refresh.revoke", "refresh.purge"} => ctx[r].family \in Sids
    /\ pc[r] = "logout.revoke" => ctx[r].sid \in Sids /\ ctx[r].family = NoOne
    /\ ctx[r].family = NoOne => pc[r] = "logout.revoke" \/ ctx[r].sid = NoOne
    /\ ctx[r].family # NoOne => ctx[r].sid \in Sids
    /\ ctx[r].sid \in Sids =>
          /\ session[ctx[r].sid].state # "none"
          /\ ctx[r].family # NoOne =>
                /\ ctx[r].family = session[ctx[r].sid].family
                /\ ctx[r].user = session[ctx[r].sid].user
          /\ pc[r] \in {"refresh.purge", "issue"} => ctx[r].sid \in Retired

LocalsOK == \A r \in Requests : LocalsOf(r)

(* A token was used before any step that can retire it, and a refresh named  *)
(* it after that before any step that can delete its family.                 *)
UsesOf(r) ==
    /\ ctx[r].sid \in Sids => uses[ctx[r].sid] >= 1
    /\ pc[r] = "refresh.purge" => uses[ctx[r].sid] = 2

UsesOK ==
    /\ \A s \in Sids : session[s].state = "revoked" => uses[s] >= 1
    /\ \A r \in Requests : UsesOf(r)

IInv == TypeOK /\ UniqueAccount /\ LineageOK /\ LocalsOK /\ UsesOK /\ DeletionHasCause
=============================================================================
