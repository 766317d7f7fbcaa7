------------------------- MODULE AuthSessionsProofs -------------------------
(***************************************************************************)
(* Theorems about AuthSessions, about the guard that AccessTokens puts in  *)
(* front of it, and about the families that are not raced, for every set   *)
(* of e-mails, session ids and handler slots.                              *)
(***************************************************************************)
EXTENDS UnracedFamilies, FiniteSetTheorems, TLAPS

-----------------------------------------------------------------------------
(* Types *)

LEMMA TypeInit == Init => TypeOK
BY AuthAssumption DEF Init, TypeOK, NoRow, Row, SessionState, MaybeSid, MaybeUser,
   Ctx, NoCtx, Label, Outcome

LEMMA TypeStep == TypeOK /\ [Next]_vars => TypeOK'
<1> SUFFICES ASSUME TypeOK, [Next]_vars PROVE TypeOK'
  OBVIOUS
<1> USE DEF TypeOK
<1>1. ASSUME NEW r \in Requests, NEW l \in Label, NEW c \in Ctx, Await(r, l, c)
      PROVE  pc' \in [Requests -> Label] /\ ctx' \in [Requests -> Ctx] /\ reply' \in Outcome
  BY <1>1 DEF Await, Outcome
<1>2. ASSUME NEW r \in Requests, NEW o \in Outcome, Answer(r, o)
      PROVE  pc' \in [Requests -> Label] /\ ctx' \in [Requests -> Ctx] /\ reply' \in Outcome
  BY <1>2 DEF Answer, Label, Ctx, NoCtx, MaybeSid, MaybeUser
<1>3. ASSUME NEW S, Use(S) \/ FirstUse(S) PROVE uses' \in [Sids -> 0..2]
  BY <1>3 DEF Use, FirstUse
<1>4. ASSUME NEW r \in Requests, NEW e \in Emails, NEW flag \in BOOLEAN, RegisterLookup(r, e, flag)
      PROVE  TypeOK'
  BY <1>1, <1>2, <1>4 DEF RegisterLookup, Label, Outcome, Ctx, NoCtx, MaybeSid, MaybeUser, hist
<1>5. ASSUME NEW r \in Requests, NEW e \in Emails, NEW flag \in BOOLEAN, Login(r, e, flag)
      PROVE  TypeOK'
  BY <1>1, <1>2, <1>5 DEF Login, Label, Outcome, Ctx, NoCtx, MaybeSid, MaybeUser, hist
<1>6. ASSUME NEW r \in Requests, NEW s \in Issued \cup {NoOne}, NEW valid \in BOOLEAN,
             RefreshRead(r, s, valid)
      PROVE  TypeOK'
  <2>1. uses' \in [Sids -> 0..2]
    BY <1>3, <1>6 DEF RefreshRead, Stolen, HasRow
  <2>2. s \in Sids => [user |-> session[s].user, family |-> session[s].family, sid |-> s] \in Ctx
    BY DEF Ctx, Row, MaybeSid
  <2>3. pc' \in [Requests -> Label] /\ ctx' \in [Requests -> Ctx] /\ reply' \in Outcome
    BY <1>1, <1>2, <1>6, <2>2 DEF RefreshRead, Stolen, HasRow, Label, Outcome
  <2>4. QED
    BY <1>6, <2>1, <2>3 DEF RefreshRead, Stolen, HasRow
<1>7. ASSUME NEW r \in Requests, NEW s \in Issued \cup {NoOne}, NEW valid \in BOOLEAN,
             LogoutRead(r, s, valid)
      PROVE  TypeOK'
  <2>1. uses' \in [Sids -> 0..2]
    BY <1>3, <1>7 DEF LogoutRead
  <2>2. s \in Sids => [NoCtx EXCEPT !.sid = s] \in Ctx
    BY DEF Ctx, NoCtx, MaybeSid, MaybeUser
  <2>3. pc' \in [Requests -> Label] /\ ctx' \in [Requests -> Ctx] /\ reply' \in Outcome
    BY <1>1, <1>2, <1>7, <2>2 DEF LogoutRead, Label, Outcome
  <2>4. QED
    BY <1>7, <2>1, <2>3 DEF LogoutRead
<1>8. ASSUME NEW r \in Requests, NEW e \in Emails, LogoutAll(r, e)
      PROVE  TypeOK'
  <2>1. uses' \in [Sids -> 0..2]
    BY <1>3, <1>8 DEF LogoutAll
  <2>2. session' \in [Sids -> Row]
    BY <1>8 DEF LogoutAll, Row, SessionState
  <2>3. QED
    BY <1>2, <1>8, <2>1, <2>2 DEF LogoutAll, Outcome
<1>9. ASSUME NEW r \in Requests, RegisterCreate(r)
      PROVE  TypeOK'
  BY <1>1, <1>2, <1>9 DEF RegisterCreate, Label, Outcome, hist
<1>10. ASSUME NEW r \in Requests, RefreshPurge(r)
       PROVE  TypeOK'
  <2>1. session' \in [Sids -> Row]
    BY <1>10 DEF RefreshPurge, Row, SessionState
  <2>2. ctx[r].family \in MaybeSid
    BY DEF Ctx
  <2>3. QED
    BY <1>2, <1>10, <2>1, <2>2 DEF RefreshPurge, Outcome
<1>11. ASSUME NEW r \in Requests, RefreshRevoke(r) \/ LogoutRevoke(r)
       PROVE  TypeOK'
  <2>1. session' \in [Sids -> Row]
    BY <1>11 DEF RefreshRevoke, LogoutRevoke, SetState, Row, SessionState
  <2>2. QED
    BY <1>1, <1>2, <1>11, <2>1 DEF RefreshRevoke, LogoutRevoke, Label, Outcome, hist
<1>12. ASSUME NEW r \in Requests, IssueTokenPair(r)
       PROVE  TypeOK'
  <2>1. session' \in [Sids -> Row]
    BY <1>12 DEF IssueTokenPair, NewRow, Free, Row, SessionState, Ctx, MaybeSid
  <2>2. QED
    BY <1>2, <1>12, <2>1 DEF IssueTokenPair, NewRow, Outcome, hist
<1>13. ASSUME NEW r \in Requests, Abort(r)
       PROVE  TypeOK'
  BY <1>2, <1>13 DEF Abort, Outcome, hist
<1>14. ASSUME NEW s \in Sids, Expire(s)
       PROVE  TypeOK'
  BY <1>14 DEF Expire, Outcome, hist
<1>15. CASE UNCHANGED vars
  BY <1>15 DEF vars, hist
<1> HIDE DEF TypeOK
<1>16. ASSUME NEW r \in Requests, Arrive(r)
       PROVE  TypeOK'
  BY <1>4, <1>5, <1>6, <1>7, <1>8, <1>16 DEF Arrive
<1>17. ASSUME NEW r \in Requests, Resume(r)
       PROVE  TypeOK'
  BY <1>9, <1>10, <1>11, <1>12, <1>17 DEF Resume
<1>18. QED
  BY <1>13, <1>14, <1>15, <1>16, <1>17 DEF Next

(* Every variable keeps its type: no handler writes a malformed row, and no  *)
(* handler resumes with locals it could not have read.                       *)
THEOREM TypeCorrect == Spec => []TypeOK
BY TypeInit, TypeStep, PTL DEF Spec

-----------------------------------------------------------------------------
(* Two ways to change the session table *)

(* No row appears or changes owner, and no retired session comes back. *)
Advance ==
    \A s \in Sids :
        /\ session'[s].user = session[s].user
        /\ session'[s].family = session[s].family
        /\ session'[s].parent = session[s].parent
        /\ session'[s].state = "none" <=> session[s].state = "none"
        /\ session[s].state = "none" => session'[s] = session[s]
        /\ s \in Retired => s \in Retired'
        /\ session[s].state = "deleted" => session'[s].state = "deleted"

(* Uses are only ever added. *)
Counted == \A s \in Sids : uses[s] <= uses'[s]

(* The locals of every handler but r are left alone. *)
Only(r) == \A q \in Requests \ {r} : pc'[q] = pc[q] /\ ctx'[q] = ctx[q]

LEMMA AdvanceLineage ==
    ASSUME TypeOK, LineageOK, Advance
    PROVE  LineageOK'
BY DEF TypeOK, Row, LineageOK, Advance, Retired, NoRow

LEMMA AdvanceLocals ==
    ASSUME TypeOK, LocalsOK, Advance, NEW r \in Requests, Only(r), LocalsOf(r)'
    PROVE  LocalsOK'
<1> SUFFICES ASSUME NEW q \in Requests, q # r PROVE LocalsOf(q)'
  BY DEF LocalsOK
<1>1. LocalsOf(q) /\ pc'[q] = pc[q] /\ ctx'[q] = ctx[q]
  BY DEF LocalsOK, Only
<1>2. QED
  BY <1>1 DEF LocalsOf, Advance

LEMMA AdvanceCause ==
    ASSUME TypeOK, TypeOK', DeletionHasCause, Advance, Counted,
           \A s \in Sids : session'[s].state = "deleted" => session[s].state = "deleted"
    PROVE  DeletionHasCause'
<1> SUFFICES ASSUME NEW d \in Sids, session'[d].state = "deleted"
             PROVE  \E s \in Family(session[d].family)' : uses'[s] = 2
  BY DEF DeletionHasCause
<1>1. PICK s \in Family(session[d].family) : uses[s] = 2
  BY DEF DeletionHasCause
<1>2. s \in Family(session[d].family)'
  BY <1>1 DEF Family, Advance
<1>3. uses'[s] = 2
  BY <1>1 DEF Family, Counted, TypeOK
<1>4. QED
  BY <1>2, <1>3

LEMMA AdvanceInv ==
    ASSUME IInv, TypeOK', UniqueAccount', Advance, Counted,
           NEW r \in Requests, Only(r), LocalsOf(r)', UsesOf(r)',
           \A s \in Sids : session'[s].state = "revoked" => uses'[s] >= 1,
           \A s \in Sids : session'[s].state = "deleted" => session[s].state = "deleted"
    PROVE  IInv'
<1>1. LineageOK' /\ LocalsOK' /\ DeletionHasCause'
  BY AdvanceLineage, AdvanceLocals, AdvanceCause DEF IInv
<1>2. ASSUME NEW q \in Requests, q # r PROVE UsesOf(q)'
  <2>1. UsesOf(q) /\ pc'[q] = pc[q] /\ ctx'[q] = ctx[q]
    BY <1>2 DEF Only, IInv, UsesOK
  <2>2. LocalsOf(q)
    BY DEF IInv, LocalsOK
  <2>3. ctx[q].sid \in Sids => uses'[ctx[q].sid] >= 1
    BY <2>1 DEF UsesOf, Counted, IInv, TypeOK
  <2>4. pc[q] = "refresh.purge" => ctx[q].sid \in Sids
    BY <2>2, AuthAssumption DEF LocalsOf
  <2>5. pc[q] = "refresh.purge" => uses'[ctx[q].sid] = 2
    BY <2>1, <2>4 DEF UsesOf, Counted, IInv, TypeOK
  <2>6. QED
    BY <2>1, <2>3, <2>5 DEF UsesOf
<1>3. UsesOK'
  BY <1>2 DEF UsesOK
<1>4. QED
  BY <1>1, <1>3 DEF IInv

LEMMA SameTable ==
    ASSUME session' = session
    PROVE  Advance
BY DEF Advance, Retired

(* A handler that is answered keeps no locals. *)
LEMMA AnswerOK ==
    ASSUME TypeOK, NEW r \in Requests, NEW o, Answer(r, o)
    PROVE  Only(r) /\ LocalsOf(r)' /\ UsesOf(r)'
BY AuthAssumption DEF TypeOK, Answer, Only, LocalsOf, UsesOf, NoCtx

LEMMA AwaitOK ==
    ASSUME TypeOK, NEW r \in Requests, NEW l, NEW c, Await(r, l, c)
    PROVE  Only(r) /\ pc'[r] = l /\ ctx'[r] = c
BY DEF TypeOK, Await, Only

LEMMA UseOK ==
    ASSUME TypeOK, NEW S, Use(S)
    PROVE  /\ Counted
           /\ \A s \in S \cap Sids : uses'[s] >= 1 /\ (uses[s] >= 1 => uses'[s] = 2)
BY DEF TypeOK, Use, Counted

LEMMA FirstUseOK ==
    ASSUME TypeOK, NEW S, FirstUse(S)
    PROVE  Counted /\ \A s \in S \cap Sids : uses'[s] >= 1
BY DEF TypeOK, FirstUse, Use, Counted

LEMMA SameUses ==
    ASSUME TypeOK, uses' = uses
    PROVE  Counted
BY DEF TypeOK, Counted

-----------------------------------------------------------------------------
(* The inductive invariant, action by action *)

LEMMA InvInit == Init => IInv
BY TypeInit, AuthAssumption
   DEF Init, IInv, UniqueAccount, LineageOK, LocalsOK, LocalsOf, UsesOK, UsesOf,
       DeletionHasCause, NoRow, NoCtx

LEMMA InvAnswered ==
    ASSUME IInv, TypeOK', NEW r \in Requests, NEW o, Answer(r, o),
           UNCHANGED <<account, session>>, Counted
    PROVE  IInv'
<1>1. UniqueAccount' /\ Advance
  BY SameTable DEF IInv, UniqueAccount
<1>2. Only(r) /\ LocalsOf(r)' /\ UsesOf(r)'
  BY AnswerOK DEF IInv
<1>3. /\ \A s \in Sids : session'[s].state = "revoked" => uses'[s] >= 1
      /\ \A s \in Sids : session'[s].state = "deleted" => session[s].state = "deleted"
  BY DEF IInv, UsesOK, Counted, TypeOK
<1>4. QED
  BY <1>1, <1>2, <1>3, AdvanceInv

LEMMA InvAwaited ==
    ASSUME IInv, TypeOK', NEW r \in Requests, NEW l, NEW c, Await(r, l, c),
           UNCHANGED <<account, session>>, Counted, LocalsOf(r)', UsesOf(r)'
    PROVE  IInv'
<1>1. UniqueAccount' /\ Advance
  BY SameTable DEF IInv, UniqueAccount
<1>2. Only(r)
  BY AwaitOK DEF IInv
<1>3. /\ \A s \in Sids : session'[s].state = "revoked" => uses'[s] >= 1
      /\ \A s \in Sids : session'[s].state = "deleted" => session[s].state = "deleted"
  BY DEF IInv, UsesOK, Counted, TypeOK
<1>4. QED
  BY <1>1, <1>2, <1>3, AdvanceInv

LEMMA InvRegisterLookup ==
    ASSUME IInv, TypeOK', NEW r \in Requests, NEW e \in Emails, NEW flag \in BOOLEAN,
           RegisterLookup(r, e, flag)
    PROVE  IInv'
<1>1. UNCHANGED <<account, session>> /\ Counted
  BY SameUses DEF RegisterLookup, hist, IInv
<1>2. CASE Answer(r, "conflict")
  BY <1>1, <1>2, InvAnswered
<1>3. CASE Await(r, "register.create", [NoCtx EXCEPT !.user = e])
  <2>1. pc'[r] = "register.create" /\ ctx'[r] = [NoCtx EXCEPT !.user = e]
    BY <1>3, AwaitOK DEF IInv
  <2>2. LocalsOf(r)' /\ UsesOf(r)'
    BY <2>1, AuthAssumption DEF LocalsOf, UsesOf, NoCtx
  <2>3. QED
    BY <1>1, <1>3, <2>2, InvAwaited
<1>4. QED
  BY <1>2, <1>3 DEF RegisterLookup

LEMMA InvLogin ==
    ASSUME IInv, TypeOK', NEW r \in Requests, NEW e \in Emails, NEW flag \in BOOLEAN,
           Login(r, e, flag)
    PROVE  IInv'
<1>1. UNCHANGED <<account, session>> /\ Counted
  BY SameUses DEF Login, hist, IInv
<1>2. CASE Answer(r, "unauthorized")
  BY <1>1, <1>2, InvAnswered
<1>3. CASE Await(r, "issue", [NoCtx EXCEPT !.user = e])
  <2>1. pc'[r] = "issue" /\ ctx'[r] = [NoCtx EXCEPT !.user = e]
    BY <1>3, AwaitOK DEF IInv
  <2>2. LocalsOf(r)' /\ UsesOf(r)'
    BY <2>1, AuthAssumption DEF LocalsOf, UsesOf, NoCtx
  <2>3. QED
    BY <1>1, <1>3, <2>2, InvAwaited
<1>4. QED
  BY <1>2, <1>3 DEF Login

LEMMA InvRegisterCreate ==
    ASSUME IInv, TypeOK', NEW r \in Requests, RegisterCreate(r)
    PROVE  IInv'
<1>1. session' = session /\ Counted
  BY SameUses DEF RegisterCreate, hist, IInv
<1>2. CASE Answer(r, "error") /\ UNCHANGED account
  BY <1>1, <1>2, InvAnswered
<1>3. CASE /\ account[ctx[r].user] = 0
           /\ account' = [account EXCEPT ![ctx[r].user] = @ + 1]
           /\ Await(r, "issue", ctx[r])
  <2>1. UniqueAccount'
    BY <1>3 DEF UniqueAccount, IInv, TypeOK
  <2>2. Only(r) /\ pc'[r] = "issue" /\ ctx'[r] = ctx[r]
    BY <1>3, AwaitOK DEF IInv
  <2>3. LocalsOf(r) /\ pc[r] = "register.create"
    BY DEF IInv, LocalsOK, RegisterCreate
  <2>4. LocalsOf(r)' /\ UsesOf(r)'
    BY <1>1, <2>2, <2>3, AuthAssumption DEF LocalsOf, UsesOf
  <2>5. /\ \A s \in Sids : session'[s].state = "revoked" => uses'[s] >= 1
        /\ \A s \in Sids : session'[s].state = "deleted" => session[s].state = "deleted"
    BY <1>1 DEF IInv, UsesOK, Counted, TypeOK
  <2>6. QED
    BY <1>1, <2>1, <2>2, <2>4, <2>5, SameTable, AdvanceInv
<1>4. QED
  BY <1>2, <1>3 DEF RegisterCreate

LEMMA InvRefreshRead ==
    ASSUME IInv, TypeOK', NEW r \in Requests, NEW s \in Issued \cup {NoOne},
           NEW valid \in BOOLEAN, RefreshRead(r, s, valid)
    PROVE  IInv'
<1>1. UNCHANGED <<account, session>> /\ Counted
  BY UseOK DEF RefreshRead, Stolen, HasRow, IInv
<1>2. CASE \E o : Answer(r, o)
  BY <1>1, <1>2, InvAnswered
<1>3. ASSUME s \in Sids, session[s].state # "none",
             NEW l \in {"refresh.purge", "refresh.revoke"},
             l = "refresh.purge" => session[s].state = "revoked",
             l = "refresh.revoke" => valid /\ s \notin expired,
             Await(r, l, [user |-> session[s].user, family |-> session[s].family, sid |-> s])
      PROVE  IInv'
  <2>1. pc'[r] = l /\ ctx'[r] = [user |-> session[s].user, family |-> session[s].family, sid |-> s]
    BY <1>3, AwaitOK DEF IInv
  <2>2. session[s].family \in Sids
    BY <1>3 DEF IInv, LineageOK
  <2>3. LocalsOf(r)'
    BY <1>1, <1>3, <2>1, <2>2, AuthAssumption DEF LocalsOf, Retired
  <2>4. uses'[s] >= 1 /\ (l = "refresh.purge" => uses'[s] = 2)
    <3> DEFINE named == {t \in Sids : t = s /\ (uses[t] = 1 \/ (valid /\ t \notin expired))}
    <3>1. Use(named)
      BY DEF RefreshRead
    <3>2. uses[s] \in 0..2
      BY <1>3 DEF IInv, TypeOK
    <3>3. l = "refresh.purge" => uses[s] >= 1
      BY <1>3 DEF IInv, UsesOK
    <3>4. CASE uses[s] = 2
      BY <1>1, <1>3, <3>4 DEF Counted, IInv, TypeOK
    <3>5. CASE uses[s] # 2
      BY <1>3, <3>1, <3>2, <3>3, <3>5, UseOK DEF IInv
    <3>6. QED
      BY <3>4, <3>5
  <2>5. UsesOf(r)'
    BY <1>3, <2>1, <2>4 DEF UsesOf
  <2>6. QED
    BY <1>1, <1>3, <2>3, <2>5, InvAwaited
<1>4. QED
  BY <1>2, <1>3 DEF RefreshRead, Stolen, HasRow

LEMMA InvLogoutRead ==
    ASSUME IInv, TypeOK', NEW r \in Requests, NEW s \in Issued \cup {NoOne},
           NEW valid \in BOOLEAN, LogoutRead(r, s, valid)
    PROVE  IInv'
<1>1. UNCHANGED <<account, session>> /\ Counted
  BY FirstUseOK DEF LogoutRead, IInv
<1>2. CASE \E o : Answer(r, o)
  BY <1>1, <1>2, InvAnswered
<1>3. CASE /\ s \in Sids /\ session[s].state = "live" /\ valid
           /\ Await(r, "logout.revoke", [NoCtx EXCEPT !.sid = s])
  <2>1. pc'[r] = "logout.revoke" /\ ctx'[r] = [NoCtx EXCEPT !.sid = s]
    BY <1>3, AwaitOK DEF IInv
  <2>2. LocalsOf(r)'
    BY <1>1, <1>3, <2>1, AuthAssumption DEF LocalsOf, NoCtx
  <2>3. uses'[s] >= 1
    <3>1. FirstUse({t \in Sids : t = s /\ valid})
      BY DEF LogoutRead
    <3>2. QED
      BY <1>3, <3>1, FirstUseOK DEF IInv
  <2>4. UsesOf(r)'
    BY <2>1, <2>3 DEF UsesOf, NoCtx
  <2>5. QED
    BY <1>1, <1>3, <2>2, <2>4, InvAwaited
<1>4. QED
  BY <1>2, <1>3 DEF LogoutRead

(* An update of the row that the handler has read: nothing but its state      *)
(* changes, and the token it retires has been presented.                      *)
LEMMA RevokeRow ==
    ASSUME IInv, NEW s \in Sids, HasRow(s), SetState(s, "revoked"), uses' = uses, uses[s] >= 1
    PROVE  /\ Advance /\ Counted /\ s \in Retired'
           /\ \A t \in Sids : session'[t].state = "revoked" => uses'[t] >= 1
           /\ \A t \in Sids : session'[t].state = "deleted" => session[t].state = "deleted"
<1>1. \A t \in Sids : session'[t] = IF t = s THEN [session[s] EXCEPT !.state = "revoked"]
                                              ELSE session[t]
  BY DEF SetState, IInv, TypeOK
<1>2. \A t \in Sids : session[t] \in Row
  BY DEF IInv, TypeOK
<1>3. QED
  BY <1>1, <1>2, SameUses DEF Advance, Retired, HasRow, Row, IInv, UsesOK

LEMMA InvRefreshRevoke ==
    ASSUME IInv, TypeOK', NEW r \in Requests, RefreshRevoke(r)
    PROVE  IInv'
<1>1. /\ uses' = uses /\ account' = account /\ UniqueAccount'
      /\ pc[r] = "refresh.revoke" /\ LocalsOf(r) /\ UsesOf(r)
  BY DEF RefreshRevoke, hist, IInv, UniqueAccount, LocalsOK, UsesOK
<1>2. CASE Answer(r, "error") /\ UNCHANGED session
  BY <1>1, <1>2, InvAnswered, SameUses DEF IInv
<1>3. CASE /\ HasRow(ctx[r].sid) /\ SetState(ctx[r].sid, "revoked")
           /\ Await(r, "issue", ctx[r])
  <2> DEFINE s == ctx[r].sid
  <2>1. s \in Sids /\ uses[s] >= 1 /\ ctx[r].family \in Sids
    BY <1>1, AuthAssumption DEF LocalsOf, UsesOf
  <2>2. Only(r) /\ pc'[r] = "issue" /\ ctx'[r] = ctx[r]
    BY <1>3, AwaitOK DEF IInv
  <2>3. /\ Advance /\ Counted /\ s \in Retired'
        /\ \A t \in Sids : session'[t].state = "revoked" => uses'[t] >= 1
        /\ \A t \in Sids : session'[t].state = "deleted" => session[t].state = "deleted"
    BY <1>1, <1>3, <2>1, RevokeRow
  <2>4. ctx[r].user \in Emails
    BY <1>1, <2>1, AuthAssumption DEF LocalsOf, IInv, LineageOK
  <2>5. LocalsOf(r)'
    BY <1>1, <2>1, <2>2, <2>3, <2>4, AuthAssumption DEF LocalsOf, Advance
  <2>6. UsesOf(r)'
    BY <1>1, <2>1, <2>2 DEF UsesOf
  <2>7. QED
    BY <1>1, <2>2, <2>3, <2>5, <2>6, AdvanceInv
<1>4. QED
  BY <1>2, <1>3 DEF RefreshRevoke

LEMMA InvLogoutRevoke ==
    ASSUME IInv, TypeOK', NEW r \in Requests, LogoutRevoke(r)
    PROVE  IInv'
<1>1. /\ uses' = uses /\ account' = account /\ UniqueAccount'
      /\ pc[r] = "logout.revoke" /\ LocalsOf(r) /\ UsesOf(r)
  BY DEF LogoutRevoke, hist, IInv, UniqueAccount, LocalsOK, UsesOK
<1>2. CASE Answer(r, "error") /\ UNCHANGED session
  BY <1>1, <1>2, InvAnswered, SameUses DEF IInv
<1>3. CASE HasRow(ctx[r].sid) /\ SetState(ctx[r].sid, "revoked") /\ Answer(r, "ok")
  <2>1. ctx[r].sid \in Sids /\ uses[ctx[r].sid] >= 1
    BY <1>1 DEF LocalsOf, UsesOf
  <2>2. Only(r) /\ LocalsOf(r)' /\ UsesOf(r)'
    BY <1>3, AnswerOK DEF IInv
  <2>3. QED
    BY <1>1, <1>3, <2>1, <2>2, RevokeRow, AdvanceInv
<1>4. QED
  BY <1>2, <1>3 DEF LogoutRevoke

LEMMA LogoutAllAdvances ==
    ASSUME IInv, NEW r \in Requests, NEW e \in Emails, LogoutAll(r, e)
    PROVE  /\ Advance /\ Counted
           /\ \A t \in Sids : session'[t].state = "revoked" => uses'[t] >= 1
           /\ \A t \in Sids : session'[t].state = "deleted" => session[t].state = "deleted"
<1> DEFINE open == {s \in Sids : session[s].state = "live" /\ session[s].user = e}
<1>1. \A t \in Sids : session'[t] = IF t \in open THEN [session[t] EXCEPT !.state = "revoked"]
                                                 ELSE session[t]
  BY DEF LogoutAll
<1>2. \A t \in Sids : session[t] \in Row
  BY DEF IInv, TypeOK
<1>3. Counted /\ \A t \in open : uses'[t] >= 1
  <2>1. FirstUse(open)
    BY DEF LogoutAll
  <2>2. QED
    BY <2>1, FirstUseOK DEF IInv
<1>4. Advance
  BY <1>1, <1>2 DEF Advance, Retired, Row
<1>5. ASSUME NEW t \in Sids, session'[t].state = "revoked" PROVE uses'[t] >= 1
  <2>1. CASE t \in open
    BY <1>3, <2>1
  <2>2. CASE t \notin open
    <3>1. uses[t] >= 1
      BY <1>1, <1>5, <2>2 DEF IInv, UsesOK
    <3>2. QED
      BY <1>3, <3>1 DEF Counted, IInv, TypeOK, FirstUse, Use, LogoutAll
  <2>3. QED
    BY <2>1, <2>2
<1>6. \A t \in Sids : session'[t].state = "deleted" => session[t].state = "deleted"
  BY <1>1, <1>2 DEF Row
<1>7. QED
  BY <1>3, <1>4, <1>5, <1>6

LEMMA InvLogoutAll ==
    ASSUME IInv, TypeOK', NEW r \in Requests, NEW e \in Emails, LogoutAll(r, e)
    PROVE  IInv'
<1>1. UniqueAccount'
  BY DEF LogoutAll, IInv, UniqueAccount
<1>2. Only(r) /\ LocalsOf(r)' /\ UsesOf(r)'
  BY AnswerOK DEF LogoutAll, IInv
<1>3. QED
  BY <1>1, <1>2, LogoutAllAdvances, AdvanceInv

(* The purge deletes exactly the family whose reuse was detected, and the     *)
(* token that gave it away was presented twice.                               *)
LEMMA PurgeAdvances ==
    ASSUME IInv, NEW r \in Requests, RefreshPurge(r)
    PROVE  /\ Advance
           /\ ctx[r].sid \in Family(ctx[r].family) /\ ctx[r].sid \in Retired
           /\ uses[ctx[r].sid] = 2
           /\ \A t \in Sids : session'[t].state =
                  IF t \in Family(ctx[r].family) THEN "deleted" ELSE session[t].state
<1> DEFINE F == Family(ctx[r].family)
<1>1. LocalsOf(r) /\ UsesOf(r) /\ pc[r] = "refresh.purge"
  BY DEF IInv, LocalsOK, UsesOK, RefreshPurge
<1>2. \A t \in Sids : session'[t] = IF t \in F THEN [session[t] EXCEPT !.state = "deleted"]
                                              ELSE session[t]
  BY DEF RefreshPurge
<1>3. \A t \in Sids : session[t] \in Row
  BY DEF IInv, TypeOK
<1>4. \A t \in F : session[t].state # "none"
  BY DEF Family
<1>5. Advance
  BY <1>2, <1>3, <1>4 DEF Advance, Retired, Row
<1>6. ctx[r].sid \in F /\ ctx[r].sid \in Retired /\ uses[ctx[r].sid] = 2
  BY <1>1, AuthAssumption DEF LocalsOf, UsesOf, Family
<1>7. \A t \in Sids : session'[t].state = IF t \in F THEN "deleted" ELSE session[t].state
  BY <1>2, <1>3 DEF Row
<1>8. QED
  BY <1>5, <1>6, <1>7

LEMMA InvRefreshPurge ==
    ASSUME IInv, TypeOK', NEW r \in Requests, RefreshPurge(r)
    PROVE  IInv'
<1>1. UniqueAccount' /\ uses' = uses /\ Counted
  BY SameUses DEF RefreshPurge, IInv, UniqueAccount
<1>2. Only(r) /\ LocalsOf(r)' /\ UsesOf(r)'
  BY AnswerOK DEF RefreshPurge, IInv
<1>3. LineageOK' /\ LocalsOK'
  BY <1>2, PurgeAdvances, AdvanceLineage, AdvanceLocals DEF IInv
<1>4. UsesOK'
  <2>1. ASSUME NEW q \in Requests, q # r PROVE UsesOf(q)'
    BY <1>1, <1>2, <2>1 DEF Only, IInv, UsesOK, UsesOf
  <2>2. ASSUME NEW t \in Sids, session'[t].state = "revoked" PROVE uses'[t] >= 1
    BY <1>1, <2>2, PurgeAdvances DEF IInv, UsesOK
  <2>3. QED
    BY <1>2, <2>1, <2>2 DEF UsesOK
<1>5. DeletionHasCause'
  <2> SUFFICES ASSUME NEW d \in Sids, session'[d].state = "deleted"
               PROVE  \E s \in Family(session[d].family)' : uses'[s] = 2
    BY DEF DeletionHasCause
  <2>1. CASE d \in Family(ctx[r].family)
    <3>1. session'[d].family = ctx[r].family
      BY <2>1, PurgeAdvances DEF Family, Advance
    <3>2. ctx[r].sid \in Family(session[d].family)'
      BY <3>1, PurgeAdvances DEF Family, Advance
    <3>3. QED
      BY <1>1, <3>2, PurgeAdvances
  <2>2. CASE d \notin Family(ctx[r].family)
    <3>1. session[d].state = "deleted"
      BY <2>2, PurgeAdvances
    <3>2. PICK s \in Family(session[d].family) : uses[s] = 2
      BY <3>1 DEF IInv, DeletionHasCause
    <3>3. s \in Family(session[d].family)'
      BY <3>2, PurgeAdvances DEF Family, Advance
    <3>4. QED
      BY <1>1, <3>2, <3>3
  <2>3. QED
    BY <2>1, <2>2
<1>6. QED
  BY <1>1, <1>3, <1>4, <1>5 DEF IInv

LEMMA InvIssueTokenPair ==
    ASSUME IInv, TypeOK', NEW r \in Requests, IssueTokenPair(r)
    PROVE  IInv'
<1>1. PICK n \in Free : session' = [session EXCEPT ![n] =
              [state |-> "live",
               user |-> ctx[r].user,
               family |-> IF ctx[r].family = NoOne THEN n ELSE ctx[r].family,
               parent |-> ctx[r].sid]]
  BY DEF IssueTokenPair, NewRow
<1>2. /\ pc[r] = "issue" /\ Answer(r, "ok") /\ LocalsOf(r)
      /\ uses' = uses /\ UniqueAccount'
  BY DEF IssueTokenPair, NewRow, IInv, LocalsOK, UniqueAccount, hist
<1>3. n \in Sids /\ session[n] = NoRow
  BY DEF Free, IInv, LineageOK
<1>4. \A t \in Sids \ {n} : session'[t] = session[t]
  BY <1>1 DEF IInv, TypeOK
<1>5. /\ session'[n].state = "live" /\ session'[n].user = ctx[r].user
      /\ session'[n].family = IF ctx[r].family = NoOne THEN n ELSE ctx[r].family
      /\ session'[n].parent = ctx[r].sid
  BY <1>1, <1>3 DEF IInv, TypeOK
<1>6. Only(r) /\ LocalsOf(r)' /\ UsesOf(r)'
  BY <1>2, AnswerOK DEF IInv
<1>7. \A t \in Sids : session[t].state # "none" => t # n
  BY <1>3 DEF NoRow
<1>8. Retired' = Retired
  BY <1>3, <1>4, <1>5, <1>7 DEF Retired
<1>9. LineageOK'
  <2>1. ASSUME NEW t \in Sids, t # n
        PROVE  /\ session'[t].state = "none" => session'[t] = NoRow
               /\ session'[t].state # "none" =>
                    /\ session'[t].user \in Emails
                    /\ session'[t].family \in Sids
                    /\ session'[session'[t].family].state # "none"
                    /\ session'[session'[t].family].family = session'[t].family
                    /\ session'[session'[t].family].user = session'[t].user
               /\ session'[t].parent \in Sids =>
                    /\ session'[t].parent \in Retired'
                    /\ session'[session'[t].parent].family = session'[t].family
    <3>1. session'[t] = session[t]
      BY <1>4, <2>1
    <3>2. session[t].state # "none" => session[t].family \in Sids \ {n}
      BY <1>7 DEF IInv, LineageOK
    <3>3. session[t].parent \in Sids => session[t].parent \in Sids \ {n}
      BY <1>7 DEF IInv, LineageOK, Retired
    <3>4. QED
      BY <1>4, <1>8, <3>1, <3>2, <3>3 DEF IInv, LineageOK
  <2>2. CASE ctx[r].family = NoOne
    <3>1. ctx[r].sid = NoOne /\ ctx[r].user \in Emails
      BY <1>2, <2>2 DEF LocalsOf
    <3>2. QED
      BY <1>3, <1>5, <2>1, <2>2, <3>1, AuthAssumption DEF LineageOK
  <2>3. CASE ctx[r].family # NoOne
    <3> DEFINE p == ctx[r].sid
    <3>1. /\ p \in Sids /\ session[p].state # "none" /\ p \in Retired
          /\ ctx[r].family = session[p].family /\ ctx[r].user = session[p].user
          /\ ctx[r].user \in Emails
      BY <1>2, <2>3 DEF LocalsOf
    <3>2. session[p].family \in Sids /\ session[session[p].family].state # "none"
      BY <3>1 DEF IInv, LineageOK
    <3>3. session[p].family # n /\ p # n
      BY <1>7, <3>1, <3>2
    <3>4. /\ session[session[p].family].family = session[p].family
          /\ session[session[p].family].user = session[p].user
      BY <3>1 DEF IInv, LineageOK
    <3>5. /\ session'[p] = session[p]
          /\ session'[session[p].family] = session[session[p].family]
      BY <1>4, <3>1, <3>2, <3>3
    <3>6. /\ session'[n].user \in Emails /\ session'[n].family = session[p].family
          /\ session'[n].user = session[p].user /\ session'[n].parent = p
      BY <1>5, <2>3, <3>1
    <3>7. QED
      BY <1>3, <1>5, <1>8, <2>1, <3>1, <3>2, <3>4, <3>5, <3>6 DEF LineageOK
  <2>4. QED
    BY <2>2, <2>3
<1>10. LocalsOK'
  <2> SUFFICES ASSUME NEW q \in Requests, q # r PROVE LocalsOf(q)'
    BY <1>6 DEF LocalsOK
  <2>1. LocalsOf(q) /\ pc'[q] = pc[q] /\ ctx'[q] = ctx[q]
    BY <1>6 DEF Only, IInv, LocalsOK
  <2>2. ctx[q].sid \in Sids => session'[ctx[q].sid] = session[ctx[q].sid]
    BY <1>4, <1>7, <2>1 DEF LocalsOf
  <2>3. QED
    BY <1>8, <2>1, <2>2 DEF LocalsOf
<1>11. UsesOK'
  <2>1. ASSUME NEW q \in Requests, q # r PROVE UsesOf(q)'
    BY <1>2, <1>6, <2>1 DEF Only, IInv, UsesOK, UsesOf
  <2>2. ASSUME NEW t \in Sids, session'[t].state = "revoked" PROVE uses'[t] >= 1
    BY <1>2, <1>4, <1>5, <2>2 DEF IInv, UsesOK
  <2>3. QED
    BY <1>6, <2>1, <2>2 DEF UsesOK
<1>12. DeletionHasCause'
  <2> SUFFICES ASSUME NEW d \in Sids, session'[d].state = "deleted"
               PROVE  \E s \in Family(session[d].family)' : uses'[s] = 2
    BY DEF DeletionHasCause
  <2>1. session'[d] = session[d]
    BY <1>4, <1>5
  <2>2. PICK s \in Family(session[d].family) : uses[s] = 2
    BY <2>1 DEF IInv, DeletionHasCause
  <2>3. s \in Sids /\ session'[s] = session[s]
    BY <1>4, <1>7, <2>2 DEF Family
  <2>4. s \in Family(session[d].family)'
    BY <2>1, <2>2, <2>3 DEF Family
  <2>5. QED
    BY <1>2, <2>2, <2>4
<1>13. QED
  BY <1>2, <1>9, <1>10, <1>11, <1>12 DEF IInv

LEMMA InvStep == IInv /\ [Next]_vars => IInv'
<1> SUFFICES ASSUME IInv, [Next]_vars PROVE IInv'
  OBVIOUS
<1>1. TypeOK'
  BY TypeStep DEF IInv
<1>2. ASSUME NEW r \in Requests, Arrive(r) PROVE IInv'
  BY <1>1, <1>2, InvRegisterLookup, InvLogin, InvRefreshRead, InvLogoutRead, InvLogoutAll
     DEF Arrive
<1>3. ASSUME NEW r \in Requests, Resume(r) PROVE IInv'
  BY <1>1, <1>3, InvRegisterCreate, InvRefreshPurge, InvRefreshRevoke, InvIssueTokenPair,
     InvLogoutRevoke DEF Resume
<1>4. ASSUME NEW r \in Requests, Abort(r) PROVE IInv'
  BY <1>1, <1>4, InvAnswered, SameUses DEF Abort, hist, IInv
<1>5. ASSUME NEW s \in Sids, Expire(s) PROVE IInv'
  BY <1>1, <1>5 DEF Expire, hist, IInv, UniqueAccount, LineageOK, LocalsOK, LocalsOf, UsesOK,
     UsesOf, DeletionHasCause, Family, Retired
<1>6. CASE UNCHANGED vars
  BY <1>1, <1>6 DEF vars, hist, IInv, UniqueAccount, LineageOK, LocalsOK, LocalsOf, UsesOK,
     UsesOf, DeletionHasCause, Family, Retired
<1>7. QED
  BY <1>2, <1>3, <1>4, <1>5, <1>6 DEF Next

-----------------------------------------------------------------------------
(* Safety *)

(* The inductive invariant holds in every reachable state. *)
THEOREM Invariance == Spec => []IInv
BY InvInit, InvStep, PTL DEF Spec

(* Whenever a successor of a refresh token exists, that token is revoked or  *)
(* deleted, whatever other refreshes, logouts and failures interleave.       *)
THEOREM RotationRetiresParent == Spec => []ParentRetired
<1>1. IInv => ParentRetired
  BY DEF IInv, LineageOK, ParentRetired, Children, Retired
<1>2. QED
  BY <1>1, Invariance, PTL

(* All sessions of a family belong to one user. *)
THEOREM FamiliesHaveOneOwner == Spec => []FamilyHasOneOwner
<1>1. IInv => FamilyHasOneOwner
  <2> SUFFICES ASSUME IInv, NEW s \in Sids, NEW t \in Sids, s \in Family(session[t].family)
               PROVE  session[s].user = session[t].user
    BY DEF FamilyHasOneOwner
  <2>1. session[s].state # "none" /\ session[s].family = session[t].family
    BY DEF Family
  <2>2. session[t].state # "none"
    BY <2>1, AuthAssumption DEF IInv, LineageOK, NoRow
  <2>3. QED
    BY <2>1, <2>2 DEF IInv, LineageOK
<1>2. QED
  BY <1>1, Invariance, PTL

(* A family is deleted only when a refresh named one of its tokens, with     *)
(* whatever secret, after that token had been spent.                         *)
THEOREM DeletionsHaveCause == Spec => []DeletionHasCause
<1>1. IInv => DeletionHasCause
  BY DEF IInv
<1>2. QED
  BY <1>1, Invariance, PTL

-----------------------------------------------------------------------------
(* What a step may do to the table *)

LEMMA TableStep ==
    ASSUME IInv, [Next]_vars
    PROVE  Advance \/ \E r \in Requests : IssueTokenPair(r)
<1>1. ASSUME NEW r \in Requests, Arrive(r) PROVE Advance
  <2>1. ASSUME NEW e \in Emails, LogoutAll(r, e) PROVE Advance
    BY <2>1, LogoutAllAdvances
  <2>2. CASE session' = session
    BY <2>2, SameTable
  <2>3. QED
    BY <1>1, <2>1, <2>2 DEF Arrive, RegisterLookup, Login, RefreshRead, Stolen, HasRow, LogoutRead
<1>2. ASSUME NEW r \in Requests, RefreshRevoke(r) PROVE Advance
  <2>1. CASE session' = session
    BY <2>1, SameTable
  <2>2. CASE SetState(ctx[r].sid, "revoked") /\ HasRow(ctx[r].sid)
    <3>1. uses' = uses /\ LocalsOf(r) /\ UsesOf(r) /\ pc[r] = "refresh.revoke"
      BY <1>2 DEF RefreshRevoke, hist, IInv, LocalsOK, UsesOK
    <3>2. ctx[r].sid \in Sids /\ uses[ctx[r].sid] >= 1
      BY <3>1, AuthAssumption DEF LocalsOf, UsesOf
    <3>3. QED
      BY <2>2, <3>1, <3>2, RevokeRow
  <2>3. QED
    BY <1>2, <2>1, <2>2 DEF RefreshRevoke
<1>3. ASSUME NEW r \in Requests, LogoutRevoke(r) PROVE Advance
  <2>1. CASE session' = session
    BY <2>1, SameTable
  <2>2. CASE SetState(ctx[r].sid, "revoked") /\ HasRow(ctx[r].sid)
    <3>1. uses' = uses /\ LocalsOf(r) /\ UsesOf(r) /\ pc[r] = "logout.revoke"
      BY <1>3 DEF LogoutRevoke, hist, IInv, LocalsOK, UsesOK
    <3>2. ctx[r].sid \in Sids /\ uses[ctx[r].sid] >= 1
      BY <3>1 DEF LocalsOf, UsesOf
    <3>3. QED
      BY <2>2, <3>1, <3>2, RevokeRow
  <2>3. QED
    BY <1>3, <2>1, <2>2 DEF LogoutRevoke
<1>4. ASSUME NEW r \in Requests, RegisterCreate(r) \/ Abort(r) PROVE Advance
  BY <1>4, SameTable DEF RegisterCreate, Abort
<1>5. ASSUME NEW s \in Sids, Expire(s) PROVE Advance
  BY <1>5, SameTable DEF Expire
<1>6. CASE UNCHANGED vars
  BY <1>6, SameTable DEF vars
<1>7. QED
  BY <1>1, <1>2, <1>3, <1>4, <1>5, <1>6, PurgeAdvances DEF Next, Resume

(* A new row takes an unused id; all other rows stay as they are. *)
LEMMA IssueAddsRow ==
    ASSUME IInv, NEW r \in Requests, IssueTokenPair(r)
    PROVE  \E n \in Sids :
              /\ session[n] = NoRow
              /\ \A t \in Sids \ {n} : session'[t] = session[t]
              /\ session'[n].state = "live"
              /\ session'[n].family = IF ctx[r].family = NoOne THEN n ELSE ctx[r].family
              /\ session'[n].parent = ctx[r].sid
<1>1. PICK n \in Free : session' = [session EXCEPT ![n] =
              [state |-> "live",
               user |-> ctx[r].user,
               family |-> IF ctx[r].family = NoOne THEN n ELSE ctx[r].family,
               parent |-> ctx[r].sid]]
  BY DEF IssueTokenPair, NewRow
<1>2. n \in Sids /\ session[n] = NoRow
  BY DEF Free, IInv, LineageOK
<1>3. QED
  BY <1>1, <1>2 DEF IInv, TypeOK

(* Revocation and deletion of a session are final. *)
THEOREM RevocationIsFinal == Spec => NeverRevived
<1>1. IInv /\ IInv' /\ [Next]_vars =>
        [\A s \in Sids :
            /\ session[s].state \in {"revoked", "deleted"} => session'[s].state # "live"
            /\ session[s].state = "deleted" => session'[s].state = "deleted"]_vars
  <2> SUFFICES ASSUME IInv, [Next]_vars, NEW s \in Sids
               PROVE  /\ session[s].state \in {"revoked", "deleted"} => session'[s].state # "live"
                      /\ session[s].state = "deleted" => session'[s].state = "deleted"
    OBVIOUS
  <2>1. CASE Advance
    BY <2>1 DEF Advance, Retired
  <2>2. CASE \E r \in Requests : IssueTokenPair(r)
    BY <2>2, IssueAddsRow DEF NoRow
  <2>3. QED
    BY <2>1, <2>2, TableStep
<1>2. QED
  BY <1>1, Invariance, PTL DEF Spec, NeverRevived

(* While a family is dead no handler turns to rotating one of its tokens. *)
LEMMA DeadHandlers ==
    ASSUME IInv, [Next]_vars, NEW f \in Sids, Dead(f),
           NEW r \in Requests, ctx'[r].family = f
    PROVE  pc'[r] = "refresh.purge"
<1> USE DEF IInv, TypeOK
<1>1. f # NoOne
  BY AuthAssumption
<1>2. ASSUME NEW q \in Requests, NEW o, Answer(q, o) PROVE pc'[r] = "refresh.purge"
  BY <1>1, <1>2 DEF Answer, NoCtx, Dead
<1>3. ASSUME NEW q \in Requests, NEW l, NEW c, Await(q, l, c), c.family # f
      PROVE  pc'[r] = "refresh.purge"
  BY <1>3 DEF Await, Dead
<1>4. ASSUME NEW q \in Requests, NEW l, Await(q, l, ctx[q]), pc[q] # "refresh.purge"
      PROVE  pc'[r] = "refresh.purge"
  BY <1>4 DEF Await, Dead
<1>5. ASSUME NEW q \in Requests, NEW c, Await(q, "refresh.purge", c)
      PROVE  pc'[r] = "refresh.purge"
  BY <1>5 DEF Await, Dead
<1>6. ASSUME NEW q \in Requests, NEW s \in Issued \cup {NoOne}, NEW valid \in BOOLEAN,
             RefreshRead(q, s, valid)
      PROVE  pc'[r] = "refresh.purge"
  <2>1. ASSUME s \in Sids, session[s].state = "live" PROVE session[s].family # f
    BY <2>1 DEF Dead, Family
  <2>2. QED
    BY <1>2, <1>3, <1>5, <1>6, <2>1 DEF RefreshRead, Stolen, HasRow
<1>7. ASSUME NEW q \in Requests, Arrive(q) PROVE pc'[r] = "refresh.purge"
  <2>1. /\ \A e : [NoCtx EXCEPT !.user = e].family # f
        /\ \A s : [NoCtx EXCEPT !.sid = s].family # f
    BY <1>1 DEF NoCtx
  <2>2. ASSUME NEW e \in Emails, NEW flag \in BOOLEAN,
               RegisterLookup(q, e, flag) \/ Login(q, e, flag) \/ LogoutAll(q, e)
        PROVE  pc'[r] = "refresh.purge"
    BY <1>2, <1>3, <2>1, <2>2 DEF RegisterLookup, Login, LogoutAll
  <2>3. ASSUME NEW s \in Issued \cup {NoOne}, NEW valid \in BOOLEAN, LogoutRead(q, s, valid)
        PROVE  pc'[r] = "refresh.purge"
    BY <1>2, <1>3, <2>1, <2>3 DEF LogoutRead
  <2>4. QED
    BY <1>6, <1>7, <2>2, <2>3 DEF Arrive
<1>8. ASSUME NEW q \in Requests, Resume(q) PROVE pc'[r] = "refresh.purge"
  BY <1>2, <1>4, <1>8
     DEF Resume, RegisterCreate, RefreshPurge, RefreshRevoke, IssueTokenPair, NewRow, LogoutRevoke
<1>9. CASE ctx' = ctx /\ pc' = pc
  BY <1>9 DEF Dead
<1>10. QED
  BY <1>2, <1>7, <1>8, <1>9 DEF Next, Abort, Expire, vars

LEMMA DeadStep ==
    ASSUME IInv, [Next]_vars, NEW f \in Sids, Dead(f)
    PROVE  Dead(f)'
<1>1. \A r \in Requests : ctx'[r].family = f => pc'[r] = "refresh.purge"
  BY DeadHandlers
<1>2. CASE Advance
  <2>1. session'[f].state # "none"
    BY <1>2 DEF Advance, Dead
  <2>2. ASSUME NEW s \in Sids, session'[s].state = "live" PROVE session[s].state = "live"
    BY <1>2, <2>2 DEF Advance, Retired, IInv, TypeOK, Row, SessionState
  <2>3. \A s \in Family(f)' : session'[s].state # "live"
    BY <1>2, <2>2 DEF Family, Advance, Dead
  <2>4. QED
    BY <1>1, <2>1, <2>3 DEF Dead
<1>3. CASE \E r \in Requests : IssueTokenPair(r)
  <2>1. PICK r \in Requests : IssueTokenPair(r)
    BY <1>3
  <2>2. PICK n \in Sids :
            /\ session[n] = NoRow
            /\ \A t \in Sids \ {n} : session'[t] = session[t]
            /\ session'[n].state = "live"
            /\ session'[n].family = IF ctx[r].family = NoOne THEN n ELSE ctx[r].family
    BY <2>1, IssueAddsRow
  <2>3. n # f /\ ctx[r].family # f
    BY <2>1, <2>2 DEF Dead, NoRow, IssueTokenPair, NewRow
  <2>4. session'[f].state # "none" /\ session'[n].family # f
    BY <2>2, <2>3 DEF Dead
  <2>5. \A s \in Family(f)' : session'[s].state # "live"
    BY <2>2, <2>4 DEF Family, Dead
  <2>6. QED
    BY <1>1, <2>4, <2>5 DEF Dead
<1>4. QED
  BY <1>2, <1>3, TableStep

(* Logout and reuse detection are final: a family without a live session and *)
(* without a rotation under way never has a live session again.              *)
THEOREM DeadFamiliesStayDead == Spec => DeadStaysDead
<1>1. IInv /\ [Next]_vars => [\A f \in Sids : Dead(f) => Dead(f)']_vars
  BY DeadStep
<1>2. QED
  BY <1>1, Invariance, PTL DEF Spec, DeadStaysDead

-----------------------------------------------------------------------------
(* Forks of a token *)

(* The bound for one token, with the finiteness that counting needs. *)
ForkOf(s) ==
    /\ IsFiniteSet(Children(s))
    /\ Cardinality(Children(s)) + Cardinality(Rotating(s)) <= Cardinality(Requests)

LEMMA RequestsFinite ==
    \A S \in SUBSET Requests :
        /\ IsFiniteSet(S)
        /\ Cardinality(S) \in Nat
        /\ Cardinality(S) <= Cardinality(Requests)
BY AuthAssumption, FS_Subset, FS_CardinalityType

LEMMA ForkInit == Init => \A s \in Sids : ForkOf(s)
<1> SUFFICES ASSUME Init, NEW s \in Sids PROVE ForkOf(s)
  OBVIOUS
<1>1. Children(s) = {} /\ Rotating(s) = {}
  BY AuthAssumption DEF Init, Children, Rotating, NoRow
<1>2. Cardinality(Requests) \in Nat
  BY RequestsFinite
<1>3. QED
  BY <1>1, <1>2, FS_EmptySet DEF ForkOf

(* Only a refresh that reads the token as live sets out to exchange it. *)
LEMMA RotationBegins ==
    ASSUME IInv, [Next]_vars, NEW s \in Sids, NEW r \in Rotating(s)', r \notin Rotating(s)
    PROVE  session[s].state = "live" /\ session' = session
<1> USE DEF IInv, TypeOK
<1>0. r \in Requests /\ ctx'[r].sid = s /\ pc'[r] \in {"refresh.revoke", "issue"} /\ s # NoOne
  BY AuthAssumption DEF Rotating
<1>1. ASSUME NEW q \in Requests, NEW o, Answer(q, o) PROVE FALSE
  BY <1>0, <1>1 DEF Answer, NoCtx, Rotating
<1>2. ASSUME NEW q \in Requests, NEW l, NEW c, Await(q, l, c),
             l \notin {"refresh.revoke", "issue"} \/ c.sid # s
      PROVE  FALSE
  BY <1>0, <1>2 DEF Await, Rotating
<1>3. ASSUME NEW q \in Requests, pc[q] \in {"register.create", "refresh.revoke"},
             Await(q, "issue", ctx[q])
      PROVE  FALSE
  <2>1. pc[q] = "register.create" => ctx[q].sid = NoOne
    BY DEF LocalsOK, LocalsOf
  <2>2. QED
    BY <1>0, <1>3, <2>1 DEF Await, Rotating
<1>4. ASSUME NEW q \in Requests, NEW t \in Issued \cup {NoOne}, NEW valid \in BOOLEAN,
             RefreshRead(q, t, valid)
      PROVE  session[s].state = "live" /\ session' = session
  <2>1. ASSUME t # s, NEW l,
               Await(q, l, [user |-> session[t].user, family |-> session[t].family, sid |-> t])
        PROVE  FALSE
    BY <1>2, <2>1
  <2>2. CASE HasRow(t) /\ ~Stolen(t) /\ t = s
    BY <1>4, <2>2 DEF RefreshRead, HasRow, Stolen
  <2>3. QED
    BY <1>1, <1>2, <1>4, <2>1, <2>2 DEF RefreshRead
<1>5. ASSUME NEW q \in Requests, Arrive(q)
      PROVE  session[s].state = "live" /\ session' = session
  <2>1. \A e : [NoCtx EXCEPT !.user = e].sid # s
    BY <1>0 DEF NoCtx
  <2>2. ASSUME NEW e \in Emails, NEW flag \in BOOLEAN,
               RegisterLookup(q, e, flag) \/ Login(q, e, flag) \/ LogoutAll(q, e)
        PROVE  FALSE
    BY <1>1, <1>2, <2>1, <2>2 DEF RegisterLookup, Login, LogoutAll
  <2>3. ASSUME NEW t \in Issued \cup {NoOne}, NEW valid \in BOOLEAN, LogoutRead(q, t, valid)
        PROVE  FALSE
    BY <1>1, <1>2, <2>3 DEF LogoutRead
  <2>4. QED
    BY <1>4, <1>5, <2>2, <2>3 DEF Arrive
<1>6. ASSUME NEW q \in Requests, Resume(q) PROVE FALSE
  BY <1>1, <1>3, <1>6
     DEF Resume, RegisterCreate, RefreshPurge, RefreshRevoke, IssueTokenPair, LogoutRevoke
<1>7. ~(ctx' = ctx /\ pc' = pc)
  BY <1>0 DEF Rotating
<1>8. QED
  BY <1>1, <1>5, <1>6, <1>7 DEF Next, Abort, Expire, vars

(* The insert of a successor uses up the rotation it belongs to. *)
LEMMA RotationEnds ==
    ASSUME IInv, NEW r \in Requests, IssueTokenPair(r), NEW s \in Sids, ForkOf(s)
    PROVE  ForkOf(s)'
<1> USE DEF IInv, TypeOK
<1>1. PICK n \in Sids :
          /\ session[n] = NoRow
          /\ \A t \in Sids \ {n} : session'[t] = session[t]
          /\ session'[n].parent = ctx[r].sid
  BY IssueAddsRow
<1>2. n \notin Children(s)
  BY <1>1, AuthAssumption DEF Children, NoRow
<1>3. Rotating(s)' = Rotating(s) \ {r}
  BY AuthAssumption DEF IssueTokenPair, Answer, NoCtx, Rotating
<1>4. Cardinality(Children(s)) \in Nat /\ IsFiniteSet(Children(s))
  BY FS_CardinalityType DEF ForkOf
<1>5. Rotating(s) \in SUBSET Requests /\ Rotating(s)' \in SUBSET Requests
  BY DEF Rotating
<1>6. CASE ctx[r].sid = s
  <2>1. r \in Rotating(s)
    BY <1>6 DEF IssueTokenPair, Rotating
  <2>2. Cardinality(Rotating(s)') = Cardinality(Rotating(s)) - 1
    BY <1>3, <1>5, <2>1, RequestsFinite, FS_RemoveElement
  <2>3. Children(s)' = Children(s) \cup {n}
    BY <1>1, <1>6 DEF Children
  <2>4. /\ IsFiniteSet(Children(s)')
        /\ Cardinality(Children(s)') = Cardinality(Children(s)) + 1
    BY <1>2, <1>4, <2>3, FS_AddElement
  <2>5. Cardinality(Rotating(s)) \in Nat /\ Cardinality(Requests) \in Nat
    BY <1>5, RequestsFinite
  <2>6. QED
    BY <1>4, <2>2, <2>4, <2>5 DEF ForkOf
<1>7. CASE ctx[r].sid # s
  <2>1. Children(s)' = Children(s)
    BY <1>1, <1>2, <1>7 DEF Children
  <2>2. Rotating(s)' = Rotating(s)
    BY <1>3, <1>7 DEF Rotating
  <2>3. QED
    BY <2>1, <2>2 DEF ForkOf
<1>8. QED
  BY <1>6, <1>7

LEMMA ForkStep ==
    ASSUME IInv, [Next]_vars, NEW s \in Sids, ForkOf(s)
    PROVE  ForkOf(s)'
<1>1. CASE \E r \in Requests : IssueTokenPair(r)
  BY <1>1, RotationEnds
<1>2. CASE Advance
  <2>1. Children(s)' = Children(s)
    BY <1>2 DEF Advance, Children
  <2>2. Rotating(s) \in SUBSET Requests /\ Rotating(s)' \in SUBSET Requests
    BY DEF Rotating
  <2>3. Cardinality(Children(s)) \in Nat
    BY FS_CardinalityType DEF ForkOf
  <2>4. CASE Rotating(s)' \subseteq Rotating(s)
    <3>1. Cardinality(Rotating(s)') <= Cardinality(Rotating(s))
      BY <2>2, <2>4, RequestsFinite, FS_Subset
    <3>2. /\ Cardinality(Rotating(s)) \in Nat /\ Cardinality(Rotating(s)') \in Nat
          /\ Cardinality(Requests) \in Nat
      BY <2>2, RequestsFinite
    <3>3. QED
      BY <2>1, <2>3, <3>1, <3>2 DEF ForkOf
  <2>5. CASE \E r \in Rotating(s)' : r \notin Rotating(s)
    <3>1. session[s].state = "live"
      BY <2>5, RotationBegins
    <3>2. Children(s) = {}
      BY <3>1 DEF Children, IInv, LineageOK, Retired
    <3>3. Cardinality(Children(s)') = 0
      BY <2>1, <3>2, FS_EmptySet
    <3>4. /\ Cardinality(Rotating(s)') <= Cardinality(Requests)
          /\ Cardinality(Rotating(s)') \in Nat /\ Cardinality(Requests) \in Nat
      BY <2>2, RequestsFinite
    <3>5. QED
      BY <2>1, <3>3, <3>4 DEF ForkOf
  <2>6. QED
    BY <2>4, <2>5
<1>3. QED
  BY <1>1, <1>2, TableStep

(* One refresh token gets at most as many successors as requests can be in   *)
(* flight: once it has been revoked, every refresh that reads it is a reuse.  *)
THEOREM ForksAreBounded == Spec => []ForkBound
<1> DEFINE Forks == \A s \in Sids : ForkOf(s)
<1>1. Init => Forks
  BY ForkInit
<1>2. IInv /\ Forks /\ [Next]_vars => Forks'
  BY ForkStep
<1>3. Forks => ForkBound
  BY DEF ForkOf, ForkBound
<1> HIDE DEF Forks
<1>4. QED
  BY <1>1, <1>2, <1>3, Invariance, PTL DEF Spec

-----------------------------------------------------------------------------
(* Refinement *)

LEMMA LedgerInit == Init => Ledger!Init
BY DEF Init, Ledger!Init, NoRow, Ledger!NoRow

LEMMA LedgerRevoke ==
    ASSUME IInv, NEW s \in Sids, HasRow(s), SetState(s, "revoked")
    PROVE  Ledger!Next \/ session' = session
<1>1. session' = [session EXCEPT ![s].state = "revoked"] /\ session[s] \in Row
  BY DEF SetState, IInv, TypeOK
<1>2. CASE session[s].state = "revoked"
  BY <1>1, <1>2 DEF IInv, TypeOK, Row
<1>3. CASE session[s].state = "live"
  <2>1. session' = [t \in Sids |-> IF t \in {s} THEN [session[t] EXCEPT !.state = "revoked"]
                                               ELSE session[t]]
    BY <1>1 DEF IInv, TypeOK
  <2>2. Ledger!Retire({s})
    BY <1>3, <2>1 DEF Ledger!Retire, Ledger!SetStates
  <2>3. QED
    BY <2>2 DEF Ledger!Next
<1>4. QED
  BY <1>2, <1>3 DEF HasRow

LEMMA LedgerIssue ==
    ASSUME IInv, NEW r \in Requests, IssueTokenPair(r)
    PROVE  Ledger!Next
<1>1. PICK n \in Free : session' = [session EXCEPT ![n] =
              [state |-> "live",
               user |-> ctx[r].user,
               family |-> IF ctx[r].family = NoOne THEN n ELSE ctx[r].family,
               parent |-> ctx[r].sid]]
  BY DEF IssueTokenPair, NewRow
<1>2. n \in Sids /\ session[n].state = "none"
  BY DEF Free
<1>3. pc[r] = "issue" /\ LocalsOf(r)
  BY DEF IssueTokenPair, NewRow, IInv, LocalsOK
<1>4. CASE ctx[r].family = NoOne
  <2>1. ctx[r].sid = NoOne /\ ctx[r].user \in Emails
    BY <1>3, <1>4 DEF LocalsOf
  <2>2. Ledger!Open(n, ctx[r].user)
    BY <1>1, <1>2, <1>4, <2>1 DEF Ledger!Open
  <2>3. QED
    BY <1>2, <2>1, <2>2 DEF Ledger!Next
<1>5. CASE ctx[r].family # NoOne
  <2>1. /\ ctx[r].sid \in Sids /\ session[ctx[r].sid].state \in {"revoked", "deleted"}
        /\ ctx[r].family = session[ctx[r].sid].family
        /\ ctx[r].user = session[ctx[r].sid].user
    BY <1>3, <1>5 DEF LocalsOf, Retired
  <2>2. Ledger!Succeed(ctx[r].sid, n)
    BY <1>1, <1>2, <1>5, <2>1 DEF Ledger!Succeed
  <2>3. QED
    BY <1>2, <2>1, <2>2 DEF Ledger!Next
<1>6. QED
  BY <1>4, <1>5

LEMMA LedgerStep == IInv /\ [Next]_vars => [Ledger!Next]_(Ledger!vars)
<1> SUFFICES ASSUME IInv, [Next]_vars PROVE Ledger!Next \/ session' = session
  BY DEF Ledger!vars
<1>1. ASSUME NEW r \in Requests, NEW e \in Emails, LogoutAll(r, e) PROVE Ledger!Next
  <2> DEFINE open == {s \in Sids : session[s].state = "live" /\ session[s].user = e}
  <2>1. session' = [s \in Sids |-> IF s \in open THEN [session[s] EXCEPT !.state = "revoked"]
                                               ELSE session[s]]
    BY <1>1 DEF LogoutAll
  <2>2. Ledger!Retire(open)
    BY <2>1 DEF Ledger!Retire, Ledger!SetStates
  <2>3. QED
    BY <2>2 DEF Ledger!Next
<1>2. ASSUME NEW r \in Requests, RefreshPurge(r) PROVE Ledger!Next
  <2>1. ctx[r].sid \in Family(ctx[r].family) /\ ctx[r].sid \in Retired
    BY <1>2, PurgeAdvances
  <2>2. ctx[r].family \in Sids
    BY <1>2 DEF RefreshPurge, IInv, LocalsOK, LocalsOf
  <2>3. Family(ctx[r].family) = Ledger!Family(ctx[r].family)
    BY DEF Family, Ledger!Family
  <2>4. Ledger!Purge(ctx[r].family)
    BY <1>2, <2>1, <2>3 DEF Ledger!Purge, Ledger!SetStates, RefreshPurge, Retired
  <2>5. QED
    BY <2>2, <2>4 DEF Ledger!Next
<1>3. ASSUME NEW r \in Requests, RefreshRevoke(r) \/ LogoutRevoke(r)
      PROVE  Ledger!Next \/ session' = session
  <2>1. pc[r] \in {"refresh.revoke", "logout.revoke"} /\ LocalsOf(r)
    BY <1>3 DEF RefreshRevoke, LogoutRevoke, IInv, LocalsOK
  <2>2. ctx[r].sid \in Sids
    BY <2>1, AuthAssumption DEF LocalsOf
  <2>3. QED
    BY <1>3, <2>2, LedgerRevoke DEF RefreshRevoke, LogoutRevoke
<1>4. ASSUME NEW r \in Requests, Arrive(r) PROVE Ledger!Next \/ session' = session
  BY <1>1, <1>4 DEF Arrive, RegisterLookup, Login, RefreshRead, Stolen, HasRow, LogoutRead
<1>5. ASSUME NEW r \in Requests, Resume(r) PROVE Ledger!Next \/ session' = session
  BY <1>2, <1>3, <1>5, LedgerIssue DEF Resume, RegisterCreate
<1>6. QED
  BY <1>4, <1>5 DEF Next, Abort, Expire, vars

(* The interleaved handlers implement the ledger of atomic operations. *)
THEOREM HandlersImplementLedger == Spec => ImplementsLedger
BY LedgerInit, LedgerStep, Invariance, PTL DEF Spec, ImplementsLedger, Ledger!Spec

-----------------------------------------------------------------------------
(* AccessTokens: the invariant still holds.  A step is a step of AuthSessions, *)
(* a logout-all of the user that the guard admitted, or it leaves the sessions *)
(* alone.  Then: who is signed out everywhere stays signed out, and what the   *)
(* documentation promises of a family is kept for every family that is not     *)
(* raced (UnracedFamilies).                                                    *)

AccessInv == IInv /\ lapsed \in SUBSET Sids /\ gate \in [Requests -> MaybeUser]

(* A step that leaves the sessions and their handlers alone. *)
LEMMA ReplyOnly ==
    ASSUME IInv, UNCHANGED <<account, session, expired, pc, ctx, hist>>, reply' \in Outcome
    PROVE  IInv'
BY DEF hist, IInv, TypeOK, UniqueAccount, LineageOK, LocalsOK, LocalsOf, UsesOK, UsesOf,
       DeletionHasCause, Family, Retired

LEMMA LogoutAllInv ==
    ASSUME IInv, NEW r \in Requests, NEW e \in Emails, LogoutAll(r, e)
    PROVE  IInv'
<1>1. uses' \in [Sids -> 0..2]
  BY DEF LogoutAll, FirstUse, Use, IInv, TypeOK
<1>2. session' \in [Sids -> Row]
  BY DEF LogoutAll, Row, SessionState, IInv, TypeOK
<1>3. pc' \in [Requests -> Label] /\ ctx' \in [Requests -> Ctx] /\ reply' \in Outcome
  BY DEF LogoutAll, Answer, Outcome, Label, Ctx, NoCtx, MaybeSid, MaybeUser, IInv, TypeOK
<1>4. TypeOK'
  BY <1>1, <1>2, <1>3 DEF LogoutAll, IInv, TypeOK
<1>5. QED
  BY <1>4, InvLogoutAll

(* The guard admits a user with an account, and a session is a user's. *)
LEMMA AdmittedUser ==
    ASSUME AccessInv, NEW s \in Issued
    PROVE  session[s].user \in Emails
BY DEF AccessInv, Issued, IInv, LineageOK

LEMMA AccessInitInv == AccessInit => AccessInv
BY InvInit DEF AccessInit, AccessInv, MaybeUser

LEMMA AccessStepInv == AccessInv /\ [AccessNext]_accessVars => AccessInv'
<1> SUFFICES ASSUME AccessInv, [AccessNext]_accessVars PROVE AccessInv'
  OBVIOUS
<1> USE DEF AccessInv
<1>1. ASSUME NEW r \in Requests, Public(r) PROVE AccessInv'
  BY <1>1, InvStep DEF Public, Next
<1>2. ASSUME NEW r \in Requests, LogoutAllOf(r) PROVE AccessInv'
  <2>1. gate[r] \in Emails
    BY <1>2 DEF LogoutAllOf, MaybeUser
  <2>2. QED
    BY <1>2, <2>1, LogoutAllInv DEF LogoutAllOf, MaybeUser
<1>3. ASSUME NEW r \in Requests, Serve(r) PROVE AccessInv'
  BY <1>3, ReplyOnly DEF Serve, Outcome, MaybeUser
<1>4. ASSUME NEW r \in Requests, NEW s \in Sids \cup {NoOne}, Authenticate(r, s) PROVE AccessInv'
  <2>1. Verifies(s) => session[s].user \in MaybeUser
    BY AdmittedUser DEF Verifies, MaybeUser
  <2>2. QED
    BY <1>4, <2>1, ReplyOnly DEF Authenticate, Outcome, MaybeUser
<1>5. ASSUME NEW s \in Sids, Lapse(s) PROVE AccessInv'
  BY <1>5, InvStep DEF Lapse
<1>6. ASSUME NEW s \in Sids, ExpireSession(s) PROVE AccessInv'
  BY <1>6, InvStep DEF ExpireSession, Next
<1>7. CASE UNCHANGED accessVars
  BY <1>7, InvStep DEF accessVars
<1>8. QED
  BY <1>1, <1>2, <1>3, <1>4, <1>5, <1>6, <1>7 DEF AccessNext

(* The inductive invariant of the sessions also holds behind the guard. *)
THEOREM AccessInvariance == AccessSpec => []AccessInv
BY AccessInitInv, AccessStepInv, PTL DEF AccessSpec

-----------------------------------------------------------------------------
(* Where the presence of a user in the next state comes from. *)

(* A user who may act through a session, through its access token, or through *)
(* a handler.                                                                 *)
HasSession(e) ==
    \E s \in Sids : session[s].user = e /\ (session[s].state = "live" \/ s \in Issued \ lapsed)
Enters(r, e) == ctx[r].user = e /\ pc[r] \in {"register.create", "refresh.revoke", "issue"}

LEMMA PresentParts ==
    ASSUME NEW e
    PROVE  Present(e) <=> HasSession(e) \/ \E r \in Requests : gate[r] = e \/ Enters(r, e)
BY DEF Present, HasSession, Enters

(* Rows that only advance, and tokens that only lapse, bring nobody back. *)
LEMMA AdvanceKeeps ==
    ASSUME IInv, Advance, lapsed \subseteq lapsed', NEW e \in Emails, HasSession(e)'
    PROVE  HasSession(e)
<1>1. PICK s \in Sids : /\ session'[s].user = e
                        /\ session'[s].state = "live" \/ s \in Issued' \ lapsed'
  BY DEF HasSession
<1>2. session[s].user = e /\ (session'[s].state = "none" <=> session[s].state = "none")
  BY <1>1 DEF Advance
<1>3. session'[s].state = "live" => session[s].state = "live"
  BY DEF Advance, Retired, IInv, TypeOK, Row, SessionState
<1>4. s \in Issued' \ lapsed' => s \in Issued \ lapsed
  BY <1>2 DEF Issued
<1>5. QED
  BY <1>1, <1>2, <1>3, <1>4 DEF HasSession

(* The session that a handler creates belongs to a user who was entering. *)
LEMMA IssueKeeps ==
    ASSUME IInv, NEW r \in Requests, IssueTokenPair(r), lapsed \subseteq lapsed',
           NEW e \in Emails, HasSession(e)'
    PROVE  HasSession(e) \/ Enters(r, e)
<1>1. PICK n \in Free : session' = [session EXCEPT ![n] = NewRow(r, n)]
  BY DEF IssueTokenPair
<1>2. n \in Sids /\ session'[n].user = ctx[r].user
  BY <1>1 DEF Free, NewRow, IInv, TypeOK
<1>3. \A t \in Sids \ {n} : session'[t] = session[t]
  BY <1>1 DEF IInv, TypeOK
<1>4. PICK s \in Sids : /\ session'[s].user = e
                        /\ session'[s].state = "live" \/ s \in Issued' \ lapsed'
  BY DEF HasSession
<1>5. CASE s = n
  BY <1>2, <1>4, <1>5 DEF Enters, IssueTokenPair
<1>6. CASE s # n
  BY <1>3, <1>4, <1>6 DEF HasSession, Issued
<1>7. QED
  BY <1>5, <1>6

(* How a handler gets to the calls after which its user has a session: by a   *)
(* password, by a live session, or because it was there before.               *)
LEMMA EnterStep ==
    ASSUME IInv, [Next]_vars, NEW r \in Requests, NEW e \in Emails, Enters(r, e)'
    PROVE  Enters(r, e) \/ HasSession(e) \/ SignsIn(r, e)
<1> USE DEF IInv, TypeOK
<1>0. e # NoOne
  BY AuthAssumption
<1>1. ASSUME NEW q \in Requests, NEW o, Answer(q, o) PROVE Enters(r, e)
  BY <1>0, <1>1 DEF Answer, NoCtx, Enters
<1>2. ASSUME NEW q \in Requests, NEW l, NEW c, Await(q, l, c), q # r PROVE Enters(r, e)
  BY <1>2 DEF Await, Enters
<1>3. ASSUME NEW d \in Emails, NEW flag \in BOOLEAN, NEW q \in Requests,
             RegisterLookup(q, d, flag) \/ Login(q, d, flag)
      PROVE  Enters(r, e) \/ SignsIn(r, e)
  <2>1. CASE \E o : Answer(q, o)
    BY <1>1, <2>1
  <2>2. CASE q # r /\ \E l, c : Await(q, l, c)
    BY <1>2, <2>2
  <2>3. CASE /\ q = r /\ pc[r] = "idle"
             /\ \E l \in {"register.create", "issue"} : Await(r, l, [NoCtx EXCEPT !.user = d])
    <3>1. pc'[r] \in {"register.create", "issue"} /\ ctx'[r] = [NoCtx EXCEPT !.user = d]
      BY <2>3 DEF Await
    <3>2. d = e
      BY <3>1 DEF Enters, NoCtx
    <3>3. QED
      BY <2>3, <3>1, <3>2 DEF SignsIn
  <2>4. QED
    BY <1>3, <2>1, <2>2, <2>3 DEF RegisterLookup, Login
<1>4. ASSUME NEW s \in Issued \cup {NoOne}, NEW valid \in BOOLEAN, NEW q \in Requests,
             RefreshRead(q, s, valid)
      PROVE  Enters(r, e) \/ HasSession(e)
  <2> DEFINE locals == [user |-> session[s].user, family |-> session[s].family, sid |-> s]
  <2>1. CASE \E o : Answer(q, o)
    BY <1>1, <2>1
  <2>2. CASE q # r /\ \E l, c : Await(q, l, c)
    BY <1>2, <2>2
  <2>3. CASE q = r /\ Await(r, "refresh.purge", locals)
    BY <2>3 DEF Await, Enters
  <2>4. CASE q = r /\ s \in Sids /\ HasRow(s) /\ ~Stolen(s) /\ Await(r, "refresh.revoke", locals)
    <3>1. session[s].state = "live"
      BY <2>4 DEF HasRow, Stolen
    <3>2. session[s].user = e
      BY <2>4 DEF Await, Enters
    <3>3. QED
      BY <2>4, <3>1, <3>2 DEF HasSession
  <2>5. QED
    BY <1>4, <2>1, <2>2, <2>3, <2>4 DEF RefreshRead
<1>5. ASSUME NEW s \in Issued \cup {NoOne}, NEW valid \in BOOLEAN, NEW q \in Requests,
             LogoutRead(q, s, valid)
      PROVE  Enters(r, e)
  <2>1. CASE \E o : Answer(q, o)
    BY <1>1, <2>1
  <2>2. CASE \E c : Await(q, "logout.revoke", c)
    BY <2>2 DEF Await, Enters
  <2>3. QED
    BY <1>5, <2>1, <2>2 DEF LogoutRead
<1>6. ASSUME NEW q \in Requests, Arrive(q) PROVE Enters(r, e) \/ HasSession(e) \/ SignsIn(r, e)
  <2>1. ASSUME NEW d \in Emails, LogoutAll(q, d) PROVE Enters(r, e)
    BY <1>1, <2>1 DEF LogoutAll
  <2>2. QED
    BY <1>3, <1>4, <1>5, <1>6, <2>1 DEF Arrive
<1>7. ASSUME NEW q \in Requests, Resume(q) PROVE Enters(r, e)
  <2>1. CASE \E o : Answer(q, o)
    BY <1>1, <2>1
  <2>2. CASE /\ pc[q] \in {"register.create", "refresh.revoke"}
             /\ Await(q, "issue", ctx[q])
    BY <2>2 DEF Await, Enters
  <2>3. QED
    BY <1>7, <2>1, <2>2
       DEF Resume, RegisterCreate, RefreshPurge, RefreshRevoke, IssueTokenPair, LogoutRevoke
<1>8. CASE pc' = pc /\ ctx' = ctx
  BY <1>8 DEF Enters
<1>9. QED
  BY <1>1, <1>6, <1>7, <1>8 DEF Next, Abort, Expire, vars

LEMMA StaysOutStep ==
    ASSUME AccessInv, [AccessNext]_accessVars, NEW e \in Emails, Present(e)'
    PROVE  Present(e) \/ \E r \in Requests : SignsIn(r, e)
<1> USE DEF AccessInv
<1>0. e # NoOne /\ lapsed \subseteq lapsed'
  BY AuthAssumption DEF AccessNext, Public, LogoutAllOf, Serve, Authenticate, Lapse, ExpireSession,
     accessVars
(* The guard admits whom a session's token names. *)
<1>1. ASSUME NEW r \in Requests, gate'[r] = e PROVE Present(e)
  <2>1. CASE gate[r] = e
    BY <2>1 DEF Present
  <2>2. CASE gate[r] # e
    <3>1. PICK s \in Sids : Verifies(s) /\ session[s].user = e
      BY <1>0, <1>1, <2>2 DEF AccessNext, Public, LogoutAllOf, Serve, Authenticate, Lapse,
         ExpireSession, accessVars, Verifies, Issued
    <3>2. QED
      BY <3>1 DEF Verifies, Present
  <2>3. QED
    BY <2>1, <2>2
<1>2. CASE [Next]_vars
  <2>1. ASSUME HasSession(e)' PROVE Present(e)
    <3>1. HasSession(e) \/ \E r \in Requests : Enters(r, e)
      BY <1>0, <1>2, <2>1, TableStep, AdvanceKeeps, IssueKeeps
    <3>2. QED
      BY <3>1, PresentParts
  <2>2. ASSUME NEW r \in Requests, Enters(r, e)' PROVE Present(e) \/ SignsIn(r, e)
    BY <1>2, <2>2, EnterStep, PresentParts
  <2>3. QED
    BY <1>1, <2>1, <2>2 DEF Present, HasSession, Enters
<1>3. ASSUME NEW r \in Requests, NEW d \in Emails, LogoutAll(r, d)
      PROVE  Present(e)
  <2>1. HasSession(e)' => HasSession(e)
    BY <1>0, <1>3, LogoutAllAdvances, AdvanceKeeps
  <2>2. \A q \in Requests : Enters(q, e)' => Enters(q, e)
    BY <1>0, <1>3 DEF LogoutAll, Answer, NoCtx, Enters, IInv, TypeOK
  <2>3. QED
    BY <1>1, <2>1, <2>2 DEF Present, HasSession, Enters
<1>4. CASE UNCHANGED <<session, pc, ctx>>
  <2>1. HasSession(e)' => HasSession(e)
    BY <1>0, <1>4, SameTable, AdvanceKeeps
  <2>2. \A q \in Requests : Enters(q, e)' => Enters(q, e)
    BY <1>4 DEF Enters
  <2>3. QED
    BY <1>1, <2>1, <2>2 DEF Present, HasSession, Enters
<1>5. ASSUME NEW r \in Requests, LogoutAllOf(r) PROVE Present(e)
  BY <1>3, <1>5 DEF LogoutAllOf, MaybeUser
<1>6. ASSUME NEW r \in Requests, Public(r) PROVE [Next]_vars
  BY <1>6 DEF Public, Next
<1>7. ASSUME NEW s \in Sids, Lapse(s) \/ ExpireSession(s) PROVE [Next]_vars
  BY <1>7 DEF Lapse, ExpireSession, Next
<1>8. QED
  BY <1>2, <1>4, <1>5, <1>6, <1>7 DEF AccessNext, Serve, Authenticate, accessVars, vars

(* A user who is signed out everywhere, access tokens included, is signed in   *)
(* again only by a password or by registering: no kept token and no handler    *)
(* that was under way brings anyone back.                                      *)
THEOREM LockedOutUsersStayOut == AccessSpec => LockedOutStaysOut
<1>1. AccessInv /\ [AccessNext]_accessVars =>
        [\A e \in Emails : Present(e)' =>
            Present(e) \/ \E r \in Requests : SignsIn(r, e)]_accessVars
  BY StaysOutStep
<1>2. QED
  BY <1>1, AccessInvariance, PTL DEF AccessSpec, LockedOutStaysOut

-----------------------------------------------------------------------------
(* The promises to families that are not raced.  Their one handler has read a *)
(* row that is still the only live one (AliveOnly), or has retired it; after  *)
(* an answered reuse or logout-all the family is dead, which it stays.        *)

AtMostOne(S) == \A x, y \in S : x = y
Alive(f) == {s \in Family(f) : session[s].state = "live"}

OneHandler == \A f \in Sids \ raced : AtMostOne(At(f))
OneAlive == \A f \in Sids \ raced : AtMostOne(Alive(f))
AliveOnly ==
    \A f \in Sids \ raced : \A r \in At(f) :
        /\ pc[r] = "refresh.revoke" => Alive(f) \subseteq {ctx[r].sid}
        /\ pc[r] = "issue" => Alive(f) = {}
ReusedIsGone ==
    \A f \in reused \ raced :
        f \in Sids /\ Dead(f) /\ At(f) = {} /\ \A s \in Family(f) : ~HasRow(s)
EndedIsDead == \A f \in ended \ raced : Dead(f)

UnracedInv == OneHandler /\ OneAlive /\ AliveOnly /\ ReusedIsGone /\ EndedIsDead

LEMMA UnracedInit == RacedInit => UnracedInv
<1> SUFFICES ASSUME RacedInit PROVE UnracedInv
  OBVIOUS
<1>1. /\ \A s \in Sids : session[s].state = "none"
      /\ \A r \in Requests : ctx[r].family = NoOne
      /\ reused = {} /\ ended = {}
  BY DEF RacedInit, AccessInit, Init, NoRow, NoCtx
<1>2. \A f \in Sids : At(f) = {} /\ Alive(f) = {}
  BY <1>1, AuthAssumption DEF At, Alive, Family
<1>3. QED
  BY <1>1, <1>2
     DEF UnracedInv, OneHandler, OneAlive, AliveOnly, ReusedIsGone, EndedIsDead, AtMostOne

(* The steps that matter to the families: those of AuthSessions, and the      *)
(* logout-all behind the guard.                                               *)
SessionStep == [Next]_vars \/ \E q \in Requests, e \in Emails : LogoutAll(q, e)

LEMMA AccessStepKinds ==
    ASSUME AccessInv, [AccessNext]_accessVars
    PROVE  SessionStep \/ UNCHANGED <<session, pc, ctx, reused, ended>>
<1>1. ASSUME NEW r \in Requests, Public(r) PROVE SessionStep
  BY <1>1 DEF Public, Next, SessionStep
<1>2. ASSUME NEW r \in Requests, LogoutAllOf(r) PROVE SessionStep
  <2>1. gate[r] \in Emails
    BY <1>2 DEF LogoutAllOf, AccessInv, MaybeUser
  <2>2. QED
    BY <1>2, <2>1 DEF LogoutAllOf, SessionStep
<1>3. ASSUME NEW s \in Sids, Lapse(s) \/ ExpireSession(s) PROVE SessionStep
  BY <1>3 DEF Lapse, ExpireSession, Next, SessionStep
<1>4. QED
  BY <1>1, <1>2, <1>3 DEF AccessNext, Serve, Authenticate, accessVars, vars, hist

(* How a handler comes to work on family f: it did before, it has read a row  *)
(* of the family, or it has just retired the token it will replace.           *)
Reads(r, f) ==
    /\ session' = session /\ ctx'[r].sid \in Family(f) /\ HasRow(ctx'[r].sid)
    /\ \/ pc'[r] = "refresh.purge"
       \/ pc'[r] = "refresh.revoke" /\ session[ctx'[r].sid].state = "live"
Retires(r) ==
    /\ ctx'[r] = ctx[r] /\ pc[r] = "refresh.revoke" /\ pc'[r] = "issue"
    /\ ctx[r].sid \in Sids /\ session'[ctx[r].sid].state = "revoked"
Stays(r) == ctx'[r] = ctx[r] /\ pc'[r] = pc[r]

LEMMA HandlerOrigin ==
    ASSUME IInv, SessionStep, NEW f \in Sids, NEW r \in Requests, ctx'[r].family = f
    PROVE  Stays(r) \/ Reads(r, f) \/ Retires(r)
<1> USE DEF IInv, TypeOK
<1>0. f # NoOne
  BY AuthAssumption
<1>1. ASSUME NEW q \in Requests, NEW o, Answer(q, o) PROVE Stays(r)
  BY <1>0, <1>1 DEF Answer, NoCtx, Stays
<1>2. ASSUME NEW q \in Requests, NEW l, NEW c, Await(q, l, c), q # r \/ c.family = NoOne
      PROVE  Stays(r)
  BY <1>0, <1>2 DEF Await, Stays
<1>3. /\ \A e : [NoCtx EXCEPT !.user = e].family = NoOne
      /\ \A s : [NoCtx EXCEPT !.sid = s].family = NoOne
  BY DEF NoCtx
<1>4. ASSUME NEW s \in Issued \cup {NoOne}, NEW valid \in BOOLEAN, NEW q \in Requests,
             RefreshRead(q, s, valid)
      PROVE  Stays(r) \/ Reads(r, f)
  <2> DEFINE locals == [user |-> session[s].user, family |-> session[s].family, sid |-> s]
  <2>1. CASE \E o : Answer(q, o)
    BY <1>1, <2>1
  <2>2. CASE q # r /\ \E l, c : Await(q, l, c)
    BY <1>2, <2>2
  <2>3. ASSUME NEW l \in {"refresh.purge", "refresh.revoke"}, s \in Sids, HasRow(s),
               Await(r, l, locals), l = "refresh.revoke" => session[s].state = "live"
        PROVE  Reads(r, f)
    <3>1. ctx'[r].sid = s /\ session[s].family = f /\ pc'[r] = l
      BY <2>3 DEF Await
    <3>2. s \in Family(f)
      BY <2>3, <3>1 DEF Family, HasRow
    <3>3. session' = session
      BY <1>4 DEF RefreshRead
    <3>4. QED
      BY <2>3, <3>1, <3>2, <3>3 DEF Reads
  <2>4. CASE q = r /\ s \in Sids /\ HasRow(s) /\ Await(r, "refresh.purge", locals)
    BY <2>3, <2>4
  <2>5. CASE q = r /\ s \in Sids /\ HasRow(s) /\ ~Stolen(s) /\ Await(r, "refresh.revoke", locals)
    <3>1. session[s].state = "live"
      BY <2>5 DEF HasRow, Stolen
    <3>2. QED
      BY <2>3, <2>5, <3>1
  <2>6. QED
    BY <1>4, <2>1, <2>2, <2>4, <2>5 DEF RefreshRead
<1>5. ASSUME NEW q \in Requests, Arrive(q) PROVE Stays(r) \/ Reads(r, f)
  <2>1. ASSUME NEW e \in Emails, NEW flag \in BOOLEAN,
               RegisterLookup(q, e, flag) \/ Login(q, e, flag) \/ LogoutAll(q, e)
        PROVE  Stays(r)
    BY <1>1, <1>2, <1>3, <2>1 DEF RegisterLookup, Login, LogoutAll
  <2>2. ASSUME NEW s \in Issued \cup {NoOne}, NEW valid \in BOOLEAN, LogoutRead(q, s, valid)
        PROVE  Stays(r)
    BY <1>1, <1>2, <1>3, <2>2 DEF LogoutRead
  <2>3. QED
    BY <1>4, <1>5, <2>1, <2>2 DEF Arrive
<1>6. ASSUME NEW q \in Requests, Resume(q) PROVE Stays(r) \/ Retires(r)
  <2>1. CASE \E o : Answer(q, o)
    BY <1>1, <2>1
  <2>2. CASE q # r /\ \E l, c : Await(q, l, c)
    BY <1>2, <2>2
  <2>3. CASE q = r /\ RegisterCreate(r) /\ Await(r, "issue", ctx[r])
    <3>1. LocalsOf(r) /\ pc[r] = "register.create"
      BY <2>3 DEF RegisterCreate, LocalsOK
    <3>2. ctx[r].family = NoOne
      BY <3>1, AuthAssumption DEF LocalsOf
    <3>3. QED
      BY <1>2, <2>3, <3>2
  <2>4. CASE /\ q = r /\ RefreshRevoke(r) /\ Await(r, "issue", ctx[r])
             /\ SetState(ctx[r].sid, "revoked")
    <3>1. ctx'[r] = ctx[r] /\ pc'[r] = "issue" /\ pc[r] = "refresh.revoke"
      BY <2>4 DEF Await, RefreshRevoke
    <3>2. ctx[r].sid \in Sids
      BY <1>0, <3>1 DEF LocalsOK, LocalsOf
    <3>3. session'[ctx[r].sid].state = "revoked"
      BY <2>4, <3>2 DEF SetState, Row
    <3>4. QED
      BY <3>1, <3>2, <3>3 DEF Retires
  <2>5. QED
    BY <1>6, <2>1, <2>2, <2>3, <2>4
       DEF Resume, RegisterCreate, RefreshPurge, RefreshRevoke, IssueTokenPair, LogoutRevoke
<1>7. CASE ctx' = ctx /\ pc' = pc
  BY <1>7 DEF Stays
<1>8. ASSUME NEW q \in Requests, NEW e \in Emails, LogoutAll(q, e) PROVE Stays(r)
  BY <1>1, <1>8 DEF LogoutAll
<1>9. QED
  BY <1>1, <1>5, <1>6, <1>7, <1>8 DEF SessionStep, Next, Abort, Expire, vars

(* What a step does to the rows of a family. *)
LEMMA FamilyStep ==
    ASSUME IInv, SessionStep
    PROVE  Advance \/ \E r \in Requests : IssueTokenPair(r)
BY TableStep, LogoutAllAdvances DEF SessionStep

LEMMA AliveShrinks ==
    ASSUME IInv, Advance, NEW f \in Sids
    PROVE  /\ Alive(f)' \subseteq Alive(f) /\ Family(f)' = Family(f)
           /\ \A s \in Family(f) : ~HasRow(s) => ~HasRow(s)'
<1>1. Family(f)' = Family(f)
  BY DEF Family, Advance
<1>2. \A s \in Sids : session[s] \in Row /\ session'[s].state = "live" => session[s].state = "live"
  BY DEF Advance, Retired, IInv, TypeOK, Row, SessionState
<1>3. \A s \in Sids : session[s].state \in SessionState
  BY DEF IInv, TypeOK, Row
<1>4. \A s \in Family(f) : ~HasRow(s) => ~HasRow(s)'
  BY <1>3 DEF HasRow, Family, Advance, SessionState
<1>5. Alive(f)' \subseteq Alive(f)
  BY <1>1, <1>2 DEF Alive, IInv, TypeOK, Family
<1>6. QED
  BY <1>1, <1>4, <1>5

(* A new session joins the family its handler works for, or opens one of its  *)
(* own, for which nobody worked before.                                       *)
LEMMA AliveGrows ==
    ASSUME IInv, NEW r \in Requests, IssueTokenPair(r), NEW f \in Sids
    PROVE  \/ Family(f)' = Family(f) /\ Alive(f)' = Alive(f)
              /\ \A s \in Family(f) : HasRow(s)' <=> HasRow(s)
           \/ ctx[r].family = f /\ \E n : Alive(f)' = Alive(f) \cup {n}
           \/ session[f].state = "none" /\ At(f) = {} /\ AtMostOne(Alive(f)')
<1>1. PICK n \in Sids :
          /\ session[n] = NoRow
          /\ \A t \in Sids \ {n} : session'[t] = session[t]
          /\ session'[n].state = "live"
          /\ session'[n].family = IF ctx[r].family = NoOne THEN n ELSE ctx[r].family
  BY IssueAddsRow
<1>2. session[n].state = "none"
  BY <1>1 DEF NoRow
<1>3. CASE session'[n].family # f
  <2>1. Family(f)' = Family(f)
    BY <1>1, <1>2, <1>3 DEF Family
  <2>2. n \notin Family(f)
    BY <1>2 DEF Family
  <2>3. \A s \in Family(f) : session'[s] = session[s]
    BY <1>1, <2>2 DEF Family
  <2>4. QED
    BY <2>1, <2>3 DEF Alive, HasRow
<1>4. CASE ctx[r].family = f
  <2>1. session'[n].family = f
    BY <1>1, <1>4, AuthAssumption
  <2>2. Alive(f)' = Alive(f) \cup {n}
    BY <1>1, <1>2, <2>1 DEF Alive, Family
  <2>3. QED
    BY <1>4, <2>2
<1>5. CASE session'[n].family = f /\ ctx[r].family # f
  <2>1. f = n
    BY <1>1, <1>5
  <2>2. \A t \in Sids : session[t].state # "none" => session[t].family # f
    BY <1>2, <2>1 DEF IInv, LineageOK
  <2>3. AtMostOne(Alive(f)')
    BY <1>1, <2>1, <2>2 DEF Alive, Family, AtMostOne
  <2>4. At(f) = {}
    <3> SUFFICES ASSUME NEW q \in Requests, ctx[q].family = f PROVE FALSE
      BY DEF At
    <3>1. f # NoOne
      BY AuthAssumption
    <3>2. ctx[q].sid \in Sids /\ session[ctx[q].sid].state # "none" /\ session[ctx[q].sid].family = f
      BY <3>1 DEF IInv, LocalsOK, LocalsOf
    <3>3. QED
      BY <2>2, <3>2
  <2>5. QED
    BY <1>2, <2>1, <2>3, <2>4
<1>6. QED
  BY <1>3, <1>4, <1>5

LEMMA DeadStays ==
    ASSUME IInv, SessionStep, NEW f \in Sids, Dead(f)
    PROVE  Dead(f)'
<1>1. CASE [Next]_vars
  BY <1>1, DeadStep
<1>2. ASSUME NEW q \in Requests, NEW e \in Emails, LogoutAll(q, e) PROVE Dead(f)'
  <2>1. Advance
    BY <1>2, LogoutAllAdvances
  <2>2. Alive(f)' \subseteq Alive(f) /\ Family(f)' = Family(f)
    BY <2>1, AliveShrinks
  <2>3. session'[f].state # "none"
    BY <2>1 DEF Advance, Dead
  <2>4. f # NoOne
    BY AuthAssumption
  <2>5. \A r \in Requests : ctx'[r].family = f => pc'[r] = "refresh.purge"
    BY <1>2, <2>4 DEF LogoutAll, Answer, NoCtx, Dead, IInv, TypeOK
  <2>6. QED
    BY <2>2, <2>3, <2>5 DEF Dead, Alive
<1>3. QED
  BY <1>1, <1>2 DEF SessionStep

-----------------------------------------------------------------------------
(* The promises, step by step. *)

(* Whoever works on a family alone does so also in the next state, or nobody  *)
(* did before.                                                                *)
LEMMA OneHandlerStep ==
    ASSUME AccessInv', raced' = raced \cup {f \in Sids : Cardinality(At(f)') > 1}
                              \cup {f \in ended' : ended' # ended /\ At(f) # {}}
    PROVE  OneHandler'
<1> SUFFICES ASSUME NEW f \in Sids, f \notin raced' PROVE AtMostOne(At(f)')
  BY DEF OneHandler
<1> DEFINE S == At(f)'
<1>1. ~(Cardinality(S) > 1)
  OBVIOUS
<1>2. IsFiniteSet(S)
  BY AuthAssumption, FS_Subset DEF At
<1> HIDE DEF S
<1>3. Cardinality(S) \in Nat
  BY <1>2, FS_CardinalityType
<1>4. Cardinality(S) = 0 \/ Cardinality(S) = 1
  BY <1>1, <1>3
<1>5. S = {} \/ \E x : S = {x}
  BY <1>2, <1>4, FS_EmptySet, FS_Singleton
<1>6. QED
  BY <1>5 DEF AtMostOne, S

LEMMA OneAliveStep ==
    ASSUME IInv, UnracedInv, SessionStep, raced \subseteq raced'
    PROVE  OneAlive'
<1> SUFFICES ASSUME NEW f \in Sids, f \notin raced' PROVE AtMostOne(Alive(f)')
  BY DEF OneAlive
<1>1. AtMostOne(Alive(f))
  BY DEF UnracedInv, OneAlive
<1>2. CASE Advance
  BY <1>1, <1>2, AliveShrinks DEF AtMostOne
<1>3. ASSUME NEW r \in Requests, IssueTokenPair(r) PROVE AtMostOne(Alive(f)')
  <2>1. ASSUME ctx[r].family = f, NEW n, Alive(f)' = Alive(f) \cup {n} PROVE AtMostOne(Alive(f)')
    <3>1. Alive(f) = {}
      BY <1>3, <2>1 DEF UnracedInv, AliveOnly, At, IssueTokenPair
    <3>2. QED
      BY <2>1, <3>1 DEF AtMostOne
  <2>2. QED
    BY <1>1, <1>3, <2>1, AliveGrows
<1>4. QED
  BY <1>2, <1>3, FamilyStep

LEMMA AliveOnlyStep ==
    ASSUME IInv, UnracedInv, SessionStep, raced \subseteq raced'
    PROVE  AliveOnly'
<1> SUFFICES ASSUME NEW f \in Sids, f \notin raced', NEW r \in Requests, ctx'[r].family = f
             PROVE  /\ pc'[r] = "refresh.revoke" => Alive(f)' \subseteq {ctx'[r].sid}
                    /\ pc'[r] = "issue" => Alive(f)' = {}
  BY DEF AliveOnly, At
<1>1. AtMostOne(Alive(f)) /\ AtMostOne(At(f))
  BY DEF UnracedInv, OneAlive, OneHandler
<1>2. CASE Reads(r, f)
  <2>1. Alive(f)' = Alive(f) /\ pc'[r] # "issue"
    BY <1>2 DEF Reads, Alive, Family
  <2>2. pc'[r] = "refresh.revoke" => ctx'[r].sid \in Alive(f)
    BY <1>2 DEF Reads, Alive
  <2>3. QED
    BY <1>1, <2>1, <2>2 DEF AtMostOne
<1>3. CASE Stays(r) \/ Retires(r)
  <2>1. /\ pc[r] = "refresh.revoke" => Alive(f) \subseteq {ctx[r].sid}
        /\ pc[r] = "issue" => Alive(f) = {}
        /\ r \in At(f) /\ ctx'[r] = ctx[r]
    BY <1>3 DEF UnracedInv, AliveOnly, At, Stays, Retires
  <2>2. CASE Advance
    <3>1. Alive(f)' \subseteq Alive(f)
      BY <2>2, AliveShrinks
    <3>2. Retires(r) => ctx[r].sid \notin Alive(f)'
      BY DEF Retires, Alive
    <3>3. QED
      BY <1>3, <2>1, <3>1, <3>2 DEF Stays, Retires
  <2>3. ASSUME NEW q \in Requests, IssueTokenPair(q)
        PROVE  /\ pc'[r] = "refresh.revoke" => Alive(f)' \subseteq {ctx'[r].sid}
               /\ pc'[r] = "issue" => Alive(f)' = {}
    <3>1. q # r
      <4>1. CASE q = r
        <5>1. ctx'[r] = NoCtx
          BY <2>3, <4>1 DEF IssueTokenPair, Answer, IInv, TypeOK
        <5>2. QED
          BY <5>1, AuthAssumption DEF NoCtx
      <4>2. QED
        BY <4>1
    <3>2. ctx[q].family # f
      BY <1>1, <2>1, <3>1 DEF AtMostOne, At
    <3>3. pc'[r] = pc[r]
      BY <2>3, <3>1 DEF IssueTokenPair, Answer, IInv, TypeOK
    <3>4. Alive(f)' = Alive(f)
      BY <2>1, <2>3, <3>2, AliveGrows
    <3>5. QED
      BY <2>1, <3>3, <3>4
  <2>4. QED
    BY <2>2, <2>3, FamilyStep
<1>4. QED
  BY <1>2, <1>3, HandlerOrigin

(* Which steps add to the two histories. *)
LEMMA HistorySteps ==
    ASSUME SessionStep
    PROVE  /\ reused' = reused \/ \E q \in Requests : RefreshPurge(q)
           /\ ended' = ended \/ \E q \in Requests, e \in Emails : LogoutAll(q, e)
<1>1. ASSUME NEW q \in Requests, Arrive(q)
      PROVE  reused' = reused /\ (ended' = ended \/ \E e \in Emails : LogoutAll(q, e))
  BY <1>1 DEF Arrive, RegisterLookup, Login, RefreshRead, LogoutRead, LogoutAll, hist
<1>2. ASSUME NEW q \in Requests, Resume(q)
      PROVE  ended' = ended /\ (reused' = reused \/ RefreshPurge(q))
  BY <1>2 DEF Resume, RegisterCreate, RefreshPurge, RefreshRevoke, IssueTokenPair, LogoutRevoke, hist
<1>3. QED
  BY <1>1, <1>2 DEF SessionStep, Next, Abort, Expire, LogoutAll, vars, hist

(* After an answered reuse the family has no row, and nobody works on it who  *)
(* could add one: a handler that looks for a row of the family finds none.    *)
LEMMA GoneStays ==
    ASSUME IInv, SessionStep, NEW f \in Sids, Dead(f), At(f) = {}, \A s \in Family(f) : ~HasRow(s)
    PROVE  Dead(f)' /\ At(f)' = {} /\ (\A s \in Family(f) : ~HasRow(s))'
<1>1. Dead(f)'
  BY DeadStays
<1>2. ASSUME NEW r \in Requests, ctx'[r].family = f PROVE FALSE
  BY <1>2, HandlerOrigin DEF At, Stays, Reads, Retires
<1>3. At(f)' = {}
  BY <1>2 DEF At
<1>4. ASSUME Advance PROVE \A s \in Family(f)' : ~HasRow(s)'
  <2>1. Family(f)' = Family(f) /\ \A s \in Family(f) : ~HasRow(s) => ~HasRow(s)'
    BY <1>4, AliveShrinks
  <2>2. QED
    BY <2>1
<1>5. ASSUME NEW q \in Requests, IssueTokenPair(q)
      PROVE  \A s \in Family(f)' : ~HasRow(s)'
  BY <1>5, AliveGrows DEF At, Dead
<1>6. QED
  BY <1>1, <1>3, <1>4, <1>5, FamilyStep

LEMMA ReusedIsGoneStep ==
    ASSUME IInv, UnracedInv, OneHandler', SessionStep, raced \subseteq raced'
    PROVE  ReusedIsGone'
<1> SUFFICES ASSUME NEW f \in reused', f \notin raced'
             PROVE  f \in Sids /\ Dead(f)' /\ At(f)' = {} /\ (\A s \in Family(f) : ~HasRow(s))'
  BY DEF ReusedIsGone
<1>1. CASE f \in reused
  BY <1>1, GoneStays DEF UnracedInv, ReusedIsGone
<1>2. ASSUME NEW q \in Requests, RefreshPurge(q), f \notin reused
      PROVE  f \in Sids /\ Dead(f)' /\ At(f)' = {} /\ (\A s \in Family(f) : ~HasRow(s))'
  <2>1. f = ctx[q].family /\ LocalsOf(q) /\ pc[q] = "refresh.purge"
    BY <1>2 DEF RefreshPurge, IInv, LocalsOK
  <2>2. f \in Sids /\ ctx[q].sid \in Family(f)
    BY <1>2, <2>1, PurgeAdvances, AuthAssumption DEF LocalsOf
  <2>3. At(f) = {q}
    BY <2>1, <2>2 DEF UnracedInv, OneHandler, AtMostOne, At
  <2>4. \A r \in Requests : ctx'[r] = IF r = q THEN NoCtx ELSE ctx[r]
    BY <1>2 DEF RefreshPurge, Answer, IInv, TypeOK
  <2>5. At(f)' = {}
    BY <2>2, <2>3, <2>4, AuthAssumption DEF At, NoCtx
  <2>6. Advance /\ \A t \in Family(f) : session'[t].state = "deleted"
    BY <1>2, <2>1, PurgeAdvances DEF Family
  <2>7. Family(f)' = Family(f)
    BY <2>2, <2>6, AliveShrinks
  <2>8. session'[f].state # "none"
    BY <2>2, <2>6 DEF IInv, LineageOK, Family, Advance
  <2>9. Dead(f)'
    BY <2>5, <2>6, <2>7, <2>8 DEF Dead, At
  <2>10. QED
    BY <2>2, <2>5, <2>6, <2>7, <2>9 DEF HasRow
<1>3. QED
  BY <1>1, <1>2, HistorySteps

LEMMA EndedIsDeadStep ==
    ASSUME IInv, UnracedInv, SessionStep, ended' \in SUBSET Sids,
           raced' = raced \cup {f \in Sids : Cardinality(At(f)') > 1}
                          \cup {f \in ended' : ended' # ended /\ At(f) # {}}
    PROVE  EndedIsDead'
<1> SUFFICES ASSUME NEW f \in ended', f \notin raced' PROVE Dead(f)'
  BY DEF EndedIsDead
<1>1. CASE f \in ended
  BY <1>1, DeadStays DEF UnracedInv, EndedIsDead
<1>2. ASSUME NEW q \in Requests, NEW e \in Emails, LogoutAll(q, e), f \notin ended PROVE Dead(f)'
  <2>1. At(f) = {}
    BY <1>2
  <2>2. f \in Sids /\ session[f].family = f /\ session[f].user = e
    BY <1>2 DEF LogoutAll
  <2>3. f # NoOne
    BY AuthAssumption
  <2>4. \A r \in Requests : ctx'[r].family # f
    BY <1>2, <2>1, <2>3 DEF LogoutAll, Answer, NoCtx, At, IInv, TypeOK
  <2>5. Advance
    BY <1>2, LogoutAllAdvances
  <2>6. \A s \in Family(f) : session[s].user = e
    BY <2>2 DEF Family, IInv, LineageOK
  <2>7. \A s \in Family(f) : session'[s].state # "live"
    BY <1>2, <2>6 DEF LogoutAll, Family, IInv, TypeOK, Row
  <2>8. Family(f)' = Family(f)
    BY <2>2, <2>5, AliveShrinks
  <2>9. session'[f].state # "none"
    BY <2>2, <2>3, <2>5 DEF Advance, IInv, LineageOK, NoRow
  <2>10. QED
    BY <2>4, <2>7, <2>8, <2>9 DEF Dead
<1>3. QED
  BY <1>1, <1>2, HistorySteps

LEMMA UnracedStep ==
    ASSUME AccessInv, UnracedInv, [RacedNext]_<<accessVars, raced>>
    PROVE  UnracedInv'
<1>1. AccessInv' /\ IInv
  BY AccessStepInv DEF RacedNext, AccessInv, accessVars
<1>2. CASE UNCHANGED <<session, pc, ctx, reused, ended, raced>>
  BY <1>2 DEF UnracedInv, OneHandler, OneAlive, AliveOnly, ReusedIsGone, EndedIsDead,
              AtMostOne, At, Alive, Family, Dead, HasRow
<1>3. CASE RacedNext
  <2>1. /\ raced' = raced \cup {f \in Sids : Cardinality(At(f)') > 1}
                          \cup {f \in ended' : ended' # ended /\ At(f) # {}}
        /\ raced \subseteq raced'
    BY <1>3 DEF RacedNext
  <2>2. OneHandler'
    BY <1>1, <2>1, OneHandlerStep
  <2>3. CASE SessionStep
    <3>1. ended' \in SUBSET Sids
      BY <1>1 DEF AccessInv, IInv, TypeOK
    <3>2. OneAlive' /\ AliveOnly'
      BY <1>1, <2>1, <2>3, OneAliveStep, AliveOnlyStep
    <3>3. ReusedIsGone'
      BY <1>1, <2>1, <2>2, <2>3, ReusedIsGoneStep
    <3>4. EndedIsDead'
      BY <1>1, <2>1, <2>3, <3>1, EndedIsDeadStep
    <3>5. QED
      BY <2>2, <3>2, <3>3, <3>4 DEF UnracedInv
  <2>4. CASE UNCHANGED <<session, pc, ctx, reused, ended>>
    BY <2>1, <2>2, <2>4 DEF UnracedInv, OneHandler, OneAlive, AliveOnly, ReusedIsGone, EndedIsDead,
              AtMostOne, At, Alive, Family, Dead, HasRow
  <2>5. QED
    BY <1>3, <2>3, <2>4, AccessStepKinds DEF RacedNext
<1>4. QED
  BY <1>2, <1>3 DEF accessVars, vars, hist

LEMMA UnracedInvariance == RacedSpec => [](AccessInv /\ UnracedInv)
<1>1. RacedInit => AccessInv /\ UnracedInv
  BY AccessInitInv, UnracedInit DEF RacedInit
<1>2. AccessInv /\ UnracedInv /\ [RacedNext]_<<accessVars, raced>> => (AccessInv /\ UnracedInv)'
  BY AccessStepInv, UnracedStep DEF RacedNext, accessVars
<1>3. QED
  BY <1>1, <1>2, PTL DEF RacedSpec

(* A family whose handlers never overlap has at most one usable refresh token: *)
(* refresh retires the token it was given before it issues the next one.       *)
THEOREM RotationsAreExclusive == RacedSpec => []RotationIsExclusive
<1>1. UnracedInv => RotationIsExclusive
  <2> SUFFICES ASSUME UnracedInv, NEW f \in Sids \ raced PROVE Cardinality(Alive(f)) <= 1
    BY DEF RotationIsExclusive, Alive
  <2>1. AtMostOne(Alive(f))
    BY DEF UnracedInv, OneAlive
  <2>2. Alive(f) = {} \/ \E x : Alive(f) = {x}
    BY <2>1 DEF AtMostOne
  <2>3. Cardinality({}) = 0 /\ \A x : Cardinality({x}) = 1
    BY FS_EmptySet, FS_Singleton, Zenon
  <2>4. Cardinality(Alive(f)) \in {0, 1}
    BY <2>2, <2>3
  <2>5. QED
    BY <2>4
<1>2. QED
  BY <1>1, UnracedInvariance, PTL

(* A reuse answered with 401 leaves nothing of a family whose handlers never   *)
(* overlap, and nothing of it ever comes back.                                 *)
THEOREM ReusesAreFinal == RacedSpec => []ReuseIsFinal
<1>1. UnracedInv => ReuseIsFinal
  BY DEF UnracedInv, ReusedIsGone, ReuseIsFinal
<1>2. QED
  BY <1>1, UnracedInvariance, PTL

(* An answered logout-all leaves no usable refresh token in any family it found *)
(* with no refresh under way and whose handlers never overlap, for good.        *)
THEOREM LogoutAllsAreFinal == RacedSpec => []LogoutAllIsFinal
<1>1. UnracedInv => LogoutAllIsFinal
  BY DEF UnracedInv, EndedIsDead, LogoutAllIsFinal, Dead
<1>2. QED
  BY <1>1, UnracedInvariance, PTL
=============================================================================
