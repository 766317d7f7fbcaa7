-------------------------- MODULE ChatSessionsProofs --------------------------
(***************************************************************************)
(* Theorems about ChatSessions, for any sessions, turns and times: replies *)
(* stay with their questions, an outage of the assistant never ends a turn *)
(* with an error, and lastActiveAt keeps up where turns do not overlap.    *)
(*                                                                         *)
(* The log says nothing of the calls a turn waits for, so the invariant    *)
(* ties the two together: PlacesOK says which messages of a turn are in    *)
(* the log at each of its calls, MessagesOK that a message belongs to a    *)
(* turn of that session which has got that far.  For lastActiveAt,         *)
(* NeighboursOK says that two turns that are under way in one session have *)
(* been noted as overlapping, and StampOK that without overlap a date that *)
(* was taken is not behind the log.                                        *)
(***************************************************************************)
EXTENDS ChatSessions, TLAPS

USE ChatAssumption

ChatTypeOK ==
    /\ open \subseteq Sessions
    /\ log \in [Sessions -> Seq(Message)]
    /\ lastActiveAt \in [Sessions -> Time]
    /\ clock \in Time
    /\ pc \in [Turns -> {"idle"} \cup InFlight \cup Outcome]
    /\ ctx \in [Turns -> [session : Sessions \cup {"none"}, content : Content, stamp : Time]]
    /\ \A t \in Turns : pc[t] \in InFlight => ctx[t].session \in open
    /\ faulted \in SUBSET Turns /\ malformed \in SUBSET Turns /\ overlapped \in SUBSET Turns

(* What a turn's locals and its end say. *)
LocalsOK ==
    \A t \in Turns :
        /\ ctx[t].content = "undefined" => t \in malformed
        /\ pc[t] = "touch" => ctx[t].stamp <= clock
        /\ t \in overlapped => pc[t] # "idle"

(* Every message is of a turn of its session that has come to its question. *)
Begun == {"idle", "NOT_FOUND", "ask"}
MessagesOK ==
    \A s \in Sessions : \A i \in DOMAIN log[s] :
        /\ log[s][i].at <= clock
        /\ pc[log[s][i].turn] \notin Begun
        /\ ctx[log[s][i].turn].session = s

(* What a turn has in the log, by the call it waits for. *)
PlacesOf(s, t) ==
    /\ \A i, k \in Places(s, t, "user") : i = k
    /\ \A i, k \in Places(s, t, "assistant") : i = k
    /\ \A k \in Places(s, t, "assistant") :
          \E i \in Places(s, t, "user") : i < k /\ log[s][i].at <= log[s][k].at
    /\ Places(s, t, "user") # {} /\ Places(s, t, "assistant") = {} =>
          pc[t] \in {"bot", "reply"} \/ t \in faulted \cup malformed
    /\ pc[t] \in {"bot", "reply"} => Places(s, t, "assistant") = {}
    /\ pc[t] \in {"bot", "reply", "stamp", "touch", "ok"} /\ ctx[t].session = s =>
          Places(s, t, "user") # {}
PlacesOK == \A s \in Sessions, t \in Turns : PlacesOf(s, t)

Crowded(s) == \E t \in overlapped : ctx[t].session = s

(* Two turns under way in one session have been noted. *)
NeighboursOK ==
    \A t, u \in Turns :
        /\ t # u /\ pc[t] \in InFlight /\ pc[u] \in InFlight
        /\ ctx[t].session = ctx[u].session
        => t \in overlapped /\ u \in overlapped

StampOK ==
    \A t \in Turns :
        pc[t] = "touch" /\ ~Crowded(ctx[t].session) =>
            \A i \in DOMAIN log[ctx[t].session] : log[ctx[t].session][i].at <= ctx[t].stamp

TurnInv == ChatTypeOK /\ LocalsOK /\ MessagesOK /\ PlacesOK /\ OutageIsHidden
IInv == TurnInv /\ NeighboursOK /\ StampOK /\ ActivityIsRecent

LEMMA PlacesAreReplies == PlacesOK => RepliesMatchQuestions
BY DEF PlacesOK, PlacesOf, RepliesMatchQuestions

-----------------------------------------------------------------------------
(* Steps that store nothing *)

(* How such a step may move a turn: on to the next call, or to an end that is *)
(* accounted for.                                                             *)
Moves(t) ==
    \/ pc'[t] = pc[t] /\ ctx'[t].session = ctx[t].session
    \/ pc[t] = "idle" /\ pc'[t] \in {"ask", "NOT_FOUND"}
    \/ /\ ctx'[t].session = ctx[t].session
       /\ \/ <<pc[t], pc'[t]>> \in {<<"bot", "reply">>, <<"stamp", "touch">>, <<"touch", "ok">>}
          \/ pc[t] \in InFlight /\ pc'[t] \in {"error", "dead"} /\ t \in faulted' \cup malformed'

LEMMA SamePlaces ==
    ASSUME log' = log, NEW s, NEW t, NEW role
    PROVE  Places(s, t, role)' = Places(s, t, role)
BY DEF Places

LEMMA NoPlaces ==
    ASSUME ChatTypeOK, MessagesOK, NEW s \in Sessions, NEW t \in Turns, NEW role,
           pc[t] \in Begun \/ ctx[t].session # s
    PROVE  Places(s, t, role) = {}
BY DEF MessagesOK, Places

LEMMA MovesPlaces ==
    ASSUME TurnInv, log' = log, clock <= clock', clock' \in Time,
           \A t \in Turns : Moves(t),
           faulted \subseteq faulted', malformed \subseteq malformed'
    PROVE  PlacesOK' /\ MessagesOK' /\ OutageIsHidden'
<1> USE DEF TurnInv
<1>1. ASSUME NEW s \in Sessions, NEW t \in Turns PROVE PlacesOf(s, t)'
  <2>1. \A role : Places(s, t, role)' = Places(s, t, role)
    BY SamePlaces
  <2>2. PlacesOf(s, t) /\ Moves(t)
    BY DEF PlacesOK
  <2>3. CASE pc[t] \in Begun
    <3>1. \A role : Places(s, t, role) = {}
      BY <2>3, NoPlaces
    <3>2. pc'[t] \notin {"bot", "reply", "stamp", "touch", "ok"}
      BY <2>2, <2>3 DEF Moves, Begun, InFlight
    <3>3. QED
      BY <2>1, <3>1, <3>2 DEF PlacesOf
  <2>4. CASE pc[t] \notin Begun
    BY <2>1, <2>2, <2>4 DEF PlacesOf, Moves, Begun, InFlight
  <2>5. QED
    BY <2>3, <2>4
<1>2. PlacesOK'
  BY <1>1 DEF PlacesOK
<1>3. MessagesOK'
  <2> SUFFICES ASSUME NEW s \in Sessions, NEW i \in DOMAIN log[s]
               PROVE  /\ log[s][i].at <= clock'
                      /\ pc'[log[s][i].turn] \notin Begun
                      /\ ctx'[log[s][i].turn].session = s
    BY DEF MessagesOK
  <2>1. log[s][i] \in Message
    BY DEF ChatTypeOK
  <2>2. log[s][i].at \in Time /\ log[s][i].turn \in Turns
    BY <2>1 DEF Message
  <2>3. log[s][i].at <= clock'
    BY <2>2 DEF MessagesOK, ChatTypeOK, Time
  <2>4. Moves(log[s][i].turn) /\ pc[log[s][i].turn] \notin Begun
    BY <2>2 DEF MessagesOK
  <2>5. QED
    BY <2>3, <2>4 DEF MessagesOK, Moves, Begun
<1>4. OutageIsHidden'
  BY DEF OutageIsHidden, Moves, InFlight
<1>5. QED
  BY <1>2, <1>3, <1>4

-----------------------------------------------------------------------------
(* Steps that store a message *)

New(t, role) == [turn |-> t, role |-> role, at |-> clock]

LEMMA StoreGrows ==
    ASSUME ChatTypeOK, NEW t \in Turns, pc[t] \in InFlight, NEW role \in Roles, Store(t, role)
    PROVE  /\ ctx[t].session \in Sessions
           /\ log' \in [Sessions -> Seq(Message)]
           /\ \A s \in Sessions \ {ctx[t].session} : log'[s] = log[s]
           /\ Len(log[ctx[t].session]) \in Nat
           /\ DOMAIN log[ctx[t].session] = 1..Len(log[ctx[t].session])
           /\ DOMAIN log'[ctx[t].session] = 1..(Len(log[ctx[t].session]) + 1)
           /\ \A i \in DOMAIN log[ctx[t].session] :
                 log'[ctx[t].session][i] = log[ctx[t].session][i]
           /\ log'[ctx[t].session][Len(log[ctx[t].session]) + 1] = New(t, role)
<1> DEFINE s0 == ctx[t].session
           q == log[s0]
<1>1. s0 \in Sessions
  BY DEF ChatTypeOK
<1>2. New(t, role) \in Message
  BY DEF New, Message, ChatTypeOK
<1>3. q \in Seq(Message) /\ log' = [log EXCEPT ![s0] = Append(q, New(t, role))]
  BY <1>1 DEF Store, New, ChatTypeOK
<1>4. /\ Append(q, New(t, role)) \in Seq(Message)
      /\ Len(q) \in Nat /\ DOMAIN q = 1..Len(q)
      /\ DOMAIN Append(q, New(t, role)) = 1..(Len(q) + 1)
      /\ \A i \in 1..Len(q) : Append(q, New(t, role))[i] = q[i]
      /\ Append(q, New(t, role))[Len(q) + 1] = New(t, role)
  <2> HIDE DEF q
  <2> QED
    BY <1>2, <1>3
<1>5. log \in [Sessions -> Seq(Message)]
  BY DEF ChatTypeOK
<1>6. log'[s0] = Append(q, New(t, role)) /\ \A s \in Sessions \ {s0} : log'[s] = log[s]
  BY <1>1, <1>3, <1>5
<1>7. log' \in [Sessions -> Seq(Message)]
  BY <1>1, <1>3, <1>4, <1>5
<1>8. QED
  BY <1>1, <1>4, <1>6, <1>7

LEMMA StorePlaces ==
    ASSUME ChatTypeOK, NEW t \in Turns, pc[t] \in InFlight, NEW role \in Roles, Store(t, role),
           NEW s \in Sessions, NEW u \in Turns, NEW r \in Roles
    PROVE  /\ <<s, u, r>> # <<ctx[t].session, t, role>> => Places(s, u, r)' = Places(s, u, r)
           /\ <<s, u, r>> = <<ctx[t].session, t, role>> =>
                 Places(s, u, r)' = Places(s, u, r) \cup {Len(log[s]) + 1}
           /\ \A i \in Places(s, u, r) :
                 i \in Places(s, u, r)' /\ i <= Len(log[s]) /\ i \in Nat
                 /\ log'[s][i] = log[s][i]
<1>1. CASE s # ctx[t].session
  <2>1. log'[s] = log[s] /\ log \in [Sessions -> Seq(Message)]
    BY <1>1, StoreGrows DEF ChatTypeOK
  <2>2. DOMAIN log[s] = 1..Len(log[s]) /\ Len(log[s]) \in Nat
    BY <2>1
  <2>3. QED
    BY <1>1, <2>1, <2>2 DEF Places
<1>2. CASE s = ctx[t].session
  <2>1. /\ Len(log[s]) \in Nat
        /\ DOMAIN log[s] = 1..Len(log[s])
        /\ DOMAIN log'[s] = 1..(Len(log[s]) + 1)
        /\ \A i \in DOMAIN log[s] : log'[s][i] = log[s][i]
        /\ log'[s][Len(log[s]) + 1] = New(t, role)
    BY <1>2, StoreGrows
  <2>2. 1..(Len(log[s]) + 1) = (1..Len(log[s])) \cup {Len(log[s]) + 1}
    BY <2>1
  <2>3. New(t, role).turn = t /\ New(t, role).role = role
    BY DEF New
  <2>4. Places(s, u, r)' = {i \in DOMAIN log'[s] : log'[s][i].turn = u /\ log'[s][i].role = r}
    BY DEF Places
  <2>5. Places(s, u, r) = {i \in DOMAIN log[s] : log[s][i].turn = u /\ log[s][i].role = r}
    BY DEF Places
  <2>6. CASE u = t /\ r = role
    BY <1>2, <2>1, <2>2, <2>3, <2>4, <2>5, <2>6
  <2>7. CASE ~(u = t /\ r = role)
    <3>1. \A i : i \in Places(s, u, r)' <=> i \in Places(s, u, r)
      BY <2>1, <2>2, <2>3, <2>4, <2>5, <2>7
    <3>2. Places(s, u, r)' = Places(s, u, r)
      BY <3>1, <2>4, <2>5
    <3>3. \A i \in Places(s, u, r) : i <= Len(log[s]) /\ i \in Nat /\ log'[s][i] = log[s][i]
      BY <2>1, <2>5
    <3>4. <<s, u, r>> # <<ctx[t].session, t, role>>
      BY <2>7
    <3>5. QED
      BY <3>2, <3>3, <3>4
  <2>8. QED
    BY <2>6, <2>7
<1>3. QED
  BY <1>1, <1>2

LEMMA SaveQuestionInv ==
    ASSUME TurnInv, NEW t \in Turns, SaveQuestion(t), ChatTypeOK'
    PROVE  PlacesOK' /\ MessagesOK' /\ OutageIsHidden'
<1> USE DEF TurnInv
<1> DEFINE s0 == ctx[t].session
           n == Len(log[s0])
<1>0. /\ pc[t] = "ask" /\ Store(t, "user") /\ pc' = [pc EXCEPT ![t] = "bot"]
      /\ ctx' = ctx /\ clock' = clock /\ faulted' = faulted /\ malformed' = malformed
      /\ "user" \in Roles /\ "assistant" \in Roles /\ pc[t] \in InFlight
  BY DEF SaveQuestion, Goto, Roles, InFlight, hist
<1>1. /\ pc'[t] = "bot"
      /\ \A u \in Turns \ {t} : pc'[u] = pc[u]
  BY <1>0 DEF ChatTypeOK
<1>2. ASSUME NEW s \in Sessions, NEW u \in Turns PROVE PlacesOf(s, u)'
  <2>1. PlacesOf(s, u)
    BY DEF PlacesOK
  <2>2. Places(s, u, "assistant")' = Places(s, u, "assistant")
    BY <1>0, StorePlaces
  <2>3. CASE u = t
    <3>1. Places(s, t, "user") = {} /\ Places(s, t, "assistant") = {}
      BY <1>0, NoPlaces DEF Begun
    <3>2. s = s0 => Places(s, t, "user")' = {n + 1}
      BY <1>0, <3>1, StorePlaces
    <3>3. s # s0 => Places(s, t, "user")' = {}
      BY <1>0, <3>1, StorePlaces
    <3>4. QED
      BY <1>0, <1>1, <2>2, <2>3, <3>1, <3>2, <3>3 DEF PlacesOf
  <2>4. CASE u # t
    <3>1. Places(s, u, "user")' = Places(s, u, "user")
      BY <1>0, <2>4, StorePlaces
    <3>2. /\ \A i \in Places(s, u, "user") : log'[s][i] = log[s][i]
          /\ \A i \in Places(s, u, "assistant") : log'[s][i] = log[s][i]
      BY <1>0, StorePlaces
    <3>3. QED
      BY <1>0, <1>1, <2>1, <2>2, <2>4, <3>1, <3>2 DEF PlacesOf
  <2>5. QED
    BY <2>3, <2>4
<1>3. PlacesOK'
  BY <1>2 DEF PlacesOK
<1>4. MessagesOK'
  <2> SUFFICES ASSUME NEW s \in Sessions, NEW i \in DOMAIN log'[s]
               PROVE  /\ log'[s][i].at <= clock
                      /\ pc'[log'[s][i].turn] \notin Begun
                      /\ ctx[log'[s][i].turn].session = s
    BY <1>0 DEF MessagesOK
  <2>1. CASE i \in DOMAIN log[s] /\ log'[s][i] = log[s][i]
    <3>1. log[s][i] \in Message
      BY <2>1 DEF ChatTypeOK
    <3>2. log[s][i].turn \in Turns
      BY <3>1 DEF Message
    <3>3. QED
      BY <1>0, <1>1, <2>1, <3>2 DEF MessagesOK, Begun
  <2>2. CASE s = s0 /\ log'[s][i] = New(t, "user")
    BY <1>0, <1>1, <2>2 DEF New, Begun, ChatTypeOK, Time
  <2>3. QED
    <3>1. s # s0 => log'[s] = log[s]
      BY <1>0, StoreGrows
    <3>2. s = s0 => i \in 1..(n + 1) /\ DOMAIN log[s] = 1..n /\ n \in Nat
      BY <1>0, StoreGrows
    <3>3. s = s0 /\ i # n + 1 => i \in DOMAIN log[s]
      BY <3>2
    <3>4. QED
      BY <1>0, <2>1, <2>2, <3>1, <3>2, <3>3, StoreGrows
<1>5. OutageIsHidden'
  BY <1>0, <1>1 DEF OutageIsHidden
<1>6. QED
  BY <1>3, <1>4, <1>5

(* The reply that is stored. *)
LEMMA SaveReplyInv ==
    ASSUME TurnInv, NEW t \in Turns, SaveReply(t), ctx[t].content # "undefined", ChatTypeOK'
    PROVE  PlacesOK' /\ MessagesOK' /\ OutageIsHidden'
<1> USE DEF TurnInv
<1> DEFINE s0 == ctx[t].session
           n == Len(log[s0])
<1>0. /\ pc[t] = "reply" /\ Store(t, "assistant") /\ pc' = [pc EXCEPT ![t] = "stamp"]
      /\ ctx' = ctx /\ clock' = clock /\ faulted' = faulted /\ malformed' = malformed
      /\ "user" \in Roles /\ "assistant" \in Roles /\ pc[t] \in InFlight
  BY DEF SaveReply, Goto, Roles, InFlight, hist
<1>1. /\ pc'[t] = "stamp"
      /\ \A u \in Turns \ {t} : pc'[u] = pc[u]
  BY <1>0 DEF ChatTypeOK
<1>2. ASSUME NEW s \in Sessions, NEW u \in Turns PROVE PlacesOf(s, u)'
  <2>1. PlacesOf(s, u)
    BY DEF PlacesOK
  <2>2. /\ Places(s, u, "user")' = Places(s, u, "user")
        /\ \A i \in Places(s, u, "user") : log'[s][i] = log[s][i]
        /\ \A i \in Places(s, u, "user") : i \in Nat /\ i <= Len(log[s])
        /\ \A i \in Places(s, u, "assistant") : log'[s][i] = log[s][i]
    BY <1>0, StorePlaces
  <2>3. CASE u = t /\ s = s0
    <3>1. Places(s, t, "user") # {} /\ Places(s, t, "assistant") = {}
      BY <1>0, <2>1, <2>3 DEF PlacesOf
    <3>2. Places(s, t, "assistant")' = {n + 1}
      BY <1>0, <2>3, <3>1, StorePlaces
    <3>3. PICK i \in Places(s, t, "user") : TRUE
      BY <3>1
    <3>4. n \in Nat /\ i < n + 1
      BY <1>0, <2>2, <2>3, <3>3, StoreGrows
    <3>5. log'[s][n + 1] = New(t, "assistant") /\ New(t, "assistant").at = clock
      BY <1>0, <2>3, StoreGrows DEF New
    <3>6. log'[s][i].at <= log'[s][n + 1].at
      <4>1. log'[s][i] = log[s][i]
        BY <2>2, <2>3, <3>3
      <4>2. i \in DOMAIN log[s]
        BY <3>3 DEF Places
      <4>3. log[s][i].at <= clock
        BY <4>2 DEF MessagesOK
      <4>4. QED
        BY <3>5, <4>1, <4>3
    <3>7. \E j \in Places(s, t, "user")' : j < n + 1 /\ log'[s][j].at <= log'[s][n + 1].at
      BY <2>2, <2>3, <3>3, <3>4, <3>6
    <3>8. pc'[t] = "stamp" /\ Places(s, t, "user")' # {}
      BY <1>1, <2>2, <2>3, <3>1
    <3>9. \A j, k \in Places(s, t, "user")' : j = k
      BY <2>1, <2>2, <2>3 DEF PlacesOf
    <3>10. QED
      BY <2>3, <3>2, <3>7, <3>8, <3>9 DEF PlacesOf
  <2>4. CASE ~(u = t /\ s = s0)
    <3>1. Places(s, u, "assistant")' = Places(s, u, "assistant")
      BY <1>0, <2>4, StorePlaces
    <3>2. u = t => Places(s, u, "user") = {} /\ Places(s, u, "assistant") = {}
      BY <2>4, NoPlaces
    <3>3. CASE u = t
      BY <1>0, <1>1, <2>2, <2>4, <3>1, <3>2, <3>3 DEF PlacesOf
    <3>4. CASE u # t
      BY <1>0, <1>1, <2>1, <2>2, <3>1, <3>4 DEF PlacesOf
    <3>5. QED
      BY <3>3, <3>4
  <2>5. QED
    BY <2>3, <2>4
<1>3. PlacesOK'
  BY <1>2 DEF PlacesOK
<1>4. MessagesOK'
  <2> SUFFICES ASSUME NEW s \in Sessions, NEW i \in DOMAIN log'[s]
               PROVE  /\ log'[s][i].at <= clock
                      /\ pc'[log'[s][i].turn] \notin Begun
                      /\ ctx[log'[s][i].turn].session = s
    BY <1>0 DEF MessagesOK
  <2>1. CASE i \in DOMAIN log[s] /\ log'[s][i] = log[s][i]
    <3>1. log[s][i] \in Message
      BY <2>1 DEF ChatTypeOK
    <3>2. log[s][i].turn \in Turns
      BY <3>1 DEF Message
    <3>3. QED
      BY <1>0, <1>1, <2>1, <3>2 DEF MessagesOK, Begun
  <2>2. CASE s = s0 /\ log'[s][i] = New(t, "assistant")
    BY <1>0, <1>1, <2>2 DEF New, Begun, ChatTypeOK, Time
  <2>3. QED
    <3>1. s # s0 => log'[s] = log[s]
      BY <1>0, StoreGrows
    <3>2. s = s0 => i \in 1..(n + 1) /\ DOMAIN log[s] = 1..n /\ n \in Nat
      BY <1>0, StoreGrows
    <3>3. s = s0 /\ i # n + 1 => i \in DOMAIN log[s]
      BY <3>2
    <3>4. QED
      BY <1>0, <2>1, <2>2, <3>1, <3>2, <3>3, StoreGrows
<1>5. OutageIsHidden'
  BY <1>0, <1>1 DEF OutageIsHidden
<1>6. QED
  BY <1>3, <1>4, <1>5

-----------------------------------------------------------------------------
(* Types and locals *)

LEMMA CtxRecords ==
    ASSUME ChatTypeOK, NEW t \in Turns
    PROVE  /\ ctx[t] \in [session : Sessions \cup {"none"}, content : Content, stamp : Time]
           /\ pc[t] \in {"idle"} \cup InFlight \cup Outcome
BY DEF ChatTypeOK

LEMMA LocalsStep ==
    ASSUME ChatTypeOK, LocalsOK, Next
    PROVE  ChatTypeOK' /\ LocalsOK'
<1>1. ASSUME NEW s \in Sessions, CreateSession(s) PROVE ChatTypeOK' /\ LocalsOK'
  BY <1>1 DEF CreateSession, hist, ChatTypeOK, LocalsOK
<1>2. ASSUME NEW t \in Turns, NEW s \in Sessions, AssertSession(t, s)
      PROVE  ChatTypeOK' /\ LocalsOK'
  <2>1. CASE s \in open
    <3>1. /\ pc[t] = "idle" /\ pc' = [pc EXCEPT ![t] = "ask"]
          /\ ctx' = [ctx EXCEPT ![t].session = s]
          /\ overlapped \subseteq overlapped'
          /\ overlapped' \subseteq overlapped \cup Beside(s) \cup {t}
          /\ UNCHANGED <<open, log, lastActiveAt, clock, faulted, malformed>>
      BY <1>2, <2>1 DEF AssertSession, Goto
    <3>2. Beside(s) \subseteq Turns /\ \A u \in Beside(s) : pc[u] # "idle"
      BY DEF Beside, InFlight
    <3>3. ChatTypeOK'
      BY <2>1, <3>1, <3>2 DEF ChatTypeOK, InFlight
    <3>4. /\ pc'[t] = "ask" /\ ctx'[t].content = ctx[t].content
          /\ \A u \in Turns \ {t} : pc'[u] = pc[u] /\ ctx'[u] = ctx[u]
      BY <3>1 DEF ChatTypeOK
    <3>5. LocalsOK'
      BY <3>1, <3>2, <3>4 DEF LocalsOK
    <3>6. QED
      BY <3>3, <3>5
  <2>2. CASE s \notin open
    BY <1>2, <2>2 DEF AssertSession, Goto, ChatTypeOK, LocalsOK, InFlight, Outcome
  <2>3. QED
    BY <2>1, <2>2
<1>3. ASSUME NEW t \in Turns, SaveQuestion(t) PROVE ChatTypeOK' /\ LocalsOK'
  <2>1. log' \in [Sessions -> Seq(Message)]
    BY <1>3, StoreGrows DEF SaveQuestion, InFlight, Roles
  <2>2. QED
    BY <1>3, <2>1 DEF SaveQuestion, Goto, hist, ChatTypeOK, LocalsOK, InFlight, Outcome
<1>4. ASSUME NEW t \in Turns, BotAnswers(t) \/ BotAnswersMalformed(t) \/ BotFails(t)
      PROVE  ChatTypeOK' /\ LocalsOK'
  <2>1. /\ pc[t] = "bot" /\ pc' = [pc EXCEPT ![t] = "reply"]
        /\ UNCHANGED <<open, log, lastActiveAt, clock, faulted, overlapped>>
        /\ \E c \in Content :
              /\ ctx' = [ctx EXCEPT ![t].content = c]
              /\ malformed \subseteq malformed' /\ malformed' \subseteq malformed \cup {t}
              /\ c = "undefined" => t \in malformed'
    BY <1>4 DEF BotAnswers, BotAnswersMalformed, BotFails, Goto, hist, Content
  <2>2. PICK c \in Content :
              /\ ctx' = [ctx EXCEPT ![t].content = c]
              /\ malformed \subseteq malformed' /\ malformed' \subseteq malformed \cup {t}
              /\ c = "undefined" => t \in malformed'
    BY <2>1
  <2>3. ctx' \in [Turns -> [session : Sessions \cup {"none"}, content : Content, stamp : Time]]
    BY <2>2, CtxRecords DEF ChatTypeOK
  <2>4. ctx'[t].content = c /\ ctx'[t].session = ctx[t].session /\ ctx'[t].stamp = ctx[t].stamp
    BY <2>2, CtxRecords DEF ChatTypeOK
  <2>5. \A u \in Turns \ {t} : ctx'[u] = ctx[u]
    BY <2>2 DEF ChatTypeOK
  <2>6. pc'[t] = "reply" /\ \A u \in Turns \ {t} : pc'[u] = pc[u]
    BY <2>1 DEF ChatTypeOK
  <2>7. ChatTypeOK'
    BY <2>1, <2>2, <2>3, <2>4, <2>5, <2>6 DEF ChatTypeOK, InFlight
  <2>8. LocalsOK'
    BY <2>1, <2>2, <2>4, <2>5, <2>6 DEF LocalsOK
  <2>9. QED
    BY <2>7, <2>8
<1>5. ASSUME NEW t \in Turns, SaveReply(t) PROVE ChatTypeOK' /\ LocalsOK'
  <2>1. log' \in [Sessions -> Seq(Message)]
    BY <1>5, StoreGrows DEF SaveReply, InFlight, Roles, ChatTypeOK
  <2>2. QED
    BY <1>5, <2>1 DEF SaveReply, Goto, hist, ChatTypeOK, LocalsOK, InFlight, Outcome
<1>6. ASSUME NEW t \in Turns, Stamp(t) PROVE ChatTypeOK' /\ LocalsOK'
  <2>1. /\ pc[t] = "stamp" /\ pc' = [pc EXCEPT ![t] = "touch"]
        /\ ctx' = [ctx EXCEPT ![t].stamp = clock]
        /\ UNCHANGED <<open, log, lastActiveAt, clock, hist>>
    BY <1>6 DEF Stamp, Goto
  <2>2. clock \in Time
    BY DEF ChatTypeOK
  <2>3. ctx' \in [Turns -> [session : Sessions \cup {"none"}, content : Content, stamp : Time]]
    BY <2>1, <2>2, CtxRecords DEF ChatTypeOK
  <2>4. ctx'[t].content = ctx[t].content /\ ctx'[t].session = ctx[t].session /\ ctx'[t].stamp = clock
    BY <2>1, CtxRecords DEF ChatTypeOK
  <2>5. \A u \in Turns \ {t} : ctx'[u] = ctx[u]
    BY <2>1 DEF ChatTypeOK
  <2>6. pc'[t] = "touch" /\ \A u \in Turns \ {t} : pc'[u] = pc[u]
    BY <2>1 DEF ChatTypeOK
  <2>7. ChatTypeOK'
    BY <2>1, <2>3, <2>4, <2>5, <2>6 DEF ChatTypeOK, InFlight, hist
  <2>8. LocalsOK'
    BY <2>1, <2>2, <2>4, <2>5, <2>6 DEF LocalsOK, Time, hist
  <2>9. QED
    BY <2>7, <2>8
<1>7. ASSUME NEW t \in Turns, Touch(t) PROVE ChatTypeOK' /\ LocalsOK'
  <2>1. ctx[t].stamp \in Time
    BY CtxRecords
  <2>2. QED
    BY <1>7, <2>1 DEF Touch, Goto, hist, ChatTypeOK, LocalsOK, InFlight, Outcome
<1>8. ASSUME NEW t \in Turns, Reject(t) PROVE ChatTypeOK' /\ LocalsOK'
  BY <1>8 DEF Reject, Goto, ChatTypeOK, LocalsOK, InFlight, Outcome
<1>9. CASE Crash
  <2>1. \A u \in Turns : pc'[u] \in {pc[u], "dead"}
    BY <1>9 DEF Crash
  <2>2. ChatTypeOK'
    BY <1>9, <2>1 DEF Crash, ChatTypeOK, InFlight, Outcome
  <2>3. LocalsOK'
    BY <1>9, <2>1 DEF Crash, LocalsOK
  <2>4. QED
    BY <2>2, <2>3
<1>10. CASE Tick
  <2>1. clock \in Nat /\ clock' \in Time /\ clock <= clock'
    BY <1>10 DEF Tick, ChatTypeOK, Time
  <2>2. \A t \in Turns : ctx[t].stamp \in Nat
    BY CtxRecords DEF Time
  <2>3. QED
    BY <1>10, <2>1, <2>2 DEF Tick, hist, ChatTypeOK, LocalsOK
<1>11. QED
  BY <1>1, <1>2, <1>3, <1>4, <1>5, <1>6, <1>7, <1>8, <1>9, <1>10 DEF Next, Resume

-----------------------------------------------------------------------------
(* Questions and replies *)

LEMMA TurnStep ==
    ASSUME TurnInv, Next
    PROVE  TurnInv'
<1> USE DEF TurnInv
<1>0. ChatTypeOK' /\ LocalsOK'
  BY LocalsStep
<1>a. clock' \in Time
  BY <1>0 DEF ChatTypeOK
<1>b. clock <= clock
  BY DEF ChatTypeOK, Time
<1>1. ASSUME NEW s \in Sessions, CreateSession(s) PROVE TurnInv'
  <2>1. \A t \in Turns : Moves(t)
    BY <1>1 DEF CreateSession, Moves
  <2>2. QED
    BY <1>0, <1>1, <1>a, <1>b, <2>1, MovesPlaces DEF CreateSession, hist
<1>2. ASSUME NEW t \in Turns, NEW s \in Sessions, AssertSession(t, s) PROVE TurnInv'
  <2>1. /\ pc[t] = "idle" /\ pc'[t] \in {"ask", "NOT_FOUND"}
        /\ \A u \in Turns \ {t} : pc'[u] = pc[u] /\ ctx'[u] = ctx[u]
    BY <1>2 DEF AssertSession, Goto, ChatTypeOK
  <2>2. \A u \in Turns : Moves(u)
    BY <2>1 DEF Moves
  <2>3. QED
    BY <1>0, <1>2, <1>a, <1>b, <2>2, MovesPlaces DEF AssertSession
<1>3. ASSUME NEW t \in Turns, SaveQuestion(t) PROVE TurnInv'
  BY <1>0, <1>3, SaveQuestionInv
<1>4. ASSUME NEW t \in Turns, BotAnswers(t) \/ BotAnswersMalformed(t) \/ BotFails(t)
      PROVE  TurnInv'
  <2>1. /\ pc[t] = "bot" /\ pc' = [pc EXCEPT ![t] = "reply"]
        /\ \E c : ctx' = [ctx EXCEPT ![t].content = c]
        /\ malformed \subseteq malformed'
        /\ UNCHANGED <<open, log, lastActiveAt, clock, faulted>>
    BY <1>4 DEF BotAnswers, BotAnswersMalformed, BotFails, Goto, hist
  <2>2. ctx'[t].session = ctx[t].session /\ \A u \in Turns \ {t} : ctx'[u] = ctx[u]
    BY <2>1, CtxRecords DEF ChatTypeOK
  <2>3. pc'[t] = "reply" /\ \A u \in Turns \ {t} : pc'[u] = pc[u]
    BY <2>1 DEF ChatTypeOK
  <2>4. \A u \in Turns : Moves(u)
    BY <2>1, <2>2, <2>3 DEF Moves
  <2>5. QED
    BY <1>0, <1>a, <1>b, <2>1, <2>4, MovesPlaces
<1>5. ASSUME NEW t \in Turns, SaveReply(t) PROVE TurnInv'
  <2>1. CASE ctx[t].content # "undefined"
    BY <1>0, <1>5, <2>1, SaveReplyInv
  <2>2. CASE ctx[t].content = "undefined"
    <3>1. /\ pc[t] = "reply" /\ pc' = [pc EXCEPT ![t] = "error"] /\ t \in malformed
          /\ UNCHANGED <<open, log, lastActiveAt, clock, ctx, hist>>
      BY <1>5, <2>2 DEF SaveReply, Goto, LocalsOK
    <3>2. \A u \in Turns : Moves(u)
      BY <3>1 DEF Moves, ChatTypeOK, InFlight, hist
    <3>3. QED
      BY <1>0, <1>a, <1>b, <3>1, <3>2, MovesPlaces DEF hist
  <2>3. QED
    BY <2>1, <2>2
<1>6. ASSUME NEW t \in Turns, Stamp(t) PROVE TurnInv'
  <2>1. /\ pc[t] = "stamp" /\ pc' = [pc EXCEPT ![t] = "touch"]
        /\ ctx' = [ctx EXCEPT ![t].stamp = clock]
        /\ UNCHANGED <<open, log, lastActiveAt, clock, hist>>
    BY <1>6 DEF Stamp, Goto
  <2>2. ctx'[t].session = ctx[t].session /\ \A u \in Turns \ {t} : ctx'[u] = ctx[u]
    BY <2>1, CtxRecords DEF ChatTypeOK
  <2>3. pc'[t] = "touch" /\ \A u \in Turns \ {t} : pc'[u] = pc[u]
    BY <2>1 DEF ChatTypeOK
  <2>4. \A u \in Turns : Moves(u)
    BY <2>1, <2>2, <2>3 DEF Moves
  <2>5. QED
    BY <1>0, <1>a, <1>b, <2>1, <2>4, MovesPlaces DEF hist
<1>7. ASSUME NEW t \in Turns, Touch(t) PROVE TurnInv'
  <2>1. \A u \in Turns : Moves(u)
    BY <1>7 DEF Touch, Goto, Moves, ChatTypeOK
  <2>2. QED
    BY <1>0, <1>7, <1>a, <1>b, <2>1, MovesPlaces DEF Touch, hist
<1>8. ASSUME NEW t \in Turns, Reject(t) PROVE TurnInv'
  <2>1. \A u \in Turns : Moves(u)
    BY <1>8 DEF Reject, Goto, Moves, ChatTypeOK
  <2>2. QED
    BY <1>0, <1>8, <1>a, <1>b, <2>1, MovesPlaces DEF Reject
<1>9. CASE Crash
  <2>1. \A u \in Turns : Moves(u)
    BY <1>9 DEF Crash, Moves, ChatTypeOK
  <2>2. QED
    BY <1>0, <1>9, <1>a, <1>b, <2>1, MovesPlaces DEF Crash
<1>10. CASE Tick
  <2>1. clock <= clock'
    BY <1>10 DEF Tick, ChatTypeOK, Time
  <2>2. \A u \in Turns : Moves(u)
    BY <1>10 DEF Tick, Moves
  <2>3. QED
    BY <1>0, <1>10, <1>a, <2>1, <2>2, MovesPlaces DEF Tick, hist
<1>11. QED
  BY <1>1, <1>2, <1>3, <1>4, <1>5, <1>6, <1>7, <1>8, <1>9, <1>10 DEF Next, Resume

-----------------------------------------------------------------------------
(* Turns of one session, and the date of its last activity *)

(* A step that begins no turn leaves what NeighboursOK speaks of. *)
LEMMA NeighboursStay ==
    ASSUME NeighboursOK, overlapped' = overlapped,
           \A t \in Turns : pc'[t] \in InFlight =>
              pc[t] \in InFlight /\ ctx'[t].session = ctx[t].session
    PROVE  NeighboursOK'
BY DEF NeighboursOK

(* A step that stores and stamps nothing leaves the other two. *)
LEMMA ActivityStays ==
    ASSUME ChatTypeOK, LocalsOK, MessagesOK, StampOK, ActivityIsRecent,
           log' = log, lastActiveAt' = lastActiveAt, open' = open,
           clock' \in Time, clock <= clock',
           overlapped \subseteq overlapped', overlapped' \subseteq Turns,
           \A t \in overlapped : ctx'[t].session = ctx[t].session,
           \A t \in Turns : pc'[t] = "ok" => pc[t] = "ok",
           \A t \in Turns : pc'[t] = "touch" =>
              pc[t] = "touch" /\ ctx'[t] = ctx[t]
    PROVE  StampOK' /\ ActivityIsRecent'
<1>2. StampOK'
  <2> SUFFICES ASSUME NEW t \in Turns, pc'[t] = "touch",
                      \A u \in overlapped' : ctx'[u].session # ctx'[t].session,
                      NEW i \in DOMAIN log[ctx'[t].session]
               PROVE  log[ctx'[t].session][i].at <= ctx'[t].stamp
    BY DEF StampOK, Crowded
  <2>1. pc[t] = "touch" /\ ctx'[t] = ctx[t]
    OBVIOUS
  <2>2. ~Crowded(ctx[t].session)
    BY <2>1 DEF Crowded
  <2>3. QED
    BY <2>1, <2>2 DEF StampOK
<1>3. ActivityIsRecent'
  <2> SUFFICES ASSUME NEW s \in open
               PROVE  /\ lastActiveAt[s] <= clock'
                      /\ (\A t \in overlapped' : ctx'[t].session # s) =>
                            \A i \in DOMAIN log[s] :
                               pc'[log[s][i].turn] = "ok" => log[s][i].at <= lastActiveAt[s]
    BY DEF ActivityIsRecent
  <2>1. s \in Sessions /\ lastActiveAt[s] \in Nat /\ clock \in Nat /\ clock' \in Nat
    BY DEF ChatTypeOK, Time
  <2>2. lastActiveAt[s] <= clock'
    BY <2>1 DEF ActivityIsRecent
  <2>3. ASSUME \A t \in overlapped' : ctx'[t].session # s, NEW i \in DOMAIN log[s],
               pc'[log[s][i].turn] = "ok"
        PROVE  log[s][i].at <= lastActiveAt[s]
    <3>1. \A t \in overlapped : ctx[t].session # s
      BY <2>3
    <3>2. log[s][i] \in Message
      BY <2>1 DEF ChatTypeOK
    <3>3. pc[log[s][i].turn] = "ok"
      BY <2>3, <3>2 DEF Message
    <3>4. QED
      BY <3>1, <3>3 DEF ActivityIsRecent
  <2>4. QED
    BY <2>2, <2>3
<1>4. QED
  BY <1>2, <1>3

(* A message that is stored: whoever holds a date of that session has run     *)
(* beside the turn that stores it.                                            *)
LEMMA ActivityBesideStore ==
    ASSUME ChatTypeOK, LocalsOK, MessagesOK, NeighboursOK, StampOK, ActivityIsRecent,
           NEW t \in Turns, pc[t] \in InFlight, NEW role \in Roles, Store(t, role),
           NEW label \in {"bot", "stamp"}, pc' = [pc EXCEPT ![t] = label],
           UNCHANGED <<open, lastActiveAt, clock, ctx, hist>>
    PROVE  StampOK' /\ ActivityIsRecent'
<1> DEFINE s0 == ctx[t].session
           n == Len(log[s0])
<1>1. pc'[t] = label /\ \A u \in Turns \ {t} : pc'[u] = pc[u]
  BY DEF ChatTypeOK
<1>2. overlapped' = overlapped /\ ctx' = ctx
  BY DEF hist
<1>3. \A s : Crowded(s)' <=> Crowded(s)
  BY <1>2 DEF Crowded
<1>4. StampOK'
  <2> SUFFICES ASSUME NEW u \in Turns, pc'[u] = "touch", ~Crowded(ctx[u].session),
                      NEW i \in DOMAIN log'[ctx[u].session]
               PROVE  log'[ctx[u].session][i].at <= ctx[u].stamp
    BY <1>2, <1>3 DEF StampOK
  <2>1. u # t /\ pc[u] = "touch"
    BY <1>1
  <2>2. ctx[u].session # s0
    BY <2>1 DEF NeighboursOK, Crowded, InFlight
  <2>3. ctx[u].session \in Sessions
    BY <2>1 DEF ChatTypeOK, InFlight
  <2>4. log'[ctx[u].session] = log[ctx[u].session]
    BY <2>2, <2>3, StoreGrows
  <2>5. QED
    BY <2>1, <2>4 DEF StampOK
<1>5. ActivityIsRecent'
  <2> SUFFICES ASSUME NEW s \in open, \A u \in overlapped : ctx[u].session # s,
                      NEW i \in DOMAIN log'[s], pc'[log'[s][i].turn] = "ok"
               PROVE  log'[s][i].at <= lastActiveAt[s]
    BY <1>2 DEF ActivityIsRecent
  <2>0. s \in Sessions
    BY DEF ChatTypeOK
  <2>1. ASSUME i \in DOMAIN log[s], log'[s][i] = log[s][i]
        PROVE  log'[s][i].at <= lastActiveAt[s]
    <3>1. log[s][i] \in Message
      BY <2>0, <2>1 DEF ChatTypeOK
    <3>2. pc[log[s][i].turn] = "ok"
      BY <1>1, <2>1, <3>1 DEF Message
    <3>3. QED
      BY <2>1, <3>2 DEF ActivityIsRecent
  <2>2. s # s0 => log'[s] = log[s]
    BY <2>0, StoreGrows
  <2>3. s = s0 => /\ i \in 1..(n + 1) /\ DOMAIN log[s] = 1..n /\ n \in Nat
                  /\ log'[s][n + 1].turn = t
    <3>1. New(t, role).turn = t
      BY DEF New
    <3>2. s = s0 => /\ DOMAIN log[s] = 1..n /\ n \in Nat
                    /\ DOMAIN log'[s] = 1..(n + 1)
                    /\ log'[s][n + 1] = New(t, role)
      BY StoreGrows
    <3>3. QED
      BY <3>1, <3>2
  <2>4. s = s0 => i # n + 1
    BY <1>1, <2>3
  <2>5. s = s0 => i \in DOMAIN log[s] /\ log'[s][i] = log[s][i]
    BY <2>3, <2>4, StoreGrows
  <2>6. QED
    BY <2>1, <2>2, <2>5
<1>6. QED
  BY <1>4, <1>5

LEMMA ActivityStep ==
    ASSUME IInv, Next, ChatTypeOK', LocalsOK'
    PROVE  NeighboursOK' /\ StampOK' /\ ActivityIsRecent'
<1> USE DEF IInv, TurnInv
<1>0. overlapped' \subseteq Turns /\ clock' \in Time /\ clock <= clock
  BY DEF ChatTypeOK, Time
<1>1. ASSUME NEW s \in Sessions, CreateSession(s)
      PROVE  NeighboursOK' /\ StampOK' /\ ActivityIsRecent'
  <2>1. /\ s \notin open /\ open' = open \cup {s} /\ lastActiveAt'[s] = clock
        /\ \A r \in Sessions \ {s} : lastActiveAt'[r] = lastActiveAt[r]
        /\ log' = log /\ clock' = clock /\ pc' = pc /\ ctx' = ctx /\ overlapped' = overlapped
    BY <1>1 DEF CreateSession, hist, ChatTypeOK
  <2>2. NeighboursOK'
    BY <2>1, NeighboursStay
  <2>3. StampOK'
    BY <2>1 DEF StampOK, Crowded
  <2>4. ASSUME NEW r \in open', r # s
        PROVE  /\ lastActiveAt'[r] <= clock'
               /\ (\A t \in overlapped' : ctx'[t].session # r) =>
                     \A i \in DOMAIN log'[r] :
                        pc'[log'[r][i].turn] = "ok" => log'[r][i].at <= lastActiveAt'[r]
    BY <2>1, <2>4 DEF ActivityIsRecent, ChatTypeOK
  <2>5. /\ lastActiveAt'[s] <= clock'
        /\ \A i \in DOMAIN log'[s] : log'[s][i].at <= lastActiveAt'[s]
    BY <1>0, <2>1 DEF MessagesOK
  <2>6. ActivityIsRecent'
    BY <2>4, <2>5 DEF ActivityIsRecent
  <2>7. QED
    BY <2>2, <2>3, <2>6
<1>2. ASSUME NEW t \in Turns, NEW s \in Sessions, AssertSession(t, s)
      PROVE  NeighboursOK' /\ StampOK' /\ ActivityIsRecent'
  <2>1. /\ pc[t] = "idle" /\ pc'[t] \in {"ask", "NOT_FOUND"}
        /\ \A u \in Turns \ {t} : pc'[u] = pc[u] /\ ctx'[u] = ctx[u]
        /\ overlapped \subseteq overlapped'
        /\ UNCHANGED <<open, log, lastActiveAt, clock>>
    BY <1>2 DEF AssertSession, Goto, ChatTypeOK
  <2>2. t \notin overlapped
    BY <2>1 DEF LocalsOK
  <2>3. \A u \in overlapped : ctx'[u].session = ctx[u].session
    BY <2>1, <2>2 DEF ChatTypeOK
  <2>4. StampOK' /\ ActivityIsRecent'
    BY <1>0, <2>1, <2>3, ActivityStays
  <2>5. NeighboursOK'
    <3>1. CASE s \in open
      <4>1. ctx'[t].session = s
        BY <1>2, <3>1, <2>1, CtxRecords DEF AssertSession, ChatTypeOK
      <4>2. \A u \in Turns \ {t} :
               pc'[u] \in InFlight /\ ctx'[u].session = s => {u, t} \subseteq overlapped'
        BY <1>2, <2>1, <3>1 DEF AssertSession, Beside
      <4>3. QED
        BY <2>1, <4>1, <4>2 DEF NeighboursOK
    <3>2. CASE s \notin open
      <4>1. pc'[t] = "NOT_FOUND" /\ ctx' = ctx /\ overlapped' = overlapped
        BY <1>2, <3>2 DEF AssertSession, Goto, ChatTypeOK
      <4>2. QED
        BY <2>1, <4>1, NeighboursStay DEF InFlight
    <3>3. QED
      BY <3>1, <3>2
  <2>6. QED
    BY <2>4, <2>5
<1>3. ASSUME NEW t \in Turns, SaveQuestion(t)
      PROVE  NeighboursOK' /\ StampOK' /\ ActivityIsRecent'
  <2>1. /\ pc[t] \in InFlight /\ Store(t, "user") /\ "user" \in Roles
        /\ pc' = [pc EXCEPT ![t] = "bot"]
        /\ UNCHANGED <<open, lastActiveAt, clock, ctx, hist>>
    BY <1>3 DEF SaveQuestion, Goto, InFlight, Roles
  <2>2. StampOK' /\ ActivityIsRecent'
    BY <2>1, ActivityBesideStore
  <2>3. NeighboursOK'
    BY <2>1, NeighboursStay DEF ChatTypeOK, hist
  <2>4. QED
    BY <2>2, <2>3
<1>4. ASSUME NEW t \in Turns, BotAnswers(t) \/ BotAnswersMalformed(t) \/ BotFails(t)
      PROVE  NeighboursOK' /\ StampOK' /\ ActivityIsRecent'
  <2>1. /\ pc[t] = "bot" /\ pc' = [pc EXCEPT ![t] = "reply"]
        /\ \E c : ctx' = [ctx EXCEPT ![t].content = c]
        /\ UNCHANGED <<open, log, lastActiveAt, clock, overlapped>>
    BY <1>4 DEF BotAnswers, BotAnswersMalformed, BotFails, Goto, hist
  <2>2. ctx'[t].session = ctx[t].session /\ \A u \in Turns \ {t} : ctx'[u] = ctx[u]
    BY <2>1, CtxRecords DEF ChatTypeOK
  <2>3. pc'[t] = "reply" /\ \A u \in Turns \ {t} : pc'[u] = pc[u]
    BY <2>1 DEF ChatTypeOK
  <2>4. NeighboursOK'
    BY <2>1, <2>2, <2>3, NeighboursStay DEF InFlight
  <2>5. \A u \in overlapped : ctx'[u].session = ctx[u].session
    BY <2>2 DEF ChatTypeOK
  <2>6. StampOK' /\ ActivityIsRecent'
    BY <1>0, <2>1, <2>2, <2>3, <2>5, ActivityStays
  <2>7. QED
    BY <2>4, <2>6
<1>5. ASSUME NEW t \in Turns, SaveReply(t)
      PROVE  NeighboursOK' /\ StampOK' /\ ActivityIsRecent'
  <2>1. CASE ctx[t].content # "undefined"
    <3>1. /\ pc[t] \in InFlight /\ Store(t, "assistant") /\ "assistant" \in Roles
          /\ pc' = [pc EXCEPT ![t] = "stamp"]
          /\ UNCHANGED <<open, lastActiveAt, clock, ctx, hist>>
      BY <1>5, <2>1 DEF SaveReply, Goto, InFlight, Roles
    <3>2. StampOK' /\ ActivityIsRecent'
      BY <3>1, ActivityBesideStore
    <3>3. NeighboursOK'
      BY <3>1, NeighboursStay DEF ChatTypeOK, hist
    <3>4. QED
      BY <3>2, <3>3
  <2>2. CASE ctx[t].content = "undefined"
    <3>1. /\ pc' = [pc EXCEPT ![t] = "error"]
          /\ UNCHANGED <<open, log, lastActiveAt, clock, ctx, hist>>
      BY <1>5, <2>2 DEF SaveReply, Goto
    <3>2. \A u \in Turns : pc'[u] \in {pc[u], "error"}
      BY <3>1 DEF ChatTypeOK
    <3>3. NeighboursOK'
      BY <3>1, <3>2, NeighboursStay DEF InFlight, hist
    <3>4. StampOK' /\ ActivityIsRecent'
      BY <1>0, <3>1, <3>2, ActivityStays DEF hist
    <3>5. QED
      BY <3>3, <3>4
  <2>3. QED
    BY <2>1, <2>2
<1>6. ASSUME NEW t \in Turns, Stamp(t)
      PROVE  NeighboursOK' /\ StampOK' /\ ActivityIsRecent'
  <2>1. /\ pc[t] = "stamp" /\ pc' = [pc EXCEPT ![t] = "touch"]
        /\ ctx' = [ctx EXCEPT ![t].stamp = clock]
        /\ UNCHANGED <<open, log, lastActiveAt, clock, overlapped>>
    BY <1>6 DEF Stamp, Goto, hist
  <2>2. /\ ctx'[t].session = ctx[t].session /\ ctx'[t].stamp = clock
        /\ \A u \in Turns \ {t} : ctx'[u] = ctx[u]
    BY <2>1, CtxRecords DEF ChatTypeOK
  <2>3. pc'[t] = "touch" /\ \A u \in Turns \ {t} : pc'[u] = pc[u]
    BY <2>1 DEF ChatTypeOK
  <2>4. NeighboursOK'
    BY <2>1, <2>2, <2>3, NeighboursStay DEF InFlight
  <2>5. \A u \in overlapped : ctx'[u].session = ctx[u].session
    BY <2>2 DEF ChatTypeOK
  <2>6. ctx[t].session \in Sessions
    BY <2>1 DEF ChatTypeOK, InFlight
  <2>7. \A i \in DOMAIN log[ctx[t].session] : log[ctx[t].session][i].at <= clock
    BY <2>6 DEF MessagesOK
  <2>8. StampOK'
    <3> SUFFICES ASSUME NEW u \in Turns, pc'[u] = "touch",
                        \A w \in overlapped' : ctx'[w].session # ctx'[u].session,
                        NEW i \in DOMAIN log[ctx'[u].session]
                 PROVE  log[ctx'[u].session][i].at <= ctx'[u].stamp
      BY <2>1 DEF StampOK, Crowded
    <3>1. CASE u = t
      BY <2>2, <2>7, <3>1
    <3>2. CASE u # t
      <4>1. pc[u] = "touch" /\ ctx'[u] = ctx[u]
        BY <2>2, <2>3, <3>2
      <4>2. ~Crowded(ctx[u].session)
        BY <2>1, <2>5, <4>1 DEF Crowded
      <4>3. QED
        BY <4>1, <4>2 DEF StampOK
    <3>3. QED
      BY <3>1, <3>2
  <2>9. ActivityIsRecent'
    <3> SUFFICES ASSUME NEW s \in open
                 PROVE  /\ lastActiveAt[s] <= clock
                        /\ (\A u \in overlapped' : ctx'[u].session # s) =>
                              \A i \in DOMAIN log[s] :
                                 pc'[log[s][i].turn] = "ok" => log[s][i].at <= lastActiveAt[s]
      BY <2>1 DEF ActivityIsRecent
    <3>1. s \in Sessions
      BY DEF ChatTypeOK
    <3>2. ASSUME NEW i \in DOMAIN log[s], pc'[log[s][i].turn] = "ok"
          PROVE  pc[log[s][i].turn] = "ok"
      <4>1. log[s][i] \in Message
        BY <3>1 DEF ChatTypeOK
      <4>2. QED
        BY <2>3, <3>2, <4>1 DEF Message
    <3>3. QED
      BY <2>1, <2>5, <3>2 DEF ActivityIsRecent
  <2>10. QED
    BY <2>4, <2>8, <2>9
<1>7. ASSUME NEW t \in Turns, Touch(t)
      PROVE  NeighboursOK' /\ StampOK' /\ ActivityIsRecent'
  <2> DEFINE s0 == ctx[t].session
  <2>1. /\ pc[t] = "touch" /\ pc' = [pc EXCEPT ![t] = "ok"]
        /\ lastActiveAt' = [lastActiveAt EXCEPT ![s0] = ctx[t].stamp]
        /\ UNCHANGED <<open, log, clock, ctx, overlapped>>
    BY <1>7 DEF Touch, Goto, hist
  <2>2. pc'[t] = "ok" /\ \A u \in Turns \ {t} : pc'[u] = pc[u]
    BY <2>1 DEF ChatTypeOK
  <2>3. NeighboursOK'
    BY <2>1, <2>2, NeighboursStay DEF InFlight
  <2>4. StampOK'
    BY <2>1, <2>2 DEF StampOK, Crowded
  <2>5. ActivityIsRecent'
    <3> SUFFICES ASSUME NEW s \in open
                 PROVE  /\ lastActiveAt'[s] <= clock
                        /\ (\A u \in overlapped : ctx[u].session # s) =>
                              \A i \in DOMAIN log[s] :
                                 pc'[log[s][i].turn] = "ok" => log[s][i].at <= lastActiveAt'[s]
      BY <2>1 DEF ActivityIsRecent
    <3>1. s \in Sessions
      BY DEF ChatTypeOK
    <3>2. CASE s = s0
      <4>1. lastActiveAt'[s] = ctx[t].stamp
        BY <2>1, <3>1, <3>2 DEF ChatTypeOK
      <4>2. ctx[t].stamp <= clock
        BY <2>1 DEF LocalsOK
      <4>3. (\A u \in overlapped : ctx[u].session # s) =>
               \A i \in DOMAIN log[s] : log[s][i].at <= ctx[t].stamp
        BY <2>1, <3>2 DEF StampOK, Crowded
      <4>4. QED
        BY <4>1, <4>2, <4>3
    <3>3. CASE s # s0
      <4>1. lastActiveAt'[s] = lastActiveAt[s]
        BY <2>1, <3>1, <3>3 DEF ChatTypeOK
      <4>2. ASSUME NEW i \in DOMAIN log[s], pc'[log[s][i].turn] = "ok"
            PROVE  pc[log[s][i].turn] = "ok"
        <5>1. log[s][i] \in Message /\ ctx[log[s][i].turn].session = s
          BY <3>1 DEF ChatTypeOK, MessagesOK
        <5>2. QED
          BY <2>2, <3>3, <4>2, <5>1 DEF Message
      <4>3. QED
        BY <4>1, <4>2 DEF ActivityIsRecent
    <3>4. QED
      BY <3>2, <3>3
  <2>6. QED
    BY <2>3, <2>4, <2>5
<1>8. ASSUME NEW t \in Turns, Reject(t)
      PROVE  NeighboursOK' /\ StampOK' /\ ActivityIsRecent'
  <2>1. /\ \A u \in Turns : pc'[u] \in {pc[u], "error"}
        /\ UNCHANGED <<open, log, lastActiveAt, clock, ctx, overlapped>>
    BY <1>8 DEF Reject, Goto, ChatTypeOK
  <2>2. NeighboursOK'
    BY <2>1, NeighboursStay DEF InFlight
  <2>3. StampOK' /\ ActivityIsRecent'
    BY <1>0, <2>1, ActivityStays
  <2>4. QED
    BY <2>2, <2>3
<1>9. CASE Crash
  <2>1. /\ \A u \in Turns : pc'[u] \in {pc[u], "dead"}
        /\ UNCHANGED <<open, log, lastActiveAt, clock, ctx, overlapped>>
    BY <1>9 DEF Crash
  <2>2. NeighboursOK'
    BY <2>1, NeighboursStay DEF InFlight
  <2>3. StampOK' /\ ActivityIsRecent'
    BY <1>0, <2>1, ActivityStays
  <2>4. QED
    BY <2>2, <2>3
<1>10. CASE Tick
  <2>1. clock <= clock' /\ UNCHANGED <<open, log, lastActiveAt, pc, ctx, overlapped>>
    BY <1>10 DEF Tick, hist, ChatTypeOK, Time
  <2>2. NeighboursOK'
    BY <2>1, NeighboursStay
  <2>3. StampOK' /\ ActivityIsRecent'
    BY <1>0, <2>1, ActivityStays
  <2>4. QED
    BY <2>2, <2>3
<1>11. QED
  BY <1>1, <1>2, <1>3, <1>4, <1>5, <1>6, <1>7, <1>8, <1>9, <1>10 DEF Next, Resume

-----------------------------------------------------------------------------
(* Theorems *)

Safety == Init /\ [][Next]_vars

LEMMA InitInv == Init => IInv
<1> SUFFICES ASSUME Init PROVE IInv
  OBVIOUS
<1>1. NoCtx \in [session : Sessions \cup {"none"}, content : Content, stamp : Time]
  BY DEF NoCtx, Content, Time
<1>2. ChatTypeOK
  BY <1>1 DEF Init, ChatTypeOK, InFlight, Outcome, Time
<1>3. LocalsOK /\ NeighboursOK /\ StampOK
  BY DEF Init, NoCtx, LocalsOK, NeighboursOK, StampOK, InFlight
<1>4. \A s \in Sessions : DOMAIN log[s] = {}
  <2>1. \A s \in Sessions : log[s] = <<>>
    BY DEF Init
  <2>2. DOMAIN <<>> = {}
    OBVIOUS
  <2>3. QED
    BY <2>1, <2>2
<1>5. MessagesOK /\ ActivityIsRecent
  BY <1>2, <1>4 DEF Init, MessagesOK, ActivityIsRecent
<1>6. PlacesOK
  BY <1>4 DEF Init, PlacesOK, PlacesOf, Places
<1>7. OutageIsHidden
  BY DEF Init, OutageIsHidden
<1>8. QED
  BY <1>2, <1>3, <1>5, <1>6, <1>7 DEF IInv, TurnInv

LEMMA Stutter == IInv /\ UNCHANGED vars => IInv'
<1> SUFFICES ASSUME IInv, UNCHANGED vars PROVE IInv'
  OBVIOUS
<1> USE DEF vars, hist, IInv, TurnInv
<1>1. ChatTypeOK' /\ LocalsOK'
  BY DEF ChatTypeOK, LocalsOK
<1>2. MessagesOK' /\ PlacesOK'
  BY DEF MessagesOK, PlacesOK, PlacesOf, Places
<1>3. OutageIsHidden' /\ NeighboursOK' /\ StampOK' /\ ActivityIsRecent'
  BY DEF OutageIsHidden, NeighboursOK, StampOK, Crowded, ActivityIsRecent
<1>4. QED
  BY <1>1, <1>2, <1>3

(* The invariant: the log holds what the call a turn waits for implies, and   *)
(* turns that run beside each other are known.                                *)
THEOREM Invariance == Safety => []IInv
<1>1. IInv /\ [Next]_vars => IInv'
  <2> SUFFICES ASSUME IInv, [Next]_vars PROVE IInv'
    OBVIOUS
  <2>1. CASE Next
    <3>1. TurnInv' /\ ChatTypeOK' /\ LocalsOK'
      BY <2>1, TurnStep DEF IInv, TurnInv
    <3>2. QED
      BY <2>1, <3>1, ActivityStep DEF IInv
  <2>2. CASE UNCHANGED vars
    BY <2>2, Stutter
  <2>3. QED
    BY <2>1, <2>2
<1>2. QED
  BY InitInv, <1>1, PTL DEF Safety

LEMMA SpecIsSafe == Spec => Safety
BY PTL DEF Spec, Safety

(* sendMessage: whatever overlaps, breaks off or is refused, each turn has at *)
(* most one question and one reply in the session it was sent to, the reply   *)
(* behind the question; a question is left alone only by a turn under way,    *)
(* cut short or answered without an answer.                                   *)
THEOREM RepliesStayWithQuestions == Spec => []RepliesMatchQuestions
<1>1. IInv => RepliesMatchQuestions
  BY PlacesAreReplies DEF IInv, TurnInv
<1>2. QED
  BY <1>1, Invariance, SpecIsSafe, PTL

(* The catch of sendMessage: an assistant that is down never fails a request. *)
THEOREM OutagesAreHidden == Spec => []OutageIsHidden
<1>1. IInv => OutageIsHidden
  BY DEF IInv, TurnInv
<1>2. QED
  BY <1>1, Invariance, SpecIsSafe, PTL

(* The update that ends sendMessage: lastActiveAt is never ahead of the clock *)
(* and, in a session whose turns never overlapped, never behind a message     *)
(* whose turn was answered.                                                   *)
THEOREM ActivityKeepsUp == Spec => []ActivityIsRecent
<1>1. IInv => ActivityIsRecent
  BY DEF IInv
<1>2. QED
  BY <1>1, Invariance, SpecIsSafe, PTL
=============================================================================
