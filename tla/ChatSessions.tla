----------------------------- MODULE ChatSessions -----------------------------
(***************************************************************************)
(* The chat proxy: src/src/modules/ai-chat/ai-chat.service.ts and its HTTP *)
(* client of the assistant.  One user.                                     *)
(*                                                                         *)
(* A turn is one call of sendMessage: it looks the session up, stores the  *)
(* question, asks the assistant, stores the reply (or a fallback) and then *)
(* moves the session's lastActiveAt.  These are five awaited calls with    *)
(* the turns of other requests between them; each may reject, and the      *)
(* process may stop between any two.                                       *)
(*                                                                         *)
(* A definition preceded by a form of it that is named after a mistake is  *)
(* mutated to it in PROJECT.json; nothing else uses it.                    *)
(***************************************************************************)
EXTENDS Naturals, Sequences

CONSTANTS
    Sessions,   \* ids of chat sessions
    Turns,      \* calls of sendMessage
    MaxClock    \* bound on the clock

ASSUME ChatAssumption == MaxClock \in Nat

VARIABLES
    open,           \* sessions of the user that exist
    log,            \* per session: its messages, in the order of their inserts
    lastActiveAt,   \* per session
    clock,
    pc,             \* per turn: the call it waits for, or how it ended
    ctx,            \* per turn: its locals
    (* History variables: read by properties only. *)
    faulted,        \* turns cut short by a rejected query or a crash
    malformed,      \* turns whose assistant answered without an answer
    overlapped      \* turns that ran beside another one of their session

hist == <<faulted, malformed, overlapped>>
vars == <<open, log, lastActiveAt, clock, pc, ctx, hist>>

Time == 0..MaxClock
Roles == {"user", "assistant"}
Content == {"unset", "answer", "fallback", "undefined"}
InFlight == {"ask", "bot", "reply", "stamp", "touch"}
Outcome == {"ok", "NOT_FOUND", "error", "dead"}
Message == [turn : Turns, role : Roles, at : Time]
NoCtx == [session |-> "none", content |-> "unset", stamp |-> 0]

TypeOK ==
    /\ open \subseteq Sessions
    /\ \A s \in Sessions : \A i \in DOMAIN log[s] : log[s][i] \in Message
    /\ lastActiveAt \in [Sessions -> Time]
    /\ clock \in Time
    /\ pc \in [Turns -> {"idle"} \cup InFlight \cup Outcome]
    /\ ctx \in [Turns -> [session : Sessions \cup {"none"}, content : Content, stamp : Time]]
    /\ \A t \in Turns : pc[t] \in InFlight => ctx[t].session \in open

Init ==
    /\ open = {}
    /\ log = [s \in Sessions |-> <<>>]
    /\ lastActiveAt = [s \in Sessions |-> 0]
    /\ clock = 0
    /\ pc = [t \in Turns |-> "idle"]
    /\ ctx = [t \in Turns |-> NoCtx]
    /\ faulted = {} /\ malformed = {} /\ overlapped = {}

-----------------------------------------------------------------------------

Goto(t, label) == pc' = [pc EXCEPT ![t] = label]

(* The insert of a message, with the time as the column's default. *)
Store(t, role) ==
    log' = [log EXCEPT ![ctx[t].session] =
                Append(@, [turn |-> t, role |-> role, at |-> clock])]

CreateSession(s) ==
    /\ s \notin open
    /\ open' = open \cup {s}
    /\ lastActiveAt' = [lastActiveAt EXCEPT ![s] = clock]
    /\ UNCHANGED <<log, clock, pc, ctx, hist>>

Beside(s) == {u \in Turns : pc[u] \in InFlight /\ ctx[u].session = s}

(* sendMessage up to assertSession. *)
AssertSession(t, s) ==
    /\ pc[t] = "idle"
    /\ \/ /\ s \in open
          /\ Goto(t, "ask")
          /\ ctx' = [ctx EXCEPT ![t].session = s]
          /\ overlapped' = overlapped \cup
                (IF Beside(s) = {} THEN {} ELSE Beside(s) \cup {t})
       \/ /\ s \notin open
          /\ Goto(t, "NOT_FOUND")
          /\ UNCHANGED <<ctx, overlapped>>
    /\ UNCHANGED <<open, log, lastActiveAt, clock, faulted, malformed>>

SaveQuestion(t) ==
    /\ pc[t] = "ask"
    /\ Store(t, "user")
    /\ Goto(t, "bot")
    /\ UNCHANGED <<open, lastActiveAt, clock, ctx, hist>>

BotAnswers(t) ==
    /\ pc[t] = "bot"
    /\ ctx' = [ctx EXCEPT ![t].content = "answer"]
    /\ Goto(t, "reply")
    /\ UNCHANGED <<open, log, lastActiveAt, clock, hist>>

(* A 2xx body whose field "answer" is missing or not a string. *)
BotAnswersMalformed(t) ==
    /\ pc[t] = "bot"
    /\ ctx' = [ctx EXCEPT ![t].content = "undefined"]
    /\ malformed' = malformed \cup {t}
    /\ Goto(t, "reply")
    /\ UNCHANGED <<open, log, lastActiveAt, clock, faulted, overlapped>>

BotFailsUncaught(t) ==
    /\ pc[t] = "bot"
    /\ Goto(t, "error")
    /\ UNCHANGED <<open, log, lastActiveAt, clock, ctx, hist>>

(* Timeout, refused connection, or a status outside 2xx: caught. *)
BotFails(t) ==
    /\ pc[t] = "bot"
    /\ ctx' = [ctx EXCEPT ![t].content = "fallback"]
    /\ Goto(t, "reply")
    /\ UNCHANGED <<open, log, lastActiveAt, clock, hist>>

SaveReplyOfAnswers(t) ==
    /\ pc[t] = "reply"
    /\ \/ ctx[t].content = "answer" /\ Store(t, "assistant") /\ Goto(t, "stamp")
       \/ ctx[t].content = "fallback" /\ UNCHANGED log /\ Goto(t, "stamp")
       \/ ctx[t].content = "undefined" /\ UNCHANGED log /\ Goto(t, "error")
    /\ UNCHANGED <<open, lastActiveAt, clock, ctx, hist>>

(* Prisma refuses content that is no string before it sends anything. *)
SaveReply(t) ==
    /\ pc[t] = "reply"
    /\ \/ /\ ctx[t].content # "undefined"
          /\ Store(t, "assistant")
          /\ Goto(t, "stamp")
       \/ /\ ctx[t].content = "undefined"
          /\ Goto(t, "error")
          /\ UNCHANGED log
    /\ UNCHANGED <<open, lastActiveAt, clock, ctx, hist>>

(* new Date(), when the insert has been acknowledged. *)
Stamp(t) ==
    /\ pc[t] = "stamp"
    /\ ctx' = [ctx EXCEPT ![t].stamp = clock]
    /\ Goto(t, "touch")
    /\ UNCHANGED <<open, log, lastActiveAt, clock, hist>>

TouchAsOfQuestion(t) ==
    /\ pc[t] = "touch"
    /\ lastActiveAt' = [lastActiveAt EXCEPT ![ctx[t].session] =
            SelectSeq(log[ctx[t].session], LAMBDA m : m.turn = t)[1].at]
    /\ Goto(t, "ok")
    /\ UNCHANGED <<open, log, clock, ctx, hist>>

Touch(t) ==
    /\ pc[t] = "touch"
    /\ lastActiveAt' = [lastActiveAt EXCEPT ![ctx[t].session] = ctx[t].stamp]
    /\ Goto(t, "ok")
    /\ UNCHANGED <<open, log, clock, ctx, hist>>

(* A query rejects.  One that was committed all the same is the normal step,  *)
(* followed by this one.                                                      *)
Reject(t) ==
    /\ pc[t] \in InFlight \ {"bot", "stamp"}
    /\ Goto(t, "error")
    /\ faulted' = faulted \cup {t}
    /\ UNCHANGED <<open, log, lastActiveAt, clock, ctx, malformed, overlapped>>

(* The process stops: every turn under way is lost. *)
Crash ==
    /\ \E t \in Turns : pc[t] \in InFlight
    /\ pc' = [t \in Turns |-> IF pc[t] \in InFlight THEN "dead" ELSE pc[t]]
    /\ faulted' = faulted \cup {t \in Turns : pc[t] \in InFlight}
    /\ UNCHANGED <<open, log, lastActiveAt, clock, ctx, malformed, overlapped>>

Tick ==
    /\ clock < MaxClock
    /\ clock' = clock + 1
    /\ UNCHANGED <<open, log, lastActiveAt, pc, ctx, hist>>

Resume(t) ==
    \/ SaveQuestion(t)
    \/ BotAnswers(t) \/ BotAnswersMalformed(t) \/ BotFails(t)
    \/ SaveReply(t) \/ Stamp(t) \/ Touch(t)

Next ==
    \/ \E s \in Sessions : CreateSession(s)
    \/ \E t \in Turns, s \in Sessions : AssertSession(t, s)
    \/ \E t \in Turns : Resume(t) \/ Reject(t)
    \/ Crash
    \/ Tick

(* An awaited call settles: queries do, and the client of the assistant has a *)
(* timeout.                                                                   *)
Spec == Init /\ [][Next]_vars /\ \A t \in Turns : WF_vars(Resume(t))

-----------------------------------------------------------------------------
(* The message of a turn with a role, as places in a session's log. *)
Places(s, t, role) == {i \in DOMAIN log[s] : log[s][i].turn = t /\ log[s][i].role = role}

(* However turns overlap and break off: a reply stands behind the question of *)
(* its own turn, in the log and in time, each turn has at most one of both,   *)
(* and a question without a reply belongs to a turn that is under way, was    *)
(* cut short, or got no usable answer.                                        *)
RepliesMatchQuestions ==
    \A s \in Sessions, t \in Turns :
        /\ \A i, k \in Places(s, t, "user") : i = k
        /\ \A i, k \in Places(s, t, "assistant") : i = k
        /\ \A k \in Places(s, t, "assistant") :
              \E i \in Places(s, t, "user") : i < k /\ log[s][i].at <= log[s][k].at
        /\ Places(s, t, "user") # {} /\ Places(s, t, "assistant") = {} =>
              pc[t] \in {"bot", "reply"} \/ t \in faulted \cup malformed

(* A turn ends with an error only if the database or the process failed it,   *)
(* or the assistant answered with a body that has no answer: an assistant     *)
(* that is down or slow shows as the fallback reply.                          *)
OutageIsHidden == \A t \in Turns : pc[t] = "error" => t \in faulted \cup malformed

(* Of a session whose turns did not overlap, lastActiveAt is no earlier than  *)
(* any of its messages whose turn has been answered, and no later than now.   *)
(* With overlap it may go back: the date is taken before the update is sent.  *)
ActivityIsRecent ==
    \A s \in open :
        /\ lastActiveAt[s] <= clock
        /\ (\A t \in overlapped : ctx[t].session # s) =>
              \A i \in DOMAIN log[s] :
                  pc[log[s][i].turn] = "ok" => log[s][i].at <= lastActiveAt[s]

(* A stored question gets a reply, unless its turn is cut short or the answer *)
(* is malformed.                                                              *)
QuestionIsAnswered ==
    \A t \in Turns, s \in Sessions :
        Places(s, t, "user") # {} ~>
            Places(s, t, "assistant") # {} \/ t \in faulted \cup malformed
=============================================================================
