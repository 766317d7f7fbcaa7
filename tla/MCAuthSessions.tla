--------------------------- MODULE MCAuthSessions ---------------------------
(* Model-checking instance of AuthSessions. *)
EXTENDS AuthSessions, TLC

(* Ids, e-mails and handler slots are interchangeable. *)
Symmetry == Permutations(Sids) \cup Permutations(Requests) \cup Permutations(Emails)

(* What the concurrent run tells states apart by: all that a later step or one *)
(* of its properties reads.  reply, reused and ended are written only, and the *)
(* expiry of a row that is not live is never looked at.                        *)
Relevant ==
    <<account, session, {s \in expired : session[s].state = "live"}, pc, ctx, uses>>
=============================================================================
