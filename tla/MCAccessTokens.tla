--------------------------- MODULE MCAccessTokens ---------------------------
(* Model-checking instance of AccessTokens, with the promises of               *)
(* UnracedFamilies.                                                            *)
EXTENDS UnracedFamilies, TLC

Symmetry == Permutations(Sids) \cup Permutations(Requests) \cup Permutations(Emails)

(* What the run tells states apart by: reply is written only, the expiry of a  *)
(* row that is not live is never looked at, nothing is promised of a raced     *)
(* family, and uses is read by a property of another run.                      *)
Relevant ==
    <<account, session, {s \in expired : session[s].state = "live"}, pc, ctx, lapsed, gate,
      raced, reused \ raced, ended \ raced>>
=============================================================================
