--------------------------- MODULE UnracedFamilies ---------------------------
(***************************************************************************)
(* What the documentation promises of a family of sessions, and the code   *)
(* keeps for every family whose handlers never overlap: rotation leaves    *)
(* one usable refresh token, an answered reuse leaves none, and an         *)
(* answered logout-all leaves none of what it found.  (AuthSessions states *)
(* the same without the condition; its run with overlapping refreshes      *)
(* shows that the code does not keep it then.)                             *)
(***************************************************************************)
EXTENDS AccessTokens

VARIABLE raced      \* history: families two of whose tokens' handlers overlapped

(* A family is raced once two handlers work on it at the same time, or a       *)
(* logout-all of its owner is answered while a refresh of it is under way.     *)
At(f) == {r \in Requests : ctx[r].family = f}
RacedInit == AccessInit /\ raced = {}
RacedNext ==
    /\ AccessNext
    /\ raced' = raced \cup {f \in Sids : Cardinality(At(f)') > 1}
                      \cup {f \in ended' : ended' # ended /\ At(f) # {}}
RacedSpec == RacedInit /\ [][RacedNext]_<<accessVars, raced>>

(* A family has at most one usable refresh token, unless its handlers raced. *)
RotationIsExclusive ==
    \A f \in Sids \ raced : Cardinality({s \in Family(f) : session[s].state = "live"}) <= 1

(* A reuse that was answered leaves nothing of an unraced family, for good. *)
ReuseIsFinal == \A f \in reused \ raced : \A s \in Family(f) : ~HasRow(s)

(* A logout-all that was answered leaves no unraced family it found with a    *)
(* usable refresh token, for good.                                            *)
LogoutAllIsFinal == \A f \in ended \ raced : \A s \in Family(f) : session[s].state # "live"
=============================================================================
