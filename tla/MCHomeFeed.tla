----------------------------- MODULE MCHomeFeed -----------------------------
(* Model-checking instance of HomeFeed: three monuments and a city, one        *)
(* persona, and snapshots that repeat an item or name one that is taken off.   *)
EXTENDS HomeFeed, TLC

MCSuits == [p \in Personas |-> {1, 3}]
MCPayloads == {<<>>, <<2, 2>>, <<9, 1, 3>>}
Symmetry == Permutations(Raters)

(* Two ratings of one monument matter when averages are compared, which is     *)
(* checked without a snapshot; with one, the ratings are at first of one rater. *)
OneRater == \E u \in Raters : \A v \in Raters \ {u}, m \in Monuments : rating[v][m] = 0
MCInit == Init /\ (snapshot # <<>> => OneRater)
MCSpec == MCInit /\ [][Next]_vars
=============================================================================
