----------------------- MODULE MCRecommendationRefresh -----------------------
(* Model-checking instance of RecommendationRefresh. *)
EXTENDS RecommendationRefresh, TLC

(* Handler slots and job ids are interchangeable. *)
Symmetry == Permutations(Handlers) \cup Permutations(Jobs)
=============================================================================
