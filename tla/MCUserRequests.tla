--------------------------- MODULE MCUserRequests ---------------------------
(* Model-checking instance of UserRequests. *)
EXTENDS UserRequests, TLC

Symmetry == Permutations(Handlers)
=============================================================================
