----------------------------- MODULE MCCatalogue -----------------------------
(* Model-checking instance of Catalogue and of the walks of CursorPaging: two *)
(* tables whose ids interleave with time, as the keys "city:..." <            *)
(* "monument:..." of a search do, and names that tie or order rows otherwise.  *)
EXTENDS Catalogue

MCTableOf == [r \in Rows |-> IF r <= 1 THEN "city" ELSE "monument"]
MCNameRank == [r \in Rows |-> IF r = 3 THEN 2 ELSE 1]
MCOrder == <<"monument", "city">>
MCPicks == [t \in Tables |-> 1]
MCFavorites == {{2}, {1, 3}}

(* Bound: the single requests are made before the walk begins. *)
MCNext == CatalogueNext /\ (task' # "none" => scope' = {})
MCSpec == CatalogueInit /\ [][MCNext]_catalogueVars

(* What the run tells states apart by: of the histories, what the properties  *)
(* of the request under way read.                                             *)
Seen ==
    CASE task = "suggestions" -> <<published, lasting>>
      [] task \in {"detail", "children"} -> <<published \cap {wanted}, {}>>
      [] OTHER -> <<found \ published, lasting>>
Relevant == <<vars, lookup, Seen>>
=============================================================================
