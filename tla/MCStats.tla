------------------------------ MODULE MCStats ------------------------------
(* Two kinds of memories in a collection, for StatsCache. *)
EXTENDS StatsCache

\* One kind matches the filter, the other one does not; or each matches its own.
OneMatches == {[k \in Kinds |-> IF k = "note" THEN {All, "p"} ELSE {All}]}
OwnFilters == {[k \in Kinds |-> IF k = "note" THEN {All, "p"} ELSE {All, "q"}]}
=============================================================================
