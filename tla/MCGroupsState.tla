--------------------------- MODULE MCGroupsState ---------------------------
(* Inputs for TLC: three solutions, in two groups or in the single group of*)
(* a query that groups by nothing, with a plain and a DISTINCT aggregate   *)
(* over equal and different terms, unbound variables and errors.           *)
EXTENDS GroupsState

CONSTANTS undefined, noSolution

MCSolutions == {1, 2, 3}
MCKeys == {[s \in MCSolutions |-> IF s = 3 THEN "B" ELSE "A"],
           [s \in MCSolutions |-> "all"]}
MCColumns == {<<"t", "t", "t">>, <<"t", "u", "unbound">>, <<"failed", "t", "t">>,
              <<"unbound", "t", "t">>, <<"unbound", "unbound", "failed">>}
MCInputs ==
  {[key |-> k, evaluation |-> [s \in MCSolutions |-> [a \in {"plain", "distinct"} |-> c[s]]]] :
     k \in MCKeys, c \in MCColumns}
=============================================================================
