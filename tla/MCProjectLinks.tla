--------------------------- MODULE MCProjectLinks ---------------------------
(* A side project's contribution in two projects, one of a job in one. *)
EXTENDS ProjectLinks

Seeds == {<<"side", "p1">>, <<"side", "p2">>, <<"job", "p1">>}
Rows  == [l \in Link |-> (IF l[1] = "side" THEN 0 ELSE 2) + (IF l[2] = "p1" THEN 0 ELSE 1)]
=============================================================================
