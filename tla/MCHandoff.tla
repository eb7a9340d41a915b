----------------------------- MODULE MCHandoff -----------------------------
(* Three releases that rank one universe, and a fourth that ranks another. *)
EXTENDS PlanHandoff

MCUniverse == [r \in Releases |-> IF r = 4 THEN "new" ELSE "old"]
=============================================================================
