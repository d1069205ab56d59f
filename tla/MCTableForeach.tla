--------------------------- MODULE MCTableForeach --------------------------
(* A small instance of TableForeach: integer keys are their own hash. *)
EXTENDS TableForeach

MCHash == [k \in Keys |-> k]

MCAddr == [k \in Keys |-> k]
============================================================================
