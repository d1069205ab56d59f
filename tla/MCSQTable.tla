----------------------------- MODULE MCSQTable -----------------------------
(* Small instances of SQTable: integer keys are their own hash. *)
EXTENDS SQTable

MCHash == [k \in Keys |-> k]

MCAddr == [k \in Keys |-> k]
============================================================================
