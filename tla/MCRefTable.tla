----------------------------- MODULE MCRefTable -----------------------------
(***************************************************************************)
(* Small instance of RefTable: objects 0 and 4 share a bucket of a block   *)
(* of four or eight nodes, 1 and 5 of a block of four.                     *)
(***************************************************************************)
EXTENDS RefTable

FiveObjects == {0, 1, 2, 4, 5}
ObjectHash == [o \in FiveObjects |-> IF o = 4 THEN 8 ELSE o]
HandleRefs == [o \in FiveObjects |-> IF o = 4 THEN 2 ELSE 1]
=============================================================================
