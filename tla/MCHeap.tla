------------------------------ MODULE MCHeap ------------------------------
(* Small instance of Heap: a table, a closure and an instance whose C++ part
   owns a handle of the table. *)
EXTENDS Heap

MCKind == [o \in Objects |-> IF o = 1 THEN "table"
                             ELSE IF o = 2 THEN "closure"
                             ELSE IF o = 3 THEN "instance" ELSE "table"]
MCOwns == [o \in Objects |-> IF o = 3 /\ 1 \in Objects THEN 1 ELSE None]
============================================================================
