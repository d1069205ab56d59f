----------------------------- MODULE MCValues -----------------------------
(***************************************************************************)
(* Values of scripts and of the host, one part at a time.  "strings": a    *)
(* small instance of SQStringTable; texts are their own hashes, so that 1, *)
(* 5 and 9 share a bucket of four, 1 and 9 of eight; the fifth string      *)
(* makes the table grow.  "stack": the C interface on every stack of up to *)
(* three values of every type.                                             *)
(***************************************************************************)
EXTENDS SQStringTable, HostApi

VARIABLE part

FiveTexts == {1, 2, 3, 5, 9}
TextHash == [c \in FiveTexts |-> c]
StringRefs == [c \in FiveTexts |-> IF c = 5 THEN 2 ELSE 1]
ValueTypes == {"null", "number", "string", "table", "array", "array0", "class", "instance",
               "closure", "nativeclosure", "userdata", "generator", "weakref", "thread",
               "userpointer"}

\* A part that does not run stays in its initial state.
VInit == part \in {"strings", "stack"} /\ Init /\ HostInit

VNext ==
  /\ UNCHANGED part
  /\ \/ part = "strings" /\ Next /\ UNCHANGED hostVars
     \/ part = "stack" /\ HostNext /\ UNCHANGED vars

VSpec == VInit /\ [][VNext]_<<part, vars, hostVars>>
===========================================================================
