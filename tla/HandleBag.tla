----------------------------- MODULE HandleBag -----------------------------
(***************************************************************************)
(* What the handles of the embedding program promise: a bag of objects.    *)
(* sq_addref puts one in, sq_release takes one out and answers whether it  *)
(* was the last one of its object.                                         *)
(***************************************************************************)
EXTENDS Naturals

CONSTANTS Objects, NoAnswer

VARIABLES
  bag,      \* how many handles of each object are out
  answer    \* what the last call returned

Init == bag = [o \in Objects |-> 0] /\ answer = NoAnswer

AddRef(o) == answer' = NoAnswer /\ bag' = [bag EXCEPT ![o] = @ + 1]

GetRefCount(o) == answer' = <<"count", bag[o]>> /\ UNCHANGED bag

Release(o) ==
  /\ bag[o] > 0
  /\ answer' = <<"last", bag[o] = 1>>
  /\ bag' = [bag EXCEPT ![o] = @ - 1]

Next == \E o \in Objects : AddRef(o) \/ GetRefCount(o) \/ Release(o)

Spec == Init /\ [][Next]_<<bag, answer>>
============================================================================
