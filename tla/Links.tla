-------------------------------- MODULE Links --------------------------------
(***************************************************************************)
(* Singly linked lists in an array of n nodes, as the hash tables of the   *)
(* VM keep them: next[i] is the node after node i, or NULL.  The module    *)
(* has no state.                                                           *)
(***************************************************************************)
EXTENDS Integers

NULL == -1      \* the null node pointer

\* The nodes that a loop "for (p = i; p; p = p->next)" visits: what can be
\* reached from i by fewer than n links.
Walk(next, n, i) ==
  LET seen[m \in 0 .. n - 1] ==
        IF m = 0 THEN {i} ELSE {i} \union {next[j] : j \in seen[m - 1] \ {NULL}}
  IN  seen[n - 1] \intersect (0 .. n - 1)

\* The node of S that such a loop stops at, where S has at most one; or NULL.
OneOf(S) == IF S = {} THEN NULL ELSE CHOOSE i \in S : TRUE

\* Every such loop comes to an end.
Acyclic(next, n) ==
  \A i \in 0 .. n - 1 : \E j \in Walk(next, n, i) : next[j] = NULL

\* No two lists run into each other.
SingleFile(next, n) ==
  \A i, j \in 0 .. n - 1 : next[i] = next[j] /\ next[i] # NULL => i = j

\* Node i is the first of its list.
NoLinkTo(next, n, i) == \A j \in 0 .. n - 1 : next[j] # i
============================================================================
