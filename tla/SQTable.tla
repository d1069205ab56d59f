------------------------------ MODULE SQTable ------------------------------
(***************************************************************************)
(* One table (squirrel/sqtable.cpp) under any sequence of its operations.  *)
(* ret is what the last operation returned to its caller.                  *)
(***************************************************************************)
EXTENDS HashNodes

CONSTANTS
  NotFound,     \* what Get hands out for an absent key
  InitSizes,    \* the node counts a table is created with
  MaxNodes      \* bound: operations that would grow the array beyond it
                \* are not explored

ASSUME NotFoundAssumption == NotFound \notin Vals \union BOOLEAN
ASSUME SizesAssumption == InitSizes \subseteq Nat \ {0} /\ MaxNodes \in Nat

VARIABLES tab, ret

vars == <<tab, ret>>

TypeOK ==
  /\ IsTable(tab)
  /\ ret \in BOOLEAN \union Vals \union {NotFound}

Init ==
  /\ \E n \in InitSizes : tab = AllocNodes(n)
  /\ ret = FALSE

NewSlot(k, v) ==
  LET res == NewSlotIn(tab, k, v)
  IN  /\ res.tab.size <= MaxNodes
      /\ tab' = res.tab
      /\ ret' = res.ret

Set(k, v) ==
  IF GetNode(tab, k) = NULL
  THEN ret' = FALSE /\ UNCHANGED tab
  ELSE ret' = TRUE /\ tab' = SetVal(tab, GetNode(tab, k), v)

Get(k) ==
  /\ ret' = IF GetNode(tab, k) = NULL THEN NotFound
                                      ELSE tab.val[GetNode(tab, k)]
  /\ UNCHANGED tab

Remove(k) ==
  LET res == RemoveFrom(tab, k)
  IN  /\ res.size <= MaxNodes
      /\ tab' = res
      /\ UNCHANGED ret

Clear(rehash) ==
  LET res == ClearTable(tab, rehash)
  IN  /\ res.size <= MaxNodes
      /\ tab' = res
      /\ UNCHANGED ret

Next ==
  \/ \E k \in Keys, v \in Vals : NewSlot(k, v) \/ Set(k, v)
  \/ \E k \in Keys : Get(k) \/ Remove(k)
  \/ \E rehash \in BOOLEAN : Clear(rehash)

Spec == Init /\ [][Next]_vars

----------------------------------------------------------------------------
(* Safety of the node array *)

\* The node array is Sound: what every operation relies on, and the inductive
\* invariant that the properties below follow from.
NodesInv == Sound(tab)

\* The free pointer rests on a node that is free and ends its chain, and every
\* link of the array leads above it: a node that is handed out next can never
\* already be part of a chain.  Each node has at most one predecessor, so no
\* two chains share a node.  (NewSlot: firstfree loop, moving a collider.)
LinkInv == WellLinked(tab)

\* Every stored key is found by the walk from its main position, at the node
\* that holds it, whatever was inserted, moved, removed and rehashed before:
\* no key is lost and none is stored twice.  (_Get, NewSlot, Remove, Rehash.)
FoundInv ==
  \A i \in Occupied(tab) : Holders(tab, tab.key[i]) = {i}

\* No chain is a cycle, so the loops of _Get and of the collider's
\* predecessor search stop.
ChainsEnd == ChainsStop(tab)

\* _usednodes is the number of keys in the table (len(), and the growth and
\* shrink decisions of Rehash, trust it) and is less than the node count.
UsedExact ==
  tab.used = Cardinality(Occupied(tab)) /\ tab.used < tab.size

\* The node count stays a power of two, which HashObj(key) &
\* _numofnodes_minus_one needs to address every node (assert in AllocNodes).
SizePowerOfTwo == \E p \in 0 .. MaxNodes : tab.size = 2 ^ p

\* When NewSlot has to move a collider, the walk from the collider's main
\* position meets exactly one predecessor (assert(othern->next != NULL)).
ColliderHasPredecessor ==
  \A mp \in Occupied(tab) :
     MustMove(tab, mp) => Cardinality(Preds(tab, mp)) = 1

\* The reinsertions of a Rehash, forced or not, never run out of free nodes
\* themselves (a nested Rehash would re-enter on the half filled array), for
\* the table as it is and with one more key claimed, as NewSlot calls it.
RehashHasRoom ==
  \A force \in BOOLEAN :
    /\ HasRoom(tab, force)
    /\ \A k \in Keys :
         GetNode(tab, k) = NULL => HasRoom(Insert(tab, k, Null).tab, force)

----------------------------------------------------------------------------
(* What the table promises: a map *)

ContentsOf(t) ==
  [k \in Keys |-> IF GetNode(t, k) = NULL THEN NotFound
                                          ELSE t.val[GetNode(t, k)]]

Contents == ContentsOf(tab)

Map == INSTANCE TableMap WITH map <- Contents

\* The node array implements a map from keys to values: each operation
\* changes exactly the entry it names, and Get, Set and NewSlot answer
\* from the map.
ImplementsMap == Map!Spec

\* sqtable.h says of NewSlot: "returns true if a new slot has been created
\* false if it was already present".
NewSlotReportsNew ==
  [][\A k \in Keys :
       Contents[k] = NotFound /\ Contents'[k] # NotFound => ret' = TRUE]_vars
============================================================================
