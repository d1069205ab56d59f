---------------------------- MODULE TableForeach ---------------------------
(***************************************************************************)
(* A foreach over a table whose body changes the table: SQTable::Next as   *)
(* FOREACH_OP (sqvm.cpp) calls it, between any operations of SQTable.      *)
(* The iterator is a node index: it survives every change of the table and *)
(* says nothing about keys.                                                *)
(***************************************************************************)
EXTENDS SQTable

VARIABLES
  cursor,   \* the node index the next call starts at; NULL: no iteration
  visits,   \* how often the loop was given each key since it was last absent
  kept,     \* the keys that have been in the table since the loop began
  intact,   \* the node array was not reallocated since the loop began
  grown     \* a new key was inserted since the loop began

fvars == <<tab, ret, cursor, visits, kept, intact, grown>>

FTypeOK ==
  /\ TypeOK
  /\ cursor \in 0 .. MaxNodes \union {NULL}
  /\ visits \in [Keys -> 0 .. MaxNodes]
  /\ kept \subseteq KeysIn(tab)
  /\ intact \in BOOLEAN
  /\ grown \in BOOLEAN

FInit ==
  /\ Init
  /\ cursor = NULL
  /\ visits = [k \in Keys |-> 0]
  /\ kept = {}
  /\ intact = FALSE
  /\ grown = FALSE

\* The compiler sets the iterator to null, which TranslateIndex reads as 0.
Begin ==
  /\ cursor = NULL
  /\ cursor' = 0
  /\ visits' = [k \in Keys |-> 0]
  /\ kept' = KeysIn(tab)
  /\ intact' = TRUE
  /\ grown' = FALSE
  /\ UNCHANGED vars

\* The iterator stays on the node it gave.
Step_Bug ==
  LET i == NextNode(tab, cursor)
  IN  /\ cursor # NULL
      /\ IF i = NULL
         THEN cursor' = NULL /\ UNCHANGED visits
         ELSE /\ cursor' = i
              /\ visits' = [visits EXCEPT ![tab.key[i]] = @ + 1]
      /\ UNCHANGED <<tab, ret, kept, intact, grown>>

\* One call of Next: the first occupied node from the cursor on, or the end.
Step ==
  LET i == NextNode(tab, cursor)
  IN  /\ cursor # NULL
      /\ IF i = NULL
         THEN cursor' = NULL /\ UNCHANGED visits
         ELSE /\ cursor' = i + 1
              /\ visits' = [visits EXCEPT ![tab.key[i]] = @ + 1]
      /\ UNCHANGED <<tab, ret, kept, intact, grown>>

\* The body of the loop, or other code, changes the table.
Change ==
  /\ Next
  /\ tab' # tab
  /\ visits' = [k \in Keys |-> IF k \in KeysIn(tab') THEN visits[k] ELSE 0]
  /\ kept' = kept \intersect KeysIn(tab')
  /\ intact' = (intact /\ tab'.size = tab.size)
  /\ grown' = (grown \/ ~ (KeysIn(tab') \subseteq KeysIn(tab)))
  /\ UNCHANGED cursor

FNext == Begin \/ Step \/ Change

FSpec == FInit /\ [][FNext]_fvars

----------------------------------------------------------------------------

\* As long as the node array is not reallocated, a foreach never gives the
\* same entry twice: NewSlot may move an entry while the loop runs, but only
\* to a lower node.  (Next, NewSlot moving a collider.)
VisitedOnce ==
  intact => \A k \in KeysIn(tab) : visits[k] <= 1

\* Deleting and overwriting entries in the loop, as long as the array is not
\* reallocated and no key is added, loses nothing: every key that was there
\* when the loop began and still is when it ends was visited.  (Next, Remove
\* leaves the nodes where they are.)
NoneMissedStep ==
  cursor # NULL /\ cursor' = NULL /\ intact /\ ~ grown =>
    \A k \in kept : visits[k] = 1
NoneMissed == [][NoneMissedStep]_fvars
============================================================================
