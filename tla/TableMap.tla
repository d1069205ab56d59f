----------------------------- MODULE TableMap ------------------------------
(***************************************************************************)
(* What a script table promises: a finite map.  map[k] is NotFound for a   *)
(* key that is absent; ret is the answer of the last operation.            *)
(***************************************************************************)
CONSTANTS Keys, Vals, NotFound

VARIABLES map, ret

vars == <<map, ret>>

Init ==
  /\ map = [k \in Keys |-> NotFound]
  /\ ret = FALSE

\* The answer TRUE means that the key is new; FALSE tells the caller nothing.
NewSlot(k, v) ==
  /\ map' = [map EXCEPT ![k] = v]
  /\ ret' \in BOOLEAN
  /\ ret' => map[k] = NotFound

Set(k, v) ==
  IF map[k] = NotFound
  THEN ret' = FALSE /\ UNCHANGED map
  ELSE ret' = TRUE /\ map' = [map EXCEPT ![k] = v]

Get(k) == ret' = map[k] /\ UNCHANGED map

Remove(k) == map' = [map EXCEPT ![k] = NotFound] /\ UNCHANGED ret

Clear == map' = [k \in Keys |-> NotFound] /\ UNCHANGED ret

Next ==
  \/ \E k \in Keys, v \in Vals : NewSlot(k, v) \/ Set(k, v)
  \/ \E k \in Keys : Get(k) \/ Remove(k)
  \/ Clear

Spec == Init /\ [][Next]_vars
============================================================================
