------------------------------ MODULE MCHost ------------------------------
(***************************************************************************)
(* What the host program calls, one part at a time: the module manager on  *)
(* three files that require each other in every way, one of which may be   *)
(* missing; and path resolution of names of up to six pieces.              *)
(***************************************************************************)
EXTENDS SqModules

CONSTANTS a, b, c

VARIABLES part, requested_fn, running_script, written

MCFiles == {a, b, c}
MCVolatile == {b}
Alike == Permutations({a, c})

Names == INSTANCE PathNames
  WITH Pieces <- {<<".">>, <<"/">>, <<"x">>, <<"x", "/">>, <<".", ".", "/">>},
       MaxPieces <- 6, MaxRunning <- 3

ASSUME Names!PiecesAssumption

nvars == <<requested_fn, running_script, written>>
hvars == <<part, vars, nvars>>

\* A part that does not run stays in its initial state.
HInit ==
  /\ part \in {"modules", "names"}
  /\ Init /\ Names!Init

HNext ==
  /\ UNCHANGED part
  /\ \/ part = "modules" /\ Next /\ UNCHANGED nvars
     \/ part = "names" /\ Names!Next /\ UNCHANGED vars

HSpec == HInit /\ [][HNext]_hvars

NamesKept == part = "names" => Names!NamesKept
===========================================================================
