---------------------------- MODULE MCTableCache ---------------------------
(***************************************************************************)
(* A small instance of TableCache: four strings and one integer, two of    *)
(* the strings having been given the same address one after the other.     *)
(***************************************************************************)
EXTENDS TableCache, TLC

CONSTANTS s0, s3, s4, s7, i1

MCHash == s0 :> 0 @@ s3 :> 3 @@ s4 :> 4 @@ s7 :> 7 @@ i1 :> 1

MCAddr == s0 :> 1 @@ s3 :> 2 @@ s4 :> 3 @@ s7 :> 3 @@ i1 :> 4
============================================================================
