------------------------------ MODULE MCHashmap ------------------------------
(***************************************************************************)
(* Two buckets; three keys of the first, so that chains grow to three and  *)
(* are cut at the head, in the middle and at the end, and one of the other.*)
(***************************************************************************)
EXTENDS Hashmap, TLC

CONSTANTS key1, key2, key3, key4

MCHash == key1 :> 0 @@ key2 :> 2 @@ key3 :> 4 @@ key4 :> 1
=============================================================================
