------------------------- MODULE MCBlockAccessList -------------------------
(* Small instances of BlockAccessList for TLC. *)
EXTENDS BlockAccessList, TLC

CONSTANTS a1, a2, s1

OneOwner == s1 :> a1
=============================================================================
