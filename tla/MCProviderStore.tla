-------------------------- MODULE MCProviderStore --------------------------
(* Two renters: b1 and b3 are sent once and deleted once, as the renter's  *)
(* upload and remove code does, and fill more than one contract together;  *)
(* b2 is sent again and its requests overlap.  Configuration updates are   *)
(* interleaved with the requests of b1 and b3.                             *)
EXTENDS ProviderStore, TLC

CONSTANTS r1, r2, b1, b2, b3

MCOwner == (b1 :> r1) @@ (b2 :> r2) @@ (b3 :> r1)
MCSize == (b1 :> 3) @@ (b2 :> 1) @@ (b3 :> 3)
MCWorkloads == {[ids |-> {b1, b2}, updates |-> 0], [ids |-> {b1, b3}, updates |-> 2]}
ClientSymmetry == Permutations(Clients)
=============================================================================
