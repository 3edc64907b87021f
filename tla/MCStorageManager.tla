-------------------------- MODULE MCStorageManager -------------------------
(* Three contracts with two providers, two of them in one estimate;        *)
(* searches for one to three blocks.                                       *)
EXTENDS StorageManager, TLC

CONSTANTS c1, c2, c3, p1, p2

MCProviderOf == (c1 :> p1) @@ (c2 :> p2) @@ (c3 :> p2)
MCEstimates == {<<c1, c2>>, <<c3>>}
MCSymmetry == Permutations(Clients)
MCCapacity == (c1 :> 2) @@ (c2 :> 2) @@ (c3 :> 3)
=============================================================================
