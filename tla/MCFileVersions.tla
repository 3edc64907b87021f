--------------------------- MODULE MCFileVersions ---------------------------
(*   Requests: three requests of clients, and the auditor; a file in one   *)
(*             block, with room for the blocks of all its versions.          *)
(*   Restore:  a file in two blocks, the first at p1, the second at p2,      *)
(*             with p3 for what is restored; blocks get corrupted, and the   *)
(*             renter crashes.                                               *)
EXTENDS FileVersions

CONSTANTS p1, p2, p3

MCFirstAt == <<p1, p2>>
MCCapacity == (p1 :> 3) @@ (p2 :> 3) @@ (p3 :> 2)

MCOneBlock == <<p1>>
MCSmall == (p1 :> 2) @@ (p2 :> 1)
=============================================================================
