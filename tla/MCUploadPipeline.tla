-------------------------- MODULE MCUploadPipeline -------------------------
(* Two instances with two workers.                                         *)
(*   Folder: a folder of two files, the first in two blocks, two providers; *)
(*           c2 cannot take every block, so a retry may find no room.      *)
(*   Crowd:  the same folder next to a single file, with one provider that *)
(*           has room for one block less: more uploads than workers.       *)
EXTENDS UploadPipeline

CONSTANTS q1, q2, u1, u2, u3, a1, a2, d1, e1, c1, c2, p1, p2

FolderBatch == q1 :> <<u1, u2>>
FolderBlocks == (u1 :> <<a1, a2>>) @@ (u2 :> <<d1>>)
CrowdBatch == (q1 :> <<u1, u2>>) @@ (q2 :> <<u3>>)
CrowdBlocks == (u1 :> <<a1, a2>>) @@ (u2 :> <<d1>>) @@ (u3 :> <<e1>>)
MCProviderOf == (c1 :> p1) @@ (c2 :> p2)
FolderCapacity == (c1 :> 2) @@ (c2 :> 1)
CrowdProviderOf == c1 :> p1
CrowdCapacity == c1 :> 3
=============================================================================
