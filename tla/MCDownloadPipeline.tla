------------------------- MODULE MCDownloadPipeline ------------------------
(* Deep: one file with as many blocks as the queues and the threads of one *)
(*       provider can take up, and one more.                               *)
(* Wide: a folder of two files and a single file; the limits let two       *)
(*       downloads run, or the one with two blocks alone.                  *)
EXTENDS DownloadPipeline, TLC

CONSTANTS q1, q2, d1, d2, d3, p1, p2

DeepBatch == q1 :> <<d1>>
DeepData == d1 :> 5
DeepParity == d1 :> 0
DeepLocation == d1 :> <<p1, p1, p1, p1, p1>>

WideBatch == (q1 :> <<d1, d2>>) @@ (q2 :> <<d3>>)
WideData == (d1 :> 2) @@ (d2 :> 1) @@ (d3 :> 1)
WideParity == (d1 :> 2) @@ (d2 :> 0) @@ (d3 :> 0)
WideLocation == (d1 :> <<p1, p2, p1, p2>>) @@ (d2 :> <<p1>>) @@ (d3 :> <<p2>>)
=============================================================================
