-------------------------- MODULE MCOperationQueue --------------------------
(* Instances of OperationQueue: two or three files for the converter,       *)
(* two chunks for the merger.                                                *)
EXTENDS OperationQueue, TLC

CONSTANTS o1, o2, o3

\* The converter adds all its files to the queue before it executes it.
ThreeFiles == <<{o1, o2, o3}>>
ThreeSizes == (o1 :> 1) @@ (o2 :> 2) @@ (o3 :> 2)
TwoFiles   == <<{o1, o2}>>
TwoSizes   == (o1 :> 1) @@ (o2 :> 2)

\* The merger adds one operation per chunk, all of priority 0.
TwoChunks  == <<{o1}, {o2}>>
NoSizes    == (o1 :> 0) @@ (o2 :> 0)
=============================================================================
