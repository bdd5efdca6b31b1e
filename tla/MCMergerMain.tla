---------------------------- MODULE MCMergerMain ----------------------------
(* The merger's main loop over every order of the input files; the         *)
(* destination is one of them or another file.                             *)
EXTENDS MergerMain, SequencesExt, TLC

CONSTANTS f1, f2, f3, f4, dst

AllOrders == SetToSeqs(Files)
MCFileSize == (f1 :> 2) @@ (f2 :> 1) @@ (f3 :> 1) @@ (f4 :> 1)
=============================================================================
