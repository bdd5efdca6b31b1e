------------------------------ MODULE MCMerge -------------------------------
(* Every combination of sorted input files over a small hash space.         *)
EXTENDS Merge, SequencesExt

CONSTANTS MaxHash

FileOf(S) == LET s == SetToSortSeq(S, <) IN [i \in 1..Len(s) |-> [hash |-> s[i], count |-> 1]]
SortedFiles == {FileOf(S) : S \in SUBSET (0..MaxHash)}
AllContents == [Inputs -> SortedFiles]
=============================================================================
