------------------------ MODULE MCPasswordInspector -------------------------
(* Every data file of at most MaxRecords records over a small hash space.   *)
EXTENDS PasswordInspector, FiniteSets, SequencesExt

CONSTANTS MaxRecords, MaxHash, BucketSize

MCHashes == 0..MaxHash
MCBucket(h) == h \div BucketSize
MCNKeys == MaxHash \div BucketSize + 1

\* The counts tell the records of a file apart.
FileOf(S) == LET s == SetToSortSeq(S, <)
             IN [i \in 1..Len(s) |-> [hash |-> s[i], count |-> i]]
MCDbs == {FileOf(S) : S \in {T \in SUBSET MCHashes : Cardinality(T) \in 1..MaxRecords}}
=============================================================================
