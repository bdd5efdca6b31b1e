SPECIFICATION LookupSpec
CONSTANTS
    MaxRecords = 6
    MaxHash = 5
    BucketSize = 2
    Nums = {1, 2, 3}
    NumRuns = 2
    Hashes <- MCHashes
    Dbs <- MCDbs
    Bucket <- MCBucket
    NKeys <- MCNKeys
INVARIANTS LookupSound LookupComplete OnlyBeyondBreaks IndexAgrees BenchmarkTruthful
PROPERTIES CoveredReturns ProgramsEnd
CHECK_DEADLOCK FALSE
