SPECIFICATION Spec
CONSTANTS
    MaxRecords = 3
    MaxHash = 5
    BucketSize = 2
    Hashes <- MCHashes
    Dbs <- MCDbs
    Bucket <- MCBucket
    NKeys <- MCNKeys
INVARIANT LookupExact
