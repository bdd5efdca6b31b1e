SPECIFICATION Spec
CONSTANTS
    Addresses <- MCAddresses
    IntMax = 100000
    IPHosts <- MCIPHosts
    Numbers = {0, 2}
    Garbage <- MCGarbage
    NTries = 3
    LongWords = {}
    MD5Words = {}
    HexWords = {"$HEX"}
    Pairs <- MCPairs
    Char <- MCChar
    ByteValues = 4
    HashSize = 2
    MD5 <- MCMD5
    NoHash = NoHash
    Files <- MCFiles
    Contents <- MCContents
    Mangled <- MCMangled
    MayFail = TRUE
    MaxStarts = 2
INVARIANTS StartsComplete OverwritesKnowingly RequestUnderstood ExtractsAll
PROPERTY ExtractionEnds
CHECK_DEADLOCK FALSE
