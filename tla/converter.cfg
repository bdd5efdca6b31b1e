SPECIFICATION Spec
CONSTANTS
    o1 = o1
    o2 = o2
    o3 = o3
    NoHash = NoHash
    NTries = 5
    LongWords = {"long"}
    MD5Words = {"md5(a)", "md5?"}
    HexWords = {"hex(b)", "hex(a?)"}
    Pairs <- MCPairs
    Char <- MCChar
    ByteValues = 4
    HashSize = 2
    MD5 <- MCMD5
    Ops = {o1, o2, o3}
    Lines <- ThreeInputs
    OptionSets <- ThreeOptions
    Stem <- ThreeStems
    Readable = {o1, o2}
    Present <- Before
    Rams = {0, 14}
    MemUsagePerEntry = 2
    Threads = {1, 2}
    Capacity = 2
    MaxN = 3
    MayCancel = TRUE
    MayFail = TRUE
    PartHashes = {1}
INVARIANTS EveryPasswordConverted RamRespected
PROPERTY ConversionEnds
