SPECIFICATION Spec
CONSTANTS
    Files = {f1, f2, f3, f4}
    Lists <- AllOrders
    dst = dst
    Destinations = {dst, f4}
    Limits = {0, 1, 2, 3, 4}
    MaxTemps = 5
    MayVanish = TRUE
    FileSize <- MCFileSize
    f1 = f1
    f2 = f2
    f3 = f3
    f4 = f4
    MayFail = TRUE
    MayQuit = TRUE
INVARIANTS EveryInputOnce NoSilentGap
PROPERTY Terminates
