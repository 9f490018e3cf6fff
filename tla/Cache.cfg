\* Pinned and unpinned records of two sizes against both quotas; store reads and writes may fail.
CONSTANTS
    k1 = k1
    k2 = k2
    v1 = v1
    v2 = v2
    t1 = t1
    t2 = t2
    Keys = {k1, k2}
    Values = {v1, v2}
    Size <- MCSize
    Header = 1
    MaxMemory = 2
    MaxDisk = 4
    TTLs = {0}
    Pins <- BothPins
    Threads = {t1}
    Faults = {"put", "get"}
    MaxDrift = 9
    MaxClock = 0
    MaxLag = 0
SPECIFICATION MCSpec
SYMMETRY Alike
INVARIANTS MemorySafe NeverServesDead DiskSafe
PROPERTIES PinnedKept RestartsHeal
