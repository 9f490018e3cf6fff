\* Three leases over two sizes and a node: two small regions fit the cache, one large one fills it.
CONSTANTS
    l1 = l1
    l2 = l2
    l3 = l3
    g1 = g1
    g2 = g2
    g3 = g3
    Leases = {l1, l2, l3}
    Regions = {g1, g2, g3}
    Sizes = {1, 2, 4}
    Nodes = {"n0"}
    NoNode = "none"
    NumaSupported = TRUE
    MaxCachedBytes = 3
    \* Two threads over two keys, and handles enough for a buffer to come back.
    Keys = {"k1", "k2"}
    Threads = {l1, l2}
    Handles = {1, 2, 3, 4}
    HostValues = {"v1", "v2"}
    FfiValues = {"v1"}
    MaxFfiErrors = 1
    \* Two callers, sharing their buffers, over two addresses that come back.
    Callers = {l1, l2}
    Addresses = {g1, g2}
    BufferSizes = {1, 2}
    BufferRanges <- MCRanges
    MaxAllocs = 2
    MaxNativeErrors = 1
SPECIFICATION MCSpec
SYMMETRY Alike
INVARIANTS PoolSafe DeviceKvTierSafe HipMemorySafe
CHECK_DEADLOCK FALSE
