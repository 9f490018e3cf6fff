\* Up to three jobs of each load, on one or two workers.
CONSTANTS
    t1 = t1
    t2 = t2
    s1 = s1
    s2 = s2
    Threads = {t1, t2}
    Sessions = {s1, s2}
    Prompts <- AllPrompts
    BlockTokens = 2
    PoolSize = 2
    Kinds = {"lookup", "store", "retrieve", "pin", "delete", "clear", "health", "runtime"}
    Volatile <- SomeKeys
    MaxJobs = 3
    MaxFailures = 1
SPECIFICATION MCSpec
SYMMETRY Identities
INVARIANTS IndexTrue SessionsAgree FetchesOwnPrefix DeleteFinal
CHECK_DEADLOCK FALSE
