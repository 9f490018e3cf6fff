\* Two Redis tiers, of namespaces a and a:b; the other parts as in Adapters.cfg.
CONSTANTS
    t1 = t1
    t2 = t2
    w1 = w1
    w2 = w2
    Clients = {t1, t2}
    Workers = {w1, w2}
    Capacity = 1
    MaxJobs = 3
    MaxPanics = 2
SPECIFICATION NestedSpec
PROPERTIES NamespacesIsolated
CHECK_DEADLOCK FALSE
