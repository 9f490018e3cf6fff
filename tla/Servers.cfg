\* Two tenants, leases and reservations alive at a time; the pipeline, two daemons with
\* crossing ports and their server loops are instances of MCServers.
SPECIFICATION MCSpec
CONSTANTS
    t1 = t1
    t2 = t2
    l1 = l1
    l2 = l2
    r1 = r1
    r2 = r2
    Tenants = {t1, t2}
    Leases = {l1, l2}
    Reservations = {r1, r2}
    Quotas <- MCQuotas
    Sizes <- MCSizes
    Top = 4
INVARIANTS QuotaSafe
PROPERTIES ServersStop CallersReturn IsWorkQueue
CHECK_DEADLOCK FALSE
