\* The servers as in Servers.cfg; the drop of a control server one of whose clients sends
\* its first line bit by bit.
SPECIFICATION MCSpec
CONSTANTS
    t1 = t1
    t2 = t2
    l1 = l1
    l2 = l2
    r1 = r1
    r2 = r2
    Tenants = {t1}
    Leases = {l1}
    Reservations = {r1}
    Quotas <- MCQuotas
    Sizes <- MCSizes
    Top = 4
PROPERTIES DroppingShutsDown
CHECK_DEADLOCK FALSE
