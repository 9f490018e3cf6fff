\* Two callers, connections or threads throughout; two nodes; one handler slot and a server
\* that stalls before an entry and inside its payload; three subscriptions, the first of
\* which panics; a clock that passes max_age, no header allowed; durations at a limit and
\* above all of them; two calls of the tier under the handoff that fail.
CONSTANTS
    Daemons = {"d1", "d2"}
    Ports = {1, 2}
    Addresses <- MCAddresses
    TcpCalls = {c1, c2}
    Waker = "waker"
    TcpValues = {"v", "big"}
    TooLarge = {"big"}
    MaxInflight = 1
    Stalls = {"meta", "body"}
    Prefillers = {c1, c2}
    Decoders = {"f1"}
    Prefixes <- MCPrefixes
    MaxTierErrors = 2
    Publishers = {c1, c2}
    Faulty = {1}
    MaxIds = 3
    MaxEvents = 2
    Nodes = {n1, n2}
    Clients = {c1, c2}
    MaxAge = 0
    MaxClock = 1
    MaxHeaders = 0
    Threads = {c1, c2}
    Operations = {"get", "clear"}
    BlockSizes = {2}
    Durations = {10, 101}
    Limits <- MCLimits
    GaugeKeys <- MCGaugeKeys
    MaxOps = 3
SPECIFICATION MCSpec
SYMMETRY Peers
INVARIANTS TcpKvTierSafe EventBusSafe HandoffSafe
PROPERTIES ControllerSafe MetricsSafe DaemonSafe
CHECK_DEADLOCK FALSE
