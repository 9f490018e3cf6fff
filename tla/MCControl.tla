--------------------------- MODULE MCControl ---------------------------
(***************************************************************************)
(* The network and control plane: RivetDaemon, TcpKvTier with its server,  *)
(* the handoff from prefill to decode workers, CacheController with its    *)
(* HTTP server, KvEventBus and the metrics.  A behaviour belongs to one of them, `part`;*)
(* the others keep their initial state.                                    *)
(***************************************************************************)
EXTENDS Daemon, Integers, Sequences, TLC

CONSTANTS
    TcpCalls, Waker, TcpValues, TooLarge, MaxInflight, Stalls,   \* TcpKvTier
    Prefillers, Decoders, Prefixes, MaxTierErrors,               \* Handoff
    Publishers, Faulty, MaxIds, MaxEvents,                       \* KvEventBus
    Nodes, Clients, MaxAge, MaxClock, MaxHeaders,   \* CacheController
    Threads, Operations, BlockSizes, Durations, Limits,          \* PrometheusRegistry
    GaugeKeys, MaxOps

\* Each daemon wants the port of the other's data server for its control server.
MCAddresses ==
    "d1" :> [data |-> 1, control |-> 2] @@ "d2" :> [data |-> 2, control |-> 1]

\* A prefix of two blocks, and none.
MCPrefixes == {<<>>, <<"b1", "b2">>}

\* Limits that a duration is at or above; a gauge whose key is also a counter's.
MCLimits == <<10, 100>>
MCGaugeKeys == {<<"nodes", "", "">>, <<"bytes", "read", "">>}

VARIABLES
    part,   \* which component the behaviour is about
    tcpConns, tcpTier, tcpInflight, tcpAcceptor, tcpShutdown,
    ctlNodes, ctlClock, ctlBeats, ctlPrune, ctlThread, ctlClients, ctlStop, ctlGauge,
    ctlSeen,
    busSubscribers, busNextSubscriber, busNextSequence, busPublished, busFailures, busPub,
    busReceived, busLeft,
    metMetrics, metCalls, metFinished, metStarted,
    handTier, handLate, handPub, handFetch, handErrors

tcpVars == <<tcpConns, tcpTier, tcpInflight, tcpAcceptor, tcpShutdown>>
ctlVars == <<ctlNodes, ctlClock, ctlBeats, ctlPrune, ctlThread, ctlClients, ctlStop,
             ctlGauge, ctlSeen>>
busVars == <<busSubscribers, busNextSubscriber, busNextSequence, busPublished,
             busFailures, busPub, busReceived, busLeft>>
metVars == <<metMetrics, metCalls, metFinished, metStarted>>
handVars == <<handTier, handLate, handPub, handFetch, handErrors>>

Tcp == INSTANCE TcpKvTier WITH
    Calls <- TcpCalls, Values <- TcpValues, conns <- tcpConns, tier <- tcpTier,
    inflight <- tcpInflight, acceptor <- tcpAcceptor, shutdown <- tcpShutdown

Hand == INSTANCE Handoff WITH
    Publishers <- Prefillers, Fetchers <- Decoders, Requests <- Prefixes,
    MaxErrors <- MaxTierErrors, tier <- handTier, late <- handLate, pub <- handPub, fetch <- handFetch,
    errors <- handErrors

Fleet == INSTANCE Controller WITH
    nodes <- ctlNodes, clock <- ctlClock, beats <- ctlBeats,
    prune <- ctlPrune, thread <- ctlThread, clients <- ctlClients, stop <- ctlStop,
    gauge <- ctlGauge, seen <- ctlSeen

Bus == INSTANCE EventBus WITH
    subscribers <- busSubscribers, nextSubscriber <- busNextSubscriber,
    nextSequence <- busNextSequence, published <- busPublished, failures <- busFailures,
    pub <- busPub, received <- busReceived, left <- busLeft

Registry == INSTANCE PrometheusRegistry WITH
    Sizes <- BlockSizes, metrics <- metMetrics, calls <- metCalls, finished <- metFinished, started <- metStarted

ASSUME MCAssumption ==
    /\ BindAssumption
    /\ Tcp!RemoteAssumption
    /\ Fleet!ControllerAssumption
    /\ Bus!BusAssumption
    /\ Registry!RegistryAssumption
    /\ Hand!HandoffAssumption

-----------------------------------------------------------------------------
MCInit ==
    /\ part \in {"daemon", "tcp", "controller", "events", "metrics", "handoff"}
    /\ Init
    /\ Tcp!Init
    /\ part # "tcp" => tcpTier = "none"
    /\ Fleet!Init
    /\ Bus!Init
    /\ Registry!Init
    /\ Hand!Init

\* The components other than p stay where they are.
Still(p) ==
    /\ UNCHANGED part
    /\ IF p = "daemon" THEN TRUE ELSE UNCHANGED vars
    /\ IF p = "tcp" THEN TRUE ELSE UNCHANGED tcpVars
    /\ IF p = "controller" THEN TRUE ELSE UNCHANGED ctlVars
    /\ IF p = "events" THEN TRUE ELSE UNCHANGED busVars
    /\ IF p = "metrics" THEN TRUE ELSE UNCHANGED metVars
    /\ IF p = "handoff" THEN TRUE ELSE UNCHANGED handVars

MCNext ==
    \/ part = "daemon" /\ Next /\ Still("daemon")
    \/ part = "tcp" /\ Tcp!Next /\ Still("tcp")
    \/ part = "controller" /\ Fleet!Next /\ Still("controller")
    \/ part = "events" /\ Bus!Next /\ Still("events")
    \/ part = "metrics" /\ Registry!Next /\ Still("metrics")
    \/ part = "handoff" /\ Hand!Next /\ Still("handoff")

mcVars == <<part, vars, tcpVars, ctlVars, busVars, metVars, handVars>>

MCSpec == MCInit /\ [][MCNext]_mcVars

-----------------------------------------------------------------------------
Peers == Permutations(TcpCalls) \cup Permutations(Nodes)

\* A TcpKvTier call that succeeds took effect at the served tier once and returns what
\* it did there - or, exactly when the server's write timed out inside the payload, a torn
\* entry -, one that failed took effect at most once, and inflight counts the handlers on
\* every way out: through stalls, timeouts, refusals and a shutdown.
TcpKvTierSafe == Tcp!Safety

\* The controller serves one connection at a time, /metrics shows a size the fleet had
\* while the request was routed, and prune_stale takes no node heard of since it read
\* the clock.
ControllerSafe == [](part = "controller" => Fleet!Safety) /\ Fleet!PrunedWereStale

\* Every subscriber registered throughout a publish is called once for it, whoever
\* panics, none for an event published after it left, and the counters settle.
EventBusSafe == Bus!Safety

\* At every scrape histograms are cumulative and requests, durations and operations
\* differ only by what is just being reported; a metric keeps its kind.
MetricsSafe == [](part = "metrics" => Registry!Safety) /\ Registry!KindKept

\* A publish that fails, while no other call touches its keys and no removal of its rollback
\* fails, takes back every block it put and no other - the block whose put reported the
\* error may stay behind -, one that succeeds keeps its blocks until another call touches
\* their keys, and a fetch accounts for the prefix it found.
HandoffSafe == Hand!Safety

=============================================================================
