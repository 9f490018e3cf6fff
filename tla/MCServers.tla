--------------------------- MODULE MCServers ---------------------------
(***************************************************************************)
(* The parts whose callers wait for threads: AsyncKvPipeline with its pool,*)
(* RivetDaemon with its two server threads, and the loops those run,       *)
(* TcpKvServer and ControllerServer; and the quotas that the controller    *)
(* keeps.  A behaviour belongs to one of them, `part`; the others keep     *)
(* their initial state.                                                    *)
(***************************************************************************)
EXTENDS QuotaManager, Sequences, TLC

Amount(b, e) == [d \in {"bytes", "entries"} |-> IF d = "bytes" THEN b ELSE e]

\* A narrow quota, and a wide one next to the largest u64.
MCQuotas == {[max |-> Amount(2, 3), inflight |-> 1], [max |-> Amount(3, 2), inflight |-> 2]}

\* A small reservation, a large one, and one whose sum saturates.
MCSizes == {Amount(1, 1), Amount(2, 1), Amount(1, 2), Amount(4, 1)}

\* Each daemon wants the port of the other's data server for its control server.
MCAddresses ==
    "d1" :> [data |-> 1, control |-> 2] @@ "d2" :> [data |-> 2, control |-> 1]

VARIABLES
    part,   \* which component the behaviour is about
    pipeJobs, pipeQueue, pipeNextId, pipeInflight, pipeStats, pipeOpen, pipeClient,
    pipeWorker, pipeFinisher, pipeOwed,
    rivetDaemon, rivetThread, rivetAsked,
    tcpConns, tcpTier, tcpInflight, tcpAcceptor, tcpShutdown,
    ctlNodes, ctlClock, ctlBeats, ctlPrune, ctlThread, ctlClients, ctlStop, ctlGauge,
    ctlSeen

pipeVars == <<pipeJobs, pipeQueue, pipeNextId, pipeInflight, pipeStats, pipeOpen, pipeClient,
              pipeWorker, pipeFinisher, pipeOwed>>
rivetVars == <<rivetDaemon, rivetThread, rivetAsked>>
tcpVars == <<tcpConns, tcpTier, tcpInflight, tcpAcceptor, tcpShutdown>>
ctlVars == <<ctlNodes, ctlClock, ctlBeats, ctlPrune, ctlThread, ctlClients, ctlStop,
             ctlGauge, ctlSeen>>

\* Two clients and two workers, none of which panics, around a channel of one slot.
PoolClients == {"c1", "c2"}
PoolWorkers == {"w1", "w2"}
Pipe == INSTANCE AsyncKvPipeline WITH
    Clients <- PoolClients, Workers <- PoolWorkers, Capacity <- 1, MaxJobs <- 2, MaxPanics <- 0,
    jobs <- pipeJobs, queue <- pipeQueue, nextId <- pipeNextId, inflight <- pipeInflight,
    stats <- pipeStats, open <- pipeOpen, client <- pipeClient, worker <- pipeWorker,
    finisher <- pipeFinisher, owed <- pipeOwed

Daemons == {"d1", "d2"}
Rivet == INSTANCE Daemon WITH
    Ports <- 1..2, Addresses <- MCAddresses, daemon <- rivetDaemon, thread <- rivetThread,
    asked <- rivetAsked

\* A client and a waker; a handler's write may time out before its status.
Tcp == INSTANCE TcpKvTier WITH
    Calls <- {"c1"}, Waker <- "waker", Values <- {"v"}, TooLarge <- {}, MaxInflight <- 1,
    Stalls <- {"status"}, conns <- tcpConns, tier <- tcpTier, inflight <- tcpInflight,
    acceptor <- tcpAcceptor, shutdown <- tcpShutdown

\* Two clients that complete their lines, send parts of them, time out or go away.
Control == INSTANCE Controller WITH
    Nodes <- {"n1"}, Clients <- {"c1", "c2"}, MaxAge <- 1, MaxClock <- 0, MaxHeaders <- 1,
    nodes <- ctlNodes, clock <- ctlClock, beats <- ctlBeats, prune <- ctlPrune,
    thread <- ctlThread, clients <- ctlClients, stop <- ctlStop, gauge <- ctlGauge,
    seen <- ctlSeen

ASSUME MCAssumption ==
    /\ Rivet!BindAssumption
    /\ Tcp!RemoteAssumption
    /\ Control!ControllerAssumption

-----------------------------------------------------------------------------
MCInit ==
    /\ part \in {"quota", "pipeline", "daemon", "tcp", "controller"}
    /\ Init
    /\ Pipe!Init
    /\ Rivet!Init
    /\ Tcp!Init
    /\ part # "tcp" => tcpTier = "none"
    /\ Control!Init

\* The components other than p stay where they are.
Still(p) ==
    /\ UNCHANGED part
    /\ IF p = "quota" THEN TRUE ELSE UNCHANGED vars
    /\ IF p = "pipeline" THEN TRUE ELSE UNCHANGED pipeVars
    /\ IF p = "daemon" THEN TRUE ELSE UNCHANGED rivetVars
    /\ IF p = "tcp" THEN TRUE ELSE UNCHANGED tcpVars
    /\ IF p = "controller" THEN TRUE ELSE UNCHANGED ctlVars

MCNext ==
    \/ part = "quota" /\ Next /\ Still("quota")
    \/ part = "pipeline" /\ Pipe!Next /\ Still("pipeline")
    \/ part = "daemon" /\ Rivet!Next /\ Still("daemon")
    \/ part = "tcp" /\ Tcp!Next /\ Still("tcp")
    \/ part = "controller" /\ Control!Next /\ Still("controller")

mcVars == <<part, vars, pipeVars, rivetVars, tcpVars, ctlVars>>

\* The fairness of each for its own behaviours; nobody waits for the quotas.
MCFairness ==
    /\ \A w \in PoolWorkers : WF_pipeVars(part = "pipeline" /\ Pipe!Work(w))
    /\ \A c \in PoolClients :
         WF_pipeVars(part = "pipeline" /\ pipeClient[c].pc # "idle" /\ Pipe!Submit(c))
    /\ WF_pipeVars(part = "pipeline" /\ pipeFinisher # "idle" /\ Pipe!Finish)
    /\ \A d \in Daemons : WF_rivetVars(part = "daemon" /\ Rivet!Caller(d))
    /\ \A d \in Daemons, p \in Rivet!Planes :
         WF_rivetVars(part = "daemon" /\ Rivet!ThreadStops(d, p))
    /\ WF_tcpVars(part = "tcp" /\ Tcp!Server)
    /\ WF_ctlVars(part = "controller" /\ Control!ServerStep /\ Control!SizesSeen)

MCSpec == MCInit /\ [][MCNext]_mcVars /\ MCFairness

-----------------------------------------------------------------------------
\* Under fair threads every queued job ends, finish returns although notifications may be
\* lost, and dropping the last handle joins every worker.
CallersReturn == Pipe!CallersReturn

\* The pipeline implements an abstract bounded work queue, with its fairness.
IsWorkQueue == Pipe!IsWorkQueue

\* spawn, stop and drop of a daemon return once the threads they join do; the accept loop
\* of the data server sees its flag whatever clients and handlers fail to do, and the
\* control server sees it unless some client sends its lines bit by bit for ever.
ServersStop == Rivet!CallsReturn /\ Tcp!StopReturns /\ Control!ShutdownReturns

\* "Dropping the value shuts both listeners down": the drop joins the control server's
\* thread, so that thread has to end whatever its clients do.
DroppingShutsDown == Control!DropReturns

=============================================================================
