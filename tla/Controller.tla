------------------------------ MODULE Controller ------------------------------
(***************************************************************************)
(* CacheController behind ControllerServer.  One thread accepts, reads a   *)
(* request, routes it and answers before it looks at the next connection   *)
(* or at the stop flag.  FleetRegistry is also called in process, where    *)
(* prune_stale and heartbeat read the clock before they take the lock.     *)
(*                                                                         *)
(* Quotas, which PUT /v1/tenants sets, are the module QuotaManager.        *)
(***************************************************************************)
EXTENDS Bytes

CONSTANTS
    Nodes,        \* fleet node ids; each sends its own heartbeats
    Clients,      \* bound: HTTP connections
    MaxAge,       \* prune_stale's max_age
    MaxClock,     \* bound: the clock
    MaxHeaders    \* the header limit, in lines

ControllerAssumption ==
    /\ MaxAge \in Nat /\ MaxClock \in Nat /\ MaxHeaders \in Nat
    /\ IsFiniteSet(Nodes)

VARIABLES
    nodes,     \* FleetRegistry::nodes: last_seen of each node
    clock,     \* the system clock in seconds
    beats,     \* the in-process heartbeat each node is in
    prune,     \* the prune_stale that is running
    thread,    \* the server thread
    clients,   \* where each connection is
    stop,      \* the stop flag
    gauge,     \* the gauge rivet_controller_nodes
    seen       \* history: the sizes of the fleet since the request was read

vars == <<nodes, clock, beats, prune, thread, clients, stop, gauge, seen>>
fleet == <<nodes, clock, beats, prune>>

None == "none"

\* fresh is history: the nodes heard of with a clock reading taken since the prune's.
IdleBeat == [pc |-> "idle", now |-> 0]
IdlePrune == [pc |-> "idle", now |-> 0, fresh |-> {}]

\* timer is 1 when the client has been silent for half of its time; read counts
\* header lines; count is refresh_metrics's view of the fleet.
IdleThread == [pc |-> "check", client |-> None, request |-> "", timer |-> 0, read |-> 0,
               now |-> 0, count |-> 0, status |-> 0]

Init ==
    /\ nodes = NoEntries /\ clock = 0
    /\ beats = [n \in Nodes |-> IdleBeat] /\ prune = IdlePrune
    /\ thread = IdleThread /\ stop = FALSE /\ gauge = 0 /\ seen = {}
    /\ clients = [c \in Clients |-> "away"]

-----------------------------------------------------------------------------
(* FleetRegistry.                                                          *)

Tick ==
    /\ clock < MaxClock
    /\ clock' = clock + 1
    /\ UNCHANGED <<nodes, beats, prune, thread, clients, stop, gauge>>

Record(n, now) ==
    /\ nodes' = With(nodes, n, now)
    /\ prune' = [prune EXCEPT !.fresh = IF now >= prune.now THEN @ \cup {n} ELSE @ \ {n}]

Heartbeat(n) ==
    /\ beats[n].pc = "idle"
    /\ beats' = [beats EXCEPT ![n] = [pc |-> "insert", now |-> clock]]
    /\ UNCHANGED <<nodes, clock, prune, thread, clients, stop, gauge>>

HeartbeatInsert(n) ==
    /\ beats[n].pc = "insert"
    /\ Record(n, beats[n].now)
    /\ beats' = [beats EXCEPT ![n] = IdleBeat]
    /\ UNCHANGED <<clock, thread, clients, stop, gauge>>

PruneStale ==
    /\ prune.pc = "idle"
    /\ prune' = [pc |-> "retain", now |-> clock, fresh |-> {}]
    /\ UNCHANGED <<nodes, clock, beats, thread, clients, stop, gauge>>

Age(now, n) == SaturatingSub(now, nodes[n])

PruneRetain ==
    /\ prune.pc = "retain"
    /\ nodes' = Without(nodes, {n \in DOMAIN nodes : Age(prune.now, n) > MaxAge})
    /\ prune' = [prune EXCEPT !.pc = "idle"]
    /\ UNCHANGED <<clock, beats, thread, clients, stop, gauge>>

-----------------------------------------------------------------------------
(* ControllerServer.                                                       *)

\* The thread goes back to its loop; the connection closes with an answer or none.
Closes(how) ==
    /\ thread' = IdleThread
    /\ clients' = [clients EXCEPT ![thread.client] = how]

Connect(c) ==
    /\ clients[c] = "away" /\ thread.pc # "ended"
    /\ clients' = [clients EXCEPT ![c] = "queued"]
    /\ UNCHANGED <<nodes, clock, beats, prune, thread, stop, gauge>>

\* shutdown, drop: the flag, and a connection that wakes the listener.
Shutdown ==
    /\ ~stop
    /\ stop' = TRUE
    /\ UNCHANGED <<nodes, clock, beats, prune, thread, clients, gauge>>

CheckStop ==
    /\ thread.pc = "check"
    /\ thread' = [thread EXCEPT !.pc = IF stop THEN "ended" ELSE "accept"]
    /\ UNCHANGED <<fleet, clients, stop, gauge>>

Accept(c) ==
    /\ thread.pc = "accept" /\ clients[c] = "queued"
    /\ thread' = [thread EXCEPT !.pc = "first", !.client = c]
    /\ clients' = [clients EXCEPT ![c] = "served"]
    /\ UNCHANGED <<fleet, stop, gauge>>

\* WouldBlock and every other error: sleep and go on.
AcceptNobody ==
    /\ thread.pc = "accept"
    /\ thread' = [thread EXCEPT !.pc = "check"]
    /\ UNCHANGED <<fleet, clients, stop, gauge>>

Reading == thread.pc \in {"first", "headers"}

Silence ==
    /\ Reading /\ thread.timer = 0
    /\ thread' = [thread EXCEPT !.timer = 1]
    /\ UNCHANGED <<fleet, clients, stop, gauge>>

ReadTimeout ==
    /\ Reading /\ thread.timer = 1
    /\ Closes("dropped")
    /\ UNCHANGED <<fleet, stop, gauge>>

\* Some of a line arrives and the timeout starts anew.  The lengths are looked at once
\* the line is complete, so a client may go on like this for ever.
ReadPart ==
    /\ Reading /\ thread.timer = 1
    /\ thread' = [thread EXCEPT !.timer = 0]
    /\ UNCHANGED <<fleet, clients, stop, gauge>>

ReadFirst ==
    /\ thread.pc = "first"
    /\ \/ thread' = [thread EXCEPT !.pc = "headers", !.timer = 0]
          /\ UNCHANGED clients
       \/ Closes("dropped")      \* end of stream, or longer than 8192 bytes
    /\ UNCHANGED <<fleet, stop, gauge>>

ReadHeader ==
    /\ thread.pc = "headers"
    /\ thread' = IF thread.read = MaxHeaders
                 THEN [thread EXCEPT !.pc = "respond", !.status = 431]
                 ELSE [thread EXCEPT !.read = @ + 1, !.timer = 0]
    /\ UNCHANGED <<fleet, clients, stop, gauge>>

\* The empty line or the end of the stream; the target decides.  A query that does
\* not parse ends the connection without an answer.
ReadEnd(request) ==
    /\ thread.pc = "headers"
    /\ \/ thread' = [thread EXCEPT !.pc = request, !.request = request, !.now = clock]
          /\ UNCHANGED clients
       \/ Closes("dropped")
    /\ UNCHANGED <<fleet, stop, gauge>>

Answer(status) == thread' = [thread EXCEPT !.pc = "respond", !.status = status]

RouteHeartbeat(n) ==
    /\ thread.pc = "heartbeat"
    /\ Record(n, thread.now)
    /\ Answer(200)
    /\ UNCHANGED <<clock, beats, clients, stop, gauge>>

\* refresh_metrics: the fleet is read, then the gauge is set; the registry is locked
\* once more to render it.
RefreshMetrics ==
    /\ thread.pc = "metrics"
    /\ thread' = [thread EXCEPT !.pc = "setgauge", !.count = Cardinality(DOMAIN nodes)]
    /\ UNCHANGED <<fleet, clients, stop, gauge>>

\* Mutant: the nodes are counted and the gauge is left as it was.
SetGaugeMissed ==
    /\ thread.pc = "setgauge"
    /\ UNCHANGED gauge
    /\ thread' = [thread EXCEPT !.pc = "render"]
    /\ UNCHANGED <<fleet, clients, stop>>

SetGauge ==
    /\ thread.pc = "setgauge"
    /\ gauge' = thread.count
    /\ thread' = [thread EXCEPT !.pc = "render"]
    /\ UNCHANGED <<fleet, clients, stop>>

Render ==
    /\ thread.pc = "render"
    /\ Answer(200)
    /\ UNCHANGED <<fleet, clients, stop, gauge>>

\* Health and the lists change nothing; invalid parameters and unknown paths.
RouteOther ==
    /\ thread.pc = "other"
    /\ \E status \in {200, 400, 404} : Answer(status)
    /\ UNCHANGED <<fleet, clients, stop, gauge>>

\* write_response may fail too; either way the connection closes.  One step: a client
\* that takes its answer bit by bit holds the thread as ReadPart does.
Respond ==
    /\ thread.pc = "respond"
    /\ Closes("answered") \/ Closes("dropped")
    /\ UNCHANGED <<fleet, stop, gauge>>

-----------------------------------------------------------------------------
ServerStep ==
    \/ CheckStop \/ AcceptNobody \/ Silence \/ ReadTimeout
    \/ RefreshMetrics \/ SetGauge \/ Render \/ RouteOther \/ Respond
    \/ \E n \in Nodes : RouteHeartbeat(n)
    \/ \E c \in Clients : Accept(c)

Step ==
    \/ Tick \/ PruneStale \/ PruneRetain
    \/ \E n \in Nodes : Heartbeat(n) \/ HeartbeatInsert(n) \/ RouteHeartbeat(n)
    \/ \E c \in Clients : Connect(c) \/ Accept(c)
    \/ Shutdown \/ CheckStop \/ AcceptNobody
    \/ Silence \/ ReadTimeout \/ ReadPart \/ ReadFirst \/ ReadHeader
    \/ \E request \in {"heartbeat", "metrics", "other"} : ReadEnd(request)
    \/ RefreshMetrics \/ SetGauge \/ Render \/ RouteOther \/ Respond

Routing == thread.pc \in {"metrics", "setgauge", "render"}

SizesSeen == seen' = IF Routing' THEN (IF Routing THEN seen ELSE {}) \cup {Cardinality(DOMAIN nodes')}
                ELSE IF thread'.pc = "respond" THEN seen ELSE {}

Next == Step /\ SizesSeen

Spec == Init /\ [][Next]_vars

\* The server thread runs and its read timeouts expire; clients may do anything.
FairSpec == Spec /\ WF_vars(ServerStep /\ SizesSeen)

-----------------------------------------------------------------------------
\* Every variable has the shape of the state it stands for.
TypeOK ==
    /\ IsMap(nodes, Nodes, 0..MaxClock) /\ clock \in 0..MaxClock
    /\ thread.pc \in {"check", "accept", "first", "headers", "heartbeat", "metrics",
                      "setgauge", "render", "other", "respond", "ended"}
    /\ \A c \in Clients : clients[c] \in {"away", "queued", "served", "answered", "dropped"}
    /\ gauge \in 0..Cardinality(Nodes)

\* prune_stale removes only nodes that were silent for more than max_age when it read
\* the clock: none that was heard of between its reading and its lock.
PrunedWereStale ==
    [][\A n \in DOMAIN nodes \ DOMAIN nodes' :
         n \notin prune.fresh /\ prune.now - nodes[n] > MaxAge]_vars

\* A connection is being served exactly while the thread is on it: none is left
\* open behind the thread's back and no two are interleaved.
OneServed ==
    \A c \in Clients : clients[c] = "served" <=>
        (thread.client = c /\ thread.pc \notin {"check", "accept", "ended"})

\* What /metrics shows of the fleet is a size it had while the request was routed,
\* whatever heartbeats and prunes came between the scrapes.
GaugeFresh ==
    (thread.pc = "respond" /\ thread.request = "metrics" /\ thread.status = 200) => gauge \in seen

\* One connection is served at a time, and a scrape shows the fleet as it was.
Safety == TypeOK /\ OneServed /\ GaugeFresh

\* shutdown and drop, which join the thread, return - unless some client sends its
\* lines bit by bit for ever.
ShutdownReturns == ([]<><<ReadPart>>_vars) \/ (stop ~> thread.pc = "ended")

\* "Dropping the value shuts both listeners down": shutdown and drop join the thread,
\* which comes back to the flag whatever its clients do.
DropReturns == stop ~> thread.pc = "ended"

=============================================================================
