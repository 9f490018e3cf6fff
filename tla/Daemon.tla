--------------------------------- MODULE Daemon ---------------------------------
(***************************************************************************)
(* RivetDaemon: a data server and a control server that are started one    *)
(* after the other and stopped or dropped together, by several daemons     *)
(* whose addresses may collide.  A server is a listener and the thread     *)
(* that owns it: the listener closes when the thread ends.                 *)
(***************************************************************************)
EXTENDS Naturals, FiniteSets

CONSTANTS
    Daemons,
    Ports,
    Addresses    \* daemon -> the ports of data_bind and control_bind

BindAssumption == Addresses \in [Daemons -> [{"data", "control"} -> Ports]]

VARIABLES
    daemon,   \* daemon -> pc of the caller and the result of its last call
    thread,   \* daemon -> plane -> the state of the server's thread
    asked     \* daemon -> the planes whose shutdown flag is set

vars == <<daemon, thread, asked>>

Planes == {"data", "control"}

Init ==
    /\ daemon = [d \in Daemons |-> [pc |-> "down", result |-> "none"]]
    /\ thread = [d \in Daemons |-> [p \in Planes |-> "none"]]
    /\ asked = [d \in Daemons |-> {}]

Listening(d, p) == thread[d][p] = "running"
Bound(port) == \E d \in Daemons, p \in Planes : Listening(d, p) /\ Addresses[d][p] = port

Goes(d, pc, result) == daemon' = [daemon EXCEPT ![d] = [pc |-> pc, result |-> result]]

-----------------------------------------------------------------------------
(* spawn.                                                                  *)

\* An empty address, a zero capacity or a cache that cannot be opened ends spawn
\* before there is a server.
Refused(d) ==
    /\ daemon[d].pc = "down"
    /\ Goes(d, "down", "error")
    /\ UNCHANGED <<thread, asked>>

\* The configuration is valid and the cache opens; the servers to come have new flags.
Spawn(d) ==
    /\ daemon[d].pc = "down"
    /\ Goes(d, "spawn data", "none")
    /\ thread' = [thread EXCEPT ![d] = [p \in Planes |-> "none"]]
    /\ asked' = [asked EXCEPT ![d] = {}]

\* A server is up once its address is bound and its thread runs.
ServerSpawn(d, p, pc) ==
    /\ ~Bound(Addresses[d][p])
    /\ thread' = [thread EXCEPT ![d][p] = "running"]
    /\ Goes(d, pc, IF pc = "up" THEN "ok" ELSE "none")
    /\ UNCHANGED asked

\* The address is taken, or the thread cannot be started, which closes the listener.
ServerSpawnFails(d, pc) ==
    /\ Goes(d, pc, "error")
    /\ UNCHANGED <<thread, asked>>

SpawnData(d) ==
    /\ daemon[d].pc = "spawn data"
    /\ ServerSpawn(d, "data", "spawn control") \/ ServerSpawnFails(d, "down")

\* "If control-plane startup fails, the data server is dropped on this error path and
\* its listener is shut down."
SpawnControl(d) ==
    /\ daemon[d].pc = "spawn control"
    /\ ServerSpawn(d, "control", "up") \/ ServerSpawnFails(d, "undo data")

-----------------------------------------------------------------------------
(* The threads of the servers.                                             *)

ThreadEnds(d, p, how) ==
    /\ Listening(d, p)
    /\ thread' = [thread EXCEPT ![d][p] = how]
    /\ UNCHANGED <<daemon, asked>>

\* The loop sees its flag.
ThreadStops(d, p) == p \in asked[d] /\ ThreadEnds(d, p, "done")

\* accept fails for good: only the data server gives up on that.
AcceptFails(d) == ThreadEnds(d, "data", "failed")

\* The handler of a connection, which the control server calls on its own thread, panics.
ControlPanics(d) == ThreadEnds(d, "control", "failed")

-----------------------------------------------------------------------------
(* stop and drop.                                                          *)

\* signal_shutdown of a server: its flag is set, and the join that follows waits.
Signal(d, p, pc) ==
    /\ asked' = [asked EXCEPT ![d] = @ \cup {p}]
    /\ Goes(d, pc, daemon[d].result)
    /\ UNCHANGED thread

\* The join returns when the thread has ended, in order, with an error or in a panic.
Joined(d, p) == ~Listening(d, p)

Stop(d) == daemon[d].pc = "up" /\ Signal(d, "control", "stop control")

Drop(d) == daemon[d].pc = "up" /\ Signal(d, "data", "drop data")

\* stop has the result of the control server and goes on to the data server.
StopControl(d) ==
    /\ daemon[d].pc = "stop control" /\ Joined(d, "control")
    /\ Signal(d, "data", "stop data")

ResultOf(d, planes) == IF \E p \in planes : thread[d][p] = "failed" THEN "error" ELSE "ok"

\* Mutant: the result of the control server is the result.
StopDataControlOnly(d) ==
    /\ daemon[d].pc = "stop data" /\ Joined(d, "data")
    /\ Goes(d, "down", ResultOf(d, {"control"}))
    /\ UNCHANGED <<thread, asked>>

\* The first error is the result.
StopData(d) ==
    /\ daemon[d].pc = "stop data" /\ Joined(d, "data")
    /\ Goes(d, "down", ResultOf(d, Planes))
    /\ UNCHANGED <<thread, asked>>

\* The fields are dropped in their order, and a failure is discarded.
DropData(d) ==
    /\ daemon[d].pc = "drop data" /\ Joined(d, "data")
    /\ Signal(d, "control", "drop control")

DropControl(d) ==
    /\ daemon[d].pc = "drop control" /\ Joined(d, "control")
    /\ Goes(d, "down", "ok")
    /\ UNCHANGED <<thread, asked>>

\* Drop of the local data_server when spawn returns its error.
UndoData(d) ==
    /\ daemon[d].pc = "undo data"
    /\ \/ "data" \notin asked[d] /\ Signal(d, "data", "undo data")
       \/ /\ Joined(d, "data")
          /\ Goes(d, "down", "error")
          /\ UNCHANGED <<thread, asked>>

-----------------------------------------------------------------------------
Caller(d) ==
    \/ SpawnData(d) \/ SpawnControl(d) \/ UndoData(d)
    \/ StopControl(d) \/ StopData(d) \/ DropData(d) \/ DropControl(d)

Next ==
    \E d \in Daemons :
        \/ Refused(d) \/ Spawn(d) \/ Stop(d) \/ Drop(d)
        \/ Caller(d)
        \/ \E p \in Planes : ThreadStops(d, p)
        \/ AcceptFails(d) \/ ControlPanics(d)

Spec == Init /\ [][Next]_vars

\* A call that has begun goes on, and a server thread whose flag is set comes back to
\* its loop: Controller shows for which peers it does.
FairSpec ==
    Spec /\ \A d \in Daemons : WF_vars(Caller(d)) /\ \A p \in Planes : WF_vars(ThreadStops(d, p))

-----------------------------------------------------------------------------
\* Every variable has the shape of the state it stands for, and no server of a daemon
\* that is up was told to stop.
TypeOK ==
    /\ daemon \in [Daemons ->
         [pc : {"down", "spawn data", "spawn control", "up", "undo data",
                "stop control", "stop data", "drop data", "drop control"},
          result : {"none", "ok", "error"}]]
    /\ thread \in [Daemons -> [Planes -> {"none", "running", "done", "failed"}]]
    /\ asked \in [Daemons -> SUBSET Planes]
    /\ \A d \in Daemons : daemon[d].pc = "up" => asked[d] = {}

\* Once a spawn has failed, a stop has returned, with an error or without, or a daemon
\* was dropped, none of its listeners is bound: neither a control server that failed
\* nor a data server that ended by itself keeps the other one up.
NothingLeft == \A d \in Daemons : daemon[d].pc = "down" => \A p \in Planes : ~Listening(d, p)

\* stop "surfaces shutdown failures to the caller": a call that returns ok after a
\* stop means that both threads ended in order.
StopTruthful ==
    [][\A d \in Daemons : (daemon[d].pc = "stop data" /\ daemon'[d].pc = "down") =>
          (daemon'[d].result = "ok" <=> \A p \in Planes : thread[d][p] = "done")]_vars

\* Whatever addresses collide and whichever thread fails, a daemon that is down has no
\* listener, and stop returns ok only when both threads ended in order.
DaemonSafe == [](TypeOK /\ NothingLeft) /\ StopTruthful

\* When the server threads come back to their loops every call returns: spawn with a daemon or an error, stop and drop at all.
CallsReturn == \A d \in Daemons : daemon[d].pc \notin {"down", "up"} ~> daemon[d].pc \in {"down", "up"}

=============================================================================
