-------------------------- MODULE AsyncKvPipeline --------------------------
(***************************************************************************)
(* AsyncKvPipeline: clients submit jobs to a bounded channel, workers run  *)
(* them, a registry keeps each job's state, atomic counters say how many   *)
(* are in flight, and finish() sleeps on a condition variable that the     *)
(* workers notify without holding its lock.  One step per access to the    *)
(* registry, the channel or an atomic.                                     *)
(*                                                                         *)
(* snapshot, wait and stats change nothing and are left out.               *)
(***************************************************************************)
EXTENDS Integers, Sequences, FiniteSets, TLC

CONSTANTS
    Clients,     \* threads that submit
    Workers,     \* worker threads
    Capacity,    \* queue_capacity
    MaxJobs,     \* bound: job ids handed out
    MaxPanics    \* bound: workers lost to a panic inside a tier

ASSUME PoolAssumption ==
    /\ Capacity \in Nat \ {0} /\ MaxJobs \in Nat /\ MaxPanics \in Nat
    /\ Workers # {} /\ IsFiniteSet(Workers) /\ IsFiniteSet(Clients)

VARIABLES
    jobs,        \* State::jobs, the state of each registered id
    queue,       \* the channel
    nextId,      \* State::next_id
    inflight,    \* State::inflight
    stats,       \* State::submitted, and completed + failed
    open,        \* the sender exists
    client,      \* client[c]: where c is in submit
    worker,      \* worker[w]: where w is in worker_loop
    finisher,    \* a thread calling finish
    owed         \* history: ids whose submit had returned when finish began

vars == <<jobs, queue, nextId, inflight, stats, open, client, worker, finisher, owed>>

Ids == 1..MaxJobs
NoJob == 0
At(pc, id) == [pc |-> pc, id |-> id]

Terminal == {"completed", "failed"}

\* execute runs the job against the engine, whose answers are arbitrary here.
Outcomes == Terminal

ClientStates == {"idle", "registered", "counted", "sent", "refused", "uncounted"}
WorkerStates == {"receiving", "received", "running", "recorded", "released", "exited", "dead"}
FinisherStates == {"idle", "locking", "sleepy", "asleep", "expired", "final", "true", "false"}

Init ==
    /\ jobs = [id \in {} |-> "pending"]
    /\ queue = <<>>
    /\ nextId = 0
    /\ inflight = 0
    /\ stats = [submitted |-> 0, ended |-> 0]
    /\ open = TRUE
    /\ client = [c \in Clients |-> At("idle", NoJob)]
    /\ worker = [w \in Workers |-> At("receiving", NoJob)]
    /\ finisher = "idle"
    /\ owed = {}

\* Condvar::notify_all reaches the threads already asleep, and only those.
Notified == IF finisher = "asleep" THEN "locking" ELSE finisher

Bind(f, id, s) == [j \in DOMAIN f \cup {id} |-> IF j = id THEN s ELSE f[j]]
Unbind(f, id) == [j \in DOMAIN f \ {id} |-> f[j]]

-----------------------------------------------------------------------------
(* AsyncKvPipeline::submit.                                                *)

\* An id nobody has seen yet is drawn and registered.
Register(c) ==
    /\ open /\ client[c].pc = "idle" /\ nextId < MaxJobs
    /\ nextId' = nextId + 1
    /\ jobs' = Bind(jobs, nextId + 1, "pending")
    /\ client' = [client EXCEPT ![c] = At("registered", nextId + 1)]
    /\ UNCHANGED <<queue, inflight, stats, open, worker, finisher, owed>>

Count(c) ==
    /\ client[c].pc = "registered"
    /\ inflight' = inflight + 1
    /\ client' = [client EXCEPT ![c].pc = "counted"]
    /\ UNCHANGED <<jobs, queue, nextId, stats, open, worker, finisher, owed>>

\* The receiver lives as long as some worker does.
Connected == \E w \in Workers : worker[w].pc \notin {"exited", "dead"}

\* Mutant: a bound checked one too late.
SendPastCapacity(c) ==
    /\ client[c].pc = "counted" /\ Connected
    /\ Len(queue) <= Capacity
    /\ queue' = Append(queue, client[c].id)
    /\ client' = [client EXCEPT ![c].pc = "sent"]
    /\ UNCHANGED <<jobs, nextId, inflight, stats, open, worker, finisher, owed>>

Send(c) ==
    /\ client[c].pc = "counted" /\ Connected
    /\ Len(queue) < Capacity
    /\ queue' = Append(queue, client[c].id)
    /\ client' = [client EXCEPT ![c].pc = "sent"]
    /\ UNCHANGED <<jobs, nextId, inflight, stats, open, worker, finisher, owed>>

\* TrySendError::Full or TrySendError::Disconnected.
SendRefused(c) ==
    /\ client[c].pc = "counted"
    /\ Len(queue) >= Capacity \/ ~Connected
    /\ client' = [client EXCEPT ![c].pc = "refused"]
    /\ UNCHANGED <<jobs, queue, nextId, inflight, stats, open, worker, finisher, owed>>

\* Mutant: the registry entry is written after the send.
SubmittedRegisters(c) ==
    /\ client[c].pc = "sent"
    /\ jobs' = Bind(jobs, client[c].id, "pending")
    /\ stats' = [stats EXCEPT !.submitted = @ + 1]
    /\ client' = [client EXCEPT ![c] = At("idle", NoJob)]
    /\ UNCHANGED <<queue, nextId, inflight, open, worker, finisher, owed>>

\* The job may be finished and even taken before submit gets this far.
Submitted(c) ==
    /\ client[c].pc = "sent"
    /\ stats' = [stats EXCEPT !.submitted = @ + 1]
    /\ client' = [client EXCEPT ![c] = At("idle", NoJob)]
    /\ UNCHANGED <<jobs, queue, nextId, inflight, open, worker, finisher, owed>>

\* Mutant: rollback removes the registry entry only.
RollbackEntryOnly(c) ==
    /\ client[c].pc = "refused"
    /\ client' = [client EXCEPT ![c].pc = "uncounted"]
    /\ UNCHANGED <<jobs, queue, nextId, inflight, stats, open, worker, finisher, owed>>

\* rollback: the counter first, then the registry entry.
RollbackCount(c) ==
    /\ client[c].pc = "refused"
    /\ inflight' = inflight - 1
    /\ client' = [client EXCEPT ![c].pc = "uncounted"]
    /\ UNCHANGED <<jobs, queue, nextId, stats, open, worker, finisher, owed>>

RollbackEntry(c) ==
    /\ client[c].pc = "uncounted"
    /\ jobs' = Unbind(jobs, client[c].id)
    /\ client' = [client EXCEPT ![c] = At("idle", NoJob)]
    /\ finisher' = Notified
    /\ UNCHANGED <<queue, nextId, inflight, stats, open, worker, owed>>

\* AsyncKvPipeline::take removes a job only in a terminal state.
Take(id) ==
    /\ open
    /\ id \in DOMAIN jobs /\ jobs[id] \in Terminal
    /\ jobs' = Unbind(jobs, id)
    /\ UNCHANGED <<queue, nextId, inflight, stats, open, client, worker, finisher, owed>>

-----------------------------------------------------------------------------
(* worker_loop.                                                            *)

Receive(w) ==
    /\ worker[w].pc = "receiving" /\ queue # <<>>
    /\ worker' = [worker EXCEPT ![w] = At("received", Head(queue))]
    /\ queue' = Tail(queue)
    /\ UNCHANGED <<jobs, nextId, inflight, stats, open, client, finisher, owed>>

\* recv fails only when the channel is empty and the sender gone.
Exit(w) ==
    /\ worker[w].pc = "receiving" /\ ~open /\ queue = <<>>
    /\ worker' = [worker EXCEPT ![w].pc = "exited"]
    /\ UNCHANGED <<jobs, queue, nextId, inflight, stats, open, client, finisher, owed>>

MarkRunning(w) ==
    /\ worker[w].pc = "received"
    /\ worker' = [worker EXCEPT ![w].pc = "running"]
    /\ jobs' = [id \in DOMAIN jobs |-> IF id = worker[w].id THEN "running" ELSE jobs[id]]
    /\ finisher' = Notified
    /\ UNCHANGED <<queue, nextId, inflight, stats, open, client, owed>>

\* execute, and the registry update of mark_finished.
Record(w) ==
    /\ worker[w].pc = "running"
    /\ \E outcome \in Outcomes : jobs' = Bind(jobs, worker[w].id, outcome)
    /\ stats' = [stats EXCEPT !.ended = @ + 1]
    /\ worker' = [worker EXCEPT ![w].pc = "recorded"]
    /\ UNCHANGED <<queue, nextId, inflight, open, client, finisher, owed>>

Release(w) ==
    /\ worker[w].pc = "recorded"
    /\ inflight' = inflight - 1
    /\ worker' = [worker EXCEPT ![w].pc = "released"]
    /\ UNCHANGED <<jobs, queue, nextId, stats, open, client, finisher, owed>>

Notify(w) ==
    /\ worker[w].pc = "released"
    /\ finisher' = Notified
    /\ worker' = [worker EXCEPT ![w] = At("receiving", NoJob)]
    /\ UNCHANGED <<jobs, queue, nextId, inflight, stats, open, client, owed>>

\* A tier that panics takes the worker with it; nothing is rolled back.
Panic(w) ==
    /\ worker[w].pc = "running"
    /\ Cardinality({u \in Workers : worker[u].pc = "dead"}) < MaxPanics
    /\ worker' = [worker EXCEPT ![w].pc = "dead"]
    /\ UNCHANGED <<jobs, queue, nextId, inflight, stats, open, client, finisher, owed>>

-----------------------------------------------------------------------------
(* finish(timeout) and Drop.                                               *)

\* The ids whose submit has returned Ok.
Accepted ==
    {id \in 1..nextId : id \in DOMAIN jobs /\ \A c \in Clients : client[c].id # id}

Goto(pc) == finisher' = pc /\ UNCHANGED
    <<jobs, queue, nextId, inflight, stats, open, client, worker, owed>>

FinishCall ==
    /\ open /\ finisher = "idle"
    /\ owed' = Accepted
    /\ finisher' = IF inflight = 0 THEN "true" ELSE "locking"
    /\ UNCHANGED <<jobs, queue, nextId, inflight, stats, open, client, worker>>

\* wait_timeout_while evaluates its condition, then sleeps.
FinishCheck == finisher = "locking" /\ Goto(IF inflight = 0 THEN "true" ELSE "sleepy")
FinishSleep == finisher = "sleepy" /\ Goto("asleep")

\* Mutant: an untimed wait.
FinishNoTimeout == FALSE /\ Goto("expired")

FinishTimeout == finisher = "asleep" /\ Goto("expired")
FinishExpired == finisher = "expired" /\ Goto(IF inflight = 0 THEN "true" ELSE "final")

\* Mutant: whatever ended the wait, finish answers true.
FinishOptimistic == finisher = "final" /\ Goto("true")

FinishFinal == finisher = "final" /\ Goto(IF inflight = 0 THEN "true" ELSE "false")

FinishReturn ==
    /\ finisher \in {"true", "false"}
    /\ finisher' = "idle"
    /\ owed' = {}
    /\ UNCHANGED <<jobs, queue, nextId, inflight, stats, open, client, worker>>

\* The last handle goes; Inner::drop closes the channel and joins the workers.
Drop ==
    /\ open /\ finisher = "idle"
    /\ \A c \in Clients : client[c].pc = "idle"
    /\ open' = FALSE
    /\ UNCHANGED <<jobs, queue, nextId, inflight, stats, client, worker, finisher, owed>>

Joined == ~open /\ \A w \in Workers : worker[w].pc \in {"exited", "dead"}

Stopped == Joined /\ UNCHANGED vars

-----------------------------------------------------------------------------
Submit(c) ==
    \/ Register(c) \/ Count(c) \/ Send(c) \/ SendRefused(c)
    \/ Submitted(c) \/ RollbackCount(c) \/ RollbackEntry(c)

Work(w) ==
    \/ Receive(w) \/ Exit(w) \/ MarkRunning(w) \/ Record(w)
    \/ Release(w) \/ Notify(w)

Finish ==
    \/ FinishCall \/ FinishCheck \/ FinishSleep \/ FinishTimeout
    \/ FinishExpired \/ FinishFinal \/ FinishReturn

Next ==
    \/ \E c \in Clients : Submit(c)
    \/ \E w \in Workers : Work(w) \/ Panic(w)
    \/ \E id \in Ids : Take(id)
    \/ Finish
    \/ Drop
    \/ Stopped

Spec == Init /\ [][Next]_vars

\* Threads that can run do run; nobody has to submit, finish or drop.
Fairness ==
    /\ \A w \in Workers : WF_vars(Work(w))
    /\ \A c \in Clients : WF_vars(Submit(c) /\ client[c].pc # "idle")
    /\ WF_vars(Finish /\ finisher # "idle")

FairSpec == Spec /\ Fairness

-----------------------------------------------------------------------------
(* Properties.                                                             *)

Busy(w) == worker[w].pc \in {"received", "running", "recorded", "dead"}
Queued == {queue[i] : i \in 1..Len(queue)}
Held == {worker[w].id : w \in {u \in Workers : Busy(u)}}
Offered == {client[c].id : c \in {d \in Clients : client[d].pc \in {"counted", "refused"}}}

\* Every variable has the shape of the Rust state it stands for; inflight, an
\* unsigned counter, never wraps below zero.
TypeOK ==
    /\ DOMAIN jobs \subseteq Ids
    /\ \A id \in DOMAIN jobs : jobs[id] \in {"pending", "running"} \cup Terminal
    /\ queue \in Seq(Ids)
    /\ nextId \in 0..MaxJobs
    /\ inflight \in Nat
    /\ stats \in [submitted : Nat, ended : Nat]
    /\ open \in BOOLEAN
    /\ client \in [Clients -> [pc : ClientStates, id : 0..MaxJobs]]
    /\ worker \in [Workers -> [pc : WorkerStates, id : 0..MaxJobs]]
    /\ finisher \in FinisherStates
    /\ owed \subseteq Ids

\* inflight counts exactly the jobs some thread still owes an answer for: those
\* being offered or rolled back, those in the channel and those a worker holds.
InflightExact == inflight = Cardinality(Offered \cup Queued \cup Held)

\* Each job is in one place and its registry entry says which: never two workers
\* on one id, never a queued or running id that take or rollback has removed.
OneOwner ==
    /\ \A i, j \in 1..Len(queue) : queue[i] = queue[j] => i = j
    /\ \A u, w \in Workers : Busy(u) /\ Busy(w) /\ worker[u].id = worker[w].id => u = w
    /\ Queued \cap Held = {} /\ (Queued \cup Held) \cap Offered = {}
    /\ \A id \in Queued : id \in DOMAIN jobs /\ jobs[id] = "pending"
    /\ \A w \in Workers : worker[w].pc = "running" =>
         worker[w].id \in DOMAIN jobs /\ jobs[worker[w].id] = "running"

\* When finish answers true, every job whose submit had returned when finish was
\* called has reached a terminal state (and may since have been taken).
FinishTruthful ==
    finisher = "true" =>
        \A id \in owed \cap DOMAIN jobs : jobs[id] \in Terminal

\* The counters settle: once nobody is inside submit and nothing is in flight,
\* every submitted job has been counted as completed or failed.
StatsSettle ==
    (inflight = 0 /\ \A c \in Clients : client[c].pc = "idle")
        => stats.submitted = stats.ended

\* Counter, registry, channel and threads never disagree.
PipelineSafe == TypeOK /\ InflightExact /\ OneOwner /\ StatsSettle

\* A terminal outcome is never overwritten by another state.
OutcomeStable ==
    [][\A id \in DOMAIN jobs \cap DOMAIN jobs' :
          jobs[id] \in Terminal => jobs'[id] = jobs[id]]_vars

\* Every job that reaches the channel is brought to a terminal state.
QueuedJobsEnd ==
    \A id \in Ids : id \in Queued ~> id \notin Queued \cup Held

\* Every call of finish returns, although a notification can be lost between its
\* check and its sleep.
FinishReturns == (finisher # "idle") ~> (finisher = "idle")

\* Dropping the last handle joins every worker, with the channel drained.
DropJoins == ~open ~> (Joined /\ queue = <<>>)

\* Nobody waits for ever: a job for its worker, a caller of finish for its answer, or
\* the drop of the last handle for its threads.
CallersReturn == QueuedJobsEnd /\ FinishReturns /\ DropJoins

\* The jobs being run.  That of a worker a panic has ended stays one of them.
Active ==
    {worker[w].id : w \in {u \in Workers : worker[u].pc \in {"received", "running", "dead"}}}

\* The pipeline is a bounded work queue served by a bounded pool.
WQ == INSTANCE WorkQueue WITH
    Jobs <- Ids, PoolSize <- Cardinality(Workers),
    waiting <- Queued, active <- Active, finished <- stats.ended

\* Each accepted job waits, is taken up once and is finished once, and nothing
\* waits for ever.
IsWorkQueue == WQ!WQSpec

=============================================================================
