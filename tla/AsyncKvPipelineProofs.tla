------------------------ MODULE AsyncKvPipelineProofs ------------------------
(***************************************************************************)
(* The pipeline's bookkeeping for any number of clients, workers and jobs  *)
(* and any capacity.                                                       *)
(***************************************************************************)
EXTENDS AsyncKvPipeline, FiniteSetTheorems, TLAPS

\* Submit has registered its job and not handed it to the channel.
Keeps(c) == client[c].pc \in {"registered", "counted", "refused", "uncounted"}

\* Ids are drawn once, so no two submits hold the same.
ClientsApart ==
    /\ \A c \in Clients : client[c].pc # "idle" => client[c].id \in 1..nextId
    /\ \A c, d \in Clients :
         client[c].pc # "idle" /\ client[d].pc # "idle" /\ client[c].id = client[d].id => c = d

\* A queued job is queued once, and neither a submit nor a worker has it.
QueueApart ==
    /\ \A i \in 1..Len(queue) : queue[i] \in 1..nextId
    /\ \A i, j \in 1..Len(queue) : queue[i] = queue[j] => i = j
    /\ \A i \in 1..Len(queue), c \in Clients : Keeps(c) => queue[i] # client[c].id
    /\ \A i \in 1..Len(queue), w \in Workers : Busy(w) => queue[i] # worker[w].id

\* A job is with one worker, and then with no submit.
WorkersApart ==
    /\ \A w \in Workers : Busy(w) => worker[w].id \in 1..nextId
    /\ \A u, w \in Workers : Busy(u) /\ Busy(w) /\ worker[u].id = worker[w].id => u = w
    /\ \A w \in Workers, c \in Clients : Busy(w) /\ Keeps(c) => worker[w].id # client[c].id

\* The registry says where a job is, and an unfinished job is somewhere.
Registered ==
    /\ \A id \in DOMAIN jobs : id \in 1..nextId
    /\ \A c \in Clients :
         Keeps(c) => client[c].id \in DOMAIN jobs /\ jobs[client[c].id] = "pending"
    /\ \A i \in 1..Len(queue) : queue[i] \in DOMAIN jobs /\ jobs[queue[i]] = "pending"
    /\ \A w \in Workers :
         worker[w].pc = "received" => worker[w].id \in DOMAIN jobs /\ jobs[worker[w].id] = "pending"
    /\ \A w \in Workers : worker[w].pc \in {"running", "dead"} =>
         worker[w].id \in DOMAIN jobs /\ jobs[worker[w].id] = "running"
    /\ \A w \in Workers : worker[w].pc = "recorded" /\ worker[w].id \in DOMAIN jobs =>
         jobs[worker[w].id] \in Terminal
    /\ \A id \in DOMAIN jobs :
         \/ jobs[id] \in Terminal
         \/ \E c \in Clients : Keeps(c) /\ client[c].id = id
         \/ \E i \in 1..Len(queue) : queue[i] = id
         \/ \E w \in Workers : Busy(w) /\ worker[w].id = id

\* What finish waits for was handed over before it began.
OwedApart ==
    /\ owed \subseteq 1..nextId
    /\ \A id \in owed, c \in Clients : Keeps(c) => client[c].id # id

\* The jobs counted in inflight.
Owing == Offered \cup Queued \cup Held

\* The submits that have yet to count their job, and the jobs that have yet to end.
Sent == {c \in Clients : client[c].pc = "sent"}
Unended == Queued \cup {worker[w].id : w \in {u \in Workers : worker[u].pc \in {"received", "running", "dead"}}}

\* Every job that was sent is counted as submitted, or about to be.
StatsExact == stats.submitted + Cardinality(Sent) = stats.ended + Cardinality(Unended)

\* The inductive invariant.
Inv ==
    /\ TypeOK /\ ClientsApart /\ QueueApart /\ WorkersApart /\ Registered /\ OwedApart
    /\ InflightExact /\ StatsExact /\ FinishTruthful

-----------------------------------------------------------------------------
\* The sets of jobs, by their members.
LEMMA InOwing ==
    ASSUME NEW x
    PROVE  /\ x \in Owing <=>
                \/ \E c \in Clients : client[c].pc \in {"counted", "refused"} /\ client[c].id = x
                \/ \E i \in 1..Len(queue) : queue[i] = x
                \/ \E w \in Workers : Busy(w) /\ worker[w].id = x
           /\ x \in Owing' <=>
                \/ \E c \in Clients : client'[c].pc \in {"counted", "refused"} /\ client'[c].id = x
                \/ \E i \in 1..Len(queue') : queue'[i] = x
                \/ \E w \in Workers : Busy(w)' /\ worker'[w].id = x
BY DEF Owing, Offered, Queued, Held

LEMMA InUnended ==
    ASSUME NEW x
    PROVE  /\ x \in Unended <=>
                \/ \E i \in 1..Len(queue) : queue[i] = x
                \/ \E w \in Workers : worker[w].pc \in {"received", "running", "dead"} /\ worker[w].id = x
           /\ x \in Unended' <=>
                \/ \E i \in 1..Len(queue') : queue'[i] = x
                \/ \E w \in Workers : worker'[w].pc \in {"received", "running", "dead"} /\ worker'[w].id = x
BY DEF Unended, Queued

LEMMA JobsFinite ==
    ASSUME Inv
    PROVE  /\ IsFiniteSet(Owing) /\ Cardinality(Owing) \in Nat
           /\ IsFiniteSet(Unended) /\ Cardinality(Unended) \in Nat
           /\ IsFiniteSet(Sent) /\ Cardinality(Sent) \in Nat
<1>1. IsFiniteSet(1..nextId)
  BY FS_Interval DEF Inv, TypeOK
<1>2. \A x \in Owing : x \in 1..nextId
  <2>1. ASSUME NEW x \in Owing PROVE x \in 1..nextId
    BY <2>1, InOwing DEF Inv, ClientsApart, QueueApart, WorkersApart
  <2>2. QED
    BY <2>1
<1>3. \A x \in Unended : x \in 1..nextId
  <2>1. ASSUME NEW x \in Unended PROVE x \in 1..nextId
    BY <2>1, InUnended DEF Inv, QueueApart, WorkersApart, Busy
  <2>2. QED
    BY <2>1
<1>4. IsFiniteSet(Owing) /\ IsFiniteSet(Unended)
  BY <1>1, <1>2, <1>3, FS_Subset
<1>5. IsFiniteSet(Sent)
  BY PoolAssumption, FS_Subset DEF Sent
<1>6. QED
  BY <1>4, <1>5, FS_CardinalityType

-----------------------------------------------------------------------------
(* submit.                                                                 *)

LEMMA InitInv == Init => Inv
<1> SUFFICES ASSUME Init PROVE Inv
  OBVIOUS
<1>1. TypeOK
  BY PoolAssumption DEF Init, TypeOK, At, Ids, NoJob, ClientStates, WorkerStates, FinisherStates
<1>2. ClientsApart /\ QueueApart /\ WorkersApart /\ Registered /\ OwedApart /\ FinishTruthful
  BY DEF Init, ClientsApart, QueueApart, WorkersApart, Registered, OwedApart, FinishTruthful,
         Keeps, Busy, At
<1>3. Owing = {} /\ Unended = {} /\ Sent = {}
  <2>1. \A x : x \notin Owing
    BY InOwing DEF Init, Busy, At
  <2>2. \A x : x \notin Unended
    BY InUnended DEF Init, At
  <2>3. Sent = {}
    BY DEF Init, Sent, At
  <2>4. QED
    BY <2>1, <2>2, <2>3
<1>4. Cardinality({}) = 0
  BY FS_EmptySet
<1>5. InflightExact
  BY <1>3, <1>4 DEF Init, InflightExact, Owing
<1>6. StatsExact
  BY <1>3, <1>4 DEF Init, StatsExact
<1>7. QED
  BY <1>1, <1>2, <1>5, <1>6 DEF Inv

\* A step that moves no job from one place to another.
LEMMA CountsKept ==
    ASSUME Inv, UNCHANGED <<queue, inflight, stats>>,
           \A c \in Clients : client'[c].pc \in {"counted", "refused"} <=> client[c].pc \in {"counted", "refused"},
           \A c \in Clients : client'[c].pc \in {"counted", "refused"} => client'[c].id = client[c].id,
           \A c \in Clients : client'[c].pc = "sent" <=> client[c].pc = "sent",
           \A w \in Workers : Busy(w)' <=> Busy(w),
           \A w \in Workers : worker'[w].pc \in {"received", "running", "dead"} <=> worker[w].pc \in {"received", "running", "dead"},
           \A w \in Workers : Busy(w) => worker'[w].id = worker[w].id
    PROVE  InflightExact' /\ StatsExact'
<1>1. Owing' = Owing
  <2>1. \A x : x \in Owing' <=> x \in Owing
    BY InOwing
  <2>2. QED
    BY <2>1
<1>2. Unended' = Unended
  <2>1. \A x : x \in Unended' <=> x \in Unended
    BY InUnended DEF Busy
  <2>2. QED
    BY <2>1
<1>3. Sent' = Sent
  BY DEF Sent
<1>4. QED
  BY <1>1, <1>2, <1>3 DEF Inv, InflightExact, StatsExact, Owing

LEMMA RegisterInv ==
    ASSUME Inv, NEW c \in Clients, Register(c)
    PROVE  Inv'
<1> DEFINE new == nextId + 1
<1>1. /\ client[c].pc = "idle" /\ nextId < MaxJobs /\ nextId' = new
      /\ jobs' = Bind(jobs, new, "pending")
      /\ client' = [client EXCEPT ![c] = At("registered", new)]
      /\ UNCHANGED <<queue, inflight, stats, open, worker, finisher, owed>>
  BY DEF Register
<1>2. nextId \in Nat /\ MaxJobs \in Nat /\ new \in Ids
  BY <1>1, PoolAssumption DEF Inv, TypeOK, Ids
<1>3. /\ client'[c].pc = "registered" /\ client'[c].id = new
      /\ \A d \in Clients : d # c => client'[d] = client[d]
  BY <1>1 DEF Inv, TypeOK, At
<1>4. /\ DOMAIN jobs' = DOMAIN jobs \cup {new} /\ jobs'[new] = "pending"
      /\ new \notin DOMAIN jobs /\ \A id \in DOMAIN jobs : jobs'[id] = jobs[id]
  BY <1>1, <1>2 DEF Bind, Inv, Registered
<1>5. TypeOK'
  BY <1>1, <1>2, <1>4 DEF Inv, TypeOK, At, ClientStates
<1>6. ClientsApart'
  BY <1>1, <1>2, <1>3 DEF Inv, ClientsApart
<1>7. QueueApart'
  BY <1>1, <1>2, <1>3 DEF Inv, QueueApart, Keeps, Busy
<1>8. WorkersApart'
  BY <1>1, <1>2, <1>3 DEF Inv, WorkersApart, Keeps, Busy
<1>9. Registered'
  <2>1. \A w \in Workers : Busy(w) => worker[w].id # new
    BY <1>2 DEF Inv, WorkersApart
  <2>2. QED
    BY <1>1, <1>2, <1>3, <1>4, <2>1 DEF Inv, Registered, Keeps, Busy
<1>10. OwedApart' /\ FinishTruthful'
  BY <1>1, <1>2, <1>3, <1>4 DEF Inv, OwedApart, FinishTruthful, Keeps
<1>11. InflightExact' /\ StatsExact'
  BY <1>1, <1>3, CountsKept DEF Busy
<1>12. QED
  BY <1>5, <1>6, <1>7, <1>8, <1>9, <1>10, <1>11 DEF Inv

\* One more, one less.
LEMMA OneMore ==
    ASSUME NEW S, NEW x, IsFiniteSet(S), x \notin S
    PROVE  Cardinality(S \cup {x}) = Cardinality(S) + 1
BY FS_AddElement

LEMMA OneLess ==
    ASSUME NEW S, NEW x, IsFiniteSet(S), x \in S
    PROVE  Cardinality(S \ {x}) = Cardinality(S) - 1 /\ Cardinality(S) > 0
<1>1. Cardinality(S \ {x}) = Cardinality(S) - 1
  BY FS_RemoveElement
<1>2. Cardinality(S \ {x}) \in Nat /\ Cardinality(S) \in Nat
  BY FS_RemoveElement, FS_CardinalityType
<1>3. QED
  BY <1>1, <1>2

\* A submit that keeps its job and its place only moves its program counter.
SubmitMoves(c, pc) ==
    /\ Keeps(c) /\ pc \in {"registered", "counted", "refused", "uncounted"}
    /\ client' = [client EXCEPT ![c].pc = pc]
    /\ UNCHANGED <<jobs, queue, nextId, stats, open, worker, finisher, owed>>

LEMMA SubmitMovesPlaces ==
    ASSUME Inv, NEW c \in Clients, NEW pc, SubmitMoves(c, pc)
    PROVE  /\ ClientsApart' /\ QueueApart' /\ WorkersApart' /\ Registered' /\ OwedApart'
           /\ FinishTruthful' /\ StatsExact'
           /\ client' \in [Clients -> [pc : ClientStates, id : 0..MaxJobs]]
           /\ client'[c].pc = pc /\ client'[c].id = client[c].id
           /\ \A d \in Clients : d # c => client'[d] = client[d]
<1>1. /\ client'[c].pc = pc /\ client'[c].id = client[c].id
      /\ \A d \in Clients : d # c => client'[d] = client[d]
      /\ client' \in [Clients -> [pc : ClientStates, id : 0..MaxJobs]]
  BY DEF SubmitMoves, Inv, TypeOK, ClientStates
<1>2. \A d \in Clients : Keeps(d)' <=> Keeps(d)
  BY <1>1 DEF SubmitMoves, Keeps
<1>3. \A d \in Clients : client'[d].id = client[d].id
  BY <1>1
<1>4. \A d \in Clients : client'[d].pc = "idle" <=> client[d].pc = "idle"
  BY <1>1 DEF SubmitMoves, Keeps
<1>5. UNCHANGED <<jobs, queue, nextId, stats, open, worker, finisher, owed>>
  BY DEF SubmitMoves
<1>6. ClientsApart'
  BY <1>3, <1>4, <1>5 DEF Inv, ClientsApart
<1>7. QueueApart'
  BY <1>2, <1>3, <1>5 DEF Inv, QueueApart, Busy
<1>8. WorkersApart'
  BY <1>2, <1>3, <1>5 DEF Inv, WorkersApart, Busy
<1>9. Registered'
  BY <1>2, <1>3, <1>5 DEF Inv, Registered, Busy
<1>10. OwedApart' /\ FinishTruthful'
  BY <1>2, <1>3, <1>5 DEF Inv, OwedApart, FinishTruthful
<1>11. StatsExact'
  <2>1. Unended' = Unended
    BY <1>5 DEF Unended, Queued
  <2>2. Sent' = Sent
    BY <1>1 DEF Sent, SubmitMoves, Keeps
  <2>3. QED
    BY <1>5, <2>1, <2>2 DEF Inv, StatsExact
<1>12. QED
  BY <1>1, <1>6, <1>7, <1>8, <1>9, <1>10, <1>11

LEMMA CountInv ==
    ASSUME Inv, NEW c \in Clients, Count(c)
    PROVE  Inv'
<1>1. SubmitMoves(c, "counted") /\ client[c].pc = "registered" /\ inflight' = inflight + 1
  BY DEF Count, SubmitMoves, Keeps
<1>0. /\ client'[c].id = client[c].id /\ client'[c].pc = "counted"
      /\ \A d \in Clients : d # c => client'[d] = client[d]
      /\ queue' = queue /\ worker' = worker
  BY <1>1, SubmitMovesPlaces DEF SubmitMoves
<1>2. InflightExact' /\ inflight' \in Nat
  <2>1. client[c].id \notin Owing
    BY <1>1, InOwing DEF Inv, ClientsApart, QueueApart, WorkersApart, Keeps
  <2>2. Owing' = Owing \cup {client[c].id}
    <3>1. ASSUME NEW x PROVE x \in Owing' <=> x \in Owing \/ x = client[c].id
      <4>1. ASSUME x \in Owing' PROVE x \in Owing \/ x = client[c].id
        BY <1>0, <4>1, InOwing DEF Busy
      <4>2. ASSUME x \in Owing PROVE x \in Owing'
        BY <1>0, <1>1, <4>2, InOwing DEF Busy
      <4>3. client[c].id \in Owing'
        BY <1>0, InOwing
      <4>4. QED
        BY <4>1, <4>2, <4>3
    <3>2. QED
      BY <3>1
  <2>3. Cardinality(Owing') = Cardinality(Owing) + 1
    BY <2>1, <2>2, JobsFinite, OneMore
  <2>4. QED
    BY <1>1, <2>3 DEF Inv, TypeOK, InflightExact, Owing
<1>3. TypeOK'
  BY <1>1, <1>2, SubmitMovesPlaces DEF Inv, TypeOK, SubmitMoves
<1>4. QED
  BY <1>1, <1>2, <1>3, SubmitMovesPlaces DEF Inv

LEMMA SendRefusedInv ==
    ASSUME Inv, NEW c \in Clients, SendRefused(c)
    PROVE  Inv'
<1>1. SubmitMoves(c, "refused") /\ client[c].pc = "counted" /\ inflight' = inflight
  BY DEF SendRefused, SubmitMoves, Keeps
<1>0. /\ client'[c].id = client[c].id /\ client'[c].pc = "refused"
      /\ \A d \in Clients : d # c => client'[d] = client[d]
      /\ queue' = queue /\ worker' = worker
  BY <1>1, SubmitMovesPlaces DEF SubmitMoves
<1>2. InflightExact'
  <2>1. Owing' = Owing
    <3>1. ASSUME NEW x PROVE x \in Owing' <=> x \in Owing
      BY <1>0, <1>1, InOwing DEF Busy
    <3>2. QED
      BY <3>1
  <2>2. QED
    BY <1>1, <2>1 DEF Inv, InflightExact, Owing
<1>3. TypeOK'
  BY <1>1, SubmitMovesPlaces DEF Inv, TypeOK, SubmitMoves
<1>4. QED
  BY <1>1, <1>2, <1>3, SubmitMovesPlaces DEF Inv

LEMMA RollbackCountInv ==
    ASSUME Inv, NEW c \in Clients, RollbackCount(c)
    PROVE  Inv'
<1>1. SubmitMoves(c, "uncounted") /\ client[c].pc = "refused" /\ inflight' = inflight - 1
  BY DEF RollbackCount, SubmitMoves, Keeps
<1>0. /\ client'[c].id = client[c].id /\ client'[c].pc = "uncounted"
      /\ \A d \in Clients : d # c => client'[d] = client[d]
      /\ queue' = queue /\ worker' = worker
  BY <1>1, SubmitMovesPlaces DEF SubmitMoves
<1>2. InflightExact' /\ inflight' \in Nat
  <2>1. client[c].id \in Owing
    BY <1>1, InOwing
  <2>2. Owing' = Owing \ {client[c].id}
    <3>1. ASSUME NEW x PROVE x \in Owing' <=> x \in Owing /\ x # client[c].id
      <4>1. ASSUME x \in Owing' PROVE x \in Owing /\ x # client[c].id
        <5>1. ASSUME NEW d \in Clients, client'[d].pc \in {"counted", "refused"}, client'[d].id = x
              PROVE  d # c /\ client[d].pc \in {"counted", "refused"} /\ client[d].id = x /\ x # client[c].id
          BY <1>0, <1>1, <5>1 DEF Inv, ClientsApart
        <5>2. ASSUME NEW i \in 1..Len(queue), queue[i] = x PROVE x # client[c].id
          BY <1>1, <5>2 DEF Inv, QueueApart, Keeps
        <5>3. ASSUME NEW w \in Workers, Busy(w), worker[w].id = x PROVE x # client[c].id
          BY <1>1, <5>3 DEF Inv, WorkersApart, Keeps
        <5>4. QED
          BY <1>0, <4>1, <5>1, <5>2, <5>3, InOwing DEF Busy
      <4>2. ASSUME x \in Owing, x # client[c].id PROVE x \in Owing'
        BY <1>0, <4>2, InOwing DEF Busy
      <4>3. QED
        BY <4>1, <4>2
    <3>2. QED
      BY <3>1
  <2>3. Cardinality(Owing') = Cardinality(Owing) - 1 /\ Cardinality(Owing) > 0
    BY <2>1, <2>2, JobsFinite, OneLess
  <2>4. QED
    BY <1>1, <2>3 DEF Inv, TypeOK, InflightExact, Owing
<1>3. TypeOK'
  BY <1>1, <1>2, SubmitMovesPlaces DEF Inv, TypeOK, SubmitMoves
<1>4. QED
  BY <1>1, <1>2, <1>3, SubmitMovesPlaces DEF Inv

LEMMA SendInv ==
    ASSUME Inv, NEW c \in Clients, Send(c)
    PROVE  Inv'
<1> DEFINE id == client[c].id
<1>1. /\ client[c].pc = "counted" /\ queue' = Append(queue, id)
      /\ client' = [client EXCEPT ![c].pc = "sent"]
      /\ UNCHANGED <<jobs, nextId, inflight, stats, open, worker, finisher, owed>>
  BY DEF Send
<1>2. /\ client'[c].pc = "sent" /\ client'[c].id = id
      /\ \A d \in Clients : d # c => client'[d] = client[d]
      /\ client' \in [Clients -> [pc : ClientStates, id : 0..MaxJobs]]
  BY <1>1 DEF Inv, TypeOK, ClientStates
<1>3. id \in 1..nextId /\ id \in Ids /\ id \in DOMAIN jobs /\ jobs[id] = "pending"
  BY <1>1 DEF Inv, ClientsApart, Registered, Keeps, TypeOK
<1>4. /\ Len(queue') = Len(queue) + 1 /\ Len(queue) \in Nat /\ queue'[Len(queue) + 1] = id
      /\ \A i \in 1..Len(queue) : queue'[i] = queue[i]
      /\ queue' \in Seq(Ids)
  BY <1>1, <1>3 DEF Inv, TypeOK
<1>5. \A i \in 1..Len(queue') : 
        (i = Len(queue) + 1 /\ queue'[i] = id) \/ (i \in 1..Len(queue) /\ queue'[i] = queue[i])
  BY <1>4
<1>6. \A d \in Clients : Keeps(d)' => d # c /\ Keeps(d) /\ client'[d].id = client[d].id
  BY <1>2 DEF Keeps
<1>7. /\ \A i \in 1..Len(queue) : queue[i] # id
      /\ \A d \in Clients : Keeps(d)' => client'[d].id # id
      /\ \A w \in Workers : Busy(w) => worker[w].id # id
  BY <1>1, <1>2, <1>6 DEF Inv, ClientsApart, QueueApart, WorkersApart, Keeps
<1>8. TypeOK'
  BY <1>1, <1>2, <1>4 DEF Inv, TypeOK
<1>9. ClientsApart'
  BY <1>1, <1>2 DEF Inv, ClientsApart
<1>10. QueueApart'
  BY <1>1, <1>3, <1>4, <1>5, <1>6, <1>7 DEF Inv, QueueApart, Busy
<1>11. WorkersApart'
  BY <1>1, <1>6 DEF Inv, WorkersApart, Busy
<1>12. Registered'
  <2>1. \A x \in DOMAIN jobs :
         \/ jobs[x] \in Terminal
         \/ \E d \in Clients : Keeps(d)' /\ client'[d].id = x
         \/ \E i \in 1..Len(queue') : queue'[i] = x
         \/ \E w \in Workers : Busy(w) /\ worker[w].id = x
    <3>1. ASSUME NEW x \in DOMAIN jobs, NEW d \in Clients, Keeps(d), client[d].id = x, x # id
          PROVE  Keeps(d)' /\ client'[d].id = x
      BY <1>2, <3>1 DEF Keeps
    <3>2. ASSUME NEW x \in DOMAIN jobs, NEW i \in 1..Len(queue), queue[i] = x
          PROVE  i \in 1..Len(queue') /\ queue'[i] = x
      BY <1>4, <3>2
    <3>3. Len(queue) + 1 \in 1..Len(queue') /\ queue'[Len(queue) + 1] = id
      BY <1>4
    <3>4. QED
      BY <3>1, <3>2, <3>3 DEF Inv, Registered
  <2>2. \A i \in 1..Len(queue') : queue'[i] \in DOMAIN jobs /\ jobs[queue'[i]] = "pending"
    BY <1>3, <1>5 DEF Inv, Registered
  <2>3. \A d \in Clients : Keeps(d)' => client'[d].id \in DOMAIN jobs /\ jobs[client'[d].id] = "pending"
    BY <1>6 DEF Inv, Registered
  <2>4. jobs' = jobs /\ nextId' = nextId /\ worker' = worker /\ \A w \in Workers : Busy(w)' <=> Busy(w)
    BY <1>1 DEF Busy
  <2>5. QED
    BY <2>1, <2>2, <2>3, <2>4 DEF Inv, Registered
<1>13. OwedApart' /\ FinishTruthful'
  BY <1>1, <1>6 DEF Inv, OwedApart, FinishTruthful
<1>14. InflightExact'
  <2>1. Owing' = Owing
    <3>1. ASSUME NEW x, x \in Owing' PROVE x \in Owing
      BY <1>1, <1>2, <1>5, <3>1, InOwing DEF Busy
    <3>2. ASSUME NEW x, x \in Owing PROVE x \in Owing'
      <4>1. ASSUME NEW i \in 1..Len(queue), queue[i] = x PROVE x \in Owing'
        BY <1>4, <4>1, InOwing
      <4>2. id \in Owing'
        BY <1>4, InOwing
      <4>3. ASSUME NEW d \in Clients, client[d].pc \in {"counted", "refused"}, client[d].id = x PROVE x \in Owing'
        BY <1>2, <4>2, <4>3, InOwing
      <4>4. ASSUME NEW w \in Workers, Busy(w), worker[w].id = x PROVE x \in Owing'
        BY <1>1, <4>4, InOwing DEF Busy
      <4>5. QED
        BY <3>2, <4>1, <4>3, <4>4, InOwing
    <3>3. QED
      BY <3>1, <3>2
  <2>2. QED
    BY <1>1, <2>1 DEF Inv, InflightExact, Owing
<1>15. StatsExact'
  <2>1. Sent' = Sent \cup {c} /\ c \notin Sent
    BY <1>1, <1>2 DEF Sent
  <2>2. id \notin Unended
    BY <1>7, InUnended DEF Busy
  <2>3. Unended' = Unended \cup {id}
    <3>1. ASSUME NEW x, x \in Unended' PROVE x \in Unended \/ x = id
      BY <1>1, <1>5, <3>1, InUnended
    <3>2. ASSUME NEW x, x \in Unended PROVE x \in Unended'
      BY <1>1, <1>4, <3>2, InUnended
    <3>3. id \in Unended'
      BY <1>4, InUnended
    <3>4. QED
      BY <3>1, <3>2, <3>3
  <2>4. /\ Cardinality(Sent') = Cardinality(Sent) + 1
        /\ Cardinality(Unended') = Cardinality(Unended) + 1
    BY <2>1, <2>2, <2>3, JobsFinite, OneMore
  <2>5. stats.submitted \in Nat /\ stats.ended \in Nat
    BY DEF Inv, TypeOK
  <2>6. QED
    <3>1. stats.submitted + Cardinality(Sent) = stats.ended + Cardinality(Unended)
      BY DEF Inv, StatsExact
    <3>2. stats' = stats /\ Cardinality(Sent) \in Nat /\ Cardinality(Unended) \in Nat
      BY <1>1, JobsFinite
    <3>3. QED
      BY <2>4, <2>5, <3>1, <3>2 DEF StatsExact
<1>16. QED
  BY <1>8, <1>9, <1>10, <1>11, <1>12, <1>13, <1>14, <1>15 DEF Inv

LEMMA SubmittedInv ==
    ASSUME Inv, NEW c \in Clients, Submitted(c)
    PROVE  Inv'
<1>1. /\ client[c].pc = "sent" /\ client' = [client EXCEPT ![c] = At("idle", NoJob)]
      /\ stats' = [stats EXCEPT !.submitted = @ + 1]
      /\ UNCHANGED <<jobs, queue, nextId, inflight, open, worker, finisher, owed>>
  BY DEF Submitted
<1>2. /\ client'[c].pc = "idle" /\ \A d \in Clients : d # c => client'[d] = client[d]
      /\ client' \in [Clients -> [pc : ClientStates, id : 0..MaxJobs]]
  BY <1>1, PoolAssumption DEF Inv, TypeOK, At, ClientStates, NoJob
<1>3. /\ stats'.submitted = stats.submitted + 1 /\ stats'.ended = stats.ended
      /\ stats' \in [submitted : Nat, ended : Nat] /\ stats.submitted \in Nat /\ stats.ended \in Nat
  BY <1>1 DEF Inv, TypeOK
<1>4. \A d \in Clients : (Keeps(d)' <=> Keeps(d)) /\ (Keeps(d) => client'[d] = client[d])
  BY <1>1, <1>2 DEF Keeps
<1>5. TypeOK'
  BY <1>1, <1>2, <1>3 DEF Inv, TypeOK
<1>6. ClientsApart'
  BY <1>1, <1>2 DEF Inv, ClientsApart
<1>7. QueueApart' /\ WorkersApart'
  BY <1>1, <1>4 DEF Inv, QueueApart, WorkersApart, Busy
<1>8. Registered'
  BY <1>1, <1>4 DEF Inv, Registered, Busy
<1>9. OwedApart' /\ FinishTruthful'
  BY <1>1, <1>4 DEF Inv, OwedApart, FinishTruthful
<1>10. InflightExact'
  <2>1. Owing' = Owing
    <3>1. ASSUME NEW x PROVE x \in Owing' <=> x \in Owing
      BY <1>1, <1>2, InOwing DEF Busy
    <3>2. QED
      BY <3>1
  <2>2. QED
    BY <1>1, <2>1 DEF Inv, InflightExact, Owing
<1>11. StatsExact'
  <2>1. Sent' = Sent \ {c} /\ c \in Sent
    BY <1>1, <1>2 DEF Sent
  <2>2. Unended' = Unended
    BY <1>1 DEF Unended, Queued
  <2>3. Cardinality(Sent') = Cardinality(Sent) - 1
    BY <2>1, JobsFinite, OneLess
  <2>4. stats.submitted + Cardinality(Sent) = stats.ended + Cardinality(Unended)
    BY DEF Inv, StatsExact
  <2>5. Cardinality(Sent) \in Nat /\ Cardinality(Unended) \in Nat
    BY JobsFinite
  <2>6. QED
    BY <1>3, <2>2, <2>3, <2>4, <2>5 DEF StatsExact
<1>12. QED
  BY <1>5, <1>6, <1>7, <1>8, <1>9, <1>10, <1>11 DEF Inv

LEMMA RollbackEntryInv ==
    ASSUME Inv, NEW c \in Clients, RollbackEntry(c)
    PROVE  Inv'
<1> DEFINE id == client[c].id
<1>1. /\ client[c].pc = "uncounted" /\ client' = [client EXCEPT ![c] = At("idle", NoJob)]
      /\ jobs' = Unbind(jobs, id) /\ finisher' = Notified
      /\ UNCHANGED <<queue, nextId, inflight, stats, open, worker, owed>>
  BY DEF RollbackEntry
<1>2. /\ client'[c].pc = "idle" /\ \A d \in Clients : d # c => client'[d] = client[d]
      /\ client' \in [Clients -> [pc : ClientStates, id : 0..MaxJobs]]
  BY <1>1, PoolAssumption DEF Inv, TypeOK, At, ClientStates, NoJob
<1>3. DOMAIN jobs' = DOMAIN jobs \ {id} /\ \A x \in DOMAIN jobs' : x \in DOMAIN jobs /\ jobs'[x] = jobs[x]
  BY <1>1 DEF Unbind
<1>4. \A d \in Clients : (Keeps(d)' <=> Keeps(d) /\ d # c) /\ (d # c => client'[d] = client[d])
  BY <1>1, <1>2 DEF Keeps
<1>5. /\ \A d \in Clients : Keeps(d)' => client[d].id # id
      /\ \A i \in 1..Len(queue) : queue[i] # id
      /\ \A w \in Workers : Busy(w) => worker[w].id # id
  BY <1>1, <1>4 DEF Inv, ClientsApart, QueueApart, WorkersApart, Keeps
<1>6. finisher' \in FinisherStates /\ (finisher' = "true" => finisher = "true")
  BY <1>1 DEF Inv, TypeOK, Notified, FinisherStates
<1>7. TypeOK'
  BY <1>1, <1>2, <1>3, <1>6 DEF Inv, TypeOK
<1>8. ClientsApart'
  BY <1>1, <1>2 DEF Inv, ClientsApart
<1>9. QueueApart' /\ WorkersApart'
  BY <1>1, <1>4 DEF Inv, QueueApart, WorkersApart, Busy
<1>10. Registered'
  <2>1. \A d \in Clients : Keeps(d)' => client'[d].id \in DOMAIN jobs' /\ jobs'[client'[d].id] = "pending"
    BY <1>3, <1>4, <1>5 DEF Inv, Registered
  <2>2. \A i \in 1..Len(queue) : queue[i] \in DOMAIN jobs' /\ jobs'[queue[i]] = "pending"
    BY <1>3, <1>5 DEF Inv, Registered
  <2>3. /\ \A w \in Workers : worker[w].pc = "received" =>
               worker[w].id \in DOMAIN jobs' /\ jobs'[worker[w].id] = "pending"
        /\ \A w \in Workers : worker[w].pc \in {"running", "dead"} =>
               worker[w].id \in DOMAIN jobs' /\ jobs'[worker[w].id] = "running"
        /\ \A w \in Workers : worker[w].pc = "recorded" /\ worker[w].id \in DOMAIN jobs' =>
               jobs'[worker[w].id] \in Terminal
    <3>1. \A w \in Workers :
            worker[w].pc \in {"received", "running", "dead", "recorded"} => worker[w].id # id
      BY <1>5 DEF Busy
    <3>2. QED
      BY <1>3, <3>1 DEF Inv, Registered
  <2>4. \A x \in DOMAIN jobs' :
         \/ jobs'[x] \in Terminal
         \/ \E d \in Clients : Keeps(d)' /\ client'[d].id = x
         \/ \E i \in 1..Len(queue) : queue[i] = x
         \/ \E w \in Workers : Busy(w) /\ worker[w].id = x
    BY <1>3, <1>4 DEF Inv, Registered
  <2>5. \A x \in DOMAIN jobs' : x \in 1..nextId'
    BY <1>1, <1>3 DEF Inv, Registered
  <2>6. QED
    BY <1>1, <2>1, <2>2, <2>3, <2>4, <2>5 DEF Registered, Busy
<1>11. OwedApart' /\ FinishTruthful'
  BY <1>1, <1>3, <1>4, <1>6 DEF Inv, OwedApart, FinishTruthful
<1>12. InflightExact' /\ StatsExact'
  BY <1>1, <1>2, CountsKept DEF Busy
<1>13. QED
  BY <1>7, <1>8, <1>9, <1>10, <1>11, <1>12 DEF Inv

LEMMA TakeInv ==
    ASSUME Inv, NEW id, Take(id)
    PROVE  Inv'
<1>1. /\ id \in DOMAIN jobs /\ jobs[id] \in Terminal /\ jobs' = Unbind(jobs, id)
      /\ UNCHANGED <<queue, nextId, inflight, stats, open, client, worker, finisher, owed>>
  BY DEF Take
<1>2. DOMAIN jobs' = DOMAIN jobs \ {id} /\ \A x \in DOMAIN jobs' : x \in DOMAIN jobs /\ jobs'[x] = jobs[x]
  BY <1>1 DEF Unbind
<1>3. jobs[id] # "pending" /\ jobs[id] # "running"
  BY <1>1 DEF Terminal
<1>4. TypeOK'
  BY <1>1, <1>2 DEF Inv, TypeOK
<1>5. ClientsApart' /\ QueueApart' /\ WorkersApart'
  BY <1>1 DEF Inv, ClientsApart, QueueApart, WorkersApart, Busy, Keeps
<1>6. Registered'
  BY <1>1, <1>2, <1>3 DEF Inv, Registered, Busy, Keeps
<1>7. OwedApart' /\ FinishTruthful'
  BY <1>1, <1>2 DEF Inv, OwedApart, FinishTruthful, Keeps
<1>8. InflightExact' /\ StatsExact'
  BY <1>1, CountsKept DEF Busy
<1>9. QED
  BY <1>4, <1>5, <1>6, <1>7, <1>8 DEF Inv

-----------------------------------------------------------------------------
(* worker_loop.                                                            *)

LEMMA ReceiveInv ==
    ASSUME Inv, NEW w \in Workers, Receive(w)
    PROVE  Inv'
<1> DEFINE id == Head(queue)
<1>1. /\ worker[w].pc = "receiving" /\ queue # <<>> /\ queue' = Tail(queue)
      /\ worker' = [worker EXCEPT ![w] = At("received", id)]
      /\ UNCHANGED <<jobs, nextId, inflight, stats, open, client, finisher, owed>>
  BY DEF Receive
<1>2. /\ Len(queue) \in Nat /\ 1 \in 1..Len(queue) /\ id = queue[1]
      /\ Len(queue') = Len(queue) - 1
      /\ \A i \in 1..Len(queue') : i + 1 \in 1..Len(queue) /\ queue'[i] = queue[i + 1]
      /\ queue' \in Seq(Ids) /\ id \in Ids
  BY <1>1 DEF Inv, TypeOK
<1>3. /\ worker'[w].pc = "received" /\ worker'[w].id = id
      /\ \A u \in Workers : u # w => worker'[u] = worker[u]
      /\ worker' \in [Workers -> [pc : WorkerStates, id : 0..MaxJobs]]
  BY <1>1, <1>2, PoolAssumption DEF Inv, TypeOK, At, WorkerStates, Ids
<1>4. \A u \in Workers : (Busy(u)' <=> (Busy(u) \/ u = w)) /\ (Busy(u) => u # w)
  BY <1>1, <1>3 DEF Busy
<1>5. \A i \in 1..Len(queue') : i + 1 # 1 /\ queue'[i] # id
  BY <1>2 DEF Inv, QueueApart
<1>6. /\ \A u \in Workers : Busy(u) => worker[u].id # id
      /\ \A c \in Clients : Keeps(c) => client[c].id # id
      /\ id \in 1..nextId /\ id \in DOMAIN jobs /\ jobs[id] = "pending"
  BY <1>2 DEF Inv, QueueApart, Registered
<1>7. \A x : (\E i \in 1..Len(queue) : queue[i] = x) <=> (x = id \/ \E i \in 1..Len(queue') : queue'[i] = x)
  <2>1. ASSUME NEW i \in 1..Len(queue) PROVE queue[i] = id \/ \E j \in 1..Len(queue') : queue'[j] = queue[i]
    <3>1. CASE i = 1
      BY <1>2, <3>1
    <3>2. CASE i # 1
      <4>1. i - 1 \in 1..Len(queue') /\ (i - 1) + 1 = i
        BY <1>2, <2>1, <3>2
      <4>2. QED
        BY <1>2, <4>1
    <3>3. QED
      BY <3>1, <3>2
  <2>2. QED
    BY <1>2, <2>1
<1>8. \A c \in Clients : (Keeps(c)' <=> Keeps(c)) /\ client'[c] = client[c]
  BY <1>1 DEF Keeps
<1>9. TypeOK'
  BY <1>1, <1>2, <1>3 DEF Inv, TypeOK
<1>10. ClientsApart' /\ OwedApart' /\ FinishTruthful'
  BY <1>1 DEF Inv, ClientsApart, OwedApart, FinishTruthful, Keeps
<1>11. QueueApart'
  <2>1. \A i, j \in 1..Len(queue') : queue'[i] = queue'[j] => i = j
    <3>1. ASSUME NEW i \in 1..Len(queue'), NEW j \in 1..Len(queue'), queue'[i] = queue'[j] PROVE i + 1 = j + 1
      BY <1>2, <3>1, SMTT(20) DEF Inv, QueueApart
    <3>2. QED
      BY <1>2, <3>1
  <2>2. \A i \in 1..Len(queue') : queue'[i] \in 1..nextId'
    BY <1>1, <1>2 DEF Inv, QueueApart
  <2>3. \A i \in 1..Len(queue'), c \in Clients : Keeps(c)' => queue'[i] # client'[c].id
    BY <1>2, <1>8, SMTT(20) DEF Inv, QueueApart
  <2>4. \A i \in 1..Len(queue'), u \in Workers : Busy(u)' => queue'[i] # worker'[u].id
    BY <1>2, <1>3, <1>4, <1>5, SMTT(20) DEF Inv, QueueApart
  <2>5. QED
    BY <2>1, <2>2, <2>3, <2>4 DEF QueueApart
<1>12. WorkersApart'
  BY <1>1, <1>3, <1>4, <1>6, <1>8 DEF Inv, WorkersApart
<1>13. Registered'
  <2>1. \A x \in DOMAIN jobs :
         \/ jobs[x] \in Terminal
         \/ \E c \in Clients : Keeps(c)' /\ client'[c].id = x
         \/ \E i \in 1..Len(queue') : queue'[i] = x
         \/ \E u \in Workers : Busy(u)' /\ worker'[u].id = x
    <3>1. ASSUME NEW x \in DOMAIN jobs, NEW i \in 1..Len(queue), queue[i] = x
          PROVE  (\E j \in 1..Len(queue') : queue'[j] = x) \/ (Busy(w)' /\ worker'[w].id = x)
      BY <1>3, <1>4, <1>7, <3>1
    <3>2. ASSUME NEW x \in DOMAIN jobs, NEW u \in Workers, Busy(u), worker[u].id = x
          PROVE  Busy(u)' /\ worker'[u].id = x
      BY <1>3, <1>4, <3>2
    <3>3. \A x \in DOMAIN jobs :
         \/ jobs[x] \in Terminal
         \/ \E c \in Clients : Keeps(c) /\ client[c].id = x
         \/ \E i \in 1..Len(queue) : queue[i] = x
         \/ \E u \in Workers : Busy(u) /\ worker[u].id = x
      BY DEF Inv, Registered
    <3>4. QED
      BY <1>8, <3>1, <3>2, <3>3
  <2>2. \A i \in 1..Len(queue') : queue'[i] \in DOMAIN jobs /\ jobs[queue'[i]] = "pending"
    <3>1. \A i \in 1..Len(queue) : queue[i] \in DOMAIN jobs /\ jobs[queue[i]] = "pending"
      BY DEF Inv, Registered
    <3>2. QED
      BY <1>2, <3>1
  <2>3. /\ \A u \in Workers : worker'[u].pc = "received" =>
               worker'[u].id \in DOMAIN jobs /\ jobs[worker'[u].id] = "pending"
        /\ \A u \in Workers : worker'[u].pc \in {"running", "dead"} =>
               worker'[u].id \in DOMAIN jobs /\ jobs[worker'[u].id] = "running"
        /\ \A u \in Workers : worker'[u].pc = "recorded" /\ worker'[u].id \in DOMAIN jobs =>
               jobs[worker'[u].id] \in Terminal
    <3>1. \A u \in Workers :
            /\ worker[u].pc = "received" => worker[u].id \in DOMAIN jobs /\ jobs[worker[u].id] = "pending"
            /\ worker[u].pc \in {"running", "dead"} => worker[u].id \in DOMAIN jobs /\ jobs[worker[u].id] = "running"
            /\ worker[u].pc = "recorded" /\ worker[u].id \in DOMAIN jobs => jobs[worker[u].id] \in Terminal
      BY DEF Inv, Registered
    <3>2. QED
      BY <1>3, <1>6, <3>1
  <2>4. QED
    BY <1>1, <1>8, <2>1, <2>2, <2>3 DEF Inv, Registered
<1>14. InflightExact'
  <2>1. Owing' = Owing
    <3>1. ASSUME NEW x, x \in Owing' PROVE x \in Owing
      BY <1>3, <1>4, <1>7, <1>8, <3>1, InOwing
    <3>2. ASSUME NEW x, x \in Owing PROVE x \in Owing'
      BY <1>3, <1>4, <1>7, <1>8, <3>2, InOwing, ZenonT(30)
    <3>3. QED
      BY <3>1, <3>2
  <2>2. QED
    BY <1>1, <2>1 DEF Inv, InflightExact, Owing
<1>15. StatsExact'
  <2>1. Unended' = Unended
    <3>0. worker'[w].pc \in {"received", "running", "dead"} /\ worker[w].pc \notin {"received", "running", "dead"}
      BY <1>1, <1>3
    <3>1. ASSUME NEW x, x \in Unended' PROVE x \in Unended
      <4>1. ASSUME NEW u \in Workers, worker'[u].pc \in {"received", "running", "dead"}, worker'[u].id = x, u # w
            PROVE  worker[u].pc \in {"received", "running", "dead"} /\ worker[u].id = x
        BY <1>3, <4>1
      <4>2. id \in Unended
        BY <1>2, InUnended
      <4>3. ASSUME NEW i \in 1..Len(queue'), queue'[i] = x PROVE x \in Unended
        BY <1>2, <4>3, InUnended
      <4>4. QED
        BY <1>3, <3>1, <4>1, <4>2, <4>3, InUnended
    <3>2. ASSUME NEW x, x \in Unended PROVE x \in Unended'
      <4>1. ASSUME NEW u \in Workers, worker[u].pc \in {"received", "running", "dead"}, worker[u].id = x
            PROVE  worker'[u].pc \in {"received", "running", "dead"} /\ worker'[u].id = x
        BY <1>3, <3>0, <4>1
      <4>2. id \in Unended'
        BY <1>3, <3>0, InUnended
      <4>3. ASSUME NEW i \in 1..Len(queue), queue[i] = x PROVE x \in Unended'
        BY <1>7, <4>2, <4>3, InUnended
      <4>4. QED
        BY <3>2, <4>1, <4>3, InUnended
    <3>3. QED
      BY <3>1, <3>2
  <2>2. Sent' = Sent
    BY <1>8 DEF Sent
  <2>3. QED
    BY <1>1, <2>1, <2>2 DEF Inv, StatsExact
<1>16. QED
  BY <1>9, <1>10, <1>11, <1>12, <1>13, <1>14, <1>15 DEF Inv

\* A worker between jobs, or one that keeps its job, only moves its program counter.
WorkerMoves(w, pc) ==
    /\ worker[w].pc # pc /\ pc \in WorkerStates
    /\ worker' = [worker EXCEPT ![w].pc = pc]
    /\ UNCHANGED <<queue, nextId, open, client, owed>>

LEMMA WorkerMovesPlaces ==
    ASSUME Inv, NEW w \in Workers, NEW pc, WorkerMoves(w, pc),
           pc \in {"received", "running", "recorded", "dead"} => Busy(w)
    PROVE  /\ ClientsApart' /\ QueueApart' /\ WorkersApart' /\ OwedApart'
           /\ worker' \in [Workers -> [pc : WorkerStates, id : 0..MaxJobs]]
           /\ worker'[w].pc = pc /\ worker'[w].id = worker[w].id
           /\ \A u \in Workers : u # w => worker'[u] = worker[u]
           /\ \A c \in Clients : (Keeps(c)' <=> Keeps(c)) /\ client'[c] = client[c]
<1>1. /\ worker'[w].pc = pc /\ worker'[w].id = worker[w].id
      /\ \A u \in Workers : u # w => worker'[u] = worker[u]
      /\ worker' \in [Workers -> [pc : WorkerStates, id : 0..MaxJobs]]
  BY DEF WorkerMoves, Inv, TypeOK
<1>2. \A u \in Workers : (Busy(u)' => Busy(u)) /\ worker'[u].id = worker[u].id
  BY <1>1 DEF Busy
<1>3. UNCHANGED <<queue, nextId, open, client, owed>> /\ \A c \in Clients : (Keeps(c)' <=> Keeps(c)) /\ client'[c] = client[c]
  BY DEF WorkerMoves, Keeps
<1>4. ClientsApart' /\ OwedApart'
  BY <1>3 DEF Inv, ClientsApart, OwedApart
<1>5. QueueApart'
  BY <1>2, <1>3 DEF Inv, QueueApart
<1>6. WorkersApart'
  BY <1>2, <1>3 DEF Inv, WorkersApart
<1>7. QED
  BY <1>1, <1>3, <1>4, <1>5, <1>6

LEMMA ExitInv ==
    ASSUME Inv, NEW w \in Workers, Exit(w)
    PROVE  Inv'
<1>1. /\ WorkerMoves(w, "exited") /\ worker[w].pc = "receiving"
      /\ UNCHANGED <<jobs, inflight, stats, finisher, queue, nextId, open, client, owed>>
  BY DEF Exit, WorkerMoves, WorkerStates
<1>2. /\ worker'[w].pc = "exited" /\ worker'[w].id = worker[w].id
      /\ \A u \in Workers : u # w => worker'[u] = worker[u]
      /\ \A c \in Clients : (Keeps(c)' <=> Keeps(c)) /\ client'[c] = client[c]
      /\ worker' \in [Workers -> [pc : WorkerStates, id : 0..MaxJobs]]
      /\ ClientsApart' /\ QueueApart' /\ WorkersApart' /\ OwedApart'
  BY <1>1, WorkerMovesPlaces
<1>3. \A u \in Workers : (Busy(u)' <=> Busy(u)) /\ worker'[u].id = worker[u].id
  BY <1>1, <1>2 DEF Busy
<1>4. TypeOK' /\ FinishTruthful'
  BY <1>1, <1>2 DEF Inv, TypeOK, FinishTruthful
<1>5. Registered'
  <2>1. \A u \in Workers : worker'[u].pc \in {"received", "running", "dead", "recorded"} => worker'[u] = worker[u]
    BY <1>2
  <2>2. QED
    BY <1>1, <1>2, <1>3, <2>1 DEF Inv, Registered
<1>6. InflightExact' /\ StatsExact'
  BY <1>1, <1>2, <1>3, CountsKept
<1>7. QED
  BY <1>2, <1>4, <1>5, <1>6 DEF Inv

LEMMA PanicInv ==
    ASSUME Inv, NEW w \in Workers, Panic(w)
    PROVE  Inv'
<1>1. /\ WorkerMoves(w, "dead") /\ worker[w].pc = "running"
      /\ UNCHANGED <<jobs, inflight, stats, finisher, queue, nextId, open, client, owed>>
  BY DEF Panic, WorkerMoves, WorkerStates
<1>2. /\ worker'[w].pc = "dead" /\ worker'[w].id = worker[w].id
      /\ \A u \in Workers : u # w => worker'[u] = worker[u]
      /\ \A c \in Clients : (Keeps(c)' <=> Keeps(c)) /\ client'[c] = client[c]
      /\ worker' \in [Workers -> [pc : WorkerStates, id : 0..MaxJobs]]
      /\ ClientsApart' /\ QueueApart' /\ WorkersApart' /\ OwedApart'
  BY <1>1, WorkerMovesPlaces DEF Busy
<1>3. \A u \in Workers : (Busy(u)' <=> Busy(u)) /\ worker'[u].id = worker[u].id
  BY <1>1, <1>2 DEF Busy
<1>4. TypeOK' /\ FinishTruthful'
  BY <1>1, <1>2 DEF Inv, TypeOK, FinishTruthful
<1>5. Registered'
  BY <1>1, <1>2, <1>3, SMTT(20) DEF Inv, Registered
<1>6. InflightExact' /\ StatsExact'
  BY <1>1, <1>2, <1>3, CountsKept
<1>7. QED
  BY <1>2, <1>4, <1>5, <1>6 DEF Inv

LEMMA MarkRunningInv ==
    ASSUME Inv, NEW w \in Workers, MarkRunning(w)
    PROVE  Inv'
<1> DEFINE id == worker[w].id
<1>1. /\ WorkerMoves(w, "running") /\ worker[w].pc = "received" /\ finisher' = Notified
      /\ jobs' = [x \in DOMAIN jobs |-> IF x = id THEN "running" ELSE jobs[x]]
      /\ UNCHANGED <<inflight, stats, queue, nextId, open, client, owed>>
  BY DEF MarkRunning, WorkerMoves, WorkerStates
<1>2. /\ worker'[w].pc = "running" /\ worker'[w].id = id
      /\ \A u \in Workers : u # w => worker'[u] = worker[u]
      /\ \A c \in Clients : (Keeps(c)' <=> Keeps(c)) /\ client'[c] = client[c]
      /\ worker' \in [Workers -> [pc : WorkerStates, id : 0..MaxJobs]]
      /\ ClientsApart' /\ QueueApart' /\ WorkersApart' /\ OwedApart'
  BY <1>1, WorkerMovesPlaces DEF Busy
<1>3. \A u \in Workers : (Busy(u)' <=> Busy(u)) /\ worker'[u].id = worker[u].id
  BY <1>1, <1>2 DEF Busy
<1>4. /\ DOMAIN jobs' = DOMAIN jobs /\ id \in DOMAIN jobs /\ jobs[id] = "pending" /\ jobs'[id] = "running"
      /\ \A x \in DOMAIN jobs : x # id => jobs'[x] = jobs[x]
  BY <1>1 DEF Inv, Registered
<1>5. /\ \A u \in Workers : Busy(u) /\ u # w => worker[u].id # id
      /\ \A c \in Clients : Keeps(c) => client[c].id # id
      /\ \A i \in 1..Len(queue) : queue[i] # id
  BY <1>1 DEF Inv, QueueApart, WorkersApart, Busy
<1>6. finisher' \in FinisherStates /\ (finisher' = "true" => finisher = "true")
  BY <1>1 DEF Inv, TypeOK, Notified, FinisherStates
<1>7. TypeOK'
  BY <1>1, <1>2, <1>4, <1>6 DEF Inv, TypeOK
<1>8. FinishTruthful'
  <2>1. "pending" \notin Terminal
    BY DEF Terminal
  <2>2. QED
    BY <1>1, <1>4, <1>6, <2>1 DEF Inv, FinishTruthful
<1>9. Registered'
  <2>1. /\ \A c \in Clients : Keeps(c)' => client'[c].id \in DOMAIN jobs' /\ jobs'[client'[c].id] = "pending"
        /\ \A i \in 1..Len(queue) : queue[i] \in DOMAIN jobs' /\ jobs'[queue[i]] = "pending"
    <3>1. /\ \A c \in Clients : Keeps(c) => client[c].id \in DOMAIN jobs /\ jobs[client[c].id] = "pending"
          /\ \A i \in 1..Len(queue) : queue[i] \in DOMAIN jobs /\ jobs[queue[i]] = "pending"
      BY DEF Inv, Registered
    <3>2. QED
      BY <1>2, <1>4, <1>5, <3>1
  <2>2. /\ \A u \in Workers : worker'[u].pc = "received" =>
               worker'[u].id \in DOMAIN jobs' /\ jobs'[worker'[u].id] = "pending"
        /\ \A u \in Workers : worker'[u].pc \in {"running", "dead"} =>
               worker'[u].id \in DOMAIN jobs' /\ jobs'[worker'[u].id] = "running"
        /\ \A u \in Workers : worker'[u].pc = "recorded" /\ worker'[u].id \in DOMAIN jobs' =>
               jobs'[worker'[u].id] \in Terminal
    BY <1>2, <1>4, <1>5 DEF Inv, Registered, Busy
  <2>3. \A x \in DOMAIN jobs' :
         \/ jobs'[x] \in Terminal
         \/ \E c \in Clients : Keeps(c)' /\ client'[c].id = x
         \/ \E i \in 1..Len(queue) : queue[i] = x
         \/ \E u \in Workers : Busy(u)' /\ worker'[u].id = x
    <3>1. Busy(w)' /\ worker'[w].id = id
      BY <1>2 DEF Busy
    <3>2. QED
      BY <1>2, <1>3, <1>4, <3>1 DEF Inv, Registered
  <2>4. QED
    BY <1>1, <1>4, <2>1, <2>2, <2>3 DEF Inv, Registered
<1>10. InflightExact' /\ StatsExact'
  BY <1>1, <1>2, <1>3, CountsKept
<1>11. QED
  BY <1>2, <1>7, <1>8, <1>9, <1>10 DEF Inv

LEMMA RecordInv ==
    ASSUME Inv, NEW w \in Workers, Record(w)
    PROVE  Inv'
<1> DEFINE id == worker[w].id
<1>1. PICK outcome \in Outcomes : jobs' = Bind(jobs, id, outcome)
  BY DEF Record
<1>2. /\ WorkerMoves(w, "recorded") /\ worker[w].pc = "running"
      /\ stats' = [stats EXCEPT !.ended = @ + 1]
      /\ UNCHANGED <<inflight, finisher, queue, nextId, open, client, owed>>
  BY DEF Record, WorkerMoves, WorkerStates
<1>3. /\ worker'[w].pc = "recorded" /\ worker'[w].id = id
      /\ \A u \in Workers : u # w => worker'[u] = worker[u]
      /\ \A c \in Clients : (Keeps(c)' <=> Keeps(c)) /\ client'[c] = client[c]
      /\ worker' \in [Workers -> [pc : WorkerStates, id : 0..MaxJobs]]
      /\ ClientsApart' /\ QueueApart' /\ WorkersApart' /\ OwedApart'
  BY <1>2, WorkerMovesPlaces DEF Busy
<1>4. \A u \in Workers : (Busy(u)' <=> Busy(u)) /\ worker'[u].id = worker[u].id
  BY <1>2, <1>3 DEF Busy
<1>5. id \in DOMAIN jobs
  BY <1>2 DEF Inv, Registered
<1>6. /\ DOMAIN jobs' = DOMAIN jobs /\ jobs'[id] \in Terminal
      /\ \A x \in DOMAIN jobs : x # id => jobs'[x] = jobs[x]
  BY <1>1, <1>5 DEF Bind, Outcomes
<1>7. /\ \A u \in Workers : Busy(u) /\ u # w => worker[u].id # id
      /\ \A c \in Clients : Keeps(c) => client[c].id # id
      /\ \A i \in 1..Len(queue) : queue[i] # id
  BY <1>2 DEF Inv, QueueApart, WorkersApart, Busy
<1>8. /\ stats'.submitted = stats.submitted /\ stats'.ended = stats.ended + 1
      /\ stats' \in [submitted : Nat, ended : Nat] /\ stats.submitted \in Nat /\ stats.ended \in Nat
  BY <1>2 DEF Inv, TypeOK
<1>9. TypeOK'
  <2>1. \A x \in DOMAIN jobs' : jobs'[x] \in {"pending", "running"} \cup Terminal
    BY <1>6 DEF Inv, TypeOK
  <2>2. QED
    BY <1>2, <1>3, <1>6, <1>8, <2>1 DEF Inv, TypeOK
<1>10. FinishTruthful'
  BY <1>2, <1>6 DEF Inv, FinishTruthful
<1>11. Registered'
  <2>1. /\ \A c \in Clients : Keeps(c)' => client'[c].id \in DOMAIN jobs' /\ jobs'[client'[c].id] = "pending"
        /\ \A i \in 1..Len(queue) : queue[i] \in DOMAIN jobs' /\ jobs'[queue[i]] = "pending"
    BY <1>3, <1>6, <1>7 DEF Inv, Registered
  <2>2. /\ \A u \in Workers : worker'[u].pc = "received" =>
               worker'[u].id \in DOMAIN jobs' /\ jobs'[worker'[u].id] = "pending"
        /\ \A u \in Workers : worker'[u].pc \in {"running", "dead"} =>
               worker'[u].id \in DOMAIN jobs' /\ jobs'[worker'[u].id] = "running"
        /\ \A u \in Workers : worker'[u].pc = "recorded" /\ worker'[u].id \in DOMAIN jobs' =>
               jobs'[worker'[u].id] \in Terminal
    <3>1. \A u \in Workers :
            /\ worker[u].pc = "received" => worker[u].id \in DOMAIN jobs /\ jobs[worker[u].id] = "pending"
            /\ worker[u].pc \in {"running", "dead"} => worker[u].id \in DOMAIN jobs /\ jobs[worker[u].id] = "running"
            /\ worker[u].pc = "recorded" /\ worker[u].id \in DOMAIN jobs => jobs[worker[u].id] \in Terminal
      BY DEF Inv, Registered
    <3>2. QED
      BY <1>3, <1>6, <1>7, <3>1 DEF Busy
  <2>3. \A x \in DOMAIN jobs' :
         \/ jobs'[x] \in Terminal
         \/ \E c \in Clients : Keeps(c)' /\ client'[c].id = x
         \/ \E i \in 1..Len(queue) : queue[i] = x
         \/ \E u \in Workers : Busy(u)' /\ worker'[u].id = x
    BY <1>3, <1>4, <1>6, SMTT(20) DEF Inv, Registered
  <2>4. QED
    BY <1>2, <1>6, <2>1, <2>2, <2>3 DEF Inv, Registered
<1>12. InflightExact'
  <2>1. Owing' = Owing
    <3>1. ASSUME NEW x PROVE x \in Owing' <=> x \in Owing
      BY <1>2, <1>3, <1>4, InOwing
    <3>2. QED
      BY <3>1
  <2>2. QED
    BY <1>2, <2>1 DEF Inv, InflightExact, Owing
<1>13. StatsExact'
  <2>1. id \in Unended
    BY <1>2, InUnended
  <2>2. Unended' = Unended \ {id}
    <3>1. ASSUME NEW x, x \in Unended' PROVE x \in Unended /\ x # id
      <4>1. ASSUME NEW u \in Workers, worker'[u].pc \in {"received", "running", "dead"}, worker'[u].id = x
            PROVE  u # w /\ worker[u].pc \in {"received", "running", "dead"} /\ worker[u].id = x /\ x # id
        BY <1>3, <1>7, <4>1 DEF Busy
      <4>2. QED
        BY <1>2, <1>7, <3>1, <4>1, InUnended
    <3>2. ASSUME NEW x, x \in Unended, x # id PROVE x \in Unended'
      BY <1>2, <1>3, <3>2, InUnended
    <3>3. QED
      BY <3>1, <3>2
  <2>3. Cardinality(Unended') = Cardinality(Unended) - 1
    BY <2>1, <2>2, JobsFinite, OneLess
  <2>4. Sent' = Sent
    BY <1>3 DEF Sent
  <2>5. stats.submitted + Cardinality(Sent) = stats.ended + Cardinality(Unended)
    BY DEF Inv, StatsExact
  <2>6. Cardinality(Sent) \in Nat /\ Cardinality(Unended) \in Nat
    BY JobsFinite
  <2>7. QED
    BY <1>8, <2>3, <2>4, <2>5, <2>6 DEF StatsExact
<1>14. QED
  BY <1>3, <1>9, <1>10, <1>11, <1>12, <1>13 DEF Inv

LEMMA ReleaseInv ==
    ASSUME Inv, NEW w \in Workers, Release(w)
    PROVE  Inv'
<1> DEFINE id == worker[w].id
<1>1. /\ WorkerMoves(w, "released") /\ worker[w].pc = "recorded" /\ inflight' = inflight - 1
      /\ UNCHANGED <<jobs, stats, finisher, queue, nextId, open, client, owed>>
  BY DEF Release, WorkerMoves, WorkerStates
<1>2. /\ worker'[w].pc = "released" /\ worker'[w].id = id
      /\ \A u \in Workers : u # w => worker'[u] = worker[u]
      /\ \A c \in Clients : (Keeps(c)' <=> Keeps(c)) /\ client'[c] = client[c]
      /\ worker' \in [Workers -> [pc : WorkerStates, id : 0..MaxJobs]]
      /\ ClientsApart' /\ QueueApart' /\ WorkersApart' /\ OwedApart'
  BY <1>1, WorkerMovesPlaces
<1>3. /\ Busy(w)
      /\ \A u \in Workers : (Busy(u)' <=> (Busy(u) /\ u # w)) /\ worker'[u].id = worker[u].id
  BY <1>1, <1>2 DEF Busy
<1>4. /\ \A u \in Workers : Busy(u) /\ u # w => worker[u].id # id
      /\ \A c \in Clients : Keeps(c) => client[c].id # id
      /\ \A i \in 1..Len(queue) : queue[i] # id
  BY <1>3 DEF Inv, QueueApart, WorkersApart
<1>5. InflightExact' /\ inflight' \in Nat
  <2>1. id \in Owing
    BY <1>3, InOwing
  <2>2. Owing' = Owing \ {id}
    <3>1. ASSUME NEW x, x \in Owing' PROVE x \in Owing /\ x # id
      <4>1. ASSUME NEW c \in Clients, client'[c].pc \in {"counted", "refused"}, client'[c].id = x
            PROVE  client[c].pc \in {"counted", "refused"} /\ client[c].id = x /\ x # id
        BY <1>2, <1>4, <4>1 DEF Keeps
      <4>2. QED
        BY <1>1, <1>3, <1>4, <3>1, <4>1, InOwing
    <3>2. ASSUME NEW x, x \in Owing, x # id PROVE x \in Owing'
      BY <1>1, <1>2, <1>3, <3>2, InOwing
    <3>3. QED
      BY <3>1, <3>2
  <2>3. Cardinality(Owing') = Cardinality(Owing) - 1 /\ Cardinality(Owing) > 0
    BY <2>1, <2>2, JobsFinite, OneLess
  <2>4. QED
    BY <1>1, <2>3 DEF Inv, TypeOK, InflightExact, Owing
<1>6. TypeOK' /\ FinishTruthful'
  BY <1>1, <1>2, <1>5 DEF Inv, TypeOK, FinishTruthful
<1>7. Registered'
  BY <1>1, <1>2, <1>3 DEF Inv, Registered
<1>8. StatsExact'
  <2>1. Unended' = Unended
    <3>1. ASSUME NEW x PROVE x \in Unended' <=> x \in Unended
      BY <1>1, <1>2, InUnended
    <3>2. QED
      BY <3>1
  <2>2. Sent' = Sent
    BY <1>2 DEF Sent
  <2>3. QED
    BY <1>1, <2>1, <2>2 DEF Inv, StatsExact
<1>9. QED
  BY <1>2, <1>5, <1>6, <1>7, <1>8 DEF Inv

LEMMA NotifyInv ==
    ASSUME Inv, NEW w \in Workers, Notify(w)
    PROVE  Inv'
<1>1. /\ worker[w].pc = "released" /\ worker' = [worker EXCEPT ![w] = At("receiving", NoJob)]
      /\ finisher' = Notified
      /\ UNCHANGED <<jobs, queue, nextId, inflight, stats, open, client, owed>>
  BY DEF Notify
<1>2. /\ worker'[w].pc = "receiving"
      /\ \A u \in Workers : u # w => worker'[u] = worker[u]
      /\ worker' \in [Workers -> [pc : WorkerStates, id : 0..MaxJobs]]
  BY <1>1, PoolAssumption DEF Inv, TypeOK, At, NoJob, WorkerStates
<1>3. \A u \in Workers : (Busy(u)' <=> Busy(u)) /\ (Busy(u) => worker'[u] = worker[u])
  BY <1>1, <1>2 DEF Busy
<1>4. finisher' \in FinisherStates /\ (finisher' = "true" => finisher = "true")
  BY <1>1 DEF Inv, TypeOK, Notified, FinisherStates
<1>5. TypeOK' /\ FinishTruthful'
  BY <1>1, <1>2, <1>4 DEF Inv, TypeOK, FinishTruthful
<1>6. ClientsApart' /\ OwedApart'
  BY <1>1 DEF Inv, ClientsApart, OwedApart, Keeps
<1>7. QueueApart' /\ WorkersApart'
  BY <1>1, <1>3 DEF Inv, QueueApart, WorkersApart, Keeps
<1>8. Registered'
  BY <1>1, <1>2, <1>3 DEF Inv, Registered, Keeps
<1>9. InflightExact' /\ StatsExact'
  BY <1>1, <1>2, <1>3, CountsKept
<1>10. QED
  BY <1>5, <1>6, <1>7, <1>8, <1>9 DEF Inv

-----------------------------------------------------------------------------
(* finish, Drop and the whole.                                             *)

\* When nothing is in flight, what finish waits for has ended.
LEMMA NothingOwed ==
    ASSUME Inv, inflight = 0, NEW id \in DOMAIN jobs, \A c \in Clients : Keeps(c) => client[c].id # id
    PROVE  jobs[id] \in Terminal
<1>1. Owing = {}
  BY JobsFinite, FS_EmptySet DEF Inv, InflightExact, Owing
<1>2. id \notin Owing
  BY <1>1
<1>3. ~(\E i \in 1..Len(queue) : queue[i] = id) /\ ~(\E w \in Workers : Busy(w) /\ worker[w].id = id)
  BY <1>2, InOwing
<1>4. QED
  BY <1>3 DEF Inv, Registered

\* Only finish moves.
LEMMA FinisherInv ==
    ASSUME Inv, UNCHANGED <<jobs, queue, nextId, inflight, stats, client, worker>>,
           open' \in BOOLEAN, finisher' \in FinisherStates,
           owed' \subseteq 1..nextId, \A id \in owed', c \in Clients : Keeps(c) => client[c].id # id,
           finisher' = "true" => inflight = 0
    PROVE  Inv'
<1>1. TypeOK'
  <2>1. owed' \subseteq Ids
    <3>1. nextId \in Nat /\ nextId <= MaxJobs /\ MaxJobs \in Nat
      BY PoolAssumption DEF Inv, TypeOK
    <3>2. QED
      BY <3>1 DEF Ids
  <2>2. QED
    BY <2>1 DEF Inv, TypeOK
<1>2. ClientsApart' /\ QueueApart' /\ WorkersApart' /\ Registered' /\ OwedApart'
  BY DEF Inv, ClientsApart, QueueApart, WorkersApart, Registered, OwedApart, Keeps, Busy
<1>3. InflightExact' /\ StatsExact'
  BY CountsKept DEF Busy
<1>4. FinishTruthful'
  <2>1. ASSUME finisher' = "true", NEW id \in owed' \cap DOMAIN jobs PROVE jobs[id] \in Terminal
    BY <2>1, NothingOwed
  <2>2. QED
    BY <2>1 DEF FinishTruthful
<1>5. QED
  BY <1>1, <1>2, <1>3, <1>4 DEF Inv

LEMMA FinishInv ==
    ASSUME Inv, Finish
    PROVE  Inv'
<1>0. /\ open \in BOOLEAN /\ owed \subseteq 1..nextId
      /\ \A id \in owed, c \in Clients : Keeps(c) => client[c].id # id
  BY DEF Inv, TypeOK, OwedApart
<1>1. CASE FinishCall
  <2>1. \A id \in Accepted : id \in 1..nextId /\ \A c \in Clients : client[c].id # id
    BY DEF Accepted
  <2>2. QED
    BY <1>0, <1>1, <2>1, FinisherInv DEF FinishCall, FinisherStates
<1>2. CASE FinishCheck \/ FinishSleep \/ FinishTimeout \/ FinishExpired \/ FinishFinal
  <2>1. /\ UNCHANGED <<jobs, queue, nextId, inflight, stats, open, client, worker, owed>>
        /\ finisher' \in FinisherStates /\ (finisher' = "true" => inflight = 0)
    BY <1>2 DEF FinishCheck, FinishSleep, FinishTimeout, FinishExpired, FinishFinal, Goto, FinisherStates
  <2>2. QED
    BY <1>0, <2>1, FinisherInv
<1>3. CASE FinishReturn
  BY <1>0, <1>3, FinisherInv DEF FinishReturn, FinisherStates
<1>4. QED
  BY <1>1, <1>2, <1>3 DEF Finish

LEMMA DropInv ==
    ASSUME Inv, Drop
    PROVE  Inv'
<1>1. /\ open' = FALSE /\ finisher = "idle"
      /\ UNCHANGED <<jobs, queue, nextId, inflight, stats, client, worker, finisher, owed>>
  BY DEF Drop
<1>2. owed \subseteq 1..nextId /\ \A id \in owed, c \in Clients : Keeps(c) => client[c].id # id
  BY DEF Inv, OwedApart
<1>3. QED
  BY <1>1, <1>2, FinisherInv DEF FinisherStates

LEMMA StutterInv ==
    ASSUME Inv, UNCHANGED vars
    PROVE  Inv'
<1>1. TypeOK' /\ OwedApart' /\ FinishTruthful'
  BY DEF Inv, vars, TypeOK, OwedApart, FinishTruthful, Keeps
<1>2. ClientsApart' /\ QueueApart' /\ WorkersApart' /\ Registered'
  BY DEF Inv, vars, ClientsApart, QueueApart, WorkersApart, Registered, Keeps, Busy
<1>3. InflightExact' /\ StatsExact'
  BY CountsKept DEF vars, Busy
<1>4. QED
  BY <1>1, <1>2, <1>3 DEF Inv

LEMMA NextInv ==
    ASSUME Inv, [Next]_vars
    PROVE  Inv'
<1>1. ASSUME NEW c \in Clients, Submit(c) PROVE Inv'
  BY <1>1, RegisterInv, CountInv, SendInv, SendRefusedInv, SubmittedInv, RollbackCountInv,
     RollbackEntryInv DEF Submit
<1>2. ASSUME NEW w \in Workers, Work(w) PROVE Inv'
  BY <1>2, ReceiveInv, ExitInv, MarkRunningInv, RecordInv, ReleaseInv, NotifyInv DEF Work
<1>3. ASSUME NEW w \in Workers, Panic(w) PROVE Inv'
  BY <1>3, PanicInv
<1>4. ASSUME NEW id \in Ids, Take(id) PROVE Inv'
  BY <1>4, TakeInv
<1>5. CASE Finish
  BY <1>5, FinishInv
<1>6. CASE Drop
  BY <1>6, DropInv
<1>7. CASE UNCHANGED vars
  BY <1>7, StutterInv
<1>8. QED
  BY <1>1, <1>2, <1>3, <1>4, <1>5, <1>6, <1>7 DEF Next, Stopped

LEMMA SpecInv == Spec => []Inv
BY InitInv, NextInv, PTL DEF Spec

\* A step gives a job that has ended no other outcome.
LEMMA StepStable ==
    ASSUME Inv, [Next]_vars
    PROVE  \A id \in DOMAIN jobs \cap DOMAIN jobs' : jobs[id] \in Terminal => jobs'[id] = jobs[id]
<1> DEFINE Goal == \A id \in DOMAIN jobs \cap DOMAIN jobs' : jobs[id] \in Terminal => jobs'[id] = jobs[id]
<1>0. "pending" \notin Terminal /\ "running" \notin Terminal
  BY DEF Terminal
<1>1. ASSUME NEW c \in Clients, Register(c) PROVE Goal
  <2>1. nextId + 1 \notin DOMAIN jobs
    BY DEF Inv, TypeOK, Registered
  <2>2. QED
    BY <1>1, <2>1 DEF Register, Bind
<1>2. ASSUME NEW c \in Clients, RollbackEntry(c) PROVE Goal
  BY <1>2 DEF RollbackEntry, Unbind
<1>3. ASSUME NEW w \in Workers, MarkRunning(w) PROVE Goal
  <2>1. jobs[worker[w].id] = "pending"
    BY <1>3 DEF MarkRunning, Inv, Registered
  <2>2. QED
    BY <1>0, <1>3, <2>1 DEF MarkRunning
<1>4. ASSUME NEW w \in Workers, Record(w) PROVE Goal
  <2>1. jobs[worker[w].id] = "running"
    BY <1>4 DEF Record, Inv, Registered
  <2>2. QED
    BY <1>0, <1>4, <2>1 DEF Record, Bind
<1>5. ASSUME NEW id \in Ids, Take(id) PROVE Goal
  BY <1>5 DEF Take, Unbind
<1>6. ASSUME jobs' = jobs PROVE Goal
  BY <1>6
<1>7. ASSUME NEW c \in Clients, Submit(c) PROVE Goal
  BY <1>1, <1>2, <1>6, <1>7 DEF Submit, Count, Send, SendRefused, Submitted, RollbackCount
<1>8. ASSUME NEW w \in Workers, Work(w) \/ Panic(w) PROVE Goal
  BY <1>3, <1>4, <1>6, <1>8 DEF Work, Panic, Receive, Exit, Release, Notify
<1>9. CASE Finish \/ Drop \/ UNCHANGED vars
  BY <1>6, <1>9 DEF Finish, Drop, vars, FinishCall, FinishCheck, FinishSleep, FinishTimeout,
                    FinishExpired, FinishFinal, FinishReturn, Goto
<1>10. QED
  BY <1>5, <1>7, <1>8, <1>9 DEF Next, Stopped

-----------------------------------------------------------------------------
\* The state keeps its shape; in particular the unsigned in-flight counter never
\* goes below zero.
THEOREM PipelineTypeCorrect == Spec => []TypeOK
BY SpecInv, PTL DEF Inv

\* The in-flight counter is exactly the number of jobs some thread still owes an
\* answer for, at every step between its updates and the moves it counts.
THEOREM InflightCounts == Spec => []InflightExact
BY SpecInv, PTL DEF Inv

\* A job is in one place and the registry says which.
THEOREM JobsHaveOneOwner == Spec => []OneOwner
<1>1. ASSUME Inv PROVE OneOwner
  <2>1. \A i, j \in 1..Len(queue) : queue[i] = queue[j] => i = j
    BY <1>1 DEF Inv, QueueApart
  <2>2. \A u, w \in Workers : Busy(u) /\ Busy(w) /\ worker[u].id = worker[w].id => u = w
    BY <1>1 DEF Inv, WorkersApart
  <2>3. Queued \cap Held = {}
    BY <1>1 DEF Inv, QueueApart, Queued, Held
  <2>4. (Queued \cup Held) \cap Offered = {}
    <3>1. \A c \in Clients : client[c].pc \in {"counted", "refused"} => Keeps(c)
      BY DEF Keeps
    <3>2. QED
      BY <1>1, <3>1 DEF Inv, QueueApart, WorkersApart, Queued, Held, Offered
  <2>5. \A id \in Queued : id \in DOMAIN jobs /\ jobs[id] = "pending"
    BY <1>1 DEF Inv, Registered, Queued
  <2>6. \A w \in Workers : worker[w].pc = "running" =>
          worker[w].id \in DOMAIN jobs /\ jobs[worker[w].id] = "running"
    BY <1>1 DEF Inv, Registered
  <2>7. QED
    BY <2>1, <2>2, <2>3, <2>4, <2>5, <2>6 DEF OneOwner
<1>2. QED
  BY <1>1, SpecInv, PTL

\* When finish answers true, the jobs handed over before it was called have ended.
THEOREM FinishTellsTruth == Spec => []FinishTruthful
BY SpecInv, PTL DEF Inv

\* With nobody inside submit and nothing in flight, as many jobs have ended as
\* were submitted.
THEOREM StatsSettled == Spec => []StatsSettle
<1>1. ASSUME Inv PROVE StatsSettle
  <2>1. SUFFICES ASSUME inflight = 0, \A c \in Clients : client[c].pc = "idle"
                 PROVE  stats.submitted = stats.ended
    BY DEF StatsSettle
  <2>2. Owing = {}
    BY <1>1, <2>1, JobsFinite, FS_EmptySet DEF Inv, InflightExact, Owing
  <2>3. Unended = {}
    <3>1. \A x \in Unended : x \in Owing
      BY InOwing, InUnended DEF Busy
    <3>2. QED
      BY <2>2, <3>1
  <2>4. Sent = {}
    BY <2>1 DEF Sent
  <2>5. Cardinality(Sent) = 0 /\ Cardinality(Unended) = 0
    BY <2>3, <2>4, FS_EmptySet
  <2>6. stats.submitted \in Nat /\ stats.ended \in Nat
    BY <1>1 DEF Inv, TypeOK
  <2>7. QED
    BY <1>1, <2>5, <2>6 DEF Inv, StatsExact
<1>2. QED
  BY <1>1, SpecInv, PTL

\* An outcome a client may have read is never replaced by another.
THEOREM OutcomesStable == Spec => OutcomeStable
<1>1. Inv /\ [Next]_vars =>
        [\A id \in DOMAIN jobs \cap DOMAIN jobs' : jobs[id] \in Terminal => jobs'[id] = jobs[id]]_vars
  BY StepStable
<1>2. QED
  BY <1>1, SpecInv, PTL DEF Spec, OutcomeStable

\* State::inflight, the registry, the channel and the workers agree at every step.
THEOREM PipelineIsSafe == Spec => []PipelineSafe
<1>1. TypeOK /\ InflightExact /\ OneOwner /\ StatsSettle => PipelineSafe
  BY DEF PipelineSafe
<1>2. QED
  BY <1>1, PipelineTypeCorrect, InflightCounts, JobsHaveOneOwner, StatsSettled, PTL

-----------------------------------------------------------------------------
(* The bounded work queue of WorkQueue.                                    *)

\* The sets the refinement maps to, by their members.
LEMMA InQueued ==
    ASSUME NEW x
    PROVE  /\ x \in Queued <=> \E i \in 1..Len(queue) : queue[i] = x
           /\ x \in Queued' <=> \E i \in 1..Len(queue') : queue'[i] = x
BY DEF Queued

LEMMA InActive ==
    ASSUME NEW x
    PROVE  /\ x \in Active <=> \E w \in Workers :
                worker[w].pc \in {"received", "running", "dead"} /\ worker[w].id = x
           /\ x \in Active' <=> \E w \in Workers :
                worker'[w].pc \in {"received", "running", "dead"} /\ worker'[w].id = x
BY DEF Active

\* The channel holds no more jobs than its length says.
LEMMA QueuedFit ==
    ASSUME Inv
    PROVE  Cardinality(Queued) \in Nat /\ Cardinality(Queued) <= Len(queue)
<1>1. queue \in Seq(Ids) /\ Len(queue) \in Nat
  BY DEF Inv, TypeOK
<1> DEFINE D == 1..Len(queue)
           f == [i \in D |-> queue[i]]
<1>2. f \in Surjection(D, Queued)
  BY DEF Queued, Surjection
<1>3. IsFiniteSet(D) /\ Cardinality(D) = Len(queue)
  BY <1>1, FS_Interval, SMTT(20)
<1> HIDE DEF D, f
<1>4. IsFiniteSet(Queued) /\ Cardinality(Queued) <= Cardinality(D)
  BY <1>2, <1>3, FS_Surjection
<1>5. QED
  BY <1>3, <1>4, FS_CardinalityType

\* A worker that is receiving leaves the pool room for one more job.
LEMMA ActiveFit ==
    ASSUME Inv, NEW w \in Workers, worker[w].pc = "receiving"
    PROVE  /\ Cardinality(Active) \in Nat /\ Cardinality(Workers) \in Nat
           /\ Cardinality(Active) < Cardinality(Workers)
<1> DEFINE D == {u \in Workers : worker[u].pc \in {"received", "running", "dead"}}
           f == [u \in D |-> worker[u].id]
<1>1. f \in Surjection(D, Active)
  BY DEF Active, Surjection
<1>2. D \in SUBSET (Workers \ {w})
  OBVIOUS
<1>3. IsFiniteSet(Workers) /\ Cardinality(Workers) \in Nat
  BY PoolAssumption, FS_CardinalityType
<1>4. /\ IsFiniteSet(Workers \ {w})
      /\ Cardinality(Workers \ {w}) = Cardinality(Workers) - 1
  BY <1>3, FS_RemoveElement
<1> HIDE DEF D, f
<1>5. IsFiniteSet(D) /\ Cardinality(D) <= Cardinality(Workers \ {w})
  BY <1>2, <1>4, FS_Subset
<1>6. IsFiniteSet(Active) /\ Cardinality(Active) <= Cardinality(D)
  BY <1>1, <1>5, FS_Surjection
<1>7. Cardinality(Active) \in Nat /\ Cardinality(D) \in Nat
  BY <1>5, <1>6, FS_CardinalityType
<1>8. QED
  BY <1>3, <1>4, <1>5, <1>6, <1>7

\* try_send is the abstract queue's Accept ...
LEMMA SendAccepts ==
    ASSUME Inv, NEW c \in Clients, Send(c)
    PROVE  WQ!Accept(client[c].id) /\ client[c].id \in Ids
<1> DEFINE id == client[c].id
<1>1. /\ client[c].pc = "counted" /\ Len(queue) < Capacity /\ queue' = Append(queue, id)
      /\ UNCHANGED <<stats, worker>>
  BY DEF Send
<1>2. id \in 1..nextId /\ id \in Ids /\ Keeps(c)
  BY <1>1 DEF Inv, TypeOK, ClientsApart, Keeps, Ids
<1>3. id \notin Queued /\ id \notin Active
  <2>1. \A i \in 1..Len(queue) : queue[i] # id
    BY <1>2 DEF Inv, QueueApart
  <2>2. \A w \in Workers : worker[w].pc \in {"received", "running", "dead"} => worker[w].id # id
    BY <1>2 DEF Inv, WorkersApart, Busy
  <2>3. QED
    BY <2>1, <2>2, InQueued, InActive
<1>4. Cardinality(Queued) < Capacity
  <2>1. Cardinality(Queued) \in Nat /\ Cardinality(Queued) <= Len(queue) /\ Len(queue) \in Nat
    BY QueuedFit DEF Inv, TypeOK
  <2>2. QED
    BY <1>1, <2>1, PoolAssumption
<1>5. Queued' = Queued \cup {id}
  <2>1. queue \in Seq(Ids)
    BY DEF Inv, TypeOK
  <2>2. /\ Len(queue') = Len(queue) + 1 /\ Len(queue) \in Nat /\ queue'[Len(queue) + 1] = id
        /\ \A i \in 1..Len(queue) : queue'[i] = queue[i]
    BY <1>1, <1>2, <2>1
  <2>3. ASSUME NEW x PROVE x \in Queued' <=> x \in Queued \cup {id}
    BY <2>2, InQueued
  <2>4. QED
    BY <2>3
<1>6. Active' = Active /\ stats'.ended = stats.ended
  BY <1>1 DEF Active
<1> HIDE DEF id
<1>7. WQ!Accept(id)
  BY <1>3, <1>4, <1>5, <1>6 DEF WQ!Accept, WQ!Cardinality, Cardinality
<1>8. QED
  BY <1>2, <1>7 DEF id

\* ... recv its Start ...
LEMMA ReceiveStarts ==
    ASSUME Inv, NEW w \in Workers, Receive(w)
    PROVE  WQ!Start(queue[1]) /\ queue[1] \in Ids
<1> DEFINE id == queue[1]
<1>1. /\ worker[w].pc = "receiving" /\ queue # <<>> /\ queue' = Tail(queue)
      /\ worker' = [worker EXCEPT ![w] = At("received", Head(queue))] /\ UNCHANGED stats
  BY DEF Receive
<1>2. /\ queue \in Seq(Ids) /\ Len(queue) \in Nat /\ 1 \in 1..Len(queue) /\ id = Head(queue)
      /\ Len(queue') = Len(queue) - 1 /\ id \in Ids
      /\ \A i \in 1..Len(queue') : i + 1 \in 1..Len(queue) /\ queue'[i] = queue[i + 1]
  BY <1>1 DEF Inv, TypeOK
<1>3. /\ worker'[w].pc = "received" /\ worker'[w].id = id
      /\ \A u \in Workers : u # w => worker'[u] = worker[u]
  BY <1>1, <1>2 DEF Inv, TypeOK, At
<1>4. \A i, j \in 1..Len(queue) : queue[i] = queue[j] => i = j
  BY DEF Inv, QueueApart
<1> HIDE DEF id
<1>5. Queued' = Queued \ {id}
  <2>1. ASSUME NEW x \in Queued' PROVE x \in Queued /\ x # id
    <3>1. PICK i \in 1..Len(queue') : queue'[i] = x
      BY InQueued
    <3>2. i + 1 \in 1..Len(queue) /\ queue[i + 1] = x /\ i + 1 # 1
      BY <1>2, <3>1
    <3>3. QED
      BY <1>2, <1>4, <3>2, InQueued DEF id
  <2>2. ASSUME NEW x \in Queued, x # id PROVE x \in Queued'
    <3>1. PICK i \in 1..Len(queue) : queue[i] = x
      BY InQueued
    <3>2. i # 1
      BY <2>2, <3>1 DEF id
    <3>3. i - 1 \in 1..Len(queue') /\ (i - 1) + 1 = i
      BY <1>2, <3>2
    <3>4. queue'[i - 1] = x
      BY <1>2, <3>1, <3>3
    <3>5. QED
      BY <3>3, <3>4, InQueued
  <2>3. QED
    BY <2>1, <2>2
<1>6. id \in Queued
  BY <1>2, InQueued DEF id
<1>7. Active' = Active \cup {id}
  <2>1. ASSUME NEW x PROVE x \in Active' <=> x \in Active \cup {id}
    BY <1>1, <1>3, InActive
  <2>2. QED
    BY <2>1
<1>8. Cardinality(Active) < Cardinality(Workers)
  BY <1>1, ActiveFit
<1>9. stats'.ended = stats.ended
  BY <1>1
<1>10. WQ!Start(id)
  BY <1>5, <1>6, <1>7, <1>8, <1>9 DEF WQ!Start, WQ!Cardinality, Cardinality
<1>11. QED
  BY <1>2, <1>10 DEF id

\* ... and mark_finished its Complete.
LEMMA RecordCompletes ==
    ASSUME Inv, NEW w \in Workers, Record(w)
    PROVE  WQ!Complete(worker[w].id) /\ worker[w].id \in Ids
<1> DEFINE id == worker[w].id
<1>1. /\ worker[w].pc = "running" /\ stats' = [stats EXCEPT !.ended = @ + 1]
      /\ worker' = [worker EXCEPT ![w].pc = "recorded"] /\ UNCHANGED queue
  BY DEF Record
<1>2. /\ worker'[w].pc = "recorded" /\ \A u \in Workers : u # w => worker'[u] = worker[u]
  BY <1>1 DEF Inv, TypeOK
<1>3. /\ id \in 1..nextId /\ id \in Ids
      /\ \A u \in Workers : Busy(u) /\ worker[u].id = id => u = w
  BY <1>1 DEF Inv, TypeOK, WorkersApart, Busy, Ids
<1>4. \A u \in Workers : worker[u].pc \in {"received", "running", "dead"} => Busy(u)
  BY DEF Busy
<1> HIDE DEF id
<1>5. Active' = Active \ {id}
  <2>1. ASSUME NEW x \in Active' PROVE x \in Active /\ x # id
    <3>1. PICK u \in Workers : worker'[u].pc \in {"received", "running", "dead"}
                               /\ worker'[u].id = x
      BY InActive
    <3>2. u # w /\ worker'[u] = worker[u]
      BY <1>2, <3>1
    <3>3. QED
      BY <1>3, <1>4, <3>1, <3>2, InActive
  <2>2. ASSUME NEW x \in Active, x # id PROVE x \in Active'
    <3>1. PICK u \in Workers : worker[u].pc \in {"received", "running", "dead"}
                               /\ worker[u].id = x
      BY InActive
    <3>2. u # w
      BY <2>2, <3>1 DEF id
    <3>3. QED
      BY <1>2, <3>1, <3>2, InActive
  <2>3. QED
    BY <2>1, <2>2
<1>6. id \in Active
  BY <1>1, InActive DEF id
<1>7. stats.ended' = stats.ended + 1
  BY <1>1 DEF Inv, TypeOK
<1>8. Queued' = Queued
  BY <1>1 DEF Queued
<1>9. WQ!Complete(id)
  BY <1>5, <1>6, <1>7, <1>8 DEF WQ!Complete
<1>10. QED
  BY <1>3, <1>9 DEF id

\* Every other step is invisible to the abstract queue.
LEMMA StepIsQueueStep ==
    ASSUME Inv, [Next]_vars
    PROVE  WQ!WQNext \/ UNCHANGED WQ!wqVars
<1> DEFINE Goal == WQ!WQNext \/ UNCHANGED WQ!wqVars
<1>1. ASSUME NEW c \in Clients, Send(c) PROVE Goal
  BY <1>1, SendAccepts DEF WQ!WQNext
<1>2. ASSUME NEW w \in Workers, Receive(w) PROVE Goal
  BY <1>2, ReceiveStarts DEF WQ!WQNext
<1>3. ASSUME NEW w \in Workers, Record(w) PROVE Goal
  BY <1>3, RecordCompletes DEF WQ!WQNext
<1>4. ASSUME UNCHANGED queue, stats'.ended = stats.ended,
             \A u \in Workers : /\ worker'[u].id = worker[u].id
                                   \/ worker'[u].pc \notin {"received", "running", "dead"}
                                /\ worker'[u].pc \in {"received", "running", "dead"} <=>
                                   worker[u].pc \in {"received", "running", "dead"}
      PROVE  Goal
  <2>1. Queued' = Queued
    BY <1>4 DEF Queued
  <2>2. Active' = Active
    <3>1. ASSUME NEW x PROVE x \in Active' <=> x \in Active
      BY <1>4, InActive
    <3>2. QED
      BY <3>1
  <2>3. QED
    BY <1>4, <2>1, <2>2 DEF WQ!wqVars
<1> HIDE DEF Goal
<1>5. ASSUME NEW c \in Clients, Submit(c) PROVE Goal
  <2>1. CASE Submitted(c)
    <3>1. UNCHANGED <<queue, worker>> /\ stats'.ended = stats.ended
      BY <2>1 DEF Submitted, Inv, TypeOK
    <3>2. QED
      BY <1>4, <3>1
  <2>2. CASE Register(c) \/ Count(c) \/ SendRefused(c) \/ RollbackCount(c) \/ RollbackEntry(c)
    <3>1. UNCHANGED <<queue, worker, stats>>
      BY <2>2 DEF Register, Count, SendRefused, RollbackCount, RollbackEntry
    <3>2. QED
      BY <1>4, <3>1
  <2>3. QED
    BY <1>1, <1>5, <2>1, <2>2 DEF Submit
<1>6. ASSUME NEW w \in Workers, NEW pc, worker' = [worker EXCEPT ![w].pc = pc],
             UNCHANGED <<queue, stats>>,
             pc \in {"received", "running", "dead"} <=>
               worker[w].pc \in {"received", "running", "dead"}
      PROVE  Goal
  BY <1>4, <1>6 DEF Inv, TypeOK
<1>7. ASSUME NEW w \in Workers, Work(w) \/ Panic(w) PROVE Goal
  <2>1. CASE Exit(w)
    BY <1>6, <2>1 DEF Exit
  <2>2. CASE MarkRunning(w)
    BY <1>6, <2>2 DEF MarkRunning
  <2>3. CASE Release(w)
    BY <1>6, <2>3 DEF Release
  <2>4. CASE Panic(w)
    BY <1>6, <2>4 DEF Panic
  <2>5. CASE Notify(w)
    <3>1. /\ UNCHANGED <<queue, stats>> /\ worker[w].pc = "released"
          /\ worker' = [worker EXCEPT ![w] = At("receiving", NoJob)]
      BY <2>5 DEF Notify
    <3>2. /\ worker'[w].pc = "receiving" /\ \A u \in Workers : u # w => worker'[u] = worker[u]
      BY <3>1 DEF Inv, TypeOK, At
    <3>3. QED
      BY <1>4, <3>1, <3>2
  <2>6. QED
    BY <1>2, <1>3, <1>7, <2>1, <2>2, <2>3, <2>4, <2>5 DEF Work
<1>8. ASSUME UNCHANGED <<queue, worker, stats>> PROVE Goal
  BY <1>4, <1>8
<1>9. ASSUME (\E id \in Ids : Take(id)) \/ Finish \/ Drop \/ UNCHANGED vars PROVE Goal
  <2>1. UNCHANGED <<queue, worker, stats>>
    BY <1>9 DEF Take, Finish, Drop, vars, FinishCall, FinishCheck, FinishSleep, FinishTimeout,
                FinishExpired, FinishFinal, FinishReturn, Goto
  <2>2. QED
    BY <1>8, <2>1
<1>10. Goal
  BY <1>5, <1>7, <1>9 DEF Next, Stopped
<1>11. QED
  BY <1>10 DEF Goal

\* Whatever the interleaving of submits, workers, panics, finish and drop, the
\* pipeline is a queue of at most Capacity jobs served by a pool of as many as
\* there are workers, in which a job is taken up and finished at most once.
THEOREM PipelineIsWorkQueue == Spec => WQ!WQSafety
<1>1. Init => WQ!WQInit
  <2>1. SUFFICES ASSUME Init PROVE WQ!WQInit
    OBVIOUS
  <2>2. Len(queue) = 0 /\ stats.ended = 0 /\ \A w \in Workers : worker[w].pc = "receiving"
    BY <2>1 DEF Init, At
  <2>3. Queued = {} /\ Active = {}
    BY <2>2, InQueued, InActive
  <2>4. QED
    BY <2>2, <2>3 DEF WQ!WQInit
<1>2. Inv /\ [Next]_vars => [WQ!WQNext]_(WQ!wqVars)
  BY StepIsQueueStep
<1>3. QED
  BY <1>1, <1>2, SpecInv, PTL DEF Spec, WQ!WQSafety

=============================================================================
