------------------------------ MODULE ControlProofs ------------------------------
(***************************************************************************)
(* The control plane.  A daemon that is down has no listener, and stop     *)
(* reports what happened, for any number of daemons and any addresses; the *)
(* handoff takes back what it put, the event bus calls everyone who is due *)
(* a call, the TCP tier answers with what was done, a scrape of the        *)
(* controller shows the fleet as it was, and the metrics add up, for any   *)
(* callers, prefixes, subscribers, entries, nodes, threads and errors.     *)
(***************************************************************************)
EXTENDS MCControl, FiniteSetTheorems, SequenceTheorems, TLAPS

-----------------------------------------------------------------------------
(* The daemon.  A step changes the state of one daemon, so the invariant   *)
(* is a predicate of one daemon's state and is shown for what each action  *)
(* makes of that state.                                                    *)


Pcs == {"down", "spawn data", "spawn control", "up", "undo data",
        "stop control", "stop data", "drop data", "drop control"}
States == {"none", "running", "done", "failed"}
Started == {"up", "stop control", "stop data", "drop data", "drop control"}

\* What holds of the servers of a daemon at each point of its calls: which threads
\* have been started, and which have been joined.
Phase(caller, data, control, flags) ==
    /\ caller.pc = "down" => data # "running" /\ control # "running"
    /\ caller.pc = "spawn data" => data = "none" /\ control = "none"
    /\ caller.pc = "spawn control" => data # "none" /\ control = "none"
    /\ caller.pc = "undo data" => control = "none"
    /\ caller.pc \in Started => data # "none" /\ control # "none"
    /\ caller.pc = "stop data" => control # "running"
    /\ caller.pc = "drop control" => data # "running"
    /\ caller.pc \in {"spawn data", "spawn control", "up"} => flags = {}

Inv ==
    /\ TypeOK
    /\ \A d \in Daemons : Phase(daemon[d], thread[d]["data"], thread[d]["control"], asked[d])

LEMMA InitInv == Init => Inv
<1> SUFFICES ASSUME Init PROVE Inv
  OBVIOUS
<1>1. TypeOK
  BY DEF Init, TypeOK, Planes
<1>2. ASSUME NEW d \in Daemons
      PROVE  Phase(daemon[d], thread[d]["data"], thread[d]["control"], asked[d])
  BY DEF Init, Phase, Planes, Started
<1>3. QED
  BY <1>1, <1>2 DEF Inv

\* A step that gives one daemon a new state which the invariant allows keeps it.
LEMMA OneDaemon ==
    ASSUME Inv, NEW d \in Daemons,
           NEW caller \in [pc : Pcs, result : {"none", "ok", "error"}],
           NEW servers \in [Planes -> States], NEW flags \in SUBSET Planes,
           daemon' = [daemon EXCEPT ![d] = caller],
           thread' = [thread EXCEPT ![d] = servers],
           asked' = [asked EXCEPT ![d] = flags],
           Phase(caller, servers["data"], servers["control"], flags)
    PROVE  Inv'
<1>1. daemon' \in [Daemons -> [pc : Pcs, result : {"none", "ok", "error"}]]
  BY DEF Inv, TypeOK, Pcs
<1>2. thread' \in [Daemons -> [Planes -> States]]
  BY DEF Inv, TypeOK, States
<1>3. asked' \in [Daemons -> SUBSET Planes]
  BY DEF Inv, TypeOK
<1>4. ASSUME NEW e \in Daemons
      PROVE  Phase(daemon[e], thread[e]["data"], thread[e]["control"], asked[e])'
  <2>1. CASE e = d
    BY <2>1 DEF Inv, TypeOK
  <2>2. CASE e # d
    <3>1. daemon'[e] = daemon[e] /\ thread'[e] = thread[e] /\ asked'[e] = asked[e]
      BY <2>2 DEF Inv, TypeOK
    <3>2. Phase(daemon[e], thread[e]["data"], thread[e]["control"], asked[e])
      BY DEF Inv
    <3>3. QED
      BY <3>1, <3>2
  <2>3. QED
    BY <2>1, <2>2
<1>5. \A e \in Daemons : daemon'[e].pc = "up" => asked'[e] = {}
  BY <1>4 DEF Phase
<1>6. QED
  BY <1>1, <1>2, <1>3, <1>4, <1>5 DEF Inv, TypeOK, Pcs, States

\* The caller's own steps.
LEMMA CallerStep ==
    ASSUME Inv, NEW d \in Daemons,
           Refused(d) \/ Spawn(d) \/ Stop(d) \/ Drop(d) \/ Caller(d)
    PROVE  Inv'
<1> DEFINE State(pc, result) == [pc |-> pc, result |-> result]
           None == [p \in Planes |-> "none"]
           Up(p) == [thread[d] EXCEPT ![p] = "running"]
<1>0. /\ daemon \in [Daemons -> [pc : Pcs, result : {"none", "ok", "error"}]]
      /\ thread \in [Daemons -> [Planes -> States]]
      /\ asked \in [Daemons -> SUBSET Planes]
      /\ Phase(daemon[d], thread[d]["data"], thread[d]["control"], asked[d])
  BY DEF Inv, TypeOK, Pcs, States
<1>a. /\ thread[d] \in [Planes -> States] /\ asked[d] \in SUBSET Planes
      /\ daemon[d].result \in {"none", "ok", "error"}
      /\ thread = [thread EXCEPT ![d] = thread[d]]
      /\ asked = [asked EXCEPT ![d] = asked[d]]
  BY <1>0
<1>1. CASE Refused(d)
  <2>1. Phase(State("down", "error"), thread[d]["data"], thread[d]["control"], asked[d])
    BY <1>0, <1>1 DEF Refused, Phase, Started
  <2>2. QED
    BY <1>a, <1>1, <2>1, OneDaemon DEF Refused, Goes, Pcs
<1>2. CASE Spawn(d)
  <2>1. Phase(State("spawn data", "none"), None["data"], None["control"], {})
    BY DEF Phase, Started, Planes
  <2>2. None \in [Planes -> States] /\ {} \in SUBSET Planes
    BY DEF States
  <2>3. QED
    BY <1>2, <2>1, <2>2, OneDaemon DEF Spawn, Goes, Pcs
<1>3. CASE SpawnData(d)
  <2>1. CASE ServerSpawn(d, "data", "spawn control")
    <3>1. Up("data") \in [Planes -> States]
      BY <1>a DEF States
    <3>2. Phase(State("spawn control", "none"), Up("data")["data"], Up("data")["control"], asked[d])
      BY <1>0, <1>a, <1>3 DEF SpawnData, Phase, Started, Planes
    <3>3. thread' = [thread EXCEPT ![d] = Up("data")]
      BY <2>1 DEF ServerSpawn
    <3>4. QED
      BY <1>a, <2>1, <3>1, <3>2, <3>3, OneDaemon DEF ServerSpawn, Goes, Pcs
  <2>2. CASE ServerSpawnFails(d, "down")
    <3>1. Phase(State("down", "error"), thread[d]["data"], thread[d]["control"], asked[d])
      BY <1>0, <1>3 DEF SpawnData, Phase, Started
    <3>2. QED
      BY <1>a, <2>2, <3>1, OneDaemon DEF ServerSpawnFails, Goes, Pcs
  <2>3. QED
    BY <1>3, <2>1, <2>2 DEF SpawnData
<1>4. CASE SpawnControl(d)
  <2>1. CASE ServerSpawn(d, "control", "up")
    <3>1. Up("control") \in [Planes -> States]
      BY <1>a DEF States
    <3>2. Phase(State("up", "ok"), Up("control")["data"], Up("control")["control"], asked[d])
      BY <1>0, <1>a, <1>4 DEF SpawnControl, Phase, Started, Planes
    <3>3. thread' = [thread EXCEPT ![d] = Up("control")]
      BY <2>1 DEF ServerSpawn
    <3>4. QED
      BY <1>a, <2>1, <3>1, <3>2, <3>3, OneDaemon DEF ServerSpawn, Goes, Pcs
  <2>2. CASE ServerSpawnFails(d, "undo data")
    <3>1. Phase(State("undo data", "error"), thread[d]["data"], thread[d]["control"], asked[d])
      BY <1>0, <1>4 DEF SpawnControl, Phase, Started
    <3>2. QED
      BY <1>a, <2>2, <3>1, OneDaemon DEF ServerSpawnFails, Goes, Pcs
  <2>3. QED
    BY <1>4, <2>1, <2>2 DEF SpawnControl
<1>5. ASSUME NEW p \in Planes, NEW pc \in Pcs, Signal(d, p, pc),
             Phase(State(pc, daemon[d].result), thread[d]["data"], thread[d]["control"], asked[d] \cup {p})
      PROVE  Inv'
  <2>1. asked[d] \cup {p} \in SUBSET Planes
    BY <1>a
  <2>2. QED
    BY <1>a, <1>5, <2>1, OneDaemon DEF Signal, Goes, Pcs
<1>6. CASE Stop(d)
  <2>1. Phase(State("stop control", daemon[d].result), thread[d]["data"], thread[d]["control"],
              asked[d] \cup {"control"})
    BY <1>0, <1>6 DEF Stop, Phase, Started
  <2>2. QED
    BY <1>5, <1>6, <2>1 DEF Stop, Pcs, Planes
<1>7. CASE Drop(d)
  <2>1. Phase(State("drop data", daemon[d].result), thread[d]["data"], thread[d]["control"],
              asked[d] \cup {"data"})
    BY <1>0, <1>7 DEF Drop, Phase, Started
  <2>2. QED
    BY <1>5, <1>7, <2>1 DEF Drop, Pcs, Planes
<1>8. CASE StopControl(d)
  <2>1. Phase(State("stop data", daemon[d].result), thread[d]["data"], thread[d]["control"],
              asked[d] \cup {"data"})
    BY <1>0, <1>8 DEF StopControl, Joined, Listening, Phase, Started
  <2>2. QED
    BY <1>5, <1>8, <2>1 DEF StopControl, Pcs, Planes
<1>9. CASE DropData(d)
  <2>1. Phase(State("drop control", daemon[d].result), thread[d]["data"], thread[d]["control"],
              asked[d] \cup {"control"})
    BY <1>0, <1>9 DEF DropData, Joined, Listening, Phase, Started
  <2>2. QED
    BY <1>5, <1>9, <2>1 DEF DropData, Pcs, Planes
<1>10. ASSUME NEW result \in {"ok", "error"}, Goes(d, "down", result), UNCHANGED <<thread, asked>>,
              ~Listening(d, "data"), ~Listening(d, "control")
       PROVE  Inv'
  <2>1. Phase(State("down", result), thread[d]["data"], thread[d]["control"], asked[d])
    BY <1>10 DEF Listening, Phase, Started
  <2>2. QED
    BY <1>a, <1>10, <2>1, OneDaemon DEF Goes, Pcs
<1>11. CASE StopData(d)
  <2>1. ~Listening(d, "control") /\ ~Listening(d, "data") /\ ResultOf(d, Planes) \in {"ok", "error"}
    BY <1>0, <1>11 DEF StopData, Joined, Phase, Listening, ResultOf
  <2>2. QED
    BY <1>10, <1>11, <2>1 DEF StopData
<1>12. CASE DropControl(d)
  <2>1. ~Listening(d, "control") /\ ~Listening(d, "data")
    BY <1>0, <1>12 DEF DropControl, Joined, Phase, Listening
  <2>2. QED
    BY <1>10, <1>12, <2>1 DEF DropControl
<1>13. CASE UndoData(d)
  <2>1. CASE Signal(d, "data", "undo data")
    <3>1. Phase(State("undo data", daemon[d].result), thread[d]["data"], thread[d]["control"],
                asked[d] \cup {"data"})
      BY <1>0, <1>13 DEF UndoData, Phase, Started
    <3>2. QED
      BY <1>5, <2>1, <3>1 DEF Pcs, Planes
  <2>2. CASE Joined(d, "data") /\ Goes(d, "down", "error") /\ UNCHANGED <<thread, asked>>
    <3>1. ~Listening(d, "control") /\ ~Listening(d, "data")
      BY <1>0, <1>13, <2>2 DEF UndoData, Joined, Phase, Listening
    <3>2. QED
      BY <1>10, <2>2, <3>1
  <2>3. QED
    BY <1>13, <2>1, <2>2 DEF UndoData
<1>14. QED
  BY <1>1, <1>2, <1>3, <1>4, <1>6, <1>7, <1>8, <1>9, <1>11, <1>12, <1>13 DEF Caller

\* The end of a server's thread.
LEMMA ThreadStep ==
    ASSUME Inv, NEW d \in Daemons, NEW p \in Planes, NEW how \in {"done", "failed"},
           ThreadEnds(d, p, how)
    PROVE  Inv'
<1> DEFINE Ended == [thread[d] EXCEPT ![p] = how]
<1>0. /\ daemon \in [Daemons -> [pc : Pcs, result : {"none", "ok", "error"}]]
      /\ thread \in [Daemons -> [Planes -> States]]
      /\ asked \in [Daemons -> SUBSET Planes]
      /\ Phase(daemon[d], thread[d]["data"], thread[d]["control"], asked[d])
  BY DEF Inv, TypeOK, Pcs, States
<1>1. Ended \in [Planes -> States]
  BY <1>0 DEF States
<1>2. Phase(daemon[d], Ended["data"], Ended["control"], asked[d])
  BY <1>0 DEF ThreadEnds, Listening, Phase, Started, Planes
<1>3. /\ thread' = [thread EXCEPT ![d] = Ended]
      /\ daemon' = [daemon EXCEPT ![d] = daemon[d]] /\ asked' = [asked EXCEPT ![d] = asked[d]]
  BY <1>0 DEF ThreadEnds
<1>4. daemon[d] \in [pc : Pcs, result : {"none", "ok", "error"}] /\ asked[d] \in SUBSET Planes
  BY <1>0
<1>5. QED
  BY <1>1, <1>2, <1>3, <1>4, OneDaemon

LEMMA NextInv == Inv /\ [Next]_vars => Inv'
<1> SUFFICES ASSUME Inv, [Next]_vars PROVE Inv'
  OBVIOUS
<1>1. CASE UNCHANGED vars
  BY <1>1 DEF vars, Inv, TypeOK, Phase
<1>2. ASSUME NEW d \in Daemons, Refused(d) \/ Spawn(d) \/ Stop(d) \/ Drop(d) \/ Caller(d)
      PROVE  Inv'
  BY <1>2, CallerStep
<1>3. ASSUME NEW d \in Daemons, NEW p \in Planes, ThreadStops(d, p)
      PROVE  Inv'
  BY <1>3, ThreadStep DEF ThreadStops
<1>4. ASSUME NEW d \in Daemons, AcceptFails(d) \/ ControlPanics(d)
      PROVE  Inv'
  BY <1>4, ThreadStep DEF AcceptFails, ControlPanics, Planes
<1>5. QED
  BY <1>1, <1>2, <1>3, <1>4 DEF Next

LEMMA SpecInv == Spec => []Inv
BY InitInv, NextInv, PTL DEF Spec

\* Every reachable state of the daemons has the shape of the Rust state, and a daemon
\* that is up has servers that were not told to stop.
THEOREM DaemonTypeCorrect == Spec => []TypeOK
<1>1. Inv => TypeOK
  BY DEF Inv
<1>2. QED
  BY <1>1, SpecInv, PTL

\* Whatever addresses collide and whichever servers fail, a daemon whose spawn failed,
\* that was stopped or that was dropped has no listener: RivetDaemon::spawn, stop and
\* the drop of its fields.
THEOREM DownMeansClosed == Spec => []NothingLeft
<1>1. Inv => NothingLeft
  <2> SUFFICES ASSUME Inv, NEW d \in Daemons, daemon[d].pc = "down", NEW p \in Planes
               PROVE  ~Listening(d, p)
    BY DEF NothingLeft
  <2>1. Phase(daemon[d], thread[d]["data"], thread[d]["control"], asked[d])
    BY DEF Inv
  <2>2. QED
    BY <2>1 DEF Phase, Listening, Planes
<1>2. QED
  BY <1>1, SpecInv, PTL

\* RivetDaemon::stop returns Ok if and only if both server threads ended in order.
THEOREM StopReportsFailures == Spec => StopTruthful
<1> DEFINE Report == \A d \in Daemons : (daemon[d].pc = "stop data" /\ daemon'[d].pc = "down") =>
                       (daemon'[d].result = "ok" <=> \A p \in Planes : thread[d][p] = "done")
<1>1. Inv /\ [Next]_vars => [Report]_vars
  <2> SUFFICES ASSUME Inv, Next, NEW d \in Daemons, daemon[d].pc = "stop data", daemon'[d].pc = "down"
               PROVE  daemon'[d].result = "ok" <=> \A p \in Planes : thread[d][p] = "done"
    OBVIOUS
  <2>0. /\ daemon \in [Daemons -> [pc : Pcs, result : {"none", "ok", "error"}]]
        /\ thread \in [Daemons -> [Planes -> States]]
        /\ Phase(daemon[d], thread[d]["data"], thread[d]["control"], asked[d])
    BY DEF Inv, TypeOK, Pcs, States
  <2>1. StopData(d)
    <3>1. PICK e \in Daemons :
            \/ Refused(e) \/ Spawn(e) \/ Stop(e) \/ Drop(e) \/ Caller(e)
            \/ \E p \in Planes : ThreadStops(e, p)
            \/ AcceptFails(e) \/ ControlPanics(e)
      BY DEF Next
    <3>2. daemon' # daemon
      OBVIOUS
    <3>3. CASE e # d
      <4>1. ASSUME NEW pc, NEW result, Goes(e, pc, result) PROVE FALSE
        BY <2>0, <3>3, <4>1 DEF Goes
      <4>2. QED
        BY <3>1, <3>2, <4>1 DEF Refused, Spawn, Stop, Drop, Caller, SpawnData, SpawnControl, UndoData,
           StopControl, StopData, DropData, DropControl, ServerSpawn, ServerSpawnFails, Signal,
           ThreadStops, AcceptFails, ControlPanics, ThreadEnds
    <3>4. CASE e = d
      BY <3>1, <3>2, <3>4 DEF Refused, Spawn, Stop, Drop, Caller, SpawnData, SpawnControl, UndoData,
         StopControl, DropData, DropControl, ThreadStops, AcceptFails, ControlPanics, ThreadEnds
    <3>5. QED
      BY <3>3, <3>4
  <2>2. daemon'[d].result = ResultOf(d, Planes)
    BY <2>0, <2>1 DEF StopData, Goes
  <2>3. thread[d]["data"] \in {"done", "failed"} /\ thread[d]["control"] \in {"done", "failed"}
    BY <2>0, <2>1 DEF StopData, Joined, Listening, Phase, Started, States, Planes
  <2>4. QED
    BY <2>2, <2>3 DEF ResultOf, Planes
<1>2. QED
  BY <1>1, SpecInv, PTL DEF Spec, StopTruthful

\* The three together, for any number of daemons and any addresses: RivetDaemon::spawn,
\* stop and drop.
THEOREM DaemonIsSafe == Spec => DaemonSafe
BY DaemonTypeCorrect, DownMeansClosed, StopReportsFailures, PTL DEF DaemonSafe

-----------------------------------------------------------------------------
(* The handoff: a publish knows how the tier relates to what it has written *)
(* as long as no other call has touched its keys, and a fetch which places  *)
(* of its prefix it has been through.                                       *)

HandKeys == Hand!Keys

PubCalls == [pc : {"idle", "put", "undo", "ok", "error"}, prefix : Seq(HandKeys),
             written : Seq(HandKeys), before : SUBSET HandKeys, put : SUBSET HandKeys,
             failed : SUBSET HandKeys, clean : BOOLEAN]
FetchCalls == [pc : {"idle", "get", "ok", "error"}, prefix : Seq(HandKeys), at : Nat,
               blocks : Seq(HandKeys), missed : Nat, complete : BOOLEAN]

Elements(s) == {s[i] : i \in 1..Len(s)}

\* written is the beginning of prefix.
Begins(written, prefix) ==
    /\ Len(written) <= Len(prefix)
    /\ \A i \in 1..Len(written) : written[i] = prefix[i]

\* What an undisturbed publish knows of the tier T.
Untouched(pc, prefix, written, before, put, failed, T) ==
    /\ pc = "put" => put = Elements(written) /\ failed = {} /\ Elements(written) \subseteq T
    /\ pc = "undo" => Elements(written) \subseteq put /\ put \cap T \subseteq Elements(written) \cup failed
    /\ pc \in {"put", "undo"} => T \cap Elements(prefix) \subseteq before \cup Elements(written) \cup failed
    /\ pc \in {"put", "undo", "error"} => (before \cap Elements(prefix)) \ put \subseteq T
    /\ pc = "ok" => Elements(prefix) \subseteq T
    /\ pc = "error" =>
         /\ (put \ failed) \cap T = {}
         /\ T \cap Elements(prefix) \subseteq before \cup failed

PubFits(c, T) ==
    /\ Begins(c.written, c.prefix) /\ c.put \subseteq Elements(c.prefix)
    /\ c.clean = TRUE => Untouched(c.pc, c.prefix, c.written, c.before, c.put, c.failed, T)

\* blocks are keys of prefix at increasing places before `end`.
Selected(blocks, prefix, end) ==
    /\ \A k \in 1..Len(blocks) : \E i \in 1..Len(prefix) : i < end /\ prefix[i] = blocks[k]
    /\ \A k, l \in 1..Len(blocks) : k < l =>
         \E i, j \in 1..Len(prefix) :
            i < j /\ j < end /\ prefix[i] = blocks[k] /\ prefix[j] = blocks[l]

\* A fetch that has been through the places before `end`.
Through(prefix, end, blocks, missed, complete, T) ==
    /\ Selected(blocks, prefix, end)
    /\ Len(blocks) + missed = end - 1
    /\ complete = TRUE => missed = 0 /\ Begins(blocks, prefix)

FetchFits(c, T) ==
    /\ c.at \in 1..(Len(c.prefix) + 1)
    /\ c.pc = "get" => c.at <= Len(c.prefix) /\ Through(c.prefix, c.at, c.blocks, c.missed, c.complete, T)
    /\ c.pc = "ok" => Through(c.prefix, Len(c.prefix) + 1, c.blocks, c.missed, c.complete, T)
    /\ c.complete = TRUE => Elements(c.prefix) \subseteq T

HandInv ==
    /\ handTier \subseteq HandKeys
    /\ handLate \subseteq {"put", "remove"} \X HandKeys
    /\ handErrors \in Nat
    /\ handPub \in [Prefillers -> PubCalls]
    /\ handFetch \in [Decoders -> FetchCalls]
    /\ \A p \in Prefillers : PubFits(handPub[p], handTier)
    /\ \A f \in Decoders : FetchFits(handFetch[f], handTier)

LEMMA KeysAreElements == ASSUME NEW s \in Seq(HandKeys) PROVE Hand!KeysOf(s) = Elements(s)
BY DEF Hand!KeysOf, Hand!ToSet, Elements

LEMMA PrefixesType == ASSUME NEW s \in Prefixes PROVE s \in Seq(HandKeys)
BY MCAssumption DEF Hand!HandoffAssumption, HandKeys

LEMMA HandSafety == HandInv => HandoffSafe
<1> SUFFICES ASSUME HandInv PROVE Hand!Safety
  BY DEF HandoffSafe
<1>1. ASSUME NEW p \in Prefillers
      PROVE  /\ handPub[p] \in PubCalls
             /\ Hand!KeysOf(handPub[p].prefix) = Elements(handPub[p].prefix)
             /\ PubFits(handPub[p], handTier)
  BY KeysAreElements DEF HandInv, PubCalls
<1>2. ASSUME NEW f \in Decoders
      PROVE  /\ handFetch[f] \in FetchCalls
             /\ Hand!KeysOf(handFetch[f].prefix) = Elements(handFetch[f].prefix)
             /\ FetchFits(handFetch[f], handTier)
  BY KeysAreElements DEF HandInv, FetchCalls
<1>3. Hand!TypeOK
  <2>1. handTier \subseteq Hand!Keys /\ handLate \subseteq {"put", "remove"} \X Hand!Keys
    BY DEF HandInv, HandKeys
  <2>2. ASSUME NEW p \in Prefillers
        PROVE  /\ handPub[p].pc \in {"idle", "put", "undo", "ok", "error"}
               /\ Hand!IsPrefix(handPub[p].written, handPub[p].prefix)
    <3> DEFINE w == handPub[p].written
    <3> DEFINE x == handPub[p].prefix
    <3>1. w \in Seq(HandKeys) /\ x \in Seq(HandKeys) /\ Begins(w, x)
      BY <1>1 DEF PubCalls, PubFits
    <3> HIDE DEF w, x
    <3>2. Hand!IsPrefix(w, x)
      BY <3>1 DEF Begins, Hand!IsPrefix
    <3>3. QED
      BY <1>1, <3>2 DEF w, x, PubCalls
  <2>3. ASSUME NEW f \in Decoders
        PROVE  /\ handFetch[f].pc \in {"idle", "get", "ok", "error"}
               /\ handFetch[f].at \in 1..(Len(handFetch[f].prefix) + 1)
    BY <1>2 DEF FetchCalls, FetchFits
  <2>4. QED
    BY <2>1, <2>2, <2>3 DEF Hand!TypeOK
<1>4. Hand!FailedPublishGone /\ Hand!PublishKept
  <2> SUFFICES ASSUME NEW p \in Prefillers, NEW c, c = handPub[p], c.clean = TRUE
               PROVE  /\ c.pc = "error" =>
                           /\ (c.put \ c.failed) \cap handTier = {}
                           /\ (c.before \cap Hand!KeysOf(c.prefix)) \ c.put \subseteq handTier
                           /\ handTier \cap Hand!KeysOf(c.prefix) \subseteq c.before \cup c.failed
                      /\ c.pc = "ok" => Hand!KeysOf(c.prefix) \subseteq handTier
    BY <1>1, Zenon DEF Hand!FailedPublishGone, Hand!PublishKept, PubCalls
  <2>1. Untouched(c.pc, c.prefix, c.written, c.before, c.put, c.failed, handTier)
    BY <1>1 DEF PubFits
  <2>2. Hand!KeysOf(c.prefix) = Elements(c.prefix)
    BY <1>1
  <2>3. QED
    BY <2>1, <2>2 DEF Untouched
<1>5. Hand!FetchAccounts
  <2> SUFFICES ASSUME NEW f \in Decoders, handFetch[f].pc = "ok"
               PROVE  /\ Len(handFetch[f].blocks) + handFetch[f].missed = Len(handFetch[f].prefix)
                      /\ \A k \in DOMAIN handFetch[f].blocks, l \in DOMAIN handFetch[f].blocks : k < l =>
                           \E i, j \in DOMAIN handFetch[f].prefix :
                              /\ i < j /\ handFetch[f].prefix[i] = handFetch[f].blocks[k]
                              /\ handFetch[f].prefix[j] = handFetch[f].blocks[l]
                      /\ handFetch[f].complete => handFetch[f].blocks = handFetch[f].prefix
    BY DEF Hand!FetchAccounts
  <2> DEFINE x == handFetch[f].prefix
  <2> DEFINE b == handFetch[f].blocks
  <2> DEFINE m == handFetch[f].missed
  <2> DEFINE c == handFetch[f].complete
  <2>1. /\ x \in Seq(HandKeys) /\ b \in Seq(HandKeys) /\ m \in Nat /\ c \in BOOLEAN
        /\ Through(x, Len(x) + 1, b, m, c, handTier)
    BY <1>2 DEF FetchCalls, FetchFits
  <2> HIDE DEF x, b, m, c
  <2>2. Len(b) + m = Len(x)
    BY <2>1 DEF Through
  <2>3. \A k \in DOMAIN b, l \in DOMAIN b : k < l =>
          \E i, j \in DOMAIN x : i < j /\ x[i] = b[k] /\ x[j] = b[l]
    <3>1. DOMAIN x = 1..Len(x) /\ DOMAIN b = 1..Len(b)
      BY <2>1
    <3>2. \A k, l \in 1..Len(b) : k < l =>
            \E i, j \in 1..Len(x) : i < j /\ j < Len(x) + 1 /\ x[i] = b[k] /\ x[j] = b[l]
      BY <2>1 DEF Through, Selected
    <3>3. ASSUME NEW k \in DOMAIN b, NEW l \in DOMAIN b, k < l
          PROVE  \E i, j \in DOMAIN x : i < j /\ x[i] = b[k] /\ x[j] = b[l]
      <4>1. k \in 1..Len(b) /\ l \in 1..Len(b)
        BY <3>1
      <4>2. PICK i \in 1..Len(x), j \in 1..Len(x) :
              i < j /\ j < Len(x) + 1 /\ x[i] = b[k] /\ x[j] = b[l]
        BY <3>2, <3>3, <4>1
      <4>3. QED
        BY <3>1, <4>2
    <3>4. QED
      BY <3>3
  <2>4. c => b = x
    <3> SUFFICES ASSUME c = TRUE PROVE b = x
      BY <2>1
    <3>1. Len(b) = Len(x) /\ \A i \in 1..Len(b) : b[i] = x[i]
      BY <2>1 DEF Through, Begins
    <3>2. QED
      BY <2>1, <3>1
  <2>5. QED
    BY <2>2, <2>3, <2>4 DEF x, b, m, c
<1>6. QED
  BY <1>3, <1>4, <1>5 DEF Hand!Safety

LEMMA HandInit == Hand!Init => HandInv
<1> SUFFICES ASSUME Hand!Init PROVE HandInv
  OBVIOUS
<1>1. Hand!IdlePub \in PubCalls /\ Hand!IdleFetch \in FetchCalls
  BY DEF Hand!IdlePub, Hand!IdleFetch, PubCalls, FetchCalls
<1>2. PubFits(Hand!IdlePub, {}) /\ FetchFits(Hand!IdleFetch, {})
  BY DEF Hand!IdlePub, Hand!IdleFetch, PubFits, FetchFits, Begins, Untouched, Elements
<1>3. QED
  BY <1>1, <1>2 DEF Hand!Init, HandInv

\* A step of one publish that leaves the tier alone.
LEMMA QuietPublish ==
    ASSUME HandInv, NEW p \in Prefillers, NEW c \in PubCalls, PubFits(c, handTier),
           handPub' = [handPub EXCEPT ![p] = c], handTier' = handTier,
           handFetch' = handFetch, handErrors' \in Nat,
           handLate' \subseteq {"put", "remove"} \X HandKeys
    PROVE  HandInv'
BY DEF HandInv

\* A step of one fetch.
LEMMA FetchTurn ==
    ASSUME HandInv, NEW f \in Decoders, NEW c \in FetchCalls, FetchFits(c, handTier),
           handFetch' = [handFetch EXCEPT ![f] = c], handTier' = handTier,
           handPub' = handPub, handErrors' \in Nat, handLate' = handLate
    PROVE  HandInv'
BY DEF HandInv

\* A publish that a change of key k does not concern keeps what it knows; nor does the
\* late put of a block whose put failed disturb it.
LEMMA Elsewhere ==
    ASSUME NEW c \in PubCalls, NEW T, NEW U, NEW k, PubFits(c, T), T \ {k} = U \ {k},
           k \notin Elements(c.prefix) \/ (k \in U /\ k \in c.failed)
    PROVE  PubFits(c, U)
<1>1. Elements(c.written) \subseteq Elements(c.prefix)
  BY DEF PubFits, Begins, Elements, PubCalls
<1>2. CASE c.clean # TRUE
  BY <1>2 DEF PubFits
<1>3. CASE c.clean = TRUE
  <2>1. Untouched(c.pc, c.prefix, c.written, c.before, c.put, c.failed, T)
    BY <1>3 DEF PubFits
  <2>2. c.put \subseteq Elements(c.prefix)
    BY DEF PubFits
  <2>3. Untouched(c.pc, c.prefix, c.written, c.before, c.put, c.failed, U)
    BY <1>1, <2>1, <2>2 DEF Untouched
  <2>4. QED
    BY <2>3 DEF PubFits
<1>4. QED
  BY <1>2, <1>3

\* The records that the actions make of one publish.
LEMMA PubWritten ==
    ASSUME NEW c \in PubCalls
    PROVE  /\ \A x : [c EXCEPT !.pc = x] =
                  [pc |-> x, prefix |-> c.prefix, written |-> c.written, before |-> c.before,
                   put |-> c.put, failed |-> c.failed, clean |-> c.clean]
           /\ \A w : [c EXCEPT !.written = w] =
                  [pc |-> c.pc, prefix |-> c.prefix, written |-> w, before |-> c.before,
                   put |-> c.put, failed |-> c.failed, clean |-> c.clean]
           /\ \A b : [c EXCEPT !.clean = b] =
                  [pc |-> c.pc, prefix |-> c.prefix, written |-> c.written, before |-> c.before,
                   put |-> c.put, failed |-> c.failed, clean |-> b]
<1>1. PICK A, B, C, D, E, F, G : PubCalls =
        [pc : A, prefix : B, written : C, before : D, put : E, failed : F, clean : G]
  BY Zenon DEF PubCalls
<1>2. c \in [pc : A, prefix : B, written : C, before : D, put : E, failed : F, clean : G]
  BY <1>1, Zenon
<1>3. QED
  BY <1>2

LEMMA FetchWritten ==
    ASSUME NEW c \in FetchCalls
    PROVE  /\ \A x : [c EXCEPT !.pc = x] = [pc |-> x, prefix |-> c.prefix, at |-> c.at,
                             blocks |-> c.blocks, missed |-> c.missed, complete |-> c.complete]
           /\ \A x : [c EXCEPT !.at = x] = [pc |-> c.pc, prefix |-> c.prefix, at |-> x,
                             blocks |-> c.blocks, missed |-> c.missed, complete |-> c.complete]
           /\ \A x : [c EXCEPT !.blocks = x] = [pc |-> c.pc, prefix |-> c.prefix, at |-> c.at,
                             blocks |-> x, missed |-> c.missed, complete |-> c.complete]
           /\ \A x : [c EXCEPT !.missed = x] = [pc |-> c.pc, prefix |-> c.prefix, at |-> c.at,
                             blocks |-> c.blocks, missed |-> x, complete |-> c.complete]
           /\ \A x : [c EXCEPT !.complete = x] = [pc |-> c.pc, prefix |-> c.prefix, at |-> c.at,
                             blocks |-> c.blocks, missed |-> c.missed, complete |-> x]
<1>1. PICK A, B, C, D, E, F :
        FetchCalls = [pc : A, prefix : B, at : C, blocks : D, missed : E, complete : F]
  BY Zenon DEF FetchCalls
<1>2. c \in [pc : A, prefix : B, at : C, blocks : D, missed : E, complete : F]
  BY <1>1, Zenon
<1>3. QED
  BY <1>2

\* A publish that another call has disturbed knows nothing more of the tier.
LEMMA Disturbed ==
    ASSUME NEW c \in PubCalls, NEW T, NEW U, PubFits(c, T)
    PROVE  [c EXCEPT !.clean = FALSE] \in PubCalls /\ PubFits([c EXCEPT !.clean = FALSE], U)
<1>1. PICK g : g = [c EXCEPT !.clean = FALSE]
  OBVIOUS
<1>2. g = [pc |-> c.pc, prefix |-> c.prefix, written |-> c.written, before |-> c.before,
           put |-> c.put, failed |-> c.failed, clean |-> FALSE]
  BY <1>1, PubWritten, Zenon
<1>3. g \in PubCalls /\ PubFits(g, U)
  BY <1>2 DEF PubCalls, PubFits
<1>4. QED
  BY <1>1, <1>3, Zenon

\* A step that changes the tier, for the fetches.
LEMMA HoldTurn ==
    ASSUME HandInv, NEW U \in SUBSET HandKeys, handTier' = U, Hand!Hold,
           handPub' \in [Prefillers -> PubCalls], \A q \in Prefillers : PubFits(handPub'[q], U),
           handErrors' = handErrors, handLate' \subseteq {"put", "remove"} \X HandKeys
    PROVE  HandInv'
<1> DEFINE e(f) == [handFetch[f] EXCEPT !.complete = @ /\ Hand!KeysOf(handFetch[f].prefix) \subseteq U]
<1>1. handFetch' = [f \in Decoders |-> e(f)]
  BY DEF Hand!Hold
<1>2. ASSUME NEW f \in Decoders PROVE e(f) \in FetchCalls /\ FetchFits(e(f), U)
  <2>1. PICK c1 : c1 = handFetch[f]
    OBVIOUS
  <2>2. c1 \in FetchCalls /\ FetchFits(c1, handTier)
    BY <2>1 DEF HandInv
  <2>3. Hand!KeysOf(c1.prefix) = Elements(c1.prefix)
    BY <2>2, KeysAreElements DEF FetchCalls
  <2>4. PICK b \in BOOLEAN : b = (c1.complete /\ Hand!KeysOf(c1.prefix) \subseteq U)
    OBVIOUS
  <2>5. e(f) = [c1 EXCEPT !.complete = b]
    BY <2>1, <2>4
  <2>6. [c1 EXCEPT !.complete = b] = [pc |-> c1.pc, prefix |-> c1.prefix, at |-> c1.at,
                             blocks |-> c1.blocks, missed |-> c1.missed, complete |-> b]
    BY <2>2, FetchWritten, Zenon
  <2> HIDE DEF e
  <2>7. PICK g : g = e(f)
    OBVIOUS
  <2>8. g = [pc |-> c1.pc, prefix |-> c1.prefix, at |-> c1.at,
                             blocks |-> c1.blocks, missed |-> c1.missed, complete |-> b]
    BY <2>5, <2>6, <2>7, Zenon
  <2>9. b = TRUE => c1.complete = TRUE /\ Elements(c1.prefix) \subseteq U
    BY <2>2, <2>3, <2>4 DEF FetchCalls
  <2>10. g \in FetchCalls
    BY <2>2, <2>8 DEF FetchCalls
  <2>11. FetchFits(g, U)
    BY <2>2, <2>8, <2>9 DEF FetchFits, Through
  <2>12. QED
    BY <2>7, <2>10, <2>11, Zenon
<1> HIDE DEF e
<1>3. handFetch' \in [Decoders -> FetchCalls] /\ \A f \in Decoders : FetchFits(handFetch'[f], handTier')
  BY <1>1, <1>2
<1>4. handTier' \subseteq HandKeys /\ handErrors' \in Nat
  BY DEF HandInv
<1>5. QED
  BY <1>3, <1>4 DEF HandInv

\* A step of one publish that changes one key in the tier.
LEMMA TierTurn ==
    ASSUME HandInv, NEW p \in Prefillers, NEW c \in PubCalls, NEW k, NEW U \in SUBSET HandKeys,
           PubFits(c, U), handTier \ {k} = U \ {k},
           handPub' = [Hand!Disturb(p, k) EXCEPT ![p] = c], handTier' = U,
           Hand!Hold, handErrors' = handErrors, handLate' = handLate
    PROVE  HandInv'
<1> DEFINE d(q) == IF q = p THEN c
                   ELSE IF k \in Hand!KeysOf(handPub[q].prefix)
                        THEN [handPub[q] EXCEPT !.clean = FALSE] ELSE handPub[q]
<1>1. handPub' = [q \in Prefillers |-> d(q)]
  BY DEF Hand!Disturb
<1>2. ASSUME NEW q \in Prefillers PROVE d(q) \in PubCalls /\ PubFits(d(q), U)
  <2>1. handPub[q] \in PubCalls /\ PubFits(handPub[q], handTier)
    BY DEF HandInv
  <2>2. CASE q = p
    BY <2>2
  <2>3. CASE q # p /\ k \in Hand!KeysOf(handPub[q].prefix)
    BY <2>1, <2>3, Disturbed, Zenon
  <2>4. CASE q # p /\ k \notin Hand!KeysOf(handPub[q].prefix)
    <3>1. Hand!KeysOf(handPub[q].prefix) = Elements(handPub[q].prefix)
      BY <2>1, KeysAreElements DEF PubCalls
    <3>2. QED
      BY <2>1, <2>4, <3>1, Elsewhere
  <2>5. QED
    BY <2>2, <2>3, <2>4
<1> HIDE DEF d
<1>3. handPub' \in [Prefillers -> PubCalls] /\ \A q \in Prefillers : PubFits(handPub'[q], U)
  BY <1>1, <1>2
<1>4. handLate' \subseteq {"put", "remove"} \X HandKeys
  BY DEF HandInv
<1>5. QED
  BY <1>3, <1>4, HoldTurn

\* A call that reported an error takes effect.
LEMMA LandStep ==
    ASSUME HandInv, NEW op \in {"put", "remove"}, NEW k \in Hand!Keys, Hand!Land(op, k)
    PROVE  HandInv'
<1> DEFINE d(q) == IF k \in Hand!KeysOf(handPub[q].prefix) /\ ~(op = "put" /\ k \in handPub[q].failed)
                   THEN [handPub[q] EXCEPT !.clean = FALSE] ELSE handPub[q]
<1> DEFINE U == IF op = "put" THEN handTier \cup {k} ELSE handTier \ {k}
<1>1. /\ handPub' = [q \in Prefillers |-> d(q)] /\ handTier' = U /\ Hand!Hold
      /\ handErrors' = handErrors /\ handLate' = handLate \ {<<op, k>>}
  BY DEF Hand!Land
<1>2. U \in SUBSET HandKeys /\ handTier \ {k} = U \ {k} /\ (op = "put" => k \in U)
  BY DEF HandInv, HandKeys
<1> HIDE DEF U
<1>3. ASSUME NEW q \in Prefillers PROVE d(q) \in PubCalls /\ PubFits(d(q), U)
  <2>1. handPub[q] \in PubCalls /\ PubFits(handPub[q], handTier)
    BY DEF HandInv
  <2>2. Hand!KeysOf(handPub[q].prefix) = Elements(handPub[q].prefix)
    BY <2>1, KeysAreElements DEF PubCalls
  <2>3. CASE k \in Hand!KeysOf(handPub[q].prefix) /\ ~(op = "put" /\ k \in handPub[q].failed)
    BY <2>1, <2>3, Disturbed, Zenon
  <2>4. CASE ~(k \in Hand!KeysOf(handPub[q].prefix) /\ ~(op = "put" /\ k \in handPub[q].failed))
    <3>1. PubFits(handPub[q], U)
      BY <1>2, <2>1, <2>2, <2>4, Elsewhere
    <3>2. QED
      BY <2>1, <2>4, <3>1, Zenon
  <2>5. QED
    BY <2>3, <2>4
<1> HIDE DEF d
<1>4. handPub' \in [Prefillers -> PubCalls] /\ \A q \in Prefillers : PubFits(handPub'[q], U)
  BY <1>1, <1>3
<1>5. handLate' \subseteq {"put", "remove"} \X HandKeys
  BY <1>1 DEF HandInv
<1>6. QED
  BY <1>1, <1>2, <1>4, <1>5, HoldTurn

-----------------------------------------------------------------------------
\* A publish begins; its thread had none, or one that is over.
LEMMA PublishStep ==
    ASSUME HandInv, NEW p \in Prefillers, NEW prefix \in Prefixes, Hand!Publish(p, prefix)
    PROVE  HandInv'
<1> DEFINE d == [Hand!IdlePub EXCEPT !.pc = "put", !.prefix = prefix, !.before = handTier]
<1>1. handPub' = [handPub EXCEPT ![p] = d]
  BY DEF Hand!Publish
<1>2. /\ handTier' = handTier /\ handFetch' = handFetch /\ handErrors' \in Nat
      /\ handLate' \subseteq {"put", "remove"} \X HandKeys
  BY DEF Hand!Publish, HandInv
<1>3. d = [pc |-> "put", prefix |-> prefix, written |-> <<>>, before |-> handTier,
           put |-> {}, failed |-> {}, clean |-> TRUE]
  <2>1. PICK d1 : d1 = [Hand!IdlePub EXCEPT !.pc = "put"]
    OBVIOUS
  <2>2. PICK d2 : d2 = [d1 EXCEPT !.prefix = prefix]
    OBVIOUS
  <2>3. d = [d2 EXCEPT !.before = handTier]
    BY <2>1, <2>2, Zenon
  <2>4. d1 = [pc |-> "put", prefix |-> <<>>, written |-> <<>>, before |-> {},
               put |-> {}, failed |-> {}, clean |-> TRUE]
    BY <2>1 DEF Hand!IdlePub
  <2>5. d2 = [pc |-> "put", prefix |-> prefix, written |-> <<>>, before |-> {},
               put |-> {}, failed |-> {}, clean |-> TRUE]
    BY <2>2, <2>4
  <2> HIDE DEF d
  <2>6. QED
    BY <2>3, <2>5
<1>4. prefix \in Seq(HandKeys) /\ handTier \in SUBSET HandKeys
  BY PrefixesType DEF HandInv
<1> HIDE DEF d
<1>5. d \in PubCalls
  BY <1>3, <1>4 DEF PubCalls
<1>6. PubFits(d, handTier)
  BY <1>3, <1>4 DEF PubFits, Begins, Untouched, Elements
<1>7. QED
  BY <1>1, <1>2, <1>5, <1>6, QuietPublish

\* What the invariant says of one publish.
LEMMA PubFacts ==
    ASSUME HandInv, NEW p \in Prefillers
    PROVE  /\ handPub[p] \in PubCalls /\ PubFits(handPub[p], handTier)
           /\ handTier \in SUBSET HandKeys /\ handErrors \in Nat
           /\ handLate \subseteq {"put", "remove"} \X HandKeys
BY DEF HandInv

\* A publish that takes another pc, its record unchanged.
LEMMA PcTurn ==
    ASSUME HandInv, NEW p \in Prefillers, NEW x \in {"idle", "put", "undo", "ok", "error"},
           handPub' = [handPub EXCEPT ![p].pc = x], handTier' = handTier,
           handFetch' = handFetch, handErrors' = handErrors, handLate' = handLate,
           handPub[p].clean = TRUE =>
             Untouched(x, handPub[p].prefix, handPub[p].written, handPub[p].before,
                       handPub[p].put, handPub[p].failed, handTier)
    PROVE  HandInv'
<1>1. PICK c : c = handPub[p]
  OBVIOUS
<1>2. c \in PubCalls /\ PubFits(c, handTier)
  BY <1>1, PubFacts
<1>3. PICK d : d = [c EXCEPT !.pc = x]
  OBVIOUS
<1>4. d = [pc |-> x, prefix |-> c.prefix, written |-> c.written, before |-> c.before,
           put |-> c.put, failed |-> c.failed, clean |-> c.clean]
  BY <1>2, <1>3, PubWritten, Zenon
<1>5. handPub' = [handPub EXCEPT ![p] = d]
  BY <1>1, <1>3, Zenon
<1>6. d \in PubCalls
  BY <1>2, <1>4 DEF PubCalls
<1>7. PubFits(d, handTier)
  BY <1>1, <1>2, <1>4 DEF PubFits
<1>8. handErrors' \in Nat /\ handLate' \subseteq {"put", "remove"} \X HandKeys
  BY PubFacts
<1>9. QED
  BY <1>5, <1>6, <1>7, <1>8, QuietPublish

LEMMA PutFailsStep ==
    ASSUME HandInv, NEW p \in Prefillers, Hand!PutFails(p)
    PROVE  HandInv'
<1>1. PICK c : c = handPub[p]
  OBVIOUS
<1>2. /\ c \in PubCalls /\ PubFits(c, handTier) /\ handErrors \in Nat
      /\ handLate \subseteq {"put", "remove"} \X HandKeys
  BY <1>1, PubFacts
<1>3. PICK k : k = c.prefix[Len(c.written) + 1]
  OBVIOUS
<1>4. /\ c.pc = "put" /\ Len(c.written) # Len(c.prefix)
      /\ handPub' = [handPub EXCEPT ![p].pc = "undo", ![p].failed = {k}]
      /\ handLate' = handLate \cup {<<"put", k>>}
      /\ handTier' = handTier /\ handFetch' = handFetch /\ handErrors' = handErrors + 1
  BY <1>1, <1>3 DEF Hand!PutFails, Hand!Fails, Hand!Done, Hand!NextBlock
<1>5. k \in HandKeys
  BY <1>2, <1>3, <1>4 DEF PubFits, Begins, PubCalls
<1>6. PICK e : e = [c EXCEPT !.pc = "undo"]
  OBVIOUS
<1>7. PICK d : d = [e EXCEPT !.failed = {k}]
  OBVIOUS
<1>8. p \in DOMAIN handPub
  BY DEF HandInv
<1>9. handPub' = [handPub EXCEPT ![p] = d]
  BY <1>1, <1>4, <1>6, <1>7, <1>8, Zenon
<1>10. e = [pc |-> "undo", prefix |-> c.prefix, written |-> c.written, before |-> c.before,
            put |-> c.put, failed |-> c.failed, clean |-> c.clean]
  BY <1>2, <1>6, PubWritten, Zenon
<1>11. d = [pc |-> "undo", prefix |-> c.prefix, written |-> c.written, before |-> c.before,
            put |-> c.put, failed |-> {k}, clean |-> c.clean]
  BY <1>7, <1>10
<1>12. d \in PubCalls
  BY <1>2, <1>5, <1>11 DEF PubCalls
<1>13. c.clean = TRUE => Untouched("undo", c.prefix, c.written, c.before, c.put, {k}, handTier)
  BY <1>2, <1>4 DEF PubFits, Untouched
<1>14. PubFits(d, handTier)
  BY <1>2, <1>11, <1>13 DEF PubFits
<1>15. handErrors' \in Nat /\ handLate' \subseteq {"put", "remove"} \X HandKeys
  BY <1>2, <1>4, <1>5
<1>16. QED
  BY <1>4, <1>9, <1>12, <1>14, <1>15, QuietPublish

LEMMA PublishedStep ==
    ASSUME HandInv, NEW p \in Prefillers, Hand!Published(p)
    PROVE  HandInv'
<1>1. /\ handPub[p].pc = "put" /\ handPub' = [handPub EXCEPT ![p].pc = "ok"]
      /\ handTier' = handTier /\ handFetch' = handFetch /\ handErrors' = handErrors
      /\ handLate' = handLate
      /\ Len(handPub[p].written) = Len(handPub[p].prefix)
  BY DEF Hand!Published, Hand!Done
<1>2. handPub[p] \in PubCalls /\ PubFits(handPub[p], handTier) /\ handErrors' \in Nat
  BY <1>1, PubFacts
<1>3. Elements(handPub[p].written) = Elements(handPub[p].prefix)
  BY <1>1, <1>2 DEF PubFits, Begins, Elements
<1>4. handPub[p].clean = TRUE =>
        Untouched("ok", handPub[p].prefix, handPub[p].written, handPub[p].before,
                  handPub[p].put, handPub[p].failed, handTier)
  BY <1>1, <1>2, <1>3 DEF PubFits, Untouched
<1>5. QED
  BY <1>1, <1>2, <1>4, PcTurn

LEMMA UndoneStep ==
    ASSUME HandInv, NEW p \in Prefillers, Hand!Undone(p)
    PROVE  HandInv'
<1>1. /\ handPub[p].pc = "undo" /\ handPub' = [handPub EXCEPT ![p].pc = "error"]
      /\ handTier' = handTier /\ handFetch' = handFetch /\ handErrors' = handErrors
      /\ handLate' = handLate
      /\ handPub[p].written = <<>>
  BY DEF Hand!Undone
<1>2. PubFits(handPub[p], handTier) /\ handErrors' \in Nat
  BY <1>1, PubFacts
<1>3. Elements(handPub[p].written) = {}
  BY <1>1 DEF Elements
<1>4. handPub[p].clean = TRUE =>
        Untouched("error", handPub[p].prefix, handPub[p].written, handPub[p].before,
                  handPub[p].put, handPub[p].failed, handTier)
  BY <1>1, <1>2, <1>3 DEF PubFits, Untouched
<1>5. QED
  BY <1>1, <1>2, <1>4, PcTurn

\* A publish whose written and put blocks change, by a key that the tier gains or loses.
LEMMA WrittenTurn ==
    ASSUME HandInv, NEW p \in Prefillers, NEW k \in HandKeys, NEW w \in Seq(HandKeys),
           NEW u \in SUBSET HandKeys, NEW U \in SUBSET HandKeys, NEW c, NEW d,
           c = handPub[p],
           d = [pc |-> c.pc, prefix |-> c.prefix, written |-> w, before |-> c.before,
                put |-> u, failed |-> c.failed, clean |-> c.clean],
           handPub' = [Hand!Disturb(p, k) EXCEPT ![p] = d], handTier' = U,
           Hand!Hold, handErrors' = handErrors, handLate' = handLate,
           handTier \ {k} = U \ {k},
           Begins(w, c.prefix), u \subseteq Elements(c.prefix),
           c.clean = TRUE => Untouched(c.pc, c.prefix, w, c.before, u, c.failed, U)
    PROVE  HandInv'
<1>1. c \in PubCalls
  BY PubFacts
<1>2. d \in PubCalls
  BY <1>1 DEF PubCalls
<1>3. PubFits(d, U)
  BY <1>1 DEF PubFits
<1>4. QED
  BY <1>2, <1>3, TierTurn

LEMMA PutStep ==
    ASSUME HandInv, NEW p \in Prefillers, Hand!Put(p)
    PROVE  HandInv'
<1>1. PICK c : c = handPub[p]
  OBVIOUS
<1>2. PICK k : k = c.prefix[Len(c.written) + 1]
  OBVIOUS
<1>3. PICK U : U = handTier \cup {k}
  OBVIOUS
<1>4. PICK v : v = Append(c.written, k)
  OBVIOUS
<1>5. PICK u : u = c.put \cup {k}
  OBVIOUS
<1>6. k = Hand!NextBlock(p)
  BY <1>1, <1>2 DEF Hand!NextBlock
<1>7. /\ c.pc = "put" /\ Len(c.written) # Len(c.prefix)
      /\ handPub' = [Hand!Disturb(p, k) EXCEPT ![p].written = Append(@, k), ![p].put = @ \cup {k}]
      /\ handTier' = U /\ Hand!Hold /\ handErrors' = handErrors /\ handLate' = handLate
  BY <1>1, <1>3, <1>6 DEF Hand!Put, Hand!Done
<1>8. c \in PubCalls /\ PubFits(c, handTier) /\ handTier \in SUBSET HandKeys
  BY <1>1, PubFacts
<1>9. PICK d : d = [pc |-> c.pc, prefix |-> c.prefix, written |-> v, before |-> c.before,
                    put |-> u, failed |-> c.failed, clean |-> c.clean]
  OBVIOUS
<1>10. handPub' = [Hand!Disturb(p, k) EXCEPT ![p] = d]
  <2>1. PICK D : D = Hand!Disturb(p, k)
    OBVIOUS
  <2>2. D[p] = c /\ p \in DOMAIN D
    BY <1>1, <2>1 DEF Hand!Disturb
  <2>3. PICK e : e = [c EXCEPT !.written = v]
    OBVIOUS
  <2>4. PICK g : g = [e EXCEPT !.put = u]
    OBVIOUS
  <2>5. e = [pc |-> c.pc, prefix |-> c.prefix, written |-> v, before |-> c.before,
             put |-> c.put, failed |-> c.failed, clean |-> c.clean]
    BY <1>8, <2>3, PubWritten, Zenon
  <2>6. g = d /\ e.put = c.put
    BY <1>9, <2>4, <2>5
  <2>7. PICK E : E = [D EXCEPT ![p] = e]
    OBVIOUS
  <2>8. E = [D EXCEPT ![p].written = Append(@, k)]
    BY <1>4, <2>2, <2>3, <2>7, Zenon
  <2>9. E[p] = e /\ p \in DOMAIN E
    BY <2>2, <2>7
  <2>10. handPub' = [E EXCEPT ![p].put = @ \cup {k}]
    BY <1>7, <2>1, <2>8, Zenon
  <2>11. handPub' = [E EXCEPT ![p] = g]
    BY <1>5, <2>4, <2>6, <2>9, <2>10, Zenon
  <2>12. QED
    BY <2>1, <2>6, <2>7, <2>11
<1>11. /\ c.written \in Seq(HandKeys) /\ c.prefix \in Seq(HandKeys) /\ c.put \in SUBSET HandKeys
       /\ Begins(c.written, c.prefix) /\ c.put \subseteq Elements(c.prefix)
  BY <1>8 DEF PubCalls, PubFits
<1>12. Len(c.written) + 1 \in 1..Len(c.prefix) /\ k \in HandKeys
  BY <1>2, <1>7, <1>11 DEF Begins
<1>13. /\ v \in Seq(HandKeys) /\ Len(v) = Len(c.written) + 1 /\ v[Len(c.written) + 1] = k
       /\ \A i \in 1..Len(c.written) : v[i] = c.written[i]
  BY <1>4, <1>11, <1>12
<1>14. Begins(v, c.prefix)
  <2>1. \A i \in 1..Len(c.written) : c.written[i] = c.prefix[i]
    BY <1>11 DEF Begins
  <2>2. Len(c.written) \in Nat /\ Len(c.prefix) \in Nat
    BY <1>11
  <2>3. QED
    BY <1>2, <1>12, <1>13, <2>1, <2>2 DEF Begins
<1>15. Elements(v) = Elements(c.written) \cup {k} /\ k \in Elements(c.prefix)
  <2>1. Elements(c.written) \cup {k} \subseteq Elements(v)
    BY <1>11, <1>13 DEF Elements
  <2>2. Elements(v) \subseteq Elements(c.written) \cup {k}
    BY <1>11, <1>13 DEF Elements
  <2>3. k \in Elements(c.prefix)
    BY <1>2, <1>12 DEF Elements
  <2>4. QED
    BY <2>1, <2>2, <2>3
<1>16. U \in SUBSET HandKeys /\ u \in SUBSET HandKeys /\ handTier \ {k} = U \ {k}
       /\ u \subseteq Elements(c.prefix)
  BY <1>3, <1>5, <1>8, <1>11, <1>12, <1>15
<1>17. c.clean = TRUE => Untouched(c.pc, c.prefix, v, c.before, u, c.failed, U)
  BY <1>3, <1>5, <1>7, <1>8, <1>15 DEF PubFits, Untouched
<1>18. handTier' = U /\ Hand!Hold /\ handErrors' = handErrors /\ handLate' = handLate
  BY <1>7
<1>19. k \in HandKeys /\ v \in Seq(HandKeys)
  BY <1>12, <1>13
<1>20. QED
  BY <1>1, <1>9, <1>10, <1>14, <1>16, <1>17, <1>18, <1>19, WrittenTurn, Zenon

\* The sequence without its last element.
LEMMA FrontFacts ==
    ASSUME NEW K, NEW w \in Seq(K), w # <<>>
    PROVE  /\ Hand!Front(w) \in Seq(K) /\ Len(Hand!Front(w)) = Len(w) - 1
           /\ \A i \in 1..(Len(w) - 1) : Hand!Front(w)[i] = w[i]
           /\ Hand!Last(w) \in K /\ Len(w) \in Nat \ {0}
           /\ Elements(w) = Elements(Hand!Front(w)) \cup {Hand!Last(w)}
<1>1. Len(w) \in Nat \ {0}
  OBVIOUS
<1>2. /\ Hand!Front(w) \in Seq(K) /\ Len(Hand!Front(w)) = Len(w) - 1
      /\ \A i \in 1..(Len(w) - 1) : Hand!Front(w)[i] = w[i]
  <2>1. Hand!Front(w) = SubSeq(w, 1, Len(w) - 1)
    BY DEF Hand!Front
  <2>2. SubSeq(w, 1, Len(w) - 1) \in Seq(K)
    BY <1>1
  <2>3. Len(SubSeq(w, 1, Len(w) - 1)) = Len(w) - 1
    <3>1. PICK n \in Nat : n = Len(w) - 1
      BY <1>1
    <3>2. \A i \in 1..n : w[i] \in K
      BY <1>1, <3>1
    <3>3. Len(SubSeq(w, 1, n)) = n
      BY <3>1, <3>2, SubSeqProperties
    <3>4. QED
      BY <3>1, <3>3
  <2>4. ASSUME NEW i \in 1..(Len(w) - 1) PROVE SubSeq(w, 1, Len(w) - 1)[i] = w[i]
    BY <1>1
  <2>5. QED
    BY <2>1, <2>2, <2>3, <2>4
<1>3. Hand!Last(w) = w[Len(w)] /\ w[Len(w)] \in K
  BY <1>1 DEF Hand!Last
<1>4. PICK v : v = Hand!Front(w)
  OBVIOUS
<1>5. Elements(w) = Elements(v) \cup {w[Len(w)]}
  <2>1. Len(v) = Len(w) - 1 /\ \A i \in 1..(Len(w) - 1) : v[i] = w[i]
    BY <1>2, <1>4
  <2>2. Elements(w) \subseteq Elements(v) \cup {w[Len(w)]}
    BY <1>1, <2>1 DEF Elements
  <2>3. Elements(v) \cup {w[Len(w)]} \subseteq Elements(w)
    BY <1>1, <2>1 DEF Elements
  <2>4. QED
    BY <2>2, <2>3
<1>6. QED
  BY <1>1, <1>2, <1>3, <1>4, <1>5

LEMMA UndoStep ==
    ASSUME HandInv, NEW p \in Prefillers, Hand!Undo(p)
    PROVE  HandInv'
<1>1. PICK c : c = handPub[p]
  OBVIOUS
<1>2. PICK k : k = Hand!Last(c.written)
  OBVIOUS
<1>3. PICK v : v = Hand!Front(c.written)
  OBVIOUS
<1>4. PICK U : U = handTier \ {k}
  OBVIOUS
<1>5. /\ c.pc = "undo" /\ c.written # <<>>
      /\ handPub' = [Hand!Disturb(p, k) EXCEPT ![p].written = Hand!Front(@)]
      /\ handTier' = U /\ Hand!Hold /\ handErrors' = handErrors /\ handLate' = handLate
  BY <1>1, <1>2, <1>4 DEF Hand!Undo
<1>6. c \in PubCalls /\ PubFits(c, handTier) /\ handTier \in SUBSET HandKeys
  BY <1>1, PubFacts
<1>7. PICK d : d = [c EXCEPT !.written = v]
  OBVIOUS
<1>8. d = [pc |-> c.pc, prefix |-> c.prefix, written |-> v, before |-> c.before,
           put |-> c.put, failed |-> c.failed, clean |-> c.clean]
  BY <1>6, <1>7, PubWritten, Zenon
<1>9. handPub' = [Hand!Disturb(p, k) EXCEPT ![p] = d]
  <2>1. Hand!Disturb(p, k)[p] = c
    BY <1>1 DEF Hand!Disturb
  <2>2. QED
    BY <1>3, <1>5, <1>7, <2>1, Zenon
<1>10. /\ c.written \in Seq(HandKeys) /\ c.put \in SUBSET HandKeys /\ Begins(c.written, c.prefix)
       /\ c.put \subseteq Elements(c.prefix)
  BY <1>6 DEF PubCalls, PubFits
<1>11. /\ v \in Seq(HandKeys) /\ Len(v) = Len(c.written) - 1
       /\ \A i \in 1..(Len(c.written) - 1) : v[i] = c.written[i]
       /\ k \in HandKeys /\ Len(c.written) \in Nat \ {0}
       /\ Elements(c.written) = Elements(v) \cup {k}
  BY <1>2, <1>3, <1>5, <1>10, FrontFacts
<1>12. Begins(v, c.prefix)
  BY <1>10, <1>11 DEF Begins
<1>13. U \in SUBSET HandKeys /\ handTier \ {k} = U \ {k}
  BY <1>4, <1>6
<1>14. c.clean = TRUE => Untouched(c.pc, c.prefix, v, c.before, c.put, c.failed, U)
  BY <1>4, <1>5, <1>6, <1>11 DEF PubFits, Untouched
<1>15. handTier' = U /\ Hand!Hold /\ handErrors' = handErrors /\ handLate' = handLate
  BY <1>5
<1>16. k \in HandKeys /\ v \in Seq(HandKeys) /\ c.put \in SUBSET HandKeys
       /\ c.put \subseteq Elements(c.prefix)
  BY <1>10, <1>11
<1>17. QED
  BY <1>1, <1>8, <1>9, <1>12, <1>13, <1>14, <1>15, <1>16, WrittenTurn, Zenon

LEMMA UndoFailsStep ==
    ASSUME HandInv, NEW p \in Prefillers, Hand!UndoFails(p)
    PROVE  HandInv'
<1>1. PICK c : c = handPub[p]
  OBVIOUS
<1>2. /\ c \in PubCalls /\ PubFits(c, handTier) /\ handErrors \in Nat
      /\ handLate \subseteq {"put", "remove"} \X HandKeys
  BY <1>1, PubFacts
<1>3. PICK v : v = Hand!Front(c.written)
  OBVIOUS
<1>4. /\ handPub' = [handPub EXCEPT ![p].written = Hand!Front(handPub[p].written), ![p].clean = FALSE]
      /\ handTier' = handTier /\ handFetch' = handFetch /\ handErrors' = handErrors + 1
      /\ c.written # <<>>
      /\ handLate' = handLate \cup {<<"remove", Hand!Last(c.written)>>}
  BY <1>1 DEF Hand!UndoFails, Hand!Fails
<1>5. PICK e : e = [c EXCEPT !.written = v]
  OBVIOUS
<1>6. PICK d : d = [e EXCEPT !.clean = FALSE]
  OBVIOUS
<1>7. p \in DOMAIN handPub
  BY DEF HandInv
<1>8. handPub' = [handPub EXCEPT ![p] = d]
  BY <1>1, <1>3, <1>4, <1>5, <1>6, <1>7, Zenon
<1>9. v \in Seq(HandKeys) /\ Begins(v, c.prefix)
  <2>1. c.written \in Seq(HandKeys) /\ c.written # <<>> /\ c.prefix \in Seq(HandKeys)
    BY <1>2, <1>4 DEF PubCalls
  <2>2. /\ v \in Seq(HandKeys) /\ Len(v) = Len(c.written) - 1
        /\ \A i \in 1..(Len(c.written) - 1) : v[i] = c.written[i]
        /\ Len(c.written) \in Nat \ {0}
    BY <1>3, <2>1, FrontFacts
  <2>3. Len(c.written) <= Len(c.prefix) /\ \A i \in 1..Len(c.written) : c.written[i] = c.prefix[i]
    BY <1>2 DEF PubFits, Begins
  <2>4. QED
    BY <2>1, <2>2, <2>3 DEF Begins
<1>10. e = [pc |-> c.pc, prefix |-> c.prefix, written |-> v, before |-> c.before,
            put |-> c.put, failed |-> c.failed, clean |-> c.clean]
  BY <1>2, <1>5, PubWritten, Zenon
<1>11. e \in PubCalls
  BY <1>2, <1>9, <1>10 DEF PubCalls
<1>12. d = [pc |-> c.pc, prefix |-> c.prefix, written |-> v, before |-> c.before,
            put |-> c.put, failed |-> c.failed, clean |-> FALSE]
  BY <1>6, <1>10
<1>13. d \in PubCalls
  BY <1>2, <1>9, <1>12 DEF PubCalls
<1>14. PubFits(d, handTier)
  BY <1>2, <1>9, <1>12 DEF PubFits
<1>15. handErrors' \in Nat /\ handLate' \subseteq {"put", "remove"} \X HandKeys
  <2>1. Hand!Last(c.written) \in HandKeys
    BY <1>2, <1>4, FrontFacts DEF PubCalls
  <2>2. QED
    BY <1>2, <1>4, <2>1
<1>16. QED
  BY <1>4, <1>8, <1>13, <1>14, <1>15, QuietPublish

-----------------------------------------------------------------------------
LEMMA FetchFacts ==
    ASSUME HandInv, NEW f \in Decoders
    PROVE  /\ handFetch[f] \in FetchCalls /\ FetchFits(handFetch[f], handTier)
           /\ handErrors \in Nat
BY DEF HandInv

LEMMA FetchBegins ==
    ASSUME HandInv, NEW f \in Decoders, NEW prefix \in Prefixes, Hand!Fetch(f, prefix)
    PROVE  HandInv'
<1> DEFINE d == [Hand!IdleFetch EXCEPT !.pc = IF prefix = <<>> THEN "ok" ELSE "get",
                    !.prefix = prefix, !.complete = Hand!KeysOf(prefix) \subseteq handTier]
<1>1. handFetch' = [handFetch EXCEPT ![f] = d]
  BY DEF Hand!Fetch
<1>2. handTier' = handTier /\ handPub' = handPub /\ handLate' = handLate /\ handErrors' = handErrors
  BY DEF Hand!Fetch
<1>3. handErrors' \in Nat
  BY <1>2, FetchFacts
<1>4. prefix \in Seq(HandKeys) /\ Hand!KeysOf(prefix) = Elements(prefix)
  BY PrefixesType, KeysAreElements
<1>5. PICK b \in BOOLEAN : b = (Hand!KeysOf(prefix) \subseteq handTier)
  OBVIOUS
<1>6. PICK x \in {"ok", "get"} : x = IF prefix = <<>> THEN "ok" ELSE "get"
  OBVIOUS
<1>7. d = [Hand!IdleFetch EXCEPT !.pc = x, !.prefix = prefix, !.complete = b]
  BY <1>5, <1>6, Zenon
<1>8. d = [pc |-> x, prefix |-> prefix, at |-> 1, blocks |-> <<>>, missed |-> 0, complete |-> b]
  <2>1. PICK d1 : d1 = [Hand!IdleFetch EXCEPT !.pc = x]
    OBVIOUS
  <2>2. PICK d2 : d2 = [d1 EXCEPT !.prefix = prefix]
    OBVIOUS
  <2>3. d = [d2 EXCEPT !.complete = b]
    BY <1>7, <2>1, <2>2, Zenon
  <2>4. d1 = [pc |-> x, prefix |-> <<>>, at |-> 1, blocks |-> <<>>, missed |-> 0, complete |-> FALSE]
    BY <2>1 DEF Hand!IdleFetch
  <2>5. d2 = [pc |-> x, prefix |-> prefix, at |-> 1, blocks |-> <<>>, missed |-> 0, complete |-> FALSE]
    BY <2>2, <2>4
  <2> HIDE DEF d
  <2>6. QED
    BY <2>3, <2>5
<1> HIDE DEF d
<1>9. d \in FetchCalls
  BY <1>4, <1>8 DEF FetchCalls
<1>10. FetchFits(d, handTier)
  <2>1. b = TRUE => Elements(prefix) \subseteq handTier
    BY <1>4, <1>5
  <2>2. Len(prefix) \in Nat /\ (prefix = <<>> <=> Len(prefix) = 0)
    BY <1>4
  <2>3. Through(prefix, 1, <<>>, 0, b, handTier)
    BY <2>2 DEF Through, Selected, Begins
  <2>4. QED
    BY <1>6, <1>8, <2>1, <2>2, <2>3 DEF FetchFits
<1>11. QED
  BY <1>1, <1>2, <1>3, <1>9, <1>10, FetchTurn

LEMMA GetFailsStep ==
    ASSUME HandInv, NEW f \in Decoders, Hand!GetFails(f)
    PROVE  HandInv'
<1>1. PICK c : c = handFetch[f]
  OBVIOUS
<1>2. c \in FetchCalls /\ FetchFits(c, handTier) /\ handErrors \in Nat
  BY <1>1, FetchFacts
<1>3. PICK d : d = [c EXCEPT !.pc = "error"]
  OBVIOUS
<1>4. /\ handFetch' = [handFetch EXCEPT ![f].pc = "error"]
      /\ handTier' = handTier /\ handPub' = handPub /\ handLate' = handLate /\ handErrors' = handErrors + 1
  BY DEF Hand!GetFails, Hand!Fails
<1>5. handFetch' = [handFetch EXCEPT ![f] = d]
  BY <1>1, <1>3, <1>4, Zenon
<1>6. d = [pc |-> "error", prefix |-> c.prefix, at |-> c.at, blocks |-> c.blocks,
           missed |-> c.missed, complete |-> c.complete]
  BY <1>2, <1>3, FetchWritten, Zenon
<1>7. d \in FetchCalls
  BY <1>2, <1>6 DEF FetchCalls
<1>8. FetchFits(d, handTier)
  BY <1>2, <1>6 DEF FetchFits
<1>9. handErrors' \in Nat
  BY <1>2, <1>4
<1>10. QED
  BY <1>4, <1>5, <1>7, <1>8, <1>9, FetchTurn

\* A place that was found is taken into the selection.
LEMMA SelectedMore ==
    ASSUME NEW K, NEW prefix \in Seq(K), NEW at \in 1..Len(prefix), NEW blocks \in Seq(K),
           NEW missed \in Nat, NEW complete, NEW T,
           Through(prefix, at, blocks, missed, complete, T)
    PROVE  Through(prefix, at + 1, Append(blocks, prefix[at]), missed, complete, T)
<1>1. PICK b : b = Append(blocks, prefix[at])
  OBVIOUS
<1>2. /\ b \in Seq(K) /\ Len(b) = Len(blocks) + 1 /\ b[Len(blocks) + 1] = prefix[at]
      /\ \A i \in 1..Len(blocks) : b[i] = blocks[i]
      /\ Len(blocks) \in Nat
  BY <1>1
<1>3. \A k \in 1..Len(b) : \E i \in 1..Len(prefix) : i < at + 1 /\ prefix[i] = b[k]
  <2> SUFFICES ASSUME NEW k \in 1..Len(b)
               PROVE  \E i \in 1..Len(prefix) : i < at + 1 /\ prefix[i] = b[k]
    OBVIOUS
  <2>1. CASE k = Len(blocks) + 1
    BY <1>2, <2>1
  <2>2. CASE k # Len(blocks) + 1
    <3>1. k \in 1..Len(blocks) /\ b[k] = blocks[k]
      BY <1>2, <2>2
    <3>2. PICK i \in 1..Len(prefix) : i < at /\ prefix[i] = blocks[k]
      BY <3>1 DEF Through, Selected
    <3>3. QED
      BY <3>1, <3>2
  <2>3. QED
    BY <2>1, <2>2
<1>4. ASSUME NEW k \in 1..Len(b), NEW l \in 1..Len(b), k < l
      PROVE  \E i, j \in 1..Len(prefix) : i < j /\ j < at + 1 /\ prefix[i] = b[k] /\ prefix[j] = b[l]
  <2>1. k \in 1..Len(blocks) /\ b[k] = blocks[k]
    BY <1>2, <1>4
  <2>2. CASE l = Len(blocks) + 1
    <3>1. PICK i \in 1..Len(prefix) : i < at /\ prefix[i] = blocks[k]
      BY <2>1 DEF Through, Selected
    <3>2. QED
      BY <1>2, <2>1, <2>2, <3>1
  <2>3. CASE l # Len(blocks) + 1
    <3>1. l \in 1..Len(blocks) /\ b[l] = blocks[l]
      BY <1>2, <2>3
    <3>2. PICK i \in 1..Len(prefix), j \in 1..Len(prefix) :
            i < j /\ j < at /\ prefix[i] = blocks[k] /\ prefix[j] = blocks[l]
      BY <1>4, <2>1, <3>1 DEF Through, Selected
    <3>3. QED
      BY <2>1, <3>1, <3>2
  <2>4. QED
    BY <2>2, <2>3
<1>5. Len(b) + missed = (at + 1) - 1
  BY <1>2 DEF Through
<1>6. complete = TRUE => missed = 0 /\ Begins(b, prefix)
  <2> SUFFICES ASSUME complete = TRUE PROVE missed = 0 /\ Begins(b, prefix)
    OBVIOUS
  <2>1. missed = 0 /\ Len(blocks) = at - 1 /\ \A i \in 1..Len(blocks) : blocks[i] = prefix[i]
    BY <1>2 DEF Through, Begins
  <2>2. QED
    BY <1>2, <2>1 DEF Begins
<1>7. Selected(b, prefix, at + 1)
  BY <1>3, <1>4 DEF Selected
<1>8. Through(prefix, at + 1, b, missed, complete, T)
  BY <1>5, <1>6, <1>7 DEF Through
<1>9. QED
  BY <1>1, <1>8

\* A place that was missed is counted.
LEMMA SelectedSame ==
    ASSUME NEW K, NEW prefix \in Seq(K), NEW at \in 1..Len(prefix), NEW blocks \in Seq(K),
           NEW missed \in Nat, NEW complete, NEW T, complete # TRUE,
           Through(prefix, at, blocks, missed, complete, T)
    PROVE  Through(prefix, at + 1, blocks, missed + 1, complete, T)
<1>1. Len(blocks) \in Nat
  OBVIOUS
<1>2. Len(blocks) + (missed + 1) = (at + 1) - 1
  BY <1>1 DEF Through
<1>3. Selected(blocks, prefix, at + 1)
  <2>1. \A k \in 1..Len(blocks) : \E i \in 1..Len(prefix) : i < at + 1 /\ prefix[i] = blocks[k]
    <3> SUFFICES ASSUME NEW k \in 1..Len(blocks)
                 PROVE  \E i \in 1..Len(prefix) : i < at + 1 /\ prefix[i] = blocks[k]
      OBVIOUS
    <3>1. PICK i \in 1..Len(prefix) : i < at /\ prefix[i] = blocks[k]
      BY DEF Through, Selected
    <3>2. QED
      BY <3>1
  <2>2. ASSUME NEW k \in 1..Len(blocks), NEW l \in 1..Len(blocks), k < l
        PROVE  \E i, j \in 1..Len(prefix) :
                 i < j /\ j < at + 1 /\ prefix[i] = blocks[k] /\ prefix[j] = blocks[l]
    <3>1. PICK i \in 1..Len(prefix), j \in 1..Len(prefix) :
            i < j /\ j < at /\ prefix[i] = blocks[k] /\ prefix[j] = blocks[l]
      BY <2>2 DEF Through, Selected
    <3>2. QED
      BY <3>1
  <2>3. QED
    BY <2>1, <2>2 DEF Selected
<1>4. QED
  BY <1>2, <1>3 DEF Through

LEMMA GetStep ==
    ASSUME HandInv, NEW f \in Decoders, Hand!Get(f)
    PROVE  HandInv'
<1>1. PICK c : c = handFetch[f]
  OBVIOUS
<1>2. c \in FetchCalls /\ FetchFits(c, handTier) /\ handErrors \in Nat
  BY <1>1, FetchFacts
<1>3. PICK k : k = c.prefix[c.at]
  OBVIOUS
<1>4. PICK b : b = IF k \in handTier THEN Append(c.blocks, k) ELSE c.blocks
  OBVIOUS
<1>5. PICK m : m = IF k \in handTier THEN c.missed ELSE c.missed + 1
  OBVIOUS
<1>6. PICK a : a = IF c.at = Len(c.prefix) THEN c.at ELSE c.at + 1
  OBVIOUS
<1>7. PICK x : x = IF c.at = Len(c.prefix) THEN "ok" ELSE "get"
  OBVIOUS
<1>8. /\ c.pc = "get"
      /\ handFetch' = [handFetch EXCEPT ![f].blocks = b, ![f].missed = m, ![f].at = a, ![f].pc = x]
      /\ handTier' = handTier /\ handPub' = handPub /\ handLate' = handLate /\ handErrors' = handErrors
  BY <1>1, <1>3, <1>4, <1>5, <1>6, <1>7, Zenon DEF Hand!Get
<1>9. PICK d1 : d1 = [c EXCEPT !.blocks = b]
  OBVIOUS
<1>10. PICK d2 : d2 = [d1 EXCEPT !.missed = m]
  OBVIOUS
<1>11. PICK d3 : d3 = [d2 EXCEPT !.at = a]
  OBVIOUS
<1>12. PICK d : d = [d3 EXCEPT !.pc = x]
  OBVIOUS
<1>13. f \in DOMAIN handFetch
  BY DEF HandInv
<1>14. handFetch' = [handFetch EXCEPT ![f] = d]
  BY <1>1, <1>8, <1>9, <1>10, <1>11, <1>12, <1>13, Zenon
<1>15. d1 = [pc |-> c.pc, prefix |-> c.prefix, at |-> c.at, blocks |-> b,
             missed |-> c.missed, complete |-> c.complete]
  BY <1>2, <1>9, FetchWritten, Zenon
<1>16. d2 = [pc |-> c.pc, prefix |-> c.prefix, at |-> c.at, blocks |-> b,
             missed |-> m, complete |-> c.complete]
  BY <1>10, <1>15
<1>17. d3 = [pc |-> c.pc, prefix |-> c.prefix, at |-> a, blocks |-> b,
             missed |-> m, complete |-> c.complete]
  BY <1>11, <1>16
<1>18. d = [pc |-> x, prefix |-> c.prefix, at |-> a, blocks |-> b,
            missed |-> m, complete |-> c.complete]
  BY <1>12, <1>17
<1>19. /\ c.prefix \in Seq(HandKeys) /\ c.at \in 1..Len(c.prefix) /\ c.blocks \in Seq(HandKeys)
       /\ c.missed \in Nat /\ c.complete \in BOOLEAN
       /\ Through(c.prefix, c.at, c.blocks, c.missed, c.complete, handTier)
       /\ c.complete = TRUE => Elements(c.prefix) \subseteq handTier
  BY <1>2, <1>8 DEF FetchCalls, FetchFits
<1>20. k \in HandKeys /\ k \in Elements(c.prefix)
  BY <1>3, <1>19 DEF Elements
<1>21. Through(c.prefix, c.at + 1, b, m, c.complete, handTier)
  <2>1. CASE k \in handTier
    BY <1>3, <1>4, <1>5, <1>19, <2>1, SelectedMore
  <2>2. CASE k \notin handTier
    <3>1. c.complete # TRUE
      BY <1>19, <1>20, <2>2
    <3>2. b = c.blocks /\ m = c.missed + 1
      BY <1>4, <1>5, <2>2
    <3>3. QED
      BY <1>19, <3>1, <3>2, SelectedSame
  <2>3. QED
    BY <2>1, <2>2
<1>22. b \in Seq(HandKeys) /\ m \in Nat
  BY <1>4, <1>5, <1>19, <1>20
<1>23. d \in FetchCalls
  BY <1>6, <1>7, <1>18, <1>19, <1>22 DEF FetchCalls
<1>24. FetchFits(d, handTier)
  <2>1. CASE c.at = Len(c.prefix)
    <3>1. x = "ok" /\ a = Len(c.prefix)
      BY <1>6, <1>7, <2>1
    <3>2. Through(c.prefix, Len(c.prefix) + 1, b, m, c.complete, handTier)
      BY <1>21, <2>1
    <3>3. QED
      BY <1>18, <1>19, <3>1, <3>2 DEF FetchFits
  <2>2. CASE c.at # Len(c.prefix)
    <3>1. x = "get" /\ a = c.at + 1
      BY <1>6, <1>7, <2>2
    <3>2. Through(c.prefix, a, b, m, c.complete, handTier) /\ a \in 1..Len(c.prefix)
      BY <1>19, <1>21, <2>2, <3>1
    <3>3. QED
      BY <1>18, <1>19, <3>1, <3>2 DEF FetchFits
  <2>3. QED
    BY <2>1, <2>2
<1>25. QED
  BY <1>2, <1>8, <1>14, <1>23, <1>24, FetchTurn

LEMMA HandStep == HandInv /\ [Hand!Next]_handVars => HandInv'
<1> SUFFICES ASSUME HandInv, [Hand!Next]_handVars PROVE HandInv'
  OBVIOUS
<1>1. CASE UNCHANGED handVars
  BY <1>1 DEF handVars, HandInv
<1>2. ASSUME NEW p \in Prefillers, NEW prefix \in Prefixes, Hand!Publish(p, prefix) PROVE HandInv'
  BY <1>2, PublishStep
<1>3. ASSUME NEW p \in Prefillers,
             \/ Hand!Put(p) \/ Hand!PutFails(p) \/ Hand!Published(p)
             \/ Hand!Undo(p) \/ Hand!UndoFails(p) \/ Hand!Undone(p)
      PROVE  HandInv'
  BY <1>3, PutStep, PutFailsStep, PublishedStep, UndoStep, UndoFailsStep, UndoneStep
<1>4. ASSUME NEW f \in Decoders, NEW prefix \in Prefixes, Hand!Fetch(f, prefix) PROVE HandInv'
  BY <1>4, FetchBegins
<1>5. ASSUME NEW f \in Decoders, Hand!Get(f) \/ Hand!GetFails(f) PROVE HandInv'
  BY <1>5, GetStep, GetFailsStep
<1>6. ASSUME NEW op \in {"put", "remove"}, NEW k \in Hand!Keys, Hand!Land(op, k) PROVE HandInv'
  BY <1>6, LandStep
<1>7. QED
  BY <1>1, <1>2, <1>3, <1>4, <1>5, <1>6 DEF Hand!Next

LEMMA HandTurn == MCNext => [Hand!Next]_handVars
BY DEF MCNext, Still

\* For any workers and any prefixes, although a call that reports an error may take effect
\* at any later time: a publish that failed, whose keys no other call touched and whose
\* rollback met no error, has left at most the block whose put failed and taken away
\* nothing else; one that succeeded keeps its blocks until another call touches their keys;
\* a fetch accounts for every key of its prefix.
THEOREM HandoffAlwaysSafe == MCSpec => []HandoffSafe
<1>1. MCInit => HandInv
  BY HandInit DEF MCInit
<1>2. HandInv /\ [MCNext]_mcVars => HandInv'
  <2>1. CASE UNCHANGED mcVars
    BY <2>1, HandStep DEF mcVars
  <2>2. CASE MCNext
    BY <2>2, HandTurn, HandStep
  <2>3. QED
    BY <2>1, <2>2
<1>3. QED
  BY <1>1, <1>2, HandSafety, PTL DEF MCSpec

-----------------------------------------------------------------------------
(* The event bus: a number belongs to the publish that drew it, no          *)
(* subscriber in its list has had it yet, and every subscriber registered   *)
(* since the publish began is in the list or has had it.                    *)

BusIds == Bus!Ids

BusCalls == [pc : {"idle", "copy", "deliver", "done"}, seq : Nat, to : SUBSET BusIds,
             since : SUBSET BusIds]

\* The numbers each subscriber has been called with.
CallsOf(r) == [s \in BusIds |-> {r[s][i] : i \in 1..Len(r[s])}]

\* The numbers of the publishes at one of the places `at`.
Carrying(P, at) == {P[q].seq : q \in {r \in Publishers : P[r].pc \in at}}

Distinct(P) == \A p, q \in Publishers :
    (p # q /\ P[p].pc # "idle" /\ P[q].pc # "idle") => P[p].seq # P[q].seq

\* The calls that panicked.
PanicsOf(r) == UNION {{s} \X (1..Len(r[s])) : s \in Faulty}

Handed(called) == UNION {called[s] : s \in BusIds}

\* One publish, where each subscriber was called with called[s], gone[s] is the last
\* number one that left may see, and n numbers have been drawn.
BusFits(c, called, gone, subs, n) ==
    /\ c.seq \in 0..n
    /\ c.pc # "idle" => c.seq # 0
    /\ c.pc = "copy" => c.since \subseteq subs /\ \A s \in BusIds : c.seq \notin called[s]
    /\ c.pc = "deliver" =>
         /\ \A s \in c.to : c.seq \notin called[s] /\ c.seq <= gone[s]
         /\ \A s \in c.since : s \in c.to \/ c.seq \in called[s]
    /\ c.pc = "done" => \A s \in c.since : c.seq \in called[s]

BusShape ==
    /\ busNextSubscriber \in 0..MaxIds
    /\ busSubscribers \subseteq 1..busNextSubscriber
    /\ busNextSequence \in 0..MaxEvents
    /\ busPub \in [Publishers -> BusCalls]
    /\ busReceived \in [BusIds -> Seq(Nat)]
    /\ busLeft \in [BusIds -> 0..(MaxEvents + 1)]

\* A subscriber that is registered, or not yet, has not left.
LeftFits(left, subs, next) ==
    \A s \in BusIds : (s \in subs \/ s > next) => left[s] = MaxEvents + 1

\* What was delivered to one subscriber.
CalledFits(called, n, len, last) ==
    /\ called \subseteq 1..n
    /\ IsFiniteSet(called) /\ Cardinality(called) = len
    /\ \A m \in called : m <= last

\* A number is with a publish under way, or it was delivered by one that was counted.
CountsFit(called, P, published, n) ==
    /\ published \in Nat
    /\ Cardinality(Handed(called) \ Carrying(P, {"deliver"})) <= published
    /\ published + Cardinality(Carrying(P, {"copy", "deliver"})) <= n

PanicsFit(failures, r) == IsFiniteSet(PanicsOf(r)) /\ failures = Cardinality(PanicsOf(r))

BusInv ==
    /\ BusShape
    /\ LeftFits(busLeft, busSubscribers, busNextSubscriber)
    /\ \A p \in Publishers :
         BusFits(busPub[p], CallsOf(busReceived), busLeft, busSubscribers, busNextSequence)
    /\ Distinct(busPub)
    /\ \A s \in BusIds :
         CalledFits(CallsOf(busReceived)[s], busNextSequence, Len(busReceived[s]), busLeft[s])
    /\ CountsFit(CallsOf(busReceived), busPub, busPublished, busNextSequence)
    /\ PanicsFit(busFailures, busReceived)

LEMMA BusBounds == MaxIds \in Nat /\ MaxEvents \in Nat /\ Faulty \subseteq BusIds /\ BusIds = 1..MaxIds
BY MCAssumption DEF Bus!BusAssumption, BusIds, Bus!Ids

LEMMA BusCardinality == ASSUME NEW S PROVE Bus!Cardinality(S) = Cardinality(S)
BY DEF Bus!Cardinality, Cardinality

LEMMA BusSafety == BusInv => EventBusSafe
<1> SUFFICES ASSUME BusInv PROVE Bus!Safety
  BY DEF EventBusSafe
<1>1. /\ BusShape /\ Distinct(busPub)
      /\ CountsFit(CallsOf(busReceived), busPub, busPublished, busNextSequence)
      /\ PanicsFit(busFailures, busReceived)
  BY DEF BusInv
<1>2. ASSUME NEW p \in Publishers
      PROVE  /\ busPub[p] \in BusCalls
             /\ BusFits(busPub[p], CallsOf(busReceived), busLeft, busSubscribers, busNextSequence)
  BY DEF BusInv, BusShape
<1>3. ASSUME NEW s \in BusIds
      PROVE  /\ CalledFits(CallsOf(busReceived)[s], busNextSequence, Len(busReceived[s]), busLeft[s])
             /\ Bus!Calls(s) = CallsOf(busReceived)[s]
  <2>1. busReceived[s] \in Seq(Nat)
    BY <1>1 DEF BusShape
  <2>2. DOMAIN busReceived[s] = 1..Len(busReceived[s])
    BY <2>1
  <2>3. Bus!Calls(s) = CallsOf(busReceived)[s]
    BY <2>2 DEF Bus!Calls, CallsOf
  <2>4. QED
    BY <2>3 DEF BusInv
<1>4. Bus!TypeOK
  <2>1. ASSUME NEW p \in Publishers
        PROVE  /\ busPub[p].pc \in {"idle", "copy", "deliver", "done"}
               /\ busPub[p].to \subseteq Bus!Ids /\ busPub[p].seq \in 0..busNextSequence
    BY <1>2 DEF BusCalls, BusFits, BusIds
  <2>2. busPublished \in 0..busNextSequence
    <3> DEFINE S == Carrying(busPub, {"copy", "deliver"})
    <3>1. S \subseteq 0..busNextSequence
      BY <1>2 DEF Carrying, BusFits
    <3>2. busNextSequence \in Nat
      BY <1>1, BusBounds DEF BusShape
    <3> HIDE DEF S
    <3>3. IsFiniteSet(S)
      <4>1. IsFiniteSet(0..busNextSequence)
        BY <3>2, FS_Interval
      <4>2. QED
        BY <3>1, <4>1, FS_Subset
    <3>4. Cardinality(S) \in Nat
      BY <3>3, FS_CardinalityType
    <3>5. busPublished \in Nat /\ busPublished + Cardinality(S) <= busNextSequence
      BY <1>1 DEF CountsFit, S
    <3>6. QED
      BY <3>2, <3>4, <3>5
  <2>3. QED
    BY <1>1, <2>1, <2>2 DEF Bus!TypeOK, BusShape
<1>5. Bus!CalledOnce
  <2>1. ASSUME NEW s \in BusIds PROVE Bus!Cardinality(Bus!Calls(s)) = Len(busReceived[s])
    BY <1>3, BusCardinality DEF CalledFits
  <2>2. QED
    BY <1>1, <2>1 DEF Bus!CalledOnce, Distinct, BusIds
<1>6. Bus!AllCalled
  <2> SUFFICES ASSUME NEW p \in Publishers, busPub[p].pc = "done", NEW s \in busPub[p].since
               PROVE  busPub[p].seq \in Bus!Calls(s)
    BY DEF Bus!AllCalled
  <2>1. s \in BusIds /\ busPub[p].seq \in CallsOf(busReceived)[s]
    BY <1>2 DEF BusFits, BusCalls
  <2>2. QED
    BY <1>3, <2>1
<1>7. Bus!NoneAfterLeaving
  BY <1>3 DEF Bus!NoneAfterLeaving, CalledFits, BusIds
<1>8. Bus!CountsSettle
  <2> SUFFICES ASSUME \A p \in Publishers : busPub[p].pc \in {"idle", "done"}
               PROVE  /\ busFailures = Bus!Cardinality(Bus!Panics)
                      /\ Bus!Cardinality(UNION {Bus!Calls(s) : s \in Bus!Ids}) <= busPublished
    BY DEF Bus!CountsSettle
  <2>1. busFailures = Bus!Cardinality(Bus!Panics)
    BY <1>1, BusCardinality DEF PanicsFit, PanicsOf, Bus!Panics
  <2>2. UNION {Bus!Calls(s) : s \in Bus!Ids} = Handed(CallsOf(busReceived))
    <3>1. {Bus!Calls(s) : s \in BusIds} = {CallsOf(busReceived)[s] : s \in BusIds}
      BY <1>3, Zenon
    <3>2. QED
      BY <3>1, Zenon DEF Handed, BusIds
  <2>3. Carrying(busPub, {"deliver"}) = {}
    BY DEF Carrying
  <2>4. Handed(CallsOf(busReceived)) \ Carrying(busPub, {"deliver"}) = Handed(CallsOf(busReceived))
    BY <2>3
  <2>5. Cardinality(Handed(CallsOf(busReceived))) <= busPublished
    BY <1>1, <2>4, Zenon DEF CountsFit
  <2>6. QED
    BY <2>1, <2>2, <2>5, BusCardinality, Zenon
<1>9. QED
  BY <1>4, <1>5, <1>6, <1>7, <1>8 DEF Bus!Safety

LEMMA BusInit == Bus!Init => BusInv
<1> SUFFICES ASSUME Bus!Init PROVE BusInv
  OBVIOUS
<1>1. /\ busSubscribers = {} /\ busNextSubscriber = 0 /\ busNextSequence = 0
      /\ busPublished = 0 /\ busFailures = 0
      /\ busPub = [p \in Publishers |-> Bus!Idle]
      /\ busReceived = [s \in BusIds |-> <<>>]
      /\ busLeft = [s \in BusIds |-> MaxEvents + 1]
  BY DEF Bus!Init, BusIds
<1>2. Bus!Idle = [pc |-> "idle", seq |-> 0, to |-> {}, since |-> {}]
  BY DEF Bus!Idle
<1>3. Bus!Idle \in BusCalls
  BY <1>2 DEF BusCalls
<1>4. BusShape
  BY <1>1, <1>3, BusBounds DEF BusShape
<1>5. LeftFits(busLeft, busSubscribers, busNextSubscriber)
  BY <1>1 DEF LeftFits
<1>6. ASSUME NEW s \in BusIds PROVE CallsOf(busReceived)[s] = {} /\ Len(busReceived[s]) = 0
  BY <1>1 DEF CallsOf
<1>7. ASSUME NEW p \in Publishers
      PROVE  BusFits(busPub[p], CallsOf(busReceived), busLeft, busSubscribers, busNextSequence)
  BY <1>1, <1>2 DEF BusFits
<1>8. Distinct(busPub)
  BY <1>1, <1>2 DEF Distinct
<1>9. ASSUME NEW s \in BusIds
      PROVE CalledFits(CallsOf(busReceived)[s], busNextSequence, Len(busReceived[s]), busLeft[s])
  BY <1>6, FS_EmptySet DEF CalledFits
<1>10. CountsFit(CallsOf(busReceived), busPub, busPublished, busNextSequence)
  <2>1. Handed(CallsOf(busReceived)) = {}
    BY <1>6 DEF Handed
  <2>2. ASSUME NEW q \in Publishers PROVE busPub[q].pc = "idle"
    BY <1>1, <1>2
  <2>3. Carrying(busPub, {"deliver"}) = {} /\ Carrying(busPub, {"copy", "deliver"}) = {}
    BY <2>2 DEF Carrying
  <2>4. Handed(CallsOf(busReceived)) \ Carrying(busPub, {"deliver"}) = {}
    BY <2>1
  <2>5. Cardinality({}) = 0
    BY FS_EmptySet
  <2>6. /\ Cardinality(Handed(CallsOf(busReceived)) \ Carrying(busPub, {"deliver"})) = 0
        /\ Cardinality(Carrying(busPub, {"copy", "deliver"})) = 0
    BY <2>3, <2>4, <2>5, Zenon
  <2>7. QED
    BY <1>1, <2>6 DEF CountsFit
<1>11. PanicsFit(busFailures, busReceived)
  <2>1. ASSUME NEW s \in Faulty PROVE {s} \X (1..Len(busReceived[s])) = {}
    BY <1>6, BusBounds
  <2>2. PanicsOf(busReceived) = {}
    BY <2>1 DEF PanicsOf
  <2>3. QED
    BY <1>1, <2>2, FS_EmptySet DEF PanicsFit
<1>12. QED
  BY <1>4, <1>5, <1>7, <1>8, <1>9, <1>10, <1>11 DEF BusInv

LEMMA BusWritten ==
    ASSUME NEW c \in BusCalls
    PROVE  /\ \A x : [c EXCEPT !.pc = x] = [pc |-> x, seq |-> c.seq, to |-> c.to, since |-> c.since]
           /\ \A x : [c EXCEPT !.to = x] = [pc |-> c.pc, seq |-> c.seq, to |-> x, since |-> c.since]
           /\ \A x : [c EXCEPT !.since = x] = [pc |-> c.pc, seq |-> c.seq, to |-> c.to, since |-> x]
<1>1. PICK A, B, C, D : BusCalls = [pc : A, seq : B, to : C, since : D]
  BY Zenon DEF BusCalls
<1>2. c \in [pc : A, seq : B, to : C, since : D]
  BY <1>1, Zenon
<1>3. QED
  BY <1>2

\* What the numbers under way become when one publish goes on.
LEMMA CarryCases ==
    ASSUME BusInv, NEW p \in Publishers, NEW c \in BusCalls, busPub' = [busPub EXCEPT ![p] = c],
           NEW at, "idle" \notin at, NEW n
    PROVE  n \in Carrying(busPub', at) <=>
             \/ n \in Carrying(busPub, at) /\ ~(busPub[p].pc \in at /\ n = busPub[p].seq)
             \/ c.pc \in at /\ n = c.seq
<1>1. busPub \in [Publishers -> BusCalls] /\ Distinct(busPub)
  BY DEF BusInv, BusShape
<1>2. busPub'[p] = c /\ \A q \in Publishers \ {p} : busPub'[q] = busPub[q]
  BY <1>1
<1>3. \A q \in Publishers \ {p} : (busPub[q].pc \in at /\ busPub[p].pc \in at) => busPub[q].seq # busPub[p].seq
  BY <1>1 DEF Distinct
<1>4. ASSUME n \in Carrying(busPub', at)
      PROVE  \/ n \in Carrying(busPub, at) /\ ~(busPub[p].pc \in at /\ n = busPub[p].seq)
             \/ c.pc \in at /\ n = c.seq
  <2>1. PICK q \in Publishers : busPub'[q].pc \in at /\ busPub'[q].seq = n
    BY <1>4 DEF Carrying
  <2>2. CASE q = p
    BY <1>2, <2>1, <2>2
  <2>3. CASE q # p
    <3>1. busPub[q].pc \in at /\ busPub[q].seq = n
      BY <1>2, <2>1, <2>3
    <3>2. n \in Carrying(busPub, at)
      BY <3>1 DEF Carrying
    <3>3. QED
      BY <1>3, <2>3, <3>1, <3>2
  <2>4. QED
    BY <2>2, <2>3
<1>5. ASSUME c.pc \in at, n = c.seq PROVE n \in Carrying(busPub', at)
  BY <1>2, <1>5 DEF Carrying
<1>6. ASSUME n \in Carrying(busPub, at), ~(busPub[p].pc \in at /\ n = busPub[p].seq)
      PROVE  n \in Carrying(busPub', at)
  <2>1. PICK q \in Publishers : busPub[q].pc \in at /\ busPub[q].seq = n
    BY <1>6 DEF Carrying
  <2>2. q # p
    BY <1>6, <2>1
  <2>3. busPub'[q].pc \in at /\ busPub'[q].seq = n
    BY <2>1, <2>2
  <2>4. QED
    BY <2>3 DEF Carrying
<1>7. QED
  BY <1>4, <1>5, <1>6

\* The ways a publish goes on: with its number or in another part of its life, with a new
\* number, and without.
LEMMA CarryKeeps ==
    ASSUME BusInv, NEW p \in Publishers, NEW c \in BusCalls, busPub' = [busPub EXCEPT ![p] = c],
           NEW at, "idle" \notin at,
           \/ busPub[p].pc \in at /\ c.pc \in at /\ c.seq = busPub[p].seq
           \/ busPub[p].pc \notin at /\ c.pc \notin at
    PROVE  Carrying(busPub', at) = Carrying(busPub, at)
<1>1. busPub[p].pc \in at => busPub[p].seq \in Carrying(busPub, at)
  BY DEF Carrying
<1>2. \A n : n \in Carrying(busPub', at) <=> n \in Carrying(busPub, at)
  BY <1>1, CarryCases
<1>3. QED
  BY <1>2

LEMMA CarryJoins ==
    ASSUME BusInv, NEW p \in Publishers, NEW c \in BusCalls, busPub' = [busPub EXCEPT ![p] = c],
           NEW at, "idle" \notin at,
           busPub[p].pc \notin at, c.pc \in at
    PROVE  Carrying(busPub', at) = Carrying(busPub, at) \cup {c.seq}
<1>1. \A n : n \in Carrying(busPub', at) <=> n \in Carrying(busPub, at) \/ n = c.seq
  BY CarryCases
<1>2. QED
  BY <1>1

LEMMA CarryLeaves ==
    ASSUME BusInv, NEW p \in Publishers, NEW c \in BusCalls, busPub' = [busPub EXCEPT ![p] = c],
           NEW at, "idle" \notin at,
           busPub[p].pc \in at, c.pc \notin at
    PROVE  /\ Carrying(busPub', at) = Carrying(busPub, at) \ {busPub[p].seq}
           /\ busPub[p].seq \in Carrying(busPub, at)
<1>1. \A n : n \in Carrying(busPub', at) <=> n \in Carrying(busPub, at) /\ n # busPub[p].seq
  BY CarryCases
<1>2. busPub[p].seq \in Carrying(busPub, at)
  BY DEF Carrying
<1>3. QED
  BY <1>1, <1>2

\* The numbers under way are finitely many.
LEMMA CarryFinite ==
    ASSUME BusInv, NEW at
    PROVE  /\ IsFiniteSet(Carrying(busPub, at)) /\ Cardinality(Carrying(busPub, at)) \in Nat
           /\ Carrying(busPub, at) \subseteq 0..busNextSequence
<1>1. busNextSequence \in Nat /\ \A p \in Publishers : busPub[p].seq \in 0..busNextSequence
  BY BusBounds DEF BusInv, BusShape, BusFits
<1>2. Carrying(busPub, at) \subseteq 0..busNextSequence
  BY <1>1 DEF Carrying
<1>3. IsFiniteSet(Carrying(busPub, at))
  <2>1. IsFiniteSet(0..busNextSequence)
    BY <1>1, FS_Interval
  <2>2. QED
    BY <1>2, <2>1, FS_Subset
<1>4. QED
  BY <1>2, <1>3, FS_CardinalityType

\* So are those that were delivered.
LEMMA HandedFinite ==
    ASSUME BusInv, NEW S
    PROVE  /\ Handed(CallsOf(busReceived)) \subseteq 0..busNextSequence
           /\ IsFiniteSet(Handed(CallsOf(busReceived)) \ S)
           /\ Cardinality(Handed(CallsOf(busReceived)) \ S) \in Nat
<1>1. busNextSequence \in Nat
  BY BusBounds DEF BusInv, BusShape
<1>2. ASSUME NEW s \in BusIds PROVE CallsOf(busReceived)[s] \subseteq 0..busNextSequence
  <2>1. CallsOf(busReceived)[s] \subseteq 1..busNextSequence
    BY DEF BusInv, CalledFits
  <2>2. QED
    BY <2>1
<1>3. Handed(CallsOf(busReceived)) \subseteq 0..busNextSequence
  BY <1>2 DEF Handed
<1>4. IsFiniteSet(Handed(CallsOf(busReceived)) \ S)
  <2>1. IsFiniteSet(0..busNextSequence)
    BY <1>1, FS_Interval
  <2>2. QED
    BY <1>3, <2>1, FS_Subset
<1>5. QED
  BY <1>3, <1>4, FS_CardinalityType

-----------------------------------------------------------------------------
\* A subscription: its id has never been in a list or been called.
LEMMA SubscribeStep ==
    ASSUME BusInv, Bus!Subscribe
    PROVE  BusInv'
<1>1. /\ busNextSubscriber < MaxIds /\ busNextSubscriber' = busNextSubscriber + 1
      /\ busSubscribers' = busSubscribers \cup {busNextSubscriber + 1}
      /\ busNextSequence' = busNextSequence /\ busPublished' = busPublished
      /\ busFailures' = busFailures /\ busPub' = busPub /\ busReceived' = busReceived
      /\ busLeft' = busLeft
  BY DEF Bus!Subscribe
<1>2. BusShape'
  BY <1>1, BusBounds DEF BusInv, BusShape
<1>3. LeftFits(busLeft, busSubscribers', busNextSubscriber')
  BY <1>1, BusBounds DEF BusInv, BusShape, LeftFits
<1>4. ASSUME NEW p \in Publishers
      PROVE  BusFits(busPub[p], CallsOf(busReceived), busLeft, busSubscribers', busNextSequence)
  <2>1. BusFits(busPub[p], CallsOf(busReceived), busLeft, busSubscribers, busNextSequence)
    BY DEF BusInv
  <2>2. QED
    BY <1>1, <2>1 DEF BusFits
<1>5. /\ Distinct(busPub)
      /\ \A s \in BusIds :
           CalledFits(CallsOf(busReceived)[s], busNextSequence, Len(busReceived[s]), busLeft[s])
      /\ CountsFit(CallsOf(busReceived), busPub, busPublished, busNextSequence)
      /\ PanicsFit(busFailures, busReceived)
  BY DEF BusInv
<1>6. QED
  BY <1>1, <1>2, <1>3, <1>4, <1>5 DEF BusInv

\* A subscriber leaves: every number drawn by now is one it may still be called with.
LEMMA UnsubscribeStep ==
    ASSUME BusInv, NEW s \in BusIds, Bus!Unsubscribe(s)
    PROVE  BusInv'
<1>1. /\ busSubscribers' = busSubscribers \ {s}
      /\ busLeft' = [busLeft EXCEPT ![s] = busNextSequence]
      /\ busPub' = [p \in Publishers |-> [busPub[p] EXCEPT !.since = @ \ {s}]]
      /\ busNextSubscriber' = busNextSubscriber /\ busNextSequence' = busNextSequence
      /\ busPublished' = busPublished /\ busFailures' = busFailures
      /\ busReceived' = busReceived /\ s \in busSubscribers
  BY DEF Bus!Unsubscribe
<1>2. ASSUME NEW p \in Publishers
      PROVE  busPub'[p] = [pc |-> busPub[p].pc, seq |-> busPub[p].seq, to |-> busPub[p].to,
                           since |-> busPub[p].since \ {s}]
  <2>1. PICK c : c = busPub[p]
    OBVIOUS
  <2>2. c \in BusCalls
    BY <2>1 DEF BusInv, BusShape
  <2>3. busPub'[p] = [c EXCEPT !.since = c.since \ {s}]
    BY <1>1, <2>1
  <2>4. PICK x : x = c.since \ {s}
    OBVIOUS
  <2>5. [c EXCEPT !.since = x] = [pc |-> c.pc, seq |-> c.seq, to |-> c.to, since |-> x]
    BY <2>2, BusWritten, Zenon
  <2>6. QED
    BY <2>1, <2>3, <2>4, <2>5, Zenon
<1>12. ASSUME NEW p \in Publishers
       PROVE  busPub'[p] \in BusCalls /\ busPub'[p].pc = busPub[p].pc /\ busPub'[p].seq = busPub[p].seq
  <2>1. PICK c : c = busPub[p]
    OBVIOUS
  <2>2. PICK d : d = busPub'[p]
    OBVIOUS
  <2>3. c \in BusCalls
    BY <2>1 DEF BusInv, BusShape
  <2>4. d = [pc |-> c.pc, seq |-> c.seq, to |-> c.to, since |-> c.since \ {s}]
    BY <1>2, <2>1, <2>2, Zenon
  <2>5. d \in BusCalls /\ d.pc = c.pc /\ d.seq = c.seq
    BY <2>3, <2>4 DEF BusCalls
  <2>6. QED
    BY <2>1, <2>2, <2>5
<1>3. BusShape'
  <2>1. ASSUME NEW p \in Publishers PROVE busPub'[p] \in BusCalls
    BY <1>12
  <2>2. busPub' \in [Publishers -> BusCalls]
    BY <1>1, <2>1
  <2>3. busNextSequence \in 0..(MaxEvents + 1)
    BY BusBounds DEF BusInv, BusShape
  <2>4. QED
    BY <1>1, <2>2, <2>3, BusBounds DEF BusInv, BusShape
<1>4. LeftFits(busLeft', busSubscribers', busNextSubscriber)
  <2>1. LeftFits(busLeft, busSubscribers, busNextSubscriber) /\ s <= busNextSubscriber
    BY <1>1, BusBounds DEF BusInv, BusShape
  <2>2. busNextSubscriber \in Nat /\ busLeft \in [BusIds -> 0..(MaxEvents + 1)]
    BY BusBounds DEF BusInv, BusShape
  <2>3. QED
    BY <1>1, <2>1, <2>2, BusBounds DEF LeftFits
<1>5. ASSUME NEW r \in BusIds, NEW n \in 0..busNextSequence, n <= busLeft[r]
      PROVE  n <= busLeft'[r]
  BY <1>1, <1>5, BusBounds DEF BusInv, BusShape
<1>6. ASSUME NEW p \in Publishers
      PROVE  BusFits(busPub'[p], CallsOf(busReceived), busLeft', busSubscribers', busNextSequence)
  <2>1. busPub[p] \in BusCalls
        /\ BusFits(busPub[p], CallsOf(busReceived), busLeft, busSubscribers, busNextSequence)
    BY DEF BusInv, BusShape
  <2>2. PICK c : c = busPub[p]
    OBVIOUS
  <2>3. PICK d : d = busPub'[p]
    OBVIOUS
  <2>4. d = [pc |-> c.pc, seq |-> c.seq, to |-> c.to, since |-> c.since \ {s}]
    BY <1>2, <2>2, <2>3, Zenon
  <2>5. c.to \subseteq BusIds /\ c.seq \in 0..busNextSequence
    BY <2>1, <2>2 DEF BusCalls, BusFits
  <2>6. BusFits(c, CallsOf(busReceived), busLeft, busSubscribers, busNextSequence)
    BY <2>1, <2>2
  <2>7. BusFits(d, CallsOf(busReceived), busLeft', busSubscribers', busNextSequence)
    BY <1>1, <1>5, <2>4, <2>5, <2>6 DEF BusFits
  <2>8. QED
    BY <2>3, <2>7
<1>7. Distinct(busPub')
  BY <1>12 DEF BusInv, Distinct
<1>8. ASSUME NEW r \in BusIds
      PROVE  CalledFits(CallsOf(busReceived)[r], busNextSequence, Len(busReceived[r]), busLeft'[r])
  <2>1. CalledFits(CallsOf(busReceived)[r], busNextSequence, Len(busReceived[r]), busLeft[r])
    BY DEF BusInv
  <2>2. busNextSequence \in Nat
    BY BusBounds DEF BusInv, BusShape
  <2>3. QED
    BY <1>5, <2>1, <2>2 DEF CalledFits
<1>9. CountsFit(CallsOf(busReceived), busPub', busPublished, busNextSequence)
  <2>1. ASSUME NEW at PROVE Carrying(busPub', at) = Carrying(busPub, at)
    <3>1. {q \in Publishers : busPub'[q].pc \in at} = {q \in Publishers : busPub[q].pc \in at}
      BY <1>12
    <3>2. QED
      BY <1>12, <3>1 DEF Carrying
  <2>2. CountsFit(CallsOf(busReceived), busPub, busPublished, busNextSequence)
    BY DEF BusInv
  <2>3. QED
    BY <2>1, <2>2 DEF CountsFit
<1>10. PanicsFit(busFailures, busReceived)
  BY DEF BusInv
<1>11. QED
  BY <1>1, <1>3, <1>4, <1>6, <1>7, <1>8, <1>9, <1>10 DEF BusInv

\* A step of one publish that calls nobody and draws no number.
LEMMA PubTurn ==
    ASSUME BusInv, NEW p \in Publishers, NEW c \in BusCalls,
           busPub' = [busPub EXCEPT ![p] = c],
           busSubscribers' = busSubscribers, busNextSubscriber' = busNextSubscriber,
           busNextSequence' = busNextSequence, busFailures' = busFailures,
           busReceived' = busReceived, busLeft' = busLeft,
           BusFits(c, CallsOf(busReceived), busLeft, busSubscribers, busNextSequence),
           c.pc # "idle" => busPub[p].pc # "idle" /\ c.seq = busPub[p].seq,
           CountsFit(CallsOf(busReceived), busPub', busPublished', busNextSequence)
    PROVE  BusInv'
<1>1. BusShape'
  BY DEF BusInv, BusShape
<1>2. ASSUME NEW q \in Publishers
      PROVE  BusFits(busPub'[q], CallsOf(busReceived), busLeft, busSubscribers, busNextSequence)
  <2>1. busPub'[q] = IF q = p THEN c ELSE busPub[q]
    BY DEF BusInv, BusShape
  <2>2. QED
    BY <2>1 DEF BusInv
<1>3. Distinct(busPub')
  <2>1. \A q \in Publishers : busPub'[q] = IF q = p THEN c ELSE busPub[q]
    BY DEF BusInv, BusShape
  <2>2. Distinct(busPub)
    BY DEF BusInv
  <2>3. QED
    BY <2>1, <2>2 DEF Distinct
<1>4. /\ LeftFits(busLeft, busSubscribers, busNextSubscriber)
      /\ \A s \in BusIds :
           CalledFits(CallsOf(busReceived)[s], busNextSequence, Len(busReceived[s]), busLeft[s])
      /\ PanicsFit(busFailures, busReceived)
  BY DEF BusInv
<1>5. QED
  BY <1>1, <1>2, <1>3, <1>4 DEF BusInv

\* What the invariant says of one publish and the counters.
LEMMA BusFacts ==
    ASSUME BusInv, NEW p \in Publishers
    PROVE  /\ busPub \in [Publishers -> BusCalls] /\ Distinct(busPub)
           /\ busPub[p] \in BusCalls
           /\ BusFits(busPub[p], CallsOf(busReceived), busLeft, busSubscribers, busNextSequence)
           /\ CountsFit(CallsOf(busReceived), busPub, busPublished, busNextSequence)
           /\ busNextSequence \in Nat /\ busPublished \in Nat
           /\ busSubscribers \subseteq BusIds
<1>1. /\ busPub \in [Publishers -> BusCalls] /\ Distinct(busPub)
      /\ CountsFit(CallsOf(busReceived), busPub, busPublished, busNextSequence)
      /\ BusFits(busPub[p], CallsOf(busReceived), busLeft, busSubscribers, busNextSequence)
  BY DEF BusInv, BusShape
<1>2. busNextSequence \in Nat /\ busSubscribers \subseteq BusIds
  BY BusBounds DEF BusInv, BusShape
<1>3. QED
  BY <1>1, <1>2 DEF CountsFit

\* A publish whose number stays where it is, or that comes from or goes to rest.
LEMMA CountsSame ==
    ASSUME BusInv, Carrying(busPub', {"deliver"}) = Carrying(busPub, {"deliver"}),
           Carrying(busPub', {"copy", "deliver"}) = Carrying(busPub, {"copy", "deliver"})
    PROVE  CountsFit(CallsOf(busReceived), busPub', busPublished, busNextSequence)
<1>1. CountsFit(CallsOf(busReceived), busPub, busPublished, busNextSequence)
  BY DEF BusInv
<1>2. QED
  BY <1>1, Zenon DEF CountsFit

LEMMA ClockFailsStep ==
    ASSUME BusInv, NEW p \in Publishers, Bus!ClockFails(p)
    PROVE  BusInv'
<1> DEFINE c == Bus!Idle
<1>1. /\ busPub[p].pc = "copy" /\ busPub' = [busPub EXCEPT ![p] = c]
      /\ busSubscribers' = busSubscribers /\ busNextSubscriber' = busNextSubscriber
      /\ busNextSequence' = busNextSequence /\ busFailures' = busFailures
      /\ busReceived' = busReceived /\ busLeft' = busLeft /\ busPublished' = busPublished
  BY DEF Bus!ClockFails
<1>2. c = [pc |-> "idle", seq |-> 0, to |-> {}, since |-> {}]
  BY DEF Bus!Idle
<1>3. c \in BusCalls
  BY <1>2 DEF BusCalls
<1> HIDE DEF c
<1>4. BusFits(c, CallsOf(busReceived), busLeft, busSubscribers, busNextSequence)
  BY <1>2, BusFacts DEF BusFits
<1>5. CountsFit(CallsOf(busReceived), busPub', busPublished, busNextSequence)
  <2>1. Carrying(busPub', {"deliver"}) = Carrying(busPub, {"deliver"})
    <3>1. /\ busPub[p].pc \notin {"deliver"} /\ c.pc \notin {"deliver"} /\ "idle" \notin {"deliver"}
          /\ busPub' = [busPub EXCEPT ![p] = c]
      BY <1>1, <1>2
    <3>2. QED
      BY <1>3, <3>1, CarryKeeps
  <2>2. Carrying(busPub', {"copy", "deliver"})
          = Carrying(busPub, {"copy", "deliver"}) \ {busPub[p].seq}
    <3>1. /\ busPub[p].pc \in {"copy", "deliver"} /\ c.pc \notin {"copy", "deliver"}
          /\ "idle" \notin {"copy", "deliver"} /\ busPub' = [busPub EXCEPT ![p] = c]
      BY <1>1, <1>2
    <3>2. QED
      BY <1>3, <3>1, CarryLeaves
  <2> DEFINE S == Carrying(busPub, {"copy", "deliver"})
  <2>3. /\ IsFiniteSet(S) /\ Cardinality(S) \in Nat
        /\ busPublished \in Nat /\ busNextSequence \in Nat
    BY CarryFinite, BusFacts
  <2>4. /\ Cardinality(Handed(CallsOf(busReceived)) \ Carrying(busPub, {"deliver"})) <= busPublished
        /\ busPublished + Cardinality(S) <= busNextSequence
    BY BusFacts DEF CountsFit
  <2> HIDE DEF S
  <2>5. IsFiniteSet(S \ {busPub[p].seq}) /\ Cardinality(S \ {busPub[p].seq}) \in Nat
        /\ Cardinality(S \ {busPub[p].seq}) <= Cardinality(S)
    BY <2>3, FS_Subset, FS_CardinalityType
  <2>6. busPublished + Cardinality(S \ {busPub[p].seq}) <= busNextSequence
    BY <2>3, <2>4, <2>5
  <2>7. QED
    BY <2>1, <2>2, <2>3, <2>4, <2>6, Zenon DEF CountsFit, S
<1>6. c.pc = "idle"
  BY <1>2
<1>7. QED
  BY <1>1, <1>3, <1>4, <1>5, <1>6, PubTurn

LEMMA AgainStep ==
    ASSUME BusInv, NEW p \in Publishers, Bus!Again(p)
    PROVE  BusInv'
<1> DEFINE c == Bus!Idle
<1>1. /\ busPub[p].pc = "done" /\ busPub' = [busPub EXCEPT ![p] = c]
      /\ busSubscribers' = busSubscribers /\ busNextSubscriber' = busNextSubscriber
      /\ busNextSequence' = busNextSequence /\ busFailures' = busFailures
      /\ busReceived' = busReceived /\ busLeft' = busLeft /\ busPublished' = busPublished
  BY DEF Bus!Again
<1>2. c = [pc |-> "idle", seq |-> 0, to |-> {}, since |-> {}]
  BY DEF Bus!Idle
<1>3. c \in BusCalls
  BY <1>2 DEF BusCalls
<1> HIDE DEF c
<1>4. BusFits(c, CallsOf(busReceived), busLeft, busSubscribers, busNextSequence)
  BY <1>2, BusFacts DEF BusFits
<1>5. CountsFit(CallsOf(busReceived), busPub', busPublished, busNextSequence)
  <2>1. /\ Carrying(busPub', {"deliver"}) = Carrying(busPub, {"deliver"})
        /\ Carrying(busPub', {"copy", "deliver"})
             = Carrying(busPub, {"copy", "deliver"})
    <3>1. /\ busPub[p].pc \notin {"deliver"} /\ c.pc \notin {"deliver"} /\ "idle" \notin {"deliver"}
          /\ busPub[p].pc \notin {"copy", "deliver"} /\ c.pc \notin {"copy", "deliver"}
          /\ "idle" \notin {"copy", "deliver"} /\ busPub' = [busPub EXCEPT ![p] = c]
      BY <1>1, <1>2
    <3>2. QED
      BY <1>3, <3>1, CarryKeeps
  <2>2. QED
    BY <2>1, CountsSame
<1>6. c.pc = "idle"
  BY <1>2
<1>7. QED
  BY <1>1, <1>3, <1>4, <1>5, <1>6, PubTurn

\* Everyone in the list is registered, so none of them has left.
LEMMA CopyStep ==
    ASSUME BusInv, NEW p \in Publishers, Bus!CopySubscribers(p)
    PROVE  BusInv'
<1>1. PICK c : c = busPub[p]
  OBVIOUS
<1>2. PICK d1 : d1 = [c EXCEPT !.pc = "deliver"]
  OBVIOUS
<1>3. PICK d : d = [d1 EXCEPT !.to = busSubscribers]
  OBVIOUS
<1>4. /\ c.pc = "copy"
      /\ busPub' = [busPub EXCEPT ![p].pc = "deliver", ![p].to = busSubscribers]
      /\ busSubscribers' = busSubscribers /\ busNextSubscriber' = busNextSubscriber
      /\ busNextSequence' = busNextSequence /\ busFailures' = busFailures
      /\ busReceived' = busReceived /\ busLeft' = busLeft /\ busPublished' = busPublished
  BY <1>1 DEF Bus!CopySubscribers
<1>5. p \in DOMAIN busPub
  BY DEF BusInv, BusShape
<1>6. busPub' = [busPub EXCEPT ![p] = d]
  BY <1>1, <1>2, <1>3, <1>4, <1>5, Zenon
<1>7. /\ c \in BusCalls /\ busSubscribers \subseteq BusIds
      /\ BusFits(c, CallsOf(busReceived), busLeft, busSubscribers, busNextSequence)
  BY <1>1, BusFacts
<1>8. d1 = [pc |-> "deliver", seq |-> c.seq, to |-> c.to, since |-> c.since]
  BY <1>2, <1>7, BusWritten, Zenon
<1>9. d = [pc |-> "deliver", seq |-> c.seq, to |-> busSubscribers, since |-> c.since]
  BY <1>3, <1>8
<1>10. d \in BusCalls
  BY <1>7, <1>9 DEF BusCalls
<1>11. BusFits(d, CallsOf(busReceived), busLeft, busSubscribers, busNextSequence)
  <2>1. \A s \in busSubscribers : busLeft[s] = MaxEvents + 1
    BY <1>7 DEF BusInv, LeftFits
  <2>2. c.seq <= MaxEvents + 1
    BY <1>7, BusBounds DEF BusFits, BusInv, BusShape
  <2>3. QED
    BY <1>4, <1>7, <1>9, <2>1, <2>2 DEF BusFits
<1>12. CountsFit(CallsOf(busReceived), busPub', busPublished, busNextSequence)
  <2>1. /\ Carrying(busPub', {"deliver"}) = Carrying(busPub, {"deliver"}) \cup {d.seq}
        /\ Carrying(busPub', {"copy", "deliver"})
             = Carrying(busPub, {"copy", "deliver"})
    <3>1. /\ busPub[p].pc \notin {"deliver"} /\ d.pc \in {"deliver"} /\ "idle" \notin {"deliver"}
          /\ busPub[p].pc \in {"copy", "deliver"} /\ d.pc \in {"copy", "deliver"}
          /\ "idle" \notin {"copy", "deliver"} /\ d.seq = busPub[p].seq
      BY <1>1, <1>4, <1>9
    <3>2. Carrying(busPub', {"deliver"}) = Carrying(busPub, {"deliver"}) \cup {d.seq}
      BY <1>6, <1>10, <3>1, CarryJoins
    <3>3. Carrying(busPub', {"copy", "deliver"}) = Carrying(busPub, {"copy", "deliver"})
      BY <1>6, <1>10, <3>1, CarryKeeps
    <3>4. QED
      BY <3>2, <3>3
  <2> DEFINE S == Handed(CallsOf(busReceived))
  <2> DEFINE A == Carrying(busPub, {"deliver"})
  <2>2. /\ Cardinality(S \ A) <= busPublished
        /\ busPublished + Cardinality(Carrying(busPub, {"copy", "deliver"})) <= busNextSequence
        /\ busPublished \in Nat
    BY BusFacts DEF CountsFit
  <2>3. IsFiniteSet(S \ A) /\ Cardinality(S \ A) \in Nat
    BY HandedFinite
  <2> HIDE DEF S, A
  <2>4. /\ S \ (A \cup {d.seq}) \subseteq S \ A
        /\ Cardinality(S \ (A \cup {d.seq})) <= Cardinality(S \ A)
        /\ Cardinality(S \ (A \cup {d.seq})) \in Nat
    BY <2>3, FS_Subset, FS_CardinalityType
  <2>5. Cardinality(S \ (A \cup {d.seq})) <= busPublished
    BY <2>2, <2>3, <2>4
  <2>6. QED
    BY <2>1, <2>2, <2>5, Zenon DEF CountsFit, S, A
<1>13. busPub[p].pc # "idle" /\ d.seq = busPub[p].seq
  BY <1>1, <1>4, <1>9
<1>14. QED
  BY <1>4, <1>6, <1>10, <1>11, <1>12, <1>13, PubTurn

\* Everyone registered since the publish began has been called.
LEMMA ReturnStep ==
    ASSUME BusInv, NEW p \in Publishers, Bus!Return(p)
    PROVE  BusInv'
<1> DEFINE d == [Bus!Idle EXCEPT !.pc = "done", !.seq = busPub[p].seq, !.since = busPub[p].since]
<1>1. PICK c : c = busPub[p]
  OBVIOUS
<1>2. /\ c.pc = "deliver" /\ c.to = {} /\ busPublished' = busPublished + 1
      /\ busPub' = [busPub EXCEPT ![p] = d]
      /\ busSubscribers' = busSubscribers /\ busNextSubscriber' = busNextSubscriber
      /\ busNextSequence' = busNextSequence /\ busFailures' = busFailures
      /\ busReceived' = busReceived /\ busLeft' = busLeft
  BY <1>1 DEF Bus!Return
<1>3. d = [pc |-> "done", seq |-> c.seq, to |-> {}, since |-> c.since]
  <2>1. PICK d1 : d1 = [Bus!Idle EXCEPT !.pc = "done"]
    OBVIOUS
  <2>2. PICK d2 : d2 = [d1 EXCEPT !.seq = c.seq]
    OBVIOUS
  <2>3. d = [d2 EXCEPT !.since = c.since]
    BY <1>1, <2>1, <2>2, Zenon
  <2>4. d1 = [pc |-> "done", seq |-> 0, to |-> {}, since |-> {}]
    BY <2>1 DEF Bus!Idle
  <2>5. d2 = [pc |-> "done", seq |-> c.seq, to |-> {}, since |-> {}]
    BY <2>2, <2>4
  <2> HIDE DEF d
  <2>6. QED
    BY <2>3, <2>5
<1> HIDE DEF d
<1>4. /\ c \in BusCalls
      /\ BusFits(c, CallsOf(busReceived), busLeft, busSubscribers, busNextSequence)
  BY <1>1, BusFacts
<1>5. d \in BusCalls
  BY <1>3, <1>4 DEF BusCalls
<1>6. BusFits(d, CallsOf(busReceived), busLeft, busSubscribers, busNextSequence)
  BY <1>2, <1>3, <1>4 DEF BusFits
<1>7. CountsFit(CallsOf(busReceived), busPub', busPublished', busNextSequence)
  <2> DEFINE S == Handed(CallsOf(busReceived))
  <2> DEFINE A == Carrying(busPub, {"deliver"})
  <2> DEFINE B == Carrying(busPub, {"copy", "deliver"})
  <2>1. /\ Carrying(busPub', {"deliver"}) = A \ {c.seq}
        /\ Carrying(busPub', {"copy", "deliver"}) = B \ {c.seq}
        /\ c.seq \in B
    <3>1. /\ busPub[p].pc \in {"deliver"} /\ d.pc \notin {"deliver"} /\ "idle" \notin {"deliver"}
          /\ busPub[p].pc \in {"copy", "deliver"} /\ d.pc \notin {"copy", "deliver"}
          /\ "idle" \notin {"copy", "deliver"} /\ c.seq = busPub[p].seq
      BY <1>1, <1>2, <1>3
    <3>2. QED
      BY <1>2, <1>5, <3>1, CarryLeaves
  <2>2. /\ Cardinality(S \ A) <= busPublished /\ busPublished + Cardinality(B) <= busNextSequence
        /\ busPublished \in Nat /\ busNextSequence \in Nat
    BY BusFacts DEF CountsFit
  <2>3. /\ IsFiniteSet(S \ A) /\ Cardinality(S \ A) \in Nat
        /\ IsFiniteSet(B) /\ Cardinality(B) \in Nat
    BY HandedFinite, CarryFinite
  <2> HIDE DEF S, A, B
  <2>4. Cardinality(S \ (A \ {c.seq})) <= busPublished + 1
    <3>1. /\ IsFiniteSet((S \ A) \cup {c.seq})
          /\ Cardinality((S \ A) \cup {c.seq}) \in {Cardinality(S \ A), Cardinality(S \ A) + 1}
      <4>1. PICK D : D = S \ A
        OBVIOUS
      <4>2. IsFiniteSet(D)
        BY <2>3, <4>1
      <4>3. QED
        BY <4>1, <4>2, FS_AddElement
    <3>2. S \ (A \ {c.seq}) \subseteq (S \ A) \cup {c.seq}
      OBVIOUS
    <3>3. /\ Cardinality(S \ (A \ {c.seq})) \in Nat
          /\ Cardinality(S \ (A \ {c.seq})) <= Cardinality((S \ A) \cup {c.seq})
      BY <3>1, <3>2, FS_Subset, FS_CardinalityType
    <3>4. QED
      BY <2>2, <2>3, <3>1, <3>3
  <2>5. Cardinality(B \ {c.seq}) = Cardinality(B) - 1
    BY <2>1, <2>3, FS_RemoveElement
  <2>6. busPublished + 1 \in Nat /\ (busPublished + 1) + Cardinality(B \ {c.seq}) <= busNextSequence
    BY <2>2, <2>3, <2>5
  <2>7. CountsFit(CallsOf(busReceived), busPub', busPublished + 1, busNextSequence)
    BY <2>1, <2>4, <2>6, Zenon DEF CountsFit, S
  <2>8. QED
    BY <1>2, <2>7
<1>8. busPub[p].pc # "idle" /\ d.seq = busPub[p].seq
  BY <1>1, <1>2, <1>3
<1>9. QED
  BY <1>2, <1>5, <1>6, <1>7, <1>8, PubTurn

\* A number nobody has had.
LEMMA DrawStep ==
    ASSUME BusInv, NEW p \in Publishers, Bus!DrawSequence(p)
    PROVE  BusInv'
<1> DEFINE n == busNextSequence + 1
<1> DEFINE d == [Bus!Idle EXCEPT !.pc = "copy", !.seq = n, !.since = busSubscribers]
<1>1. /\ busPub[p].pc = "idle" /\ busNextSequence < MaxEvents /\ busNextSequence' = n
      /\ busPub' = [busPub EXCEPT ![p] = d]
      /\ busSubscribers' = busSubscribers /\ busNextSubscriber' = busNextSubscriber
      /\ busPublished' = busPublished /\ busFailures' = busFailures
      /\ busReceived' = busReceived /\ busLeft' = busLeft
  BY DEF Bus!DrawSequence
<1>2. d = [pc |-> "copy", seq |-> n, to |-> {}, since |-> busSubscribers]
  <2>1. PICK d1 : d1 = [Bus!Idle EXCEPT !.pc = "copy"]
    OBVIOUS
  <2>2. PICK d2 : d2 = [d1 EXCEPT !.seq = n]
    OBVIOUS
  <2>3. d = [d2 EXCEPT !.since = busSubscribers]
    BY <2>1, <2>2, Zenon
  <2>4. d1 = [pc |-> "copy", seq |-> 0, to |-> {}, since |-> {}]
    BY <2>1 DEF Bus!Idle
  <2>5. d2 = [pc |-> "copy", seq |-> n, to |-> {}, since |-> {}]
    BY <2>2, <2>4
  <2> HIDE DEF d
  <2>6. QED
    BY <2>3, <2>5
<1> HIDE DEF d
<1>3. busNextSequence \in Nat /\ n \in 1..MaxEvents /\ busSubscribers \subseteq BusIds
  BY <1>1, BusFacts, BusBounds
<1>4. d \in BusCalls
  BY <1>2, <1>3 DEF BusCalls
<1>5. BusShape'
  BY <1>1, <1>3, <1>4, BusBounds DEF BusInv, BusShape
<1>6. ASSUME NEW s \in BusIds
      PROVE  /\ CalledFits(CallsOf(busReceived)[s], n, Len(busReceived[s]), busLeft[s])
             /\ n \notin CallsOf(busReceived)[s]
  <2>1. CalledFits(CallsOf(busReceived)[s], busNextSequence, Len(busReceived[s]), busLeft[s])
    BY DEF BusInv
  <2>2. QED
    BY <1>3, <2>1 DEF CalledFits
<1>7. ASSUME NEW q \in Publishers
      PROVE  /\ BusFits(busPub'[q], CallsOf(busReceived), busLeft, busSubscribers, n)
             /\ q # p => busPub'[q].seq # n
  <2>1. CASE q = p
    <3>1. busPub'[q] = d
      BY <1>1, <2>1, BusFacts
    <3>2. BusFits(d, CallsOf(busReceived), busLeft, busSubscribers, n)
      BY <1>2, <1>3, <1>6 DEF BusFits
    <3>3. QED
      BY <2>1, <3>1, <3>2
  <2>2. CASE q # p
    <3>1. busPub'[q] = busPub[q]
      BY <1>1, <2>2, BusFacts
    <3>2. BusFits(busPub[q], CallsOf(busReceived), busLeft, busSubscribers, busNextSequence)
      BY BusFacts
    <3>3. busPub[q].seq \in 0..n /\ busPub[q].seq # n
      BY <1>3, <3>2 DEF BusFits
    <3>4. BusFits(busPub[q], CallsOf(busReceived), busLeft, busSubscribers, n)
      BY <3>2, <3>3 DEF BusFits
    <3>5. QED
      BY <3>1, <3>3, <3>4
  <2>3. QED
    BY <2>1, <2>2
<1>8. Distinct(busPub')
  <2>1. busPub'[p].seq = n /\ \A q \in Publishers \ {p} : busPub'[q] = busPub[q]
    BY <1>1, <1>2, BusFacts
  <2>2. Distinct(busPub)
    BY BusFacts
  <2>3. QED
    BY <1>7, <2>1, <2>2 DEF Distinct
<1>9. CountsFit(CallsOf(busReceived), busPub', busPublished, n)
  <2> DEFINE B == Carrying(busPub, {"copy", "deliver"})
  <2>1. Carrying(busPub', {"deliver"}) = Carrying(busPub, {"deliver"})
    <3>1. busPub[p].pc \notin {"deliver"} /\ d.pc \notin {"deliver"} /\ "idle" \notin {"deliver"}
      BY <1>1, <1>2
    <3>2. QED
      BY <1>1, <1>4, <3>1, CarryKeeps
  <2>2. Carrying(busPub', {"copy", "deliver"}) = B \cup {n}
    <3>1. /\ busPub[p].pc \notin {"copy", "deliver"} /\ d.pc \in {"copy", "deliver"}
          /\ "idle" \notin {"copy", "deliver"} /\ d.seq = n
      BY <1>1, <1>2
    <3>2. QED
      BY <1>1, <1>4, <3>1, CarryJoins
  <2>3. IsFiniteSet(B) /\ Cardinality(B) \in Nat /\ B \subseteq 0..busNextSequence
    BY CarryFinite
  <2>4. /\ Cardinality(Handed(CallsOf(busReceived)) \ Carrying(busPub, {"deliver"})) <= busPublished
        /\ busPublished + Cardinality(B) <= busNextSequence /\ busPublished \in Nat
    BY BusFacts DEF CountsFit
  <2> HIDE DEF B
  <2>5. n \notin B
    BY <1>3, <2>3
  <2>6. Cardinality(B \cup {n}) = Cardinality(B) + 1
    BY <2>3, <2>5, FS_AddElement
  <2>7. busPublished + Cardinality(B \cup {n}) <= n
    BY <1>3, <2>3, <2>4, <2>6
  <2>8. QED
    BY <2>1, <2>2, <2>4, <2>7, Zenon DEF CountsFit
<1>10. LeftFits(busLeft, busSubscribers, busNextSubscriber) /\ PanicsFit(busFailures, busReceived)
  BY DEF BusInv
<1> HIDE DEF n
<1>11. QED
  BY <1>1, <1>5, <1>6, <1>7, <1>8, <1>9, <1>10 DEF BusInv

\* A call adds its number to what one subscriber has had.
LEMMA CallsGrow ==
    ASSUME busReceived \in [BusIds -> Seq(Nat)], NEW s \in BusIds, NEW n \in Nat,
           busReceived' = [busReceived EXCEPT ![s] = Append(busReceived[s], n)]
    PROVE  /\ busReceived' \in [BusIds -> Seq(Nat)]
           /\ Len(busReceived'[s]) = Len(busReceived[s]) + 1
           /\ CallsOf(busReceived')[s] = CallsOf(busReceived)[s] \cup {n}
           /\ \A t \in BusIds \ {s} : CallsOf(busReceived')[t] = CallsOf(busReceived)[t] /\ busReceived'[t] = busReceived[t]
           /\ Handed(CallsOf(busReceived')) = Handed(CallsOf(busReceived)) \cup {n}
<1>1. PICK x : x = Append(busReceived[s], n)
  OBVIOUS
<1>2. busReceived[s] \in Seq(Nat)
  OBVIOUS
<1>3. /\ x \in Seq(Nat) /\ Len(x) = Len(busReceived[s]) + 1 /\ x[Len(busReceived[s]) + 1] = n
      /\ \A i \in 1..Len(busReceived[s]) : x[i] = busReceived[s][i]
      /\ Len(busReceived[s]) \in Nat
  BY <1>1, <1>2
<1>4. busReceived'[s] = x /\ \A t \in BusIds \ {s} : busReceived'[t] = busReceived[t]
  BY <1>1
<1>5. busReceived' \in [BusIds -> Seq(Nat)]
  BY <1>1, <1>3
<1>6. {x[i] : i \in 1..Len(x)} = {busReceived[s][i] : i \in 1..Len(busReceived[s])} \cup {n}
  <2>1. ASSUME NEW i \in 1..Len(x)
        PROVE  x[i] \in {busReceived[s][j] : j \in 1..Len(busReceived[s])} \cup {n}
    <3>1. CASE i = Len(busReceived[s]) + 1
      BY <1>3, <3>1
    <3>2. CASE i # Len(busReceived[s]) + 1
      <4>1. i \in 1..Len(busReceived[s])
        BY <1>3, <3>2
      <4>2. QED
        BY <1>3, <4>1
    <3>3. QED
      BY <3>1, <3>2
  <2>2. ASSUME NEW j \in 1..Len(busReceived[s]) PROVE busReceived[s][j] \in {x[i] : i \in 1..Len(x)}
    BY <1>3
  <2>3. n \in {x[i] : i \in 1..Len(x)}
    <3>1. Len(busReceived[s]) + 1 \in 1..Len(x)
      BY <1>3
    <3>2. QED
      BY <1>3, <3>1
  <2>4. QED
    BY <2>1, <2>2, <2>3
<1>7. CallsOf(busReceived')[s] = CallsOf(busReceived)[s] \cup {n}
  BY <1>4, <1>6 DEF CallsOf
<1>8. \A t \in BusIds \ {s} : CallsOf(busReceived')[t] = CallsOf(busReceived)[t]
  BY <1>4 DEF CallsOf
<1>9. Handed(CallsOf(busReceived')) = Handed(CallsOf(busReceived)) \cup {n}
  BY <1>7, <1>8 DEF Handed
<1>10. QED
  BY <1>3, <1>4, <1>5, <1>7, <1>8, <1>9

\* A call of a faulty subscriber is one more panic.
LEMMA PanicsGrow ==
    ASSUME busReceived \in [BusIds -> Seq(Nat)], NEW s \in BusIds, NEW n \in Nat,
           busReceived' = [busReceived EXCEPT ![s] = Append(busReceived[s], n)]
    PROVE  /\ s \notin Faulty => PanicsOf(busReceived') = PanicsOf(busReceived)
           /\ s \in Faulty => /\ PanicsOf(busReceived') = PanicsOf(busReceived) \cup {<<s, Len(busReceived[s]) + 1>>}
                              /\ <<s, Len(busReceived[s]) + 1>> \notin PanicsOf(busReceived)
<1>1. /\ Len(busReceived'[s]) = Len(busReceived[s]) + 1 /\ \A t \in BusIds \ {s} : busReceived'[t] = busReceived[t]
      /\ Len(busReceived[s]) \in Nat /\ Faulty \subseteq BusIds
  BY CallsGrow, BusBounds
<1> DEFINE at(f, t) == {t} \X (1..Len(f[t]))
<1>2. \A t \in Faulty \ {s} : at(busReceived', t) = at(busReceived, t)
  BY <1>1
<1>3. at(busReceived', s) = at(busReceived, s) \cup {<<s, Len(busReceived[s]) + 1>>}
  <2>1. 1..Len(busReceived'[s]) = (1..Len(busReceived[s])) \cup {Len(busReceived[s]) + 1}
    BY <1>1
  <2>2. QED
    BY <2>1
<1>4. \A z : /\ z \in PanicsOf(busReceived') <=> \E t \in Faulty : z \in at(busReceived', t)
             /\ z \in PanicsOf(busReceived) <=> \E t \in Faulty : z \in at(busReceived, t)
  BY DEF PanicsOf
<1>5. \A t \in Faulty : <<s, Len(busReceived[s]) + 1>> \notin at(busReceived, t)
  BY <1>1
<1> HIDE DEF at
<1>6. ASSUME s \notin Faulty PROVE PanicsOf(busReceived') = PanicsOf(busReceived)
  <2>1. \A t \in Faulty : at(busReceived', t) = at(busReceived, t)
    BY <1>2, <1>6
  <2>2. \A z : z \in PanicsOf(busReceived') <=> z \in PanicsOf(busReceived)
    BY <1>4, <2>1
  <2>3. QED
    BY <2>2
<1>7. ASSUME s \in Faulty
      PROVE  /\ PanicsOf(busReceived') = PanicsOf(busReceived) \cup {<<s, Len(busReceived[s]) + 1>>}
             /\ <<s, Len(busReceived[s]) + 1>> \notin PanicsOf(busReceived)
  <2>1. PICK y : y = <<s, Len(busReceived[s]) + 1>>
    OBVIOUS
  <2>2. at(busReceived', s) = at(busReceived, s) \cup {y} /\ \A t \in Faulty : y \notin at(busReceived, t)
    BY <1>3, <1>5, <2>1, Zenon
  <2>3. \A z : z \in PanicsOf(busReceived') <=> z \in PanicsOf(busReceived) \/ z = y
    BY <1>2, <1>4, <1>7, <2>2
  <2>4. PanicsOf(busReceived') = PanicsOf(busReceived) \cup {y}
    BY <2>3
  <2>5. y \notin PanicsOf(busReceived)
    BY <1>4, <2>2
  <2>6. QED
    BY <2>1, <2>4, <2>5, Zenon
<1>8. QED
  BY <1>6, <1>7

\* Nobody is called twice with one number: the others under way have other numbers.
LEMMA DeliverStep ==
    ASSUME BusInv, NEW p \in Publishers, Bus!Deliver(p)
    PROVE  BusInv'
<1>1. PICK c : c = busPub[p]
  OBVIOUS
<1>2. PICK s \in c.to :
        /\ busReceived' = [busReceived EXCEPT ![s] = Append(busReceived[s], c.seq)]
        /\ busFailures' = IF s \in Faulty THEN busFailures + 1 ELSE busFailures
        /\ busPub' = [busPub EXCEPT ![p].to = busPub[p].to \ {s}]
  BY <1>1 DEF Bus!Deliver
<1>3. /\ c.pc = "deliver"
      /\ busSubscribers' = busSubscribers /\ busNextSubscriber' = busNextSubscriber
      /\ busNextSequence' = busNextSequence /\ busPublished' = busPublished /\ busLeft' = busLeft
  BY <1>1 DEF Bus!Deliver
<1>4. /\ c \in BusCalls /\ busPub \in [Publishers -> BusCalls] /\ Distinct(busPub)
      /\ BusFits(c, CallsOf(busReceived), busLeft, busSubscribers, busNextSequence)
      /\ CountsFit(CallsOf(busReceived), busPub, busPublished, busNextSequence)
      /\ busNextSequence \in Nat
  BY <1>1, BusFacts
<1>5. PICK d : d = [c EXCEPT !.to = c.to \ {s}]
  OBVIOUS
<1>6. busPub' = [busPub EXCEPT ![p] = d]
  BY <1>1, <1>2, <1>5, Zenon
<1>7. d = [pc |-> "deliver", seq |-> c.seq, to |-> c.to \ {s}, since |-> c.since]
  <2>1. PICK x : x = c.to \ {s}
    OBVIOUS
  <2>2. [c EXCEPT !.to = x] = [pc |-> c.pc, seq |-> c.seq, to |-> x, since |-> c.since]
    BY <1>4, BusWritten, Zenon
  <2>3. QED
    BY <1>3, <1>5, <2>1, <2>2, Zenon
<1>8. d \in BusCalls /\ s \in BusIds /\ c.seq \in Nat
  BY <1>4, <1>7 DEF BusCalls
<1>9. /\ c.seq \notin CallsOf(busReceived)[s] /\ c.seq <= busLeft[s] /\ c.seq \in 1..busNextSequence
  BY <1>3, <1>4 DEF BusFits
<1> DEFINE old == CallsOf(busReceived)
<1> DEFINE new == CallsOf(busReceived')
<1>10. /\ busReceived' \in [BusIds -> Seq(Nat)] /\ Len(busReceived'[s]) = Len(busReceived[s]) + 1
       /\ new[s] = old[s] \cup {c.seq}
       /\ \A t \in BusIds \ {s} : new[t] = old[t] /\ busReceived'[t] = busReceived[t]
       /\ Handed(new) = Handed(old) \cup {c.seq}
  <2>1. busReceived \in [BusIds -> Seq(Nat)]
    BY DEF BusInv, BusShape
  <2>2. QED
    BY <1>2, <1>8, <2>1, CallsGrow
<1> HIDE DEF old, new
<1>11. BusShape'
  <2>1. BusShape
    BY DEF BusInv
  <2>2. QED
    BY <1>3, <1>6, <1>8, <1>10, <2>1 DEF BusShape
<1>12. ASSUME NEW t \in BusIds
       PROVE  CalledFits(new[t], busNextSequence, Len(busReceived'[t]), busLeft[t])
  <2>1. CalledFits(old[t], busNextSequence, Len(busReceived[t]), busLeft[t])
    BY DEF BusInv, old
  <2>2. CASE t = s
    <3>1. /\ IsFiniteSet(old[s]) /\ Cardinality(old[s]) = Len(busReceived[s])
          /\ old[s] \subseteq 1..busNextSequence /\ \A m \in old[s] : m <= busLeft[s]
      BY <2>1, <2>2 DEF CalledFits
    <3>2. c.seq \notin old[s]
      BY <1>9 DEF old
    <3>3. /\ IsFiniteSet(old[s] \cup {c.seq})
          /\ Cardinality(old[s] \cup {c.seq}) = Cardinality(old[s]) + 1
      BY <3>1, <3>2, FS_AddElement
    <3>4. /\ IsFiniteSet(new[s])
          /\ Cardinality(new[s]) = Len(busReceived'[s])
      BY <1>10, <3>1, <3>3
    <3>5. QED
      BY <1>9, <1>10, <2>2, <3>1, <3>4 DEF CalledFits
  <2>3. CASE t # s
    BY <1>10, <2>1, <2>3
  <2>4. QED
    BY <2>2, <2>3
<1>13. ASSUME NEW q \in Publishers
       PROVE  BusFits(busPub'[q], new, busLeft, busSubscribers, busNextSequence)
  <2>1. CASE q = p
    <3>1. busPub'[q] = d
      BY <1>4, <1>6, <2>1
    <3>2. c.to \subseteq BusIds /\ c.since \subseteq BusIds
      BY <1>4 DEF BusCalls
    <3>3. BusFits(c, old, busLeft, busSubscribers, busNextSequence)
      BY <1>4 DEF old
    <3>4. \A t \in c.to \ {s} : c.seq \notin new[t] /\ c.seq <= busLeft[t]
      BY <1>3, <1>10, <3>2, <3>3 DEF BusFits
    <3>5. \A t \in c.since : t \in c.to \ {s} \/ c.seq \in new[t]
      BY <1>3, <1>10, <3>2, <3>3 DEF BusFits
    <3>6. BusFits(d, new, busLeft, busSubscribers, busNextSequence)
      BY <1>7, <1>9, <3>3, <3>4, <3>5 DEF BusFits
    <3>7. QED
      BY <3>1, <3>6
  <2>2. CASE q # p
    <3>1. PICK e : e = busPub[q]
      OBVIOUS
    <3>2. busPub'[q] = e /\ e \in BusCalls
      BY <1>4, <1>6, <2>2, <3>1
    <3>3. BusFits(e, old, busLeft, busSubscribers, busNextSequence)
      BY <3>1, BusFacts DEF old
    <3>4. e.pc # "idle" => e.seq # c.seq
      BY <1>1, <1>3, <1>4, <2>2, <3>1 DEF Distinct
    <3>5. e.to \subseteq BusIds /\ e.since \subseteq BusIds
      BY <3>2 DEF BusCalls
    <3>6. \A t \in BusIds :
            /\ e.seq \in old[t] => e.seq \in new[t]
            /\ (e.pc # "idle" /\ e.seq \notin old[t]) => e.seq \notin new[t]
      BY <1>10, <3>4
    <3>7. BusFits(e, new, busLeft, busSubscribers, busNextSequence)
      <4>1. e.seq \in 0..busNextSequence /\ (e.pc # "idle" => e.seq # 0)
        BY <3>3 DEF BusFits
      <4>2. e.pc = "copy" => e.since \subseteq busSubscribers /\ \A t \in BusIds : e.seq \notin new[t]
        BY <3>3, <3>6 DEF BusFits
      <4>3. ASSUME e.pc = "deliver", NEW t \in e.to PROVE e.seq \notin new[t] /\ e.seq <= busLeft[t]
        <5>1. t \in BusIds /\ e.seq \notin old[t] /\ e.seq <= busLeft[t]
          BY <3>3, <3>5, <4>3 DEF BusFits
        <5>2. QED
          BY <3>6, <4>3, <5>1
      <4>4. ASSUME e.pc \in {"deliver", "done"}, NEW t \in e.since
            PROVE  (e.pc = "deliver" /\ t \in e.to) \/ e.seq \in new[t]
        <5>1. t \in BusIds /\ ((e.pc = "deliver" /\ t \in e.to) \/ e.seq \in old[t])
          BY <3>3, <3>5, <4>4 DEF BusFits
        <5>2. QED
          BY <3>6, <5>1
      <4>5. QED
        BY <4>1, <4>2, <4>3, <4>4 DEF BusFits
    <3>8. QED
      BY <3>2, <3>7
  <2>3. QED
    BY <2>1, <2>2
<1>14. Distinct(busPub')
  <2>1. \A q \in Publishers : busPub'[q].pc = busPub[q].pc /\ busPub'[q].seq = busPub[q].seq
    BY <1>1, <1>3, <1>4, <1>6, <1>7
  <2>2. QED
    BY <1>4, <2>1 DEF Distinct
<1>15. CountsFit(new, busPub', busPublished, busNextSequence)
  <2>1. /\ Carrying(busPub', {"deliver"}) = Carrying(busPub, {"deliver"})
        /\ Carrying(busPub', {"copy", "deliver"}) = Carrying(busPub, {"copy", "deliver"})
    <3>1. /\ busPub[p].pc \in {"deliver"} /\ d.pc \in {"deliver"} /\ "idle" \notin {"deliver"}
          /\ busPub[p].pc \in {"copy", "deliver"} /\ d.pc \in {"copy", "deliver"}
          /\ "idle" \notin {"copy", "deliver"} /\ d.seq = busPub[p].seq
      BY <1>1, <1>3, <1>7
    <3>2. QED
      BY <1>6, <1>8, <3>1, CarryKeeps
  <2>2. c.seq \in Carrying(busPub, {"deliver"})
    BY <1>1, <1>3 DEF Carrying
  <2>3. Handed(new) \ Carrying(busPub, {"deliver"}) = Handed(old) \ Carrying(busPub, {"deliver"})
    BY <1>10, <2>2
  <2>4. CountsFit(old, busPub, busPublished, busNextSequence)
    BY <1>4 DEF old
  <2>5. QED
    BY <2>1, <2>3, <2>4, Zenon DEF CountsFit
<1>16. PanicsFit(busFailures', busReceived')
  <2>1. PanicsFit(busFailures, busReceived) /\ busReceived \in [BusIds -> Seq(Nat)]
    BY DEF BusInv, BusShape
  <2>2. /\ s \notin Faulty => PanicsOf(busReceived') = PanicsOf(busReceived)
        /\ s \in Faulty => /\ PanicsOf(busReceived') = PanicsOf(busReceived) \cup {<<s, Len(busReceived[s]) + 1>>}
                           /\ <<s, Len(busReceived[s]) + 1>> \notin PanicsOf(busReceived)
    BY <1>2, <1>8, <2>1, PanicsGrow
  <2>3. CASE s \notin Faulty
    BY <1>2, <2>1, <2>2, <2>3 DEF PanicsFit
  <2>4. CASE s \in Faulty
    <3>1. PICK z : z = <<s, Len(busReceived[s]) + 1>>
      OBVIOUS
    <3>2. PanicsOf(busReceived') = PanicsOf(busReceived) \cup {z} /\ z \notin PanicsOf(busReceived)
      BY <2>2, <2>4, <3>1
    <3>3. IsFiniteSet(PanicsOf(busReceived)) /\ busFailures = Cardinality(PanicsOf(busReceived))
      BY <2>1 DEF PanicsFit
    <3>4. /\ IsFiniteSet(PanicsOf(busReceived) \cup {z})
          /\ Cardinality(PanicsOf(busReceived) \cup {z}) = Cardinality(PanicsOf(busReceived)) + 1
      BY <3>2, <3>3, FS_AddElement
    <3>5. QED
      BY <1>2, <2>4, <3>2, <3>3, <3>4 DEF PanicsFit
  <2>5. QED
    BY <2>3, <2>4
<1>17. LeftFits(busLeft, busSubscribers, busNextSubscriber)
  BY DEF BusInv
<1>18. QED
  BY <1>3, <1>11, <1>12, <1>13, <1>14, <1>15, <1>16, <1>17 DEF BusInv, new

LEMMA BusStep == BusInv /\ [Bus!Next]_busVars => BusInv'
<1> SUFFICES ASSUME BusInv, [Bus!Next]_busVars PROVE BusInv'
  OBVIOUS
<1>1. CASE UNCHANGED busVars
  <2>1. /\ busSubscribers' = busSubscribers /\ busNextSubscriber' = busNextSubscriber
        /\ busNextSequence' = busNextSequence /\ busPublished' = busPublished
        /\ busFailures' = busFailures /\ busPub' = busPub /\ busReceived' = busReceived
        /\ busLeft' = busLeft
    BY <1>1 DEF busVars
  <2>2. QED
    BY <2>1 DEF BusInv, BusShape
<1>2. CASE Bus!Subscribe
  BY <1>2, SubscribeStep
<1>3. ASSUME NEW s \in BusIds, Bus!Unsubscribe(s) PROVE BusInv'
  BY <1>3, UnsubscribeStep
<1>4. ASSUME NEW p \in Publishers,
             \/ Bus!DrawSequence(p) \/ Bus!ClockFails(p) \/ Bus!CopySubscribers(p)
             \/ Bus!Deliver(p) \/ Bus!Return(p) \/ Bus!Again(p)
      PROVE  BusInv'
  BY <1>4, DrawStep, ClockFailsStep, CopyStep, DeliverStep, ReturnStep, AgainStep
<1>5. QED
  BY <1>1, <1>2, <1>3, <1>4 DEF Bus!Next, BusIds

LEMMA BusTurn == MCNext => [Bus!Next]_busVars
BY DEF MCNext, Still

\* Every event reaches, once, everyone who was registered throughout its publish, none that
\* had left before it, and is counted, for any publishers and any subscribers that panic.
THEOREM EventBusAlwaysSafe == MCSpec => []EventBusSafe
<1>1. MCInit => BusInv
  BY BusInit DEF MCInit
<1>2. BusInv /\ [MCNext]_mcVars => BusInv'
  <2>1. CASE UNCHANGED mcVars
    BY <2>1, BusStep DEF mcVars
  <2>2. CASE MCNext
    BY <2>2, BusTurn, BusStep
  <2>3. QED
    BY <2>1, <2>2
<1>3. QED
  BY <1>1, <1>2, BusSafety, PTL DEF MCSpec

-----------------------------------------------------------------------------
(* The TCP tier: as long as the client has not given up, what a handler has *)
(* written is the beginning of an answer, or one that was broken off before *)
(* its entry; and no put is on its way past a removal that stands alone.    *)

TcpConns == TcpCalls \cup {Waker}
NoEntry == Tcp!NoValue

\* The parts of a response.
OkPart == Tcp!Status("ok")
MissPart == Tcp!Status("miss")
ErrorPart == Tcp!Status("error")
MessagePart == Tcp!Part("message", "", 0)
MetaPart(v) == Tcp!Part("meta", v, 0)
HeadPart(v) == Tcp!Part("body", v, 1)
RestPart(v) == Tcp!Part("body", v, 2)

\* Two statuses differ, and each part is of its kind.
LEMMA PartsDiffer ==
    /\ OkPart # ErrorPart /\ MissPart # ErrorPart /\ MissPart # OkPart
    /\ ErrorPart[1] = "status" /\ OkPart[1] = "status"
    /\ \A v : /\ MetaPart(v)[1] = "meta" /\ MetaPart(v)[2] = v
              /\ HeadPart(v)[1] = "body" /\ RestPart(v)[1] = "body"
<1>1. /\ OkPart = <<"status", "ok", 0>> /\ MissPart = <<"status", "miss", 0>>
      /\ ErrorPart = <<"status", "error", 0>>
  BY DEF OkPart, MissPart, ErrorPart, Tcp!Status, Tcp!Part
<1>2. OkPart[2] = "ok" /\ MissPart[2] = "miss" /\ ErrorPart[2] = "error"
  BY <1>1
<1>3. OkPart # ErrorPart /\ MissPart # ErrorPart /\ MissPart # OkPart
  BY <1>2
<1>4. ErrorPart[1] = "status" /\ OkPart[1] = "status"
  BY <1>1
<1>5. ASSUME NEW v
      PROVE  /\ MetaPart(v)[1] = "meta" /\ MetaPart(v)[2] = v
             /\ HeadPart(v)[1] = "body" /\ RestPart(v)[1] = "body"
  BY DEF MetaPart, HeadPart, RestPart, Tcp!Part
<1>6. QED
  BY <1>3, <1>4, <1>5

LEMMA EntryIs ==
    ASSUME NEW v
    PROVE  /\ Tcp!EntryParts(v) = <<MetaPart(v), HeadPart(v), RestPart(v)>>
           /\ Tcp!EntryParts(v)[2] = HeadPart(v) /\ Tcp!EntryParts(v)[3] = RestPart(v)
BY DEF Tcp!EntryParts, MetaPart, HeadPart, RestPart

\* A sequence is known by its length and its elements.
LEMMA AppendIs ==
    ASSUME NEW S, NEW s \in Seq(S), NEW x \in S, NEW t \in Seq(S), Len(t) = Len(s) + 1,
           t[Len(s) + 1] = x, \A i \in 1..Len(s) : t[i] = s[i]
    PROVE  Append(s, x) = t
<1>1. PICK u : u = Append(s, x)
  OBVIOUS
<1>2. /\ u \in Seq(S) /\ Len(u) = Len(s) + 1 /\ u[Len(s) + 1] = x
      /\ \A i \in 1..Len(s) : u[i] = s[i]
  BY <1>1, AppendProperties
<1>3. \A i \in 1..Len(u) : u[i] = t[i]
  BY <1>2
<1>4. QED
  BY <1>1, <1>2, <1>3, SeqEqual

LEMMA ConcatIs ==
    ASSUME NEW S, NEW s \in Seq(S), NEW u \in Seq(S), NEW t \in Seq(S), Len(t) = Len(s) + Len(u),
           \A i \in 1..Len(t) : t[i] = IF i <= Len(s) THEN s[i] ELSE u[i - Len(s)]
    PROVE  s \o u = t
<1>1. PICK v : v = s \o u
  OBVIOUS
<1>2. /\ v \in Seq(S) /\ Len(v) = Len(s) + Len(u)
      /\ \A i \in 1..(Len(s) + Len(u)) : v[i] = IF i <= Len(s) THEN s[i] ELSE u[i - Len(s)]
  BY <1>1, ConcatProperties
<1>3. \A i \in 1..Len(v) : v[i] = t[i]
  BY <1>2
<1>4. QED
  BY <1>1, <1>2, <1>3, SeqEqual

\* Short sequences.
LEMMA ShortSequences ==
    /\ \A a : Append(<<>>, a) = <<a>>
    /\ \A a, b : Append(<<a>>, b) = <<a, b>>
    /\ \A a, b, c : Append(<<a, b>>, c) = <<a, b, c>>
    /\ \A a, b, c, d : Append(<<a, b, c>>, d) = <<a, b, c, d>>
    /\ \A a : Tail(<<a>>) = <<>>
    /\ \A a, b : Tail(<<a, b>>) = <<b>>
    /\ \A a, b, c : Tail(<<a, b, c>>) = <<b, c>>
    /\ \A a, b, c, d : Tail(<<a, b, c, d>>) = <<b, c, d>>
    /\ \A a, b, c, d, e : Tail(<<a, b, c, d, e>>) = <<b, c, d, e>>
    /\ \A a, b : <<>> \o <<a, b>> = <<a, b>>
    /\ \A a, b, c : <<a>> \o <<b, c>> = <<a, b, c>>
    /\ \A a, b, c, d : <<a>> \o <<b, c, d>> = <<a, b, c, d>>
    /\ \A a, b, c, d : <<a, b>> \o <<c, d>> = <<a, b, c, d>>
    /\ \A a, b, c, d, e : <<a, b, c>> \o <<d, e>> = <<a, b, c, d, e>>
<1>1. ASSUME NEW a PROVE Append(<<>>, a) = <<a>>
  <2> DEFINE S == {a}
  <2>1. /\ <<>> \in Seq(S) /\ <<a>> \in Seq(S) /\ a \in S /\ Len(<<a>>) = Len(<<>>) + 1
        /\ <<a>>[Len(<<>>) + 1] = a /\ \A i \in 1..Len(<<>>) : <<a>>[i] = <<>>[i]
    OBVIOUS
  <2> HIDE DEF S
  <2>2. QED
    BY <2>1, AppendIs
<1>2. ASSUME NEW a, NEW b PROVE Append(<<a>>, b) = <<a, b>>
  <2> DEFINE S == {a, b}
  <2>1. /\ <<a>> \in Seq(S) /\ <<a, b>> \in Seq(S) /\ b \in S /\ Len(<<a, b>>) = Len(<<a>>) + 1
        /\ <<a, b>>[Len(<<a>>) + 1] = b /\ \A i \in 1..Len(<<a>>) : <<a, b>>[i] = <<a>>[i]
    OBVIOUS
  <2> HIDE DEF S
  <2>2. QED
    BY <2>1, AppendIs
<1>3. ASSUME NEW a, NEW b, NEW c PROVE Append(<<a, b>>, c) = <<a, b, c>>
  <2> DEFINE S == {a, b, c}
  <2>1. /\ <<a, b>> \in Seq(S) /\ <<a, b, c>> \in Seq(S) /\ c \in S
        /\ Len(<<a, b, c>>) = Len(<<a, b>>) + 1 /\ <<a, b, c>>[Len(<<a, b>>) + 1] = c
        /\ \A i \in 1..Len(<<a, b>>) : <<a, b, c>>[i] = <<a, b>>[i]
    OBVIOUS
  <2> HIDE DEF S
  <2>2. QED
    BY <2>1, AppendIs
<1>4. ASSUME NEW a, NEW b, NEW c, NEW d PROVE Append(<<a, b, c>>, d) = <<a, b, c, d>>
  <2> DEFINE S == {a, b, c, d}
  <2>1. /\ <<a, b, c>> \in Seq(S) /\ <<a, b, c, d>> \in Seq(S) /\ d \in S
        /\ Len(<<a, b, c, d>>) = Len(<<a, b, c>>) + 1 /\ <<a, b, c, d>>[Len(<<a, b, c>>) + 1] = d
        /\ \A i \in 1..Len(<<a, b, c>>) : <<a, b, c, d>>[i] = <<a, b, c>>[i]
    OBVIOUS
  <2> HIDE DEF S
  <2>2. QED
    BY <2>1, AppendIs
<1>5. ASSUME NEW a PROVE Tail(<<a>>) = <<>>
  OBVIOUS
<1>6. ASSUME NEW a, NEW b PROVE Tail(<<a, b>>) = <<b>>
  OBVIOUS
<1>7. ASSUME NEW a, NEW b, NEW c PROVE Tail(<<a, b, c>>) = <<b, c>>
  OBVIOUS
<1>8. ASSUME NEW a, NEW b, NEW c, NEW d PROVE Tail(<<a, b, c, d>>) = <<b, c, d>>
  OBVIOUS
<1>9. ASSUME NEW a, NEW b PROVE <<>> \o <<a, b>> = <<a, b>>
  <2> DEFINE S == {a, b}
  <2>1. <<a, b>> \in Seq(S)
    OBVIOUS
  <2> HIDE DEF S
  <2>2. QED
    BY <2>1, ConcatEmptySeq
<1>10. ASSUME NEW a, NEW b, NEW c PROVE <<a>> \o <<b, c>> = <<a, b, c>>
  <2> DEFINE S == {a, b, c}
  <2>1. /\ <<a>> \in Seq(S) /\ <<b, c>> \in Seq(S) /\ <<a, b, c>> \in Seq(S)
        /\ Len(<<a, b, c>>) = Len(<<a>>) + Len(<<b, c>>)
        /\ \A i \in 1..Len(<<a, b, c>>) :
             <<a, b, c>>[i] = IF i <= Len(<<a>>) THEN <<a>>[i] ELSE <<b, c>>[i - Len(<<a>>)]
    OBVIOUS
  <2> HIDE DEF S
  <2>2. QED
    BY <2>1, ConcatIs
<1>11. ASSUME NEW a, NEW b, NEW c, NEW d PROVE <<a>> \o <<b, c, d>> = <<a, b, c, d>>
  <2> DEFINE S == {a, b, c, d}
  <2>1. /\ <<a>> \in Seq(S) /\ <<b, c, d>> \in Seq(S) /\ <<a, b, c, d>> \in Seq(S)
        /\ Len(<<a, b, c, d>>) = Len(<<a>>) + Len(<<b, c, d>>)
        /\ \A i \in 1..Len(<<a, b, c, d>>) :
             <<a, b, c, d>>[i] = IF i <= Len(<<a>>) THEN <<a>>[i] ELSE <<b, c, d>>[i - Len(<<a>>)]
    OBVIOUS
  <2> HIDE DEF S
  <2>2. QED
    BY <2>1, ConcatIs
<1>12. ASSUME NEW a, NEW b, NEW c, NEW d PROVE <<a, b>> \o <<c, d>> = <<a, b, c, d>>
  <2> DEFINE S == {a, b, c, d}
  <2>1. /\ <<a, b>> \in Seq(S) /\ <<c, d>> \in Seq(S) /\ <<a, b, c, d>> \in Seq(S)
        /\ Len(<<a, b, c, d>>) = Len(<<a, b>>) + Len(<<c, d>>)
        /\ \A i \in 1..Len(<<a, b, c, d>>) :
             <<a, b, c, d>>[i] = IF i <= Len(<<a, b>>) THEN <<a, b>>[i] ELSE <<c, d>>[i - Len(<<a, b>>)]
    OBVIOUS
  <2> HIDE DEF S
  <2>2. QED
    BY <2>1, ConcatIs
<1>13. ASSUME NEW a, NEW b, NEW c, NEW d, NEW e PROVE <<a, b, c>> \o <<d, e>> = <<a, b, c, d, e>>
  <2> DEFINE S == {a, b, c, d, e}
  <2>1. /\ <<a, b, c>> \in Seq(S) /\ <<d, e>> \in Seq(S) /\ <<a, b, c, d, e>> \in Seq(S)
        /\ Len(<<a, b, c, d, e>>) = Len(<<a, b, c>>) + Len(<<d, e>>)
        /\ \A i \in 1..Len(<<a, b, c, d, e>>) :
             <<a, b, c, d, e>>[i] = IF i <= Len(<<a, b, c>>) THEN <<a, b, c>>[i] ELSE <<d, e>>[i - Len(<<a, b, c>>)]
    OBVIOUS
  <2> HIDE DEF S
  <2>2. QED
    BY <2>1, ConcatIs
<1>14. ASSUME NEW a, NEW b, NEW c, NEW d, NEW e PROVE Tail(<<a, b, c, d, e>>) = <<b, c, d, e>>
  OBVIOUS
<1>15. QED
  BY <1>1, <1>2, <1>3, <1>4, <1>5, <1>6, <1>7, <1>8, <1>9, <1>10, <1>11, <1>12, <1>13, <1>14

LEMMA ShortLengths ==
    /\ Len(<<>>) # 4 /\ Len(<<>>) # 5 /\ Len(<<>>) # 1
    /\ \A a : Len(<<a>>) # 4 /\ Len(<<a>>) # 5 /\ <<a>>[1] = a
    /\ \A a, b : Len(<<a, b>>) # 4 /\ Len(<<a, b>>) # 5 /\ Len(<<a, b>>) # 1
    /\ \A a, b, c : Len(<<a, b, c>>) # 4 /\ Len(<<a, b, c>>) # 5 /\ Len(<<a, b, c>>) # 1
    /\ \A a, b, c, d : Len(<<a, b, c, d>>) # 5 /\ <<a, b, c, d>>[3] = c
OBVIOUS

Conn(cl, op, val, sent, srv, out, resp, got, applied, saw, alone) ==
    [cl |-> cl, op |-> op, val |-> val, sent |-> sent, srv |-> srv, out |-> out, resp |-> resp,
     got |-> got, applied |-> applied, saw |-> saw, alone |-> alone]

IsConn(r) ==
    r = Conn(r.cl, r.op, r.val, r.sent, r.srv, r.out, r.resp, r.got, r.applied, r.saw, r.alone)

TcpEntries == TcpValues \cup {NoEntry}

\* resp is written and out is still to write, of an entry with the parts a, b, c, d.
InEntry(a, b, c, d, resp, out) ==
    \/ resp = <<>> /\ out = <<a, b, c, d>>
    \/ resp = <<a>> /\ out = <<b, c, d>>
    \/ resp = <<a, b>> /\ out = <<c, d>>
    \/ resp = <<a, b, c>> /\ out = <<d>>
    \/ resp = <<a, b, c, d>> /\ out = <<>>

\* The handler has the answer to op in hand, which saw the entry `saw`.
Answering(op, saw, resp, out) ==
    \/ op # "get" /\ \/ resp = <<>> /\ out = <<OkPart>>
                     \/ resp = <<OkPart>> /\ out = <<>>
    \/ op = "get" /\ saw = NoEntry /\ \/ resp = <<>> /\ out = <<MissPart>>
                                      \/ resp = <<MissPart>> /\ out = <<>>
    \/ /\ op = "get" /\ saw \in TcpValues
       /\ InEntry(OkPart, MetaPart(saw), HeadPart(saw), RestPart(saw), resp, out)

\* It broke off.
Broken(op, saw, resp) ==
    \/ resp = <<>>
    \/ /\ op = "get" /\ saw \in TcpValues
       /\ \/ resp = <<OkPart>>
          \/ resp = <<OkPart, MetaPart(saw)>>
          \/ resp = <<OkPart, MetaPart(saw), HeadPart(saw)>>

\* It broke off inside the payload, and an error response follows.
CutShort(op, saw, resp) ==
    /\ op = "get" /\ saw \in TcpValues
    /\ \/ resp = <<OkPart, MetaPart(saw), ErrorPart, MessagePart>>
       \/ resp = <<OkPart, MetaPart(saw), HeadPart(saw), ErrorPart, MessagePart>>

\* The answer to a get, from end to end.
Whole(saw, resp) ==
    \/ saw = NoEntry /\ resp = <<MissPart>>
    \/ saw \in TcpValues /\ resp = <<OkPart, MetaPart(saw), HeadPart(saw), RestPart(saw)>>

\* What a client that waits may find: an answer, the beginning of one, or an error.
Said(op, saw, resp) ==
    \/ resp = <<>>
    \/ resp = <<ErrorPart, MessagePart>>
    \/ op # "get" /\ resp = <<OkPart>>
    \/ op = "get" /\ saw = NoEntry /\ resp = <<MissPart>>
    \/ /\ op = "get" /\ saw \in TcpValues
       /\ \/ resp = <<OkPart>>
          \/ resp = <<OkPart, MetaPart(saw)>>
          \/ resp = <<OkPart, MetaPart(saw), HeadPart(saw)>>
          \/ resp = <<OkPart, MetaPart(saw), HeadPart(saw), RestPart(saw)>>
          \/ resp = <<OkPart, ErrorPart, MessagePart>>

\* A request that never came to the tier.
Untold(applied, resp) ==
    applied = 0 /\ (resp = <<>> \/ resp = <<ErrorPart>> \/ resp = <<ErrorPart, MessagePart>>)

Early == {"none", "queued", "read", "apply"}
Active == {"read", "apply", "reply", "fail"}

ConnFits(r) ==
    /\ IsConn(r)
    /\ r.cl \in {"idle", "connected", "waiting", "ok", "error"}
    /\ r.srv \in {"none", "queued", "read", "apply", "reply", "fail", "closed"}
    /\ r.got \in TcpEntries \cup {"torn"} /\ r.saw \in TcpEntries /\ r.applied \in {0, 1}
    /\ r.op = "put" => r.val \in TcpValues
    /\ r.cl = "idle" => r.srv = "none"
    /\ r.cl = "ok" => r.applied = 1
    /\ (r.cl = "ok" /\ r.op = "get") =>
         \/ r.got = r.saw /\ Whole(r.saw, r.resp)
         \/ r.got = "torn" /\ CutShort(r.op, r.saw, r.resp) /\ r.srv = "closed"
    /\ r.srv \in Early => r.applied = 0 /\ r.resp = <<>>
    /\ r.srv = "reply" => r.applied = 1
    /\ r.cl # "error" =>
         /\ r.srv = "reply" => Answering(r.op, r.saw, r.resp, r.out)
         /\ r.srv = "fail" => \/ r.applied = 0 /\ r.resp = <<>>
                              \/ r.applied = 1 /\ Broken(r.op, r.saw, r.resp)
         /\ r.srv = "closed" => \/ Untold(r.applied, r.resp)
                                \/ r.applied = 1 /\ Said(r.op, r.saw, r.resp)
                                \/ r.applied = 1 /\ CutShort(r.op, r.saw, r.resp)

\* A put that may still reach the tier.
Pending(r) == r.op = "put" /\ r.srv \in {"queued", "read", "apply"}

\* A removal that no put has joined: none is pending, and what it did still stands.
LonelyFits(P, T) ==
    \A c \in TcpCalls : (P[c].op = "remove" /\ P[c].alone = TRUE) =>
        /\ \A e \in TcpCalls : ~Pending(P[e])
        /\ P[c].applied = 1 => T = NoEntry

HandlersOf(P) == {c \in TcpConns : P[c].srv \in Active}

InflightFits(P, n) ==
    IsFiniteSet(HandlersOf(P)) /\ n = Cardinality(HandlersOf(P)) /\ n <= MaxInflight

TcpInv ==
    /\ tcpConns = [c \in TcpConns |-> tcpConns[c]]
    /\ tcpTier \in TcpEntries /\ tcpShutdown \in BOOLEAN
    /\ tcpAcceptor \in {"check", "accept", "ended"}
    /\ \A c \in TcpConns : ConnFits(tcpConns[c])
    /\ tcpConns[Waker].op = "ping" /\ (tcpShutdown = FALSE => tcpConns[Waker].srv = "none")
    /\ LonelyFits(tcpConns, tcpTier)
    /\ InflightFits(tcpConns, tcpInflight)

LEMMA TcpBounds ==
    /\ MaxInflight \in Nat \ {0} /\ Waker \notin TcpCalls /\ TcpConns = Tcp!Conns
    /\ NoEntry \notin TcpValues /\ NoEntry = "none"
BY MCAssumption DEF Tcp!RemoteAssumption, TcpConns, Tcp!Conns, NoEntry, Tcp!NoValue

\* An answer from end to end holds no error response, one that was cut short does.
LEMMA WholeUncut ==
    ASSUME NEW saw, NEW resp, Whole(saw, resp)
    PROVE  ~Tcp!CutInPayload(resp)
<1>1. PICK x, m, e, a, b, c : /\ x = OkPart /\ m = MissPart /\ e = ErrorPart
                              /\ a = MetaPart(saw) /\ b = HeadPart(saw) /\ c = RestPart(saw)
  OBVIOUS
<1>2. e # x /\ e # m /\ e # a /\ e # b /\ e # c
  <2>1. e[1] = "status" /\ a[1] = "meta" /\ b[1] = "body" /\ c[1] = "body" /\ e # x /\ e # m
    BY <1>1, PartsDiffer
  <2>2. QED
    BY <2>1
<1>3. resp = <<m>> \/ resp = <<x, a, b, c>>
  BY <1>1 DEF Whole
<1>4. ASSUME NEW i \in 2..Len(resp) PROVE resp[i] # e
  BY <1>2, <1>3
<1>5. QED
  BY <1>1, <1>4 DEF Tcp!CutInPayload, ErrorPart

LEMMA CutIsCut ==
    ASSUME NEW op, NEW saw, NEW resp, CutShort(op, saw, resp)
    PROVE  Tcp!CutInPayload(resp)
<1>1. PICK x, e, d, a, b : /\ x = OkPart /\ e = ErrorPart /\ d = MessagePart
                           /\ a = MetaPart(saw) /\ b = HeadPart(saw)
  OBVIOUS
<1>2. a[1] = "meta" /\ b[1] = "body"
  BY <1>1, PartsDiffer
<1>3. CASE resp = <<x, a, e, d>>
  <2>1. 3 \in 2..Len(resp) /\ resp[3] = e /\ resp[3 - 1] = a
    BY <1>3
  <2>2. QED
    BY <1>1, <1>2, <2>1 DEF Tcp!CutInPayload, ErrorPart
<1>4. CASE resp = <<x, a, b, e, d>>
  <2>1. 4 \in 2..Len(resp) /\ resp[4] = e /\ resp[4 - 1] = b
    BY <1>4
  <2>2. QED
    BY <1>1, <1>2, <2>1 DEF Tcp!CutInPayload, ErrorPart
<1>5. QED
  BY <1>1, <1>3, <1>4 DEF CutShort

LEMMA TcpSafety == TcpInv => TcpKvTierSafe
<1> SUFFICES ASSUME TcpInv PROVE Tcp!Safety
  BY DEF TcpKvTierSafe
<1>1. ASSUME NEW c \in TcpConns PROVE ConnFits(tcpConns[c])
  BY DEF TcpInv
<1>2. IsFiniteSet(Tcp!Handlers) /\ tcpInflight = Cardinality(Tcp!Handlers) /\ tcpInflight <= MaxInflight
  <2>1. Tcp!Handlers = HandlersOf(tcpConns)
    BY TcpBounds DEF Tcp!Handlers, HandlersOf, Active
  <2>2. QED
    BY <2>1 DEF TcpInv, InflightFits
<1>3. tcpInflight \in Nat
  BY <1>2, FS_CardinalityType
<1>4. Tcp!TypeOK
  <2>1. ASSUME NEW c \in TcpConns
        PROVE  /\ tcpConns[c].cl \in {"idle", "connected", "waiting", "ok", "error"}
               /\ tcpConns[c].srv \in {"none", "queued", "read", "apply", "reply", "fail", "closed"}
               /\ tcpConns[c].got \in TcpValues \cup {Tcp!NoValue, "torn"}
    BY <1>1 DEF ConnFits, TcpEntries, NoEntry
  <2>2. tcpTier \in TcpValues \cup {Tcp!NoValue}
    BY DEF TcpInv, TcpEntries, NoEntry
  <2>3. tcpShutdown \in BOOLEAN /\ tcpAcceptor \in {"check", "accept", "ended"}
    BY DEF TcpInv
  <2>4. QED
    BY <1>3, <2>1, <2>2, <2>3, TcpBounds DEF Tcp!TypeOK
<1>5. Tcp!InflightExact
  BY <1>2 DEF Tcp!InflightExact, Tcp!Cardinality, Cardinality
<1>6. Tcp!AnsweredOnce /\ Tcp!GetTrue
  <2>1. ASSUME NEW c \in TcpCalls
        PROVE  tcpConns[c].applied \in {0, 1} /\ (tcpConns[c].cl = "ok" => tcpConns[c].applied = 1)
    BY <1>1 DEF ConnFits, TcpConns
  <2>2. ASSUME NEW c \in TcpCalls, tcpConns[c].op = "get", tcpConns[c].cl = "ok"
        PROVE  tcpConns[c].got = IF Tcp!CutInPayload(tcpConns[c].resp) THEN "torn" ELSE tcpConns[c].saw
    <3>1. \/ tcpConns[c].got = tcpConns[c].saw /\ Whole(tcpConns[c].saw, tcpConns[c].resp)
          \/ tcpConns[c].got = "torn" /\ CutShort("get", tcpConns[c].saw, tcpConns[c].resp)
      BY <1>1, <2>2 DEF ConnFits, TcpConns
    <3>2. QED
      BY <3>1, WholeUncut, CutIsCut
  <2>3. QED
    BY <2>1, <2>2 DEF Tcp!AnsweredOnce, Tcp!GetTrue
<1>7. Tcp!RemoveHolds
  <2> SUFFICES ASSUME NEW c \in TcpCalls, tcpConns[c].op = "remove", tcpConns[c].cl = "ok",
                      tcpConns[c].alone
               PROVE  tcpTier = NoEntry
    BY DEF Tcp!RemoveHolds, NoEntry
  <2>1. tcpConns[c].applied = 1
    BY <1>1 DEF ConnFits, TcpConns
  <2>2. tcpConns[c].alone = TRUE
    BY Zenon
  <2>3. QED
    BY <2>1, <2>2 DEF TcpInv, LonelyFits
<1>8. QED
  BY <1>4, <1>5, <1>6, <1>7 DEF Tcp!Safety

LEMMA ConnWritten ==
    ASSUME NEW r, IsConn(r), NEW x
    PROVE  /\ [r EXCEPT !.cl = x] = Conn(x, r.op, r.val, r.sent, r.srv, r.out, r.resp,
                                         r.got, r.applied, r.saw, r.alone)
           /\ [r EXCEPT !.srv = x] = Conn(r.cl, r.op, r.val, r.sent, x, r.out, r.resp,
                                          r.got, r.applied, r.saw, r.alone)
           /\ [r EXCEPT !.resp = x] = Conn(r.cl, r.op, r.val, r.sent, r.srv, r.out, x,
                                           r.got, r.applied, r.saw, r.alone)
           /\ [r EXCEPT !.alone = x] = Conn(r.cl, r.op, r.val, r.sent, r.srv, r.out, r.resp,
                                            r.got, r.applied, r.saw, x)
<1>1. PICK a, b, c, d, e, f, g, h, i, j, k : r = Conn(a, b, c, d, e, f, g, h, i, j, k)
  BY Zenon DEF IsConn
<1>2. QED
  BY <1>1 DEF Conn

LEMMA FreshFields ==
    /\ Tcp!Fresh = Conn("idle", "ping", NoEntry, FALSE, "none", <<>>, <<>>, NoEntry, 0,
                        NoEntry, FALSE)
    /\ ConnFits(Tcp!Fresh) /\ Tcp!Fresh.op = "ping" /\ Tcp!Fresh.srv = "none"
<1>1. Tcp!Fresh = Conn("idle", "ping", NoEntry, FALSE, "none", <<>>, <<>>, NoEntry, 0,
                       NoEntry, FALSE)
  BY DEF Tcp!Fresh, Conn, NoEntry
<1>2. PICK r : r = Conn("idle", "ping", NoEntry, FALSE, "none", <<>>, <<>>, NoEntry, 0,
                        NoEntry, FALSE)
  OBVIOUS
<1>3. /\ IsConn(r) /\ r.cl = "idle" /\ r.op = "ping" /\ r.srv = "none" /\ r.resp = <<>>
      /\ r.got = NoEntry /\ r.applied = 0 /\ r.saw = NoEntry
  BY <1>2 DEF Conn, IsConn
<1>4. ConnFits(r)
  BY <1>3 DEF ConnFits, TcpEntries, Early
<1>5. r = Tcp!Fresh
  BY <1>1, <1>2
<1>6. QED
  BY <1>1, <1>3, <1>4, <1>5

LEMMA TcpInit == Tcp!Init => TcpInv
<1> SUFFICES ASSUME Tcp!Init PROVE TcpInv
  OBVIOUS
<1>1. /\ tcpConns = [c \in TcpConns |-> Tcp!Fresh] /\ tcpTier \in TcpEntries /\ tcpInflight = 0
      /\ tcpAcceptor = "check" /\ tcpShutdown = FALSE
  BY TcpBounds DEF Tcp!Init, TcpEntries, NoEntry
<1>2. PICK r : r = Tcp!Fresh
  OBVIOUS
<1>3. r.op = "ping" /\ r.srv = "none" /\ ConnFits(r)
  BY <1>2, FreshFields
<1>4. ASSUME NEW c \in TcpConns PROVE tcpConns[c] = r
  BY <1>1, <1>2
<1>5. tcpConns = [c \in TcpConns |-> tcpConns[c]]
  BY <1>1
<1>6. Waker \in TcpConns /\ TcpCalls \subseteq TcpConns
  BY DEF TcpConns
<1>7. LonelyFits(tcpConns, tcpTier)
  BY <1>3, <1>4, <1>6 DEF LonelyFits
<1>8. HandlersOf(tcpConns) = {}
  BY <1>3, <1>4 DEF HandlersOf, Active
<1>9. InflightFits(tcpConns, tcpInflight)
  BY <1>1, <1>8, FS_EmptySet, TcpBounds DEF InflightFits
<1>10. QED
  BY <1>1, <1>3, <1>4, <1>5, <1>6, <1>7, <1>9 DEF TcpInv

\* A step of one connection that leaves the tier and the flag alone.
LEMMA ConnTurn ==
    ASSUME TcpInv, NEW c \in TcpConns, NEW r, ConnFits(r), tcpConns' = [tcpConns EXCEPT ![c] = r],
           tcpTier' = tcpTier, tcpShutdown' = tcpShutdown,
           tcpAcceptor' \in {"check", "accept", "ended"},
           \/ r.op = "ping"
           \/ /\ r.op = tcpConns[c].op /\ r.alone = tcpConns[c].alone
              /\ r.applied = tcpConns[c].applied,
           Pending(r) => Pending(tcpConns[c]),
           tcpConns[c].srv = "none" => r.srv = "none",
           InflightFits(tcpConns', tcpInflight')
    PROVE  TcpInv'
<1>1. tcpConns = [d \in TcpConns |-> tcpConns[d]]
  BY DEF TcpInv
<1>2. tcpConns'[c] = r /\ \A d \in TcpConns \ {c} : tcpConns'[d] = tcpConns[d]
  BY <1>1
<1>3. tcpConns' = [d \in TcpConns |-> tcpConns'[d]]
  BY <1>1
<1>4. Waker \in TcpConns /\ TcpCalls \subseteq TcpConns
  BY DEF TcpConns
<1>5. ASSUME NEW d \in TcpConns PROVE ConnFits(tcpConns'[d])
  <2>1. ConnFits(tcpConns[d])
    BY DEF TcpInv
  <2>2. QED
    BY <1>2, <2>1
<1>6. tcpConns'[Waker].op = "ping" /\ (tcpShutdown' = FALSE => tcpConns'[Waker].srv = "none")
  BY <1>2, <1>4 DEF TcpInv
<1>7. LonelyFits(tcpConns', tcpTier')
  <2> SUFFICES ASSUME NEW d \in TcpCalls, tcpConns'[d].op = "remove", tcpConns'[d].alone = TRUE
               PROVE  /\ \A e \in TcpCalls : ~Pending(tcpConns'[e])
                      /\ tcpConns'[d].applied = 1 => tcpTier' = NoEntry
    BY DEF LonelyFits
  <2>1. /\ tcpConns[d].op = "remove" /\ tcpConns[d].alone = TRUE
        /\ tcpConns'[d].applied = tcpConns[d].applied
    BY <1>2, <1>4
  <2>2. LonelyFits(tcpConns, tcpTier)
    BY DEF TcpInv
  <2>3. /\ \A e \in TcpCalls : ~Pending(tcpConns[e])
        /\ tcpConns[d].applied = 1 => tcpTier = NoEntry
    BY <2>1, <2>2 DEF LonelyFits
  <2>4. ASSUME NEW e \in TcpCalls PROVE ~Pending(tcpConns'[e])
    BY <1>2, <1>4, <2>3
  <2>5. QED
    BY <2>1, <2>3, <2>4
<1>8. tcpTier' \in TcpEntries /\ tcpShutdown' \in BOOLEAN
  BY DEF TcpInv
<1>9. QED
  BY <1>3, <1>5, <1>6, <1>7, <1>8 DEF TcpInv

LEMMA HandlersStay ==
    ASSUME TcpInv, NEW c \in TcpConns, NEW r, tcpConns' = [tcpConns EXCEPT ![c] = r],
           r.srv \in Active <=> tcpConns[c].srv \in Active, tcpInflight' = tcpInflight
    PROVE  InflightFits(tcpConns', tcpInflight')
<1>1. tcpConns = [d \in TcpConns |-> tcpConns[d]]
  BY DEF TcpInv
<1>2. tcpConns'[c] = r /\ \A d \in TcpConns \ {c} : tcpConns'[d] = tcpConns[d]
  BY <1>1
<1>3. HandlersOf(tcpConns') = HandlersOf(tcpConns)
  BY <1>2 DEF HandlersOf
<1>4. QED
  BY <1>3 DEF TcpInv, InflightFits

\* One that neither starts nor ends a handler.
LEMMA QuietConn ==
    ASSUME TcpInv, NEW c \in TcpConns, NEW r, ConnFits(r), tcpConns' = [tcpConns EXCEPT ![c] = r],
           tcpTier' = tcpTier, tcpShutdown' = tcpShutdown, tcpAcceptor' = tcpAcceptor,
           tcpInflight' = tcpInflight,
           \/ r.op = "ping"
           \/ /\ r.op = tcpConns[c].op /\ r.alone = tcpConns[c].alone
              /\ r.applied = tcpConns[c].applied,
           Pending(r) => Pending(tcpConns[c]),
           tcpConns[c].srv = "none" => r.srv = "none",
           r.srv \in Active <=> tcpConns[c].srv \in Active
    PROVE  TcpInv'
<1>1. InflightFits(tcpConns', tcpInflight')
  BY HandlersStay
<1>2. tcpAcceptor' \in {"check", "accept", "ended"}
  BY DEF TcpInv
<1>3. QED
  BY <1>1, <1>2, ConnTurn

\* What the invariant says of one connection.
LEMMA ConnFacts ==
    ASSUME TcpInv, NEW c \in TcpConns
    PROVE  /\ ConnFits(tcpConns[c]) /\ IsConn(tcpConns[c]) /\ c \in DOMAIN tcpConns
           /\ tcpTier \in TcpEntries /\ tcpAcceptor \in {"check", "accept", "ended"}
           /\ TcpConns = Tcp!Conns
<1>1. ConnFits(tcpConns[c]) /\ tcpTier \in TcpEntries /\ tcpAcceptor \in {"check", "accept", "ended"}
  BY DEF TcpInv
<1>2. c \in DOMAIN tcpConns
  BY DEF TcpInv
<1>3. IsConn(tcpConns[c])
  BY <1>1 DEF ConnFits
<1>4. QED
  BY <1>1, <1>2, <1>3, TcpBounds

\* An answer that breaks off; none that was read to its end does.
LEMMA AnswerBreaks ==
    ASSUME NEW op, NEW saw, NEW resp, NEW out, Answering(op, saw, resp, out), out # <<>>
    PROVE  Broken(op, saw, resp)
BY DEF Answering, InEntry, Broken

LEMMA BrokenNotWhole ==
    ASSUME NEW op, NEW saw, NEW resp, Broken(op, saw, resp), op = "get", Whole(saw, resp)
    PROVE  FALSE
<1>1. PICK x, m, a, b, c : /\ x = OkPart /\ m = MissPart
                           /\ a = MetaPart(saw) /\ b = HeadPart(saw) /\ c = RestPart(saw)
  OBVIOUS
<1>2. m # x
  BY <1>1, PartsDiffer
<1>3. resp \in {<<>>, <<x>>, <<x, a>>, <<x, a, b>>}
  BY <1>1 DEF Broken
<1>4. resp = <<m>> \/ resp = <<x, a, b, c>>
  BY <1>1 DEF Whole
<1>5. Len(resp) # 4 /\ (Len(resp) = 1 => resp[1] = x)
  <2>1. resp = <<>> \/ resp = <<x>> \/ resp = <<x, a>> \/ resp = <<x, a, b>>
    BY <1>3
  <2>2. QED
    BY <2>1, ShortLengths, Zenon
<1>6. (Len(resp) = 1 /\ resp[1] = m) \/ Len(resp) = 4
  BY <1>4
<1>7. QED
  BY <1>2, <1>5, <1>6

\* What a client finds as long as it has not given up.
LEMMA Answers ==
    ASSUME NEW r, ConnFits(r), r.cl # "error"
    PROVE  \/ Untold(r.applied, r.resp)
           \/ r.applied = 1 /\ Said(r.op, r.saw, r.resp)
           \/ r.applied = 1 /\ CutShort(r.op, r.saw, r.resp) /\ r.srv = "closed"
<1>1. CASE r.srv \in Early
  BY <1>1 DEF ConnFits, Untold
<1>2. CASE r.srv = "reply"
  <2>1. r.applied = 1 /\ Answering(r.op, r.saw, r.resp, r.out)
    BY <1>2 DEF ConnFits
  <2>2. Said(r.op, r.saw, r.resp)
    BY <2>1 DEF Answering, Said, InEntry
  <2>3. QED
    BY <2>1, <2>2
<1>3. CASE r.srv = "fail"
  <2>1. (r.applied = 0 /\ r.resp = <<>>) \/ (r.applied = 1 /\ Broken(r.op, r.saw, r.resp))
    BY <1>3 DEF ConnFits
  <2>2. Broken(r.op, r.saw, r.resp) => Said(r.op, r.saw, r.resp)
    BY DEF Broken, Said
  <2>3. QED
    BY <2>1, <2>2 DEF Untold
<1>4. CASE r.srv = "closed"
  BY <1>4 DEF ConnFits
<1>5. QED
  BY <1>1, <1>2, <1>3, <1>4 DEF ConnFits, Early

\* What the client makes of it is what the handler did and read.
LEMMA AnswerTrue ==
    ASSUME NEW op, NEW saw \in TcpEntries, NEW resp, NEW applied,
           \/ Untold(applied, resp)
           \/ applied = 1 /\ Said(op, saw, resp)
           \/ applied = 1 /\ CutShort(op, saw, resp),
           NEW answer, answer = Tcp!ReadResponse(op, resp)
    PROVE  /\ answer.val \in TcpEntries \cup {"torn"}
           /\ answer.res = "ok" => applied = 1
           /\ (answer.res = "ok" /\ op = "get") =>
                \/ answer.val = saw /\ Whole(saw, resp)
                \/ answer.val = "torn" /\ CutShort(op, saw, resp)
<1>1. /\ Tcp!More.res = "more" /\ Tcp!More.val = NoEntry
      /\ Tcp!Failed.res = "error" /\ Tcp!Failed.val = NoEntry
      /\ \A v : Tcp!Got(v).res = "ok" /\ Tcp!Got(v).val = v
  BY DEF Tcp!More, Tcp!Failed, Tcp!Got, NoEntry
<1>2. PICK x, m, e : x = OkPart /\ m = MissPart /\ e = ErrorPart
  OBVIOUS
<1>3. x # e /\ m # e /\ m # x /\ e[1] = "status"
  BY <1>2, PartsDiffer
<1>4. PICK a, b, c : a = MetaPart(saw) /\ b = HeadPart(saw) /\ c = RestPart(saw)
  OBVIOUS
<1>5. a[1] = "meta" /\ a[2] = saw
  BY <1>4, PartsDiffer
<1>6. answer = IF Len(resp) = 0 THEN Tcp!More
               ELSE IF resp[1] = e THEN Tcp!Failed
               ELSE IF op = "get" /\ resp[1] = x THEN Tcp!ReadEntry(Tail(resp))
               ELSE Tcp!Got(NoEntry)
  BY <1>2 DEF Tcp!ReadResponse, OkPart, ErrorPart, NoEntry
<1>7. CASE resp = <<>>
  BY <1>1, <1>6, <1>7 DEF TcpEntries
<1>8. CASE resp = <<e>> \/ resp = <<e, MessagePart>>
  BY <1>1, <1>6, <1>8 DEF TcpEntries
<1>9. CASE applied = 1 /\ op # "get" /\ resp = <<x>>
  BY <1>1, <1>3, <1>6, <1>9 DEF TcpEntries
<1>10. CASE applied = 1 /\ op = "get" /\ saw = NoEntry /\ resp = <<m>>
  BY <1>1, <1>2, <1>3, <1>6, <1>10 DEF TcpEntries, Whole
<1>11. CASE op = "get" /\ resp \in {<<x>>, <<x, a>>, <<x, a, b>>, <<x, e, MessagePart>>}
  <2>1. answer = Tcp!ReadEntry(Tail(resp))
    <3>1. Len(resp) # 0 /\ resp[1] = x
      BY <1>11
    <3>2. QED
      BY <3>1, <1>3, <1>6, <1>11
  <2>2. Tail(resp) \in {<<>>, <<a>>, <<a, b>>, <<e, MessagePart>>}
    <3>1. PICK d : d = MessagePart
      OBVIOUS
    <3>2. /\ Tail(<<x>>) = <<>> /\ Tail(<<x, a>>) = <<a>>
          /\ Tail(<<x, a, b>>) = <<a, b>> /\ Tail(<<x, e, d>>) = <<e, d>>
      BY ShortSequences
    <3>3. QED
      BY <1>11, <3>1, <3>2
  <2>3. PICK t : t = Tail(resp)
    OBVIOUS
  <2>4. t = <<>> => Tcp!ReadEntry(t) = Tcp!More
    BY DEF Tcp!ReadEntry
  <2>5. t = <<a>> \/ t = <<a, b>> => Tcp!ReadEntry(t) = Tcp!More
    BY <1>5 DEF Tcp!ReadEntry
  <2>6. t = <<e, MessagePart>> => Tcp!ReadEntry(t) = Tcp!Failed
    BY <1>3 DEF Tcp!ReadEntry
  <2>7. answer = Tcp!More \/ answer = Tcp!Failed
    BY <2>1, <2>2, <2>3, <2>4, <2>5, <2>6
  <2>8. QED
    BY <1>1, <2>7 DEF TcpEntries
<1>12. CASE applied = 1 /\ op = "get" /\ saw \in TcpValues /\ resp = <<x, a, b, c>>
  <2>1. answer = Tcp!ReadEntry(Tail(resp))
    BY <1>3, <1>6, <1>12
  <2>2. Tail(resp) = <<a, b, c>>
    BY <1>12, ShortSequences
  <2>3. Tcp!EntryParts(saw)[2] = b /\ Tcp!EntryParts(saw)[3] = c
    BY <1>4, EntryIs
  <2>4. PICK t : t = Tail(resp)
    OBVIOUS
  <2>5. Len(t) = 3 /\ t[1] = a /\ t[2] = b /\ t[3] = c
    <3>1. t = <<a, b, c>>
      BY <2>2, <2>4
    <3>2. QED
      BY <3>1
  <2>6. Tcp!ReadEntry(t) = Tcp!Got(saw)
    BY <1>5, <2>3, <2>5 DEF Tcp!ReadEntry
  <2>7. Whole(saw, resp)
    BY <1>2, <1>4, <1>12 DEF Whole
  <2>8. QED
    BY <1>1, <1>12, <2>1, <2>4, <2>6, <2>7
<1>13. CASE applied = 1 /\ CutShort(op, saw, resp)
  <2>1. PICK d : d = MessagePart
    OBVIOUS
  <2>2. op = "get" /\ (resp = <<x, a, e, d>> \/ resp = <<x, a, b, e, d>>)
    BY <1>2, <1>4, <1>13, <2>1 DEF CutShort
  <2>3. answer = Tcp!ReadEntry(Tail(resp))
    BY <1>3, <1>6, <2>2
  <2>4. Tcp!EntryParts(saw)[2] = b /\ Tcp!EntryParts(saw)[3] = c
    BY <1>4, EntryIs
  <2>5. b[1] = "body" /\ c[1] = "body"
    BY <1>4, PartsDiffer
  <2>6. b # e /\ c # e
    BY <1>3, <2>5
  <2>7. PICK t : t = Tail(resp)
    OBVIOUS
  <2>8. t = <<a, e, d>> \/ t = <<a, b, e, d>>
    <3>1. Tail(<<x, a, e, d>>) = <<a, e, d>> /\ Tail(<<x, a, b, e, d>>) = <<a, b, e, d>>
      BY ShortSequences
    <3>2. QED
      BY <2>2, <2>7, <3>1, Zenon
  <2>9. (Len(t) = 3 \/ Len(t) = 4) /\ t[1] = a /\ (t[2] = e \/ t[3] = e)
    BY <2>8
  <2>10. Tcp!ReadEntry(t) = Tcp!Got("torn")
    <3>1. /\ Len(t) # 0 /\ ~(Len(t) < 3) /\ t[1][1] = "meta" /\ t[1][2] = saw
          /\ ~(t[2] = b /\ t[3] = c)
      BY <1>5, <2>6, <2>9
    <3>2. QED
      BY <2>4, <3>1 DEF Tcp!ReadEntry
  <2>11. QED
    BY <1>1, <1>13, <2>2, <2>3, <2>7, <2>10
<1>14. QED
  BY <1>2, <1>4, <1>7, <1>8, <1>9, <1>10, <1>11, <1>12, <1>13 DEF Untold, Said

LEMMA SendStep ==
    ASSUME TcpInv, NEW c \in TcpConns, Tcp!Send(c)
    PROVE  TcpInv'
<1> DEFINE r == tcpConns[c]
<1>1. ConnFits(r) /\ IsConn(r) /\ r.cl = "connected"
  BY ConnFacts DEF Tcp!Send
<1>2. PICK d : d = [r EXCEPT !.cl = "waiting"]
  OBVIOUS
<1>3. PICK e : e = [d EXCEPT !.sent = TRUE]
  OBVIOUS
<1>4. /\ tcpConns' = [tcpConns EXCEPT ![c] = e] /\ tcpTier' = tcpTier /\ tcpShutdown' = tcpShutdown
      /\ tcpAcceptor' = tcpAcceptor /\ tcpInflight' = tcpInflight
  BY <1>2, <1>3, Zenon DEF Tcp!Send, Tcp!Set
<1> HIDE DEF r
<1>5. d = Conn("waiting", r.op, r.val, r.sent, r.srv, r.out, r.resp, r.got, r.applied,
               r.saw, r.alone)
  BY <1>1, <1>2, ConnWritten
<1>6. e = Conn("waiting", r.op, r.val, TRUE, r.srv, r.out, r.resp, r.got, r.applied,
               r.saw, r.alone)
  BY <1>3, <1>5 DEF Conn
<1>7. /\ IsConn(e) /\ e.cl = "waiting" /\ e.op = r.op /\ e.val = r.val /\ e.srv = r.srv
      /\ e.out = r.out /\ e.resp = r.resp /\ e.got = r.got /\ e.applied = r.applied
      /\ e.saw = r.saw /\ e.alone = r.alone
  BY <1>6 DEF Conn, IsConn
<1>8. ConnFits(e)
  BY <1>1, <1>7 DEF ConnFits
<1>9. (Pending(e) => Pending(r)) /\ (r.srv = "none" => e.srv = "none")
      /\ (e.srv \in Active <=> r.srv \in Active)
  BY <1>7 DEF Pending
<1>10. QED
  BY <1>4, <1>7, <1>8, <1>9, QuietConn DEF r

LEMMA GiveUpStep ==
    ASSUME TcpInv, NEW c \in TcpConns, Tcp!GiveUp(c)
    PROVE  TcpInv'
<1> DEFINE r == tcpConns[c]
<1>1. ConnFits(r) /\ IsConn(r)
  BY ConnFacts DEF Tcp!GiveUp
<1>2. PICK e : e = [r EXCEPT !.cl = "error"]
  OBVIOUS
<1>3. /\ tcpConns' = [tcpConns EXCEPT ![c] = e] /\ tcpTier' = tcpTier /\ tcpShutdown' = tcpShutdown
      /\ tcpAcceptor' = tcpAcceptor /\ tcpInflight' = tcpInflight
  BY <1>2, Zenon DEF Tcp!GiveUp, Tcp!Set
<1> HIDE DEF r
<1>4. e = Conn("error", r.op, r.val, r.sent, r.srv, r.out, r.resp, r.got, r.applied,
               r.saw, r.alone)
  BY <1>1, <1>2, ConnWritten
<1>5. /\ IsConn(e) /\ e.cl = "error" /\ e.op = r.op /\ e.val = r.val /\ e.srv = r.srv /\ e.out = r.out
      /\ e.resp = r.resp /\ e.got = r.got /\ e.applied = r.applied /\ e.saw = r.saw /\ e.alone = r.alone
  BY <1>4 DEF Conn, IsConn
<1>6. ConnFits(e)
  BY <1>1, <1>5 DEF ConnFits
<1>7. (Pending(e) => Pending(r)) /\ (r.srv = "none" => e.srv = "none")
      /\ (e.srv \in Active <=> r.srv \in Active)
  BY <1>1, <1>5 DEF Pending, Active
<1>8. QED
  BY <1>3, <1>5, <1>6, <1>7, QuietConn DEF r

LEMMA ReadRequestStep ==
    ASSUME TcpInv, NEW c \in TcpConns, Tcp!ReadRequest(c)
    PROVE  TcpInv'
<1> DEFINE r == tcpConns[c]
<1>1. ConnFits(r) /\ IsConn(r) /\ r.srv = "read"
  BY ConnFacts DEF Tcp!ReadRequest
<1>2. PICK e : e = [r EXCEPT !.srv = "apply"]
  OBVIOUS
<1>3. /\ tcpConns' = [tcpConns EXCEPT ![c] = e] /\ tcpTier' = tcpTier /\ tcpShutdown' = tcpShutdown
      /\ tcpAcceptor' = tcpAcceptor /\ tcpInflight' = tcpInflight
  BY <1>2, Zenon DEF Tcp!ReadRequest, Tcp!Set
<1> HIDE DEF r
<1>4. e = Conn(r.cl, r.op, r.val, r.sent, "apply", r.out, r.resp, r.got, r.applied,
               r.saw, r.alone)
  BY <1>1, <1>2, ConnWritten
<1>5. /\ IsConn(e) /\ e.cl = r.cl /\ e.op = r.op /\ e.val = r.val /\ e.srv = "apply" /\ e.out = r.out
      /\ e.resp = r.resp /\ e.got = r.got /\ e.applied = r.applied /\ e.saw = r.saw /\ e.alone = r.alone
  BY <1>4 DEF Conn, IsConn
<1>6. ConnFits(e)
  BY <1>1, <1>5 DEF ConnFits, Early
<1>7. (Pending(e) => Pending(r)) /\ (r.srv = "none" => e.srv = "none")
      /\ (e.srv \in Active <=> r.srv \in Active)
  BY <1>1, <1>5 DEF Pending, Active
<1>8. QED
  BY <1>3, <1>5, <1>6, <1>7, QuietConn DEF r

LEMMA HandleFailsStep ==
    ASSUME TcpInv, NEW c \in TcpConns, Tcp!HandleFails(c)
    PROVE  TcpInv'
<1> DEFINE r == tcpConns[c]
<1>1. ConnFits(r) /\ IsConn(r) /\ r.srv \in {"read", "apply"}
  BY ConnFacts DEF Tcp!HandleFails
<1>2. PICK e : e = [r EXCEPT !.srv = "fail"]
  OBVIOUS
<1>3. /\ tcpConns' = [tcpConns EXCEPT ![c] = e] /\ tcpTier' = tcpTier /\ tcpShutdown' = tcpShutdown
      /\ tcpAcceptor' = tcpAcceptor /\ tcpInflight' = tcpInflight
  BY <1>2, Zenon DEF Tcp!HandleFails, Tcp!Set
<1> HIDE DEF r
<1>4. e = Conn(r.cl, r.op, r.val, r.sent, "fail", r.out, r.resp, r.got, r.applied, r.saw,
               r.alone)
  BY <1>1, <1>2, ConnWritten
<1>5. /\ IsConn(e) /\ e.cl = r.cl /\ e.op = r.op /\ e.val = r.val /\ e.srv = "fail" /\ e.out = r.out
      /\ e.resp = r.resp /\ e.got = r.got /\ e.applied = r.applied /\ e.saw = r.saw /\ e.alone = r.alone
  BY <1>4 DEF Conn, IsConn
<1>6. ConnFits(e)
  BY <1>1, <1>5 DEF ConnFits, Early
<1>7. (Pending(e) => Pending(r)) /\ (r.srv = "none" => e.srv = "none")
      /\ (e.srv \in Active <=> r.srv \in Active)
  BY <1>1, <1>5 DEF Pending, Active
<1>8. QED
  BY <1>3, <1>5, <1>6, <1>7, QuietConn DEF r

LEMMA ReplyFailsStep ==
    ASSUME TcpInv, NEW c \in TcpConns, Tcp!ReplyFails(c)
    PROVE  TcpInv'
<1> DEFINE r == tcpConns[c]
<1>1. ConnFits(r) /\ IsConn(r) /\ r.srv = "reply" /\ r.out # <<>>
  BY ConnFacts DEF Tcp!ReplyFails, Tcp!Writable
<1>2. PICK e : e = [r EXCEPT !.srv = "fail"]
  OBVIOUS
<1>3. /\ tcpConns' = [tcpConns EXCEPT ![c] = e] /\ tcpTier' = tcpTier /\ tcpShutdown' = tcpShutdown
      /\ tcpAcceptor' = tcpAcceptor /\ tcpInflight' = tcpInflight
  BY <1>2, Zenon DEF Tcp!ReplyFails, Tcp!Set
<1> HIDE DEF r
<1>4. e = Conn(r.cl, r.op, r.val, r.sent, "fail", r.out, r.resp, r.got, r.applied, r.saw,
               r.alone)
  BY <1>1, <1>2, ConnWritten
<1>5. /\ IsConn(e) /\ e.cl = r.cl /\ e.op = r.op /\ e.val = r.val /\ e.srv = "fail" /\ e.out = r.out
      /\ e.resp = r.resp /\ e.got = r.got /\ e.applied = r.applied /\ e.saw = r.saw /\ e.alone = r.alone
  BY <1>4 DEF Conn, IsConn
<1>6. ConnFits(e)
  <2>1. r.applied = 1 /\ (r.cl # "error" => Answering(r.op, r.saw, r.resp, r.out))
    BY <1>1 DEF ConnFits
  <2>2. r.cl # "error" => Broken(r.op, r.saw, r.resp)
    BY <1>1, <2>1, AnswerBreaks
  <2>3. ~(r.cl = "ok" /\ r.op = "get")
    BY <1>1, <2>2, BrokenNotWhole DEF ConnFits
  <2>4. QED
    BY <1>1, <1>5, <2>1, <2>2, <2>3 DEF ConnFits, Early
<1>7. (Pending(e) => Pending(r)) /\ (r.srv = "none" => e.srv = "none")
      /\ (e.srv \in Active <=> r.srv \in Active)
  BY <1>1, <1>5 DEF Pending, Active
<1>8. QED
  BY <1>3, <1>5, <1>6, <1>7, QuietConn DEF r

LEMMA ConnectFailsStep ==
    ASSUME TcpInv, NEW c \in TcpConns, Tcp!ConnectFails(c)
    PROVE  TcpInv'
<1> DEFINE r == tcpConns[c]
<1>1. ConnFits(r) /\ r.cl = "idle"
  BY ConnFacts DEF Tcp!ConnectFails
<1>2. PICK f : f = Tcp!Fresh
  OBVIOUS
<1>3. PICK e : e = [f EXCEPT !.cl = "error"]
  OBVIOUS
<1>4. /\ tcpConns' = [tcpConns EXCEPT ![c] = e] /\ tcpTier' = tcpTier /\ tcpShutdown' = tcpShutdown
      /\ tcpAcceptor' = tcpAcceptor /\ tcpInflight' = tcpInflight
  BY <1>2, <1>3, Zenon DEF Tcp!ConnectFails, Tcp!Set
<1> HIDE DEF r
<1>5. f = Conn("idle", "ping", NoEntry, FALSE, "none", <<>>, <<>>, NoEntry, 0, NoEntry, FALSE)
  BY <1>2, FreshFields
<1>6. e = Conn("error", "ping", NoEntry, FALSE, "none", <<>>, <<>>, NoEntry, 0, NoEntry, FALSE)
  BY <1>3, <1>5 DEF Conn
<1>7. /\ IsConn(e) /\ e.cl = "error" /\ e.op = "ping" /\ e.srv = "none" /\ e.resp = <<>>
      /\ e.got = NoEntry /\ e.applied = 0 /\ e.saw = NoEntry
  BY <1>6 DEF Conn, IsConn
<1>8. ConnFits(e)
  BY <1>7 DEF ConnFits, TcpEntries
<1>9. r.srv = "none"
  BY <1>1 DEF ConnFits
<1>10. (Pending(e) => Pending(r)) /\ (e.srv \in Active <=> r.srv \in Active)
  BY <1>7, <1>9 DEF Pending
<1>11. QED
  BY <1>4, <1>7, <1>8, <1>10, QuietConn DEF r

\* Only a handler that has ended leaves a payload cut short.
LEMMA CutIsClosed ==
    ASSUME NEW r, ConnFits(r), r.cl # "error", CutShort(r.op, r.saw, r.resp)
    PROVE  r.srv = "closed"
<1>1. PICK x, m, e, d, a, b, c : /\ x = OkPart /\ m = MissPart /\ e = ErrorPart /\ d = MessagePart
                              /\ a = MetaPart(r.saw) /\ b = HeadPart(r.saw) /\ c = RestPart(r.saw)
  OBVIOUS
<1>2. e # b
  <2>1. e[1] = "status" /\ b[1] = "body"
    BY <1>1, PartsDiffer
  <2>2. QED
    BY <2>1
<1>3. /\ r.op = "get" /\ r.saw \in TcpValues
      /\ r.resp = <<x, a, e, d>> \/ r.resp = <<x, a, b, e, d>>
  BY <1>1 DEF CutShort
<1>4. (Len(r.resp) = 4 /\ r.resp[3] = e) \/ Len(r.resp) = 5
  BY <1>3
<1>5. ~Broken(r.op, r.saw, r.resp)
  <2>1. Broken(r.op, r.saw, r.resp) => r.resp \in {<<>>, <<x>>, <<x, a>>, <<x, a, b>>}
    BY <1>1 DEF Broken
  <2>2. r.resp \in {<<>>, <<x>>, <<x, a>>, <<x, a, b>>} => Len(r.resp) # 4 /\ Len(r.resp) # 5
    BY ShortLengths, Zenon
  <2>3. QED
    BY <1>4, <2>1, <2>2
<1>6. ~Answering(r.op, r.saw, r.resp, r.out)
  <2>1. Answering(r.op, r.saw, r.resp, r.out) =>
          r.resp \in {<<>>, <<m>>, <<x>>, <<x, a>>, <<x, a, b>>, <<x, a, b, c>>}
    BY <1>1, <1>3 DEF Answering, InEntry
  <2>2. r.resp \in {<<>>, <<m>>, <<x>>, <<x, a>>, <<x, a, b>>, <<x, a, b, c>>} =>
          Len(r.resp) # 5 /\ (Len(r.resp) = 4 => r.resp[3] = b)
    <3>1. CASE r.resp \in {<<>>, <<m>>, <<x>>, <<x, a>>, <<x, a, b>>}
      BY <3>1, ShortLengths, Zenon
    <3>2. CASE r.resp = <<x, a, b, c>>
      <4>1. Len(<<x, a, b, c>>) # 5
        BY ShortLengths, Zenon
      <4>2. <<x, a, b, c>>[3] = b
        OBVIOUS
      <4>3. QED
        BY <3>2, <4>1, <4>2
    <3>3. QED
      BY <3>1, <3>2
  <2>3. QED
    BY <1>2, <1>4, <2>1, <2>2
<1>7. r.resp # <<>>
  BY <1>4
<1>8. QED
  BY <1>5, <1>6, <1>7 DEF ConnFits, Early

LEMMA ReceiveStep ==
    ASSUME TcpInv, NEW c \in TcpConns, Tcp!Receive(c)
    PROVE  TcpInv'
<1> DEFINE r == tcpConns[c]
<1>1. ConnFits(r) /\ IsConn(r) /\ r.cl = "waiting"
  BY ConnFacts DEF Tcp!Receive
<1>2. PICK answer : answer = Tcp!ReadResponse(r.op, r.resp)
  OBVIOUS
<1>3. PICK k : k = IF answer.res = "ok" THEN "ok" ELSE "error"
  OBVIOUS
<1>4. PICK d : d = [r EXCEPT !.cl = k]
  OBVIOUS
<1>5. PICK g : g = answer.val
  OBVIOUS
<1>6. PICK e : e = [d EXCEPT !.got = g]
  OBVIOUS
<1>7. /\ tcpConns' = [tcpConns EXCEPT ![c] = e] /\ tcpTier' = tcpTier /\ tcpShutdown' = tcpShutdown
      /\ tcpAcceptor' = tcpAcceptor /\ tcpInflight' = tcpInflight
  BY <1>2, <1>3, <1>4, <1>5, <1>6, Zenon DEF Tcp!Receive, Tcp!Set
<1> HIDE DEF r
<1>8. d = Conn(k, r.op, r.val, r.sent, r.srv, r.out, r.resp, r.got, r.applied, r.saw, r.alone)
  BY <1>1, <1>4, ConnWritten
<1>9. e = Conn(k, r.op, r.val, r.sent, r.srv, r.out, r.resp, g, r.applied, r.saw, r.alone)
  BY <1>6, <1>8 DEF Conn
<1>10. /\ IsConn(e) /\ e.cl = k /\ e.op = r.op /\ e.val = r.val /\ e.srv = r.srv
       /\ e.out = r.out /\ e.resp = r.resp /\ e.got = g /\ e.applied = r.applied
       /\ e.saw = r.saw /\ e.alone = r.alone
  BY <1>9 DEF Conn, IsConn
<1>11. \/ Untold(r.applied, r.resp)
       \/ r.applied = 1 /\ Said(r.op, r.saw, r.resp)
       \/ r.applied = 1 /\ CutShort(r.op, r.saw, r.resp)
  BY <1>1, Answers
<1>12. r.saw \in TcpEntries
  BY <1>1 DEF ConnFits
<1>13. /\ g \in TcpEntries \cup {"torn"}
       /\ answer.res = "ok" => r.applied = 1
       /\ (answer.res = "ok" /\ r.op = "get") =>
            \/ g = r.saw /\ Whole(r.saw, r.resp)
            \/ g = "torn" /\ CutShort(r.op, r.saw, r.resp)
  BY <1>2, <1>5, <1>11, <1>12, AnswerTrue
<1>14. ConnFits(e)
  <2>1. CASE answer.res = "ok"
    <3>0. CutShort(r.op, r.saw, r.resp) => r.srv = "closed"
      BY <1>1, CutIsClosed
    <3>1. /\ k = "ok" /\ r.applied = 1
          /\ r.op = "get" => \/ g = r.saw /\ Whole(r.saw, r.resp)
                             \/ g = "torn" /\ CutShort(r.op, r.saw, r.resp) /\ r.srv = "closed"
      BY <1>3, <1>13, <2>1, <3>0
    <3>2. QED
      BY <1>1, <1>10, <1>13, <3>1 DEF ConnFits
  <2>2. CASE answer.res # "ok"
    <3>1. k = "error"
      BY <1>3, <2>2
    <3>2. QED
      BY <1>1, <1>10, <1>13, <3>1 DEF ConnFits
  <2>3. QED
    BY <2>1, <2>2
<1>15. (Pending(e) => Pending(r)) /\ (r.srv = "none" => e.srv = "none")
       /\ (e.srv \in Active <=> r.srv \in Active)
  BY <1>10 DEF Pending
<1>16. QED
  BY <1>7, <1>10, <1>14, <1>15, QuietConn DEF r

\* A handler starts, or ends.
LEMMA HandlerStarts ==
    ASSUME TcpInv, NEW c \in TcpConns, NEW r, tcpConns' = [tcpConns EXCEPT ![c] = r],
           r.srv \in Active, tcpConns[c].srv \notin Active, tcpInflight < MaxInflight,
           tcpInflight' = tcpInflight + 1
    PROVE  InflightFits(tcpConns', tcpInflight')
<1>1. tcpConns = [d \in TcpConns |-> tcpConns[d]]
  BY DEF TcpInv
<1>2. tcpConns'[c] = r /\ \A d \in TcpConns \ {c} : tcpConns'[d] = tcpConns[d]
  BY <1>1
<1>3. PICK A : A = HandlersOf(tcpConns)
  OBVIOUS
<1>4. HandlersOf(tcpConns') = A \cup {c} /\ c \notin A
  BY <1>2, <1>3 DEF HandlersOf
<1>5. IsFiniteSet(A) /\ tcpInflight = Cardinality(A)
  BY <1>3 DEF TcpInv, InflightFits
<1>6. IsFiniteSet(A \cup {c}) /\ Cardinality(A \cup {c}) = Cardinality(A) + 1
  BY <1>4, <1>5, FS_AddElement
<1>7. Cardinality(A) \in Nat
  BY <1>5, FS_CardinalityType
<1>8. tcpInflight' <= MaxInflight
  BY <1>5, <1>7, TcpBounds
<1>9. QED
  BY <1>4, <1>5, <1>6, <1>8, Zenon DEF InflightFits

LEMMA HandlerEnds ==
    ASSUME TcpInv, NEW c \in TcpConns, NEW r, tcpConns' = [tcpConns EXCEPT ![c] = r],
           r.srv \notin Active, tcpConns[c].srv \in Active, tcpInflight' = tcpInflight - 1
    PROVE  InflightFits(tcpConns', tcpInflight')
<1>1. tcpConns = [d \in TcpConns |-> tcpConns[d]]
  BY DEF TcpInv
<1>2. tcpConns'[c] = r /\ \A d \in TcpConns \ {c} : tcpConns'[d] = tcpConns[d]
  BY <1>1
<1>3. PICK A : A = HandlersOf(tcpConns)
  OBVIOUS
<1>4. HandlersOf(tcpConns') = A \ {c} /\ c \in A
  BY <1>2, <1>3 DEF HandlersOf
<1>5. IsFiniteSet(A) /\ tcpInflight = Cardinality(A) /\ tcpInflight <= MaxInflight
  BY <1>3 DEF TcpInv, InflightFits
<1>6. IsFiniteSet(A \ {c}) /\ Cardinality(A \ {c}) = Cardinality(A) - 1
  BY <1>4, <1>5, FS_RemoveElement
<1>7. Cardinality(A) \in Nat
  BY <1>5, FS_CardinalityType
<1>8. tcpInflight' <= MaxInflight
  BY <1>5, <1>7, TcpBounds
<1>9. QED
  BY <1>4, <1>5, <1>6, <1>8, Zenon DEF InflightFits

LEMMA AcceptStep ==
    ASSUME TcpInv, NEW c \in TcpConns, Tcp!Accept(c)
    PROVE  TcpInv'
<1> DEFINE r == tcpConns[c]
<1>1. ConnFits(r) /\ IsConn(r) /\ r.srv = "queued" /\ r.applied = 0 /\ r.resp = <<>>
  BY ConnFacts DEF Tcp!Accept, ConnFits, Early
<1>2. /\ tcpTier' = tcpTier /\ tcpShutdown' = tcpShutdown
      /\ tcpAcceptor' \in {"check", "accept", "ended"}
  BY DEF Tcp!Accept
<1>3. CASE Tcp!AtLimit
  <2>1. PICK d : d = [r EXCEPT !.srv = "closed"]
    OBVIOUS
  <2>2. PICK e : e = [d EXCEPT !.resp = <<ErrorPart>>]
    OBVIOUS
  <2>3. tcpConns' = [tcpConns EXCEPT ![c] = e] /\ tcpInflight' = tcpInflight
    BY <1>3, <2>1, <2>2, Zenon DEF Tcp!Accept, Tcp!Set, ErrorPart
  <2>4. PICK x : x = <<ErrorPart>>
    OBVIOUS
  <2> HIDE DEF r
  <2>5. d = Conn(r.cl, r.op, r.val, r.sent, "closed", r.out, r.resp, r.got, r.applied,
                 r.saw, r.alone)
    BY <1>1, <2>1, ConnWritten
  <2>6. e = Conn(r.cl, r.op, r.val, r.sent, "closed", r.out, x, r.got, r.applied, r.saw,
                 r.alone)
    BY <2>2, <2>4, <2>5 DEF Conn
  <2>7. /\ IsConn(e) /\ e.cl = r.cl /\ e.op = r.op /\ e.val = r.val /\ e.srv = "closed"
        /\ e.resp = x /\ e.got = r.got /\ e.applied = r.applied
        /\ e.saw = r.saw /\ e.alone = r.alone
    BY <2>6 DEF Conn, IsConn
  <2>8. Untold(e.applied, e.resp)
    BY <1>1, <2>4, <2>7 DEF Untold
  <2>9. ConnFits(e)
    BY <1>1, <2>7, <2>8 DEF ConnFits, Early
  <2>10. InflightFits(tcpConns', tcpInflight')
    BY <1>1, <2>3, <2>7, HandlersStay DEF Active, r
  <2>11. (Pending(e) => Pending(r)) /\ (r.srv = "none" => e.srv = "none")
    BY <1>1, <2>7 DEF Pending
  <2>12. QED
    BY <1>2, <2>3, <2>7, <2>9, <2>10, <2>11, ConnTurn DEF r
<1>4. CASE ~Tcp!AtLimit
  <2>1. PICK e : e = [r EXCEPT !.srv = "read"]
    OBVIOUS
  <2>2. tcpConns' = [tcpConns EXCEPT ![c] = e] /\ tcpInflight' = tcpInflight + 1
    BY <1>4, <2>1, Zenon DEF Tcp!Accept, Tcp!Set
  <2> HIDE DEF r
  <2>3. e = Conn(r.cl, r.op, r.val, r.sent, "read", r.out, r.resp, r.got, r.applied,
                 r.saw, r.alone)
    BY <1>1, <2>1, ConnWritten
  <2>4. /\ IsConn(e) /\ e.cl = r.cl /\ e.op = r.op /\ e.val = r.val /\ e.srv = "read"
        /\ e.resp = r.resp /\ e.got = r.got /\ e.applied = r.applied
        /\ e.saw = r.saw /\ e.alone = r.alone
    BY <2>3 DEF Conn, IsConn
  <2>5. ConnFits(e)
    BY <1>1, <2>4 DEF ConnFits, Early
  <2>6. tcpInflight < MaxInflight
    <3>1. tcpInflight \in Nat
      BY FS_CardinalityType DEF TcpInv, InflightFits
    <3>2. QED
      BY <1>4, <3>1, TcpBounds DEF Tcp!AtLimit
  <2>7. InflightFits(tcpConns', tcpInflight')
    BY <1>1, <2>2, <2>4, <2>6, HandlerStarts DEF Active, r
  <2>8. (Pending(e) => Pending(r)) /\ (r.srv = "none" => e.srv = "none")
    BY <1>1, <2>4 DEF Pending
  <2>9. QED
    BY <1>2, <2>2, <2>4, <2>5, <2>7, <2>8, ConnTurn DEF r
<1>5. QED
  BY <1>3, <1>4

\* The answer goes on with its next part.
LEMMA AnswerGoesOn ==
    ASSUME NEW op, NEW saw, NEW resp, NEW out, Answering(op, saw, resp, out), out # <<>>
    PROVE  Answering(op, saw, Append(resp, Head(out)), Tail(out))
<1>1. PICK x, m : x = OkPart /\ m = MissPart
  OBVIOUS
<1>2. PICK a, b, c : a = MetaPart(saw) /\ b = HeadPart(saw) /\ c = RestPart(saw)
  OBVIOUS
<1>3. CASE op # "get" /\ resp = <<>> /\ out = <<x>>
  <2>1. Append(resp, Head(out)) = <<x>> /\ Tail(out) = <<>>
    BY <1>3, ShortSequences
  <2>2. QED
    BY <1>1, <1>3, <2>1 DEF Answering
<1>4. CASE op = "get" /\ saw = NoEntry /\ resp = <<>> /\ out = <<m>>
  <2>1. Append(resp, Head(out)) = <<m>> /\ Tail(out) = <<>>
    BY <1>4, ShortSequences
  <2>2. QED
    BY <1>1, <1>4, <2>1 DEF Answering
<1>5. CASE op = "get" /\ saw \in TcpValues /\ InEntry(x, a, b, c, resp, out)
  <2>1. InEntry(x, a, b, c, Append(resp, Head(out)), Tail(out))
    <3>1. CASE resp = <<>> /\ out = <<x, a, b, c>>
      <4>1. Append(resp, Head(out)) = <<x>> /\ Tail(out) = <<a, b, c>>
        BY <3>1, ShortSequences
      <4>2. QED
        BY <4>1 DEF InEntry
    <3>2. CASE resp = <<x>> /\ out = <<a, b, c>>
      <4>1. Append(<<x>>, a) = <<x, a>> /\ Tail(<<a, b, c>>) = <<b, c>>
        BY ShortSequences
      <4>2. Head(out) = a
        BY <3>2
      <4>3. Append(resp, Head(out)) = <<x, a>> /\ Tail(out) = <<b, c>>
        BY <3>2, <4>1, <4>2, Zenon
      <4>4. QED
        BY <4>3 DEF InEntry
    <3>3. CASE resp = <<x, a>> /\ out = <<b, c>>
      <4>1. Append(<<x, a>>, b) = <<x, a, b>> /\ Tail(<<b, c>>) = <<c>>
        BY ShortSequences
      <4>2. Head(out) = b
        BY <3>3
      <4>3. Append(resp, Head(out)) = <<x, a, b>> /\ Tail(out) = <<c>>
        BY <3>3, <4>1, <4>2, Zenon
      <4>4. QED
        BY <4>3 DEF InEntry
    <3>4. CASE resp = <<x, a, b>> /\ out = <<c>>
      <4>1. Append(<<x, a, b>>, c) = <<x, a, b, c>> /\ Tail(<<c>>) = <<>>
        BY ShortSequences
      <4>2. Head(out) = c
        BY <3>4
      <4>3. Append(resp, Head(out)) = <<x, a, b, c>> /\ Tail(out) = <<>>
        BY <3>4, <4>1, <4>2, Zenon
      <4>4. QED
        BY <4>3 DEF InEntry
    <3>5. QED
      BY <1>5, <3>1, <3>2, <3>3, <3>4 DEF InEntry
  <2>2. QED
    BY <1>1, <1>2, <1>5, <2>1 DEF Answering
<1>6. QED
  BY <1>1, <1>2, <1>3, <1>4, <1>5 DEF Answering

LEMMA ReplyStep ==
    ASSUME TcpInv, NEW c \in TcpConns, Tcp!Reply(c)
    PROVE  TcpInv'
<1> DEFINE r == tcpConns[c]
<1>1. ConnFits(r) /\ IsConn(r) /\ r.srv = "reply" /\ r.out # <<>>
  BY ConnFacts DEF Tcp!Reply, Tcp!Writable
<1>2. PICK x, y : x = Append(r.resp, Head(r.out)) /\ y = Tail(r.out)
  OBVIOUS
<1>3. PICK d : d = [r EXCEPT !.resp = x]
  OBVIOUS
<1>4. PICK e : e = [d EXCEPT !.out = y]
  OBVIOUS
<1>5. /\ tcpConns' = [tcpConns EXCEPT ![c] = e] /\ tcpTier' = tcpTier /\ tcpShutdown' = tcpShutdown
      /\ tcpAcceptor' = tcpAcceptor /\ tcpInflight' = tcpInflight
  BY <1>2, <1>3, <1>4, Zenon DEF Tcp!Reply, Tcp!Set
<1> HIDE DEF r
<1>6. d = Conn(r.cl, r.op, r.val, r.sent, r.srv, r.out, x, r.got, r.applied, r.saw, r.alone)
  BY <1>1, <1>3, ConnWritten
<1>7. e = Conn(r.cl, r.op, r.val, r.sent, r.srv, y, x, r.got, r.applied, r.saw, r.alone)
  BY <1>4, <1>6 DEF Conn
<1>8. /\ IsConn(e) /\ e.cl = r.cl /\ e.op = r.op /\ e.val = r.val /\ e.srv = r.srv
      /\ e.out = y /\ e.resp = x /\ e.got = r.got /\ e.applied = r.applied
      /\ e.saw = r.saw /\ e.alone = r.alone
  BY <1>7 DEF Conn, IsConn
<1>9. r.cl # "error" => Answering(r.op, r.saw, x, y)
  <2>1. r.cl # "error" => Answering(r.op, r.saw, r.resp, r.out)
    BY <1>1 DEF ConnFits
  <2>2. QED
    BY <1>1, <1>2, <2>1, AnswerGoesOn
<1>10. ConnFits(e)
  <2>1. r.cl # "error" => Broken(r.op, r.saw, r.resp)
    BY <1>1, AnswerBreaks DEF ConnFits
  <2>2. ~(r.cl = "ok" /\ r.op = "get")
    BY <1>1, <2>1, BrokenNotWhole DEF ConnFits
  <2>3. QED
    BY <1>1, <1>8, <1>9, <2>2 DEF ConnFits, Early
<1>11. (Pending(e) => Pending(r)) /\ (r.srv = "none" => e.srv = "none")
       /\ (e.srv \in Active <=> r.srv \in Active)
  BY <1>8 DEF Pending
<1>12. QED
  BY <1>5, <1>8, <1>10, <1>11, QuietConn DEF r

\* A handler ends with x written.
LEMMA EndsStep ==
    ASSUME TcpInv, NEW c \in TcpConns, NEW x, Tcp!Ends(c, x), tcpConns[c].srv \in {"reply", "fail"},
           tcpConns[c].cl # "error" =>
             \/ Untold(tcpConns[c].applied, x)
             \/ tcpConns[c].applied = 1 /\ Said(tcpConns[c].op, tcpConns[c].saw, x)
             \/ tcpConns[c].applied = 1 /\ CutShort(tcpConns[c].op, tcpConns[c].saw, x),
           (tcpConns[c].cl = "ok" /\ tcpConns[c].op = "get") => x = tcpConns[c].resp
    PROVE  TcpInv'
<1> DEFINE r == tcpConns[c]
<1>1. ConnFits(r) /\ IsConn(r) /\ r.srv \in {"reply", "fail"}
  BY ConnFacts
<1>2. /\ r.cl # "error" => \/ Untold(r.applied, x)
                           \/ r.applied = 1 /\ Said(r.op, r.saw, x)
                           \/ r.applied = 1 /\ CutShort(r.op, r.saw, x)
      /\ (r.cl = "ok" /\ r.op = "get") => x = r.resp
  OBVIOUS
<1>3. PICK d : d = [r EXCEPT !.srv = "closed"]
  OBVIOUS
<1>4. PICK e : e = [d EXCEPT !.resp = x]
  OBVIOUS
<1>5. /\ tcpConns' = [tcpConns EXCEPT ![c] = e] /\ tcpTier' = tcpTier /\ tcpShutdown' = tcpShutdown
      /\ tcpAcceptor' = tcpAcceptor /\ tcpInflight' = tcpInflight - 1
  BY <1>3, <1>4, Zenon DEF Tcp!Ends, Tcp!Set
<1> HIDE DEF r
<1>6. d = Conn(r.cl, r.op, r.val, r.sent, "closed", r.out, r.resp, r.got, r.applied,
               r.saw, r.alone)
  BY <1>1, <1>3, ConnWritten
<1>7. e = Conn(r.cl, r.op, r.val, r.sent, "closed", r.out, x, r.got, r.applied, r.saw, r.alone)
  BY <1>4, <1>6 DEF Conn
<1>8. /\ IsConn(e) /\ e.cl = r.cl /\ e.op = r.op /\ e.val = r.val /\ e.srv = "closed"
      /\ e.resp = x /\ e.got = r.got /\ e.applied = r.applied
      /\ e.saw = r.saw /\ e.alone = r.alone
  BY <1>7 DEF Conn, IsConn
<1>9. ConnFits(e)
  BY <1>1, <1>2, <1>8 DEF ConnFits, Early
<1>10. (Pending(e) => Pending(r)) /\ (r.srv = "none" => e.srv = "none")
  BY <1>1, <1>8 DEF Pending
<1>11. InflightFits(tcpConns', tcpInflight')
  BY <1>1, <1>5, <1>8, HandlerEnds DEF Active, r
<1>12. tcpAcceptor' \in {"check", "accept", "ended"}
  BY <1>5 DEF TcpInv
<1>13. QED
  BY <1>5, <1>8, <1>9, <1>10, <1>11, <1>12, ConnTurn DEF r

LEMMA FinishStep ==
    ASSUME TcpInv, NEW c \in TcpConns, Tcp!Finish(c)
    PROVE  TcpInv'
<1>1. PICK r : r = tcpConns[c]
  OBVIOUS
<1>2. ConnFits(r) /\ r.srv = "reply" /\ Tcp!Ends(c, r.resp)
  BY <1>1, ConnFacts DEF Tcp!Finish
<1>3. r.cl # "error" => \/ Untold(r.applied, r.resp)
                        \/ r.applied = 1 /\ Said(r.op, r.saw, r.resp)
                        \/ r.applied = 1 /\ CutShort(r.op, r.saw, r.resp)
  BY <1>2, Answers
<1>4. QED
  BY <1>1, <1>2, <1>3, EndsStep

LEMMA ReplyErrorStep ==
    ASSUME TcpInv, NEW c \in TcpConns, Tcp!ReplyError(c)
    PROVE  TcpInv'
<1>1. PICK r : r = tcpConns[c]
  OBVIOUS
<1>2. ConnFits(r) /\ r.srv = "fail"
  BY <1>1, ConnFacts DEF Tcp!ReplyError
<1>3. CASE Tcp!Ends(c, r.resp)
  <2>1. r.cl # "error" => \/ Untold(r.applied, r.resp)
                          \/ r.applied = 1 /\ Said(r.op, r.saw, r.resp)
                          \/ r.applied = 1 /\ CutShort(r.op, r.saw, r.resp)
    BY <1>2, Answers
  <2>2. QED
    BY <1>1, <1>2, <1>3, <2>1, EndsStep
<1>4. CASE Tcp!Ends(c, r.resp \o <<ErrorPart, MessagePart>>)
  <2>1. PICK e, m, k, a, b : /\ e = ErrorPart /\ m = MessagePart /\ k = OkPart
                             /\ a = MetaPart(r.saw) /\ b = HeadPart(r.saw)
    OBVIOUS
  <2>2. PICK x : x = r.resp \o <<e, m>>
    OBVIOUS
  <2>3. /\ <<>> \o <<e, m>> = <<e, m>> /\ <<k>> \o <<e, m>> = <<k, e, m>>
        /\ <<k, a>> \o <<e, m>> = <<k, a, e, m>> /\ <<k, a, b>> \o <<e, m>> = <<k, a, b, e, m>>
    BY ShortSequences
  <2>4. /\ r.resp = <<>> => x = <<e, m>>
        /\ r.resp = <<k>> => x = <<k, e, m>>
        /\ r.resp = <<k, a>> => x = <<k, a, e, m>>
        /\ r.resp = <<k, a, b>> => x = <<k, a, b, e, m>>
    BY <2>2, <2>3, Zenon
  <2>5. r.cl # "error" => \/ r.applied = 0 /\ r.resp = <<>>
                          \/ r.applied = 1 /\ Broken(r.op, r.saw, r.resp)
    BY <1>2 DEF ConnFits
  <2>6. r.cl # "error" => \/ Untold(r.applied, x)
                          \/ r.applied = 1 /\ Said(r.op, r.saw, x)
                          \/ r.applied = 1 /\ CutShort(r.op, r.saw, x)
    <3>1. CASE r.applied = 0 /\ r.resp = <<>>
      BY <2>1, <2>4, <3>1 DEF Untold
    <3>2. CASE r.applied = 1 /\ Broken(r.op, r.saw, r.resp)
      <4>1. CASE r.resp = <<>>
        BY <2>1, <2>4, <3>2, <4>1 DEF Said
      <4>2. CASE /\ r.op = "get" /\ r.saw \in TcpValues
                 /\ r.resp = <<k>> \/ r.resp = <<k, a>> \/ r.resp = <<k, a, b>>
        <5>1. x = <<k, e, m>> \/ x = <<k, a, e, m>> \/ x = <<k, a, b, e, m>>
          BY <2>4, <4>2, Zenon
        <5>2. QED
          BY <2>1, <3>2, <4>2, <5>1 DEF Said, CutShort
      <4>3. QED
        BY <2>1, <3>2, <4>1, <4>2 DEF Broken
    <3>3. QED
      BY <2>5, <3>1, <3>2
  <2>7. Tcp!Ends(c, x)
    BY <1>4, <2>1, <2>2
  <2>8. ~(r.cl = "ok" /\ r.op = "get")
    BY <1>2, <2>5, BrokenNotWhole DEF ConnFits
  <2>9. QED
    BY <1>1, <1>2, <2>6, <2>7, <2>8, EndsStep
<1>5. QED
  BY <1>1, <1>3, <1>4 DEF Tcp!ReplyError, ErrorPart, MessagePart

\* A step that starts no handler and ends none, lets no put pend anew, and leaves the tier
\* and what each removal is and did.
LEMMA LonelyStay ==
    ASSUME TcpInv, tcpTier' = tcpTier,
           \A d \in TcpCalls : /\ Pending(tcpConns'[d]) => Pending(tcpConns[d])
                               /\ tcpConns'[d].op = tcpConns[d].op
                               /\ tcpConns'[d].alone = tcpConns[d].alone
                               /\ tcpConns'[d].applied = tcpConns[d].applied
    PROVE  LonelyFits(tcpConns', tcpTier')
<1> SUFFICES ASSUME NEW d \in TcpCalls, tcpConns'[d].op = "remove", tcpConns'[d].alone = TRUE
             PROVE  /\ \A e \in TcpCalls : ~Pending(tcpConns'[e])
                    /\ tcpConns'[d].applied = 1 => tcpTier' = NoEntry
  BY DEF LonelyFits
<1>1. LonelyFits(tcpConns, tcpTier)
  BY DEF TcpInv
<1>2. tcpConns[d].op = "remove" /\ tcpConns[d].alone = TRUE /\ tcpConns'[d].applied = tcpConns[d].applied
  OBVIOUS
<1>3. /\ \A e \in TcpCalls : ~Pending(tcpConns[e])
      /\ tcpConns[d].applied = 1 => tcpTier = NoEntry
  BY <1>1, <1>2 DEF LonelyFits
<1>4. ASSUME NEW e \in TcpCalls PROVE ~Pending(tcpConns'[e])
  BY <1>3
<1>5. QED
  BY <1>2, <1>3, <1>4

LEMMA EndAcceptingStep ==
    ASSUME TcpInv, Tcp!EndAccepting, tcpTier' = tcpTier, tcpShutdown' = tcpShutdown,
           tcpInflight' = tcpInflight
    PROVE  TcpInv'
<1>1. /\ tcpConns' = [c \in TcpConns |->
            IF tcpConns[c].srv = "queued" THEN [tcpConns[c] EXCEPT !.srv = "closed"] ELSE tcpConns[c]]
      /\ tcpAcceptor' = "ended"
  BY TcpBounds DEF Tcp!EndAccepting
<1>2. Waker \in TcpConns /\ TcpCalls \subseteq TcpConns
  BY DEF TcpConns
<1>3. ASSUME NEW c \in TcpConns
      PROVE  /\ ConnFits(tcpConns'[c]) /\ tcpConns'[c].op = tcpConns[c].op
             /\ tcpConns'[c].alone = tcpConns[c].alone
             /\ tcpConns'[c].applied = tcpConns[c].applied
             /\ Pending(tcpConns'[c]) => Pending(tcpConns[c])
             /\ tcpConns[c].srv = "none" => tcpConns'[c].srv = "none"
             /\ tcpConns'[c].srv \in Active <=> tcpConns[c].srv \in Active
  <2> DEFINE r == tcpConns[c]
  <2>1. ConnFits(r) /\ IsConn(r)
    BY ConnFacts
  <2>2. CASE r.srv # "queued"
    <3>1. tcpConns'[c] = r
      BY <1>1, <2>2
    <3>2. QED
      BY <2>1, <3>1
  <2>3. CASE r.srv = "queued"
    <3>1. PICK e : e = [r EXCEPT !.srv = "closed"]
      OBVIOUS
    <3>2. tcpConns'[c] = e
      BY <1>1, <2>3, <3>1
    <3> HIDE DEF r
    <3>3. e = Conn(r.cl, r.op, r.val, r.sent, "closed", r.out, r.resp, r.got, r.applied,
                   r.saw, r.alone)
      BY <2>1, <3>1, ConnWritten
    <3>4. /\ IsConn(e) /\ e.cl = r.cl /\ e.op = r.op /\ e.val = r.val /\ e.srv = "closed"
          /\ e.resp = r.resp /\ e.got = r.got /\ e.applied = r.applied
          /\ e.saw = r.saw /\ e.alone = r.alone
      BY <3>3 DEF Conn, IsConn
    <3>5. r.applied = 0 /\ r.resp = <<>>
      BY <2>1, <2>3 DEF ConnFits, Early
    <3>6. ConnFits(e)
      BY <2>1, <2>3, <3>4, <3>5 DEF ConnFits, Early, Untold
    <3>7. /\ Pending(e) => Pending(r)
          /\ r.srv = "none" => e.srv = "none"
          /\ e.srv \in Active <=> r.srv \in Active
      BY <2>3, <3>4 DEF Pending, Active
    <3>8. QED
      BY <3>2, <3>4, <3>6, <3>7 DEF r
  <2>4. QED
    BY <2>2, <2>3
<1>4. tcpConns' = [c \in TcpConns |-> tcpConns'[c]]
  BY <1>1
<1>5. LonelyFits(tcpConns', tcpTier')
  BY <1>2, <1>3, LonelyStay
<1>6. HandlersOf(tcpConns') = HandlersOf(tcpConns)
  BY <1>3 DEF HandlersOf
<1>7. InflightFits(tcpConns', tcpInflight')
  BY <1>6 DEF TcpInv, InflightFits
<1>8. /\ tcpConns[Waker].op = "ping" /\ (tcpShutdown = FALSE => tcpConns[Waker].srv = "none")
      /\ tcpTier \in TcpEntries /\ tcpShutdown \in BOOLEAN
  BY DEF TcpInv
<1>9. tcpConns'[Waker].op = "ping" /\ (tcpShutdown' = FALSE => tcpConns'[Waker].srv = "none")
  BY <1>2, <1>3, <1>8
<1>10. QED
  BY <1>1, <1>3, <1>4, <1>5, <1>7, <1>8, <1>9 DEF TcpInv

\* The accepting thread turns, and touches no connection.
LEMMA LoopStep ==
    ASSUME TcpInv, tcpConns' = tcpConns, tcpTier' = tcpTier, tcpShutdown' = tcpShutdown,
           tcpInflight' = tcpInflight, tcpAcceptor' \in {"check", "accept", "ended"}
    PROVE  TcpInv'
BY DEF TcpInv

LEMMA AcceptorStep ==
    ASSUME TcpInv, Tcp!CheckShutdown \/ Tcp!AcceptNobody \/ Tcp!AcceptFails
    PROVE  TcpInv'
<1>1. tcpTier' = tcpTier /\ tcpShutdown' = tcpShutdown /\ tcpInflight' = tcpInflight
  BY DEF Tcp!CheckShutdown, Tcp!AcceptNobody, Tcp!AcceptFails
<1>2. \/ Tcp!EndAccepting
      \/ tcpConns' = tcpConns /\ tcpAcceptor' \in {"check", "accept", "ended"}
  BY DEF Tcp!CheckShutdown, Tcp!AcceptNobody, Tcp!AcceptFails
<1>3. QED
  BY <1>1, <1>2, EndAcceptingStep, LoopStep

LEMMA SignalStep ==
    ASSUME TcpInv, Tcp!SignalShutdown
    PROVE  TcpInv'
<1>1. /\ tcpShutdown' = TRUE /\ tcpTier' = tcpTier /\ tcpInflight' = tcpInflight
      /\ tcpAcceptor' = tcpAcceptor /\ tcpShutdown = FALSE
  <2>1. tcpShutdown \in BOOLEAN
    BY DEF TcpInv
  <2>2. QED
    BY <2>1 DEF Tcp!SignalShutdown
<1>2. CASE tcpAcceptor = "ended"
  <2>1. tcpConns' = tcpConns
    BY <1>2 DEF Tcp!SignalShutdown
  <2>2. QED
    BY <1>1, <2>1 DEF TcpInv
<1>3. CASE tcpAcceptor # "ended"
  <2>1. PICK f : f = Tcp!Fresh
    OBVIOUS
  <2>2. PICK d : d = [f EXCEPT !.cl = "error"]
    OBVIOUS
  <2>3. PICK e : e = [d EXCEPT !.srv = "queued"]
    OBVIOUS
  <2>4. tcpConns' = [tcpConns EXCEPT ![Waker] = e]
    BY <1>3, <2>1, <2>2, <2>3, Zenon DEF Tcp!SignalShutdown, Tcp!Set
  <2>5. f = Conn("idle", "ping", NoEntry, FALSE, "none", <<>>, <<>>, NoEntry, 0, NoEntry, FALSE)
    BY <2>1, FreshFields
  <2>6. d = Conn("error", "ping", NoEntry, FALSE, "none", <<>>, <<>>, NoEntry, 0,
                 NoEntry, FALSE)
    BY <2>2, <2>5 DEF Conn
  <2>7. e = Conn("error", "ping", NoEntry, FALSE, "queued", <<>>, <<>>, NoEntry, 0,
                 NoEntry, FALSE)
    BY <2>3, <2>6 DEF Conn
  <2>8. /\ IsConn(e) /\ e.cl = "error" /\ e.op = "ping" /\ e.srv = "queued" /\ e.resp = <<>>
        /\ e.got = NoEntry /\ e.applied = 0 /\ e.saw = NoEntry
    BY <2>7 DEF Conn, IsConn
  <2>9. ConnFits(e)
    BY <2>8 DEF ConnFits, TcpEntries
  <2>10. /\ tcpConns = [c \in TcpConns |-> tcpConns[c]] /\ Waker \in TcpConns
         /\ TcpCalls \subseteq TcpConns /\ Waker \notin TcpCalls
    BY TcpBounds DEF TcpInv, TcpConns
  <2>11. tcpConns'[Waker] = e /\ \A c \in TcpConns \ {Waker} : tcpConns'[c] = tcpConns[c]
    BY <2>4, <2>10
  <2>12. tcpConns' = [c \in TcpConns |-> tcpConns'[c]]
    BY <2>4, <2>10
  <2>13. tcpConns[Waker].srv = "none"
    BY <1>1 DEF TcpInv
  <2>14. InflightFits(tcpConns', tcpInflight')
    BY <1>1, <2>4, <2>8, <2>10, <2>13, HandlersStay DEF Active
  <2>15. LonelyFits(tcpConns', tcpTier')
    <3>1. \A c \in TcpCalls : tcpConns'[c] = tcpConns[c]
      BY <2>10, <2>11
    <3>2. QED
      BY <1>1, <3>1, LonelyStay
  <2>16. ASSUME NEW c \in TcpConns PROVE ConnFits(tcpConns'[c])
    BY <2>9, <2>11 DEF TcpInv
  <2>17. tcpTier \in TcpEntries /\ tcpAcceptor \in {"check", "accept", "ended"}
    BY DEF TcpInv
  <2>18. QED
    BY <1>1, <2>8, <2>11, <2>12, <2>14, <2>15, <2>16, <2>17 DEF TcpInv
<1>4. QED
  BY <1>2, <1>3

\* A new call: it stands alone if no put is pending, and a new put leaves nobody alone.
LEMMA ConnectStep ==
    ASSUME TcpInv, NEW c \in TcpCalls, NEW o \in Tcp!Ops, Tcp!Connect(c, o)
    PROVE  TcpInv'
<1>1. PICK w : w = ~\E e \in TcpCalls : Tcp!PutPending(e)
  OBVIOUS
<1>2. w = TRUE => \A e \in TcpCalls : ~Pending(tcpConns[e])
  <2>1. (w = TRUE) => ~\E e \in TcpCalls : Tcp!PutPending(e)
    BY <1>1, Zenon
  <2>2. \A e \in TcpCalls : Tcp!PutPending(e) <=> Pending(tcpConns[e])
    BY DEF Tcp!PutPending, Pending
  <2>3. QED
    BY <2>1, <2>2, Zenon
<1>3. PICK f : f = Tcp!Fresh
  OBVIOUS
<1>4. PICK g : g = [f EXCEPT !.cl = "connected", !.op = o.op, !.val = o.val,
                             !.srv = "queued", !.alone = w]
  OBVIOUS
<1>5. /\ tcpConns' = [d \in TcpConns |->
           IF d = c THEN g
           ELSE IF o.op = "put" THEN [tcpConns[d] EXCEPT !.alone = FALSE] ELSE tcpConns[d]]
      /\ tcpTier' = tcpTier /\ tcpShutdown' = tcpShutdown /\ tcpAcceptor' = tcpAcceptor
      /\ tcpInflight' = tcpInflight
  BY <1>1, <1>3, <1>4, TcpBounds, Zenon DEF Tcp!Connect
<1>6. o.op = "put" => o.val \in TcpValues
  BY DEF Tcp!Ops
<1>7. g = Conn("connected", o.op, o.val, FALSE, "queued", <<>>, <<>>, NoEntry, 0, NoEntry, w)
  <2>1. PICK p, v : p = o.op /\ v = o.val
    OBVIOUS
  <2>2. PICK d1 : d1 = [f EXCEPT !.cl = "connected"]
    OBVIOUS
  <2>3. PICK d2 : d2 = [d1 EXCEPT !.op = p]
    OBVIOUS
  <2>4. PICK d3 : d3 = [d2 EXCEPT !.val = v]
    OBVIOUS
  <2>5. PICK d4 : d4 = [d3 EXCEPT !.srv = "queued"]
    OBVIOUS
  <2>6. g = [d4 EXCEPT !.alone = w]
    BY <1>4, <2>1, <2>2, <2>3, <2>4, <2>5, Zenon
  <2>7. f = Conn("idle", "ping", NoEntry, FALSE, "none", <<>>, <<>>, NoEntry, 0, NoEntry, FALSE)
    BY <1>3, FreshFields
  <2>8. d1 = Conn("connected", "ping", NoEntry, FALSE, "none", <<>>, <<>>, NoEntry, 0,
                  NoEntry, FALSE)
    BY <2>2, <2>7 DEF Conn
  <2>9. d2 = Conn("connected", p, NoEntry, FALSE, "none", <<>>, <<>>, NoEntry, 0,
                  NoEntry, FALSE)
    BY <2>3, <2>8 DEF Conn
  <2>10. d3 = Conn("connected", p, v, FALSE, "none", <<>>, <<>>, NoEntry, 0, NoEntry, FALSE)
    BY <2>4, <2>9 DEF Conn
  <2>11. d4 = Conn("connected", p, v, FALSE, "queued", <<>>, <<>>, NoEntry, 0, NoEntry, FALSE)
    BY <2>5, <2>10 DEF Conn
  <2>12. g = Conn("connected", p, v, FALSE, "queued", <<>>, <<>>, NoEntry, 0, NoEntry, w)
    BY <2>6, <2>11 DEF Conn
  <2>13. QED
    BY <2>1, <2>12
<1>8. /\ IsConn(g) /\ g.cl = "connected" /\ g.op = o.op /\ g.val = o.val /\ g.srv = "queued"
      /\ g.resp = <<>> /\ g.got = NoEntry /\ g.applied = 0 /\ g.saw = NoEntry /\ g.alone = w
  BY <1>7 DEF Conn, IsConn
<1>9. ConnFits(g)
  BY <1>6, <1>8 DEF ConnFits, TcpEntries
<1>10. c \in TcpConns /\ Waker \in TcpConns /\ TcpCalls \subseteq TcpConns /\ Waker # c
  BY TcpBounds DEF TcpConns
<1>11. tcpConns'[c] = g
  BY <1>5, <1>10
<1>12. ASSUME NEW d \in TcpConns, d # c
       PROVE  /\ ConnFits(tcpConns'[d]) /\ tcpConns'[d].op = tcpConns[d].op
              /\ tcpConns'[d].srv = tcpConns[d].srv
              /\ tcpConns'[d].applied = tcpConns[d].applied
              /\ tcpConns'[d].alone = TRUE => tcpConns[d].alone = TRUE /\ o.op # "put"
  <2> DEFINE r == tcpConns[d]
  <2>1. ConnFits(r) /\ IsConn(r)
    BY ConnFacts
  <2>2. CASE o.op # "put"
    <3>1. tcpConns'[d] = r
      BY <1>5, <1>12, <2>2
    <3>2. QED
      BY <2>1, <2>2, <3>1
  <2>3. CASE o.op = "put"
    <3>1. PICK e : e = [r EXCEPT !.alone = FALSE]
      OBVIOUS
    <3>2. tcpConns'[d] = e
      BY <1>5, <1>12, <2>3, <3>1
    <3> HIDE DEF r
    <3>3. e = Conn(r.cl, r.op, r.val, r.sent, r.srv, r.out, r.resp, r.got, r.applied,
                   r.saw, FALSE)
      BY <2>1, <3>1, ConnWritten
    <3>4. /\ IsConn(e) /\ e.cl = r.cl /\ e.op = r.op /\ e.val = r.val /\ e.srv = r.srv
          /\ e.out = r.out /\ e.resp = r.resp /\ e.got = r.got /\ e.applied = r.applied
          /\ e.saw = r.saw /\ e.alone = FALSE
      BY <3>3 DEF Conn, IsConn
    <3>5. ConnFits(e)
      BY <2>1, <3>4 DEF ConnFits
    <3>6. QED
      BY <3>2, <3>4, <3>5 DEF r
  <2>4. QED
    BY <2>2, <2>3
<1>13. tcpConns' = [d \in TcpConns |-> tcpConns'[d]]
  BY <1>5
<1>14. ASSUME NEW d \in TcpConns PROVE ConnFits(tcpConns'[d])
  BY <1>9, <1>11, <1>12
<1>15. tcpConns'[Waker].op = "ping" /\ (tcpShutdown' = FALSE => tcpConns'[Waker].srv = "none")
  BY <1>5, <1>10, <1>12 DEF TcpInv
<1>16. LonelyFits(tcpConns', tcpTier')
  <2>1. ASSUME NEW e \in TcpCalls, e # c
        PROVE  Pending(tcpConns'[e]) <=> Pending(tcpConns[e])
    BY <1>10, <1>12, <2>1 DEF Pending
  <2>2. o.op # "put" => ~Pending(tcpConns'[c])
    BY <1>8, <1>11 DEF Pending
  <2>3. ASSUME NEW d \in TcpCalls, tcpConns'[d].op = "remove", tcpConns'[d].alone = TRUE
        PROVE  /\ \A e \in TcpCalls : ~Pending(tcpConns'[e])
               /\ tcpConns'[d].applied = 1 => tcpTier' = NoEntry
    <3>1. CASE d = c
      <4>1. w = TRUE /\ o.op # "put" /\ tcpConns'[d].applied = 0
        BY <1>8, <1>11, <2>3, <3>1
      <4>2. ASSUME NEW e \in TcpCalls PROVE ~Pending(tcpConns'[e])
        BY <1>2, <2>1, <2>2, <4>1
      <4>3. QED
        BY <4>1, <4>2
    <3>2. CASE d # c
      <4>1. /\ tcpConns[d].op = "remove" /\ tcpConns[d].alone = TRUE /\ o.op # "put"
            /\ tcpConns'[d].applied = tcpConns[d].applied
        BY <1>10, <1>12, <2>3, <3>2
      <4>2. LonelyFits(tcpConns, tcpTier)
        BY DEF TcpInv
      <4>3. /\ \A e \in TcpCalls : ~Pending(tcpConns[e])
            /\ tcpConns[d].applied = 1 => tcpTier = NoEntry
        BY <4>1, <4>2 DEF LonelyFits
      <4>4. ASSUME NEW e \in TcpCalls PROVE ~Pending(tcpConns'[e])
        BY <2>1, <2>2, <4>1, <4>3
      <4>5. QED
        BY <1>5, <4>1, <4>3, <4>4
    <3>3. QED
      BY <3>1, <3>2
  <2>4. QED
    BY <2>3 DEF LonelyFits
<1>17. tcpConns[c].srv = "none"
  <2>1. ConnFits(tcpConns[c]) /\ tcpConns[c].cl = "idle"
    BY <1>10, ConnFacts DEF Tcp!Connect
  <2>2. QED
    BY <2>1 DEF ConnFits
<1>18. HandlersOf(tcpConns') = HandlersOf(tcpConns)
  <2>1. ASSUME NEW d \in TcpConns PROVE tcpConns'[d].srv \in Active <=> tcpConns[d].srv \in Active
    BY <1>8, <1>11, <1>12, <1>17 DEF Active
  <2>2. QED
    BY <2>1 DEF HandlersOf
<1>19. InflightFits(tcpConns', tcpInflight')
  BY <1>5, <1>18 DEF TcpInv, InflightFits
<1>20. /\ tcpTier' \in TcpEntries /\ tcpShutdown' \in BOOLEAN
       /\ tcpAcceptor' \in {"check", "accept", "ended"}
  BY <1>5 DEF TcpInv
<1>21. QED
  BY <1>13, <1>14, <1>15, <1>16, <1>19, <1>20 DEF TcpInv

\* The handler calls the tier.  When it puts, its put was pending, so nobody is alone.
LEMMA ApplyStep ==
    ASSUME TcpInv, NEW c \in TcpConns, Tcp!Apply(c)
    PROVE  TcpInv'
<1> DEFINE r == tcpConns[c]
<1>1. /\ ConnFits(r) /\ IsConn(r) /\ r.srv = "apply" /\ r.applied = 0 /\ r.resp = <<>>
      /\ tcpTier \in TcpEntries
  BY ConnFacts DEF Tcp!Apply, ConnFits, Early
<1>2. PICK z : z = IF r.op # "get" THEN <<OkPart>>
                   ELSE IF tcpTier = NoEntry THEN <<MissPart>>
                   ELSE <<OkPart>> \o Tcp!EntryParts(tcpTier)
  OBVIOUS
<1>3. PICK d1, d2, d3 :
        /\ d1 = [r EXCEPT !.srv = "reply"] /\ d2 = [d1 EXCEPT !.applied = r.applied + 1]
        /\ d3 = [d2 EXCEPT !.saw = tcpTier]
  OBVIOUS
<1>4. PICK e : e = [d3 EXCEPT !.out = z]
  OBVIOUS
<1>5. tcpConns' = [tcpConns EXCEPT ![c] = e]
  BY <1>2, <1>3, <1>4, Zenon DEF Tcp!Apply, Tcp!Set, OkPart, MissPart, NoEntry
<1>6. /\ tcpShutdown' = tcpShutdown /\ tcpAcceptor' = tcpAcceptor /\ tcpInflight' = tcpInflight
      /\ tcpTier' = IF r.op = "put" THEN r.val ELSE IF r.op = "remove" THEN NoEntry ELSE tcpTier
  BY DEF Tcp!Apply, NoEntry
<1> HIDE DEF r
<1>7. e = Conn(r.cl, r.op, r.val, r.sent, "reply", z, r.resp, r.got, r.applied + 1,
               tcpTier, r.alone)
  <2>1. d1 = Conn(r.cl, r.op, r.val, r.sent, "reply", r.out, r.resp, r.got, r.applied,
                  r.saw, r.alone)
    BY <1>1, <1>3, ConnWritten
  <2>2. d2 = Conn(r.cl, r.op, r.val, r.sent, "reply", r.out, r.resp, r.got,
                  r.applied + 1, r.saw, r.alone)
    BY <1>3, <2>1 DEF Conn
  <2>3. d3 = Conn(r.cl, r.op, r.val, r.sent, "reply", r.out, r.resp, r.got,
                  r.applied + 1, tcpTier, r.alone)
    BY <1>3, <2>2 DEF Conn
  <2>4. QED
    BY <1>4, <2>3 DEF Conn
<1>8. /\ IsConn(e) /\ e.cl = r.cl /\ e.op = r.op /\ e.val = r.val /\ e.srv = "reply"
      /\ e.out = z /\ e.resp = r.resp /\ e.got = r.got /\ e.applied = r.applied + 1
      /\ e.saw = tcpTier /\ e.alone = r.alone
  BY <1>7 DEF Conn, IsConn
<1>9. Answering(r.op, tcpTier, <<>>, z)
  <2>1. CASE r.op # "get" \/ tcpTier = NoEntry
    BY <1>2, <2>1 DEF Answering
  <2>2. CASE r.op = "get" /\ tcpTier # NoEntry
    <3>1. PICK k, a, b, h : /\ k = OkPart /\ a = MetaPart(tcpTier)
                            /\ b = HeadPart(tcpTier) /\ h = RestPart(tcpTier)
      OBVIOUS
    <3>2. z = <<k>> \o <<a, b, h>>
      BY <1>2, <2>2, <3>1, EntryIs
    <3>3. z = <<k, a, b, h>>
      BY <3>2, ShortSequences
    <3>4. InEntry(k, a, b, h, <<>>, z)
      BY <3>3 DEF InEntry
    <3>5. tcpTier \in TcpValues
      BY <1>1, <2>2 DEF TcpEntries
    <3>6. QED
      BY <2>2, <3>1, <3>4, <3>5 DEF Answering
  <2>3. QED
    BY <2>1, <2>2
<1>10. ConnFits(e)
  <2>1. e.applied = 1
    BY <1>1, <1>8
  <2>2. e.cl # "ok" /\ e.cl # "idle"
    BY <1>1, <1>8 DEF ConnFits
  <2>3. QED
    BY <1>1, <1>8, <1>9, <2>1, <2>2 DEF ConnFits, Early
<1>11. tcpConns = [d \in TcpConns |-> tcpConns[d]]
  BY DEF TcpInv
<1>12. tcpConns'[c] = e /\ \A d \in TcpConns \ {c} : tcpConns'[d] = tcpConns[d]
  BY <1>5, <1>11
<1>13. tcpConns' = [d \in TcpConns |-> tcpConns'[d]]
  BY <1>5, <1>11
<1>14. ASSUME NEW d \in TcpConns PROVE ConnFits(tcpConns'[d])
  BY <1>10, <1>12 DEF TcpInv
<1>15. Waker \in TcpConns /\ TcpCalls \subseteq TcpConns
  BY DEF TcpConns
<1>16. /\ tcpConns[Waker].op = "ping" /\ (tcpShutdown = FALSE => tcpConns[Waker].srv = "none")
  BY DEF TcpInv
<1>17. tcpConns'[Waker].op = "ping" /\ (tcpShutdown' = FALSE => tcpConns'[Waker].srv = "none")
  BY <1>1, <1>6, <1>8, <1>12, <1>15, <1>16 DEF r
<1>18. LonelyFits(tcpConns', tcpTier')
  <2>1. c \notin TcpCalls => r.op = "ping"
    BY <1>16 DEF TcpConns, r
  <2>2. ASSUME NEW d \in TcpCalls, tcpConns'[d].op = "remove", tcpConns'[d].alone = TRUE
        PROVE  /\ \A f \in TcpCalls : ~Pending(tcpConns'[f])
               /\ tcpConns'[d].applied = 1 => tcpTier' = NoEntry
    <3>1. tcpConns[d].op = "remove" /\ tcpConns[d].alone = TRUE
      BY <1>8, <1>12, <1>15, <2>2 DEF r
    <3>2. LonelyFits(tcpConns, tcpTier)
      BY DEF TcpInv
    <3>3. /\ \A f \in TcpCalls : ~Pending(tcpConns[f])
          /\ tcpConns[d].applied = 1 => tcpTier = NoEntry
      BY <3>1, <3>2 DEF LonelyFits
    <3>4. r.op # "put"
      BY <1>1, <2>1, <3>3 DEF Pending, r
    <3>5. ~Pending(e)
      BY <1>8 DEF Pending
    <3>6. ASSUME NEW f \in TcpCalls PROVE ~Pending(tcpConns'[f])
      BY <1>12, <1>15, <3>3, <3>5
    <3>7. ASSUME tcpConns'[d].applied = 1 PROVE tcpTier' = NoEntry
      <4>1. CASE d = c
        BY <1>6, <3>1, <4>1 DEF r
      <4>2. CASE d # c
        BY <1>6, <1>12, <1>15, <3>3, <3>4, <3>7, <4>2
      <4>3. QED
        BY <4>1, <4>2
    <3>8. QED
      BY <3>6, <3>7
  <2>3. QED
    BY <2>2 DEF LonelyFits
<1>19. InflightFits(tcpConns', tcpInflight')
  BY <1>1, <1>5, <1>6, <1>8, HandlersStay DEF Active, r
<1>20. tcpTier' \in TcpEntries
  BY <1>1, <1>6 DEF ConnFits, TcpEntries
<1>21. tcpShutdown' \in BOOLEAN /\ tcpAcceptor' \in {"check", "accept", "ended"}
  BY <1>6 DEF TcpInv
<1>22. QED
  BY <1>13, <1>14, <1>17, <1>18, <1>19, <1>20, <1>21 DEF TcpInv

LEMMA TcpStep == TcpInv /\ [Tcp!Next]_tcpVars => TcpInv'
<1> SUFFICES ASSUME TcpInv, [Tcp!Next]_tcpVars PROVE TcpInv'
  OBVIOUS
<1>1. CASE UNCHANGED tcpVars
  BY <1>1 DEF tcpVars, TcpInv
<1>2. ASSUME NEW c \in TcpCalls, NEW o \in Tcp!Ops, Tcp!Connect(c, o) PROVE TcpInv'
  BY <1>2, ConnectStep
<1>3. ASSUME NEW c \in TcpConns,
             \/ Tcp!ConnectFails(c) \/ Tcp!Send(c) \/ Tcp!GiveUp(c) \/ Tcp!Receive(c)
      PROVE  TcpInv'
  BY <1>3, ConnectFailsStep, SendStep, GiveUpStep, ReceiveStep
<1>4. ASSUME NEW c \in TcpConns,
             \/ Tcp!Accept(c) \/ Tcp!ReadRequest(c) \/ Tcp!Apply(c) \/ Tcp!HandleFails(c)
      PROVE  TcpInv'
  BY <1>4, AcceptStep, ReadRequestStep, ApplyStep, HandleFailsStep
<1>5. ASSUME NEW c \in TcpConns,
             \/ Tcp!Reply(c) \/ Tcp!ReplyFails(c) \/ Tcp!ReplyError(c) \/ Tcp!Finish(c)
      PROVE  TcpInv'
  BY <1>5, ReplyStep, ReplyFailsStep, ReplyErrorStep, FinishStep
<1>6. ASSUME Tcp!CheckShutdown \/ Tcp!AcceptNobody \/ Tcp!AcceptFails PROVE TcpInv'
  BY <1>6, AcceptorStep
<1>7. ASSUME Tcp!SignalShutdown PROVE TcpInv'
  BY <1>7, SignalStep
<1>8. QED
  BY <1>1, <1>2, <1>3, <1>4, <1>5, <1>6, <1>7, TcpBounds DEF Tcp!Next

LEMMA TcpTurn == MCNext => [Tcp!Next]_tcpVars
BY DEF MCNext, Still

\* A call of the tcp tier that succeeds took effect once and returns what the served tier
\* did, a removal that stands alone holds, and inflight counts the handlers, for any calls,
\* entries and limits, whatever stalls, times out, is refused or is shut down; a get is
\* torn exactly when a server's write times out inside its payload.
THEOREM TcpKvTierAlwaysSafe == MCSpec => []TcpKvTierSafe
<1>1. MCInit => TcpInv
  BY TcpInit DEF MCInit
<1>2. TcpInv /\ [MCNext]_mcVars => TcpInv'
  <2>1. CASE UNCHANGED mcVars
    BY <2>1, TcpStep DEF mcVars
  <2>2. CASE MCNext
    BY <2>2, TcpTurn, TcpStep
  <2>3. QED
    BY <2>1, <2>2
<1>3. QED
  BY <1>1, <1>2, TcpSafety, PTL DEF MCSpec

-----------------------------------------------------------------------------
(* The controller: while a request is routed the sizes of the fleet are    *)
(* collected, so what refresh_metrics has read is one of them when it sets *)
(* the gauge; and what a prune has been told of since it read the clock is *)
(* younger than its reading.                                               *)

CtlPcs == {"check", "accept", "first", "headers", "heartbeat", "metrics", "setgauge", "render", "other",
           "respond", "ended"}
CtlRequests == {"heartbeat", "metrics", "other"}
WithNobody == {"check", "accept", "ended"}
ClientStates == {"away", "queued", "served", "answered", "dropped"}
FleetSizes == 0..Cardinality(Nodes)
CtlTimes == 0..MaxClock

Server(pc, client, request, timer, read, now, count, status) ==
    [pc |-> pc, client |-> client, request |-> request, timer |-> timer, read |-> read,
     now |-> now, count |-> count, status |-> status]

IsServer(t) == t = Server(t.pc, t.client, t.request, t.timer, t.read, t.now, t.count, t.status)

ServerFits(t) ==
    /\ IsServer(t)
    /\ t.pc \in CtlPcs /\ t.now \in CtlTimes /\ t.count \in FleetSizes
    /\ t.pc \in CtlRequests => t.request = t.pc

\* What the prune p knows of the fleet.
Pruner(pc, now, fresh) == [pc |-> pc, now |-> now, fresh |-> fresh]

PruneFits(p, fleet) ==
    /\ p = Pruner(p.pc, p.now, p.fresh) /\ p.now \in CtlTimes
    /\ \A n \in p.fresh : n \in DOMAIN fleet => fleet[n] >= p.now

ServedFits(t, at) == \A c \in Clients : at[c] = "served" <=> (t.client = c /\ t.pc \notin WithNobody)

ScrapeFits(t, shown, sizes) ==
    /\ t.pc = "setgauge" => t.count \in sizes
    /\ t.pc = "render" => shown \in sizes
    /\ (t.pc = "respond" /\ t.request = "metrics" /\ t.status = 200) => shown \in sizes

FleetInv ==
    /\ Fleet!IsMap(ctlNodes, Nodes, CtlTimes) /\ ctlClock \in CtlTimes
    /\ ctlBeats = [n \in Nodes |-> ctlBeats[n]]
    /\ \A n \in Nodes : ctlBeats[n].now \in CtlTimes
    /\ PruneFits(ctlPrune, ctlNodes)

CtlInv ==
    /\ FleetInv
    /\ ServerFits(ctlThread)
    /\ ctlClients \in [Clients -> ClientStates] /\ ServedFits(ctlThread, ctlClients)
    /\ ctlGauge \in FleetSizes /\ ScrapeFits(ctlThread, ctlGauge, ctlSeen)

LEMMA CtlBounds == MaxAge \in Nat /\ MaxClock \in Nat /\ IsFiniteSet(Nodes) /\ Cardinality(Nodes) \in Nat
BY MCAssumption, FS_CardinalityType DEF Fleet!ControllerAssumption, Fleet!IsFiniteSet, IsFiniteSet

LEMMA CtlSafety == CtlInv => Fleet!Safety
<1> SUFFICES ASSUME CtlInv PROVE Fleet!Safety
  OBVIOUS
<1>1. Fleet!TypeOK
  BY DEF CtlInv, FleetInv, ServerFits, Fleet!TypeOK, CtlPcs, CtlTimes, FleetSizes, ClientStates,
     Fleet!Cardinality, Cardinality
<1>2. Fleet!OneServed
  BY DEF CtlInv, ServedFits, Fleet!OneServed, WithNobody
<1>3. Fleet!GaugeFresh
  BY DEF CtlInv, ScrapeFits, Fleet!GaugeFresh
<1>4. QED
  BY <1>1, <1>2, <1>3 DEF Fleet!Safety

LEMMA CtlInit == Fleet!Init => CtlInv
<1> SUFFICES ASSUME Fleet!Init PROVE CtlInv
  OBVIOUS
<1>1. 0 \in CtlTimes /\ 0 \in FleetSizes
  BY CtlBounds DEF CtlTimes, FleetSizes
<1>2. DOMAIN ctlNodes = {} /\ ctlNodes = [k \in {} |-> ctlNodes[k]]
  BY DEF Fleet!Init, Fleet!NoEntries
<1>3. PICK p : p = Pruner("idle", 0, {})
  OBVIOUS
<1>4. p.now = 0 /\ p.fresh = {} /\ p = Pruner(p.pc, p.now, p.fresh) /\ ctlPrune = p
  BY <1>3 DEF Pruner, Fleet!Init, Fleet!IdlePrune
<1>5. ASSUME NEW n \in Nodes PROVE ctlBeats[n].now = 0
  BY DEF Fleet!Init, Fleet!IdleBeat
<1>6. FleetInv
  <2>1. Fleet!IsMap(ctlNodes, Nodes, CtlTimes)
    BY <1>2 DEF Fleet!IsMap
  <2>2. PruneFits(ctlPrune, ctlNodes)
    BY <1>1, <1>4 DEF PruneFits
  <2>3. ctlBeats = [n \in Nodes |-> ctlBeats[n]] /\ ctlClock \in CtlTimes
    BY <1>1 DEF Fleet!Init
  <2>4. QED
    BY <1>1, <1>5, <2>1, <2>2, <2>3 DEF FleetInv
<1>7. PICK t : t = Server("check", Fleet!None, "", 0, 0, 0, 0, 0)
  OBVIOUS
<1>8. IsServer(t) /\ t.pc = "check" /\ t.now = 0 /\ t.count = 0
  BY <1>7 DEF Server, IsServer
<1>9. ctlThread = t
  BY <1>7 DEF Fleet!Init, Fleet!IdleThread, Server
<1>10. ServerFits(t) /\ ServedFits(t, ctlClients) /\ ScrapeFits(t, ctlGauge, ctlSeen)
  BY <1>1, <1>8 DEF ServerFits, ServedFits, ScrapeFits, Fleet!Init, CtlPcs, CtlRequests, WithNobody
<1>11. ctlClients \in [Clients -> ClientStates] /\ ctlGauge \in FleetSizes
  BY <1>1 DEF Fleet!Init, ClientStates
<1>12. QED
  BY <1>6, <1>9, <1>10, <1>11 DEF CtlInv

\* While a request is routed the sizes are collected; an answer keeps them.
LEMMA SizesGrow ==
    ASSUME Fleet!SizesSeen
    PROVE  /\ /\ ctlThread.pc \in {"metrics", "setgauge", "render"} /\ ctlThread'.pc \in {"metrics", "setgauge", "render"}
              => ctlSeen \subseteq ctlSeen'
           /\ ctlThread'.pc \in {"metrics", "setgauge", "render"} => Cardinality(DOMAIN ctlNodes') \in ctlSeen'
           /\ ctlThread'.pc = "respond" => ctlSeen' = ctlSeen
BY DEF Fleet!SizesSeen, Fleet!Routing, Fleet!Cardinality, Cardinality

\* A step of the fleet: the thread stays where it is.
LEMMA FleetTurn ==
    ASSUME CtlInv, Fleet!SizesSeen, FleetInv', ctlThread' = ctlThread, ctlGauge' = ctlGauge,
           ctlClients' \in [Clients -> ClientStates], ServedFits(ctlThread', ctlClients')
    PROVE  CtlInv'
<1>1. ScrapeFits(ctlThread', ctlGauge', ctlSeen')
  <2>1. ctlThread.pc \in {"setgauge", "render"} => ctlSeen \subseteq ctlSeen'
    BY SizesGrow
  <2>2. ctlThread.pc = "respond" => ctlSeen' = ctlSeen
    BY SizesGrow
  <2>3. QED
    BY <2>1, <2>2 DEF CtlInv, ScrapeFits
<1>2. ServerFits(ctlThread') /\ ctlGauge' \in FleetSizes
  BY DEF CtlInv
<1>3. QED
  BY <1>1, <1>2 DEF CtlInv

\* A step of the thread: the fleet stays as it is.
LEMMA ThreadTurn ==
    ASSUME CtlInv, NEW t, ServerFits(t), ctlThread' = t, ctlGauge' \in FleetSizes,
           UNCHANGED Fleet!fleet, ctlClients' \in [Clients -> ClientStates],
           ServedFits(t, ctlClients'), ScrapeFits(t, ctlGauge', ctlSeen')
    PROVE  CtlInv'
<1>1. FleetInv'
  BY DEF CtlInv, FleetInv, Fleet!fleet
<1>2. QED
  BY <1>1 DEF CtlInv

LEMMA PruneWritten ==
    ASSUME NEW p, p = Pruner(p.pc, p.now, p.fresh), NEW x
    PROVE  /\ [p EXCEPT !.fresh = x] = Pruner(p.pc, p.now, x)
           /\ [p EXCEPT !.pc = x] = Pruner(x, p.now, p.fresh)
<1>1. PICK a, b, c : p = Pruner(a, b, c)
  BY Zenon
<1>2. QED
  BY <1>1 DEF Pruner

\* What is recorded with an old reading of the clock is no longer fresh.
LEMMA RecordTurn ==
    ASSUME CtlInv, NEW n \in Nodes, NEW now \in CtlTimes, Fleet!Record(n, now)
    PROVE  Fleet!IsMap(ctlNodes', Nodes, CtlTimes) /\ PruneFits(ctlPrune', ctlNodes')
<1>1. Fleet!IsMap(ctlNodes, Nodes, CtlTimes) /\ PruneFits(ctlPrune, ctlNodes)
  BY DEF CtlInv, FleetInv
<1>2. PICK fleet : fleet = ctlNodes'
  OBVIOUS
<1>3. /\ DOMAIN fleet = DOMAIN ctlNodes \cup {n} /\ fleet[n] = now
      /\ \A m \in DOMAIN ctlNodes : m # n => fleet[m] = ctlNodes[m]
      /\ fleet = [m \in DOMAIN fleet |-> fleet[m]]
  BY <1>2 DEF Fleet!Record, Fleet!With
<1>4. ASSUME NEW m \in DOMAIN fleet PROVE m \in Nodes /\ fleet[m] \in CtlTimes
  BY <1>1, <1>3 DEF Fleet!IsMap
<1>5. Fleet!IsMap(fleet, Nodes, CtlTimes)
  BY <1>3, <1>4 DEF Fleet!IsMap
<1>6. PICK fresh : fresh = IF now >= ctlPrune.now THEN ctlPrune.fresh \cup {n} ELSE ctlPrune.fresh \ {n}
  OBVIOUS
<1>7. ctlPrune' = [ctlPrune EXCEPT !.fresh = fresh]
  BY <1>6, Zenon DEF Fleet!Record
<1>8. PICK p : p = Pruner(ctlPrune.pc, ctlPrune.now, fresh)
  OBVIOUS
<1>9. p.now = ctlPrune.now /\ p.fresh = fresh /\ p = Pruner(p.pc, p.now, p.fresh)
  BY <1>8 DEF Pruner
<1>10. ctlPrune' = p
  BY <1>1, <1>7, <1>8, PruneWritten DEF PruneFits
<1>11. ASSUME NEW m \in fresh, m \in DOMAIN fleet PROVE fleet[m] >= ctlPrune.now
  <2>1. CASE m = n
    BY <1>3, <1>6, <2>1
  <2>2. CASE m # n
    BY <1>1, <1>3, <1>6, <1>11, <2>2 DEF PruneFits
  <2>3. QED
    BY <2>1, <2>2
<1>12. PruneFits(p, fleet)
  BY <1>1, <1>9, <1>11 DEF PruneFits
<1>13. QED
  BY <1>2, <1>5, <1>10, <1>12

LEMMA TickStep ==
    ASSUME CtlInv, Fleet!Tick, Fleet!SizesSeen
    PROVE  CtlInv'
<1>1. ctlClock' \in CtlTimes
  BY CtlBounds DEF CtlInv, FleetInv, Fleet!Tick, CtlTimes
<1>2. FleetInv'
  BY <1>1 DEF CtlInv, FleetInv, Fleet!Tick
<1>3. QED
  BY <1>2, FleetTurn DEF CtlInv, Fleet!Tick

LEMMA HeartbeatStep ==
    ASSUME CtlInv, NEW n \in Nodes, Fleet!Heartbeat(n), Fleet!SizesSeen
    PROVE  CtlInv'
<1>1. PICK b : b = [pc |-> "insert", now |-> ctlClock]
  OBVIOUS
<1>2. b.now \in CtlTimes
  BY <1>1 DEF CtlInv, FleetInv
<1>3. ctlBeats' = [ctlBeats EXCEPT ![n] = b]
  BY <1>1, Zenon DEF Fleet!Heartbeat
<1>4. ctlBeats = [m \in Nodes |-> ctlBeats[m]] /\ \A m \in Nodes : ctlBeats[m].now \in CtlTimes
  BY DEF CtlInv, FleetInv
<1>5. ctlBeats' = [m \in Nodes |-> ctlBeats'[m]] /\ \A m \in Nodes : ctlBeats'[m].now \in CtlTimes
  BY <1>2, <1>3, <1>4
<1>6. FleetInv'
  BY <1>5 DEF CtlInv, FleetInv, Fleet!Heartbeat
<1>7. QED
  BY <1>6, FleetTurn DEF CtlInv, Fleet!Heartbeat

LEMMA HeartbeatInsertStep ==
    ASSUME CtlInv, NEW n \in Nodes, Fleet!HeartbeatInsert(n), Fleet!SizesSeen
    PROVE  CtlInv'
<1>1. PICK b : b = Fleet!IdleBeat
  OBVIOUS
<1>2. b.now \in CtlTimes
  BY <1>1, CtlBounds DEF Fleet!IdleBeat, CtlTimes
<1>3. ctlBeats' = [ctlBeats EXCEPT ![n] = b]
  BY <1>1, Zenon DEF Fleet!HeartbeatInsert
<1>4. ctlBeats = [m \in Nodes |-> ctlBeats[m]] /\ \A m \in Nodes : ctlBeats[m].now \in CtlTimes
  BY DEF CtlInv, FleetInv
<1>5. ctlBeats' = [m \in Nodes |-> ctlBeats'[m]] /\ \A m \in Nodes : ctlBeats'[m].now \in CtlTimes
  BY <1>2, <1>3, <1>4
<1>6. Fleet!IsMap(ctlNodes', Nodes, CtlTimes) /\ PruneFits(ctlPrune', ctlNodes')
  BY <1>4, RecordTurn DEF Fleet!HeartbeatInsert
<1>7. FleetInv'
  BY <1>5, <1>6 DEF CtlInv, FleetInv, Fleet!HeartbeatInsert
<1>8. QED
  BY <1>7, FleetTurn DEF CtlInv, Fleet!HeartbeatInsert

LEMMA PruneStaleStep ==
    ASSUME CtlInv, Fleet!PruneStale, Fleet!SizesSeen
    PROVE  CtlInv'
<1>1. PICK p : p = Pruner("retain", ctlClock, {})
  OBVIOUS
<1>2. p.now = ctlClock /\ p.fresh = {} /\ p = Pruner(p.pc, p.now, p.fresh)
  BY <1>1 DEF Pruner
<1>3. ctlPrune' = p
  BY <1>1 DEF Fleet!PruneStale, Pruner
<1>4. PruneFits(ctlPrune', ctlNodes')
  BY <1>2, <1>3 DEF PruneFits, CtlInv, FleetInv
<1>5. FleetInv'
  BY <1>4 DEF CtlInv, FleetInv, Fleet!PruneStale
<1>6. QED
  BY <1>5, FleetTurn DEF CtlInv, Fleet!PruneStale

\* The fleet a prune leaves is a part of the one it found.
LEMMA PruneRetainStep ==
    ASSUME CtlInv, Fleet!PruneRetain, Fleet!SizesSeen
    PROVE  CtlInv'
<1>1. Fleet!IsMap(ctlNodes, Nodes, CtlTimes) /\ PruneFits(ctlPrune, ctlNodes)
  BY DEF CtlInv, FleetInv
<1>2. PICK fleet : fleet = ctlNodes'
  OBVIOUS
<1>3. PICK stale : stale = {n \in DOMAIN ctlNodes : Fleet!Age(ctlPrune.now, n) > MaxAge}
  OBVIOUS
<1>4. fleet = [n \in DOMAIN ctlNodes \ stale |-> ctlNodes[n]]
  BY <1>2, <1>3 DEF Fleet!PruneRetain, Fleet!Without
<1>5. Fleet!IsMap(fleet, Nodes, CtlTimes)
  BY <1>1, <1>4 DEF Fleet!IsMap
<1>6. PICK p : p = Pruner("idle", ctlPrune.now, ctlPrune.fresh)
  OBVIOUS
<1>7. p.now = ctlPrune.now /\ p.fresh = ctlPrune.fresh /\ p = Pruner(p.pc, p.now, p.fresh)
  BY <1>6 DEF Pruner
<1>8. ctlPrune' = p
  BY <1>1, <1>6, PruneWritten DEF Fleet!PruneRetain, PruneFits
<1>9. PruneFits(p, fleet)
  BY <1>1, <1>4, <1>7 DEF PruneFits
<1>10. FleetInv'
  BY <1>2, <1>5, <1>8, <1>9 DEF CtlInv, FleetInv, Fleet!PruneRetain
<1>11. QED
  BY <1>10, FleetTurn DEF CtlInv, Fleet!PruneRetain

\* Connections queue up, and the flag is raised.
LEMMA OutsideStep ==
    ASSUME CtlInv, (\E c \in Clients : Fleet!Connect(c)) \/ Fleet!Shutdown, Fleet!SizesSeen
    PROVE  CtlInv'
<1>1. FleetInv' /\ ctlThread' = ctlThread /\ ctlGauge' = ctlGauge
  BY DEF CtlInv, FleetInv, Fleet!Connect, Fleet!Shutdown
<1>2. CASE \E c \in Clients : Fleet!Connect(c)
  <2>1. PICK c \in Clients : Fleet!Connect(c)
    BY <1>2
  <2>2. ctlClients' \in [Clients -> ClientStates] /\ ServedFits(ctlThread', ctlClients')
    BY <1>1, <2>1 DEF CtlInv, ServedFits, ClientStates, Fleet!Connect
  <2>3. QED
    BY <1>1, <2>2, FleetTurn
<1>3. CASE Fleet!Shutdown
  BY <1>1, <1>3, FleetTurn DEF CtlInv, Fleet!Shutdown
<1>4. QED
  BY <1>2, <1>3

LEMMA ServerWritten ==
    ASSUME NEW r, IsServer(r), NEW x
    PROVE  /\ [r EXCEPT !.pc = x] = Server(x, r.client, r.request, r.timer, r.read, r.now, r.count, r.status)
           /\ [r EXCEPT !.timer = x] = Server(r.pc, r.client, r.request, x, r.read, r.now, r.count, r.status)
           /\ [r EXCEPT !.read = x] = Server(r.pc, r.client, r.request, r.timer, x, r.now, r.count, r.status)
<1>1. PICK a, b, c, d, e, f, g, h : r = Server(a, b, c, d, e, f, g, h)
  BY Zenon DEF IsServer
<1>2. QED
  BY <1>1 DEF Server

\* A thread record with some fields replaced.
LEMMA Accepts ==
    ASSUME NEW r, IsServer(r), NEW c
    PROVE  [r EXCEPT !.pc = "first", !.client = c]
             = Server("first", c, r.request, r.timer, r.read, r.now, r.count, r.status)
<1>1. PICK d : d = [r EXCEPT !.pc = "first"]
  OBVIOUS
<1>2. PICK e : e = [d EXCEPT !.client = c]
  OBVIOUS
<1>3. [r EXCEPT !.pc = "first", !.client = c] = e
  BY <1>1, <1>2, Zenon
<1>4. d = Server("first", r.client, r.request, r.timer, r.read, r.now, r.count, r.status)
  BY <1>1, ServerWritten
<1>5. e = Server("first", c, r.request, r.timer, r.read, r.now, r.count, r.status)
  BY <1>2, <1>4 DEF Server
<1>6. QED
  BY <1>3, <1>5

LEMMA HeaderRead ==
    ASSUME NEW r, IsServer(r), NEW x, NEW y
    PROVE  [r EXCEPT !.read = x, !.timer = y]
             = Server(r.pc, r.client, r.request, y, x, r.now, r.count, r.status)
<1>1. PICK d : d = [r EXCEPT !.read = x]
  OBVIOUS
<1>2. PICK e : e = [d EXCEPT !.timer = y]
  OBVIOUS
<1>3. [r EXCEPT !.read = x, !.timer = y] = e
  BY <1>1, <1>2, Zenon
<1>4. d = Server(r.pc, r.client, r.request, r.timer, x, r.now, r.count, r.status)
  BY <1>1, ServerWritten
<1>5. e = Server(r.pc, r.client, r.request, y, x, r.now, r.count, r.status)
  BY <1>2, <1>4 DEF Server
<1>6. QED
  BY <1>3, <1>5

LEMMA FirstRead ==
    ASSUME NEW r, IsServer(r), NEW x
    PROVE  [r EXCEPT !.pc = "headers", !.timer = x]
             = Server("headers", r.client, r.request, x, r.read, r.now, r.count, r.status)
<1>1. PICK d : d = [r EXCEPT !.pc = "headers"]
  OBVIOUS
<1>2. PICK e : e = [d EXCEPT !.timer = x]
  OBVIOUS
<1>3. [r EXCEPT !.pc = "headers", !.timer = x] = e
  BY <1>1, <1>2, Zenon
<1>4. d = Server("headers", r.client, r.request, r.timer, r.read, r.now, r.count, r.status)
  BY <1>1, ServerWritten
<1>5. e = Server("headers", r.client, r.request, x, r.read, r.now, r.count, r.status)
  BY <1>2, <1>4 DEF Server
<1>6. QED
  BY <1>3, <1>5

LEMMA Requests ==
    ASSUME NEW r, IsServer(r), NEW x, NEW y, NEW z
    PROVE  [r EXCEPT !.pc = x, !.request = y, !.now = z]
             = Server(x, r.client, y, r.timer, r.read, z, r.count, r.status)
<1>1. PICK d : d = [r EXCEPT !.pc = x]
  OBVIOUS
<1>2. PICK e : e = [d EXCEPT !.request = y]
  OBVIOUS
<1>3. PICK f : f = [e EXCEPT !.now = z]
  OBVIOUS
<1>4. [r EXCEPT !.pc = x, !.request = y, !.now = z] = f
  BY <1>1, <1>2, <1>3, Zenon
<1>5. d = Server(x, r.client, r.request, r.timer, r.read, r.now, r.count, r.status)
  BY <1>1, ServerWritten
<1>6. e = Server(x, r.client, y, r.timer, r.read, r.now, r.count, r.status)
  BY <1>2, <1>5 DEF Server
<1>7. f = Server(x, r.client, y, r.timer, r.read, z, r.count, r.status)
  BY <1>3, <1>6 DEF Server
<1>8. QED
  BY <1>4, <1>7

LEMMA Counted ==
    ASSUME NEW r, IsServer(r), NEW x, NEW y
    PROVE  [r EXCEPT !.pc = x, !.count = y]
             = Server(x, r.client, r.request, r.timer, r.read, r.now, y, r.status)
<1>1. PICK d : d = [r EXCEPT !.pc = x]
  OBVIOUS
<1>2. PICK e : e = [d EXCEPT !.count = y]
  OBVIOUS
<1>3. [r EXCEPT !.pc = x, !.count = y] = e
  BY <1>1, <1>2, Zenon
<1>4. d = Server(x, r.client, r.request, r.timer, r.read, r.now, r.count, r.status)
  BY <1>1, ServerWritten
<1>5. e = Server(x, r.client, r.request, r.timer, r.read, r.now, y, r.status)
  BY <1>2, <1>4 DEF Server
<1>6. QED
  BY <1>3, <1>5

LEMMA Answered ==
    ASSUME NEW r, IsServer(r), NEW x, NEW y
    PROVE  [r EXCEPT !.pc = x, !.status = y]
             = Server(x, r.client, r.request, r.timer, r.read, r.now, r.count, y)
<1>1. PICK d : d = [r EXCEPT !.pc = x]
  OBVIOUS
<1>2. PICK e : e = [d EXCEPT !.status = y]
  OBVIOUS
<1>3. [r EXCEPT !.pc = x, !.status = y] = e
  BY <1>1, <1>2, Zenon
<1>4. d = Server(x, r.client, r.request, r.timer, r.read, r.now, r.count, r.status)
  BY <1>1, ServerWritten
<1>5. e = Server(x, r.client, r.request, r.timer, r.read, r.now, r.count, y)
  BY <1>2, <1>4 DEF Server
<1>6. QED
  BY <1>3, <1>5

LEMMA ServerFields ==
    ASSUME NEW a, NEW b, NEW c, NEW d, NEW e, NEW f, NEW g, NEW h, NEW t,
           t = Server(a, b, c, d, e, f, g, h)
    PROVE  /\ IsServer(t) /\ t.pc = a /\ t.client = b /\ t.request = c /\ t.now = f
           /\ t.count = g /\ t.status = h
BY DEF Server, IsServer

\* The fields of the thread as it is.
LEMMA ThreadFacts ==
    ASSUME CtlInv
    PROVE  /\ IsServer(ctlThread) /\ ctlThread.pc \in CtlPcs /\ ctlThread.now \in CtlTimes
           /\ ctlThread.count \in FleetSizes /\ ServedFits(ctlThread, ctlClients)
           /\ ctlThread.pc \in CtlRequests => ctlThread.request = ctlThread.pc
           /\ ScrapeFits(ctlThread, ctlGauge, ctlSeen) /\ ctlGauge \in FleetSizes
           /\ ctlClients \in [Clients -> ClientStates]
BY DEF CtlInv, ServerFits

\* The thread goes on with its connection, and neither renders nor answers yet.
LEMMA ThreadGoesOn ==
    ASSUME CtlInv, NEW t, ServerFits(t), ctlThread' = t, t.client = ctlThread.client,
           t.pc \notin {"setgauge", "render", "respond"}, t.pc \in WithNobody <=> ctlThread.pc \in WithNobody,
           UNCHANGED <<Fleet!fleet, ctlClients, ctlGauge>>
    PROVE  CtlInv'
<1>1. ServedFits(t, ctlClients')
  BY ThreadFacts DEF ServedFits
<1>2. ScrapeFits(t, ctlGauge', ctlSeen')
  BY DEF ScrapeFits
<1>3. UNCHANGED Fleet!fleet
  OBVIOUS
<1>4. ctlClients' \in [Clients -> ClientStates] /\ ctlGauge' \in FleetSizes
  BY ThreadFacts
<1>5. QED
  BY <1>1, <1>2, <1>3, <1>4, ThreadTurn

\* Whatever becomes of the connection, nobody is served any more.
LEMMA ClosesStep ==
    ASSUME CtlInv, NEW how \in {"answered", "dropped"}, Fleet!Closes(how),
           UNCHANGED <<Fleet!fleet, ctlGauge>>
    PROVE  CtlInv'
<1>1. PICK t : t = Server("check", Fleet!None, "", 0, 0, 0, 0, 0)
  OBVIOUS
<1>2. IsServer(t) /\ t.pc = "check" /\ t.now = 0 /\ t.count = 0
  BY <1>1 DEF Server, IsServer
<1>3. ctlThread' = t
  BY <1>1 DEF Fleet!Closes, Fleet!IdleThread, Server
<1>4. 0 \in CtlTimes /\ 0 \in FleetSizes
  BY CtlBounds DEF CtlTimes, FleetSizes
<1>5. ServerFits(t) /\ ScrapeFits(t, ctlGauge', ctlSeen')
  BY <1>2, <1>4 DEF ServerFits, ScrapeFits, CtlPcs, CtlRequests
<1>6. ctlClients' \in [Clients -> ClientStates] /\ \A c \in Clients : ctlClients'[c] # "served"
  BY ThreadFacts DEF Fleet!Closes, ServedFits, ClientStates
<1>7. ServedFits(t, ctlClients')
  BY <1>2, <1>6 DEF ServedFits, WithNobody
<1>8. ctlGauge' \in FleetSizes /\ UNCHANGED Fleet!fleet
  BY ThreadFacts
<1>9. QED
  BY <1>3, <1>5, <1>6, <1>7, <1>8, ThreadTurn

LEMMA CheckStopStep ==
    ASSUME CtlInv, Fleet!CheckStop
    PROVE  CtlInv'
<1>1. PICK pc \in {"ended", "accept"} : ctlThread' = [ctlThread EXCEPT !.pc = pc]
  BY Zenon DEF Fleet!CheckStop
<1>2. PICK r : r = ctlThread
  OBVIOUS
<1>3. PICK t : t = Server(pc, r.client, r.request, r.timer, r.read, r.now, r.count, r.status)
  OBVIOUS
<1>4. ctlThread' = t
  BY <1>1, <1>2, <1>3, ServerWritten, ThreadFacts
<1>5. IsServer(t) /\ t.pc = pc /\ t.client = r.client /\ t.now = r.now /\ t.count = r.count
  BY <1>3, ServerFields
<1>6. ServerFits(t)
  BY <1>1, <1>2, <1>5, ThreadFacts DEF ServerFits, CtlPcs, CtlRequests
<1>7. QED
  BY <1>1, <1>2, <1>4, <1>5, <1>6, ThreadGoesOn DEF Fleet!CheckStop, WithNobody

LEMMA AcceptNobodyStep ==
    ASSUME CtlInv, Fleet!AcceptNobody
    PROVE  CtlInv'
<1>1. PICK r : r = ctlThread
  OBVIOUS
<1>2. PICK t : t = Server("check", r.client, r.request, r.timer, r.read, r.now, r.count, r.status)
  OBVIOUS
<1>3. ctlThread' = t
  BY <1>1, <1>2, ServerWritten, ThreadFacts DEF Fleet!AcceptNobody
<1>4. IsServer(t) /\ t.pc = "check" /\ t.client = r.client /\ t.now = r.now /\ t.count = r.count
  BY <1>2, ServerFields
<1>5. ServerFits(t)
  BY <1>1, <1>4, ThreadFacts DEF ServerFits, CtlPcs, CtlRequests
<1>6. QED
  BY <1>1, <1>3, <1>4, <1>5, ThreadGoesOn DEF Fleet!AcceptNobody, WithNobody

LEMMA TakesStep ==
    ASSUME CtlInv, NEW c \in Clients, Fleet!Accept(c)
    PROVE  CtlInv'
<1>1. PICK r : r = ctlThread
  OBVIOUS
<1>2. PICK t : t = Server("first", c, r.request, r.timer, r.read, r.now, r.count, r.status)
  OBVIOUS
<1>3. ctlThread' = t
  BY <1>1, <1>2, Accepts, ThreadFacts DEF Fleet!Accept
<1>4. IsServer(t) /\ t.pc = "first" /\ t.client = c /\ t.now = r.now /\ t.count = r.count
  BY <1>2, ServerFields
<1>5. ServerFits(t) /\ ScrapeFits(t, ctlGauge', ctlSeen')
  BY <1>1, <1>4, ThreadFacts DEF ServerFits, ScrapeFits, CtlPcs, CtlRequests
<1>6. \A d \in Clients : ctlClients[d] # "served"
  BY ThreadFacts DEF ServedFits, WithNobody, Fleet!Accept
<1>7. ctlClients' \in [Clients -> ClientStates] /\ \A d \in Clients : ctlClients'[d] = "served" <=> d = c
  BY <1>6, ThreadFacts DEF Fleet!Accept, ClientStates
<1>8. ServedFits(t, ctlClients')
  BY <1>4, <1>7 DEF ServedFits, WithNobody
<1>9. ctlGauge' \in FleetSizes /\ UNCHANGED Fleet!fleet
  BY ThreadFacts DEF Fleet!Accept
<1>10. QED
  BY <1>3, <1>5, <1>7, <1>8, <1>9, ThreadTurn

\* Silence, a part of a line, the first line, a header, a header: the thread reads on.
LEMMA ReadingStep ==
    ASSUME CtlInv, NEW pc \in {"first", "headers"}, NEW x, NEW y,
           ctlThread.pc \in {"first", "headers"},
           ctlThread' = Server(pc, ctlThread.client, ctlThread.request, x, y, ctlThread.now,
                               ctlThread.count, ctlThread.status),
           UNCHANGED <<Fleet!fleet, ctlClients, ctlGauge>>
    PROVE  CtlInv'
<1>1. PICK r : r = ctlThread
  OBVIOUS
<1>2. PICK t : t = Server(pc, r.client, r.request, x, y, r.now, r.count, r.status)
  OBVIOUS
<1>3. IsServer(t) /\ t.pc = pc /\ t.client = r.client /\ t.now = r.now /\ t.count = r.count
  BY <1>2, ServerFields
<1>4. ServerFits(t)
  BY <1>1, <1>3, ThreadFacts DEF ServerFits, CtlPcs, CtlRequests
<1>5. QED
  BY <1>1, <1>2, <1>3, <1>4, ThreadGoesOn DEF WithNobody

LEMMA ReadingSteps ==
    ASSUME CtlInv, Fleet!Silence \/ Fleet!ReadPart \/ Fleet!ReadTimeout \/ Fleet!ReadFirst
    PROVE  CtlInv'
<1>0. IsServer(ctlThread)
  BY ThreadFacts
<1>1. CASE Fleet!Silence
  <2>1. ctlThread' = [ctlThread EXCEPT !.timer = 1] /\ ctlThread.pc \in {"first", "headers"}
    BY <1>1 DEF Fleet!Silence, Fleet!Reading
  <2>2. UNCHANGED <<Fleet!fleet, ctlClients, ctlGauge>>
    BY <1>1 DEF Fleet!Silence
  <2>3. ctlThread' = Server(ctlThread.pc, ctlThread.client, ctlThread.request, 1, ctlThread.read, ctlThread.now,
                                 ctlThread.count, ctlThread.status)
    BY <1>0, <2>1, ServerWritten, Zenon
  <2>4. QED
    BY <2>1, <2>2, <2>3, ReadingStep
<1>2. CASE Fleet!ReadPart
  <2>1. ctlThread' = [ctlThread EXCEPT !.timer = 0] /\ ctlThread.pc \in {"first", "headers"}
    BY <1>2, Zenon DEF Fleet!ReadPart, Fleet!Reading
  <2>2. UNCHANGED <<Fleet!fleet, ctlClients, ctlGauge>>
    BY <1>2 DEF Fleet!ReadPart
  <2>3. ctlThread' = Server(ctlThread.pc, ctlThread.client, ctlThread.request, 0, ctlThread.read,
                                 ctlThread.now, ctlThread.count, ctlThread.status)
    BY <1>0, <2>1, ServerWritten, Zenon
  <2>4. ctlThread.pc \in {"first", "headers"}
    BY <2>1
  <2>5. QED
    BY <2>2, <2>3, <2>4, ReadingStep
<1>3. CASE Fleet!ReadTimeout
  BY <1>3, ClosesStep DEF Fleet!ReadTimeout
<1>4. CASE Fleet!ReadFirst
  <2>1. UNCHANGED <<Fleet!fleet, ctlGauge>> /\ ctlThread.pc = "first"
    BY <1>4 DEF Fleet!ReadFirst
  <2>2. CASE Fleet!Closes("dropped")
    BY <2>1, <2>2, ClosesStep
  <2>3. CASE ctlThread' = [ctlThread EXCEPT !.pc = "headers", !.timer = 0]
             /\ UNCHANGED ctlClients
    <3>1. ctlThread' = Server("headers", ctlThread.client, ctlThread.request, 0, ctlThread.read,
                                 ctlThread.now, ctlThread.count, ctlThread.status)
      BY <1>0, <2>3, FirstRead, Zenon
    <3>2. ctlThread.pc \in {"first", "headers"} /\ "headers" \in {"first", "headers"}
      BY <2>1
    <3>3. UNCHANGED <<Fleet!fleet, ctlClients, ctlGauge>>
      BY <2>1, <2>3
    <3>4. QED
      BY <3>1, <3>2, <3>3, ReadingStep
  <2>4. QED
    BY <1>4, <2>2, <2>3, Zenon DEF Fleet!ReadFirst
<1>5. QED
  BY <1>1, <1>2, <1>3, <1>4

\* An answer other than a scrape's.
LEMMA AnswersStep ==
    ASSUME CtlInv, NEW status, Fleet!Answer(status), ctlThread.pc \notin WithNobody,
           \/ status # 200 /\ UNCHANGED Fleet!fleet
           \/ ctlThread.request # "metrics" /\ FleetInv',
           UNCHANGED <<ctlClients, ctlGauge>>
    PROVE  CtlInv'
<1>1. PICK r : r = ctlThread
  OBVIOUS
<1>2. PICK t : t = Server("respond", r.client, r.request, r.timer, r.read, r.now, r.count, status)
  OBVIOUS
<1>3. ctlThread' = t
  <2>1. ctlThread' = [r EXCEPT !.pc = "respond", !.status = status]
    BY <1>1 DEF Fleet!Answer
  <2>2. IsServer(r)
    BY <1>1, ThreadFacts
  <2>3. [r EXCEPT !.pc = "respond", !.status = status] = t
    BY <1>2, <2>2, Answered
  <2>4. QED
    BY <2>1, <2>3
<1>4. /\ IsServer(t) /\ t.pc = "respond" /\ t.client = r.client /\ t.now = r.now
      /\ t.count = r.count /\ t.request = r.request /\ t.status = status
  BY <1>2, ServerFields
<1>5. ServerFits(t)
  BY <1>1, <1>4, ThreadFacts DEF ServerFits, CtlPcs, CtlRequests
<1>6. ScrapeFits(t, ctlGauge', ctlSeen')
  BY <1>1, <1>4 DEF ScrapeFits
<1>7. ServedFits(t, ctlClients')
  BY <1>1, <1>4, ThreadFacts DEF ServedFits, WithNobody
<1>8. FleetInv'
  BY DEF CtlInv, FleetInv, Fleet!fleet
<1>9. QED
  BY <1>3, <1>5, <1>6, <1>7, <1>8, ThreadFacts DEF CtlInv

LEMMA ReadHeaderStep ==
    ASSUME CtlInv, Fleet!ReadHeader, Fleet!SizesSeen
    PROVE  CtlInv'
<1>0. IsServer(ctlThread) /\ ctlThread.pc = "headers"
  BY ThreadFacts DEF Fleet!ReadHeader
<1>1. UNCHANGED <<Fleet!fleet, ctlClients, ctlGauge>>
  BY DEF Fleet!ReadHeader
<1>2. CASE ctlThread.read = MaxHeaders
  <2>1. PICK status : status = 431
    OBVIOUS
  <2>2. Fleet!Answer(status)
    BY <1>2, <2>1 DEF Fleet!ReadHeader, Fleet!Answer
  <2>3. status # 200 /\ UNCHANGED Fleet!fleet /\ UNCHANGED <<ctlClients, ctlGauge>>
    BY <1>1, <2>1
  <2>4. ctlThread.pc \notin WithNobody
    BY <1>0 DEF WithNobody
  <2>5. QED
    BY <2>2, <2>3, <2>4, AnswersStep
<1>3. CASE ctlThread.read # MaxHeaders
  <2>1. PICK y : y = ctlThread.read + 1
    OBVIOUS
  <2>2. ctlThread' = [ctlThread EXCEPT !.read = y, !.timer = 0]
    BY <1>3, <2>1, Zenon DEF Fleet!ReadHeader
  <2>3. ctlThread' = Server("headers", ctlThread.client, ctlThread.request, 0, y, ctlThread.now,
                            ctlThread.count, ctlThread.status)
    BY <1>0, <2>2, HeaderRead, Zenon
  <2>4. ctlThread.pc \in {"first", "headers"} /\ "headers" \in {"first", "headers"}
    BY <1>0
  <2>5. QED
    BY <1>1, <2>3, <2>4, ReadingStep
<1>4. QED
  BY <1>2, <1>3

LEMMA ReadEndStep ==
    ASSUME CtlInv, NEW request \in CtlRequests, Fleet!ReadEnd(request)
    PROVE  CtlInv'
<1>1. UNCHANGED <<Fleet!fleet, ctlGauge>> /\ ctlThread.pc = "headers"
  BY DEF Fleet!ReadEnd
<1>2. CASE Fleet!Closes("dropped")
  BY <1>1, <1>2, ClosesStep
<1>3. CASE ctlThread' = [ctlThread EXCEPT !.pc = request, !.request = request, !.now = ctlClock]
           /\ UNCHANGED ctlClients
  <2>1. PICK r : r = ctlThread
    OBVIOUS
  <2>2. PICK t : t = Server(request, r.client, request, r.timer, r.read, ctlClock, r.count, r.status)
    OBVIOUS
  <2>3. ctlThread' = t
    <3>1. ctlThread' = [r EXCEPT !.pc = request, !.request = request, !.now = ctlClock]
      BY <1>3, <2>1
    <3>2. IsServer(r)
      BY <2>1, ThreadFacts
    <3>3. [r EXCEPT !.pc = request, !.request = request, !.now = ctlClock] = t
      BY <2>2, <3>2, Requests
    <3>4. QED
      BY <3>1, <3>3
  <2>4. /\ IsServer(t) /\ t.pc = request /\ t.request = request /\ t.client = r.client
        /\ t.now = ctlClock /\ t.count = r.count
    BY <2>2, ServerFields
  <2>5. ctlClock \in CtlTimes
    BY DEF CtlInv, FleetInv
  <2>6. ServerFits(t)
    BY <2>1, <2>4, <2>5, ThreadFacts DEF ServerFits, CtlPcs, CtlRequests
  <2>7. QED
    BY <1>1, <1>3, <2>1, <2>3, <2>4, <2>6, ThreadGoesOn DEF WithNobody, CtlRequests
<1>4. QED
  BY <1>2, <1>3, Zenon DEF Fleet!ReadEnd

LEMMA RouteHeartbeatStep ==
    ASSUME CtlInv, NEW n \in Nodes, Fleet!RouteHeartbeat(n)
    PROVE  CtlInv'
<1>1. ctlThread.now \in CtlTimes /\ ctlThread.pc = "heartbeat" /\ ctlThread.request = "heartbeat"
  BY ThreadFacts DEF Fleet!RouteHeartbeat, CtlRequests
<1>2. Fleet!IsMap(ctlNodes', Nodes, CtlTimes) /\ PruneFits(ctlPrune', ctlNodes')
  BY <1>1, RecordTurn DEF Fleet!RouteHeartbeat
<1>3. FleetInv'
  BY <1>2 DEF CtlInv, FleetInv, Fleet!RouteHeartbeat
<1>4. PICK status : status = 200 /\ Fleet!Answer(status)
  BY DEF Fleet!RouteHeartbeat
<1>5. ctlThread.pc \notin WithNobody /\ ctlThread.request # "metrics"
  BY <1>1 DEF WithNobody
<1>6. UNCHANGED <<ctlClients, ctlGauge>>
  BY DEF Fleet!RouteHeartbeat
<1>7. QED
  BY <1>3, <1>4, <1>5, <1>6, AnswersStep

LEMMA RouteOtherStep ==
    ASSUME CtlInv, Fleet!RouteOther
    PROVE  CtlInv'
<1>1. PICK status : Fleet!Answer(status)
  BY DEF Fleet!RouteOther
<1>2. ctlThread.pc \notin WithNobody /\ ctlThread.request # "metrics"
  BY ThreadFacts DEF Fleet!RouteOther, CtlRequests, WithNobody
<1>3. FleetInv' /\ UNCHANGED <<ctlClients, ctlGauge>>
  BY DEF CtlInv, FleetInv, Fleet!RouteOther, Fleet!fleet
<1>4. QED
  BY <1>1, <1>2, <1>3, AnswersStep

\* The fleet is read: its size is one of those that are collected.
LEMMA RefreshStep ==
    ASSUME CtlInv, Fleet!RefreshMetrics, Fleet!SizesSeen
    PROVE  CtlInv'
<1>1. PICK size : size = Cardinality(DOMAIN ctlNodes)
  OBVIOUS
<1>2. size \in FleetSizes
  <2>1. DOMAIN ctlNodes \subseteq Nodes
    BY DEF CtlInv, FleetInv, Fleet!IsMap
  <2>2. IsFiniteSet(DOMAIN ctlNodes) /\ Cardinality(DOMAIN ctlNodes) <= Cardinality(Nodes)
    BY <2>1, CtlBounds, FS_Subset
  <2>3. QED
    BY <1>1, <2>2, CtlBounds, FS_CardinalityType DEF FleetSizes
<1>3. PICK r : r = ctlThread
  OBVIOUS
<1>4. PICK t : t = Server("setgauge", r.client, r.request, r.timer, r.read, r.now, size, r.status)
  OBVIOUS
<1>5. ctlThread' = t
  <2>1. ctlThread' = [r EXCEPT !.pc = "setgauge", !.count = size]
    BY <1>1, <1>3, Zenon DEF Fleet!RefreshMetrics, Fleet!Cardinality, Cardinality
  <2>2. IsServer(r)
    BY <1>3, ThreadFacts
  <2>3. [r EXCEPT !.pc = "setgauge", !.count = size] = t
    BY <1>4, <2>2, Counted, Zenon
  <2>4. QED
    BY <2>1, <2>3
<1>6. IsServer(t) /\ t.pc = "setgauge" /\ t.client = r.client /\ t.now = r.now /\ t.count = size
  BY <1>4, ServerFields
<1>7. ctlThread.pc = "metrics" /\ ctlNodes' = ctlNodes
  BY DEF Fleet!RefreshMetrics, Fleet!fleet
<1>8. ServerFits(t) /\ ServedFits(t, ctlClients')
  BY <1>2, <1>3, <1>6, <1>7, ThreadFacts
     DEF ServerFits, ServedFits, CtlPcs, CtlRequests, WithNobody, Fleet!RefreshMetrics
<1>9. Cardinality(DOMAIN ctlNodes') \in ctlSeen'
  BY <1>5, <1>6, SizesGrow
<1>10. ScrapeFits(t, ctlGauge', ctlSeen')
  BY <1>1, <1>6, <1>7, <1>9 DEF ScrapeFits
<1>11. UNCHANGED Fleet!fleet /\ ctlClients' \in [Clients -> ClientStates] /\ ctlGauge' \in FleetSizes
  BY ThreadFacts DEF Fleet!RefreshMetrics
<1>12. QED
  BY <1>5, <1>8, <1>10, <1>11, ThreadTurn

\* The gauge is set to the size that was read, however old it is by now.
LEMMA SetGaugeStep ==
    ASSUME CtlInv, Fleet!SetGauge, Fleet!SizesSeen
    PROVE  CtlInv'
<1>1. PICK r : r = ctlThread
  OBVIOUS
<1>2. PICK t : t = Server("render", r.client, r.request, r.timer, r.read, r.now, r.count, r.status)
  OBVIOUS
<1>3. ctlThread' = t
  <2>1. ctlThread' = [r EXCEPT !.pc = "render"]
    BY <1>1, Zenon DEF Fleet!SetGauge
  <2>2. IsServer(r)
    BY <1>1, ThreadFacts
  <2>3. [r EXCEPT !.pc = "render"] = t
    BY <1>2, <2>2, ServerWritten
  <2>4. QED
    BY <2>1, <2>3
<1>4. IsServer(t) /\ t.pc = "render" /\ t.client = r.client /\ t.now = r.now /\ t.count = r.count
  BY <1>2, ServerFields
<1>5. ctlThread.pc = "setgauge" /\ ctlGauge' = r.count
  BY <1>1 DEF Fleet!SetGauge
<1>6. ServerFits(t) /\ ServedFits(t, ctlClients')
  BY <1>1, <1>4, <1>5, ThreadFacts
     DEF ServerFits, ServedFits, CtlPcs, CtlRequests, WithNobody, Fleet!SetGauge
<1>7. ctlSeen \subseteq ctlSeen'
  BY <1>3, <1>4, <1>5, SizesGrow
<1>8. r.count \in ctlSeen /\ r.count \in FleetSizes
  BY <1>1, <1>5, ThreadFacts DEF ScrapeFits
<1>9. ScrapeFits(t, ctlGauge', ctlSeen')
  BY <1>4, <1>5, <1>7, <1>8 DEF ScrapeFits
<1>10. UNCHANGED Fleet!fleet /\ ctlClients' \in [Clients -> ClientStates] /\ ctlGauge' \in FleetSizes
  BY <1>5, <1>8, ThreadFacts DEF Fleet!SetGauge
<1>11. QED
  BY <1>3, <1>6, <1>9, <1>10, ThreadTurn

LEMMA RenderStep ==
    ASSUME CtlInv, Fleet!Render, Fleet!SizesSeen
    PROVE  CtlInv'
<1>1. PICK r : r = ctlThread
  OBVIOUS
<1>0. PICK status : status = 200
  OBVIOUS
<1>2. PICK t : t = Server("respond", r.client, r.request, r.timer, r.read, r.now, r.count, status)
  OBVIOUS
<1>3. ctlThread' = t
  <2>1. ctlThread' = [r EXCEPT !.pc = "respond", !.status = status]
    BY <1>0, <1>1, Zenon DEF Fleet!Render, Fleet!Answer
  <2>2. IsServer(r)
    BY <1>1, ThreadFacts
  <2>3. [r EXCEPT !.pc = "respond", !.status = status] = t
    BY <1>2, <2>2, Answered
  <2>4. QED
    BY <2>1, <2>3
<1>4. IsServer(t) /\ t.pc = "respond" /\ t.client = r.client /\ t.now = r.now /\ t.count = r.count
  BY <1>2, ServerFields
<1>5. ctlThread.pc = "render" /\ ctlGauge' = ctlGauge
  BY DEF Fleet!Render
<1>6. ServerFits(t) /\ ServedFits(t, ctlClients')
  BY <1>1, <1>4, <1>5, ThreadFacts
     DEF ServerFits, ServedFits, CtlPcs, CtlRequests, WithNobody, Fleet!Render
<1>7. ctlSeen' = ctlSeen
  BY <1>3, <1>4, SizesGrow
<1>8. ScrapeFits(t, ctlGauge', ctlSeen')
  BY <1>4, <1>5, <1>7, ThreadFacts DEF ScrapeFits
<1>9. UNCHANGED Fleet!fleet /\ ctlClients' \in [Clients -> ClientStates] /\ ctlGauge' \in FleetSizes
  BY <1>5, ThreadFacts DEF Fleet!Render
<1>10. QED
  BY <1>3, <1>6, <1>8, <1>9, ThreadTurn

LEMMA RespondStep ==
    ASSUME CtlInv, Fleet!Respond
    PROVE  CtlInv'
BY ClosesStep DEF Fleet!Respond

LEMMA CtlStep == CtlInv /\ [Fleet!Next]_ctlVars => CtlInv'
<1> SUFFICES ASSUME CtlInv, [Fleet!Next]_ctlVars PROVE CtlInv'
  OBVIOUS
<1>1. CASE UNCHANGED ctlVars
  BY <1>1 DEF ctlVars, CtlInv, FleetInv
<1>2. ASSUME Fleet!SizesSeen, Fleet!Tick \/ Fleet!PruneStale \/ Fleet!PruneRetain PROVE CtlInv'
  BY <1>2, TickStep, PruneStaleStep, PruneRetainStep
<1>3. ASSUME Fleet!SizesSeen, NEW n \in Nodes,
             Fleet!Heartbeat(n) \/ Fleet!HeartbeatInsert(n) \/ Fleet!RouteHeartbeat(n)
      PROVE  CtlInv'
  BY <1>3, HeartbeatStep, HeartbeatInsertStep, RouteHeartbeatStep
<1>4. ASSUME Fleet!SizesSeen, (\E c \in Clients : Fleet!Connect(c)) \/ Fleet!Shutdown PROVE CtlInv'
  BY <1>4, OutsideStep
<1>5. ASSUME NEW c \in Clients, Fleet!Accept(c) PROVE CtlInv'
  BY <1>5, TakesStep
<1>6. ASSUME Fleet!Silence \/ Fleet!ReadPart \/ Fleet!ReadTimeout \/ Fleet!ReadFirst PROVE CtlInv'
  BY <1>6, ReadingSteps
<1>7. ASSUME NEW request \in CtlRequests, Fleet!ReadEnd(request) PROVE CtlInv'
  BY <1>7, ReadEndStep
<1>8. ASSUME Fleet!SizesSeen,
             \/ Fleet!CheckStop \/ Fleet!AcceptNobody \/ Fleet!ReadHeader
             \/ Fleet!RefreshMetrics \/ Fleet!SetGauge \/ Fleet!Render \/ Fleet!RouteOther \/ Fleet!Respond
      PROVE  CtlInv'
  BY <1>8, CheckStopStep, AcceptNobodyStep, ReadHeaderStep, RefreshStep, SetGaugeStep,
     RenderStep,
     RouteOtherStep, RespondStep
<1>9. CASE Fleet!Next
  <2>1. Fleet!SizesSeen /\ Fleet!Step
    BY <1>9 DEF Fleet!Next
  <2>2. QED
    BY <1>2, <1>3, <1>4, <1>5, <1>6, <1>7, <1>8, <2>1 DEF Fleet!Step, CtlRequests
<1>10. QED
  BY <1>1, <1>9

LEMMA CtlTurn == MCNext => [Fleet!Next]_ctlVars
BY DEF MCNext, Still

\* Only prune_stale takes nodes from the fleet, and what it takes is older than its
\* reading of the clock.
LEMMA PruneTakesStale ==
    ASSUME CtlInv, [Fleet!Next]_ctlVars, NEW n \in DOMAIN ctlNodes \ DOMAIN ctlNodes'
    PROVE  n \notin ctlPrune.fresh /\ ctlPrune.now - ctlNodes[n] > MaxAge
<1>1. CASE Fleet!PruneRetain
  <2>1. PICK stale : stale = {m \in DOMAIN ctlNodes : Fleet!Age(ctlPrune.now, m) > MaxAge}
    OBVIOUS
  <2>2. ctlNodes' = [m \in DOMAIN ctlNodes \ stale |-> ctlNodes[m]]
    BY <1>1, <2>1 DEF Fleet!PruneRetain, Fleet!Without
  <2>3. Fleet!Age(ctlPrune.now, n) > MaxAge
    BY <2>1, <2>2
  <2>4. PICK now \in Int, seen \in Int : now = ctlPrune.now /\ seen = ctlNodes[n]
    BY CtlBounds DEF CtlInv, FleetInv, PruneFits, Fleet!IsMap, CtlTimes
  <2>5. now - seen > MaxAge
    BY <2>3, <2>4, CtlBounds DEF Fleet!Age, Fleet!SaturatingSub
  <2>6. ~(seen >= now)
    BY <2>4, <2>5, CtlBounds
  <2>7. n \notin ctlPrune.fresh
    BY <2>4, <2>6 DEF CtlInv, FleetInv, PruneFits
  <2>8. QED
    BY <2>4, <2>5, <2>7
<1>2. CASE ctlNodes' = ctlNodes
  BY <1>2
<1>3. ASSUME NEW m, NEW now, Fleet!Record(m, now) PROVE FALSE
  BY <1>3 DEF Fleet!Record, Fleet!With
<1>4. CASE UNCHANGED ctlVars
  BY <1>2, <1>4 DEF ctlVars
<1>5. ASSUME Fleet!Step PROVE Fleet!PruneRetain \/ ctlNodes' = ctlNodes \/ \E m, now : Fleet!Record(m, now)
  <2>1. ASSUME NEW m \in Nodes, Fleet!HeartbeatInsert(m) \/ Fleet!RouteHeartbeat(m)
        PROVE  \E now : Fleet!Record(m, now)
    BY <2>1 DEF Fleet!HeartbeatInsert, Fleet!RouteHeartbeat
  <2>2. ASSUME \/ Fleet!Tick \/ Fleet!PruneStale \/ \E m \in Nodes : Fleet!Heartbeat(m)
               \/ \E c \in Clients : Fleet!Connect(c) \/ Fleet!Accept(c)
               \/ Fleet!Shutdown \/ Fleet!CheckStop \/ Fleet!AcceptNobody
        PROVE  ctlNodes' = ctlNodes
    BY <2>2 DEF Fleet!Tick, Fleet!PruneStale, Fleet!Heartbeat, Fleet!Connect, Fleet!Accept,
       Fleet!Shutdown, Fleet!CheckStop, Fleet!AcceptNobody, Fleet!fleet
  <2>3. ASSUME \/ Fleet!Silence \/ Fleet!ReadTimeout \/ Fleet!ReadPart \/ Fleet!ReadFirst
               \/ Fleet!ReadHeader \/ \E request \in CtlRequests : Fleet!ReadEnd(request)
               \/ Fleet!RefreshMetrics \/ Fleet!SetGauge \/ Fleet!Render \/ Fleet!RouteOther \/ Fleet!Respond
        PROVE  ctlNodes' = ctlNodes
    BY <2>3 DEF Fleet!Silence, Fleet!ReadTimeout, Fleet!ReadPart, Fleet!ReadFirst, Fleet!ReadHeader,
       Fleet!ReadEnd, Fleet!RefreshMetrics, Fleet!SetGauge, Fleet!Render, Fleet!RouteOther, Fleet!Respond, Fleet!fleet
  <2>4. QED
    BY <1>5, <2>1, <2>2, <2>3, Zenon DEF Fleet!Step, CtlRequests
<1>6. QED
  BY <1>1, <1>2, <1>3, <1>4, <1>5 DEF Fleet!Next

\* One connection is served at a time, a scrape shows a size the fleet had while the
\* request was routed, and prune_stale takes no node heard of since it read the clock, for
\* any nodes, clients, ages and clocks: ControllerServer and FleetRegistry.
THEOREM ControllerAlwaysSafe == MCSpec => ControllerSafe
<1> DEFINE Taken == \A n \in DOMAIN ctlNodes \ DOMAIN ctlNodes' :
                      n \notin ctlPrune.fresh /\ ctlPrune.now - ctlNodes[n] > MaxAge
<1>1. MCInit => CtlInv
  BY CtlInit DEF MCInit
<1>2. [MCNext]_mcVars => [Fleet!Next]_ctlVars
  BY CtlTurn DEF mcVars
<1>3. CtlInv /\ [MCNext]_mcVars => CtlInv'
  BY <1>2, CtlStep
<1>4. CtlInv /\ [MCNext]_mcVars => [Taken]_Fleet!vars
  BY <1>2, PruneTakesStale
<1>5. CtlInv => (part = "controller" => Fleet!Safety)
  BY CtlSafety
<1>6. QED
  BY <1>1, <1>3, <1>4, <1>5, PTL DEF MCSpec, ControllerSafe, Fleet!PrunedWereStale

-----------------------------------------------------------------------------
(* The metrics: the counters of requests and the histograms of durations   *)
(* have keys that no gauge and no other counter has, so they never meet an *)
(* entry of another kind and move exactly when a thread reports.           *)

MetricKinds == {"counter", "gauge", "histogram"}
CallPcs == {"idle", "bytes", "requests", "micros"}

Metric(kind, value, sum, buckets) == [kind |-> kind, value |-> value, sum |-> sum, buckets |-> buckets]

IsMetric(e) == e = Metric(e.kind, e.value, e.sum, e.buckets)

MetricFits(e) ==
    /\ IsMetric(e)
    /\ e.kind \in MetricKinds /\ e.value \in Nat /\ e.sum \in Nat
    /\ e.buckets \in [Registry!Buckets -> Nat]
    /\ e.kind = "histogram" =>
         /\ \A i, j \in Registry!Buckets : i < j => e.buckets[i] <= e.buckets[j]
         /\ e.buckets[Len(Limits) + 1] = e.value

Report(pc, op, status, bytes, micros) ==
    [pc |-> pc, op |-> op, status |-> status, bytes |-> bytes, micros |-> micros]

IsReport(c) == c = Report(c.pc, c.op, c.status, c.bytes, c.micros)

ReportFits(c) ==
    /\ IsReport(c)
    /\ c.pc \in CallPcs /\ c.bytes \in Nat /\ c.micros \in Nat
    /\ c.pc # "idle" => c.op \in Operations /\ c.status \in Registry!Statuses

\* The threads that have a request, or a duration, of op to report.
Waiting(reports, op) == {t \in Threads : reports[t].op = op /\ reports[t].pc \in {"bytes", "requests"}}
Telling(reports, op) == {t \in Threads : reports[t].op = op /\ reports[t].pc \in {"micros"}}

RanWith(ran, op, status) == {f \in ran : f.op = op /\ f.status = status}

Shown(key) == Registry!Value(key)
OkKey(op) == Registry!RequestKey(op, "ok")
ErrorKey(op) == Registry!RequestKey(op, "error")
TimeKey(op) == Registry!MicrosKey(op)

Accounted(op) ==
    /\ Shown(OkKey(op)) + Shown(ErrorKey(op))
         = Shown(TimeKey(op)) + Cardinality(Telling(metCalls, op))
    /\ Shown(OkKey(op)) + Shown(ErrorKey(op)) + Cardinality(Waiting(metCalls, op))
         = Cardinality(RanWith(metFinished, op, "ok")) + Cardinality(RanWith(metFinished, op, "error"))

MetricsFit ==
    /\ metMetrics = [k \in DOMAIN metMetrics |-> metMetrics[k]]
    /\ \A k \in DOMAIN metMetrics : MetricFits(metMetrics[k])
    /\ \A k \in DOMAIN metMetrics : k[1] = "requests" => metMetrics[k].kind = "counter"
    /\ \A k \in DOMAIN metMetrics : k[1] = "micros" => metMetrics[k].kind = "histogram"

CallsFit ==
    /\ metCalls = [t \in Threads |-> metCalls[t]]
    /\ \A t \in Threads : ReportFits(metCalls[t])
    /\ metStarted \in Nat /\ IsFiniteSet(metFinished)
    /\ \A f \in metFinished : f.id \in Nat /\ f.id <= metStarted

RegInv == MetricsFit /\ CallsFit /\ \A op \in Operations : Accounted(op)

LEMMA RegBounds ==
    /\ Durations \subseteq Nat /\ BlockSizes \subseteq Nat /\ IsFiniteSet(Threads)
    /\ Limits \in Seq(Nat) /\ Len(Limits) \in Nat
    /\ \A k \in GaugeKeys : k[1] \notin {"requests", "micros"}
    /\ \A i, j \in 1..Len(Limits) : i < j => Limits[i] < Limits[j]
    /\ Registry!Buckets = 1..(Len(Limits) + 1)
BY MCAssumption DEF Registry!RegistryAssumption, Registry!Buckets, Registry!IsFiniteSet, IsFiniteSet

LEMMA RegCardinality == ASSUME NEW S PROVE Registry!Cardinality(S) = Cardinality(S)
BY DEF Registry!Cardinality, Cardinality

\* The places of a key, and what tells two keys apart.
LEMMA KeyParts ==
    ASSUME NEW op, NEW status
    PROVE  /\ Registry!RequestKey(op, status)[1] = "requests"
           /\ Registry!RequestKey(op, status)[2] = op
           /\ Registry!RequestKey(op, status)[3] = status
           /\ Registry!MicrosKey(op)[1] = "micros" /\ Registry!MicrosKey(op)[2] = op
           /\ Registry!ByteKey(op)[1] = "bytes"
BY DEF Registry!RequestKey, Registry!MicrosKey, Registry!ByteKey

LEMMA ShownType == ASSUME MetricsFit, NEW k PROVE Shown(k) \in Nat
BY DEF MetricsFit, MetricFits, Shown, Registry!Value

LEMMA RegSafety == RegInv => Registry!Safety
<1> SUFFICES ASSUME RegInv PROVE Registry!Safety
  OBVIOUS
<1>1. Registry!TypeOK
  BY DEF RegInv, MetricsFit, MetricFits, CallsFit, ReportFits, Registry!TypeOK, CallPcs, MetricKinds
<1>2. Registry!HistogramCumulative
  BY DEF RegInv, MetricsFit, MetricFits, Registry!HistogramCumulative
<1>3. Registry!RequestsAccounted
  <2> SUFFICES ASSUME NEW op \in Operations
               PROVE  /\ Registry!Requests(op)
                           = Registry!Value(Registry!MicrosKey(op)) + Registry!Reporting(op, {"micros"})
                      /\ Registry!Requests(op) + Registry!Reporting(op, {"bytes", "requests"})
                           = Registry!Ran(op, "ok") + Registry!Ran(op, "error")
    BY DEF Registry!RequestsAccounted
  <2>1. Accounted(op)
    BY DEF RegInv
  <2>2. /\ Registry!Reporting(op, {"micros"}) = Cardinality(Telling(metCalls, op))
        /\ Registry!Reporting(op, {"bytes", "requests"}) = Cardinality(Waiting(metCalls, op))
    BY RegCardinality, Zenon DEF Registry!Reporting, Telling, Waiting
  <2>3. ASSUME NEW status PROVE Registry!Ran(op, status) = Cardinality(RanWith(metFinished, op, status))
    BY RegCardinality, Zenon DEF Registry!Ran, RanWith
  <2>4. Registry!Requests(op) = Shown(OkKey(op)) + Shown(ErrorKey(op))
    BY DEF Registry!Requests, Shown, OkKey, ErrorKey
  <2>5. QED
    BY <2>1, <2>2, <2>3, <2>4 DEF Accounted, TimeKey, Shown
<1>4. QED
  BY <1>1, <1>2, <1>3 DEF Registry!Safety

LEMMA RegInit == Registry!Init => RegInv
<1> SUFFICES ASSUME Registry!Init PROVE RegInv
  OBVIOUS
<1>1. DOMAIN metMetrics = {} /\ metMetrics = [k \in DOMAIN metMetrics |-> metMetrics[k]]
  BY DEF Registry!Init, Registry!NoEntries
<1>2. MetricsFit
  BY <1>1 DEF MetricsFit
<1>3. PICK c : c = Report("idle", "", "", 0, 0)
  OBVIOUS
<1>4. ReportFits(c) /\ c.pc = "idle"
  BY <1>3 DEF Report, ReportFits, IsReport, CallPcs
<1>5. metCalls = [t \in Threads |-> c]
  BY <1>3 DEF Registry!Init, Registry!Idle, Report
<1>6. metCalls = [t \in Threads |-> metCalls[t]] /\ \A t \in Threads : metCalls[t] = c
  BY <1>5
<1>7. metFinished = {} /\ metStarted = 0 /\ IsFiniteSet(metFinished)
  BY FS_EmptySet DEF Registry!Init
<1>8. CallsFit
  BY <1>4, <1>6, <1>7 DEF CallsFit
<1>9. ASSUME NEW op \in Operations PROVE Accounted(op)
  <2>1. Waiting(metCalls, op) = {} /\ Telling(metCalls, op) = {}
    BY <1>4, <1>6 DEF Waiting, Telling
  <2>2. RanWith(metFinished, op, "ok") = {} /\ RanWith(metFinished, op, "error") = {}
    BY <1>7 DEF RanWith
  <2>3. \A k : Shown(k) = 0
    BY <1>1 DEF Shown, Registry!Value
  <2>4. Cardinality({}) = 0
    BY FS_EmptySet
  <2>5. QED
    BY <2>1, <2>2, <2>3, <2>4 DEF Accounted
<1>10. QED
  BY <1>2, <1>8, <1>9 DEF RegInv

-----------------------------------------------------------------------------
\* A metric that is written, or left alone because it is of another kind.
LEMMA MetricUpdated ==
    ASSUME MetricsFit, NEW k, NEW e, Registry!Update(k, e), e.kind \in MetricKinds,
           Registry!Entry(k, e.kind).kind = e.kind => MetricFits(e),
           k[1] = "requests" => e.kind = "counter", k[1] = "micros" => e.kind = "histogram"
    PROVE  /\ MetricsFit'
           /\ \A j : j # k => Shown(j)' = Shown(j)
           /\ k[1] \in {"requests", "micros"} => Shown(k)' = e.value
           /\ \A j \in DOMAIN metMetrics : j \in DOMAIN metMetrics'
                                           /\ metMetrics'[j].kind = metMetrics[j].kind
<1>1. PICK old : old = Registry!Entry(k, e.kind)
  OBVIOUS
<1>2. k \in DOMAIN metMetrics => old = metMetrics[k]
  BY <1>1 DEF Registry!Entry
<1>3. k \notin DOMAIN metMetrics => old.kind = e.kind
  BY <1>1 DEF Registry!Entry, Registry!Fresh
<1>4. k[1] \in {"requests", "micros"} => old.kind = e.kind
  BY <1>2, <1>3 DEF MetricsFit
<1>5. CASE old.kind # e.kind
  <2>1. metMetrics' = metMetrics
    BY <1>1, <1>5 DEF Registry!Update
  <2>2. MetricsFit' /\ \A j : Shown(j)' = Shown(j)
    BY <2>1 DEF MetricsFit, Shown, Registry!Value
  <2>3. QED
    BY <1>4, <1>5, <2>1, <2>2
<1>6. CASE old.kind = e.kind
  <2>1. PICK m : m = metMetrics'
    OBVIOUS
  <2>2. m = [j \in DOMAIN metMetrics \cup {k} |-> IF j = k THEN e ELSE metMetrics[j]]
    BY <1>1, <1>6, <2>1 DEF Registry!Update, Registry!With
  <2>3. /\ DOMAIN m = DOMAIN metMetrics \cup {k} /\ m = [j \in DOMAIN m |-> m[j]] /\ m[k] = e
        /\ \A j \in DOMAIN metMetrics : j # k => m[j] = metMetrics[j]
    BY <2>2
  <2>4. MetricFits(e)
    BY <1>1, <1>6
  <2>5. MetricsFit'
    BY <2>1, <2>3, <2>4 DEF MetricsFit
  <2>6. \A j : j # k => Shown(j)' = Shown(j)
    BY <2>1, <2>3 DEF Shown, Registry!Value
  <2>7. Shown(k)' = e.value
    BY <2>1, <2>3 DEF Shown, Registry!Value
  <2>8. \A j \in DOMAIN metMetrics : j \in DOMAIN m /\ m[j].kind = metMetrics[j].kind
    BY <1>2, <1>6, <2>3
  <2>9. QED
    BY <2>1, <2>5, <2>6, <2>7, <2>8
<1>7. QED
  BY <1>5, <1>6

LEMMA EntryFits ==
    ASSUME MetricsFit, NEW k, NEW kind \in MetricKinds, NEW r, r = Registry!Entry(k, kind)
    PROVE  MetricFits(r) /\ Shown(k) = r.value
<1>1. CASE k \in DOMAIN metMetrics
  BY <1>1 DEF Registry!Entry, MetricsFit, Shown, Registry!Value
<1>2. CASE k \notin DOMAIN metMetrics
  <2>1. PICK buckets : buckets = [b \in Registry!Buckets |-> 0]
    OBVIOUS
  <2>2. r = Metric(kind, 0, 0, buckets)
    BY <1>2, <2>1 DEF Registry!Entry, Registry!Fresh, Metric
  <2>3. IsMetric(r) /\ r.kind = kind /\ r.value = 0 /\ r.sum = 0 /\ r.buckets = buckets
    BY <2>2 DEF Metric, IsMetric
  <2>4. buckets \in [Registry!Buckets -> Nat] /\ \A b \in Registry!Buckets : buckets[b] = 0
    BY <2>1
  <2>5. Len(Limits) + 1 \in Registry!Buckets
    BY RegBounds
  <2>6. MetricFits(r)
    BY <2>3, <2>4, <2>5 DEF MetricFits
  <2>7. QED
    BY <1>2, <2>3, <2>6 DEF Shown, Registry!Value
<1>3. QED
  BY <1>1, <1>2

\* inc_counter: a counter goes up by delta.
LEMMA CounterGrows ==
    ASSUME MetricsFit, NEW k, NEW delta \in Nat, Registry!IncCounter(k, delta), k[1] # "micros"
    PROVE  /\ MetricsFit'
           /\ \A j : j # k => Shown(j)' = Shown(j)
           /\ k[1] = "requests" => Shown(k)' = Shown(k) + delta
           /\ \A j \in DOMAIN metMetrics : j \in DOMAIN metMetrics'
                                           /\ metMetrics'[j].kind = metMetrics[j].kind
<1>1. PICK r : r = Registry!Entry(k, "counter")
  OBVIOUS
<1>2. MetricFits(r) /\ Shown(k) = r.value
  BY <1>1, EntryFits DEF MetricKinds
<1>3. PICK v \in Nat : v = r.value + delta
  BY <1>2 DEF MetricFits
<1>4. PICK d : d = [r EXCEPT !.kind = "counter"]
  OBVIOUS
<1>5. PICK e : e = [d EXCEPT !.value = v]
  OBVIOUS
<1>6. PICK a, b, c, f : r = Metric(a, b, c, f)
  BY <1>2, Zenon DEF MetricFits, IsMetric
<1>7. d = Metric("counter", b, c, f)
  BY <1>4, <1>6 DEF Metric
<1>8. e = Metric("counter", v, c, f)
  BY <1>5, <1>7 DEF Metric
<1>9. r.value = b /\ r.sum = c /\ r.buckets = f
  BY <1>6 DEF Metric
<1>10. IsMetric(e) /\ e.kind = "counter" /\ e.value = v /\ e.sum = c /\ e.buckets = f
  BY <1>8 DEF Metric, IsMetric
<1>11. MetricFits(e)
  BY <1>2, <1>9, <1>10 DEF MetricFits, MetricKinds
<1>12. Registry!Update(k, e)
  <2>1. Registry!Update(k, [r EXCEPT !.kind = "counter", !.value = r.value + delta])
    BY <1>1, Zenon DEF Registry!IncCounter
  <2>2. e = [r EXCEPT !.kind = "counter", !.value = r.value + delta]
    BY <1>3, <1>4, <1>5, Zenon
  <2>3. QED
    BY <2>1, <2>2, Zenon
<1>13. /\ MetricsFit'
       /\ \A j : j # k => Shown(j)' = Shown(j)
       /\ k[1] \in {"requests", "micros"} => Shown(k)' = e.value
       /\ \A j \in DOMAIN metMetrics : j \in DOMAIN metMetrics'
                                       /\ metMetrics'[j].kind = metMetrics[j].kind
  BY <1>10, <1>11, <1>12, MetricUpdated DEF MetricKinds
<1>14. QED
  BY <1>2, <1>3, <1>10, <1>13

\* set_gauge, under a name that no counter of requests and no histogram has.
LEMMA GaugeSet ==
    ASSUME MetricsFit, NEW k \in GaugeKeys, NEW v \in {0, 1}, Registry!SetGauge(k, v)
    PROVE  /\ MetricsFit'
           /\ \A j : j[1] \in {"requests", "micros"} => Shown(j)' = Shown(j)
           /\ \A j \in DOMAIN metMetrics : j \in DOMAIN metMetrics'
                                           /\ metMetrics'[j].kind = metMetrics[j].kind
<1>1. PICK r : r = Registry!Entry(k, "gauge")
  OBVIOUS
<1>2. MetricFits(r)
  BY <1>1, EntryFits DEF MetricKinds
<1>4. PICK d : d = [r EXCEPT !.kind = "gauge"]
  OBVIOUS
<1>5. PICK e : e = [d EXCEPT !.value = v]
  OBVIOUS
<1>6. PICK a, b, c, f : r = Metric(a, b, c, f)
  BY <1>2, Zenon DEF MetricFits, IsMetric
<1>7. d = Metric("gauge", b, c, f)
  BY <1>4, <1>6 DEF Metric
<1>8. e = Metric("gauge", v, c, f)
  BY <1>5, <1>7 DEF Metric
<1>9. r.sum = c /\ r.buckets = f
  BY <1>6 DEF Metric
<1>10. IsMetric(e) /\ e.kind = "gauge" /\ e.value = v /\ e.sum = c /\ e.buckets = f
  BY <1>8 DEF Metric, IsMetric
<1>11. MetricFits(e)
  BY <1>2, <1>9, <1>10 DEF MetricFits, MetricKinds
<1>12. Registry!Update(k, e)
  <2>1. Registry!Update(k, [r EXCEPT !.kind = "gauge", !.value = v])
    BY <1>1, Zenon DEF Registry!SetGauge
  <2>2. e = [r EXCEPT !.kind = "gauge", !.value = v]
    BY <1>4, <1>5, Zenon
  <2>3. QED
    BY <2>1, <2>2, Zenon
<1>13. k[1] \notin {"requests", "micros"}
  BY RegBounds
<1>14. /\ MetricsFit'
       /\ \A j : j # k => Shown(j)' = Shown(j)
       /\ \A j \in DOMAIN metMetrics : j \in DOMAIN metMetrics'
                                       /\ metMetrics'[j].kind = metMetrics[j].kind
  BY <1>10, <1>11, <1>12, <1>13, MetricUpdated DEF MetricKinds
<1>15. QED
  BY <1>13, <1>14

\* The buckets a duration falls into are those from some bucket on.
LEMMA BucketsGrow ==
    ASSUME NEW e, MetricFits(e), e.kind = "histogram", NEW micros \in Nat, NEW buckets,
           buckets = [b \in Registry!Buckets |-> IF Registry!FallsIn(b, micros) THEN e.buckets[b] + 1
                                                 ELSE e.buckets[b]]
    PROVE  /\ buckets \in [Registry!Buckets -> Nat]
           /\ \A i, j \in Registry!Buckets : i < j => buckets[i] <= buckets[j]
           /\ buckets[Len(Limits) + 1] = e.value + 1
<1>1. PICK old : old = e.buckets
  OBVIOUS
<1>2. /\ old \in [Registry!Buckets -> Nat] /\ old[Len(Limits) + 1] = e.value
      /\ \A i, j \in Registry!Buckets : i < j => old[i] <= old[j]
  BY <1>1 DEF MetricFits
<1>3. ASSUME NEW b \in Registry!Buckets
      PROVE  buckets[b] = IF Registry!FallsIn(b, micros) THEN old[b] + 1 ELSE old[b]
  BY <1>1
<1>4. ASSUME NEW i \in Registry!Buckets, NEW j \in Registry!Buckets, i < j, Registry!FallsIn(i, micros)
      PROVE  Registry!FallsIn(j, micros)
  <2>1. i \in 1..Len(Limits) /\ micros <= Limits[i] /\ Limits[i] \in Nat
    BY <1>4, RegBounds DEF Registry!FallsIn
  <2>2. CASE j = Len(Limits) + 1
    BY <2>2 DEF Registry!FallsIn
  <2>3. CASE j # Len(Limits) + 1
    <3>1. j \in 1..Len(Limits)
      BY <2>3, RegBounds
    <3>2. Limits[i] < Limits[j] /\ Limits[j] \in Nat
      BY <1>4, <2>1, <3>1, RegBounds
    <3>3. QED
      BY <2>1, <3>2 DEF Registry!FallsIn
  <2>4. QED
    BY <2>2, <2>3
<1>5. buckets \in [Registry!Buckets -> Nat]
  BY <1>1, <1>2
<1>6. ASSUME NEW i \in Registry!Buckets, NEW j \in Registry!Buckets, i < j
      PROVE  buckets[i] <= buckets[j]
  <2>1. old[i] <= old[j] /\ old[i] \in Nat /\ old[j] \in Nat
    BY <1>2, <1>6
  <2>2. QED
    BY <1>3, <1>4, <1>6, <2>1
<1>7. Len(Limits) + 1 \in Registry!Buckets /\ Registry!FallsIn(Len(Limits) + 1, micros)
  BY RegBounds DEF Registry!FallsIn
<1>8. QED
  BY <1>2, <1>3, <1>5, <1>6, <1>7

\* observe_micros: a histogram counts one more duration.
LEMMA HistogramGrows ==
    ASSUME MetricsFit, NEW k, NEW micros \in Nat, Registry!ObserveMicros(k, micros), k[1] = "micros"
    PROVE  /\ MetricsFit'
           /\ \A j : j # k => Shown(j)' = Shown(j)
           /\ Shown(k)' = Shown(k) + 1
           /\ \A j \in DOMAIN metMetrics : j \in DOMAIN metMetrics'
                                           /\ metMetrics'[j].kind = metMetrics[j].kind
<1>1. PICK r : r = Registry!Entry(k, "histogram")
  OBVIOUS
<1>2. MetricFits(r) /\ Shown(k) = r.value
  BY <1>1, EntryFits DEF MetricKinds
<1>3. PICK v \in Nat : v = r.value + 1
  BY <1>2 DEF MetricFits
<1>4. PICK w \in Nat : w = r.sum + micros
  BY <1>2 DEF MetricFits
<1>5. PICK buckets : buckets = [b \in Registry!Buckets |-> IF Registry!FallsIn(b, micros)
                                                          THEN r.buckets[b] + 1 ELSE r.buckets[b]]
  OBVIOUS
<1>6. PICK d : d = [r EXCEPT !.kind = "histogram"]
  OBVIOUS
<1>7. PICK g : g = [d EXCEPT !.value = v]
  OBVIOUS
<1>8. PICK h : h = [g EXCEPT !.sum = w]
  OBVIOUS
<1>9. PICK e : e = [h EXCEPT !.buckets = buckets]
  OBVIOUS
<1>10. PICK a, b, c, f : r = Metric(a, b, c, f)
  BY <1>2, Zenon DEF MetricFits, IsMetric
<1>11. d = Metric("histogram", b, c, f)
  BY <1>6, <1>10 DEF Metric
<1>12. g = Metric("histogram", v, c, f)
  BY <1>7, <1>11 DEF Metric
<1>13. h = Metric("histogram", v, w, f)
  BY <1>8, <1>12 DEF Metric
<1>14. e = Metric("histogram", v, w, buckets)
  BY <1>9, <1>13 DEF Metric
<1>15. IsMetric(e) /\ e.kind = "histogram" /\ e.value = v /\ e.sum = w /\ e.buckets = buckets
  BY <1>14 DEF Metric, IsMetric
<1>16. Registry!Entry(k, "histogram").kind = "histogram" => MetricFits(e)
  <2> SUFFICES ASSUME r.kind = "histogram" PROVE MetricFits(e)
    BY <1>1
  <2>1. /\ buckets \in [Registry!Buckets -> Nat]
        /\ \A i, j \in Registry!Buckets : i < j => buckets[i] <= buckets[j]
        /\ buckets[Len(Limits) + 1] = r.value + 1
    BY <1>2, <1>5, BucketsGrow
  <2>2. QED
    BY <1>3, <1>4, <1>15, <2>1 DEF MetricFits, MetricKinds
<1>17. Registry!Update(k, e)
  <2>1. Registry!Update(k, [r EXCEPT !.kind = "histogram", !.value = r.value + 1, !.sum = r.sum + micros,
                                     !.buckets = buckets])
    BY <1>1, <1>5, Zenon DEF Registry!ObserveMicros
  <2>2. e = [r EXCEPT !.kind = "histogram", !.value = r.value + 1, !.sum = r.sum + micros,
                      !.buckets = buckets]
    BY <1>3, <1>4, <1>6, <1>7, <1>8, <1>9, Zenon
  <2>3. QED
    BY <2>1, <2>2, Zenon
<1>18. /\ MetricsFit'
       /\ \A j : j # k => Shown(j)' = Shown(j)
       /\ k[1] \in {"requests", "micros"} => Shown(k)' = e.value
       /\ \A j \in DOMAIN metMetrics : j \in DOMAIN metMetrics'
                                       /\ metMetrics'[j].kind = metMetrics[j].kind
  BY <1>15, <1>16, <1>17, MetricUpdated DEF MetricKinds
<1>19. QED
  BY <1>2, <1>3, <1>15, <1>18

-----------------------------------------------------------------------------
\* A thread goes on to its next report.
LEMMA ReportTurn ==
    ASSUME CallsFit, NEW t \in Threads, NEW c, ReportFits(c), Registry!Becomes(t, c),
           UNCHANGED <<metFinished, metStarted>>
    PROVE  CallsFit'
<1>1. metCalls = [s \in Threads |-> metCalls[s]] /\ \A s \in Threads : ReportFits(metCalls[s])
  BY DEF CallsFit
<1>2. metCalls' = [metCalls EXCEPT ![t] = c]
  BY DEF Registry!Becomes
<1>3. metCalls' = [s \in Threads |-> metCalls'[s]] /\ \A s \in Threads : ReportFits(metCalls'[s])
  BY <1>1, <1>2
<1>4. QED
  BY <1>3 DEF CallsFit

\* Where the thread is now, and where everyone else still is.
LEMMA ReportMoves ==
    ASSUME CallsFit, NEW t \in Threads, NEW c, Registry!Becomes(t, c), NEW op
    PROVE  /\ Waiting(metCalls', op) = (Waiting(metCalls, op) \ {t})
                \cup {s \in {t} : c.op = op /\ c.pc \in {"bytes", "requests"}}
           /\ Telling(metCalls', op) = (Telling(metCalls, op) \ {t})
                \cup {s \in {t} : c.op = op /\ c.pc \in {"micros"}}
           /\ t \in Waiting(metCalls, op) <=> (metCalls[t].op = op /\ metCalls[t].pc \in {"bytes", "requests"})
           /\ t \in Telling(metCalls, op) <=> (metCalls[t].op = op /\ metCalls[t].pc \in {"micros"})
<1>1. metCalls = [s \in Threads |-> metCalls[s]] /\ metCalls' = [metCalls EXCEPT ![t] = c]
  BY DEF CallsFit, Registry!Becomes
<1>2. metCalls'[t] = c /\ \A s \in Threads \ {t} : metCalls'[s] = metCalls[s]
  BY <1>1
<1>3. QED
  BY <1>2 DEF Waiting, Telling

LEMMA ReportingFinite ==
    ASSUME NEW reports, NEW op
    PROVE  /\ IsFiniteSet(Waiting(reports, op)) /\ Cardinality(Waiting(reports, op)) \in Nat
           /\ IsFiniteSet(Telling(reports, op)) /\ Cardinality(Telling(reports, op)) \in Nat
<1>1. Waiting(reports, op) \subseteq Threads /\ Telling(reports, op) \subseteq Threads
  BY DEF Waiting, Telling
<1>2. QED
  BY <1>1, RegBounds, FS_Subset, FS_CardinalityType

LEMMA RanFinite ==
    ASSUME NEW ran, IsFiniteSet(ran), NEW op, NEW status
    PROVE  IsFiniteSet(RanWith(ran, op, status)) /\ Cardinality(RanWith(ran, op, status)) \in Nat
<1>1. RanWith(ran, op, status) \subseteq ran
  BY DEF RanWith
<1>2. QED
  BY <1>1, FS_Subset, FS_CardinalityType

\* A step after which the same metrics are shown and as many are being reported.
LEMMA AccountedSame ==
    ASSUME NEW op, Accounted(op), Shown(OkKey(op))' = Shown(OkKey(op)),
           Shown(ErrorKey(op))' = Shown(ErrorKey(op)), Shown(TimeKey(op))' = Shown(TimeKey(op)),
           Waiting(metCalls', op) = Waiting(metCalls, op), Telling(metCalls', op) = Telling(metCalls, op),
           metFinished' = metFinished
    PROVE  Accounted(op)'
BY DEF Accounted

\* The record of an operation whose inner call has returned, and what it has to report.
LEMMA ReportWritten ==
    ASSUME NEW r, IsReport(r), NEW x
    PROVE  [r EXCEPT !.pc = x] = Report(x, r.op, r.status, r.bytes, r.micros)
<1>1. PICK a, b, c, d, e : r = Report(a, b, c, d, e)
  BY Zenon DEF IsReport
<1>2. QED
  BY <1>1 DEF Report

LEMMA ReportFields ==
    ASSUME NEW a, NEW b, NEW c, NEW d, NEW e, NEW r, r = Report(a, b, c, d, e)
    PROVE  IsReport(r) /\ r.pc = a /\ r.op = b /\ r.status = c /\ r.bytes = d /\ r.micros = e
BY DEF Report, IsReport

KindsStay == \A j \in DOMAIN metMetrics : j \in DOMAIN metMetrics' /\ metMetrics'[j].kind = metMetrics[j].kind

LEMMA GaugeStep ==
    ASSUME RegInv, NEW k \in GaugeKeys, NEW v \in {0, 1}, Registry!SetGauge(k, v)
    PROVE  RegInv' /\ KindsStay
<1>1. /\ MetricsFit' /\ KindsStay
      /\ \A j : j[1] \in {"requests", "micros"} => Shown(j)' = Shown(j)
  BY GaugeSet DEF RegInv, KindsStay
<1>2. UNCHANGED <<metCalls, metFinished, metStarted>>
  BY DEF Registry!SetGauge
<1>3. CallsFit'
  BY <1>2 DEF RegInv, CallsFit
<1>4. ASSUME NEW op \in Operations PROVE Accounted(op)'
  <2>1. OkKey(op)[1] = "requests" /\ ErrorKey(op)[1] = "requests" /\ TimeKey(op)[1] = "micros"
    BY KeyParts DEF OkKey, ErrorKey, TimeKey
  <2>2. /\ Shown(OkKey(op))' = Shown(OkKey(op)) /\ Shown(ErrorKey(op))' = Shown(ErrorKey(op))
        /\ Shown(TimeKey(op))' = Shown(TimeKey(op))
    BY <1>1, <2>1
  <2>3. Waiting(metCalls', op) = Waiting(metCalls, op) /\ Telling(metCalls', op) = Telling(metCalls, op)
    BY <1>2
  <2>4. QED
    BY <1>2, <2>2, <2>3, AccountedSame DEF RegInv
<1>5. QED
  BY <1>1, <1>3, <1>4 DEF RegInv

\* What the invariant says of one thread's report.
LEMMA ReportFacts ==
    ASSUME RegInv, NEW t \in Threads
    PROVE  /\ MetricsFit /\ CallsFit /\ ReportFits(metCalls[t]) /\ IsReport(metCalls[t])
           /\ metCalls[t].pc # "idle" => metCalls[t].op \in Operations
                                         /\ metCalls[t].status \in {"ok", "error"}
           /\ metCalls[t].bytes \in Nat /\ metCalls[t].micros \in Nat
BY DEF RegInv, CallsFit, ReportFits, Registry!Statuses

LEMMA CountBytesStep ==
    ASSUME RegInv, NEW t \in Threads, Registry!CountBytes(t)
    PROVE  RegInv' /\ KindsStay
<1>1. PICK r : r = metCalls[t]
  OBVIOUS
<1>2. /\ r.pc = "bytes" /\ IsReport(r) /\ r.op \in Operations /\ r.status \in Registry!Statuses
      /\ r.bytes \in Nat /\ r.micros \in Nat
  BY <1>1, ReportFacts DEF Registry!CountBytes, Registry!Statuses
<1>3. PICK c : c = Report("requests", r.op, r.status, r.bytes, r.micros)
  OBVIOUS
<1>4. /\ IsReport(c) /\ c.pc = "requests" /\ c.op = r.op /\ c.status = r.status
      /\ c.bytes = r.bytes /\ c.micros = r.micros
  BY <1>3, ReportFields
<1>5. Registry!Becomes(t, c)
  BY <1>1, <1>2, <1>3, ReportWritten DEF Registry!CountBytes
<1>6. ReportFits(c)
  BY <1>2, <1>4 DEF ReportFits, CallPcs
<1>7. UNCHANGED <<metFinished, metStarted>>
  BY DEF Registry!CountBytes
<1>8. CallsFit'
  BY <1>5, <1>6, <1>7, ReportTurn, ReportFacts
<1>9. PICK k : k = Registry!ByteKey(r.op)
  OBVIOUS
<1>10. k[1] = "bytes"
  BY <1>9, KeyParts
<1>11. Registry!IncCounter(k, r.bytes)
  BY <1>1, <1>9, Zenon DEF Registry!CountBytes
<1>12. MetricsFit' /\ KindsStay /\ \A j : j # k => Shown(j)' = Shown(j)
  BY <1>2, <1>10, <1>11, CounterGrows, ReportFacts DEF KindsStay
<1>13. ASSUME NEW op \in Operations PROVE Accounted(op)'
  <2>1. OkKey(op) # k /\ ErrorKey(op) # k /\ TimeKey(op) # k
    BY <1>10, KeyParts DEF OkKey, ErrorKey, TimeKey
  <2>2. /\ Shown(OkKey(op))' = Shown(OkKey(op)) /\ Shown(ErrorKey(op))' = Shown(ErrorKey(op))
        /\ Shown(TimeKey(op))' = Shown(TimeKey(op))
    BY <1>12, <2>1
  <2>3. Waiting(metCalls', op) = Waiting(metCalls, op) /\ Telling(metCalls', op) = Telling(metCalls, op)
    <3>1. CallsFit
      BY ReportFacts
    <3>2. /\ Waiting(metCalls', op) = (Waiting(metCalls, op) \ {t})
               \cup {s \in {t} : c.op = op /\ c.pc \in {"bytes", "requests"}}
          /\ Telling(metCalls', op) = (Telling(metCalls, op) \ {t})
               \cup {s \in {t} : c.op = op /\ c.pc \in {"micros"}}
          /\ t \in Waiting(metCalls, op) <=> (r.op = op /\ r.pc \in {"bytes", "requests"})
          /\ t \in Telling(metCalls, op) <=> (r.op = op /\ r.pc \in {"micros"})
      BY <1>1, <1>5, <3>1, ReportMoves
    <3>3. QED
      BY <1>2, <1>4, <3>2
  <2>4. QED
    BY <1>7, <2>2, <2>3, AccountedSame DEF RegInv
<1>14. QED
  BY <1>8, <1>12, <1>13 DEF RegInv

\* The request is counted, and its duration is still to be told.
LEMMA CountRequestStep ==
    ASSUME RegInv, NEW t \in Threads, Registry!CountRequest(t)
    PROVE  RegInv' /\ KindsStay
<1>1. PICK r : r = metCalls[t]
  OBVIOUS
<1>2. /\ r.pc = "requests" /\ IsReport(r) /\ r.op \in Operations /\ r.status \in {"ok", "error"}
      /\ r.bytes \in Nat /\ r.micros \in Nat
  BY <1>1, ReportFacts DEF Registry!CountRequest
<1>3. PICK c : c = Report("micros", r.op, r.status, r.bytes, r.micros)
  OBVIOUS
<1>4. /\ IsReport(c) /\ c.pc = "micros" /\ c.op = r.op /\ c.status = r.status
      /\ c.bytes = r.bytes /\ c.micros = r.micros
  BY <1>3, ReportFields
<1>5. Registry!Becomes(t, c)
  BY <1>1, <1>2, <1>3, ReportWritten DEF Registry!CountRequest
<1>6. ReportFits(c)
  BY <1>2, <1>4 DEF ReportFits, CallPcs, Registry!Statuses
<1>7. UNCHANGED <<metFinished, metStarted>>
  BY DEF Registry!CountRequest
<1>8. CallsFit'
  BY <1>5, <1>6, <1>7, ReportTurn, ReportFacts
<1>9. PICK k : k = Registry!RequestKey(r.op, r.status)
  OBVIOUS
<1>10. k[1] = "requests" /\ k[2] = r.op /\ k[3] = r.status
  BY <1>9, KeyParts
<1>11. Registry!IncCounter(k, 1)
  BY <1>1, <1>9, Zenon DEF Registry!CountRequest
<1>12. /\ MetricsFit' /\ KindsStay /\ \A j : j # k => Shown(j)' = Shown(j)
       /\ Shown(k)' = Shown(k) + 1
  <2>1. PICK one \in Nat : one = 1
    OBVIOUS
  <2>2. Registry!IncCounter(k, one)
    BY <1>11, <2>1
  <2>3. MetricsFit' /\ KindsStay /\ (\A j : j # k => Shown(j)' = Shown(j)) /\ Shown(k)' = Shown(k) + one
    BY <1>10, <2>2, CounterGrows, ReportFacts DEF KindsStay
  <2>4. QED
    BY <2>1, <2>3
<1>13. ASSUME NEW op \in Operations PROVE Accounted(op)'
  <2>0. CallsFit /\ MetricsFit /\ Accounted(op)
    BY ReportFacts DEF RegInv
  <2>1. /\ OkKey(op)[2] = op /\ OkKey(op)[3] = "ok" /\ ErrorKey(op)[2] = op /\ ErrorKey(op)[3] = "error"
        /\ TimeKey(op)[1] = "micros"
    BY KeyParts DEF OkKey, ErrorKey, TimeKey
  <2>2. /\ Waiting(metCalls', op) = (Waiting(metCalls, op) \ {t})
             \cup {s \in {t} : c.op = op /\ c.pc \in {"bytes", "requests"}}
        /\ Telling(metCalls', op) = (Telling(metCalls, op) \ {t})
             \cup {s \in {t} : c.op = op /\ c.pc \in {"micros"}}
        /\ t \in Waiting(metCalls, op) <=> (r.op = op /\ r.pc \in {"bytes", "requests"})
        /\ t \in Telling(metCalls, op) <=> (r.op = op /\ r.pc \in {"micros"})
    BY <1>1, <1>5, <2>0, ReportMoves
  <2>3. Shown(TimeKey(op))' = Shown(TimeKey(op))
    BY <1>10, <1>12, <2>1
  <2>4. CASE op # r.op
    <3>1. Shown(OkKey(op))' = Shown(OkKey(op)) /\ Shown(ErrorKey(op))' = Shown(ErrorKey(op))
      BY <1>10, <1>12, <2>1, <2>4
    <3>2. Waiting(metCalls', op) = Waiting(metCalls, op) /\ Telling(metCalls', op) = Telling(metCalls, op)
      BY <1>2, <1>4, <2>2, <2>4
    <3>3. QED
      BY <1>7, <2>0, <2>3, <3>1, <3>2, AccountedSame
  <2>5. CASE op = r.op
    <3>1. PICK ok \in Nat, error \in Nat, time \in Nat :
            /\ ok = Shown(OkKey(op)) /\ error = Shown(ErrorKey(op)) /\ time = Shown(TimeKey(op))
      BY <2>0, ShownType
    <3>2. PICK ok2, error2 : ok2 = Shown(OkKey(op))' /\ error2 = Shown(ErrorKey(op))'
      OBVIOUS
    <3>3. ok2 + error2 = ok + error + 1
      <4>1. CASE r.status = "ok"
        <5>1. k = OkKey(op) /\ ErrorKey(op) # k
          BY <1>9, <1>10, <2>1, <2>5, <4>1 DEF OkKey
        <5>2. ok2 = ok + 1 /\ error2 = error
          BY <1>12, <3>1, <3>2, <5>1
        <5>3. QED
          BY <5>2
      <4>2. CASE r.status = "error"
        <5>1. k = ErrorKey(op) /\ OkKey(op) # k
          BY <1>9, <1>10, <2>1, <2>5, <4>2 DEF ErrorKey
        <5>2. error2 = error + 1 /\ ok2 = ok
          BY <1>12, <3>1, <3>2, <5>1
        <5>3. QED
          BY <5>2
      <4>3. QED
        BY <1>2, <4>1, <4>2
    <3>4. t \in Waiting(metCalls, op) /\ Waiting(metCalls', op) = Waiting(metCalls, op) \ {t}
      BY <1>2, <1>4, <2>2, <2>5
    <3>5. t \notin Telling(metCalls, op) /\ Telling(metCalls', op) = Telling(metCalls, op) \cup {t}
      BY <1>2, <1>4, <2>2, <2>5
    <3>6. Cardinality(Waiting(metCalls', op)) = Cardinality(Waiting(metCalls, op)) - 1
      <4>1. IsFiniteSet(Waiting(metCalls, op))
        BY ReportingFinite
      <4>2. Cardinality(Waiting(metCalls, op) \ {t}) = Cardinality(Waiting(metCalls, op)) - 1
        BY <3>4, <4>1, FS_RemoveElement
      <4>3. QED
        BY <3>4, <4>2
    <3>7. Cardinality(Telling(metCalls', op)) = Cardinality(Telling(metCalls, op)) + 1
      <4>1. IsFiniteSet(Telling(metCalls, op))
        BY ReportingFinite
      <4>2. Cardinality(Telling(metCalls, op) \cup {t}) = Cardinality(Telling(metCalls, op)) + 1
        BY <3>5, <4>1, FS_AddElement
      <4>3. QED
        BY <3>5, <4>2
    <3>8. Cardinality(Waiting(metCalls, op)) \in Nat /\ Cardinality(Telling(metCalls, op)) \in Nat
      BY ReportingFinite
    <3>9. ok2 + error2 = time + Cardinality(Telling(metCalls', op))
      BY <2>0, <3>1, <3>3, <3>7, <3>8 DEF Accounted
    <3>10. ok2 + error2 + Cardinality(Waiting(metCalls', op)) = ok + error + Cardinality(Waiting(metCalls, op))
      BY <3>1, <3>3, <3>6, <3>8
    <3>11. ok2 + error2 + Cardinality(Waiting(metCalls', op))
             = Cardinality(RanWith(metFinished, op, "ok")) + Cardinality(RanWith(metFinished, op, "error"))
      BY <2>0, <3>1, <3>10 DEF Accounted
    <3>12. metFinished' = metFinished
      BY <1>7
    <3>13. QED
      BY <2>3, <3>1, <3>2, <3>9, <3>11, <3>12 DEF Accounted
  <2>6. QED
    BY <2>4, <2>5
<1>14. QED
  BY <1>8, <1>12, <1>13 DEF RegInv

\* The duration is told, and the thread has nothing more to report.
LEMMA CountMicrosStep ==
    ASSUME RegInv, NEW t \in Threads, Registry!CountMicros(t)
    PROVE  RegInv' /\ KindsStay
<1>1. PICK r : r = metCalls[t]
  OBVIOUS
<1>2. r.pc = "micros" /\ r.op \in Operations /\ r.micros \in Nat
  BY <1>1, ReportFacts DEF Registry!CountMicros
<1>3. PICK c : c = Report("idle", "", "", 0, 0)
  OBVIOUS
<1>4. ReportFits(c) /\ c.pc = "idle"
  BY <1>3 DEF Report, ReportFits, IsReport, CallPcs
<1>5. Registry!Becomes(t, c)
  BY <1>3 DEF Registry!CountMicros, Registry!Idle, Report
<1>6. UNCHANGED <<metFinished, metStarted>>
  BY DEF Registry!CountMicros
<1>7. CallsFit'
  BY <1>4, <1>5, <1>6, ReportTurn, ReportFacts
<1>8. PICK k : k = TimeKey(r.op)
  OBVIOUS
<1>9. k[1] = "micros" /\ k[2] = r.op
  BY <1>8, KeyParts DEF TimeKey
<1>10. Registry!ObserveMicros(k, r.micros)
  BY <1>1, <1>8, Zenon DEF Registry!CountMicros, TimeKey
<1>11. /\ MetricsFit' /\ KindsStay /\ \A j : j # k => Shown(j)' = Shown(j)
       /\ Shown(k)' = Shown(k) + 1
  BY <1>2, <1>9, <1>10, HistogramGrows, ReportFacts DEF KindsStay
<1>12. ASSUME NEW op \in Operations PROVE Accounted(op)'
  <2>0. CallsFit /\ MetricsFit /\ Accounted(op)
    BY ReportFacts DEF RegInv
  <2>1. OkKey(op)[1] = "requests" /\ ErrorKey(op)[1] = "requests" /\ TimeKey(op)[2] = op
    BY KeyParts DEF OkKey, ErrorKey, TimeKey
  <2>2. /\ Waiting(metCalls', op) = (Waiting(metCalls, op) \ {t})
             \cup {s \in {t} : c.op = op /\ c.pc \in {"bytes", "requests"}}
        /\ Telling(metCalls', op) = (Telling(metCalls, op) \ {t})
             \cup {s \in {t} : c.op = op /\ c.pc \in {"micros"}}
        /\ t \in Waiting(metCalls, op) <=> (r.op = op /\ r.pc \in {"bytes", "requests"})
        /\ t \in Telling(metCalls, op) <=> (r.op = op /\ r.pc \in {"micros"})
    BY <1>1, <1>5, <2>0, ReportMoves
  <2>3. Shown(OkKey(op))' = Shown(OkKey(op)) /\ Shown(ErrorKey(op))' = Shown(ErrorKey(op))
    BY <1>9, <1>11, <2>1
  <2>4. Waiting(metCalls', op) = Waiting(metCalls, op)
    BY <1>2, <1>4, <2>2
  <2>5. CASE op # r.op
    <3>1. Shown(TimeKey(op))' = Shown(TimeKey(op))
      BY <1>9, <1>11, <2>1, <2>5
    <3>2. Telling(metCalls', op) = Telling(metCalls, op)
      BY <1>4, <2>2, <2>5
    <3>3. QED
      BY <1>6, <2>0, <2>3, <2>4, <3>1, <3>2, AccountedSame
  <2>6. CASE op = r.op
    <3>1. PICK time \in Nat : time = Shown(TimeKey(op))
      BY <2>0, ShownType
    <3>2. Shown(TimeKey(op))' = time + 1
      BY <1>8, <1>11, <2>6, <3>1
    <3>3. t \in Telling(metCalls, op) /\ Telling(metCalls', op) = Telling(metCalls, op) \ {t}
      BY <1>2, <1>4, <2>2, <2>6
    <3>4. Cardinality(Telling(metCalls', op)) = Cardinality(Telling(metCalls, op)) - 1
      <4>1. IsFiniteSet(Telling(metCalls, op))
        BY ReportingFinite
      <4>2. Cardinality(Telling(metCalls, op) \ {t}) = Cardinality(Telling(metCalls, op)) - 1
        BY <3>3, <4>1, FS_RemoveElement
      <4>3. QED
        BY <3>3, <4>2
    <3>5. Cardinality(Telling(metCalls, op)) \in Nat
      BY ReportingFinite
    <3>6. Shown(TimeKey(op))' + Cardinality(Telling(metCalls', op)) = time + Cardinality(Telling(metCalls, op))
      BY <3>1, <3>2, <3>4, <3>5
    <3>7. metFinished' = metFinished
      BY <1>6
    <3>8. QED
      BY <2>0, <2>3, <2>4, <3>1, <3>6, <3>7 DEF Accounted
  <2>7. QED
    BY <2>5, <2>6
<1>13. QED
  BY <1>7, <1>11, <1>12 DEF RegInv

\* An operation has returned and has everything to report.
LEMMA OperateStep ==
    ASSUME RegInv, NEW t \in Threads, NEW o \in Operations, NEW status \in {"ok", "error"},
           NEW bytes \in Nat, NEW micros \in Nat, Registry!Operate(t, o, status, bytes, micros)
    PROVE  RegInv' /\ KindsStay
<1>1. PICK pc \in {"bytes", "requests"} : pc = IF bytes > 0 THEN "bytes" ELSE "requests"
  OBVIOUS
<1>2. PICK c : c = Report(pc, o, status, bytes, micros)
  OBVIOUS
<1>3. IsReport(c) /\ c.pc = pc /\ c.op = o /\ c.status = status /\ c.bytes = bytes /\ c.micros = micros
  BY <1>2, ReportFields
<1>4. ReportFits(c)
  BY <1>3 DEF ReportFits, CallPcs, Registry!Statuses
<1>5. Registry!Becomes(t, c)
  BY <1>1, <1>2, Zenon DEF Registry!Operate, Report
<1>6. metMetrics' = metMetrics /\ metCalls[t].pc = "idle"
  BY DEF Registry!Operate
<1>7. MetricsFit /\ CallsFit
  BY ReportFacts
<1>8. MetricsFit' /\ KindsStay /\ \A k : Shown(k)' = Shown(k)
  BY <1>6, <1>7 DEF MetricsFit, KindsStay, Shown, Registry!Value
<1>9. PICK id \in Nat : id = metStarted + 1
  BY <1>7 DEF CallsFit
<1>10. PICK f : f = [id |-> id, op |-> o, status |-> status, bytes |-> bytes]
  OBVIOUS
<1>11. f.id = id /\ f.op = o /\ f.status = status
  BY <1>10
<1>12. metFinished' = metFinished \cup {f} /\ metStarted' = id
  BY <1>9, <1>10 DEF Registry!Operate
<1>13. f \notin metFinished
  BY <1>7, <1>9, <1>11 DEF CallsFit
<1>14. CallsFit'
  <2>1. metCalls = [s \in Threads |-> metCalls[s]] /\ \A s \in Threads : ReportFits(metCalls[s])
    BY <1>7 DEF CallsFit
  <2>2. metCalls' = [metCalls EXCEPT ![t] = c]
    BY <1>5 DEF Registry!Becomes
  <2>3. metCalls' = [s \in Threads |-> metCalls'[s]] /\ \A s \in Threads : ReportFits(metCalls'[s])
    BY <1>4, <2>1, <2>2
  <2>4. IsFiniteSet(metFinished')
    BY <1>7, <1>12, FS_AddElement DEF CallsFit
  <2>5. \A g \in metFinished' : g.id \in Nat /\ g.id <= metStarted'
    BY <1>7, <1>9, <1>11, <1>12 DEF CallsFit
  <2>6. QED
    BY <1>9, <1>12, <2>3, <2>4, <2>5 DEF CallsFit
<1>15. ASSUME NEW op \in Operations PROVE Accounted(op)'
  <2>1. Accounted(op)
    BY DEF RegInv
  <2>2. /\ Waiting(metCalls', op) = (Waiting(metCalls, op) \ {t})
             \cup {s \in {t} : c.op = op /\ c.pc \in {"bytes", "requests"}}
        /\ Telling(metCalls', op) = (Telling(metCalls, op) \ {t})
             \cup {s \in {t} : c.op = op /\ c.pc \in {"micros"}}
        /\ t \in Waiting(metCalls, op) <=> (metCalls[t].op = op /\ metCalls[t].pc \in {"bytes", "requests"})
        /\ t \in Telling(metCalls, op) <=> (metCalls[t].op = op /\ metCalls[t].pc \in {"micros"})
    BY <1>5, <1>7, ReportMoves
  <2>3. Telling(metCalls', op) = Telling(metCalls, op)
    BY <1>1, <1>3, <1>6, <2>2
  <2>4. /\ Shown(OkKey(op))' = Shown(OkKey(op)) /\ Shown(ErrorKey(op))' = Shown(ErrorKey(op))
        /\ Shown(TimeKey(op))' = Shown(TimeKey(op))
    BY <1>8
  <2>5. CASE op # o
    <3>1. Waiting(metCalls', op) = Waiting(metCalls, op)
      BY <1>3, <1>6, <2>2, <2>5
    <3>2. ASSUME NEW s PROVE RanWith(metFinished', op, s) = RanWith(metFinished, op, s)
      BY <1>11, <1>12, <2>5 DEF RanWith
    <3>3. QED
      BY <2>1, <2>3, <2>4, <3>1, <3>2 DEF Accounted
  <2>6. CASE op = o
    <3>1. t \notin Waiting(metCalls, op) /\ Waiting(metCalls', op) = Waiting(metCalls, op) \cup {t}
      BY <1>1, <1>3, <1>6, <2>2, <2>6
    <3>2. /\ Cardinality(Waiting(metCalls', op)) = Cardinality(Waiting(metCalls, op)) + 1
          /\ Cardinality(Waiting(metCalls, op)) \in Nat
      BY <3>1, FS_AddElement, ReportingFinite
    <3>3. PICK other \in {"ok", "error"} : other # status
      OBVIOUS
    <3>4. RanWith(metFinished', op, status) = RanWith(metFinished, op, status) \cup {f}
      BY <1>11, <1>12, <2>6 DEF RanWith
    <3>5. f \notin RanWith(metFinished, op, status)
      BY <1>13 DEF RanWith
    <3>6. /\ Cardinality(RanWith(metFinished', op, status)) = Cardinality(RanWith(metFinished, op, status)) + 1
          /\ Cardinality(RanWith(metFinished, op, status)) \in Nat
      BY <1>7, <3>4, <3>5, FS_AddElement, RanFinite DEF CallsFit
    <3>7. RanWith(metFinished', op, other) = RanWith(metFinished, op, other)
      BY <1>11, <1>12, <3>3 DEF RanWith
    <3>8. Cardinality(RanWith(metFinished, op, other)) \in Nat
      BY <1>7, RanFinite DEF CallsFit
    <3>9. Cardinality(RanWith(metFinished', op, "ok")) + Cardinality(RanWith(metFinished', op, "error"))
            = Cardinality(RanWith(metFinished, op, "ok")) + Cardinality(RanWith(metFinished, op, "error")) + 1
      BY <3>3, <3>6, <3>7, <3>8
    <3>10. Shown(OkKey(op)) \in Nat /\ Shown(ErrorKey(op)) \in Nat
      BY <1>7, ShownType
    <3>11. /\ Cardinality(RanWith(metFinished, op, "ok")) \in Nat
           /\ Cardinality(RanWith(metFinished, op, "error")) \in Nat
      BY <1>7, RanFinite DEF CallsFit
    <3>12. QED
      BY <2>1, <2>3, <2>4, <3>2, <3>9, <3>10, <3>11 DEF Accounted
  <2>7. QED
    BY <2>5, <2>6
<1>16. QED
  BY <1>8, <1>14, <1>15 DEF RegInv

LEMMA RegStep == RegInv /\ [Registry!Next]_metVars => RegInv' /\ [KindsStay]_metVars
<1> SUFFICES ASSUME RegInv, [Registry!Next]_metVars PROVE RegInv' /\ [KindsStay]_metVars
  OBVIOUS
<1>1. CASE UNCHANGED metVars
  <2>1. MetricsFit' /\ CallsFit'
    BY <1>1 DEF metVars, RegInv, MetricsFit, CallsFit
  <2>2. ASSUME NEW op \in Operations PROVE Accounted(op)'
    BY <1>1, AccountedSame DEF RegInv, metVars, Shown, Registry!Value
  <2>3. QED
    BY <1>1, <2>1, <2>2 DEF RegInv
<1>2. ASSUME NEW t \in Threads, NEW op \in Operations, NEW status \in Registry!Statuses,
             NEW bytes \in BlockSizes \cup {0}, NEW micros \in Durations,
             Registry!Operate(t, op, status, bytes, micros)
      PROVE  RegInv' /\ KindsStay
  <2>1. bytes \in Nat /\ micros \in Nat /\ status \in {"ok", "error"}
    BY RegBounds DEF Registry!Statuses
  <2>2. QED
    BY <1>2, <2>1, OperateStep
<1>3. ASSUME NEW t \in Threads,
             Registry!CountBytes(t) \/ Registry!CountRequest(t) \/ Registry!CountMicros(t)
      PROVE  RegInv' /\ KindsStay
  BY <1>3, CountBytesStep, CountRequestStep, CountMicrosStep
<1>4. ASSUME NEW k \in GaugeKeys, NEW v \in {0, 1}, Registry!SetGauge(k, v)
      PROVE  RegInv' /\ KindsStay
  BY <1>4, GaugeStep
<1>5. QED
  BY <1>1, <1>2, <1>3, <1>4 DEF Registry!Next

LEMMA RegTurn == MCNext => [Registry!Next]_metVars
BY DEF MCNext, Still

\* At every scrape histograms are cumulative and requests, durations and operations
\* differ only by what is just being reported, and a metric keeps its kind, for any
\* threads, operations, durations, limits and gauges, no gauge being named like the
\* counters of requests or the durations: PrometheusRegistry and InstrumentedKvTier.
THEOREM MetricsAlwaysSafe == MCSpec => MetricsSafe
<1> DEFINE Kept == \A k \in DOMAIN metMetrics : k \in DOMAIN metMetrics'
                                                /\ metMetrics'[k].kind = metMetrics[k].kind
<1>1. MCInit => RegInv
  BY RegInit DEF MCInit
<1>2. [MCNext]_mcVars => [Registry!Next]_metVars
  BY RegTurn DEF mcVars
<1>3. RegInv /\ [MCNext]_mcVars => RegInv'
  BY <1>2, RegStep
<1>4. RegInv /\ [MCNext]_mcVars => [Kept]_Registry!vars
  BY <1>2, RegStep DEF KindsStay, metVars, Registry!vars
<1>5. RegInv => (part = "metrics" => Registry!Safety)
  BY RegSafety
<1>6. QED
  BY <1>1, <1>3, <1>4, <1>5, PTL DEF MCSpec, MetricsSafe, Registry!KindKept

=============================================================================
