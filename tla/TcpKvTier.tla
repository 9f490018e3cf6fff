------------------------------- MODULE TcpKvTier -------------------------------
(***************************************************************************)
(* TcpKvTier and TcpKvServer.  Every call of the tier opens a connection,  *)
(* writes a request and reads a response; the server has one accepting     *)
(* thread and a thread per connection, which it does not wait for.  Reads  *)
(* and writes time out on either side, so an answer may be lost after the  *)
(* request took effect, and a request may take effect after its caller has *)
(* given up.                                                               *)
(*                                                                         *)
(* The blocks are independent: one key is modelled, for which clear is     *)
(* remove.  A response is a sequence of parts; a payload has two.          *)
(***************************************************************************)
EXTENDS Naturals, Sequences, FiniteSets

CONSTANTS
    Calls,       \* bound: the calls of TcpKvTier, each with its connection
    Waker,       \* the connection signal_shutdown makes and drops
    Values,      \* the entries put
    TooLarge,    \* those above the server's max_payload_bytes
    MaxInflight, \* max_inflight_connections
    Stalls       \* the parts of a response a server's write may time out before

NoValue == "none"

RemoteAssumption ==
    /\ MaxInflight \in Nat \ {0} /\ Waker \notin Calls
    /\ TooLarge \subseteq Values /\ NoValue \notin Values
    /\ Stalls \subseteq {"status", "meta", "body"}

Conns == Calls \cup {Waker}

VARIABLES
    conns,      \* the two ends of each connection
    tier,       \* what the served tier holds under the key
    inflight,   \* the inflight counter
    acceptor,   \* the accepting thread
    shutdown    \* the shutdown flag

vars == <<conns, tier, inflight, acceptor, shutdown>>

\* Parts of a response: kind, value and position.
Part(kind, v, i) == <<kind, v, i>>
Status(s) == Part("status", s, 0)
EntryParts(v) == <<Part("meta", v, 0), Part("body", v, 1), Part("body", v, 2)>>

\* cl and srv are the two ends' program counters, sent whether the whole request
\* is on its way, out what the handler has still to write, resp what it wrote.
\* applied and saw are history: what the handler did, and read, at the tier.
Fresh == [cl |-> "idle", op |-> "ping", val |-> NoValue, sent |-> FALSE, srv |-> "none",
          out |-> <<>>, resp |-> <<>>, got |-> NoValue, applied |-> 0, saw |-> NoValue,
          alone |-> FALSE]

Init ==
    /\ conns = [c \in Conns |-> Fresh]
    /\ tier \in Values \cup {NoValue} /\ inflight = 0 /\ acceptor = "check" /\ shutdown = FALSE

Set(c, r) == conns' = [conns EXCEPT ![c] = r]

-----------------------------------------------------------------------------
(* The client.                                                             *)

Ops == {[op |-> "put", val |-> v] : v \in Values}
       \cup {[op |-> o, val |-> NoValue] : o \in {"get", "remove", "ping"}}

\* A put that may still reach the tier.
PutPending(d) == conns[d].op = "put" /\ conns[d].srv \in {"queued", "read", "apply"}

Connect(c, o) ==
    /\ c \in Calls /\ conns[c].cl = "idle" /\ acceptor # "ended"
    /\ conns' = [d \in Conns |->
         IF d = c THEN [Fresh EXCEPT !.cl = "connected", !.op = o.op, !.val = o.val,
                                     !.srv = "queued", !.alone = ~\E e \in Calls : PutPending(e)]
         ELSE IF o.op = "put" THEN [conns[d] EXCEPT !.alone = FALSE] ELSE conns[d]]
    /\ UNCHANGED <<tier, inflight, acceptor, shutdown>>

ConnectFails(c) ==
    /\ c \in Calls /\ conns[c].cl = "idle"
    /\ Set(c, [Fresh EXCEPT !.cl = "error"])
    /\ UNCHANGED <<tier, inflight, acceptor, shutdown>>

Send(c) ==
    /\ conns[c].cl = "connected"
    /\ Set(c, [conns[c] EXCEPT !.cl = "waiting", !.sent = TRUE])
    /\ UNCHANGED <<tier, inflight, acceptor, shutdown>>

\* Timeout of a write or a read, after which the stream is dropped.
GiveUp(c) ==
    /\ conns[c].cl \in {"connected", "waiting"} /\ c # Waker
    /\ Set(c, [conns[c] EXCEPT !.cl = "error"])
    /\ UNCHANGED <<tier, inflight, acceptor, shutdown>>

Got(v) == [res |-> "ok", val |-> v]
More == [res |-> "more", val |-> NoValue]
Failed == [res |-> "error", val |-> NoValue]

\* read_entry: an error response in the place of the expiry has status 2 in the
\* place of the pin flag; in the place of the payload any bytes will do (a payload that
\* is longer than the error response is waited for until the read fails: GiveUp).
ReadEntry(r) ==
    IF Len(r) = 0 THEN More
    ELSE IF r[1][1] # "meta" THEN Failed
    ELSE IF Len(r) < 3 THEN More
    ELSE IF r[2] = EntryParts(r[1][2])[2] /\ r[3] = EntryParts(r[1][2])[3]
         THEN Got(r[1][2]) ELSE Got("torn")

\* read_status, then what each operation makes of it.
ReadResponse(op, r) ==
    IF Len(r) = 0 THEN More
    ELSE IF r[1] = Status("error") THEN Failed
    ELSE IF op = "get" /\ r[1] = Status("ok") THEN ReadEntry(Tail(r))
    ELSE Got(NoValue)

\* read_exact fails when the stream ends early.
Receive(c) ==
    /\ conns[c].cl = "waiting"
    /\ LET answer == ReadResponse(conns[c].op, conns[c].resp)
       IN  /\ answer.res = "more" => conns[c].srv = "closed"
           /\ Set(c, [conns[c] EXCEPT !.cl = IF answer.res = "ok" THEN "ok" ELSE "error",
                                      !.got = answer.val])
    /\ UNCHANGED <<tier, inflight, acceptor, shutdown>>

-----------------------------------------------------------------------------
(* The accepting thread.                                                   *)

\* Leaving the loop drops the listener and with it what it had not accepted.
EndAccepting ==
    /\ acceptor' = "ended"
    /\ conns' = [c \in Conns |->
         IF conns[c].srv = "queued" THEN [conns[c] EXCEPT !.srv = "closed"] ELSE conns[c]]

\* Mutant: the loop waits for the handlers before it leaves.
CheckShutdownJoins ==
    /\ acceptor = "check"
    /\ IF shutdown /\ inflight = 0 THEN EndAccepting ELSE acceptor' = "accept" /\ UNCHANGED conns
    /\ UNCHANGED <<tier, inflight, shutdown>>

CheckShutdown ==
    /\ acceptor = "check"
    /\ IF shutdown THEN EndAccepting ELSE acceptor' = "accept" /\ UNCHANGED conns
    /\ UNCHANGED <<tier, inflight, shutdown>>

AtLimit == inflight >= MaxInflight

\* At the limit the connection is answered by the accepting thread itself.
Accept(c) ==
    /\ acceptor = "accept" /\ conns[c].srv = "queued"
    /\ IF AtLimit
       THEN /\ Set(c, [conns[c] EXCEPT !.srv = "closed", !.resp = <<Status("error")>>])
            /\ UNCHANGED inflight
       ELSE /\ Set(c, [conns[c] EXCEPT !.srv = "read"])
            /\ inflight' = inflight + 1
    /\ acceptor' = "check"
    /\ UNCHANGED <<tier, shutdown>>

\* WouldBlock: nobody is there.
AcceptNobody ==
    /\ acceptor = "accept" /\ \A c \in Conns : conns[c].srv # "queued"
    /\ acceptor' = "check"
    /\ UNCHANGED <<conns, tier, inflight, shutdown>>

\* An error of accept, or of configure_stream at the limit, ends the thread.
AcceptFails ==
    /\ acceptor = "accept"
    /\ EndAccepting
    /\ UNCHANGED <<tier, inflight, shutdown>>

\* signal_shutdown, called by stop and by drop.
SignalShutdown ==
    /\ ~shutdown
    /\ shutdown' = TRUE
    /\ IF acceptor # "ended"
       THEN Set(Waker, [Fresh EXCEPT !.cl = "error", !.srv = "queued"]) ELSE UNCHANGED conns
    /\ UNCHANGED <<tier, inflight, acceptor>>

-----------------------------------------------------------------------------
(* handle_connection.                                                      *)

\* read_entry takes no payload above the limit.
ReadRequest(c) ==
    /\ conns[c].srv = "read" /\ conns[c].sent /\ conns[c].val \notin TooLarge
    /\ Set(c, [conns[c] EXCEPT !.srv = "apply"])
    /\ UNCHANGED <<tier, inflight, acceptor, shutdown>>

Apply(c) ==
    /\ conns[c].srv = "apply"
    /\ tier' = CASE conns[c].op = "put" -> conns[c].val
                 [] conns[c].op = "remove" -> NoValue
                 [] OTHER -> tier
    /\ Set(c, [conns[c] EXCEPT !.srv = "reply", !.applied = @ + 1, !.saw = tier,
         !.out = IF conns[c].op # "get" THEN <<Status("ok")>>
                 ELSE IF tier = NoValue THEN <<Status("miss")>>
                 ELSE <<Status("ok")>> \o EntryParts(tier)])
    /\ UNCHANGED <<inflight, acceptor, shutdown>>

\* Timeouts and bad requests before the tier is called, errors of the tier.
HandleFails(c) ==
    /\ conns[c].srv \in {"read", "apply"}
    /\ Set(c, [conns[c] EXCEPT !.srv = "fail"])
    /\ UNCHANGED <<tier, inflight, acceptor, shutdown>>

Writable(c) == conns[c].srv = "reply" /\ conns[c].out # <<>>

\* write_entry_body refuses what is above the limit, after the status.
Refuses(p) == p[1] = "meta" /\ p[2] \in TooLarge

Reply(c) ==
    /\ Writable(c) /\ ~Refuses(Head(conns[c].out))
    /\ Set(c, [conns[c] EXCEPT !.resp = Append(@, Head(conns[c].out)), !.out = Tail(@)])
    /\ UNCHANGED <<tier, inflight, acceptor, shutdown>>

ReplyFails(c) ==
    /\ Writable(c)
    /\ \/ Refuses(Head(conns[c].out))
       \/ Head(conns[c].out)[1] \in Stalls
       \/ conns[c].cl = "error"
    /\ Set(c, [conns[c] EXCEPT !.srv = "fail"])
    /\ UNCHANGED <<tier, inflight, acceptor, shutdown>>

\* InflightGuard: the thread ends, whichever way.
Ends(c, resp) ==
    /\ Set(c, [conns[c] EXCEPT !.srv = "closed", !.resp = resp])
    /\ inflight' = inflight - 1
    /\ UNCHANGED <<tier, acceptor, shutdown>>

\* Mutant: an early return goes past the decrement.
ReplyErrorLeaks(c) ==
    /\ conns[c].srv = "fail"
    /\ Set(c, [conns[c] EXCEPT !.srv = "closed"])
    /\ UNCHANGED <<tier, inflight, acceptor, shutdown>>

\* The error response follows whatever was written before it.
ReplyError(c) ==
    /\ conns[c].srv = "fail"
    /\ \/ Ends(c, conns[c].resp \o <<Status("error"), Part("message", "", 0)>>)
       \/ Ends(c, conns[c].resp)

Finish(c) ==
    /\ conns[c].srv = "reply" /\ conns[c].out = <<>>
    /\ Ends(c, conns[c].resp)

-----------------------------------------------------------------------------
Server == CheckShutdown \/ AcceptNobody \/ \E c \in Conns : Accept(c)

Next ==
    \/ \E c \in Calls, o \in Ops : Connect(c, o)
    \/ \E c \in Conns :
         \/ ConnectFails(c) \/ Send(c) \/ GiveUp(c) \/ Receive(c)
         \/ Accept(c) \/ ReadRequest(c) \/ Apply(c) \/ HandleFails(c)
         \/ Reply(c) \/ ReplyFails(c) \/ ReplyError(c) \/ Finish(c)
    \/ CheckShutdown \/ AcceptNobody \/ AcceptFails \/ SignalShutdown

Spec == Init /\ [][Next]_vars

\* The accepting thread is scheduled; nothing is assumed of clients and handlers.
FairSpec == Spec /\ WF_vars(Server)

-----------------------------------------------------------------------------
\* Every variable has the shape of the state it stands for.
TypeOK ==
    /\ tier \in Values \cup {NoValue} /\ inflight \in Nat /\ shutdown \in BOOLEAN
    /\ acceptor \in {"check", "accept", "ended"}
    /\ \A c \in Conns :
         /\ conns[c].cl \in {"idle", "connected", "waiting", "ok", "error"}
         /\ conns[c].srv \in {"none", "queued", "read", "apply", "reply", "fail", "closed"}
         /\ conns[c].got \in Values \cup {NoValue, "torn"}

Handlers == {c \in Conns : conns[c].srv \in {"read", "apply", "reply", "fail"}}

\* inflight counts the handler threads, on every way out of them, and stays within
\* max_inflight_connections although the check and the increment are apart.
InflightExact == inflight = Cardinality(Handlers) /\ inflight <= MaxInflight

\* A call that succeeded took effect at the tier, once, before its answer; a call
\* that failed took effect at most once.
AnsweredOnce ==
    \A c \in Calls :
        /\ conns[c].applied <= 1
        /\ conns[c].cl = "ok" => conns[c].applied = 1

\* The error response of a handler whose write timed out stands inside a payload.
CutInPayload(r) ==
    \E i \in 2..Len(r) : r[i] = Status("error") /\ r[i - 1][1] \in {"meta", "body"}

\* A get that succeeds returns what its handler read in the tier - neither an error
\* response in the place of an entry nor the rest of a refused one is taken for it,
\* nor a miss -, with one exception: when a write timed out inside the payload, and
\* only then, the error response fills it up and the entry is torn.
GetTrue ==
    \A c \in Calls :
        (conns[c].op = "get" /\ conns[c].cl = "ok") =>
            conns[c].got = IF CutInPayload(conns[c].resp) THEN "torn" ELSE conns[c].saw

\* A key whose removal was acknowledged stays away, unless a put was under way or
\* came later: one whose caller gave up counts as under way for as long as the
\* server has its request.
RemoveHolds ==
    \A c \in Calls :
        (conns[c].op = "remove" /\ conns[c].cl = "ok" /\ conns[c].alone) => tier = NoValue

\* The two ends agree: handlers are counted, calls take effect once, and what a call
\* returns is what the tier did, but for a payload cut short.
Safety == TypeOK /\ InflightExact /\ AnsweredOnce /\ GetTrue /\ RemoveHolds

\* stop returns: the accepting thread sees the flag, whatever clients and handlers
\* do or fail to do.
StopReturns == shutdown ~> acceptor = "ended"

=============================================================================
