-------------------------- MODULE PrometheusRegistry --------------------------
(***************************************************************************)
(* PrometheusRegistry and the InstrumentedKvTier that feeds it.  Each call *)
(* of the registry is one critical section; a tier operation makes several *)
(* of them after its work is done, and a scrape may come between any two.  *)
(*                                                                         *)
(* A metric key is <<name, label, label>>; a counter's and a gauge's value *)
(* and a histogram's count are the field value.                            *)
(***************************************************************************)
EXTENDS Bytes, Sequences

CONSTANTS
    Threads,
    Operations,  \* "get" and "put" move bytes, the others do not
    Sizes,       \* block sizes
    Durations,   \* microseconds an operation takes
    Limits,      \* the bucket limits, ascending
    GaugeKeys,   \* the gauges that the rest of the program sets
    MaxOps       \* bound: operations

\* The gauges that the program sets have names of their own; that one may have the
\* key of a byte counter is more than the program does.
RegistryAssumption ==
    /\ MaxOps \in Nat /\ Durations \subseteq Nat /\ Sizes \subseteq Nat
    /\ IsFiniteSet(Threads) /\ Limits \in Seq(Nat)
    /\ \A k \in GaugeKeys : k[1] \notin {"requests", "micros"}
    /\ \A i, j \in DOMAIN Limits : i < j => Limits[i] < Limits[j]

VARIABLES
    metrics,   \* PrometheusRegistry::metrics
    calls,     \* the operation each thread has to report
    finished,  \* history: the operations whose inner call has returned
    started    \* bound: operations so far

vars == <<metrics, calls, finished, started>>

Buckets == 1..(Len(Limits) + 1)
Statuses == {"ok", "error"}
RequestKey(op, status) == <<"requests", op, status>>
MicrosKey(op) == <<"micros", op, "">>
ByteKey(op) == <<"bytes", IF op = "get" THEN "read" ELSE "write", "">>

Idle == [pc |-> "idle", op |-> "", status |-> "", bytes |-> 0, micros |-> 0]

Init ==
    /\ metrics = NoEntries /\ finished = {} /\ started = 0
    /\ calls = [t \in Threads |-> Idle]

\* entry(key).or_insert(...).
Fresh(kind) == [kind |-> kind, value |-> 0, sum |-> 0, buckets |-> [b \in Buckets |-> 0]]

Entry(k, kind) == IF k \in DOMAIN metrics THEN metrics[k] ELSE Fresh(kind)

\* A key of another kind is left as it is, and the caller gets an error.
Update(k, new) ==
    IF Entry(k, new.kind).kind = new.kind
    THEN metrics' = With(metrics, k, new) ELSE UNCHANGED metrics

IncCounter(k, delta) == Update(k, [Entry(k, "counter") EXCEPT !.kind = "counter", !.value = @ + delta])

SetGauge(k, v) ==
    /\ Update(k, [Entry(k, "gauge") EXCEPT !.kind = "gauge", !.value = v])
    /\ UNCHANGED <<calls, finished, started>>

\* The buckets are cumulative; the last has no limit.
FallsIn(b, micros) == b = Len(Limits) + 1 \/ micros <= Limits[b]

ObserveMicros(k, micros) ==
    Update(k, [Entry(k, "histogram") EXCEPT !.kind = "histogram", !.value = @ + 1, !.sum = @ + micros,
        !.buckets = [b \in Buckets |-> IF FallsIn(b, micros) THEN @[b] + 1 ELSE @[b]]])

-----------------------------------------------------------------------------
(* InstrumentedKvTier.                                                     *)

Becomes(t, c) == calls' = [calls EXCEPT ![t] = c]

\* The inner tier answers; a miss and the operations on no block move no bytes.
Operate(t, op, status, bytes, micros) ==
    /\ calls[t].pc = "idle" /\ started < MaxOps
    /\ (status = "error" \/ op \notin {"get", "put"}) => bytes = 0
    /\ started' = started + 1
    /\ finished' = finished \cup {[id |-> started + 1, op |-> op, status |-> status, bytes |-> bytes]}
    /\ Becomes(t, [pc |-> IF bytes > 0 THEN "bytes" ELSE "requests", op |-> op,
                   status |-> status, bytes |-> bytes, micros |-> micros])
    /\ UNCHANGED metrics

CountBytes(t) ==
    /\ calls[t].pc = "bytes"
    /\ IncCounter(ByteKey(calls[t].op), calls[t].bytes)
    /\ Becomes(t, [calls[t] EXCEPT !.pc = "requests"])
    /\ UNCHANGED <<finished, started>>

\* Mutant: failed operations are not counted.
CountRequestOk(t) ==
    /\ calls[t].pc = "requests"
    /\ IF calls[t].status = "ok" THEN IncCounter(RequestKey(calls[t].op, "ok"), 1) ELSE UNCHANGED metrics
    /\ Becomes(t, [calls[t] EXCEPT !.pc = "micros"])
    /\ UNCHANGED <<finished, started>>

CountRequest(t) ==
    /\ calls[t].pc = "requests"
    /\ IncCounter(RequestKey(calls[t].op, calls[t].status), 1)
    /\ Becomes(t, [calls[t] EXCEPT !.pc = "micros"])
    /\ UNCHANGED <<finished, started>>

CountMicros(t) ==
    /\ calls[t].pc = "micros"
    /\ ObserveMicros(MicrosKey(calls[t].op), calls[t].micros)
    /\ Becomes(t, Idle)
    /\ UNCHANGED <<finished, started>>

Next ==
    \/ \E t \in Threads, op \in Operations, status \in Statuses, bytes \in Sizes \cup {0},
          micros \in Durations : Operate(t, op, status, bytes, micros)
    \/ \E t \in Threads : CountBytes(t) \/ CountRequest(t) \/ CountMicros(t)
    \/ \E k \in GaugeKeys, v \in {0, 1} : SetGauge(k, v)

Spec == Init /\ [][Next]_vars

-----------------------------------------------------------------------------
Value(k) == IF k \in DOMAIN metrics THEN metrics[k].value ELSE 0
Requests(op) == Value(RequestKey(op, "ok")) + Value(RequestKey(op, "error"))
Reporting(op, pcs) == Cardinality({t \in Threads : calls[t].op = op /\ calls[t].pc \in pcs})
Ran(op, status) == Cardinality({f \in finished : f.op = op /\ f.status = status})

\* Every variable has the shape of the state it stands for.
TypeOK ==
    /\ \A k \in DOMAIN metrics :
         /\ metrics[k].kind \in {"counter", "gauge", "histogram"}
         /\ metrics[k].value \in Nat /\ metrics[k].sum \in Nat
         /\ metrics[k].buckets \in [Buckets -> Nat]
    /\ \A t \in Threads : calls[t].pc \in {"idle", "bytes", "requests", "micros"}

\* Whatever a scrape sees, a histogram is well formed: its buckets are cumulative
\* and the one without limit is its count.
HistogramCumulative ==
    \A k \in DOMAIN metrics : metrics[k].kind = "histogram" =>
        /\ \A i, j \in Buckets : i < j => metrics[k].buckets[i] <= metrics[k].buckets[j]
        /\ metrics[k].buckets[Len(Limits) + 1] = metrics[k].value

\* Whatever a scrape sees, the requests and the durations differ by the operations
\* that are just being reported, and nothing is lost or counted twice.
RequestsAccounted ==
    \A op \in Operations :
        /\ Requests(op) = Value(MicrosKey(op)) + Reporting(op, {"micros"})
        /\ Requests(op) + Reporting(op, {"bytes", "requests"}) = Ran(op, "ok") + Ran(op, "error")

\* What a scrape sees adds up.
Safety == TypeOK /\ HistogramCumulative /\ RequestsAccounted

\* A key keeps its kind for ever.
KindKept == [][\A k \in DOMAIN metrics : k \in DOMAIN metrics' /\ metrics'[k].kind = metrics[k].kind]_vars

\* What render writes under one # TYPE line.
Samples(name) == {k \in DOMAIN metrics : k[1] = name}

\* "metric already exists with a different type": all samples of one name are of
\* the kind its # TYPE line gives.
OneKindPerName ==
    \A k \in DOMAIN metrics : \A j \in Samples(k[1]) : metrics[j].kind = metrics[k].kind

=============================================================================
