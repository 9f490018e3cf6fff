------------------------------- MODULE S3KvTier -------------------------------
(***************************************************************************)
(* S3KvTier over TcpHttpClient: one signed request and one response per    *)
(* operation.  A response has a length, comes in chunks or ends with the   *)
(* connection, and may be cut anywhere.  The object store is external.     *)
(***************************************************************************)
EXTENDS KvEnvelope, Bytes

CONSTANTS
    Callers,
    Keys,
    Entries,       \* [bytes, expires_at, pinned]
    MaxValue,      \* max_value_bytes of the tier
    MaxResponse,   \* max_response_bytes of the client
    MaxFaults      \* bound: failed requests and cut responses

VARIABLES
    objects,   \* object path -> body
    calls,     \* the call each caller is in
    faults

vars == <<objects, calls, faults>>

-----------------------------------------------------------------------------
(* Responses, and TcpHttpClient::execute, which reads one.                 *)

Token(kind, arg) == [kind |-> kind, arg |-> arg]
Tokens(bytes) == [i \in DOMAIN bytes |-> Token("byte", bytes[i])]
Chunk(bytes) == <<Token("chunk", Len(bytes))>> \o Tokens(bytes) \o <<Token("crlf", 0)>>
From(stream, i) == SubSeq(stream, i, Len(stream))

\* What the store writes for a status and a body.
Response(status, body, form) ==
    <<Token("status", status)>> \o
    CASE form = "length" -> <<Token("length", Len(body)), Token("blank", 0)>> \o Tokens(body)
      [] form = "close" -> <<Token("blank", 0)>> \o Tokens(body)
      [] form = "chunks" ->
           <<Token("chunked", 0), Token("blank", 0)>>
           \o (IF Len(body) > 1 THEN Chunk(<<body[1]>>) \o Chunk(From(body, 2))
               ELSE IF body # <<>> THEN Chunk(body) ELSE <<>>)
           \o <<Token("chunk", 0), Token("blank", 0)>>

Broken == [ok |-> FALSE]
Body(bytes) == [ok |-> TRUE, bytes |-> bytes]
Args(stream, n) == [i \in 1..n |-> stream[i].arg]

RECURSIVE ReadChunked(_, _, _)
ReadChunked(stream, body, max) ==
    IF stream = <<>> THEN Broken
    ELSE IF Head(stream).kind # "chunk" THEN Broken
    ELSE LET size == Head(stream).arg
             rest == Tail(stream)
         IN IF size = 0 THEN (IF rest = <<>> THEN Broken ELSE Body(body))
            ELSE IF Len(body) + size > max \/ Len(rest) < size + 1 THEN Broken
            ELSE IF rest[size + 1].kind # "crlf" THEN Broken
            ELSE ReadChunked(From(rest, size + 2), body \o Args(rest, size), max)

\* Chunks before a length, a length before the end of the connection.
ReadBody(headers, rest) ==
    IF \E i \in DOMAIN headers : headers[i].kind = "chunked" THEN ReadChunked(rest, <<>>, MaxResponse)
    ELSE IF \E i \in DOMAIN headers : headers[i].kind = "length"
    THEN LET length == headers[CHOOSE i \in DOMAIN headers : headers[i].kind = "length"].arg
         IN IF length > MaxResponse \/ Len(rest) < length THEN Broken ELSE Body(Args(rest, length))
    ELSE IF Len(rest) > MaxResponse THEN Broken ELSE Body(Args(rest, Len(rest)))

Execute(stream) ==
    LET blanks == {i \in DOMAIN stream : stream[i].kind = "blank"}
        blank == CHOOSE i \in blanks : \A j \in blanks : i <= j
        body == ReadBody(SubSeq(stream, 2, blank - 1), From(stream, blank + 1))
    IN IF blanks = {} THEN Broken
       ELSE IF ~body.ok THEN Broken
       ELSE [ok |-> TRUE, status |-> stream[1].arg, body |-> body.bytes]

-----------------------------------------------------------------------------
(* The tier.                                                               *)

Failed == [error |-> "failed"]
Miss == [hit |-> FALSE]
Hit(entry) == [hit |-> TRUE, entry |-> entry]
Done == [done |-> TRUE]

\* held and executed are history: what the store held for the key when it executed
\* the request, and whether it did.
Idle == [pc |-> "idle", method |-> "", key |-> "", body |-> <<>>, response |-> <<>>,
         result |-> Failed, held |-> <<>>, executed |-> FALSE]

Init ==
    /\ objects = NoEntries
    /\ calls = [c \in Callers |-> Idle]
    /\ faults = 0

Request(c, method, k, body) ==
    /\ calls[c].pc = "idle"
    /\ calls' = [calls EXCEPT ![c] = [Idle EXCEPT !.pc = "send", !.method = method, !.key = k,
                                                  !.body = body]]
    /\ UNCHANGED <<objects, faults>>

Get(c, k) == Request(c, "GET", k, <<>>)

Put(c, k, entry) ==
    /\ Len(EncodeEntry(entry)) <= MaxValue
    /\ Request(c, "PUT", k, EncodeEntry(entry))

Remove(c, k) == Request(c, "DELETE", k, <<>>)

Health(c) == Request(c, "HEAD", "", <<>>)

Returns(c, result) == [calls[c] EXCEPT !.pc = "done", !.result = result, !.response = <<>>]

\* The clock, the name lookup, the connection or the write fails; clear is always refused.
SendFails(c) ==
    /\ calls[c].pc = "send" /\ faults < MaxFaults
    /\ faults' = faults + 1
    /\ calls' = [calls EXCEPT ![c] = Returns(c, Failed)]
    /\ UNCHANGED objects

HeldFor(k) == IF k \in DOMAIN objects THEN objects[k] ELSE <<>>

\* The store executes the request.
Serve(c, form) ==
    LET call == calls[c]
        found == call.key \in DOMAIN objects
        status == CASE call.method = "GET" -> IF found THEN 200 ELSE 404
                    [] call.method = "DELETE" -> IF found THEN 204 ELSE 404
                    [] OTHER -> 200
        body == IF call.method = "GET" THEN HeldFor(call.key) ELSE <<>>
    IN /\ call.pc = "send"
       /\ objects' = CASE call.method = "PUT" -> With(objects, call.key, call.body)
                       [] call.method = "DELETE" -> Without(objects, {call.key})
                       [] OTHER -> objects
       /\ calls' = [calls EXCEPT ![c].pc = "read", ![c].executed = TRUE, ![c].held = HeldFor(call.key),
                                 ![c].response = Response(status, body, form)]
       /\ UNCHANGED faults

\* The store, or something before it, refuses with a page of its own.
Refuse(c, status, form) ==
    /\ calls[c].pc = "send" /\ faults < MaxFaults
    /\ faults' = faults + 1
    /\ calls' = [calls EXCEPT ![c].pc = "read", ![c].held = HeldFor(calls[c].key),
                              ![c].response = Response(status, <<0>>, form)]
    /\ UNCHANGED objects

\* Mutant: every status but a server error counts as success.
AcceptedLoosely(method) == IF method = "DELETE" THEN {200, 204, 404, 403} ELSE {200, 201, 204, 403}

\* The statuses that mean success.
Accepted(method) ==
    CASE method = "PUT" -> {200, 201, 204}
      [] method = "DELETE" -> {200, 204, 404}
      [] OTHER -> {200, 204}

GetResult(response) ==
    CASE response.status = 200 ->
           LET entry == DecodeEntry(response.body, MaxValue)
           IN IF entry = Invalid THEN Failed ELSE Hit(entry)
      [] response.status = 404 -> Miss
      [] OTHER -> Failed

Result(c, stream) ==
    LET response == Execute(stream)
    IN IF ~response.ok THEN Failed
       ELSE IF calls[c].method = "GET" THEN GetResult(response)
       ELSE IF response.status \in Accepted(calls[c].method) THEN Done ELSE Failed

Receive(c) ==
    /\ calls[c].pc = "read"
    /\ calls' = [calls EXCEPT ![c] = Returns(c, Result(c, calls[c].response))]
    /\ UNCHANGED <<objects, faults>>

\* The connection ends after part of the response; to the client that is its end.
ReceiveCut(c) ==
    /\ calls[c].pc = "read" /\ faults < MaxFaults
    /\ \E n \in 0..(Len(calls[c].response) - 1) :
         calls' = [calls EXCEPT ![c] = Returns(c, Result(c, SubSeq(calls[c].response, 1, n)))]
    /\ faults' = faults + 1
    /\ UNCHANGED objects

Return(c) ==
    /\ calls[c].pc = "done"
    /\ calls' = [calls EXCEPT ![c] = Idle]
    /\ UNCHANGED <<objects, faults>>

-----------------------------------------------------------------------------
Forms == {"length", "chunks", "close"}

Next ==
    \E c \in Callers :
        \/ \E k \in Keys : \/ Get(c, k) \/ Remove(c, k)
                           \/ \E entry \in Entries : Put(c, k, entry)
        \/ Health(c) \/ SendFails(c)
        \/ \E form \in Forms : Serve(c, form) \/ \E status \in {403, 503} : Refuse(c, status, form)
        \/ Receive(c) \/ ReceiveCut(c) \/ Return(c)

Spec == Init /\ [][Next]_vars

-----------------------------------------------------------------------------
\* Every variable has the shape of the state it stands for.
TypeOK ==
    /\ DOMAIN objects \subseteq Keys
    /\ \A k \in DOMAIN objects : \E entry \in Entries : objects[k] = EncodeEntry(entry)
    /\ \A c \in Callers : calls[c].pc \in {"idle", "send", "read", "done"}
    /\ faults \in 0..MaxFaults

\* A get says what the store held: a response cut anywhere is an error, also one that
\* ends with the connection, which the client cannot tell from a complete one.
GetTrue ==
    \A c \in Callers :
        (calls[c].pc = "done" /\ calls[c].method = "GET" /\ calls[c].result # Failed) =>
            calls[c].result = IF calls[c].held = <<>> THEN Miss
                              ELSE Hit(DecodeEntry(calls[c].held, MaxValue))

\* What put accepted, get can read from a complete response in every form, when the
\* client's limit is not the smaller one.
AcceptedReadable ==
    MaxResponse >= MaxValue =>
        \A k \in DOMAIN objects : \A form \in Forms : \A entry \in Entries :
            LET response == Execute(Response(200, objects[k], form))
            IN objects[k] = EncodeEntry(entry) => response.ok /\ GetResult(response) = Hit(entry)

\* A put, a remove or a health that succeeds was executed by the store.
AckTrue ==
    \A c \in Callers : (calls[c].pc = "done" /\ calls[c].result = Done) => calls[c].executed

\* The tier reports what the store did, and can read all it wrote.
Safety == TypeOK /\ AckTrue /\ AcceptedReadable /\ GetTrue

=============================================================================
