------------------------------ MODULE RedisKvTier ------------------------------
(***************************************************************************)
(* RedisKvTier: every command dials, authenticates, writes and reads one   *)
(* reply, which may be refused or cut anywhere; clear walks the keys with  *)
(* SCAN while other tiers write.  Server is external: a map that executes  *)
(* one command at a time and a SCAN that returns one bucket per cursor.    *)
(***************************************************************************)
EXTENDS KvEnvelope, Resp, Bytes

LOCAL Ordered == INSTANCE SequencesExt

CONSTANTS
    Tiers,        \* one caller each
    Namespace,    \* the namespace of each tier, a sequence of characters
    Keys,
    Entries,      \* [bytes, expires_at, pinned]
    MaxValue,     \* max_value_bytes
    Bucket,       \* where the server keeps a key
    MaxScan,      \* the iteration limit of clear
    MaxFaults     \* bound: refused commands and cut replies

VARIABLES
    server,    \* key -> value
    calls,     \* the call each tier is in
    faults

vars == <<server, calls, faults>>

RedisKey(t, k) == Namespace[t] \o <<":", k>>
AllKeys == {RedisKey(t, k) : t \in Tiers, k \in Keys}
Buckets == {Bucket[key] : key \in AllKeys}

\* The server's glob: '*' stands for any characters, a ':' included.  '?', '[' and '\',
\* which have a meaning too, are left out.
Glob(pattern, text) ==
    LET fits[i \in 1..Len(pattern) + 1, j \in 1..Len(text) + 1] ==
            IF i > Len(pattern) THEN j > Len(text)
            ELSE \/ pattern[i] = "*" /\ (fits[i + 1, j] \/ (j <= Len(text) /\ fits[i, j + 1]))
                 \/ j <= Len(text) /\ pattern[i] = text[j] /\ fits[i + 1, j + 1]
    IN fits[1, 1]

\* SCAN's MATCH "namespace:*", in which nothing is escaped.
Matches(t, key) == Glob(Namespace[t] \o <<":", "*">>, key)

Failed == [error |-> "failed"]
Miss == [hit |-> FALSE]
Hit(entry) == [hit |-> TRUE, entry |-> entry]
Done == [done |-> TRUE]

\* truth is history: the answer a get may give, the keys a clear has to remove.
Idle == [pc |-> "idle", op |-> "", command |-> <<>>, reply |-> <<>>, cursor |-> 0, rounds |-> 0,
         result |-> Failed, truth |-> {}]

Init ==
    /\ server = NoEntries
    /\ calls = [t \in Tiers |-> Idle]
    /\ faults = 0

-----------------------------------------------------------------------------
(* The server.                                                             *)

Answer(command) ==
    CASE command[1] = "GET" -> IF command[2] \in DOMAIN server THEN Bulk(server[command[2]]) ELSE NoBulk
      [] command[1] = "SET" -> Simple("OK")
      [] command[1] = "DEL" -> Integer(Cardinality(command[2] \cap DOMAIN server))
      [] command[1] = "PING" -> Simple("PONG")
      [] command[1] = "SCAN" ->
           LET found == {key \in DOMAIN server : Bucket[key] = command[2] /\ Matches(command[3], key)}
           IN Array(<<Bulk(<<(command[2] + 1) % Cardinality(Buckets)>>),
                      Array([i \in 1..Cardinality(found) |-> Bulk(<<Ordered!SetToSeq(found)[i]>>)])>>)

Executed(command) ==
    CASE command[1] = "SET" -> With(server, command[2], command[3])
      [] command[1] = "DEL" -> Without(server, command[2])
      [] OTHER -> server

-----------------------------------------------------------------------------
(* The tier.                                                               *)

Scan(t, cursor) == <<"SCAN", cursor, t>>

Own(t) == {key \in DOMAIN server : key \in {RedisKey(t, k) : k \in Keys}}

Begin(t, op, command, truth) ==
    /\ calls[t].pc = "idle"
    /\ calls' = [calls EXCEPT ![t] = [Idle EXCEPT !.pc = "send", !.op = op, !.command = command,
                                                  !.truth = truth]]
    /\ UNCHANGED <<server, faults>>

Get(t, k) == Begin(t, "get", <<"GET", RedisKey(t, k)>>, {})

\* A value over the limit is refused before anything is sent.
Put(t, k, entry) ==
    /\ Len(EncodeEntry(entry)) <= MaxValue
    /\ Begin(t, "put", <<"SET", RedisKey(t, k), EncodeEntry(entry)>>, {})

Remove(t, k) == Begin(t, "remove", <<"DEL", {RedisKey(t, k)}>>, {})

Clear(t) == Begin(t, "clear", Scan(t, 0), Own(t))

Health(t) == Begin(t, "health", <<"PING">>, {})

Returns(t, result) == calls' = [calls EXCEPT ![t].pc = "done", ![t].result = result, ![t].reply = <<>>]

\* Dialling, AUTH or writing fails.
SendFails(t) ==
    /\ calls[t].pc = "send" /\ faults < MaxFaults
    /\ faults' = faults + 1
    /\ Returns(t, Failed)
    /\ UNCHANGED server

\* What the server holds for the key of a get.
Held(t) ==
    LET command == calls[t].command
    IN IF calls[t].op # "get" THEN calls[t].truth
       ELSE {IF command[2] \in DOMAIN server THEN server[command[2]] ELSE <<>>}

\* The server executes the command; a clear need not remove what is set meanwhile.
Send(t) ==
    LET command == calls[t].command
        set == IF command[1] = "SET" THEN {command[2]} ELSE {}
    IN /\ calls[t].pc = "send"
       /\ server' = Executed(command)
       /\ calls' = [u \in Tiers |->
                      IF u = t
                      THEN [calls[t] EXCEPT !.pc = "read", !.reply = Wire(Answer(command)), !.truth = Held(t)]
                      ELSE IF calls[u].op = "clear" THEN [calls[u] EXCEPT !.truth = @ \ set]
                      ELSE calls[u]]
       /\ UNCHANGED faults

\* The server refuses: it is loading, out of memory, or wants other credentials.
SendRefused(t) ==
    /\ calls[t].pc = "send" /\ faults < MaxFaults
    /\ faults' = faults + 1
    /\ calls' = [calls EXCEPT ![t].pc = "read", ![t].reply = Wire(Error), ![t].truth = Held(t)]
    /\ UNCHANGED server

\* What get makes of a reply.
GetResult(value) ==
    CASE value.type = "nobulk" -> Miss
      [] value.type = "bulk" ->
           LET entry == DecodeEntry(value.bytes, MaxValue)
           IN IF entry = Invalid THEN Failed ELSE Hit(entry)
      [] OTHER -> Failed

\* The reply to SCAN: a cursor and the keys, or something unexpected.
IsPage(value) ==
    /\ value.type = "array" /\ Len(value.values) = 2
    /\ value.values[1].type = "bulk" /\ value.values[2].type = "array"
    /\ \A i \in DOMAIN value.values[2].values : value.values[2].values[i].type = "bulk"

\* Mutant: the cursor is looked at before the keys of its page are deleted.
ClearPageLast(t, value) ==
    LET cursor == value.values[1].bytes[1]
        page == {value.values[2].values[i].bytes[1] : i \in DOMAIN value.values[2].values}
    IN IF cursor = 0 THEN Returns(t, Done)
       ELSE calls' = [calls EXCEPT ![t].pc = "send", ![t].cursor = cursor, ![t].reply = <<>>,
                                   ![t].command = IF page # {} THEN <<"DEL", page>> ELSE Scan(t, cursor)]

\* After a page: the next one, the end, or the limit.
NextPage(t, cursor, rounds) ==
    IF cursor = 0 THEN Returns(t, Done)
    ELSE IF rounds = MaxScan THEN Returns(t, Failed)
    ELSE calls' = [calls EXCEPT ![t].pc = "send", ![t].command = Scan(t, cursor),
                                ![t].rounds = rounds, ![t].reply = <<>>]

ClearPage(t, value) ==
    LET cursor == value.values[1].bytes[1]
        page == {value.values[2].values[i].bytes[1] : i \in DOMAIN value.values[2].values}
    IN IF page # {}
       THEN calls' = [calls EXCEPT ![t].pc = "send", ![t].cursor = cursor, ![t].reply = <<>>,
                                   ![t].command = <<"DEL", page>>]
       ELSE NextPage(t, cursor, calls[t].rounds + 1)

Handle(t, value) ==
    LET call == calls[t]
    IN CASE call.op = "get" -> Returns(t, GetResult(value))
         [] call.op = "put" -> Returns(t, IF value = Simple("OK") THEN Done ELSE Failed)
         [] call.op = "health" -> Returns(t, IF value = Simple("PONG") THEN Done ELSE Failed)
         [] call.op = "remove" -> Returns(t, IF value.type = "integer" THEN Done ELSE Failed)
         [] call.op = "clear" /\ call.command[1] = "SCAN" ->
              IF IsPage(value) THEN ClearPage(t, value) ELSE Returns(t, Failed)
         [] call.op = "clear" /\ call.command[1] = "DEL" ->
              IF value.type = "integer" THEN NextPage(t, call.cursor, call.rounds + 1)
              ELSE Returns(t, Failed)

Read(t, arrived) ==
    LET read == ReadResp(arrived, MaxValue, 0)
    IN IF read.ok THEN Handle(t, read.value) ELSE Returns(t, Failed)

Receive(t) ==
    /\ calls[t].pc = "read"
    /\ Read(t, calls[t].reply)
    /\ UNCHANGED <<server, faults>>

\* A timeout or a reset after part of the reply.
ReceiveCut(t) ==
    /\ calls[t].pc = "read" /\ faults < MaxFaults
    /\ \E n \in 0..(Len(calls[t].reply) - 1) : Read(t, SubSeq(calls[t].reply, 1, n))
    /\ faults' = faults + 1
    /\ UNCHANGED server

Return(t) ==
    /\ calls[t].pc = "done"
    /\ calls' = [calls EXCEPT ![t] = Idle]
    /\ UNCHANGED <<server, faults>>

-----------------------------------------------------------------------------
Next ==
    \E t \in Tiers :
        \/ \E k \in Keys : \/ Get(t, k) \/ Remove(t, k)
                           \/ \E entry \in Entries : Put(t, k, entry)
        \/ Clear(t) \/ Health(t)
        \/ SendFails(t) \/ Send(t) \/ SendRefused(t) \/ Receive(t) \/ ReceiveCut(t) \/ Return(t)

Spec == Init /\ [][Next]_vars

-----------------------------------------------------------------------------
\* Every variable has the shape of the state it stands for.
TypeOK ==
    /\ DOMAIN server \subseteq AllKeys
    /\ \A key \in DOMAIN server : \E entry \in Entries : server[key] = EncodeEntry(entry)
    /\ \A t \in Tiers : calls[t].pc \in {"idle", "send", "read", "done"} /\ calls[t].rounds <= MaxScan
    /\ faults \in 0..MaxFaults

\* A get that returns says what the server held when it executed the command: a
\* reply cut at any point, or refused, is an error and never a miss or other bytes.
GetTrue ==
    \A t \in Tiers :
        (calls[t].pc = "done" /\ calls[t].op = "get" /\ calls[t].result # Failed) =>
            \A held \in calls[t].truth :
                calls[t].result = IF held = <<>> THEN Miss ELSE Hit(DecodeEntry(held, MaxValue))

\* What put accepted, get can read: the two limits agree.
AcceptedReadable ==
    \A key \in DOMAIN server : \A entry \in Entries :
        server[key] = EncodeEntry(entry) => GetResult(Bulk(server[key])) = Hit(entry)

\* A clear that succeeds has removed every entry of its namespace that was there
\* when it began and was not set meanwhile, however its pages fall.
ClearComplete ==
    \A t \in Tiers :
        (calls[t].pc = "done" /\ calls[t].op = "clear" /\ calls[t].result = Done) =>
            calls[t].truth \cap DOMAIN server = {}

\* "namespace isolation": a key disappears only by a call of a tier of its namespace.  It
\* takes namespaces without glob characters, none of which continues another after a ':'.
NamespaceIsolation ==
    \A key \in DOMAIN server \ DOMAIN server' :
        \E t \in Tiers : /\ calls[t].op \in {"remove", "clear"} /\ calls[t].pc = "send"
                         /\ key \in {RedisKey(t, k) : k \in Keys}

\* The tier reports what the server did, can read all it wrote, and clears all of it.
Safety == TypeOK /\ AcceptedReadable /\ GetTrue /\ ClearComplete

=============================================================================
