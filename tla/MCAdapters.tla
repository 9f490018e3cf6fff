--------------------------- MODULE MCAdapters ---------------------------
(***************************************************************************)
(* AsyncKvPipeline, whose workers may panic, and the parts that adapt the  *)
(* cache to its stores: CodecKvTier, RedisKvTier, MooncakeKvTier, and      *)
(* S3KvTier with the date it signs.  A behaviour belongs to one of them,   *)
(* `part`; the others keep their initial state.                            *)
(***************************************************************************)
EXTENDS AsyncKvPipeline

CONSTANTS t1, t2, w1, w2

\* As large as the limit, and one of another size and pin.
TierEntries == {[bytes |-> <<7, 7>>, expires_at |-> 0, pinned |-> FALSE],
                 [bytes |-> <<8>>, expires_at |-> 3, pinned |-> TRUE]}
OneNamespace == [t \in {t1, t2} |-> <<"a">>]
TwoNamespaces == "r1" :> <<"a">> @@ "r2" :> <<"a", "b">>
NestedNamespaces == "r1" :> <<"a">> @@ "r2" :> <<"a", ":", "b">>

\* k1 and k2 are in different buckets of the server.
Buckets(namespace) ==
    [key \in {namespace[t] \o <<":", k>> : t \in DOMAIN namespace, k \in {"k1", "k2"}} |->
        IF key[Len(key)] = "k1" THEN 0 ELSE 1]

\* Payloads of equal and of different lengths, and one entry again with its pin.
MooncakeEntries ==
    {[bytes |-> <<1, 2>>, expires_at |-> 7, pinned |-> FALSE],
     [bytes |-> <<3, 4>>, expires_at |-> 7, pinned |-> FALSE],
     [bytes |-> <<5, 6, 7>>, expires_at |-> 0, pinned |-> TRUE]}
DottedNamespaces == "c1" :> <<"a", ".", "b">> @@ "c2" :> <<"a", "x", "b">>

VARIABLES
    part,   \* which component the behaviour is about
    codecCodecs, codecOpen, codecInner, codecWritten, codecDamage, codecLast,
    redisServer, redisCalls, redisFaults,
    moonHandles, moonObjects, moonCalls, moonClaims,
    s3Objects, s3Calls, s3Faults,
    dateTime, dateDate

codecVars == <<codecCodecs, codecOpen, codecInner, codecWritten, codecDamage, codecLast>>
redisVars == <<redisServer, redisCalls, redisFaults>>
moonVars == <<moonHandles, moonObjects, moonCalls, moonClaims>>
s3Vars == <<s3Objects, s3Calls, s3Faults>>
dateVars == <<dateTime, dateDate>>

\* One tier writes runs and reads everything, the other writes plainly and reads little.
Codec == INSTANCE CodecKvTier WITH
    Keys <- {"k1"}, Payloads <- UNION {[1..n -> {0, 1}] : n \in 1..4}, Byte <- {0, 1, 2},
    MaxRun <- 2, Tiers <- {"c1", "c2"},
    WriteCodec <- "c1" :> "rle-v1" @@ "c2" :> "identity", Limit <- "c1" :> 4 @@ "c2" :> 3,
    MaxDamage <- 1, codecs <- codecCodecs, open <- codecOpen, inner <- codecInner,
    written <- codecWritten, damage <- codecDamage, last <- codecLast

\* Two tiers of one namespace.
Redis == INSTANCE RedisKvTier WITH
    Tiers <- {t1, t2}, Namespace <- OneNamespace, Keys <- {"k1", "k2"},
    Entries <- TierEntries, MaxValue <- 6, Bucket <- Buckets(OneNamespace), MaxScan <- 2,
    MaxFaults <- 1, server <- redisServer, calls <- redisCalls, faults <- redisFaults

\* Of two namespaces, one of which begins like the other; clear meets its iteration limit.
Apart == INSTANCE RedisKvTier WITH
    Tiers <- {"r1", "r2"}, Namespace <- TwoNamespaces, Keys <- {"k1", "k2"},
    Entries <- TierEntries, MaxValue <- 6, Bucket <- Buckets(TwoNamespaces), MaxScan <- 1,
    MaxFaults <- 1, server <- redisServer, calls <- redisCalls, faults <- redisFaults

\* Of two namespaces, one of which continues the other after a ':'.
Nested == INSTANCE RedisKvTier WITH
    Tiers <- {"r1", "r2"}, Namespace <- NestedNamespaces, Keys <- {"k1"},
    Entries <- TierEntries, MaxValue <- 6, Bucket <- Buckets(NestedNamespaces), MaxScan <- 2,
    MaxFaults <- 0, server <- redisServer, calls <- redisCalls, faults <- redisFaults

\* Two processes share a namespace, and so every object.
Moon == INSTANCE MooncakeKvTier WITH
    Clients <- {"c1", "c2"}, Namespace <- [c \in {"c1", "c2"} |-> <<"a">>],
    Blocks <- {"k1"}, Entries <- MooncakeEntries, MaxValue <- "c1" :> 8 @@ "c2" :> 7,
    handles <- moonHandles, objects <- moonObjects, calls <- moonCalls, claims <- moonClaims

\* A namespace whose dot would match the other's letter.
Dotted == INSTANCE MooncakeKvTier WITH
    Clients <- {"c1", "c2"}, Namespace <- DottedNamespaces, Blocks <- {"k1"},
    Entries <- MooncakeEntries, MaxValue <- "c1" :> 7 @@ "c2" :> 7, handles <- moonHandles,
    objects <- moonObjects, calls <- moonCalls, claims <- moonClaims

\* Two callers of one object; the client's limit is the tier's.
S3 == INSTANCE S3KvTier WITH
    Callers <- {t1, t2}, Keys <- {"k1"}, Entries <- TierEntries, MaxValue <- 6,
    MaxResponse <- 6, MaxFaults <- 2, objects <- s3Objects, calls <- s3Calls,
    faults <- s3Faults

\* 2000 is a leap year, 2100 is not; the first and last second of a minute, an hour, a day.
Date == INSTANCE CivilDate WITH
    Years <- {1970, 1999, 2000, 2023, 2024, 2099, 2100, 2101},
    Times <- {0, 59, 3600, 86399}, time <- dateTime, date <- dateDate

ASSUME MCAssumption ==
    /\ Codec!CodecAssumption
    /\ Date!DateAssumption

-----------------------------------------------------------------------------
MCInit ==
    /\ part \in {"pipeline", "codec", "redis", "redis two", "mooncake",
                 "mooncake dotted", "s3", "date"}
    /\ Init
    /\ Codec!Init
    /\ CASE part = "redis two" -> Apart!Init
         [] OTHER -> Redis!Init
    /\ CASE part = "mooncake dotted" -> Dotted!Init
         [] OTHER -> Moon!Init
    /\ S3!Init
    /\ Date!Init
    /\ part # "date" => dateTime = [days |-> 0, rest |-> 0]

\* The components other than p stay where they are.
Still(p) ==
    /\ UNCHANGED part
    /\ IF p = "pipeline" THEN TRUE ELSE UNCHANGED vars
    /\ IF p = "codec" THEN TRUE ELSE UNCHANGED codecVars
    /\ IF p \in {"redis", "redis two", "redis nested"} THEN TRUE ELSE UNCHANGED redisVars
    /\ IF p \in {"mooncake", "mooncake dotted"} THEN TRUE ELSE UNCHANGED moonVars
    /\ IF p = "s3" THEN TRUE ELSE UNCHANGED s3Vars
    /\ IF p = "date" THEN TRUE ELSE UNCHANGED dateVars

MCNext ==
    \/ part = "pipeline" /\ Next /\ Still("pipeline")
    \/ part = "codec" /\ Codec!Next /\ Still("codec")
    \/ part = "redis" /\ Redis!Next /\ Still("redis")
    \/ part = "redis two" /\ Apart!Next /\ Still("redis two")
    \/ part = "mooncake" /\ Moon!Next /\ Still("mooncake")
    \/ part = "mooncake dotted" /\ Dotted!Next /\ Still("mooncake dotted")
    \/ part = "s3" /\ S3!Next /\ Still("s3")
    \/ part = "date" /\ Date!Next /\ Still("date")

mcVars == <<part, vars, codecVars, redisVars, moonVars, s3Vars, dateVars>>

MCSpec == MCInit /\ [][MCNext]_mcVars

\* The tiers of the nested namespaces alone.
NestedInit ==
    /\ part = "redis nested"
    /\ Init /\ Codec!Init /\ Nested!Init /\ Moon!Init /\ S3!Init
    /\ Date!Init /\ dateTime = [days |-> 0, rest |-> 0]

NestedSpec == NestedInit /\ [][Nested!Next /\ Still("redis nested")]_mcVars

-----------------------------------------------------------------------------
Alike == Permutations({t1, t2}) \cup Permutations({w1, w2})

\* Between two codecs and one damaged frame a get answers with the bytes that were put
\* or fails, and never with more than its limit.
CodecSafe == Codec!Safety

\* What a Redis tier accepts it can read again, a get is an entry that was stored, a
\* clear that succeeds has removed what was there, and none touches a namespace that does
\* not continue its own after a ':' and holds no glob character.
RedisSafe ==
    /\ [](part = "redis" => Redis!Safety)
    /\ [][part = "redis two" => Apart!NamespaceIsolation]_mcVars

\* "namespace isolation": no call of a tier takes a key of another namespace, whatever the
\* two are called.
NamespacesIsolated == [][Nested!NamespaceIsolation]_mcVars

\* Whatever two Mooncake processes do, handles go back to the library, a get returns a
\* whole entry, and an acknowledged put stays until something touches its object: no
\* clear of another namespace does.
MooncakeSafe ==
    /\ part = "mooncake" => Moon!Safety
    /\ part = "mooncake dotted" => Dotted!AcceptedKept

\* The S3 tier acknowledges only what the store executed, can read all it wrote, takes a
\* response that was cut for an error, and signs with the calendar's date and time.
S3KvTierSafe == S3!Safety /\ Date!TimestampTrue

=============================================================================
