--------------------------- MODULE MCEngines ---------------------------
(***************************************************************************)
(* The cache as inference engines use it: ContextCacheTier, the llama.cpp  *)
(* slot bridge, the runtime adapter and the reuse planner.  A behaviour    *)
(* belongs to one of them, `part`; the others keep their initial state.    *)
(***************************************************************************)
EXTENDS ContextCacheTier, Sequences, TLC

CONSTANTS k1, k2, t1, t2

\* The envelopes the clock and the TTLs allow, each of one byte.
Envelopes(clocks, ttls) ==
    [expires : {0} \cup {now + ttl : now \in clocks, ttl \in ttls \ {0}}, pinned : BOOLEAN]
PlainEnvelopes == Envelopes({0}, {0})
PlainSize == [v \in PlainEnvelopes |-> 1]
BothPins == {TRUE, FALSE}

\* Slot states up to the limit of two bytes; what is torn may have more.
StateSize == "small" :> 1 @@ "large" :> 2

Block(m, start, count) == [model |-> m, token_start |-> start, token_count |-> count]
BlockKeys == {Block("a", 0, 2), Block("a", 2, 1), Block("a", 3, 1), Block("b", 2, 1)}

\* Whole prefixes, an inner run, a gap, a wrong order, mixed models, and a run that
\* ends at the top of u32.
BlockSeqs ==
    LET a == Block("a", 0, 2) b == Block("a", 2, 1) c == Block("a", 3, 1) o == Block("b", 2, 1)
    IN {<<a>>, <<a, b>>, <<a, c>>, <<b, a>>, <<a, o>>, <<b, c>>}
\* Prompts of two blocks and one of a block and a half; every query of five tokens, and
\* one so long that three spans fit.
Prompts == {<<0, 1, 1, 1>>, <<1, 0, 0, 1>>, <<1, 1, 0>>}
PromptQueries == [1..5 -> {0, 1}] \cup {<<0, 1, 0, 0, 1, 1, 1>>}

VARIABLES
    part,   \* which component the behaviour is about
    llamaCache, llamaFiles, llamaCalls, llamaServers, llamaLeftover, llamaFaults,
    rtRuntime, rtEngine, rtCall, rtWrote, rtProduced, rtEvictions,
    reuseRecords, reuseLost, reuseCall, reuseRuntime

llamaVars == <<llamaCache, llamaFiles, llamaCalls, llamaServers, llamaLeftover, llamaFaults>>
rtVars == <<rtRuntime, rtEngine, rtCall, rtWrote, rtProduced, rtEvictions>>
reuseVars == <<reuseRecords, reuseLost, reuseCall, reuseRuntime>>

\* Two bridges on one key; one fault.
Llama == INSTANCE LlamaSlotBridge WITH
    Callers <- {t1, t2}, KeysOf <- [b \in {t1, t2} |-> {"k1"}],
    States <- {"small", "large"}, Size <- StateSize, MaxState <- 2, MaxFaults <- 1,
    cache <- llamaCache, files <- llamaFiles, calls <- llamaCalls,
    servers <- llamaServers, leftover <- llamaLeftover, faults <- llamaFaults

\* Three consecutive blocks of one model, and the second of another.
Adapter == INSTANCE RuntimeAdapter WITH
    Keys <- BlockKeys, CaptureKeys <- <<Block("a", 0, 2), Block("a", 2, 1)>>,
    KeySeqs <- BlockSeqs, Top <- 3, MaxBlock <- 2, MaxVersions <- 2, MaxEvictions <- 1,
    runtime <- rtRuntime, engine <- rtEngine, call <- rtCall, wrote <- rtWrote,
    produced <- rtProduced, evictions <- rtEvictions

\* Two models, up to two records.
Reuse == INSTANCE ReusePlan WITH
    Models <- {t1, t2}, Sources <- Prompts, Queries <- PromptQueries, BlockTokens <- 2,
    MinMatch <- 2, Halo <- 1, MaxSegments <- 2, MinCoverage <- 500, MaxRecords <- 2,
    records <- reuseRecords, lost <- reuseLost, call <- reuseCall, runtime <- reuseRuntime

\* One block that expires.
Expiry == INSTANCE ContextCacheTier WITH
    Keys <- {k1}, MaxClock <- 1, EngineTtls <- {0, 1}, Values <- Envelopes(0..1, {1}),
    Size <- [v \in Envelopes(0..1, {1}) |-> 1]

ASSUME MCAssumption ==
    /\ Llama!BridgeAssumption
    /\ Adapter!AdapterAssumption
    /\ Reuse!PolicyAssumption
    /\ EnvelopeAssumption /\ StoreAssumption
    /\ Expiry!EnvelopeAssumption /\ Expiry!StoreAssumption

-----------------------------------------------------------------------------
MCInit ==
    /\ part \in {"tier", "tier expiry", "llama", "runtime", "reuse"}
    /\ CASE part = "tier expiry" -> Expiry!TierInit
         [] OTHER -> TierInit
    /\ Llama!Init
    /\ Adapter!Init
    /\ Reuse!Init

\* The components other than p stay where they are.
Still(p) ==
    /\ UNCHANGED part
    /\ IF p \in {"tier", "tier expiry"} THEN TRUE ELSE UNCHANGED tierVars
    /\ IF p = "llama" THEN TRUE ELSE UNCHANGED llamaVars
    /\ IF p = "runtime" THEN TRUE ELSE UNCHANGED rtVars
    /\ IF p = "reuse" THEN TRUE ELSE UNCHANGED reuseVars

MCNext ==
    \/ part = "tier" /\ TierNext /\ Still("tier")
    \/ part = "tier expiry" /\ Expiry!TierNext /\ Still("tier expiry")
    \/ part = "llama" /\ Llama!Next /\ Still("llama")
    \/ part = "runtime" /\ Adapter!Next /\ Still("runtime")
    \/ part = "reuse" /\ Reuse!Next /\ Still("reuse")

mcVars == <<part, tierVars, llamaVars, rtVars, reuseVars>>

MCSpec == MCInit /\ [][MCNext]_mcVars

\* The engine over its tier alone.
TierOnly == MCInit /\ part = "tier" /\ [][TierNext /\ Still("tier")]_mcVars

-----------------------------------------------------------------------------
Alike == Permutations({k1, k2}) \cup Permutations({t1, t2})

\* Two bridges in two processes, on one key and so one slot file, with a server each:
\* no restore loads a file that is being written unless a save meets it, a receipt counts
\* what was stored and, when nothing met the call, tells what was moved, and no file stays.
LlamaSafe == part = "llama" => Llama!Safety

\* A capture stores whole blocks, a refused restore leaves the runtime alone, and one
\* that succeeds puts every block where its tokens are.
AdapterSafe == [](part = "runtime" => Adapter!Safety) /\ Adapter!RestoredInPlace

\* Reused tokens equal the query's and come from its model, the recomputed ranges are
\* exactly the rest with its halo, and the runtime then holds the query's states, or
\* nothing new when a block is gone.
ReuseSafe == Reuse!Safety

=============================================================================
