--------------------------- MODULE MCService ---------------------------
(***************************************************************************)
(* MpCacheService under five loads, each with some of the threads, prompts *)
(* and kinds of request of the whole.  A behaviour is one load, `part`.    *)
(***************************************************************************)
EXTENDS MpCacheService

CONSTANTS t1, t2, s1, s2

Block == [model |-> "a", tokens |-> <<1, 2>>]
BlockAndHalf == [model |-> "a", tokens |-> <<1, 2, 3>>]
OtherModel == [model |-> "b", tokens |-> <<1, 2, 3>>]
AllPrompts == {Block, BlockAndHalf, OtherModel}

\* The key of the only block of a prompt that is one block long.
KeysOf(prompt) == {[model |-> prompt.model, start |-> 0, prefix |-> prompt.tokens]}
SomeKeys == KeysOf(Block)

VARIABLE part   \* which load the behaviour is

\* Two threads and two sessions register, query and end at once.
SessionLoad == INSTANCE MpCacheService WITH
    Prompts <- {BlockAndHalf}, PoolSize <- 1, Kinds <- {"store", "pin"}, Volatile <- {},
    MaxJobs <- 2

\* A prompt and one that extends it.
PrefixLoad == INSTANCE MpCacheService WITH
    Threads <- {t1}, Sessions <- {s1}, Prompts <- {Block, BlockAndHalf},
    PoolSize <- 1, Kinds <- {"store", "lookup"}, Volatile <- {}, MaxFailures <- 0

\* The same, one of another model, and a tier that loses blocks.
ModelLoad == INSTANCE MpCacheService WITH
    Threads <- {t1}, Sessions <- {s1}, Kinds <- {"store", "lookup", "clear", "health"},
    MaxJobs <- 2, MaxFailures <- 0

\* Stores, lookups, retrieves and deletes of one block on two workers.
DataLoad == INSTANCE MpCacheService WITH
    Threads <- {t1}, Sessions <- {s1}, Prompts <- {Block},
    Kinds <- {"store", "lookup", "retrieve", "delete"}, Volatile <- {}, MaxFailures <- 0

\* Stores against the jobs of RuntimeCacheController.
RuntimeLoad == INSTANCE MpCacheService WITH
    Threads <- {t1}, Sessions <- {s1}, Prompts <- {Block}, Kinds <- {"store", "runtime"},
    Volatile <- {}, MaxFailures <- 0

MCInit == Init /\ part \in {"sessions", "prefixes", "models", "data", "runtime"}

MCNext ==
    /\ \/ part = "sessions" /\ SessionLoad!Next
       \/ part = "prefixes" /\ PrefixLoad!Next
       \/ part = "models" /\ ModelLoad!Next
       \/ part = "data" /\ DataLoad!Next
       \/ part = "runtime" /\ RuntimeLoad!Next
    /\ UNCHANGED part

mcVars == <<part, vars>>

MCSpec == MCInit /\ [][MCNext]_mcVars

\* The loads of one thread and one session never move the other thread or open the other
\* session, so there no two reachable states are permutations of one another.
Identities == Permutations({t1, t2}) \cup Permutations({s1, s2})

=============================================================================
