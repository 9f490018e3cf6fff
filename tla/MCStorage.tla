--------------------------- MODULE MCStorage ---------------------------
(***************************************************************************)
(* KvEngine over its tiers, and the persistent stores below the cache.  A  *)
(* behaviour belongs to one of them, in the configuration `part` names; the*)
(* others keep their initial state.                                        *)
(***************************************************************************)
EXTENDS KvEngine, TLC

CONSTANTS
    p1, p2,
    Procs, Entries, MaxPuts, MaxFaults, MaxPowerLosses,         \* of FileStore
    Backends, Volatile, Removers, MaxBackendErrors, MaxPutCalls \* of LayeredStore

VARIABLES
    part,   \* which component the behaviour is about
    fileFinal, fileDurable, fileTemps, fileNonce, fileProc, filePuts, fileFaults,
    fileCrashed,
    layeredStores, layeredPut, layeredRemover, layeredErrors, layeredCalls

fileVars == <<fileFinal, fileDurable, fileTemps, fileNonce, fileProc, filePuts,
              fileFaults, fileCrashed>>
layeredVars == <<layeredStores, layeredPut, layeredRemover, layeredErrors, layeredCalls>>

\* The engine this module extends has replicated writes, failing tier calls and no
\* expiry; this one primary writes, expiry, and tiers that evict.
Movement == INSTANCE KvEngine WITH
    WritePolicy <- "Primary", Ttls <- {0, 1}, MaxCalls <- 3, MaxLosses <- 1, MaxClock <- 2

\* Processes on one directory, with power losses.
Shared == INSTANCE FileStore WITH
    MaxLosses <- MaxPowerLosses, final <- fileFinal, durable <- fileDurable,
    temps <- fileTemps, nonce <- fileNonce, proc <- fileProc, puts <- filePuts,
    faults <- fileFaults, crashed <- fileCrashed

\* One process, the power stays on.
Alone == INSTANCE FileStore WITH
    Procs <- {p1}, MaxLosses <- 0, final <- fileFinal, durable <- fileDurable,
    temps <- fileTemps, nonce <- fileNonce, proc <- fileProc, puts <- filePuts,
    faults <- fileFaults, crashed <- fileCrashed

\* Backends of which a restart empties some, and concurrent removers.
Layered == INSTANCE LayeredStore WITH
    MaxErrors <- MaxBackendErrors, MaxCalls <- MaxPutCalls, stores <- layeredStores,
    put <- layeredPut, remover <- layeredRemover, errors <- layeredErrors,
    calls <- layeredCalls

ASSUME MCAssumption ==
    /\ Movement!EngineAssumption
    /\ Shared!BoundsAssumption
    /\ Alone!BoundsAssumption
    /\ Layered!BackendsAssumption

-----------------------------------------------------------------------------
MCInit ==
    /\ part \in {"replicas", "movement", "file", "file alone", "layered"}
    /\ Init
    /\ IF part = "file alone" THEN Alone!Init ELSE Shared!Init
    /\ Layered!Init

\* The components other than p stay where they are.
Still(p) ==
    /\ UNCHANGED part
    /\ IF p \in {"replicas", "movement"} THEN TRUE ELSE UNCHANGED vars
    /\ IF p \in {"file", "file alone"} THEN TRUE ELSE UNCHANGED fileVars
    /\ IF p = "layered" THEN TRUE ELSE UNCHANGED layeredVars

MCNext ==
    \/ part = "replicas" /\ Next /\ Still("replicas")
    \/ part = "movement" /\ Movement!Next /\ Still("movement")
    \/ part = "file" /\ Shared!Next /\ Still("file")
    \/ part = "file alone" /\ Alone!Next /\ Still("file alone")
    \/ part = "layered" /\ Layered!Next /\ Still("layered")

mcVars == <<part, vars, fileVars, layeredVars>>

MCSpec == MCInit /\ [][MCNext]_mcVars

-----------------------------------------------------------------------------
Processes == Permutations({p1, p2})

\* FileStore's writes are atomic through failed calls, crashes, damage and power loss;
\* a failed put never blocks a later one, and load_index drops no whole file.
FileStoreSafe ==
    /\ [](part = "file" => Shared!Safety)
    /\ [][part = "file" => Shared!LoadKeepsWhole]_mcVars

\* LayeredStore's replicas never contradict one another, and put_if_absent writes all
\* of them or, when it fails, none.
LayeredStoreSafe == Layered!Safety

\* What the cache sees of a key in the store it was given.
Seen == INSTANCE PersistentStore WITH
    NoEntry <- "none",
    entry <- IF part = "file alone" THEN fileFinal.entry
             ELSE IF part = "layered" THEN Layered!Get ELSE "none"

\* To the cache both stores are one entry that put_if_absent sets only where none was:
\* neither failing calls nor rollbacks, removals and restarts replace it by another.
StoresPersist == Seen!PSSpec

=============================================================================
