--------------------------- MODULE ContextCacheTier ---------------------------
(***************************************************************************)
(* A KvEngine over one ContextCacheTier, as rivet-cache-mp builds it: the  *)
(* engine keeps expiry and pin in an envelope, which the tier hands to the *)
(* ContextCache as an opaque payload together with the pin and no TTL.     *)
(* The cache is write-once on disk, so set_pinned, which writes a changed  *)
(* envelope back, meets an older file.                                     *)
(*                                                                         *)
(* A key identifies its contents: the payloads are the envelopes alone.    *)
(***************************************************************************)
EXTENDS ContextCache

CONSTANT EngineTtls   \* seconds to live given to KvEngine::put; 0 for none

\* The payloads are the envelopes that the clock and the TTLs allow, and the tier
\* passes the cache any pin and no TTL.
EnvelopeAssumption ==
    /\ EngineTtls \subseteq Nat
    /\ 0 \in TTLs /\ Pins = BOOLEAN
    /\ Values \subseteq [expires : Nat, pinned : BOOLEAN]
    /\ \A v \in Values, pinned \in BOOLEAN : [expires |-> v.expires, pinned |-> pinned] \in Values
    /\ \A now \in 0..MaxClock, ttl \in EngineTtls, pinned \in BOOLEAN :
         [expires |-> IF ttl = 0 THEN 0 ELSE now + ttl, pinned |-> pinned] \in Values

\* The store takes every envelope and refuses no call.
StoreAssumption == Faults = {} /\ MaxDisk > 0 /\ \A v \in Values : Size[v] <= MaxDisk

VARIABLES
    engine,  \* engine[t]: the engine call t is in, between two tier calls
    pins,    \* history: the blocks whose last put or set_pinned to return pinned them
    firm     \* history: those of them stored where nothing was stored before

tierVars == <<memory, disk, open, clock, call, dead, engine, pins, firm>>

NoCall == [op |-> "none"]
Between(t) == engine[t] = NoCall /\ call[t].op = "none"

TierInit ==
    /\ Init
    /\ engine = [t \in Threads |-> NoCall]
    /\ pins = {} /\ firm = {}

-----------------------------------------------------------------------------
(* The tier.                                                               *)

\* What encode_tier_entry writes before the bytes and decode_tier_entry reads back.
Envelope(ttl, pinned) == [expires |-> IF ttl = 0 THEN 0 ELSE clock + ttl, pinned |-> pinned]

\* Mutant: the cache gives the entry its default TTL.
PutEnvelopeDefaultTtl(k, e) == Put(k, e, 2, e.pinned, clock)

PutEnvelope(k, e) == Put(k, e, 0, e.pinned, clock)

\* tier.get finds the envelope e, or nothing.
Finds(k, e) ==
    \/ GetMemoryHit(k, clock) /\ e = memory.recs[k].value
    \/ GetDiskHit(k, clock) /\ e = disk.files[k].value

FindsNothing(k) == GetMiss(k, clock) \/ GetVanished(k, clock)

-----------------------------------------------------------------------------
(* The engine.                                                             *)

\* For the histories: a removal of k is under way, or begins.
Removed(k) == \E t \in Threads : k \in call[t].keys
Unpins(S) == pins' = pins \ S /\ firm' = firm \ S

EnginePut(t, k, ttl, pinned) ==
    /\ Between(t)
    /\ PutEnvelope(k, Envelope(ttl, pinned))
    /\ pins' = IF pinned /\ ~Removed(k) THEN pins \cup {k} ELSE pins \ {k}
    /\ firm' = IF pinned /\ Held(k) = {} /\ ~Removed(k) THEN firm \cup {k}
               ELSE IF pinned THEN firm ELSE firm \ {k}
    /\ UNCHANGED engine

\* An expired entry is removed by a second tier call.
EngineGet(t, k) ==
    /\ Between(t)
    /\ \/ \E e \in Values :
            /\ Finds(k, e)
            /\ engine' = IF Expired(e.expires, clock)
                         THEN [engine EXCEPT ![t] = [op |-> "remove", key |-> k]] ELSE engine
       \/ FindsNothing(k) /\ UNCHANGED engine
    /\ UNCHANGED <<pins, firm>>

\* set_pinned reads the entry, and writes it back with the pin.
PinRead(t, k, pinned) ==
    /\ Between(t)
    /\ \E e \in Values :
         /\ Finds(k, e)
         /\ engine' = [engine EXCEPT ![t] =
              IF Expired(e.expires, clock) THEN [op |-> "remove", key |-> k]
              ELSE [op |-> "pin", key |-> k, entry |-> [e EXCEPT !.pinned = pinned]]]
    /\ IF pinned THEN UNCHANGED <<pins, firm>> ELSE Unpins({k})

PinWrite(t) ==
    /\ engine[t].op = "pin"
    /\ PutEnvelope(engine[t].key, engine[t].entry)
    /\ engine' = [engine EXCEPT ![t] = NoCall]
    /\ pins' = IF engine[t].entry.pinned /\ ~Removed(engine[t].key)
               THEN pins \cup {engine[t].key} ELSE pins
    /\ UNCHANGED firm

\* tier.remove is ContextCache::invalidate, of what a call saw expired or of what
\* KvEngine::invalidate is asked for; tier.clear is ContextCache::clear.
RemoveExpired(t) ==
    /\ engine[t].op = "remove"
    /\ BeginInvalidate(t, engine[t].key)
    /\ engine' = [engine EXCEPT ![t] = NoCall]
    /\ Unpins({engine[t].key})

EngineInvalidate(t, k) ==
    /\ Between(t) /\ BeginInvalidate(t, k)
    /\ Unpins({k})
    /\ UNCHANGED engine

EngineClear(t) ==
    /\ Between(t) /\ BeginClear(t)
    /\ Unpins(Keys)
    /\ UNCHANGED engine

CacheSteps ==
    /\ \/ Advance \/ Open(clock)
       \/ \E t \in Threads :
            FinishInvalidate(t) \/ FinishClear(t) \/ \E k \in Keys : RemoveFile(t, k)
    /\ UNCHANGED <<engine, pins, firm>>

TierCrash ==
    /\ Crash
    /\ engine' = [t \in Threads |-> NoCall]
    /\ UNCHANGED <<pins, firm>>

TierNext ==
    \/ \E t \in Threads :
         \/ \E k \in Keys :
              \/ \E ttl \in EngineTtls, pinned \in BOOLEAN : EnginePut(t, k, ttl, pinned)
              \/ EngineGet(t, k) \/ EngineInvalidate(t, k)
              \/ \E pinned \in BOOLEAN : PinRead(t, k, pinned)
         \/ PinWrite(t) \/ RemoveExpired(t) \/ EngineClear(t)
    \/ CacheSteps
    \/ TierCrash

TierSpec == TierInit /\ [][TierNext]_tierVars

-----------------------------------------------------------------------------
\* The two layers agree on every stored block, through write-backs, promotion and
\* restarts: the cache's pin is the envelope's, and the cache itself expires nothing.
LayersAgree ==
    /\ \A k \in DOMAIN memory.recs :
         LET r == memory.recs[k] IN r.pinned = r.value.pinned /\ r.expires = 0
    /\ \A k \in DOMAIN disk.files :
         LET f == disk.files[k] IN f.pinned = f.value.pinned /\ f.expires = 0

\* A block stored pinned where nothing was stored before is there until it is
\* unpinned or removed: neither quota nor restart costs it.
FirmKept == \A k \in firm : Held(k) # {}

\* The same of every block whose pin was acknowledged, the README's "Protected from
\* quota eviction".  It fails: set_pinned changes the memory copy, and the file keeps
\* the pin it was written with.
PinHolds == \A k \in pins : Held(k) # {}

=============================================================================
