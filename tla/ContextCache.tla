--------------------------- MODULE ContextCache ---------------------------
(***************************************************************************)
(* ContextCache: a bounded in-memory tier over a bounded persistent tier.  *)
(*                                                                         *)
(* `memory` is Inner::memory with Inner::memory_bytes; `disk` is           *)
(* Inner::disk (the index) with Inner::disk_bytes, together with the files *)
(* the PersistentStore really holds.  A last_access stamp only matters     *)
(* through the order it induces, so each tier keeps `order`, the pairs     *)
(* <<a, b>> with last_access[a] < last_access[b].                          *)
(*                                                                         *)
(* get and put hold the `inner` lock for their whole body and each does at *)
(* most one store call that is not a removal, so they are single steps:    *)
(* the only store calls made without the lock are the removals of          *)
(* invalidate and clear, and removals commute with each other.             *)
(* invalidate and clear are several steps: they remove files one by one    *)
(* without the lock and only then lock and drop the records.               *)
(***************************************************************************)
EXTENDS Bytes

CONSTANTS
    Keys,        \* cache keys
    Values,      \* non-empty payloads
    Size,        \* Size[v]: the length of payload v
    Header,      \* bytes FileStore adds to a payload (HEADER_LEN)
    MaxMemory,   \* max_memory_bytes
    MaxDisk,     \* max_disk_bytes; 0 also stands for "no store configured"
    TTLs,        \* time-to-live arguments, in halves of a second; 0 = none
    Pins,        \* values of the pinned argument
    Threads,     \* callers of invalidate and clear
    Faults,      \* store calls that may fail, and "rot" for damaged files
    MaxDrift,    \* bound: disk_bytes above which no further store call fails
    MaxClock,    \* bound: seconds the clock may advance
    MaxLag       \* bound: how stale a clock reading is once the lock is held

ASSUME SizeAssumption == Size \in [Values -> Nat \ {0}]
ASSUME CapacityAssumption == Header \in Nat /\ MaxMemory \in Nat /\ MaxDisk \in Nat
ASSUME TimeAssumption == TTLs \subseteq Nat /\ MaxClock \in Nat /\ MaxLag \in Nat
ASSUME PinsAssumption == Pins \subseteq BOOLEAN
ASSUME KeysAssumption == IsFiniteSet(Keys)

VARIABLES
    memory,      \* [recs, bytes, order]
    disk,        \* [index, bytes, order, files], and (history) lost: what bytes still
                 \* counts of records whose file the store refused to remove
    open,        \* a ContextCache value exists over the store
    clock,       \* Clock::now_seconds
    call,        \* call[t]: the invalidate or clear thread t is inside
    dead         \* history: dead[k], the values get(k) may not return

vars == <<memory, disk, open, clock, call, dead>>

-----------------------------------------------------------------------------
(* Types.                                                                  *)

MemoryRecord == [value : Values, expires : Nat, pinned : BOOLEAN]
StoreRecord == [bytes : Nat \ {0}, expires : Nat, pinned : BOOLEAN]
Damage == {"none", "payload", "header", "meta"}
StoredEntry == [value : Values, expires : Nat, pinned : BOOLEAN, damage : Damage]

NoMemory == [recs |-> NoEntries, bytes |-> 0, order |-> {}]
EmptyIndex(files) ==
    [index |-> NoEntries, bytes |-> 0, order |-> {}, files |-> files, lost |-> 0]

\* A call of invalidate or clear: the keys it covers, the files it has still to
\* remove, and (history) the values its finished removals make unreturnable.
Idle == [op |-> "none", keys |-> {}, todo |-> {}, pre |-> [k \in Keys |-> {}]]

CallState == [op : {"none", "invalidate", "clear"}, keys : SUBSET Keys,
              todo : SUBSET Keys, pre : [Keys -> SUBSET Values]]

-----------------------------------------------------------------------------
(* Recency and eviction.                                                   *)

Forget(order, S) == {p \in order : p[1] \notin S /\ p[2] \notin S}

\* next_tick: k becomes newer than every other key present.
Touch(order, k, present) == Forget(order, {k}) \cup ((present \ {k}) \X {k})

Unpinned(recs) == {k \in DOMAIN recs : ~recs[k].pinned}

\* E is what the LRU loop has chosen when its last victim is `last`: nothing
\* older than a victim is left among the candidates, and the loop condition
\* still held when `last` was chosen.
Reached(E, last, candidates, order, size, bytes, max) ==
    /\ last \in E
    /\ \A b \in E : <<last, b>> \notin order
    /\ \A a \in candidates, b \in E : <<a, b>> \in order => a \in E
    /\ bytes - Total(E \ {last}, size) > max

\* The victims of a complete run of the loop, for every order of ties.
Evictions(candidates, order, size, bytes, max) ==
    {E \in SUBSET candidates :
        /\ \/ E = {}
           \/ \E last \in E : Reached(E, last, candidates, order, size, bytes, max)
        /\ \/ SaturatingSub(bytes, Total(E, size)) <= max
           \/ E = candidates}

MemorySize(recs) == [k \in DOMAIN recs |-> Size[recs[k].value]]
IndexSize(index) == [k \in DOMAIN index |-> index[k].bytes]

DropMemory(m, S) ==
    [recs  |-> Without(m.recs, S),
     bytes |-> SaturatingSub(m.bytes, Total(S \cap DOMAIN m.recs, MemorySize(m.recs))),
     order |-> Forget(m.order, S)]

\* Mutant: insert_memory_locked that does not first remove the previous record.
InsertMemoryTwice(m, k, r) ==
    [recs  |-> With(m.recs, k, r),
     bytes |-> m.bytes + Size[r.value],
     order |-> Touch(m.order, k, DOMAIN m.recs)]

InsertMemory(m, k, r) ==
    LET cleared == DropMemory(m, {k})
    IN  [recs  |-> With(cleared.recs, k, r),
         bytes |-> cleared.bytes + Size[r.value],
         order |-> Touch(cleared.order, k, DOMAIN cleared.recs)]

EvictMemory(m) ==
    {DropMemory(m, E) : E \in
        Evictions(Unpinned(m.recs), m.order, MemorySize(m.recs), m.bytes, MaxMemory)}

\* get's promotion and the tail of put: the memory tiers that can result.
Remember(m, k, r) ==
    IF MaxMemory > 0 /\ Size[r.value] <= MaxMemory
    THEN EvictMemory(InsertMemory(m, k, r))
    ELSE {m}

-----------------------------------------------------------------------------
(* The disk tier.  Each operator returns the set of outcomes [d, ok].       *)

Outcome(d, ok) == [d |-> d, ok |-> ok]

\* A store call that fails, leaving d.  Failed removals make disk_bytes drift
\* upwards without limit, which MaxDrift cuts off.
Failing(fault, d) ==
    IF fault \in Faults /\ d.bytes <= MaxDrift THEN {Outcome(d, FALSE)} ELSE {}

DropIndexed(d, S) ==
    [index |-> Without(d.index, S),
     bytes |-> SaturatingSub(d.bytes, Total(S \cap DOMAIN d.index, IndexSize(d.index))),
     order |-> Forget(d.order, S),
     files |-> d.files,
     lost  |-> d.lost]

Unlink(d, S) == [d EXCEPT !.files = Without(@, S)]

\* An index record leaves before its file is removed; when the removal fails
\* disk_bytes keeps counting it.
Unindexed(d, k) ==
    [index |-> Without(d.index, {k}), bytes |-> d.bytes,
     order |-> Forget(d.order, {k}), files |-> d.files, lost |-> d.lost + d.index[k].bytes]

RemoveDiskRecord(d, k) ==
    IF k \in DOMAIN d.index
    THEN {Outcome(Unlink(DropIndexed(d, {k}), {k}), TRUE)}
         \cup Failing("remove", Unindexed(d, k))
    ELSE {Outcome(d, TRUE)}

\* Mutant: a custom policy that is offered pinned records too.
EvictDiskIgnoringPins(d) ==
    {Outcome(Unlink(DropIndexed(d, E), E), TRUE) : E \in
        Evictions(DOMAIN d.index, d.order, IndexSize(d.index), d.bytes, MaxDisk)}

EvictDisk(d) ==
    LET candidates == Unpinned(d.index)
        size == IndexSize(d.index)
        Partial(E) == {last \in E :
                         Reached(E, last, candidates, d.order, size, d.bytes, MaxDisk)}
    IN  {Outcome(Unlink(DropIndexed(d, E), E), TRUE) :
            E \in Evictions(candidates, d.order, size, d.bytes, MaxDisk)}
        \cup UNION {UNION {Failing("remove",
                              Unindexed(Unlink(DropIndexed(d, E \ {last}), E \ {last}), last))
                           : last \in Partial(E)} : E \in SUBSET candidates}

\* A successful put_if_absent of an unindexed key: the file, and the index
\* record that put inserts for it.
Inserted(d, k, e) ==
    LET stored == Header + Size[e.value]
    IN  [index |-> With(d.index, k, [bytes |-> stored, expires |-> e.expires,
                                     pinned |-> e.pinned]),
         bytes |-> d.bytes + stored,
         order |-> Touch(d.order, k, DOMAIN d.index),
         files |-> With(d.files, k, e),
         lost  |-> d.lost]

Expired(expires, now) == expires # 0 /\ expires <= now

\* put drops an expired index record before it writes.
DropIfExpired(d, k, now) ==
    IF k \in DOMAIN d.index /\ Expired(d.index[k].expires, now)
    THEN RemoveDiskRecord(d, k)
    ELSE {Outcome(d, TRUE)}

\* Mutant: put_if_absent's answer is ignored, so an unindexed file is
\* overwritten in the index only.
WriteIgnoringAbsence(d, k, e) ==
    IF k \in DOMAIN d.index
    THEN {Outcome(d, TRUE)}
    ELSE EvictDisk([Inserted(d, k, e) EXCEPT
                       !.files = IF k \in DOMAIN d.files THEN d.files ELSE @])

\* The write-once disk write: an indexed key is left alone, an unindexed file
\* is left unindexed, a new file is indexed and the tier brought under quota.
WriteIfAbsent(d, k, e) ==
    IF k \in DOMAIN d.index
    THEN {Outcome(d, TRUE)}
    ELSE Failing("put", d) \cup
         IF k \in DOMAIN d.files
         THEN {Outcome(d, TRUE)}
         ELSE EvictDisk(Inserted(d, k, e))

-----------------------------------------------------------------------------
(* Time.                                                                   *)

\* put: a sub-second TTL is rounded up to one second, a longer one down.
ExpiresAt(now, ttl) ==
    IF ttl = 0 THEN 0 ELSE now + (IF ttl \div 2 >= 1 THEN ttl \div 2 ELSE 1)

\* `now` is read before the lock is taken, so it may be stale.
Readings == {now \in 0..clock : clock - now <= MaxLag}

Init ==
    /\ memory = NoMemory
    /\ disk = EmptyIndex(NoEntries)
    /\ open = FALSE
    /\ clock = 0
    /\ call = [t \in Threads |-> Idle]
    /\ dead = [k \in Keys |-> Values]

Advance ==
    /\ clock < MaxClock
    /\ clock' = clock + 1
    /\ UNCHANGED <<memory, disk, open, call, dead>>

-----------------------------------------------------------------------------
(* ContextCache::get, one action per way out.                              *)

MemoryLive(k, now) == k \in DOMAIN memory.recs /\ ~Expired(memory.recs[k].expires, now)

GetMemoryHit(k, now) ==
    /\ open
    /\ MemoryLive(k, now)
    /\ memory' = [memory EXCEPT !.order = Touch(@, k, DOMAIN memory.recs)]
    /\ UNCHANGED <<disk, open, clock, call, dead>>

\* The memory tier once get has dropped an expired record of k.
Fallen(k) == DropMemory(memory, {k})

GetMiss(k, now) ==
    /\ open
    /\ ~MemoryLive(k, now)
    /\ k \notin DOMAIN disk.index
    /\ memory' = Fallen(k)
    /\ UNCHANGED <<disk, open, clock, call, dead>>

GetExpired(k, now) ==
    /\ open
    /\ ~MemoryLive(k, now)
    /\ k \in DOMAIN disk.index /\ Expired(disk.index[k].expires, now)
    /\ memory' = Fallen(k)
    /\ \E r \in RemoveDiskRecord(disk, k) : disk' = r.d
    /\ UNCHANGED <<open, clock, call, dead>>

\* The reads that reach the store.
ReadsStore(k, now) ==
    /\ open
    /\ ~MemoryLive(k, now)
    /\ k \in DOMAIN disk.index /\ ~Expired(disk.index[k].expires, now)

\* The store has lost the file: the index record goes.
GetVanished(k, now) ==
    /\ ReadsStore(k, now)
    /\ k \notin DOMAIN disk.files
    /\ memory' = Fallen(k)
    /\ disk' = DropIndexed(disk, {k})
    /\ UNCHANGED <<open, clock, call, dead>>

\* A corruption error of store.get, or metadata that disagrees with the index.
Unreadable(k) ==
    \/ disk.files[k].damage \in {"payload", "header"}
    \/ disk.files[k].expires # disk.index[k].expires
    \/ disk.files[k].pinned # disk.index[k].pinned

GetCorrupt(k, now) ==
    /\ ReadsStore(k, now)
    /\ k \in DOMAIN disk.files /\ Unreadable(k)
    /\ memory' = Fallen(k)
    /\ \/ disk' = Unlink(DropIndexed(disk, {k}), {k})
       \/ "remove" \in Faults /\ UNCHANGED disk
    /\ UNCHANGED <<open, clock, call, dead>>

\* Any other store error is returned to the caller.
GetFails(k, now) ==
    /\ "get" \in Faults
    /\ ReadsStore(k, now)
    /\ memory' = Fallen(k)
    /\ UNCHANGED <<disk, open, clock, call, dead>>

GetDiskHit(k, now) ==
    /\ ReadsStore(k, now)
    /\ k \in DOMAIN disk.files /\ ~Unreadable(k)
    /\ disk' = [disk EXCEPT !.order = Touch(@, k, DOMAIN disk.index)]
    /\ LET e == disk.files[k]
       IN  memory' \in Remember(Fallen(k), k, [value |-> e.value, expires |-> e.expires,
                                               pinned |-> e.pinned])
    /\ UNCHANGED <<open, clock, call, dead>>

-----------------------------------------------------------------------------
(* ContextCache::put.                                                      *)

\* Put revives v for k: no earlier or unfinished invalidation covers it.
Revive(k, v) ==
    /\ dead' = [dead EXCEPT ![k] = @ \ {v}]
    /\ call' = [t \in Threads |-> [call[t] EXCEPT !.pre[k] = @ \ {v}]]

Entry(v, expires, pinned) ==
    [value |-> v, expires |-> expires, pinned |-> pinned, damage |-> "none"]

\* The disk outcomes of put: a payload larger than the quota is not written.
DiskWrites(k, e, now) ==
    IF MaxDisk > 0 /\ Size[e.value] <= MaxDisk
    THEN UNION {IF r.ok THEN WriteIfAbsent(r.d, k, e) ELSE {r} :
                   r \in DropIfExpired(disk, k, now)}
    ELSE {Outcome(disk, TRUE)}

\* A failed disk write returns before memory is written.
Put(k, v, ttl, pinned, now) ==
    /\ open
    /\ LET expires == ExpiresAt(now, ttl)
       IN  \E r \in DiskWrites(k, Entry(v, expires, pinned), now) :
             /\ disk' = r.d
             /\ IF r.ok
                THEN memory' \in Remember(memory, k, [value |-> v, expires |-> expires,
                                                      pinned |-> pinned])
                ELSE UNCHANGED memory
    /\ Revive(k, v)
    /\ UNCHANGED <<open, clock>>

-----------------------------------------------------------------------------
(* invalidate and clear: files first, without the lock, records afterwards. *)

BeginInvalidate(t, k) ==
    /\ open /\ call[t].op = "none"
    /\ call' = [call EXCEPT ![t] = [Idle EXCEPT !.op = "invalidate", !.keys = {k}, !.todo = {k}]]
    /\ UNCHANGED <<memory, disk, open, clock, dead>>

\* The directory listing names every file present when it is opened and
\* perhaps some created later.
BeginClear(t) ==
    /\ open /\ call[t].op = "none"
    /\ \E listed \in SUBSET Keys :
         /\ DOMAIN disk.files \subseteq listed
         /\ call' = [call EXCEPT ![t] =
                       [op |-> "clear", keys |-> Keys, todo |-> listed,
                        pre |-> [k \in Keys |-> IF k \in listed THEN {} ELSE Values]]]
    /\ UNCHANGED <<memory, disk, open, clock, dead>>

\* Mutant: the store is left alone and only the records are dropped.
RemoveNoFile(t, k) ==
    /\ k \in call[t].todo
    /\ call' = [call EXCEPT ![t].todo = @ \ {k}, ![t].pre[k] = Values]
    /\ UNCHANGED <<memory, disk, open, clock, dead>>

\* store.remove(key), or one file of store.clear().
RemoveFile(t, k) ==
    /\ k \in call[t].todo
    /\ disk' = Unlink(disk, {k})
    /\ call' = [call EXCEPT ![t].todo = @ \ {k}, ![t].pre[k] = Values]
    /\ UNCHANGED <<memory, open, clock, dead>>

\* A store error ends the call before any record is dropped.
RemoveFails(t) ==
    /\ "remove" \in Faults
    /\ call[t].todo # {}
    /\ call' = [call EXCEPT ![t] = Idle]
    /\ UNCHANGED <<memory, disk, open, clock, dead>>

\* The call returns: what its removals covered may not be served any more.
Return(t) ==
    /\ dead' = [k \in Keys |-> dead[k] \cup call[t].pre[k]]
    /\ call' = [call EXCEPT ![t] = Idle]

FinishInvalidate(t) ==
    /\ call[t].op = "invalidate" /\ call[t].todo = {}
    /\ memory' = DropMemory(memory, call[t].keys)
    /\ disk' = DropIndexed(disk, call[t].keys)
    /\ Return(t)
    /\ UNCHANGED <<open, clock>>

FinishClear(t) ==
    /\ call[t].op = "clear" /\ call[t].todo = {}
    /\ memory' = NoMemory
    /\ disk' = EmptyIndex(disk.files)
    /\ Return(t)
    /\ UNCHANGED <<open, clock>>

-----------------------------------------------------------------------------
(* Crash, damage to files, and from_builder.                               *)

\* Nothing but the files survives.
Down ==
    /\ memory' = NoMemory
    /\ call' = [t \in Threads |-> Idle]
    /\ open' = FALSE

Crash ==
    /\ open
    /\ Down
    /\ disk' = EmptyIndex(disk.files)
    /\ UNCHANGED <<clock, dead>>

\* A crash inside put: the file is written, eviction has not caught up.
CrashInPut(k, v, ttl, pinned, now) ==
    /\ open
    /\ MaxDisk > 0 /\ Size[v] <= MaxDisk
    /\ \E r \in DropIfExpired(disk, k, now), E \in SUBSET Keys :
         LET d == Inserted(r.d, k, Entry(v, ExpiresAt(now, ttl), pinned))
         IN  /\ r.ok /\ k \notin DOMAIN r.d.index \cup DOMAIN r.d.files
             /\ \/ E = {}
                \/ /\ E \subseteq Unpinned(d.index)
                   /\ \E last \in E : Reached(E, last, Unpinned(d.index), d.order,
                                              IndexSize(d.index), d.bytes, MaxDisk)
             /\ disk' = EmptyIndex(Without(d.files, E))
    /\ Down
    /\ dead' = [dead EXCEPT ![k] = @ \ {v}]
    /\ UNCHANGED clock

\* Media damage: to the payload, to the header so that it no longer parses, or
\* to the unchecksummed pin byte of a header that still parses.
Rot(k, kind) ==
    /\ "rot" \in Faults
    /\ k \in DOMAIN disk.files /\ disk.files[k].damage = "none"
    /\ disk' = [disk EXCEPT !.files[k].damage = kind,
                            !.files[k].pinned = IF kind = "meta" THEN ~@ ELSE @]
    /\ UNCHANGED <<memory, open, clock, call, dead>>

\* load_index drops the files whose header does not parse; it does not read
\* payloads.
Headless(files) == {k \in DOMAIN files : files[k].damage = "header"}
Stale(files, now) == {k \in DOMAIN files : Expired(files[k].expires, now)} \ Headless(files)

\* Mutant: disk_bytes is not rebuilt.
LoadedUncounted(files, kept) ==
    [index |-> [k \in kept |-> [bytes |-> Header + Size[files[k].value],
                                expires |-> files[k].expires, pinned |-> files[k].pinned]],
     bytes |-> 0, order |-> {}, files |-> files, lost |-> 0]

\* The index of the files that load; their modification times, in seconds, may
\* tie in any way, so no order is known.
Loaded(files, kept) ==
    [index |-> [k \in kept |-> [bytes |-> Header + Size[files[k].value],
                                expires |-> files[k].expires, pinned |-> files[k].pinned]],
     bytes |-> Total(kept, [k \in kept |-> Header + Size[files[k].value]]),
     order |-> {},
     files |-> files,
     lost  |-> 0]

\* The outcomes of the builder over the present files.
Reopenings(now) ==
    LET stale == Stale(disk.files, now)
        headless == Headless(disk.files)
        Stuck == IF "remove" \in Faults THEN SUBSET headless ELSE {{}}
        Partly == IF "remove" \in Faults THEN (SUBSET stale) \ {stale} ELSE {}
    IN  (UNION {EvictDisk(Loaded(Without(disk.files, stale \cup (headless \ stuck)),
                                 DOMAIN disk.files \ (stale \cup headless))) : stuck \in Stuck})
        \cup {Outcome(Unlink(disk, done \cup headless), FALSE) : done \in Partly}

\* from_builder: an error leaves no cache behind.
Open(now) ==
    /\ ~open
    /\ IF MaxDisk = 0
       THEN open' = TRUE /\ UNCHANGED disk
       ELSE \E r \in Reopenings(now) :
              /\ open' = r.ok
              /\ disk' = IF r.ok THEN r.d ELSE EmptyIndex(r.d.files)
    /\ UNCHANGED <<memory, clock, call, dead>>

-----------------------------------------------------------------------------
Get(k, now) ==
    \/ GetMemoryHit(k, now)
    \/ GetMiss(k, now)
    \/ GetExpired(k, now)
    \/ GetVanished(k, now)
    \/ GetCorrupt(k, now)
    \/ GetFails(k, now)
    \/ GetDiskHit(k, now)

Remove(t) ==
    \/ BeginClear(t)
    \/ \E k \in Keys : BeginInvalidate(t, k) \/ RemoveFile(t, k)
    \/ RemoveFails(t)
    \/ FinishInvalidate(t)
    \/ FinishClear(t)

Next ==
    \/ Advance
    \/ \E k \in Keys, now \in Readings : Get(k, now)
    \/ \E k \in Keys, v \in Values, ttl \in TTLs, pinned \in Pins, now \in Readings :
         Put(k, v, ttl, pinned, now) \/ CrashInPut(k, v, ttl, pinned, now)
    \/ \E t \in Threads : Remove(t)
    \/ Crash
    \/ \E k \in Keys, kind \in Damage \ {"none"} : Rot(k, kind)
    \/ Open(clock)

Spec == Init /\ [][Next]_vars

-----------------------------------------------------------------------------
(* Properties.                                                             *)

MemoryTier(m) ==
    /\ m = [recs |-> m.recs, bytes |-> m.bytes, order |-> m.order]
    /\ IsMap(m.recs, Keys, MemoryRecord)
    /\ m.bytes \in Nat
    /\ m.order \subseteq Keys \X Keys

DiskTier(d) ==
    /\ d = [index |-> d.index, bytes |-> d.bytes, order |-> d.order, files |-> d.files,
            lost |-> d.lost]
    /\ IsMap(d.index, Keys, StoreRecord)
    /\ IsMap(d.files, Keys, StoredEntry)
    /\ d.bytes \in Nat /\ d.lost \in Nat
    /\ d.order \subseteq Keys \X Keys

\* Every variable has the shape of the Rust state it stands for.
TypeOK ==
    /\ MemoryTier(memory)
    /\ DiskTier(disk)
    /\ open \in BOOLEAN
    /\ clock \in Nat
    /\ call \in [Threads -> CallState]
    /\ dead \in [Keys -> SUBSET Values]

\* Inner::memory_bytes is the sum of the resident payload lengths, through every
\* insertion, replacement, eviction, expiry, invalidation and clear.
MemoryAccounted == memory.bytes = Total(DOMAIN memory.recs, MemorySize(memory.recs))

\* memory_bytes exceeds the capacity only when nothing but pinned records is
\* resident: evict_memory_locked never stops early.
MemoryBounded == memory.bytes <= MaxMemory \/ Unpinned(memory.recs) = {}

\* memory_bytes is exact after every get, put and invalidate, and with it the eviction
\* loop keeps max_memory_bytes up to pinned records.
MemorySafe == MemoryAccounted /\ MemoryBounded

\* disk_bytes is the size of the indexed files and of those whose removal failed: it
\* drifts upwards only, so no saturating subtraction ever hides a deficit.
DiskAccounted == disk.bytes = Total(DOMAIN disk.index, IndexSize(disk.index)) + disk.lost

\* While no removal has failed since the last restart or clear, the index exceeds its
\* quota only when every indexed record is pinned, also right after a restart over an
\* overfull store.
DiskBounded == disk.lost = 0 => disk.bytes <= MaxDisk \/ Unpinned(disk.index) = {}

\* The values a get(k) can return now, or after a restart.
Held(k) ==
    {memory.recs[j].value : j \in {k} \cap DOMAIN memory.recs}
    \cup {disk.files[j].value : j \in {k} \cap DOMAIN disk.files}

\* A value is never held for a key under which it was not put, nor once an
\* invalidate or clear that began removing after its last put has returned:
\* not from memory, not through promotion, not from an unindexed file that a
\* restart would load.
NeverServesDead == \A k \in Keys : Held(k) \cap dead[k] = {}

\* An undamaged file and its index record carry the same expiry, pin and size,
\* whatever invalidations, failed removals and restarts interleave with puts:
\* get's metadata-mismatch branch is only ever taken for damaged files.
IndexAgreesWithFiles ==
    \A k \in DOMAIN disk.index \cap DOMAIN disk.files :
        disk.files[k].damage # "meta" =>
            disk.index[k] = [bytes |-> Header + Size[disk.files[k].value],
                             expires |-> disk.files[k].expires,
                             pinned |-> disk.files[k].pinned]

\* The disk tier has its shape, disk_bytes is exact up to failed removals and keeps the
\* quota up to pinned records, and index and files agree.
DiskSafe == DiskTier(disk) /\ DiskAccounted /\ DiskBounded /\ IndexAgreesWithFiles

\* A pinned file leaves the store only because it expired, is damaged, or an
\* invalidate or clear is removing it: quota eviction and restarts spare it.
PinnedKept ==
    [][\A k \in DOMAIN disk.files \ DOMAIN disk.files' :
           disk.files[k].pinned =>
              \/ Expired(disk.files[k].expires, clock)
              \/ disk.files[k].damage # "none"
              \/ \E t \in DOMAIN call : k \in call[t].todo]_vars

\* A restart puts index, files and disk_bytes back in step, whatever the crash
\* interrupted and whatever files earlier races left unindexed: only a file that does
\* not parse, and that the store refuses to remove, stays outside the index.
RestartsHeal ==
    [][~open /\ open' /\ MaxDisk > 0 =>
         /\ DOMAIN disk.index' \subseteq DOMAIN disk.files'
         /\ \A k \in DOMAIN disk.files' \ DOMAIN disk.index' : disk.files'[k].damage = "header"
         /\ disk.bytes' = Total(DOMAIN disk.index', IndexSize(disk.index'))]_vars

\* The files the store holds stay within the quota unless all are pinned, the
\* "bounded filesystem persistence" of the README.
StoreBounded ==
    \/ Total(DOMAIN disk.files, [k \in DOMAIN disk.files |-> Header + Size[disk.files[k].value]])
         <= MaxDisk
    \/ \A k \in DOMAIN disk.files : disk.files[k].pinned
    \/ ~open

=============================================================================
