# RivetCache in TLA+

A model of RivetCache, the Rust cache for prompt contexts and runtime
KV blocks: what each component keeps, which steps its operations take, which
orders of those steps other threads, failures and restarts can produce, and what
stays true in all of them. TLC checks the modules on small instances; TLAPS
proves invariants of twelve of them, and two refinements, for every value of the constants.

`PROJECT.json` maps every definition that models code to its source lines and lists
the runs, the mutants (a plausible bug each property catches), the hazards and
the theorems. Paths below are relative to the repository.

## 1. The system

| Component | State | Operations | Interaction |
|---|---|---|---|
| `ContextCache` (`src/lib.rs`, `src/policy.rs`) | memory records and `memory_bytes`, disk index and `disk_bytes`, access ticks, all under one lock; a `PersistentStore` outside it | `get`, `put`, `get_many`, `put_many`, `invalidate`, `invalidate_many`, `clear`, reopening | calls the store, mostly under the lock, but for the removals of `invalidate` and `clear` |
| Stores (`src/store.rs`) | files and temporary files; a map; a list of stores | `load_index`, `get`, `put_if_absent`, `remove`, `clear` | called by `ContextCache`; other processes see the same files |
| `KvEngine` (`src/kv.rs`) | an ordered list of `KvTier`s, no lock of its own | `put`, `put_to`, `get`, `move_block`, `prefetch_to`, `set_pinned`, `invalidate`, `clear`, `capture_from`, `restore_into` | several tier calls per operation, interleaved with those of other threads |
| `PrefixIndex` (`src/kv.rs`) | registered token prefixes | `register`, `longest_prefix` | filled by `MpCacheService` |
| `ContextCacheTier` (`src/kv.rs`) | a `ContextCache` | tier operations | puts the engine's envelope into the cache as a payload |
| `AsyncKvPipeline` (`src/async_runtime.rs`) | bounded channel, job registry, atomic counters, worker threads, a condition variable | `submit_*`, `take`, `snapshot`, `wait`, `finish`, drop | workers run the jobs on a `KvEngine` and publish events |
| `MpCacheService` (`src/mp.rs`), `RuntimeCacheController` (`src/runtime_control.rs`) | sessions, requests; none | `submit_*`, `query`, `wait`, `end_session` | submit to the pipeline; the service publishes prefixes when a store is seen to be complete |
| `QuotaManager` (`src/control.rs`) | per tenant: quota, used, reserved, in flight | `set_quota`, `begin_request`, `reserve_storage`, `release_storage`; the leases and reservations given out | one lock; handles are given up by any thread |
| `FleetRegistry`, `CacheController`, `ControllerServer` (`src/control.rs`) | nodes and their last heartbeat; one thread, a stop flag | `heartbeat`, `prune_stale`, HTTP routes, `shutdown` | serves quotas, nodes and metrics, one connection at a time |
| `RivetDaemon` (`src/daemon.rs`) | a data and a control server | `spawn`, `stop`, drop | owns a `TcpKvServer` and a `ControllerServer` |
| `PinnedMemoryPool` (`src/memory.rs`) | cached regions, counters | `acquire`, lease drop, pool drop | used by allocators and transports |
| `DeviceKvTier` (`src/device.rs`) | map of device buffers | tier operations, drop | a `KvTier` over a `DeviceMemory` |
| HIP memory and direct I/O (`src/hip_native.rs`, `src/direct_transport.rs`) | registry of allocations | `allocate`, `upload`, `download`, `free`, device copies, hipFile transfers | a `DeviceMemory` and a `GpuDirectIo` over a native runtime |
| Remote tier and server (`src/remote.rs`) | connections, in-flight count, shutdown flag | tier operations over TCP, `spawn`, `stop` | a `KvTier` whose calls may fail after they took effect |
| Handoff (`src/distributed.rs`) | sink and source tiers | `publish_prefill`, `fetch_decode` | prefill and decode workers |
| `CodecKvTier` (`src/codec.rs`) | registry of codecs | tier operations | frames what another tier keeps |
| Redis, HTTP and S3 tiers (`src/connectors.rs`) | none: a connection per command | tier operations | external servers |
| SDK tier and Mooncake (`src/sdk_tier.rs`, `src/mooncake.rs`) | library and store handles | tier operations, connect, drop | a store shared by processes |
| llama-server slots (`src/llama_server.rs`) | files in a shared directory | `capture`, `restore`, `erase` | llama-server writes and reads the files |
| Engine adapters (`src/llama_cpp.rs`, `src/vllm.rs`, `src/llama_quality.rs`) | none | `capture`, `restore`, `restore_relocated`, `recompute_ranges` | host callbacks of an inference runtime |
| Reuse and quality (`src/reuse.rs`, `src/quality.rs`) | registered segments | `register`, `best_segment`, `plan_quality_reuse`, `apply_quality_reuse` | read blocks from a `KvEngine`, write them to an adapter |
| `KvEventBus` (`src/events.rs`) | subscribers, sequence | `publish`, `subscribe`, `unsubscribe` | called from pipeline workers |
| `PrometheusRegistry` (`src/observability.rs`) | metrics | counters, gauges, histograms, `render` | fed by tiers, events and the controller |
| GPU-direct and NIXL FFI, plugin registry, binaries | handles | FFI, wiring | see 6 |

What is hard here, and what makes each part correct:

* `ContextCache`: the removals of `invalidate` and `clear` run without the lock, in
  front of their locked half; counters are updated with saturating arithmetic, which
  hides an error for good; store calls fail half way; a crash can fall between a
  file and its index record. Correct means: what was invalidated is never served
  again, the counters say what is there, the quotas hold up to pinned records, and
  a restart repairs what a failure left.
* Stores: a write is a temporary file, a sync and a rename, beside other processes, dying
  ones and power losses; a layered write spans several stores and is taken back when one
  fails. Correct means: no name ever leads to part of an entry, replicas never conflict,
  and either store keeps the contract the cache builds on.
* `AsyncKvPipeline`: the registry, the channel and the counter are three pieces of
  state updated one after the other by clients and workers; the condition variable is
  notified without its lock; workers can die. Correct means: the three always
  agree, `finish` tells the truth and returns, and no accepted job is lost.
* `KvEngine`: read-then-write over several tiers with no lock. Correct means: envelopes
  stay whole, nothing expired is copied, a block is not lost by movement,
  rejected writes are taken back, and invalidation is final where it can be. Over a
  `ContextCacheTier` expiry and pin are kept twice, once by either layer.
* `QuotaManager`: counters split between a map and handles that live elsewhere. Correct
  means: the counters are the sums over the live handles, and commit, which checks
  nothing, cannot pass the quota.
* `MpCacheService`: a request is a job, a session entry and a record, filled one after
  the other; prefixes are published by whoever asks for the status of a store; the jobs
  of one session run side by side. Correct means: a prefix is published only
  behind a store that completed, a lookup leads only to blocks of the caller's own
  prompt, no request outlives its session, and a delete is final for what had ended before.
* Memory: regions and buffers are allocated, filled and freed outside the lock that guards
  the map naming them. Correct means: one owner each, nothing leaked or freed twice on any
  error path, and no use after a free.
* Everything with a peer (remote, Redis, S3, Mooncake, llama-server, runtimes): a call may
  fail after it took effect, and an answer may be cut or late. Correct means: what is
  acknowledged has happened, what is returned was stored, and a refusal changed nothing.
* Servers: threads that must come back to their stop flag whatever the peers do.

## 2. Modules

| Module | Models | See |
|---|---|---|
| `Bytes` | sums of sizes, saturating arithmetic, maps; a sum is a cardinality of unit bytes, so that it can be proved about | |
| `ContextCache` | `src/lib.rs`, `src/policy.rs`, the files of `src/store.rs` | 2.1 |
| `PersistentStore` | abstract: what `ContextCache` relies on of a store | 2.2 |
| `FileStore`, `LayeredStore` | `src/store.rs`; both implement `PersistentStore` (`IsPersistentStore`) | 2.2 |
| `AsyncKvPipeline` | `src/async_runtime.rs` | 2.3 |
| `WorkQueue` | abstract: what the pipeline promises (`IsWorkQueue`) | 2.3 |
| `KvEngine` | the engine of `src/kv.rs` | 2.4 |
| `ContextCacheTier` | extends `ContextCache` by the engine and the tier over it | 2.4 |
| `QuotaManager` | `QuotaManager` of `src/control.rs` | 2.5 |
| `MpCacheService` | `src/mp.rs`, `src/runtime_control.rs`, `execute` of `src/async_runtime.rs`, `PrefixIndex` and `block_keys` of `src/kv.rs` | 2.6 |
| `PinnedMemoryPool`, `DeviceKvTier`, `HipDeviceMemory` | `src/memory.rs`; `src/device.rs`; `src/hip_native.rs`, `src/direct_transport.rs` | 2.7 |
| `TcpKvTier`, `Handoff`, `Controller`, `Daemon` | `src/remote.rs`; `src/distributed.rs`; the rest of `src/control.rs`; `src/daemon.rs` | 2.8 |
| `EventBus`, `PrometheusRegistry` | `src/events.rs`; `src/observability.rs` | 2.9 |
| `CodecKvTier`, `KvEnvelope`, `Resp`, `RedisKvTier`, `S3KvTier`, `CivilDate`, `MooncakeKvTier` | `src/codec.rs`; `src/connectors.rs`; `src/sdk_tier.rs`, `src/mooncake.rs` | 2.10 |
| `LlamaSlotBridge`, `RuntimeAdapter`, `ReusePlan` | `src/llama_server.rs`; `src/llama_cpp.rs`, `src/vllm.rs`; `src/reuse.rs`, `src/quality.rs` | 2.11 |
| `*Proofs` | theorems | 4 |
| `MC*` | instances for TLC: model values, sizes, symmetry; most put several components, or one component under several kinds of stress, into one run | 3 |

Operators whose comment begins with "Mutant" are the plausible bugs of
`PROJECT.json`; no specification uses them. Variables whose comment says "history" are
not in the code: they record what a property speaks of.

### 2.1 ContextCache

`memory` is `Inner::memory` with `memory_bytes`; `disk` is the index with `disk_bytes`,
plus the files the store really holds. The access ticks matter only through the
order they induce, which is kept as a relation, so the clock of accesses needs no
bound. `get` and `put` hold the lock throughout and are one action per outcome;
the eviction loops are described by the set of victims a run of the loop can end
with (`Evictions`), for every order of ties. `BeginInvalidate`/`BeginClear`,
`RemoveFile` and `FinishInvalidate`/`FinishClear` are separate steps, because the lock is
taken only for the last. `Crash`, `CrashInPut` and `Open` are the restarts; `Rot` damages a
file; the constant `Faults` says which store calls may fail. `clock` readings may be
stale by the time the lock is held (`MaxLag`). Metrics and statistics are left out:
no decision reads them.

### 2.2 PersistentStore, FileStore, LayeredStore

`PersistentStore` is the contract for one key: an entry is written only where there is none,
and stays as written until it is removed or lost. `FileStore` takes `put_if_absent` apart:
name check, temporary file (named by pid and nonce), write, sync, rename, clean-up, each of
which may fail or be the last step of a dying process; `durable` is what the name leads to
after a power loss. `load_index` deletes what it finds damaged, also while another process
writes, and what it cannot get the metadata of, whole or not. `get` opens one file and checks what it opened, so it sees one file; it is a step of
`ContextCache`. `LayeredStore` reads all backends, writes them in turn and takes back what
it wrote; removals of other threads fall between, because `ContextCache` makes them
without its lock. A restart empties the volatile backends.

### 2.3 AsyncKvPipeline and WorkQueue

One step per access to the registry, the channel or an atomic, in the order of the
code: `submit` registers, counts, sends, and either counts the submission or rolls the
counter and then the entry back; a worker receives, marks running, records,
releases the counter, notifies. A notification reaches only a thread that is already
asleep, so it can be lost between `finish`'s check and its sleep, as in the code. A
panic inside `execute` kills the worker and rolls nothing back. What `execute` does to
the engine is an arbitrary outcome here; `KvEngine` models it. Drawing an id and
registering it are one step, because nobody knows the id in between.

`WorkQueue` counts a job as active from the moment a worker has received it. The job of a
worker that a panic has ended stays active for good, since nothing ever records it; this is
why the refinement with its fairness is checked without panics, and its safety part proved
with them.

### 2.4 KvEngine and ContextCacheTier

Tiers keep their keys apart and each call works on one key at a time, so the
module follows one key. A running call is the list of tier calls it still has to make
and the entry it carries; each tier call is one step, and any of them may fail.
A tier is any `KvTier`: it stores, returns and removes, may evict by itself (`Lose`),
and rejects a write without effect or, as a remote tier may, stores it and reports an
error (`AnswerLost`).

History variables delimit what can be promised. `dead` collects the values removed by an
invalidation that no copying call overlapped: a `get` that promotes, a move, a
prefetch or a pin that has read the entry beforehand writes it back afterwards,
and no part of the code prevents that. `kept` is dropped when two moves of the
block overlap, for two opposite moves can each remove the copy the other relies on.
Both are listed as hazards; the properties show that nothing else does harm.

`ContextCacheTier` extends `ContextCache` and puts an engine with one tier over it, as
`rivet-cache-mp` does. An entry's expiry and pin are in the envelope, which is the cache's
payload, and the pin is also in the cache's record; the disk tier is write-once, so a
`set_pinned`, which writes a changed envelope back, meets an older file. The engine's
read and write are two steps, the tier's calls the actions of `ContextCache`.

### 2.5 QuotaManager

Each method is one critical section. The handles are state, because they are given
up at any later time: `leases` and `pending`. Bytes and entries are accounted alike
and are the two dimensions of one counter. Sums saturate at `Top`; storage limits are
below it, for a limit of `u64::MAX` cannot be told from a saturated sum.

### 2.6 MpCacheService

Composes the service with abstractions of the two components below it. The pipeline
is what `WorkQueue` promises: at most `PoolSize` jobs run, any waiting job may be next,
each ends once; `execute` goes through the keys of a job one by one and an
error ends it half way. The engine is the set of keys that some tier holds, and a call
that copies an entry reads it in one step (`Read`) and may write it in a later one
(`WriteBack`), which is what `KvEngine` shows of `get`, `prefetch_to` and `set_pinned`. A pin
changes no key's presence, so `submit_pin` pins and unpins alike.

`register` and `end_session` take two locks in turn and are two steps each; `query` and `wait`
are a snapshot, a look at the record, the registration of the prefix and the flag.
Submitting is one step with what precedes it: a job may wait before it starts, so
submitting it early gives no behaviour away. A block key is its model, its tokens up to
the end of the block and its start: SHA-256 is taken to be free of collisions.
History: `raced`, the ids that an `end_session` took between the two steps of their
`register` (they stay in `requests` for good, a hazard), and `after`, the jobs that had ended
when a job was submitted.

The jobs of `RuntimeCacheController` (`RuntimeMove`, `RuntimePin`, ...) enter the same pipeline
with no session and no request. A move looks only into its source tier, so it may miss a
block that another tier holds; what two opposite moves lose is a step of `Lose`.

### 2.7 Memory: PinnedMemoryPool, DeviceKvTier, HipDeviceMemory

`PinnedMemoryPool`: `acquire` takes the best fitting cached region under the lock, or leaves
the lock and has a region mapped, bound to its node and locked, each of which may fail and
is undone; a dropped lease returns its region if `max_cached_bytes` allows. Leases keep
the pool alive. `DeviceKvTier`: the lock covers the map only; allocation, upload, download
and free are steps outside it. `HandleReuse` tells `FfiDeviceMemory`, whose accelerator may hand
a freed handle out again, from `HostDeviceMemory`, which counts upwards.
`HipDeviceMemory`: the registry is consulted under its lock, the native call made without;
`free` calls `hipFree` before it removes the registry entry, so the runtime can hand the
address out while the entry is still there. A `DeviceBuffer` is a copyable handle, so any caller
may use or free any buffer that was ever given out (`known`), at any time: while others use it,
while others free it, and after it was freed. The memory may be dropped while `HipDirectIo`, which
shares its registry, still transfers. History: `held`, the buffers that no free has freed;
`raced`, by call, the handles that a free or the drop was giving back after the call was validated;
`doubled`, that two frees of one handle have overlapped.

### 2.8 Servers and workers: TcpKvTier, Handoff, Controller, Daemon

`TcpKvTier` has both ends of every connection: the client connects, writes, reads and may
give up at each wait; the server accepts, counts, hands over to a thread, reads, executes,
answers in parts and may time out before each of them, inside a payload too: the error response
that it then writes follows the part of the payload that went out, and a client that reads on gets a
torn entry. The last connection is the one `stop` makes to wake the accepting thread. `Handoff`
publishes and fetches block by block over a tier any of whose calls may fail; one that failed may
have had its effect, at once or at any later time, or never (`late`, `Land`). `Controller` has
one thread that reads a request line, headers, routes and answers before it looks at the next
connection or the stop flag. Each line is read with a time-out per read and no limit until it is
complete, so a client may keep the thread with one part of a line after the other (`ReadPart`).
`refresh_metrics` counts the nodes and sets the gauge, and `render` reads it, in three steps; the
function is public, but only the server's thread calls it. The fleet is also used in process, with
the clock read before the lock. `Daemon` starts two servers in turn, undoes
the first when the second fails, and stops or drops both; a listener closes when its thread
ends, and addresses collide.

### 2.9 EventBus, PrometheusRegistry

`publish` draws its number, copies the subscribers, and calls them without the lock, catching
panics. The registry's calls are one critical section each; `InstrumentedKvTier` makes several
after an operation, and a scrape may fall between any two.

### 2.10 Wire formats and stores elsewhere

`CodecKvTier` has both codecs as operators over byte sequences (the run-length code with runs
up to `MaxRun`), frames as records, and an inner tier that damages them. `KvEnvelope` is the
connectors' envelope; `Resp` is the Redis reader with nesting and limits, over tokens;
`RedisKvTier` has a server with buckets that `SCAN` walks page by page while other tiers
write, and replies cut after any token. Keys are the namespace, `:` and the key, and `MATCH` is
a glob over an unescaped namespace, of which the model has `*` (not `?`, `[` and `\`). `S3KvTier` reads bodies with a length, in chunks or
up to the end of the connection, cut anywhere. `CivilDate` compares the date arithmetic with
a calendar that counts. `MooncakeKvTier` makes several SDK calls per operation, between which
another process' calls fall, and matches a namespace's pattern character by character, `.`
included.

### 2.11 Runtimes: LlamaSlotBridge, RuntimeAdapter, ReusePlan

`LlamaSlotBridge`: a slot is saved to a file named after the cache key, read, cached and
removed, and the other way round. The directory is shared, and so is the name of a slot file by all
bridges on one key. A save is a request, after which the server opens the file and later
writes it, also when the bridge has given the call up meanwhile. `validate_state_len`
checks a length against zero, the limit and the count that the server reported, if it did: a file
that is half written passes where no count was reported. Reading, removing, writing the
temporary file, replacing and renaming may each fail, and bridges crash. The slot's own state is not
kept: a save finds any state. History: `met`, whether another call's save or restore, or a late save of a
call given up, touched the file a call was working on. `RuntimeAdapter`: a capture asks the
host for a block's size and then for its bytes, while
the runtime generates; a restore loads every block, checks that they fit together, and writes
them one by one, relocated by a target. `ReusePlan`: `plan_quality_reuse` looks the longest common
segment of each range up under a lock of its own, between which other threads register and remove
segments; then its alignment to blocks, the rounds, boundary ranges, and the application of a plan
while the engine loses blocks.

## 3. Runs

An `MC` module with a variable `part` checks several instances in one run: the initial state
chooses a part, only that part's actions are taken, and everything else keeps its initial
state, so the states are the sum of the parts' states and not their product. The parts do not
interact; where components do interact the composition is a module of its own
(`ContextCacheTier`, `MpCacheService`) or a refinement (`IsWorkQueue`, `StoresPersist`).

V marks the runs whose property the code violates (section 5).

| Run (module) | Parts and instances | What it shows |
|---|---|---|
| `cache` (`MCCache`) | quota: 2 keys, 2 sizes, pins, failing reads and writes; races: 2 removers with puts, gets, crashes; faults: failing removals, damaged files, expiry, stale clock | `MemorySafe`: `memory_bytes` is exact and within its quota up to pinned records. `NeverServesDead`: nothing is served after its invalidation has returned, from memory, by promotion or after a restart. `DiskSafe`: index and undamaged files never disagree, `disk_bytes` is the indexed bytes plus those of failed removals, and the quota holds up to pinned records until a removal fails. `PinnedKept`: a pinned file only goes by expiry, damage or request. `RestartsHeal`: a restart that succeeds brings index, files and counter together |
| `cache_orphan` V (`MCCache`) | 1 remover, 2 keys | `StoreBounded` |
| `engines` (`MCEngines`) | tier: 2 callers, 2 blocks, room for one in each tier, restarts; tier expiry; llama: 2 bridges on one key, states of two sizes, 1 fault; runtime: 2 captured blocks, 6 sequences of keys, every target; reuse: every query of five bits and one of seven, 2 registered prompts, 2 models | `LayersAgree`: the cache's record and the envelope inside it never disagree. `FirmKept`: a block stored pinned stays. `LlamaSafe`: a restore loads no file that a bridge is writing, a capture or restore that no other met on its file is truthful, files are removed unless a removal or a crash left them, a stored state has the reported size. `AdapterSafe`: blocks are captured whole, a refused restore wrote nothing, a restored sequence has no gap. `ReuseSafe`: spans equal the query's tokens, recomputed ranges are exact, a miss leaves the runtime alone |
| `tier_late_pin` V (`MCEngines`) | 1 caller | `PinHolds` |
| `storage` (`MCStorage`) | replicas: 2 threads, 2 tiers, replicated writes, 4 calls, 1 failure, lost answers; movement: expiry, 3 calls, 1 failure, 1 eviction; file: 2 processes, 3 puts, 2 faults, 1 power loss; file alone; layered: 3 backends, 1 volatile, 2 removers, 2 errors | `InvalidationFinal`: what an invalidation or a clear removed, with no copying call beside it, is in no tier again and is carried by no put and no copying call; `ReplicasKept`: movement loses no block, a rejected put is taken back; `CopiesTrue`: copies keep bytes, expiry and pin, nothing expired is copied; `FileStoreSafe`: no name leads to part of an entry, temporary names never clash, `load_index` deletes nothing whole; `LayeredStoreSafe`: replicas agree, failures are undone; `StoresPersist`: both stores implement `PersistentStore` |
| `service` (`MCService`) | sessions: 2 threads, 2 sessions, 2 requests of two blocks, 1 failure; prefix: nested prompts of two models, 3 requests; data, runtime: 2 workers, 3 jobs on one block that tiers may lose, with the jobs of the runtime controller | `IndexTrue`: a prefix is published only behind a store that completed; `SessionsAgree`: no request outlives its session; `FetchesOwnPrefix`: a chain of lookups and retrieves leads only to the caller's own prompt; `DeleteFinal` |
| `memory` (`MCMemory`) | pool: 3 leases, sizes below, at and above the cache limit; device: handles never reused; device ffi: handles reused, 1 failing callback; hip: 2 callers sharing every buffer, 2 addresses, 2 allocations, 1 failing native call | `PoolSafe`, `DeviceKvTierSafe`: one owner per region or buffer, nothing leaked or freed twice, a download returns the block's own bytes where handles do not come back. `HipMemorySafe`: native calls stay within live allocations except where a free or the drop came between the registry's answer and the call, no allocation is lost while no two frees of one buffer overlap, registrations are returned |
| `control` (`MCControl`) | daemon: 2 daemons, 2 ports, restarts; tcp: 2 calls and the waking connection on one handler slot, time-outs before and inside every part of a response; controller: 2 nodes, 2 connections; events: 2 publishers, 3 subscriptions, one panics; metrics: 2 threads, 3 operations; handoff: 2 publishers of a prefix of two blocks and of none, 1 fetcher, 2 errors, each with or without its effect | `DaemonSafe`: what is down is closed, `stop` reports failures; `TcpKvTierSafe`: exact connection count, one answer per call, a get returns what the tier held unless its payload was cut by a time-out, and only then a torn entry, removals hold; `ControllerSafe`: scrapes are fresh, only stale nodes are pruned; `EventBusSafe`: who is registered throughout is called once, who left is not, counters settle; `MetricsSafe`: what a scrape sees adds up; `HandoffSafe`: a failed publish, whose keys no other call touched and whose rollback met no error, leaves at most the block whose put failed and takes nothing else away, one that succeeded keeps its blocks until another call touches their keys, a fetch accounts for the prefix it found |
| `adapters` (`MCAdapters`) | s3: 2 callers, 1 object, 2 faults; date: years around every kind of leap year; codec: every payload of up to four bytes, 2 tiers, 1 damage; redis, redis two: 2 tiers in one namespace and in `a` and `b`; pipeline: 2 clients, 2 workers, channel of 1, 3 jobs, both workers may panic; mooncake, mooncake dotted: 2 processes in one namespace, and in `a.b` and `axb` | `PipelineSafe`: the unsigned counter never goes below zero and is the number of jobs under way, a job has one owner, statistics settle; `FinishTruthful`, `OutcomeStable`; `CodecSafe`, `MooncakeSafe`; `RedisSafe`: a reply cut anywhere is an error, a clear is complete, and takes nothing of the other of two namespaces neither of which continues the other; `S3KvTierSafe`: only what the store executed is acknowledged, a cut answer is an error, signatures carry the calendar's date |
| `redis_namespaces` V (`MCAdapters`) | redis: 2 tiers, of the namespaces `a` and `a:b` | `NamespacesIsolated` |
| `servers` (`MCServers`) | quota: 2 tenants, 2 quotas, 4 sizes, 2 leases, 2 reservations; daemon: as in `control`; tcp; controller; pipeline: 2 clients, 2 workers, channel of 1, 2 jobs, no panic; fair threads | `QuotaSafe`: the counters are the sums over the live handles, and no quota is passed; `ServersStop`: spawn, stop, drop and shutdown return, those of the control server unless a client sends parts of lines for ever; `CallersReturn`: queued jobs end, `finish` and drop return; `IsWorkQueue`: the refinement of `WorkQueue` with its fairness |
| `controller_drop` V (`MCServers`) | controller: as in `servers` | `DroppingShutsDown` |

`MCStorage` extends `KvEngine` and `MCService`
extends `MpCacheService`: the loads differ in constants only and share the variables, and the
engine's and the service's properties are checked in all of them as the modules state them. So are
those of the component that any other `MC` module extends,
which is also how the proofs of section 4 use them.

Each of these properties is a conjunction of named parts defined in the component's module, where
each part has its comment; most include the module's `TypeOK`.

The bounds. Two keys are enough for an eviction to choose between records and
for a `clear` to be half done; sizes 1 and 2 with a header of 1 make a file larger
than its payload, a payload that fits where its file does not, and evictions of
one and of two records. Two removers overlap in every way two calls can. A channel
of one slot is full with two clients, so the rollback happens; three jobs let one
wait, one run and one be refused. Four engine calls on two threads are a put, a
copying call, a removing call and an observer. `Top` is next to the largest quota,
so sums saturate. `MaxDrift` stops failing removals from raising `disk_bytes` for ever.
Two requests and two threads let a query, a registration and the end of a session
overlap in pairs; three requests are two stores and the lookup that must choose, or
a store, a delete and the call that writes back between them. Blocks of a job are
independent of one another, so the parts `data` and `runtime` follow one.
Three puts of two processes let one reuse a name that a dead one left. Three backends let a
rollback pass over one it did not write. A cache limit of 3 with sizes 1, 2 and 4 holds
two regions, is exactly filled, and refuses one. Two addresses and two allocations bring an
address back after its buffer was freed, and its handle is still used. One handler slot makes the second connection wait or be
refused. Two faults are a failure and a failure of its rollback, or a cut reply and its
retry. Runs of at most two bytes make a payload of four exceed the longest run. Four
positions put the second block of a relocated pair past the top of `u32`.

Deadlock is checked in `cache*`, `engines` and `tier_late_pin`. The other runs say `CHECK_DEADLOCK FALSE`: their parts stop when their calls or bounds are used
up or when the modelled process has ended.

Fairness. The pipeline in `servers`: worker threads, a client inside `submit` and a thread
inside `finish` take their next step if it stays possible: they are OS threads, and
each waits only for a lock held for a few instructions, for the channel, or for a
timeout. Nobody has to call `submit`, `finish`, `take` or drop, and no worker is promised
the next job when another takes it first (weak fairness only). The timeout of `finish` is
part of its fair steps; without it a lost notification would be fatal, as its mutant
shows. The servers: of the data server only the accepting thread is fair; clients and handler threads
may do nothing for ever, because the acceptor waits for none of them. Of the control server the
one thread is fair, which includes the expiry of its read timeouts; clients are not, and one that
sends part of a line before each time-out keeps the thread: `ServersStop` excepts just that, and
`controller_drop` shows that the exception is needed. A daemon's
call that has begun goes on, and a server thread that was told to stop comes back to its loop,
which is what the other two parts show for their servers, under the same exception.

## 4. Proofs

All for any sets of keys, threads, tenants and handles, any sizes and capacities.

`ContextCacheProofs`: `TypeCorrect`, `InvalidationIsFinal` (`NeverServesDead`),
`MemoryCounterExact` (`MemoryAccounted`), `MemoryQuotaHolds` (`MemoryBounded`), and the last two
together as `MemoryIsSafe` (`MemorySafe`). Assumptions:
payload sizes are positive, capacities and times natural, the keys finite. The
invariant is `Inv`. `NeverServesDead` is not inductive: when an invalidation
returns, what makes its values dead is that their files were already gone
(`RemovedFilesGone`: no file holds a value that an unfinished removal has passed) and
that the locked half drops every record of the keys it covers (`CallsInScope`).
`MemoryBounded` needs `MemoryAccounted`, because the eviction loop stops on the counter. Lemmas
about each tier operator (what it removes, what it may add, how the counter
moves) carry the argument; each action is a lemma of its own.

The disk tier: `DiskIsSafe` (`DiskSafe`), `PinnedFilesKept` (`PinnedKept`) and `RestartsAlwaysHeal`
(`RestartsHeal`), from `DiskInv`, which is `Inv` and `Sound(disk)`: counter, quota and agreement of index and
files, said of any value a tier may have, so that one lemma per store operation serves every
action that makes it. The counter is exact only with the history field `lost`, the bytes of
records whose removal the store refused: the code drops the record and keeps its bytes. A restart
starts from nothing, so `RestartsHeal` needs no invariant of the crash.

The engine over the cache (`ContextCacheTier`): `TierUsesCache`, every behaviour of the composition
is one of `ContextCache`, so all of the above holds in it; `LayersAlwaysAgree` (`LayersAgree`) and
`FirmBlocksKept` (`FirmKept`), from `TierInv`. `FirmKept` is not inductive: that a firm block is
held rests on its pinned file (`FirmFiles`), that no record is without its file unless it is being
removed (`Backed`), and that nothing the cache holds can expire (`Undying`). `EnvelopeAssumption` says
that the payloads are the engine's envelopes; `FirmBlocksKept` also assumes a store
that takes every envelope and fails no call, without which a pin is indeed lost.

`StorageProofs`, the engine, for any threads, number of tiers, expiries, failures, lost answers and either write
policy: `TypesKept`, `CopiesAlwaysTrue` (`CopiesTrue`), `InvalidationsFinal` (`InvalidationFinal`),
`ReplicasAlwaysKept` (`ReplicasKept`). A running call is the list of tier calls it has left, so each
invariant speaks of what is on its way. `TypeInv`: the list holds only tier calls of the call's own
kind (`Shape`). `CopyInv`: what a call carries was asked to be stored. `FinalInv`: while an
invalidation that no copier overlapped runs, what it is to remove is only in tiers it has yet to
visit, and no put carries it (`InvalidationOnWay`); values are numbered, so that a later put's is new
(`Numbered`). `RollbackInv`: a replicated put goes through the tiers in order, its replicas are behind it,
and after a rejection only in tiers it has yet to undo, or the one that did not answer (`RollbackOnWay`).
`KeptInv`: while `kept` holds the only removal on its way is that of one move whose destination has the
block or is written first (`OnlyMovesRemove`, `OneMove`). Lemmas about the list operators
(`Above`, `Others`, `Each`) say which tiers a list visits, and in which order.

`StorageProofs`, the stores under the engine, for any processes, backends, keys, values, failures, crashes and power losses:
`LayeredAlwaysSafe` (`LayeredStoreSafe`), `FilesAlwaysWhole` (`FileStoreSafe`) and
`StoresAlwaysPersist` (`StoresPersist`, the refinement of `PersistentStore` step by step). `LayeredInv`: replicas
agree; while a `put_if_absent` goes through the backends, those it compared hold its entry or nothing
(`Compared`), and if nothing disturbs it they hold what they held before and what it inserted
(`OnlyInserted`), so that its rollback takes back just that. `FileInv`: a key's name leads to a whole file
that was synced (`NamedSynced`); who writes has a temporary file of its own, as complete as its step
says (`OwnTemp`), because a process that never died has not used its number yet (`NonceCounted`,
`NonceFresh`). The refinement takes the answer of a `get` for the abstract store's entry. `GetAgrees`: replicas that
agree give the same answer whichever backend comes first, so a step changes the answer only from or
to nothing; for a `FileStore` under one process, the name is free while it writes (`AloneInv`).

`MpCacheServiceProofs`, for any threads, sessions, prompts, kinds of request and pool size: `TypesKept`,
`SessionsAlwaysAgree` (`SessionsAgree`), `IndexAlwaysTrue` (`IndexTrue`), `FetchesAlwaysOwnPrefix`
(`FetchesOwnPrefix`), `DeletesFinal` (`DeleteFinal`). Assumed: blocks and the pool are not empty, and a prompt is a model with
at least one token. `TypeInv` holds every id below the next, so that a new request is in no registry.
`OwnInv` follows a request through the two locks of `register` and of `end_session` (`RegisteredOnce`,
`NotYetListed`, `HalfListed`, `RemovedUnlisted`). `IndexInv`: what a `query` read of an ended job is still true when
it publishes (`QueriesTrue`), because ended jobs do not change, and a store completes its keys in order
(`StoresInOrder`). `FetchInv` says of the records being registered what `FetchesOwnPrefix` says of jobs; it rests on
lemmas about `BlockKeys` (the blocks of a prompt are its prefixes, without gap) and about the
index (the longest match is a prefix of the query). `DeleteInv`: every key that a delete or clear has removed so far, also one
that has not completed, is there again only by an excused job (`RemovedExcused`), and the same of an entry that a copying
job has read and not written back (`HeldExcused`).

`QuotaManagerProofs`: `QuotaTypeCorrect`, `QuotaHolds`, `ReservationsExact`,
`InflightHolds`, together `QuotaIsSafe` (`QuotaSafe`). Assumptions: storage
limits are positive and below `u64::MAX`, sizes positive, finitely many handles.
`QuotaRespected` is not inductive: `commit` keeps used plus reserved only if the
saturating subtraction really subtracts, which follows from `ReservedExact`; the
same holds for the end of a request and `InflightBounded`. `BytesProofs` has the facts
about sums.

`AsyncKvPipelineProofs`, for any clients, workers, jobs and capacity, panics included:
`PipelineTypeCorrect`, `InflightCounts` (`InflightExact`), `JobsHaveOneOwner` (`OneOwner`),
`FinishTellsTruth` (`FinishTruthful`), `StatsSettled` (`StatsSettle`), `OutcomesStable` (`OutcomeStable`),
`PipelineIsSafe` (`PipelineSafe`), and `PipelineIsWorkQueue`: the safety part of the refinement of `WorkQueue`,
step by step (`SendAccepts`, `ReceiveStarts`, `RecordCompletes`; every other step, panics included, leaves
the abstract queue alone).
`OneOwner` and `InflightExact` do not carry themselves: that a worker's release
lowers the counter by exactly one needs that its job is in no other place. The invariant `Inv`
says so pair by pair: submits hold different jobs (`ClientsApart`), a queued job is queued once
and held by nobody (`QueueApart`), a worker's job by no other worker and no submit (`WorkersApart`), the
registry tells where each unfinished job is (`Registered`), and what a running `finish` still owes
is among those (`OwedApart`). Counting is by cardinalities of disjoint finite sets. The assumptions
are finitely many clients and workers. The refinement needs the same `Inv`: a job is accepted where it
was in no other place, and a worker that receives is not counted as active, so the pool has room.

`MemoryProofs`, the pool, for any regions, leases, sizes and nodes: `PoolTypeCorrect`,
`CacheAccounted` (`CachedBounded`), `OneOwnerEach` (`OneOwner`), `LeasesFit` (`LeaseFits`), `NothingLeaks`
(`NothingLeft`), together `PoolIsSafe` (`PoolSafe`). The strengthening is `Prepared` (how far the region of each acquire has come) and
`Owned`, `OneOwner` pair by pair.

`MemoryProofs`, the tier over device memory, for any threads, keys, handles and blocks, over a memory that
fails or not and gives handles out again or not: `DeviceKvTierAlwaysSafe` (`DeviceKvTierSafe`), from `DeviceInv`. One owner is said
pair by pair (`BufferOwners`); what is filled is said where the call or the entry has the
buffer (`CallAt`, `Filled`). `ReadsOwnBlock` is not inductive: that a `get` never meets another block
under its handle needs that, where no handle comes back, a handle it noted is freed or still holds that block, and
that nobody is going to fill it (`ReadsHeld`).

`MemoryProofs`, HIP memory, for any callers, addresses, sizes, allocations and failures, where anybody uses and frees any
buffer ever given out, and the memory is dropped under running transfers: `HipMemoryAlwaysSafe` (`HipMemorySafe`), from
`HipInv`. `free` gives the address back to the runtime before it removes the registry entry, so the entry may be that
of another allocation by then. What saves the buffers nobody frees is that an allocation which finds an entry takes
itself back: hence, while no two frees of one handle overlap, no allocation not yet freed has an address whose
entry a free is about to remove, and an allocation not yet registered is its caller's alone (`PendingLive`,
`HeldLive`); an allocation under an entry about to go is pending or lost (`Remembered`). A call that was validated stays inside
its allocation until that is freed, and then the handle is in its `raced` (`SettledLive`). That a file's registrations end
with the call, and that success means all bytes moved, needs none of this and holds also where frees overlap (`HipAlways`).

`ControlProofs`, the daemon, for any daemons and addresses: `DaemonTypeCorrect`, `DownMeansClosed` (`NothingLeft`),
`StopReportsFailures` (`StopTruthful`), together `DaemonIsSafe` (`DaemonSafe`). The strengthening, `Phase`, says which threads were started and
which joined at each point of a call; a step changes one daemon, so it is shown of one daemon's
state.

`ControlProofs`, the handoff, for any workers, prefixes and calls that report an error and take effect at any later time or never:
`HandoffAlwaysSafe` (`HandoffSafe`), from `HandInv`. What a publish has still to take back is a beginning of its prefix, and as
long as nobody disturbed it, what the tier has of its prefix beyond what was there is in that beginning, or is the block whose put
failed (`Untouched`); a rollback goes from the end, so what remains is again such a beginning. What was there before and the publish
did not put is still there. A fetch's blocks are those of the prefix it has passed, less what it missed (`Through`).

`ControlProofs`, the event bus, for any publishers, subscribers and panics: `EventBusAlwaysSafe` (`EventBusSafe`), from
`BusInv`. That nobody is called twice for an event is not inductive: it needs that two publishes carry
different numbers, all below the next, and that a publish has yet to call those it holds in `to` (`BusFits`). The counters settle
because the numbers handed out are those published and those on their way (`CountsFit`), counted as
finite sets.

`ControlProofs`, the TCP tier, for any calls, entries, payload limits and handler slots, where a server's write may time out before or
inside any part of a response: `TcpKvTierAlwaysSafe` (`TcpKvTierSafe`), from `TcpInv`. As long as the client has not given up, what
the handler has written and what it has still to write are together the answer to what it did (`Answering`), or it broke off
before the payload (`Broken`) or inside it, and then an error response follows the first part (`CutShort`). So what a
client reads is a beginning of the true answer, an error, or the one torn entry that `GetTrue` excepts. That a removal holds
needs that no put is pending anywhere while one
stands alone (`LonelyFits`): a put that reaches the tier was pending, so nobody was. The check of the
limit and the increment are one thread's, so the counter is the handlers' number on every way out (`InflightFits`).

`ControlProofs`, the controller, for any nodes, clients, ages and clocks: `ControllerAlwaysSafe` (`ControllerSafe`), from
`CtlInv`. While a request is routed the sizes of the fleet are collected; the count that `refresh_metrics` has read is
one of them, although heartbeats and prunes go on, and so is the gauge once it is set, until it is rendered
(`ScrapeFits`). What a running prune was told of since it read the clock is not older than its reading (`PruneFits`): a
heartbeat that inserts an older reading takes its node out of `fresh` again, and what is younger is never above
`max_age`.

`ControlProofs`, the metrics, for any threads, operations, sizes, durations, limits and gauges: `MetricsAlwaysSafe`
(`MetricsSafe`), from `RegInv`. Assumed: finitely many threads, ascending limits, and gauges whose names are not those of
the request counters and the duration histograms, as the program's are. A report writes two metrics at
different times, so the sums are kept with the threads that have yet to write (`Waiting`, `Telling`), counted
as finite sets (`Accounted`). A histogram stays cumulative because a duration falls into all buckets from one on
(`BucketsGrow`), and a report never meets a metric of another kind under its key (`MetricsFit`).

Only model-checked: `MooncakeKvTier`, `LlamaSlotBridge`, `RuntimeAdapter` and
`ReusePlan`. Outside the proof system, and so with TLC for good: liveness under fairness (`CallersReturn`,
`ServersStop`, the fairness in `IsWorkQueue`), `Resp`, `RedisKvTier` and `S3KvTier`, which use recursive operators, and what the recursive
functions of `CodecKvTier`, `ReusePlan` and `CivilDate` compute, which would need induction over
data. The proofs say nothing of the assumptions of the `MC` modules; TLC evaluates those.

## 5. Findings

* `cache_orphan`. `invalidate` and `clear` remove the file, then lock and drop the record. A
  `put` in between writes a file and a record, and the locked half drops the record
  alone. The file stays, uncounted: later puts of the key find it present and do not
  index it, so nothing ever evicts it, and the store holds more than
  `max_disk_bytes` of unpinned files until a restart. The README of the repository promises
  bounded persistence ("Bounded memory and persistence").
* `tier_late_pin`. `set_pinned` over a cache with a disk tier pins the memory copy only: the
  put it makes finds the key on disk and leaves the file alone. The quota then evicts the
  file of a block whose pin was acknowledged ("Protected from quota eviction").
* `controller_drop`. "Dropping the value shuts both listeners down": dropping a `ControllerServer` joins
  its one thread, and `read_line` has a time-out per read and looks at the length of a line when the line is complete, so
  a client that goes on sending parts of a line holds the thread, and the drop waits for it.
* `redis_namespaces`. "namespace isolation": `clear` of the namespace `a` matches `a:*` and removes the keys of
  the namespace `a:b`. The constructor accepts both; a glob character in a namespace has the like effect.

The models reach further behaviours that the properties of the passing runs except, by a history variable or a
condition that their comments name. They are noted here so that nobody takes those runs for more than they show.

* `TcpKvTier`: a server whose write times out inside a payload appends its error response to what it had
  written, and a client that reads on takes it for the rest of the payload; the protocol has no
  checksum. The get succeeds with a torn entry (`CutInPayload`).
* `HipDeviceMemory`: a buffer is validated under the registry's lock, which is given back before the native call, so a free
  of the same buffer, or the drop of the memory while `HipDirectIo` transfers, makes the call one on a freed, perhaps
  reassigned, address (`raced`), although `src/hip_native.rs:219` says "registry validation proves this exact allocation
  is still live". `DeviceKvTier` comes to it by itself: `get` looks a buffer up under its lock and downloads
  without it, `remove` frees meanwhile (`src/device.rs:289-298`, `334-341`). Two overlapping frees of one buffer may
  free a later allocation at that address, or remove its entry, after which the drop does not find it (`doubled`).
* `DeviceKvTier` over handles that come back (`device ffi`): the same `get` may return another block's bytes. Over
  `HostDeviceMemory`, which never reuses a handle, it fails instead.
* `LlamaSlotBridge`: bridges on one key share a slot file. A capture may read what the server has not finished writing and, where no
  count was reported, store it; a save whose bridge gave up may come over the file of a later restore (`met`).
  A temporary file stays when the removal of the old slot file before the rename fails.
* `Handoff`: the block whose put reported an error is not among those taken back, so it stays where the tier had stored it.
* `FileStore`: `load_index` removes a whole file whose metadata it cannot read at that moment, and one that another process
  put in the place of the file it measured.
* `PrometheusRegistry` with a gauge of a counter's name and other labels: the kind is looked up with
  the labels, so one name may have samples of two kinds under one `# TYPE` line
  (`OneKindPerName` fails).

## 6. Not modelled, and why

* GPU-direct callbacks and NIXL (`src/gpu_direct.rs`, `src/nixl_native.rs`): argument checks around
  one foreign call on buffers the caller owns. What a NIXL transfer does after its
  time-out, when it may land over a retry, is decided in the library.
* Plugin registry (`src/plugins.rs`): a map of factories under one lock. Binaries: arguments and
  wiring; the topology `rivet-cache-mp` wires is `ContextCacheTier`.
* `recompute_ranges` of the adapters checks ranges and calls the host; `ReusePlan` has its effect.
* Hashes, signatures, percent encoding, JSON and log text: SHA-256 is taken to be free of
  collisions; formats are modelled where a reader can misread them (`CodecKvTier`, `KvEnvelope`,
  `Resp`, `S3KvTier`, `TcpKvTier`).
* Statistics that no decision reads.
* What the models contain but no property speaks of, because nothing is promised: the pipeline's
  registry grows with every job nobody takes; sums saturate at `u64::MAX`; a put over a live key
  leaves the older file on disk; a rollback also takes a replica that an earlier put had left;
  `get` may remove a fresh entry in place of the expired one it saw; a failed write leaves its
  temporary file; a removed file may be back after a power loss; a lookup follows a record
  whose blocks were deleted; a plan may be applied to another query of the same length, which
  is the caller's contract.
