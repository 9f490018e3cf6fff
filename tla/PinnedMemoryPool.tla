--------------------------- MODULE PinnedMemoryPool ---------------------------
(***************************************************************************)
(* The pool of page-locked memory.  acquire takes the best cached region   *)
(* under the lock or, with the lock given up, has the allocator map, bind  *)
(* and lock a new one; a lease that is dropped puts its region back when   *)
(* max_cached_bytes allows it.  Leases hold the pool alive.                *)
(***************************************************************************)
EXTENDS Bytes

CONSTANTS
    Regions,        \* bound: regions mapped at once
    Leases,         \* bound: PinnedLeases alive or being acquired at once
    Sizes,          \* the sizes asked for
    Nodes,          \* NUMA nodes
    NoNode,         \* numa_node = None
    NumaSupported,  \* PageAllocator::numa_supported
    MaxCachedBytes

ASSUME PoolAssumption ==
    /\ IsFiniteSet(Regions) /\ IsFiniteSet(Leases)
    /\ Sizes \subseteq Nat \ {0}
    /\ NoNode \notin Nodes /\ NumaSupported \in BOOLEAN
    /\ MaxCachedBytes \in Nat
    /\ "no region" \notin Regions

Placements == IF NumaSupported THEN Nodes \cup {NoNode} ELSE {NoNode}
NoRegion == "no region"

VARIABLES
    mapped,       \* the regions that exist: capacity, node, whether page-locked
    cached,       \* PoolInner::cached
    cachedBytes,  \* PoolInner::cached_bytes
    leases,       \* the live PinnedLeases: region, len, and the node asked for
    calls,        \* the acquires that found nothing cached
    open          \* a PinnedMemoryPool handle is left

vars == <<mapped, cached, cachedBytes, leases, calls, open>>

Capacity == [r \in DOMAIN mapped |-> mapped[r].capacity]

Init ==
    /\ mapped = NoEntries /\ cached = {} /\ cachedBytes = 0
    /\ leases = NoEntries /\ calls = NoEntries /\ open = TRUE

Free(l) == l \notin DOMAIN leases /\ l \notin DOMAIN calls

\* The cached regions an acquire may take.
Candidates(len, node) ==
    {r \in cached : mapped[r].node = node /\ mapped[r].capacity >= len}

\* The smallest of them; the order of the Vec decides between equals.
Reuse(l, len, node) ==
    /\ open /\ Free(l)
    /\ \E r \in Candidates(len, node) :
         /\ \A q \in Candidates(len, node) : mapped[r].capacity <= mapped[q].capacity
         /\ cached' = cached \ {r}
         /\ cachedBytes' = cachedBytes - mapped[r].capacity
         /\ leases' = With(leases, l, [region |-> r, len |-> len, node |-> node])
    /\ UNCHANGED <<mapped, calls, open>>

Miss(l, len, node) ==
    /\ open /\ Free(l) /\ Candidates(len, node) = {}
    /\ calls' = With(calls, l, [pc |-> "map", region |-> NoRegion, len |-> len, node |-> node])
    /\ UNCHANGED <<mapped, cached, cachedBytes, leases, open>>

-----------------------------------------------------------------------------
(* PageAllocator::allocate: mmap, mbind, mlock; each may fail.             *)

Unmap(S) == mapped' = Without(mapped, S)
Abandon(l) == calls' = Without(calls, {l})

Map(l, r) ==
    /\ l \in DOMAIN calls /\ calls[l].pc = "map" /\ r \notin DOMAIN mapped
    /\ mapped' = With(mapped, r,
         [capacity |-> calls[l].len, node |-> calls[l].node, locked |-> FALSE])
    /\ calls' = [calls EXCEPT ![l].region = r,
                              ![l].pc = IF calls[l].node = NoNode THEN "lock" ELSE "bind"]
    /\ UNCHANGED <<cached, cachedBytes, leases, open>>

MapFails(l) ==
    /\ l \in DOMAIN calls /\ calls[l].pc = "map"
    /\ Abandon(l)
    /\ UNCHANGED <<mapped, cached, cachedBytes, leases, open>>

Bind(l) ==
    /\ l \in DOMAIN calls /\ calls[l].pc = "bind"
    /\ calls' = [calls EXCEPT ![l].pc = "lock"]
    /\ UNCHANGED <<mapped, cached, cachedBytes, leases, open>>

\* Mutant: the mapping is not given back.
BindFailsLeaks(l) ==
    /\ l \in DOMAIN calls /\ calls[l].pc = "bind"
    /\ Abandon(l)
    /\ UNCHANGED <<mapped, cached, cachedBytes, leases, open>>

BindFails(l) ==
    /\ l \in DOMAIN calls /\ calls[l].pc = "bind"
    /\ Abandon(l) /\ Unmap({calls[l].region})
    /\ UNCHANGED <<cached, cachedBytes, leases, open>>

Lock(l) ==
    /\ l \in DOMAIN calls /\ calls[l].pc = "lock"
    /\ mapped' = [mapped EXCEPT ![calls[l].region].locked = TRUE]
    /\ leases' = With(leases, l,
         [region |-> calls[l].region, len |-> calls[l].len, node |-> calls[l].node])
    /\ Abandon(l)
    /\ UNCHANGED <<cached, cachedBytes, open>>

LockFails(l) ==
    /\ l \in DOMAIN calls /\ calls[l].pc = "lock"
    /\ Abandon(l) /\ Unmap({calls[l].region})
    /\ UNCHANGED <<cached, cachedBytes, leases, open>>

-----------------------------------------------------------------------------
(* Drop for PinnedLease, and of the pool's last owner.                     *)

\* Whether a region that comes back is cached.
Keeps(r) ==
    /\ mapped[r].capacity <= MaxCachedBytes
    /\ cachedBytes + mapped[r].capacity <= MaxCachedBytes

\* The lease's Arc of the pool goes with it: when it was the last, the cached
\* regions go too.
DropLease(l) ==
    /\ l \in DOMAIN leases
    /\ leases' = Without(leases, {l})
    /\ LET r == leases[l].region
           last == ~open /\ DOMAIN leases = {l}
       IN  IF last
           THEN /\ Unmap(cached \cup {r})
                /\ cached' = {} /\ cachedBytes' = 0
           ELSE IF Keeps(r)
           THEN /\ cached' = cached \cup {r}
                /\ cachedBytes' = cachedBytes + mapped[r].capacity
                /\ UNCHANGED mapped
           ELSE /\ Unmap({r})
                /\ UNCHANGED <<cached, cachedBytes>>
    /\ UNCHANGED <<calls, open>>

\* The last PinnedMemoryPool handle goes; an acquire under way holds one.
DropPool ==
    /\ open /\ calls = NoEntries
    /\ open' = FALSE
    /\ IF leases = NoEntries
       THEN Unmap(cached) /\ cached' = {} /\ cachedBytes' = 0
       ELSE UNCHANGED <<mapped, cached, cachedBytes>>
    /\ UNCHANGED <<leases, calls>>

Next ==
    \/ \E l \in Leases, len \in Sizes, node \in Placements :
         Reuse(l, len, node) \/ Miss(l, len, node)
    \/ \E l \in Leases, r \in Regions : Map(l, r)
    \/ \E l \in Leases :
         \/ MapFails(l) \/ Bind(l) \/ BindFails(l) \/ Lock(l) \/ LockFails(l)
         \/ DropLease(l)
    \/ DropPool

Spec == Init /\ [][Next]_vars

-----------------------------------------------------------------------------
\* Every map has the shape of the Rust state.
TypeOK ==
    /\ IsMap(mapped, Regions,
             [capacity : Sizes, node : Placements, locked : BOOLEAN])
    /\ cached \subseteq DOMAIN mapped
    /\ cachedBytes \in Nat
    /\ IsMap(leases, Leases, [region : DOMAIN mapped, len : Sizes, node : Placements])
    /\ IsMap(calls, Leases, [pc : {"map", "bind", "lock"}, len : Sizes, node : Placements,
                             region : DOMAIN mapped \cup {NoRegion}])
    /\ open \in BOOLEAN

\* cached_bytes is the size of what is cached, and never above max_cached_bytes,
\* whatever acquires and drops interleave.
CachedBounded ==
    /\ cachedBytes = Total(cached, Capacity)
    /\ cachedBytes <= MaxCachedBytes

Holders(r) == {l \in DOMAIN leases : leases[l].region = r}
Makers(r) == {l \in DOMAIN calls : calls[l].region = r}

\* Every mapped region has one owner: the cache, one lease, or one acquire that is
\* still preparing it.  None is leaked on an error path, none is freed or handed
\* out twice.
OneOwner ==
    \A r \in DOMAIN mapped :
        /\ \A k, l \in Holders(r) \cup Makers(r) : k = l
        /\ r \in cached => Holders(r) \cup Makers(r) = {}
        /\ r \notin cached => Holders(r) \cup Makers(r) # {}

\* A lease's slice lies within its region, on the node that was asked for, and its
\* pages are locked: what Deref's SAFETY comment relies on.
LeaseFits ==
    \A l \in DOMAIN leases :
        /\ leases[l].len <= mapped[leases[l].region].capacity
        /\ mapped[leases[l].region].node = leases[l].node
        /\ mapped[leases[l].region].locked

\* Once the pool and its leases are gone, so is the memory.
NothingLeft == (~open /\ leases = NoEntries) => mapped = NoEntries

\* The pool's books are exact: every region has one owner, the cache is within
\* max_cached_bytes, a lease covers memory of its own, and all of it goes in the end.
PoolSafe == TypeOK /\ CachedBounded /\ OneOwner /\ LeaseFits /\ NothingLeft

=============================================================================
