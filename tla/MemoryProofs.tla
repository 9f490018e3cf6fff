---------------------------- MODULE MemoryProofs ----------------------------
(***************************************************************************)
(* Memory, for any number of regions, leases, sizes and nodes, of threads, *)
(* keys and handles, of callers and addresses: the accounting and ownership*)
(* of the pinned pool, the buffers of the tiers over device memory, and the*)
(* allocations of HipDeviceMemory under its native calls.                  *)
(***************************************************************************)
EXTENDS MCMemory, BytesProofs, Sequences, TLAPS

-----------------------------------------------------------------------------
(* PinnedMemoryPool.                                                       *)


\* A call has a region from Map on, of the size and node it was asked for; a region
\* that nobody prepares any more is locked.
Prepared ==
    /\ \A l \in DOMAIN calls :
         IF calls[l].pc = "map" THEN calls[l].region = NoRegion
         ELSE /\ calls[l].region \in DOMAIN mapped
              /\ mapped[calls[l].region].capacity = calls[l].len
              /\ mapped[calls[l].region].node = calls[l].node
    /\ \A r \in cached : mapped[r].locked

\* OneOwner, pair by pair.
Owned ==
    /\ \A l \in DOMAIN calls : l \notin DOMAIN leases
    /\ \A k, l \in DOMAIN leases : leases[k].region = leases[l].region => k = l
    /\ \A k, l \in DOMAIN calls :
         (calls[k].region = calls[l].region /\ calls[k].pc # "map" /\ calls[l].pc # "map") => k = l
    /\ \A k \in DOMAIN leases, l \in DOMAIN calls : leases[k].region # calls[l].region
    /\ \A k \in DOMAIN leases : leases[k].region \notin cached
    /\ \A l \in DOMAIN calls : calls[l].region \notin cached
    /\ \A r \in DOMAIN mapped \ cached :
         \/ \E l \in DOMAIN leases : leases[l].region = r
         \/ \E l \in DOMAIN calls : calls[l].region = r

\* The last handle goes when no acquire is under way, and after it none begins.
Closing == ~open => calls = NoEntries

\* The inductive invariant.
Inv == TypeOK /\ CachedBounded /\ Prepared /\ Owned /\ LeaseFits /\ Closing /\ NothingLeft

LEMMA LimitIsNat == MaxCachedBytes \in Nat
BY PoolAssumption

LEMMA InitInv == Init => Inv
<1> SUFFICES ASSUME Init PROVE Inv
  OBVIOUS
<1>1. TypeOK
  BY DEF Init, TypeOK, IsMap, NoEntries
<1>2. CachedBounded
  <2>1. Total({}, Capacity) = 0
    BY TotalOfNone
  <2>2. cached = {} /\ cachedBytes = 0
    BY DEF Init
  <2>3. 0 <= MaxCachedBytes
    BY LimitIsNat
  <2>4. QED
    BY <2>1, <2>2, <2>3 DEF CachedBounded
<1>3. Prepared /\ Owned /\ LeaseFits /\ Closing /\ NothingLeft
  BY DEF Init, Prepared, Owned, LeaseFits, Closing, NothingLeft, NoEntries
<1>4. QED
  BY <1>1, <1>2, <1>3 DEF Inv

\* The cached regions are finitely many, and their sizes are numbers.
LEMMA CachedFinite ==
    ASSUME TypeOK
    PROVE  IsFiniteSet(cached) /\ \A r \in cached : Capacity[r] \in Nat
<1>1. cached \subseteq Regions
  BY DEF TypeOK, IsMap
<1>2. IsFiniteSet(cached)
  BY <1>1, PoolAssumption, FS_Subset
<1>3. \A r \in cached : Capacity[r] \in Nat
  BY PoolAssumption DEF TypeOK, IsMap, Capacity
<1>4. QED
  BY <1>2, <1>3

\* A step that keeps the cache and what it knows of the regions in it keeps the account.
LEMMA AccountKept ==
    ASSUME TypeOK, TypeOK', CachedBounded, UNCHANGED <<cached, cachedBytes>>,
           \A r \in cached : mapped'[r].capacity = mapped[r].capacity
    PROVE  CachedBounded'
<1>1. \A r \in cached : Capacity'[r] = Capacity[r]
  BY DEF Capacity, TypeOK
<1>2. Total(cached, Capacity') = Total(cached, Capacity)
  BY <1>1, TotalCongruence
<1>3. QED
  BY <1>2 DEF CachedBounded

\* A call has no region before Map and a mapped one after it.
LEMMA RegionOfCall ==
    ASSUME Inv
    PROVE  /\ NoRegion \notin DOMAIN mapped /\ NoRegion \notin cached
           /\ \A k \in DOMAIN calls : calls[k].pc = "map" => calls[k].region = NoRegion
           /\ \A k \in DOMAIN calls :
                calls[k].pc # "map" => calls[k].region \in DOMAIN mapped /\ calls[k].region # NoRegion
           /\ \A k \in DOMAIN leases : leases[k].region \in DOMAIN mapped
<1>1. NoRegion \notin DOMAIN mapped
  BY PoolAssumption DEF Inv, TypeOK, IsMap, NoRegion
<1>2. \A k \in DOMAIN leases : leases[k].region \in DOMAIN mapped
  BY DEF Inv, TypeOK, IsMap
<1>3. QED
  BY <1>1, <1>2 DEF Inv, Prepared, TypeOK

LEMMA ReuseInv ==
    ASSUME Inv, NEW l \in Leases, NEW len \in Sizes, NEW node \in Placements, Reuse(l, len, node)
    PROVE  Inv'
<1>1. PICK r \in Candidates(len, node) :
        /\ cached' = cached \ {r}
        /\ cachedBytes' = cachedBytes - mapped[r].capacity
        /\ leases' = With(leases, l, [region |-> r, len |-> len, node |-> node])
  BY DEF Reuse
<1>2. r \in cached /\ mapped[r].node = node /\ mapped[r].capacity >= len /\ r \in DOMAIN mapped
  BY <1>1 DEF Candidates, Inv, TypeOK
<1>3. UNCHANGED <<mapped, calls, open>> /\ open /\ Free(l)
  BY DEF Reuse
<1>4. cachedBytes' = Total(cached', Capacity) /\ cachedBytes' <= cachedBytes /\ cachedBytes' \in Nat
  <2>1. Total(cached, Capacity) = Total(cached \ {r}, Capacity) + Total({r}, Capacity)
    BY <1>2, CachedFinite, TotalSplit DEF Inv
  <2>2. Capacity[r] = mapped[r].capacity /\ Capacity[r] \in Nat
    BY <1>2, CachedFinite DEF Inv, Capacity
  <2>3. Total({r}, Capacity) = Capacity[r]
    BY <2>2, TotalOfOne
  <2>4. Total(cached \ {r}, Capacity) \in Nat
    BY CachedFinite, FS_Subset, TotalType DEF Inv
  <2>5. QED
    BY <1>1, <2>1, <2>2, <2>3, <2>4 DEF Inv, CachedBounded, TypeOK
<1>5. TypeOK'
  BY <1>1, <1>2, <1>3, <1>4 DEF Inv, TypeOK, IsMap, With
<1>6. CachedBounded'
  <2>1. Capacity' = Capacity
    BY <1>3 DEF Capacity
  <2>2. cachedBytes \in Nat /\ cachedBytes <= MaxCachedBytes
    BY DEF Inv, CachedBounded, TypeOK
  <2>3. cachedBytes' <= MaxCachedBytes
    BY <1>4, <2>2, LimitIsNat
  <2>4. QED
    BY <1>4, <2>1, <2>3 DEF CachedBounded
<1>7. Prepared' /\ Closing' /\ NothingLeft'
  BY <1>1, <1>3 DEF Inv, Prepared, Closing, NothingLeft
<1>8. Owned'
  BY <1>1, <1>2, <1>3 DEF Inv, Owned, With, Free, TypeOK, IsMap
<1>9. LeaseFits'
  BY <1>1, <1>2, <1>3 DEF Inv, LeaseFits, With, Prepared, TypeOK
<1>10. QED
  BY <1>5, <1>6, <1>7, <1>8, <1>9 DEF Inv

LEMMA MissInv ==
    ASSUME Inv, NEW l \in Leases, NEW len \in Sizes, NEW node \in Placements, Miss(l, len, node)
    PROVE  Inv'
<1> DEFINE call == [pc |-> "map", region |-> NoRegion, len |-> len, node |-> node]
<1>1. /\ calls' = With(calls, l, call) /\ Free(l) /\ open
      /\ UNCHANGED <<mapped, cached, cachedBytes, leases, open>>
  BY DEF Miss
<1>2. TypeOK'
  BY <1>1 DEF Inv, TypeOK, IsMap, With
<1>3. CachedBounded'
  BY <1>1, <1>2, AccountKept DEF Inv
<1>4. NoRegion \notin DOMAIN mapped
  BY PoolAssumption DEF Inv, TypeOK, IsMap, NoRegion
<1>5. Prepared'
  BY <1>1 DEF Inv, Prepared, With
<1>8. Owned'
  <2>1. \A k \in DOMAIN calls' : IF k = l THEN calls'[k] = call ELSE k \in DOMAIN calls /\ calls'[k] = calls[k]
    BY <1>1 DEF With
  <2>2. \A k \in DOMAIN calls : k # l /\ k \in DOMAIN calls' /\ calls'[k] = calls[k]
    BY <1>1 DEF With, Free
  <2>3. \A k \in DOMAIN leases : leases[k].region \in DOMAIN mapped
    BY DEF Inv, TypeOK, IsMap
  <2>4. NoRegion \notin cached
    BY <1>4 DEF Inv, TypeOK
  <2>5. /\ \A k, m \in DOMAIN calls' :
             (calls'[k].region = calls'[m].region /\ calls'[k].pc # "map" /\ calls'[m].pc # "map") => k = m
        /\ \A k \in DOMAIN calls' : calls'[k].region \notin cached /\ k \notin DOMAIN leases
        /\ \A k \in DOMAIN leases, m \in DOMAIN calls' : leases[k].region # calls'[m].region
    BY <1>1, <1>4, <2>1, <2>3, <2>4 DEF Inv, Owned, Free
  <2>6. \A q \in DOMAIN mapped \ cached :
          \/ \E k \in DOMAIN leases : leases[k].region = q
          \/ \E k \in DOMAIN calls' : calls'[k].region = q
    BY <2>2 DEF Inv, Owned
  <2>7. QED
    BY <1>1, <2>5, <2>6 DEF Inv, Owned
<1>6. LeaseFits' /\ Closing' /\ NothingLeft'
  BY <1>1 DEF Inv, LeaseFits, Closing, NothingLeft
<1>7. QED
  BY <1>2, <1>3, <1>5, <1>6, <1>8 DEF Inv

LEMMA MapInv ==
    ASSUME Inv, NEW l \in Leases, NEW r \in Regions, Map(l, r)
    PROVE  Inv'
<1> DEFINE region == [capacity |-> calls[l].len, node |-> calls[l].node, locked |-> FALSE]
<1>1. /\ l \in DOMAIN calls /\ calls[l].pc = "map" /\ r \notin DOMAIN mapped
      /\ mapped' = With(mapped, r, region)
      /\ calls' = [calls EXCEPT ![l].region = r,
                                ![l].pc = IF calls[l].node = NoNode THEN "lock" ELSE "bind"]
      /\ UNCHANGED <<cached, cachedBytes, leases, open>>
  BY DEF Map
<1>2. /\ DOMAIN mapped' = DOMAIN mapped \cup {r} /\ mapped'[r] = region
      /\ \A q \in DOMAIN mapped : q # r /\ mapped'[q] = mapped[q]
  BY <1>1 DEF With
<1>3. calls[l] \in [pc : {"map", "bind", "lock"}, len : Sizes, node : Placements,
                    region : DOMAIN mapped \cup {NoRegion}]
  BY <1>1 DEF Inv, TypeOK, IsMap
<1>4. /\ DOMAIN calls' = DOMAIN calls
      /\ calls'[l].region = r /\ calls'[l].pc \in {"bind", "lock"}
      /\ calls'[l].len = calls[l].len /\ calls'[l].node = calls[l].node
      /\ calls'[l] \in [pc : {"map", "bind", "lock"}, len : Sizes, node : Placements, region : DOMAIN mapped']
      /\ \A k \in DOMAIN calls : k # l => calls'[k] = calls[k]
  BY <1>1, <1>2, <1>3
<1>5. TypeOK'
  <2>1. IsMap(mapped', Regions, [capacity : Sizes, node : Placements, locked : BOOLEAN])
    BY <1>1, <1>3 DEF Inv, TypeOK, IsMap, With
  <2>2. IsMap(leases', Leases, [region : DOMAIN mapped', len : Sizes, node : Placements])
    BY <1>1, <1>2 DEF Inv, TypeOK, IsMap
  <2>3. IsMap(calls', Leases, [pc : {"map", "bind", "lock"}, len : Sizes, node : Placements,
                               region : DOMAIN mapped' \cup {NoRegion}])
    BY <1>1, <1>2, <1>4 DEF Inv, TypeOK, IsMap
  <2>4. QED
    BY <1>1, <1>2, <2>1, <2>2, <2>3 DEF Inv, TypeOK
<1>6. CachedBounded'
  <2>1. \A q \in cached : mapped'[q].capacity = mapped[q].capacity
    BY <1>2 DEF Inv, TypeOK
  <2>2. QED
    BY <1>1, <1>5, <2>1, AccountKept DEF Inv
<1>7. Prepared'
  BY <1>1, <1>2, <1>4 DEF Inv, Prepared, TypeOK
<1>8. Owned'
  <2>1. \A k \in DOMAIN leases : leases[k].region \in DOMAIN mapped
    BY DEF Inv, TypeOK, IsMap
  <2>2. \A k \in DOMAIN calls : calls[k].region = NoRegion \/ calls[k].region \in DOMAIN mapped
    BY DEF Inv, TypeOK, IsMap
  <2>3. r \notin cached /\ r # NoRegion /\ NoRegion \notin cached /\ NoRegion \notin DOMAIN mapped
    BY <1>1, PoolAssumption DEF Inv, TypeOK, NoRegion, IsMap
  <2>4. calls[l].region = NoRegion
    BY <1>1 DEF Inv, Prepared
  <2>5. \A k \in DOMAIN calls : calls[k].pc # "map" => calls[k].region \in DOMAIN mapped
    BY DEF Inv, Prepared
  <2>6. QED
    BY <1>1, <1>2, <1>4, <2>1, <2>2, <2>3, <2>4, <2>5 DEF Inv, Owned
<1>9. LeaseFits'
  <2>1. \A k \in DOMAIN leases : mapped'[leases[k].region] = mapped[leases[k].region]
    BY <1>2 DEF Inv, TypeOK, IsMap
  <2>2. QED
    BY <1>1, <2>1 DEF Inv, LeaseFits
<1>10. Closing' /\ NothingLeft'
  BY <1>1 DEF Inv, Closing, NothingLeft, NoEntries
<1>11. QED
  BY <1>5, <1>6, <1>7, <1>8, <1>9, <1>10 DEF Inv

LEMMA BindInv ==
    ASSUME Inv, NEW l \in Leases, Bind(l)
    PROVE  Inv'
<1>1. /\ l \in DOMAIN calls /\ calls[l].pc = "bind"
      /\ calls' = [calls EXCEPT ![l].pc = "lock"]
      /\ UNCHANGED <<mapped, cached, cachedBytes, leases, open>>
  BY DEF Bind
<1>2. calls[l] \in [pc : {"map", "bind", "lock"}, len : Sizes, node : Placements,
                    region : DOMAIN mapped \cup {NoRegion}]
  BY <1>1 DEF Inv, TypeOK, IsMap
<1>3. /\ DOMAIN calls' = DOMAIN calls
      /\ calls'[l].region = calls[l].region /\ calls'[l].pc = "lock"
      /\ calls'[l].len = calls[l].len /\ calls'[l].node = calls[l].node
      /\ calls'[l] \in [pc : {"map", "bind", "lock"}, len : Sizes, node : Placements,
                        region : DOMAIN mapped \cup {NoRegion}]
      /\ \A k \in DOMAIN calls : k # l => calls'[k] = calls[k]
  BY <1>1, <1>2
<1>4. TypeOK'
  BY <1>1, <1>3 DEF Inv, TypeOK, IsMap
<1>5. CachedBounded'
  BY <1>1, <1>4, AccountKept DEF Inv
<1>6. Prepared'
  BY <1>1, <1>3 DEF Inv, Prepared
<1>7. Owned'
  BY <1>1, <1>3 DEF Inv, Owned
<1>8. LeaseFits' /\ Closing' /\ NothingLeft'
  BY <1>1 DEF Inv, LeaseFits, Closing, NothingLeft, NoEntries
<1>9. QED
  BY <1>4, <1>5, <1>6, <1>7, <1>8 DEF Inv

\* An acquire that fails gives back what it had mapped.
GivesUp(l) ==
    /\ l \in DOMAIN calls
    /\ calls' = Without(calls, {l})
    /\ mapped' = Without(mapped, {calls[l].region})
    /\ UNCHANGED <<cached, cachedBytes, leases, open>>

LEMMA GiveUpInv ==
    ASSUME Inv, NEW l \in Leases, GivesUp(l)
    PROVE  Inv'
<1> DEFINE r == calls[l].region
<1>0. l \in DOMAIN calls /\ cached' = cached /\ cachedBytes' = cachedBytes /\ leases' = leases /\ open' = open
  BY DEF GivesUp
<1>1. /\ DOMAIN mapped' = DOMAIN mapped \ {r}
      /\ \A q \in DOMAIN mapped' : q \in DOMAIN mapped /\ mapped'[q] = mapped[q]
  BY DEF GivesUp, Without
<1>2. /\ DOMAIN calls' = DOMAIN calls \ {l}
      /\ \A k \in DOMAIN calls' : k \in DOMAIN calls /\ calls'[k] = calls[k]
  BY DEF GivesUp, Without
<1>3. r \notin cached /\ \A k \in DOMAIN leases : leases[k].region # r
  BY <1>0 DEF Inv, Owned
<1>4. \A k \in DOMAIN calls' : calls[k].region = NoRegion \/ calls[k].region \in DOMAIN mapped'
  <2>1. ASSUME NEW k \in DOMAIN calls', calls[k].region # NoRegion
        PROVE  calls[k].region \in DOMAIN mapped'
    <3>1. calls[k].pc # "map" /\ calls[k].region \in DOMAIN mapped
      BY <1>2, <2>1 DEF Inv, Prepared, TypeOK, IsMap
    <3>2. calls[k].region # r
      <4>1. k \in DOMAIN calls /\ k # l
        BY <1>2
      <4>2. CASE calls[l].pc = "map"
        BY <1>0, <2>1, <4>2, RegionOfCall
      <4>3. CASE calls[l].pc # "map"
        BY <1>0, <3>1, <4>1, <4>3 DEF Inv, Owned
      <4>4. QED
        BY <4>2, <4>3
    <3>3. QED
      BY <1>1, <3>1, <3>2
  <2>2. QED
    BY <2>1
<1>5. TypeOK'
  <2>1. IsMap(mapped', Regions, [capacity : Sizes, node : Placements, locked : BOOLEAN])
    BY <1>1 DEF Inv, TypeOK, IsMap, GivesUp, Without
  <2>2. IsMap(leases', Leases, [region : DOMAIN mapped', len : Sizes, node : Placements])
    BY <1>0, <1>1, <1>3 DEF Inv, TypeOK, IsMap
  <2>3. IsMap(calls', Leases, [pc : {"map", "bind", "lock"}, len : Sizes, node : Placements,
                               region : DOMAIN mapped' \cup {NoRegion}])
    BY <1>2, <1>4 DEF Inv, TypeOK, IsMap, GivesUp, Without
  <2>4. QED
    BY <1>0, <1>1, <1>3, <2>1, <2>2, <2>3 DEF Inv, TypeOK
<1>6. CachedBounded'
  <2>1. \A q \in cached : mapped'[q].capacity = mapped[q].capacity
    BY <1>1, <1>3 DEF Inv, TypeOK
  <2>2. QED
    BY <1>0, <1>5, <2>1, AccountKept DEF Inv
<1>7. Prepared'
  <2>1. ASSUME NEW k \in DOMAIN calls', calls[k].pc # "map"
        PROVE  calls[k].region \in DOMAIN mapped' /\ mapped'[calls[k].region] = mapped[calls[k].region]
    BY <1>1, <1>2, <1>4, <2>1, RegionOfCall
  <2>2. \A q \in cached : mapped'[q] = mapped[q]
    BY <1>1, <1>3 DEF Inv, TypeOK
  <2>3. \A q \in cached' : mapped'[q].locked
    BY <1>0, <2>2 DEF Inv, Prepared
  <2>4. ASSUME NEW k \in DOMAIN calls', calls[k].pc # "map"
        PROVE  /\ calls[k].region \in DOMAIN mapped'
               /\ mapped'[calls[k].region].capacity = calls[k].len
               /\ mapped'[calls[k].region].node = calls[k].node
    BY <1>2, <2>1, <2>4 DEF Inv, Prepared
  <2>5. \A k \in DOMAIN calls' : calls[k].pc = "map" => calls[k].region = NoRegion
    BY <1>2, RegionOfCall
  <2>6. QED
    BY <1>2, <2>3, <2>4, <2>5 DEF Prepared
<1>8. Owned'
  <2>1. \A q \in DOMAIN mapped' \ cached :
          \/ \E k \in DOMAIN leases : leases[k].region = q
          \/ \E k \in DOMAIN calls' : calls'[k].region = q
    <3>1. ASSUME NEW q \in DOMAIN mapped' \ cached, NEW k \in DOMAIN calls, calls[k].region = q
          PROVE  k \in DOMAIN calls' /\ calls'[k].region = q
      BY <1>1, <1>2, <3>1
    <3>2. \A q \in DOMAIN mapped' \ cached : q \in DOMAIN mapped \ cached
      BY <1>1
    <3>3. QED
      BY <3>1, <3>2 DEF Inv, Owned
  <2>2. /\ \A k, m \in DOMAIN calls' :
             (calls'[k].region = calls'[m].region /\ calls'[k].pc # "map" /\ calls'[m].pc # "map") => k = m
        /\ \A k \in DOMAIN calls' : calls'[k].region \notin cached /\ k \notin DOMAIN leases
        /\ \A k \in DOMAIN leases, m \in DOMAIN calls' : leases[k].region # calls'[m].region
    BY <1>2 DEF Inv, Owned
  <2>3. /\ \A k, m \in DOMAIN leases : leases[k].region = leases[m].region => k = m
        /\ \A k \in DOMAIN leases : leases[k].region \notin cached
    BY DEF Inv, Owned
  <2>4. QED
    BY <1>0, <2>1, <2>2, <2>3 DEF Owned
<1>9. LeaseFits'
  <2>1. \A k \in DOMAIN leases : mapped'[leases[k].region] = mapped[leases[k].region]
    BY <1>1, <1>3 DEF Inv, TypeOK, IsMap
  <2>2. QED
    BY <1>0, <2>1 DEF Inv, LeaseFits
<1>10. Closing' /\ NothingLeft'
  <2>1. open
    BY <1>0 DEF Inv, Closing, NoEntries
  <2>2. QED
    BY <1>0, <2>1 DEF Closing, NothingLeft
<1>11. QED
  BY <1>5, <1>6, <1>7, <1>8, <1>9, <1>10 DEF Inv

LEMMA FailsInv ==
    ASSUME Inv, NEW l \in Leases, MapFails(l) \/ BindFails(l) \/ LockFails(l)
    PROVE  Inv'
<1>1. CASE MapFails(l)
  <2>1. calls[l].region = NoRegion /\ NoRegion \notin DOMAIN mapped
    BY <1>1, PoolAssumption DEF MapFails, Inv, Prepared, TypeOK, IsMap, NoRegion
  <2>2. mapped = Without(mapped, {calls[l].region})
    <3>1. mapped = [q \in DOMAIN mapped |-> mapped[q]]
      BY DEF Inv, TypeOK, IsMap
    <3>2. DOMAIN mapped \ {calls[l].region} = DOMAIN mapped
      BY <2>1
    <3>3. QED
      BY <3>1, <3>2 DEF Without
  <2>3. QED
    BY <1>1, <2>2, GiveUpInv DEF MapFails, Abandon, GivesUp
<1>2. CASE BindFails(l)
  BY <1>2, GiveUpInv DEF BindFails, Abandon, Unmap, GivesUp
<1>3. CASE LockFails(l)
  BY <1>3, GiveUpInv DEF LockFails, Abandon, Unmap, GivesUp
<1>4. QED
  BY <1>1, <1>2, <1>3

LEMMA LockInv ==
    ASSUME Inv, NEW l \in Leases, Lock(l)
    PROVE  Inv'
<1> DEFINE r == calls[l].region
           lease == [region |-> r, len |-> calls[l].len, node |-> calls[l].node]
<1>1. /\ l \in DOMAIN calls /\ calls[l].pc = "lock"
      /\ mapped' = [mapped EXCEPT ![r].locked = TRUE]
      /\ leases' = With(leases, l, lease) /\ calls' = Without(calls, {l})
      /\ UNCHANGED <<cached, cachedBytes, open>>
  BY DEF Lock, Abandon
<1>2. r \in DOMAIN mapped /\ mapped[r].capacity = calls[l].len /\ mapped[r].node = calls[l].node
  BY <1>1 DEF Inv, Prepared
<1>3. mapped[r] \in [capacity : Sizes, node : Placements, locked : BOOLEAN]
  BY <1>2 DEF Inv, TypeOK, IsMap
<1>4. /\ DOMAIN mapped' = DOMAIN mapped
      /\ mapped'[r].capacity = mapped[r].capacity /\ mapped'[r].node = mapped[r].node /\ mapped'[r].locked
      /\ mapped'[r] \in [capacity : Sizes, node : Placements, locked : BOOLEAN]
      /\ \A q \in DOMAIN mapped : q # r => mapped'[q] = mapped[q]
  BY <1>1, <1>2, <1>3
<1>5. DOMAIN calls' = DOMAIN calls \ {l} /\ \A k \in DOMAIN calls' : calls'[k] = calls[k]
  BY <1>1 DEF Without
<1>6. /\ DOMAIN leases' = DOMAIN leases \cup {l} /\ leases'[l] = lease
      /\ \A k \in DOMAIN leases : k # l => leases'[k] = leases[k]
  BY <1>1 DEF With
<1>7. r \notin cached /\ \A k \in DOMAIN leases : leases[k].region # r
  BY <1>1 DEF Inv, Owned
<1>8. TypeOK'
  <2>1. IsMap(mapped', Regions, [capacity : Sizes, node : Placements, locked : BOOLEAN])
    BY <1>1, <1>4 DEF Inv, TypeOK, IsMap
  <2>2. lease \in [region : DOMAIN mapped', len : Sizes, node : Placements]
    BY <1>1, <1>2, <1>4 DEF Inv, TypeOK, IsMap
  <2>3. IsMap(leases', Leases, [region : DOMAIN mapped', len : Sizes, node : Placements])
    BY <1>1, <1>4, <2>2 DEF Inv, TypeOK, IsMap, With
  <2>4. IsMap(calls', Leases, [pc : {"map", "bind", "lock"}, len : Sizes, node : Placements,
                               region : DOMAIN mapped' \cup {NoRegion}])
    BY <1>1, <1>4 DEF Inv, TypeOK, IsMap, Without
  <2>5. QED
    BY <1>1, <1>4, <2>1, <2>3, <2>4 DEF Inv, TypeOK
<1>9. CachedBounded'
  <2>1. \A q \in cached : mapped'[q].capacity = mapped[q].capacity
    BY <1>4 DEF Inv, TypeOK
  <2>2. QED
    BY <1>1, <1>8, <2>1, AccountKept DEF Inv
<1>10. Prepared'
  <2>1. \A q \in DOMAIN mapped : mapped'[q].capacity = mapped[q].capacity /\ mapped'[q].node = mapped[q].node
    BY <1>4
  <2>2. \A q \in cached : mapped'[q] = mapped[q]
    BY <1>4, <1>7 DEF Inv, TypeOK
  <2>3. \A k \in DOMAIN calls' : k \in DOMAIN calls /\ calls'[k] = calls[k]
    BY <1>5
  <2>4. ASSUME NEW k \in DOMAIN calls', calls[k].pc # "map"
        PROVE  /\ calls[k].region \in DOMAIN mapped'
               /\ mapped'[calls[k].region].capacity = calls[k].len
               /\ mapped'[calls[k].region].node = calls[k].node
    BY <1>4, <2>1, <2>3, <2>4 DEF Inv, Prepared
  <2>5. \A k \in DOMAIN calls' : calls[k].pc = "map" => calls[k].region = NoRegion
    BY <2>3, RegionOfCall
  <2>6. \A q \in cached' : mapped'[q].locked
    BY <1>1, <2>2 DEF Inv, Prepared
  <2>7. QED
    BY <2>3, <2>4, <2>5, <2>6 DEF Prepared
<1>11. Owned'
  <2>1. \A k \in DOMAIN calls' : calls[k].region # r
    <3>1. calls[l].pc # "map" /\ r # NoRegion
      BY <1>1, RegionOfCall
    <3>2. \A k \in DOMAIN calls' : k \in DOMAIN calls /\ k # l
      BY <1>5
    <3>3. QED
      BY <1>1, <3>1, <3>2, RegionOfCall DEF Inv, Owned
  <2>2. l \notin DOMAIN leases
    BY <1>1 DEF Inv, Owned
  <2>3. \A q \in DOMAIN mapped \ cached :
          \/ \E k \in DOMAIN leases' : leases'[k].region = q
          \/ \E k \in DOMAIN calls' : calls'[k].region = q
    <3>1. ASSUME NEW q \in DOMAIN mapped \ cached, NEW k \in DOMAIN leases, leases[k].region = q
          PROVE  k \in DOMAIN leases' /\ leases'[k].region = q
      BY <1>6, <2>2, <3>1
    <3>2. ASSUME NEW q \in DOMAIN mapped \ cached, q # r, NEW k \in DOMAIN calls, calls[k].region = q
          PROVE  k \in DOMAIN calls' /\ calls'[k].region = q
      BY <1>5, <3>2
    <3>3. l \in DOMAIN leases' /\ leases'[l].region = r
      BY <1>6
    <3>4. QED
      BY <3>1, <3>2, <3>3 DEF Inv, Owned
  <2>4. /\ \A k, m \in DOMAIN leases' : leases'[k].region = leases'[m].region => k = m
        /\ \A k \in DOMAIN leases' : leases'[k].region \notin cached
    BY <1>6, <1>7, <2>2 DEF Inv, Owned
  <2>5. \A k \in DOMAIN leases', m \in DOMAIN calls' : leases'[k].region # calls'[m].region /\ k # m
    BY <1>5, <1>6, <2>1, <2>2 DEF Inv, Owned
  <2>6. /\ \A k, m \in DOMAIN calls' :
             (calls'[k].region = calls'[m].region /\ calls'[k].pc # "map" /\ calls'[m].pc # "map") => k = m
        /\ \A k \in DOMAIN calls' : calls'[k].region \notin cached
    BY <1>5 DEF Inv, Owned
  <2>7. QED
    BY <1>1, <1>4, <2>3, <2>4, <2>5, <2>6 DEF Owned
<1>12. LeaseFits'
  <2>1. \A k \in DOMAIN leases : mapped'[leases[k].region] = mapped[leases[k].region]
    BY <1>4, <1>7 DEF Inv, TypeOK, IsMap
  <2>2. calls[l].len \in Nat
    BY <1>1, PoolAssumption DEF Inv, TypeOK, IsMap
  <2>3. QED
    BY <1>2, <1>4, <1>6, <2>1, <2>2 DEF Inv, LeaseFits
<1>13. Closing' /\ NothingLeft'
  <2>1. open
    BY <1>1 DEF Inv, Closing, NoEntries
  <2>2. QED
    BY <1>1, <2>1 DEF Closing, NothingLeft
<1>14. QED
  BY <1>8, <1>9, <1>10, <1>11, <1>12, <1>13 DEF Inv

\* What every way to drop a lease has in common.
LEMMA LeaseGone ==
    ASSUME Inv, NEW l \in Leases, DropLease(l)
    PROVE  /\ l \in DOMAIN leases /\ calls' = calls /\ open' = open
           /\ DOMAIN leases' = DOMAIN leases \ {l}
           /\ \A k \in DOMAIN leases' : k \in DOMAIN leases /\ leases'[k] = leases[k]
           /\ leases' = Without(leases, {l})
           /\ leases[l].region \in DOMAIN mapped /\ leases[l].region \notin cached
           /\ \A k \in DOMAIN leases' : leases[k].region # leases[l].region
           /\ \A k \in DOMAIN calls : calls[k].region # leases[l].region
<1>1. l \in DOMAIN leases /\ calls' = calls /\ open' = open /\ leases' = Without(leases, {l})
  BY DEF DropLease
<1>2. /\ DOMAIN leases' = DOMAIN leases \ {l}
      /\ \A k \in DOMAIN leases' : k \in DOMAIN leases /\ leases'[k] = leases[k]
  BY <1>1 DEF Without
<1>3. leases[l].region \in DOMAIN mapped
  BY <1>1, RegionOfCall
<1>4. QED
  BY <1>1, <1>2, <1>3 DEF Inv, Owned

\* The region goes back into the cache.
LEMMA DropCachedInv ==
    ASSUME Inv, NEW l \in Leases, DropLease(l), Keeps(leases[l].region),
           ~(~open /\ DOMAIN leases = {l})
    PROVE  Inv'
<1> DEFINE r == leases[l].region
<1>1. cached' = cached \cup {r} /\ cachedBytes' = cachedBytes + mapped[r].capacity /\ mapped' = mapped
  BY DEF DropLease
<1>2. /\ l \in DOMAIN leases /\ calls' = calls /\ open' = open
      /\ DOMAIN leases' = DOMAIN leases \ {l}
      /\ \A k \in DOMAIN leases' : k \in DOMAIN leases /\ leases'[k] = leases[k]
      /\ r \in DOMAIN mapped /\ r \notin cached
      /\ \A k \in DOMAIN leases' : leases[k].region # r
      /\ \A k \in DOMAIN calls : calls[k].region # r
  BY LeaseGone
<1>3. mapped[r].capacity \in Nat
  BY <1>2, PoolAssumption DEF Inv, TypeOK, IsMap
<1>4. TypeOK'
  <2>0. leases' = Without(leases, {l})
    BY LeaseGone
  <2>1. IsMap(leases', Leases, [region : DOMAIN mapped', len : Sizes, node : Placements])
    BY <1>1, <1>2, <2>0 DEF Inv, TypeOK, IsMap, Without
  <2>2. cachedBytes' \in Nat
    BY <1>1, <1>3 DEF Inv, TypeOK
  <2>3. QED
    BY <1>1, <1>2, <2>1, <2>2 DEF Inv, TypeOK
<1>5. CachedBounded'
  <2>1. Capacity' = Capacity /\ Capacity[r] = mapped[r].capacity
    BY <1>1, <1>2 DEF Capacity
  <2>2. IsFiniteSet(cached') /\ \A q \in cached' : Capacity[q] \in Nat
    <3>1. IsFiniteSet(cached) /\ \A q \in cached : Capacity[q] \in Nat
      BY CachedFinite DEF Inv
    <3>2. IsFiniteSet(cached \cup {r})
      BY <3>1, FS_AddElement
    <3>3. QED
      BY <1>1, <1>3, <2>1, <3>1, <3>2
  <2>3. Total(cached', Capacity) = Total(cached' \ {r}, Capacity) + Total({r}, Capacity)
    BY <1>1, <2>2, TotalSplit
  <2>4. cached' \ {r} = cached
    BY <1>1, <1>2
  <2>5. Total({r}, Capacity) = mapped[r].capacity
    BY <1>3, <2>1, TotalOfOne
  <2>6. Total(cached', Capacity) = Total(cached, Capacity) + mapped[r].capacity
    BY <2>3, <2>4, <2>5
  <2>7. cachedBytes' = Total(cached', Capacity')
    BY <1>1, <2>1, <2>6 DEF Inv, CachedBounded
  <2>8. cachedBytes' <= MaxCachedBytes
    BY <1>1 DEF Keeps
  <2>9. QED
    BY <2>7, <2>8 DEF CachedBounded
<1>6. Prepared'
  <2>1. mapped[r].locked
    BY <1>2 DEF Inv, LeaseFits
  <2>2. \A q \in cached' : mapped'[q].locked
    BY <1>1, <2>1 DEF Inv, Prepared
  <2>3. QED
    BY <1>1, <1>2, <2>2 DEF Inv, Prepared
<1>7. Owned'
  <2>1. \A q \in DOMAIN mapped' \ cached' :
          \/ \E k \in DOMAIN leases' : leases'[k].region = q
          \/ \E k \in DOMAIN calls' : calls'[k].region = q
    <3>1. ASSUME NEW q \in DOMAIN mapped' \ cached', NEW k \in DOMAIN leases, leases[k].region = q
          PROVE  k \in DOMAIN leases' /\ leases'[k].region = q
      BY <1>1, <1>2, <3>1
    <3>2. \A q \in DOMAIN mapped' \ cached' : q \in DOMAIN mapped \ cached
      BY <1>1
    <3>3. QED
      BY <1>2, <3>1, <3>2 DEF Inv, Owned
  <2>2. QED
    BY <1>1, <1>2, <2>1 DEF Inv, Owned
<1>8. LeaseFits'
  BY <1>1, <1>2 DEF Inv, LeaseFits
<1>9. Closing'
  BY <1>2 DEF Inv, Closing
<1>10. NothingLeft'
  <2>1. ASSUME ~open, leases' = NoEntries PROVE FALSE
    <3>1. DOMAIN leases' = {}
      BY <2>1 DEF NoEntries
    <3>2. DOMAIN leases = {l}
      BY <1>2, <3>1
    <3>3. QED
      BY <2>1, <3>2
  <2>2. QED
    BY <1>2, <2>1 DEF NothingLeft
<1>11. QED
  BY <1>4, <1>5, <1>6, <1>7, <1>8, <1>9, <1>10 DEF Inv

\* The region is given back to the system.
LEMMA DropUnmappedInv ==
    ASSUME Inv, NEW l \in Leases, DropLease(l), ~Keeps(leases[l].region),
           ~(~open /\ DOMAIN leases = {l})
    PROVE  Inv'
<1> DEFINE r == leases[l].region
<1>1. cached' = cached /\ cachedBytes' = cachedBytes /\ mapped' = Without(mapped, {r})
  BY DEF DropLease, Unmap
<1>2. /\ l \in DOMAIN leases /\ calls' = calls /\ open' = open
      /\ DOMAIN leases' = DOMAIN leases \ {l}
      /\ \A k \in DOMAIN leases' : k \in DOMAIN leases /\ leases'[k] = leases[k]
      /\ r \in DOMAIN mapped /\ r \notin cached
      /\ \A k \in DOMAIN leases' : leases[k].region # r
      /\ \A k \in DOMAIN calls : calls[k].region # r
  BY LeaseGone
<1>3. /\ DOMAIN mapped' = DOMAIN mapped \ {r}
      /\ \A q \in DOMAIN mapped' : q \in DOMAIN mapped /\ mapped'[q] = mapped[q]
  BY <1>1 DEF Without
<1>4. TypeOK'
  <2>1. IsMap(mapped', Regions, [capacity : Sizes, node : Placements, locked : BOOLEAN])
    BY <1>1 DEF Inv, TypeOK, IsMap, Without
  <2>2. IsMap(leases', Leases, [region : DOMAIN mapped', len : Sizes, node : Placements])
    BY <1>2, <1>3, LeaseGone DEF Inv, TypeOK, IsMap, Without
  <2>3. IsMap(calls', Leases, [pc : {"map", "bind", "lock"}, len : Sizes, node : Placements,
                               region : DOMAIN mapped' \cup {NoRegion}])
    BY <1>2, <1>3 DEF Inv, TypeOK, IsMap
  <2>4. QED
    BY <1>1, <1>2, <1>3, <2>1, <2>2, <2>3 DEF Inv, TypeOK
<1>5. \A q \in cached : mapped'[q] = mapped[q]
  BY <1>2, <1>3 DEF Inv, TypeOK
<1>6. CachedBounded'
  BY <1>1, <1>4, <1>5, AccountKept DEF Inv
<1>7. Prepared'
  <2>1. \A q \in cached' : mapped'[q].locked
    BY <1>1, <1>5 DEF Inv, Prepared
  <2>2. ASSUME NEW k \in DOMAIN calls, calls[k].pc # "map"
        PROVE  calls[k].region \in DOMAIN mapped' /\ mapped'[calls[k].region] = mapped[calls[k].region]
    BY <1>2, <1>3, <2>2, RegionOfCall
  <2>3. QED
    BY <1>2, <2>1, <2>2 DEF Inv, Prepared
<1>8. Owned'
  <2>1. \A q \in DOMAIN mapped' \ cached' :
          \/ \E k \in DOMAIN leases' : leases'[k].region = q
          \/ \E k \in DOMAIN calls' : calls'[k].region = q
    <3>1. ASSUME NEW q \in DOMAIN mapped' \ cached', NEW k \in DOMAIN leases, leases[k].region = q
          PROVE  k \in DOMAIN leases' /\ leases'[k].region = q
      BY <1>2, <1>3, <3>1
    <3>2. \A q \in DOMAIN mapped' \ cached' : q \in DOMAIN mapped \ cached
      BY <1>1, <1>3
    <3>3. QED
      BY <1>2, <3>1, <3>2 DEF Inv, Owned
  <2>2. /\ \A k, m \in DOMAIN leases' : leases'[k].region = leases'[m].region => k = m
        /\ \A k \in DOMAIN leases', m \in DOMAIN calls : leases'[k].region # calls[m].region
        /\ \A k \in DOMAIN leases' : leases'[k].region \notin cached
        /\ \A k \in DOMAIN calls : k \notin DOMAIN leases'
    BY <1>2 DEF Inv, Owned
  <2>3. /\ \A k, m \in DOMAIN calls :
             (calls[k].region = calls[m].region /\ calls[k].pc # "map" /\ calls[m].pc # "map") => k = m
        /\ \A k \in DOMAIN calls : calls[k].region \notin cached
    BY DEF Inv, Owned
  <2>4. calls' = calls /\ cached' = cached
    BY <1>1, <1>2
  <2>5. QED
    BY <2>1, <2>2, <2>3, <2>4 DEF Owned
<1>9. LeaseFits'
  <2>1. \A k \in DOMAIN leases' : mapped'[leases[k].region] = mapped[leases[k].region]
    BY <1>2, <1>3, RegionOfCall
  <2>2. QED
    BY <1>2, <2>1 DEF Inv, LeaseFits
<1>10. Closing'
  BY <1>2 DEF Inv, Closing
<1>11. NothingLeft'
  <2>1. ASSUME ~open, leases' = NoEntries PROVE FALSE
    <3>1. DOMAIN leases' = {}
      BY <2>1 DEF NoEntries
    <3>2. DOMAIN leases = {l}
      BY <1>2, <3>1
    <3>3. QED
      BY <2>1, <3>2
  <2>2. QED
    BY <1>2, <2>1 DEF NothingLeft
<1>12. QED
  BY <1>4, <1>6, <1>7, <1>8, <1>9, <1>10, <1>11 DEF Inv

\* The pool with nothing mapped, cached, leased or under way.
Empty ==
    /\ mapped = NoEntries /\ cached = {} /\ cachedBytes = 0
    /\ leases = NoEntries /\ calls = NoEntries /\ open = FALSE

LEMMA EmptyInv ==
    ASSUME Empty'
    PROVE  Inv'
<1>1. TypeOK'
  BY DEF Empty, TypeOK, IsMap, NoEntries
<1>2. CachedBounded'
  <2>1. Total({}, Capacity') = 0
    BY TotalOfNone
  <2>2. cached' = {} /\ cachedBytes' = 0
    BY DEF Empty
  <2>3. 0 <= MaxCachedBytes
    BY LimitIsNat
  <2>4. QED
    BY <2>1, <2>2, <2>3 DEF CachedBounded
<1>3. Prepared' /\ Owned' /\ LeaseFits' /\ Closing' /\ NothingLeft'
  BY DEF Empty, Prepared, Owned, LeaseFits, Closing, NothingLeft, NoEntries
<1>4. QED
  BY <1>1, <1>2, <1>3 DEF Inv

\* The last lease takes the cache with it.
LEMMA DropLastInv ==
    ASSUME Inv, NEW l \in Leases, DropLease(l), ~open, DOMAIN leases = {l}
    PROVE  Inv'
<1> DEFINE r == leases[l].region
<1>1. cached' = {} /\ cachedBytes' = 0 /\ mapped' = Without(mapped, cached \cup {r})
  BY DEF DropLease, Unmap
<1>2. /\ calls' = calls /\ open' = open /\ leases' = Without(leases, {l})
  BY LeaseGone
<1>3. calls = NoEntries /\ open = FALSE
  BY DEF Inv, Closing, TypeOK
<1>4. DOMAIN mapped \ (cached \cup {r}) = {}
  <2>1. DOMAIN calls = {}
    BY <1>3 DEF NoEntries
  <2>2. QED
    BY <2>1 DEF Inv, Owned
<1>5. mapped' = NoEntries
  BY <1>1, <1>4 DEF Without, NoEntries
<1>6. leases' = NoEntries
  <2>1. DOMAIN leases \ {l} = {}
    OBVIOUS
  <2>2. QED
    BY <1>2, <2>1 DEF Without, NoEntries
<1>7. Empty'
  BY <1>1, <1>2, <1>3, <1>5, <1>6 DEF Empty
<1>8. QED
  BY <1>7, EmptyInv

LEMMA DropLeaseInv ==
    ASSUME Inv, NEW l \in Leases, DropLease(l)
    PROVE  Inv'
<1>1. CASE ~open /\ DOMAIN leases = {l}
  BY <1>1, DropLastInv
<1>2. CASE ~(~open /\ DOMAIN leases = {l}) /\ Keeps(leases[l].region)
  BY <1>2, DropCachedInv
<1>3. CASE ~(~open /\ DOMAIN leases = {l}) /\ ~Keeps(leases[l].region)
  BY <1>3, DropUnmappedInv
<1>4. QED
  BY <1>1, <1>2, <1>3

LEMMA DropPoolInv ==
    ASSUME Inv, DropPool
    PROVE  Inv'
<1>1. /\ calls = NoEntries /\ calls' = calls /\ leases' = leases /\ open' = FALSE
  BY DEF DropPool
<1>2. CASE leases = NoEntries
  <2>1. cached' = {} /\ cachedBytes' = 0 /\ mapped' = Without(mapped, cached)
    BY <1>2 DEF DropPool, Unmap
  <2>2. DOMAIN mapped \ cached = {}
    <3>1. DOMAIN calls = {} /\ DOMAIN leases = {}
      BY <1>1, <1>2 DEF NoEntries
    <3>2. QED
      BY <3>1 DEF Inv, Owned
  <2>3. mapped' = NoEntries
    BY <2>1, <2>2 DEF Without, NoEntries
  <2>4. Empty'
    BY <1>1, <1>2, <2>1, <2>3 DEF Empty
  <2>5. QED
    BY <2>4, EmptyInv
<1>3. CASE leases # NoEntries
  <2>1. UNCHANGED <<mapped, cached, cachedBytes>>
    BY <1>3 DEF DropPool
  <2>2. TypeOK'
    BY <1>1, <2>1 DEF Inv, TypeOK
  <2>3. CachedBounded'
    BY <2>1, <2>2, AccountKept DEF Inv
  <2>4. Prepared' /\ Owned' /\ LeaseFits'
    BY <1>1, <2>1 DEF Inv, Prepared, Owned, LeaseFits
  <2>5. Closing' /\ NothingLeft'
    BY <1>1, <1>3 DEF Closing, NothingLeft
  <2>6. QED
    BY <2>2, <2>3, <2>4, <2>5 DEF Inv
<1>4. QED
  BY <1>2, <1>3

LEMMA NextInv == Inv /\ [Next]_vars => Inv'
<1> SUFFICES ASSUME Inv, [Next]_vars PROVE Inv'
  OBVIOUS
<1>1. ASSUME NEW l \in Leases, NEW len \in Sizes, NEW node \in Placements, Reuse(l, len, node)
      PROVE  Inv'
  BY <1>1, ReuseInv
<1>2. ASSUME NEW l \in Leases, NEW len \in Sizes, NEW node \in Placements, Miss(l, len, node)
      PROVE  Inv'
  BY <1>2, MissInv
<1>3. ASSUME NEW l \in Leases, NEW r \in Regions, Map(l, r)
      PROVE  Inv'
  BY <1>3, MapInv
<1>4. ASSUME NEW l \in Leases, MapFails(l) \/ BindFails(l) \/ LockFails(l)
      PROVE  Inv'
  BY <1>4, FailsInv
<1>5. ASSUME NEW l \in Leases, Bind(l)
      PROVE  Inv'
  BY <1>5, BindInv
<1>6. ASSUME NEW l \in Leases, Lock(l)
      PROVE  Inv'
  BY <1>6, LockInv
<1>7. ASSUME NEW l \in Leases, DropLease(l)
      PROVE  Inv'
  BY <1>7, DropLeaseInv
<1>8. ASSUME DropPool
      PROVE  Inv'
  BY <1>8, DropPoolInv
<1>9. CASE UNCHANGED vars
  <2>1. UNCHANGED <<mapped, cached, cachedBytes, leases, calls, open>>
    BY <1>9 DEF vars
  <2>2. TypeOK'
    BY <2>1 DEF Inv, TypeOK
  <2>3. CachedBounded'
    BY <2>1, <2>2, AccountKept DEF Inv
  <2>4. Prepared' /\ Owned' /\ LeaseFits' /\ Closing' /\ NothingLeft'
    BY <2>1 DEF Inv, Prepared, Owned, LeaseFits, Closing, NothingLeft
  <2>5. QED
    BY <2>2, <2>3, <2>4 DEF Inv
<1>10. QED
  BY <1>1, <1>2, <1>3, <1>4, <1>5, <1>6, <1>7, <1>8, <1>9 DEF Next

LEMMA SpecInv == Spec => []Inv
BY InitInv, NextInv, PTL DEF Spec

\* The pool's maps keep their shape: no lease or acquire ever names a region that
\* is not mapped.
THEOREM PoolTypeCorrect == Spec => []TypeOK
<1>1. Inv => TypeOK
  BY DEF Inv
<1>2. QED
  BY SpecInv, <1>1, PTL

\* cached_bytes is exactly the size of the cached regions and stays within
\* max_cached_bytes, for any interleaving of acquire and drop.
THEOREM CacheAccounted == Spec => []CachedBounded
<1>1. Inv => CachedBounded
  BY DEF Inv
<1>2. QED
  BY SpecInv, <1>1, PTL

\* No region is leaked, freed while it is used, or owned twice.
THEOREM OneOwnerEach == Spec => []OneOwner
<1>1. Inv => OneOwner
  <2> SUFFICES ASSUME Inv, NEW r \in DOMAIN mapped
               PROVE  /\ \A k, l \in Holders(r) \cup Makers(r) : k = l
                      /\ r \in cached => Holders(r) \cup Makers(r) = {}
                      /\ r \notin cached => Holders(r) \cup Makers(r) # {}
    BY DEF OneOwner
  <2>1. \A l \in Makers(r) : l \in DOMAIN calls /\ calls[l].region = r /\ calls[l].pc # "map"
    BY RegionOfCall DEF Makers
  <2>2. \A l \in Holders(r) : l \in DOMAIN leases /\ leases[l].region = r
    BY DEF Holders
  <2>3. \A k, l \in Holders(r) \cup Makers(r) : k = l
    BY <2>1, <2>2 DEF Inv, Owned
  <2>4. r \in cached => Holders(r) \cup Makers(r) = {}
    BY <2>1, <2>2 DEF Inv, Owned
  <2>5. r \notin cached => Holders(r) \cup Makers(r) # {}
    BY DEF Inv, Owned, Holders, Makers
  <2>6. QED
    BY <2>3, <2>4, <2>5
<1>2. QED
  BY SpecInv, <1>1, PTL

\* The slice a lease derefs to lies in its region, on its node, in locked pages.
THEOREM LeasesFit == Spec => []LeaseFits
<1>1. Inv => LeaseFits
  BY DEF Inv
<1>2. QED
  BY SpecInv, <1>1, PTL

\* When the last handle and the last lease are gone nothing stays mapped.
THEOREM NothingLeaks == Spec => []NothingLeft
<1>1. Inv => NothingLeft
  BY DEF Inv
<1>2. QED
  BY SpecInv, <1>1, PTL

\* PinnedMemoryPool neither leaks nor shares a region, and its cache keeps to its bound.
THEOREM PoolIsSafe == Spec => []PoolSafe
<1>1. TypeOK /\ CachedBounded /\ OneOwner /\ LeaseFits /\ NothingLeft => PoolSafe
  BY DEF PoolSafe
<1>2. QED
  BY <1>1, PoolTypeCorrect, CacheAccounted, OneOwnerEach, LeasesFit, NothingLeaks, PTL

-----------------------------------------------------------------------------
(* DeviceKvTier, for any keys, threads, handles and values, over a memory  *)
(* that gives handles out again (R) or does not.                           *)

\* What a buffer holds before it is filled, what a get has before it has read, and
\* what either may be.
Unfilled == <<"", "zeros">>
Unread == <<"", "none">>
Contents(V) == (Keys \X V) \cup {Unfilled}
Answers(V) == Contents(V) \cup {Unread}

\* The states of a call and of the tier's map.
DeviceCalls(V) ==
    [pc : {"idle", "download", "upload", "insert", "free", "done"}, key : Keys \cup {""},
     val : V \cup {""}, handle : Handles \cup {0}, owned : SUBSET Handles,
     got : Answers(V)]

DeviceTypes(V) ==
    /\ IsMap(devBuffers, Handles, Contents(V))
    /\ IsMap(devEntries, Keys, [handle : Handles, val : V])
    /\ devCalls \in [Threads -> DeviceCalls(V)]
    /\ devLost \subseteq DOMAIN devBuffers
    /\ devAlive \in BOOLEAN

\* BuffersOwned, pair by pair: a buffer that is not lost belongs to one call or to one
\* entry, and what they own is allocated.
BufferOwners ==
    /\ \A t \in Threads : devCalls[t].owned \subseteq DOMAIN devBuffers \ devLost
    /\ \A k \in DOMAIN devEntries : devEntries[k].handle \in DOMAIN devBuffers \ devLost
    /\ \A t, u \in Threads : t # u => devCalls[t].owned \cap devCalls[u].owned = {}
    /\ \A t \in Threads, k \in DOMAIN devEntries : devEntries[k].handle \notin devCalls[t].owned
    /\ \A k, j \in DOMAIN devEntries : devEntries[k].handle = devEntries[j].handle => k = j
    /\ \A h \in DOMAIN devBuffers \ devLost :
         \/ \E t \in Threads : h \in devCalls[t].owned
         \/ \E k \in DOMAIN devEntries : devEntries[k].handle = h

\* What a call has in hand at each of its steps, and that none is under way after the drop.
CallAt(V, c) ==
    /\ c.pc \in {"upload", "insert"} => c.key \in Keys /\ c.val \in V /\ c.owned = {c.handle}
    /\ c.pc = "insert" => devBuffers[c.handle] = <<c.key, c.val>>
    /\ c.pc \in {"idle", "download", "done"} => c.owned = {}
    /\ ~devAlive => c.pc \in {"idle", "done"}

Filled ==
    \A k \in DOMAIN devEntries : devBuffers[devEntries[k].handle] = <<k, devEntries[k].val>>

Released == ~devAlive => DOMAIN devEntries = {}

\* Where no handle comes back, a buffer that a get is to read is freed or still holds
\* what the get looked up: nobody will fill it again.
ReadAt(c) ==
    /\ c.pc = "download" =>
         /\ c.handle \in Nat /\ c.handle < devNext
         /\ c.handle \in DOMAIN devBuffers => devBuffers[c.handle] = <<c.key, c.val>>
         /\ \A u \in Threads : devCalls[u].pc = "upload" => devCalls[u].handle # c.handle
    /\ c.got # Unread => c.got = <<c.key, c.val>>

ReadsHeld ==
    /\ devNext \in Nat
    /\ \A h \in DOMAIN devBuffers : h \in Nat /\ h < devNext
    /\ \A t \in Threads : ReadAt(devCalls[t])

\* The inductive invariant.
DeviceInv(V, R) ==
    /\ DeviceTypes(V) /\ BufferOwners /\ Filled /\ Released
    /\ \A t \in Threads : CallAt(V, devCalls[t])
    /\ R = FALSE => ReadsHeld

\* What the instance's names for a block not read, one not written and no handle stand for.
LEMMA DeviceNames ==
    ASSUME NEW V, NEW R, NEW M
    PROVE  /\ Device(V, R, M)!Zeros = Unfilled /\ Device(V, R, M)!NoBlock = Unread
           /\ Device(V, R, M)!NoHandle = 0 /\ Unread \in Answers(V)
BY DEF Device!Zeros, Device!NoBlock, Device!NoHandle, Unfilled, Unread, Answers

\* It holds initially.
LEMMA InitDevice ==
    ASSUME NEW V, NEW R, NEW M, Device(V, R, M)!Init
    PROVE  DeviceInv(V, R)
<1>1. devBuffers = [k \in {} |-> k] /\ devEntries = [k \in {} |-> k] /\ devNext = 1
      /\ devCalls = [t \in Threads |-> [pc |-> "idle", key |-> "", val |-> "", handle |-> 0,
                                       owned |-> {}, got |-> Unread]]
      /\ devLost = {} /\ devAlive = TRUE
  BY DeviceNames DEF Device!Init, Device!NoEntries, Device!Idle, Device!Call
<1>2. DeviceTypes(V)
  BY <1>1, DeviceNames DEF DeviceTypes, IsMap, DeviceCalls
<1>3. BufferOwners
  BY <1>1 DEF BufferOwners
<1>4. \A t \in Threads : CallAt(V, devCalls[t])
  BY <1>1 DEF CallAt
<1>5. ReadsHeld
  BY <1>1 DEF ReadsHeld, ReadAt
<1>6. QED
  BY <1>1, <1>2, <1>3, <1>4, <1>5 DEF DeviceInv, Filled, Released

\* What DeviceTypes says of one call, and of the map.
LEMMA DeviceFacts ==
    ASSUME NEW V, DeviceTypes(V), NEW t \in Threads
    PROVE  /\ devCalls[t] \in DeviceCalls(V)
           /\ \A k \in DOMAIN devEntries : k \in Keys /\ devEntries[k].handle \in Handles
                                            /\ devEntries[k].val \in V
BY DEF DeviceTypes, IsMap

\* Reads stay good while no buffer is filled and no upload begins.
LEMMA ReadsKept ==
    ASSUME ReadsHeld, devNext' = devNext, DOMAIN devBuffers' \subseteq DOMAIN devBuffers,
           \A h \in DOMAIN devBuffers' : devBuffers'[h] = devBuffers[h],
           NEW t, NEW c, ReadAt(c), c.pc # "upload",
           \A u \in Threads : devCalls'[u] = IF u = t THEN c ELSE devCalls[u]
    PROVE  ReadsHeld'
<1>1. \A u \in Threads : devCalls'[u].pc = "upload" =>
        devCalls[u].pc = "upload" /\ devCalls'[u].handle = devCalls[u].handle
  OBVIOUS
<1>2. \A u \in Threads : ReadAt(devCalls[u])'
  <2> SUFFICES ASSUME NEW u \in Threads PROVE ReadAt(devCalls[u])'
    OBVIOUS
  <2> DEFINE d == devCalls'[u]
  <2>1. ReadAt(d)
    BY DEF ReadsHeld
  <2> HIDE DEF d
  <2>2. d = devCalls'[u]
    BY DEF d
  <2>3. QED
    BY <1>1, <2>1, <2>2 DEF ReadAt
<1>3. QED
  BY <1>2 DEF ReadsHeld

\* A step of a call that changes neither a buffer nor the map nor who owns what.
LEMMA CallMoves ==
    ASSUME NEW V, NEW R, DeviceInv(V, R), NEW t \in Threads, NEW c \in DeviceCalls(V),
           devCalls' = [devCalls EXCEPT ![t] = c], c.owned = devCalls[t].owned,
           devBuffers' = devBuffers, devEntries' = devEntries, devLost' = devLost,
           devAlive' = devAlive, devNext' = devNext,
           CallAt(V, c), c.pc # "upload", R = FALSE => ReadAt(c)
    PROVE  DeviceInv(V, R)'
<1>1. \A u \in Threads : devCalls'[u] = IF u = t THEN c ELSE devCalls[u]
  BY DEF DeviceInv, DeviceTypes
<1>2. \A u \in Threads : devCalls'[u].owned = devCalls[u].owned
  BY <1>1
<1>3. DeviceTypes(V)'
  BY DEF DeviceInv, DeviceTypes, IsMap
<1>4. BufferOwners'
  BY <1>2 DEF DeviceInv, BufferOwners
<1>5. \A u \in Threads : CallAt(V, devCalls[u])'
  BY <1>1 DEF DeviceInv, CallAt
<1>6. R = FALSE => ReadsHeld'
  BY <1>1, ReadsKept DEF DeviceInv
<1>7. Filled' /\ Released'
  BY DEF DeviceInv, Filled, Released
<1>8. QED
  BY <1>3, <1>4, <1>5, <1>6, <1>7 DEF DeviceInv

\* Lookup: a get notes the handle of the entry it found.
LEMMA LookupStep ==
    ASSUME NEW V, NEW R, NEW M, NEW t \in Threads, NEW k \in Keys, DeviceInv(V, R),
           Device(V, R, M)!Lookup(t, k)
    PROVE  DeviceInv(V, R)'
<1>1. devCalls[t] \in DeviceCalls(V) /\ devCalls[t].pc \in {"idle", "done"} /\ devCalls[t].owned = {}
      /\ devAlive
  BY DeviceFacts DEF DeviceInv, CallAt, Device!Lookup, Device!Ready
<1>2. PICK c : /\ c = IF k \in DOMAIN devEntries
                      THEN [pc |-> "download", key |-> k, val |-> devEntries[k].val,
                            handle |-> devEntries[k].handle, owned |-> {}, got |-> Unread]
                      ELSE [pc |-> "done", key |-> "", val |-> "", handle |-> 0,
                            owned |-> {}, got |-> Unread]
              /\ devCalls' = [devCalls EXCEPT ![t] = c]
  BY DeviceNames DEF Device!Lookup, Device!Becomes, Device!Call, Device!Done
<1>3. c \in DeviceCalls(V) /\ c.owned = {} /\ CallAt(V, c) /\ c.pc # "upload"
  BY <1>1, <1>2, DeviceFacts, DeviceNames DEF DeviceInv, DeviceCalls, CallAt
<1>4. R = FALSE => ReadAt(c)
  <2> SUFFICES ASSUME R = FALSE, k \in DOMAIN devEntries PROVE ReadAt(c)
    BY <1>2 DEF ReadAt
  <2>1. devEntries[k].handle \in DOMAIN devBuffers /\ devBuffers[devEntries[k].handle] = <<k, devEntries[k].val>>
    BY DEF DeviceInv, BufferOwners, Filled
  <2>2. devEntries[k].handle \in Nat /\ devEntries[k].handle < devNext
    BY <2>1 DEF DeviceInv, ReadsHeld
  <2>3. \A u \in Threads : devCalls[u].pc = "upload" => devCalls[u].handle # devEntries[k].handle
    BY DEF DeviceInv, CallAt, BufferOwners
  <2>4. QED
    BY <1>2, <2>1, <2>2, <2>3 DEF ReadAt
<1>5. devBuffers' = devBuffers /\ devEntries' = devEntries /\ devLost' = devLost
      /\ devAlive' = devAlive /\ devNext' = devNext
  BY DEF Device!Lookup
<1>6. devCalls' = [devCalls EXCEPT ![t] = c] /\ c.owned = devCalls[t].owned
  BY <1>1, <1>2, <1>3
<1>7. QED
  BY <1>3, <1>4, <1>5, <1>6, CallMoves, Zenon

\* A call's record with one or two fields changed, written out.
LEMMA CallWritten ==
    ASSUME NEW V, NEW c \in DeviceCalls(V), NEW p, NEW o, NEW g
    PROVE  /\ [c EXCEPT !.pc = p] = [pc |-> p, key |-> c.key, val |-> c.val, handle |-> c.handle,
                                     owned |-> c.owned, got |-> c.got]
           /\ [c EXCEPT !.pc = p, !.got = g] = [pc |-> p, key |-> c.key, val |-> c.val,
                                     handle |-> c.handle, owned |-> c.owned, got |-> g]
           /\ [c EXCEPT !.pc = p, !.owned = o] = [pc |-> p, key |-> c.key, val |-> c.val,
                                     handle |-> c.handle, owned |-> o, got |-> c.got]
           /\ [c EXCEPT !.owned = o] = [pc |-> c.pc, key |-> c.key, val |-> c.val, handle |-> c.handle,
                                     owned |-> o, got |-> c.got]
<1>1. PICK A, B, C, D, E, F :
        DeviceCalls(V) = [pc : A, key : B, val : C, handle : D, owned : E, got : F]
  BY Zenon DEF DeviceCalls
<1>2. c \in [pc : A, key : B, val : C, handle : D, owned : E, got : F]
  BY <1>1, Zenon
<1>3. PICK d : d = [pc |-> p, key |-> c.key, val |-> c.val, handle |-> c.handle,
                    owned |-> c.owned, got |-> c.got]
  OBVIOUS
<1>4. [c EXCEPT !.pc = p] = d
  BY <1>2, <1>3
<1>5. [d EXCEPT !.got = g] = [pc |-> p, key |-> c.key, val |-> c.val, handle |-> c.handle,
                              owned |-> c.owned, got |-> g]
  BY <1>3
<1>6. [d EXCEPT !.owned = o] = [pc |-> p, key |-> c.key, val |-> c.val, handle |-> c.handle,
                                owned |-> o, got |-> c.got]
  BY <1>3
<1>7. /\ [c EXCEPT !.pc = p, !.got = g] = [d EXCEPT !.got = g]
      /\ [c EXCEPT !.pc = p, !.owned = o] = [d EXCEPT !.owned = o]
  BY <1>4, Zenon
<1>8. [c EXCEPT !.owned = o] = [pc |-> c.pc, key |-> c.key, val |-> c.val, handle |-> c.handle,
                                owned |-> o, got |-> c.got]
  BY <1>2
<1>9. QED
  BY <1>3, <1>4, <1>5, <1>6, <1>7, <1>8, Zenon

\* Download: what is at the handle by then is the answer.
LEMMA DownloadStep ==
    ASSUME NEW V, NEW R, NEW M, NEW t \in Threads, DeviceInv(V, R), Device(V, R, M)!Download(t)
    PROVE  DeviceInv(V, R)'
<1>1. devCalls[t] \in DeviceCalls(V) /\ devCalls[t].pc = "download" /\ devCalls[t].owned = {}
      /\ CallAt(V, devCalls[t])
  BY DeviceFacts DEF DeviceInv, CallAt, Device!Download
<1>2. PICK g : /\ g = IF devCalls[t].handle \in DOMAIN devBuffers
                      THEN devBuffers[devCalls[t].handle] ELSE Unread
               /\ devCalls' = [devCalls EXCEPT ![t] = [devCalls[t] EXCEPT !.pc = "done", !.got = g]]
  BY DeviceNames DEF Device!Download, Device!Becomes
<1>3. g \in Answers(V)
  BY <1>2, DeviceNames DEF DeviceInv, DeviceTypes, IsMap, Answers
<1>4. PICK c : /\ c = [pc |-> "done", key |-> devCalls[t].key, val |-> devCalls[t].val,
                       handle |-> devCalls[t].handle, owned |-> {}, got |-> g]
               /\ devCalls' = [devCalls EXCEPT ![t] = c]
  <2>1. [devCalls[t] EXCEPT !.pc = "done", !.got = g]
          = [pc |-> "done", key |-> devCalls[t].key, val |-> devCalls[t].val,
             handle |-> devCalls[t].handle, owned |-> devCalls[t].owned, got |-> g]
    BY <1>1, CallWritten, Zenon
  <2>2. QED
    BY <1>1, <1>2, <2>1, Zenon
<1>5. c \in DeviceCalls(V) /\ c.owned = {} /\ CallAt(V, c) /\ c.pc # "upload"
  BY <1>1, <1>3, <1>4 DEF DeviceCalls, CallAt
<1>6. R = FALSE => ReadAt(c)
  BY <1>1, <1>2, <1>4 DEF DeviceInv, ReadsHeld, ReadAt
<1>7. QED
  BY <1>1, <1>4, <1>5, <1>6, CallMoves DEF Device!Download

\* The calls that a failing callback ends, and a call that has freed all it owned.
LEMMA CallEnds ==
    ASSUME NEW V, NEW R, NEW M, NEW t \in Threads, DeviceInv(V, R),
           \/ Device(V, R, M)!DownloadFails(t) \/ Device(V, R, M)!AllocateFails(t)
           \/ Device(V, R, M)!UploadFails(t) \/ Device(V, R, M)!Freed(t)
    PROVE  DeviceInv(V, R)'
<1>1. devCalls[t] \in DeviceCalls(V) /\ CallAt(V, devCalls[t])
  BY DeviceFacts DEF DeviceInv
<1>2. R = FALSE => ReadAt(devCalls[t])
  BY DEF DeviceInv, ReadsHeld
<1>3. CASE Device(V, R, M)!DownloadFails(t)
  <2>1. PICK c : /\ c = [pc |-> "done", key |-> devCalls[t].key, val |-> devCalls[t].val,
                         handle |-> devCalls[t].handle, owned |-> devCalls[t].owned, got |-> devCalls[t].got]
                 /\ devCalls' = [devCalls EXCEPT ![t] = c]
    <3>1. devCalls' = [devCalls EXCEPT ![t] = [devCalls[t] EXCEPT !.pc = "done"]]
      BY <1>3 DEF Device!DownloadFails, Device!Becomes
    <3>2. [devCalls[t] EXCEPT !.pc = "done"]
            = [pc |-> "done", key |-> devCalls[t].key, val |-> devCalls[t].val,
               handle |-> devCalls[t].handle, owned |-> devCalls[t].owned, got |-> devCalls[t].got]
      BY <1>1, CallWritten, Zenon
    <3>3. QED
      BY <3>1, <3>2, Zenon
  <2>2. devCalls[t].pc = "download" /\ devCalls[t].owned = {}
    BY <1>1, <1>3 DEF CallAt, Device!DownloadFails
  <2>3. c \in DeviceCalls(V) /\ c.owned = devCalls[t].owned /\ CallAt(V, c) /\ c.pc # "upload"
    BY <1>1, <2>1, <2>2 DEF DeviceCalls, CallAt
  <2>4. R = FALSE => ReadAt(c)
    BY <1>2, <2>1 DEF ReadAt
  <2>5. QED
    BY <1>3, <2>1, <2>3, <2>4, CallMoves DEF Device!DownloadFails
<1>4. CASE Device(V, R, M)!UploadFails(t)
  <2>1. PICK c : /\ c = [pc |-> "free", key |-> devCalls[t].key, val |-> devCalls[t].val,
                         handle |-> devCalls[t].handle, owned |-> devCalls[t].owned, got |-> devCalls[t].got]
                 /\ devCalls' = [devCalls EXCEPT ![t] = c]
    <3>1. devCalls' = [devCalls EXCEPT ![t] = [devCalls[t] EXCEPT !.pc = "free"]]
      BY <1>4 DEF Device!UploadFails, Device!Becomes
    <3>2. [devCalls[t] EXCEPT !.pc = "free"]
            = [pc |-> "free", key |-> devCalls[t].key, val |-> devCalls[t].val,
               handle |-> devCalls[t].handle, owned |-> devCalls[t].owned, got |-> devCalls[t].got]
      BY <1>1, CallWritten, Zenon
    <3>3. QED
      BY <3>1, <3>2, Zenon
  <2>2. devAlive
    BY <1>1, <1>4 DEF CallAt, Device!UploadFails
  <2>3. c \in DeviceCalls(V) /\ c.owned = devCalls[t].owned /\ CallAt(V, c) /\ c.pc # "upload"
    BY <1>1, <2>1, <2>2 DEF DeviceCalls, CallAt
  <2>4. R = FALSE => ReadAt(c)
    BY <1>2, <2>1 DEF ReadAt
  <2>5. QED
    BY <1>4, <2>1, <2>3, <2>4, CallMoves DEF Device!UploadFails
<1>5. CASE Device(V, R, M)!AllocateFails(t) \/ Device(V, R, M)!Freed(t)
  <2>1. PICK c : /\ c = [pc |-> "done", key |-> "", val |-> "", handle |-> 0, owned |-> {}, got |-> Unread]
                 /\ devCalls' = [devCalls EXCEPT ![t] = c]
    <3>1. Device(V, R, M)!Becomes(t, Device(V, R, M)!Done)
      BY <1>5 DEF Device!AllocateFails, Device!Freed
    <3>2. QED
      BY <3>1, DeviceNames, Zenon DEF Device!Becomes, Device!Done, Device!Call
  <2>2. devCalls[t].owned = {}
    BY <1>1, <1>5 DEF CallAt, Device!AllocateFails, Device!Freed, Device!Ready
  <2>3. c \in DeviceCalls(V) /\ c.owned = devCalls[t].owned /\ CallAt(V, c) /\ c.pc # "upload"
    BY <2>1, <2>2, DeviceNames DEF DeviceCalls, CallAt
  <2>4. ReadAt(c)
    BY <2>1 DEF ReadAt
  <2>5. QED
    BY <1>5, <2>1, <2>3, <2>4, CallMoves DEF Device!AllocateFails, Device!Freed
<1>6. QED
  BY <1>3, <1>4, <1>5

\* Allocate: a handle nobody has, or none at all when the call fails.
LEMMA AllocateStep ==
    ASSUME NEW V, NEW R, NEW M, NEW t \in Threads, NEW k \in Keys, NEW v \in V, DeviceInv(V, R),
           R \in BOOLEAN, Device(V, R, M)!Allocate(t, k, v)
    PROVE  DeviceInv(V, R)'
<1>1. devCalls[t] \in DeviceCalls(V) /\ devCalls[t].pc \in {"idle", "done"} /\ devCalls[t].owned = {}
      /\ devAlive
  BY DeviceFacts DEF DeviceInv, CallAt, Device!Allocate, Device!Ready
<1>2. PICK h \in Handles :
        /\ R = TRUE => h \notin DOMAIN devBuffers
        /\ R = FALSE => h = devNext
        /\ devBuffers' = [j \in DOMAIN devBuffers \cup {h} |->
                           IF j = h THEN Unfilled ELSE devBuffers[j]]
        /\ devCalls' = [devCalls EXCEPT ![t] =
             [pc |-> "upload", key |-> k, val |-> v, handle |-> h, owned |-> {h}, got |-> Unread]]
  <2>1. PICK h \in Device(V, R, M)!FreshHandle :
          /\ devBuffers' = Device(V, R, M)!With(devBuffers, h, Device(V, R, M)!Zeros)
          /\ Device(V, R, M)!Becomes(t, Device(V, R, M)!Call("upload", k, v, h, {h}))
    BY DEF Device!Allocate
  <2>2. h \in Handles /\ (R = TRUE => h \notin DOMAIN devBuffers) /\ (R = FALSE => h = devNext)
    BY DEF Device!FreshHandle
  <2>3. devBuffers' = [j \in DOMAIN devBuffers \cup {h} |-> IF j = h THEN Unfilled ELSE devBuffers[j]]
    BY <2>1, DeviceNames, Zenon DEF Device!With
  <2>4. devCalls' = [devCalls EXCEPT ![t] =
          [pc |-> "upload", key |-> k, val |-> v, handle |-> h, owned |-> {h}, got |-> Unread]]
    BY <2>1, DeviceNames, Zenon DEF Device!Becomes, Device!Call
  <2>5. QED
    BY <2>2, <2>3, <2>4
<1>3. PICK c : /\ c = [pc |-> "upload", key |-> k, val |-> v, handle |-> h, owned |-> {h}, got |-> Unread]
               /\ devCalls' = [devCalls EXCEPT ![t] = c]
  BY <1>2
<1>4. \A u \in Threads : devCalls'[u] = IF u = t THEN c ELSE devCalls[u]
  BY <1>3 DEF DeviceInv, DeviceTypes
<1>5. devEntries' = devEntries /\ devLost' = devLost /\ devAlive' = devAlive
      /\ (R = FALSE => devNext' = devNext + 1)
  BY DEF Device!Allocate
<1>6. h \notin DOMAIN devBuffers
  BY <1>2 DEF DeviceInv, ReadsHeld
<1>7. DeviceTypes(V)'
  <2>1. c \in DeviceCalls(V)
    BY <1>3, DeviceNames DEF DeviceCalls
  <2>2. Unfilled \in Contents(V)
    BY DEF Contents
  <2>3. QED
    BY <1>2, <1>3, <1>5, <2>1, <2>2 DEF DeviceInv, DeviceTypes, IsMap
<1>8. BufferOwners'
  BY <1>2, <1>3, <1>4, <1>5, <1>6, <1>1 DEF DeviceInv, BufferOwners, DeviceTypes
<1>9. \A u \in Threads : CallAt(V, devCalls[u])'
  BY <1>1, <1>2, <1>3, <1>4, <1>5, <1>6 DEF DeviceInv, CallAt, BufferOwners
<1>10. Filled' /\ Released'
  BY <1>1, <1>2, <1>5, <1>6 DEF DeviceInv, Filled, Released, BufferOwners
<1>11. R = FALSE => ReadsHeld'
  BY <1>2, <1>3, <1>4, <1>5, <1>6 DEF DeviceInv, ReadsHeld, ReadAt
<1>12. QED
  BY <1>7, <1>8, <1>9, <1>10, <1>11 DEF DeviceInv

\* Upload: the buffer is filled, or given up when the call fails.
LEMMA UploadStep ==
    ASSUME NEW V, NEW R, NEW M, NEW t \in Threads, DeviceInv(V, R), Device(V, R, M)!Upload(t)
    PROVE  DeviceInv(V, R)'
<1>1. devCalls[t] \in DeviceCalls(V) /\ CallAt(V, devCalls[t]) /\ devCalls[t].pc = "upload" /\ devAlive
  BY DeviceFacts DEF DeviceInv, CallAt, Device!Upload
<1>2. PICK h, w : h = devCalls[t].handle /\ w = <<devCalls[t].key, devCalls[t].val>>
  OBVIOUS
<1>3. h \in DOMAIN devBuffers \ devLost /\ w \in Contents(V) /\ devCalls[t].owned = {h}
      /\ devCalls[t].key \in Keys /\ devCalls[t].val \in V
  BY <1>1, <1>2 DEF DeviceInv, BufferOwners, CallAt, Contents
<1>4. devBuffers' = [devBuffers EXCEPT ![h] = w]
  BY <1>2 DEF Device!Upload
<1>5. PICK c : /\ c = [pc |-> "insert", key |-> devCalls[t].key, val |-> devCalls[t].val,
                       handle |-> devCalls[t].handle, owned |-> devCalls[t].owned, got |-> devCalls[t].got]
               /\ devCalls' = [devCalls EXCEPT ![t] = c]
  <2>1. devCalls' = [devCalls EXCEPT ![t] = [devCalls[t] EXCEPT !.pc = "insert"]]
    BY DEF Device!Upload, Device!Becomes
  <2>2. [devCalls[t] EXCEPT !.pc = "insert"]
          = [pc |-> "insert", key |-> devCalls[t].key, val |-> devCalls[t].val,
             handle |-> devCalls[t].handle, owned |-> devCalls[t].owned, got |-> devCalls[t].got]
    BY <1>1, CallWritten, Zenon
  <2>3. QED
    BY <2>1, <2>2, Zenon
<1>6. /\ c \in DeviceCalls(V) /\ c.pc = "insert" /\ c.key = devCalls[t].key /\ c.val = devCalls[t].val
      /\ c.handle = h /\ c.owned = {h} /\ c.got = devCalls[t].got
  BY <1>1, <1>2, <1>3, <1>5 DEF DeviceCalls
<1>7. devEntries' = devEntries /\ devLost' = devLost /\ devAlive' = devAlive /\ devNext' = devNext
  BY DEF Device!Upload
<1>8. \A u \in Threads : devCalls'[u] = IF u = t THEN c ELSE devCalls[u]
  BY <1>5 DEF DeviceInv, DeviceTypes
<1>9. /\ DOMAIN devBuffers' = DOMAIN devBuffers /\ devBuffers'[h] = w
      /\ \A j \in DOMAIN devBuffers : j # h => devBuffers'[j] = devBuffers[j]
  BY <1>3, <1>4 DEF DeviceInv, DeviceTypes, IsMap
<1>10. \A k \in DOMAIN devEntries : devEntries[k].handle # h
  BY <1>3 DEF DeviceInv, BufferOwners
<1>11. \A u \in Threads : u # t /\ devCalls[u].pc = "insert" => devCalls[u].handle # h
  BY <1>3 DEF DeviceInv, BufferOwners, CallAt
<1>12. DeviceTypes(V)'
  BY <1>3, <1>4, <1>5, <1>6, <1>7 DEF DeviceInv, DeviceTypes, IsMap
<1>13. BufferOwners'
  <2>1. \A u \in Threads : devCalls'[u].owned = devCalls[u].owned
    BY <1>3, <1>6, <1>8
  <2>2. QED
    BY <1>7, <1>9, <2>1 DEF DeviceInv, BufferOwners
<1>14. \A u \in Threads : CallAt(V, devCalls[u])'
  <2> SUFFICES ASSUME NEW u \in Threads PROVE CallAt(V, devCalls[u])'
    OBVIOUS
  <2>1. CASE u = t
    <3>1. devCalls'[u] = c
      BY <1>8, <2>1
    <3>2. devBuffers'[h] = <<c.key, c.val>>
      BY <1>2, <1>6, <1>9
    <3>3. QED
      BY <1>1, <1>3, <1>6, <1>7, <3>1, <3>2 DEF CallAt
  <2>2. CASE u # t
    <3>1. devCalls'[u] = devCalls[u] /\ CallAt(V, devCalls[u])
      BY <1>8, <2>2 DEF DeviceInv
    <3>2. devCalls[u].pc = "insert" => devBuffers'[devCalls[u].handle] = devBuffers[devCalls[u].handle]
      BY <1>9, <1>11, <2>2, <3>1 DEF DeviceInv, BufferOwners, CallAt
    <3>3. QED
      BY <1>7, <3>1, <3>2 DEF CallAt
  <2>3. QED
    BY <2>1, <2>2
<1>15. Filled' /\ Released'
  BY <1>7, <1>9, <1>10 DEF DeviceInv, Filled, Released, BufferOwners
<1>16. R = FALSE => ReadsHeld'
  <2> SUFFICES ASSUME R = FALSE PROVE ReadsHeld'
    OBVIOUS
  <2>1. \A u \in Threads : devCalls[u].pc = "download" => devCalls[u].handle # h
    BY <1>1, <1>2 DEF DeviceInv, ReadsHeld, ReadAt
  <2>2. \A u \in Threads : devCalls'[u].pc = "upload" => devCalls[u].pc = "upload" /\ devCalls'[u].handle = devCalls[u].handle
    BY <1>6, <1>8
  <2>3. \A u \in Threads : ReadAt(devCalls[u])'
    <3> SUFFICES ASSUME NEW u \in Threads PROVE ReadAt(devCalls[u])'
      OBVIOUS
    <3> DEFINE d == devCalls'[u]
    <3>1. ReadAt(devCalls[u]) /\ d.got = devCalls[u].got /\ d.key = devCalls[u].key /\ d.val = devCalls[u].val
          /\ (d.pc = "download" => devCalls[u].pc = "download" /\ d.handle = devCalls[u].handle)
      BY <1>6, <1>8 DEF DeviceInv, ReadsHeld
    <3> HIDE DEF d
    <3>2. d = devCalls'[u]
      BY DEF d
    <3>3. QED
      BY <1>7, <1>9, <2>1, <2>2, <3>1, <3>2 DEF ReadAt
  <2>4. QED
    BY <1>7, <1>9, <2>3 DEF DeviceInv, ReadsHeld
<1>17. QED
  BY <1>12, <1>13, <1>14, <1>15, <1>16 DEF DeviceInv

\* A call takes entries out of the map, and owns their buffers.
LEMMA TakeOut ==
    ASSUME NEW V, NEW R, DeviceInv(V, R), NEW t \in Threads, devAlive,
           devCalls[t].owned = {}, NEW K, K \subseteq DOMAIN devEntries,
           NEW S, \A h : h \in S <=> \E k \in K : h = devEntries[k].handle,
           NEW c \in DeviceCalls(V), c.pc = "free", c.owned = S, c.got = Unread,
           devCalls' = [devCalls EXCEPT ![t] = c],
           devEntries' = [k \in DOMAIN devEntries \ K |-> devEntries[k]],
           devBuffers' = devBuffers, devLost' = devLost, devAlive' = devAlive, devNext' = devNext
    PROVE  DeviceInv(V, R)'
<1>1. \A u \in Threads : devCalls'[u] = IF u = t THEN c ELSE devCalls[u]
  BY DEF DeviceInv, DeviceTypes
<1>2. DOMAIN devEntries' = DOMAIN devEntries \ K /\ \A k \in DOMAIN devEntries' : devEntries'[k] = devEntries[k]
  OBVIOUS
<1>3. DeviceTypes(V)'
  BY DEF DeviceInv, DeviceTypes, IsMap
<1>4. BufferOwners'
  <2>1. BufferOwners
    BY DEF DeviceInv
  <2>2. \A u \in Threads : devCalls'[u].owned = IF u = t THEN S ELSE devCalls[u].owned
    BY <1>1
  <2>3. S \subseteq DOMAIN devBuffers \ devLost
    BY <2>1 DEF BufferOwners
  <2>4. \A u \in Threads : S \cap devCalls[u].owned = {}
    BY <2>1 DEF BufferOwners
  <2>5. \A k \in DOMAIN devEntries' : devEntries'[k].handle \notin S
    BY <1>2, <2>1 DEF BufferOwners
  <2>6. \A k \in DOMAIN devEntries : devEntries[k].handle \in S \/ k \in DOMAIN devEntries'
    BY <1>2
  <2>7. \A h \in DOMAIN devBuffers \ devLost :
          (\E u \in Threads : h \in devCalls'[u].owned) \/ (\E k \in DOMAIN devEntries' : devEntries'[k].handle = h)
    BY <1>2, <2>1, <2>2, <2>6 DEF BufferOwners
  <2>8. QED
    BY <1>2, <2>1, <2>2, <2>3, <2>4, <2>5, <2>7 DEF BufferOwners
<1>5. \A u \in Threads : CallAt(V, devCalls[u])'
  <2> SUFFICES ASSUME NEW u \in Threads PROVE CallAt(V, devCalls[u])'
    OBVIOUS
  <2>1. CallAt(V, devCalls[u]) /\ devAlive
    BY DEF DeviceInv
  <2>2. devCalls'[u] = IF u = t THEN c ELSE devCalls[u]
    BY <1>1
  <2>3. QED
    BY <1>1, <2>1, <2>2 DEF CallAt
<1>6. Filled' /\ Released'
  BY <1>2 DEF DeviceInv, Filled, Released
<1>7. R = FALSE => ReadsHeld'
  <2>1. ReadAt(c) /\ c.pc # "upload"
    BY DEF ReadAt
  <2>2. QED
    BY <1>1, <2>1, ReadsKept DEF DeviceInv
<1>8. QED
  BY <1>3, <1>4, <1>5, <1>6, <1>7 DEF DeviceInv

\* remove and clear: the entries' buffers go to the call that took them out.
LEMMA RemoveSteps ==
    ASSUME NEW V, NEW R, NEW M, NEW t \in Threads, DeviceInv(V, R),
           Device(V, R, M)!Clear(t) \/ \E k \in Keys : Device(V, R, M)!Remove(t, k)
    PROVE  DeviceInv(V, R)'
<1>1. devAlive /\ devCalls[t].owned = {}
  BY DEF DeviceInv, CallAt, Device!Clear, Device!Remove, Device!Ready
<1>2. devBuffers' = devBuffers /\ devLost' = devLost /\ devAlive' = devAlive /\ devNext' = devNext
  BY DEF Device!Clear, Device!Remove
<1>3. PICK K, S :
        /\ K \in SUBSET DOMAIN devEntries
        /\ \A h : h \in S <=> \E k \in K : h = devEntries[k].handle
        /\ devEntries' = [k \in DOMAIN devEntries \ K |-> devEntries[k]]
        /\ Device(V, R, M)!Becomes(t, Device(V, R, M)!Call("free", "", "", Device(V, R, M)!NoHandle, S))
  <2>1. CASE Device(V, R, M)!Clear(t)
    <3>1. PICK S : S = {devEntries[k].handle : k \in DOMAIN devEntries}
      OBVIOUS
    <3>2. Device(V, R, M)!Becomes(t, Device(V, R, M)!Call("free", "", "", Device(V, R, M)!NoHandle, S))
      BY <2>1, <3>1, Zenon DEF Device!Clear
    <3>3. devEntries' = [k \in DOMAIN devEntries \ DOMAIN devEntries |-> devEntries[k]]
      <4>1. devEntries' = [k \in {} |-> k]
        BY <2>1 DEF Device!Clear, Device!NoEntries
      <4>2. QED
        BY <4>1
    <3>4. \A h : h \in S <=> \E k \in DOMAIN devEntries : h = devEntries[k].handle
      BY <3>1
    <3>5. DOMAIN devEntries \in SUBSET DOMAIN devEntries
      OBVIOUS
    <3>6. QED
      BY <3>2, <3>3, <3>4, <3>5, Zenon
  <2>2. CASE \E k \in Keys : Device(V, R, M)!Remove(t, k)
    <3>1. PICK k \in Keys : Device(V, R, M)!Remove(t, k)
      BY <2>2
    <3>2. PICK K, S : K = DOMAIN devEntries \cap {k} /\ S = Device(V, R, M)!HandleAt(k)
      OBVIOUS
    <3>3. Device(V, R, M)!Becomes(t, Device(V, R, M)!Call("free", "", "", Device(V, R, M)!NoHandle, S))
      BY <3>1, <3>2, Zenon DEF Device!Remove
    <3>4. devEntries' = [j \in DOMAIN devEntries \ K |-> devEntries[j]]
      <4>1. devEntries' = [j \in DOMAIN devEntries \ {k} |-> devEntries[j]]
        BY <3>1 DEF Device!Remove, Device!Without
      <4>2. DOMAIN devEntries \ {k} = DOMAIN devEntries \ K
        BY <3>2
      <4>3. QED
        BY <4>1, <4>2
    <3>5. \A h : h \in S <=> \E j \in K : h = devEntries[j].handle
      BY <3>2 DEF Device!HandleAt
    <3>6. K \in SUBSET DOMAIN devEntries
      BY <3>2
    <3>7. QED
      BY <3>3, <3>4, <3>5, <3>6, Zenon
  <2>3. QED
    BY <2>1, <2>2
<1>4. PICK c : /\ c = [pc |-> "free", key |-> "", val |-> "", handle |-> 0, owned |-> S, got |-> Unread]
               /\ devCalls' = [devCalls EXCEPT ![t] = c]
  <2>1. Device(V, R, M)!Becomes(t, Device(V, R, M)!Call("free", "", "", Device(V, R, M)!NoHandle, S))
    BY <1>3
  <2>2. QED
    BY <2>1, DeviceNames, Zenon DEF Device!Becomes, Device!Call
<1>5. S \subseteq Handles
  BY <1>3, DeviceFacts DEF DeviceInv
<1>6. c \in DeviceCalls(V) /\ c.pc = "free" /\ c.owned = S /\ c.got = Unread
  BY <1>4, <1>5, DeviceNames DEF DeviceCalls
<1>7. devCalls' = [devCalls EXCEPT ![t] = c] /\ K \subseteq DOMAIN devEntries
  BY <1>3, <1>4
<1>8. QED
  BY <1>1, <1>2, <1>3, <1>6, <1>7, TakeOut

\* Insert: the new buffer goes to the entry, the replaced one to the call.
LEMMA InsertStep ==
    ASSUME NEW V, NEW R, NEW M, NEW t \in Threads, DeviceInv(V, R), Device(V, R, M)!Insert(t)
    PROVE  DeviceInv(V, R)'
<1>1. devCalls[t] \in DeviceCalls(V) /\ CallAt(V, devCalls[t]) /\ devCalls[t].pc = "insert" /\ devAlive
  BY DeviceFacts DEF DeviceInv, CallAt, Device!Insert
<1>2. PICK k, v, h : k = devCalls[t].key /\ v = devCalls[t].val /\ h = devCalls[t].handle
  OBVIOUS
<1>3. /\ k \in Keys /\ v \in V /\ h \in DOMAIN devBuffers \ devLost /\ h \in Handles
      /\ devCalls[t].owned = {h} /\ devBuffers[h] = <<k, v>>
  BY <1>1, <1>2 DEF DeviceInv, DeviceTypes, IsMap, BufferOwners, CallAt
<1>4. PICK S : S = Device(V, R, M)!HandleAt(k)
  OBVIOUS
<1>5. \A j : j \in S <=> k \in DOMAIN devEntries /\ j = devEntries[k].handle
  BY <1>4 DEF Device!HandleAt
<1>6. PICK c : /\ c = [pc |-> "free", key |-> devCalls[t].key, val |-> devCalls[t].val,
                       handle |-> devCalls[t].handle, owned |-> S, got |-> devCalls[t].got]
               /\ devCalls' = [devCalls EXCEPT ![t] = c]
  <2>1. devCalls' = [devCalls EXCEPT ![t] = [devCalls[t] EXCEPT !.pc = "free", !.owned = S]]
    BY <1>2, <1>4, Zenon DEF Device!Insert, Device!Becomes
  <2>2. [devCalls[t] EXCEPT !.pc = "free", !.owned = S]
          = [pc |-> "free", key |-> devCalls[t].key, val |-> devCalls[t].val,
             handle |-> devCalls[t].handle, owned |-> S, got |-> devCalls[t].got]
    BY <1>1, CallWritten, Zenon
  <2>3. QED
    BY <2>1, <2>2, Zenon
<1>7. S \subseteq Handles
  BY <1>5, DeviceFacts DEF DeviceInv
<1>8. /\ c \in DeviceCalls(V) /\ c.pc = "free" /\ c.owned = S /\ c.got = devCalls[t].got
      /\ c.key = k /\ c.val = v
  BY <1>1, <1>2, <1>6, <1>7 DEF DeviceCalls
<1>9. \A u \in Threads : devCalls'[u] = IF u = t THEN c ELSE devCalls[u]
  BY <1>6 DEF DeviceInv, DeviceTypes
<1>10. PICK e : e = [handle |-> h, val |-> v]
  OBVIOUS
<1>11. devEntries' = [j \in DOMAIN devEntries \cup {k} |-> IF j = k THEN e ELSE devEntries[j]]
  BY <1>2, <1>10 DEF Device!Insert, Device!With
<1>12. devBuffers' = devBuffers /\ devLost' = devLost /\ devAlive' = devAlive /\ devNext' = devNext
  BY DEF Device!Insert
<1>13. e \in [handle : Handles, val : V] /\ e.handle = h /\ e.val = v
  BY <1>3, <1>10
<1>14. DeviceTypes(V)'
  BY <1>3, <1>6, <1>8, <1>11, <1>12, <1>13 DEF DeviceInv, DeviceTypes, IsMap
<1>15. BufferOwners'
  <2>1. BufferOwners
    BY DEF DeviceInv
  <2>2. \A u \in Threads : devCalls'[u].owned = IF u = t THEN S ELSE devCalls[u].owned
    BY <1>8, <1>9
  <2>3. S \subseteq DOMAIN devBuffers \ devLost /\ h \notin S
    BY <1>3, <1>5, <2>1 DEF BufferOwners
  <2>4. \A u \in Threads : S \cap devCalls[u].owned = {} /\ (u # t => h \notin devCalls[u].owned)
    BY <1>3, <1>5, <2>1 DEF BufferOwners
  <2>5. /\ DOMAIN devEntries' = DOMAIN devEntries \cup {k} /\ devEntries'[k].handle = h
        /\ \A j \in DOMAIN devEntries : j # k => devEntries'[j] = devEntries[j]
    BY <1>11, <1>13
  <2>6. \A j \in DOMAIN devEntries : devEntries[j].handle # h /\ (j # k => devEntries[j].handle \notin S)
    BY <1>3, <1>5, <2>1 DEF BufferOwners
  <2>7. \A j \in DOMAIN devBuffers \ devLost :
          (\E u \in Threads : j \in devCalls'[u].owned) \/ (\E i \in DOMAIN devEntries' : devEntries'[i].handle = j)
    <3> SUFFICES ASSUME NEW j \in DOMAIN devBuffers \ devLost
                 PROVE  (\E u \in Threads : j \in devCalls'[u].owned) \/ (\E i \in DOMAIN devEntries' : devEntries'[i].handle = j)
      OBVIOUS
    <3>1. CASE j = h
      BY <2>5, <3>1
    <3>2. CASE \E u \in Threads : u # t /\ j \in devCalls[u].owned
      BY <2>2, <3>2
    <3>3. CASE j \in S
      BY <2>2, <3>3
    <3>4. CASE \E i \in DOMAIN devEntries : i # k /\ devEntries[i].handle = j
      BY <2>5, <3>4
    <3>5. QED
      BY <1>3, <1>5, <2>1, <3>1, <3>2, <3>3, <3>4 DEF BufferOwners
  <2>8. QED
    BY <1>3, <1>12, <2>1, <2>2, <2>3, <2>4, <2>5, <2>6, <2>7 DEF BufferOwners
<1>16. \A u \in Threads : CallAt(V, devCalls[u])'
  BY <1>1, <1>8, <1>9, <1>12 DEF DeviceInv, CallAt
<1>17. Filled' /\ Released'
  BY <1>1, <1>3, <1>11, <1>12, <1>13 DEF DeviceInv, Filled, Released
<1>18. R = FALSE => ReadsHeld'
  <2>1. R = FALSE => ReadAt(c)
    BY <1>2, <1>8 DEF DeviceInv, ReadsHeld, ReadAt
  <2>2. QED
    BY <1>8, <1>9, <1>12, <2>1, ReadsKept DEF DeviceInv
<1>19. QED
  BY <1>14, <1>15, <1>16, <1>17, <1>18 DEF DeviceInv

\* A call gives up a buffer: it is freed, or lost.
LEMMA GiveUp ==
    ASSUME NEW V, NEW R, DeviceInv(V, R), NEW t \in Threads, devCalls[t].pc = "free",
           NEW h, h \in devCalls[t].owned,
           NEW S, S = devCalls[t].owned \ {h},
           NEW c \in DeviceCalls(V), c.pc = "free", c.owned = S, c.got = devCalls[t].got,
           c.key = devCalls[t].key, c.val = devCalls[t].val,
           devCalls' = [devCalls EXCEPT ![t] = c],
           devEntries' = devEntries, devAlive' = devAlive, devNext' = devNext,
           \/ devBuffers' = [j \in DOMAIN devBuffers \ {h} |-> devBuffers[j]] /\ devLost' = devLost
           \/ devBuffers' = devBuffers /\ devLost' = devLost \cup {h}
    PROVE  DeviceInv(V, R)'
<1>1. devCalls[t] \in DeviceCalls(V) /\ CallAt(V, devCalls[t]) /\ devAlive
  BY DeviceFacts DEF DeviceInv, CallAt
<1>2. \A u \in Threads : devCalls'[u] = IF u = t THEN c ELSE devCalls[u]
  BY DEF DeviceInv, DeviceTypes
<1>3. /\ DOMAIN devBuffers' \ devLost' = (DOMAIN devBuffers \ devLost) \ {h}
      /\ DOMAIN devBuffers' \subseteq DOMAIN devBuffers
      /\ \A j \in DOMAIN devBuffers' : devBuffers'[j] = devBuffers[j]
      /\ devLost' \subseteq DOMAIN devBuffers'
  BY DEF DeviceInv, DeviceTypes, BufferOwners
<1>4. DeviceTypes(V)'
  <2>1. IsMap(devBuffers', Handles, Contents(V))
    BY DEF DeviceInv, DeviceTypes, IsMap
  <2>2. QED
    BY <1>3, <2>1 DEF DeviceInv, DeviceTypes
<1>5. BufferOwners'
  <2>1. BufferOwners
    BY DEF DeviceInv
  <2>2. \A u \in Threads : devCalls'[u].owned = IF u = t THEN S ELSE devCalls[u].owned
    BY <1>2
  <2>3. \A u \in Threads : u # t => h \notin devCalls[u].owned
    BY <2>1 DEF BufferOwners
  <2>4. \A k \in DOMAIN devEntries : devEntries[k].handle # h
    BY <2>1 DEF BufferOwners
  <2>5. \A u \in Threads : devCalls'[u].owned \subseteq DOMAIN devBuffers' \ devLost'
    BY <1>2, <1>3, <2>1, <2>2, <2>3 DEF BufferOwners
  <2>6. \A k \in DOMAIN devEntries : devEntries[k].handle \in DOMAIN devBuffers' \ devLost'
    BY <1>3, <2>1, <2>4 DEF BufferOwners
  <2>7. \A j \in DOMAIN devBuffers' \ devLost' :
          (\E u \in Threads : j \in devCalls'[u].owned) \/ (\E k \in DOMAIN devEntries : devEntries[k].handle = j)
    BY <1>2, <1>3, <2>1, <2>2 DEF BufferOwners
  <2>8. \A u, w \in Threads : u # w => devCalls'[u].owned \cap devCalls'[w].owned = {}
    BY <1>2, <2>1, <2>2 DEF BufferOwners
  <2>9. \A u \in Threads, k \in DOMAIN devEntries : devEntries[k].handle \notin devCalls'[u].owned
    BY <1>2, <2>1, <2>2 DEF BufferOwners
  <2>10. QED
    BY <2>1, <2>5, <2>6, <2>7, <2>8, <2>9 DEF BufferOwners
<1>6. \A u \in Threads : CallAt(V, devCalls[u])'
  <2> SUFFICES ASSUME NEW u \in Threads PROVE CallAt(V, devCalls[u])'
    OBVIOUS
  <2>1. CASE u = t
    BY <1>1, <1>2, <2>1 DEF CallAt
  <2>2. CASE u # t
    <3>1. devCalls'[u] = devCalls[u] /\ CallAt(V, devCalls[u]) /\ h \notin devCalls[u].owned
      BY <1>2, <2>2 DEF DeviceInv, BufferOwners
    <3>2. devCalls[u].pc = "insert" => devCalls[u].handle \in DOMAIN devBuffers'
      BY <1>3, <3>1 DEF DeviceInv, BufferOwners, CallAt
    <3>3. QED
      BY <1>3, <3>1, <3>2 DEF CallAt
  <2>3. QED
    BY <2>1, <2>2
<1>7. Filled' /\ Released'
  <2>1. \A k \in DOMAIN devEntries : devEntries[k].handle \in DOMAIN devBuffers'
    BY <1>3, <1>5 DEF BufferOwners
  <2>2. QED
    BY <1>1, <1>3, <2>1 DEF DeviceInv, Filled, Released
<1>8. R = FALSE => ReadsHeld'
  <2>1. R = FALSE => ReadAt(c)
    BY DEF DeviceInv, ReadsHeld, ReadAt
  <2>2. QED
    BY <1>2, <1>3, <2>1, ReadsKept DEF DeviceInv
<1>9. QED
  BY <1>4, <1>5, <1>6, <1>7, <1>8 DEF DeviceInv

\* Free: one of the call's buffers goes back, or is lost when the call fails.
LEMMA FreeSteps ==
    ASSUME NEW V, NEW R, NEW M, NEW t \in Threads, DeviceInv(V, R),
           Device(V, R, M)!FreeBuffer(t) \/ Device(V, R, M)!FreeFails(t)
    PROVE  DeviceInv(V, R)'
<1>1. PICK h : /\ h \in devCalls[t].owned
               /\ Device(V, R, M)!Becomes(t, [devCalls[t] EXCEPT !.owned = devCalls[t].owned \ {h}])
               /\ \/ devBuffers' = Device(V, R, M)!Without(devBuffers, {h}) /\ devLost' = devLost
                  \/ devBuffers' = devBuffers /\ devLost' = devLost \cup {h}
  <2>1. CASE Device(V, R, M)!FreeBuffer(t)
    BY <2>1 DEF Device!FreeBuffer
  <2>2. CASE Device(V, R, M)!FreeFails(t)
    BY <2>2 DEF Device!FreeFails
  <2>3. QED
    BY <2>1, <2>2
<1>2. /\ devCalls[t].pc = "free" /\ devEntries' = devEntries /\ devAlive' = devAlive
      /\ devNext' = devNext
  BY DEF Device!FreeBuffer, Device!FreeFails
<1>3. devCalls' = [devCalls EXCEPT ![t] = [devCalls[t] EXCEPT !.owned = devCalls[t].owned \ {h}]]
  <2>1. Device(V, R, M)!Becomes(t, [devCalls[t] EXCEPT !.owned = devCalls[t].owned \ {h}])
    BY <1>1
  <2>2. QED
    BY <2>1, Zenon DEF Device!Becomes
<1>4. \/ devBuffers' = [j \in DOMAIN devBuffers \ {h} |-> devBuffers[j]] /\ devLost' = devLost
      \/ devBuffers' = devBuffers /\ devLost' = devLost \cup {h}
  <2>1. \/ devBuffers' = Device(V, R, M)!Without(devBuffers, {h}) /\ devLost' = devLost
        \/ devBuffers' = devBuffers /\ devLost' = devLost \cup {h}
    BY <1>1
  <2>2. QED
    BY <2>1, Zenon DEF Device!Without
<1>5. h \in devCalls[t].owned
  BY <1>1
<1>6. devCalls[t] \in DeviceCalls(V)
  BY DeviceFacts DEF DeviceInv
<1>7. PICK S, c :
        /\ S = devCalls[t].owned \ {h} /\ devCalls' = [devCalls EXCEPT ![t] = c]
        /\ c = [pc |-> "free", key |-> devCalls[t].key, val |-> devCalls[t].val,
                handle |-> devCalls[t].handle, owned |-> S, got |-> devCalls[t].got]
  <2>1. PICK S : S = devCalls[t].owned \ {h}
    OBVIOUS
  <2>2. [devCalls[t] EXCEPT !.owned = S]
          = [pc |-> devCalls[t].pc, key |-> devCalls[t].key, val |-> devCalls[t].val,
             handle |-> devCalls[t].handle, owned |-> S, got |-> devCalls[t].got]
    BY <1>6, CallWritten, Zenon
  <2>3. QED
    BY <1>2, <1>3, <2>1, <2>2, Zenon
<1>8. /\ c \in DeviceCalls(V) /\ c.pc = "free" /\ c.owned = S /\ c.got = devCalls[t].got
      /\ c.key = devCalls[t].key /\ c.val = devCalls[t].val
  BY <1>6, <1>7 DEF DeviceCalls
<1>9. S = devCalls[t].owned \ {h} /\ devCalls' = [devCalls EXCEPT ![t] = c]
  BY <1>7
<1>10. QED
  BY <1>2, <1>4, <1>5, <1>8, <1>9, GiveUp

\* The drop of the tier.
LEMMA DropStep ==
    ASSUME NEW V, NEW R, NEW M, DeviceInv(V, R), Device(V, R, M)!Drop
    PROVE  DeviceInv(V, R)'
<1>1. \A t \in Threads : devCalls[t].pc \in {"idle", "done"} /\ devCalls[t].owned = {}
  BY DEF DeviceInv, CallAt, Device!Drop, Device!Ready
<1>2. PICK owned, failed :
        /\ \A h : h \in owned <=> \E k \in DOMAIN devEntries : h = devEntries[k].handle
        /\ failed \subseteq owned
        /\ devBuffers' = [j \in DOMAIN devBuffers \ (owned \ failed) |-> devBuffers[j]]
        /\ devLost' = devLost \cup failed
  BY DEF Device!Drop, Device!Without
<1>3. /\ devCalls' = devCalls /\ devNext' = devNext /\ devAlive' = FALSE
      /\ DOMAIN devEntries' = {} /\ devEntries' \in [{} -> [handle : Handles, val : V]]
  BY DEF Device!Drop, Device!NoEntries
<1>4. owned \subseteq DOMAIN devBuffers \ devLost /\ DOMAIN devBuffers \ devLost \subseteq owned
  BY <1>1, <1>2 DEF DeviceInv, BufferOwners
<1>5. /\ DOMAIN devBuffers' \subseteq DOMAIN devBuffers /\ DOMAIN devBuffers' \subseteq devLost'
      /\ devLost' \subseteq DOMAIN devBuffers'
      /\ \A j \in DOMAIN devBuffers' : devBuffers'[j] = devBuffers[j]
  BY <1>2, <1>4 DEF DeviceInv, DeviceTypes
<1>6. DeviceTypes(V)'
  <2>1. IsMap(devBuffers', Handles, Contents(V))
    BY <1>2 DEF DeviceInv, DeviceTypes, IsMap
  <2>2. QED
    BY <1>3, <1>5, <2>1 DEF DeviceInv, DeviceTypes, IsMap
<1>7. BufferOwners'
  BY <1>1, <1>3, <1>5 DEF BufferOwners
<1>8. \A u \in Threads : CallAt(V, devCalls[u])'
  BY <1>1, <1>3 DEF CallAt
<1>9. Filled' /\ Released'
  BY <1>3 DEF Filled, Released
<1>10. R = FALSE => ReadsHeld'
  BY <1>3, <1>5 DEF DeviceInv, ReadsHeld, ReadAt
<1>11. QED
  BY <1>6, <1>7, <1>8, <1>9, <1>10 DEF DeviceInv

\* Every step of a tier over memory, with handles that come back or not, keeps the invariant.
LEMMA NextDevice ==
    ASSUME NEW V, NEW R \in BOOLEAN, NEW M, DeviceInv(V, R),
           Device(V, R, M)!Next \/ UNCHANGED devVars
    PROVE  DeviceInv(V, R)'
<1>1. CASE UNCHANGED devVars
  <2>1. /\ devBuffers' = devBuffers /\ devNext' = devNext /\ devEntries' = devEntries
        /\ devCalls' = devCalls /\ devLost' = devLost /\ devAlive' = devAlive
    BY <1>1 DEF devVars
  <2>2. DeviceTypes(V)' /\ BufferOwners' /\ Filled' /\ Released'
    BY <2>1 DEF DeviceInv, DeviceTypes, IsMap, BufferOwners, Filled, Released
  <2>3. \A t \in Threads : CallAt(V, devCalls[t])'
    BY <2>1 DEF DeviceInv, CallAt
  <2>4. R = FALSE => ReadsHeld'
    BY <2>1 DEF DeviceInv, ReadsHeld, ReadAt
  <2>5. QED
    BY <2>2, <2>3, <2>4 DEF DeviceInv
<1>2. CASE Device(V, R, M)!Next
  <2>1. CASE \E t \in Threads, k \in Keys, v \in V : Device(V, R, M)!Allocate(t, k, v)
    BY <2>1, AllocateStep
  <2>2. CASE \E t \in Threads, k \in Keys : Device(V, R, M)!Lookup(t, k) \/ Device(V, R, M)!Remove(t, k)
    BY <2>2, LookupStep, RemoveSteps
  <2>3. ASSUME NEW t \in Threads,
               \/ Device(V, R, M)!Download(t) \/ Device(V, R, M)!DownloadFails(t)
               \/ Device(V, R, M)!AllocateFails(t) \/ Device(V, R, M)!Upload(t)
               \/ Device(V, R, M)!UploadFails(t) \/ Device(V, R, M)!Insert(t)
               \/ Device(V, R, M)!Clear(t) \/ Device(V, R, M)!FreeBuffer(t)
               \/ Device(V, R, M)!FreeFails(t) \/ Device(V, R, M)!Freed(t)
        PROVE  DeviceInv(V, R)'
    BY <2>3, DownloadStep, CallEnds, UploadStep, InsertStep, RemoveSteps, FreeSteps
  <2>4. CASE Device(V, R, M)!Drop
    BY <2>4, DropStep
  <2>5. QED
    BY <1>2, <2>1, <2>2, <2>3, <2>4 DEF Device!Next
<1>3. QED
  BY <1>1, <1>2

\* What the run's invariant asks, from the inductive invariant.
LEMMA DeviceSafe ==
    ASSUME NEW V, NEW R, NEW M, DeviceInv(V, R)
    PROVE  Device(V, R, M)!Safety /\ (R = FALSE => Device(V, R, M)!ReadsOwnBlock)
<1>1. Device(V, R, M)!TypeOK
  <2>1. IsMap(devBuffers, Handles, Device(V, R, M)!Blocks \cup {Device(V, R, M)!Zeros})
    BY DeviceNames DEF DeviceInv, DeviceTypes, Contents, Device!Blocks
  <2>2. Answers(V) = Device(V, R, M)!Blocks \cup {Device(V, R, M)!Zeros, Device(V, R, M)!NoBlock}
    BY DeviceNames DEF Answers, Contents, Device!Blocks
  <2>3. IsMap(devBuffers, Handles, Device(V, R, M)!Blocks \cup {Device(V, R, M)!Zeros})
          = Device(V, R, M)!IsMap(devBuffers, Handles, Device(V, R, M)!Blocks \cup {Device(V, R, M)!Zeros})
    BY Zenon DEF IsMap, Device!IsMap
  <2>4. Device(V, R, M)!IsMap(devEntries, Keys, [handle : Handles, val : V])
    BY DEF DeviceInv, DeviceTypes, IsMap, Device!IsMap
  <2>5. \A t \in Threads :
          /\ devCalls[t].pc \in {"idle", "download", "upload", "insert", "free", "done"}
          /\ devCalls[t].owned \subseteq Handles /\ devCalls[t].got \in Answers(V)
    BY DeviceFacts DEF DeviceInv, DeviceCalls
  <2>6. devLost \subseteq Handles /\ devAlive \in BOOLEAN
    BY DEF DeviceInv, DeviceTypes, IsMap
  <2>7. QED
    BY <2>1, <2>2, <2>3, <2>4, <2>5, <2>6, Zenon DEF Device!TypeOK
<1>2. Device(V, R, M)!BuffersOwned
  <2>1. \A h \in DOMAIN devBuffers \ devLost : \E x : Device(V, R, M)!Owners(h) = {x}
    <3> SUFFICES ASSUME NEW h \in DOMAIN devBuffers \ devLost
                 PROVE  \E x : Device(V, R, M)!Owners(h) = {x}
      OBVIOUS
    <3>1. CASE \E t \in Threads : h \in devCalls[t].owned
      <4>1. PICK t \in Threads : h \in devCalls[t].owned
        BY <3>1
      <4>2. \A u \in Threads : h \in devCalls[u].owned => u = t
        BY <4>1 DEF DeviceInv, BufferOwners
      <4>3. \A k \in DOMAIN devEntries : devEntries[k].handle # h
        BY <4>1 DEF DeviceInv, BufferOwners
      <4>4. Device(V, R, M)!Owners(h) = {t}
        BY <4>1, <4>2, <4>3 DEF Device!Owners
      <4>5. QED
        BY <4>4
    <3>2. CASE \E k \in DOMAIN devEntries : devEntries[k].handle = h
      <4>1. PICK k \in DOMAIN devEntries : devEntries[k].handle = h
        BY <3>2
      <4>2. \A j \in DOMAIN devEntries : devEntries[j].handle = h => j = k
        BY <4>1 DEF DeviceInv, BufferOwners
      <4>3. \A u \in Threads : h \notin devCalls[u].owned
        BY <4>1 DEF DeviceInv, BufferOwners
      <4>4. Device(V, R, M)!Owners(h) = {k}
        BY <4>1, <4>2, <4>3 DEF Device!Owners
      <4>5. QED
        BY <4>4
    <3>3. QED
      BY <3>1, <3>2 DEF DeviceInv, BufferOwners
  <2>2. \A h \in DOMAIN devBuffers \ devLost : Cardinality(Device(V, R, M)!Owners(h)) = 1
    BY <2>1, FS_Singleton
  <2>3. \A h \in Handles \ DOMAIN devBuffers : Device(V, R, M)!Owners(h) = {}
    BY DEF DeviceInv, BufferOwners, Device!Owners
  <2>4. QED
    BY <2>2, <2>3 DEF Device!BuffersOwned, Device!Cardinality, Cardinality
<1>3. Device(V, R, M)!EntriesFilled
  BY DEF DeviceInv, BufferOwners, Filled, Device!EntriesFilled
<1>4. Device(V, R, M)!DropReleases
  BY DEF DeviceInv, BufferOwners, Released, CallAt, Device!DropReleases
<1>5. R = FALSE => Device(V, R, M)!ReadsOwnBlock
  BY DeviceNames DEF DeviceInv, ReadsHeld, ReadAt, Device!ReadsOwnBlock
<1>6. QED
  BY <1>1, <1>2, <1>3, <1>4, <1>5 DEF Device!Safety

\* The invariant of whichever memory the behaviour's tier stores its blocks in.
DeviceOfPart ==
    /\ part = "device" => DeviceInv(HostValues, FALSE)
    /\ part = "device ffi" => DeviceInv(FfiValues, TRUE)

\* Each device buffer has one owner through failing callbacks, removals and the drop,
\* every entry names the buffer with its bytes, and where no handle comes back a get
\* answers with the entry it looked up.
THEOREM DeviceKvTierAlwaysSafe == MCSpec => []DeviceKvTierSafe
<1>1. MCInit => DeviceOfPart
  BY InitDevice DEF MCInit, DeviceOfPart
<1>2. DeviceOfPart /\ [MCNext]_mcVars => DeviceOfPart'
  <2> SUFFICES ASSUME DeviceOfPart, [MCNext]_mcVars PROVE DeviceOfPart'
    OBVIOUS
  <2>1. part' = part
    BY DEF MCNext, Still, mcVars
  <2>2. ASSUME part = "device" PROVE DeviceInv(HostValues, FALSE)'
    <3>1. Device(HostValues, FALSE, 0)!Next \/ UNCHANGED devVars
      BY <2>2 DEF MCNext, Still, mcVars
    <3>2. DeviceInv(HostValues, FALSE)
      BY <2>2 DEF DeviceOfPart
    <3>3. QED
      BY <3>1, <3>2, NextDevice
  <2>3. ASSUME part = "device ffi" PROVE DeviceInv(FfiValues, TRUE)'
    <3>1. Device(FfiValues, TRUE, MaxFfiErrors)!Next \/ UNCHANGED devVars
      BY <2>3 DEF MCNext, Still, mcVars
    <3>2. DeviceInv(FfiValues, TRUE)
      BY <2>3 DEF DeviceOfPart
    <3>3. QED
      BY <3>1, <3>2, NextDevice
  <2>4. QED
    BY <2>1, <2>2, <2>3 DEF DeviceOfPart
<1>3. DeviceOfPart => DeviceKvTierSafe
  BY DeviceSafe DEF DeviceOfPart, DeviceKvTierSafe
<1>4. QED
  BY <1>1, <1>2, <1>3, PTL DEF MCSpec

-----------------------------------------------------------------------------
(* HipDeviceMemory, for any callers, addresses, sizes and ranges: buffers  *)
(* are shared, and used while they are freed and after.                    *)

HipBuffers == [handle : Addresses, len : Nat, serial : Nat]
HipParts == [buf : HipBuffers, off : Nat, bytes : Nat]
HipCalls ==
    [pc : {"idle", "insert", "undo", "memcpy", "hipfree", "unregister", "validate", "regfile",
           "regbuf", "move", "deregbuf", "deregfile"},
     op : {"none", "allocate", "transfer", "free", "copy", "file"}, parts : Seq(HipParts),
     checked : Nat, moved : {"all", "some", "none"}, res : {"none", "ok", "error"},
     raced : SUBSET Addresses]

HipLives == [len : BufferSizes, serial : 1..MaxAllocs]
HipHeld == [handle : Addresses, len : BufferSizes, serial : 1..MaxAllocs]

HipTypes ==
    /\ IsMap(hipLive, Addresses, HipLives)
    /\ IsMap(hipRegistry, Addresses, BufferSizes)
    /\ hipKnown \subseteq HipHeld /\ hipHeld \subseteq hipKnown
    /\ hipCalls \in [Callers -> HipCalls]
    /\ hipFilereg \subseteq Callers /\ hipBufreg \subseteq Callers
    /\ hipSerial \in Nat /\ hipErrors \in Nat /\ hipDoubled \in BOOLEAN

\* How many buffers a step is about, and which of them were validated.
HipShape(k) ==
    /\ k.pc \in {"insert", "undo", "hipfree", "unregister"} =>
         Len(k.parts) = 1 /\ k.parts[1].buf \in HipHeld
    /\ k.pc = "validate" => k.checked < Len(k.parts)

\* The operations each step belongs to.
StepsOf(k) ==
    /\ k.pc = "memcpy" => k.op \in {"transfer", "copy"}
    /\ k.pc \in {"insert", "undo"} => k.op = "allocate"
    /\ k.pc \in {"hipfree", "unregister"} => k.op = "free"
    /\ k.pc = "validate" => k.op \in {"copy", "file"}
    /\ k.pc \in {"regfile", "regbuf", "move", "deregbuf", "deregfile"} => k.op = "file"
    /\ (k.pc \in {"deregbuf", "deregfile"} \/ (k.pc = "idle" /\ k.op = "file")) /\ k.res = "ok"
         => k.moved = "all"

\* Where hipFile's registrations may be.
Registered(c, k) ==
    /\ c \in hipFilereg => k.pc \in {"regbuf", "move", "deregbuf", "deregfile"}
    /\ c \in hipBufreg => k.pc \in {"move", "deregbuf"} \/ hipErrors > 0
    /\ c \in hipBufreg /\ (k.pc = "deregfile" \/ (k.pc = "idle" /\ k.op = "file")) => k.res # "ok"

\* The buffer of a call that has one, and what the call is doing to it.
HipMine(c) == hipCalls[c].parts[1].buf
Pending(c) == hipCalls[c].pc \in {"insert", "undo"}
Freeing(c) == hipCalls[c].pc = "hipfree"
Leaving(c) == hipCalls[c].pc = "unregister"

\* A part that call c was validated to touch, no free of it having come in between.
Settled(c, p) ==
    /\ hipCalls[c].pc \in {"memcpy", "hipfree", "validate", "regfile", "regbuf", "move", "deregbuf"}
    /\ p.buf.handle \notin hipCalls[c].raced
    /\ \E i \in DOMAIN hipCalls[c].parts :
         /\ hipCalls[c].pc = "validate" => i <= hipCalls[c].checked
         /\ p = hipCalls[c].parts[i]

\* Nobody else allocates, or frees, what a call is allocating or freeing.
HipAlone ==
    \A c, d \in Callers : HipMine(c).handle = HipMine(d).handle =>
        /\ Pending(c) /\ Pending(d) => c = d
        /\ (Freeing(c) \/ Leaving(c)) /\ (Freeing(d) \/ Leaving(d)) => c = d

\* An entry is that of an allocation nobody is about to take back, or a free is about to
\* remove it.
EntriesLive ==
    \A h \in DOMAIN hipRegistry :
        \/ \E c \in Callers : Leaving(c) /\ HipMine(c).handle = h
        \/ /\ h \in DOMAIN hipLive /\ hipRegistry[h] = hipLive[h].len
           /\ \A c \in Callers : Pending(c) => HipMine(c).handle # h

PendingLive ==
    \A c \in Callers : Pending(c) =>
        /\ HipMine(c).handle \in DOMAIN hipLive
        /\ hipLive[HipMine(c).handle].len = HipMine(c).len
        /\ hipLive[HipMine(c).handle].serial = HipMine(c).serial

\* The entry of what is being freed stays until that free removes it.
FreeingRegistered ==
    \A c \in Callers : Freeing(c) \/ Leaving(c) => HipMine(c).handle \in DOMAIN hipRegistry

HeldLive ==
    \A b \in hipHeld :
        /\ b.handle \in DOMAIN hipRegistry /\ hipRegistry[b.handle] = b.len
        /\ b.handle \in DOMAIN hipLive /\ hipLive[b.handle].serial = b.serial
        /\ \A c \in Callers : Leaving(c) => HipMine(c).handle # b.handle

\* NothingForgotten, also of an entry that is about to be removed.
Remembered ==
    /\ \A a \in DOMAIN hipLive :
         \/ a \in DOMAIN hipRegistry
         \/ hipLive[a].serial \in hipLost
         \/ \E c \in Callers : Pending(c) /\ HipMine(c).handle = a
    /\ \A c \in Callers : Leaving(c) /\ HipMine(c).handle \in DOMAIN hipLive =>
         \/ hipLive[HipMine(c).handle].serial \in hipLost
         \/ \E d \in Callers : Pending(d) /\ HipMine(d).handle = HipMine(c).handle

\* A part lies in an allocation that nobody is about to take back.
PartLive(p) ==
    /\ p.buf.handle \in DOMAIN hipLive
    /\ p.off + p.bytes <= hipLive[p.buf.handle].len
    /\ \A d \in Callers : Pending(d) => HipMine(d).handle # p.buf.handle

SettledLive == \A c \in Callers : \A p \in HipParts : Settled(c, p) => PartLive(p)

HipAlways ==
    /\ HipTypes
    /\ \A c \in Callers :
         HipShape(hipCalls[c]) /\ StepsOf(hipCalls[c]) /\ Registered(c, hipCalls[c])

HipMemory ==
    /\ HipAlone /\ EntriesLive /\ PendingLive /\ FreeingRegistered /\ HeldLive
    /\ Remembered /\ SettledLive

\* The inductive invariant.
HipInv == HipAlways /\ (~hipDoubled => HipMemory)

\* What is assumed of HipDeviceMemory's parameters.
LEMMA HipConstants ==
    /\ IsFiniteSet(Addresses) /\ BufferSizes \subseteq Nat \ {0}
    /\ BufferRanges \subseteq Nat \X (Nat \ {0})
    /\ MaxAllocs \in Nat /\ MaxNativeErrors \in Nat
BY MCAssumption DEF Hip!HipAssumption, Hip!IsFiniteSet, IsFiniteSet

\* The empty sequence, and a sequence of one.
LEMMA HipLengths ==
    /\ <<>> \in Seq(HipParts)
    /\ \A q \in HipParts : <<q>> \in Seq(HipParts) /\ DOMAIN <<q>> = {1} /\ <<q>>[1] = q /\ Len(<<q>>) = 1
OBVIOUS

\* A call's record, by its fields.
CallOf(p, o, s, n, m, r, x) ==
    [pc |-> p, op |-> o, parts |-> s, checked |-> n, moved |-> m, res |-> r, raced |-> x]

LEMMA HipFields ==
    ASSUME NEW p, NEW o, NEW s, NEW n, NEW m, NEW r, NEW x, NEW y
    PROVE  \A k : k = CallOf(p, o, s, n, m, r, x) =>
               /\ k.pc = p /\ k.op = o /\ k.parts = s /\ k.checked = n /\ k.moved = m
               /\ k.res = r /\ k.raced = x
               /\ [k EXCEPT !.pc = y] = CallOf(y, o, s, n, m, r, x)
               /\ [k EXCEPT !.op = y] = CallOf(p, y, s, n, m, r, x)
               /\ [k EXCEPT !.checked = y] = CallOf(p, o, s, y, m, r, x)
               /\ [k EXCEPT !.moved = y] = CallOf(p, o, s, n, y, r, x)
               /\ [k EXCEPT !.res = y] = CallOf(p, o, s, n, m, y, x)
               /\ [k EXCEPT !.raced = y] = CallOf(p, o, s, n, m, r, y)
BY DEF CallOf

\* It is a call's if the fields are, and every call has one.
LEMMA HipWritten ==
    /\ \A p \in {"idle", "insert", "undo", "memcpy", "hipfree", "unregister", "validate", "regfile",
                 "regbuf", "move", "deregbuf", "deregfile"},
          o \in {"none", "allocate", "transfer", "free", "copy", "file"}, s \in Seq(HipParts),
          n \in Nat, m \in {"all", "some", "none"}, r \in {"none", "ok", "error"},
          x \in SUBSET Addresses :
            CallOf(p, o, s, n, m, r, x) \in HipCalls
    /\ \A k \in HipCalls :
         k = CallOf(k.pc, k.op, k.parts, k.checked, k.moved, k.res, k.raced)
<1>1. \A A, B, C, D, E, F, G : \A k \in [pc : A, op : B, parts : C, checked : D, moved : E, res : F, raced : G] :
         k = CallOf(k.pc, k.op, k.parts, k.checked, k.moved, k.res, k.raced)
  BY DEF CallOf
<1>2. QED
  BY <1>1 DEF HipCalls, CallOf

\* What the invariant says of one call.
LEMMA HipFacts ==
    ASSUME HipInv, NEW c \in Callers
    PROVE  /\ hipCalls[c] \in HipCalls
           /\ HipShape(hipCalls[c]) /\ StepsOf(hipCalls[c]) /\ Registered(c, hipCalls[c])
BY DEF HipInv, HipAlways, HipTypes

\* It holds initially.
LEMMA InitHip == Hip!Init => HipInv
<1> SUFFICES ASSUME Hip!Init PROVE HipInv
  OBVIOUS
<1>1. /\ hipLive = [k \in {} |-> k] /\ hipRegistry = [k \in {} |-> k]
      /\ hipKnown = {} /\ hipHeld = {} /\ hipCalls = [c \in Callers |-> Hip!Idle]
      /\ hipFilereg = {} /\ hipBufreg = {} /\ hipSerial = 0 /\ hipErrors = 0 /\ hipDoubled = FALSE
  BY DEF Hip!Init, Hip!NoEntries
<1>2. Hip!Idle = [pc |-> "idle", op |-> "none", parts |-> <<>>, checked |-> 0, moved |-> "none",
                  res |-> "none", raced |-> {}]
  BY DEF Hip!Idle, Hip!Call
<1>3. Hip!Idle \in HipCalls /\ Hip!Idle.pc = "idle" /\ Hip!Idle.op = "none" /\ Hip!Idle.res = "none"
  BY <1>2 DEF HipCalls
<1>4. HipTypes
  BY <1>1, <1>3 DEF HipTypes, IsMap
<1>5. \A c \in Callers : HipShape(hipCalls[c]) /\ StepsOf(hipCalls[c]) /\ Registered(c, hipCalls[c])
  BY <1>1, <1>3 DEF HipShape, StepsOf, Registered
<1>6. \A c \in Callers : ~Pending(c) /\ ~Freeing(c) /\ ~Leaving(c) /\ \A p : ~Settled(c, p)
  BY <1>1, <1>3 DEF Pending, Freeing, Leaving, Settled
<1>7. HipMemory
  BY <1>1, <1>6 DEF HipMemory, HipAlone, EntriesLive, PendingLive, FreeingRegistered, HeldLive,
     Remembered, SettledLive
<1>8. QED
  BY <1>4, <1>5, <1>7 DEF HipInv, HipAlways

\* A call that a step of another leaves where it is: it may only have become raced.
Same(k, l) ==
    /\ l.pc = k.pc /\ l.op = k.op /\ l.parts = k.parts /\ l.checked = k.checked
    /\ l.moved = k.moved /\ l.res = k.res
    /\ k.raced \subseteq l.raced

\* What a step of c that ends in k leaves to the others.
LEMMA HipOthers ==
    ASSUME NEW c \in Callers, hipCalls'[c] \in HipCalls,
           \A d \in Callers : d # c => Same(hipCalls[d], hipCalls'[d])
    PROVE  \A d \in Callers : d # c => /\ Pending(d)' <=> Pending(d)
                                       /\ Freeing(d)' <=> Freeing(d)
                                       /\ Leaving(d)' <=> Leaving(d)
                                       /\ HipMine(d)' = HipMine(d)
                                       /\ \A p : Settled(d, p)' => Settled(d, p)
<1> SUFFICES ASSUME NEW d \in Callers, d # c
             PROVE  /\ Pending(d)' <=> Pending(d)
                    /\ Freeing(d)' <=> Freeing(d)
                    /\ Leaving(d)' <=> Leaving(d)
                    /\ HipMine(d)' = HipMine(d)
                    /\ \A p : Settled(d, p)' => Settled(d, p)
  OBVIOUS
<1>1. Same(hipCalls[d], hipCalls'[d])
  OBVIOUS
<1>2. QED
  BY <1>1 DEF Same, Pending, Freeing, Leaving, HipMine, Settled

\* The part of the invariant that holds whatever is freed twice.
LEMMA HipKeeps ==
    ASSUME HipInv, hipCalls' \in [Callers -> HipCalls],
           IsMap(hipLive, Addresses, HipLives)', IsMap(hipRegistry, Addresses, BufferSizes)',
           hipKnown' \subseteq HipHeld, hipHeld' \subseteq hipKnown',
           hipFilereg' \subseteq Callers, hipBufreg' \subseteq Callers,
           hipSerial' \in Nat, hipErrors' \in Nat, hipErrors' >= hipErrors, hipDoubled' \in BOOLEAN,
           \A d \in Callers :
             \/ /\ HipShape(hipCalls'[d]) /\ StepsOf(hipCalls'[d])
                /\ Registered(d, hipCalls[d])'
             \/ /\ Same(hipCalls[d], hipCalls'[d])
                /\ d \in hipFilereg' => d \in hipFilereg
                /\ d \in hipBufreg' => d \in hipBufreg
    PROVE  HipAlways'
<1>1. HipTypes'
  BY DEF HipTypes
<1>2. \A d \in Callers : (HipShape(hipCalls[d]) /\ StepsOf(hipCalls[d]) /\ Registered(d, hipCalls[d]))'
  <2> SUFFICES ASSUME NEW d \in Callers, Same(hipCalls[d], hipCalls'[d]),
                      d \in hipFilereg' => d \in hipFilereg, d \in hipBufreg' => d \in hipBufreg
               PROVE  HipShape(hipCalls'[d]) /\ StepsOf(hipCalls'[d]) /\ Registered(d, hipCalls[d])'
    OBVIOUS
  <2>1. HipShape(hipCalls[d]) /\ StepsOf(hipCalls[d]) /\ Registered(d, hipCalls[d]) /\ hipErrors \in Nat
    BY HipFacts DEF HipInv, HipAlways, HipTypes
  <2>2. HipShape(hipCalls'[d])
    BY <2>1 DEF Same, HipShape
  <2>3. StepsOf(hipCalls'[d])
    BY <2>1 DEF Same, StepsOf
  <2>4. Registered(d, hipCalls[d])'
    BY <2>1 DEF Same, Registered
  <2>5. QED
    BY <2>2, <2>3, <2>4
<1>3. QED
  BY <1>1, <1>2 DEF HipAlways

\* The same, for a step of c that changes no map.
LEMMA HipCallKeeps ==
    ASSUME HipInv, NEW c \in Callers, NEW k \in HipCalls, hipCalls' = [hipCalls EXCEPT ![c] = k],
           IsMap(hipLive, Addresses, HipLives)', IsMap(hipRegistry, Addresses, BufferSizes)',
           hipKnown' \subseteq HipHeld, hipHeld' \subseteq hipKnown',
           hipSerial' \in {hipSerial, hipSerial + 1}, hipErrors' \in {hipErrors, hipErrors + 1},
           hipDoubled' \in BOOLEAN,
           hipFilereg' \in {hipFilereg, hipFilereg \cup {c}, hipFilereg \ {c}},
           hipBufreg' \in {hipBufreg, hipBufreg \cup {c}, hipBufreg \ {c}},
           HipShape(k), StepsOf(k), Registered(c, k)'
    PROVE  /\ HipAlways'
           /\ hipCalls'[c] = k
           /\ \A d \in Callers : d # c => hipCalls'[d] = hipCalls[d] /\ Same(hipCalls[d], hipCalls'[d])
<1>1. /\ hipCalls \in [Callers -> HipCalls] /\ hipSerial \in Nat /\ hipErrors \in Nat
      /\ hipFilereg \subseteq Callers /\ hipBufreg \subseteq Callers
  BY DEF HipInv, HipAlways, HipTypes
<1>2. /\ hipCalls' \in [Callers -> HipCalls] /\ hipCalls'[c] = k
      /\ \A d \in Callers : d # c => hipCalls'[d] = hipCalls[d]
  BY <1>1
<1>3. \A d \in Callers : d # c => Same(hipCalls[d], hipCalls'[d])
  BY <1>2 DEF Same
<1>4. /\ hipFilereg' \subseteq Callers /\ hipBufreg' \subseteq Callers
      /\ hipSerial' \in Nat /\ hipErrors' \in Nat /\ hipErrors' >= hipErrors
  BY <1>1
<1>5. Registered(c, hipCalls[c])'
  BY <1>2 DEF Registered
<1>6. \A d \in Callers :
        \/ /\ HipShape(hipCalls'[d]) /\ StepsOf(hipCalls'[d]) /\ Registered(d, hipCalls[d])'
        \/ /\ Same(hipCalls[d], hipCalls'[d])
           /\ d \in hipFilereg' => d \in hipFilereg
           /\ d \in hipBufreg' => d \in hipBufreg
  <2> SUFFICES ASSUME NEW d \in Callers
               PROVE  \/ /\ HipShape(hipCalls'[d]) /\ StepsOf(hipCalls'[d]) /\ Registered(d, hipCalls[d])'
                      \/ /\ Same(hipCalls[d], hipCalls'[d])
                         /\ d \in hipFilereg' => d \in hipFilereg
                         /\ d \in hipBufreg' => d \in hipBufreg
    OBVIOUS
  <2>1. CASE d = c
    BY <1>2, <1>5, <2>1
  <2>2. CASE d # c
    BY <1>3, <2>2
  <2>3. QED
    BY <2>1, <2>2
<1>7. QED
  BY <1>2, <1>3, <1>4, <1>6, HipKeeps

\* A step of c that touches no memory and begins no allocation or free.
LEMMA HipMoves ==
    ASSUME HipInv, NEW c \in Callers, NEW k \in HipCalls,
           hipCalls' = [hipCalls EXCEPT ![c] = k],
           hipLive' = hipLive, hipRegistry' = hipRegistry, hipKnown' = hipKnown,
           hipHeld' = hipHeld, hipSerial' = hipSerial, hipLost' = hipLost,
           hipDoubled' = hipDoubled,
           ~Pending(c), ~Leaving(c), k.pc \notin {"insert", "undo", "hipfree", "unregister"},
           hipErrors' \in {hipErrors, hipErrors + 1},
           hipFilereg' \in {hipFilereg, hipFilereg \cup {c}, hipFilereg \ {c}},
           hipBufreg' \in {hipBufreg, hipBufreg \cup {c}, hipBufreg \ {c}},
           HipShape(k), StepsOf(k), Registered(c, k)',
           HipMemory => \A p \in HipParts : Settled(c, p)' => PartLive(p)
    PROVE  HipInv'
<1>1. /\ HipAlways' /\ hipCalls'[c] = k
      /\ \A d \in Callers : d # c => Same(hipCalls[d], hipCalls'[d])
  <2>1. /\ hipKnown' \subseteq HipHeld /\ hipHeld' \subseteq hipKnown' /\ hipDoubled' \in BOOLEAN
        /\ IsMap(hipLive, Addresses, HipLives)' /\ IsMap(hipRegistry, Addresses, BufferSizes)'
    BY DEF HipInv, HipAlways, HipTypes, IsMap
  <2>2. QED
    BY <2>1, HipCallKeeps
<1>2. SUFFICES ASSUME HipMemory PROVE HipMemory'
  BY <1>1 DEF HipInv
<1>3. /\ ~Pending(c)' /\ ~Freeing(c)' /\ ~Leaving(c)'
      /\ \A d \in Callers : d # c => /\ Pending(d)' <=> Pending(d)
                                     /\ Freeing(d)' <=> Freeing(d)
                                     /\ Leaving(d)' <=> Leaving(d)
                                     /\ HipMine(d)' = HipMine(d)
                                     /\ \A p : Settled(d, p)' => Settled(d, p)
  BY <1>1, HipOthers DEF Pending, Freeing, Leaving
<1>4. \A d \in Callers : /\ Pending(d)' <=> Pending(d)
                         /\ Leaving(d)' <=> Leaving(d)
                         /\ Freeing(d)' => Freeing(d)
                         /\ Pending(d) \/ Leaving(d) \/ Freeing(d)' => HipMine(d)' = HipMine(d)
  BY <1>3
<1>5. HipAlone'
  BY <1>2, <1>4 DEF HipMemory, HipAlone
<1>6. EntriesLive' /\ PendingLive' /\ FreeingRegistered' /\ HeldLive'
  BY <1>2, <1>4 DEF HipMemory, EntriesLive, PendingLive, FreeingRegistered, HeldLive
<1>7. Remembered'
  BY <1>2, <1>4 DEF HipMemory, Remembered
<1>8. SettledLive'
  <2> SUFFICES ASSUME NEW d \in Callers, NEW p \in HipParts, Settled(d, p)'
               PROVE  PartLive(p)'
    BY DEF SettledLive
  <2>1. PartLive(p)
    BY <1>2, <1>3 DEF HipMemory, SettledLive
  <2>2. QED
    BY <1>4, <2>1 DEF PartLive
<1>9. QED
  BY <1>5, <1>6, <1>7, <1>8 DEF HipMemory

\* A part of a buffer that was given out has the types of one.
LEMMA PartTyped ==
    ASSUME NEW b \in HipHeld, NEW n \in Nat, NEW off \in Nat, NEW m \in Nat
    PROVE  /\ b \in HipBuffers /\ [b EXCEPT !.len = n] \in HipBuffers
           /\ \A d \in HipBuffers : Hip!Part(d, off, m) \in HipParts
           /\ Hip!Whole(b) \in HipParts
BY HipConstants DEF HipHeld, HipBuffers, HipParts, Hip!Part, Hip!Whole

\* A call that has returned.
LEMMA HipIdle ==
    /\ Hip!Idle \in HipCalls /\ Hip!Idle.pc = "idle" /\ Hip!Idle.op = "none"
    /\ HipShape(Hip!Idle) /\ StepsOf(Hip!Idle)
<1>1. Hip!Idle = CallOf("idle", "none", <<>>, 0, "none", "none", {})
  BY Zenon DEF Hip!Idle, Hip!Call, CallOf
<1>2. Hip!Idle \in HipCalls
  BY <1>1, HipWritten, HipLengths
<1>3. Hip!Idle.pc = "idle" /\ Hip!Idle.op = "none"
  BY <1>1, HipFields
<1>4. QED
  BY <1>2, <1>3 DEF HipShape, StepsOf

\* The answer of a file transfer.
LEMMA HipFileAnswer ==
    ASSUME NEW m, NEW r
    PROVE  [Hip!Idle EXCEPT !.op = "file", !.moved = m, !.res = r]
             = CallOf("idle", "file", <<>>, 0, m, r, {})
<1>1. Hip!Idle = CallOf("idle", "none", <<>>, 0, "none", "none", {})
  BY Zenon DEF Hip!Idle, Hip!Call, CallOf
<1>2. PICK p, o, o2, s, n, x :
        p = "idle" /\ o = "none" /\ o2 = "file" /\ s = <<>> /\ n = 0 /\ x = {}
  OBVIOUS
<1>3. PICK k, i, j, l : /\ k = CallOf(p, o, s, n, o, o, x) /\ i = CallOf(p, o2, s, n, o, o, x)
                        /\ j = CallOf(p, o2, s, n, m, o, x) /\ l = CallOf(p, o2, s, n, m, r, x)
  OBVIOUS
<1>4. [k EXCEPT !.op = o2] = i
  BY <1>3 DEF CallOf
<1>5. [i EXCEPT !.moved = m] = j
  BY <1>3 DEF CallOf
<1>6. [j EXCEPT !.res = r] = l
  BY <1>3 DEF CallOf
<1>7. Hip!Idle = k /\ l = CallOf("idle", "file", <<>>, 0, m, r, {})
  BY <1>1, <1>2, <1>3, Zenon
<1>8. [k EXCEPT !.op = "file", !.moved = m, !.res = r] = l
  BY <1>2, <1>4, <1>5, <1>6, Zenon
<1>9. QED
  BY <1>7, <1>8, Zenon

\* transfer: what was validated is live unless a free is about to remove its entry.
LEMMA TransferStep ==
    ASSUME HipInv, NEW c \in Callers, NEW b \in hipKnown, Hip!Transfer(c, b)
    PROVE  HipInv'
<1>1. /\ b \in HipHeld /\ hipCalls[c].pc = "idle" /\ b.handle \in Addresses
      /\ b.len \in BufferSizes /\ b.len \in Nat
  BY HipConstants DEF Hip!Transfer, Hip!Ready, HipInv, HipAlways, HipTypes, HipHeld
<1>2. PICK q, x : q = Hip!Whole(b) /\ x = Hip!Leaving \cap {b.handle}
  OBVIOUS
<1>3. /\ q \in HipParts /\ q.buf = b /\ q.off = 0 /\ q.bytes = b.len
  BY <1>1, <1>2, PartTyped DEF Hip!Whole, Hip!Part
<1>4. /\ x \in SUBSET Addresses
      /\ b.handle \notin x => \A d \in Callers : Leaving(d) => HipMine(d).handle # b.handle
  BY <1>1, <1>2 DEF Hip!Leaving, Leaving, HipMine, Hip!Mine
<1>5. /\ hipLive' = hipLive /\ hipRegistry' = hipRegistry /\ hipHeld' = hipHeld /\ hipKnown' = hipKnown
      /\ hipSerial' = hipSerial /\ hipLost' = hipLost /\ hipErrors' = hipErrors
      /\ hipFilereg' = hipFilereg /\ hipBufreg' = hipBufreg /\ hipDoubled' = hipDoubled
  BY DEF Hip!Transfer, Hip!mem, Hip!hipfile
<1>6. ~Pending(c) /\ ~Leaving(c)
  BY <1>1 DEF Pending, Leaving
<1>7. CASE ~Hip!Validated(b)
  <2>1. hipCalls' = [hipCalls EXCEPT ![c] = Hip!Idle]
    BY <1>7 DEF Hip!Transfer, Hip!Becomes
  <2>2. hipCalls'[c] = Hip!Idle
    BY <2>1 DEF HipInv, HipAlways, HipTypes
  <2>3. \A p : ~Settled(c, p)'
    BY <2>2, HipIdle DEF Settled
  <2>4. Registered(c, Hip!Idle)'
    BY <1>1, <1>5, HipFacts, HipIdle DEF Registered
  <2>5. QED
    BY <1>5, <1>6, <2>1, <2>3, <2>4, HipIdle, HipMoves
<1>8. CASE Hip!Validated(b)
  <2>1. PICK ps \in Seq(HipParts) : ps = <<q>>
    BY <1>3, HipLengths
  <2>2. PICK k : /\ hipCalls' = [hipCalls EXCEPT ![c] = k]
                 /\ k = [pc |-> "memcpy", op |-> "transfer", parts |-> ps, checked |-> 0,
                         moved |-> "none", res |-> "none", raced |-> x]
    BY <1>2, <1>8, <2>1 DEF Hip!Transfer, Hip!Becomes, Hip!Call
  <2>3. k \in HipCalls /\ k.pc = "memcpy" /\ k.op = "transfer" /\ k.parts = <<q>> /\ k.raced = x
    BY <1>4, <2>1, <2>2 DEF HipCalls
  <2>4. HipShape(k) /\ StepsOf(k)
    BY <2>3 DEF HipShape, StepsOf
  <2>5. Registered(c, k)'
    BY <1>1, <1>5, <2>3, HipFacts DEF Registered
  <2>6. HipMemory => \A p \in HipParts : Settled(c, p)' => PartLive(p)
    <3> SUFFICES ASSUME HipMemory, NEW p \in HipParts, Settled(c, p)' PROVE PartLive(p)
      OBVIOUS
    <3>1. hipCalls'[c] = k
      BY <2>2 DEF HipInv, HipAlways, HipTypes
    <3>2. p = q /\ b.handle \notin x
      BY <1>3, <2>3, <3>1, HipLengths DEF Settled
    <3>3. /\ b.handle \in DOMAIN hipLive /\ hipLive[b.handle].len = b.len
          /\ \A d \in Callers : Pending(d) => HipMine(d).handle # b.handle
      BY <1>4, <1>8, <3>2 DEF Hip!Validated, HipMemory, EntriesLive
    <3>4. QED
      BY <1>1, <1>3, <3>2, <3>3 DEF PartLive
  <2>7. QED
    BY <1>5, <1>6, <2>2, <2>3, <2>4, <2>5, <2>6, HipMoves
<1>9. QED
  BY <1>7, <1>8

\* free, up to hipFree: that nothing is freed twice is what hipDoubled tells.
LEMMA FreeStep ==
    ASSUME HipInv, NEW c \in Callers, NEW b \in hipKnown, Hip!Free(c, b)
    PROVE  HipInv'
<1>1. /\ b \in HipHeld /\ hipCalls[c].pc = "idle" /\ b.handle \in Addresses
      /\ b.len \in BufferSizes /\ b.len \in Nat
  BY HipConstants DEF Hip!Free, Hip!Ready, HipInv, HipAlways, HipTypes, HipHeld
<1>2. /\ hipLive' = hipLive /\ hipRegistry' = hipRegistry /\ hipHeld' = hipHeld /\ hipKnown' = hipKnown
      /\ hipSerial' = hipSerial /\ hipLost' = hipLost /\ hipErrors' = hipErrors
      /\ hipFilereg' = hipFilereg /\ hipBufreg' = hipBufreg
  BY DEF Hip!Free, Hip!hipfile
<1>3. ~Pending(c) /\ ~Leaving(c)
  BY <1>1 DEF Pending, Leaving
<1>4. CASE ~Hip!Validated(b)
  <2>1. hipCalls' = [hipCalls EXCEPT ![c] = Hip!Idle] /\ hipDoubled' = hipDoubled
    BY <1>4 DEF Hip!Free, Hip!Becomes, HipInv, HipAlways, HipTypes
  <2>2. hipCalls'[c] = Hip!Idle
    BY <2>1 DEF HipInv, HipAlways, HipTypes
  <2>3. \A p : ~Settled(c, p)'
    BY <2>2, HipIdle DEF Settled
  <2>4. Registered(c, Hip!Idle)'
    BY <1>1, <1>2, HipFacts, HipIdle DEF Registered
  <2>5. QED
    BY <1>2, <1>3, <2>1, <2>3, <2>4, HipIdle, HipMoves
<1>5. CASE Hip!Validated(b)
  <2>1. PICK q : q = Hip!Whole(b)
    OBVIOUS
  <2>2. /\ q \in HipParts /\ q.buf = b /\ q.off = 0 /\ q.bytes = b.len
    BY <1>1, <2>1, PartTyped DEF Hip!Whole, Hip!Part
  <2>3. PICK ps \in Seq(HipParts) : ps = <<q>>
    BY <2>2, HipLengths
  <2>4. PICK k : /\ hipCalls' = [hipCalls EXCEPT ![c] = k]
                 /\ hipDoubled' = (hipDoubled \/ b.handle \in Hip!Freeing)
                 /\ k = [pc |-> "hipfree", op |-> "free", parts |-> ps, checked |-> 0,
                         moved |-> "none", res |-> "none", raced |-> {}]
    BY <1>5, <2>1, <2>3 DEF Hip!Free, Hip!Becomes, Hip!Call
  <2>5. k \in HipCalls /\ k.pc = "hipfree" /\ k.op = "free" /\ k.parts = <<q>> /\ k.raced = {}
    BY <2>3, <2>4 DEF HipCalls
  <2>6. Len(k.parts) = 1 /\ k.parts[1] = q /\ DOMAIN k.parts = {1}
    BY <2>2, <2>5, HipLengths
  <2>7. HipShape(k) /\ StepsOf(k)
    BY <1>1, <2>2, <2>5, <2>6 DEF HipShape, StepsOf
  <2>8. Registered(c, k)'
    BY <1>1, <1>2, <2>5, HipFacts DEF Registered
  <2>9. /\ hipKnown' \subseteq HipHeld /\ hipHeld' \subseteq hipKnown' /\ hipDoubled' \in BOOLEAN
        /\ IsMap(hipLive, Addresses, HipLives)' /\ IsMap(hipRegistry, Addresses, BufferSizes)'
    BY <1>2, <2>4 DEF HipInv, HipAlways, HipTypes, IsMap, Hip!Freeing
  <2>10. /\ HipAlways' /\ hipCalls'[c] = k
         /\ \A d \in Callers : d # c => Same(hipCalls[d], hipCalls'[d])
    BY <1>2, <2>4, <2>5, <2>7, <2>8, <2>9, HipCallKeeps
  <2>11. SUFFICES ASSUME ~hipDoubled' PROVE HipMemory'
    BY <2>10 DEF HipInv
  <2>12. HipMemory /\ b.handle \notin Hip!Freeing
    BY <2>4, <2>11 DEF HipInv
  <2>13. \A d \in Callers : Freeing(d) \/ Leaving(d) => HipMine(d).handle # b.handle
    BY <2>12 DEF Hip!Freeing, Freeing, Leaving, HipMine, Hip!Mine
  <2>14. /\ ~Pending(c)' /\ Freeing(c)' /\ ~Leaving(c)' /\ HipMine(c)' = b
         /\ \A d \in Callers : d # c => /\ Pending(d)' <=> Pending(d)
                                        /\ Freeing(d)' <=> Freeing(d)
                                        /\ Leaving(d)' <=> Leaving(d)
                                        /\ HipMine(d)' = HipMine(d)
                                        /\ \A p : Settled(d, p)' => Settled(d, p)
    BY <2>2, <2>5, <2>6, <2>10, HipOthers DEF Pending, Freeing, Leaving, HipMine
  <2>15. HipAlone'
    BY <2>12, <2>13, <2>14 DEF HipMemory, HipAlone
  <2>16. EntriesLive' /\ PendingLive' /\ HeldLive'
    <3>1. \A d \in Callers : /\ Pending(d)' <=> Pending(d)
                             /\ Leaving(d)' <=> Leaving(d)
                             /\ Pending(d) \/ Leaving(d) => HipMine(d)' = HipMine(d)
      BY <1>3, <2>14
    <3>2. QED
      BY <1>2, <2>12, <3>1 DEF HipMemory, EntriesLive, PendingLive, HeldLive
  <2>17. FreeingRegistered'
    <3>1. b.handle \in DOMAIN hipRegistry
      BY <1>5 DEF Hip!Validated
    <3>2. QED
      BY <1>2, <2>12, <2>14, <3>1 DEF HipMemory, FreeingRegistered
  <2>18. Remembered'
    <3>1. \A d \in Callers : /\ Pending(d)' <=> Pending(d)
                             /\ Leaving(d)' <=> Leaving(d)
                             /\ Pending(d) \/ Leaving(d) => HipMine(d)' = HipMine(d)
      BY <1>3, <2>14
    <3>2. QED
      BY <1>2, <2>12, <3>1 DEF HipMemory, Remembered
  <2>19. SettledLive'
    <3> SUFFICES ASSUME NEW d \in Callers, NEW p \in HipParts, Settled(d, p)' PROVE PartLive(p)'
      BY DEF SettledLive
    <3>1. PartLive(p)
      <4>1. CASE d # c
        BY <2>12, <2>14, <4>1 DEF HipMemory, SettledLive
      <4>2. CASE d = c
        <5>1. p = q
          BY <2>6, <2>10, <4>2 DEF Settled
        <5>2. /\ b.handle \in DOMAIN hipLive /\ hipLive[b.handle].len = b.len
              /\ \A e \in Callers : Pending(e) => HipMine(e).handle # b.handle
          BY <1>5, <2>12, <2>13 DEF Hip!Validated, HipMemory, EntriesLive
        <5>3. QED
          BY <1>1, <2>2, <5>1, <5>2 DEF PartLive
      <4>3. QED
        BY <4>1, <4>2
    <3>2. \A e \in Callers : Pending(e)' => Pending(e) /\ HipMine(e)' = HipMine(e)
      BY <2>14
    <3>3. QED
      BY <1>2, <3>1, <3>2 DEF PartLive
  <2>20. QED
    BY <2>15, <2>16, <2>17, <2>18, <2>19 DEF HipMemory
<1>6. QED
  BY <1>4, <1>5

\* The copies and file transfers begin: parts of buffers nobody has validated yet.
LEMMA RangeSteps ==
    ASSUME HipInv, NEW c \in Callers, NEW b \in hipKnown,
           \/ \E range \in BufferRanges : Hip!FileTransfer(c, b, range[1], range[2])
           \/ \E d \in hipKnown, from \in BufferRanges, to \in BufferRanges :
                Hip!CopyDeviceRange(c, b, d, from[1], to[1], to[2])
    PROVE  HipInv'
<1>1. b \in HipHeld /\ hipKnown \subseteq HipHeld /\ hipCalls[c].pc = "idle"
  BY DEF Hip!FileTransfer, Hip!CopyDeviceRange, Hip!Ready, HipInv, HipAlways, HipTypes
<1>2. \A e \in hipKnown, off \in Nat, n \in Nat : \A s \in Hip!Claims(e, off, n) :
        Hip!Part(s, off, n) \in HipParts
  <2> SUFFICES ASSUME NEW e \in hipKnown, NEW off \in Nat, NEW n \in Nat, NEW s \in Hip!Claims(e, off, n)
               PROVE  Hip!Part(s, off, n) \in HipParts
    OBVIOUS
  <2>1. off + n \in Nat /\ e \in HipHeld
    BY <1>1
  <2>2. s \in HipBuffers
    BY <2>1, PartTyped DEF Hip!Claims
  <2>3. QED
    BY <2>1, <2>2 DEF Hip!Part, HipParts
<1>3. \A r \in BufferRanges : r[1] \in Nat /\ r[2] \in Nat
  BY HipConstants
<1>4. PICK o \in {"file", "copy"}, ps \in Seq(HipParts) :
        Len(ps) > 0 /\ Hip!Becomes(c, Hip!Call(o, "validate", ps, {}))
  <2>1. CASE \E range \in BufferRanges : Hip!FileTransfer(c, b, range[1], range[2])
    <3>1. PICK off \in Nat, n \in Nat : Hip!FileTransfer(c, b, off, n)
      BY <1>3, <2>1
    <3>2. PICK q : q = Hip!Part(b, off, n)
      OBVIOUS
    <3>3. q \in HipParts
      BY <1>2, <3>2 DEF Hip!Claims
    <3>4. Hip!Becomes(c, Hip!Call("file", "validate", <<q>>, {}))
      BY <3>1, <3>2 DEF Hip!FileTransfer
    <3>5. <<q>> \in Seq(HipParts) /\ Len(<<q>>) > 0
      BY <3>3
    <3>6. QED
      BY <3>4, <3>5
  <2>2. CASE \E d \in hipKnown, from \in BufferRanges, to \in BufferRanges :
               Hip!CopyDeviceRange(c, b, d, from[1], to[1], to[2])
    <3>1. PICK d \in hipKnown, soff \in Nat, doff \in Nat, n \in Nat :
            Hip!CopyDeviceRange(c, b, d, soff, doff, n)
      BY <1>3, <2>2
    <3>2. PICK s \in Hip!Claims(b, soff, n), t \in Hip!Claims(d, doff, n) :
            Hip!Becomes(c, Hip!Call("copy", "validate", <<Hip!Part(s, soff, n), Hip!Part(t, doff, n)>>, {}))
      BY <3>1 DEF Hip!CopyDeviceRange
    <3>3. PICK q, r : q = Hip!Part(s, soff, n) /\ r = Hip!Part(t, doff, n)
      OBVIOUS
    <3>4. q \in HipParts /\ r \in HipParts
      BY <1>2, <3>3
    <3>5. <<q, r>> \in Seq(HipParts) /\ Len(<<q, r>>) > 0
      BY <3>4
    <3>6. Hip!Becomes(c, Hip!Call("copy", "validate", <<q, r>>, {}))
      BY <3>2, <3>3
    <3>7. QED
      BY <3>5, <3>6
  <2>3. QED
    BY <2>1, <2>2
<1>5. PICK k : /\ hipCalls' = [hipCalls EXCEPT ![c] = k]
               /\ k = CallOf("validate", o, ps, 0, "none", "none", {})
  BY <1>4, Zenon DEF Hip!Becomes, Hip!Call, CallOf
<1>6. k \in HipCalls /\ k.pc = "validate" /\ k.op = o /\ k.parts = ps /\ k.checked = 0
  <2>1. k \in HipCalls
    BY <1>5, HipWritten
  <2>2. QED
    BY <1>5, <2>1, HipFields
<1>7. HipShape(k) /\ StepsOf(k)
  BY <1>4, <1>6 DEF HipShape, StepsOf
<1>8. /\ hipLive' = hipLive /\ hipRegistry' = hipRegistry /\ hipHeld' = hipHeld /\ hipKnown' = hipKnown
      /\ hipSerial' = hipSerial /\ hipLost' = hipLost /\ hipErrors' = hipErrors
      /\ hipFilereg' = hipFilereg /\ hipBufreg' = hipBufreg /\ hipDoubled' = hipDoubled
  BY DEF Hip!FileTransfer, Hip!CopyDeviceRange, Hip!mem, Hip!hipfile
<1>9. Registered(c, k)'
  BY <1>1, <1>6, <1>8, HipFacts DEF Registered
<1>10. ~Pending(c) /\ ~Leaving(c)
  BY <1>1 DEF Pending, Leaving
<1>11. \A p : ~Settled(c, p)'
  <2>1. hipCalls'[c] = k
    BY <1>5 DEF HipInv, HipAlways, HipTypes
  <2>2. \A i \in DOMAIN ps : ~(i <= 0)
    BY <1>4
  <2>3. QED
    BY <1>6, <2>1, <2>2 DEF Settled
<1>12. hipCalls' = [hipCalls EXCEPT ![c] = k]
  BY <1>5
<1>13. QED
  BY <1>6, <1>7, <1>8, <1>9, <1>10, <1>11, <1>12, HipMoves

\* What ValidateRange may leave of a call: an answer, or the call with one part more checked.
RangeChecked(c, o, ps, n, q, x, p, k) ==
    /\ p \in {"validate", "memcpy", "regfile"}
    /\ hipCalls' = [hipCalls EXCEPT ![c] = k]
    /\ p = "validate" => n + 1 < Len(ps)
    /\ p = "memcpy" => o = "copy"
    /\ p = "regfile" => o = "file"
    /\ \/ k = Hip!Idle
       \/ k = CallOf("idle", "file", <<>>, 0, hipCalls[c].moved, "error", {})
       \/ /\ Hip!InRange(q) /\ (p # "validate" => n + 1 = Len(ps))
          /\ k = CallOf(p, o, ps, n + 1, hipCalls[c].moved, hipCalls[c].res, x)

\* ValidateRange: what lies within an entry lies in live memory unless a free is about to
\* remove that entry.
LEMMA ValidateStep ==
    ASSUME HipInv, NEW c \in Callers, Hip!ValidateRange(c)
    PROVE  HipInv'
<1>1. /\ hipCalls[c] \in HipCalls /\ hipCalls[c].pc = "validate" /\ hipCalls[c].op \in {"copy", "file"}
      /\ hipCalls[c].checked < Len(hipCalls[c].parts)
      /\ hipCalls[c].moved \in {"all", "some", "none"} /\ hipCalls[c].res \in {"none", "ok", "error"}
      /\ hipCalls[c].raced \in SUBSET Addresses
  BY HipFacts DEF Hip!ValidateRange, StepsOf, HipShape, HipCalls
<1>2. PICK ps \in Seq(HipParts), n \in Nat, o \in {"copy", "file"} :
        ps = hipCalls[c].parts /\ n = hipCalls[c].checked /\ o = hipCalls[c].op /\ n < Len(ps)
  BY <1>1 DEF HipCalls
<1>3. n + 1 \in DOMAIN ps /\ ps[n + 1] \in HipParts /\ n + 1 \in Nat
  BY <1>2
<1>4. PICK q \in HipParts, x \in SUBSET Addresses :
        /\ q = ps[n + 1] /\ x = hipCalls[c].raced \cup (Hip!Leaving \cap {q.buf.handle})
        /\ q.buf.handle \notin x => \A d \in Callers : Leaving(d) => HipMine(d).handle # q.buf.handle
  <2>1. PICK q \in HipParts : q = ps[n + 1]
    BY <1>3
  <2>2. q.buf.handle \in Addresses
    BY DEF HipParts, HipBuffers
  <2>3. \A d \in Callers : Leaving(d) => HipMine(d).handle \in Hip!Leaving
    BY DEF Hip!Leaving, Leaving, HipMine, Hip!Mine
  <2>4. PICK x \in SUBSET Addresses : x = hipCalls[c].raced \cup (Hip!Leaving \cap {q.buf.handle})
    <3>1. hipCalls[c].raced \subseteq Addresses
      BY <1>1
    <3>2. QED
      BY <2>2, <3>1
  <2>5. q.buf.handle \notin x => q.buf.handle \notin Hip!Leaving
    BY <2>4
  <2>6. QED
    BY <2>1, <2>3, <2>4, <2>5
<1>5. q.off \in Nat /\ q.bytes \in Nat
  BY DEF HipParts
<1>51. PICK p, k : RangeChecked(c, o, ps, n, q, x, p, k)
  <2>1. PICK native \in {"memcpy", "regfile"} : native = IF o = "copy" THEN "memcpy" ELSE "regfile"
    OBVIOUS
  <2>2. PICK p \in {"validate", "memcpy", "regfile"} : p = IF n + 1 = Len(ps) THEN native ELSE "validate"
    BY <2>1
  <2>3. /\ p = "validate" => n + 1 < Len(ps)
        /\ p = "memcpy" => o = "copy"
        /\ p = "regfile" => o = "file"
        /\ p # "validate" => n + 1 = Len(ps)
    BY <1>2, <2>1, <2>2
  <2>4. Hip!Becomes(c, IF ~Hip!InRange(q) THEN Hip!Answer(c, "error")
                       ELSE [hipCalls[c] EXCEPT !.checked = n + 1, !.raced = x, !.pc = p])
    <3>1. Hip!Becomes(c, IF ~Hip!InRange(q) THEN Hip!Answer(c, "error")
                         ELSE [hipCalls[c] EXCEPT !.checked = n + 1,
                                 !.raced = @ \cup (Hip!Leaving \cap {q.buf.handle}),
                                 !.pc = IF n + 1 = Len(ps) THEN native ELSE @])
      BY <1>2, <1>4, <2>1, Zenon DEF Hip!ValidateRange
    <3>2. QED
      BY <1>1, <1>4, <2>2, <3>1, Zenon
  <2>5. CASE ~Hip!InRange(q)
    <3>1. Hip!Becomes(c, Hip!Answer(c, "error"))
      BY <2>4, <2>5, Zenon
    <3>2. Hip!Answer(c, "error") = Hip!Idle
          \/ Hip!Answer(c, "error") = CallOf("idle", "file", <<>>, 0, hipCalls[c].moved, "error", {})
      BY HipFileAnswer DEF Hip!Answer
    <3>3. PICK k : k = Hip!Answer(c, "error")
      OBVIOUS
    <3>4. hipCalls' = [hipCalls EXCEPT ![c] = k]
      BY <3>1, <3>3, Zenon DEF Hip!Becomes
    <3>5. RangeChecked(c, o, ps, n, q, x, p, k)
      BY <2>2, <2>3, <3>2, <3>3, <3>4, Zenon DEF RangeChecked
    <3>6. QED
      BY <3>5, Zenon
  <2>6. CASE Hip!InRange(q)
    <3>1. hipCalls' = [hipCalls EXCEPT ![c] = [[[hipCalls[c] EXCEPT !.checked = n + 1] EXCEPT !.raced = x] EXCEPT !.pc = p]]
      BY <2>4, <2>6, Zenon DEF Hip!Becomes
    <3>2. hipCalls[c] = CallOf(hipCalls[c].pc, o, ps, n, hipCalls[c].moved, hipCalls[c].res, hipCalls[c].raced)
      BY <1>1, <1>2, HipWritten
    <3>3. PICK k : k = CallOf(p, o, ps, n + 1, hipCalls[c].moved, hipCalls[c].res, x)
      OBVIOUS
    <3>4. [[[hipCalls[c] EXCEPT !.checked = n + 1] EXCEPT !.raced = x] EXCEPT !.pc = p] = k
      <4>1. [hipCalls[c] EXCEPT !.checked = n + 1]
              = CallOf(hipCalls[c].pc, o, ps, n + 1, hipCalls[c].moved, hipCalls[c].res, hipCalls[c].raced)
        BY <3>2, HipFields
      <4>2. PICK e, f : /\ e = CallOf(hipCalls[c].pc, o, ps, n + 1, hipCalls[c].moved, hipCalls[c].res, hipCalls[c].raced)
                        /\ f = CallOf(hipCalls[c].pc, o, ps, n + 1, hipCalls[c].moved, hipCalls[c].res, x)
        OBVIOUS
      <4>3. [e EXCEPT !.raced = x] = f
        BY <4>2, HipFields
      <4>4. [f EXCEPT !.pc = p] = k
        BY <3>3, <4>2, HipFields
      <4>5. QED
        BY <4>1, <4>2, <4>3, <4>4, Zenon
    <3>5. hipCalls' = [hipCalls EXCEPT ![c] = k]
      BY <3>1, <3>4, Zenon
    <3>6. RangeChecked(c, o, ps, n, q, x, p, k)
      BY <2>2, <2>3, <2>6, <3>3, <3>5, Zenon DEF RangeChecked
    <3>7. QED
      BY <3>6, Zenon
  <2>7. QED
    BY <2>5, <2>6
<1>6. /\ p \in {"validate", "memcpy", "regfile"}
      /\ hipCalls' = [hipCalls EXCEPT ![c] = k]
      /\ p = "validate" => n + 1 < Len(ps)
      /\ p = "memcpy" => o = "copy"
      /\ p = "regfile" => o = "file"
      /\ \/ k = Hip!Idle
         \/ k = CallOf("idle", "file", <<>>, 0, hipCalls[c].moved, "error", {})
         \/ /\ Hip!InRange(q) /\ (p # "validate" => n + 1 = Len(ps))
            /\ k = CallOf(p, o, ps, n + 1, hipCalls[c].moved, hipCalls[c].res, x)
  BY <1>51, Zenon DEF RangeChecked
<1>7. /\ k \in HipCalls /\ HipShape(k) /\ StepsOf(k)
      /\ k.pc \in {"idle", "validate", "memcpy", "regfile"}
      /\ \/ k.pc = "idle" /\ (k.op = "file" => k.res = "error")
         \/ /\ Hip!InRange(q) /\ k.pc = p /\ k.parts = ps /\ k.checked = n + 1 /\ k.raced = x
            /\ p # "validate" => n + 1 = Len(ps)
  <2>1. CASE k = Hip!Idle
    BY <2>1, HipIdle
  <2>2. CASE k = CallOf("idle", "file", <<>>, 0, hipCalls[c].moved, "error", {})
    <3>1. k \in HipCalls
      <4>1. PICK es \in Seq(HipParts), fs \in SUBSET Addresses : es = <<>> /\ fs = {}
        BY HipLengths
      <4>2. k = [pc |-> "idle", op |-> "file", parts |-> es, checked |-> 0,
                 moved |-> hipCalls[c].moved, res |-> "error", raced |-> fs]
        BY <2>2, <4>1 DEF CallOf
      <4>3. QED
        BY <1>1, <4>2 DEF HipCalls
    <3>2. k.pc = "idle" /\ k.op = "file" /\ k.res = "error"
      BY <2>2, HipFields
    <3>3. QED
      BY <3>1, <3>2 DEF HipShape, StepsOf
  <2>3. CASE /\ Hip!InRange(q) /\ (p # "validate" => n + 1 = Len(ps))
             /\ k = CallOf(p, o, ps, n + 1, hipCalls[c].moved, hipCalls[c].res, x)
    <3>1. k \in HipCalls
      <4>1. p \in {"idle", "insert", "undo", "memcpy", "hipfree", "unregister", "validate", "regfile",
                   "regbuf", "move", "deregbuf", "deregfile"}
            /\ o \in {"none", "allocate", "transfer", "free", "copy", "file"}
        BY <1>6
      <4>2. QED
        BY <1>1, <1>3, <2>3, <4>1, HipWritten
    <3>2. k.pc = p /\ k.parts = ps /\ k.checked = n + 1 /\ k.raced = x /\ k.op = o
      BY <2>3, HipFields
    <3>3. HipShape(k)
      BY <1>6, <3>2 DEF HipShape
    <3>4. StepsOf(k)
      BY <1>6, <3>2 DEF StepsOf
    <3>5. QED
      BY <1>6, <2>3, <3>1, <3>2, <3>3, <3>4
  <2>4. QED
    BY <1>6, <2>1, <2>2, <2>3
<1>8. /\ hipLive' = hipLive /\ hipRegistry' = hipRegistry /\ hipHeld' = hipHeld /\ hipKnown' = hipKnown
      /\ hipSerial' = hipSerial /\ hipLost' = hipLost /\ hipErrors' = hipErrors
      /\ hipFilereg' = hipFilereg /\ hipBufreg' = hipBufreg /\ hipDoubled' = hipDoubled
  BY DEF Hip!ValidateRange, Hip!mem, Hip!hipfile
<1>9. k.pc \in {"idle", "validate", "memcpy", "regfile"}
  BY <1>7, Zenon
<1>10. Registered(c, k)'
  <2>1. k.pc = "idle" /\ k.op = "file" => k.res # "ok"
    BY <1>6, <1>7
  <2>2. c \notin hipFilereg /\ (c \in hipBufreg => hipErrors > 0)
    BY <1>1, HipFacts DEF Registered
  <2>3. QED
    BY <1>8, <1>9, <2>1, <2>2 DEF Registered
<1>11. ~Pending(c) /\ ~Leaving(c)
  BY <1>1 DEF Pending, Leaving
<1>12. HipMemory => \A r \in HipParts : Settled(c, r)' => PartLive(r)
  <2> SUFFICES ASSUME HipMemory, NEW r \in HipParts, Settled(c, r)' PROVE PartLive(r)
    OBVIOUS
  <2>1. hipCalls'[c] = k
    BY <1>6 DEF HipInv, HipAlways, HipTypes
  <2>2. /\ Hip!InRange(q) /\ r.buf.handle \notin x
        /\ k.pc = p /\ k.parts = ps /\ k.checked = n + 1 /\ (p # "validate" => n + 1 = Len(ps))
    BY <1>7, <2>1 DEF Settled
  <2>3. PICK i \in DOMAIN ps : r = ps[i] /\ i <= n + 1
    <3>1. PICK i \in DOMAIN ps : r = ps[i] /\ (p = "validate" => i <= n + 1)
      BY <2>1, <2>2 DEF Settled
    <3>2. i <= n + 1
      BY <1>2, <2>2, <3>1
    <3>3. QED
      BY <3>1, <3>2
  <2>4. CASE i = n + 1
    <3>1. /\ q.buf.handle \in DOMAIN hipRegistry
          /\ q.off + q.bytes <= hipRegistry[q.buf.handle]
      BY <2>2 DEF Hip!InRange
    <3>2. QED
      BY <1>4, <2>2, <2>3, <2>4, <3>1 DEF HipMemory, EntriesLive, PartLive
  <2>5. CASE i # n + 1
    <3>1. i <= n
      BY <1>2, <2>3, <2>5
    <3>2. Settled(c, r)
      BY <1>1, <1>2, <1>4, <2>2, <2>3, <3>1 DEF Settled
    <3>3. QED
      BY <3>2 DEF HipMemory, SettledLive
  <2>6. QED
    BY <2>4, <2>5
<1>13. hipCalls' = [hipCalls EXCEPT ![c] = k]
  BY <1>6
<1>14. QED
  BY <1>7, <1>8, <1>9, <1>10, <1>11, <1>12, <1>13, HipMoves

\* Answer(c, r), written out.
LEMMA HipAnswers ==
    ASSUME NEW c, hipCalls[c] \in HipCalls, NEW r \in {"ok", "error"}, Hip!Becomes(c, Hip!Answer(c, r)),
           hipCalls[c].op # "file"
    PROVE  hipCalls' = [hipCalls EXCEPT ![c] = Hip!Idle]
BY DEF Hip!Becomes, Hip!Answer

\* A native call that returns without changing the memory ends its call.
LEMMA NativeEnds ==
    ASSUME HipInv, NEW c \in Callers, Hip!HipMemcpy(c) \/ Hip!HipFreeFails(c)
    PROVE  HipInv'
<1>1. /\ hipCalls[c] \in HipCalls /\ hipCalls[c].pc \in {"memcpy", "hipfree"}
      /\ hipCalls[c].op \in {"transfer", "copy", "free"}
  BY HipFacts DEF Hip!HipMemcpy, Hip!HipFreeFails, StepsOf
<1>2. hipCalls' = [hipCalls EXCEPT ![c] = Hip!Idle]
  BY <1>1, HipAnswers DEF Hip!HipMemcpy, Hip!HipFreeFails
<1>3. /\ hipLive' = hipLive /\ hipRegistry' = hipRegistry /\ hipHeld' = hipHeld /\ hipKnown' = hipKnown
      /\ hipSerial' = hipSerial /\ hipLost' = hipLost /\ hipErrors' \in {hipErrors, hipErrors + 1}
      /\ hipFilereg' = hipFilereg /\ hipBufreg' = hipBufreg /\ hipDoubled' = hipDoubled
  BY DEF Hip!HipMemcpy, Hip!HipFreeFails, Hip!Fails, Hip!mem, Hip!hipfile
<1>4. Registered(c, Hip!Idle)'
  BY <1>1, <1>3, HipIdle, HipFacts DEF Registered, HipInv, HipAlways, HipTypes
<1>5. ~Pending(c) /\ ~Leaving(c)
  BY <1>1 DEF Pending, Leaving
<1>6. \A p : ~Settled(c, p)'
  <2>1. hipCalls'[c] = Hip!Idle
    BY <1>2 DEF HipInv, HipAlways, HipTypes
  <2>2. QED
    BY <2>1, HipIdle DEF Settled
<1>7. QED
  BY <1>2, <1>3, <1>4, <1>5, <1>6, HipIdle, HipMoves

\* Call c is at p, with that many bytes moved and that answer to give.
FileAt(c, p, m, r) ==
    hipCalls' = [hipCalls EXCEPT ![c] =
      CallOf(p, hipCalls[c].op, hipCalls[c].parts, hipCalls[c].checked, m, r, hipCalls[c].raced)]

\* A step of a file transfer from RegisterFile on.
LEMMA FileMoves ==
    ASSUME HipInv, NEW c \in Callers,
           hipCalls[c].pc \in {"regfile", "regbuf", "move", "deregbuf"},
           NEW p \in {"regbuf", "move", "deregbuf", "deregfile"}, NEW m \in {"all", "some", "none"},
           NEW r \in {"none", "ok", "error"},
           p \in {"deregbuf", "deregfile"} /\ r = "ok" => m = "all",
           FileAt(c, p, m, r),
           Hip!mem' = Hip!mem, hipErrors' \in {hipErrors, hipErrors + 1},
           hipFilereg' \in {hipFilereg, hipFilereg \cup {c}},
           hipBufreg' \in {hipBufreg, hipBufreg \cup {c}, hipBufreg \ {c}},
           c \in hipBufreg' => p \in {"move", "deregbuf"} \/ hipErrors' > 0,
           c \in hipBufreg' /\ p = "deregfile" => r # "ok"
    PROVE  HipInv'
<1>1. hipCalls[c] \in HipCalls /\ StepsOf(hipCalls[c])
  BY HipFacts
<1>2. PICK k : /\ k = [pc |-> p, op |-> hipCalls[c].op, parts |-> hipCalls[c].parts,
                       checked |-> hipCalls[c].checked, moved |-> m, res |-> r,
                       raced |-> hipCalls[c].raced]
               /\ hipCalls' = [hipCalls EXCEPT ![c] = k]
  BY Zenon DEF FileAt, CallOf
<1>3. k \in HipCalls /\ k.pc = p /\ k.op = "file" /\ k.moved = m /\ k.res = r
      /\ k.parts = hipCalls[c].parts /\ k.raced = hipCalls[c].raced
  BY <1>1, <1>2 DEF HipCalls, StepsOf
<1>4. HipShape(k) /\ StepsOf(k)
  BY <1>3 DEF HipShape, StepsOf
<1>5. /\ hipLive' = hipLive /\ hipRegistry' = hipRegistry /\ hipHeld' = hipHeld /\ hipKnown' = hipKnown
      /\ hipSerial' = hipSerial /\ hipLost' = hipLost /\ hipDoubled' = hipDoubled
  BY DEF Hip!mem
<1>6. Registered(c, k)'
  BY <1>3 DEF Registered
<1>7. ~Pending(c) /\ ~Leaving(c)
  BY DEF Pending, Leaving
<1>8. hipCalls' = [hipCalls EXCEPT ![c] = k]
  BY <1>2
<1>9. HipMemory => \A q \in HipParts : Settled(c, q)' => PartLive(q)
  <2>1. hipCalls'[c] = k
    BY <1>8 DEF HipInv, HipAlways, HipTypes
  <2>2. \A q : Settled(c, q)' => Settled(c, q)
    BY <1>3, <2>1 DEF Settled
  <2>3. QED
    BY <2>2 DEF HipMemory, SettledLive
<1>10. k.pc \notin {"insert", "undo", "hipfree", "unregister"}
  BY <1>3
<1>11. QED
  BY <1>3, <1>4, <1>5, <1>6, <1>7, <1>8, <1>9, <1>10, HipMoves

\* A file transfer that answers.
LEMMA FileEnds ==
    ASSUME HipInv, NEW c \in Callers, hipCalls[c].pc \in {"regfile", "deregfile"},
           NEW r \in {"none", "ok", "error"}, Hip!Becomes(c, Hip!Answer(c, r)),
           hipCalls[c].pc = "regfile" => r = "error" /\ hipFilereg' = hipFilereg,
           hipCalls[c].pc = "deregfile" => r = hipCalls[c].res /\ hipFilereg' = hipFilereg \ {c},
           Hip!mem' = Hip!mem, hipErrors' \in {hipErrors, hipErrors + 1}, hipBufreg' = hipBufreg
    PROVE  HipInv'
<1>1. hipCalls[c] \in HipCalls /\ StepsOf(hipCalls[c]) /\ Registered(c, hipCalls[c])
      /\ hipCalls[c].op = "file" /\ hipCalls[c].moved \in {"all", "some", "none"}
  BY HipFacts DEF StepsOf, HipCalls
<1>2. PICK k, es, fs :
        /\ hipCalls' = [hipCalls EXCEPT ![c] = k] /\ es = <<>> /\ fs = {}
        /\ k = CallOf("idle", "file", es, 0, hipCalls[c].moved, r, fs)
  <2>1. PICK k, es, fs : /\ es = <<>> /\ fs = {}
                         /\ k = CallOf("idle", "file", es, 0, hipCalls[c].moved, r, fs)
    OBVIOUS
  <2>2. Hip!Answer(c, r) = k
    BY <1>1, <2>1, HipFileAnswer, Zenon DEF Hip!Answer
  <2>3. hipCalls' = [hipCalls EXCEPT ![c] = k]
    BY <2>2, Zenon DEF Hip!Becomes
  <2>4. QED
    BY <2>1, <2>3, Zenon
<1>3. k \in HipCalls /\ k.pc = "idle" /\ k.op = "file" /\ k.moved = hipCalls[c].moved /\ k.res = r
  <2>1. es \in Seq(HipParts) /\ fs \in SUBSET Addresses
    BY <1>2, HipLengths
  <2>2. k = [pc |-> "idle", op |-> "file", parts |-> es, checked |-> 0,
             moved |-> hipCalls[c].moved, res |-> r, raced |-> fs]
    BY <1>2 DEF CallOf
  <2>3. QED
    BY <1>1, <2>1, <2>2 DEF HipCalls
<1>4. HipShape(k)
  BY <1>3 DEF HipShape
<1>5. StepsOf(k)
  BY <1>1, <1>3 DEF StepsOf
<1>6. /\ hipLive' = hipLive /\ hipRegistry' = hipRegistry /\ hipHeld' = hipHeld /\ hipKnown' = hipKnown
      /\ hipSerial' = hipSerial /\ hipLost' = hipLost /\ hipDoubled' = hipDoubled
  BY DEF Hip!mem
<1>7. Registered(c, k)'
  <2>1. c \in hipFilereg => hipCalls[c].pc = "deregfile"
    BY <1>1 DEF Registered
  <2>2. c \in hipBufreg => hipErrors' > 0
    BY <1>1 DEF Registered, HipInv, HipAlways, HipTypes
  <2>3. c \in hipBufreg => r # "ok"
    BY <1>1 DEF Registered
  <2>4. QED
    BY <1>3, <2>1, <2>2, <2>3 DEF Registered
<1>8. ~Pending(c) /\ ~Leaving(c) /\ k.pc \notin {"insert", "undo", "hipfree", "unregister"}
  BY <1>3 DEF Pending, Leaving
<1>9. hipCalls' = [hipCalls EXCEPT ![c] = k]
  BY <1>2
<1>10. hipFilereg' \in {hipFilereg, hipFilereg \ {c}}
  OBVIOUS
<1>11. \A p : ~Settled(c, p)'
  <2>1. hipCalls'[c] = k
    BY <1>9 DEF HipInv, HipAlways, HipTypes
  <2>2. QED
    BY <1>3, <2>1 DEF Settled
<1>12. QED
  BY <1>3, <1>4, <1>5, <1>6, <1>7, <1>8, <1>9, <1>10, <1>11, HipMoves

\* The steps of a file transfer that change a few fields of the call.
LEMMA HipBecomes ==
    ASSUME NEW c, hipCalls[c] \in HipCalls, NEW p, NEW m, NEW r
    PROVE  /\ Hip!Becomes(c, [hipCalls[c] EXCEPT !.pc = p]) =>
                FileAt(c, p, hipCalls[c].moved, hipCalls[c].res)
           /\ Hip!Becomes(c, [hipCalls[c] EXCEPT !.pc = p, !.res = r]) =>
                FileAt(c, p, hipCalls[c].moved, r)
           /\ Hip!Becomes(c, [hipCalls[c] EXCEPT !.pc = p, !.moved = m, !.res = r]) =>
                FileAt(c, p, m, r)
<1>1. PICK k, o, s, n, m0, r0, x :
        /\ k = hipCalls[c] /\ o = hipCalls[c].op /\ s = hipCalls[c].parts /\ n = hipCalls[c].checked
        /\ m0 = hipCalls[c].moved /\ r0 = hipCalls[c].res /\ x = hipCalls[c].raced
  OBVIOUS
<1>2. k = CallOf(hipCalls[c].pc, o, s, n, m0, r0, x)
  BY <1>1, HipWritten, Zenon
<1>3. PICK d, e, f : /\ d = CallOf(p, o, s, n, m0, r0, x) /\ e = CallOf(p, o, s, n, m, r0, x)
                     /\ f = CallOf(p, o, s, n, m0, r, x)
  OBVIOUS
<1>4. [k EXCEPT !.pc = p] = d
  BY <1>2, <1>3 DEF CallOf
<1>5. [d EXCEPT !.res = r] = f
  BY <1>3 DEF CallOf
<1>6. [d EXCEPT !.moved = m] = e
  BY <1>3 DEF CallOf
<1>7. [e EXCEPT !.res = r] = CallOf(p, o, s, n, m, r, x)
  BY <1>3 DEF CallOf
<1>8. /\ [k EXCEPT !.pc = p, !.res = r] = f
      /\ [k EXCEPT !.pc = p, !.moved = m, !.res = r] = CallOf(p, o, s, n, m, r, x)
  BY <1>4, <1>5, <1>6, <1>7, Zenon
<1>9. QED
  BY <1>1, <1>3, <1>4, <1>8, Zenon DEF Hip!Becomes, FileAt

\* hipFile, from registering the file to deregistering it.
LEMMA FileSteps ==
    ASSUME HipInv, NEW c \in Callers,
           \/ Hip!RegisterFile(c) \/ Hip!RegisterBuffer(c) \/ Hip!Move(c)
           \/ Hip!DeregisterBuffer(c) \/ Hip!DeregisterFile(c)
    PROVE  HipInv'
<1> DEFINE k == hipCalls[c]
<1>1. /\ hipCalls[c] \in HipCalls /\ Registered(c, hipCalls[c]) /\ StepsOf(hipCalls[c])
      /\ hipErrors \in Nat
      /\ hipCalls[c].moved \in {"all", "some", "none"} /\ hipCalls[c].res \in {"none", "ok", "error"}
  BY HipFacts DEF HipInv, HipAlways, HipTypes, HipCalls
<1>2. CASE Hip!RegisterFile(c)
  <2>1. k.pc = "regfile" /\ Hip!mem' = Hip!mem /\ hipBufreg' = hipBufreg
    BY <1>2 DEF Hip!RegisterFile
  <2>2. CASE hipFilereg' = hipFilereg \cup {c} /\ hipErrors' = hipErrors /\ Hip!Becomes(c, [hipCalls[c] EXCEPT !.pc = "regbuf"])
    <3>1. FileAt(c, "regbuf", k.moved, k.res)
      BY <1>1, HipBecomes, <2>2
    <3>2. c \in hipBufreg' => hipErrors' > 0
      BY <1>1, <2>1, <2>2 DEF Registered
    <3>3. QED
      BY <1>1, <2>1, <2>2, <3>1, <3>2, FileMoves
  <2>3. CASE Hip!Fails /\ hipFilereg' = hipFilereg /\ Hip!Becomes(c, Hip!Answer(c, "error"))
    BY <2>1, <2>3, FileEnds DEF Hip!Fails
  <2>4. QED
    BY <1>2, <2>2, <2>3 DEF Hip!RegisterFile
<1>3. CASE Hip!RegisterBuffer(c)
  <2>1. k.pc = "regbuf" /\ Hip!mem' = Hip!mem /\ hipFilereg' = hipFilereg
    BY <1>3 DEF Hip!RegisterBuffer
  <2>2. CASE hipBufreg' = hipBufreg \cup {c} /\ hipErrors' = hipErrors /\ Hip!Becomes(c, [hipCalls[c] EXCEPT !.pc = "move"])
    <3>1. FileAt(c, "move", k.moved, k.res)
      BY <1>1, HipBecomes, <2>2
    <3>2. QED
      BY <1>1, <2>1, <2>2, <3>1, FileMoves
  <2>3. CASE Hip!Fails /\ hipBufreg' = hipBufreg
             /\ Hip!Becomes(c, [hipCalls[c] EXCEPT !.pc = "deregfile", !.res = "error"])
    <3>1. FileAt(c, "deregfile", k.moved, "error")
      BY <1>1, HipBecomes, <2>3
    <3>2. hipErrors' = hipErrors + 1 /\ hipErrors' > 0
      BY <1>1, <2>3 DEF Hip!Fails
    <3>3. QED
      BY <1>1, <2>1, <2>3, <3>1, <3>2, FileMoves
  <2>4. QED
    BY <1>3, <2>2, <2>3 DEF Hip!RegisterBuffer
<1>4. CASE Hip!Move(c)
  <2>1. k.pc = "move" /\ Hip!mem' = Hip!mem /\ hipFilereg' = hipFilereg /\ hipBufreg' = hipBufreg
    BY <1>4 DEF Hip!Move, Hip!hipfile
  <2>2. PICK m \in {"all", "some", "none"} :
          /\ hipErrors' \in {hipErrors, hipErrors + 1}
          /\ Hip!Becomes(c, [hipCalls[c] EXCEPT !.pc = "deregbuf", !.moved = m, !.res = Hip!CheckTransfer(m)])
    BY <1>4 DEF Hip!Move, Hip!Fails
  <2>3. PICK r \in {"none", "ok", "error"} : r = Hip!CheckTransfer(m) /\ (r = "ok" => m = "all")
    BY DEF Hip!CheckTransfer
  <2>4. FileAt(c, "deregbuf", m, r)
    BY <1>1, HipBecomes, <2>2, <2>3
  <2>5. QED
    BY <2>1, <2>2, <2>3, <2>4, FileMoves
<1>5. CASE Hip!DeregisterBuffer(c)
  <2>1. k.pc = "deregbuf" /\ Hip!mem' = Hip!mem /\ hipFilereg' = hipFilereg
    BY <1>5 DEF Hip!DeregisterBuffer
  <2>2. CASE hipBufreg' = hipBufreg \ {c} /\ hipErrors' = hipErrors
             /\ Hip!Becomes(c, [hipCalls[c] EXCEPT !.pc = "deregfile"])
    <3>1. FileAt(c, "deregfile", k.moved, k.res)
      BY <1>1, HipBecomes, <2>2
    <3>2. k.res = "ok" => k.moved = "all"
      BY <1>1, <2>1 DEF StepsOf
    <3>3. QED
      BY <1>1, <2>1, <2>2, <3>1, <3>2, FileMoves
  <2>3. CASE Hip!Fails /\ hipBufreg' = hipBufreg
             /\ Hip!Becomes(c, [hipCalls[c] EXCEPT !.pc = "deregfile", !.res = "error"])
    <3>1. FileAt(c, "deregfile", k.moved, "error")
      BY <1>1, HipBecomes, <2>3
    <3>2. hipErrors' = hipErrors + 1 /\ hipErrors' > 0
      BY <1>1, <2>3 DEF Hip!Fails
    <3>3. QED
      BY <1>1, <2>1, <2>3, <3>1, <3>2, FileMoves
  <2>4. QED
    BY <1>5, <2>2, <2>3 DEF Hip!DeregisterBuffer
<1>6. CASE Hip!DeregisterFile(c)
  BY <1>1, <1>6, FileEnds DEF Hip!DeregisterFile
<1>7. QED
  BY <1>2, <1>3, <1>4, <1>5, <1>6

\* Where a step of c leaves everyone.
LEMMA HipLeaves ==
    ASSUME HipInv, NEW c \in Callers, NEW k \in HipCalls, hipCalls'[c] = k,
           \A d \in Callers : d # c => Same(hipCalls[d], hipCalls'[d])
    PROVE  /\ Pending(c)' <=> k.pc \in {"insert", "undo"}
           /\ Freeing(c)' <=> k.pc = "hipfree"
           /\ Leaving(c)' <=> k.pc = "unregister"
           /\ HipMine(c)' = k.parts[1].buf
           /\ k.pc \in {"idle", "insert", "undo", "unregister"} => \A p : ~Settled(c, p)'
           /\ \A d \in Callers : d # c => /\ Pending(d)' <=> Pending(d)
                                          /\ Freeing(d)' <=> Freeing(d)
                                          /\ Leaving(d)' <=> Leaving(d)
                                          /\ HipMine(d)' = HipMine(d)
                                          /\ \A p : Settled(d, p)' => Settled(d, p)
<1>1. /\ Pending(c)' <=> k.pc \in {"insert", "undo"}
      /\ Freeing(c)' <=> k.pc = "hipfree"
      /\ Leaving(c)' <=> k.pc = "unregister"
      /\ HipMine(c)' = k.parts[1].buf
  BY DEF Pending, Freeing, Leaving, HipMine
<1>2. k.pc \in {"idle", "insert", "undo", "unregister"} => \A p : ~Settled(c, p)'
  BY DEF Settled
<1>3. QED
  BY <1>1, <1>2, HipOthers

\* The buffer of a call that has one.
LEMMA OneBuffer ==
    ASSUME HipInv, NEW c \in Callers, hipCalls[c].pc \in {"insert", "undo", "hipfree", "unregister"}
    PROVE  /\ Hip!Mine(c) = HipMine(c) /\ hipCalls[c] \in HipCalls
           /\ Len(hipCalls[c].parts) = 1
           /\ HipMine(c) \in HipHeld /\ HipMine(c).handle \in Addresses
           /\ HipMine(c).len \in BufferSizes
           /\ Pending(c) <=> hipCalls[c].pc \in {"insert", "undo"}
           /\ Freeing(c) <=> hipCalls[c].pc = "hipfree"
           /\ Leaving(c) <=> hipCalls[c].pc = "unregister"
BY HipFacts DEF Hip!Mine, HipMine, HipShape, HipHeld, Pending, Freeing, Leaving

\* The same call at another step.
LEMMA HipNextStep ==
    ASSUME NEW c, hipCalls[c] \in HipCalls, NEW p \in {"undo", "unregister"}
    PROVE  \E k \in HipCalls :
             /\ [hipCalls[c] EXCEPT !.pc = p] = k
             /\ k.pc = p /\ k.op = hipCalls[c].op /\ k.parts = hipCalls[c].parts
<1>1. PICK k, o, s, n, m, r, x :
        /\ k = CallOf(p, o, s, n, m, r, x)
        /\ o = hipCalls[c].op /\ s = hipCalls[c].parts /\ n = hipCalls[c].checked
        /\ m = hipCalls[c].moved /\ r = hipCalls[c].res /\ x = hipCalls[c].raced
  OBVIOUS
<1>2. PICK j : j = hipCalls[c]
  OBVIOUS
<1>3. j = CallOf(hipCalls[c].pc, o, s, n, m, r, x)
  BY <1>1, <1>2, HipWritten, Zenon
<1>4. [j EXCEPT !.pc = p] = k
  BY <1>1, <1>3 DEF CallOf
<1>5. k \in HipCalls
  BY <1>1 DEF HipCalls, CallOf
<1>6. k.pc = p /\ k.op = o /\ k.parts = s
  BY <1>1 DEF CallOf
<1>7. QED
  BY <1>1, <1>2, <1>4, <1>5, <1>6, Zenon

\* An allocation that its caller has just got from the runtime.
LEMMA MallocStep ==
    ASSUME HipInv, NEW c \in Callers, NEW n \in BufferSizes, Hip!HipMalloc(c, n)
    PROVE  HipInv'
<1>1. PICK a \in Addresses \ DOMAIN hipLive :
        /\ hipLive' = Hip!With(hipLive, a, [len |-> n, serial |-> hipSerial + 1])
        /\ Hip!Becomes(c, Hip!Call("allocate", "insert", <<Hip!Whole(Hip!Buffer(a, n, hipSerial + 1))>>, {}))
  BY DEF Hip!HipMalloc
<1>2. PICK q, b : b = Hip!Buffer(a, n, hipSerial + 1) /\ q = Hip!Whole(b)
  OBVIOUS
<1>3. hipSerial + 1 \in 1..MaxAllocs /\ hipSerial \in Nat /\ n \in Nat
  BY HipConstants DEF Hip!HipMalloc, HipInv, HipAlways, HipTypes
<1>4. /\ b \in HipHeld /\ b.handle = a /\ b.len = n /\ b.serial = hipSerial + 1
      /\ q \in HipParts /\ q.buf = b
  <2>1. b = [handle |-> a, len |-> n, serial |-> hipSerial + 1]
    BY <1>2 DEF Hip!Buffer
  <2>2. b \in HipHeld /\ b \in HipBuffers /\ b.handle = a /\ b.len = n /\ b.serial = hipSerial + 1
    BY <1>3, <2>1 DEF HipHeld, HipBuffers
  <2>3. q = [buf |-> b, off |-> 0, bytes |-> n]
    BY <1>2, <2>2 DEF Hip!Whole, Hip!Part
  <2>4. QED
    BY <1>3, <2>2, <2>3 DEF HipParts
<1>5. PICK ps \in Seq(HipParts) : ps = <<q>> /\ Len(ps) = 1 /\ ps[1] = q
  BY <1>4, HipLengths
<1>6. PICK k : /\ hipCalls' = [hipCalls EXCEPT ![c] = k]
               /\ k = [pc |-> "insert", op |-> "allocate", parts |-> ps, checked |-> 0,
                       moved |-> "none", res |-> "none", raced |-> {}]
  BY <1>1, <1>2, <1>5 DEF Hip!Becomes, Hip!Call
<1>7. k \in HipCalls /\ k.pc = "insert" /\ k.op = "allocate" /\ k.parts = ps
  BY <1>6 DEF HipCalls
<1>8. HipShape(k) /\ StepsOf(k)
  BY <1>4, <1>5, <1>7 DEF HipShape, StepsOf
<1>9. PICK l : l = [len |-> n, serial |-> hipSerial + 1]
  OBVIOUS
<1>10. hipLive' = [j \in DOMAIN hipLive \cup {a} |-> IF j = a THEN l ELSE hipLive[j]]
  BY <1>1, <1>9 DEF Hip!With
<1>11. l \in HipLives /\ l.len = n /\ l.serial = hipSerial + 1
  BY <1>3, <1>9 DEF HipLives
<1>12. /\ DOMAIN hipLive' = DOMAIN hipLive \cup {a} /\ hipLive'[a] = l /\ a \notin DOMAIN hipLive
       /\ \A j \in DOMAIN hipLive : hipLive'[j] = hipLive[j]
  BY <1>10
<1>13. /\ hipRegistry' = hipRegistry /\ hipHeld' = hipHeld /\ hipKnown' = hipKnown
       /\ hipLost' = hipLost /\ hipSerial' = hipSerial + 1 /\ hipErrors' = hipErrors
       /\ hipFilereg' = hipFilereg /\ hipBufreg' = hipBufreg /\ hipDoubled' = hipDoubled
       /\ hipCalls[c].pc = "idle"
  BY DEF Hip!HipMalloc, Hip!Ready
<1>14. /\ HipAlways' /\ hipCalls'[c] = k
       /\ \A d \in Callers : d # c => Same(hipCalls[d], hipCalls'[d])
  <2>1. IsMap(hipLive, Addresses, HipLives)'
    BY <1>10, <1>11 DEF HipInv, HipAlways, HipTypes, IsMap
  <2>2. /\ hipKnown' \subseteq HipHeld /\ hipHeld' \subseteq hipKnown' /\ hipDoubled' \in BOOLEAN
        /\ IsMap(hipRegistry, Addresses, BufferSizes)'
    BY <1>13 DEF HipInv, HipAlways, HipTypes, IsMap
  <2>3. Registered(c, k)'
    BY <1>7, <1>13, HipFacts DEF Registered
  <2>4. QED
    BY <1>6, <1>7, <1>8, <1>13, <2>1, <2>2, <2>3, HipCallKeeps
<1>15. SUFFICES ASSUME ~hipDoubled PROVE HipMemory'
  BY <1>13, <1>14 DEF HipInv
<1>16. HipMemory
  BY <1>15 DEF HipInv
<1>17. /\ Pending(c)' /\ ~Freeing(c)' /\ ~Leaving(c)' /\ HipMine(c)' = b
       /\ ~Pending(c) /\ ~Freeing(c) /\ ~Leaving(c) /\ \A p : ~Settled(c, p)'
       /\ \A d \in Callers : d # c => /\ Pending(d)' <=> Pending(d)
                                      /\ Freeing(d)' <=> Freeing(d)
                                      /\ Leaving(d)' <=> Leaving(d)
                                      /\ HipMine(d)' = HipMine(d)
                                      /\ \A p : Settled(d, p)' => Settled(d, p)
  <2>1. ~Pending(c) /\ ~Freeing(c) /\ ~Leaving(c)
    BY <1>13 DEF Pending, Freeing, Leaving
  <2>2. k.parts[1].buf = b
    BY <1>4, <1>5, <1>7
  <2>3. QED
    BY <1>7, <1>14, <2>1, <2>2, HipLeaves
<1>18. \A d \in Callers : Pending(d) => HipMine(d).handle # a
  BY <1>12, <1>16 DEF HipMemory, PendingLive
<1>19. HipAlone'
  BY <1>4, <1>16, <1>17, <1>18 DEF HipMemory, HipAlone
<1>20. EntriesLive'
  <2> SUFFICES ASSUME NEW h \in DOMAIN hipRegistry
               PROVE  (\/ \E d \in Callers : Leaving(d) /\ HipMine(d).handle = h
                       \/ /\ h \in DOMAIN hipLive /\ hipRegistry[h] = hipLive[h].len
                          /\ \A d \in Callers : Pending(d) => HipMine(d).handle # h)'
    BY <1>13 DEF EntriesLive
  <2>1. CASE \E d \in Callers : Leaving(d) /\ HipMine(d).handle = h
    BY <1>17, <2>1
  <2>2. CASE /\ h \in DOMAIN hipLive /\ hipRegistry[h] = hipLive[h].len
             /\ \A d \in Callers : Pending(d) => HipMine(d).handle # h
    BY <1>4, <1>12, <1>13, <1>17, <2>2
  <2>3. QED
    BY <1>16, <2>1, <2>2 DEF HipMemory, EntriesLive
<1>21. PendingLive'
  BY <1>4, <1>11, <1>12, <1>16, <1>17, <1>18 DEF HipMemory, PendingLive
<1>22. FreeingRegistered'
  BY <1>13, <1>16, <1>17 DEF HipMemory, FreeingRegistered
<1>23. HeldLive'
  BY <1>12, <1>13, <1>16, <1>17 DEF HipMemory, HeldLive
<1>24. Remembered'
  <2>1. \A d \in Callers : Pending(d) => Pending(d)' /\ HipMine(d)' = HipMine(d)
    BY <1>17
  <2>2. \A d \in Callers : Leaving(d)' => Leaving(d) /\ HipMine(d)' = HipMine(d)
    BY <1>17
  <2>3. QED
    BY <1>4, <1>12, <1>13, <1>16, <1>17, <2>1, <2>2 DEF HipMemory, Remembered
<1>25. SettledLive'
  <2> SUFFICES ASSUME NEW d \in Callers, NEW p \in HipParts, Settled(d, p)' PROVE PartLive(p)'
    BY DEF SettledLive
  <2>1. PartLive(p)
    BY <1>16, <1>17 DEF HipMemory, SettledLive
  <2>2. QED
    BY <1>4, <1>12, <1>17, <2>1 DEF PartLive
<1>26. QED
  BY <1>19, <1>20, <1>21, <1>22, <1>23, <1>24, <1>25 DEF HipMemory

\* Insert: an address the registry still has is one that a free is about to remove.
LEMMA RegisterStep ==
    ASSUME HipInv, NEW c \in Callers, Hip!Insert(c)
    PROVE  HipInv'
<1>1. /\ hipCalls[c].pc = "insert" /\ hipCalls[c] \in HipCalls /\ hipCalls[c].op = "allocate"
      /\ Pending(c) /\ ~Freeing(c) /\ ~Leaving(c)
      /\ Hip!Mine(c) = HipMine(c) /\ Len(hipCalls[c].parts) = 1
      /\ HipMine(c) \in HipHeld
  BY OneBuffer, HipFacts DEF Hip!Insert, StepsOf
<1>2. PICK b : b = HipMine(c)
  OBVIOUS
<1>3. b \in HipHeld /\ b.handle \in Addresses /\ b.len \in BufferSizes
  BY <1>1, <1>2 DEF HipHeld
<1>4. hipRegistry' = [j \in DOMAIN hipRegistry \cup {b.handle} |->
                        IF j = b.handle THEN b.len ELSE hipRegistry[j]]
  BY <1>1, <1>2 DEF Hip!Insert, Hip!With
<1>5. /\ DOMAIN hipRegistry' = DOMAIN hipRegistry \cup {b.handle} /\ hipRegistry'[b.handle] = b.len
      /\ \A j \in DOMAIN hipRegistry : j # b.handle => hipRegistry'[j] = hipRegistry[j]
  BY <1>4
<1>6. /\ hipLive' = hipLive /\ hipLost' = hipLost /\ hipSerial' = hipSerial /\ hipErrors' = hipErrors
      /\ hipFilereg' = hipFilereg /\ hipBufreg' = hipBufreg /\ hipDoubled' = hipDoubled
  BY DEF Hip!Insert
<1>7. PICK k \in HipCalls :
        /\ hipCalls' = [hipCalls EXCEPT ![c] = k]
        /\ \/ /\ b.handle \in DOMAIN hipRegistry /\ hipKnown' = hipKnown /\ hipHeld' = hipHeld
              /\ k.pc = "undo" /\ k.op = "allocate" /\ k.parts = hipCalls[c].parts
           \/ /\ b.handle \notin DOMAIN hipRegistry /\ k = Hip!Idle
              /\ hipKnown' = hipKnown \cup {b} /\ hipHeld' = hipHeld \cup {b}
  <2>1. CASE b.handle \in DOMAIN hipRegistry
    <3>1. PICK k \in HipCalls : /\ [hipCalls[c] EXCEPT !.pc = "undo"] = k
                                /\ k.pc = "undo" /\ k.op = hipCalls[c].op /\ k.parts = hipCalls[c].parts
      BY <1>1, HipNextStep
    <3>2. Hip!Becomes(c, [hipCalls[c] EXCEPT !.pc = "undo"]) /\ hipKnown' = hipKnown /\ hipHeld' = hipHeld
      BY <1>1, <1>2, <2>1 DEF Hip!Insert
    <3>3. hipCalls' = [hipCalls EXCEPT ![c] = k]
      BY <3>1, <3>2, Zenon DEF Hip!Becomes
    <3>4. QED
      BY <1>1, <2>1, <3>1, <3>2, <3>3
  <2>2. CASE b.handle \notin DOMAIN hipRegistry
    <3>1. /\ Hip!Becomes(c, Hip!Answer(c, "ok"))
          /\ hipKnown' = hipKnown \cup {b} /\ hipHeld' = hipHeld \cup {b}
      BY <1>1, <1>2, <2>2 DEF Hip!Insert
    <3>2. hipCalls' = [hipCalls EXCEPT ![c] = Hip!Idle]
      BY <1>1, <3>1, HipAnswers
    <3>3. QED
      BY <2>2, <3>1, <3>2, HipIdle
  <2>3. QED
    BY <2>1, <2>2
<1>8. k.pc \in {"idle", "undo"} /\ (k.pc = "undo" => k.parts = hipCalls[c].parts)
      /\ (k.pc = "idle" => k.op = "none")
  BY <1>7, HipIdle
<1>9. /\ HipAlways' /\ hipCalls'[c] = k
      /\ \A d \in Callers : d # c => Same(hipCalls[d], hipCalls'[d])
  <2>1. IsMap(hipLive, Addresses, HipLives)' /\ IsMap(hipRegistry, Addresses, BufferSizes)'
    BY <1>3, <1>4, <1>6 DEF HipInv, HipAlways, HipTypes, IsMap
  <2>2. hipKnown' \subseteq HipHeld /\ hipHeld' \subseteq hipKnown' /\ hipDoubled' \in BOOLEAN
    BY <1>3, <1>6, <1>7 DEF HipInv, HipAlways, HipTypes
  <2>3. Registered(c, k)'
    BY <1>1, <1>6, <1>8, HipFacts DEF Registered
  <2>4. HipShape(k) /\ StepsOf(k)
    <3>1. CASE k = Hip!Idle
      BY <3>1, HipIdle
    <3>2. CASE k.pc = "undo" /\ k.op = "allocate" /\ k.parts = hipCalls[c].parts
      <4>1. HipShape(k)
        BY <1>1, <3>2 DEF HipShape, HipMine
      <4>2. StepsOf(k)
        BY <3>2 DEF StepsOf
      <4>3. QED
        BY <4>1, <4>2
    <3>3. QED
      BY <1>7, <3>1, <3>2
  <2>5. hipCalls' = [hipCalls EXCEPT ![c] = k]
    BY <1>7
  <2>6. QED
    BY <1>6, <2>1, <2>2, <2>3, <2>4, <2>5, HipCallKeeps
<1>10. SUFFICES ASSUME ~hipDoubled PROVE HipMemory'
  BY <1>6, <1>9 DEF HipInv
<1>11. HipMemory
  BY <1>10 DEF HipInv
<1>12. /\ Pending(c)' <=> k.pc = "undo"
       /\ ~Freeing(c)' /\ ~Leaving(c)' /\ \A p : ~Settled(c, p)'
       /\ k.pc = "undo" => HipMine(c)' = b
       /\ \A d \in Callers : d # c => /\ Pending(d)' <=> Pending(d)
                                      /\ Freeing(d)' <=> Freeing(d)
                                      /\ Leaving(d)' <=> Leaving(d)
                                      /\ HipMine(d)' = HipMine(d)
                                      /\ \A p : Settled(d, p)' => Settled(d, p)
  <2>1. k.pc = "undo" => k.parts[1].buf = b
    BY <1>2, <1>8 DEF HipMine
  <2>2. QED
    BY <1>8, <1>9, <2>1, HipLeaves
<1>13. /\ b.handle \in DOMAIN hipLive /\ hipLive[b.handle].len = b.len
       /\ hipLive[b.handle].serial = b.serial
       /\ \A d \in Callers : Pending(d) /\ HipMine(d).handle = b.handle => d = c
  BY <1>1, <1>2, <1>11 DEF HipMemory, PendingLive, HipAlone
<1>14. \A d \in Callers : /\ Leaving(d)' <=> Leaving(d)
                          /\ Freeing(d)' <=> Freeing(d)
                          /\ Pending(d)' => Pending(d)
                          /\ Pending(d)' \/ Freeing(d) \/ Leaving(d) => HipMine(d)' = HipMine(d)
  BY <1>1, <1>2, <1>12
<1>15. HipAlone'
  BY <1>11, <1>14 DEF HipMemory, HipAlone
<1>16. b.handle \in DOMAIN hipRegistry <=> \E d \in Callers : Leaving(d) /\ HipMine(d).handle = b.handle
  BY <1>1, <1>2, <1>11 DEF HipMemory, EntriesLive, FreeingRegistered
<1>17. EntriesLive'
  <2> SUFFICES ASSUME NEW h \in DOMAIN hipRegistry'
               PROVE  (\/ \E d \in Callers : Leaving(d) /\ HipMine(d).handle = h
                       \/ /\ h \in DOMAIN hipLive /\ hipRegistry[h] = hipLive[h].len
                          /\ \A d \in Callers : Pending(d) => HipMine(d).handle # h)'
    BY DEF EntriesLive
  <2>1. CASE h # b.handle
    <3>1. h \in DOMAIN hipRegistry /\ hipRegistry'[h] = hipRegistry[h]
      BY <1>5, <2>1
    <3>2. QED
      BY <1>6, <1>11, <1>14, <3>1 DEF HipMemory, EntriesLive
  <2>2. CASE h = b.handle
    <3>1. CASE b.handle \in DOMAIN hipRegistry
      BY <1>14, <1>16, <2>2, <3>1
    <3>2. CASE b.handle \notin DOMAIN hipRegistry
      <4>1. k.pc = "idle"
        BY <1>7, <3>2, HipIdle
      <4>2. \A d \in Callers : Pending(d)' => HipMine(d)'.handle # b.handle
        BY <1>12, <1>13, <4>1
      <4>3. QED
        BY <1>5, <1>6, <1>13, <2>2, <4>2
    <3>3. QED
      BY <3>1, <3>2
  <2>3. QED
    BY <2>1, <2>2
<1>18. PendingLive'
  BY <1>6, <1>11, <1>14 DEF HipMemory, PendingLive
<1>19. FreeingRegistered'
  BY <1>5, <1>11, <1>14 DEF HipMemory, FreeingRegistered
<1>20. HeldLive'
  <2>1. \A e \in hipHeld : e.handle # b.handle
    BY <1>1, <1>2, <1>16, <1>11 DEF HipMemory, HeldLive
  <2>2. \A e \in hipHeld' : e \in hipHeld \/ (e = b /\ b.handle \notin DOMAIN hipRegistry)
    BY <1>7
  <2>3. QED
    BY <1>5, <1>6, <1>11, <1>13, <1>14, <1>16, <2>1, <2>2 DEF HipMemory, HeldLive
<1>21. Remembered'
  <2>1. \A d \in Callers : Pending(d) => \/ HipMine(d).handle = b.handle
                                         \/ Pending(d)' /\ HipMine(d)' = HipMine(d)
    BY <1>2, <1>12
  <2>2. \A a \in DOMAIN hipLive : (\/ a \in DOMAIN hipRegistry
                                  \/ hipLive[a].serial \in hipLost
                                  \/ \E d \in Callers : Pending(d) /\ HipMine(d).handle = a)'
    BY <1>5, <1>6, <1>11, <2>1 DEF HipMemory, Remembered
  <2>3. \A d \in Callers : Leaving(d) /\ HipMine(d).handle = b.handle => k.pc = "undo"
    BY <1>7, <1>16
  <2>4. \A d \in Callers : Leaving(d)' /\ HipMine(d)'.handle \in DOMAIN hipLive =>
         \/ hipLive[HipMine(d)'.handle].serial \in hipLost
         \/ \E e \in Callers : Pending(e)' /\ HipMine(e)'.handle = HipMine(d)'.handle
    <3> SUFFICES ASSUME NEW d \in Callers, Leaving(d), HipMine(d).handle \in DOMAIN hipLive
                 PROVE  \/ hipLive[HipMine(d).handle].serial \in hipLost
                        \/ \E e \in Callers : Pending(e)' /\ HipMine(e)'.handle = HipMine(d).handle
      BY <1>14
    <3>1. CASE HipMine(d).handle = b.handle
      BY <1>12, <2>3, <3>1
    <3>2. CASE HipMine(d).handle # b.handle
      BY <1>11, <2>1, <3>2 DEF HipMemory, Remembered
    <3>3. QED
      BY <3>1, <3>2
  <2>5. QED
    BY <1>6, <2>2, <2>4 DEF Remembered
<1>22. SettledLive'
  <2> SUFFICES ASSUME NEW d \in Callers, NEW p \in HipParts, Settled(d, p)' PROVE PartLive(p)'
    BY DEF SettledLive
  <2>1. PartLive(p)
    BY <1>11, <1>12 DEF HipMemory, SettledLive
  <2>2. QED
    BY <1>6, <1>14, <2>1 DEF PartLive
<1>23. QED
  BY <1>15, <1>17, <1>18, <1>19, <1>20, <1>21, <1>22 DEF HipMemory

\* Undo: nobody has the memory an allocate takes back.
LEMMA UndoStep ==
    ASSUME HipInv, NEW c \in Callers, Hip!Undo(c)
    PROVE  HipInv'
<1>1. /\ hipCalls[c].pc = "undo" /\ hipCalls[c] \in HipCalls /\ hipCalls[c].op = "allocate"
      /\ Pending(c) /\ ~Freeing(c) /\ ~Leaving(c) /\ Hip!Mine(c) = HipMine(c)
  BY OneBuffer, HipFacts DEF Hip!Undo, StepsOf
<1>2. PICK b : b = HipMine(c)
  OBVIOUS
<1>3. /\ hipCalls' = [hipCalls EXCEPT ![c] = Hip!Idle]
      /\ hipRegistry' = hipRegistry /\ hipKnown' = hipKnown /\ hipHeld' = hipHeld
      /\ hipSerial' = hipSerial /\ hipErrors' \in {hipErrors, hipErrors + 1}
      /\ hipFilereg' = hipFilereg /\ hipBufreg' = hipBufreg /\ hipDoubled' = hipDoubled
  BY <1>1, HipAnswers DEF Hip!Undo, Hip!Fails
<1>4. \/ /\ hipLive' = [j \in DOMAIN hipLive \ {b.handle} |-> hipLive[j]] /\ hipLost' = hipLost
      \/ /\ hipLive' = hipLive /\ hipLost' = hipLost \cup {b.serial}
  BY <1>1, <1>2 DEF Hip!Undo, Hip!Without
<1>5. /\ DOMAIN hipLive' \subseteq DOMAIN hipLive
      /\ \A j \in DOMAIN hipLive : j # b.handle => j \in DOMAIN hipLive' /\ hipLive'[j] = hipLive[j]
      /\ hipLost \subseteq hipLost'
      /\ b.handle \in DOMAIN hipLive' => /\ hipLive'[b.handle] = hipLive[b.handle]
                                         /\ b.serial \in hipLost'
  BY <1>4
<1>6. /\ HipAlways' /\ hipCalls'[c] = Hip!Idle
      /\ \A d \in Callers : d # c => Same(hipCalls[d], hipCalls'[d])
  <2>1. IsMap(hipLive, Addresses, HipLives)' /\ IsMap(hipRegistry, Addresses, BufferSizes)'
    BY <1>3, <1>4 DEF HipInv, HipAlways, HipTypes, IsMap
  <2>2. hipKnown' \subseteq HipHeld /\ hipHeld' \subseteq hipKnown' /\ hipDoubled' \in BOOLEAN
    BY <1>3 DEF HipInv, HipAlways, HipTypes
  <2>3. Registered(c, Hip!Idle)'
    BY <1>1, <1>3, HipFacts, HipIdle DEF Registered, HipInv, HipAlways, HipTypes
  <2>4. QED
    BY <1>3, <2>1, <2>2, <2>3, HipIdle, HipCallKeeps
<1>7. SUFFICES ASSUME ~hipDoubled PROVE HipMemory'
  BY <1>3, <1>6 DEF HipInv
<1>8. HipMemory
  BY <1>7 DEF HipInv
<1>9. /\ ~Pending(c)' /\ ~Freeing(c)' /\ ~Leaving(c)' /\ \A p : ~Settled(c, p)'
      /\ \A d \in Callers : d # c => /\ Pending(d)' <=> Pending(d)
                                     /\ Freeing(d)' <=> Freeing(d)
                                     /\ Leaving(d)' <=> Leaving(d)
                                     /\ HipMine(d)' = HipMine(d)
                                     /\ \A p : Settled(d, p)' => Settled(d, p)
  BY <1>6, HipIdle, HipLeaves
<1>10. /\ b.handle \in DOMAIN hipLive /\ hipLive[b.handle].serial = b.serial
       /\ \A d \in Callers : Pending(d) /\ HipMine(d).handle = b.handle => d = c
  BY <1>1, <1>2, <1>8 DEF HipMemory, PendingLive, HipAlone
<1>11. \A d \in Callers : /\ Leaving(d)' <=> Leaving(d)
                          /\ Freeing(d)' <=> Freeing(d)
                          /\ Pending(d)' => Pending(d) /\ HipMine(d).handle # b.handle
                          /\ Pending(d)' \/ Freeing(d) \/ Leaving(d) => HipMine(d)' = HipMine(d)
  BY <1>1, <1>9, <1>10
<1>12. HipAlone'
  BY <1>8, <1>11 DEF HipMemory, HipAlone
<1>13. b.handle \in DOMAIN hipRegistry => \E d \in Callers : Leaving(d) /\ HipMine(d).handle = b.handle
  BY <1>1, <1>2, <1>8 DEF HipMemory, EntriesLive
<1>14. EntriesLive'
  <2> SUFFICES ASSUME NEW h \in DOMAIN hipRegistry
               PROVE  (\/ \E d \in Callers : Leaving(d) /\ HipMine(d).handle = h
                       \/ /\ h \in DOMAIN hipLive /\ hipRegistry[h] = hipLive[h].len
                          /\ \A d \in Callers : Pending(d) => HipMine(d).handle # h)'
    BY <1>3 DEF EntriesLive
  <2>1. CASE h = b.handle
    BY <1>11, <1>13, <2>1
  <2>2. CASE h # b.handle
    BY <1>3, <1>5, <1>8, <1>11, <2>2 DEF HipMemory, EntriesLive
  <2>3. QED
    BY <2>1, <2>2
<1>15. PendingLive'
  BY <1>5, <1>8, <1>11 DEF HipMemory, PendingLive
<1>16. FreeingRegistered'
  BY <1>3, <1>8, <1>11 DEF HipMemory, FreeingRegistered
<1>17. HeldLive'
  <2>1. \A e \in hipHeld : e.handle # b.handle
    BY <1>8, <1>13 DEF HipMemory, HeldLive
  <2>2. QED
    BY <1>3, <1>5, <1>8, <1>11, <2>1 DEF HipMemory, HeldLive
<1>18. Remembered'
  <2>1. \A d \in Callers : Pending(d) => HipMine(d).handle = b.handle \/ Pending(d)'
    BY <1>2, <1>9
  <2>2. \A a \in DOMAIN hipLive' : a = b.handle => hipLive'[a].serial \in hipLost'
    BY <1>5, <1>10
  <2>3. \A a \in DOMAIN hipLive' : a # b.handle => a \in DOMAIN hipLive /\ hipLive'[a] = hipLive[a]
    BY <1>5
  <2>4. \A a \in DOMAIN hipLive' : (\/ a \in DOMAIN hipRegistry
                                   \/ hipLive[a].serial \in hipLost
                                   \/ \E d \in Callers : Pending(d) /\ HipMine(d).handle = a)'
    BY <1>3, <1>5, <1>8, <1>11, <2>1, <2>2, <2>3 DEF HipMemory, Remembered
  <2>5. \A d \in Callers : Leaving(d) /\ HipMine(d).handle \in DOMAIN hipLive' =>
          \/ hipLive'[HipMine(d).handle].serial \in hipLost'
          \/ \E e \in Callers : Pending(e)' /\ HipMine(e)'.handle = HipMine(d).handle
    BY <1>5, <1>8, <1>11, <2>1, <2>2, <2>3 DEF HipMemory, Remembered
  <2>6. QED
    BY <1>11, <2>4, <2>5 DEF Remembered
<1>19. SettledLive'
  <2> SUFFICES ASSUME NEW d \in Callers, NEW p \in HipParts, Settled(d, p)' PROVE PartLive(p)'
    BY DEF SettledLive
  <2>1. PartLive(p)
    BY <1>8, <1>9 DEF HipMemory, SettledLive
  <2>2. p.buf.handle # b.handle
    BY <1>1, <1>2, <2>1 DEF PartLive
  <2>3. QED
    BY <1>5, <1>11, <2>1, <2>2 DEF PartLive
<1>20. QED
  BY <1>12, <1>14, <1>15, <1>16, <1>17, <1>18, <1>19 DEF HipMemory

\* HipFree: whoever was validated to use the memory is raced.
LEMMA HipFreeStep ==
    ASSUME HipInv, NEW c \in Callers, Hip!HipFree(c)
    PROVE  HipInv'
<1>1. /\ hipCalls[c].pc = "hipfree" /\ hipCalls[c] \in HipCalls /\ hipCalls[c].op = "free"
      /\ ~Pending(c) /\ Freeing(c) /\ ~Leaving(c)
      /\ Hip!Mine(c) = HipMine(c) /\ Len(hipCalls[c].parts) = 1 /\ HipMine(c) \in HipHeld
  BY OneBuffer, HipFacts DEF Hip!HipFree, StepsOf
<1>2. PICK h : h = HipMine(c).handle
  OBVIOUS
<1>3. /\ hipLive' = [j \in DOMAIN hipLive \ {h} |-> hipLive[j]]
      /\ hipHeld' = {b \in hipHeld : b.handle # h}
      /\ hipCalls' = [d \in Callers |->
                        IF d = c THEN [hipCalls[c] EXCEPT !.pc = "unregister"]
                        ELSE [hipCalls[d] EXCEPT !.raced = @ \cup (Hip!Checked(hipCalls[d]) \cap {h})]]
      /\ hipRegistry' = hipRegistry /\ hipKnown' = hipKnown /\ hipSerial' = hipSerial
      /\ hipErrors' = hipErrors /\ hipLost' = hipLost /\ hipDoubled' = hipDoubled
      /\ hipFilereg' = hipFilereg /\ hipBufreg' = hipBufreg
  BY <1>1, <1>2 DEF Hip!HipFree, Hip!Without
<1>4. PICK k \in HipCalls : /\ hipCalls'[c] = k /\ k.pc = "unregister" /\ k.op = "free"
                            /\ k.parts = hipCalls[c].parts
  <2>1. PICK k \in HipCalls : /\ [hipCalls[c] EXCEPT !.pc = "unregister"] = k
                              /\ k.pc = "unregister" /\ k.op = hipCalls[c].op /\ k.parts = hipCalls[c].parts
    BY <1>1, HipNextStep
  <2>2. hipCalls'[c] = k
    BY <1>3, <2>1, Zenon
  <2>3. QED
    BY <1>1, <2>1, <2>2
<1>5. \A d \in Callers : d # c =>
        /\ hipCalls'[d] \in HipCalls /\ Same(hipCalls[d], hipCalls'[d])
        /\ hipCalls'[d].raced = hipCalls[d].raced \cup (Hip!Checked(hipCalls[d]) \cap {h})
  <2> SUFFICES ASSUME NEW d \in Callers, d # c
               PROVE  /\ hipCalls'[d] \in HipCalls /\ Same(hipCalls[d], hipCalls'[d])
                      /\ hipCalls'[d].raced = hipCalls[d].raced \cup (Hip!Checked(hipCalls[d]) \cap {h})
    OBVIOUS
  <2>1. PICK x : x = hipCalls[d].raced \cup (Hip!Checked(hipCalls[d]) \cap {h})
    OBVIOUS
  <2>2. hipCalls[d] \in HipCalls
    BY HipFacts
  <2>3. hipCalls'[d] = [hipCalls[d] EXCEPT !.raced = x]
    BY <1>3, <2>1
  <2>4. x \in SUBSET Addresses
    <3>1. hipCalls[d].raced \subseteq Addresses
      BY <2>2 DEF HipCalls
    <3>2. h \in Addresses
      BY <1>1, <1>2 DEF HipHeld
    <3>3. QED
      BY <2>1, <3>1, <3>2
  <2>5. hipCalls'[d] \in HipCalls
    BY <2>2, <2>3, <2>4 DEF HipCalls
  <2>6. /\ hipCalls'[d].pc = hipCalls[d].pc /\ hipCalls'[d].op = hipCalls[d].op
        /\ hipCalls'[d].parts = hipCalls[d].parts /\ hipCalls'[d].checked = hipCalls[d].checked
        /\ hipCalls'[d].moved = hipCalls[d].moved /\ hipCalls'[d].res = hipCalls[d].res
        /\ hipCalls'[d].raced = x
    BY <2>2, <2>3 DEF HipCalls
  <2>7. QED
    BY <2>1, <2>5, <2>6 DEF Same
<1>6. HipAlways'
  <2>1. hipCalls' \in [Callers -> HipCalls]
    BY <1>3, <1>4, <1>5
  <2>2. IsMap(hipLive, Addresses, HipLives)' /\ IsMap(hipRegistry, Addresses, BufferSizes)'
    BY <1>3 DEF HipInv, HipAlways, HipTypes, IsMap
  <2>3. /\ hipKnown' \subseteq HipHeld /\ hipHeld' \subseteq hipKnown' /\ hipDoubled' \in BOOLEAN
        /\ hipFilereg' \subseteq Callers /\ hipBufreg' \subseteq Callers /\ hipSerial' \in Nat
        /\ hipErrors' \in Nat /\ hipErrors' >= hipErrors
    BY <1>3 DEF HipInv, HipAlways, HipTypes
  <2>4. HipShape(hipCalls'[c])
    BY <1>1, <1>4 DEF HipShape, HipMine
  <2>5. StepsOf(hipCalls'[c])
    BY <1>4 DEF StepsOf
  <2>6. Registered(c, hipCalls[c])'
    BY <1>1, <1>3, <1>4, HipFacts DEF Registered
  <2>7. \A d \in Callers :
          \/ /\ HipShape(hipCalls'[d]) /\ StepsOf(hipCalls'[d])
             /\ Registered(d, hipCalls[d])'
          \/ /\ Same(hipCalls[d], hipCalls'[d])
             /\ d \in hipFilereg' => d \in hipFilereg
             /\ d \in hipBufreg' => d \in hipBufreg
    <3> SUFFICES ASSUME NEW d \in Callers
                 PROVE  \/ /\ HipShape(hipCalls'[d]) /\ StepsOf(hipCalls'[d])
                           /\ Registered(d, hipCalls[d])'
                        \/ /\ Same(hipCalls[d], hipCalls'[d])
                           /\ d \in hipFilereg' => d \in hipFilereg
                           /\ d \in hipBufreg' => d \in hipBufreg
      OBVIOUS
    <3>1. CASE d = c
      BY <2>4, <2>5, <2>6, <3>1
    <3>2. CASE d # c
      BY <1>3, <1>5, <3>2
    <3>3. QED
      BY <3>1, <3>2
  <2>8. QED
    BY <2>1, <2>2, <2>3, <2>7, HipKeeps
<1>7. SUFFICES ASSUME ~hipDoubled PROVE HipMemory'
  BY <1>3, <1>6 DEF HipInv
<1>8. HipMemory
  BY <1>7 DEF HipInv
<1>9. /\ ~Pending(c)' /\ ~Freeing(c)' /\ Leaving(c)' /\ HipMine(c)' = HipMine(c)
      /\ \A p : ~Settled(c, p)'
      /\ \A d \in Callers : d # c => /\ Pending(d)' <=> Pending(d)
                                     /\ Freeing(d)' <=> Freeing(d)
                                     /\ Leaving(d)' <=> Leaving(d)
                                     /\ HipMine(d)' = HipMine(d)
                                     /\ \A p : Settled(d, p)' => Settled(d, p)
  <2>1. k.parts[1].buf = HipMine(c)
    BY <1>4 DEF HipMine
  <2>2. QED
    BY <1>4, <1>5, <2>1, HipLeaves
<1>10. \A d \in Callers : /\ Pending(d)' <=> Pending(d)
                          /\ Leaving(d) => Leaving(d)'
                          /\ Leaving(d)' => Leaving(d) \/ d = c
                          /\ Freeing(d)' => Freeing(d)
                          /\ Freeing(d)' \/ Leaving(d)' <=> Freeing(d) \/ Leaving(d)
                          /\ HipMine(d)' = HipMine(d)
  BY <1>1, <1>9
<1>11. HipAlone'
  BY <1>8, <1>10 DEF HipMemory, HipAlone
<1>12. /\ h \in DOMAIN hipRegistry /\ h \in DOMAIN hipLive
       /\ \A d \in Callers : Pending(d) => HipMine(d).handle # h
  <2>1. h \in DOMAIN hipRegistry
    BY <1>1, <1>2, <1>8 DEF HipMemory, FreeingRegistered
  <2>2. ~\E d \in Callers : Leaving(d) /\ HipMine(d).handle = h
    BY <1>1, <1>2, <1>8 DEF HipMemory, HipAlone
  <2>3. QED
    BY <1>8, <2>1, <2>2 DEF HipMemory, EntriesLive
<1>13. /\ DOMAIN hipLive' = DOMAIN hipLive \ {h}
       /\ \A j \in DOMAIN hipLive' : hipLive'[j] = hipLive[j]
  BY <1>3
<1>14. EntriesLive'
  <2> SUFFICES ASSUME NEW j \in DOMAIN hipRegistry
               PROVE  (\/ \E d \in Callers : Leaving(d) /\ HipMine(d).handle = j
                       \/ /\ j \in DOMAIN hipLive /\ hipRegistry[j] = hipLive[j].len
                          /\ \A d \in Callers : Pending(d) => HipMine(d).handle # j)'
    BY <1>3 DEF EntriesLive
  <2>1. CASE j = h
    BY <1>2, <1>9, <2>1
  <2>2. CASE j # h
    BY <1>3, <1>8, <1>10, <1>13, <2>2 DEF HipMemory, EntriesLive
  <2>3. QED
    BY <2>1, <2>2
<1>15. PendingLive'
  BY <1>8, <1>10, <1>12, <1>13 DEF HipMemory, PendingLive
<1>16. FreeingRegistered'
  BY <1>3, <1>8, <1>10 DEF HipMemory, FreeingRegistered
<1>17. HeldLive'
  BY <1>2, <1>3, <1>8, <1>10, <1>13 DEF HipMemory, HeldLive
<1>18. Remembered'
  <2>1. \A a \in DOMAIN hipLive' : (\/ a \in DOMAIN hipRegistry
                                   \/ hipLive[a].serial \in hipLost
                                   \/ \E d \in Callers : Pending(d) /\ HipMine(d).handle = a)'
    BY <1>3, <1>8, <1>10, <1>13 DEF HipMemory, Remembered
  <2>2. \A d \in Callers : Leaving(d)' /\ HipMine(d).handle \in DOMAIN hipLive' => Leaving(d)
    BY <1>2, <1>10, <1>13
  <2>3. \A d \in Callers : Leaving(d)' /\ HipMine(d).handle \in DOMAIN hipLive' =>
          \/ hipLive'[HipMine(d).handle].serial \in hipLost'
          \/ \E e \in Callers : Pending(e)' /\ HipMine(e)'.handle = HipMine(d).handle
    BY <1>3, <1>8, <1>10, <1>13, <2>2 DEF HipMemory, Remembered
  <2>4. QED
    BY <1>10, <2>1, <2>3 DEF Remembered
<1>19. SettledLive'
  <2> SUFFICES ASSUME NEW d \in Callers, NEW p \in HipParts, Settled(d, p)' PROVE PartLive(p)'
    BY DEF SettledLive
  <2>1. d # c /\ Settled(d, p) /\ PartLive(p)
    BY <1>8, <1>9 DEF HipMemory, SettledLive
  <2>2. p.buf.handle # h
    <3> SUFFICES ASSUME p.buf.handle = h PROVE FALSE
      OBVIOUS
    <3>1. h \in Hip!Checked(hipCalls[d])
      BY <2>1 DEF Settled, Hip!Checked
    <3>2. h \in hipCalls'[d].raced
      BY <1>5, <2>1, <3>1
    <3>3. QED
      BY <3>2 DEF Settled
  <2>3. QED
    BY <1>10, <1>13, <2>1, <2>2 DEF PartLive
<1>20. QED
  BY <1>11, <1>14, <1>15, <1>16, <1>17, <1>18, <1>19 DEF HipMemory

\* Unregister: no buffer anybody has is that of the entry.
LEMMA UnregisterStep ==
    ASSUME HipInv, NEW c \in Callers, Hip!Unregister(c)
    PROVE  HipInv'
<1>1. /\ hipCalls[c].pc = "unregister" /\ hipCalls[c] \in HipCalls /\ hipCalls[c].op = "free"
      /\ ~Pending(c) /\ ~Freeing(c) /\ Leaving(c) /\ Hip!Mine(c) = HipMine(c)
  BY OneBuffer, HipFacts DEF Hip!Unregister, StepsOf
<1>2. PICK h : h = HipMine(c).handle
  OBVIOUS
<1>3. /\ hipLive' = hipLive /\ hipKnown' = hipKnown /\ hipHeld' = hipHeld
      /\ hipSerial' = hipSerial /\ hipLost' = hipLost /\ hipDoubled' = hipDoubled
      /\ hipErrors' = hipErrors /\ hipFilereg' = hipFilereg /\ hipBufreg' = hipBufreg
      /\ hipRegistry' = [j \in DOMAIN hipRegistry \ {h} |-> hipRegistry[j]]
      /\ hipCalls' = [hipCalls EXCEPT ![c] = Hip!Idle]
  BY <1>1, <1>2, HipAnswers DEF Hip!Unregister, Hip!Without
<1>4. /\ HipAlways' /\ hipCalls'[c] = Hip!Idle
      /\ \A d \in Callers : d # c => Same(hipCalls[d], hipCalls'[d])
  <2>1. IsMap(hipLive, Addresses, HipLives)' /\ IsMap(hipRegistry, Addresses, BufferSizes)'
    BY <1>3 DEF HipInv, HipAlways, HipTypes, IsMap
  <2>2. hipKnown' \subseteq HipHeld /\ hipHeld' \subseteq hipKnown' /\ hipDoubled' \in BOOLEAN
    BY <1>3 DEF HipInv, HipAlways, HipTypes
  <2>3. Registered(c, Hip!Idle)'
    BY <1>1, <1>3, HipFacts, HipIdle DEF Registered
  <2>4. QED
    BY <1>3, <2>1, <2>2, <2>3, HipIdle, HipCallKeeps
<1>5. SUFFICES ASSUME ~hipDoubled PROVE HipMemory'
  BY <1>3, <1>4 DEF HipInv
<1>6. HipMemory
  BY <1>5 DEF HipInv
<1>7. /\ ~Pending(c)' /\ ~Freeing(c)' /\ ~Leaving(c)' /\ \A p : ~Settled(c, p)'
      /\ \A d \in Callers : d # c => /\ Pending(d)' <=> Pending(d)
                                     /\ Freeing(d)' <=> Freeing(d)
                                     /\ Leaving(d)' <=> Leaving(d)
                                     /\ HipMine(d)' = HipMine(d)
                                     /\ \A p : Settled(d, p)' => Settled(d, p)
  BY <1>4, HipIdle, HipLeaves
<1>8. \A d \in Callers : (Freeing(d) \/ Leaving(d)) /\ HipMine(d).handle = h => d = c
  BY <1>1, <1>2, <1>6 DEF HipMemory, HipAlone
<1>9. \A d \in Callers : /\ Pending(d)' <=> Pending(d)
                         /\ Freeing(d)' <=> Freeing(d)
                         /\ Leaving(d)' <=> Leaving(d) /\ HipMine(d).handle # h
                         /\ Pending(d) \/ Freeing(d) \/ Leaving(d)' => HipMine(d)' = HipMine(d)
                         /\ Freeing(d) => HipMine(d).handle # h
  BY <1>1, <1>2, <1>7, <1>8
<1>10. /\ DOMAIN hipRegistry' = DOMAIN hipRegistry \ {h}
       /\ \A j \in DOMAIN hipRegistry' : hipRegistry'[j] = hipRegistry[j]
  BY <1>3
<1>11. HipAlone'
  BY <1>6, <1>9 DEF HipMemory, HipAlone
<1>12. EntriesLive'
  BY <1>3, <1>6, <1>9, <1>10 DEF HipMemory, EntriesLive
<1>13. PendingLive'
  BY <1>3, <1>6, <1>9 DEF HipMemory, PendingLive
<1>14. FreeingRegistered'
  BY <1>6, <1>9, <1>10 DEF HipMemory, FreeingRegistered
<1>15. HeldLive'
  <2>1. \A e \in hipHeld : e.handle # h
    BY <1>1, <1>2, <1>6 DEF HipMemory, HeldLive
  <2>2. QED
    BY <1>3, <1>6, <1>9, <1>10, <2>1 DEF HipMemory, HeldLive
<1>16. Remembered'
  <2>1. h \in DOMAIN hipLive => \/ hipLive[h].serial \in hipLost
                                \/ \E d \in Callers : Pending(d) /\ HipMine(d).handle = h
    BY <1>1, <1>2, <1>6 DEF HipMemory, Remembered
  <2>2. \A a \in DOMAIN hipLive : (\/ a \in DOMAIN hipRegistry
                                  \/ hipLive[a].serial \in hipLost
                                  \/ \E d \in Callers : Pending(d) /\ HipMine(d).handle = a)'
    BY <1>3, <1>6, <1>9, <1>10, <2>1 DEF HipMemory, Remembered
  <2>3. \A d \in Callers : Leaving(d)' /\ HipMine(d).handle \in DOMAIN hipLive =>
          \/ hipLive[HipMine(d).handle].serial \in hipLost
          \/ \E e \in Callers : Pending(e)' /\ HipMine(e)'.handle = HipMine(d).handle
    BY <1>6, <1>9 DEF HipMemory, Remembered
  <2>4. QED
    BY <1>3, <1>9, <2>2, <2>3 DEF Remembered
<1>17. SettledLive'
  <2> SUFFICES ASSUME NEW d \in Callers, NEW p \in HipParts, Settled(d, p)' PROVE PartLive(p)'
    BY DEF SettledLive
  <2>1. PartLive(p)
    BY <1>6, <1>7 DEF HipMemory, SettledLive
  <2>2. QED
    BY <1>3, <1>9, <2>1 DEF PartLive
<1>18. QED
  BY <1>11, <1>12, <1>13, <1>14, <1>15, <1>16, <1>17 DEF HipMemory

\* Drop: no allocate or free is under way, so the registry names all that is left, and
\* what a copy or file transfer was validated to use is raced.
LEMMA HipDropStep ==
    ASSUME HipInv, Hip!Drop
    PROVE  HipInv'
<1>1. /\ \A c \in Callers : hipCalls[c].pc = "idle" \/ hipCalls[c].op \in {"copy", "file"}
      /\ hipRegistry' = [j \in {} |-> j] /\ hipHeld' = {} /\ hipKnown' = hipKnown
      /\ hipCalls' = [c \in Callers |-> [hipCalls[c] EXCEPT !.raced = @ \cup Hip!Checked(hipCalls[c])]]
      /\ hipFilereg' = hipFilereg /\ hipBufreg' = hipBufreg
      /\ hipSerial' = hipSerial /\ hipDoubled' = hipDoubled
  BY DEF Hip!Drop, Hip!Ready, Hip!NoEntries
<1>2. PICK refused \in SUBSET DOMAIN hipRegistry :
        /\ hipErrors' = hipErrors + Hip!Cardinality(refused)
        /\ hipLost' = hipLost \cup {hipLive[a].serial : a \in refused \cap DOMAIN hipLive}
        /\ hipLive' = [j \in DOMAIN hipLive \ (DOMAIN hipRegistry \ refused) |-> hipLive[j]]
  BY DEF Hip!Drop, Hip!Without
<1>3. Hip!Cardinality(refused) \in Nat
  <2>1. refused \subseteq Addresses
    BY <1>2 DEF HipInv, HipAlways, HipTypes, IsMap
  <2>2. IsFiniteSet(refused)
    BY <2>1, HipConstants, FS_Subset
  <2>3. Cardinality(refused) \in Nat
    BY <2>2, FS_CardinalityType
  <2>4. QED
    BY <2>3 DEF Hip!Cardinality, Cardinality
<1>4. hipErrors' \in Nat /\ hipErrors' >= hipErrors
  BY <1>2, <1>3 DEF HipInv, HipAlways, HipTypes
<1>5. \A d \in Callers :
        /\ hipCalls'[d] \in HipCalls /\ Same(hipCalls[d], hipCalls'[d])
        /\ hipCalls'[d].raced = hipCalls[d].raced \cup Hip!Checked(hipCalls[d])
  <2> SUFFICES ASSUME NEW d \in Callers
               PROVE  /\ hipCalls'[d] \in HipCalls /\ Same(hipCalls[d], hipCalls'[d])
                      /\ hipCalls'[d].raced = hipCalls[d].raced \cup Hip!Checked(hipCalls[d])
    OBVIOUS
  <2>1. PICK x : x = hipCalls[d].raced \cup Hip!Checked(hipCalls[d])
    OBVIOUS
  <2>2. hipCalls[d] \in HipCalls
    BY HipFacts
  <2>3. hipCalls'[d] = [hipCalls[d] EXCEPT !.raced = x]
    BY <1>1, <2>1
  <2>4. x \in SUBSET Addresses
    <3>1. hipCalls[d].raced \subseteq Addresses /\ hipCalls[d].parts \in Seq(HipParts)
      BY <2>2 DEF HipCalls
    <3>2. \A i \in DOMAIN hipCalls[d].parts : hipCalls[d].parts[i].buf.handle \in Addresses
      <4> SUFFICES ASSUME NEW i \in DOMAIN hipCalls[d].parts
                   PROVE  hipCalls[d].parts[i].buf.handle \in Addresses
        OBVIOUS
      <4>1. hipCalls[d].parts[i] \in HipParts
        BY <3>1
      <4>2. QED
        BY <4>1 DEF HipParts, HipBuffers
    <3>3. Hip!Checked(hipCalls[d]) \subseteq Addresses
      BY <3>2 DEF Hip!Checked
    <3>4. QED
      BY <2>1, <3>1, <3>3
  <2>5. hipCalls'[d] \in HipCalls
    BY <2>2, <2>3, <2>4 DEF HipCalls
  <2>6. /\ hipCalls'[d].pc = hipCalls[d].pc /\ hipCalls'[d].op = hipCalls[d].op
        /\ hipCalls'[d].parts = hipCalls[d].parts /\ hipCalls'[d].checked = hipCalls[d].checked
        /\ hipCalls'[d].moved = hipCalls[d].moved /\ hipCalls'[d].res = hipCalls[d].res
        /\ hipCalls'[d].raced = x
    BY <2>2, <2>3 DEF HipCalls
  <2>7. QED
    BY <2>1, <2>5, <2>6 DEF Same
<1>6. HipAlways'
  <2>1. hipCalls' \in [Callers -> HipCalls]
    BY <1>1, <1>5
  <2>2. IsMap(hipLive, Addresses, HipLives)' /\ IsMap(hipRegistry, Addresses, BufferSizes)'
    BY <1>1, <1>2 DEF HipInv, HipAlways, HipTypes, IsMap
  <2>3. /\ hipKnown' \subseteq HipHeld /\ hipHeld' \subseteq hipKnown' /\ hipDoubled' \in BOOLEAN
        /\ hipFilereg' \subseteq Callers /\ hipBufreg' \subseteq Callers /\ hipSerial' \in Nat
    BY <1>1 DEF HipInv, HipAlways, HipTypes
  <2>4. QED
    BY <1>1, <1>4, <1>5, <2>1, <2>2, <2>3, HipKeeps
<1>7. SUFFICES ASSUME ~hipDoubled PROVE HipMemory'
  BY <1>1, <1>6 DEF HipInv
<1>8. HipMemory
  BY <1>7 DEF HipInv
<1>9. \A d \in Callers : ~Pending(d) /\ ~Pending(d)' /\ ~Freeing(d)' /\ ~Leaving(d)'
  <2> SUFFICES ASSUME NEW d \in Callers
               PROVE  ~Pending(d) /\ ~Pending(d)' /\ ~Freeing(d)' /\ ~Leaving(d)'
    OBVIOUS
  <2>1. hipCalls[d].pc \notin {"insert", "undo", "hipfree", "unregister"}
    BY <1>1, HipFacts DEF StepsOf
  <2>2. hipCalls'[d].pc = hipCalls[d].pc
    BY <1>5 DEF Same
  <2>3. QED
    BY <2>1, <2>2 DEF Pending, Freeing, Leaving
<1>10. HipAlone' /\ PendingLive' /\ FreeingRegistered'
  BY <1>9 DEF HipAlone, PendingLive, FreeingRegistered
<1>11. EntriesLive' /\ HeldLive'
  BY <1>1 DEF EntriesLive, HeldLive
<1>12. Remembered'
  <2>1. \A a \in DOMAIN hipLive : a \in DOMAIN hipRegistry \/ hipLive[a].serial \in hipLost
    BY <1>8, <1>9 DEF HipMemory, Remembered
  <2>2. \A a \in DOMAIN hipLive' : hipLive'[a].serial \in hipLost'
    BY <1>2, <2>1
  <2>3. QED
    BY <1>9, <2>2 DEF Remembered
<1>13. SettledLive'
  <2> SUFFICES ASSUME NEW d \in Callers, NEW p \in HipParts, Settled(d, p)' PROVE FALSE
    BY DEF SettledLive
  <2>1. PICK i \in DOMAIN hipCalls'[d].parts :
          /\ hipCalls'[d].pc = "validate" => i <= hipCalls'[d].checked
          /\ p = hipCalls'[d].parts[i] /\ p.buf.handle \notin hipCalls'[d].raced
    BY DEF Settled
  <2>2. /\ hipCalls'[d].pc = hipCalls[d].pc /\ hipCalls'[d].parts = hipCalls[d].parts
        /\ hipCalls'[d].checked = hipCalls[d].checked
    BY <1>5 DEF Same
  <2>3. p.buf.handle \in Hip!Checked(hipCalls[d])
    BY <2>1, <2>2 DEF Hip!Checked
  <2>4. QED
    BY <1>5, <2>1, <2>3
<1>14. QED
  BY <1>10, <1>11, <1>12, <1>13 DEF HipMemory

\* Every step keeps the invariant.
LEMMA NextHip == HipInv /\ (Hip!Next \/ UNCHANGED hipVars) => HipInv'
<1> SUFFICES ASSUME HipInv, Hip!Next \/ UNCHANGED hipVars PROVE HipInv'
  OBVIOUS
<1>1. CASE UNCHANGED hipVars
  <2>1. /\ hipLive' = hipLive /\ hipRegistry' = hipRegistry /\ hipHeld' = hipHeld
        /\ hipKnown' = hipKnown /\ hipCalls' = hipCalls /\ hipFilereg' = hipFilereg
        /\ hipBufreg' = hipBufreg /\ hipSerial' = hipSerial /\ hipErrors' = hipErrors
        /\ hipLost' = hipLost /\ hipDoubled' = hipDoubled
    BY <1>1 DEF hipVars
  <2>2. HipAlways'
    BY <2>1, HipFacts DEF HipInv, HipAlways, HipTypes, IsMap, HipShape, StepsOf, Registered
  <2>3. \A d \in Callers : /\ Pending(d)' <=> Pending(d)
                           /\ Freeing(d)' <=> Freeing(d)
                           /\ Leaving(d)' <=> Leaving(d)
                           /\ HipMine(d)' = HipMine(d)
                           /\ \A p : Settled(d, p)' <=> Settled(d, p)
    BY <2>1 DEF Pending, Freeing, Leaving, HipMine, Settled
  <2>4. HipMemory => HipMemory'
    <3>1. HipAlone => HipAlone'
      BY <2>3 DEF HipAlone
    <3>2. /\ EntriesLive => EntriesLive'
          /\ PendingLive => PendingLive'
          /\ FreeingRegistered => FreeingRegistered'
          /\ HeldLive => HeldLive'
      BY <2>1, <2>3 DEF EntriesLive, PendingLive, FreeingRegistered, HeldLive
    <3>3. Remembered => Remembered'
      BY <2>1, <2>3 DEF Remembered
    <3>4. SettledLive => SettledLive'
      BY <2>1, <2>3 DEF SettledLive, PartLive
    <3>5. QED
      BY <3>1, <3>2, <3>3, <3>4 DEF HipMemory
  <2>5. QED
    BY <2>1, <2>2, <2>4 DEF HipInv
<1>2. CASE \E c \in Callers :
              \/ \E n \in BufferSizes : Hip!HipMalloc(c, n)
              \/ Hip!Insert(c) \/ Hip!Undo(c)
              \/ Hip!HipMemcpy(c) \/ Hip!HipFree(c) \/ Hip!HipFreeFails(c) \/ Hip!Unregister(c)
              \/ Hip!ValidateRange(c)
              \/ Hip!RegisterFile(c) \/ Hip!RegisterBuffer(c) \/ Hip!Move(c)
              \/ Hip!DeregisterBuffer(c) \/ Hip!DeregisterFile(c)
  BY <1>2, MallocStep, RegisterStep, UndoStep, NativeEnds, HipFreeStep, UnregisterStep,
     ValidateStep, FileSteps
<1>3. CASE \E c \in Callers : \E b \in hipKnown :
              \/ Hip!Transfer(c, b) \/ Hip!Free(c, b)
              \/ \E range \in BufferRanges : Hip!FileTransfer(c, b, range[1], range[2])
              \/ \E d \in hipKnown, from \in BufferRanges, to \in BufferRanges :
                   from[2] = to[2] /\ Hip!CopyDeviceRange(c, b, d, from[1], to[1], to[2])
  BY <1>3, TransferStep, FreeStep, RangeSteps
<1>4. CASE Hip!Drop
  BY <1>4, HipDropStep
<1>5. QED
  BY <1>1, <1>2, <1>3, <1>4 DEF Hip!Next

\* The invariant implies what the run checks.
LEMMA HipSafe == HipInv => Hip!Safety
<1> SUFFICES ASSUME HipInv PROVE Hip!Safety
  OBVIOUS
<1>1. Hip!TypeOK
  <2>1. Hip!IsMap(hipLive, Addresses, [len : BufferSizes, serial : 1..MaxAllocs])
    BY DEF HipInv, HipAlways, HipTypes, HipLives, IsMap, Hip!IsMap
  <2>2. Hip!IsMap(hipRegistry, Addresses, BufferSizes)
    BY DEF HipInv, HipAlways, HipTypes, IsMap, Hip!IsMap
  <2>3. \A c \in Callers : /\ hipCalls[c].res \in {"none", "ok", "error"}
                           /\ hipCalls[c].moved \in {"all", "some", "none"}
    BY HipFacts DEF HipCalls
  <2>4. /\ \A b \in hipKnown : b.handle \in Addresses /\ b.len \in BufferSizes /\ b.serial \in 1..MaxAllocs
        /\ hipHeld \subseteq hipKnown /\ hipFilereg \subseteq Callers /\ hipBufreg \subseteq Callers
    BY DEF HipInv, HipAlways, HipTypes, HipHeld
  <2>5. QED
    BY <2>1, <2>2, <2>3, <2>4 DEF Hip!TypeOK
<1>2. ASSUME ~hipDoubled PROVE Hip!LiveWhenUsed
  <2> SUFFICES ASSUME NEW c \in Callers, hipCalls[c].pc \in Hip!Native,
                      NEW p \in Hip!ToSet(hipCalls[c].parts), p.buf.handle \notin hipCalls[c].raced
               PROVE  /\ p.buf.handle \in DOMAIN hipLive
                      /\ p.off + p.bytes <= hipLive[p.buf.handle].len
    BY DEF Hip!LiveWhenUsed
  <2>1. PICK i \in DOMAIN hipCalls[c].parts : p = hipCalls[c].parts[i]
    BY DEF Hip!ToSet
  <2>2. p \in HipParts
    BY <2>1, HipFacts DEF HipCalls
  <2>3. Settled(c, p)
    BY <2>1 DEF Hip!Native, Settled
  <2>4. PartLive(p)
    BY <1>2, <2>2, <2>3 DEF HipInv, HipMemory, SettledLive
  <2>5. QED
    BY <2>4 DEF PartLive
<1>3. ASSUME ~hipDoubled PROVE Hip!OwnersRegistered
  BY <1>3 DEF HipInv, HipMemory, HeldLive, Hip!OwnersRegistered, Hip!Validated
<1>4. ASSUME ~hipDoubled PROVE Hip!NothingForgotten
  BY <1>4 DEF HipInv, HipMemory, Remembered, Pending, HipMine, Hip!Mine, Hip!NothingForgotten
<1>5. Hip!RegistrationsReturned
  BY HipFacts DEF Registered, Hip!Ready, Hip!RegistrationsReturned
<1>6. Hip!OkMeansMoved
  BY HipFacts DEF StepsOf, Hip!Ready, Hip!OkMeansMoved
<1>7. QED
  BY <1>1, <1>2, <1>3, <1>4, <1>5, <1>6 DEF Hip!Safety

\* Whoever shares, frees and drops them: native calls of HipDeviceMemory and HipDirectIo
\* are made inside live memory except where a free of the handle comes between, nothing
\* allocated is forgotten while no two frees of one handle overlap, and nothing that was
\* registered with hipFile is.
THEOREM HipMemoryAlwaysSafe == MCSpec => []HipMemorySafe
<1>1. MCInit => HipInv
  BY InitHip DEF MCInit
<1>2. HipInv /\ [MCNext]_mcVars => HipInv'
  <2>1. [MCNext]_mcVars => Hip!Next \/ UNCHANGED hipVars
    BY DEF MCNext, Still, mcVars
  <2>2. QED
    BY <2>1, NextHip
<1>3. HipInv => HipMemorySafe
  BY HipSafe DEF HipMemorySafe
<1>4. QED
  BY <1>1, <1>2, <1>3, PTL DEF MCSpec

=============================================================================
