------------------------ MODULE ContextCacheProofs ------------------------
(***************************************************************************)
(* Invariants of ContextCache for any keys, values, sizes, capacities,     *)
(* threads and faults; and, in the last section, of a KvEngine over a      *)
(* ContextCacheTier.                                                       *)
(***************************************************************************)
EXTENDS ContextCacheTier, BytesProofs

-----------------------------------------------------------------------------
(* The memory tier.                                                        *)

Accounted(m) == m.bytes = Total(DOMAIN m.recs, MemorySize(m.recs))
Bounded(m) == m.bytes <= MaxMemory \/ Unpinned(m.recs) = {}

\* Every record of m is a record of n.
RecordsFrom(m, n) ==
    \A k \in DOMAIN m.recs : k \in DOMAIN n.recs /\ m.recs[k] = n.recs[k]

\* Sizes of resident records are naturals over a finite set of keys.
LEMMA MemorySizes ==
    ASSUME NEW m, MemoryTier(m)
    PROVE  /\ IsFiniteSet(DOMAIN m.recs)
           /\ \A k \in DOMAIN m.recs : MemorySize(m.recs)[k] \in Nat
<1>1. IsFiniteSet(DOMAIN m.recs)
  BY KeysAssumption, FS_Subset DEF MemoryTier, IsMap
<1>2. ASSUME NEW k \in DOMAIN m.recs PROVE MemorySize(m.recs)[k] \in Nat
  <2>1. m.recs[k] \in MemoryRecord
    BY DEF MemoryTier, IsMap
  <2>2. m.recs[k].value \in Values
    BY <2>1 DEF MemoryRecord
  <2>3. QED
    BY <2>2, SizeAssumption DEF MemorySize
<1>3. QED
  BY <1>1, <1>2

\* Removing records keeps the tier well formed and its counter exact.
LEMMA DropMemoryKeeps ==
    ASSUME NEW m, MemoryTier(m), NEW S
    PROVE  /\ MemoryTier(DropMemory(m, S))
           /\ RecordsFrom(DropMemory(m, S), m)
           /\ DOMAIN DropMemory(m, S).recs = DOMAIN m.recs \ S
           /\ Accounted(m) => Accounted(DropMemory(m, S))
           /\ Accounted(m) =>
                DropMemory(m, S).bytes =
                  m.bytes - Total(S \cap DOMAIN m.recs, MemorySize(m.recs))
<1> DEFINE D == DOMAIN m.recs
           size == MemorySize(m.recs)
           gone == S \cap D
           n == DropMemory(m, S)
<1>1. /\ n.recs = Without(m.recs, S)
      /\ n.bytes = SaturatingSub(m.bytes, Total(gone, size))
      /\ n.order = Forget(m.order, S)
      /\ n = [recs |-> n.recs, bytes |-> n.bytes, order |-> n.order]
  BY DEF DropMemory
<1>2. DOMAIN n.recs = D \ S /\ \A k \in D \ S : n.recs[k] = m.recs[k]
  BY <1>1 DEF Without
<1>3. IsMap(n.recs, Keys, MemoryRecord)
  BY <1>1, <1>2 DEF MemoryTier, IsMap, Without
<1>4. IsFiniteSet(D) /\ \A k \in D : size[k] \in Nat
  BY MemorySizes
<1>5. IsFiniteSet(gone) /\ IsFiniteSet(D \ gone)
  BY <1>4, FS_Subset
<1>6. Total(gone, size) \in Nat /\ Total(D \ gone, size) \in Nat
  BY <1>4, <1>5, TotalType
<1>7. MemoryTier(n)
  <2>1. n.bytes \in Nat
    BY <1>1, <1>6 DEF MemoryTier, SaturatingSub
  <2>2. n.order \subseteq Keys \X Keys
    BY <1>1 DEF MemoryTier, Forget
  <2>3. QED
    BY <1>1, <1>3, <2>1, <2>2 DEF MemoryTier
<1>8. Total(D, size) = Total(D \ gone, size) + Total(gone, size)
  BY <1>4, TotalSplit
<1>9. Total(D \ gone, MemorySize(n.recs)) = Total(D \ gone, size)
  <2>1. \A k \in D \ gone : MemorySize(n.recs)[k] = size[k]
    BY <1>2 DEF MemorySize
  <2>2. QED
    BY <2>1, TotalCongruence
<1>10. D \ S = D \ gone
  OBVIOUS
<1>11. ASSUME Accounted(m)
       PROVE  n.bytes = m.bytes - Total(gone, size) /\ n.bytes = Total(D \ gone, size)
  <2>1. m.bytes = Total(D, size)
    BY <1>11 DEF Accounted
  <2>2. QED
    BY <2>1, <1>1, <1>6, <1>8 DEF SaturatingSub
<1>12. Accounted(m) => Accounted(n)
  <2>1. DOMAIN n.recs = D \ gone
    BY <1>2, <1>10
  <2>2. QED
    BY <1>9, <1>11, <2>1 DEF Accounted
<1>13. RecordsFrom(n, m)
  BY <1>2 DEF RecordsFrom
<1>14. QED
  BY <1>2, <1>7, <1>11, <1>12, <1>13

\* Removing records leaves the memory tier within its quota.
LEMMA DropMemoryBounded ==
    ASSUME NEW m, MemoryTier(m), Bounded(m), NEW S
    PROVE  Bounded(DropMemory(m, S))
<1> DEFINE n == DropMemory(m, S)
           gone == S \cap DOMAIN m.recs
<1>1. MemoryTier(n) /\ RecordsFrom(n, m)
  BY DropMemoryKeeps
<1>2. CASE Unpinned(m.recs) = {}
  BY <1>1, <1>2 DEF Bounded, Unpinned, RecordsFrom
<1>3. CASE m.bytes <= MaxMemory
  <2>1. IsFiniteSet(gone) /\ \A k \in gone : MemorySize(m.recs)[k] \in Nat
    BY FS_Subset, MemorySizes
  <2>2. Total(gone, MemorySize(m.recs)) \in Nat
    BY <2>1, TotalType
  <2>3. n.bytes <= m.bytes
    BY <2>2 DEF DropMemory, SaturatingSub, MemoryTier
  <2>4. QED
    BY <1>1, <1>3, <2>3, CapacityAssumption DEF Bounded, MemoryTier
<1>4. QED
  BY <1>2, <1>3 DEF Bounded

\* Inserting a record keeps the counter exact: the previous record of the key
\* is taken off before the new one is added.
LEMMA InsertMemoryKeeps ==
    ASSUME NEW m, MemoryTier(m), NEW k \in Keys, NEW r \in MemoryRecord
    PROVE  LET n == InsertMemory(m, k, r)
           IN  /\ MemoryTier(n)
               /\ DOMAIN n.recs = DOMAIN m.recs \cup {k}
               /\ n.recs[k] = r
               /\ \A j \in DOMAIN m.recs \ {k} : n.recs[j] = m.recs[j]
               /\ Accounted(m) => Accounted(n)
<1> DEFINE c == DropMemory(m, {k})
           n == InsertMemory(m, k, r)
           D == DOMAIN c.recs
           size == MemorySize(n.recs)
<1>1. /\ MemoryTier(c)
      /\ RecordsFrom(c, m)
      /\ D = DOMAIN m.recs \ {k}
      /\ Accounted(m) => Accounted(c)
  BY DropMemoryKeeps
<1>2. /\ n.recs = With(c.recs, k, r)
      /\ n.bytes = c.bytes + Size[r.value]
      /\ n.order = Touch(c.order, k, D)
      /\ n = [recs |-> n.recs, bytes |-> n.bytes, order |-> n.order]
  BY DEF InsertMemory
<1> HIDE DEF c, n
<1>3. r.value \in Values /\ Size[r.value] \in Nat
  BY SizeAssumption DEF MemoryRecord
<1>4. /\ DOMAIN n.recs = D \cup {k}
      /\ n.recs[k] = r
      /\ \A j \in D : n.recs[j] = c.recs[j]
  BY <1>1, <1>2 DEF With
<1>5. MemoryTier(n)
  <2>1. IsMap(n.recs, Keys, MemoryRecord)
    BY <1>1, <1>2 DEF MemoryTier, IsMap, With
  <2>2. n.bytes \in Nat
    BY <1>1, <1>2, <1>3 DEF MemoryTier
  <2>3. n.order \subseteq Keys \X Keys
    BY <1>1, <1>2 DEF MemoryTier, IsMap, Touch, Forget
  <2>4. QED
    BY <1>2, <2>1, <2>2, <2>3 DEF MemoryTier
<1>6. Accounted(c) => Accounted(n)
  <2>1. IsFiniteSet(D \cup {k}) /\ \A j \in D \cup {k} : size[j] \in Nat
    BY <1>4, <1>5, MemorySizes
  <2>2. Total(D \cup {k}, size) = Total((D \cup {k}) \ {k}, size) + Total({k}, size)
    BY <2>1, TotalSplit
  <2>3. (D \cup {k}) \ {k} = D
    BY <1>1
  <2>4. Total({k}, size) = Size[r.value]
    <3>1. size[k] = Size[r.value]
      BY <1>4 DEF MemorySize
    <3>2. QED
      BY <1>3, <3>1, TotalOfOne
  <2>5. Total(D, size) = Total(D, MemorySize(c.recs))
    <3>1. \A j \in D : size[j] = MemorySize(c.recs)[j]
      BY <1>4 DEF MemorySize
    <3>2. QED
      BY <3>1, TotalCongruence
  <2>6. Total(D \cup {k}, size) = Total(D, MemorySize(c.recs)) + Size[r.value]
    BY <2>2, <2>3, <2>4, <2>5
  <2>7. QED
    BY <1>2, <1>4, <2>6 DEF Accounted
<1>7. QED
  BY <1>1, <1>4, <1>5, <1>6 DEF n, RecordsFrom

\* Eviction ends with the tier under its quota or with pinned records only.
LEMMA EvictMemoryKeeps ==
    ASSUME NEW m, MemoryTier(m), Accounted(m), NEW n \in EvictMemory(m)
    PROVE  /\ MemoryTier(n)
           /\ RecordsFrom(n, m)
           /\ Accounted(n)
           /\ Bounded(n)
<1> DEFINE U == Unpinned(m.recs)
           size == MemorySize(m.recs)
<1>1. PICK E \in Evictions(U, m.order, size, m.bytes, MaxMemory) : n = DropMemory(m, E)
  BY DEF EvictMemory
<1>2. /\ E \subseteq U
      /\ SaturatingSub(m.bytes, Total(E, size)) <= MaxMemory \/ E = U
  BY DEF Evictions
<1>3. E \cap DOMAIN m.recs = E
  BY <1>2 DEF Unpinned
<1>4. /\ MemoryTier(n)
      /\ RecordsFrom(n, m)
      /\ DOMAIN n.recs = DOMAIN m.recs \ E
      /\ Accounted(n)
      /\ n.bytes = m.bytes - Total(E \cap DOMAIN m.recs, size)
  BY <1>1, DropMemoryKeeps
<1>5. CASE E = U
  <2>1. Unpinned(n.recs) = {}
    BY <1>4, <1>5 DEF Unpinned, RecordsFrom
  <2>2. QED
    BY <1>4, <2>1 DEF Bounded
<1>6. CASE SaturatingSub(m.bytes, Total(E, size)) <= MaxMemory
  <2>1. n.bytes = SaturatingSub(m.bytes, Total(E, size))
    BY <1>1, <1>3 DEF DropMemory
  <2>2. QED
    BY <1>4, <1>6, <2>1 DEF Bounded
<1>7. QED
  BY <1>2, <1>5, <1>6

\* What put and a promotion leave in memory: the new record and records that
\* were there before.
LEMMA RememberKeeps ==
    ASSUME NEW m, MemoryTier(m), Accounted(m), Bounded(m),
           NEW k \in Keys, NEW r \in MemoryRecord, NEW n \in Remember(m, k, r)
    PROVE  /\ MemoryTier(n)
           /\ Accounted(n)
           /\ Bounded(n)
           /\ \A j \in DOMAIN n.recs :
                \/ j = k /\ n.recs[j] = r
                \/ j \in DOMAIN m.recs /\ n.recs[j] = m.recs[j]
<1>1. CASE n = m
  BY <1>1
<1>2. CASE n \in EvictMemory(InsertMemory(m, k, r))
  <2> DEFINE i == InsertMemory(m, k, r)
  <2>1. /\ MemoryTier(i) /\ Accounted(i)
        /\ DOMAIN i.recs = DOMAIN m.recs \cup {k}
        /\ i.recs[k] = r
        /\ \A j \in DOMAIN m.recs \ {k} : i.recs[j] = m.recs[j]
    BY InsertMemoryKeeps
  <2>2. MemoryTier(n) /\ Accounted(n) /\ Bounded(n) /\ RecordsFrom(n, i)
    BY <1>2, <2>1, EvictMemoryKeeps
  <2> HIDE DEF i
  <2>3. QED
    BY <2>1, <2>2 DEF RecordsFrom
<1>3. QED
  BY <1>1, <1>2 DEF Remember

-----------------------------------------------------------------------------
(* The disk tier.                                                          *)

\* Every file of c is a file of d, with its payload.
FilesFrom(c, d) ==
    \A k \in DOMAIN c.files : k \in DOMAIN d.files /\ c.files[k].value = d.files[k].value

\* Dropping index records keeps the disk tier well formed and touches no file.
LEMMA DropIndexedKeeps ==
    ASSUME NEW d, DiskTier(d), NEW S
    PROVE  DiskTier(DropIndexed(d, S)) /\ DropIndexed(d, S).files = d.files
<1> DEFINE c == DropIndexed(d, S)
           gone == S \cap DOMAIN d.index
           size == IndexSize(d.index)
<1>1. c = [index |-> Without(d.index, S),
           bytes |-> SaturatingSub(d.bytes, Total(gone, size)),
           order |-> Forget(d.order, S), files |-> d.files, lost |-> d.lost]
  BY DEF DropIndexed, DiskTier
<1>2. IsFiniteSet(gone)
  <2>1. gone \subseteq Keys
    BY DEF DiskTier, IsMap
  <2>2. QED
    BY <2>1, KeysAssumption, FS_Subset
<1>3. \A k \in gone : size[k] \in Nat
  BY DEF DiskTier, IsMap, IndexSize, StoreRecord
<1>4. Total(gone, size) \in Nat
  BY <1>2, <1>3, TotalType
<1>5. c.bytes \in Nat
  BY <1>1, <1>4 DEF SaturatingSub, DiskTier
<1>6. IsMap(c.index, Keys, StoreRecord)
  BY <1>1 DEF DiskTier, IsMap, Without
<1>7. c.order \subseteq Keys \X Keys
  BY <1>1 DEF DiskTier, Forget
<1> HIDE DEF c
<1>8. c.files = d.files /\ IsMap(c.files, Keys, StoredEntry) /\ c.lost \in Nat
  BY <1>1 DEF DiskTier
<1>9. c = [index |-> c.index, bytes |-> c.bytes, order |-> c.order, files |-> c.files,
           lost |-> c.lost]
  BY <1>1
<1>10. QED
  BY <1>5, <1>6, <1>7, <1>8, <1>9 DEF DiskTier, c

\* Removing files keeps the disk tier well formed and brings no file back.
LEMMA UnlinkKeeps ==
    ASSUME NEW d, DiskTier(d), NEW S
    PROVE  /\ DiskTier(Unlink(d, S))
           /\ FilesFrom(Unlink(d, S), d)
           /\ DOMAIN Unlink(d, S).files = DOMAIN d.files \ S
<1>1. Unlink(d, S) = [index |-> d.index, bytes |-> d.bytes, order |-> d.order,
                      files |-> Without(d.files, S), lost |-> d.lost]
  BY DEF Unlink, DiskTier
<1>2. IsMap(Without(d.files, S), Keys, StoredEntry)
  BY DEF DiskTier, IsMap, Without
<1>3. DOMAIN Without(d.files, S) = DOMAIN d.files \ S
  BY DEF Without
<1>4. \A k \in DOMAIN d.files \ S : Without(d.files, S)[k] = d.files[k]
  BY DEF Without
<1>5. QED
  BY <1>1, <1>2, <1>3, <1>4 DEF DiskTier, FilesFrom

\* Dropping one index record alone (a removal the store then refused) touches no
\* file.
LEMMA UnindexedKeeps ==
    ASSUME NEW d, DiskTier(d), NEW k \in DOMAIN d.index
    PROVE  DiskTier(Unindexed(d, k)) /\ Unindexed(d, k).files = d.files
<1> DEFINE missed == d.lost + d.index[k].bytes
<1>1. Unindexed(d, k) = [index |-> Without(d.index, {k}), bytes |-> d.bytes,
                         order |-> Forget(d.order, {k}), files |-> d.files,
                         lost |-> missed]
  BY DEF Unindexed, DiskTier
<1>2. IsMap(Without(d.index, {k}), Keys, StoreRecord)
  BY DEF DiskTier, IsMap, Without
<1>3. Forget(d.order, {k}) \subseteq Keys \X Keys
  BY DEF DiskTier, Forget
<1>4. missed \in Nat
  BY DEF DiskTier, IsMap, StoreRecord
<1> HIDE DEF missed
<1>5. QED
  BY <1>1, <1>2, <1>3, <1>4, SMTT(20) DEF DiskTier

\* Dropping records with their files, as eviction does, brings no file back.
LEMMA DropFilesKeeps ==
    ASSUME NEW d, DiskTier(d), NEW S
    PROVE  /\ DiskTier(Unlink(DropIndexed(d, S), S))
           /\ FilesFrom(Unlink(DropIndexed(d, S), S), d)
<1> DEFINE c == DropIndexed(d, S)
<1>1. DiskTier(c) /\ c.files = d.files
  BY DropIndexedKeeps
<1> HIDE DEF c
<1>2. DiskTier(Unlink(c, S)) /\ FilesFrom(Unlink(c, S), c)
  BY <1>1, UnlinkKeeps
<1>3. QED
  BY <1>1, <1>2 DEF FilesFrom, c

\* Removing, expiring and evicting records never adds or changes a file.
LEMMA RemoveDiskRecordKeeps ==
    ASSUME NEW d, DiskTier(d), NEW k, NEW r \in RemoveDiskRecord(d, k)
    PROVE  DiskTier(r.d) /\ FilesFrom(r.d, d)
<1>1. \/ r.d = d
      \/ r.d = Unlink(DropIndexed(d, {k}), {k})
      \/ k \in DOMAIN d.index /\ r.d = Unindexed(d, k)
  BY DEF RemoveDiskRecord, Outcome, Failing
<1>2. CASE r.d = d
  BY <1>2 DEF FilesFrom
<1>3. CASE r.d = Unlink(DropIndexed(d, {k}), {k})
  BY <1>3, DropIndexedKeeps, UnlinkKeeps DEF FilesFrom
<1>4. CASE k \in DOMAIN d.index /\ r.d = Unindexed(d, k)
  BY <1>4, UnindexedKeeps DEF FilesFrom
<1>5. QED
  BY <1>1, <1>2, <1>3, <1>4

\* evict_disk_locked, whether or not the store fails on the way, only removes
\* files.
LEMMA EvictDiskKeeps ==
    ASSUME NEW d, DiskTier(d), NEW r \in EvictDisk(d)
    PROVE  DiskTier(r.d) /\ FilesFrom(r.d, d) /\ r.ok \in BOOLEAN
<1>1. ASSUME NEW S
      PROVE  /\ DiskTier(Unlink(DropIndexed(d, S), S))
             /\ FilesFrom(Unlink(DropIndexed(d, S), S), d)
  BY DropIndexedKeeps, UnlinkKeeps DEF FilesFrom
<1>2. /\ r.ok \in BOOLEAN
      /\ \/ \E E : r.d = Unlink(DropIndexed(d, E), E)
         \/ \E E, last : /\ last \in DOMAIN d.index \ E
                          /\ r.d = Unindexed(Unlink(DropIndexed(d, E), E), last)
  <2> DEFINE U == Unpinned(d.index)
             size == IndexSize(d.index)
             part(E, last) == Unindexed(Unlink(DropIndexed(d, E \ {last}), E \ {last}), last)
             Last(E) == {last \in E : Reached(E, last, U, d.order, size, d.bytes, MaxDisk)}
  <2>1. CASE r \in {Outcome(Unlink(DropIndexed(d, E), E), TRUE) :
                      E \in Evictions(U, d.order, size, d.bytes, MaxDisk)}
    <3>1. PICK E : r = Outcome(Unlink(DropIndexed(d, E), E), TRUE)
      BY <2>1
    <3>2. r.d = Unlink(DropIndexed(d, E), E) /\ r.ok = TRUE
      BY <3>1 DEF Outcome
    <3>3. QED
      BY <3>2
  <2>2. CASE r \in UNION {UNION {Failing("remove", part(E, last)) : last \in Last(E)}
                          : E \in SUBSET U}
    <3>0. PICK E \in SUBSET U : r \in UNION {Failing("remove", part(E, last)) : last \in Last(E)}
      BY <2>2
    <3>1. PICK last \in Last(E) : r \in Failing("remove", part(E, last))
      BY <3>0
    <3>2. r.d = part(E, last) /\ r.ok = FALSE /\ last \in DOMAIN d.index \ (E \ {last})
      BY <3>1 DEF Failing, Outcome, Unpinned
    <3>3. QED
      BY <3>2
  <2>3. QED
    BY <2>1, <2>2 DEF EvictDisk
<1>3. ASSUME NEW E, NEW last \in DOMAIN d.index \ E
      PROVE  last \in DOMAIN Unlink(DropIndexed(d, E), E).index
  BY DEF Unlink, DropIndexed, Without
<1>4. QED
  BY <1>1, <1>2, <1>3, UnindexedKeeps DEF FilesFrom

\* The locked insertion of put adds the one file it writes.
LEMMA InsertedKeeps ==
    ASSUME NEW d, DiskTier(d), NEW k \in Keys, NEW e \in StoredEntry
    PROVE  /\ DiskTier(Inserted(d, k, e))
           /\ \A j \in DOMAIN Inserted(d, k, e).files :
                \/ j = k /\ Inserted(d, k, e).files[j] = e
                \/ j \in DOMAIN d.files /\ Inserted(d, k, e).files[j] = d.files[j]
<1> DEFINE stored == Header + Size[e.value]
           rec == [bytes |-> stored, expires |-> e.expires, pinned |-> e.pinned]
<1>1. Inserted(d, k, e) = [index |-> With(d.index, k, rec), bytes |-> d.bytes + stored,
                           order |-> Touch(d.order, k, DOMAIN d.index),
                           files |-> With(d.files, k, e), lost |-> d.lost]
  BY DEF Inserted
<1>2. e.value \in Values /\ e.expires \in Nat /\ e.pinned \in BOOLEAN
  BY DEF StoredEntry
<1>3. stored \in Nat \ {0}
  BY <1>2, SizeAssumption, CapacityAssumption
<1> HIDE DEF stored
<1>4. rec \in StoreRecord
  BY <1>2, <1>3 DEF StoreRecord
<1> HIDE DEF rec
<1>5. IsMap(With(d.index, k, rec), Keys, StoreRecord)
  BY <1>4 DEF With, IsMap, DiskTier
<1>6. IsMap(With(d.files, k, e), Keys, StoredEntry)
  BY DEF With, IsMap, DiskTier
<1>7. Touch(d.order, k, DOMAIN d.index) \subseteq Keys \X Keys
  BY DEF Touch, Forget, DiskTier, IsMap
<1>8. DiskTier(Inserted(d, k, e))
  BY <1>1, <1>3, <1>5, <1>6, <1>7 DEF DiskTier
<1>9. QED
  BY <1>1, <1>8 DEF With

\* put's disk write adds at most the file it was asked to write.
LEMMA DiskWritesKeep ==
    ASSUME DiskTier(disk), NEW k \in Keys, NEW e \in StoredEntry, NEW now,
           NEW r \in DiskWrites(k, e, now)
    PROVE  /\ DiskTier(r.d)
           /\ \A j \in DOMAIN r.d.files :
                \/ j = k /\ r.d.files[j].value = e.value
                \/ j \in DOMAIN disk.files /\ r.d.files[j].value = disk.files[j].value
<1>1. CASE r = Outcome(disk, TRUE)
  BY <1>1 DEF Outcome
<1>2. CASE \E q \in DropIfExpired(disk, k, now) :
             r \in IF q.ok THEN WriteIfAbsent(q.d, k, e) ELSE {q}
  <2>1. PICK q \in DropIfExpired(disk, k, now) :
               r \in IF q.ok THEN WriteIfAbsent(q.d, k, e) ELSE {q}
    BY <1>2
  <2>2. DiskTier(q.d) /\ FilesFrom(q.d, disk)
    <3>1. q = Outcome(disk, TRUE) \/ q \in RemoveDiskRecord(disk, k)
      BY DEF DropIfExpired
    <3>2. CASE q = Outcome(disk, TRUE)
      BY <3>2 DEF Outcome, FilesFrom
    <3>3. CASE q \in RemoveDiskRecord(disk, k)
      BY <3>3, RemoveDiskRecordKeeps
    <3>4. QED
      BY <3>1, <3>2, <3>3
  <2>3. r.d = q.d \/ r \in EvictDisk(Inserted(q.d, k, e))
    BY <2>1 DEF WriteIfAbsent, Outcome, Failing
  <2>4. CASE r.d = q.d
    BY <2>2, <2>4 DEF FilesFrom
  <2>5. CASE r \in EvictDisk(Inserted(q.d, k, e))
    <3> DEFINE i == Inserted(q.d, k, e)
    <3>1. /\ DiskTier(i)
          /\ \A j \in DOMAIN i.files :
               \/ j = k /\ i.files[j] = e
               \/ j \in DOMAIN q.d.files /\ i.files[j] = q.d.files[j]
      BY <2>2, InsertedKeeps
    <3>2. DiskTier(r.d) /\ FilesFrom(r.d, i)
      BY <2>5, <3>1, EvictDiskKeeps
    <3> HIDE DEF i
    <3>3. QED
      BY <2>2, <3>1, <3>2 DEF FilesFrom
  <2>6. QED
    BY <2>3, <2>4, <2>5
<1>3. QED
  BY <1>1, <1>2 DEF DiskWrites

\* An index over part of the files of a store is well formed.
LEMMA LoadedKeeps ==
    ASSUME NEW files, IsMap(files, Keys, StoredEntry), NEW kept \in SUBSET DOMAIN files
    PROVE  DiskTier(Loaded(files, kept)) /\ Loaded(files, kept).files = files
<1> DEFINE size == [k \in kept |-> Header + Size[files[k].value]]
           index == [k \in kept |-> [bytes |-> Header + Size[files[k].value],
                                     expires |-> files[k].expires,
                                     pinned |-> files[k].pinned]]
<1>1. \A k \in kept : files[k] \in StoredEntry
  BY DEF IsMap
<1>2. \A k \in kept : size[k] \in Nat \ {0}
  BY <1>1, SizeAssumption, CapacityAssumption DEF StoredEntry
<1>3. kept \subseteq Keys
  BY DEF IsMap
<1>4. IsFiniteSet(kept)
  BY <1>3, KeysAssumption, FS_Subset
<1>5. Total(kept, size) \in Nat
  BY <1>2, <1>4, TotalType
<1>6. \A k \in kept : index[k] \in StoreRecord
  BY <1>1, <1>2 DEF StoreRecord, StoredEntry
<1>7. IsMap(index, Keys, StoreRecord)
  BY <1>3, <1>6 DEF IsMap
<1>8. Loaded(files, kept) = [index |-> index, bytes |-> Total(kept, size), order |-> {},
                             files |-> files, lost |-> 0]
  BY DEF Loaded
<1> HIDE DEF index, size
<1>9. QED
  BY <1>5, <1>7, <1>8 DEF DiskTier

\* An empty index over the same files is a well-formed disk tier.
LEMMA EmptyIndexKeeps ==
    ASSUME NEW d, DiskTier(d)
    PROVE  DiskTier(EmptyIndex(d.files)) /\ EmptyIndex(d.files).files = d.files
<1>1. IsMap(NoEntries, Keys, StoreRecord)
  BY DEF IsMap, NoEntries
<1>2. QED
  BY <1>1 DEF DiskTier, EmptyIndex

\* A fresh memory tier is well formed, accounted for and within its quota.
LEMMA NoMemoryKeeps ==
    MemoryTier(NoMemory) /\ Accounted(NoMemory) /\ Bounded(NoMemory) /\ DOMAIN NoMemory.recs = {}
<1>1. IsMap(NoEntries, Keys, MemoryRecord) /\ DOMAIN NoEntries = {}
  BY DEF IsMap, NoEntries
<1>2. NoMemory.recs = NoEntries /\ NoMemory.bytes = 0 /\ NoMemory.order = {}
  BY DEF NoMemory
<1>3. MemoryTier(NoMemory)
  BY <1>1, <1>2 DEF MemoryTier, NoMemory
<1>4. Accounted(NoMemory)
  BY <1>1, <1>2, TotalOfNone DEF Accounted
<1>5. Bounded(NoMemory)
  BY <1>1, <1>2 DEF Bounded, Unpinned
<1>6. QED
  BY <1>1, <1>2, <1>3, <1>4, <1>5

-----------------------------------------------------------------------------
(* The inductive invariant.                                                *)

\* A file written after a running invalidate or clear removed its predecessor
\* holds a value put since then.
RemovedFilesGone ==
    \A t \in Threads, k \in Keys :
        k \in DOMAIN disk.files => disk.files[k].value \notin call[t].pre[k]

\* A call makes values unreturnable only under keys whose records it will drop.
CallsInScope ==
    \A t \in Threads :
        /\ call[t].todo \subseteq call[t].keys
        /\ \A k \in Keys : call[t].pre[k] # {} => k \in call[t].keys

Inv ==
    /\ TypeOK
    /\ MemoryAccounted
    /\ MemoryBounded
    /\ NeverServesDead
    /\ RemovedFilesGone
    /\ CallsInScope

\* What NeverServesDead says of each tier.
LEMMA NeverServesDeadByTier ==
    NeverServesDead <=>
      \A k \in Keys :
        /\ k \in DOMAIN memory.recs => memory.recs[k].value \notin dead[k]
        /\ k \in DOMAIN disk.files => disk.files[k].value \notin dead[k]
BY DEF NeverServesDead, Held

\* A thread outside invalidate and clear is in a legal call state.
LEMMA IdleIsCallState == Idle \in CallState
BY DEF Idle, CallState

\* A step that only loses records and files keeps the invariant.
LEMMA ShrinkingStep ==
    ASSUME Inv, MemoryTier(memory'), Accounted(memory'), Bounded(memory'),
           RecordsFrom(memory', memory), DiskTier(disk'), FilesFrom(disk', disk),
           open' \in BOOLEAN, clock' \in Nat,
           UNCHANGED dead, call' \in [Threads -> CallState],
           \A t \in Threads : call'[t] = call[t] \/ call'[t] = Idle
    PROVE  Inv'
<1>1. TypeOK'
  BY DEF Inv, TypeOK
<1>2. MemoryAccounted' /\ MemoryBounded'
  BY DEF Accounted, Bounded, MemoryAccounted, MemoryBounded
<1>3. NeverServesDead'
  <2>1. \A k \in Keys :
          /\ k \in DOMAIN memory.recs => memory.recs[k].value \notin dead[k]
          /\ k \in DOMAIN disk.files => disk.files[k].value \notin dead[k]
    BY NeverServesDeadByTier DEF Inv
  <2>2. \A k \in Keys :
          /\ k \in DOMAIN memory'.recs => memory'.recs[k].value \notin dead'[k]
          /\ k \in DOMAIN disk'.files => disk'.files[k].value \notin dead'[k]
    BY <2>1 DEF RecordsFrom, FilesFrom
  <2>3. QED
    BY <2>2 DEF NeverServesDead, Held
<1>4. ASSUME NEW t \in Threads, NEW k \in Keys
      PROVE  /\ k \in DOMAIN disk'.files => disk'.files[k].value \notin call'[t].pre[k]
             /\ call'[t].pre[k] # {} => k \in call'[t].keys
             /\ call'[t].todo \subseteq call'[t].keys
  <2>1. CASE call'[t] = call[t]
    BY <2>1 DEF Inv, RemovedFilesGone, CallsInScope, FilesFrom
  <2>2. CASE call'[t] = Idle
    BY <2>2 DEF Idle
  <2>3. QED
    BY <2>1, <2>2
<1>5. RemovedFilesGone'
  BY <1>4 DEF RemovedFilesGone
<1>6. \A t \in Threads : call'[t].todo \subseteq call'[t].keys
  <2>1. ASSUME NEW t \in Threads PROVE call'[t].todo \subseteq call'[t].keys
    BY DEF Inv, CallsInScope, Idle
  <2>2. QED
    BY <2>1
<1>7. CallsInScope'
  BY <1>4, <1>6 DEF CallsInScope
<1>8. QED
  BY <1>1, <1>2, <1>3, <1>5, <1>7 DEF Inv

\* A step that writes v under k, where v is not or no longer unreturnable, and
\* otherwise only loses records and files, keeps the invariant.
LEMMA WritingStep ==
    ASSUME Inv, MemoryTier(memory'), Accounted(memory'), Bounded(memory'), DiskTier(disk'),
           NEW k \in Keys, NEW v,
           \A j \in DOMAIN memory'.recs :
             \/ j = k /\ memory'.recs[j].value = v
             \/ j \in DOMAIN memory.recs /\ memory'.recs[j].value = memory.recs[j].value,
           \A j \in DOMAIN disk'.files :
             \/ j = k /\ disk'.files[j].value = v
             \/ j \in DOMAIN disk.files /\ disk'.files[j].value = disk.files[j].value,
           open' \in BOOLEAN, clock' \in Nat,
           dead' \in [Keys -> SUBSET Values], call' \in [Threads -> CallState],
           \A j \in Keys : dead'[j] \subseteq dead[j],
           v \notin dead'[k],
           \A t \in Threads :
             \/ call'[t] = Idle
             \/ /\ call'[t].keys = call[t].keys /\ call'[t].todo = call[t].todo
                /\ \A j \in Keys : call'[t].pre[j] \subseteq call[t].pre[j],
           \A t \in Threads : v \notin call'[t].pre[k]
    PROVE  Inv'
<1>1. TypeOK'
  BY DEF TypeOK
<1>2. MemoryAccounted' /\ MemoryBounded'
  BY DEF Accounted, Bounded, MemoryAccounted, MemoryBounded
<1>3. NeverServesDead'
  <2>1. \A j \in Keys :
          /\ j \in DOMAIN memory.recs => memory.recs[j].value \notin dead[j]
          /\ j \in DOMAIN disk.files => disk.files[j].value \notin dead[j]
    BY NeverServesDeadByTier DEF Inv
  <2>2. \A j \in Keys :
          /\ j \in DOMAIN memory'.recs => memory'.recs[j].value \notin dead'[j]
          /\ j \in DOMAIN disk'.files => disk'.files[j].value \notin dead'[j]
    BY <2>1
  <2>3. QED
    BY <2>2 DEF NeverServesDead, Held
<1>4. ASSUME NEW t \in Threads, NEW j \in Keys
      PROVE  /\ j \in DOMAIN disk'.files => disk'.files[j].value \notin call'[t].pre[j]
             /\ call'[t].pre[j] # {} => j \in call'[t].keys
  <2>1. CASE call'[t] = Idle
    BY <2>1 DEF Idle
  <2>2. CASE /\ call'[t].keys = call[t].keys /\ call'[t].todo = call[t].todo
             /\ \A i \in Keys : call'[t].pre[i] \subseteq call[t].pre[i]
    BY <2>2 DEF Inv, RemovedFilesGone, CallsInScope
  <2>3. QED
    BY <2>1, <2>2
<1>5. RemovedFilesGone'
  BY <1>4 DEF RemovedFilesGone
<1>6. ASSUME NEW t \in Threads PROVE call'[t].todo \subseteq call'[t].keys
  BY DEF Inv, CallsInScope, Idle
<1>7. CallsInScope'
  BY <1>4, <1>6 DEF CallsInScope
<1>8. QED
  BY <1>1, <1>2, <1>3, <1>5, <1>7 DEF Inv

\* Every way out of get keeps the invariant; a promotion copies a value that
\* its file proves returnable.
LEMMA GetStep ==
    ASSUME Inv, NEW k \in Keys, NEW now, Get(k, now)
    PROVE  Inv'
<1> USE DEF Inv, TypeOK
<1>0. /\ Accounted(memory) /\ Bounded(memory)
      /\ UNCHANGED <<open, clock, call, dead>>
  BY DEF MemoryAccounted, MemoryBounded, Accounted, Bounded, Get, GetMemoryHit, GetMiss,
         GetExpired, GetVanished, GetCorrupt, GetFails, GetDiskHit
<1>1. /\ MemoryTier(Fallen(k)) /\ RecordsFrom(Fallen(k), memory)
      /\ Accounted(Fallen(k))
  BY <1>0, DropMemoryKeeps DEF Fallen
<1>2. Bounded(Fallen(k))
  BY <1>0, DropMemoryBounded DEF Fallen
<1>3. ASSUME memory' = Fallen(k), DiskTier(disk'), FilesFrom(disk', disk)
      PROVE  Inv'
  BY <1>0, <1>1, <1>2, <1>3, ShrinkingStep
<1>4. FilesFrom(disk, disk)
  BY DEF FilesFrom
<1>5. CASE GetMemoryHit(k, now)
  <2>1. memory' = [recs |-> memory.recs, bytes |-> memory.bytes,
                   order |-> Touch(memory.order, k, DOMAIN memory.recs)]
    BY <1>5 DEF GetMemoryHit, MemoryTier
  <2>2. Touch(memory.order, k, DOMAIN memory.recs) \subseteq Keys \X Keys
    BY DEF Touch, Forget, MemoryTier, IsMap
  <2>3. MemoryTier(memory')
    BY <2>1, <2>2 DEF MemoryTier
  <2>4. Accounted(memory') /\ Bounded(memory') /\ RecordsFrom(memory', memory)
    BY <1>0, <2>1 DEF Accounted, Bounded, RecordsFrom
  <2>5. UNCHANGED disk
    BY <1>5 DEF GetMemoryHit
  <2>6. QED
    BY <1>0, <1>4, <2>3, <2>4, <2>5, ShrinkingStep
<1>6. CASE GetMiss(k, now) \/ GetFails(k, now)
  BY <1>3, <1>4, <1>6 DEF GetMiss, GetFails
<1>7. CASE GetExpired(k, now)
  <2>1. PICK r \in RemoveDiskRecord(disk, k) : disk' = r.d
    BY <1>7 DEF GetExpired
  <2>2. DiskTier(disk') /\ FilesFrom(disk', disk)
    BY <2>1, RemoveDiskRecordKeeps
  <2>3. QED
    BY <1>3, <1>7, <2>2 DEF GetExpired
<1>8. CASE GetVanished(k, now)
  <2>1. DiskTier(disk') /\ FilesFrom(disk', disk)
    BY <1>8, DropIndexedKeeps DEF GetVanished, FilesFrom
  <2>2. QED
    BY <1>3, <1>8, <2>1 DEF GetVanished
<1>9. CASE GetCorrupt(k, now)
  <2>2. /\ DiskTier(Unlink(DropIndexed(disk, {k}), {k}))
        /\ FilesFrom(Unlink(DropIndexed(disk, {k}), {k}), disk)
    BY DropFilesKeeps
  <2>3. DiskTier(disk') /\ FilesFrom(disk', disk)
    BY <1>4, <1>9, <2>2 DEF GetCorrupt
  <2>4. QED
    BY <1>3, <1>9, <2>3 DEF GetCorrupt
<1>10. CASE GetDiskHit(k, now)
  <2> DEFINE e == disk.files[k]
             rec == [value |-> e.value, expires |-> e.expires, pinned |-> e.pinned]
  <2>1. k \in DOMAIN disk.files /\ memory' \in Remember(Fallen(k), k, rec)
    BY <1>10 DEF GetDiskHit
  <2>2. e \in StoredEntry
    BY <2>1 DEF DiskTier, IsMap
  <2>3. rec \in MemoryRecord /\ rec.value = disk.files[k].value
    BY <2>2 DEF StoredEntry, MemoryRecord
  <2> HIDE DEF rec, e
  <2>4. /\ MemoryTier(memory') /\ Accounted(memory') /\ Bounded(memory')
        /\ \A j \in DOMAIN memory'.recs :
             \/ j = k /\ memory'.recs[j] = rec
             \/ j \in DOMAIN Fallen(k).recs /\ memory'.recs[j] = Fallen(k).recs[j]
    BY <1>1, <1>2, <2>1, <2>3, RememberKeeps
  <2>5. disk' = [index |-> disk.index, bytes |-> disk.bytes,
                 order |-> Touch(disk.order, k, DOMAIN disk.index), files |-> disk.files,
                 lost |-> disk.lost]
    BY <1>10 DEF GetDiskHit, DiskTier
  <2>6. Touch(disk.order, k, DOMAIN disk.index) \subseteq Keys \X Keys
    BY DEF Touch, Forget, DiskTier, IsMap
  <2>7. DiskTier(disk')
    BY <2>5, <2>6 DEF DiskTier
  <2>8. disk.files[k].value \notin dead[k]
    BY <2>1, NeverServesDeadByTier
  <2>9. \A t \in Threads : disk.files[k].value \notin call[t].pre[k]
    BY <2>1 DEF RemovedFilesGone
  <2>10. \A j \in DOMAIN memory'.recs :
           \/ j = k /\ memory'.recs[j].value = disk.files[k].value
           \/ j \in DOMAIN memory.recs /\ memory'.recs[j].value = memory.recs[j].value
    BY <1>1, <2>3, <2>4 DEF RecordsFrom
  <2>11. \A j \in DOMAIN disk'.files :
           j \in DOMAIN disk.files /\ disk'.files[j].value = disk.files[j].value
    BY <2>5
  <2>12. QED
    BY <1>0, <2>4, <2>7, <2>8, <2>9, <2>10, <2>11, WritingStep
<1>11. QED
  BY <1>5, <1>6, <1>7, <1>8, <1>9, <1>10 DEF Get

\* Reviving v for k takes it out of dead[k] and out of every running call.
LEMMA ReviveClears ==
    ASSUME TypeOK, NEW k \in Keys, NEW v, Revive(k, v)
    PROVE  /\ dead' \in [Keys -> SUBSET Values] /\ call' \in [Threads -> CallState]
           /\ \A j \in Keys : dead'[j] \subseteq dead[j]
           /\ v \notin dead'[k]
           /\ \A t \in Threads, j \in Keys :
                /\ call'[t].keys = call[t].keys /\ call'[t].todo = call[t].todo
                /\ call'[t].pre[j] \subseteq call[t].pre[j]
           /\ \A t \in Threads : v \notin call'[t].pre[k]
<1>1. dead' \in [Keys -> SUBSET Values] /\ v \notin dead'[k]
      /\ \A j \in Keys : dead'[j] \subseteq dead[j]
  BY DEF Revive, TypeOK
<1>2. ASSUME NEW t \in Threads
      PROVE  /\ call'[t] \in CallState
             /\ call'[t].keys = call[t].keys /\ call'[t].todo = call[t].todo
             /\ v \notin call'[t].pre[k]
             /\ \A j \in Keys : call'[t].pre[j] \subseteq call[t].pre[j]
  <2>1. call[t] \in CallState
    BY DEF TypeOK
  <2>2. call'[t] = [call[t] EXCEPT !.pre[k] = @ \ {v}]
    BY DEF Revive
  <2>3. QED
    BY <2>1, <2>2 DEF CallState
<1>3. call' \in [Threads -> CallState]
  BY <1>2 DEF Revive
<1>4. QED
  BY <1>1, <1>2, <1>3

\* put, whether it succeeds or fails part of the way.
LEMMA PutStep ==
    ASSUME Inv, NEW k \in Keys, NEW v \in Values, NEW ttl \in TTLs, NEW pinned \in Pins,
           NEW now \in Nat, Put(k, v, ttl, pinned, now)
    PROVE  Inv'
<1> USE DEF Inv, TypeOK
<1> DEFINE expires == ExpiresAt(now, ttl)
           e == Entry(v, expires, pinned)
           rec == [value |-> v, expires |-> expires, pinned |-> pinned]
<1>1. expires \in Nat
  BY TimeAssumption DEF ExpiresAt
<1> HIDE DEF expires
<1>2. e \in StoredEntry /\ e.value = v
  BY <1>1, PinsAssumption DEF Entry, StoredEntry, Damage
<1>3. rec \in MemoryRecord /\ rec.value = v
  BY <1>1, PinsAssumption DEF MemoryRecord
<1> HIDE DEF e, rec
<1>4. PICK r \in DiskWrites(k, e, now) :
             /\ disk' = r.d
             /\ IF r.ok THEN memory' \in Remember(memory, k, rec) ELSE UNCHANGED memory
  BY DEF Put, e, rec, expires
<1>5. /\ DiskTier(disk')
      /\ \A j \in DOMAIN disk'.files :
           \/ j = k /\ disk'.files[j].value = v
           \/ j \in DOMAIN disk.files /\ disk'.files[j].value = disk.files[j].value
  BY <1>2, <1>4, DiskWritesKeep
<1>6. Accounted(memory) /\ Bounded(memory)
  BY DEF MemoryAccounted, MemoryBounded, Accounted, Bounded
<1>7. /\ MemoryTier(memory') /\ Accounted(memory') /\ Bounded(memory')
      /\ \A j \in DOMAIN memory'.recs :
           \/ j = k /\ memory'.recs[j].value = v
           \/ j \in DOMAIN memory.recs /\ memory'.recs[j].value = memory.recs[j].value
  <2>1. CASE UNCHANGED memory
    BY <1>6, <2>1
  <2>2. CASE memory' \in Remember(memory, k, rec)
    BY <1>3, <1>6, <2>2, RememberKeeps
  <2>3. QED
    BY <1>4, <2>1, <2>2
<1>8. Revive(k, v) /\ UNCHANGED <<open, clock>>
  BY DEF Put
<1>9. QED
  BY <1>5, <1>7, <1>8, ReviveClears, WritingStep

\* invalidate and clear.
LEMMA RemoveStep ==
    ASSUME Inv, NEW t \in Threads, Remove(t)
    PROVE  Inv'
<1> USE DEF Inv, TypeOK
<1>0. /\ Accounted(memory) /\ Bounded(memory)
      /\ RecordsFrom(memory, memory) /\ FilesFrom(disk, disk)
      /\ call[t] \in CallState /\ call[t].todo \subseteq Keys
  BY DEF MemoryAccounted, MemoryBounded, Accounted, Bounded, RecordsFrom, FilesFrom, CallState
<1>1. ASSUME NEW k \in Keys, BeginInvalidate(t, k)
      PROVE  Inv'
  <2> DEFINE new == [Idle EXCEPT !.op = "invalidate", !.keys = {k}, !.todo = {k}]
  <2>1. /\ new \in CallState
        /\ new.todo \subseteq new.keys
        /\ \A j \in Keys : new.pre[j] = {}
    BY DEF Idle, CallState
  <2>2. call' = [call EXCEPT ![t] = new] /\ UNCHANGED <<memory, disk, open, clock, dead>>
    BY <1>1 DEF BeginInvalidate
  <2> HIDE DEF new
  <2>3. TypeOK' /\ MemoryAccounted' /\ MemoryBounded' /\ NeverServesDead'
    BY <2>1, <2>2 DEF MemoryAccounted, MemoryBounded, NeverServesDead, Held
  <2>4. RemovedFilesGone' /\ CallsInScope'
    BY <2>1, <2>2 DEF RemovedFilesGone, CallsInScope
  <2>5. QED
    BY <2>3, <2>4
<1>2. CASE BeginClear(t)
  <2>1. PICK listed \in SUBSET Keys :
          /\ DOMAIN disk.files \subseteq listed
          /\ call' = [call EXCEPT ![t] =
                        [op |-> "clear", keys |-> Keys, todo |-> listed,
                         pre |-> [k \in Keys |-> IF k \in listed THEN {} ELSE Values]]]
    BY <1>2 DEF BeginClear
  <2>2. UNCHANGED <<memory, disk, open, clock, dead>>
    BY <1>2 DEF BeginClear
  <2>3. call' \in [Threads -> CallState]
    BY <2>1 DEF CallState
  <2>4. TypeOK' /\ MemoryAccounted' /\ MemoryBounded' /\ NeverServesDead'
    BY <2>2, <2>3 DEF MemoryAccounted, MemoryBounded, NeverServesDead, Held
  <2>5. RemovedFilesGone' /\ CallsInScope'
    BY <2>1, <2>2 DEF RemovedFilesGone, CallsInScope
  <2>6. QED
    BY <2>4, <2>5
<1>3. ASSUME NEW k \in Keys, RemoveFile(t, k)
      PROVE  Inv'
  <2>1. /\ DiskTier(disk') /\ FilesFrom(disk', disk)
        /\ DOMAIN disk'.files = DOMAIN disk.files \ {k}
    BY <1>3, UnlinkKeeps DEF RemoveFile
  <2>2. /\ call' = [call EXCEPT ![t].todo = @ \ {k}, ![t].pre[k] = Values]
        /\ UNCHANGED <<memory, open, clock, dead>>
        /\ k \in call[t].todo
    BY <1>3 DEF RemoveFile
  <2>3. /\ call' \in [Threads -> CallState]
        /\ \A u \in Threads \ {t} : call'[u] = call[u]
        /\ call'[t].keys = call[t].keys /\ call'[t].todo \subseteq call[t].todo
        /\ \A j \in Keys \ {k} : call'[t].pre[j] = call[t].pre[j]
    BY <1>0, <2>2 DEF CallState
  <2>4. NeverServesDead'
    <3>1. \A j \in Keys :
            /\ j \in DOMAIN memory'.recs => memory'.recs[j].value \notin dead'[j]
            /\ j \in DOMAIN disk'.files => disk'.files[j].value \notin dead'[j]
      BY <2>1, <2>2, NeverServesDeadByTier DEF FilesFrom
    <3>2. QED
      BY <3>1 DEF NeverServesDead, Held
  <2>5. RemovedFilesGone'
    BY <2>1, <2>3 DEF RemovedFilesGone, FilesFrom
  <2>6. CallsInScope'
    BY <2>2, <2>3 DEF CallsInScope
  <2>7. QED
    BY <2>1, <2>2, <2>3, <2>4, <2>5, <2>6 DEF MemoryAccounted, MemoryBounded
<1>4. CASE RemoveFails(t)
  <2>1. call' \in [Threads -> CallState] /\ \A u \in Threads : call'[u] = call[u] \/ call'[u] = Idle
    BY <1>4, IdleIsCallState DEF RemoveFails
  <2>2. QED
    BY <1>0, <1>4, <2>1, ShrinkingStep DEF RemoveFails
<1>5. CASE FinishInvalidate(t)
  <2> DEFINE K == call[t].keys
  <2>1. /\ memory' = DropMemory(memory, K) /\ disk' = DropIndexed(disk, K)
        /\ dead' = [k \in Keys |-> dead[k] \cup call[t].pre[k]]
        /\ call' = [call EXCEPT ![t] = Idle]
        /\ UNCHANGED <<open, clock>>
    BY <1>5 DEF FinishInvalidate, Return
  <2>2. /\ MemoryTier(memory') /\ Accounted(memory') /\ RecordsFrom(memory', memory)
        /\ DOMAIN memory'.recs = DOMAIN memory.recs \ K
    BY <1>0, <2>1, DropMemoryKeeps
  <2>3. Bounded(memory')
    BY <1>0, <2>1, DropMemoryBounded
  <2>4. DiskTier(disk') /\ disk'.files = disk.files
    BY <2>1, DropIndexedKeeps
  <2>5. call' \in [Threads -> CallState] /\ dead' \in [Keys -> SUBSET Values]
    BY <1>0, <2>1, IdleIsCallState DEF CallState
  <2>6. NeverServesDead'
    <3>1. ASSUME NEW k \in Keys, k \in DOMAIN memory'.recs
          PROVE  memory'.recs[k].value \notin dead'[k]
      BY <2>1, <2>2, <3>1, NeverServesDeadByTier DEF CallsInScope, RecordsFrom
    <3>2. ASSUME NEW k \in Keys, k \in DOMAIN disk'.files
          PROVE  disk'.files[k].value \notin dead'[k]
      BY <2>1, <2>4, <3>2, NeverServesDeadByTier DEF RemovedFilesGone
    <3>3. QED
      BY <3>1, <3>2 DEF NeverServesDead, Held
  <2>7. RemovedFilesGone' /\ CallsInScope'
    BY <2>1, <2>4 DEF RemovedFilesGone, CallsInScope, Idle
  <2>8. QED
    BY <2>1, <2>2, <2>3, <2>4, <2>5, <2>6, <2>7
       DEF MemoryAccounted, MemoryBounded, Accounted, Bounded
<1>6. CASE FinishClear(t)
  <2>1. /\ memory' = NoMemory /\ disk' = EmptyIndex(disk.files)
        /\ dead' = [k \in Keys |-> dead[k] \cup call[t].pre[k]]
        /\ call' = [call EXCEPT ![t] = Idle]
        /\ UNCHANGED <<open, clock>>
    BY <1>6 DEF FinishClear, Return
  <2>2. /\ MemoryTier(memory') /\ Accounted(memory') /\ Bounded(memory')
        /\ DOMAIN memory'.recs = {}
    BY <2>1, NoMemoryKeeps
  <2>3. DiskTier(disk') /\ disk'.files = disk.files
    BY <2>1, EmptyIndexKeeps
  <2>4. call' \in [Threads -> CallState] /\ dead' \in [Keys -> SUBSET Values]
    BY <1>0, <2>1, IdleIsCallState DEF CallState
  <2>5. NeverServesDead'
    <3>1. ASSUME NEW k \in Keys, k \in DOMAIN disk'.files
          PROVE  disk'.files[k].value \notin dead'[k]
      BY <2>1, <2>3, <3>1, NeverServesDeadByTier DEF RemovedFilesGone
    <3>2. QED
      BY <2>2, <3>1 DEF NeverServesDead, Held
  <2>6. RemovedFilesGone' /\ CallsInScope'
    BY <2>1, <2>3 DEF RemovedFilesGone, CallsInScope, Idle
  <2>7. QED
    BY <2>1, <2>2, <2>3, <2>4, <2>5, <2>6
       DEF MemoryAccounted, MemoryBounded, Accounted, Bounded
<1>7. QED
  BY <1>1, <1>2, <1>3, <1>4, <1>5, <1>6 DEF Remove

\* Losing the process keeps files only; the calls under way never return.
LEMMA CrashStep ==
    ASSUME Inv, Crash
    PROVE  Inv'
<1>1. DiskTier(disk') /\ FilesFrom(disk', disk)
  BY EmptyIndexKeeps DEF Crash, FilesFrom, Inv, TypeOK
<1>2. /\ MemoryTier(memory') /\ Accounted(memory') /\ Bounded(memory')
      /\ RecordsFrom(memory', memory)
  BY NoMemoryKeeps DEF Crash, Down, RecordsFrom
<1>3. /\ call' \in [Threads -> CallState] /\ \A t \in Threads : call'[t] = Idle
      /\ open' \in BOOLEAN /\ UNCHANGED <<clock, dead>>
  BY IdleIsCallState DEF Crash, Down
<1>4. QED
  BY <1>1, <1>2, <1>3, ShrinkingStep DEF Inv, TypeOK

\* A crash between put_if_absent and eviction keeps the invariant: the file was
\* not among the dead, and the memory tier is lost.
LEMMA CrashInPutStep ==
    ASSUME Inv, NEW k \in Keys, NEW v \in Values, NEW ttl \in TTLs, NEW pinned \in Pins,
           NEW now \in Nat, CrashInPut(k, v, ttl, pinned, now)
    PROVE  Inv'
<1> USE DEF Inv, TypeOK
<1> DEFINE e == Entry(v, ExpiresAt(now, ttl), pinned)
<1>1. ExpiresAt(now, ttl) \in Nat
  BY TimeAssumption DEF ExpiresAt
<1>2. e \in StoredEntry /\ e.value = v
  BY <1>1, PinsAssumption DEF Entry, StoredEntry, Damage
<1> HIDE DEF e
<1>3. PICK r \in DropIfExpired(disk, k, now), E \in SUBSET Keys :
             disk' = EmptyIndex(Without(Inserted(r.d, k, e).files, E))
  BY DEF CrashInPut, e
<1>4. DiskTier(r.d) /\ FilesFrom(r.d, disk)
  <2>1. r = Outcome(disk, TRUE) \/ r \in RemoveDiskRecord(disk, k)
    BY DEF DropIfExpired
  <2>2. CASE r = Outcome(disk, TRUE)
    BY <2>2 DEF Outcome, FilesFrom
  <2>3. CASE r \in RemoveDiskRecord(disk, k)
    BY <2>3, RemoveDiskRecordKeeps
  <2>4. QED
    BY <2>1, <2>2, <2>3
<1> DEFINE i == Inserted(r.d, k, e)
           u == Unlink(i, E)
<1>5. /\ DiskTier(i)
      /\ \A j \in DOMAIN i.files :
           \/ j = k /\ i.files[j] = e
           \/ j \in DOMAIN r.d.files /\ i.files[j] = r.d.files[j]
  BY <1>2, <1>4, InsertedKeeps
<1> HIDE DEF i
<1>6. DiskTier(u) /\ FilesFrom(u, i)
  BY <1>5, UnlinkKeeps
<1>7. disk' = EmptyIndex(u.files)
  BY <1>3, <1>5 DEF Unlink, i, DiskTier
<1> HIDE DEF u
<1>8. DiskTier(disk') /\ disk'.files = u.files
  BY <1>6, <1>7, EmptyIndexKeeps
<1>9. \A j \in DOMAIN disk'.files :
        \/ j = k /\ disk'.files[j].value = v
        \/ j \in DOMAIN disk.files /\ disk'.files[j].value = disk.files[j].value
  BY <1>2, <1>4, <1>5, <1>6, <1>8 DEF FilesFrom
<1>10. /\ MemoryTier(memory') /\ Accounted(memory') /\ Bounded(memory')
       /\ DOMAIN memory'.recs = {}
  BY NoMemoryKeeps DEF CrashInPut, Down
<1>11. /\ call' \in [Threads -> CallState] /\ \A t \in Threads : call'[t] = Idle
       /\ open' \in BOOLEAN /\ UNCHANGED clock
       /\ \A t \in Threads : v \notin call'[t].pre[k]
  BY IdleIsCallState DEF CrashInPut, Down, Idle
<1>12. /\ dead' \in [Keys -> SUBSET Values] /\ v \notin dead'[k]
       /\ \A j \in Keys : dead'[j] \subseteq dead[j]
  BY DEF CrashInPut
<1>13. QED
  BY <1>8, <1>9, <1>10, <1>11, <1>12, WritingStep

\* Damage changes what a file says, not which value it was written for.
LEMMA RotStep ==
    ASSUME Inv, NEW k \in Keys, NEW kind \in Damage, Rot(k, kind)
    PROVE  Inv'
<1> USE DEF Inv, TypeOK
<1> DEFINE new == [disk.files EXCEPT ![k].damage = kind,
                                     ![k].pinned = IF kind = "meta" THEN ~@ ELSE @]
<1>1. k \in DOMAIN disk.files /\ disk.files[k] \in StoredEntry
  BY DEF Rot, DiskTier, IsMap
<1>2. /\ DOMAIN new = DOMAIN disk.files
      /\ new[k] \in StoredEntry /\ new[k].value = disk.files[k].value
      /\ \A j \in DOMAIN disk.files \ {k} : new[j] = disk.files[j]
  BY <1>1 DEF StoredEntry
<1>3. new \in [DOMAIN disk.files -> StoredEntry]
  BY <1>1, <1>2 DEF DiskTier, IsMap
<1>4. disk' = [index |-> disk.index, bytes |-> disk.bytes, order |-> disk.order, files |-> new,
              lost |-> disk.lost]
  BY DEF Rot, DiskTier
<1> HIDE DEF new
<1>5. DiskTier(disk') /\ FilesFrom(disk', disk)
  BY <1>2, <1>3, <1>4 DEF DiskTier, IsMap, FilesFrom
<1>6. QED
  BY <1>5, ShrinkingStep
     DEF Rot, MemoryAccounted, MemoryBounded, Accounted, Bounded, RecordsFrom

\* Whatever from_builder makes of the files, it adds none.
LEMMA OpenStep ==
    ASSUME Inv, NEW now, Open(now)
    PROVE  Inv'
<1> USE DEF Inv, TypeOK
<1>1. DiskTier(disk') /\ FilesFrom(disk', disk) /\ open' \in BOOLEAN
  <2>1. CASE MaxDisk = 0
    BY <2>1 DEF Open, FilesFrom
  <2>2. CASE MaxDisk # 0
    <3>1. PICK r \in Reopenings(now) :
                 /\ open' = r.ok
                 /\ disk' = IF r.ok THEN r.d ELSE EmptyIndex(r.d.files)
      BY <2>2 DEF Open
    <3>2. DiskTier(r.d) /\ FilesFrom(r.d, disk) /\ r.ok \in BOOLEAN
      <4> DEFINE stale == Stale(disk.files, now)
                 headless == Headless(disk.files)
                 Left(stuck) == Without(disk.files, stale \cup (headless \ stuck))
                 kept == DOMAIN disk.files \ (stale \cup headless)
      <4>1. \/ \E stuck : r \in EvictDisk(Loaded(Left(stuck), kept))
            \/ \E done : r = Outcome(Unlink(disk, done \cup headless), FALSE)
        BY <3>1 DEF Reopenings
      <4>2. ASSUME NEW stuck, r \in EvictDisk(Loaded(Left(stuck), kept))
            PROVE  DiskTier(r.d) /\ FilesFrom(r.d, disk) /\ r.ok \in BOOLEAN
        <5>1. IsMap(Left(stuck), Keys, StoredEntry) /\ kept \in SUBSET DOMAIN Left(stuck)
          BY DEF IsMap, Without, DiskTier
        <5>2. \A k \in DOMAIN Left(stuck) :
                k \in DOMAIN disk.files /\ Left(stuck)[k] = disk.files[k]
          BY DEF Without
        <5> DEFINE loaded == Loaded(Left(stuck), kept)
        <5>3. DiskTier(loaded) /\ loaded.files = Left(stuck)
          BY <5>1, LoadedKeeps
        <5> HIDE DEF loaded
        <5>4. DiskTier(r.d) /\ FilesFrom(r.d, loaded) /\ r.ok \in BOOLEAN
          BY <4>2, <5>3, EvictDiskKeeps DEF loaded
        <5>5. QED
          BY <5>2, <5>3, <5>4 DEF FilesFrom
      <4>3. ASSUME NEW done, r = Outcome(Unlink(disk, done \cup headless), FALSE)
            PROVE  DiskTier(r.d) /\ FilesFrom(r.d, disk) /\ r.ok \in BOOLEAN
        BY <4>3, UnlinkKeeps DEF Outcome
      <4>4. QED
        BY <4>1, <4>2, <4>3
    <3>3. DiskTier(EmptyIndex(r.d.files)) /\ EmptyIndex(r.d.files).files = r.d.files
      BY <3>2, EmptyIndexKeeps
    <3>4. QED
      BY <3>1, <3>2, <3>3 DEF FilesFrom
  <2>3. QED
    BY <2>1, <2>2
<1>2. UNCHANGED <<memory, clock, call, dead>>
  BY DEF Open
<1>3. QED
  BY <1>1, <1>2, ShrinkingStep
     DEF MemoryAccounted, MemoryBounded, Accounted, Bounded, RecordsFrom

\* The empty cache satisfies the invariant.
LEMMA InitInv == Init => Inv
<1> SUFFICES ASSUME Init PROVE Inv
  OBVIOUS
<1>1. MemoryTier(memory) /\ Accounted(memory) /\ Bounded(memory) /\ DOMAIN memory.recs = {}
  BY NoMemoryKeeps DEF Init
<1>2. DiskTier(disk) /\ DOMAIN disk.files = {}
  BY DEF Init, EmptyIndex, DiskTier, IsMap, NoEntries
<1>3. call \in [Threads -> CallState] /\ \A t \in Threads : call[t] = Idle
  BY IdleIsCallState DEF Init
<1>4. TypeOK
  BY <1>1, <1>2, <1>3 DEF Init, TypeOK
<1>5. NeverServesDead /\ RemovedFilesGone
  BY <1>1, <1>2 DEF NeverServesDead, Held, RemovedFilesGone
<1>6. CallsInScope
  BY <1>3 DEF CallsInScope, Idle
<1>7. QED
  BY <1>1, <1>4, <1>5, <1>6 DEF Inv, MemoryAccounted, MemoryBounded, Accounted, Bounded

\* Every action keeps the invariant.
LEMMA NextInv == Inv /\ [Next]_vars => Inv'
<1> SUFFICES ASSUME Inv, [Next]_vars PROVE Inv'
  OBVIOUS
<1>0. Readings \subseteq Nat
  BY DEF Readings, Inv, TypeOK
<1>1. ASSUME NEW k \in Keys, NEW now \in Readings, Get(k, now) PROVE Inv'
  BY <1>1, GetStep
<1>2. ASSUME NEW k \in Keys, NEW v \in Values, NEW ttl \in TTLs, NEW pinned \in Pins,
             NEW now \in Readings,
             Put(k, v, ttl, pinned, now) \/ CrashInPut(k, v, ttl, pinned, now)
      PROVE  Inv'
  BY <1>0, <1>2, PutStep, CrashInPutStep
<1>3. ASSUME NEW t \in Threads, Remove(t) PROVE Inv'
  BY <1>3, RemoveStep
<1>4. CASE Crash
  BY <1>4, CrashStep
<1>5. ASSUME NEW k \in Keys, NEW kind \in Damage \ {"none"}, Rot(k, kind) PROVE Inv'
  BY <1>5, RotStep
<1>6. CASE Open(clock)
  BY <1>6, OpenStep
<1>7. CASE Advance
  BY <1>7 DEF Advance, Inv, TypeOK, MemoryAccounted, MemoryBounded, NeverServesDead, Held,
              RemovedFilesGone, CallsInScope
<1>8. CASE UNCHANGED vars
  BY <1>8 DEF vars, Inv, TypeOK, MemoryAccounted, MemoryBounded, NeverServesDead, Held,
              RemovedFilesGone, CallsInScope
<1>9. QED
  BY <1>1, <1>2, <1>3, <1>4, <1>5, <1>6, <1>7, <1>8 DEF Next

\* The variables keep their types for every choice of the constants.
THEOREM TypeCorrect == Spec => []TypeOK
<1>1. Inv => TypeOK
  BY DEF Inv
<1>2. QED
  BY <1>1, InitInv, NextInv, PTL DEF Spec

\* get never returns a value whose invalidation has returned, whatever puts,
\* gets, evictions, store failures, crashes and restarts interleave with it.
THEOREM InvalidationIsFinal == Spec => []NeverServesDead
<1>1. Inv => NeverServesDead
  BY DEF Inv
<1>2. QED
  BY <1>1, InitInv, NextInv, PTL DEF Spec

\* memory_bytes is exact, for any sizes and capacity.
THEOREM MemoryCounterExact == Spec => []MemoryAccounted
<1>1. Inv => MemoryAccounted
  BY DEF Inv
<1>2. QED
  BY <1>1, InitInv, NextInv, PTL DEF Spec

\* The memory tier is within its capacity or holds pinned records only.
THEOREM MemoryQuotaHolds == Spec => []MemoryBounded
<1>1. Inv => MemoryBounded
  BY DEF Inv
<1>2. QED
  BY <1>1, InitInv, NextInv, PTL DEF Spec

\* The memory tier counts its bytes and keeps to its quota, whatever runs in parallel.
THEOREM MemoryIsSafe == Spec => []MemorySafe
<1>1. MemoryAccounted /\ MemoryBounded => MemorySafe
  BY DEF MemorySafe
<1>2. QED
  BY <1>1, MemoryCounterExact, MemoryQuotaHolds, PTL

-----------------------------------------------------------------------------
(* The disk tier's bookkeeping.                                            *)

Counted(index) == Total(DOMAIN index, IndexSize(index))
DiskCounted(d) == d.bytes = Counted(d.index) + d.lost
DiskWithin(d) == d.lost = 0 => d.bytes <= MaxDisk \/ Unpinned(d.index) = {}

\* What from_builder indexes of a file, and put of the file it writes.
RecordOf(e) == [bytes |-> Header + Size[e.value], expires |-> e.expires, pinned |-> e.pinned]

Agrees(d) ==
    \A k \in DOMAIN d.index \cap DOMAIN d.files :
        d.files[k].damage # "meta" => d.index[k] = RecordOf(d.files[k])

Sound(d) == DiskCounted(d) /\ DiskWithin(d) /\ Agrees(d)

\* c has no index record and no file that d has not.
DiskFrom(c, d) ==
    /\ \A k \in DOMAIN c.index : k \in DOMAIN d.index /\ c.index[k] = d.index[k]
    /\ \A k \in DOMAIN c.files : k \in DOMAIN d.files /\ c.files[k] = d.files[k]

\* Every file of c is a file of d, unchanged.
SameFiles(c, d) ==
    \A k \in DOMAIN c.files : k \in DOMAIN d.files /\ c.files[k] = d.files[k]

\* The pinned files of d that c has not were damaged, or expired by now.
Spares(c, d, now) ==
    \A k \in DOMAIN d.files \ DOMAIN c.files :
        d.files[k].pinned => Expired(d.files[k].expires, now) \/ d.files[k].damage # "none"

\* The index is finite and its records take a positive number of bytes.
LEMMA IndexSizes ==
    ASSUME NEW d, DiskTier(d)
    PROVE  /\ IsFiniteSet(DOMAIN d.index)
           /\ \A k \in DOMAIN d.index :
                IndexSize(d.index)[k] = d.index[k].bytes /\ d.index[k].bytes \in Nat \ {0}
<1>1. IsFiniteSet(DOMAIN d.index)
  BY KeysAssumption, FS_Subset DEF DiskTier, IsMap
<1>2. \A k \in DOMAIN d.index : d.index[k].bytes \in Nat \ {0}
  BY DEF DiskTier, IsMap, StoreRecord
<1>3. QED
  BY <1>1, <1>2 DEF IndexSize

\* What the index counts without the records of S.
LEMMA IndexShrinks ==
    ASSUME NEW d, DiskTier(d), NEW S
    PROVE  /\ Counted(Without(d.index, S)) \in Nat
           /\ Total(S \cap DOMAIN d.index, IndexSize(d.index)) \in Nat
           /\ Counted(d.index) = Counted(Without(d.index, S))
                                 + Total(S \cap DOMAIN d.index, IndexSize(d.index))
<1> DEFINE D == DOMAIN d.index
           size == IndexSize(d.index)
           gone == S \cap D
           left == Without(d.index, S)
<1>1. IsFiniteSet(D) /\ \A k \in D : size[k] \in Nat
  BY IndexSizes
<1>2. IsFiniteSet(gone) /\ IsFiniteSet(D \ gone)
  BY <1>1, FS_Subset
<1>3. Total(gone, size) \in Nat /\ Total(D \ gone, size) \in Nat
  BY <1>1, <1>2, TotalType
<1>4. Total(D, size) = Total(D \ gone, size) + Total(gone, size)
  BY <1>1, TotalSplit
<1>5. DOMAIN left = D \ gone /\ \A k \in D \ gone : IndexSize(left)[k] = size[k]
  BY DEF Without, IndexSize
<1>6. Total(D \ gone, IndexSize(left)) = Total(D \ gone, size)
  BY <1>5, TotalCongruence
<1>7. Counted(left) = Total(D \ gone, size)
  BY <1>5, <1>6 DEF Counted
<1>8. QED
  BY <1>3, <1>4, <1>7 DEF Counted

\* Dropping index records takes exactly their bytes off disk_bytes.
LEMMA DropIndexedCounts ==
    ASSUME NEW d, DiskTier(d), DiskCounted(d), NEW S
    PROVE  /\ DiskCounted(DropIndexed(d, S))
           /\ DropIndexed(d, S).bytes =
                d.bytes - Total(S \cap DOMAIN d.index, IndexSize(d.index))
           /\ DropIndexed(d, S).bytes <= d.bytes
<1> DEFINE c == DropIndexed(d, S)
           removed == Total(S \cap DOMAIN d.index, IndexSize(d.index))
<1>1. /\ c.index = Without(d.index, S)
      /\ c.bytes = SaturatingSub(d.bytes, removed)
      /\ c.lost = d.lost
  BY DEF DropIndexed
<1>2. /\ Counted(c.index) \in Nat /\ removed \in Nat
      /\ Counted(d.index) = Counted(c.index) + removed
  BY <1>1, IndexShrinks
<1> HIDE DEF c, removed
<1>3. d.lost \in Nat /\ d.bytes \in Nat /\ d.bytes = Counted(d.index) + d.lost
  BY DEF DiskTier, DiskCounted
<1>4. c.bytes = d.bytes - removed /\ c.bytes = Counted(c.index) + c.lost /\ c.bytes <= d.bytes
  BY <1>1, <1>2, <1>3 DEF SaturatingSub
<1>5. QED
  BY <1>4 DEF DiskCounted, c, removed

\* What removing records and files leaves of a disk tier.
LEMMA DropsFrom ==
    ASSUME NEW d, DiskTier(d), NEW S, NEW T
    PROVE  LET c == Unlink(DropIndexed(d, S), T)
           IN  /\ DiskFrom(c, d)
               /\ DOMAIN c.index = DOMAIN d.index \ S
               /\ DOMAIN c.files = DOMAIN d.files \ T
               /\ c.bytes = DropIndexed(d, S).bytes
               /\ c.lost = d.lost
               /\ c.index = DropIndexed(d, S).index
<1> DEFINE b == DropIndexed(d, S)
           c == Unlink(b, T)
<1>1. DiskTier(b) /\ b.files = d.files
  BY DropIndexedKeeps
<1>2. b.index = Without(d.index, S) /\ b.lost = d.lost
  BY DEF DropIndexed
<1> HIDE DEF b
<1>3. c = [index |-> b.index, bytes |-> b.bytes, order |-> b.order,
           files |-> Without(b.files, T), lost |-> b.lost]
  BY <1>1 DEF Unlink, DiskTier
<1>4. c.index = b.index /\ c.bytes = b.bytes /\ c.lost = b.lost /\ c.files = Without(d.files, T)
  BY <1>1, <1>3
<1> HIDE DEF c
<1>5. /\ DOMAIN c.index = DOMAIN d.index \ S
      /\ \A k \in DOMAIN c.index : c.index[k] = d.index[k]
      /\ DOMAIN c.files = DOMAIN d.files \ T
      /\ \A k \in DOMAIN c.files : c.files[k] = d.files[k]
  BY <1>2, <1>4 DEF Without
<1>6. QED
  BY <1>2, <1>4, <1>5 DEF DiskFrom, b, c

\* Agreement survives the loss of records and files.
LEMMA FewerAgree ==
    ASSUME NEW d, NEW c, DiskFrom(c, d), Agrees(d)
    PROVE  Agrees(c)
<1>1. ASSUME NEW k \in DOMAIN c.index \cap DOMAIN c.files, c.files[k].damage # "meta"
      PROVE  c.index[k] = RecordOf(c.files[k])
  <2>1. /\ k \in DOMAIN d.index \cap DOMAIN d.files
        /\ c.index[k] = d.index[k] /\ c.files[k] = d.files[k]
    BY <1>1 DEF DiskFrom
  <2>2. QED
    BY <1>1, <2>1 DEF Agrees
<1>2. QED
  BY <1>1 DEF Agrees

\* Removing records, with or without their files, keeps the bookkeeping sound.
LEMMA DropsSound ==
    ASSUME NEW d, DiskTier(d), Sound(d), NEW S, NEW T
    PROVE  Sound(Unlink(DropIndexed(d, S), T)) /\ Sound(DropIndexed(d, S))
<1> DEFINE b == DropIndexed(d, S)
           c == Unlink(b, T)
<1>1. DiskTier(b) /\ DiskCounted(b) /\ b.bytes <= d.bytes
  BY DropIndexedKeeps, DropIndexedCounts DEF Sound
<1>2. /\ DiskFrom(c, d) /\ DOMAIN c.index = DOMAIN d.index \ S
      /\ c.bytes = b.bytes /\ c.lost = d.lost /\ c.index = b.index
  BY DropsFrom
<1>3. DiskFrom(b, d) /\ b.lost = d.lost
  BY DEF DropIndexed, DiskFrom, Without
<1> HIDE DEF b, c
<1>4. DiskCounted(c)
  BY <1>1, <1>2, <1>3 DEF DiskCounted
<1>5. Unpinned(d.index) = {} => Unpinned(c.index) = {}
  BY <1>2 DEF Unpinned, DiskFrom
<1>6. DiskWithin(c) /\ DiskWithin(b)
  BY <1>1, <1>2, <1>3, <1>5, CapacityAssumption DEF DiskWithin, Sound, DiskTier
<1>7. Agrees(c) /\ Agrees(b)
  BY <1>2, <1>3, FewerAgree DEF Sound
<1>8. QED
  BY <1>1, <1>4, <1>6, <1>7 DEF Sound, b, c

\* When the store refuses a removal disk_bytes keeps counting the record.
LEMMA UnindexedSound ==
    ASSUME NEW d, DiskTier(d), DiskCounted(d), Agrees(d), NEW k \in DOMAIN d.index
    PROVE  Sound(Unindexed(d, k)) /\ DiskFrom(Unindexed(d, k), d)
<1> DEFINE c == Unindexed(d, k)
           size == d.index[k].bytes
<1>1. /\ c.index = Without(d.index, {k}) /\ c.bytes = d.bytes
      /\ c.files = d.files /\ c.lost = d.lost + size
  BY DEF Unindexed
<1>2. IndexSize(d.index)[k] = size /\ size \in Nat \ {0}
  BY IndexSizes
<1>3. Total({k} \cap DOMAIN d.index, IndexSize(d.index)) = size
  <2>1. {k} \cap DOMAIN d.index = {k}
    OBVIOUS
  <2>2. QED
    BY <1>2, <2>1, TotalOfOne
<1>4. Counted(c.index) \in Nat /\ Counted(d.index) = Counted(c.index) + size
  BY <1>1, <1>3, IndexShrinks
<1> HIDE DEF c, size
<1>5. DiskCounted(c) /\ c.lost # 0
  BY <1>1, <1>2, <1>4 DEF DiskCounted, DiskTier
<1>6. DiskFrom(c, d)
  BY <1>1 DEF DiskFrom, Without
<1>7. QED
  BY <1>5, <1>6, FewerAgree DEF Sound, DiskWithin, c

\* remove_disk_record_locked removes at most the file of k.
LEMMA RemoveDiskRecordSound ==
    ASSUME NEW d, DiskTier(d), Sound(d), NEW k, NEW r \in RemoveDiskRecord(d, k)
    PROVE  /\ Sound(r.d) /\ DiskFrom(r.d, d)
           /\ DOMAIN d.files \ DOMAIN r.d.files \subseteq {k}
           /\ r.ok => k \notin DOMAIN r.d.index
<1>1. \/ r.d = d /\ k \notin DOMAIN d.index
      \/ r.d = Unlink(DropIndexed(d, {k}), {k})
      \/ k \in DOMAIN d.index /\ r.d = Unindexed(d, k) /\ ~r.ok
  BY DEF RemoveDiskRecord, Outcome, Failing
<1>2. CASE r.d = d /\ k \notin DOMAIN d.index
  BY <1>2 DEF DiskFrom
<1>3. CASE r.d = Unlink(DropIndexed(d, {k}), {k})
  BY <1>3, DropsFrom, DropsSound
<1>4. CASE k \in DOMAIN d.index /\ r.d = Unindexed(d, k) /\ ~r.ok
  BY <1>4, UnindexedSound, UnindexedKeeps DEF Sound
<1>5. QED
  BY <1>1, <1>2, <1>3, <1>4

\* The outcomes of evict_disk_locked: it removes E, all of it unpinned, and stops
\* within the quota, or fails at the removal of one more record.
LEMMA EvictDiskOutcomes ==
    ASSUME NEW d, DiskTier(d), NEW r \in EvictDisk(d)
    PROVE  \E E \in SUBSET Unpinned(d.index) :
             \/ /\ r.ok /\ r.d = Unlink(DropIndexed(d, E), E)
                /\ \/ SaturatingSub(d.bytes, Total(E, IndexSize(d.index))) <= MaxDisk
                   \/ E = Unpinned(d.index)
             \/ /\ ~r.ok
                /\ \E last \in DOMAIN d.index \ E :
                     r.d = Unindexed(Unlink(DropIndexed(d, E), E), last)
<1> DEFINE U == Unpinned(d.index)
           size == IndexSize(d.index)
           part(E, last) == Unindexed(Unlink(DropIndexed(d, E \ {last}), E \ {last}), last)
           Last(E) == {last \in E : Reached(E, last, U, d.order, size, d.bytes, MaxDisk)}
<1>1. CASE r \in {Outcome(Unlink(DropIndexed(d, E), E), TRUE) :
                    E \in Evictions(U, d.order, size, d.bytes, MaxDisk)}
  <2>1. PICK E \in Evictions(U, d.order, size, d.bytes, MaxDisk) :
               r = Outcome(Unlink(DropIndexed(d, E), E), TRUE)
    BY <1>1
  <2>2. r.d = Unlink(DropIndexed(d, E), E) /\ r.ok
    BY <2>1 DEF Outcome
  <2>3. /\ E \in SUBSET U
        /\ SaturatingSub(d.bytes, Total(E, size)) <= MaxDisk \/ E = U
    BY DEF Evictions
  <2>4. QED
    BY <2>2, <2>3
<1>2. CASE r \in UNION {UNION {Failing("remove", part(E, last)) : last \in Last(E)}
                        : E \in SUBSET U}
  <2>0. PICK E \in SUBSET U : r \in UNION {Failing("remove", part(E, last)) : last \in Last(E)}
    BY <1>2
  <2>1. PICK last \in Last(E) : r \in Failing("remove", part(E, last))
    BY <2>0
  <2>2. r.d = part(E, last) /\ ~r.ok /\ last \in DOMAIN d.index \ (E \ {last})
    BY <2>1 DEF Failing, Outcome, Unpinned
  <2>3. E \ {last} \in SUBSET U
    OBVIOUS
  <2>4. QED
    BY <2>2, <2>3
<1>3. QED
  BY <1>1, <1>2 DEF EvictDisk

\* Eviction brings the tier within its quota unless a removal fails, and removes the
\* files of unpinned records only.
LEMMA EvictDiskSound ==
    ASSUME NEW d, DiskTier(d), DiskCounted(d), Agrees(d), NEW r \in EvictDisk(d)
    PROVE  /\ Sound(r.d) /\ DiskFrom(r.d, d)
           /\ DOMAIN d.files \ DOMAIN r.d.files \subseteq Unpinned(d.index)
           /\ r.ok => \E E \in SUBSET Unpinned(d.index) : r.d = Unlink(DropIndexed(d, E), E)
<1>1. PICK E \in SUBSET Unpinned(d.index) :
             \/ /\ r.ok /\ r.d = Unlink(DropIndexed(d, E), E)
                /\ \/ SaturatingSub(d.bytes, Total(E, IndexSize(d.index))) <= MaxDisk
                   \/ E = Unpinned(d.index)
             \/ /\ ~r.ok
                /\ \E last \in DOMAIN d.index \ E :
                     r.d = Unindexed(Unlink(DropIndexed(d, E), E), last)
  BY EvictDiskOutcomes
<1> DEFINE b == DropIndexed(d, E)
           c == Unlink(b, E)
<1>2. DiskTier(b) /\ DiskCounted(b) /\ DiskTier(c)
  BY DropIndexedKeeps, DropIndexedCounts, UnlinkKeeps
<1>3. /\ DiskFrom(c, d) /\ DOMAIN c.index = DOMAIN d.index \ E
      /\ DOMAIN c.files = DOMAIN d.files \ E
      /\ c.bytes = b.bytes /\ c.lost = d.lost /\ c.index = b.index
  BY DropsFrom
<1>3a. b.lost = d.lost
  BY DEF DropIndexed
<1>4. b.bytes = SaturatingSub(d.bytes, Total(E, IndexSize(d.index)))
  <2>1. E \cap DOMAIN d.index = E
    BY DEF Unpinned
  <2>2. QED
    BY <2>1 DEF DropIndexed
<1> HIDE DEF b, c
<1>5. DiskCounted(c) /\ Agrees(c)
  BY <1>2, <1>3, <1>3a, FewerAgree DEF DiskCounted
<1>6. CASE /\ r.ok /\ r.d = c
           /\ SaturatingSub(d.bytes, Total(E, IndexSize(d.index))) <= MaxDisk \/ E = Unpinned(d.index)
  <2>1. E = Unpinned(d.index) => Unpinned(c.index) = {}
    BY <1>3 DEF Unpinned, DiskFrom
  <2>2. DiskWithin(c)
    BY <1>3, <1>4, <1>6, <2>1 DEF DiskWithin
  <2>3. QED
    BY <1>3, <1>5, <1>6, <2>2 DEF Sound, b, c
<1>7. ASSUME ~r.ok, NEW last \in DOMAIN d.index \ E, r.d = Unindexed(c, last)
      PROVE  /\ Sound(r.d) /\ DiskFrom(r.d, d)
             /\ DOMAIN d.files \ DOMAIN r.d.files \subseteq Unpinned(d.index)
  <2>1. last \in DOMAIN c.index
    BY <1>3
  <2>2. Sound(r.d) /\ DiskFrom(r.d, c) /\ r.d.files = c.files
    BY <1>2, <1>5, <1>7, <2>1, UnindexedSound, UnindexedKeeps
  <2>3. DiskFrom(r.d, d)
    BY <1>3, <2>2 DEF DiskFrom
  <2>4. QED
    BY <1>3, <2>2, <2>3
<1>8. QED
  BY <1>1, <1>6, <1>7 DEF b, c

\* An unpinned record's undamaged file is unpinned, so eviction spares pinned files.
LEMMA EvictionSparesPinned ==
    ASSUME NEW d, DiskTier(d), Agrees(d), NEW c, NEW now,
           DOMAIN d.files \ DOMAIN c.files \subseteq Unpinned(d.index)
    PROVE  Spares(c, d, now)
<1>1. ASSUME NEW k \in DOMAIN d.files \ DOMAIN c.files, d.files[k].pinned,
             d.files[k].damage = "none"
      PROVE  FALSE
  <2>1. k \in DOMAIN d.index /\ ~d.index[k].pinned
    BY <1>1 DEF Unpinned
  <2>2. d.index[k] = RecordOf(d.files[k])
    BY <1>1, <2>1 DEF Agrees
  <2>3. d.index[k].pinned = d.files[k].pinned
    BY <2>2 DEF RecordOf
  <2>4. QED
    BY <1>1, <2>1, <2>3
<1>2. QED
  BY <1>1 DEF Spares

\* Spared files stay spared when more of a smaller tier is lost.
LEMMA SparesChain ==
    ASSUME NEW d, NEW c, NEW b, NEW now, DiskFrom(c, d), Spares(c, d, now), Spares(b, c, now)
    PROVE  Spares(b, d, now)
BY DEF Spares, DiskFrom

\* The file that put writes and its index record agree and are counted once.
LEMMA InsertedSound ==
    ASSUME NEW d, DiskTier(d), DiskCounted(d), Agrees(d), NEW k \in Keys \ DOMAIN d.index,
           NEW e \in StoredEntry
    PROVE  LET i == Inserted(d, k, e)
           IN  /\ DiskCounted(i) /\ Agrees(i)
               /\ DOMAIN i.index = DOMAIN d.index \cup {k}
               /\ DOMAIN i.files = DOMAIN d.files \cup {k}
               /\ \A j \in DOMAIN d.files \ {k} : i.files[j] = d.files[j]
<1> DEFINE i == Inserted(d, k, e)
           rec == RecordOf(e)
           D == DOMAIN d.index
           size == IndexSize(i.index)
<1>1. /\ i.index = With(d.index, k, rec)
      /\ i.bytes = d.bytes + rec.bytes
      /\ i.files = With(d.files, k, e)
      /\ i.lost = d.lost
  BY DEF Inserted, RecordOf
<1>2. DiskTier(i)
  BY InsertedKeeps
<1> HIDE DEF i
<1>3. /\ DOMAIN i.index = D \cup {k} /\ i.index[k] = rec
      /\ \A j \in D : i.index[j] = d.index[j]
      /\ DOMAIN i.files = DOMAIN d.files \cup {k} /\ i.files[k] = e
      /\ \A j \in DOMAIN d.files \ {k} : i.files[j] = d.files[j]
  BY <1>1 DEF With
<1>4. Counted(i.index) = Counted(d.index) + rec.bytes
  <2>1. IsFiniteSet(D \cup {k}) /\ \A j \in D \cup {k} : size[j] = i.index[j].bytes /\ size[j] \in Nat
    BY <1>2, <1>3, IndexSizes, ZenonT(30)
  <2>2. Total(D \cup {k}, size) = Total((D \cup {k}) \ {k}, size) + Total({k}, size)
    BY <2>1, TotalSplit
  <2>3. (D \cup {k}) \ {k} = D
    OBVIOUS
  <2>4. Total({k}, size) = rec.bytes
    BY <1>3, <2>1, TotalOfOne, ZenonT(30)
  <2>5. \A j \in D : size[j] = IndexSize(d.index)[j]
    BY <1>3 DEF IndexSize
  <2>6. Total(D, size) = Total(D, IndexSize(d.index))
    BY <2>5, TotalCongruence
  <2>7. QED
    BY <1>3, <2>2, <2>3, <2>4, <2>6 DEF Counted
<1>5. DiskCounted(i)
  <2>1. rec.bytes \in Nat /\ d.bytes \in Nat /\ d.lost \in Nat
    BY <1>2, <1>3, IndexSizes DEF DiskTier
  <2>2. Counted(d.index) \in Nat
    BY IndexSizes, TotalType DEF Counted
  <2>3. QED
    BY <1>1, <1>4, <2>1, <2>2 DEF DiskCounted
<1>6. Agrees(i)
  <2>1. ASSUME NEW j \in DOMAIN i.index \cap DOMAIN i.files, i.files[j].damage # "meta"
        PROVE  i.index[j] = RecordOf(i.files[j])
    <3>1. CASE j = k
      BY <1>3, <3>1
    <3>2. CASE j # k
      BY <1>3, <2>1, <3>2 DEF Agrees
    <3>3. QED
      BY <3>1, <3>2
  <2>2. QED
    BY <2>1 DEF Agrees
<1>7. QED
  BY <1>3, <1>5, <1>6 DEF i

\* An index built from the files agrees with them and counts them.
LEMMA LoadedSound ==
    ASSUME NEW files, IsMap(files, Keys, StoredEntry), NEW kept \in SUBSET DOMAIN files
    PROVE  LET l == Loaded(files, kept)
           IN  DiskCounted(l) /\ Agrees(l) /\ l.lost = 0 /\ DOMAIN l.index = kept
<1> DEFINE l == Loaded(files, kept)
           size == [k \in kept |-> Header + Size[files[k].value]]
<1>1. /\ DOMAIN l.index = kept /\ \A k \in kept : l.index[k] = RecordOf(files[k])
      /\ l.bytes = Total(kept, size) /\ l.lost = 0 /\ l.files = files
  BY DEF Loaded, RecordOf
<1>2. DiskTier(l)
  BY LoadedKeeps
<1> HIDE DEF l
<1>3. \A k \in kept : IndexSize(l.index)[k] = size[k]
  <2>1. ASSUME NEW k \in kept PROVE IndexSize(l.index)[k] = size[k]
    <3>1. IndexSize(l.index)[k] = RecordOf(files[k]).bytes
      BY <1>1, <1>2, IndexSizes
    <3>2. QED
      BY <3>1 DEF RecordOf
  <2>2. QED
    BY <2>1
<1>4. Counted(l.index) = Total(kept, size)
  BY <1>1, <1>3, TotalCongruence DEF Counted
<1>5. DiskCounted(l)
  BY <1>1, <1>2, <1>4 DEF DiskCounted, DiskTier
<1>6. Agrees(l)
  BY <1>1 DEF Agrees
<1>7. QED
  BY <1>1, <1>5, <1>6 DEF l

\* An index of nothing is sound over any files.
LEMMA EmptyIndexSound ==
    ASSUME NEW files
    PROVE  /\ Sound(EmptyIndex(files)) /\ EmptyIndex(files).files = files
           /\ DOMAIN EmptyIndex(files).index = {}
<1> DEFINE z == EmptyIndex(files)
<1>1. /\ z.index = NoEntries /\ z.bytes = 0 /\ z.lost = 0 /\ z.files = files
      /\ DOMAIN z.index = {}
  BY DEF EmptyIndex, NoEntries
<1> HIDE DEF z
<1>2. Counted(z.index) = 0
  BY <1>1, TotalOfNone DEF Counted
<1>3. QED
  BY <1>1, <1>2, CapacityAssumption DEF Sound, DiskCounted, DiskWithin, Agrees, z

\* The inductive invariant of the disk tier, on top of that of the cache.
DiskInv == Inv /\ Sound(disk)

\* The pinned files a step takes away.
PinnedStep ==
    \A k \in DOMAIN disk.files \ DOMAIN disk'.files :
        disk.files[k].pinned =>
           \/ Expired(disk.files[k].expires, clock)
           \/ disk.files[k].damage # "none"
           \/ \E t \in DOMAIN call : k \in call[t].todo

\* Dropping an expired record, as get and put do, only costs an expired or damaged file.
LEMMA ExpirySpares ==
    ASSUME DiskInv, NEW k \in DOMAIN disk.index, NEW now \in Readings,
           Expired(disk.index[k].expires, now), NEW r \in RemoveDiskRecord(disk, k)
    PROVE  Spares(r.d, disk, clock)
<1>1. DOMAIN disk.files \ DOMAIN r.d.files \subseteq {k}
  BY RemoveDiskRecordSound DEF DiskInv, Inv, TypeOK
<1>2. ASSUME k \in DOMAIN disk.files, disk.files[k].damage = "none"
      PROVE  Expired(disk.files[k].expires, clock)
  <2>1. disk.index[k] = RecordOf(disk.files[k])
    BY <1>2 DEF DiskInv, Sound, Agrees
  <2>2. disk.index[k].expires = disk.files[k].expires
    BY <2>1 DEF RecordOf
  <2>3. now \in Nat /\ now <= clock /\ clock \in Nat
    BY DEF Readings, DiskInv, Inv, TypeOK
  <2>4. disk.index[k].expires \in Nat
    BY DEF DiskInv, Inv, TypeOK, DiskTier, IsMap, StoreRecord
  <2>5. QED
    BY <2>2, <2>3, <2>4 DEF Expired
<1>3. QED
  BY <1>1, <1>2 DEF Spares

\* put's first disk step.
LEMMA DropIfExpiredSound ==
    ASSUME DiskInv, NEW k \in Keys, NEW now \in Readings, NEW q \in DropIfExpired(disk, k, now)
    PROVE  /\ DiskTier(q.d) /\ Sound(q.d) /\ DiskFrom(q.d, disk)
           /\ Spares(q.d, disk, clock)
<1>1. CASE q = Outcome(disk, TRUE)
  BY <1>1 DEF Outcome, DiskInv, Inv, TypeOK, DiskFrom, Spares
<1>2. CASE /\ k \in DOMAIN disk.index /\ Expired(disk.index[k].expires, now)
           /\ q \in RemoveDiskRecord(disk, k)
  BY <1>2, ExpirySpares, RemoveDiskRecordSound, RemoveDiskRecordKeeps DEF DiskInv, Inv, TypeOK
<1>3. QED
  BY <1>1, <1>2 DEF DropIfExpired

\* A put keeps the disk tier's bookkeeping and every pinned file.
LEMMA DiskWritesSound ==
    ASSUME DiskInv, NEW k \in Keys, NEW e \in StoredEntry, NEW now \in Readings,
           NEW r \in DiskWrites(k, e, now)
    PROVE  Sound(r.d) /\ Spares(r.d, disk, clock)
<1>1. CASE r = Outcome(disk, TRUE)
  BY <1>1 DEF Outcome, DiskInv, Spares
<1>2. CASE \E q \in DropIfExpired(disk, k, now) :
             r \in IF q.ok THEN WriteIfAbsent(q.d, k, e) ELSE {q}
  <2>1. PICK q \in DropIfExpired(disk, k, now) :
               r \in IF q.ok THEN WriteIfAbsent(q.d, k, e) ELSE {q}
    BY <1>2
  <2>2. /\ DiskTier(q.d) /\ Sound(q.d) /\ DiskFrom(q.d, disk)
        /\ Spares(q.d, disk, clock)
    BY DropIfExpiredSound
  <2>3. \/ r.d = q.d
        \/ k \notin DOMAIN q.d.index \cup DOMAIN q.d.files /\ r \in EvictDisk(Inserted(q.d, k, e))
    BY <2>1 DEF WriteIfAbsent, Outcome, Failing
  <2>4. CASE r.d = q.d
    BY <2>2, <2>4
  <2>5. CASE k \notin DOMAIN q.d.index \cup DOMAIN q.d.files /\ r \in EvictDisk(Inserted(q.d, k, e))
    <3> DEFINE i == Inserted(q.d, k, e)
    <3>1. /\ DiskTier(i) /\ DiskCounted(i) /\ Agrees(i)
          /\ DOMAIN i.files = DOMAIN q.d.files \cup {k}
          /\ \A j \in DOMAIN q.d.files \ {k} : i.files[j] = q.d.files[j]
      BY <2>2, <2>5, InsertedSound, InsertedKeeps DEF Sound
    <3> HIDE DEF i
    <3>2. Sound(r.d) /\ Spares(r.d, i, clock)
      BY <2>5, <3>1, EvictDiskSound, EvictionSparesPinned DEF i
    <3>3. Spares(r.d, q.d, clock)
      BY <2>5, <3>1, <3>2 DEF Spares
    <3>4. QED
      BY <2>2, <3>2, <3>3, SparesChain
  <2>6. QED
    BY <2>3, <2>4, <2>5
<1>3. QED
  BY <1>1, <1>2 DEF DiskWrites

\* The steps of get.
LEMMA GetDiskStep ==
    ASSUME DiskInv, NEW k \in Keys, NEW now \in Readings, Get(k, now)
    PROVE  Sound(disk') /\ Spares(disk', disk, clock)
<1> USE DEF DiskInv, Inv, TypeOK
<1>1. CASE UNCHANGED disk
  BY <1>1 DEF Spares
<1>2. CASE GetExpired(k, now)
  <2>1. /\ k \in DOMAIN disk.index /\ Expired(disk.index[k].expires, now)
        /\ \E r \in RemoveDiskRecord(disk, k) : disk' = r.d
    BY <1>2 DEF GetExpired
  <2>2. QED
    BY <2>1, ExpirySpares, RemoveDiskRecordSound
<1>3. CASE GetVanished(k, now)
  <2>1. disk' = DropIndexed(disk, {k})
    BY <1>3 DEF GetVanished
  <2>2. QED
    BY <2>1, DropsSound, DropIndexedKeeps DEF Spares
<1>4. CASE k \in DOMAIN disk.index /\ k \in DOMAIN disk.files /\ Unreadable(k)
           /\ disk' = Unlink(DropIndexed(disk, {k}), {k})
  <2>1. Sound(disk') /\ DOMAIN disk'.files = DOMAIN disk.files \ {k}
    BY <1>4, DropsSound, DropsFrom
  <2>2. disk.files[k].damage # "none"
    <3>1. SUFFICES ASSUME disk.files[k].damage = "none" PROVE FALSE
      OBVIOUS
    <3>2. disk.index[k] = RecordOf(disk.files[k])
      BY <1>4, <3>1 DEF Sound, Agrees
    <3>3. QED
      BY <1>4, <3>1, <3>2 DEF Unreadable, RecordOf
  <2>3. QED
    BY <2>1, <2>2 DEF Spares
<1>5. CASE GetDiskHit(k, now)
  <2>1. disk' = [disk EXCEPT !.order = Touch(@, k, DOMAIN disk.index)]
    BY <1>5 DEF GetDiskHit
  <2>2. /\ disk'.index = disk.index /\ disk'.bytes = disk.bytes
        /\ disk'.files = disk.files /\ disk'.lost = disk.lost
    BY <2>1 DEF DiskTier
  <2>3. QED
    BY <2>2 DEF Sound, DiskCounted, DiskWithin, Agrees, Spares
<1>6. QED
  BY <1>1, <1>2, <1>3, <1>4, <1>5
     DEF Get, GetMemoryHit, GetMiss, GetCorrupt, GetFails, ReadsStore

\* put, and a crash inside it.
LEMMA PutDiskStep ==
    ASSUME DiskInv, NEW k \in Keys, NEW v \in Values, NEW ttl \in TTLs, NEW pinned \in Pins,
           NEW now \in Readings,
           Put(k, v, ttl, pinned, now) \/ CrashInPut(k, v, ttl, pinned, now)
    PROVE  Sound(disk') /\ Spares(disk', disk, clock)
<1> DEFINE e == Entry(v, ExpiresAt(now, ttl), pinned)
<1>1. ExpiresAt(now, ttl) \in Nat
  BY TimeAssumption DEF ExpiresAt, Readings
<1>2. e \in StoredEntry
  BY <1>1, PinsAssumption DEF Entry, StoredEntry, Damage
<1> HIDE DEF e
<1>3. CASE Put(k, v, ttl, pinned, now)
  <2>1. \E r \in DiskWrites(k, e, now) : disk' = r.d
    BY <1>3 DEF Put, e
  <2>2. QED
    BY <1>2, <2>1, DiskWritesSound
<1>4. CASE CrashInPut(k, v, ttl, pinned, now)
  <2>1. PICK q \in DropIfExpired(disk, k, now), E \in SUBSET Keys :
               /\ k \notin DOMAIN q.d.index \cup DOMAIN q.d.files
               /\ E = {} \/ E \subseteq Unpinned(Inserted(q.d, k, e).index)
               /\ disk' = EmptyIndex(Without(Inserted(q.d, k, e).files, E))
    BY <1>4 DEF CrashInPut, e
  <2>2. /\ DiskTier(q.d) /\ Sound(q.d) /\ DiskFrom(q.d, disk)
        /\ Spares(q.d, disk, clock)
    BY DropIfExpiredSound
  <2> DEFINE i == Inserted(q.d, k, e)
  <2>3. /\ DiskTier(i) /\ Agrees(i)
        /\ DOMAIN i.files = DOMAIN q.d.files \cup {k}
        /\ \A j \in DOMAIN q.d.files \ {k} : i.files[j] = q.d.files[j]
    BY <1>2, <2>1, <2>2, InsertedSound, InsertedKeeps DEF Sound
  <2> HIDE DEF i
  <2>4. Sound(disk') /\ disk'.files = Without(i.files, E)
    BY <2>1, EmptyIndexSound DEF i
  <2>5. DOMAIN i.files \ DOMAIN disk'.files \subseteq Unpinned(i.index)
    BY <2>1, <2>4 DEF Without, i
  <2>6. Spares(disk', i, clock)
    BY <2>3, <2>5, EvictionSparesPinned
  <2>7. Spares(disk', q.d, clock)
    BY <2>1, <2>3, <2>6 DEF Spares
  <2>8. QED
    BY <2>2, <2>4, <2>7, SparesChain
<1>5. QED
  BY <1>3, <1>4

\* invalidate and clear take away the files they are removing.
LEMMA RemoveDiskStep ==
    ASSUME DiskInv, NEW t \in Threads, Remove(t)
    PROVE  Sound(disk') /\ PinnedStep
<1> USE DEF DiskInv, Inv, TypeOK
<1>1. CASE UNCHANGED disk
  BY <1>1 DEF PinnedStep
<1>2. ASSUME NEW k \in Keys, RemoveFile(t, k)
      PROVE  Sound(disk') /\ PinnedStep
  <2>1. disk' = Unlink(disk, {k}) /\ k \in call[t].todo
    BY <1>2 DEF RemoveFile
  <2>2. /\ disk'.index = disk.index /\ disk'.bytes = disk.bytes /\ disk'.lost = disk.lost
        /\ disk'.files = Without(disk.files, {k})
    BY <2>1 DEF Unlink, DiskTier
  <2>3. DiskFrom(disk', disk) /\ DOMAIN disk'.files = DOMAIN disk.files \ {k}
    BY <2>2 DEF DiskFrom, Without
  <2>4. Agrees(disk')
    BY <2>3, FewerAgree DEF Sound
  <2>5. t \in DOMAIN call
    OBVIOUS
  <2>6. QED
    BY <2>1, <2>2, <2>3, <2>4, <2>5 DEF Sound, DiskCounted, DiskWithin, PinnedStep
<1>3. CASE FinishInvalidate(t)
  <2>1. disk' = DropIndexed(disk, call[t].keys)
    BY <1>3 DEF FinishInvalidate
  <2>2. QED
    BY <2>1, DropsSound, DropIndexedKeeps DEF PinnedStep
<1>4. CASE FinishClear(t)
  <2>1. disk' = EmptyIndex(disk.files)
    BY <1>4 DEF FinishClear
  <2>2. QED
    BY <2>1, EmptyIndexSound DEF PinnedStep
<1>5. QED
  BY <1>1, <1>2, <1>3, <1>4 DEF Remove, BeginClear, BeginInvalidate, RemoveFails

\* A damaged file keeps its record's agreement unless the damage is to the metadata.
LEMMA RotDiskStep ==
    ASSUME DiskInv, NEW k \in Keys, NEW kind \in Damage, Rot(k, kind)
    PROVE  Sound(disk') /\ DOMAIN disk'.files = DOMAIN disk.files
<1> USE DEF DiskInv, Inv, TypeOK
<1> DEFINE new == [disk.files EXCEPT ![k].damage = kind,
                                     ![k].pinned = IF kind = "meta" THEN ~@ ELSE @]
<1>1. /\ disk'.index = disk.index /\ disk'.bytes = disk.bytes /\ disk'.lost = disk.lost
      /\ disk'.files = new
  BY DEF Rot, DiskTier
<1>2. /\ k \in DOMAIN disk.files /\ disk.files[k] \in StoredEntry
      /\ disk.files[k].damage = "none"
  BY DEF Rot, DiskTier, IsMap
<1>3. /\ DOMAIN new = DOMAIN disk.files
      /\ \A j \in DOMAIN disk.files \ {k} : new[j] = disk.files[j]
      /\ new[k].damage = kind /\ new[k].value = disk.files[k].value
      /\ new[k].expires = disk.files[k].expires
      /\ kind # "meta" => new[k].pinned = disk.files[k].pinned
  BY <1>2 DEF StoredEntry
<1> HIDE DEF new
<1>4. Agrees(disk')
  <2>1. ASSUME NEW j \in DOMAIN disk'.index \cap DOMAIN disk'.files,
               disk'.files[j].damage # "meta"
        PROVE  disk'.index[j] = RecordOf(disk'.files[j])
    <3>1. CASE j = k
      <4>1. disk.index[k] = RecordOf(disk.files[k])
        BY <1>1, <1>2, <1>3, <2>1, <3>1 DEF Sound, Agrees
      <4>2. RecordOf(new[k]) = RecordOf(disk.files[k])
        BY <1>1, <1>3, <2>1, <3>1 DEF RecordOf
      <4>3. QED
        BY <1>1, <3>1, <4>1, <4>2
    <3>2. CASE j # k
      BY <1>1, <1>3, <2>1, <3>2 DEF Sound, Agrees
    <3>3. QED
      BY <3>1, <3>2
  <2>2. QED
    BY <2>1 DEF Agrees
<1>5. QED
  BY <1>1, <1>3, <1>4 DEF Sound, DiskCounted, DiskWithin

\* What from_builder leaves: an index over the files that parse and have not expired,
\* less what the quota evicts; files outside the index are damaged in the header.
LEMMA OpenDiskStep ==
    ASSUME DiskInv, Open(clock)
    PROVE  /\ Sound(disk') /\ Spares(disk', disk, clock)
           /\ SameFiles(disk', disk)
           /\ UNCHANGED disk \/ DOMAIN disk'.index \subseteq DOMAIN disk'.files
           /\ open' /\ MaxDisk > 0 =>
                /\ DOMAIN disk'.index \subseteq DOMAIN disk'.files
                /\ \A k \in DOMAIN disk'.files \ DOMAIN disk'.index :
                     disk'.files[k].damage = "header"
                /\ disk'.lost = 0
<1> USE DEF DiskInv, Inv, TypeOK
<1> DEFINE stale == Stale(disk.files, clock)
           headless == Headless(disk.files)
           Left(stuck) == Without(disk.files, stale \cup (headless \ stuck))
           kept == DOMAIN disk.files \ (stale \cup headless)
<1>1. CASE MaxDisk = 0
  BY <1>1 DEF Open, Spares, SameFiles
<1>2. ASSUME NEW stuck \in SUBSET headless, NEW r \in EvictDisk(Loaded(Left(stuck), kept)),
             disk' = IF r.ok THEN r.d ELSE EmptyIndex(r.d.files), open' = r.ok
      PROVE  /\ Sound(disk') /\ Spares(disk', disk, clock) /\ SameFiles(disk', disk)
             /\ DOMAIN disk'.index \subseteq DOMAIN disk'.files
             /\ open' =>
                  /\ DOMAIN disk'.index \subseteq DOMAIN disk'.files
                  /\ \A k \in DOMAIN disk'.files \ DOMAIN disk'.index :
                       disk'.files[k].damage = "header"
                  /\ disk'.lost = 0
  <2>1. /\ IsMap(Left(stuck), Keys, StoredEntry)
        /\ DOMAIN Left(stuck) = DOMAIN disk.files \ (stale \cup (headless \ stuck))
        /\ \A k \in DOMAIN Left(stuck) : Left(stuck)[k] = disk.files[k]
    BY DEF IsMap, Without, DiskTier
  <2>2. kept \in SUBSET DOMAIN Left(stuck) /\ DOMAIN Left(stuck) \ kept \subseteq headless
    BY <2>1
  <2>3. Spares(Loaded(Left(stuck), kept), disk, clock)
    <3>1. Loaded(Left(stuck), kept).files = Left(stuck)
      BY DEF Loaded
    <3>2. DOMAIN disk.files \ DOMAIN Left(stuck) \subseteq stale \cup headless
      BY <2>1
    <3>3. QED
      BY <3>1, <3>2 DEF Spares, Stale, Headless
  <2> DEFINE l == Loaded(Left(stuck), kept)
  <2>4. /\ DiskTier(l) /\ DiskCounted(l) /\ Agrees(l) /\ l.lost = 0
        /\ DOMAIN l.index = kept /\ l.files = Left(stuck)
    BY <2>1, <2>2, LoadedSound, LoadedKeeps, ZenonT(30)
  <2>5. DiskFrom([index |-> NoEntries, files |-> l.files], disk)
    BY <2>1, <2>4 DEF DiskFrom, NoEntries
  <2> HIDE DEF l, Left, stale, headless, kept
  <2>6. /\ Sound(r.d) /\ DiskFrom(r.d, l) /\ Spares(r.d, l, clock)
        /\ r.ok => \E E \in SUBSET Unpinned(l.index) : r.d = Unlink(DropIndexed(l, E), E)
    BY <1>2, <2>4, EvictDiskSound, EvictionSparesPinned DEF l
  <2>7. Spares(r.d, disk, clock)
    BY <2>3, <2>5, <2>6 DEF Spares, DiskFrom, l
  <2>8. /\ Sound(EmptyIndex(r.d.files)) /\ EmptyIndex(r.d.files).files = r.d.files
        /\ DOMAIN EmptyIndex(r.d.files).index = {}
    BY EmptyIndexSound
  <2>9. Sound(disk') /\ Spares(disk', disk, clock) /\ SameFiles(disk', disk)
    <3>1. SameFiles(r.d, disk)
      BY <2>5, <2>6 DEF DiskFrom, SameFiles
    <3>2. QED
      BY <1>2, <2>6, <2>7, <2>8, <3>1 DEF Spares, SameFiles
  <2>10. ASSUME r.ok
         PROVE  /\ DOMAIN r.d.index \subseteq DOMAIN r.d.files
                /\ \A k \in DOMAIN r.d.files \ DOMAIN r.d.index : r.d.files[k].damage = "header"
                /\ r.d.lost = 0
    <3>1. PICK E \in SUBSET Unpinned(l.index) : r.d = Unlink(DropIndexed(l, E), E)
      BY <2>6, <2>10
    <3>2. /\ DOMAIN r.d.index = DOMAIN l.index \ E /\ DOMAIN r.d.files = DOMAIN l.files \ E
          /\ r.d.lost = 0
      BY <2>4, <3>1, DropsFrom
    <3>3. DOMAIN r.d.index \subseteq DOMAIN r.d.files
      BY <2>2, <2>4, <3>2
    <3>4. ASSUME NEW k \in DOMAIN r.d.files \ DOMAIN r.d.index
          PROVE  r.d.files[k].damage = "header"
      <4>1. k \in headless
        BY <2>2, <2>4, <3>2, <3>4
      <4>2. r.d.files[k] = l.files[k] /\ k \in DOMAIN l.files
        BY <2>6, <3>4 DEF DiskFrom
      <4>3. l.files[k] = disk.files[k]
        BY <2>1, <2>4, <4>2
      <4>4. QED
        BY <4>1, <4>2, <4>3 DEF Headless, headless
    <3>5. QED
      BY <3>2, <3>3, <3>4
  <2>11. QED
    BY <1>2, <2>8, <2>9, <2>10
<1>3. ASSUME NEW done \in SUBSET stale, disk' = EmptyIndex(Unlink(disk, done \cup headless).files),
             ~open'
      PROVE  /\ Sound(disk') /\ Spares(disk', disk, clock) /\ SameFiles(disk', disk)
             /\ DOMAIN disk'.index \subseteq DOMAIN disk'.files
  <2>1. Unlink(disk, done \cup headless).files = Without(disk.files, done \cup headless)
    BY DEF Unlink, DiskTier
  <2>2. /\ Sound(disk') /\ disk'.files = Unlink(disk, done \cup headless).files
        /\ DOMAIN disk'.index = {}
    BY <1>3, EmptyIndexSound
  <2>3. QED
    BY <2>1, <2>2 DEF Spares, Stale, Headless, SameFiles, Without
<1>4. ASSUME MaxDisk # 0
      PROVE  \/ \E stuck \in SUBSET headless :
                  \E r \in EvictDisk(Loaded(Left(stuck), kept)) :
                    /\ disk' = IF r.ok THEN r.d ELSE EmptyIndex(r.d.files)
                    /\ open' = r.ok
             \/ \E done \in SUBSET stale :
                  /\ disk' = EmptyIndex(Unlink(disk, done \cup headless).files)
                  /\ ~open'
  <2>1. PICK r \in Reopenings(clock) :
               /\ open' = r.ok
               /\ disk' = IF r.ok THEN r.d ELSE EmptyIndex(r.d.files)
    BY <1>4 DEF Open
  <2>2. \/ \E stuck \in SUBSET headless : r \in EvictDisk(Loaded(Left(stuck), kept))
        \/ \E done \in SUBSET stale : r = Outcome(Unlink(disk, done \cup headless), FALSE)
    BY DEF Reopenings
  <2>3. CASE \E stuck \in SUBSET headless : r \in EvictDisk(Loaded(Left(stuck), kept))
    BY <2>1, <2>3
  <2>4. CASE \E done \in SUBSET stale : r = Outcome(Unlink(disk, done \cup headless), FALSE)
    <3>1. PICK done \in SUBSET stale : r = Outcome(Unlink(disk, done \cup headless), FALSE)
      BY <2>4
    <3>2. r.d = Unlink(disk, done \cup headless) /\ r.ok = FALSE
      BY <3>1 DEF Outcome
    <3>3. QED
      BY <2>1, <3>2
  <2>5. QED
    BY <2>2, <2>3, <2>4
<1>5. QED
  BY <1>1, <1>2, <1>3, <1>4

\* Every step keeps the disk tier's bookkeeping and the pinned files.
LEMMA NextDisk == DiskInv /\ [Next]_vars => DiskInv' /\ PinnedStep
<1> SUFFICES ASSUME DiskInv, [Next]_vars PROVE DiskInv' /\ PinnedStep
  OBVIOUS
<1>0. Inv'
  BY NextInv DEF DiskInv
<1>1. Spares(disk', disk, clock) => PinnedStep
  BY DEF Spares, PinnedStep
<1>2. ASSUME NEW k \in Keys, NEW now \in Readings, Get(k, now)
      PROVE  Sound(disk') /\ PinnedStep
  BY <1>1, <1>2, GetDiskStep
<1>3. ASSUME NEW k \in Keys, NEW v \in Values, NEW ttl \in TTLs, NEW pinned \in Pins,
             NEW now \in Readings,
             Put(k, v, ttl, pinned, now) \/ CrashInPut(k, v, ttl, pinned, now)
      PROVE  Sound(disk') /\ PinnedStep
  BY <1>1, <1>3, PutDiskStep
<1>4. ASSUME NEW t \in Threads, Remove(t) PROVE Sound(disk') /\ PinnedStep
  BY <1>4, RemoveDiskStep
<1>5. CASE Crash
  <2>1. disk' = EmptyIndex(disk.files)
    BY <1>5 DEF Crash
  <2>2. QED
    BY <1>0, <2>1, EmptyIndexSound DEF DiskInv, PinnedStep
<1>6. ASSUME NEW k \in Keys, NEW kind \in Damage \ {"none"}, Rot(k, kind)
      PROVE  Sound(disk') /\ PinnedStep
  BY <1>6, RotDiskStep DEF PinnedStep
<1>7. CASE Open(clock)
  BY <1>0, <1>1, <1>7, OpenDiskStep DEF DiskInv
<1>8. CASE UNCHANGED disk
  BY <1>0, <1>8 DEF DiskInv, PinnedStep
<1>9. QED
  BY <1>0, <1>2, <1>3, <1>4, <1>5, <1>6, <1>7, <1>8 DEF Next, Advance, vars, DiskInv

\* The invariant of the disk tier holds in every state.
LEMMA DiskInvariant == Spec => []DiskInv
<1>1. Init => DiskInv
  <2>1. Init => Sound(disk)
    BY EmptyIndexSound DEF Init
  <2>2. QED
    BY <2>1, InitInv DEF DiskInv
<1>2. QED
  BY <1>1, NextDisk, PTL DEF Spec

\* disk_bytes is exact up to the bytes of failed removals, the quota holds up to pinned
\* records until a removal fails, and index and files agree: for any keys, payloads,
\* quotas, callers and store failures.
THEOREM DiskIsSafe == Spec => []DiskSafe
<1>1. DiskInv => DiskSafe
  BY DEF DiskInv, Inv, TypeOK, Sound, DiskSafe, DiskAccounted, DiskCounted, Counted, DiskBounded,
         DiskWithin, IndexAgreesWithFiles, Agrees, RecordOf
<1>2. QED
  BY <1>1, DiskInvariant, PTL

\* Neither the quota nor a restart ever takes a pinned file that is whole and live.
THEOREM PinnedFilesKept == Spec => PinnedKept
<1>1. DiskInv /\ [Next]_vars =>
        [\A k \in DOMAIN disk.files \ DOMAIN disk.files' :
            disk.files[k].pinned =>
               \/ Expired(disk.files[k].expires, clock)
               \/ disk.files[k].damage # "none"
               \/ \E t \in DOMAIN call : k \in call[t].todo]_vars
  BY NextDisk DEF PinnedStep
<1>2. QED
  BY <1>1, DiskInvariant, PTL DEF Spec, PinnedKept

\* A restart that succeeds leaves index, files and disk_bytes in step, whatever state
\* the crash found them in and whichever removals fail on the way.
THEOREM RestartsAlwaysHeal == Spec => RestartsHeal
<1>1. ASSUME DiskInv, [Next]_vars
      PROVE  [~open /\ open' /\ MaxDisk > 0 =>
                /\ DOMAIN disk.index' \subseteq DOMAIN disk.files'
                /\ \A k \in DOMAIN disk.files' \ DOMAIN disk.index' : disk.files'[k].damage = "header"
                /\ disk.bytes' = Total(DOMAIN disk.index', IndexSize(disk.index'))]_vars
  <2>1. SUFFICES ASSUME ~open, open', MaxDisk > 0
                 PROVE  /\ DOMAIN disk.index' \subseteq DOMAIN disk.files'
                        /\ \A k \in DOMAIN disk.files' \ DOMAIN disk.index' :
                             disk.files'[k].damage = "header"
                        /\ disk.bytes' = Total(DOMAIN disk.index', IndexSize(disk.index'))
    OBVIOUS
  <2>2. Open(clock)
    <3>1. open' = open => FALSE
      BY <2>1
    <3>2. ASSUME NEW k \in Keys, NEW now \in Readings, Get(k, now) PROVE FALSE
      BY <3>1, <3>2 DEF Get, GetMemoryHit, GetMiss, GetExpired, GetVanished, GetCorrupt,
                        GetFails, GetDiskHit
    <3>3. ASSUME NEW k \in Keys, NEW v \in Values, NEW ttl \in TTLs, NEW pinned \in Pins,
                 NEW now \in Readings,
                 Put(k, v, ttl, pinned, now) \/ CrashInPut(k, v, ttl, pinned, now)
          PROVE  FALSE
      BY <2>1, <3>3 DEF Put, CrashInPut
    <3>4. ASSUME NEW t \in Threads, Remove(t) PROVE FALSE
      BY <3>1, <3>4 DEF Remove, BeginClear, BeginInvalidate, RemoveFile, RemoveFails,
                        FinishInvalidate, FinishClear
    <3>5. ASSUME NEW k \in Keys, NEW kind \in Damage \ {"none"}, Rot(k, kind) PROVE FALSE
      BY <3>1, <3>5 DEF Rot
    <3>6. ~Advance /\ ~Crash /\ ~UNCHANGED vars
      BY <2>1 DEF Advance, Crash, vars
    <3>7. QED
      BY <1>1, <3>2, <3>3, <3>4, <3>5, <3>6 DEF Next
  <2>3. Sound(disk') /\ DiskTier(disk')
    BY <1>1, NextDisk DEF DiskInv, Inv, TypeOK
  <2>4. /\ DOMAIN disk'.index \subseteq DOMAIN disk'.files
        /\ \A k \in DOMAIN disk'.files \ DOMAIN disk'.index : disk'.files[k].damage = "header"
        /\ disk'.lost = 0
    BY <1>1, <2>1, <2>2, OpenDiskStep
  <2>5. Counted(disk'.index) \in Nat
    BY <2>3, IndexSizes, TotalType DEF Counted
  <2>6. disk'.bytes = Counted(disk'.index)
    BY <2>3, <2>4, <2>5 DEF Sound, DiskCounted
  <2>7. QED
    BY <2>4, <2>6 DEF Counted
<1>2. QED
  BY <1>1, DiskInvariant, PTL DEF Spec, RestartsHeal

-----------------------------------------------------------------------------
(* A KvEngine over a ContextCacheTier: its cache calls are calls of the    *)
(* cache, so the invariants above hold; and the two layers agree.          *)

EngineCall ==
    {NoCall} \cup [op : {"remove"}, key : Keys] \cup [op : {"pin"}, key : Keys, entry : Values]

TierTypes == clock <= MaxClock /\ engine \in [Threads -> EngineCall] /\ firm \subseteq Keys

\* No layer below the engine expires a block, and no file is damaged.
Undying ==
    /\ \A k \in DOMAIN disk.index : disk.index[k].expires = 0
    /\ \A k \in DOMAIN disk.files : disk.files[k].damage = "none"

\* A record without its file is being removed.
Backed == \A k \in DOMAIN disk.index \ DOMAIN disk.files : Removed(k)

\* A firm block has a pinned file that nothing is removing.
FirmFiles == \A k \in firm : k \in DOMAIN disk.files /\ disk.files[k].pinned /\ ~Removed(k)

\* A thread outside invalidate and clear covers no key.
Quiet == \A t \in Threads : call[t].op = "none" => call[t].keys = {}

TierInv == DiskInv /\ TierTypes /\ LayersAgree /\ Undying /\ Backed /\ Quiet

\* The clock is a reading of itself.
LEMMA ClockReads == DiskInv => clock \in Readings
BY TimeAssumption DEF DiskInv, Inv, TypeOK, Readings

\* The envelope of a put is a payload of the cache.
LEMMA EnvelopeIsValue ==
    ASSUME EnvelopeAssumption, DiskInv, TierTypes, NEW ttl \in EngineTtls, NEW pinned \in BOOLEAN
    PROVE  Envelope(ttl, pinned) \in Values /\ Envelope(ttl, pinned).pinned = pinned
<1>1. clock \in 0..MaxClock
  BY TimeAssumption DEF DiskInv, Inv, TypeOK, TierTypes
<1>2. QED
  BY <1>1 DEF EnvelopeAssumption, Envelope

\* A put of the engine is a put of the cache.
LEMMA PutEnvelopeIsPut ==
    ASSUME EnvelopeAssumption, DiskInv, NEW k \in Keys, NEW e \in Values, PutEnvelope(k, e)
    PROVE  e.pinned \in BOOLEAN /\ Put(k, e, 0, e.pinned, clock) /\ Next
<1>1. e.pinned \in BOOLEAN
  BY DEF EnvelopeAssumption
<1>2. 0 \in TTLs /\ e.pinned \in Pins /\ clock \in Readings
  BY <1>1, ClockReads DEF EnvelopeAssumption
<1>3. Put(k, e, 0, e.pinned, clock)
  BY DEF PutEnvelope
<1>4. QED
  BY <1>1, <1>2, <1>3 DEF Next

\* Every step of the engine over its tier is a step of the cache or leaves it alone.
LEMMA TierStepIsCacheStep ==
    ASSUME EnvelopeAssumption, DiskInv, TierTypes, [TierNext]_tierVars
    PROVE  [Next]_vars
<1> USE DEF TierTypes
<1>1. ASSUME NEW t \in Threads, NEW k \in Keys, NEW ttl \in EngineTtls, NEW pinned \in BOOLEAN,
             EnginePut(t, k, ttl, pinned)
      PROVE  Next
  BY <1>1, EnvelopeIsValue, PutEnvelopeIsPut DEF EnginePut
<1>2. ASSUME NEW k \in Keys, NEW e \in Values, Finds(k, e) PROVE Next
  BY <1>2, ClockReads DEF Finds, Next, Get
<1>3. ASSUME NEW k \in Keys, FindsNothing(k) PROVE Next
  BY <1>3, ClockReads DEF FindsNothing, Next, Get
<1>4. ASSUME NEW t \in Threads, NEW k \in Keys, EngineGet(t, k) PROVE Next
  BY <1>2, <1>3, <1>4 DEF EngineGet
<1>5. ASSUME NEW t \in Threads, NEW k \in Keys, NEW pinned \in BOOLEAN, PinRead(t, k, pinned)
      PROVE  Next
  BY <1>2, <1>5 DEF PinRead
<1>6. ASSUME NEW t \in Threads, PinWrite(t) PROVE Next
  <2>1. engine[t] \in EngineCall /\ engine[t].op = "pin"
    BY <1>6 DEF PinWrite
  <2>2. engine[t].key \in Keys /\ engine[t].entry \in Values
    BY <2>1 DEF EngineCall, NoCall
  <2>3. QED
    BY <1>6, <2>2, PutEnvelopeIsPut DEF PinWrite
<1>7. ASSUME NEW t \in Threads, RemoveExpired(t) PROVE Next
  <2>1. engine[t] \in EngineCall /\ engine[t].op = "remove"
    BY <1>7 DEF RemoveExpired
  <2>2. engine[t].key \in Keys
    BY <2>1 DEF EngineCall, NoCall
  <2>3. QED
    BY <1>7, <2>2 DEF RemoveExpired, Next, Remove
<1>8. ASSUME NEW t \in Threads, NEW k \in Keys, EngineInvalidate(t, k) PROVE Next
  BY <1>8 DEF EngineInvalidate, Next, Remove
<1>9. ASSUME NEW t \in Threads, EngineClear(t) PROVE Next
  BY <1>9 DEF EngineClear, Next, Remove
<1>10. CASE CacheSteps
  BY <1>10 DEF CacheSteps, Next, Remove
<1>11. CASE TierCrash
  BY <1>11 DEF TierCrash, Next
<1>12. CASE UNCHANGED tierVars
  BY <1>12 DEF tierVars, vars
<1>13. QED
  BY <1>1, <1>4, <1>5, <1>6, <1>7, <1>8, <1>9, <1>10, <1>11, <1>12 DEF TierNext

\* What a put of the engine does to the files and to the records without one.
LEMMA TierWrites ==
    ASSUME DiskInv, Undying, NEW k \in Keys, NEW e \in StoredEntry, e.expires = 0,
           e.damage = "none", NEW now \in Readings, NEW r \in DiskWrites(k, e, now)
    PROVE  /\ \A j \in DOMAIN r.d.files :
                \/ j \in DOMAIN disk.files /\ r.d.files[j] = disk.files[j]
                \/ j = k /\ k \notin DOMAIN disk.files /\ r.d.files[j] = e
           /\ DOMAIN r.d.index \ DOMAIN r.d.files \subseteq DOMAIN disk.index \ DOMAIN disk.files
           /\ \A j \in DOMAIN r.d.index : r.d.index[j].expires = 0
           /\ StoreAssumption /\ e.pinned /\ k \notin DOMAIN disk.index \cup DOMAIN disk.files =>
                k \in DOMAIN r.d.files
<1> USE DEF DiskInv, Inv, TypeOK
<1>1. DropIfExpired(disk, k, now) = {Outcome(disk, TRUE)}
  BY DEF DropIfExpired, Undying, Expired
<1>2. \/ r.d = disk
      \/ /\ k \notin DOMAIN disk.index \cup DOMAIN disk.files
         /\ r \in EvictDisk(Inserted(disk, k, e))
  BY <1>1 DEF DiskWrites, WriteIfAbsent, Outcome, Failing
<1>3. StoreAssumption /\ k \notin DOMAIN disk.index \cup DOMAIN disk.files =>
        r \in EvictDisk(Inserted(disk, k, e))
  <2>1. SUFFICES ASSUME StoreAssumption, k \notin DOMAIN disk.index \cup DOMAIN disk.files
                 PROVE  r \in EvictDisk(Inserted(disk, k, e))
    OBVIOUS
  <2>2. e.value \in Values /\ Size[e.value] <= MaxDisk /\ MaxDisk > 0 /\ Faults = {}
    BY <2>1 DEF StoredEntry, StoreAssumption
  <2>3. r \in WriteIfAbsent(disk, k, e)
    BY <1>1, <2>2 DEF DiskWrites, Outcome
  <2>4. QED
    BY <2>1, <2>2, <2>3 DEF WriteIfAbsent, Failing
<1>4. CASE r.d = disk /\ ~(/\ k \notin DOMAIN disk.index \cup DOMAIN disk.files
                           /\ r \in EvictDisk(Inserted(disk, k, e)))
  BY <1>3, <1>4 DEF Undying
<1>5. CASE /\ k \notin DOMAIN disk.index \cup DOMAIN disk.files
           /\ r \in EvictDisk(Inserted(disk, k, e))
  <2> DEFINE i == Inserted(disk, k, e)
  <2>1. /\ DiskTier(i) /\ DiskCounted(i) /\ Agrees(i)
        /\ DOMAIN i.index = DOMAIN disk.index \cup {k}
        /\ DOMAIN i.files = DOMAIN disk.files \cup {k}
        /\ \A j \in DOMAIN disk.files \ {k} : i.files[j] = disk.files[j]
    BY <1>5, InsertedSound, InsertedKeeps DEF Sound
  <2>2. /\ i.files[k] = e /\ i.index[k] = RecordOf(e)
        /\ \A j \in DOMAIN disk.index : i.index[j] = disk.index[j]
    BY <1>5 DEF Inserted, With, RecordOf
  <2>3. i.index[k].expires = 0 /\ i.index[k].pinned = e.pinned
    BY <2>2 DEF RecordOf
  <2> HIDE DEF i
  <2>4. PICK E \in SUBSET Unpinned(i.index) :
               \/ r.d = Unlink(DropIndexed(i, E), E)
               \/ \E last \in DOMAIN i.index \ E :
                     r.d = Unindexed(Unlink(DropIndexed(i, E), E), last)
    BY <1>5, <2>1, EvictDiskOutcomes DEF i
  <2> DEFINE c == Unlink(DropIndexed(i, E), E)
  <2>5. /\ DiskFrom(c, i) /\ DOMAIN c.index = DOMAIN i.index \ E
        /\ DOMAIN c.files = DOMAIN i.files \ E
    BY <2>1, DropsFrom
  <2> HIDE DEF c
  <2>6. /\ DiskFrom(r.d, c) /\ r.d.files = c.files
    <3>1. CASE r.d = c
      BY <3>1 DEF DiskFrom
    <3>2. ASSUME NEW last, r.d = Unindexed(c, last)
          PROVE  DiskFrom(r.d, c) /\ r.d.files = c.files
      BY <3>2 DEF Unindexed, DiskFrom, Without
    <3>3. QED
      BY <2>4, <3>1, <3>2 DEF c
  <2>7. e.pinned => k \notin E
    BY <2>3 DEF Unpinned
  <2>8. \A j \in DOMAIN r.d.index : j \in DOMAIN i.index \ E /\ r.d.index[j] = i.index[j]
    BY <2>5, <2>6 DEF DiskFrom
  <2>9. DOMAIN r.d.files = DOMAIN i.files \ E /\ \A j \in DOMAIN r.d.files : r.d.files[j] = i.files[j]
    BY <2>5, <2>6 DEF DiskFrom
  <2>10. QED
    BY <1>5, <2>1, <2>2, <2>3, <2>7, <2>8, <2>9 DEF Undying
<1>6. QED
  BY <1>2, <1>4, <1>5

\* What the steps of the tier do to the two layers: memory records and files are those
\* of before or the one a put brings, which carries the envelope's pin and no expiry.
LEMMA TierPut ==
    ASSUME EnvelopeAssumption, TierInv, NEW k \in Keys, NEW v \in Values, PutEnvelope(k, v)
    PROVE  /\ LayersAgree' /\ Undying'
           /\ \A j \in DOMAIN disk'.files :
                \/ j \in DOMAIN disk.files /\ disk'.files[j] = disk.files[j]
                \/ j = k /\ k \notin DOMAIN disk.files /\ disk'.files[j].pinned = v.pinned
           /\ DOMAIN disk'.index \ DOMAIN disk'.files \subseteq DOMAIN disk.index \ DOMAIN disk.files
           /\ StoreAssumption /\ v.pinned /\ k \notin DOMAIN disk.index \cup DOMAIN disk.files =>
                k \in DOMAIN disk'.files
           /\ \A t \in Threads : call'[t].keys = call[t].keys /\ call'[t].op = call[t].op
           /\ clock' = clock
<1> USE DEF TierInv
<1> DEFINE e == Entry(v, 0, v.pinned)
           rec == [value |-> v, expires |-> 0, pinned |-> v.pinned]
<1>1. v.pinned \in BOOLEAN
  BY DEF EnvelopeAssumption
<1>2. ExpiresAt(clock, 0) = 0
  BY DEF ExpiresAt
<1>3. /\ e \in StoredEntry /\ e.expires = 0 /\ e.damage = "none" /\ e.value = v
      /\ e.pinned = v.pinned
  BY <1>1 DEF Entry, StoredEntry, Damage
<1>4. rec \in MemoryRecord /\ rec.value = v /\ rec.expires = 0 /\ rec.pinned = v.pinned
  BY <1>1 DEF MemoryRecord
<1>5. PICK r \in DiskWrites(k, e, clock) :
             /\ disk' = r.d
             /\ IF r.ok THEN memory' \in Remember(memory, k, rec) ELSE UNCHANGED memory
  BY <1>2 DEF PutEnvelope, Put
<1> HIDE DEF e, rec
<1>6. /\ \A j \in DOMAIN disk'.files :
           \/ j \in DOMAIN disk.files /\ disk'.files[j] = disk.files[j]
           \/ j = k /\ k \notin DOMAIN disk.files /\ disk'.files[j] = e
      /\ DOMAIN disk'.index \ DOMAIN disk'.files \subseteq DOMAIN disk.index \ DOMAIN disk.files
      /\ \A j \in DOMAIN disk'.index : disk'.index[j].expires = 0
      /\ StoreAssumption /\ v.pinned /\ k \notin DOMAIN disk.index \cup DOMAIN disk.files =>
           k \in DOMAIN disk'.files
  BY <1>3, <1>5, ClockReads, TierWrites
<1>7. \A j \in DOMAIN memory'.recs :
        \/ j = k /\ memory'.recs[j] = rec
        \/ j \in DOMAIN memory.recs /\ memory'.recs[j] = memory.recs[j]
  <2>1. CASE UNCHANGED memory
    BY <2>1
  <2>2. CASE memory' \in Remember(memory, k, rec)
    <3>1. MemoryTier(memory) /\ Accounted(memory) /\ Bounded(memory)
      BY DEF DiskInv, Inv, TypeOK, MemoryAccounted, MemoryBounded, Accounted, Bounded
    <3>2. QED
      BY <1>4, <2>2, <3>1, RememberKeeps
  <2>3. QED
    BY <1>5, <2>1, <2>2
<1>8. LayersAgree'
  <2>1. ASSUME NEW j \in DOMAIN memory'.recs
        PROVE  memory'.recs[j].pinned = memory'.recs[j].value.pinned /\ memory'.recs[j].expires = 0
    BY <1>4, <1>7 DEF LayersAgree
  <2>2. ASSUME NEW j \in DOMAIN disk'.files
        PROVE  disk'.files[j].pinned = disk'.files[j].value.pinned /\ disk'.files[j].expires = 0
    BY <1>3, <1>6 DEF LayersAgree
  <2>3. QED
    BY <2>1, <2>2 DEF LayersAgree
<1>9. Undying'
  BY <1>3, <1>6 DEF Undying
<1>10. /\ \A t \in Threads : call'[t].keys = call[t].keys /\ call'[t].op = call[t].op
       /\ clock' = clock
  <2>1. clock' = clock
    BY DEF PutEnvelope, Put
  <2>2. ASSUME NEW t \in Threads PROVE call'[t].keys = call[t].keys /\ call'[t].op = call[t].op
    <3>1. call[t] \in CallState
      BY DEF DiskInv, Inv, TypeOK
    <3>2. call'[t] = [call[t] EXCEPT !.pre[k] = @ \ {v}]
      BY DEF PutEnvelope, Put, Revive
    <3>3. QED
      BY <3>1, <3>2 DEF CallState
  <2>3. QED
    BY <2>1, <2>2
<1>11. QED
  BY <1>3, <1>6, <1>8, <1>9, <1>10

\* A read leaves the files alone and promotes a record that agrees.
LEMMA TierRead ==
    ASSUME EnvelopeAssumption, TierInv, NEW k \in Keys,
           FindsNothing(k) \/ \E e \in Values : Finds(k, e)
    PROVE  /\ LayersAgree' /\ Undying'
           /\ disk'.files = disk.files /\ DOMAIN disk'.index \subseteq DOMAIN disk.index
           /\ UNCHANGED <<call, clock>>
<1> USE DEF TierInv
<1>0. MemoryTier(memory) /\ Accounted(memory) /\ Bounded(memory) /\ DiskTier(disk)
  BY DEF DiskInv, Inv, TypeOK, MemoryAccounted, MemoryBounded, Accounted, Bounded
<1>1. UNCHANGED <<call, clock>>
  BY DEF FindsNothing, Finds, GetMiss, GetVanished, GetMemoryHit, GetDiskHit
<1>2. /\ MemoryTier(Fallen(k)) /\ Accounted(Fallen(k)) /\ Bounded(Fallen(k))
      /\ RecordsFrom(Fallen(k), memory)
  BY <1>0, DropMemoryKeeps, DropMemoryBounded DEF Fallen
<1>3. ASSUME RecordsFrom(memory', memory), UNCHANGED disk
      PROVE  /\ LayersAgree' /\ Undying'
             /\ disk'.files = disk.files /\ DOMAIN disk'.index \subseteq DOMAIN disk.index
  BY <1>3 DEF LayersAgree, Undying, RecordsFrom
<1>4. CASE GetMiss(k, clock)
  BY <1>1, <1>2, <1>3, <1>4 DEF GetMiss
<1>5. CASE GetMemoryHit(k, clock)
  <2>1. memory'.recs = memory.recs /\ UNCHANGED disk
    BY <1>0, <1>5 DEF GetMemoryHit, MemoryTier
  <2>2. QED
    BY <1>1, <1>3, <2>1 DEF RecordsFrom
<1>6. CASE GetVanished(k, clock)
  <2>1. memory' = Fallen(k) /\ disk' = DropIndexed(disk, {k})
    BY <1>6 DEF GetVanished
  <2>2. /\ disk'.files = disk.files /\ disk'.index = Without(disk.index, {k})
    BY <2>1 DEF DropIndexed
  <2>3. \A j \in DOMAIN disk'.index : j \in DOMAIN disk.index /\ disk'.index[j] = disk.index[j]
    BY <2>2 DEF Without
  <2>4. RecordsFrom(memory', memory)
    BY <1>2, <2>1
  <2>5. LayersAgree'
    BY <2>2, <2>4 DEF LayersAgree, RecordsFrom
  <2>6. Undying'
    BY <2>2, <2>3 DEF Undying
  <2>7. QED
    BY <1>1, <2>2, <2>3, <2>5, <2>6
<1>7. CASE GetDiskHit(k, clock)
  <2> DEFINE f == disk.files[k]
             rec == [value |-> f.value, expires |-> f.expires, pinned |-> f.pinned]
  <2>1. k \in DOMAIN disk.files /\ memory' \in Remember(Fallen(k), k, rec)
    BY <1>7 DEF GetDiskHit
  <2>2. f \in StoredEntry
    BY <1>0, <2>1 DEF DiskTier, IsMap
  <2>3. rec \in MemoryRecord /\ rec.pinned = rec.value.pinned /\ rec.expires = 0
    BY <2>1, <2>2 DEF StoredEntry, MemoryRecord, LayersAgree
  <2> HIDE DEF rec, f
  <2>4. \A j \in DOMAIN memory'.recs :
          \/ j = k /\ memory'.recs[j] = rec
          \/ j \in DOMAIN Fallen(k).recs /\ memory'.recs[j] = Fallen(k).recs[j]
    BY <1>2, <2>1, <2>3, RememberKeeps
  <2>5. disk'.files = disk.files /\ disk'.index = disk.index
    BY <1>0, <1>7 DEF GetDiskHit, DiskTier
  <2>6. ASSUME NEW j \in DOMAIN memory'.recs
        PROVE  memory'.recs[j].pinned = memory'.recs[j].value.pinned /\ memory'.recs[j].expires = 0
    BY <1>2, <2>3, <2>4 DEF LayersAgree, RecordsFrom
  <2>7. QED
    BY <1>1, <2>5, <2>6 DEF LayersAgree, Undying
<1>8. QED
  BY <1>1, <1>4, <1>5, <1>6, <1>7 DEF FindsNothing, Finds

\* Removals, the clock, crashes and restarts bring no record and no file.
LEMMA TierShrinks ==
    ASSUME TierInv, RecordsFrom(memory', memory), SameFiles(disk', disk),
           \A k \in DOMAIN disk'.index :
             \/ k \in DOMAIN disk.index /\ disk'.index[k] = disk.index[k]
             \/ k \in DOMAIN disk'.files /\ disk'.index[k].expires = disk'.files[k].expires
    PROVE  LayersAgree' /\ Undying'
<1>1. ASSUME NEW k \in DOMAIN memory'.recs
      PROVE  memory'.recs[k].pinned = memory'.recs[k].value.pinned /\ memory'.recs[k].expires = 0
  BY DEF TierInv, LayersAgree, RecordsFrom
<1>2. ASSUME NEW k \in DOMAIN disk'.files
      PROVE  /\ disk'.files[k].pinned = disk'.files[k].value.pinned
             /\ disk'.files[k].expires = 0 /\ disk'.files[k].damage = "none"
  BY DEF TierInv, LayersAgree, Undying, SameFiles
<1>3. ASSUME NEW k \in DOMAIN disk'.index PROVE disk'.index[k].expires = 0
  BY <1>2 DEF TierInv, Undying
<1>4. QED
  BY <1>1, <1>2, <1>3 DEF LayersAgree, Undying

\* The steps of a removal: the file, then the records.
LEMMA TierRemoves ==
    ASSUME TierInv, NEW t \in Threads,
           \/ FinishInvalidate(t) \/ FinishClear(t)
           \/ \E k \in Keys : RemoveFile(t, k) \/ BeginInvalidate(t, k)
           \/ BeginClear(t)
    PROVE  LayersAgree' /\ Undying' /\ Backed' /\ Quiet' /\ UNCHANGED clock
<1> USE DEF TierInv
<1>0. /\ MemoryTier(memory) /\ DiskTier(disk) /\ call \in [Threads -> CallState]
      /\ RecordsFrom(memory, memory) /\ SameFiles(disk, disk)
      /\ call[t].todo \subseteq call[t].keys
  BY DEF DiskInv, Inv, TypeOK, RecordsFrom, SameFiles, CallsInScope
<1>1. CASE \E k \in Keys : RemoveFile(t, k)
  <2>1. PICK k \in Keys : RemoveFile(t, k)
    BY <1>1
  <2>2. /\ disk'.index = disk.index /\ disk'.files = Without(disk.files, {k})
        /\ UNCHANGED <<memory, clock>> /\ k \in call[t].keys
    BY <1>0, <2>1 DEF RemoveFile, Unlink, DiskTier
  <2>3. \A u \in Threads : call'[u].keys = call[u].keys /\ call'[u].op = call[u].op
    BY <1>0, <2>1 DEF RemoveFile, CallState
  <2>4. Backed'
    BY <2>2, <2>3 DEF Backed, Removed, Without
  <2>5. SameFiles(disk', disk)
    BY <2>2 DEF SameFiles, Without
  <2>6. QED
    BY <1>0, <2>2, <2>3, <2>4, <2>5, TierShrinks DEF Quiet
<1>2. CASE BeginClear(t) \/ \E k \in Keys : BeginInvalidate(t, k)
  <2>1. UNCHANGED <<memory, disk, clock>>
    BY <1>2 DEF BeginClear, BeginInvalidate
  <2>2. call[t].op = "none"
    BY <1>2 DEF BeginClear, BeginInvalidate
  <2>3. call'[t].op # "none" /\ \A u \in Threads \ {t} : call'[u] = call[u]
    <3>1. CASE BeginClear(t)
      BY <1>0, <3>1 DEF BeginClear
    <3>2. CASE \E k \in Keys : BeginInvalidate(t, k)
      BY <1>0, <3>2 DEF BeginInvalidate, Idle
    <3>3. QED
      BY <1>2, <3>1, <3>2
  <2>4. call[t].keys = {}
    BY <2>2 DEF Quiet
  <2>5. Backed'
    BY <2>1, <2>3, <2>4 DEF Backed, Removed
  <2>6. Quiet'
    BY <2>3 DEF Quiet
  <2>7. QED
    BY <1>0, <2>1, <2>5, <2>6, TierShrinks
<1>3. CASE FinishInvalidate(t)
  <2>1. /\ memory' = DropMemory(memory, call[t].keys)
        /\ disk'.index = Without(disk.index, call[t].keys) /\ disk'.files = disk.files
        /\ call' = [call EXCEPT ![t] = Idle] /\ UNCHANGED clock
    BY <1>3 DEF FinishInvalidate, DropIndexed, Return
  <2>2. RecordsFrom(memory', memory)
    BY <1>0, <2>1, DropMemoryKeeps
  <2>3. Backed'
    BY <1>0, <2>1 DEF Backed, Removed, Without
  <2>4. Quiet'
    BY <1>0, <2>1 DEF Quiet, Idle
  <2>5. QED
    BY <2>1, <2>2, <2>3, <2>4, TierShrinks DEF SameFiles, Without
<1>4. CASE FinishClear(t)
  <2>1. /\ memory' = NoMemory /\ disk' = EmptyIndex(disk.files) /\ UNCHANGED clock
        /\ call' = [call EXCEPT ![t] = Idle]
    BY <1>4 DEF FinishClear, Return
  <2>2. DOMAIN disk'.index = {} /\ disk'.files = disk.files /\ DOMAIN memory'.recs = {}
    BY <2>1, EmptyIndexSound, NoMemoryKeeps
  <2>3. Quiet'
    BY <1>0, <2>1 DEF Quiet, Idle
  <2>4. QED
    BY <2>1, <2>2, <2>3, TierShrinks DEF SameFiles, RecordsFrom, Backed
<1>5. QED
  BY <1>1, <1>2, <1>3, <1>4

\* What a tier step changes of the cache, apart from its puts and reads.
LEMMA TierRests ==
    ASSUME TierInv, Advance \/ Crash \/ Open(clock)
    PROVE  /\ LayersAgree' /\ Undying' /\ Backed' /\ Quiet' /\ clock' <= MaxClock
           /\ Spares(disk', disk, clock) /\ SameFiles(disk', disk)
           /\ \A t \in Threads : call'[t].keys = {} \/ call'[t] = call[t]
<1> USE DEF TierInv
<1>0. /\ clock \in Nat /\ MaxClock \in Nat /\ clock <= MaxClock
      /\ RecordsFrom(memory, memory) /\ SameFiles(disk, disk)
  BY TimeAssumption DEF DiskInv, Inv, TypeOK, TierTypes, RecordsFrom, SameFiles
<1>1. CASE Advance
  <2>1. UNCHANGED <<memory, disk, call>> /\ clock' <= MaxClock
    BY <1>0, <1>1 DEF Advance
  <2>2. QED
    BY <1>0, <2>1, TierShrinks DEF Backed, Removed, Quiet, Spares
<1>2. CASE Crash
  <2>1. /\ memory' = NoMemory /\ disk' = EmptyIndex(disk.files)
        /\ call' = [t \in Threads |-> Idle] /\ UNCHANGED clock
    BY <1>2 DEF Crash, Down
  <2>2. DOMAIN disk'.index = {} /\ disk'.files = disk.files /\ DOMAIN memory'.recs = {}
    BY <2>1, EmptyIndexSound, NoMemoryKeeps
  <2>3. Quiet' /\ Backed' /\ \A t \in Threads : call'[t].keys = {}
    BY <2>1, <2>2 DEF Quiet, Idle, Backed
  <2>4. SameFiles(disk', disk) /\ RecordsFrom(memory', memory) /\ Spares(disk', disk, clock)
    BY <2>2 DEF SameFiles, RecordsFrom, Spares
  <2>5. QED
    BY <1>0, <2>1, <2>2, <2>3, <2>4, TierShrinks
<1>3. CASE Open(clock)
  <2>1. UNCHANGED <<memory, call, clock>>
    BY <1>3 DEF Open
  <2>2. /\ Sound(disk') /\ Spares(disk', disk, clock) /\ SameFiles(disk', disk)
        /\ UNCHANGED disk \/ DOMAIN disk'.index \subseteq DOMAIN disk'.files
    BY <1>3, OpenDiskStep
  <2>3. ASSUME NEW k \in DOMAIN disk'.index
        PROVE  \/ k \in DOMAIN disk.index /\ disk'.index[k] = disk.index[k]
               \/ k \in DOMAIN disk'.files /\ disk'.index[k].expires = disk'.files[k].expires
    <3>1. CASE UNCHANGED disk
      BY <3>1
    <3>2. CASE k \in DOMAIN disk'.files
      <4>1. disk'.files[k].damage # "meta"
        BY <2>2, <3>2 DEF SameFiles, Undying
      <4>2. disk'.index[k] = RecordOf(disk'.files[k])
        BY <2>2, <2>3, <3>2, <4>1 DEF Sound, Agrees
      <4>3. QED
        BY <3>2, <4>2 DEF RecordOf
    <3>3. QED
      BY <2>2, <3>1, <3>2
  <2>4. Backed'
    BY <2>1, <2>2 DEF Backed, Removed
  <2>5. Quiet'
    BY <2>1 DEF Quiet
  <2>6. QED
    BY <1>0, <2>1, <2>2, <2>3, <2>4, <2>5, TierShrinks
<1>4. QED
  BY <1>1, <1>2, <1>3

\* The engine's own variables keep their types.
LEMMA TierTypesStep ==
    ASSUME EnvelopeAssumption, TierInv, clock' <= MaxClock, [TierNext]_tierVars
    PROVE  TierTypes'
<1> USE DEF TierInv, TierTypes
<1>1. NoCall \in EngineCall /\ \A k \in Keys : [op |-> "remove", key |-> k] \in EngineCall
  BY DEF EngineCall
<1>2. engine' \in [Threads -> EngineCall]
  <2>1. ASSUME NEW t \in Threads, NEW k \in Keys, NEW pinned \in BOOLEAN, PinRead(t, k, pinned)
        PROVE  engine' \in [Threads -> EngineCall]
    <3>1. PICK e \in Values :
            engine' = [engine EXCEPT ![t] =
              IF Expired(e.expires, clock) THEN [op |-> "remove", key |-> k]
              ELSE [op |-> "pin", key |-> k, entry |-> [e EXCEPT !.pinned = pinned]]]
      BY <2>1 DEF PinRead
    <3>2. [e EXCEPT !.pinned = pinned] = [expires |-> e.expires, pinned |-> pinned]
      BY DEF EnvelopeAssumption
    <3>3. [e EXCEPT !.pinned = pinned] \in Values
      BY <3>2 DEF EnvelopeAssumption
    <3>4. [op |-> "pin", key |-> k, entry |-> [e EXCEPT !.pinned = pinned]] \in EngineCall
      BY <3>3 DEF EngineCall
    <3>5. QED
      BY <1>1, <3>1, <3>4
  <2>2. ASSUME NEW t \in Threads, NEW k \in Keys, EngineGet(t, k)
        PROVE  engine' \in [Threads -> EngineCall]
    <3>1. engine' = engine \/ engine' = [engine EXCEPT ![t] = [op |-> "remove", key |-> k]]
      BY <2>2 DEF EngineGet
    <3>2. QED
      BY <1>1, <3>1
  <2>3. CASE UNCHANGED engine
    BY <2>3
  <2>4. ASSUME NEW t \in Threads, PinWrite(t) \/ RemoveExpired(t)
        PROVE  engine' \in [Threads -> EngineCall]
    BY <1>1, <2>4 DEF PinWrite, RemoveExpired
  <2>5. CASE TierCrash
    BY <1>1, <2>5 DEF TierCrash
  <2>6. QED
    BY <2>1, <2>2, <2>3, <2>4, <2>5
       DEF TierNext, EnginePut, EngineInvalidate, EngineClear, CacheSteps, tierVars
<1>3. firm' \subseteq Keys
  BY DEF TierNext, EnginePut, EngineGet, EngineInvalidate, EngineClear, PinRead, PinWrite,
         RemoveExpired, CacheSteps, TierCrash, Unpins, tierVars
<1>4. QED
  BY <1>2, <1>3

\* Every step of the engine over its tier keeps the invariant; over a store that takes
\* every block it keeps the firm ones.
LEMMA TierNextInv ==
    ASSUME EnvelopeAssumption, TierInv, [TierNext]_tierVars
    PROVE  TierInv' /\ (StoreAssumption /\ FirmFiles => FirmFiles')
<1> DEFINE Firm == StoreAssumption /\ FirmFiles => FirmFiles'
           Kept == LayersAgree' /\ Undying' /\ Backed' /\ Quiet' /\ clock' <= MaxClock
<1> USE DEF TierInv
<1>0. /\ DiskInv' /\ call \in [Threads -> CallState] /\ clock <= MaxClock
      /\ Spares(disk', disk, clock) => \A k \in DOMAIN disk.files \ DOMAIN disk'.files :
                                         ~disk.files[k].pinned
  <2>1. [Next]_vars
    BY TierStepIsCacheStep
  <2>2. DiskInv'
    BY <2>1, NextDisk
  <2>3. QED
    BY <2>2 DEF DiskInv, Inv, TypeOK, TierTypes, Spares, Undying, LayersAgree, Expired
<1>1. ASSUME NEW k \in Keys, NEW v \in Values, PutEnvelope(k, v),
             firm' \subseteq firm \cup {k},
             k \in firm' \ firm => v.pinned /\ Held(k) = {} /\ ~Removed(k)
      PROVE  Kept /\ Firm
  <2>1. /\ LayersAgree' /\ Undying'
        /\ \A j \in DOMAIN disk'.files :
             \/ j \in DOMAIN disk.files /\ disk'.files[j] = disk.files[j]
             \/ j = k /\ k \notin DOMAIN disk.files /\ disk'.files[j].pinned = v.pinned
        /\ DOMAIN disk'.index \ DOMAIN disk'.files \subseteq DOMAIN disk.index \ DOMAIN disk.files
        /\ StoreAssumption /\ v.pinned /\ k \notin DOMAIN disk.index \cup DOMAIN disk.files =>
             k \in DOMAIN disk'.files
        /\ \A t \in Threads : call'[t].keys = call[t].keys /\ call'[t].op = call[t].op
        /\ clock' = clock
    BY <1>1, TierPut
  <2>2. Backed' /\ Quiet'
    BY <2>1 DEF Backed, Removed, Quiet
  <2>3. Spares(disk', disk, clock)
    <3>1. /\ Put(k, v, 0, v.pinned, clock) /\ 0 \in TTLs /\ v.pinned \in Pins
          /\ clock \in Readings
      BY <1>1, PutEnvelopeIsPut, ClockReads DEF EnvelopeAssumption
    <3>2. QED
      BY <3>1, PutDiskStep
  <2>4. ASSUME StoreAssumption, FirmFiles, NEW j \in firm'
        PROVE  j \in DOMAIN disk'.files /\ disk'.files[j].pinned /\ ~Removed(j)'
    <3>1. CASE j \in firm
      BY <1>0, <2>1, <2>3, <2>4, <3>1 DEF FirmFiles, Removed
    <3>2. CASE j \notin firm
      <4>1. j = k /\ v.pinned /\ Held(k) = {} /\ ~Removed(k)
        BY <1>1, <2>4, <3>2
      <4>2. k \notin DOMAIN disk.files
        BY <4>1 DEF Held
      <4>3. k \notin DOMAIN disk.index
        BY <4>1, <4>2 DEF Backed
      <4>4. QED
        BY <2>1, <2>4, <4>1, <4>2, <4>3 DEF Removed
    <3>3. QED
      BY <3>1, <3>2
  <2>5. QED
    BY <1>0, <2>1, <2>2, <2>4 DEF FirmFiles
<1>2. ASSUME NEW k \in Keys, FindsNothing(k) \/ \E e \in Values : Finds(k, e), firm' \subseteq firm
      PROVE  Kept /\ Firm
  <2>1. /\ LayersAgree' /\ Undying'
        /\ disk'.files = disk.files /\ DOMAIN disk'.index \subseteq DOMAIN disk.index
        /\ UNCHANGED <<call, clock>>
    BY <1>2, TierRead
  <2>2. QED
    BY <1>0, <1>2, <2>1 DEF Backed, Removed, Quiet, FirmFiles
<1>3. ASSUME NEW t \in Threads, NEW S,
             \/ S = Keys /\ BeginClear(t)
             \/ \E k \in Keys : S = {k} /\ BeginInvalidate(t, k),
             firm' = firm \ S
      PROVE  Kept /\ Firm
  <2>1. LayersAgree' /\ Undying' /\ Backed' /\ Quiet' /\ UNCHANGED clock
    BY <1>3, TierRemoves
  <2>2. UNCHANGED disk /\ call'[t].keys = S /\ \A u \in Threads \ {t} : call'[u] = call[u]
    <3>1. CASE S = Keys /\ BeginClear(t)
      BY <1>0, <3>1 DEF BeginClear
    <3>2. CASE \E k \in Keys : S = {k} /\ BeginInvalidate(t, k)
      BY <1>0, <3>2 DEF BeginInvalidate, Idle
    <3>3. QED
      BY <1>3, <3>1, <3>2
  <2>3. QED
    BY <1>0, <1>3, <2>1, <2>2 DEF FirmFiles, Removed
<1>4. ASSUME NEW t \in Threads, UNCHANGED firm,
             FinishInvalidate(t) \/ FinishClear(t) \/ \E k \in Keys : RemoveFile(t, k)
      PROVE  Kept /\ Firm
  <2>1. LayersAgree' /\ Undying' /\ Backed' /\ Quiet' /\ UNCHANGED clock
    BY <1>4, TierRemoves
  <2>2. ASSUME NEW k \in Keys, RemoveFile(t, k) PROVE Firm
    <3>1. /\ disk'.files = Without(disk.files, {k}) /\ k \in call[t].keys
          /\ \A u \in Threads : call'[u].keys = call[u].keys
      BY <1>0, <2>2 DEF RemoveFile, Unlink, DiskTier, CallState, DiskInv, Inv, TypeOK, CallsInScope
    <3>2. QED
      BY <1>4, <3>1 DEF FirmFiles, Removed, Without
  <2>3. CASE FinishInvalidate(t) \/ FinishClear(t)
    <3>1. /\ disk'.files = disk.files
          /\ \A u \in Threads : call'[u].keys = call[u].keys \/ call'[u].keys = {}
      BY <1>0, <2>3 DEF FinishInvalidate, FinishClear, DropIndexed, EmptyIndex, Return, Idle
    <3>2. Firm
      BY <1>4, <3>1 DEF FirmFiles, Removed
    <3>3. QED
      BY <1>0, <2>1, <3>2
  <2>4. QED
    BY <1>0, <1>4, <2>1, <2>2, <2>3
<1>5. ASSUME Advance \/ Crash \/ Open(clock), UNCHANGED firm
      PROVE  Kept /\ Firm
  <2>1. /\ LayersAgree' /\ Undying' /\ Backed' /\ Quiet' /\ clock' <= MaxClock
        /\ Spares(disk', disk, clock) /\ SameFiles(disk', disk)
        /\ \A t \in Threads : call'[t].keys = {} \/ call'[t] = call[t]
    BY <1>5, TierRests
  <2>2. QED
    BY <1>0, <1>5, <2>1 DEF FirmFiles, Removed, SameFiles
<1>6. CASE UNCHANGED tierVars
  BY <1>0, <1>6 DEF tierVars, LayersAgree, Undying, Backed, Removed, Quiet, FirmFiles, TierTypes
<1>7. CASE TierNext
  <2>1. ASSUME NEW t \in Threads, NEW k \in Keys, NEW ttl \in EngineTtls, NEW pinned \in BOOLEAN,
               EnginePut(t, k, ttl, pinned)
        PROVE  Kept /\ Firm
    <3>1. Envelope(ttl, pinned) \in Values /\ Envelope(ttl, pinned).pinned = pinned
      BY EnvelopeIsValue
    <3>2. /\ PutEnvelope(k, Envelope(ttl, pinned))
          /\ firm' \subseteq firm \cup {k}
          /\ k \in firm' \ firm => pinned /\ Held(k) = {} /\ ~Removed(k)
      <4>1. /\ PutEnvelope(k, Envelope(ttl, pinned))
            /\ \/ firm' = firm \ {k} \/ firm' = firm
               \/ pinned /\ Held(k) = {} /\ ~Removed(k) /\ firm' = firm \cup {k}
        BY <2>1 DEF EnginePut
      <4>2. QED
        BY <4>1
    <3>3. QED
      BY <1>1, <3>1, <3>2
  <2>2. ASSUME NEW t \in Threads, NEW k \in Keys, EngineGet(t, k) PROVE Kept /\ Firm
    BY <1>2, <2>2 DEF EngineGet
  <2>3. ASSUME NEW t \in Threads, NEW k \in Keys, NEW pinned \in BOOLEAN, PinRead(t, k, pinned)
        PROVE  Kept /\ Firm
    BY <1>2, <2>3 DEF PinRead, Unpins
  <2>4. ASSUME NEW t \in Threads, PinWrite(t) PROVE Kept /\ Firm
    <3>1. engine[t] \in EngineCall /\ engine[t].op = "pin"
      BY <2>4 DEF PinWrite, TierTypes
    <3>2. engine[t].key \in Keys /\ engine[t].entry \in Values
      BY <3>1 DEF EngineCall, NoCall
    <3>3. PutEnvelope(engine[t].key, engine[t].entry) /\ UNCHANGED firm
      BY <2>4 DEF PinWrite
    <3>4. QED
      BY <1>1, <3>2, <3>3
  <2>5. ASSUME NEW t \in Threads, RemoveExpired(t) PROVE Kept /\ Firm
    <3>1. engine[t] \in EngineCall /\ engine[t].op = "remove"
      BY <2>5 DEF RemoveExpired, TierTypes
    <3>2. engine[t].key \in Keys
      BY <3>1 DEF EngineCall, NoCall
    <3>3. BeginInvalidate(t, engine[t].key) /\ firm' = firm \ {engine[t].key}
      BY <2>5 DEF RemoveExpired, Unpins
    <3>4. QED
      BY <1>3, <3>2, <3>3
  <2>6. ASSUME NEW t \in Threads, NEW k \in Keys, EngineInvalidate(t, k) PROVE Kept /\ Firm
    BY <1>3, <2>6 DEF EngineInvalidate, Unpins
  <2>7. ASSUME NEW t \in Threads, EngineClear(t) PROVE Kept /\ Firm
    BY <1>3, <2>7 DEF EngineClear, Unpins
  <2>8. ASSUME CacheSteps PROVE Kept /\ Firm
    BY <1>4, <1>5, <2>8 DEF CacheSteps
  <2>9. ASSUME TierCrash PROVE Kept /\ Firm
    BY <1>5, <2>9 DEF TierCrash
  <2>10. Kept /\ Firm
    BY <1>7, <2>1, <2>2, <2>3, <2>4, <2>5, <2>6, <2>7, <2>8, <2>9 DEF TierNext
  <2>11. TierTypes'
    BY <2>10, TierTypesStep
  <2>12. QED
    BY <1>0, <2>10, <2>11
<1>8. QED
  BY <1>6, <1>7

\* The empty tier.
LEMMA TierInitInv ==
    ASSUME TierInit
    PROVE  TierInv /\ FirmFiles
<1>1. DiskInv
  <2>1. Init
    BY DEF TierInit
  <2>2. QED
    BY <2>1, InitInv, EmptyIndexSound DEF Init, DiskInv
<1>2. DOMAIN memory.recs = {} /\ DOMAIN disk.index = {} /\ DOMAIN disk.files = {}
  BY NoMemoryKeeps, EmptyIndexSound DEF TierInit, Init, NoEntries
<1>3. clock <= MaxClock /\ Quiet /\ firm = {}
  BY TimeAssumption DEF TierInit, Init, Quiet, Idle
<1>4. engine \in [Threads -> EngineCall]
  BY DEF TierInit, EngineCall
<1>5. QED
  BY <1>1, <1>2, <1>3, <1>4 DEF TierInv, TierTypes, LayersAgree, Undying, Backed, FirmFiles

\* The engine over its tier drives the cache as the cache allows: whatever is proved of
\* ContextCache holds of the cache inside it.
THEOREM TierUsesCache ==
    ASSUME EnvelopeAssumption
    PROVE  TierSpec => Spec
<1>1. TierInit => Init
  BY DEF TierInit
<1>2. TierInv /\ [TierNext]_tierVars => [Next]_vars
  BY TierStepIsCacheStep DEF TierInv
<1>3. TierInv /\ [TierNext]_tierVars => TierInv'
  BY TierNextInv
<1>4. TierInit => TierInv
  BY TierInitInv
<1>5. QED
  BY <1>1, <1>2, <1>3, <1>4, PTL DEF TierSpec, Spec

\* The cache's pin is the envelope's and the cache expires nothing by itself, for any
\* keys, TTLs, quotas and callers, through write-backs, promotions and restarts.
THEOREM LayersAlwaysAgree ==
    ASSUME EnvelopeAssumption
    PROVE  TierSpec => []LayersAgree
<1>1. TierInv /\ [TierNext]_tierVars => TierInv'
  BY TierNextInv
<1>2. TierInit => TierInv
  BY TierInitInv
<1>3. TierInv => LayersAgree
  BY DEF TierInv
<1>4. QED
  BY <1>1, <1>2, <1>3, PTL DEF TierSpec

\* Over a store that takes every block, one stored pinned where nothing was stored before
\* is held until it is unpinned or removed.
THEOREM FirmBlocksKept ==
    ASSUME EnvelopeAssumption, StoreAssumption
    PROVE  TierSpec => []FirmKept
<1>1. TierInv /\ FirmFiles /\ [TierNext]_tierVars => TierInv' /\ FirmFiles'
  BY TierNextInv
<1>2. TierInit => TierInv /\ FirmFiles
  BY TierInitInv
<1>3. TierInv /\ FirmFiles => FirmKept
  BY DEF TierInv, TierTypes, FirmFiles, FirmKept, Held
<1>4. QED
  BY <1>1, <1>2, <1>3, PTL DEF TierSpec

=============================================================================
