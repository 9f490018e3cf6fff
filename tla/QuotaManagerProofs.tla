------------------------- MODULE QuotaManagerProofs -------------------------
(***************************************************************************)
(* The quota holds for any number of tenants, leases and reservations.     *)
(* QuotaRespected is not inductive: commit adds to used without a check    *)
(* and subtracts from reserved with saturation, so it keeps the sum only   *)
(* because reserved still holds the committed reservation (ReservedExact). *)
(***************************************************************************)
EXTENDS QuotaManager, BytesProofs

Inv == TypeOK /\ ReservedExact /\ QuotaRespected /\ InflightBounded

\* The fields of a tenant that exists.
LEMMA TenantFields ==
    ASSUME TypeOK, NEW t \in DOMAIN tenants
    PROVE  /\ tenants[t].quota \in Quotas
           /\ tenants[t].used \in [Dims -> Nat]
           /\ tenants[t].reserved \in [Dims -> Nat]
           /\ tenants[t].inflight \in Nat
BY DEF TypeOK, IsMap, TenantState

\* The limits and sizes are naturals, the storage limits below u64::MAX.
LEMMA LimitFields ==
    /\ Top \in Nat
    /\ \A q \in Quotas : /\ q.inflight \in Nat
                         /\ \A d \in Dims : q.max[d] \in Nat /\ q.max[d] < Top
    /\ \A s \in Sizes : \A d \in Dims : s[d] \in Nat
BY QuotaAssumption DEF Dims

\* There are finitely many live handles.
LEMMA HandlesFinite ==
    ASSUME TypeOK
    PROVE  /\ IsFiniteSet(DOMAIN leases) /\ IsFiniteSet(DOMAIN pending)
           /\ \A t : IsFiniteSet(LeasesOf(t)) /\ IsFiniteSet(PendingOf(t))
<1>1. IsFiniteSet(DOMAIN leases) /\ IsFiniteSet(DOMAIN pending)
  BY QuotaAssumption, FS_Subset DEF TypeOK, IsMap
<1>2. ASSUME NEW t PROVE LeasesOf(t) \subseteq DOMAIN leases /\ PendingOf(t) \subseteq DOMAIN pending
  BY DEF LeasesOf, PendingOf
<1>3. QED
  BY <1>1, <1>2, FS_Subset

\* A reservation names a tenant and a size.
LEMMA PendingFields ==
    ASSUME TypeOK, NEW r \in DOMAIN pending
    PROVE  pending[r].tenant \in DOMAIN tenants /\ pending[r].size \in Sizes
BY DEF TypeOK, IsMap

\* The sizes summed up are naturals.
LEMMA SizeInNat ==
    ASSUME TypeOK, NEW d \in Dims
    PROVE  \A r \in DOMAIN pending : SizeIn(d)[r] \in Nat
BY PendingFields, LimitFields DEF SizeIn

\* Removing reservation r lowers the sum of its tenant by its size, and of no
\* other tenant.
LEMMA TotalWithoutOne ==
    ASSUME TypeOK, NEW r \in DOMAIN pending, NEW d \in Dims, NEW t,
           pending' = Without(pending, {r})
    PROVE  LET sum == Total(PendingOf(t), SizeIn(d))
           IN  /\ sum \in Nat
               /\ Total(PendingOf(t), SizeIn(d))' \in Nat
               /\ sum = Total(PendingOf(t), SizeIn(d))'
                        + (IF pending[r].tenant = t THEN pending[r].size[d] ELSE 0)
<1> DEFINE S == PendingOf(t)
           T == {r} \cap S
<1>1. IsFiniteSet(S) /\ (\A k \in S : SizeIn(d)[k] \in Nat) /\ T \subseteq S
  BY HandlesFinite, SizeInNat DEF PendingOf
<1>2. DOMAIN pending' = DOMAIN pending \ {r} /\ \A k \in DOMAIN pending' : pending'[k] = pending[k]
  BY DEF Without
<1>3. PendingOf(t)' = S \ T
  BY <1>2 DEF PendingOf
<1>4. \A k \in S \ T : SizeIn(d)'[k] = SizeIn(d)[k]
  BY <1>2 DEF PendingOf, SizeIn
<1>5. Total(PendingOf(t), SizeIn(d))' = Total(S \ T, SizeIn(d))
  BY <1>3, <1>4, TotalCongruence
<1>6. Total(S, SizeIn(d)) = Total(S \ T, SizeIn(d)) + Total(T, SizeIn(d))
  BY <1>1, TotalSplit
<1>7. Total(S, SizeIn(d)) \in Nat /\ Total(S \ T, SizeIn(d)) \in Nat
  <2>1. IsFiniteSet(S \ T) /\ \A k \in S \ T : SizeIn(d)[k] \in Nat
    BY <1>1, FS_Subset
  <2>2. QED
    BY <1>1, <2>1, TotalType
<1>8. Total(T, SizeIn(d)) = IF pending[r].tenant = t THEN pending[r].size[d] ELSE 0
  <2>1. CASE pending[r].tenant = t
    <3>1. T = {r} /\ SizeIn(d)[r] = pending[r].size[d] /\ SizeIn(d)[r] \in Nat
      BY <2>1, SizeInNat DEF PendingOf, SizeIn
    <3>2. QED
      BY <2>1, <3>1, TotalOfOne
  <2>2. CASE pending[r].tenant # t
    <3>1. T = {}
      BY <2>2 DEF PendingOf
    <3>2. QED
      BY <2>2, <3>1, TotalOfNone
  <2>3. QED
    BY <2>1, <2>2
<1>9. QED
  BY <1>5, <1>6, <1>7, <1>8

\* Adding reservation r raises the sum of its tenant by its size, and of no
\* other tenant.
LEMMA TotalWithOne ==
    ASSUME TypeOK, NEW r, r \notin DOMAIN pending, NEW d \in Dims, NEW t,
           NEW u, NEW size \in Sizes,
           pending' = With(pending, r, [tenant |-> u, size |-> size])
    PROVE  LET sum == Total(PendingOf(t), SizeIn(d))
           IN  /\ sum \in Nat
               /\ sum' = sum + (IF u = t THEN size[d] ELSE 0)
<1> DEFINE S == PendingOf(t)
           T == {k \in {r} : u = t}
<1>1. IsFiniteSet(S) /\ (\A k \in S : SizeIn(d)[k] \in Nat)
  BY HandlesFinite, SizeInNat DEF PendingOf
<1>2. /\ DOMAIN pending' = DOMAIN pending \cup {r}
      /\ pending'[r] = [tenant |-> u, size |-> size]
      /\ \A k \in DOMAIN pending : pending'[k] = pending[k]
  BY DEF With
<1>3. PendingOf(t)' = S \cup T /\ (S \cup T) \ T = S /\ T \subseteq S \cup T
  BY <1>2 DEF PendingOf
<1>4. /\ \A k \in S : SizeIn(d)'[k] = SizeIn(d)[k]
      /\ \A k \in T : SizeIn(d)'[k] = size[d]
  BY <1>2 DEF PendingOf, SizeIn
<1>5. size[d] \in Nat
  BY LimitFields
<1>6. IsFiniteSet(S \cup T) /\ \A k \in S \cup T : SizeIn(d)'[k] \in Nat
  <2>1. IsFiniteSet(S \cup {r})
    BY <1>1, FS_AddElement
  <2>2. S \cup T \subseteq S \cup {r}
    OBVIOUS
  <2>3. QED
    BY <1>1, <1>4, <1>5, <2>1, <2>2, FS_Subset
<1>7. Total(S \cup T, SizeIn(d)') = Total(S, SizeIn(d)') + Total(T, SizeIn(d)')
  BY <1>3, <1>6, TotalSplit
<1>8. Total(S, SizeIn(d)') = Total(S, SizeIn(d))
  BY <1>4, TotalCongruence
<1>9. Total(S, SizeIn(d)) \in Nat
  BY <1>1, TotalType
<1>10. Total(T, SizeIn(d)') = IF u = t THEN size[d] ELSE 0
  <2>1. CASE u = t
    <3>1. T = {r} /\ SizeIn(d)'[r] = size[d]
      BY <2>1, <1>4
    <3>2. QED
      BY <2>1, <3>1, <1>5, TotalOfOne
  <2>2. CASE u # t
    <3>1. T = {}
      BY <2>2
    <3>2. QED
      BY <2>2, <3>1, TotalOfNone
  <2>3. QED
    BY <2>1, <2>2
<1>11. QED
  BY <1>3, <1>7, <1>8, <1>9, <1>10

\* The sums depend on nothing but the live reservations.
LEMMA TotalUnchanged ==
    ASSUME UNCHANGED pending, NEW t, NEW d
    PROVE  Total(PendingOf(t), SizeIn(d))' = Total(PendingOf(t), SizeIn(d))
BY DEF PendingOf, SizeIn

\* A lease more or less changes the count of its tenant by one.
LEMMA LeaseCounts ==
    ASSUME TypeOK, NEW t, NEW l
    PROVE  /\ Cardinality(LeasesOf(t)) \in Nat
           /\ \A u : l \notin DOMAIN leases /\ leases' = With(leases, l, u)
                => Cardinality(LeasesOf(t)') =
                     Cardinality(LeasesOf(t)) + (IF u = t THEN 1 ELSE 0)
           /\ l \in DOMAIN leases /\ leases' = Without(leases, {l})
                => Cardinality(LeasesOf(t)') =
                     Cardinality(LeasesOf(t)) - (IF leases[l] = t THEN 1 ELSE 0)
<1>1. IsFiniteSet(LeasesOf(t)) /\ Cardinality(LeasesOf(t)) \in Nat
  BY HandlesFinite, FS_CardinalityType
<1>2. ASSUME NEW u, l \notin DOMAIN leases, leases' = With(leases, l, u)
      PROVE  Cardinality(LeasesOf(t)') = Cardinality(LeasesOf(t)) + (IF u = t THEN 1 ELSE 0)
  <2>1. LeasesOf(t)' = IF u = t THEN LeasesOf(t) \cup {l} ELSE LeasesOf(t)
    BY <1>2 DEF LeasesOf, With
  <2>2. l \notin LeasesOf(t)
    BY <1>2 DEF LeasesOf
  <2>3. QED
    BY <1>1, <2>1, <2>2, FS_AddElement
<1>3. ASSUME l \in DOMAIN leases, leases' = Without(leases, {l})
      PROVE  Cardinality(LeasesOf(t)') = Cardinality(LeasesOf(t)) - (IF leases[l] = t THEN 1 ELSE 0)
  <2>1. LeasesOf(t)' = IF leases[l] = t THEN LeasesOf(t) \ {l} ELSE LeasesOf(t)
    BY <1>3 DEF LeasesOf, Without
  <2>2. leases[l] = t => l \in LeasesOf(t)
    BY <1>3 DEF LeasesOf
  <2>3. QED
    BY <1>1, <2>1, <2>2, FS_RemoveElement
<1>4. QED
  BY <1>1, <1>2, <1>3

-----------------------------------------------------------------------------
(* Every method but set_quota changes the counters of one tenant.          *)

\* The counters of tenant t become used, reserved and inflight; the quotas and
\* the other tenants stay.
Recounted(t, used, reserved, inflight) ==
    /\ DOMAIN tenants' = DOMAIN tenants
    /\ tenants' \in [DOMAIN tenants -> TenantState]
    /\ \A u \in DOMAIN tenants : u # t => tenants'[u] = tenants[u]
    /\ tenants'[t].quota = tenants[t].quota
    /\ tenants'[t].used = used
    /\ tenants'[t].reserved = reserved
    /\ tenants'[t].inflight = inflight

\* Changing reserved, used or inflight in place is a Recounted step.
LEMMA RecountedFields ==
    ASSUME TypeOK, NEW t \in DOMAIN tenants,
           NEW used \in [Dims -> Nat], NEW reserved \in [Dims -> Nat], NEW inflight \in Nat,
           tenants' = [tenants EXCEPT ![t] =
             [quota |-> tenants[t].quota, used |-> used, reserved |-> reserved, inflight |-> inflight]]
    PROVE  Recounted(t, used, reserved, inflight)
BY TenantFields DEF Recounted, TypeOK, IsMap, TenantState

\* A record with one field replaced, written out.
LEMMA ReplacedField ==
    ASSUME TypeOK, NEW t \in DOMAIN tenants, NEW v
    PROVE  /\ [tenants[t] EXCEPT !.reserved = v] =
                [quota |-> tenants[t].quota, used |-> tenants[t].used, reserved |-> v, inflight |-> tenants[t].inflight]
           /\ [tenants[t] EXCEPT !.used = v] =
                [quota |-> tenants[t].quota, used |-> v, reserved |-> tenants[t].reserved, inflight |-> tenants[t].inflight]
           /\ [tenants[t] EXCEPT !.inflight = v] =
                [quota |-> tenants[t].quota, used |-> tenants[t].used, reserved |-> tenants[t].reserved, inflight |-> v]
BY DEF TypeOK, IsMap, TenantState

\* begin_request takes a slot below max_inflight.
LEMMA BeginRequestInv ==
    ASSUME Inv, NEW t, NEW l \in Leases, BeginRequest(t, l)
    PROVE  Inv'
<1> USE DEF Inv
<1>1. t \in DOMAIN tenants /\ l \notin DOMAIN leases /\ UNCHANGED pending
      /\ leases' = With(leases, l, t) /\ tenants[t].inflight < tenants[t].quota.inflight
  BY DEF BeginRequest
<1>2. Recounted(t, tenants[t].used, tenants[t].reserved, tenants[t].inflight + 1)
  <2>1. tenants' = [tenants EXCEPT ![t] = [tenants[t] EXCEPT !.inflight = tenants[t].inflight + 1]]
    BY <1>1 DEF BeginRequest
  <2>2. tenants[t].inflight + 1 \in Nat
    BY <1>1, TenantFields
  <2>3. QED
    BY <1>1, <2>1, <2>2, ReplacedField, RecountedFields, TenantFields
<1>3. TypeOK'
  <2>1. IsMap(leases', Leases, DOMAIN tenants')
    BY <1>1, <1>2 DEF TypeOK, IsMap, With, Recounted
  <2>2. QED
    BY <1>1, <1>2, <2>1 DEF TypeOK, IsMap, Recounted
<1>4. ReservedExact'
  BY <1>1, <1>2, TotalUnchanged DEF ReservedExact, Recounted
<1>5. QuotaRespected'
  BY <1>1, <1>2 DEF QuotaRespected, Recounted
<1>6. InflightBounded'
  <2>1. \A u : Cardinality(LeasesOf(u)') = Cardinality(LeasesOf(u)) + (IF t = u THEN 1 ELSE 0)
               /\ Cardinality(LeasesOf(u)) \in Nat
    BY <1>1, LeaseCounts
  <2>2. tenants[t].inflight \in Nat /\ tenants[t].quota.inflight \in Nat
    BY <1>1, TenantFields, LimitFields
  <2>3. QED
    BY <1>1, <1>2, <2>1, <2>2 DEF InflightBounded, Recounted
<1>7. QED
  BY <1>3, <1>4, <1>5, <1>6

\* The end of a request gives back a slot it really held, so the saturation
\* never acts.
LEMMA EndRequestInv ==
    ASSUME Inv, NEW l, EndRequest(l)
    PROVE  Inv'
<1> USE DEF Inv
<1> DEFINE t == leases[l]
<1>1. l \in DOMAIN leases /\ UNCHANGED pending /\ leases' = Without(leases, {l})
  BY DEF EndRequest
<1>2. t \in DOMAIN tenants
  BY <1>1 DEF TypeOK, IsMap
<1>3. tenants[t].inflight \in Nat \ {0}
  <2>1. l \in LeasesOf(t) /\ IsFiniteSet(LeasesOf(t))
    BY <1>1, HandlesFinite DEF LeasesOf
  <2>2. Cardinality(LeasesOf(t)) \in Nat \ {0}
    BY <2>1, FS_EmptySet, FS_CardinalityType
  <2>3. QED
    BY <1>2, <2>2 DEF InflightBounded
<1>4. Recounted(t, tenants[t].used, tenants[t].reserved, tenants[t].inflight - 1)
  <2>1. tenants' = [tenants EXCEPT ![t] =
                      [tenants[t] EXCEPT !.inflight = SaturatingSub(tenants[t].inflight, 1)]]
    BY <1>2 DEF EndRequest
  <2>2. SaturatingSub(tenants[t].inflight, 1) = tenants[t].inflight - 1
    BY <1>3 DEF SaturatingSub
  <2>3. tenants[t].inflight - 1 \in Nat
    BY <1>3
  <2>4. QED
    BY <1>2, <2>1, <2>2, <2>3, ReplacedField, RecountedFields, TenantFields
<1>5. TypeOK'
  <2>1. IsMap(leases', Leases, DOMAIN tenants')
    BY <1>1, <1>4 DEF TypeOK, IsMap, Without, Recounted
  <2>2. QED
    BY <1>1, <1>4, <2>1 DEF TypeOK, IsMap, Recounted
<1>6. ReservedExact'
  BY <1>1, <1>2, <1>4, TotalUnchanged DEF ReservedExact, Recounted
<1>7. QuotaRespected'
  BY <1>1, <1>2, <1>4 DEF QuotaRespected, Recounted
<1>8. InflightBounded'
  <2>1. \A u : Cardinality(LeasesOf(u)') = Cardinality(LeasesOf(u)) - (IF t = u THEN 1 ELSE 0)
               /\ Cardinality(LeasesOf(u)) \in Nat
    BY <1>1, LeaseCounts
  <2>2. tenants[t].quota.inflight \in Nat
    BY <1>2, TenantFields, LimitFields
  <2>3. QED
    BY <1>1, <1>2, <1>3, <1>4, <2>1, <2>2 DEF InflightBounded, Recounted
<1>9. QED
  BY <1>5, <1>6, <1>7, <1>8

\* The leases of a tenant depend on nothing but the live leases.
LEMMA LeasesKept ==
    ASSUME UNCHANGED leases, NEW t
    PROVE  Cardinality(LeasesOf(t)') = Cardinality(LeasesOf(t))
BY DEF LeasesOf

\* reserve_storage admits only what fits next to the other reservations, so no
\* sum saturates.
LEMMA ReserveStorageInv ==
    ASSUME Inv, NEW t, NEW r \in Reservations, NEW size \in Sizes, ReserveStorage(t, r, size)
    PROVE  Inv'
<1> USE DEF Inv
<1> DEFINE grown == [d \in Dims |-> tenants[t].reserved[d] + size[d]]
<1>1. t \in DOMAIN tenants /\ r \notin DOMAIN pending /\ UNCHANGED leases
      /\ pending' = With(pending, r, [tenant |-> t, size |-> size]) /\ Fits(tenants[t], size)
  BY DEF ReserveStorage
<1>2. ASSUME NEW d \in Dims
      PROVE  /\ size[d] \in Nat /\ tenants[t].used[d] \in Nat /\ tenants[t].reserved[d] \in Nat
             /\ tenants[t].used[d] + tenants[t].reserved[d] + size[d] <= tenants[t].quota.max[d]
             /\ Sum(tenants[t].reserved[d], size[d]) = tenants[t].reserved[d] + size[d]
  <2>1. size[d] \in Nat /\ tenants[t].used[d] \in Nat /\ tenants[t].reserved[d] \in Nat
        /\ tenants[t].quota.max[d] \in Nat /\ tenants[t].quota.max[d] < Top /\ Top \in Nat
    BY <1>1, TenantFields, LimitFields
  <2>2. Sum(Sum(tenants[t].used[d], tenants[t].reserved[d]), size[d]) <= tenants[t].quota.max[d]
    BY <1>1 DEF Fits
  <2>3. QED
    BY <2>1, <2>2 DEF Sum, SaturatingAdd
<1>3. Recounted(t, tenants[t].used, grown, tenants[t].inflight)
  <2>1. tenants' = [tenants EXCEPT ![t] = [tenants[t] EXCEPT !.reserved =
                      [d \in Dims |-> Sum(tenants[t].reserved[d], size[d])]]]
    BY <1>1 DEF ReserveStorage
  <2>2. [d \in Dims |-> Sum(tenants[t].reserved[d], size[d])] = grown
    BY <1>2
  <2>3. grown \in [Dims -> Nat]
    BY <1>2
  <2>4. QED
    BY <1>1, <2>1, <2>2, <2>3, ReplacedField, RecountedFields, TenantFields
<1>4. TypeOK'
  <2>1. IsMap(pending', Reservations, [tenant : DOMAIN tenants', size : Sizes])
    BY <1>1, <1>3 DEF TypeOK, IsMap, With, Recounted
  <2>2. QED
    BY <1>1, <1>3, <2>1 DEF TypeOK, IsMap, Recounted
<1>5. ReservedExact'
  <2>1. SUFFICES ASSUME NEW u \in DOMAIN tenants, NEW d \in Dims
                 PROVE  tenants'[u].reserved[d] = Total(PendingOf(u), SizeIn(d))'
    BY <1>3 DEF ReservedExact, Recounted
  <2>2. Total(PendingOf(u), SizeIn(d))' = Total(PendingOf(u), SizeIn(d)) + (IF t = u THEN size[d] ELSE 0)
        /\ Total(PendingOf(u), SizeIn(d)) \in Nat
    BY <1>1, TotalWithOne
  <2>3. tenants[u].reserved[d] = Total(PendingOf(u), SizeIn(d))
    BY DEF ReservedExact
  <2>4. QED
    BY <1>1, <1>2, <1>3, <2>2, <2>3 DEF Recounted
<1>6. QuotaRespected'
  <2>1. SUFFICES ASSUME NEW u \in DOMAIN tenants, NEW d \in Dims
                 PROVE  tenants'[u].used[d] + tenants'[u].reserved[d] <= tenants'[u].quota.max[d]
    BY <1>3 DEF QuotaRespected, Recounted
  <2>2. CASE u = t
    BY <1>1, <1>2, <1>3, <2>2 DEF Recounted
  <2>3. CASE u # t
    BY <1>3, <2>3 DEF Recounted, QuotaRespected
  <2>4. QED
    BY <2>2, <2>3
<1>7. InflightBounded'
  BY <1>1, <1>3, LeasesKept DEF Recounted, InflightBounded
<1>8. QED
  BY <1>4, <1>5, <1>6, <1>7

\* Giving up a reservation, committed or not: reserved falls by exactly its
\* size, and used grows by no more than that.
LEMMA SettleInv ==
    ASSUME Inv, NEW r \in DOMAIN pending, UNCHANGED leases,
           pending' = Without(pending, {r}),
           NEW t, t = pending[r].tenant, NEW size, size = pending[r].size,
           NEW used \in [Dims -> Nat],
           \A d \in Dims : used[d] <= tenants[t].used[d] + size[d],
           Recounted(t, used, [d \in Dims |-> SaturatingSub(tenants[t].reserved[d], size[d])],
                     tenants[t].inflight)
    PROVE  Inv'
<1> USE DEF Inv
<1> DEFINE shrunk == [d \in Dims |-> SaturatingSub(tenants[t].reserved[d], size[d])]
<1>1. t \in DOMAIN tenants /\ size \in Sizes
  BY PendingFields
<1>2. Recounted(t, used, shrunk, tenants[t].inflight)
  OBVIOUS
<1>3. ASSUME NEW d \in Dims
      PROVE  /\ tenants[t].reserved[d] \in Nat /\ size[d] \in Nat /\ tenants[t].used[d] \in Nat
             /\ used[d] \in Nat /\ tenants[t].quota.max[d] \in Nat
             /\ size[d] <= tenants[t].reserved[d]
             /\ shrunk[d] = tenants[t].reserved[d] - size[d]
  <2>1. tenants[t].reserved[d] \in Nat /\ size[d] \in Nat /\ tenants[t].used[d] \in Nat
        /\ used[d] \in Nat /\ tenants[t].quota.max[d] \in Nat
    BY <1>1, TenantFields, LimitFields
  <2>2. tenants[t].reserved[d] = Total(PendingOf(t), SizeIn(d))' + size[d]
        /\ Total(PendingOf(t), SizeIn(d))' \in Nat
    BY <1>1, TotalWithoutOne DEF ReservedExact
  <2>3. QED
    BY <2>1, <2>2 DEF SaturatingSub
<1>4. TypeOK'
  <2>1. IsMap(pending', Reservations, [tenant : DOMAIN tenants', size : Sizes])
    BY <1>2 DEF TypeOK, IsMap, Without, Recounted
  <2>2. QED
    BY <1>2, <2>1 DEF TypeOK, IsMap, Recounted
<1>5. ReservedExact'
  <2>1. SUFFICES ASSUME NEW u \in DOMAIN tenants, NEW d \in Dims
                 PROVE  tenants'[u].reserved[d] = Total(PendingOf(u), SizeIn(d))'
    BY <1>2 DEF ReservedExact, Recounted
  <2>2. /\ Total(PendingOf(u), SizeIn(d)) =
             Total(PendingOf(u), SizeIn(d))' + (IF t = u THEN size[d] ELSE 0)
        /\ Total(PendingOf(u), SizeIn(d))' \in Nat
    BY TotalWithoutOne
  <2>3. tenants[u].reserved[d] = Total(PendingOf(u), SizeIn(d))
    BY DEF ReservedExact
  <2>4. CASE u = t
    <3>1. tenants'[t].reserved[d] = shrunk[d]
      BY <1>2 DEF Recounted
    <3>2. QED
      BY <1>3, <2>2, <2>3, <2>4, <3>1
  <2>5. CASE u # t
    BY <1>2, <2>2, <2>3, <2>5 DEF Recounted
  <2>6. QED
    BY <2>4, <2>5
<1>6. QuotaRespected'
  <2>1. SUFFICES ASSUME NEW u \in DOMAIN tenants, NEW d \in Dims
                 PROVE  tenants'[u].used[d] + tenants'[u].reserved[d] <= tenants'[u].quota.max[d]
    BY <1>2 DEF QuotaRespected, Recounted
  <2>2. CASE u = t
    <3>1. tenants'[t].reserved[d] = shrunk[d] /\ tenants'[t].used[d] = used[d]
          /\ tenants'[t].quota = tenants[t].quota
      BY <1>2 DEF Recounted
    <3>2. tenants[t].used[d] + tenants[t].reserved[d] <= tenants[t].quota.max[d]
          /\ used[d] <= tenants[t].used[d] + size[d]
      BY <1>1 DEF QuotaRespected
    <3>3. QED
      BY <1>3, <2>2, <3>1, <3>2
  <2>3. CASE u # t
    BY <1>2, <2>3 DEF Recounted, QuotaRespected
  <2>4. QED
    BY <2>2, <2>3
<1>7. InflightBounded'
  BY <1>1, <1>2, LeasesKept DEF Recounted, InflightBounded
<1>8. QED
  BY <1>4, <1>5, <1>6, <1>7

\* commit moves the reservation from reserved to used.
LEMMA CommitInv ==
    ASSUME Inv, NEW r, Commit(r)
    PROVE  Inv'
<1> USE DEF Inv
<1>1. PICK t, size : t = pending[r].tenant /\ size = pending[r].size
  OBVIOUS
<1> DEFINE used == [d \in Dims |-> Sum(tenants[t].used[d], size[d])]
           shrunk == [d \in Dims |-> SaturatingSub(tenants[t].reserved[d], size[d])]
<1>2. r \in DOMAIN pending /\ UNCHANGED leases /\ pending' = Without(pending, {r})
  BY DEF Commit
<1>3. t \in DOMAIN tenants /\ size \in Sizes
  BY <1>1, <1>2, PendingFields
<1>4. \A d \in Dims : /\ size[d] \in Nat /\ tenants[t].used[d] \in Nat
                      /\ tenants[t].reserved[d] \in Nat /\ Top \in Nat
  BY <1>3, TenantFields, LimitFields
<1>5. used \in [Dims -> Nat] /\ \A d \in Dims : used[d] <= tenants[t].used[d] + size[d]
  BY <1>4 DEF Sum, SaturatingAdd
<1>6. shrunk \in [Dims -> Nat]
  BY <1>4 DEF SaturatingSub
<1>7. Recounted(t, used, shrunk, tenants[t].inflight)
  <2>1. tenants' = [tenants EXCEPT ![t].reserved = shrunk, ![t].used = used]
    BY <1>1, <1>3 DEF Commit
  <2>2. tenants \in [DOMAIN tenants -> TenantState]
    BY DEF TypeOK, IsMap
  <2> HIDE DEF used, shrunk
  <2>3. PICK mid : mid = [tenants EXCEPT ![t].reserved = shrunk]
    OBVIOUS
  <2>4. mid \in [DOMAIN tenants -> TenantState] /\ DOMAIN mid = DOMAIN tenants
        /\ mid[t].quota = tenants[t].quota /\ mid[t].used = tenants[t].used
        /\ mid[t].reserved = shrunk /\ mid[t].inflight = tenants[t].inflight
        /\ \A u \in DOMAIN tenants : u # t => mid[u] = tenants[u]
    BY <1>3, <1>6, <2>2, <2>3 DEF TenantState
  <2>5. tenants' = [mid EXCEPT ![t].used = used]
    BY <2>1, <2>3
  <2>6. QED
    BY <1>3, <1>5, <2>4, <2>5 DEF Recounted, TenantState
<1> HIDE DEF used
<1>8. QED
  BY <1>1, <1>2, <1>5, <1>7, SettleInv

\* Dropping a pending reservation gives it back.
LEMMA RollbackInv ==
    ASSUME Inv, NEW r, Rollback(r)
    PROVE  Inv'
<1> USE DEF Inv
<1>1. PICK t, size : t = pending[r].tenant /\ size = pending[r].size
  OBVIOUS
<1> DEFINE shrunk == [d \in Dims |-> SaturatingSub(tenants[t].reserved[d], size[d])]
<1>2. r \in DOMAIN pending /\ UNCHANGED leases /\ pending' = Without(pending, {r})
  BY DEF Rollback
<1>3. t \in DOMAIN tenants /\ size \in Sizes
  BY <1>1, <1>2, PendingFields
<1>4. \A d \in Dims : /\ size[d] \in Nat /\ tenants[t].used[d] \in Nat
                      /\ tenants[t].reserved[d] \in Nat
  BY <1>3, TenantFields, LimitFields
<1>5. shrunk \in [Dims -> Nat]
  BY <1>4 DEF SaturatingSub
<1>6. Recounted(t, tenants[t].used, shrunk, tenants[t].inflight)
  <2>1. tenants' = [tenants EXCEPT ![t] = [tenants[t] EXCEPT !.reserved = shrunk]]
    BY <1>1, <1>3 DEF Rollback
  <2>2. QED
    BY <1>3, <1>5, <2>1, ReplacedField, RecountedFields, TenantFields
<1>7. PICK used : used = tenants[t].used
  OBVIOUS
<1>8. used \in [Dims -> Nat] /\ \A d \in Dims : used[d] <= tenants[t].used[d] + size[d]
  BY <1>3, <1>4, <1>7, TenantFields
<1>9. QED
  BY <1>1, <1>2, <1>6, <1>7, <1>8, SettleInv

\* release_storage only lowers used.
LEMMA ReleaseStorageInv ==
    ASSUME Inv, NEW t, NEW size \in Sizes, ReleaseStorage(t, size)
    PROVE  Inv'
<1> USE DEF Inv
<1> DEFINE used == [d \in Dims |-> SaturatingSub(tenants[t].used[d], size[d])]
<1>1. t \in DOMAIN tenants /\ UNCHANGED <<leases, pending>>
  BY DEF ReleaseStorage
<1>2. \A d \in Dims : /\ size[d] \in Nat /\ tenants[t].used[d] \in Nat
                      /\ tenants[t].reserved[d] \in Nat /\ tenants[t].quota.max[d] \in Nat
  BY <1>1, TenantFields, LimitFields
<1>3. used \in [Dims -> Nat] /\ \A d \in Dims : used[d] <= tenants[t].used[d]
  BY <1>2 DEF SaturatingSub
<1>4. Recounted(t, used, tenants[t].reserved, tenants[t].inflight)
  <2>1. tenants' = [tenants EXCEPT ![t] = [tenants[t] EXCEPT !.used = used]]
    BY <1>1 DEF ReleaseStorage
  <2>2. QED
    BY <1>1, <1>3, <2>1, ReplacedField, RecountedFields, TenantFields
<1> HIDE DEF used
<1>5. TypeOK'
  BY <1>1, <1>4 DEF TypeOK, IsMap, Recounted
<1>6. ReservedExact'
  BY <1>1, <1>4, TotalUnchanged DEF ReservedExact, Recounted
<1>7. QuotaRespected'
  <2>1. SUFFICES ASSUME NEW u \in DOMAIN tenants, NEW d \in Dims
                 PROVE  tenants'[u].used[d] + tenants'[u].reserved[d] <= tenants'[u].quota.max[d]
    BY <1>4 DEF QuotaRespected, Recounted
  <2>2. CASE u = t
    <3>1. tenants[t].used[d] + tenants[t].reserved[d] <= tenants[t].quota.max[d]
      BY <1>1 DEF QuotaRespected
    <3>2. tenants'[t].used[d] = used[d] /\ tenants'[t].reserved[d] = tenants[t].reserved[d]
          /\ tenants'[t].quota.max[d] = tenants[t].quota.max[d]
      BY <1>4 DEF Recounted
    <3>3. used[d] \in Nat /\ used[d] <= tenants[t].used[d]
      BY <1>3
    <3>4. QED
      BY <1>2, <2>2, <3>1, <3>2, <3>3
  <2>3. CASE u # t
    BY <1>4, <2>3 DEF Recounted, QuotaRespected
  <2>4. QED
    BY <2>2, <2>3
<1>8. InflightBounded'
  BY <1>1, <1>4, LeasesKept DEF Recounted, InflightBounded
<1>9. QED
  BY <1>5, <1>6, <1>7, <1>8

\* A quota that covers the usage is below u64::MAX, so the sum it was compared
\* with had not saturated.
LEMMA CoversExactly ==
    ASSUME TypeOK, NEW t \in DOMAIN tenants, NEW quota \in Quotas, Covers(quota, tenants[t])
    PROVE  /\ \A d \in Dims : tenants[t].used[d] + tenants[t].reserved[d] <= quota.max[d]
           /\ tenants[t].inflight <= quota.inflight
<1>1. ASSUME NEW d \in Dims
      PROVE  tenants[t].used[d] + tenants[t].reserved[d] <= quota.max[d]
  <2>1. tenants[t].used[d] \in Nat /\ tenants[t].reserved[d] \in Nat /\ Top \in Nat
        /\ quota.max[d] \in Nat /\ quota.max[d] < Top
    BY TenantFields, LimitFields
  <2>2. Sum(tenants[t].used[d], tenants[t].reserved[d]) <= quota.max[d]
    BY DEF Covers
  <2>3. QED
    BY <2>1, <2>2 DEF Sum, SaturatingAdd
<1>2. QED
  BY <1>1 DEF Covers

\* set_quota on a tenant that exists replaces a quota by one that covers usage.
LEMMA ReplaceQuotaInv ==
    ASSUME Inv, NEW t \in DOMAIN tenants, NEW quota \in Quotas, SetQuota(t, quota)
    PROVE  Inv'
<1> USE DEF Inv
<1>1. UNCHANGED <<leases, pending>> /\ Covers(quota, tenants[t])
  BY DEF SetQuota
<1>2. tenants' = With(tenants, t, [tenants[t] EXCEPT !.quota = quota])
  BY DEF SetQuota
<1>3. tenants[t] \in TenantState /\ tenants \in [DOMAIN tenants -> TenantState]
  BY DEF TypeOK, IsMap
<1>4. /\ DOMAIN tenants' = DOMAIN tenants
      /\ \A u \in DOMAIN tenants : u # t => tenants'[u] = tenants[u]
      /\ tenants'[t] = [tenants[t] EXCEPT !.quota = quota]
      /\ tenants' \in [DOMAIN tenants -> TenantState]
  BY <1>2, <1>3 DEF With, TenantState
<1>5. /\ tenants'[t].quota = quota /\ tenants'[t].used = tenants[t].used
      /\ tenants'[t].reserved = tenants[t].reserved /\ tenants'[t].inflight = tenants[t].inflight
  BY <1>3, <1>4 DEF TenantState
<1>6. TypeOK'
  BY <1>1, <1>4 DEF TypeOK, IsMap
<1>7. ReservedExact'
  <2>1. \A u \in DOMAIN tenants : tenants'[u].reserved = tenants[u].reserved
    BY <1>4, <1>5
  <2>2. QED
    BY <1>1, <1>4, <2>1, TotalUnchanged DEF ReservedExact
<1>8. QuotaRespected'
  <2>1. \A d \in Dims : tenants[t].used[d] + tenants[t].reserved[d] <= quota.max[d]
    BY <1>1, CoversExactly
  <2>2. QED
    BY <1>4, <1>5, <2>1 DEF QuotaRespected
<1>9. InflightBounded'
  <2>1. tenants[t].inflight <= quota.inflight
    BY <1>1, CoversExactly
  <2>2. QED
    BY <1>1, <1>4, <1>5, <2>1, LeasesKept DEF InflightBounded
<1>10. QED
  BY <1>6, <1>7, <1>8, <1>9

\* set_quota on a new tenant starts it without usage; no live handle can name
\* it yet.
LEMMA AddTenantInv ==
    ASSUME Inv, NEW t \in Tenants, t \notin DOMAIN tenants, NEW quota \in Quotas, SetQuota(t, quota)
    PROVE  Inv'
<1> USE DEF Inv
<1>1. UNCHANGED <<leases, pending>> /\ tenants' = With(tenants, t, Unused(quota))
  BY DEF SetQuota
<1>2. /\ DOMAIN tenants' = DOMAIN tenants \cup {t}
      /\ \A u \in DOMAIN tenants : tenants'[u] = tenants[u]
      /\ tenants'[t] = Unused(quota)
  BY <1>1 DEF With
<1>3. Unused(quota) \in TenantState
  BY DEF Unused, TenantState
<1>4. TypeOK'
  <2>1. IsMap(tenants', Tenants, TenantState)
    BY <1>1, <1>3 DEF TypeOK, IsMap, With
  <2>2. QED
    BY <1>1, <1>2, <2>1 DEF TypeOK, IsMap
<1>5. PendingOf(t) = {} /\ LeasesOf(t) = {}
  BY DEF PendingOf, LeasesOf, TypeOK, IsMap
<1>6. ReservedExact'
  <2>1. ASSUME NEW d \in Dims PROVE Total(PendingOf(t), SizeIn(d)) = 0 /\ tenants'[t].reserved[d] = 0
    BY <1>2, <1>5, TotalOfNone DEF Unused
  <2>2. QED
    BY <1>1, <1>2, <2>1, TotalUnchanged DEF ReservedExact
<1>7. QuotaRespected'
  <2>1. ASSUME NEW d \in Dims
        PROVE  tenants'[t].used[d] + tenants'[t].reserved[d] <= tenants'[t].quota.max[d]
    <3>1. tenants'[t].used[d] = 0 /\ tenants'[t].reserved[d] = 0 /\ tenants'[t].quota = quota
      BY <1>2 DEF Unused
    <3>2. QED
      BY <3>1, LimitFields
  <2>2. QED
    BY <1>2, <2>1 DEF QuotaRespected
<1>8. InflightBounded'
  <2>1. tenants'[t].inflight = 0 /\ tenants'[t].quota = quota /\ quota.inflight \in Nat
    BY <1>2, LimitFields DEF Unused
  <2>2. Cardinality(LeasesOf(t)) = 0
    BY <1>5, FS_EmptySet
  <2>3. QED
    BY <1>1, <1>2, <2>1, <2>2, LeasesKept DEF InflightBounded
<1>9. QED
  BY <1>4, <1>6, <1>7, <1>8

\* The manager starts without tenants or handles.
LEMMA InitInv == Init => Inv
BY DEF Init, Inv, NoEntries, TypeOK, IsMap, ReservedExact, QuotaRespected, InflightBounded

\* Every method keeps the invariant.
LEMMA NextInv == Inv /\ [Next]_vars => Inv'
<1> SUFFICES ASSUME Inv, [Next]_vars PROVE Inv'
  OBVIOUS
<1>1. ASSUME NEW t \in Tenants, NEW quota \in Quotas, SetQuota(t, quota) PROVE Inv'
  BY <1>1, ReplaceQuotaInv, AddTenantInv
<1>2. ASSUME NEW t \in Tenants, NEW l \in Leases, BeginRequest(t, l) PROVE Inv'
  BY <1>2, BeginRequestInv
<1>3. ASSUME NEW l \in Leases, EndRequest(l) PROVE Inv'
  BY <1>3, EndRequestInv
<1>4. ASSUME NEW t \in Tenants, NEW r \in Reservations, NEW size \in Sizes, ReserveStorage(t, r, size)
      PROVE  Inv'
  BY <1>4, ReserveStorageInv
<1>5. ASSUME NEW r \in Reservations, Commit(r) PROVE Inv'
  BY <1>5, CommitInv
<1>6. ASSUME NEW r \in Reservations, Rollback(r) PROVE Inv'
  BY <1>6, RollbackInv
<1>7. ASSUME NEW t \in Tenants, NEW size \in Sizes, ReleaseStorage(t, size) PROVE Inv'
  BY <1>7, ReleaseStorageInv
<1>8. CASE UNCHANGED vars
  <2>1. UNCHANGED tenants /\ UNCHANGED leases /\ UNCHANGED pending
    BY <1>8 DEF vars
  <2>2. TypeOK' /\ QuotaRespected'
    BY <2>1 DEF Inv, TypeOK, QuotaRespected
  <2>3. ReservedExact'
    BY <2>1, TotalUnchanged DEF Inv, ReservedExact
  <2>4. InflightBounded'
    BY <2>1, LeasesKept DEF Inv, InflightBounded
  <2>5. QED
    BY <2>2, <2>3, <2>4 DEF Inv
<1>9. QED
  BY <1>1, <1>2, <1>3, <1>4, <1>5, <1>6, <1>7, <1>8 DEF Next

\* The quota tables, the leases and the reservations keep the shape of the Rust state.
THEOREM QuotaTypeCorrect == Spec => []TypeOK
<1>1. Inv => TypeOK
  BY DEF Inv
<1>2. QED
  BY <1>1, InitInv, NextInv, PTL DEF Spec

\* No sequence of reservations, commits, rollbacks, releases and quota changes
\* takes what a tenant stores and has reserved over its quota.
THEOREM QuotaHolds == Spec => []QuotaRespected
<1>1. Inv => QuotaRespected
  BY DEF Inv
<1>2. QED
  BY <1>1, InitInv, NextInv, PTL DEF Spec

\* The reserved counters are the sums of the live reservations, for good.
THEOREM ReservationsExact == Spec => []ReservedExact
<1>1. Inv => ReservedExact
  BY DEF Inv
<1>2. QED
  BY <1>1, InitInv, NextInv, PTL DEF Spec

\* inflight counts the live leases and respects max_inflight.
THEOREM InflightHolds == Spec => []InflightBounded
<1>1. Inv => InflightBounded
  BY DEF Inv
<1>2. QED
  BY <1>1, InitInv, NextInv, PTL DEF Spec

\* QuotaManager enforces its quotas and its counters are those of the live leases and
\* reservations.
THEOREM QuotaIsSafe == Spec => []QuotaSafe
<1>1. TypeOK /\ ReservedExact /\ QuotaRespected /\ InflightBounded => QuotaSafe
  BY DEF QuotaSafe
<1>2. QED
  BY <1>1, QuotaTypeCorrect, ReservationsExact, QuotaHolds, InflightHolds, PTL

=============================================================================
