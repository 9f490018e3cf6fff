---------------------------- MODULE QuotaManager ----------------------------
(***************************************************************************)
(* Tenant quotas: storage is reserved before it is written and committed   *)
(* or rolled back afterwards, requests hold a lease while they run.  Each  *)
(* method is one critical section of QuotaInner::tenants.  The handles     *)
(* (RequestLease, StorageReservation) outlive the call that made them and  *)
(* are given up by any thread at any time, so they are state.              *)
(*                                                                         *)
(* Bytes and entries are accounted alike and are the two dimensions Dims.  *)
(***************************************************************************)
EXTENDS Bytes

CONSTANTS
    Tenants,
    Quotas,      \* the TenantQuota values passed to set_quota
    Sizes,       \* the amounts reserved and released
    Leases,      \* bound: request leases alive at once
    Reservations,\* bound: storage reservations alive at once
    Top          \* u64::MAX

Dims == {"bytes", "entries"}

\* validate rejects zero limits; a limit of u64::MAX cannot be told from
\* a saturated sum, and is left out.
ASSUME QuotaAssumption ==
    /\ Top \in Nat
    /\ Quotas \subseteq [max : [Dims -> 1..(Top - 1)], inflight : 1..Top]
    /\ Sizes \subseteq [Dims -> 1..Top]
    /\ IsFiniteSet(Leases) /\ IsFiniteSet(Reservations)

VARIABLES
    tenants,     \* QuotaInner::tenants
    leases,      \* the tenant of each live RequestLease
    pending      \* the tenant and size of each StorageReservation still Pending

vars == <<tenants, leases, pending>>

TenantState ==
    [quota : Quotas, used : [Dims -> Nat], reserved : [Dims -> Nat], inflight : Nat]

Init == tenants = NoEntries /\ leases = NoEntries /\ pending = NoEntries

Sum(a, b) == SaturatingAdd(a, b, Top)

Unused(quota) ==
    [quota |-> quota, used |-> [d \in Dims |-> 0],
     reserved |-> [d \in Dims |-> 0], inflight |-> 0]

Covers(quota, s) ==
    /\ \A d \in Dims : Sum(s.used[d], s.reserved[d]) <= quota.max[d]
    /\ s.inflight <= quota.inflight

SetQuota(t, quota) ==
    /\ t \in DOMAIN tenants => Covers(quota, tenants[t])
    /\ tenants' = With(tenants, t,
         IF t \in DOMAIN tenants THEN [tenants[t] EXCEPT !.quota = quota] ELSE Unused(quota))
    /\ UNCHANGED <<leases, pending>>

BeginRequest(t, l) ==
    /\ t \in DOMAIN tenants /\ l \notin DOMAIN leases
    /\ tenants[t].inflight < tenants[t].quota.inflight
    /\ tenants' = [tenants EXCEPT ![t].inflight = @ + 1]
    /\ leases' = With(leases, l, t)
    /\ UNCHANGED pending

\* RequestLease::release or its drop, whichever comes first; the other does
\* nothing.
EndRequest(l) ==
    /\ l \in DOMAIN leases
    /\ tenants' = [tenants EXCEPT ![leases[l]].inflight = SaturatingSub(@, 1)]
    /\ leases' = Without(leases, {l})
    /\ UNCHANGED pending

Fits(s, size) ==
    \A d \in Dims : Sum(Sum(s.used[d], s.reserved[d]), size[d]) <= s.quota.max[d]

ReserveStorage(t, r, size) ==
    /\ t \in DOMAIN tenants /\ r \notin DOMAIN pending
    /\ Fits(tenants[t], size)
    /\ tenants' = [tenants EXCEPT ![t].reserved = [d \in Dims |-> Sum(@[d], size[d])]]
    /\ pending' = With(pending, r, [tenant |-> t, size |-> size])
    /\ UNCHANGED leases

\* StorageReservation::commit.
Commit(r) ==
    /\ r \in DOMAIN pending
    /\ LET t == pending[r].tenant
           size == pending[r].size
       IN  tenants' = [tenants EXCEPT
             ![t].reserved = [d \in Dims |-> SaturatingSub(@[d], size[d])],
             ![t].used = [d \in Dims |-> Sum(@[d], size[d])]]
    /\ pending' = Without(pending, {r})
    /\ UNCHANGED leases

\* Mutant: the rollback gives back the bytes only.
RollbackBytes(r) ==
    /\ r \in DOMAIN pending
    /\ tenants' = [tenants EXCEPT ![pending[r].tenant].reserved["bytes"] =
                     SaturatingSub(@, pending[r].size["bytes"])]
    /\ pending' = Without(pending, {r})
    /\ UNCHANGED leases

\* StorageReservation dropped while still Pending.
Rollback(r) ==
    /\ r \in DOMAIN pending
    /\ LET size == pending[r].size
       IN  tenants' = [tenants EXCEPT ![pending[r].tenant].reserved =
                         [d \in Dims |-> SaturatingSub(@[d], size[d])]]
    /\ pending' = Without(pending, {r})
    /\ UNCHANGED leases

\* release_storage believes its caller about the size.
ReleaseStorage(t, size) ==
    /\ t \in DOMAIN tenants
    /\ tenants' = [tenants EXCEPT ![t].used = [d \in Dims |-> SaturatingSub(@[d], size[d])]]
    /\ UNCHANGED <<leases, pending>>

Next ==
    \/ \E t \in Tenants, quota \in Quotas : SetQuota(t, quota)
    \/ \E t \in Tenants, l \in Leases : BeginRequest(t, l)
    \/ \E l \in Leases : EndRequest(l)
    \/ \E t \in Tenants, r \in Reservations, size \in Sizes : ReserveStorage(t, r, size)
    \/ \E r \in Reservations : Commit(r)
    \/ \E r \in Reservations : Rollback(r)
    \/ \E t \in Tenants, size \in Sizes : ReleaseStorage(t, size)

Spec == Init /\ [][Next]_vars

-----------------------------------------------------------------------------
\* Every map has the shape of the Rust state, and a live handle names a tenant
\* that exists.
TypeOK ==
    /\ IsMap(tenants, Tenants, TenantState)
    /\ IsMap(leases, Leases, DOMAIN tenants)
    /\ IsMap(pending, Reservations, [tenant : DOMAIN tenants, size : Sizes])

PendingOf(t) == {r \in DOMAIN pending : pending[r].tenant = t}
LeasesOf(t) == {l \in DOMAIN leases : leases[l] = t}
SizeIn(d) == [r \in DOMAIN pending |-> pending[r].size[d]]

\* reserved_bytes and reserved_entries are the sums of the live reservations:
\* none is forgotten, none given back twice, whatever order commits, rollbacks
\* and quota changes come in.
ReservedExact ==
    \A t \in DOMAIN tenants, d \in Dims :
        tenants[t].reserved[d] = Total(PendingOf(t), SizeIn(d))

\* What is stored and what is promised never exceed the quota together, so a
\* commit, which checks nothing, cannot overrun it.
QuotaRespected ==
    \A t \in DOMAIN tenants, d \in Dims :
        tenants[t].used[d] + tenants[t].reserved[d] <= tenants[t].quota.max[d]

\* inflight is the number of leases alive, and within max_inflight: no slot
\* leaks and none is freed twice.
InflightBounded ==
    \A t \in DOMAIN tenants :
        /\ tenants[t].inflight = Cardinality(LeasesOf(t))
        /\ tenants[t].inflight <= tenants[t].quota.inflight

\* Every promise is kept within the quota: reservations and leases are counted exactly,
\* and together with what is stored they stay below their limits.
QuotaSafe == TypeOK /\ ReservedExact /\ QuotaRespected /\ InflightBounded

=============================================================================
