--------------------------- MODULE MCMemory ---------------------------
(***************************************************************************)
(* Host and device memory: PinnedMemoryPool, DeviceKvTier over the memory  *)
(* of the host and over one whose handles come back, and HipDeviceMemory.  A*)
(* behaviour belongs to one of them, `part`; the others keep their initial *)
(* state.                                                                  *)
(***************************************************************************)
EXTENDS PinnedMemoryPool, TLC

CONSTANTS
    Keys, Threads, Handles,       \* DeviceKvTier
    HostValues, FfiValues,        \* the blocks put over each of the two memories
    MaxFfiErrors,                 \* bound: failing callbacks of FfiDeviceMemory
    Callers, Addresses,           \* HipDeviceMemory
    BufferSizes,                  \* what its callers allocate
    BufferRanges,                 \* and the <<offset, bytes>> they copy and transfer
    MaxAllocs, MaxNativeErrors    \* bounds: allocations and failing native calls

\* Up to the end of a large buffer, from its start and from its middle.
MCRanges == {<<0, 2>>, <<1, 1>>}

VARIABLES
    part,   \* which component the behaviour is about
    devBuffers, devNext, devEntries, devCalls, devLost, devErrors, devAlive,
    hipLive, hipRegistry, hipKnown, hipHeld, hipCalls, hipFilereg, hipBufreg, hipSerial,
    hipErrors, hipLost, hipDropped, hipDoubled

devVars == <<devBuffers, devNext, devEntries, devCalls, devLost, devErrors, devAlive>>
hipVars == <<hipLive, hipRegistry, hipKnown, hipHeld, hipCalls, hipFilereg, hipBufreg,
             hipSerial, hipErrors, hipLost, hipDropped, hipDoubled>>

Device(Values, HandleReuse, MaxErrors) == INSTANCE DeviceKvTier WITH
    buffers <- devBuffers, next <- devNext, entries <- devEntries, calls <- devCalls,
    lost <- devLost, errors <- devErrors, alive <- devAlive

\* Callers share their buffers, and addresses come back.
Hip == INSTANCE HipDeviceMemory WITH
    Sizes <- BufferSizes, Ranges <- BufferRanges, MaxErrors <- MaxNativeErrors,
    live <- hipLive, registry <- hipRegistry, known <- hipKnown, held <- hipHeld,
    calls <- hipCalls, filereg <- hipFilereg, bufreg <- hipBufreg, serial <- hipSerial,
    errors <- hipErrors, lost <- hipLost, dropped <- hipDropped, doubled <- hipDoubled

ASSUME MCAssumption ==
    /\ Device(HostValues, FALSE, 0)!DeviceAssumption
    /\ Device(FfiValues, TRUE, MaxFfiErrors)!DeviceAssumption
    /\ Hip!HipAssumption

-----------------------------------------------------------------------------
MCInit ==
    /\ part \in {"pool", "device", "device ffi", "hip"}
    /\ Init
    /\ IF part = "device ffi" THEN Device(FfiValues, TRUE, MaxFfiErrors)!Init
                              ELSE Device(HostValues, FALSE, 0)!Init
    /\ Hip!Init

\* The components other than p stay where they are.
Still(p) ==
    /\ UNCHANGED part
    /\ IF p = "pool" THEN TRUE ELSE UNCHANGED vars
    /\ IF p \in {"device", "device ffi"} THEN TRUE ELSE UNCHANGED devVars
    /\ IF p = "hip" THEN TRUE ELSE UNCHANGED hipVars

MCNext ==
    \/ part = "pool" /\ Next /\ Still("pool")
    \* HostDeviceMemory never gives a handle out again.
    \/ part = "device" /\ Device(HostValues, FALSE, 0)!Next /\ Still("device")
    \* FfiDeviceMemory does, and its calls fail.
    \/ part = "device ffi" /\ Device(FfiValues, TRUE, MaxFfiErrors)!Next /\ Still("device ffi")
    \/ part = "hip" /\ Hip!Next /\ Still("hip")

mcVars == <<part, vars, devVars, hipVars>>

MCSpec == MCInit /\ [][MCNext]_mcVars

-----------------------------------------------------------------------------
Alike == Permutations(Leases) \cup Permutations(Regions)

\* DeviceKvTier's buffers have one owner each through failing callbacks, removals and
\* the drop, every entry names the buffer with its bytes, and where no handle comes back
\* a get answers with the entry it looked up, however put, remove and clear interleave.
DeviceKvTierSafe ==
    /\ part = "device" => /\ Device(HostValues, FALSE, 0)!Safety
                         /\ Device(HostValues, FALSE, 0)!ReadsOwnBlock
    /\ part = "device ffi" => Device(FfiValues, TRUE, MaxFfiErrors)!Safety

\* HipDeviceMemory makes native calls only inside live memory except where a free of the
\* same handle, or the drop, comes between their validation and them, it loses no
\* allocation as long as no two frees of one handle overlap, and hipFile registrations
\* end with the call that made them.
HipMemorySafe == Hip!Safety

=============================================================================
