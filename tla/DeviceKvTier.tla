----------------------------- MODULE DeviceKvTier -----------------------------
(***************************************************************************)
(* DeviceKvTier over a DeviceMemory.  The tier's lock covers its map only: *)
(* buffers are allocated, filled, read and freed outside it, so a get may  *)
(* download from a buffer that a put, remove or clear has freed meanwhile. *)
(*                                                                         *)
(* HostDeviceMemory never gives out a handle twice (fetch_add); behind     *)
(* FfiDeviceMemory an accelerator may.                                     *)
(***************************************************************************)
EXTENDS Bytes

CONSTANTS
    Keys,
    Values,      \* the bytes of a block with its expiry and pin
    Threads,
    Handles,     \* bound: handles 1..MaxHandle of DeviceBuffer
    HandleReuse, \* FfiDeviceMemory: a freed handle may be allocated again
    MaxErrors    \* bound: failing callbacks of FfiDeviceMemory

DeviceAssumption ==
    /\ Handles = 1..Cardinality(Handles) /\ HandleReuse \in BOOLEAN /\ MaxErrors \in Nat

NoHandle == 0

VARIABLES
    buffers,   \* what each allocated buffer holds
    next,      \* HostDeviceMemory::next
    entries,   \* DeviceKvTier::entries: buffer handle and value of each key
    calls,     \* what each thread is doing
    lost,      \* history: buffers whose free failed
    errors,    \* bound: failed callbacks so far
    alive      \* the tier has not been dropped

vars == <<buffers, next, entries, calls, lost, errors, alive>>

Blocks == Keys \X Values
Zeros == <<"", "zeros">>
NoBlock == <<"", "none">>

\* A call about the buffer h of a key, which owns the buffers of `owned`.
Call(pc, k, v, h, owned) ==
    [pc |-> pc, key |-> k, val |-> v, handle |-> h, owned |-> owned, got |-> NoBlock]
Idle == Call("idle", "", "", NoHandle, {})
Done == Call("done", "", "", NoHandle, {})

Init ==
    /\ buffers = NoEntries /\ next = 1 /\ entries = NoEntries
    /\ calls = [t \in Threads |-> Idle]
    /\ lost = {} /\ errors = 0 /\ alive = TRUE

Fails == errors < MaxErrors /\ errors' = errors + 1
Becomes(t, c) == calls' = [calls EXCEPT ![t] = c]

\* Threads with nothing under way, or done and answered, may call again.
Ready(t) == alive /\ calls[t].pc \in {"idle", "done"}

-----------------------------------------------------------------------------
(* get: the entry is copied under the lock, the bytes are read after it.   *)

Lookup(t, k) ==
    /\ Ready(t)
    /\ Becomes(t, IF k \in DOMAIN entries
                  THEN Call("download", k, entries[k].val, entries[k].handle, {})
                  ELSE Done)
    /\ UNCHANGED <<buffers, next, entries, lost, errors, alive>>

\* HostDeviceMemory answers NotFound for a freed handle; what an accelerator
\* answers is not known.
Download(t) ==
    /\ calls[t].pc = "download"
    /\ Becomes(t, [calls[t] EXCEPT !.pc = "done",
         !.got = IF calls[t].handle \in DOMAIN buffers THEN buffers[calls[t].handle] ELSE NoBlock])
    /\ UNCHANGED <<buffers, next, entries, lost, errors, alive>>

DownloadFails(t) ==
    /\ calls[t].pc = "download" /\ Fails
    /\ Becomes(t, [calls[t] EXCEPT !.pc = "done"])
    /\ UNCHANGED <<buffers, next, entries, lost, alive>>

-----------------------------------------------------------------------------
(* put.                                                                    *)

\* The handles an allocation may return.
FreshHandle == IF HandleReuse THEN Handles \ DOMAIN buffers ELSE Handles \cap {next}

Allocate(t, k, v) ==
    /\ Ready(t)
    /\ \E h \in FreshHandle :
         /\ buffers' = With(buffers, h, Zeros)
         /\ Becomes(t, Call("upload", k, v, h, {h}))
    /\ next' = IF HandleReuse THEN next ELSE next + 1
    /\ UNCHANGED <<entries, lost, errors, alive>>

AllocateFails(t) ==
    /\ Ready(t) /\ Fails
    /\ Becomes(t, Done)
    /\ UNCHANGED <<buffers, next, entries, lost, alive>>

Upload(t) ==
    /\ calls[t].pc = "upload"
    /\ buffers' = [buffers EXCEPT ![calls[t].handle] = <<calls[t].key, calls[t].val>>]
    /\ Becomes(t, [calls[t] EXCEPT !.pc = "insert"])
    /\ UNCHANGED <<next, entries, lost, errors, alive>>

\* Mutant: the error is returned at once.
UploadFailsLeaks(t) ==
    /\ calls[t].pc = "upload" /\ Fails
    /\ Becomes(t, Done)
    /\ UNCHANGED <<buffers, next, entries, lost, alive>>

UploadFails(t) ==
    /\ calls[t].pc = "upload" /\ Fails
    /\ Becomes(t, [calls[t] EXCEPT !.pc = "free"])
    /\ UNCHANGED <<buffers, next, entries, lost, alive>>

HandleAt(k) == IF k \in DOMAIN entries THEN {entries[k].handle} ELSE {}

\* The buffer is the map's from here; the one it replaces is the thread's to free.
Insert(t) ==
    /\ calls[t].pc = "insert"
    /\ entries' = With(entries, calls[t].key, [handle |-> calls[t].handle, val |-> calls[t].val])
    /\ Becomes(t, [calls[t] EXCEPT !.pc = "free", !.owned = HandleAt(calls[t].key)])
    /\ UNCHANGED <<buffers, next, lost, errors, alive>>

-----------------------------------------------------------------------------
(* remove, clear and drop.                                                 *)

Remove(t, k) ==
    /\ Ready(t)
    /\ entries' = Without(entries, {k})
    /\ Becomes(t, Call("free", "", "", NoHandle, HandleAt(k)))
    /\ UNCHANGED <<buffers, next, lost, errors, alive>>

Clear(t) ==
    /\ Ready(t)
    /\ entries' = NoEntries
    /\ Becomes(t, Call("free", "", "", NoHandle, {entries[k].handle : k \in DOMAIN entries}))
    /\ UNCHANGED <<buffers, next, lost, errors, alive>>

FreeBuffer(t) ==
    /\ calls[t].pc = "free"
    /\ \E h \in calls[t].owned :
         /\ buffers' = Without(buffers, {h})
         /\ Becomes(t, [calls[t] EXCEPT !.owned = @ \ {h}])
    /\ UNCHANGED <<next, entries, lost, errors, alive>>

\* A failed free is reported, or dropped, and nobody holds the handle any more;
\* clear goes on with the next buffer.
FreeFails(t) ==
    /\ calls[t].pc = "free" /\ Fails
    /\ \E h \in calls[t].owned :
         /\ lost' = lost \cup {h}
         /\ Becomes(t, [calls[t] EXCEPT !.owned = @ \ {h}])
    /\ UNCHANGED <<buffers, next, entries, alive>>

Freed(t) ==
    /\ calls[t].pc = "free" /\ calls[t].owned = {}
    /\ Becomes(t, Done)
    /\ UNCHANGED <<buffers, next, entries, lost, errors, alive>>

\* Drop for DeviceKvTier takes &mut self: no call is under way.
Drop ==
    /\ \A t \in Threads : Ready(t)
    /\ LET owned == {entries[k].handle : k \in DOMAIN entries}
       IN  \E failed \in SUBSET owned :
             /\ Cardinality(failed) <= MaxErrors - errors
             /\ errors' = errors + Cardinality(failed)
             /\ buffers' = Without(buffers, owned \ failed)
             /\ lost' = lost \cup failed
    /\ entries' = NoEntries /\ alive' = FALSE
    /\ UNCHANGED <<next, calls>>

Next ==
    \/ \E t \in Threads, k \in Keys, v \in Values : Allocate(t, k, v)
    \/ \E t \in Threads, k \in Keys : Lookup(t, k) \/ Remove(t, k)
    \/ \E t \in Threads :
         \/ Download(t) \/ DownloadFails(t) \/ AllocateFails(t) \/ Upload(t) \/ UploadFails(t)
         \/ Insert(t) \/ Clear(t) \/ FreeBuffer(t) \/ FreeFails(t) \/ Freed(t)
    \/ Drop

Spec == Init /\ [][Next]_vars

-----------------------------------------------------------------------------
\* Every variable has the shape of the state it stands for.
TypeOK ==
    /\ IsMap(buffers, Handles, Blocks \cup {Zeros})
    /\ IsMap(entries, Keys, [handle : Handles, val : Values])
    /\ \A t \in Threads :
         /\ calls[t].pc \in {"idle", "download", "upload", "insert", "free", "done"}
         /\ calls[t].owned \subseteq Handles
         /\ calls[t].got \in Blocks \cup {Zeros, NoBlock}
    /\ lost \subseteq Handles /\ alive \in BOOLEAN

Owners(h) == {t \in Threads : h \in calls[t].owned} \cup {k \in DOMAIN entries : entries[k].handle = h}

\* Every allocated buffer has one owner: an entry of the map or the call that made
\* it or is to free it.  So none is freed twice, and none is leaked unless its own
\* free failed.
BuffersOwned ==
    /\ \A h \in DOMAIN buffers \ lost : Cardinality(Owners(h)) = 1
    /\ \A h \in Handles \ DOMAIN buffers : Owners(h) = {}

\* An entry of the map names a live buffer that holds that key's bytes.
EntriesFilled ==
    \A k \in DOMAIN entries :
        /\ entries[k].handle \in DOMAIN buffers
        /\ buffers[entries[k].handle] = <<k, entries[k].val>>

\* A get answers with the bytes of the entry it looked up or with an error, however
\* its download interleaves with put, remove and clear: the expiry and the pin it
\* returns belong to the bytes.
ReadsOwnBlock ==
    \A t \in Threads : calls[t].got # NoBlock => calls[t].got = <<calls[t].key, calls[t].val>>

\* "The caller must guarantee ... that returned handles remain valid until `free`
\* succeeds": no download is under way on a handle that has been freed.
ValidWhenUsed ==
    \A t \in Threads : calls[t].pc = "download" => calls[t].handle \in DOMAIN buffers

\* Once the tier is dropped its buffers are gone, but for those whose free failed.
DropReleases == ~alive => DOMAIN buffers \subseteq lost

\* No buffer is leaked, freed twice or handed to two owners, and every entry names the
\* buffer that holds its bytes.
Safety == TypeOK /\ BuffersOwned /\ EntriesFilled /\ DropReleases

=============================================================================
