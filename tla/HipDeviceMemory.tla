--------------------------- MODULE HipDeviceMemory ---------------------------
(***************************************************************************)
(* HipDeviceMemory and HipDirectIo.  A registry of allocations, shared by  *)
(* both, is consulted under its lock before a native call that is made     *)
(* without it.  free calls hipFree before it removes the registry entry,   *)
(* so the runtime may hand the address out again while the entry is still  *)
(* there, and allocate then takes its own allocation back.  A DeviceBuffer *)
(* is a copyable handle: any caller may pass any one that was ever given   *)
(* out, while others use or free it and after it was freed.                *)
(*                                                                         *)
(* hipMalloc, hipMemcpy and health failing change nothing and are left out.*)
(***************************************************************************)
EXTENDS Bytes, Sequences, SequencesExt

CONSTANTS
    Callers,
    Addresses,     \* device addresses, none of them null
    Sizes,         \* of what is allocated
    Ranges,        \* <<offset, bytes>> of the copies and file transfers
    MaxAllocs,     \* bound: allocations of the runtime
    MaxErrors      \* bound: failing native calls

HipAssumption ==
    /\ IsFiniteSet(Addresses) /\ Sizes \subseteq Nat \ {0}
    /\ Ranges \subseteq Nat \X (Nat \ {0})
    /\ MaxAllocs \in Nat /\ MaxErrors \in Nat

VARIABLES
    live,       \* the runtime's allocations: length and serial number by address
    registry,   \* allocations: length by address
    known,      \* every buffer allocate has given out
    held,       \* history: those whose handle no free has freed since
    calls,      \* where each caller is
    filereg,    \* callers whose file is registered with hipFile
    bufreg,     \* callers whose buffer is registered with hipFile
    serial,     \* bound and history: allocations so far
    errors,     \* bound: failed native calls so far
    lost,       \* history: serials that only a failed hipFree keeps alive
    dropped,    \* HipDeviceMemory is gone; HipDirectIo may outlive it
    doubled     \* history: two frees of one handle have overlapped

vars == <<live, registry, known, held, calls, filereg, bufreg, serial, errors, lost, dropped,
          doubled>>
mem == <<live, registry, known, held, serial, lost, dropped, doubled>>
hipfile == <<filereg, bufreg>>

\* A DeviceBuffer, with the serial number of the allocation it was made for.
Buffer(h, n, s) == [handle |-> h, len |-> n, serial |-> s]

\* Part of a buffer that a native call is to touch.
Part(b, off, n) == [buf |-> b, off |-> off, bytes |-> n]
Whole(b) == Part(b, 0, b.len)

\* raced is history: handles that were being freed after the call was validated for them.
Call(op, pc, parts, raced) ==
    [pc |-> pc, op |-> op, parts |-> parts, checked |-> 0, moved |-> "none", res |-> "none",
     raced |-> raced]
Idle == Call("none", "idle", <<>>, {})

\* A call returns; what it answers matters, after it, where it moved bytes of a file.
Answer(c, r) ==
    IF calls[c].op = "file" THEN [Idle EXCEPT !.op = "file", !.moved = calls[c].moved, !.res = r]
    ELSE Idle
Becomes(c, k) == calls' = [calls EXCEPT ![c] = k]
Fails == errors < MaxErrors /\ errors' = errors + 1

Init ==
    /\ live = NoEntries /\ registry = NoEntries
    /\ known = {} /\ held = {} /\ calls = [c \in Callers |-> Idle]
    /\ filereg = {} /\ bufreg = {}
    /\ serial = 0 /\ errors = 0 /\ lost = {} /\ dropped = FALSE /\ doubled = FALSE

Ready(c) == calls[c].pc = "idle"
Mine(c) == calls[c].parts[1].buf

\* Handles that a call has held against the registry.
Checked(k) == {k.parts[i].buf.handle :
                 i \in {j \in DOMAIN k.parts : k.pc = "validate" => j <= k.checked}}

\* Handles that are freed, and whose entry is not removed yet; and those about to be freed.
Leaving == {Mine(c).handle : c \in {d \in Callers : calls[d].pc = "unregister"}}
Freeing == {Mine(c).handle : c \in {d \in Callers : calls[d].pc \in {"hipfree", "unregister"}}}

-----------------------------------------------------------------------------
(* allocate.                                                               *)

HipMalloc(c, n) ==
    /\ Ready(c) /\ ~dropped /\ serial < MaxAllocs
    /\ serial' = serial + 1
    /\ \E a \in Addresses \ DOMAIN live :
         /\ live' = With(live, a, [len |-> n, serial |-> serial + 1])
         /\ Becomes(c, Call("allocate", "insert", <<Whole(Buffer(a, n, serial + 1))>>, {}))
    /\ UNCHANGED <<registry, known, held, filereg, bufreg, errors, lost, dropped, doubled>>

\* An address the registry still has is one that a free is about to remove.
Insert(c) ==
    /\ calls[c].pc = "insert"
    /\ registry' = With(registry, Mine(c).handle, Mine(c).len)
    /\ IF Mine(c).handle \in DOMAIN registry
       THEN Becomes(c, [calls[c] EXCEPT !.pc = "undo"]) /\ UNCHANGED <<known, held>>
       ELSE /\ Becomes(c, Answer(c, "ok"))
            /\ known' = known \cup {Mine(c)} /\ held' = held \cup {Mine(c)}
    /\ UNCHANGED <<live, filereg, bufreg, serial, errors, lost, dropped, doubled>>

\* The result of this hipFree is ignored.
Undo(c) ==
    /\ calls[c].pc = "undo"
    /\ \/ live' = Without(live, {Mine(c).handle}) /\ UNCHANGED <<lost, errors>>
       \/ Fails /\ lost' = lost \cup {Mine(c).serial} /\ live' = live
    /\ Becomes(c, Answer(c, "error"))
    /\ UNCHANGED <<registry, known, held, filereg, bufreg, serial, dropped, doubled>>

-----------------------------------------------------------------------------
(* upload, download and free: validate_buffer, then the native call.       *)

Validated(b) == b.handle \in DOMAIN registry /\ registry[b.handle] = b.len

\* upload and download alike: a hipMemcpy of the whole buffer.
Transfer(c, b) ==
    /\ Ready(c) /\ ~dropped /\ b \in known
    /\ Becomes(c, IF Validated(b)
                  THEN Call("transfer", "memcpy", <<Whole(b)>>, Leaving \cap {b.handle}) ELSE Idle)
    /\ UNCHANGED <<mem, hipfile, errors>>

Free(c, b) ==
    /\ Ready(c) /\ ~dropped /\ b \in known
    /\ Becomes(c, IF Validated(b) THEN Call("free", "hipfree", <<Whole(b)>>, {}) ELSE Idle)
    /\ doubled' = (doubled \/ (Validated(b) /\ b.handle \in Freeing))
    /\ UNCHANGED <<live, registry, known, held, serial, lost, dropped, hipfile, errors>>

HipMemcpy(c) ==
    /\ calls[c].pc = "memcpy"
    /\ Becomes(c, Answer(c, "ok"))
    /\ UNCHANGED <<mem, hipfile, errors>>

\* Memory is freed under whoever was validated to use it.
HipFree(c) ==
    /\ calls[c].pc = "hipfree"
    /\ LET h == Mine(c).handle
       IN  /\ live' = Without(live, {h})
           /\ held' = {b \in held : b.handle # h}
           /\ calls' = [d \in Callers |->
                          IF d = c THEN [calls[c] EXCEPT !.pc = "unregister"]
                          ELSE [calls[d] EXCEPT !.raced = @ \cup (Checked(calls[d]) \cap {h})]]
    /\ UNCHANGED <<registry, known, filereg, bufreg, serial, errors, lost, dropped, doubled>>

\* The entry stays, for another attempt or for the drop.
HipFreeFails(c) ==
    /\ calls[c].pc = "hipfree" /\ Fails
    /\ Becomes(c, Answer(c, "error"))
    /\ UNCHANGED <<mem, hipfile>>

Unregister(c) ==
    /\ calls[c].pc = "unregister"
    /\ registry' = Without(registry, {Mine(c).handle})
    /\ Becomes(c, Answer(c, "ok"))
    /\ UNCHANGED <<live, known, held, filereg, bufreg, serial, errors, lost, dropped, doubled>>

\* drop takes &mut self, so no call of the memory itself is under way; those of a
\* HipDirectIo may be.
Drop ==
    /\ ~dropped
    /\ \A c \in Callers : Ready(c) \/ calls[c].op \in {"copy", "file"}
    /\ \E refused \in SUBSET DOMAIN registry :
         /\ Cardinality(refused) <= MaxErrors - errors
         /\ errors' = errors + Cardinality(refused)
         /\ lost' = lost \cup {live[a].serial : a \in refused \cap DOMAIN live}
         /\ live' = Without(live, DOMAIN registry \ refused)
    /\ calls' = [c \in Callers |-> [calls[c] EXCEPT !.raced = @ \cup Checked(calls[c])]]
    /\ registry' = NoEntries /\ held' = {} /\ dropped' = TRUE
    /\ UNCHANGED <<known, filereg, bufreg, serial, doubled>>

-----------------------------------------------------------------------------
(* HipDirectIo: each range is validated under the lock by itself.          *)

\* GpuDirectTransferProvider::transfer makes up buffers that end with the range.
Claims(b, off, n) == {[b EXCEPT !.len = off + n], b}

CopyDeviceRange(c, src, dst, soff, doff, n) ==
    /\ Ready(c) /\ src \in known /\ dst \in known
    /\ \E s \in Claims(src, soff, n), d \in Claims(dst, doff, n) :
         Becomes(c, Call("copy", "validate", <<Part(s, soff, n), Part(d, doff, n)>>, {}))
    /\ UNCHANGED <<mem, hipfile, errors>>

\* read_file and write_file.
FileTransfer(c, b, off, n) ==
    /\ Ready(c) /\ b \in known
    /\ Becomes(c, Call("file", "validate", <<Part(b, off, n)>>, {}))
    /\ UNCHANGED <<mem, hipfile, errors>>

\* Mutant: the range is held against what the caller says of the buffer.
InRangeClaimed(p) ==
    p.buf.handle \in DOMAIN registry /\ p.off + p.bytes <= p.buf.len

\* validate_range, against the registry's length.
InRange(p) ==
    /\ p.buf.handle \in DOMAIN registry
    /\ p.buf.len <= registry[p.buf.handle]
    /\ p.off + p.bytes <= registry[p.buf.handle]

ValidateRange(c) ==
    /\ calls[c].pc = "validate"
    /\ LET i == calls[c].checked + 1
           part == calls[c].parts[i]
           native == IF calls[c].op = "copy" THEN "memcpy" ELSE "regfile"
       IN  Becomes(c, IF ~InRange(part) THEN Answer(c, "error")
                      ELSE [calls[c] EXCEPT !.checked = i,
                                            !.raced = @ \cup (Leaving \cap {part.buf.handle}),
                                            !.pc = IF i = Len(calls[c].parts) THEN native ELSE @])
    /\ UNCHANGED <<mem, hipfile, errors>>

-----------------------------------------------------------------------------
(* hipFile: the file is registered around the buffer, the buffer around    *)
(* the transfer.                                                           *)

\* Opening the file and hipFileHandleRegister.
RegisterFile(c) ==
    /\ calls[c].pc = "regfile"
    /\ \/ /\ filereg' = filereg \cup {c} /\ errors' = errors
          /\ Becomes(c, [calls[c] EXCEPT !.pc = "regbuf"])
       \/ Fails /\ filereg' = filereg /\ Becomes(c, Answer(c, "error"))
    /\ UNCHANGED <<mem, bufreg>>

RegisterBuffer(c) ==
    /\ calls[c].pc = "regbuf"
    /\ \/ /\ bufreg' = bufreg \cup {c} /\ errors' = errors
          /\ Becomes(c, [calls[c] EXCEPT !.pc = "move"])
       \/ Fails /\ bufreg' = bufreg /\ Becomes(c, [calls[c] EXCEPT !.pc = "deregfile", !.res = "error"])
    /\ UNCHANGED <<mem, filereg>>

\* check_transfer: fewer bytes than asked for are an error.
CheckTransfer(moved) == IF moved = "all" THEN "ok" ELSE "error"

Move(c) ==
    /\ calls[c].pc = "move"
    /\ \E moved \in {"all", "some", "none"} :
         /\ IF moved = "all" THEN errors' = errors ELSE Fails
         /\ Becomes(c, [calls[c] EXCEPT !.pc = "deregbuf", !.moved = moved, !.res = CheckTransfer(moved)])
    /\ UNCHANGED <<mem, hipfile>>

\* An error here is the call's unless the transfer had one.
DeregisterBuffer(c) ==
    /\ calls[c].pc = "deregbuf"
    /\ \/ /\ bufreg' = bufreg \ {c} /\ errors' = errors
          /\ Becomes(c, [calls[c] EXCEPT !.pc = "deregfile"])
       \/ /\ Fails /\ bufreg' = bufreg
          /\ Becomes(c, [calls[c] EXCEPT !.pc = "deregfile", !.res = "error"])
    /\ UNCHANGED <<mem, filereg>>

DeregisterFile(c) ==
    /\ calls[c].pc = "deregfile"
    /\ filereg' = filereg \ {c}
    /\ Becomes(c, Answer(c, calls[c].res))
    /\ UNCHANGED <<mem, bufreg, errors>>

-----------------------------------------------------------------------------
Next ==
    \/ \E c \in Callers :
         \/ \E n \in Sizes : HipMalloc(c, n)
         \/ Insert(c) \/ Undo(c)
         \/ HipMemcpy(c) \/ HipFree(c) \/ HipFreeFails(c) \/ Unregister(c)
         \/ ValidateRange(c)
         \/ RegisterFile(c) \/ RegisterBuffer(c) \/ Move(c) \/ DeregisterBuffer(c) \/ DeregisterFile(c)
    \/ \E c \in Callers : \E b \in known :
         \/ Transfer(c, b) \/ Free(c, b)
         \/ \E range \in Ranges : FileTransfer(c, b, range[1], range[2])
         \/ \E d \in known, from \in Ranges, to \in Ranges :
              from[2] = to[2] /\ CopyDeviceRange(c, b, d, from[1], to[1], to[2])
    \/ Drop

Spec == Init /\ [][Next]_vars

-----------------------------------------------------------------------------
\* Every variable has the shape of the state it stands for.
TypeOK ==
    /\ IsMap(live, Addresses, [len : Sizes, serial : 1..MaxAllocs])
    /\ IsMap(registry, Addresses, Sizes)
    /\ \A c \in Callers :
         /\ calls[c].res \in {"none", "ok", "error"}
         /\ calls[c].moved \in {"all", "some", "none"}
    /\ \A b \in known : b.handle \in Addresses /\ b.len \in Sizes /\ b.serial \in 1..MaxAllocs
    /\ held \subseteq known
    /\ filereg \subseteq Callers /\ bufreg \subseteq Callers

Native == {"memcpy", "hipfree", "regbuf", "move", "deregbuf"}

\* "registry validation proves ... live": a native call is made inside live memory, unless
\* a free of the same handle, or the drop, was freeing it after the validation.
LiveWhenUsed ==
    \A c \in Callers : calls[c].pc \in Native =>
        \A p \in ToSet(calls[c].parts) : p.buf.handle \notin calls[c].raced =>
            p.buf.handle \in DOMAIN live /\ p.off + p.bytes <= live[p.buf.handle].len

\* A buffer whose handle nobody has freed is that of its own allocation and registered
\* with its length, although another free may be removing an entry of the same address.
OwnersRegistered ==
    \A b \in held : /\ Validated(b)
                    /\ b.handle \in DOMAIN live /\ live[b.handle].serial = b.serial

\* Every allocation of the runtime is registered, or an allocate is about to
\* register it or to take it back: the drop finds all that is left, and after it
\* only what hipFree refused to free is still allocated.
NothingForgotten ==
    \A a \in DOMAIN live :
        \/ a \in DOMAIN registry
        \/ live[a].serial \in lost
        \/ \E c \in Callers : calls[c].pc \in {"insert", "undo"} /\ Mine(c).handle = a

\* Whatever fails between them, a call gives up its hipFile registrations before it
\* returns; only a buffer whose deregistration itself failed stays registered.
RegistrationsReturned ==
    \A c \in Callers : Ready(c) =>
        /\ c \notin filereg
        /\ c \in bufreg => errors > 0 /\ ~(calls[c].op = "file" /\ calls[c].res = "ok")

\* A file transfer reports success only when all its bytes moved.
OkMeansMoved ==
    \A c \in Callers :
        (Ready(c) /\ calls[c].op = "file" /\ calls[c].res = "ok") => calls[c].moved = "all"

\* Whichever buffers are used, freed and dropped meanwhile, native calls are made inside
\* live memory except where the free is what they race, and no allocation is lost - as
\* long as no two frees of one handle overlap -; and nothing that was registered with
\* hipFile is forgotten.
Safety ==
    /\ TypeOK /\ RegistrationsReturned /\ OkMeansMoved
    /\ ~doubled => LiveWhenUsed /\ OwnersRegistered /\ NothingForgotten

=============================================================================
