---------------------------- MODULE RuntimeAdapter ----------------------------
(***************************************************************************)
(* The llama.cpp and vLLM adapters between a KvEngine and an inference     *)
(* runtime: capture_from reads the runtime's blocks with two host calls    *)
(* each while the runtime goes on generating, restore_into and a           *)
(* relocated restore write blocks one host call after the other.           *)
(***************************************************************************)
EXTENDS Integers, Sequences, FiniteSets

CONSTANTS
    Keys,         \* block keys: [model, token_start, token_count]
    CaptureKeys,  \* KvCaptureRequest::block_keys of the capture
    KeySeqs,      \* the sequences of keys callers restore
    Top,          \* u32::MAX
    MaxBlock,     \* max_block_bytes
    MaxVersions,  \* bound: contents the runtime generates
    MaxEvictions  \* bound: blocks the engine loses

AdapterAssumption ==
    /\ Top \in Nat /\ MaxBlock \in Nat \ {0}
    /\ \A k \in Keys : k.token_start \in 0..Top /\ k.token_count \in 1..Top
    /\ CaptureKeys \in Seq(Keys) \ {<<>>} /\ KeySeqs \subseteq Seq(Keys)

VARIABLES
    runtime,    \* position -> the content of the block that starts there
    engine,     \* key -> the bytes the engine holds
    call,       \* the call that is running
    wrote,      \* blocks the last call has written to the runtime
    produced,   \* history: the contents some runtime had
    evictions

vars == <<runtime, engine, call, wrote, produced, evictions>>

\* Contents: which computation produced the bytes, and how many they are.
Nothing == [version |-> 0, len |-> 0]
Full == [version |-> 1, len |-> MaxBlock]
OfOthers == [version : {MaxVersions + 1}, len : {MaxBlock, MaxBlock + 1}]
Contents == [version : 0..(MaxVersions + 1), len : 0..(MaxBlock + 1)]

Idle(result) == [pc |-> "idle", result |-> result]

Init ==
    /\ runtime = [p \in 0..Top |-> Full]
    /\ engine = [k \in Keys |-> Nothing]
    /\ call = Idle("none") /\ wrote = 0
    /\ produced = {Full} /\ evictions = 0

-----------------------------------------------------------------------------
(* The runtime and the engine's other users.                               *)

\* The runtime computes a block, or gives its place to another sequence.  No
\* generation runs while a restore writes.
Generate(p) ==
    /\ call.pc # "write"
    /\ Cardinality(produced \ OfOthers) < MaxVersions
    /\ \E len \in 0..(MaxBlock + 1) :
         LET content == [version |-> Cardinality(produced \ OfOthers) + 1, len |-> len]
         IN /\ runtime' = [runtime EXCEPT ![p] = content]
            /\ produced' = produced \cup {content}
    /\ UNCHANGED <<engine, call, wrote, evictions>>

\* Another adapter, perhaps with a larger limit, stores a block.
OtherStores(k) ==
    /\ produced \cap OfOthers = {}
    /\ \E block \in OfOthers :
         /\ engine' = [engine EXCEPT ![k] = block]
         /\ produced' = produced \cup {block}
    /\ UNCHANGED <<runtime, call, wrote, evictions>>

Evict(k) ==
    /\ engine[k] # Nothing /\ evictions < MaxEvictions
    /\ engine' = [engine EXCEPT ![k] = Nothing]
    /\ evictions' = evictions + 1
    /\ UNCHANGED <<runtime, call, wrote, produced>>

-----------------------------------------------------------------------------
(* capture_from.                                                           *)

Return(result) == call' = Idle(result)

Begin(c) == call.pc = "idle" /\ call' = c /\ wrote' = 0

CaptureFrom ==
    /\ Begin([pc |-> "size", keys |-> CaptureKeys, got |-> <<>>])
    /\ UNCHANGED <<runtime, engine, produced, evictions>>

CurrentKey == call.keys[Len(call.got) + 1]

\* read_slice, first host call: how many bytes are there.
ReadSize ==
    /\ call.pc = "size"
    /\ LET required == runtime[CurrentKey.token_start].len IN
         \/ /\ required \in 1..MaxBlock
            /\ call' = [pc |-> "read", keys |-> call.keys, got |-> call.got,
                        required |-> required]
         \/ Return("failed")
    /\ UNCHANGED <<runtime, engine, wrote, produced, evictions>>

\* Mutant: the buffer keeps the length it was allocated with.
ReceivedPadded(content, required) == [content EXCEPT !.len = required]

\* The buffer, cut to the bytes written.
Received(content, required) == content

\* Second host call.  The host refuses, by its status or by the length it
\* reports, what has outgrown the buffer meanwhile.
ReadSlice ==
    /\ call.pc = "read"
    /\ LET content == runtime[CurrentKey.token_start]
           got == Append(call.got, Received(content, call.required))
       IN \/ /\ content.len \in 1..call.required
             /\ call' = [pc |-> IF Len(got) = Len(call.keys) THEN "put" ELSE "size",
                         keys |-> call.keys, got |-> got]
          \/ Return("failed")
    /\ UNCHANGED <<runtime, engine, wrote, produced, evictions>>

\* The blocks enter the engine one by one; a put that fails ends the call.
PutBlock ==
    /\ call.pc = "put"
    /\ LET done == Len(call.keys) - Len(call.got)
           rest == Tail(call.got)
       IN \/ /\ engine' = [engine EXCEPT ![call.keys[done + 1]] = Head(call.got)]
             /\ call' = IF rest = <<>> THEN Idle("captured") ELSE [call EXCEPT !.got = rest]
          \/ Return("failed") /\ UNCHANGED engine
    /\ UNCHANGED <<runtime, wrote, produced, evictions>>

-----------------------------------------------------------------------------
(* restore_into, and restore_relocated as its callers in reuse.rs use it.  *)

\* restore is a relocation to where the blocks come from.
RestoreInto(keys, target) ==
    /\ keys \in KeySeqs /\ keys # <<>>
    /\ Begin([pc |-> "get", keys |-> keys, got |-> <<>>, target |-> target])
    /\ UNCHANGED <<runtime, engine, produced, evictions>>

\* validate_restore_blocks, whose checked_add refuses a range that ends at 2^32.
Contiguous(keys) ==
    /\ \A i \in 2..Len(keys) :
         /\ keys[i].model = keys[1].model
         /\ keys[i].token_start = keys[i - 1].token_start + keys[i - 1].token_count
    /\ \A i \in DOMAIN keys : keys[i].token_start + keys[i].token_count <= Top

\* Every block is there, and none has been written.
Loaded(got) ==
    IF Len(got) < Len(call.keys) THEN call' = [call EXCEPT !.got = got]
    ELSE IF Contiguous(call.keys) THEN call' = [call EXCEPT !.got = got, !.pc = "write"]
    ELSE Return("invalid")

\* KvEngine::get of the next key.
GetBlock ==
    /\ call.pc = "get"
    /\ LET block == engine[CurrentKey] IN
         \/ block # Nothing /\ Loaded(Append(call.got, block))
         \/ block = Nothing /\ Return("missing")
         \/ Return("failed")
    /\ UNCHANGED <<runtime, engine, wrote, produced, evictions>>

\* Where the i-th block goes.
Place(i) == call.target + (call.keys[i].token_start - call.keys[1].token_start)

\* write_slice of the next block: refused when too long or past u32::MAX, or
\* failed by the host; the blocks before it stay written.
WriteSlice ==
    /\ call.pc = "write"
    /\ LET i == wrote + 1
           block == call.got[i]
           place == Place(i)
       IN \/ /\ place <= Top /\ block.len <= MaxBlock
             /\ runtime' = [runtime EXCEPT ![place] = block]
             /\ wrote' = i
             /\ call' = IF i < Len(call.got) THEN call ELSE Idle("restored")
          \/ Return("failed") /\ UNCHANGED <<runtime, wrote>>
    /\ UNCHANGED <<engine, produced, evictions>>

-----------------------------------------------------------------------------
Next ==
    \/ \E p \in 0..Top : Generate(p)
    \/ \E k \in Keys : OtherStores(k) \/ Evict(k)
    \/ CaptureFrom \/ ReadSize \/ ReadSlice \/ PutBlock
    \/ \E keys \in KeySeqs, target \in 0..Top : RestoreInto(keys, target)
    \/ GetBlock \/ WriteSlice

Spec == Init /\ [][Next]_vars

-----------------------------------------------------------------------------
(* Properties.                                                             *)

\* Every variable has the shape of the Rust state it stands for; in particular
\* nothing is read beyond the blocks of a call.
TypeOK ==
    /\ runtime \in [0..Top -> Contents]
    /\ engine \in [Keys -> Contents]
    /\ call.pc \in {"idle", "size", "read", "put", "get", "write"}
    /\ call.pc \in {"size", "read", "get"} => Len(call.got) < Len(call.keys)
    /\ produced \subseteq Contents
    /\ evictions \in 0..MaxEvictions

\* A block in the engine is what a runtime held at one moment, whole and no
\* longer, whatever the runtime generated between the two host calls.
CapturedWhole == \A k \in Keys : engine[k] \in produced \cup {Nothing}

\* A call refused for a missing block, or for blocks that do not fit together, has
\* not touched the runtime.
RefusedUntouched ==
    (call.pc = "idle" /\ call.result \in {"missing", "invalid"}) => wrote = 0

\* Blocks are captured whole, and a refused restore has written nothing.
Safety == TypeOK /\ CapturedWhole /\ RefusedUntouched

\* The tokens of the blocks before the i-th.
Behind(keys, i) ==
    LET before[n \in 0..Len(keys)] == IF n = 0 THEN 0 ELSE before[n - 1] + keys[n].token_count
    IN before[i - 1]

\* A restore that succeeds leaves every block in the runtime, the first at the
\* target and each other directly behind the tokens of the one before: no gap, no
\* block on top of another, no place past u32::MAX.
RestoredInPlace ==
    [][(call.pc = "write" /\ call'.pc = "idle" /\ call'.result = "restored") =>
         \A i \in DOMAIN call.got :
            /\ call.target + Behind(call.keys, i) \in 0..Top
            /\ runtime'[call.target + Behind(call.keys, i)] = call.got[i]]_vars

=============================================================================
