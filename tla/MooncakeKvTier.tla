----------------------------- MODULE MooncakeKvTier -----------------------------
(***************************************************************************)
(* NativeSdkKvTier over MooncakeSdk: framed entries in a store that        *)
(* several processes share.  A process calls the SDK under one lock, but   *)
(* an operation is several calls, and another process' calls come between  *)
(* them.  The store and the loader are external.                           *)
(***************************************************************************)
EXTENDS Integers, Sequences, FiniteSets

CONSTANTS
    Clients,     \* processes, each with one tier
    Namespace,   \* client -> the characters of its namespace
    Blocks,      \* block keys
    Entries,     \* [bytes, expires_at, pinned]
    MaxValue     \* client -> max_value_bytes

VARIABLES
    handles,   \* client -> what it has opened: the library, the store
    objects,   \* the shared store: object key -> frame
    calls,     \* client -> the call it is in
    claims     \* object key -> the entry whose put was acknowledged and that nobody has touched since

vars == <<handles, objects, calls, claims>>

-----------------------------------------------------------------------------
(* Frames.  A header field counts as one byte, and the digest of a payload *)
(* is the payload.                                                         *)

Magic == "RIVSDK1"
Header == 5
Absent == <<>>

EncodeEntry(entry) ==
    <<Magic, entry.expires_at, IF entry.pinned THEN 1 ELSE 0, Len(entry.bytes), entry.bytes>> \o entry.bytes

Payload(frame) == SubSeq(frame, Header + 1, Len(frame))

FrameValid(frame, max) ==
    /\ Len(frame) >= Header /\ Len(frame) <= max /\ frame[1] = Magic
    /\ frame[3] \in {0, 1}
    /\ frame[4] # 0 /\ Len(frame) - Header = frame[4]

Failed == [error |-> "failed"]
Done == [done |-> TRUE]
Miss == [hit |-> FALSE]
Hit(frame) ==
    [hit |-> TRUE, entry |-> [bytes |-> Payload(frame), expires_at |-> frame[2], pinned |-> frame[3] = 1]]

DecodeEntry(frame, max) ==
    IF FrameValid(frame, max) THEN (IF frame[5] = Payload(frame) THEN Hit(frame) ELSE Failed) ELSE Failed

-----------------------------------------------------------------------------
(* Names.                                                                  *)

Prefix(client) == Namespace[client] \o <<":">>
ObjectKey(client, block) == Append(Prefix(client), block)
ObjectKeys == {ObjectKey(c, b) : c \in Clients, b \in Blocks}

\* Mutant: the characters of the prefix stand as they are.
RegexUnescaped(prefix) == [i \in DOMAIN prefix |-> [char |-> prefix[i], any |-> prefix[i] = "."]]

\* The pattern of regex_escape: every character stands for itself.
RegexEscape(prefix) == [i \in DOMAIN prefix |-> [char |-> prefix[i], any |-> FALSE]]

\* The keys that begin with a match of the pattern.
Matching(pattern) ==
    {key \in ObjectKeys :
        /\ Len(key) >= Len(pattern)
        /\ \A i \in DOMAIN pattern : pattern[i].any \/ pattern[i].char = key[i]}

-----------------------------------------------------------------------------
(* connect and drop.                                                       *)

Nothing == {}

Init ==
    /\ handles = [c \in Clients |-> [pc |-> "closed", open |-> Nothing]]
    /\ objects = [k \in ObjectKeys |-> Absent]
    /\ calls = [c \in Clients |-> [pc |-> "idle"]]
    /\ claims = [k \in ObjectKeys |-> Absent]

Becomes(c, pc, open) ==
    /\ handles' = [handles EXCEPT ![c] = [pc |-> pc, open |-> open]]
    /\ UNCHANGED <<objects, calls, claims>>

\* dlopen.
Open(c) == handles[c].pc = "closed" /\ Becomes(c, "opened", {"library"})

\* The symbols, then the store; without one of them the library is closed.
Create(c) ==
    /\ handles[c].pc = "opened"
    /\ Becomes(c, "created", {"library", "store"}) \/ Becomes(c, "closed", Nothing)

\* setup or init_all.
Initialize(c) ==
    /\ handles[c].pc = "created"
    /\ Becomes(c, "checked", handles[c].open) \/ Becomes(c, "closed", Nothing)

\* The health checks of MooncakeSdk::connect and NativeSdkKvTier::new; a value that
\* fails one is dropped.
Check(c) ==
    /\ handles[c].pc = "checked"
    /\ Becomes(c, "up", handles[c].open) \/ Becomes(c, "closed", Nothing)

\* Drop needs the last reference, so no call is under way.
Drop(c) == handles[c].pc = "up" /\ calls[c].pc = "idle" /\ Becomes(c, "closed", Nothing)

-----------------------------------------------------------------------------
(* The operations.                                                         *)

Writes(call) == call.pc # "idle" /\ call.op # "get"

\* The object keys that a call may change.
Touched(c, op, block) ==
    CASE op = "get" -> {}
      [] op = "clear" -> {k \in ObjectKeys : \E b \in Blocks : k = ObjectKey(c, b)}
      [] OTHER -> {ObjectKey(c, block)}

\* A call begins; the claims on what it may change are void, and so is the exclusiveness
\* of the calls that may change the same.
Begins(c, pc, op, block, entry) ==
    LET touched == Touched(c, op, block)
        rivals == {d \in Clients \ {c} : Writes(calls[d]) /\ calls[d].touched \cap touched # {}}
        call == [pc |-> pc, op |-> op, block |-> block, entry |-> entry, touched |-> touched,
                 alone |-> rivals = {}, before |-> Absent, out |-> Done]
    IN /\ handles[c].pc = "up" /\ calls[c].pc = "idle"
       /\ calls' = [d \in Clients |->
                      IF d = c THEN call
                      ELSE IF d \in rivals THEN [calls[d] EXCEPT !.alone = FALSE] ELSE calls[d]]
       /\ claims' = [k \in ObjectKeys |-> IF k \in touched THEN Absent ELSE claims[k]]
       /\ UNCHANGED <<handles, objects>>

Key(c) == ObjectKey(c, calls[c].block)

Goes(c, pc) == calls' = [calls EXCEPT ![c].pc = pc]
Ends(c, out) == calls' = [calls EXCEPT ![c].pc = "return", ![c].out = out]

Get(c, block) == Begins(c, "exists", "get", block, Absent)

\* Nothing is called for an empty or an oversized entry.
Put(c, block, entry) ==
    /\ entry.bytes # <<>> /\ Len(EncodeEntry(entry)) <= MaxValue[c]
    /\ Begins(c, "exists", "put", block, entry)

Remove(c, block) == Begins(c, "exists", "remove", block, Absent)
Clear(c) == Begins(c, "clear", "clear", CHOOSE b \in Blocks : TRUE, Absent)

\* is_exist, and what each operation makes of it; the SDK may report an error instead.
Exists(c) ==
    /\ calls[c].pc = "exists"
    /\ \/ Ends(c, Failed)
       \/ CASE calls[c].op = "put" -> Goes(c, IF objects[Key(c)] # Absent THEN "remove" ELSE "store")
            [] objects[Key(c)] = Absent -> Ends(c, IF calls[c].op = "get" THEN Miss ELSE Done)
            [] OTHER -> Goes(c, IF calls[c].op = "get" THEN "size" ELSE "remove")
    /\ UNCHANGED <<handles, objects, claims>>

\* get_size: an object that is gone or too large ends the call.
GetSize(c) ==
    LET frame == objects[Key(c)]
    IN /\ calls[c].pc = "size"
       /\ \/ Ends(c, Failed)
          \/ /\ frame # Absent /\ Len(frame) <= MaxValue[c]
             /\ calls' = [calls EXCEPT ![c].pc = "into", ![c].before = frame]
       /\ UNCHANGED <<handles, objects, claims>>

\* What get_into may leave in a buffer of the size of one frame when the object is
\* another by now: the object if it fits, or one up to a point and the other after it.
Transfers(before, now) ==
    IF now = Absent \/ Len(now) > Len(before) THEN {}
    ELSE {SubSeq(before, 1, n) \o SubSeq(now, n + 1, Len(now)) : n \in 0..Len(now)}

GetInto(c) ==
    /\ calls[c].pc = "into"
    /\ \/ Ends(c, Failed)
       \/ \E frame \in Transfers(calls[c].before, objects[Key(c)]) : Ends(c, DecodeEntry(frame, MaxValue[c]))
    /\ UNCHANGED <<handles, objects, claims>>

\* remove, or remove-before-put.
RemoveObject(c) ==
    /\ calls[c].pc = "remove"
    /\ \/ Ends(c, Failed) /\ UNCHANGED objects
       \/ /\ objects[Key(c)] # Absent
          /\ objects' = [objects EXCEPT ![Key(c)] = Absent]
          /\ IF calls[c].op = "put" THEN Goes(c, "store") ELSE Ends(c, Done)
    /\ UNCHANGED <<handles, claims>>

\* mooncake_store_put keeps an object that is there.
StoreObject(c) ==
    /\ calls[c].pc = "store"
    /\ \/ Ends(c, Failed) /\ UNCHANGED objects
       \/ /\ objects' = [objects EXCEPT ![Key(c)] = IF @ = Absent THEN EncodeEntry(calls[c].entry) ELSE @]
          /\ Ends(c, Done)
    /\ UNCHANGED <<handles, claims>>

\* remove_by_regex: all keys that match, or an error after some of them.
ClearPrefix(c) ==
    /\ calls[c].pc = "clear"
    /\ \E gone \in SUBSET Matching(RegexEscape(Prefix(c))) :
         /\ objects' = [k \in ObjectKeys |-> IF k \in gone THEN Absent ELSE objects[k]]
         /\ Ends(c, IF gone = Matching(RegexEscape(Prefix(c))) THEN Done ELSE Failed)
    /\ UNCHANGED <<handles, claims>>

Return(c) ==
    /\ calls[c].pc = "return"
    /\ claims' = [k \in ObjectKeys |->
                    IF calls[c].op = "put" /\ calls[c].out = Done /\ calls[c].alone /\ k = Key(c)
                    THEN EncodeEntry(calls[c].entry) ELSE claims[k]]
    /\ calls' = [calls EXCEPT ![c] = [pc |-> "idle"]]
    /\ UNCHANGED <<handles, objects>>

-----------------------------------------------------------------------------
Next ==
    \E c \in Clients :
        \/ Open(c) \/ Create(c) \/ Initialize(c) \/ Check(c) \/ Drop(c)
        \/ Clear(c)
        \/ \E b \in Blocks : Get(c, b) \/ Remove(c, b) \/ \E e \in Entries : Put(c, b, e)
        \/ Exists(c) \/ GetSize(c) \/ GetInto(c) \/ RemoveObject(c) \/ StoreObject(c) \/ ClearPrefix(c)
        \/ Return(c)

Spec == Init /\ [][Next]_vars

-----------------------------------------------------------------------------
\* Every variable has the shape of the state it stands for, and the store only frames
\* that some tier has made; a call has the handle of an open store.
TypeOK ==
    /\ \A c \in Clients : handles[c].open \subseteq {"library", "store"}
    /\ \A k \in ObjectKeys : objects[k] \in {Absent} \cup {EncodeEntry(e) : e \in Entries}
    /\ \A c \in Clients : (calls[c].pc # "idle" => handles[c].pc = "up")

\* Every path out of connect, and drop, gives back what was opened, the store before
\* the library it lives in.
HandlesReturned ==
    \A c \in Clients :
        /\ handles[c].pc = "closed" => handles[c].open = Nothing
        /\ "store" \in handles[c].open => "library" \in handles[c].open

\* What get returns has a payload that was put, although other processes replace the
\* object between its size and its bytes.
GetTrue ==
    \A c \in Clients : (calls[c].pc = "return" /\ calls[c].op = "get" /\ calls[c].out \notin {Failed, Miss}) =>
        \E e \in Entries : e.bytes = calls[c].out.entry.bytes

\* An entry whose put was acknowledged, with no rival, is what the store holds for its
\* block until somebody of the same namespace puts, removes or clears it: a put replaces
\* what was there, and the clear of another namespace leaves it alone.
AcceptedKept == \A k \in ObjectKeys : claims[k] # Absent => objects[k] = claims[k]

\* Handles are given back, and entries are what some process put.
Safety == TypeOK /\ HandlesReturned /\ GetTrue /\ AcceptedKept

=============================================================================
