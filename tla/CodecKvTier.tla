------------------------------ MODULE CodecKvTier ------------------------------
(***************************************************************************)
(* CodecKvTier: payloads are framed by the tier's write codec on the way   *)
(* into another tier and decoded, on the way out, by the codec the frame   *)
(* names.  Several tiers, each with its own registry and limit, share the  *)
(* inner tier, which may damage what it keeps.                             *)
(***************************************************************************)
EXTENDS Bytes, Sequences

CONSTANTS
    Keys,
    Payloads,      \* non-empty sequences of bytes
    Byte,          \* bound: the bytes that occur in payloads and damage
    MaxRun,        \* u8::MAX, the longest run of the run-length code
    Tiers,
    WriteCodec,    \* the write codec of each tier
    Limit,         \* max_decoded_bytes of each tier
    MaxDamage      \* bound: how often the inner tier damages a frame

CodecAssumption ==
    /\ Payloads \subseteq Seq(Byte) /\ <<>> \notin Payloads /\ Byte \subseteq Nat
    /\ MaxRun \in Nat \ {0} /\ MaxDamage \in Nat
    /\ WriteCodec \in [Tiers -> {"identity", "rle-v1"}] /\ Limit \in [Tiers -> Nat \ {0}]

VARIABLES
    codecs,    \* CodecRegistry::codecs of each tier
    open,      \* the tiers that CodecKvTier::new has returned
    inner,     \* the inner tier: a frame for each key it holds
    written,   \* history: the payload last put for each key
    damage,    \* how often a frame has been damaged
    last       \* history: the get that has just returned

vars == <<codecs, open, inner, written, damage, last>>

\* The outcome of an error: no payload has such a byte.
Failed == <<-1>>
NoGet == [outcome |-> Failed]

-----------------------------------------------------------------------------
(* The codecs.                                                             *)

\* The run that starts at position i.
Run(input, i) ==
    LET ends == {j \in i..Len(input) : j - i + 1 = MaxRun \/ j = Len(input) \/ input[j + 1] # input[i]}
    IN (CHOOSE j \in ends : \A other \in ends : j <= other) - i + 1

RleEncode(input) ==
    LET from[i \in 1..(Len(input) + MaxRun)] ==
            IF i > Len(input) THEN <<>>
            ELSE <<Run(input, i), input[i]>> \o from[i + Run(input, i)]
    IN from[1]

Repeat(byte, times) == [i \in 1..times |-> byte]

RleDecode(input, expected, max) ==
    IF expected > max \/ Len(input) % 2 # 0 THEN Failed
    ELSE LET upTo[p \in 0..(Len(input) \div 2)] ==
                 IF p = 0 THEN <<>>
                 ELSE IF upTo[p - 1] = Failed THEN Failed
                 ELSE LET run == input[2 * p - 1]
                      IN IF run = 0 \/ Len(upTo[p - 1]) + run > expected THEN Failed
                         ELSE upTo[p - 1] \o Repeat(input[2 * p], run)
         IN IF upTo[Len(input) \div 2] # Failed /\ Len(upTo[Len(input) \div 2]) # expected
            THEN Failed ELSE upTo[Len(input) \div 2]

IdentityDecode(input, expected, max) ==
    IF expected > max \/ Len(input) # expected THEN Failed ELSE input

Encode(codec, input) == IF codec = "rle-v1" THEN RleEncode(input) ELSE input

Decode(codec, input, expected, max) ==
    IF codec = "rle-v1" THEN RleDecode(input, expected, max) ELSE IdentityDecode(input, expected, max)

-----------------------------------------------------------------------------
(* Frames.  The digest tells payloads apart.                               *)

Digest(payload) == [sha256 |-> payload]

EncodeFrame(codec, input) ==
    [magic |-> TRUE, name |-> codec, length |-> Len(input), digest |-> Digest(input),
     body |-> Encode(codec, input)]

\* Mutant: the digest is trusted to the codec.
DecodeUnverified(registry, frame, max) ==
    IF \/ ~frame.magic \/ frame.length = 0 \/ frame.length > max \/ frame.name \notin registry
    THEN Failed ELSE Decode(frame.name, frame.body, frame.length, max)

DecodeFrame(registry, frame, max) ==
    IF \/ ~frame.magic \/ frame.length = 0 \/ frame.length > max \/ frame.name \notin registry
    THEN Failed
    ELSE LET decoded == Decode(frame.name, frame.body, frame.length, max)
         IN IF decoded = Failed \/ Digest(decoded) # frame.digest THEN Failed ELSE decoded

-----------------------------------------------------------------------------
Init ==
    /\ codecs = [t \in Tiers |-> {}] /\ open = {}
    /\ inner = NoEntries /\ written = NoEntries
    /\ damage = 0 /\ last = NoGet

\* A name that is taken is refused.
Register(t, name) ==
    /\ name \notin codecs[t]
    /\ codecs' = [codecs EXCEPT ![t] = @ \cup {name}]
    /\ UNCHANGED <<open, inner, written, damage>> /\ last' = NoGet

Open(t) ==
    /\ t \notin open /\ WriteCodec[t] \in codecs[t]
    /\ open' = open \cup {t}
    /\ UNCHANGED <<codecs, inner, written, damage>> /\ last' = NoGet

Put(t, k, payload) ==
    /\ t \in open /\ WriteCodec[t] \in codecs[t]
    /\ inner' = With(inner, k, EncodeFrame(WriteCodec[t], payload))
    /\ written' = With(written, k, payload)
    /\ UNCHANGED <<codecs, open, damage>> /\ last' = NoGet

Get(t, k) ==
    /\ t \in open /\ k \in DOMAIN inner
    /\ last' = [outcome |-> DecodeFrame(codecs[t], inner[k], Limit[t]), tier |-> t,
                frame |-> inner[k], payload |-> written[k], registry |-> codecs[t]]
    /\ UNCHANGED <<codecs, open, inner, written, damage>>

Remove(k) ==
    /\ k \in DOMAIN inner
    /\ inner' = Without(inner, {k}) /\ written' = Without(written, {k})
    /\ UNCHANGED <<codecs, open, damage>> /\ last' = NoGet

\* What storage may do to a frame: cut its header, name another codec, change the
\* length, or lose or change a byte of the body.
Damages(frame) ==
    {[frame EXCEPT !.magic = FALSE]}
    \cup {[frame EXCEPT !.name = name] : name \in {"identity", "rle-v1"}}
    \cup {[frame EXCEPT !.length = length] : length \in {0, frame.length - 1, frame.length + 1}}
    \cup {[frame EXCEPT !.body = SubSeq(@, 1, i)] : i \in 0..(Len(frame.body) - 1)}
    \cup {[frame EXCEPT !.body[i] = byte] : i \in DOMAIN frame.body, byte \in Byte}

Damage(k) ==
    /\ damage < MaxDamage /\ k \in DOMAIN inner
    /\ \E frame \in Damages(inner[k]) : inner' = [inner EXCEPT ![k] = frame]
    /\ damage' = damage + 1
    /\ UNCHANGED <<codecs, open, written>> /\ last' = NoGet

Next ==
    \/ \E t \in Tiers : \/ \E name \in {"identity", "rle-v1"} : Register(t, name)
                        \/ Open(t)
                        \/ \E k \in Keys : \/ Get(t, k)
                                           \/ \E payload \in Payloads : Put(t, k, payload)
    \/ \E k \in Keys : Remove(k) \/ Damage(k)

Spec == Init /\ [][Next]_vars

-----------------------------------------------------------------------------
Got == last.outcome # Failed

\* Every variable has the shape of the state it stands for; a run fits its byte.
TypeOK ==
    /\ \A t \in Tiers : codecs[t] \subseteq {"identity", "rle-v1"}
    /\ \A k \in DOMAIN inner : \A i \in DOMAIN inner[k].body :
         (inner[k].name = "rle-v1" /\ damage = 0 /\ i % 2 = 1) => inner[k].body[i] \in 1..MaxRun
    /\ damage \in 0..MaxDamage

\* get returns the payload that was put or fails: no damage to the frame, and no
\* other tier's choice of codec, makes it return anything else.
NothingInvented == Got => last.outcome = last.payload

\* A frame as it was written is readable by every tier that has its codec and whose
\* limit admits the payload, whatever that tier writes with.
IntactReadable ==
    (/\ last # NoGet /\ last.frame.name \in last.registry
     /\ last.frame \in {EncodeFrame(name, last.payload) : name \in {"identity", "rle-v1"}}
     /\ Len(last.payload) <= Limit[last.tier]) => Got

\* The codec decodes exactly the length the frame declares, also from bytes that no
\* encoder wrote, so that the limit bounds what get allocates.
DeclaredLength ==
    \A k \in DOMAIN inner : \A max \in {Limit[t] : t \in Tiers} :
        LET frame == inner[k]
            decoded == Decode(frame.name, frame.body, frame.length, max)
        IN decoded # Failed => Len(decoded) = frame.length /\ Len(decoded) <= max

\* A get returns the payload or fails, and it fails only for a reason.
Safety == TypeOK /\ NothingInvented /\ IntactReadable /\ DeclaredLength

=============================================================================
