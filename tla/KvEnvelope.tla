------------------------------ MODULE KvEnvelope ------------------------------
(***************************************************************************)
(* encode_entry and decode_entry of the connectors: an entry with its      *)
(* expiry and pin becomes one value of a store that knows only bytes.  A   *)
(* header field counts as one byte here.                                   *)
(***************************************************************************)
EXTENDS Integers, Sequences

Magic == "RKV01"
HeaderBytes == 4

\* The outcome of a value that is no envelope.
Invalid == [error |-> "invalid"]

EncodeEntry(entry) ==
    <<Magic, entry.expires_at, IF entry.pinned THEN 1 ELSE 0, Len(entry.bytes)>> \o entry.bytes

DecodeEntry(encoded, max) ==
    IF \/ Len(encoded) > max \/ Len(encoded) < HeaderBytes
       \/ encoded[1] # Magic \/ encoded[3] \notin {0, 1}
       \/ encoded[4] = 0 \/ Len(encoded) - HeaderBytes # encoded[4]
    THEN Invalid
    ELSE [expires_at |-> encoded[2], pinned |-> encoded[3] = 1,
          bytes |-> SubSeq(encoded, HeaderBytes + 1, Len(encoded))]

=============================================================================
