--------------------------------- MODULE Resp ---------------------------------
(***************************************************************************)
(* The Redis wire format: what a server sends for a value and read_resp,   *)
(* which reads one value off the front of what has arrived.  A line and a  *)
(* payload byte are one token each.                                        *)
(***************************************************************************)
EXTENDS Integers, Sequences

LOCAL SeqOps == INSTANCE SequencesExt

Token(kind, arg) == [kind |-> kind, arg |-> arg]

Simple(text) == [type |-> "simple", text |-> text]
Error == [type |-> "error"]
Integer(n) == [type |-> "integer", n |-> n]
Bulk(bytes) == [type |-> "bulk", bytes |-> bytes]
NoBulk == [type |-> "nobulk"]
NoArray == [type |-> "noarray"]
Array(values) == [type |-> "array", values |-> values]

MaxDepth == 8
MaxElements == 4096

\* What the server writes for a value.
RECURSIVE Wire(_)
Wire(value) ==
    CASE value.type = "simple" -> <<Token("+", value.text)>>
      [] value.type = "error" -> <<Token("-", "")>>
      [] value.type = "integer" -> <<Token(":", value.n)>>
      [] value.type = "nobulk" -> <<Token("$", -1)>>
      [] value.type = "bulk" ->
           <<Token("$", Len(value.bytes))>> \o [i \in DOMAIN value.bytes |-> Token("byte", value.bytes[i])]
           \o <<Token("crlf", "")>>
      [] value.type = "array" ->
           <<Token("*", Len(value.values))>> \o SeqOps!FlattenSeq([i \in DOMAIN value.values |-> Wire(value.values[i])])

Broken == [ok |-> FALSE]
Value(value, rest) == [ok |-> TRUE, value |-> value, rest |-> rest]
From(stream, i) == SubSeq(stream, i, Len(stream))

\* A bulk value: exactly the announced bytes, then a line end.
ReadBulk(length, stream, max) ==
    IF length = -1 THEN Value(NoBulk, stream)
    ELSE IF length < 0 \/ length > max \/ Len(stream) < length + 1 THEN Broken
    ELSE IF stream[length + 1].kind # "crlf" THEN Broken
    ELSE Value(Bulk([i \in 1..length |-> stream[i].arg]), From(stream, length + 2))

RECURSIVE ReadResp(_, _, _), ReadItems(_, _, _, _)
ReadResp(stream, max, depth) ==
    IF depth > MaxDepth \/ stream = <<>> THEN Broken
    ELSE LET head == Head(stream)
             rest == Tail(stream)
         IN CASE head.kind = "+" -> Value(Simple(head.arg), rest)
              [] head.kind = "-" -> Value(Error, rest)
              [] head.kind = ":" -> Value(Integer(head.arg), rest)
              [] head.kind = "$" -> ReadBulk(head.arg, rest, max)
              [] head.kind = "*" ->
                   IF head.arg = -1 THEN Value(NoArray, rest)
                   ELSE IF head.arg \notin 0..MaxElements THEN Broken
                   ELSE ReadItems(rest, head.arg, max, depth)
              [] OTHER -> Broken

\* The elements of an array, one after the other.
ReadItems(stream, count, max, depth) ==
    IF count = 0 THEN Value(Array(<<>>), stream)
    ELSE LET first == ReadResp(stream, max, depth + 1)
         IN IF ~first.ok THEN Broken
            ELSE LET others == ReadItems(first.rest, count - 1, max, depth)
                 IN IF ~others.ok THEN Broken
                    ELSE Value(Array(<<first.value>> \o others.value.values), others.rest)

=============================================================================
