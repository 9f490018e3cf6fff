-------------------------------- MODULE Handoff --------------------------------
(***************************************************************************)
(* DisaggregatedKvRouter: prefill workers publish the blocks of a prefix   *)
(* one by one into a tier, decode workers fetch them one by one from it.   *)
(* A put that fails has the publisher remove what it had written, whoever  *)
(* else has published the same keys meanwhile.                             *)
(*                                                                         *)
(* prefill_sink and decode_source are the same shared tier; blocks of the  *)
(* same key hold the same bytes, so the tier is the set of keys it holds.  *)
(* A call of the tier that reports an error may still take effect, at once *)
(* (a device tier that cannot free the replaced buffer) or later (a server *)
(* at work after its client has timed out).                                *)
(***************************************************************************)
EXTENDS Naturals, Sequences, FiniteSets, SequencesExt

CONSTANTS
    Publishers,
    Fetchers,
    Requests,    \* the sequences of keys that are published and fetched
    MaxErrors    \* bound: calls of the tier that fail

VARIABLES
    tier,      \* the keys the tier holds
    late,      \* the calls that reported an error and may still take effect
    pub,       \* each running or finished publish_prefill
    fetch,     \* each running or finished fetch_decode
    errors     \* bound: errors so far

vars == <<tier, late, pub, fetch, errors>>

KeysOf(prefix) == ToSet(prefix)
Keys == UNION {KeysOf(p) : p \in Requests}

HandoffAssumption == Requests \subseteq Seq(Keys) /\ MaxErrors \in Nat

\* History of a publish: the keys of the tier before it, those it put, the one whose
\* put failed, and that no other call touched its keys; of a fetch: that the tier has
\* held all its keys since it began.
IdlePub == [pc |-> "idle", prefix |-> <<>>, written |-> <<>>, before |-> {}, put |-> {},
            failed |-> {}, clean |-> TRUE]
IdleFetch == [pc |-> "idle", prefix |-> <<>>, at |-> 1, blocks |-> <<>>, missed |-> 0,
              complete |-> FALSE]

Init ==
    /\ tier = {} /\ late = {} /\ errors = 0
    /\ pub = [p \in Publishers |-> IdlePub]
    /\ fetch = [f \in Fetchers |-> IdleFetch]

Fails == errors < MaxErrors /\ errors' = errors + 1

\* A change of the tier disturbs the publishes and fetches of the key it is about.
Disturb(p, k) == [q \in Publishers |->
    IF q # p /\ k \in KeysOf(pub[q].prefix) THEN [pub[q] EXCEPT !.clean = FALSE] ELSE pub[q]]
Hold == fetch' = [f \in Fetchers |->
    [fetch[f] EXCEPT !.complete = @ /\ KeysOf(fetch[f].prefix) \subseteq tier']]

-----------------------------------------------------------------------------
(* publish_prefill.                                                        *)

Publish(p, prefix) ==
    /\ pub[p].pc \in {"idle", "ok", "error"}
    /\ pub' = [pub EXCEPT ![p] = [IdlePub EXCEPT !.pc = "put", !.prefix = prefix, !.before = tier]]
    /\ UNCHANGED <<tier, late, fetch, errors>>

NextBlock(p) == pub[p].prefix[Len(pub[p].written) + 1]
Done(p) == Len(pub[p].written) = Len(pub[p].prefix)

Put(p) ==
    /\ pub[p].pc = "put" /\ ~Done(p)
    /\ tier' = tier \cup {NextBlock(p)}
    /\ LET k == NextBlock(p)
       IN  pub' = [Disturb(p, k) EXCEPT ![p].written = Append(@, k), ![p].put = @ \cup {k}]
    /\ Hold
    /\ UNCHANGED <<late, errors>>

\* The block is not among those to be taken back.
PutFails(p) ==
    /\ pub[p].pc = "put" /\ ~Done(p) /\ Fails
    /\ pub' = [pub EXCEPT ![p].pc = "undo", ![p].failed = {NextBlock(p)}]
    /\ late' = late \cup {<<"put", NextBlock(p)>>}
    /\ UNCHANGED <<tier, fetch>>

Published(p) ==
    /\ pub[p].pc = "put" /\ Done(p)
    /\ pub' = [pub EXCEPT ![p].pc = "ok"]
    /\ UNCHANGED <<tier, late, fetch, errors>>

\* Mutant: the block written first stays.
UndoButFirst(p) ==
    /\ pub[p].pc = "undo" /\ pub[p].written # <<>>
    /\ tier' = IF Len(pub[p].written) = 1 THEN tier ELSE tier \ {Last(pub[p].written)}
    /\ pub' = [Disturb(p, Last(pub[p].written)) EXCEPT ![p].written = Front(@)]
    /\ Hold
    /\ UNCHANGED <<late, errors>>

\* Last written, first removed.
Undo(p) ==
    /\ pub[p].pc = "undo" /\ pub[p].written # <<>>
    /\ tier' = tier \ {Last(pub[p].written)}
    /\ pub' = [Disturb(p, Last(pub[p].written)) EXCEPT ![p].written = Front(@)]
    /\ Hold
    /\ UNCHANGED <<late, errors>>

\* Errors of the rollback are dropped.
UndoFails(p) ==
    /\ pub[p].pc = "undo" /\ pub[p].written # <<>> /\ Fails
    /\ pub' = [pub EXCEPT ![p].written = Front(@), ![p].clean = FALSE]
    /\ late' = late \cup {<<"remove", Last(pub[p].written)>>}
    /\ UNCHANGED <<tier, fetch>>

Undone(p) ==
    /\ pub[p].pc = "undo" /\ pub[p].written = <<>>
    /\ pub' = [pub EXCEPT ![p].pc = "error"]
    /\ UNCHANGED <<tier, late, fetch, errors>>

\* A call that reported an error takes effect after all.
Land(op, k) ==
    /\ <<op, k>> \in late
    /\ late' = late \ {<<op, k>>}
    /\ tier' = IF op = "put" THEN tier \cup {k} ELSE tier \ {k}
    /\ pub' = [q \in Publishers |->
         IF k \in KeysOf(pub[q].prefix) /\ ~(op = "put" /\ k \in pub[q].failed)
         THEN [pub[q] EXCEPT !.clean = FALSE] ELSE pub[q]]
    /\ Hold
    /\ UNCHANGED errors

-----------------------------------------------------------------------------
(* fetch_decode.                                                           *)

Fetch(f, prefix) ==
    /\ fetch[f].pc \in {"idle", "ok", "error"}
    /\ fetch' = [fetch EXCEPT ![f] = [IdleFetch EXCEPT !.pc = IF prefix = <<>> THEN "ok" ELSE "get",
                                        !.prefix = prefix, !.complete = KeysOf(prefix) \subseteq tier]]
    /\ UNCHANGED <<tier, late, pub, errors>>

Get(f) ==
    /\ fetch[f].pc = "get"
    /\ LET k == fetch[f].prefix[fetch[f].at]
           last == fetch[f].at = Len(fetch[f].prefix)
       IN  fetch' = [fetch EXCEPT
             ![f].blocks = IF k \in tier THEN Append(@, k) ELSE @,
             ![f].missed = IF k \in tier THEN @ ELSE @ + 1,
             ![f].at = IF last THEN @ ELSE @ + 1,
             ![f].pc = IF last THEN "ok" ELSE "get"]
    /\ UNCHANGED <<tier, late, pub, errors>>

GetFails(f) ==
    /\ fetch[f].pc = "get" /\ Fails
    /\ fetch' = [fetch EXCEPT ![f].pc = "error"]
    /\ UNCHANGED <<tier, late, pub>>

Next ==
    \/ \E p \in Publishers, prefix \in Requests : Publish(p, prefix)
    \/ \E p \in Publishers :
         Put(p) \/ PutFails(p) \/ Published(p) \/ Undo(p) \/ UndoFails(p) \/ Undone(p)
    \/ \E op \in {"put", "remove"}, k \in Keys : Land(op, k)
    \/ \E f \in Fetchers, prefix \in Requests : Fetch(f, prefix)
    \/ \E f \in Fetchers : Get(f) \/ GetFails(f)

Spec == Init /\ [][Next]_vars

-----------------------------------------------------------------------------
\* Every variable has the shape of the state it stands for.
TypeOK ==
    /\ tier \subseteq Keys
    /\ late \subseteq {"put", "remove"} \X Keys
    /\ \A p \in Publishers :
         /\ pub[p].pc \in {"idle", "put", "undo", "ok", "error"}
         /\ IsPrefix(pub[p].written, pub[p].prefix)
    /\ \A f \in Fetchers :
         /\ fetch[f].pc \in {"idle", "get", "ok", "error"}
         /\ fetch[f].at \in 1..(Len(fetch[f].prefix) + 1)

\* "rolled back published blocks": a publish that failed, while no other call touched
\* its keys, has left no block that it put, has taken away nothing else that the tier
\* held, and of its blocks only the one whose put failed may be new in the tier.
FailedPublishGone ==
    \A p \in Publishers :
        LET c == pub[p] IN
        (c.pc = "error" /\ c.clean) =>
            /\ (c.put \ c.failed) \cap tier = {}
            /\ (c.before \cap KeysOf(c.prefix)) \ c.put \subseteq tier
            /\ tier \cap KeysOf(c.prefix) \subseteq c.before \cup c.failed

\* A publish that succeeded has all its blocks in the tier until another publish of
\* the same keys writes or rolls back, or a failed call on them takes effect.
PublishKept ==
    \A p \in Publishers :
        (pub[p].pc = "ok" /\ pub[p].clean) => KeysOf(pub[p].prefix) \subseteq tier

\* A fetch accounts for every key: what it returns and what it missed are the
\* prefix, in order, and when the tier held all of it throughout nothing is missed.
FetchAccounts ==
    \A f \in Fetchers : fetch[f].pc = "ok" =>
        /\ Len(fetch[f].blocks) + fetch[f].missed = Len(fetch[f].prefix)
        /\ \A k \in DOMAIN fetch[f].blocks, l \in DOMAIN fetch[f].blocks : k < l =>
             \E i, j \in DOMAIN fetch[f].prefix :
                 /\ i < j /\ fetch[f].prefix[i] = fetch[f].blocks[k]
                 /\ fetch[f].prefix[j] = fetch[f].blocks[l]
        /\ fetch[f].complete => fetch[f].blocks = fetch[f].prefix

\* A publish takes back what it put and no more, and a fetch accounts for every key.
Safety == TypeOK /\ FailedPublishGone /\ PublishKept /\ FetchAccounts

=============================================================================
