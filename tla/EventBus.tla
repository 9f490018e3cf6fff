------------------------------- MODULE EventBus -------------------------------
(***************************************************************************)
(* KvEventBus: a publisher draws a sequence number, copies the list of     *)
(* subscribers under the read lock and calls them after it, catching their *)
(* panics.  Subscribers come and go meanwhile.                             *)
(***************************************************************************)
EXTENDS Naturals, FiniteSets, Sequences

CONSTANTS
    Publishers,   \* threads inside publish
    Faulty,       \* subscription ids whose subscriber panics on every event
    MaxIds,       \* bound: subscriptions made
    MaxEvents     \* bound: events published

BusAssumption == MaxIds \in Nat /\ MaxEvents \in Nat /\ Faulty \subseteq 1..MaxIds

Ids == 1..MaxIds

VARIABLES
    subscribers,     \* KvEventBus::subscribers
    nextSubscriber,
    nextSequence,
    published,
    failures,        \* subscriber_failures
    pub,             \* the publish each thread is in
    received,        \* history: the sequence numbers each subscriber was called with
    left             \* history: nextSequence when unsubscribe returned, for each id

vars == <<subscribers, nextSubscriber, nextSequence, published, failures, pub, received, left>>

\* since is history: the subscribers registered ever since publish was called.
Idle == [pc |-> "idle", seq |-> 0, to |-> {}, since |-> {}]

Init ==
    /\ subscribers = {} /\ nextSubscriber = 0 /\ nextSequence = 0
    /\ published = 0 /\ failures = 0
    /\ pub = [p \in Publishers |-> Idle]
    /\ received = [s \in Ids |-> <<>>]
    /\ left = [s \in Ids |-> MaxEvents + 1]

Subscribe ==
    /\ nextSubscriber < MaxIds
    /\ nextSubscriber' = nextSubscriber + 1
    /\ subscribers' = subscribers \cup {nextSubscriber + 1}
    /\ UNCHANGED <<nextSequence, published, failures, pub, received, left>>

Unsubscribe(s) ==
    /\ s \in subscribers
    /\ subscribers' = subscribers \ {s}
    /\ left' = [left EXCEPT ![s] = nextSequence]
    /\ pub' = [p \in Publishers |-> [pub[p] EXCEPT !.since = @ \ {s}]]
    /\ UNCHANGED <<nextSubscriber, nextSequence, published, failures, received>>

DrawSequence(p) ==
    /\ pub[p].pc = "idle" /\ nextSequence < MaxEvents
    /\ nextSequence' = nextSequence + 1
    /\ pub' = [pub EXCEPT ![p] = [Idle EXCEPT !.pc = "copy", !.seq = nextSequence + 1, !.since = subscribers]]
    /\ UNCHANGED <<subscribers, nextSubscriber, published, failures, received, left>>

\* A clock before 1970 ends the call; its number is never delivered.
ClockFails(p) ==
    /\ pub[p].pc = "copy"
    /\ pub' = [pub EXCEPT ![p] = Idle]
    /\ UNCHANGED <<subscribers, nextSubscriber, nextSequence, published, failures, received, left>>

CopySubscribers(p) ==
    /\ pub[p].pc = "copy"
    /\ pub' = [pub EXCEPT ![p].pc = "deliver", ![p].to = subscribers]
    /\ UNCHANGED <<subscribers, nextSubscriber, nextSequence, published, failures, received, left>>

\* Mutant: a panic ends the publish.
DeliverUnwinds(p) ==
    /\ pub[p].pc = "deliver"
    /\ \E s \in pub[p].to :
         /\ \A r \in pub[p].to : s <= r
         /\ received' = [received EXCEPT ![s] = Append(@, pub[p].seq)]
         /\ failures' = IF s \in Faulty THEN failures + 1 ELSE failures
         /\ pub' = [pub EXCEPT ![p].to = IF s \in Faulty THEN {} ELSE @ \ {s}]
    /\ UNCHANGED <<subscribers, nextSubscriber, nextSequence, published, left>>

\* In the order of the BTreeMap.
Deliver(p) ==
    /\ pub[p].pc = "deliver"
    /\ \E s \in pub[p].to :
         /\ \A r \in pub[p].to : s <= r
         /\ received' = [received EXCEPT ![s] = Append(@, pub[p].seq)]
         /\ failures' = IF s \in Faulty THEN failures + 1 ELSE failures
         /\ pub' = [pub EXCEPT ![p].to = @ \ {s}]
    /\ UNCHANGED <<subscribers, nextSubscriber, nextSequence, published, left>>

Return(p) ==
    /\ pub[p].pc = "deliver" /\ pub[p].to = {}
    /\ published' = published + 1
    /\ pub' = [pub EXCEPT ![p] = [Idle EXCEPT !.pc = "done", !.seq = pub[p].seq, !.since = pub[p].since]]
    /\ UNCHANGED <<subscribers, nextSubscriber, nextSequence, failures, received, left>>

\* The caller has its event back and goes on.
Again(p) ==
    /\ pub[p].pc = "done"
    /\ pub' = [pub EXCEPT ![p] = Idle]
    /\ UNCHANGED <<subscribers, nextSubscriber, nextSequence, published, failures, received, left>>

Next ==
    \/ Subscribe
    \/ \E s \in Ids : Unsubscribe(s)
    \/ \E p \in Publishers :
         \/ DrawSequence(p) \/ ClockFails(p) \/ CopySubscribers(p)
         \/ Deliver(p) \/ Return(p) \/ Again(p)

Spec == Init /\ [][Next]_vars

-----------------------------------------------------------------------------
Calls(s) == {received[s][i] : i \in DOMAIN received[s]}

\* The calls that a faulty subscriber was handed, each of which panicked.
Panics == UNION {{s} \X (1..Len(received[s])) : s \in Faulty}

\* Every variable has the shape of the state it stands for.
TypeOK ==
    /\ subscribers \subseteq 1..nextSubscriber
    /\ nextSequence \in 0..MaxEvents /\ published \in 0..nextSequence
    /\ \A p \in Publishers :
         /\ pub[p].pc \in {"idle", "copy", "deliver", "done"}
         /\ pub[p].to \subseteq Ids /\ pub[p].seq \in 0..nextSequence

\* No subscriber is called twice for one event, and no two events carry the same
\* number, however publishers overlap (the numbers may arrive out of order).
CalledOnce ==
    /\ \A s \in Ids : Cardinality(Calls(s)) = Len(received[s])
    /\ \A p, q \in Publishers :
         (p # q /\ pub[p].pc # "idle" /\ pub[q].pc # "idle") => pub[p].seq # pub[q].seq

\* Subscriber isolation: when publish returns, everyone who was registered all along
\* has been called, whoever panicked before them.
AllCalled ==
    \A p \in Publishers : pub[p].pc = "done" => \A s \in pub[p].since : pub[p].seq \in Calls(s)

\* After unsubscribe has returned, only events whose publish had begun by then
\* reach the subscriber.
NoneAfterLeaving == \A s \in Ids : \A n \in Calls(s) : n <= left[s]

\* With nobody inside publish, subscriber_failures is the number of panics and every
\* number delivered belongs to an event counted as published.
CountsSettle ==
    (\A p \in Publishers : pub[p].pc \in {"idle", "done"}) =>
        /\ failures = Cardinality(Panics)
        /\ Cardinality(UNION {Calls(s) : s \in Ids}) <= published

\* Every event reaches those it must reach, each once, and is counted.
Safety == TypeOK /\ CalledOnce /\ AllCalled /\ NoneAfterLeaving /\ CountsSettle

=============================================================================
