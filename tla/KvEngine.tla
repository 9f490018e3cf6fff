------------------------------ MODULE KvEngine ------------------------------
(***************************************************************************)
(* KvEngine: blocks in an ordered list of tiers, copied up on reads, moved,*)
(* prefetched, pinned and invalidated.  The engine has no lock: a call is  *)
(* a sequence of calls to single tiers, and the calls of several threads   *)
(* (AsyncKvPipeline workers, prefetch threads) interleave between them.    *)
(*                                                                         *)
(* Tiers keep their keys apart and every call works on one key at a time,  *)
(* so the module follows one key.  Tiers are numbered from 1, the fastest. *)
(* A running call keeps the tier calls it has yet to make (todo) and the   *)
(* entry it carries from one to the next.                                  *)
(***************************************************************************)
EXTENDS Integers, Sequences

CONSTANTS
    NumTiers,
    Threads,
    WritePolicy,     \* "Primary" or "All"
    PromoteOnRead,   \* promote_on_read
    Ttls,            \* seconds to live given to put; 0 for none
    Pins,            \* the pin states given to put
    MaxCalls,        \* bound: calls begun
    MaxErrors,       \* bound: tier calls that fail
    MaxLosses,       \* bound: entries a tier evicts by itself
    MaxClock         \* bound: seconds

EngineAssumption ==
    /\ NumTiers \in Nat \ {0} /\ Ttls \subseteq Nat /\ Pins \subseteq BOOLEAN
    /\ WritePolicy \in {"Primary", "All"} /\ PromoteOnRead \in BOOLEAN
    /\ {MaxCalls, MaxErrors, MaxLosses, MaxClock} \subseteq Nat
ASSUME Constants == EngineAssumption

VARIABLES
    tier,        \* tier[i]: the entry tier i holds, or NoEntry
    call,        \* call[p]: the call thread p is in
    clock,
    begun, errors, losses,   \* counts, for the bounds
    dead,        \* history: values removed by an invalidation no copier overlapped
    written,     \* history: the entries put and set_pinned were asked to store
    kept         \* history: an entry was stored and nothing may have removed it

vars == <<tier, call, clock, begun, errors, losses, dead, written, kept>>

Tiers == 1..NumTiers
Values == 1..MaxCalls          \* each put stores a value of its own
Entry == [value : Values, expires : Nat, pinned : BOOLEAN]
NoEntry == [value |-> 0, expires |-> 0, pinned |-> FALSE]

Ops == {"idle", "put", "get", "move", "invalidate", "pin", "clear", "prefetch"}
TierCalls == [do : {"get", "put", "remove", "undo", "clear"}, tier : Tiers]

\* to: the destination of a move or a prefetch, the tier a put had no answer from;
\* flag: remove_source, the pin to set, or whether a put is replicated.  For the
\* properties: before, the values stored when the call began, and clean, whether no
\* call that copies entries has overlapped it.
Calls == [op : Ops, todo : Seq(TierCalls), entry : Entry \cup {NoEntry}, now : Nat,
          to : Tiers, flag : BOOLEAN,
          result : {"ok", "hit", "error", "failed", "unanswered"},
          before : SUBSET Values, clean : BOOLEAN]
CallOf(op, todo, entry, to, flag) ==
    [op |-> op, todo |-> todo, entry |-> entry, now |-> 0, to |-> to, flag |-> flag,
     result |-> "ok", before |-> {}, clean |-> TRUE]
Idle == CallOf("idle", <<>>, NoEntry, 1, FALSE)

Init ==
    /\ tier = [i \in Tiers |-> NoEntry]
    /\ call = [p \in Threads |-> Idle]
    /\ clock = 1
    /\ begun = 0 /\ errors = 0 /\ losses = 0
    /\ dead = {} /\ written = {} /\ kept = FALSE

Each(do, tiers) == [n \in DOMAIN tiers |-> [do |-> do, tier |-> tiers[n]]]
InOrder == [i \in Tiers |-> i]

\* The tiers above i, nearest first.
Above(i) == [n \in 1..(i - 1) |-> i - n]

\* The tiers other than i, in order.
Others(i) == [n \in 1..(NumTiers - 1) |-> IF n < i THEN n ELSE n + 1]

Expired(entry, now) == entry.expires # 0 /\ entry.expires <= now

-----------------------------------------------------------------------------
(* The calls.                                                              *)

Busy == {p \in Threads : call[p].op # "idle"}
Copiers == {"move", "pin", "prefetch"} \cup (IF PromoteOnRead THEN {"get"} ELSE {})
Stored == (1..begun) \ {call[p].entry.value : p \in {q \in Busy : call[q].op = "put"}}

\* Thread p enters a call.
Begin(p, new) ==
    /\ call[p].op = "idle" /\ begun < MaxCalls
    /\ begun' = begun + 1
    /\ call' = [q \in Threads |->
         IF q = p
         THEN [new EXCEPT !.now = clock,
                          !.before = IF new.op \in {"invalidate", "clear"} THEN Stored ELSE {},
                          !.clean = \A o \in Busy : call[o].op \notin Copiers]
         ELSE [call[q] EXCEPT !.clean = @ /\ (q \in Busy => new.op \notin Copiers)]]
    /\ UNCHANGED <<tier, clock, errors, losses, dead>>

\* put, to the tiers of the policy, and put_to, to one tier.
Put(p) ==
    \E ttl \in Ttls, pinned \in Pins, i \in Tiers, all \in {FALSE, WritePolicy = "All"} :
      LET entry == [value |-> begun + 1, pinned |-> pinned,
                    expires |-> IF ttl = 0 THEN 0 ELSE clock + ttl]
      IN  /\ Begin(p, CallOf("put", Each("put", IF all THEN InOrder ELSE <<i>>), entry, 1, all))
          /\ written' = written \cup {entry}
          /\ UNCHANGED kept

Get(p) ==
    /\ Begin(p, CallOf("get", Each("get", InOrder), NoEntry, 1, FALSE))
    /\ UNCHANGED <<written, kept>>

\* Two moves of one block, one each way, can remove both copies.
Move(p) ==
    \E source, destination \in Tiers, removeSource \in BOOLEAN :
      /\ Begin(p, CallOf("move", Each("get", <<source>>), NoEntry, destination, removeSource))
      /\ kept' = (kept /\ \A q \in Busy : call[q].op # "move")
      /\ UNCHANGED written

\* Mutant: only the tier that serves the reads is cleaned.
InvalidatePrimary(p) ==
    /\ Begin(p, CallOf("invalidate", Each("remove", <<1>>), NoEntry, 1, FALSE))
    /\ kept' = FALSE
    /\ UNCHANGED written

Invalidate(p) ==
    /\ Begin(p, CallOf("invalidate", Each("remove", InOrder), NoEntry, 1, FALSE))
    /\ kept' = FALSE
    /\ UNCHANGED written

SetPinned(p) ==
    \E pinned \in BOOLEAN :
      /\ Begin(p, CallOf("pin", Each("get", InOrder), NoEntry, 1, pinned))
      /\ UNCHANGED <<written, kept>>

Clear(p) ==
    /\ Begin(p, CallOf("clear", Each("clear", InOrder), NoEntry, 1, FALSE))
    /\ kept' = FALSE
    /\ UNCHANGED written

\* One key of prefetch_worker: the destination first, then the other tiers.
Prefetch(p) ==
    \E destination \in Tiers :
      /\ Begin(p, CallOf("prefetch", Each("get", <<destination>> \o Others(destination)),
                         NoEntry, destination, FALSE))
      /\ UNCHANGED <<written, kept>>

-----------------------------------------------------------------------------
(* The tier calls.                                                         *)

Todo(p) == call[p].todo
Current(p) == Head(Todo(p))
Doing(p, do) == Todo(p) # <<>> /\ Current(p).do = do
Onward(p) == [call[p] EXCEPT !.todo = Tail(@)]
Goto(p, c) == call' = [call EXCEPT ![p] = c] /\ UNCHANGED <<clock, begun>>

\* Mutant: move_block gives up the source before the destination has the block.
MoveSourceFirst(c, i) ==
    (IF c.flag /\ i # c.to THEN Each("remove", <<i>>) ELSE <<>>) \o Each("put", <<c.to>>)

\* move_block after its read: the destination accepts, then the source goes.
MoveFound(c, i) ==
    Each("put", <<c.to>>) \o (IF c.flag /\ i # c.to THEN Each("remove", <<i>>) ELSE <<>>)

\* What a call does with a live entry e found in tier i.
Found(c, i, e) ==
    IF c.op = "get"
    THEN [c EXCEPT !.entry = e, !.result = "hit",
                   !.todo = IF PromoteOnRead THEN Each("put", Above(i)) ELSE <<>>]
    ELSE IF c.op = "move"
    THEN [c EXCEPT !.entry = e, !.todo = MoveFound(c, i)]
    ELSE IF c.op = "pin"
    THEN [c EXCEPT !.entry = [e EXCEPT !.pinned = c.flag],
                   !.todo = Each("put", <<i>>) \o Tail(@)]
    ELSE \* prefetch
         [c EXCEPT !.entry = e, !.todo = IF i = c.to THEN <<>> ELSE Each("put", <<c.to>>)]

\* tier.get; move_block reads the clock after it, the others before.
Read(p) ==
    /\ Doing(p, "get")
    /\ LET i == Current(p).tier
           e == tier[i]
           now == IF call[p].op = "move" THEN clock ELSE call[p].now
       IN  /\ Goto(p, IF e = NoEntry THEN Onward(p)
                      ELSE IF Expired(e, now)
                      THEN [Onward(p) EXCEPT !.todo = Each("remove", <<i>>) \o @]
                      ELSE Found(call[p], i, e))
           /\ kept' = (kept /\ ~Expired(e, now))
           /\ written' = IF call[p].op = "pin" /\ e # NoEntry
                         THEN written \cup {[e EXCEPT !.pinned = call[p].flag]} ELSE written
    /\ UNCHANGED <<tier, errors, losses, dead>>

\* Mutant: the transferred envelope lives for ever.
CarriedForEver(p) ==
    IF call[p].op = "put" THEN call[p].entry ELSE [call[p].entry EXCEPT !.expires = 0]

\* put_entry_to stores its entry; transfer_entry sends the bytes through the
\* transport and the allocator and keeps the envelope.
Carried(p) == call[p].entry

Removing(q) == \E n \in DOMAIN Todo(q) : Todo(q)[n].do \notin {"get", "put"}

\* tier.put, of put, put_to, set_pinned and transfer_entry.
Store(p) ==
    /\ Doing(p, "put")
    /\ tier' = [tier EXCEPT ![Current(p).tier] = Carried(p)]
    /\ Goto(p, Onward(p))
    /\ kept' = \/ kept
               \/ /\ call[p].op = "put"
                  /\ \A q \in Busy : ~Removing(q) /\ call[q].op # "move"
    /\ UNCHANGED <<errors, losses, dead, written>>

Remove(p) ==
    /\ Doing(p, "remove") \/ Doing(p, "undo") \/ Doing(p, "clear")
    /\ tier' = [tier EXCEPT ![Current(p).tier] = NoEntry]
    /\ Goto(p, Onward(p))
    /\ UNCHANGED <<errors, losses, dead, written, kept>>

\* A tier rejects a write: put removes the replicas it has written, in order;
\* the other calls return the error at once.
Rejected(c) ==
    [c EXCEPT !.result = "error",
              !.todo = IF c.op = "put" /\ c.flag
                       THEN Each("undo", [i \in 1..(Head(c.todo).tier - 1) |-> i]) ELSE <<>>]

\* The call after the error of a tier call.  The errors of an undo are dropped,
\* those of a clear are kept for the end, any other ends the call.
AfterError(p) ==
    IF Current(p).do = "put" THEN Rejected(call[p])
    ELSE [call[p] EXCEPT !.result = "failed",
            !.todo = IF Current(p).do \in {"undo", "clear"} THEN Tail(@) ELSE <<>>]

Erring(p) ==
    /\ Todo(p) # <<>> /\ errors < MaxErrors
    /\ errors' = errors + 1
    /\ kept' = (kept /\ ~(call[p].op = "put" /\ call[p].flag))
    /\ UNCHANGED <<losses, dead, written>>

\* A tier call fails.
Fail(p) ==
    /\ Erring(p)
    /\ Goto(p, AfterError(p))
    /\ UNCHANGED tier

\* A remote tier carries a call out and its answer is lost: the engine sees an
\* error, and put does not undo the tier that reported it.
AnswerLost(p) ==
    /\ Erring(p) /\ Current(p).do # "get"
    /\ tier' = [tier EXCEPT ![Current(p).tier] =
                  IF Current(p).do = "put" THEN Carried(p) ELSE NoEntry]
    /\ Goto(p, IF Current(p).do = "put"
               THEN [AfterError(p) EXCEPT !.result = "unanswered", !.to = Current(p).tier]
               ELSE AfterError(p))

\* The call returns.
Return(p) ==
    /\ call[p].op # "idle" /\ Todo(p) = <<>>
    /\ Goto(p, Idle)
    /\ dead' = IF call[p].clean /\ call[p].result = "ok" THEN dead \cup call[p].before ELSE dead
    /\ UNCHANGED <<tier, errors, losses, written, kept>>

\* A tier may evict an entry, and time passes.
Lose(i) ==
    /\ tier[i] # NoEntry /\ losses < MaxLosses
    /\ losses' = losses + 1
    /\ tier' = [tier EXCEPT ![i] = NoEntry]
    /\ kept' = FALSE
    /\ UNCHANGED <<call, clock, begun, errors, dead, written>>

Tick ==
    /\ clock < MaxClock /\ clock' = clock + 1
    /\ UNCHANGED <<tier, call, begun, errors, losses, dead, written, kept>>

Step(p) == Read(p) \/ Store(p) \/ Remove(p) \/ Fail(p) \/ AnswerLost(p) \/ Return(p)

Next ==
    \/ \E p \in Threads :
         \/ Put(p) \/ Get(p) \/ Move(p) \/ Invalidate(p)
         \/ SetPinned(p) \/ Clear(p) \/ Prefetch(p) \/ Step(p)
    \/ \E i \in Tiers : Lose(i)
    \/ Tick

Spec == Init /\ [][Next]_vars

-----------------------------------------------------------------------------
\* Every variable has the shape of the Rust state it stands for.
TypeOK ==
    /\ tier \in [Tiers -> Entry \cup {NoEntry}]
    /\ call \in [Threads -> Calls] /\ \A p \in Threads : call[p].now <= clock
    /\ clock \in Nat /\ kept \in BOOLEAN
    /\ begun \in 0..MaxCalls /\ errors \in Nat /\ losses \in Nat
    /\ dead \subseteq Values /\ written \subseteq Entry

\* What an invalidation or a clear of the engine removed is never stored again, nor
\* carried by a call that stores, unless a call that copies entries between tiers
\* overlapped it.  (Without promotion a get that read before may still return it.)
InvalidationFinal ==
    /\ \A i \in Tiers : tier[i].value \notin dead
    /\ \A p \in Threads : call[p].op \in Copiers \cup {"put"} =>
                            call[p].entry.value \notin dead

\* Every entry in a tier is one that some put or set_pinned stored, with its
\* value, expiry and pin together: promotion, movement and prefetch, however
\* they interleave, preserve the envelope.
EnvelopePreserved == \A i \in Tiers : tier[i] = NoEntry \/ tier[i] \in written

\* No call serves or copies an entry that had expired when the call began.
ExpiredNotCopied ==
    \A p \in Threads :
        LET e == call[p].entry
        IN  call[p].op = "put" \/ e.expires = 0 \/ e.expires > call[p].now

\* A stored block stays in some tier until something asks for its removal, it
\* expires or a tier drops it: one move at a time never loses it.
BlockKept == kept => \E i \in Tiers : tier[i] # NoEntry

\* A put that a tier rejected leaves none of its own replicas behind once its
\* rollback has succeeded; when the tier had stored the block and only its answer
\* was lost, that one replica is all that may stay.
RollbackComplete ==
    \A p \in Threads :
        /\ call[p].op = "put" /\ call[p].flag /\ call[p].todo = <<>> /\ call[p].clean
        /\ call[p].result \in {"error", "unanswered"}
        => \A i \in Tiers : tier[i].value = call[p].entry.value
                               => call[p].result = "unanswered" /\ i = call[p].to

\* A stored block survives every move, promotion and failed removal, and a put that
\* a tier rejected leaves none of its replicas behind once KvEngine::put has undone it.
ReplicasKept == TypeOK /\ BlockKept /\ RollbackComplete

\* Promotion, movement and prefetch preserve value, expiry and pin together, and serve
\* or copy nothing that had expired when the call began.
CopiesTrue == EnvelopePreserved /\ ExpiredNotCopied

=============================================================================
