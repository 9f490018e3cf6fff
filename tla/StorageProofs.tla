---------------------------- MODULE StorageProofs ----------------------------
(***************************************************************************)
(* The storage below the cache, for every value of the constants.          *)
(*                                                                         *)
(* KvEngine's calls, interleaved tier call by tier call, for any number of *)
(* tiers and threads and either write policy: the envelope of a copy, the  *)
(* finality of an invalidation, the rollback of a replicated put and the   *)
(* survival of a block that is moved.  LayeredStore, for any number of     *)
(* backends and removers, and FileStore, for any number of processes: the  *)
(* agreement of replicas, whole files, and the one entry the cache sees.   *)
(***************************************************************************)
EXTENDS MCStorage, WellFoundedInduction, TLAPS

\* The tier calls a call may have left, by its kind.
Shape(c) ==
    /\ c.op = "idle" => c.todo = <<>>
    /\ c.op = "put" => c.entry # NoEntry
    /\ c.op \notin {"invalidate", "clear"} => c.before = {}
    /\ \A n \in DOMAIN c.todo :
         /\ c.todo[n].do = "get" => c.op \in {"get", "move", "pin", "prefetch"}
         /\ c.todo[n].do = "put" => c.op \in Copiers \cup {"put"} /\ c.entry # NoEntry
         /\ c.todo[n].do = "remove" => c.op \in {"invalidate", "get", "move", "pin", "prefetch"}
         /\ c.todo[n].do = "undo" => c.op = "put" /\ c.flag
         /\ c.todo[n].do = "clear" => c.op = "clear"

\* The inductive invariant of the types.
TypeInv == TypeOK /\ \A p \in Threads : Shape(call[p])

\* A call carries an entry some put or set_pinned was asked to store.
CarriedWritten == \A p \in Threads : call[p].entry = NoEntry \/ call[p].entry \in written

CopyInv == CopiesTrue /\ CarriedWritten

\* Values are numbered as the puts begin, so a new one is nowhere yet.
Numbered ==
    /\ \A i \in Tiers : tier[i].value <= begun
    /\ \A p \in Threads : call[p].entry.value <= begun /\ call[p].before \subseteq 1..begun
    /\ dead \subseteq 1..begun

\* While a call is clean no call that copies entries is running.
CleanAlone ==
    \A p, q \in Threads :
        call[p].op \in {"put", "invalidate", "clear"} /\ call[p].clean => call[q].op \notin Copiers

\* What a clean invalidation is to remove is only where it has yet to go, and no
\* call will store it again.
InvalidationOnWay ==
    \A p \in Threads :
        call[p].op \in {"invalidate", "clear"} /\ call[p].clean /\ call[p].result = "ok" =>
            /\ \A i \in Tiers : tier[i].value \in call[p].before =>
                                \E n \in DOMAIN Todo(p) : Todo(p)[n].tier = i
            /\ \A q \in Threads : call[q].op = "put" => call[q].entry.value \notin call[p].before

FinalInv == Numbered /\ CleanAlone /\ InvalidationOnWay /\ InvalidationFinal

\* No two puts store the same value.
PutsApart ==
    \A p, q \in Threads : call[p].op = "put" /\ call[q].op = "put"
                          /\ call[p].entry.value = call[q].entry.value => p = q

\* A replicated put writes the tiers in order and then, if one rejects it, undoes.
PutOrder ==
    \A p \in Threads : call[p].op = "put" /\ call[p].flag =>
        IF call[p].result = "ok"
        THEN \A n \in DOMAIN Todo(p) :
               /\ Todo(p)[n].do = "put"
               /\ \A m \in DOMAIN Todo(p) : m < n => Todo(p)[m].tier < Todo(p)[n].tier
        ELSE \A n \in DOMAIN Todo(p) : Todo(p)[n].do = "undo"

\* The replicas of a clean put are in the tiers it has been to and, once one has
\* rejected it, in those it has yet to undo or had no answer from.
RollbackOnWay ==
    \A p \in Threads : call[p].op = "put" /\ call[p].flag /\ call[p].clean =>
        \A i \in Tiers : tier[i].value = call[p].entry.value =>
            /\ call[p].result = "ok" => \A n \in DOMAIN Todo(p) : i < Todo(p)[n].tier
            /\ call[p].result \in {"error", "unanswered"} =>
                 \/ \E n \in DOMAIN Todo(p) : Todo(p)[n].tier = i
                 \/ call[p].result = "unanswered" /\ i = call[p].to

RollbackInv == Numbered /\ CleanAlone /\ PutsApart /\ PutOrder /\ RollbackOnWay

\* While a block is kept, only one move may remove a copy, and the destination of
\* the move has the block by then.
OnlyMovesRemove ==
    kept => \A p \in Threads : \A n \in DOMAIN Todo(p) :
        Todo(p)[n].do \notin {"get", "put"} =>
            /\ call[p].op = "move" /\ Todo(p)[n].tier # call[p].to
            /\ \/ n = 1 /\ Len(Todo(p)) = 1 /\ tier[call[p].to] # NoEntry
               \/ n = 2 /\ Len(Todo(p)) = 2 /\ Todo(p)[1] = [do |-> "put", tier |-> call[p].to]

OneMove == kept => \A p, q \in Threads : call[p].op = "move" /\ call[q].op = "move" => p = q

KeptInv == BlockKept /\ OnlyMovesRemove /\ OneMove

-----------------------------------------------------------------------------
(* Sequences of tier calls.                                                *)

LEMMA TailFacts ==
    ASSUME NEW S, NEW s \in Seq(S), s # <<>>
    PROVE  /\ Len(s) \in Nat \ {0} /\ DOMAIN s = 1..Len(s) /\ 1 \in DOMAIN s
           /\ Head(s) = s[1] /\ s[1] \in S
           /\ Tail(s) \in Seq(S) /\ Len(Tail(s)) = Len(s) - 1
           /\ \A n \in DOMAIN Tail(s) : n + 1 \in DOMAIN s /\ Tail(s)[n] = s[n + 1]
           /\ \A n \in DOMAIN s : n # 1 => n - 1 \in DOMAIN Tail(s) /\ Tail(s)[n - 1] = s[n]
OBVIOUS

LEMMA EachFacts ==
    ASSUME NEW do \in {"get", "put", "remove", "undo", "clear"}, NEW s \in Seq(Tiers)
    PROVE  /\ Each(do, s) \in Seq(TierCalls) /\ Len(Each(do, s)) = Len(s)
           /\ DOMAIN Each(do, s) = 1..Len(s) /\ DOMAIN s = 1..Len(s)
           /\ \A n \in 1..Len(s) : Each(do, s)[n].do = do /\ Each(do, s)[n].tier = s[n]
<1>1. Len(s) \in Nat /\ DOMAIN s = 1..Len(s) /\ \A n \in 1..Len(s) : s[n] \in Tiers
  OBVIOUS
<1>2. \A n \in 1..Len(s) : [do |-> do, tier |-> s[n]] \in TierCalls
  BY <1>1 DEF TierCalls
<1>3. QED
  BY <1>1, <1>2 DEF Each

LEMMA EachGets ==
    ASSUME NEW s \in Seq(Tiers)
    PROVE  Each("get", s) \in Seq(TierCalls) /\ \A n \in DOMAIN Each("get", s) : Each("get", s)[n].do = "get"
<1>1. PICK do \in {"get", "put", "remove", "undo", "clear"} : do = "get"
  OBVIOUS
<1>2. /\ Each(do, s) \in Seq(TierCalls) /\ DOMAIN Each(do, s) = 1..Len(s)
      /\ \A n \in 1..Len(s) : Each(do, s)[n].do = do
  BY EachFacts
<1>3. QED
  BY <1>1, <1>2, Zenon

\* The orders in which the calls visit the tiers.
LEMMA Orders ==
    /\ InOrder \in Seq(Tiers) /\ Len(InOrder) = NumTiers
    /\ \A i \in Tiers : InOrder[i] = i
    /\ \A i \in Tiers : <<i>> \in Seq(Tiers) /\ Len(<<i>>) = 1 /\ <<i>>[1] = i
    /\ \A i \in Tiers : Above(i) \in Seq(Tiers)
    /\ \A i \in Tiers : [n \in 1..(i - 1) |-> n] \in Seq(Tiers)
                        /\ Len([n \in 1..(i - 1) |-> n]) = i - 1
<1>1. NumTiers \in Nat
  BY Constants DEF EngineAssumption
<1>2. InOrder \in Seq(Tiers) /\ Len(InOrder) = NumTiers /\ \A i \in Tiers : InOrder[i] = i
  BY <1>1 DEF InOrder, Tiers
<1>3. \A i \in Tiers : <<i>> \in Seq(Tiers) /\ Len(<<i>>) = 1 /\ <<i>>[1] = i
  OBVIOUS
<1>4. ASSUME NEW i \in Tiers
      PROVE  /\ Above(i) \in Seq(Tiers)
             /\ [n \in 1..(i - 1) |-> n] \in Seq(Tiers) /\ Len([n \in 1..(i - 1) |-> n]) = i - 1
  <2>1. i \in Nat \ {0} /\ i <= NumTiers /\ i - 1 \in Nat
    BY <1>1 DEF Tiers
  <2>2. \A n \in 1..(i - 1) : n \in Tiers /\ i - n \in Tiers
    BY <1>1, <2>1 DEF Tiers
  <2>3. QED
    BY <2>1, <2>2 DEF Above
<1>5. QED
  BY <1>2, <1>3, <1>4

LEMMA OthersType ==
    ASSUME NEW d \in Tiers
    PROVE  <<d>> \o Others(d) \in Seq(Tiers)
<1>1. NumTiers \in Nat \ {0} /\ d \in 1..NumTiers
  BY Constants DEF EngineAssumption, Tiers
<1>2. \A n \in 1..(NumTiers - 1) : (IF n < d THEN n ELSE n + 1) \in Tiers
  BY <1>1 DEF Tiers
<1>3. Others(d) \in Seq(Tiers)
  BY <1>1, <1>2 DEF Others
<1>4. QED
  BY <1>3

-----------------------------------------------------------------------------
(* A call begins.                                                          *)

\* What the calls of the engine have in common when they begin.
Fresh(new) ==
    /\ Shape(new) /\ new.op # "idle" /\ new.result = "ok"
    /\ written' = IF new.op = "put" THEN written \cup {new.entry} ELSE written
    /\ kept' \in BOOLEAN /\ (kept' => kept)
    /\ IF new.op = "put"
       THEN /\ new.entry \in Entry /\ new.entry.value = begun + 1
            /\ \A n \in DOMAIN new.todo : new.todo[n].do = "put"
            /\ new.flag => \A m, n \in DOMAIN new.todo : m < n => new.todo[m].tier < new.todo[n].tier
       ELSE new.entry = NoEntry
    /\ IF new.op \in {"invalidate", "clear"}
       THEN /\ kept' = FALSE
            /\ \A i \in Tiers : \E n \in DOMAIN new.todo : new.todo[n].tier = i
       ELSE \A n \in DOMAIN new.todo : new.todo[n].do \in {"get", "put"}
    /\ new.op = "move" /\ kept' => \A q \in Threads : call[q].op # "move"

LEMMA IdleCall == Idle \in Calls /\ Shape(Idle) /\ Idle.op = "idle" /\ Idle.entry = NoEntry /\ Idle.now = 0
<1>1. 1 \in Tiers
  BY Constants DEF EngineAssumption, Tiers
<1>2. QED
  BY <1>1 DEF Idle, CallOf, Calls, Ops, Shape

\* The calls that only read first: get, move_block, set_pinned, prefetch.
LEMMA ReadersBegin ==
    ASSUME TypeInv, NEW p \in Threads, Get(p) \/ Move(p) \/ SetPinned(p) \/ Prefetch(p)
    PROVE  \E new \in Calls : Begin(p, new) /\ Fresh(new)
<1> DEFINE Reader(op, s, d, f) == CallOf(op, Each("get", s), NoEntry, d, f)
<1>1. ASSUME NEW op \in {"get", "move", "pin", "prefetch"}, NEW s \in Seq(Tiers),
             NEW d \in Tiers, NEW f \in BOOLEAN,
             written' = written, kept' \in BOOLEAN, kept' => kept,
             op = "move" /\ kept' => \A q \in Threads : call[q].op # "move"
      PROVE  Reader(op, s, d, f) \in Calls /\ Fresh(Reader(op, s, d, f))
  <2> DEFINE td == Each("get", s)
  <2>1. td \in Seq(TierCalls) /\ \A n \in DOMAIN td : td[n].do = "get"
    BY EachGets
  <2> HIDE DEF td
  <2> DEFINE new == CallOf(op, td, NoEntry, d, f)
  <2>2. /\ new \in Calls /\ new.op = op /\ new.todo = td /\ new.entry = NoEntry
        /\ new.result = "ok" /\ new.before = {}
    BY <2>1 DEF CallOf, Calls, Ops
  <2> HIDE DEF new
  <2>3. Fresh(new)
    BY <2>1, <2>2, <1>1 DEF Fresh, Shape
  <2>4. QED
    BY <2>2, <2>3 DEF td, new
<1>2. kept \in BOOLEAN
  BY DEF TypeInv, TypeOK
<1>3. 1 \in Tiers
  BY Constants DEF EngineAssumption, Tiers
<1>4. CASE Get(p)
  <2>1. Reader("get", InOrder, 1, FALSE) \in Calls /\ Fresh(Reader("get", InOrder, 1, FALSE))
    BY <1>1, <1>2, <1>3, <1>4, Orders DEF Get
  <2>2. QED
    BY <1>4, <2>1 DEF Get
<1>5. CASE Move(p)
  <2>1. PICK source, destination \in Tiers, f \in BOOLEAN :
          /\ Begin(p, CallOf("move", Each("get", <<source>>), NoEntry, destination, f))
          /\ kept' = (kept /\ \A q \in Busy : call[q].op # "move")
          /\ UNCHANGED written
    BY <1>5 DEF Move
  <2>2. kept' => \A q \in Threads : call[q].op # "move"
    BY <2>1 DEF Busy
  <2>3. /\ Reader("move", <<source>>, destination, f) \in Calls
        /\ Fresh(Reader("move", <<source>>, destination, f))
    BY <1>1, <1>2, <2>1, <2>2, Orders
  <2>4. QED
    BY <2>1, <2>3
<1>6. CASE SetPinned(p)
  <2>1. PICK f \in BOOLEAN :
          /\ Begin(p, CallOf("pin", Each("get", InOrder), NoEntry, 1, f))
          /\ UNCHANGED <<written, kept>>
    BY <1>6 DEF SetPinned
  <2>2. Reader("pin", InOrder, 1, f) \in Calls /\ Fresh(Reader("pin", InOrder, 1, f))
    BY <1>1, <1>2, <1>3, <2>1, Orders
  <2>3. QED
    BY <2>1, <2>2
<1>7. CASE Prefetch(p)
  <2>1. PICK d \in Tiers :
          /\ Begin(p, CallOf("prefetch", Each("get", <<d>> \o Others(d)), NoEntry, d, FALSE))
          /\ UNCHANGED <<written, kept>>
    BY <1>7 DEF Prefetch
  <2>2. /\ Reader("prefetch", <<d>> \o Others(d), d, FALSE) \in Calls
        /\ Fresh(Reader("prefetch", <<d>> \o Others(d), d, FALSE))
    BY <1>1, <1>2, <2>1, OthersType
  <2>3. QED
    BY <2>1, <2>2
<1>8. QED
  BY <1>4, <1>5, <1>6, <1>7

LEMMA RemoversBegin ==
    ASSUME TypeInv, NEW p \in Threads, Invalidate(p) \/ Clear(p)
    PROVE  \E new \in Calls : Begin(p, new) /\ Fresh(new)
<1>1. ASSUME NEW op \in {"invalidate", "clear"}, NEW do,
             do = IF op = "clear" THEN "clear" ELSE "remove",
             written' = written, kept' = FALSE
      PROVE  /\ CallOf(op, Each(do, InOrder), NoEntry, 1, FALSE) \in Calls
             /\ Fresh(CallOf(op, Each(do, InOrder), NoEntry, 1, FALSE))
  <2> DEFINE td == Each(do, InOrder)
             new == CallOf(op, td, NoEntry, 1, FALSE)
  <2>1. /\ td \in Seq(TierCalls) /\ \A n \in DOMAIN td : td[n].do = do
        /\ \A i \in Tiers : i \in DOMAIN td /\ td[i].tier = i
    <3>1. PICK d \in {"get", "put", "remove", "undo", "clear"} : d = do
      BY <1>1
    <3>2. /\ Each(d, InOrder) \in Seq(TierCalls)
          /\ DOMAIN Each(d, InOrder) = 1..NumTiers
          /\ \A n \in 1..NumTiers : Each(d, InOrder)[n].do = d /\ Each(d, InOrder)[n].tier = InOrder[n]
      BY EachFacts, Orders
    <3>3. td = Each(d, InOrder) /\ Tiers = 1..NumTiers
      BY <3>1 DEF Tiers
    <3> HIDE DEF td
    <3>4. QED
      BY <3>1, <3>2, <3>3, Orders
  <2>2. 1 \in Tiers
    BY Constants DEF EngineAssumption, Tiers
  <2> HIDE DEF td
  <2>3. /\ new \in Calls /\ new.op = op /\ new.todo = td /\ new.entry = NoEntry
        /\ new.result = "ok" /\ new.before = {}
    BY <2>1, <2>2 DEF CallOf, Calls, Ops
  <2> HIDE DEF new
  <2>4. Fresh(new)
    BY <2>1, <2>3, <1>1 DEF Fresh, Shape
  <2>5. QED
    BY <2>3, <2>4 DEF td, new
<1>2. CASE Invalidate(p)
  BY <1>1, <1>2 DEF Invalidate
<1>3. CASE Clear(p)
  BY <1>1, <1>3 DEF Clear
<1>4. QED
  BY <1>2, <1>3

LEMMA PutBegins ==
    ASSUME TypeInv, NEW p \in Threads, Put(p)
    PROVE  \E new \in Calls : Begin(p, new) /\ Fresh(new)
<1>1. PICK ttl \in Ttls, pinned \in Pins, i \in Tiers, all \in {FALSE, WritePolicy = "All"} :
        LET entry == [value |-> begun + 1, pinned |-> pinned,
                      expires |-> IF ttl = 0 THEN 0 ELSE clock + ttl]
        IN  /\ Begin(p, CallOf("put", Each("put", IF all THEN InOrder ELSE <<i>>), entry, 1, all))
            /\ written' = written \cup {entry}
            /\ UNCHANGED kept
  BY DEF Put
<1> DEFINE entry == [value |-> begun + 1, pinned |-> pinned,
                     expires |-> IF ttl = 0 THEN 0 ELSE clock + ttl]
           td == Each("put", IF all THEN InOrder ELSE <<i>>)
           new == CallOf("put", td, entry, 1, all)
<1>2. Begin(p, new) /\ written' = written \cup {entry} /\ UNCHANGED kept
  BY <1>1
<1>3. entry \in Entry /\ entry.value = begun + 1 /\ entry # NoEntry
  <2>1. begun < MaxCalls
    BY <1>2 DEF Begin
  <2>2. begun + 1 \in Values /\ begun + 1 # 0
    BY <2>1, Constants DEF TypeInv, TypeOK, Values, EngineAssumption
  <2>3. (IF ttl = 0 THEN 0 ELSE clock + ttl) \in Nat /\ pinned \in BOOLEAN
    BY Constants DEF TypeInv, TypeOK, EngineAssumption
  <2>4. QED
    BY <2>2, <2>3 DEF Entry, NoEntry
<1>4. /\ td \in Seq(TierCalls) /\ \A n \in DOMAIN td : td[n].do = "put"
      /\ all => \A m, n \in DOMAIN td : m < n => td[m].tier < td[n].tier
  <2>1. CASE all
    <3>1. td = Each("put", InOrder) /\ NumTiers \in Nat
      BY <2>1, Constants DEF EngineAssumption
    <3> HIDE DEF td
    <3>2. /\ td \in Seq(TierCalls) /\ DOMAIN td = 1..NumTiers
          /\ \A n \in 1..NumTiers : td[n].do = "put" /\ td[n].tier = n
      <4>1. InOrder \in Seq(Tiers) /\ Len(InOrder) = NumTiers
        BY Orders
      <4>2. \A n \in 1..NumTiers : InOrder[n] = n
        BY Orders DEF Tiers
      <4>3. QED
        BY <3>1, <4>1, <4>2, EachFacts
    <3>3. QED
      BY <3>1, <3>2
  <2>2. CASE ~all
    <3>1. \E s \in Seq(Tiers) : td = Each("put", s)
      BY <2>2, Orders
    <3> HIDE DEF td
    <3>2. PICK s \in Seq(Tiers) : td = Each("put", s)
      BY <3>1
    <3>3. td \in Seq(TierCalls) /\ \A n \in DOMAIN td : td[n].do = "put"
      BY <3>2, EachFacts
    <3>4. QED
      BY <2>2, <3>3
  <2>3. QED
    BY <2>1, <2>2
<1>5. kept \in BOOLEAN /\ all \in BOOLEAN /\ 1 \in Tiers
  <2>1. 1 \in Tiers
    BY Constants DEF EngineAssumption, Tiers
  <2>2. all \in BOOLEAN
    BY Zenon
  <2>3. QED
    BY <2>1, <2>2 DEF TypeInv, TypeOK
<1> HIDE DEF entry, td
<1>6. /\ new \in Calls /\ new.op = "put" /\ new.todo = td /\ new.entry = entry
      /\ new.result = "ok" /\ new.before = {} /\ new.flag = all
  BY <1>3, <1>4, <1>5 DEF CallOf, Calls, Ops
<1> HIDE DEF new
<1>7. Shape(new)
  BY <1>3, <1>4, <1>6 DEF Shape
<1>8. Fresh(new)
  BY <1>2, <1>3, <1>4, <1>5, <1>6, <1>7 DEF Fresh
<1>9. QED
  BY <1>2, <1>6, <1>8

\* The state after a call began.
LEMMA Begun ==
    ASSUME TypeInv, NEW p \in Threads, NEW new \in Calls, Begin(p, new), Fresh(new)
    PROVE  /\ begun < MaxCalls /\ begun' = begun + 1 /\ call[p].op = "idle"
           /\ call' \in [Threads -> Calls]
           /\ call'[p].op = new.op /\ call'[p].todo = new.todo /\ call'[p].entry = new.entry
           /\ call'[p].to = new.to /\ call'[p].flag = new.flag /\ call'[p].result = "ok"
           /\ call'[p].now = clock
           /\ call'[p].before = IF new.op \in {"invalidate", "clear"} THEN Stored ELSE {}
           /\ call'[p].clean => \A q \in Threads : call[q].op \notin Copiers
           /\ \A q \in Threads \ {p} :
                /\ call'[q].op = call[q].op /\ call'[q].todo = call[q].todo
                /\ call'[q].entry = call[q].entry /\ call'[q].to = call[q].to
                /\ call'[q].flag = call[q].flag /\ call'[q].result = call[q].result
                /\ call'[q].now = call[q].now /\ call'[q].before = call[q].before
                /\ call'[q].clean => call[q].clean
                /\ call'[q].clean /\ call[q].op # "idle" => new.op \notin Copiers
<1> DEFINE First == [new EXCEPT !.now = clock,
                       !.before = IF new.op \in {"invalidate", "clear"} THEN Stored ELSE {},
                       !.clean = \A o \in Busy : call[o].op \notin Copiers]
           Other(q) == [call[q] EXCEPT !.clean = @ /\ (q \in Busy => new.op \notin Copiers)]
<1>1. call[p].op = "idle" /\ begun < MaxCalls /\ begun' = begun + 1
  BY DEF Begin
<1>2. call' = [q \in Threads |-> IF q = p THEN First ELSE Other(q)]
  BY DEF Begin
<1>3. Stored \subseteq Values
  BY Constants DEF Stored, Values, TypeInv, TypeOK, EngineAssumption
<1>4. First \in Calls
  <2>1. clock \in Nat
    BY DEF TypeInv, TypeOK
  <2>2. QED
    BY <1>3, <2>1 DEF Calls
<1>5. \A q \in Threads : Other(q) \in Calls
  BY DEF Calls, TypeInv, TypeOK
<1>6. call' \in [Threads -> Calls]
  BY <1>2, <1>4, <1>5
<1>7. /\ call'[p].op = new.op /\ call'[p].todo = new.todo /\ call'[p].entry = new.entry
      /\ call'[p].to = new.to /\ call'[p].flag = new.flag /\ call'[p].result = "ok"
      /\ call'[p].now = clock
      /\ call'[p].before = IF new.op \in {"invalidate", "clear"} THEN Stored ELSE {}
  BY <1>2 DEF Calls, Fresh
<1>8. ASSUME call'[p].clean PROVE \A q \in Threads : call[q].op \notin Copiers
  BY <1>2, <1>8 DEF Calls, Busy, Copiers
<1>9. ASSUME NEW q \in Threads \ {p}
      PROVE  /\ call'[q].op = call[q].op /\ call'[q].todo = call[q].todo
             /\ call'[q].entry = call[q].entry /\ call'[q].to = call[q].to
             /\ call'[q].flag = call[q].flag /\ call'[q].result = call[q].result
             /\ call'[q].now = call[q].now /\ call'[q].before = call[q].before
             /\ call'[q].clean => call[q].clean
             /\ call'[q].clean /\ call[q].op # "idle" => new.op \notin Copiers
  <2>1. call'[q] = Other(q) /\ call[q] \in Calls
    BY <1>2 DEF TypeInv, TypeOK
  <2>2. QED
    BY <2>1 DEF Calls, Busy
<1>10. QED
  BY <1>1, <1>6, <1>7, <1>8, <1>9

-----------------------------------------------------------------------------
(* A tier call of a running call.                                          *)

LEMMA EachOne ==
    ASSUME NEW do \in {"get", "put", "remove", "undo", "clear"}, NEW i \in Tiers
    PROVE  /\ Each(do, <<i>>) = <<[do |-> do, tier |-> i]>>
           /\ [do |-> do, tier |-> i] \in TierCalls
<1>1. DOMAIN <<i>> = 1..1 /\ <<i>>[1] = i
  OBVIOUS
<1>2. Each(do, <<i>>) = [n \in 1..1 |-> [do |-> do, tier |-> i]]
  BY <1>1 DEF Each
<1>3. QED
  BY <1>2 DEF TierCalls

\* A tier call put before the rest of the calls.
LEMMA Instead ==
    ASSUME NEW s \in Seq(TierCalls), s # <<>>, NEW do \in {"put", "remove"}, NEW i \in Tiers
    PROVE  /\ Each(do, <<i>>) \o Tail(s) \in Seq(TierCalls)
           /\ Len(Each(do, <<i>>) \o Tail(s)) = Len(s)
           /\ (Each(do, <<i>>) \o Tail(s))[1] = [do |-> do, tier |-> i]
           /\ \A n \in DOMAIN (Each(do, <<i>>) \o Tail(s)) :
                n # 1 => n \in DOMAIN s /\ (Each(do, <<i>>) \o Tail(s))[n] = s[n]
<1> DEFINE x == [do |-> do, tier |-> i]
<1>1. Each(do, <<i>>) = <<x>> /\ x \in TierCalls
  BY EachOne
<1> HIDE DEF x
<1>2. /\ <<x>> \o Tail(s) \in Seq(TierCalls) /\ Len(<<x>> \o Tail(s)) = Len(s)
      /\ (<<x>> \o Tail(s))[1] = x
      /\ \A n \in DOMAIN (<<x>> \o Tail(s)) : n # 1 => n \in DOMAIN s /\ (<<x>> \o Tail(s))[n] = s[n]
  BY <1>1
<1>3. QED
  BY <1>1, <1>2 DEF x

LEMMA CurrentType ==
    ASSUME TypeInv, NEW p \in Threads
    PROVE  /\ call \in [Threads -> Calls] /\ call[p] \in Calls /\ Todo(p) \in Seq(TierCalls)
           /\ Todo(p) # <<>> => /\ Current(p) = Todo(p)[1] /\ 1 \in DOMAIN Todo(p)
                               /\ Current(p) \in TierCalls /\ Current(p).tier \in Tiers
<1>1. call \in [Threads -> Calls] /\ call[p] \in Calls /\ Todo(p) \in Seq(TierCalls)
  BY DEF TypeInv, TypeOK, Calls, Todo
<1>2. ASSUME Todo(p) # <<>> PROVE Current(p) = Todo(p)[1] /\ 1 \in DOMAIN Todo(p) /\ Current(p) \in TierCalls
  BY <1>1, <1>2, TailFacts DEF Current
<1>3. ASSUME Current(p) \in TierCalls PROVE Current(p).tier \in Tiers
  BY <1>3 DEF TierCalls
<1>4. QED
  BY <1>1, <1>2, <1>3

\* What a step of thread p leaves alone.
SameCall(p) ==
    /\ call' \in [Threads -> Calls] /\ \A q \in Threads \ {p} : call'[q] = call[q]
    /\ call'[p].op = call[p].op /\ call'[p].flag = call[p].flag
    /\ call'[p].now = call[p].now /\ call'[p].before = call[p].before
    /\ call'[p].clean = call[p].clean
    /\ clock' = clock /\ begun' = begun

LEMMA GoesOnward ==
    ASSUME TypeInv, NEW p \in Threads, Todo(p) # <<>>, Goto(p, Onward(p))
    PROVE  /\ SameCall(p) /\ call'[p].todo = Tail(Todo(p)) /\ call'[p].entry = call[p].entry
           /\ call'[p].to = call[p].to /\ call'[p].result = call[p].result
<1>1. call \in [Threads -> Calls] /\ call[p] \in Calls /\ Todo(p) \in Seq(TierCalls)
  BY DEF TypeInv, TypeOK, Calls, Todo
<1>2. Tail(Todo(p)) \in Seq(TierCalls)
  BY <1>1, TailFacts
<1>3. Onward(p) \in Calls
  BY <1>1, <1>2 DEF Onward, Calls, Todo
<1>4. /\ Onward(p).todo = Tail(Todo(p)) /\ Onward(p).entry = call[p].entry
      /\ Onward(p).to = call[p].to /\ Onward(p).result = call[p].result
      /\ Onward(p).op = call[p].op /\ Onward(p).flag = call[p].flag
      /\ Onward(p).now = call[p].now /\ Onward(p).before = call[p].before
      /\ Onward(p).clean = call[p].clean
  BY <1>1 DEF Onward, Calls, Todo
<1>5. QED
  BY <1>1, <1>3, <1>4 DEF Goto, SameCall

\* The call after an error.
LEMMA Errs ==
    ASSUME TypeInv, NEW p \in Threads, Todo(p) # <<>>
    PROVE  /\ AfterError(p) \in Calls
           /\ AfterError(p).op = call[p].op /\ AfterError(p).flag = call[p].flag
           /\ AfterError(p).now = call[p].now /\ AfterError(p).before = call[p].before
           /\ AfterError(p).clean = call[p].clean /\ AfterError(p).entry = call[p].entry
           /\ AfterError(p).to = call[p].to
           /\ AfterError(p).result = IF Current(p).do = "put" THEN "error" ELSE "failed"
           /\ IF Current(p).do = "put"
              THEN IF call[p].op = "put" /\ call[p].flag
                   THEN /\ DOMAIN AfterError(p).todo = 1..(Current(p).tier - 1)
                        /\ \A n \in 1..(Current(p).tier - 1) :
                             AfterError(p).todo[n].do = "undo" /\ AfterError(p).todo[n].tier = n
                   ELSE AfterError(p).todo = <<>>
              ELSE AfterError(p).todo = IF Current(p).do \in {"undo", "clear"}
                                        THEN Tail(Todo(p)) ELSE <<>>
<1>1. call[p] \in Calls /\ Todo(p) \in Seq(TierCalls)
  BY DEF TypeInv, TypeOK, Calls, Todo
<1>2. Tail(Todo(p)) \in Seq(TierCalls) /\ Current(p) \in TierCalls /\ Current(p).tier \in Tiers
  <2>1. Current(p) \in TierCalls
    BY <1>1, TailFacts DEF Current
  <2>2. QED
    BY <1>1, <2>1, TailFacts DEF TierCalls
<1> DEFINE back == Each("undo", [i \in 1..(Current(p).tier - 1) |-> i])
<1>3. /\ back \in Seq(TierCalls) /\ DOMAIN back = 1..(Current(p).tier - 1)
      /\ \A n \in 1..(Current(p).tier - 1) : back[n].do = "undo" /\ back[n].tier = n
  <2> DEFINE s == [i \in 1..(Current(p).tier - 1) |-> i]
  <2>1. s \in Seq(Tiers) /\ Len(s) = Current(p).tier - 1 /\ \A n \in 1..(Current(p).tier - 1) : s[n] = n
    BY <1>2, Orders
  <2> HIDE DEF s
  <2>2. /\ Each("undo", s) \in Seq(TierCalls) /\ DOMAIN Each("undo", s) = 1..Len(s)
        /\ \A n \in 1..Len(s) : Each("undo", s)[n].do = "undo" /\ Each("undo", s)[n].tier = s[n]
    BY <2>1, EachFacts
  <2>3. QED
    BY <2>1, <2>2 DEF s
<1>4. CASE Current(p).do = "put"
  <2> DEFINE td == IF call[p].op = "put" /\ call[p].flag THEN back ELSE <<>>
  <2>1. AfterError(p) = [call[p] EXCEPT !.result = "error", !.todo = td]
    BY <1>4 DEF AfterError, Rejected, Current, Todo
  <2>2. td \in Seq(TierCalls)
    BY <1>3
  <2>3. td = IF call[p].op = "put" /\ call[p].flag THEN back ELSE <<>>
    OBVIOUS
  <2> HIDE DEF td, back
  <2>4. /\ AfterError(p) \in Calls /\ AfterError(p).todo = td /\ AfterError(p).result = "error"
        /\ AfterError(p).op = call[p].op /\ AfterError(p).flag = call[p].flag
        /\ AfterError(p).now = call[p].now /\ AfterError(p).before = call[p].before
        /\ AfterError(p).clean = call[p].clean /\ AfterError(p).entry = call[p].entry
        /\ AfterError(p).to = call[p].to
    BY <1>1, <2>1, <2>2 DEF Calls
  <2>5. QED
    BY <1>3, <1>4, <2>3, <2>4
<1>5. CASE Current(p).do # "put"
  <2> DEFINE td == IF Current(p).do \in {"undo", "clear"} THEN Tail(Todo(p)) ELSE <<>>
  <2>1. AfterError(p) = [call[p] EXCEPT !.result = "failed", !.todo = td]
    BY <1>5 DEF AfterError, Todo
  <2>2. td \in Seq(TierCalls)
    BY <1>2
  <2>3. td = IF Current(p).do \in {"undo", "clear"} THEN Tail(Todo(p)) ELSE <<>>
    OBVIOUS
  <2> HIDE DEF td
  <2>4. /\ AfterError(p) \in Calls /\ AfterError(p).todo = td /\ AfterError(p).result = "failed"
        /\ AfterError(p).op = call[p].op /\ AfterError(p).flag = call[p].flag
        /\ AfterError(p).now = call[p].now /\ AfterError(p).before = call[p].before
        /\ AfterError(p).clean = call[p].clean /\ AfterError(p).entry = call[p].entry
        /\ AfterError(p).to = call[p].to
    BY <1>1, <2>1, <2>2 DEF Calls
  <2>5. QED
    BY <1>5, <2>3, <2>4
<1>6. QED
  BY <1>4, <1>5

\* The state after a tier call that failed, or whose answer was lost.
LEMMA ErrorStep ==
    ASSUME TypeInv, NEW p \in Threads, Fail(p) \/ AnswerLost(p)
    PROVE  /\ Todo(p) # <<>> /\ SameCall(p) /\ call'[p].entry = call[p].entry
           /\ call'[p].todo = AfterError(p).todo
           /\ dead' = dead /\ written' = written
           /\ kept' = (kept /\ ~(call[p].op = "put" /\ call[p].flag))
           /\ Current(p).do # "put" => call'[p].result = "failed" /\ call'[p].to = call[p].to
           /\ Current(p).do = "put" =>
                \/ call'[p].result = "error" /\ call'[p].to = call[p].to /\ tier' = tier
                \/ /\ call'[p].result = "unanswered" /\ call'[p].to = Current(p).tier
                   /\ tier' = [tier EXCEPT ![Current(p).tier] = call[p].entry]
           /\ Current(p).do # "put" =>
                \/ tier' = tier
                \/ Current(p).do # "get" /\ tier' = [tier EXCEPT ![Current(p).tier] = NoEntry]
<1>1. /\ Todo(p) # <<>> /\ kept' = (kept /\ ~(call[p].op = "put" /\ call[p].flag))
      /\ dead' = dead /\ written' = written
  BY DEF Fail, AnswerLost, Erring
<1>2. Current(p).tier \in Tiers /\ call \in [Threads -> Calls]
  BY <1>1, CurrentType
<1> DEFINE a == AfterError(p)
<1>a. /\ a \in Calls /\ a.op = call[p].op /\ a.flag = call[p].flag /\ a.now = call[p].now
      /\ a.before = call[p].before /\ a.clean = call[p].clean /\ a.entry = call[p].entry
      /\ a.to = call[p].to /\ a.result = IF Current(p).do = "put" THEN "error" ELSE "failed"
  BY <1>1, Errs
<1>b. ASSUME NEW c \in Calls, Goto(p, c), c.op = call[p].op, c.flag = call[p].flag,
             c.now = call[p].now, c.before = call[p].before, c.clean = call[p].clean
      PROVE  SameCall(p) /\ call'[p] = c
  BY <1>2, <1>b DEF Goto, SameCall
<1> HIDE DEF a
<1>3. CASE Fail(p)
  <2>1. Goto(p, a) /\ tier' = tier
    BY <1>3 DEF Fail, a
  <2>2. SameCall(p) /\ call'[p] = a
    BY <1>a, <1>b, <2>1
  <2>3. QED
    BY <1>1, <1>a, <2>1, <2>2 DEF a
<1>4. CASE AnswerLost(p)
  <2>1. CASE Current(p).do = "put"
    <3> DEFINE c == [a EXCEPT !.result = "unanswered", !.to = Current(p).tier]
    <3>1. Goto(p, c) /\ tier' = [tier EXCEPT ![Current(p).tier] = call[p].entry]
      BY <1>4, <2>1 DEF AnswerLost, Carried, a
    <3>2. /\ c \in Calls /\ c.result = "unanswered" /\ c.to = Current(p).tier
          /\ c.todo = a.todo /\ c.op = call[p].op /\ c.flag = call[p].flag
          /\ c.now = call[p].now /\ c.before = call[p].before /\ c.clean = call[p].clean
          /\ c.entry = call[p].entry
      BY <1>2, <1>a DEF Calls
    <3> HIDE DEF c
    <3>3. SameCall(p) /\ call'[p] = c
      BY <1>b, <3>1, <3>2
    <3>4. QED
      BY <1>1, <2>1, <3>1, <3>2, <3>3 DEF a
  <2>2. CASE Current(p).do # "put"
    <3>1. /\ Goto(p, a) /\ tier' = [tier EXCEPT ![Current(p).tier] = NoEntry]
          /\ Current(p).do # "get"
      BY <1>4, <2>2 DEF AnswerLost, a
    <3>2. SameCall(p) /\ call'[p] = a
      BY <1>a, <1>b, <3>1
    <3>3. QED
      BY <1>1, <1>a, <2>2, <3>1, <3>2 DEF a
  <2>3. QED
    BY <2>1, <2>2
<1>5. QED
  BY <1>3, <1>4

\* What a read did: the tier had nothing, an entry that had expired, or one that the
\* call goes on with.
Missed(p) ==
    /\ tier[Current(p).tier] = NoEntry
    /\ call'[p].todo = Tail(Todo(p)) /\ call'[p].entry = call[p].entry
    /\ written' = written /\ kept' = kept

MetExpired(p) ==
    /\ kept' = FALSE /\ call'[p].entry = call[p].entry
    /\ call'[p].todo = Each("remove", <<Current(p).tier>>) \o Tail(Todo(p))
    /\ written' = written \/ written' = written \cup {[tier[Current(p).tier] EXCEPT !.pinned = call[p].flag]}
    /\ tier[Current(p).tier] # NoEntry

MetLive(p) ==
    LET i == Current(p).tier
        e == tier[i]
    IN  /\ e # NoEntry /\ kept' = kept
        /\ e.expires = 0 \/ e.expires > call[p].now
        /\ call'[p].entry = IF call[p].op = "pin" THEN [e EXCEPT !.pinned = call[p].flag] ELSE e
        /\ written' = IF call[p].op = "pin" THEN written \cup {[e EXCEPT !.pinned = call[p].flag]}
                      ELSE written
        /\ call[p].op = "move" => call'[p].todo = MoveFound(call[p], i)
        /\ call[p].op = "pin" => call'[p].todo = Each("put", <<i>>) \o Tail(Todo(p))
        /\ call[p].op \in {"get", "prefetch"} => \A n \in DOMAIN call'[p].todo : call'[p].todo[n].do = "put"
        /\ call[p].op = "get" /\ ~PromoteOnRead => call'[p].todo = <<>>

LEMMA MoveTodo ==
    ASSUME NEW c \in Calls, NEW i \in Tiers
    PROVE  /\ MoveFound(c, i) \in Seq(TierCalls)
           /\ MoveFound(c, i)[1] = [do |-> "put", tier |-> c.to]
           /\ \A n \in DOMAIN MoveFound(c, i) :
                n # 1 => /\ n = 2 /\ Len(MoveFound(c, i)) = 2 /\ i # c.to
                         /\ MoveFound(c, i)[n] = [do |-> "remove", tier |-> i]
<1> DEFINE x == [do |-> "put", tier |-> c.to]
           y == [do |-> "remove", tier |-> i]
<1>1. c.to \in Tiers
  BY DEF Calls
<1>2. /\ Each("put", <<c.to>>) = <<x>> /\ x \in TierCalls
      /\ Each("remove", <<i>>) = <<y>> /\ y \in TierCalls
  BY <1>1, EachOne
<1>3. MoveFound(c, i) = <<x>> \o (IF c.flag /\ i # c.to THEN <<y>> ELSE <<>>)
  BY <1>2 DEF MoveFound
<1> HIDE DEF x, y
<1>4. CASE c.flag /\ i # c.to
  <2>1. /\ MoveFound(c, i) \in Seq(TierCalls) /\ Len(MoveFound(c, i)) = 2
        /\ MoveFound(c, i)[1] = x /\ MoveFound(c, i)[2] = y
    <3>1. MoveFound(c, i) = <<x>> \o <<y>>
      BY <1>3, <1>4
    <3>2. QED
      BY <1>2, <3>1
  <2>2. QED
    BY <1>2, <1>4, <2>1 DEF x, y
<1>5. CASE ~(c.flag /\ i # c.to)
  <2>1. MoveFound(c, i) = <<x>>
    <3>1. MoveFound(c, i) = <<x>> \o <<>>
      BY <1>3, <1>5
    <3>2. QED
      BY <3>1
  <2>2. QED
    BY <1>2, <2>1 DEF x, y
<1>6. QED
  BY <1>4, <1>5

LEMMA ReadStep ==
    ASSUME TypeInv, NEW p \in Threads, Read(p)
    PROVE  /\ Todo(p) # <<>> /\ SameCall(p) /\ call'[p].to = call[p].to
           /\ call[p].op \in {"get", "move", "pin", "prefetch"}
           /\ tier' = tier /\ dead' = dead
           /\ (Missed(p) \/ MetExpired(p) \/ MetLive(p))
<1> DEFINE i == Current(p).tier
           e == tier[i]
           now == IF call[p].op = "move" THEN clock ELSE call[p].now
<1>1. /\ Todo(p) # <<>> /\ Current(p).do = "get" /\ tier' = tier /\ dead' = dead
      /\ Goto(p, IF e = NoEntry THEN Onward(p)
                 ELSE IF Expired(e, now)
                 THEN [Onward(p) EXCEPT !.todo = Each("remove", <<i>>) \o @]
                 ELSE Found(call[p], i, e))
      /\ kept' = (kept /\ ~Expired(e, now))
      /\ written' = IF call[p].op = "pin" /\ e # NoEntry
                    THEN written \cup {[e EXCEPT !.pinned = call[p].flag]} ELSE written
  BY DEF Read, Doing
<1>2. /\ call \in [Threads -> Calls] /\ call[p] \in Calls /\ Todo(p) \in Seq(TierCalls)
      /\ Current(p) = Todo(p)[1] /\ 1 \in DOMAIN Todo(p) /\ i \in Tiers
      /\ Tail(Todo(p)) \in Seq(TierCalls)
  BY <1>1, CurrentType, TailFacts
<1>3. e \in Entry \cup {NoEntry} /\ kept \in BOOLEAN
  BY <1>2 DEF TypeInv, TypeOK
<1>4. call[p].op \in {"get", "move", "pin", "prefetch"}
  <2>1. Shape(call[p]) /\ call[p].todo = Todo(p)
    BY DEF TypeInv, Todo
  <2>2. QED
    BY <1>1, <1>2, <2>1 DEF Shape
<1>5. now \in Nat /\ call[p].now \in Nat /\ call[p].now <= now
  BY <1>2 DEF TypeInv, TypeOK, Calls
<1>b. ASSUME NEW c \in Calls, Goto(p, c), c.op = call[p].op, c.flag = call[p].flag,
             c.now = call[p].now, c.before = call[p].before, c.clean = call[p].clean
      PROVE  SameCall(p) /\ call'[p] = c
  BY <1>2, <1>b DEF Goto, SameCall
<1> HIDE DEF i, e, now
<1>6. CASE e = NoEntry
  <2>1. Goto(p, Onward(p)) /\ written' = written
    BY <1>1, <1>6
  <2>2. kept' = kept
    BY <1>1, <1>3, <1>6 DEF Expired, NoEntry
  <2>3. QED
    BY <1>1, <1>4, <1>6, <2>1, <2>2, GoesOnward DEF Missed, e, i
<1>7. CASE e # NoEntry /\ Expired(e, now)
  <2> DEFINE td == Each("remove", <<i>>) \o Tail(Todo(p))
             c == [Onward(p) EXCEPT !.todo = td]
  <2>1. Goto(p, c)
    BY <1>1, <1>2, <1>7 DEF Onward, Todo, Calls
  <2>2. td \in Seq(TierCalls)
    BY <1>1, <1>2, Instead
  <2> HIDE DEF td
  <2>3. /\ c \in Calls /\ c.op = call[p].op /\ c.flag = call[p].flag /\ c.now = call[p].now
        /\ c.before = call[p].before /\ c.clean = call[p].clean /\ c.to = call[p].to
        /\ c.todo = td /\ c.entry = call[p].entry
    BY <1>2, <2>2 DEF Onward, Todo, Calls
  <2> HIDE DEF c
  <2>4. SameCall(p) /\ call'[p] = c
    BY <1>b, <2>1, <2>3
  <2>5. MetExpired(p)
    BY <1>1, <1>3, <1>7, <2>3, <2>4 DEF MetExpired, td, e, i
  <2>6. QED
    BY <1>1, <1>4, <2>3, <2>4, <2>5
<1>8. CASE e # NoEntry /\ ~Expired(e, now)
  <2> DEFINE c == Found(call[p], i, e)
  <2>1. Goto(p, c) /\ kept' = kept
    BY <1>1, <1>3, <1>8
  <2>2. e.expires = 0 \/ e.expires > call[p].now
    BY <1>3, <1>5, <1>8 DEF Expired, Entry
  <2>3. e \in Entry /\ [e EXCEPT !.pinned = call[p].flag] \in Entry
    BY <1>2, <1>3, <1>8 DEF Entry, Calls
  <2>4. /\ c \in Calls /\ c.op = call[p].op /\ c.flag = call[p].flag /\ c.now = call[p].now
        /\ c.before = call[p].before /\ c.clean = call[p].clean /\ c.to = call[p].to
        /\ c.entry = IF call[p].op = "pin" THEN [e EXCEPT !.pinned = call[p].flag] ELSE e
        /\ call[p].op = "move" => c.todo = MoveFound(call[p], i)
        /\ call[p].op = "pin" => c.todo = Each("put", <<i>>) \o Tail(Todo(p))
        /\ call[p].op \in {"get", "prefetch"} => \A n \in DOMAIN c.todo : c.todo[n].do = "put"
        /\ call[p].op = "get" /\ ~PromoteOnRead => c.todo = <<>>
    <3> DEFINE With(td, ent, res) == [call[p] EXCEPT !.entry = ent, !.result = res, !.todo = td]
    <3>1. CASE call[p].op = "get"
      <4> DEFINE td == IF PromoteOnRead THEN Each("put", Above(i)) ELSE <<>>
      <4>1. td \in Seq(TierCalls) /\ \A n \in DOMAIN td : td[n].do = "put"
        <5>1. PICK d \in {"get", "put", "remove", "undo", "clear"} : d = "put"
          OBVIOUS
        <5>2. /\ Each(d, Above(i)) \in Seq(TierCalls)
              /\ \A n \in DOMAIN Each(d, Above(i)) : Each(d, Above(i))[n].do = d
          BY <1>2, EachFacts, Orders
        <5>3. td = Each(d, Above(i)) \/ td = <<>>
          BY <5>1
        <5> HIDE DEF td
        <5>4. <<>> \in Seq(TierCalls) /\ DOMAIN <<>> = {}
          OBVIOUS
        <5>5. QED
          BY <5>1, <5>2, <5>3, <5>4
      <4>2. td = <<>> \/ PromoteOnRead
        OBVIOUS
      <4>3. c = [call[p] EXCEPT !.entry = e, !.result = "hit", !.todo = td]
        BY <3>1 DEF Found
      <4> HIDE DEF td, c
      <4>4. QED
        BY <1>2, <2>3, <3>1, <4>1, <4>2, <4>3 DEF Calls
    <3>2. CASE call[p].op = "move"
      <4> DEFINE td == MoveFound(call[p], i)
      <4>1. td \in Seq(TierCalls)
        BY <1>2, MoveTodo
      <4>2. c = [call[p] EXCEPT !.entry = e, !.todo = td]
        BY <3>2 DEF Found
      <4>3. td = MoveFound(call[p], i)
        OBVIOUS
      <4> HIDE DEF td, c
      <4>4. QED
        BY <1>2, <2>3, <3>2, <4>1, <4>2, <4>3 DEF Calls
    <3>3. CASE call[p].op = "pin"
      <4> DEFINE td == Each("put", <<i>>) \o Tail(Todo(p))
                 ent == [e EXCEPT !.pinned = call[p].flag]
      <4>1. td \in Seq(TierCalls)
        BY <1>1, <1>2, Instead
      <4>2. c = [call[p] EXCEPT !.entry = ent, !.todo = td]
        BY <3>3 DEF Found, Todo
      <4>3. td = Each("put", <<i>>) \o Tail(Todo(p)) /\ ent \in Entry
            /\ ent = [e EXCEPT !.pinned = call[p].flag]
        BY <2>3
      <4> HIDE DEF td, c, ent
      <4>4. QED
        BY <1>2, <2>3, <3>3, <4>1, <4>2, <4>3 DEF Calls
    <3>4. CASE call[p].op = "prefetch"
      <4> DEFINE td == IF i = call[p].to THEN <<>> ELSE Each("put", <<call[p].to>>)
      <4>1. td \in Seq(TierCalls) /\ \A n \in DOMAIN td : td[n].do = "put"
        <5>1. call[p].to \in Tiers
          BY <1>2 DEF Calls
        <5>2. PICK s \in Seq(Tiers) : s = <<call[p].to>>
          BY <5>1, Orders
        <5>3. td = IF i = call[p].to THEN <<>> ELSE Each("put", s)
          BY <5>2
        <5> HIDE DEF td
        <5>4. QED
          BY <5>3, EachFacts
      <4>2. c = [call[p] EXCEPT !.entry = e, !.todo = td]
        BY <3>4 DEF Found
      <4> HIDE DEF td, c
      <4>3. QED
        BY <1>2, <2>3, <3>4, <4>1, <4>2 DEF Calls
    <3>5. QED
      BY <1>4, <3>1, <3>2, <3>3, <3>4
  <2> HIDE DEF c
  <2>5. SameCall(p) /\ call'[p] = c
    BY <1>b, <2>1, <2>4
  <2>6. MetLive(p)
    BY <1>1, <1>8, <2>1, <2>2, <2>4, <2>5 DEF MetLive, e, i
  <2>7. QED
    BY <1>1, <1>4, <2>4, <2>5, <2>6
<1>9. QED
  BY <1>6, <1>7, <1>8

LEMMA StoreStep ==
    ASSUME TypeInv, NEW p \in Threads, Store(p)
    PROVE  /\ Todo(p) # <<>> /\ Current(p).do = "put" /\ SameCall(p)
           /\ call'[p].todo = Tail(Todo(p)) /\ call'[p].entry = call[p].entry
           /\ call'[p].to = call[p].to /\ call'[p].result = call[p].result
           /\ tier' = [tier EXCEPT ![Current(p).tier] = call[p].entry]
           /\ dead' = dead /\ written' = written
           /\ kept' = \/ kept
                      \/ /\ call[p].op = "put"
                         /\ \A q \in Busy : ~Removing(q) /\ call[q].op # "move"
BY GoesOnward DEF Store, Doing, Carried

LEMMA RemoveStep ==
    ASSUME TypeInv, NEW p \in Threads, Remove(p)
    PROVE  /\ Todo(p) # <<>> /\ Current(p).do \in {"remove", "undo", "clear"} /\ SameCall(p)
           /\ call'[p].todo = Tail(Todo(p)) /\ call'[p].entry = call[p].entry
           /\ call'[p].to = call[p].to /\ call'[p].result = call[p].result
           /\ tier' = [tier EXCEPT ![Current(p).tier] = NoEntry]
           /\ dead' = dead /\ written' = written /\ kept' = kept
BY GoesOnward DEF Remove, Doing

LEMMA ReturnStep ==
    ASSUME TypeInv, NEW p \in Threads, Return(p)
    PROVE  /\ Todo(p) = <<>> /\ call' \in [Threads -> Calls] /\ call'[p] = Idle
           /\ \A q \in Threads \ {p} : call'[q] = call[q]
           /\ tier' = tier /\ clock' = clock /\ begun' = begun /\ written' = written /\ kept' = kept
           /\ dead' = IF call[p].clean /\ call[p].result = "ok" THEN dead \cup call[p].before ELSE dead
BY IdleCall DEF Return, Goto, TypeInv, TypeOK

\* Every step is one of these.
LEMMA Steps ==
    ASSUME TypeInv, Next
    PROVE  \/ \E p \in Threads, new \in Calls : Begin(p, new) /\ Fresh(new)
           \/ \E p \in Threads : Read(p) \/ Store(p) \/ Remove(p)
           \/ \E p \in Threads : Fail(p) \/ AnswerLost(p)
           \/ \E p \in Threads : Return(p)
           \/ \E i \in Tiers : Lose(i)
           \/ Tick
<1>1. ASSUME NEW p \in Threads,
             \/ Put(p) \/ Get(p) \/ Move(p) \/ Invalidate(p)
             \/ SetPinned(p) \/ Clear(p) \/ Prefetch(p)
      PROVE  \E new \in Calls : Begin(p, new) /\ Fresh(new)
  BY <1>1, ReadersBegin, RemoversBegin, PutBegins
<1>2. QED
  BY <1>1 DEF Next, Step

-----------------------------------------------------------------------------
(* The types.                                                              *)

LEMMA InitTypes == Init => TypeInv
<1> SUFFICES ASSUME Init PROVE TypeInv
  OBVIOUS
<1>1. tier \in [Tiers -> Entry \cup {NoEntry}] /\ call \in [Threads -> Calls]
  BY IdleCall DEF Init
<1>2. \A p \in Threads : call[p].now <= clock /\ Shape(call[p])
  BY IdleCall DEF Init
<1>3. begun \in 0..MaxCalls
  BY Constants DEF Init, EngineAssumption
<1>4. QED
  BY <1>1, <1>2, <1>3 DEF Init, TypeInv, TypeOK

\* The rest of a call keeps its shape.
LEMMA ShapeOnward ==
    ASSUME TypeInv, NEW p \in Threads, Todo(p) # <<>>, SameCall(p),
           call'[p].entry = call[p].entry, call'[p].todo = Tail(Todo(p)) \/ call'[p].todo = <<>>
    PROVE  Shape(call'[p])
<1>1. Todo(p) = call[p].todo /\ Shape(call[p]) /\ Todo(p) \in Seq(TierCalls)
  BY CurrentType DEF Todo, TypeInv
<1>2. \A n \in DOMAIN call'[p].todo : n + 1 \in DOMAIN call[p].todo /\ call'[p].todo[n] = call[p].todo[n + 1]
  <2>1. \A n \in DOMAIN Tail(Todo(p)) : n + 1 \in DOMAIN Todo(p) /\ Tail(Todo(p))[n] = Todo(p)[n + 1]
    BY <1>1, TailFacts
  <2>2. CASE call'[p].todo = Tail(Todo(p))
    BY <1>1, <2>1, <2>2
  <2>3. CASE call'[p].todo = <<>>
    BY <2>3
  <2>4. QED
    BY <2>2, <2>3
<1>3. call[p].op # "idle"
  BY <1>1 DEF Shape
<1>4. QED
  BY <1>1, <1>2, <1>3 DEF Shape, SameCall

LEMMA ShapeStep ==
    ASSUME TypeInv, NEW p \in Threads, Read(p) \/ Store(p) \/ Remove(p) \/ Fail(p) \/ AnswerLost(p)
    PROVE  SameCall(p) /\ Shape(call'[p])
<1>1. CASE Store(p) \/ Remove(p)
  BY <1>1, StoreStep, RemoveStep, ShapeOnward
<1>2. CASE Fail(p) \/ AnswerLost(p)
  <2>1. /\ Todo(p) # <<>> /\ SameCall(p) /\ call'[p].entry = call[p].entry
        /\ call'[p].todo = AfterError(p).todo
    BY <1>2, ErrorStep
  <2>2. CASE Current(p).do = "put" /\ call[p].op = "put" /\ call[p].flag
    <3>1. \A n \in DOMAIN call'[p].todo : call'[p].todo[n].do = "undo"
      <4>1. /\ DOMAIN AfterError(p).todo = 1..(Current(p).tier - 1)
            /\ \A n \in 1..(Current(p).tier - 1) : AfterError(p).todo[n].do = "undo"
        BY <2>1, <2>2, Errs
      <4>2. QED
        BY <2>1, <4>1
    <3>2. Shape(call[p])
      BY DEF TypeInv
    <3>3. QED
      BY <2>1, <2>2, <3>1, <3>2 DEF Shape, SameCall
  <2>3. CASE ~(Current(p).do = "put" /\ call[p].op = "put" /\ call[p].flag)
    <3>1. call'[p].todo = Tail(Todo(p)) \/ call'[p].todo = <<>>
      BY <2>1, <2>3, Errs
    <3>2. QED
      BY <2>1, <3>1, ShapeOnward
  <2>4. QED
    BY <2>2, <2>3
<1>3. CASE Read(p)
  <2>1. /\ Todo(p) # <<>> /\ SameCall(p) /\ call[p].op \in {"get", "move", "pin", "prefetch"}
        /\ (Missed(p) \/ MetExpired(p) \/ MetLive(p))
    BY <1>3, ReadStep
  <2>2. /\ Todo(p) = call[p].todo /\ Shape(call[p]) /\ Todo(p) \in Seq(TierCalls)
        /\ Current(p).tier \in Tiers /\ call[p] \in Calls
    BY <2>1, CurrentType DEF Todo, TypeInv
  <2>3. CASE Missed(p)
    BY <2>1, <2>3, ShapeOnward DEF Missed
  <2>4. CASE MetExpired(p)
    <3>1. \A n \in DOMAIN call'[p].todo :
            \/ call'[p].todo[n].do = "remove"
            \/ n \in DOMAIN call[p].todo /\ call'[p].todo[n] = call[p].todo[n]
      <4> DEFINE t == Each("remove", <<Current(p).tier>>) \o Tail(Todo(p))
      <4>1. t[1] = [do |-> "remove", tier |-> Current(p).tier] /\ \A n \in DOMAIN t : n # 1 => n \in DOMAIN Todo(p) /\ t[n] = Todo(p)[n]
        BY <2>1, <2>2, Instead
      <4>2. call'[p].todo = t
        BY <2>4 DEF MetExpired
      <4> HIDE DEF t
      <4>3. QED
        BY <2>2, <4>1, <4>2
    <3>2. call'[p].op = call[p].op /\ call'[p].flag = call[p].flag /\ call'[p].before = call[p].before
          /\ call'[p].entry = call[p].entry
      BY <2>1, <2>4 DEF SameCall, MetExpired
    <3>3. QED
      BY <2>1, <2>2, <3>1, <3>2 DEF Shape
  <2>5. CASE MetLive(p)
    <3> DEFINE e == tier[Current(p).tier]
    <3>1. e \in Entry /\ e # NoEntry
      BY <2>2, <2>5 DEF MetLive, TypeInv, TypeOK
    <3>2. call'[p].entry # NoEntry
      <4>1. call'[p].entry.value = e.value /\ e.value # 0
        BY <2>5, <3>1, Constants DEF MetLive, Entry, Values, EngineAssumption
      <4>2. QED
        BY <4>1 DEF NoEntry
    <3>3. \A n \in DOMAIN call'[p].todo :
            \/ call'[p].todo[n].do = "put" /\ call[p].op \in Copiers
            \/ call'[p].todo[n].do = "remove"
            \/ n \in DOMAIN call[p].todo /\ call'[p].todo[n] = call[p].todo[n]
      <4>1. CASE call[p].op \in {"get", "prefetch"}
        BY <2>5, <4>1 DEF MetLive, Copiers
      <4>2. CASE call[p].op = "move"
        <5> DEFINE t == MoveFound(call[p], Current(p).tier)
        <5>1. /\ t[1] = [do |-> "put", tier |-> call[p].to]
              /\ \A n \in DOMAIN t : n # 1 => t[n] = [do |-> "remove", tier |-> Current(p).tier]
          BY <2>2, MoveTodo
        <5>2. call'[p].todo = t /\ call[p].op \in Copiers
          BY <2>5, <4>2 DEF MetLive, Copiers
        <5> HIDE DEF t
        <5>3. QED
          BY <5>1, <5>2
      <4>3. CASE call[p].op = "pin"
        <5> DEFINE t == Each("put", <<Current(p).tier>>) \o Tail(Todo(p))
        <5>1. t[1] = [do |-> "put", tier |-> Current(p).tier] /\ \A n \in DOMAIN t : n # 1 => n \in DOMAIN Todo(p) /\ t[n] = Todo(p)[n]
          BY <2>1, <2>2, Instead
        <5>2. call'[p].todo = t /\ call[p].op \in Copiers
          BY <2>5, <4>3 DEF MetLive, Copiers
        <5> HIDE DEF t
        <5>3. QED
          BY <2>2, <5>1, <5>2
      <4>4. QED
        BY <2>1, <4>1, <4>2, <4>3
    <3>4. QED
      BY <2>1, <2>2, <3>2, <3>3 DEF Shape, SameCall
  <2>6. QED
    BY <2>1, <2>3, <2>4, <2>5
<1>4. QED
  BY <1>1, <1>2, <1>3, StoreStep, RemoveStep, ErrorStep, ReadStep

LEMMA NextTypes == TypeInv /\ [Next]_vars => TypeInv'
<1> SUFFICES ASSUME TypeInv, [Next]_vars PROVE TypeInv'
  OBVIOUS
<1>1. CASE UNCHANGED vars
  BY <1>1 DEF vars, TypeInv, TypeOK
<1>2. ASSUME NEW p \in Threads, NEW new \in Calls, Begin(p, new), Fresh(new) PROVE TypeInv'
  <2>1. /\ call' \in [Threads -> Calls] /\ begun' \in 0..MaxCalls
        /\ \A q \in Threads : call'[q].now <= clock
    BY <1>2, Begun, Constants DEF TypeInv, TypeOK, EngineAssumption
  <2>2. /\ tier' = tier /\ clock' = clock /\ errors' = errors /\ losses' = losses /\ dead' = dead
    BY <1>2 DEF Begin
  <2>3. written' \subseteq Entry /\ kept' \in BOOLEAN
    BY <1>2 DEF Fresh, TypeInv, TypeOK
  <2>4. Shape(call'[p])
    <3>1. /\ call'[p].op = new.op /\ call'[p].todo = new.todo /\ call'[p].entry = new.entry
          /\ call'[p].flag = new.flag
          /\ call'[p].before = IF new.op \in {"invalidate", "clear"} THEN Stored ELSE {}
      BY <1>2, Begun
    <3>2. Shape(new)
      BY <1>2 DEF Fresh
    <3>3. QED
      BY <3>1, <3>2 DEF Shape
  <2>5. ASSUME NEW q \in Threads \ {p} PROVE Shape(call'[q])
    BY <1>2, <2>5, Begun DEF Shape, TypeInv
  <2>6. QED
    BY <2>1, <2>2, <2>3, <2>4, <2>5 DEF TypeInv, TypeOK
<1>3. ASSUME NEW p \in Threads, Read(p) \/ Store(p) \/ Remove(p) \/ Fail(p) \/ AnswerLost(p)
      PROVE  TypeInv'
  <2>1. SameCall(p) /\ Shape(call'[p])
    BY <1>3, ShapeStep
  <2>2. Todo(p) # <<>> /\ dead' = dead
    BY <1>3, ReadStep, StoreStep, RemoveStep, ErrorStep
  <2>3. tier' \in [Tiers -> Entry \cup {NoEntry}]
    <3>1. /\ tier \in [Tiers -> Entry \cup {NoEntry}] /\ Current(p).tier \in Tiers
          /\ call[p].entry \in Entry \cup {NoEntry}
      BY <2>2, CurrentType DEF TypeInv, TypeOK, Calls
    <3>2. \/ tier' = tier \/ tier' = [tier EXCEPT ![Current(p).tier] = NoEntry]
          \/ tier' = [tier EXCEPT ![Current(p).tier] = call[p].entry]
      BY <1>3, ReadStep, StoreStep, RemoveStep, ErrorStep
    <3>3. QED
      BY <3>1, <3>2
  <2>4. written' \subseteq Entry
    <3>1. CASE Read(p)
      <4>1. /\ Current(p).tier \in Tiers /\ call[p].flag \in BOOLEAN /\ written \subseteq Entry
            /\ tier[Current(p).tier] \in Entry \cup {NoEntry}
        BY <2>2, CurrentType DEF TypeInv, TypeOK, Calls
      <4>2. tier[Current(p).tier] # NoEntry => [tier[Current(p).tier] EXCEPT !.pinned = call[p].flag] \in Entry
        BY <4>1 DEF Entry
      <4>3. QED
        BY <3>1, <4>1, <4>2, ReadStep DEF Missed, MetExpired, MetLive
    <3>2. CASE ~Read(p)
      BY <1>3, <3>2, StoreStep, RemoveStep, ErrorStep DEF TypeInv, TypeOK
    <3>3. QED
      BY <3>1, <3>2
  <2>5. kept' \in BOOLEAN /\ errors' \in Nat /\ losses' \in Nat
    <3>1. kept \in BOOLEAN /\ errors \in Nat /\ losses \in Nat
      BY DEF TypeInv, TypeOK
    <3>2. errors' \in Nat /\ losses' \in Nat
      <4>1. CASE Read(p) \/ Store(p) \/ Remove(p)
        BY <4>1, <3>1 DEF Read, Store, Remove
      <4>2. CASE Fail(p) \/ AnswerLost(p)
        BY <4>2, <3>1 DEF Fail, AnswerLost, Erring
      <4>3. QED
        BY <1>3, <4>1, <4>2
    <3>3. kept' \in BOOLEAN
      BY <1>3, <3>1 DEF Read, Store, Remove, Fail, AnswerLost, Erring
    <3>4. QED
      BY <3>2, <3>3
  <2>6. \A q \in Threads : call'[q].now <= clock' /\ Shape(call'[q])
    BY <2>1 DEF SameCall, TypeInv, TypeOK
  <2>7. QED
    BY <2>1, <2>2, <2>3, <2>4, <2>5, <2>6 DEF TypeInv, TypeOK, SameCall
<1>4. ASSUME NEW p \in Threads, Return(p) PROVE TypeInv'
  <2>1. \A q \in Threads : call'[q].now <= clock' /\ Shape(call'[q])
    BY <1>4, ReturnStep, IdleCall DEF TypeInv, TypeOK
  <2>2. dead' \subseteq Values
    <3>1. call[p].before \subseteq Values
      BY CurrentType DEF Calls
    <3>2. QED
      BY <1>4, <3>1, ReturnStep DEF TypeInv, TypeOK
  <2>3. QED
    BY <1>4, <2>1, <2>2, ReturnStep DEF TypeInv, TypeOK, Return
<1>5. ASSUME NEW i \in Tiers, Lose(i) PROVE TypeInv'
  <2>1. tier' \in [Tiers -> Entry \cup {NoEntry}]
    BY <1>5 DEF Lose, TypeInv, TypeOK
  <2>2. /\ call' = call /\ clock' = clock /\ begun' = begun /\ errors' = errors /\ dead' = dead
        /\ written' = written /\ kept' = FALSE /\ losses' \in Nat
    BY <1>5 DEF Lose, TypeInv, TypeOK
  <2>3. QED
    BY <2>1, <2>2 DEF TypeInv, TypeOK
<1>6. ASSUME Tick PROVE TypeInv'
  <2>1. \A q \in Threads : call[q].now <= clock + 1
    BY DEF TypeInv, TypeOK, Calls
  <2>2. QED
    BY <1>6, <2>1 DEF Tick, TypeInv, TypeOK
<1>7. QED
  BY <1>1, <1>2, <1>3, <1>4, <1>5, <1>6, Steps

\* For every number of tiers and threads and either write policy, the engine's state
\* keeps its types, and a call has left only tier calls of its own kind.
THEOREM TypesKept == Spec => []TypeInv
BY InitTypes, NextTypes, PTL DEF Spec

-----------------------------------------------------------------------------
(* Copies.                                                                 *)

LEMMA InitCopies == Init => CopyInv
BY IdleCall DEF Init, CopyInv, CopiesTrue, CarriedWritten, EnvelopePreserved, ExpiredNotCopied, NoEntry

LEMMA NextCopies == TypeInv /\ CopyInv /\ [Next]_vars => CopyInv'
<1> SUFFICES ASSUME TypeInv, CopyInv, [Next]_vars PROVE CopyInv'
  OBVIOUS
<1> USE DEF CopyInv, CopiesTrue
<1>1. CASE UNCHANGED vars
  BY <1>1 DEF vars, CarriedWritten, EnvelopePreserved, ExpiredNotCopied
<1>2. ASSUME NEW p \in Threads, NEW new \in Calls, Begin(p, new), Fresh(new) PROVE CopyInv'
  <2>1. /\ call'[p].op = new.op /\ call'[p].entry = new.entry /\ call'[p].now = clock
        /\ \A q \in Threads \ {p} : /\ call'[q].op = call[q].op /\ call'[q].entry = call[q].entry
                                    /\ call'[q].now = call[q].now
    BY <1>2, Begun
  <2>2. /\ tier' = tier /\ written \subseteq written'
        /\ IF new.op = "put" THEN new.entry \in written' ELSE new.entry = NoEntry
    BY <1>2 DEF Begin, Fresh
  <2>3. EnvelopePreserved'
    BY <2>2 DEF EnvelopePreserved
  <2>4. CarriedWritten'
    BY <2>1, <2>2 DEF CarriedWritten
  <2>5. ExpiredNotCopied'
    BY <2>1, <2>2 DEF ExpiredNotCopied, NoEntry
  <2>6. QED
    BY <2>3, <2>4, <2>5
<1>3. ASSUME NEW p \in Threads, Read(p) PROVE CopyInv'
  <2>1. /\ SameCall(p) /\ tier' = tier /\ (Missed(p) \/ MetExpired(p) \/ MetLive(p))
        /\ Current(p).tier \in Tiers
    BY <1>3, ReadStep, CurrentType
  <2>2. written \subseteq written'
    BY <2>1 DEF Missed, MetExpired, MetLive
  <2>3. call'[p].entry = NoEntry \/ call'[p].entry \in written'
    BY <2>1, <2>2 DEF Missed, MetExpired, MetLive, EnvelopePreserved, CarriedWritten
  <2>4. call'[p].op = "put" \/ call'[p].entry.expires = 0 \/ call'[p].entry.expires > call'[p].now
    <3>1. CASE Missed(p) \/ MetExpired(p)
      BY <2>1, <3>1 DEF Missed, MetExpired, SameCall, ExpiredNotCopied
    <3>2. CASE MetLive(p)
      <4>1. tier[Current(p).tier] \in Entry
        BY <2>1, <3>2 DEF MetLive, TypeInv, TypeOK
      <4>2. call'[p].entry.expires = tier[Current(p).tier].expires
        BY <3>2, <4>1 DEF MetLive, Entry
      <4>3. QED
        BY <2>1, <3>2, <4>2 DEF MetLive, SameCall
    <3>3. QED
      BY <2>1, <3>1, <3>2
  <2>5. QED
    BY <2>1, <2>2, <2>3, <2>4 DEF SameCall, EnvelopePreserved, CarriedWritten, ExpiredNotCopied
<1>4. ASSUME NEW p \in Threads, Store(p) \/ Remove(p) \/ Fail(p) \/ AnswerLost(p) PROVE CopyInv'
  <2>1. /\ Todo(p) # <<>> /\ SameCall(p) /\ call'[p].entry = call[p].entry /\ written' = written
        /\ \/ tier' = tier \/ tier' = [tier EXCEPT ![Current(p).tier] = NoEntry]
           \/ tier' = [tier EXCEPT ![Current(p).tier] = call[p].entry]
    BY <1>4, StoreStep, RemoveStep, ErrorStep
  <2>2. Current(p).tier \in Tiers /\ tier \in [Tiers -> Entry \cup {NoEntry}]
    BY <2>1, CurrentType DEF TypeInv, TypeOK
  <2>3. EnvelopePreserved'
    BY <2>1, <2>2 DEF EnvelopePreserved, CarriedWritten
  <2>4. CarriedWritten' /\ ExpiredNotCopied'
    BY <2>1 DEF SameCall, CarriedWritten, ExpiredNotCopied
  <2>5. QED
    BY <2>3, <2>4
<1>5. ASSUME NEW p \in Threads, Return(p) PROVE CopyInv'
  BY <1>5, ReturnStep, IdleCall DEF EnvelopePreserved, CarriedWritten, ExpiredNotCopied, NoEntry
<1>6. ASSUME NEW i \in Tiers, Lose(i) PROVE CopyInv'
  BY <1>6 DEF Lose, EnvelopePreserved, CarriedWritten, ExpiredNotCopied, TypeInv, TypeOK
<1>7. ASSUME Tick PROVE CopyInv'
  BY <1>7 DEF Tick, EnvelopePreserved, CarriedWritten, ExpiredNotCopied
<1>8. QED
  BY <1>1, <1>2, <1>3, <1>4, <1>5, <1>6, <1>7, Steps

\* However many threads promote, move, prefetch, pin and put at once over any tiers,
\* every entry in a tier is one a put or set_pinned stored, with its value, expiry
\* and pin together, and no call serves or copies what had expired when it began.
THEOREM CopiesAlwaysTrue == Spec => []CopiesTrue
<1>1. CopyInv => CopiesTrue
  BY DEF CopyInv
<1>2. QED
  BY <1>1, InitTypes, NextTypes, InitCopies, NextCopies, PTL DEF Spec

-----------------------------------------------------------------------------
(* Invalidation.                                                           *)

\* The values of running puts are not yet stored.
LEMMA StoredApart ==
    ASSUME TypeInv, Numbered
    PROVE  /\ Stored \subseteq 1..begun
           /\ \A q \in Threads : call[q].op = "put" => call[q].entry.value \notin Stored
BY DEF Stored, Busy

LEMMA InitFinal == Init => FinalInv /\ RollbackInv /\ KeptInv
<1> SUFFICES ASSUME Init PROVE FinalInv /\ RollbackInv /\ KeptInv
  OBVIOUS
<1>1. \A p \in Threads : /\ call[p].op = "idle" /\ call[p].entry = NoEntry
                         /\ call[p].todo = <<>> /\ call[p].before = {}
  BY IdleCall DEF Init, Shape
<1>2. \A i \in Tiers : tier[i] = NoEntry
  BY DEF Init
<1>3. begun = 0 /\ dead = {} /\ kept = FALSE /\ NoEntry.value = 0
  BY DEF Init, NoEntry
<1>4. Numbered
  BY <1>1, <1>2, <1>3 DEF Numbered
<1>5. QED
  BY <1>1, <1>3, <1>4
     DEF FinalInv, RollbackInv, KeptInv, CleanAlone, InvalidationOnWay, InvalidationFinal,
         PutsApart, PutOrder, RollbackOnWay, BlockKept, OnlyMovesRemove, OneMove, Copiers, Todo

LEMMA NextNumbered == TypeInv /\ Numbered /\ [Next]_vars => Numbered'
<1> SUFFICES ASSUME TypeInv, Numbered, [Next]_vars PROVE Numbered'
  OBVIOUS
<1>0. begun \in Nat /\ NoEntry.value = 0
  BY DEF TypeInv, TypeOK, NoEntry
<1>1. CASE UNCHANGED vars
  BY <1>1 DEF vars, Numbered
<1>2. ASSUME NEW p \in Threads, NEW new \in Calls, Begin(p, new), Fresh(new) PROVE Numbered'
  <2>1. /\ begun' = begun + 1 /\ call'[p].entry = new.entry
        /\ call'[p].before = IF new.op \in {"invalidate", "clear"} THEN Stored ELSE {}
        /\ \A q \in Threads \ {p} : call'[q].entry = call[q].entry /\ call'[q].before = call[q].before
    BY <1>2, Begun
  <2>2. new.entry.value <= begun + 1
    BY <1>0, <1>2 DEF Fresh
  <2>3. tier' = tier /\ dead' = dead /\ tier \in [Tiers -> Entry \cup {NoEntry}]
    BY <1>2 DEF Begin, TypeInv, TypeOK
  <2>4. /\ \A i \in Tiers : tier[i].value \in Int
        /\ \A q \in Threads : call[q].entry.value \in Int
    BY <1>0, <2>3 DEF Entry, Values, TypeInv, TypeOK, Calls
  <2>5. QED
    BY <1>0, <2>1, <2>2, <2>3, <2>4, StoredApart DEF Numbered
<1>3. ASSUME NEW p \in Threads, Read(p) PROVE Numbered'
  <2>1. /\ SameCall(p) /\ tier' = tier /\ dead' = dead /\ (Missed(p) \/ MetExpired(p) \/ MetLive(p))
        /\ Current(p).tier \in Tiers
    BY <1>3, ReadStep, CurrentType
  <2>2. call'[p].entry.value <= begun
    <3>1. CASE MetLive(p)
      <4>1. tier[Current(p).tier] \in Entry
        BY <2>1, <3>1 DEF MetLive, TypeInv, TypeOK
      <4>2. call'[p].entry.value = tier[Current(p).tier].value
        BY <3>1, <4>1 DEF MetLive, Entry
      <4>3. QED
        BY <2>1, <4>2 DEF Numbered
    <3>2. QED
      BY <2>1, <3>1 DEF Missed, MetExpired, Numbered
  <2>3. QED
    BY <2>1, <2>2 DEF Numbered, SameCall
<1>4. ASSUME NEW p \in Threads, Store(p) \/ Remove(p) \/ Fail(p) \/ AnswerLost(p) PROVE Numbered'
  <2>1. /\ Todo(p) # <<>> /\ SameCall(p) /\ call'[p].entry = call[p].entry /\ dead' = dead
        /\ \/ tier' = tier \/ tier' = [tier EXCEPT ![Current(p).tier] = NoEntry]
           \/ tier' = [tier EXCEPT ![Current(p).tier] = call[p].entry]
    BY <1>4, StoreStep, RemoveStep, ErrorStep
  <2>2. Current(p).tier \in Tiers /\ tier \in [Tiers -> Entry \cup {NoEntry}]
    BY <2>1, CurrentType DEF TypeInv, TypeOK
  <2>3. \A i \in Tiers : tier'[i].value <= begun
    BY <1>0, <2>1, <2>2 DEF Numbered
  <2>4. QED
    BY <1>0, <2>1, <2>3 DEF SameCall, Numbered
<1>5. ASSUME NEW p \in Threads, Return(p) PROVE Numbered'
  <2>1. Idle.entry.value = 0 /\ Idle.before = {}
    BY <1>0, IdleCall DEF Shape
  <2>2. /\ call'[p] = Idle /\ \A q \in Threads \ {p} : call'[q] = call[q]
        /\ tier' = tier /\ begun' = begun /\ dead' \subseteq dead \cup call[p].before
    BY <1>5, ReturnStep
  <2>3. /\ 0 <= begun /\ call[p].before \subseteq 1..begun /\ dead \subseteq 1..begun
        /\ \A q \in Threads : call[q].entry.value <= begun /\ call[q].before \subseteq 1..begun
    BY <1>0 DEF Numbered
  <2>4. \A q \in Threads : call'[q].entry.value <= begun /\ call'[q].before \subseteq 1..begun
    BY <2>1, <2>2, <2>3
  <2>5. QED
    BY <2>2, <2>3, <2>4 DEF Numbered
<1>6. ASSUME NEW i \in Tiers, Lose(i) PROVE Numbered'
  BY <1>0, <1>6 DEF Lose, Numbered, TypeInv, TypeOK
<1>7. ASSUME Tick PROVE Numbered'
  BY <1>7 DEF Tick, Numbered
<1>8. QED
  BY <1>1, <1>2, <1>3, <1>4, <1>5, <1>6, <1>7, Steps

\* A clean call stays alone.
LEMMA NextAlone == TypeInv /\ CleanAlone /\ [Next]_vars => CleanAlone'
<1> SUFFICES ASSUME TypeInv, CleanAlone, [Next]_vars PROVE CleanAlone'
  OBVIOUS
<1>1. CASE call' = call
  BY <1>1 DEF CleanAlone
<1>2. ASSUME NEW p \in Threads, NEW new \in Calls, Begin(p, new), Fresh(new) PROVE CleanAlone'
  <2>1. /\ call'[p].op = new.op
        /\ call'[p].clean => \A q \in Threads : call[q].op \notin Copiers
        /\ \A q \in Threads \ {p} :
             /\ call'[q].op = call[q].op
             /\ call'[q].clean => call[q].clean
             /\ call'[q].clean /\ call[q].op # "idle" => new.op \notin Copiers
    BY <1>2, Begun
  <2>2. "put" \notin Copiers /\ "invalidate" \notin Copiers /\ "clear" \notin Copiers
    BY DEF Copiers
  <2>3. QED
    BY <2>1, <2>2 DEF CleanAlone
<1>3. ASSUME NEW p \in Threads, SameCall(p) PROVE CleanAlone'
  BY <1>3 DEF SameCall, CleanAlone
<1>4. ASSUME NEW p \in Threads, Return(p) PROVE CleanAlone'
  <2>1. "idle" \notin Copiers
    BY DEF Copiers
  <2>2. QED
    BY <1>4, <2>1, ReturnStep, IdleCall DEF CleanAlone
<1>5. QED
  BY <1>1, <1>2, <1>3, <1>4, Steps, ShapeStep DEF vars, Lose, Tick

\* A clean removal that has not failed.
Cleaning(p) == call[p].op \in {"invalidate", "clear"} /\ call[p].clean /\ call[p].result = "ok"

\* A tier that changes gets nothing, or what a call that stores carries.
LEMMA TierStep ==
    ASSUME TypeInv, NEW p \in Threads, Store(p) \/ Remove(p) \/ Fail(p) \/ AnswerLost(p)
    PROVE  /\ Todo(p) # <<>> /\ Current(p).tier \in Tiers
           /\ \A i \in Tiers : i # Current(p).tier => tier'[i] = tier[i]
           /\ \/ tier' = tier
              \/ tier'[Current(p).tier] = NoEntry
              \/ /\ tier'[Current(p).tier] = call[p].entry
                 /\ Current(p).do = "put" /\ call[p].op \in Copiers \cup {"put"}
<1>1. /\ Todo(p) # <<>>
      /\ \/ tier' = tier \/ tier' = [tier EXCEPT ![Current(p).tier] = NoEntry]
         \/ tier' = [tier EXCEPT ![Current(p).tier] = call[p].entry] /\ Current(p).do = "put"
  BY StoreStep, RemoveStep, ErrorStep
<1>2. /\ Current(p).tier \in Tiers /\ tier \in [Tiers -> Entry \cup {NoEntry}]
      /\ Current(p) = Todo(p)[1] /\ 1 \in DOMAIN Todo(p)
  BY <1>1, CurrentType DEF TypeInv, TypeOK
<1>3. Current(p).do = "put" => call[p].op \in Copiers \cup {"put"}
  BY <1>2 DEF TypeInv, Shape, Todo
<1>4. QED
  BY <1>1, <1>2, <1>3

LEMMA NextFinal == TypeInv /\ FinalInv /\ [Next]_vars => FinalInv'
<1> SUFFICES ASSUME TypeInv, FinalInv, [Next]_vars PROVE FinalInv'
  OBVIOUS
<1>0. Numbered /\ CleanAlone /\ InvalidationOnWay /\ InvalidationFinal
  BY DEF FinalInv
<1>a. Numbered' /\ CleanAlone'
  BY <1>0, NextNumbered, NextAlone
<1>b. begun \in Nat /\ NoEntry.value = 0 /\ 0 \notin dead /\ \A p \in Threads : 0 \notin call[p].before
  BY <1>0 DEF Numbered, TypeInv, TypeOK, NoEntry
<1>c. "put" \notin Copiers /\ "invalidate" \notin Copiers /\ "clear" \notin Copiers
  BY DEF Copiers
<1> SUFFICES InvalidationOnWay' /\ InvalidationFinal'
  BY <1>a DEF FinalInv
<1>1. CASE UNCHANGED vars
  BY <1>0, <1>1 DEF vars, InvalidationOnWay, InvalidationFinal, Todo
<1>2. ASSUME NEW p \in Threads, NEW new \in Calls, Begin(p, new), Fresh(new)
      PROVE  InvalidationOnWay' /\ InvalidationFinal'
  <2>1. /\ call'[p].op = new.op /\ call'[p].entry = new.entry /\ call'[p].todo = new.todo
        /\ call'[p].before = IF new.op \in {"invalidate", "clear"} THEN Stored ELSE {}
        /\ \A q \in Threads \ {p} :
             /\ call'[q].op = call[q].op /\ call'[q].entry = call[q].entry
             /\ call'[q].before = call[q].before /\ call'[q].result = call[q].result
             /\ call'[q].todo = call[q].todo
             /\ call'[q].clean => call[q].clean
    BY <1>2, Begun
  <2>2. tier' = tier /\ dead' = dead
    BY <1>2 DEF Begin
  <2>3. /\ new.op = "put" => new.entry.value = begun + 1
        /\ new.op # "put" => new.entry.value = 0
        /\ new.op \in {"invalidate", "clear"} =>
             \A i \in Tiers : \E n \in DOMAIN new.todo : new.todo[n].tier = i
    BY <1>b, <1>2 DEF Fresh
  <2>4. begun + 1 \notin dead /\ \A q \in Threads : begun + 1 \notin call[q].before
    BY <1>0, <1>b DEF Numbered
  <2>5. InvalidationFinal'
    BY <1>0, <1>b, <2>1, <2>2, <2>3, <2>4 DEF InvalidationFinal
  <2>6. ASSUME NEW r \in Threads, Cleaning(r)'
        PROVE  /\ \A i \in Tiers : tier'[i].value \in call'[r].before =>
                                   \E n \in DOMAIN Todo(r)' : Todo(r)'[n].tier = i
               /\ \A q \in Threads : call'[q].op = "put" => call'[q].entry.value \notin call'[r].before
    <3>1. CASE r = p
      <4>1. new.op \in {"invalidate", "clear"} /\ call'[r].before = Stored
        BY <2>1, <2>6, <3>1 DEF Cleaning
      <4>2. \A i \in Tiers : \E n \in DOMAIN Todo(r)' : Todo(r)'[n].tier = i
        BY <2>1, <2>3, <3>1, <4>1 DEF Todo
      <4>3. \A q \in Threads : call'[q].op = "put" => call'[q].entry.value \notin Stored
        BY <1>0, <2>1, <3>1, <4>1, StoredApart
      <4>4. QED
        BY <4>1, <4>2, <4>3
    <3>2. CASE r # p
      <4>1. Cleaning(r) /\ call'[r].before = call[r].before /\ Todo(r)' = Todo(r)
        BY <2>1, <2>6, <3>2 DEF Cleaning, Todo
      <4>2. \A i \in Tiers : tier[i].value \in call[r].before => \E n \in DOMAIN Todo(r) : Todo(r)[n].tier = i
        BY <1>0, <4>1 DEF InvalidationOnWay, Cleaning
      <4>3. \A q \in Threads : call[q].op = "put" => call[q].entry.value \notin call[r].before
        BY <1>0, <4>1 DEF InvalidationOnWay, Cleaning
      <4>4. QED
        BY <2>1, <2>2, <2>3, <2>4, <4>1, <4>2, <4>3
    <3>3. QED
      BY <3>1, <3>2
  <2>7. QED
    BY <2>5, <2>6 DEF InvalidationOnWay, Cleaning
<1>3. ASSUME NEW p \in Threads, Read(p) PROVE InvalidationOnWay' /\ InvalidationFinal'
  <2>1. /\ SameCall(p) /\ tier' = tier /\ dead' = dead
        /\ (Missed(p) \/ MetExpired(p) \/ MetLive(p)) /\ Current(p).tier \in Tiers
        /\ call[p].op \notin {"put", "invalidate", "clear"}
    BY <1>3, ReadStep, CurrentType
  <2>2. call'[p].op \in Copiers => call'[p].entry.value \notin dead
    <3>1. CASE MetLive(p)
      <4>1. tier[Current(p).tier] \in Entry
        BY <2>1, <3>1 DEF MetLive, TypeInv, TypeOK
      <4>2. call'[p].entry.value = tier[Current(p).tier].value
        BY <3>1, <4>1 DEF MetLive, Entry
      <4>3. QED
        BY <1>0, <2>1, <4>2 DEF InvalidationFinal
    <3>2. QED
      BY <1>0, <2>1, <3>1 DEF Missed, MetExpired, InvalidationFinal, SameCall
  <2>3. InvalidationFinal'
    BY <1>0, <2>1, <2>2 DEF InvalidationFinal, SameCall
  <2>4. InvalidationOnWay'
    BY <1>0, <2>1 DEF InvalidationOnWay, SameCall, Todo
  <2>5. QED
    BY <2>3, <2>4
<1>4. ASSUME NEW p \in Threads, Store(p) \/ Remove(p) \/ Fail(p) \/ AnswerLost(p)
      PROVE  InvalidationOnWay' /\ InvalidationFinal'
  <2>1. /\ SameCall(p) /\ call'[p].entry = call[p].entry /\ dead' = dead
    BY <1>4, StoreStep, RemoveStep, ErrorStep
  <2>2. /\ Todo(p) # <<>> /\ Current(p).tier \in Tiers
        /\ \A i \in Tiers : i # Current(p).tier => tier'[i] = tier[i]
        /\ \/ tier' = tier
           \/ tier'[Current(p).tier] = NoEntry
           \/ /\ tier'[Current(p).tier] = call[p].entry
              /\ Current(p).do = "put" /\ call[p].op \in Copiers \cup {"put"}
    BY <1>4, TierStep
  <2>3. InvalidationFinal'
    <3>1. \A i \in Tiers : tier'[i].value \notin dead
      BY <1>0, <1>b, <2>2 DEF InvalidationFinal
    <3>2. QED
      BY <1>0, <2>1, <3>1 DEF InvalidationFinal, SameCall
  <2>4. ASSUME NEW r \in Threads, Cleaning(r)'
        PROVE  /\ \A i \in Tiers : tier'[i].value \in call'[r].before =>
                                   \E n \in DOMAIN Todo(r)' : Todo(r)'[n].tier = i
               /\ \A q \in Threads : call'[q].op = "put" => call'[q].entry.value \notin call'[r].before
    <3>1. Cleaning(r) /\ call'[r].before = call[r].before
      <4>1. CASE r = p
        <5>1. Store(p) \/ Remove(p)
          BY <1>4, <2>4, <4>1, ErrorStep DEF Cleaning
        <5>2. QED
          BY <2>1, <2>4, <4>1, <5>1, StoreStep, RemoveStep DEF Cleaning, SameCall
      <4>2. CASE r # p
        BY <2>1, <2>4, <4>2 DEF Cleaning, SameCall
      <4>3. QED
        BY <4>1, <4>2
    <3>2. /\ \A i \in Tiers : tier[i].value \in call[r].before => \E n \in DOMAIN Todo(r) : Todo(r)[n].tier = i
          /\ \A q \in Threads : call[q].op = "put" => call[q].entry.value \notin call[r].before
      BY <1>0, <3>1 DEF InvalidationOnWay, Cleaning
    <3>3. call[p].op \notin Copiers
      BY <1>0, <3>1 DEF CleanAlone, Cleaning
    <3>4. \A i \in Tiers : tier'[i].value \in call[r].before => tier[i].value \in call[r].before
      BY <1>b, <2>2, <3>2, <3>3
    <3>5. CASE r # p
      BY <2>1, <3>1, <3>2, <3>4, <3>5 DEF SameCall, Todo
    <3>6. CASE r = p
      <4>1. Remove(p)
        <5>1. ~Fail(p) /\ ~AnswerLost(p)
          BY <2>4, <3>6, ErrorStep DEF Cleaning
        <5>2. Store(p) => call[p].op \in Copiers \cup {"put"}
          <6>1. Store(p) => Todo(p) # <<>> /\ Current(p).do = "put"
            BY StoreStep
          <6>2. Current(p) = Todo(p)[1] /\ 1 \in DOMAIN Todo(p)
            BY <2>2, CurrentType
          <6>3. QED
            BY <6>1, <6>2 DEF TypeInv, Shape, Todo
        <5>3. QED
          BY <1>4, <1>c, <3>1, <3>6, <5>1, <5>2 DEF Cleaning
      <4>2. tier'[Current(p).tier] = NoEntry /\ Todo(p)' = Tail(Todo(p)) /\ Todo(p) \in Seq(TierCalls)
        BY <2>2, <4>1, RemoveStep, CurrentType DEF Todo, TypeInv, TypeOK
      <4>3. ASSUME NEW i \in Tiers, tier'[i].value \in call[p].before
            PROVE  \E n \in DOMAIN Todo(p)' : Todo(p)'[n].tier = i
        <5>1. i # Current(p).tier
          BY <1>b, <4>2, <4>3
        <5>2. PICK n \in DOMAIN Todo(p) : Todo(p)[n].tier = i
          BY <3>2, <3>4, <3>6, <4>3
        <5>3. n # 1
          BY <2>2, <5>1, <5>2, CurrentType
        <5>4. n - 1 \in DOMAIN Tail(Todo(p)) /\ Tail(Todo(p))[n - 1] = Todo(p)[n]
          BY <2>2, <4>2, <5>3, TailFacts
        <5>5. QED
          BY <4>2, <5>2, <5>4
      <4>4. QED
        BY <2>1, <3>1, <3>2, <3>6, <4>3 DEF SameCall
    <3>7. QED
      BY <3>5, <3>6
  <2>5. QED
    BY <2>3, <2>4 DEF InvalidationOnWay, Cleaning
<1>5. ASSUME NEW p \in Threads, Return(p) PROVE InvalidationOnWay' /\ InvalidationFinal'
  <2>1. /\ Todo(p) = <<>> /\ call'[p] = Idle /\ \A q \in Threads \ {p} : call'[q] = call[q]
    BY <1>5, ReturnStep
  <2>2. /\ tier' = tier
        /\ dead' = IF call[p].clean /\ call[p].result = "ok" THEN dead \cup call[p].before ELSE dead
    BY <1>5, ReturnStep
  <2>3. Idle.op \notin {"put", "invalidate", "clear"} /\ Idle.op \notin Copiers
    BY IdleCall DEF Copiers
  <2>4. InvalidationOnWay'
    BY <1>0, <2>1, <2>2, <2>3 DEF InvalidationOnWay, Todo
  <2>5. CASE Cleaning(p)
    <3>1. \A i \in Tiers : tier[i].value \notin call[p].before
      BY <1>0, <2>1, <2>5 DEF InvalidationOnWay, Cleaning
    <3>2. \A q \in Threads : call[q].op \in Copiers \cup {"put"} => call[q].entry.value \notin call[p].before
      BY <1>0, <2>5 DEF InvalidationOnWay, Cleaning, CleanAlone
    <3>3. InvalidationFinal'
      BY <1>0, <2>1, <2>2, <2>3, <3>1, <3>2 DEF InvalidationFinal
    <3>4. QED
      BY <2>4, <3>3
  <2>6. CASE ~Cleaning(p)
    <3>1. dead' = dead
      BY <2>2, <2>6 DEF Cleaning, TypeInv, Shape
    <3>2. InvalidationFinal'
      BY <1>0, <2>1, <2>2, <2>3, <3>1 DEF InvalidationFinal
    <3>3. QED
      BY <2>4, <3>2
  <2>7. QED
    BY <2>5, <2>6
<1>6. ASSUME NEW j \in Tiers, Lose(j) PROVE InvalidationOnWay' /\ InvalidationFinal'
  <2>1. /\ call' = call /\ dead' = dead
        /\ \A i \in Tiers : tier'[i] = tier[i] \/ tier'[i] = NoEntry
    BY <1>6 DEF Lose, TypeInv, TypeOK
  <2>2. InvalidationFinal'
    BY <1>0, <1>b, <2>1 DEF InvalidationFinal
  <2>3. InvalidationOnWay'
    BY <1>0, <1>b, <2>1 DEF InvalidationOnWay, Todo
  <2>4. QED
    BY <2>2, <2>3
<1>7. CASE Tick
  BY <1>0, <1>7 DEF Tick, InvalidationOnWay, InvalidationFinal, Todo
<1>8. QED
  BY <1>1, <1>2, <1>3, <1>4, <1>5, <1>6, <1>7, Steps

\* For any tiers and threads and either policy, what invalidate or clear removed while
\* no promotion, move, pin or prefetch overlapped it is never stored again, whatever
\* puts, reads, rollbacks and failures interleave with it and come after.
THEOREM InvalidationsFinal == Spec => []InvalidationFinal
<1>1. Init => FinalInv
  BY InitFinal
<1>2. FinalInv => InvalidationFinal
  BY DEF FinalInv
<1>3. QED
  BY <1>1, <1>2, InitTypes, NextTypes, NextFinal, PTL DEF Spec

-----------------------------------------------------------------------------
(* Rollback.                                                               *)

\* A put has a value of its own, and left to do only writes or undos.
LEMMA PutCalls ==
    ASSUME TypeInv, NEW p \in Threads, call[p].op = "put"
    PROVE  /\ call[p].entry \in Entry /\ call[p].entry.value \in Nat \ {0}
           /\ \A n \in DOMAIN Todo(p) : Todo(p)[n].do \in {"put", "undo"}
<1>1. call[p].entry \in Entry /\ Shape(call[p]) /\ Todo(p) \in Seq(TierCalls)
  BY CurrentType DEF TypeInv, TypeOK, Calls, Shape
<1>2. call[p].entry.value \in Nat \ {0}
  BY <1>1 DEF Entry, Values
<1>3. \A n \in DOMAIN Todo(p) : Todo(p)[n] \in TierCalls
  BY <1>1
<1>4. \A n \in DOMAIN Todo(p) : Todo(p)[n].do \in {"put", "undo"}
  BY <1>1, <1>3 DEF TierCalls, Shape, Todo
<1>5. QED
  BY <1>1, <1>2, <1>4

LEMMA NextApart == TypeInv /\ Numbered /\ PutsApart /\ [Next]_vars => PutsApart'
<1> SUFFICES ASSUME TypeInv, Numbered, PutsApart, [Next]_vars PROVE PutsApart'
  OBVIOUS
<1>1. CASE call' = call
  BY <1>1 DEF PutsApart
<1>2. ASSUME NEW p \in Threads, NEW new \in Calls, Begin(p, new), Fresh(new) PROVE PutsApart'
  <2>1. /\ call'[p].op = new.op /\ call'[p].entry = new.entry
        /\ \A q \in Threads \ {p} : call'[q].op = call[q].op /\ call'[q].entry = call[q].entry
    BY <1>2, Begun
  <2>2. new.op = "put" => new.entry.value = begun + 1
    BY <1>2 DEF Fresh
  <2>3. \A q \in Threads : call[q].op = "put" => call[q].entry.value # begun + 1
    BY PutCalls DEF Numbered, TypeInv, TypeOK
  <2>4. QED
    BY <2>1, <2>2, <2>3 DEF PutsApart
<1>3. ASSUME NEW p \in Threads, Read(p) PROVE PutsApart'
  BY <1>3, ReadStep DEF PutsApart, SameCall
<1>4. ASSUME NEW p \in Threads, Store(p) \/ Remove(p) \/ Fail(p) \/ AnswerLost(p) PROVE PutsApart'
  <2>1. SameCall(p) /\ call'[p].entry = call[p].entry
    BY <1>4, StoreStep, RemoveStep, ErrorStep
  <2>2. QED
    BY <2>1 DEF PutsApart, SameCall
<1>5. ASSUME NEW p \in Threads, Return(p) PROVE PutsApart'
  BY <1>5, ReturnStep, IdleCall DEF PutsApart
<1>6. QED
  BY <1>1, <1>2, <1>3, <1>4, <1>5, Steps DEF vars, Lose, Tick

\* One call's part of PutOrder.
Ordered(p) ==
    IF call[p].result = "ok"
    THEN \A n \in DOMAIN Todo(p) :
           /\ Todo(p)[n].do = "put"
           /\ \A m \in DOMAIN Todo(p) : m < n => Todo(p)[m].tier < Todo(p)[n].tier
    ELSE \A n \in DOMAIN Todo(p) : Todo(p)[n].do = "undo"

LEMMA NextOrder == TypeInv /\ PutOrder /\ [Next]_vars => PutOrder'
<1> SUFFICES ASSUME TypeInv, PutOrder, [Next]_vars PROVE PutOrder'
  OBVIOUS
<1>1. CASE call' = call
  BY <1>1 DEF PutOrder, Todo
<1>2. ASSUME NEW p \in Threads, NEW new \in Calls, Begin(p, new), Fresh(new) PROVE PutOrder'
  <2>1. /\ call'[p].op = new.op /\ call'[p].todo = new.todo /\ call'[p].result = "ok"
        /\ call'[p].flag = new.flag
        /\ \A q \in Threads \ {p} : /\ call'[q].op = call[q].op /\ call'[q].todo = call[q].todo
                                    /\ call'[q].flag = call[q].flag /\ call'[q].result = call[q].result
    BY <1>2, Begun
  <2>2. new.op = "put" =>
          /\ \A n \in DOMAIN new.todo : new.todo[n].do = "put"
          /\ new.flag => \A m, n \in DOMAIN new.todo : m < n => new.todo[m].tier < new.todo[n].tier
    BY <1>2 DEF Fresh
  <2>3. ASSUME NEW q \in Threads, q # p, call'[q].op = "put", call'[q].flag PROVE Ordered(q)'
    BY <2>1, <2>3 DEF PutOrder, Ordered, Todo
  <2>4. ASSUME call'[p].op = "put", call'[p].flag PROVE Ordered(p)'
    BY <2>1, <2>2, <2>4 DEF Ordered, Todo
  <2>5. QED
    BY <2>3, <2>4 DEF PutOrder, Ordered
<1>3. ASSUME NEW p \in Threads, Read(p) PROVE PutOrder'
  BY <1>3, ReadStep DEF PutOrder, SameCall, Todo
<1>4. ASSUME NEW p \in Threads, Store(p) \/ Remove(p) PROVE PutOrder'
  <2>1. /\ SameCall(p) /\ Todo(p) # <<>> /\ Todo(p)' = Tail(Todo(p))
        /\ call'[p].result = call[p].result
    BY <1>4, StoreStep, RemoveStep DEF Todo
  <2>2. /\ Todo(p) \in Seq(TierCalls) /\ DOMAIN Todo(p) = 1..Len(Todo(p)) /\ Len(Todo(p)) \in Nat
        /\ \A n \in DOMAIN Tail(Todo(p)) : n + 1 \in DOMAIN Todo(p) /\ Tail(Todo(p))[n] = Todo(p)[n + 1]
        /\ DOMAIN Tail(Todo(p)) \subseteq Int
    BY <2>1, CurrentType, TailFacts
  <2>3. ASSUME call[p].op = "put", call[p].flag PROVE Ordered(p)'
    <3>1. Ordered(p)
      BY <2>3 DEF PutOrder, Ordered
    <3>2. QED
      BY <2>1, <2>2, <3>1 DEF Ordered
  <2>4. ASSUME NEW q \in Threads \ {p}, call[q].op = "put", call[q].flag PROVE Ordered(q)'
    BY <2>1, <2>4 DEF PutOrder, Ordered, SameCall, Todo
  <2>5. QED
    BY <2>1, <2>3, <2>4 DEF PutOrder, Ordered, SameCall
<1>5. ASSUME NEW p \in Threads, Fail(p) \/ AnswerLost(p) PROVE PutOrder'
  <2>1. /\ SameCall(p) /\ Todo(p) # <<>> /\ Todo(p)' = AfterError(p).todo
        /\ call'[p].result # "ok"
    BY <1>5, ErrorStep DEF Todo
  <2>2. ASSUME call[p].op = "put", call[p].flag PROVE Ordered(p)'
    <3>1. CASE Current(p).do = "put"
      <4>1. /\ DOMAIN AfterError(p).todo = 1..(Current(p).tier - 1)
            /\ \A n \in 1..(Current(p).tier - 1) : AfterError(p).todo[n].do = "undo"
        BY <2>1, <2>2, <3>1, Errs
      <4>2. QED
        BY <2>1, <4>1 DEF Ordered
    <3>2. CASE Current(p).do # "put"
      <4>1. Current(p) = Todo(p)[1] /\ 1 \in DOMAIN Todo(p) /\ Todo(p) \in Seq(TierCalls)
        BY <2>1, CurrentType
      <4>2. \A n \in DOMAIN Todo(p) : Todo(p)[n].do = "undo"
        BY <2>2, <3>2, <4>1 DEF PutOrder
      <4>3. AfterError(p).todo = Tail(Todo(p)) \/ AfterError(p).todo = <<>>
        BY <2>1, <3>2, Errs
      <4>4. \A n \in DOMAIN Tail(Todo(p)) : Tail(Todo(p))[n].do = "undo"
        BY <2>1, <4>1, <4>2, TailFacts
      <4>5. \A n \in DOMAIN Todo(p)' : Todo(p)'[n].do = "undo"
        BY <2>1, <4>3, <4>4
      <4>6. QED
        BY <2>1, <4>5 DEF Ordered
    <3>3. QED
      BY <3>1, <3>2
  <2>3. QED
    BY <2>1, <2>2 DEF PutOrder, Ordered, SameCall, Todo
<1>6. ASSUME NEW p \in Threads, Return(p) PROVE PutOrder'
  BY <1>6, ReturnStep, IdleCall DEF PutOrder, Todo
<1>7. QED
  BY <1>1, <1>2, <1>3, <1>4, <1>5, <1>6, Steps DEF vars, Lose, Tick

\* One call's part of RollbackOnWay, for one tier.
OnWay(p, i) ==
    /\ call[p].result = "ok" => \A n \in DOMAIN Todo(p) : i < Todo(p)[n].tier
    /\ call[p].result \in {"error", "unanswered"} =>
         \/ \E n \in DOMAIN Todo(p) : Todo(p)[n].tier = i
         \/ call[p].result = "unanswered" /\ i = call[p].to

Rolling(p) == call[p].op = "put" /\ call[p].flag /\ call[p].clean

\* The steps of the put itself.
LEMMA OwnRollback ==
    ASSUME TypeInv, RollbackInv, NEW p \in Threads, Rolling(p),
           Store(p) \/ Remove(p) \/ Fail(p) \/ AnswerLost(p),
           NEW i \in Tiers, tier'[i].value = call[p].entry.value
    PROVE  OnWay(p, i)'
<1> DEFINE t == Current(p).tier
           v == call[p].entry.value
<1>1. /\ Todo(p) # <<>> /\ t \in Tiers /\ tier \in [Tiers -> Entry \cup {NoEntry}]
      /\ Current(p) = Todo(p)[1] /\ 1 \in DOMAIN Todo(p) /\ Todo(p) \in Seq(TierCalls)
      /\ i \in Int /\ t \in Int
  <2>1. Todo(p) # <<>>
    BY StoreStep, RemoveStep, ErrorStep
  <2>2. t \in Tiers /\ t \in Int /\ i \in Int
    BY <2>1, CurrentType DEF Tiers
  <2>3. QED
    BY <2>1, <2>2, CurrentType DEF TypeInv, TypeOK
<1>2. /\ DOMAIN Todo(p) = 1..Len(Todo(p)) /\ Len(Todo(p)) \in Nat
      /\ \A n \in DOMAIN Tail(Todo(p)) : n + 1 \in DOMAIN Todo(p) /\ Tail(Todo(p))[n] = Todo(p)[n + 1]
      /\ \A n \in DOMAIN Todo(p) : n # 1 => n - 1 \in DOMAIN Tail(Todo(p)) /\ Tail(Todo(p))[n - 1] = Todo(p)[n]
      /\ DOMAIN Tail(Todo(p)) \subseteq Nat \ {0}
  BY <1>1, TailFacts
<1>3. Ordered(p) /\ (tier[i].value = v => OnWay(p, i)) /\ v \in Nat \ {0} /\ NoEntry.value = 0
  BY PutCalls DEF RollbackInv, PutOrder, RollbackOnWay, Rolling, Ordered, OnWay, NoEntry
<1>4. CASE Store(p)
  <2>1. /\ Todo(p)' = Tail(Todo(p)) /\ call'[p].result = call[p].result /\ Current(p).do = "put"
        /\ tier' = [tier EXCEPT ![t] = call[p].entry]
    BY <1>4, StoreStep DEF Todo
  <2>2. call[p].result = "ok"
    BY <1>1, <1>3, <2>1 DEF Ordered
  <2>3. \A n \in DOMAIN Tail(Todo(p)) : t < Tail(Todo(p))[n].tier
    <3>1. ASSUME NEW n \in DOMAIN Tail(Todo(p)) PROVE t < Tail(Todo(p))[n].tier
      <4>1. n + 1 \in DOMAIN Todo(p) /\ 1 < n + 1 /\ Tail(Todo(p))[n] = Todo(p)[n + 1]
        BY <1>2
      <4>2. Todo(p)[1].tier < Todo(p)[n + 1].tier
        BY <1>1, <1>3, <2>2, <4>1 DEF Ordered
      <4>3. QED
        BY <1>1, <4>1, <4>2
    <3>2. QED
      BY <3>1
  <2>4. \A n \in DOMAIN Tail(Todo(p)) : i < Tail(Todo(p))[n].tier
    <3>1. CASE i = t
      BY <2>3, <3>1
    <3>2. CASE i # t
      <4>1. tier[i].value = v
        BY <1>1, <2>1, <3>2
      <4>2. QED
        BY <1>2, <1>3, <2>2, <4>1 DEF OnWay
    <3>3. QED
      BY <3>1, <3>2
  <2>5. QED
    BY <2>1, <2>2, <2>4 DEF OnWay
<1>5. CASE Remove(p)
  <2>1. /\ Todo(p)' = Tail(Todo(p)) /\ call'[p].result = call[p].result /\ Current(p).do # "put"
        /\ tier' = [tier EXCEPT ![t] = NoEntry] /\ call'[p].to = call[p].to
    BY <1>5, RemoveStep DEF Todo
  <2>2. call[p].result # "ok"
    BY <1>1, <1>3, <2>1 DEF Ordered
  <2>3. i # t /\ tier[i].value = v
    BY <1>1, <1>3, <2>1
  <2>4. OnWay(p, i)
    BY <1>3, <2>3
  <2>5. ASSUME NEW n \in DOMAIN Todo(p), Todo(p)[n].tier = i
        PROVE  \E m \in DOMAIN Tail(Todo(p)) : Tail(Todo(p))[m].tier = i
    <3>1. n # 1
      BY <1>1, <2>3, <2>5
    <3>2. n - 1 \in DOMAIN Tail(Todo(p)) /\ Tail(Todo(p))[n - 1].tier = i
      BY <1>2, <2>5, <3>1
    <3>3. QED
      BY <3>2
  <2>6. QED
    BY <2>1, <2>2, <2>4, <2>5 DEF OnWay
<1>6. CASE Fail(p) \/ AnswerLost(p)
  <2>1. CASE Current(p).do = "put"
    <3>1. call[p].result = "ok" /\ (tier[i].value = v => i < t)
      BY <1>1, <1>3, <2>1 DEF Ordered, OnWay
    <3>2. /\ Todo(p)' = AfterError(p).todo
          /\ DOMAIN AfterError(p).todo = 1..(t - 1)
          /\ \A n \in 1..(t - 1) : AfterError(p).todo[n].tier = n
      BY <1>1, <1>6, <2>1, ErrorStep, Errs DEF Rolling, Todo
    <3>3. i < t => \E n \in DOMAIN Todo(p)' : Todo(p)'[n].tier = i
      <4>1. i < t => i \in 1..(t - 1)
        BY <1>1 DEF Tiers
      <4>2. QED
        BY <3>2, <4>1
    <3>4. \/ call'[p].result = "error" /\ tier' = tier
          \/ /\ call'[p].result = "unanswered" /\ call'[p].to = t
             /\ tier' = [tier EXCEPT ![t] = call[p].entry]
      BY <1>6, <2>1, ErrorStep
    <3>5. i < t \/ (call'[p].result = "unanswered" /\ i = call'[p].to)
      <4>1. i # t => tier'[i] = tier[i]
        BY <1>1, <3>4
      <4>2. i = t => tier'[i] # tier[i] \/ tier[i].value # v
        BY <1>1, <3>1
      <4>3. QED
        BY <1>1, <3>1, <3>4, <4>1, <4>2
    <3>6. QED
      BY <3>3, <3>4, <3>5 DEF OnWay
  <2>2. CASE Current(p).do # "put"
    BY <1>6, <2>2, ErrorStep DEF OnWay
  <2>3. QED
    BY <2>1, <2>2
<1>7. QED
  BY <1>4, <1>5, <1>6

LEMMA NextRollback == TypeInv /\ RollbackInv /\ [Next]_vars => RollbackInv'
<1> SUFFICES ASSUME TypeInv, RollbackInv, [Next]_vars PROVE RollbackInv'
  OBVIOUS
<1>0. Numbered /\ CleanAlone /\ PutsApart /\ PutOrder /\ RollbackOnWay
  BY DEF RollbackInv
<1>a. Numbered' /\ CleanAlone' /\ PutsApart' /\ PutOrder'
  BY <1>0, NextNumbered, NextAlone, NextApart, NextOrder
<1>b. begun \in Nat /\ NoEntry.value = 0
  BY DEF TypeInv, TypeOK, NoEntry
<1> SUFFICES ASSUME NEW r \in Threads, Rolling(r)', NEW i \in Tiers, tier'[i].value = call'[r].entry.value
             PROVE  OnWay(r, i)'
  BY <1>a DEF RollbackInv, RollbackOnWay, Rolling, OnWay
\* A put the step is not of, in a tier the step leaves alone.
<1>c. ASSUME Rolling(r), call'[r].entry = call[r].entry, Todo(r)' = Todo(r), call'[r].to = call[r].to,
             call'[r].result = call[r].result, tier'[i] = tier[i]
      PROVE  OnWay(r, i)'
  <2>1. OnWay(r, i)
    BY <1>0, <1>c DEF RollbackOnWay, Rolling, OnWay
  <2>2. QED
    BY <1>c, <2>1 DEF OnWay
<1>1. CASE UNCHANGED vars
  BY <1>1, <1>c DEF vars, Rolling, Todo
<1>2. ASSUME NEW p \in Threads, NEW new \in Calls, Begin(p, new), Fresh(new) PROVE OnWay(r, i)'
  <2>1. tier' = tier
    BY <1>2 DEF Begin
  <2>2. CASE r = p
    <3>1. call'[r].entry.value = begun + 1
      <4>1. call'[p].op = new.op /\ call'[p].entry = new.entry
        BY <1>2, Begun
      <4>2. new.op = "put"
        BY <2>2, <4>1 DEF Rolling
      <4>3. QED
        BY <1>2, <2>2, <4>1, <4>2 DEF Fresh
    <3>2. tier[i].value <= begun /\ tier[i].value \in Int
      BY <1>0, <1>b DEF Numbered, TypeInv, TypeOK, Entry, Values
    <3>3. QED
      BY <1>b, <2>1, <3>1, <3>2
  <2>3. CASE r # p
    <3>1. /\ call'[r].op = call[r].op /\ call'[r].todo = call[r].todo
          /\ call'[r].entry = call[r].entry /\ call'[r].to = call[r].to
          /\ call'[r].flag = call[r].flag /\ call'[r].result = call[r].result
          /\ call'[r].clean => call[r].clean
      BY <1>2, <2>3, Begun
    <3>2. QED
      BY <1>c, <2>1, <3>1 DEF Rolling, Todo
  <2>4. QED
    BY <2>2, <2>3
<1>3. ASSUME NEW p \in Threads, Read(p) PROVE OnWay(r, i)'
  <2>1. tier' = tier /\ SameCall(p) /\ call[p].op # "put"
    BY <1>3, ReadStep
  <2>2. r # p /\ call'[r] = call[r]
    BY <2>1 DEF Rolling, SameCall
  <2>3. QED
    BY <1>c, <2>1, <2>2 DEF Rolling, Todo
<1>4. ASSUME NEW p \in Threads, Store(p) \/ Remove(p) \/ Fail(p) \/ AnswerLost(p) PROVE OnWay(r, i)'
  <2>1. SameCall(p) /\ call'[p].entry = call[p].entry
    BY <1>4, StoreStep, RemoveStep, ErrorStep
  <2>2. Rolling(r) /\ call'[r].entry = call[r].entry
    BY <2>1 DEF Rolling, SameCall
  <2>3. CASE r = p
    BY <1>4, <2>2, <2>3, OwnRollback
  <2>4. CASE r # p
    <3>1. call[p].op \notin Copiers
      BY <1>0, <2>2 DEF CleanAlone, Rolling
    <3>2. call[p].op = "put" => call[p].entry.value # call[r].entry.value
      BY <1>0, <2>2, <2>4 DEF PutsApart, Rolling
    <3>3. call[r].entry.value # 0
      BY <2>2, PutCalls DEF Rolling
    <3>4. tier'[i] = tier[i]
      BY <1>4, <1>b, <2>2, <3>1, <3>2, <3>3, TierStep
    <3>5. QED
      BY <1>c, <2>1, <2>2, <2>4, <3>4 DEF SameCall, Todo
  <2>5. QED
    BY <2>3, <2>4
<1>5. ASSUME NEW p \in Threads, Return(p) PROVE OnWay(r, i)'
  <2>1. r # p
    BY <1>5, ReturnStep, IdleCall DEF Rolling
  <2>2. QED
    BY <1>5, <1>c, <2>1, ReturnStep DEF Rolling, Todo
<1>6. ASSUME NEW j \in Tiers, Lose(j) PROVE OnWay(r, i)'
  <2>1. call' = call /\ (tier'[i] = tier[i] \/ tier'[i] = NoEntry)
    BY <1>6 DEF Lose, TypeInv, TypeOK
  <2>2. call[r].entry.value # 0
    BY <2>1, PutCalls DEF Rolling
  <2>3. QED
    BY <1>b, <1>c, <2>1, <2>2 DEF Rolling, Todo
<1>7. CASE Tick
  BY <1>7, <1>c DEF Tick, Rolling, Todo
<1>8. QED
  BY <1>1, <1>2, <1>3, <1>4, <1>5, <1>6, <1>7, Steps

LEMMA RollbackGives == RollbackInv => RollbackComplete
BY DEF RollbackInv, RollbackOnWay, RollbackComplete, Todo

-----------------------------------------------------------------------------
(* A block that is kept.                                                   *)

\* One tier call's part of OnlyMovesRemove.
MoveOnly(p, n) ==
    /\ call[p].op = "move" /\ Todo(p)[n].tier # call[p].to
    /\ \/ n = 1 /\ Len(Todo(p)) = 1 /\ tier[call[p].to] # NoEntry
       \/ n = 2 /\ Len(Todo(p)) = 2 /\ Todo(p)[1] = [do |-> "put", tier |-> call[p].to]

Drops(p, n) == n \in DOMAIN Todo(p) /\ Todo(p)[n].do \notin {"get", "put"}

\* A step that empties no tier leaves the calls of the other threads as they were.
LEMMA OthersKept ==
    ASSUME TypeInv, KeptInv, kept, NEW p \in Threads,
           call' \in [Threads -> Calls], \A q \in Threads \ {p} : call'[q] = call[q],
           \A i \in Tiers : tier[i] # NoEntry => tier'[i] # NoEntry
    PROVE  /\ BlockKept'
           /\ \A q \in Threads \ {p} : \A n : Drops(q, n)' => MoveOnly(q, n)'
<1>1. BlockKept'
  BY DEF KeptInv, BlockKept
<1>2. ASSUME NEW q \in Threads \ {p}, NEW n, Drops(q, n)' PROVE MoveOnly(q, n)'
  <2>1. call'[q] = call[q] /\ Todo(q)' = Todo(q) /\ call[q].to \in Tiers
    BY CurrentType DEF Todo, Calls
  <2>2. MoveOnly(q, n)
    BY <1>2, <2>1 DEF KeptInv, OnlyMovesRemove, Drops, MoveOnly
  <2>3. QED
    BY <2>1, <2>2 DEF MoveOnly
<1>3. QED
  BY <1>1, <1>2

LEMMA KeptRead ==
    ASSUME TypeInv, KeptInv, NEW p \in Threads, Read(p)
    PROVE  KeptInv'
<1> SUFFICES ASSUME kept' PROVE KeptInv'
  BY DEF KeptInv, BlockKept, OnlyMovesRemove, OneMove
<1>1. /\ SameCall(p) /\ tier' = tier /\ call'[p].to = call[p].to /\ Todo(p) # <<>>
      /\ call[p].op \in {"get", "move", "pin", "prefetch"}
      /\ (Missed(p) \/ MetLive(p)) /\ kept
  BY ReadStep DEF Missed, MetExpired, MetLive
<1>2. /\ Current(p) = Todo(p)[1] /\ Todo(p) \in Seq(TierCalls) /\ Current(p).do = "get"
      /\ Current(p).tier \in Tiers /\ call[p] \in Calls /\ 1 \in DOMAIN Todo(p)
  BY <1>1, CurrentType DEF Read, Doing
<1>3. \A n : ~Drops(p, n)
  <2>1. ASSUME NEW n, Drops(p, n) PROVE FALSE
    <3>1. MoveOnly(p, n)
      BY <1>1, <2>1 DEF KeptInv, OnlyMovesRemove, Drops, MoveOnly
    <3>2. n # 1
      BY <1>2, <2>1 DEF Drops
    <3>3. Todo(p)[1].do = "put"
      BY <3>1, <3>2 DEF MoveOnly
    <3>4. QED
      BY <1>2, <3>3
  <2>2. QED
    BY <2>1
<1>4. ASSUME NEW n, Drops(p, n)' PROVE MoveOnly(p, n)'
  <2>1. CASE Missed(p)
    <3>1. Todo(p)' = Tail(Todo(p))
      BY <2>1 DEF Missed, Todo
    <3>2. n + 1 \in DOMAIN Todo(p) /\ Todo(p)'[n] = Todo(p)[n + 1]
      BY <1>1, <1>2, <1>4, <3>1, TailFacts DEF Drops
    <3>3. QED
      BY <1>3, <1>4, <3>2 DEF Drops
  <2>2. CASE MetLive(p) /\ call[p].op = "move"
    <3> DEFINE t == MoveFound(call[p], Current(p).tier)
    <3>1. /\ t[1] = [do |-> "put", tier |-> call[p].to]
          /\ \A m \in DOMAIN t :
                m # 1 => /\ m = 2 /\ Len(t) = 2 /\ Current(p).tier # call[p].to
                         /\ t[m] = [do |-> "remove", tier |-> Current(p).tier]
      BY <1>2, MoveTodo
    <3>2. Todo(p)' = t
      BY <2>2 DEF MetLive, Todo
    <3> HIDE DEF t
    <3>3. n # 1 /\ n \in DOMAIN t
      BY <1>4, <3>1, <3>2 DEF Drops
    <3>4. QED
      BY <1>1, <2>2, <3>1, <3>2, <3>3 DEF MoveOnly, SameCall
  <2>3. CASE MetLive(p) /\ call[p].op = "pin"
    <3> DEFINE t == Each("put", <<Current(p).tier>>) \o Tail(Todo(p))
    <3>1. /\ t[1] = [do |-> "put", tier |-> Current(p).tier]
          /\ \A m \in DOMAIN t : m # 1 => m \in DOMAIN Todo(p) /\ t[m] = Todo(p)[m]
      BY <1>1, <1>2, Instead
    <3>2. Todo(p)' = t
      BY <2>3 DEF MetLive, Todo
    <3> HIDE DEF t
    <3>3. QED
      BY <1>3, <1>4, <3>1, <3>2 DEF Drops
  <2>4. CASE MetLive(p) /\ call[p].op \in {"get", "prefetch"}
    BY <1>4, <2>4 DEF MetLive, Drops, Todo
  <2>5. QED
    BY <1>1, <2>1, <2>2, <2>3, <2>4
<1>5. BlockKept' /\ \A q \in Threads \ {p} : \A n : Drops(q, n)' => MoveOnly(q, n)'
  BY <1>1, OthersKept DEF SameCall
<1>6. OnlyMovesRemove'
  BY <1>4, <1>5 DEF OnlyMovesRemove, Drops, MoveOnly
<1>7. OneMove'
  BY <1>1 DEF OneMove, KeptInv, SameCall
<1>8. QED
  BY <1>5, <1>6, <1>7 DEF KeptInv

\* Storing: promotion, a move's copy, a put, also when its answer is lost.
LEMMA KeptStore ==
    ASSUME TypeInv, KeptInv, NEW p \in Threads, Store(p)
    PROVE  KeptInv'
<1> SUFFICES ASSUME kept' PROVE KeptInv'
  BY DEF KeptInv, BlockKept, OnlyMovesRemove, OneMove
<1>1. /\ SameCall(p) /\ call'[p].to = call[p].to /\ Todo(p) # <<>> /\ Current(p).do = "put"
      /\ tier' = [tier EXCEPT ![Current(p).tier] = call[p].entry] /\ Todo(p)' = Tail(Todo(p))
  BY StoreStep DEF Todo
<1>2. /\ Current(p) = Todo(p)[1] /\ Todo(p) \in Seq(TierCalls) /\ 1 \in DOMAIN Todo(p)
      /\ Current(p).tier \in Tiers /\ tier \in [Tiers -> Entry \cup {NoEntry}]
      /\ Len(Tail(Todo(p))) = Len(Todo(p)) - 1 /\ Len(Todo(p)) \in Nat
      /\ \A n \in DOMAIN Tail(Todo(p)) : /\ n + 1 \in DOMAIN Todo(p) /\ n \in Nat \ {0}
                                         /\ Tail(Todo(p))[n] = Todo(p)[n + 1]
  BY <1>1, CurrentType, TailFacts DEF TypeInv, TypeOK
<1>3. call[p].entry # NoEntry
  BY <1>1, <1>2 DEF TypeInv, Shape, Todo
<1>4. CASE kept
  <2>1. ASSUME NEW n, Drops(p, n)' PROVE MoveOnly(p, n)'
    <3>1. n + 1 \in DOMAIN Todo(p) /\ n \in Nat \ {0} /\ Todo(p)'[n] = Todo(p)[n + 1] /\ Drops(p, n + 1)
      BY <1>1, <1>2, <2>1 DEF Drops
    <3>2. MoveOnly(p, n + 1)
      BY <1>4, <3>1 DEF KeptInv, OnlyMovesRemove, Drops, MoveOnly
    <3>3. n = 1 /\ Len(Todo(p)') = 1 /\ Todo(p)[1].tier = call[p].to
      BY <1>1, <1>2, <3>1, <3>2 DEF MoveOnly
    <3>4. tier'[call[p].to] # NoEntry
      BY <1>1, <1>2, <1>3, <3>3
    <3>5. QED
      BY <1>1, <3>1, <3>2, <3>3, <3>4 DEF MoveOnly, SameCall
  <2>2. BlockKept' /\ \A q \in Threads \ {p} : \A n : Drops(q, n)' => MoveOnly(q, n)'
    BY <1>1, <1>2, <1>3, <1>4, OthersKept DEF SameCall
  <2>3. OnlyMovesRemove'
    BY <2>1, <2>2 DEF OnlyMovesRemove, Drops, MoveOnly
  <2>4. OneMove'
    BY <1>1, <1>4 DEF OneMove, KeptInv, SameCall
  <2>5. QED
    BY <2>2, <2>3, <2>4 DEF KeptInv
<1>5. CASE ~kept
  <2>1. \A q \in Busy : ~Removing(q) /\ call[q].op # "move"
    BY <1>5, StoreStep
  <2>2. ASSUME NEW q \in Threads, NEW n PROVE ~Drops(q, n) /\ call[q].op # "move"
    <3>1. CASE call[q].op = "idle"
      BY <3>1 DEF TypeInv, Shape, Drops, Todo
    <3>2. CASE call[q].op # "idle"
      BY <2>1, <3>2 DEF Busy, Removing, Drops
    <3>3. QED
      BY <3>1, <3>2
  <2>3. ASSUME NEW q \in Threads, NEW n PROVE ~Drops(q, n)'
    <3>1. CASE q = p
      BY <1>1, <1>2, <2>2, <3>1 DEF Drops
    <3>2. CASE q # p
      BY <1>1, <2>2, <3>2 DEF Drops, SameCall, Todo
    <3>3. QED
      BY <3>1, <3>2
  <2>4. BlockKept'
    BY <1>1, <1>2, <1>3 DEF BlockKept
  <2>5. OnlyMovesRemove'
    BY <2>3 DEF OnlyMovesRemove, Drops
  <2>6. OneMove'
    BY <1>1, <2>2 DEF OneMove, SameCall
  <2>7. QED
    BY <2>4, <2>5, <2>6 DEF KeptInv
<1>6. QED
  BY <1>4, <1>5

\* Removing a tier's copy, also when the answer is lost.
LEMMA KeptGone ==
    ASSUME TypeInv, KeptInv, kept, NEW p \in Threads, SameCall(p), Todo(p) # <<>>,
           Current(p).do \notin {"get", "put"},
           tier' = tier \/ tier' = [tier EXCEPT ![Current(p).tier] = NoEntry],
           Todo(p)' = Tail(Todo(p)) \/ Todo(p)' = <<>>
    PROVE  KeptInv'
<1>1. /\ Current(p) = Todo(p)[1] /\ Todo(p) \in Seq(TierCalls) /\ 1 \in DOMAIN Todo(p)
      /\ Current(p).tier \in Tiers /\ call[p] \in Calls
      /\ tier \in [Tiers -> Entry \cup {NoEntry}]
  BY CurrentType DEF TypeInv, TypeOK
<1>2. Drops(p, 1)
  BY <1>1 DEF Drops
<1>3. MoveOnly(p, 1)
  BY <1>2 DEF KeptInv, OnlyMovesRemove, Drops, MoveOnly
<1>4. /\ call[p].op = "move" /\ Current(p).tier # call[p].to /\ Len(Todo(p)) = 1
      /\ tier[call[p].to] # NoEntry /\ call[p].to \in Tiers
  BY <1>1, <1>3 DEF MoveOnly, Calls
<1>5. BlockKept'
  BY <1>1, <1>4 DEF BlockKept
<1>6. \A n : ~Drops(p, n)'
  BY <1>1, <1>4 DEF Drops
<1>7. ASSUME NEW q \in Threads \ {p}, NEW n PROVE ~Drops(q, n)'
  <2>1. ~Drops(q, n)
    BY <1>4 DEF KeptInv, OnlyMovesRemove, OneMove, Drops
  <2>2. QED
    BY <2>1 DEF Drops, SameCall, Todo
<1>8. OnlyMovesRemove'
  BY <1>6, <1>7 DEF OnlyMovesRemove, Drops
<1>9. OneMove'
  BY DEF OneMove, KeptInv, SameCall
<1>10. QED
  BY <1>5, <1>8, <1>9 DEF KeptInv

LEMMA KeptError ==
    ASSUME TypeInv, KeptInv, NEW p \in Threads, Fail(p) \/ AnswerLost(p)
    PROVE  KeptInv'
<1> SUFFICES ASSUME kept' PROVE KeptInv'
  BY DEF KeptInv, BlockKept, OnlyMovesRemove, OneMove
<1>1. /\ SameCall(p) /\ Todo(p) # <<>> /\ Todo(p)' = AfterError(p).todo
      /\ kept /\ ~(call[p].op = "put" /\ call[p].flag)
  BY ErrorStep DEF Todo
<1>2. /\ Current(p) = Todo(p)[1] /\ Todo(p) \in Seq(TierCalls) /\ 1 \in DOMAIN Todo(p)
      /\ Current(p).tier \in Tiers /\ call[p] \in Calls
      /\ tier \in [Tiers -> Entry \cup {NoEntry}]
  BY <1>1, CurrentType DEF TypeInv, TypeOK
<1>3. CASE Current(p).do \in {"get", "put"}
  <2>1. Todo(p)' = <<>>
    BY <1>1, <1>3, Errs
  <2>2. call[p].entry # NoEntry \/ Current(p).do = "get"
    BY <1>2, <1>3 DEF TypeInv, Shape, Todo
  <2>3. tier' = tier \/ (tier' = [tier EXCEPT ![Current(p).tier] = call[p].entry] /\ Current(p).do = "put")
    BY <1>3, ErrorStep
  <2>4. \A i \in Tiers : tier[i] # NoEntry => tier'[i] # NoEntry
    BY <1>2, <2>2, <2>3
  <2>5. BlockKept' /\ \A q \in Threads \ {p} : \A n : Drops(q, n)' => MoveOnly(q, n)'
    BY <1>1, <2>4, OthersKept DEF SameCall
  <2>6. OnlyMovesRemove'
    BY <2>1, <2>5 DEF OnlyMovesRemove, Drops, MoveOnly
  <2>7. OneMove'
    BY <1>1 DEF OneMove, KeptInv, SameCall
  <2>8. QED
    BY <2>5, <2>6, <2>7 DEF KeptInv
<1>4. CASE Current(p).do \notin {"get", "put"}
  <2>1. Todo(p)' = Tail(Todo(p)) \/ Todo(p)' = <<>>
    BY <1>1, <1>4, Errs
  <2>2. tier' = tier \/ tier' = [tier EXCEPT ![Current(p).tier] = NoEntry]
    BY <1>4, ErrorStep
  <2>3. QED
    BY <1>1, <1>4, <2>1, <2>2, KeptGone
<1>5. QED
  BY <1>3, <1>4

LEMMA NextKept == TypeInv /\ KeptInv /\ [Next]_vars => KeptInv'
<1> SUFFICES ASSUME TypeInv, KeptInv, [Next]_vars PROVE KeptInv'
  OBVIOUS
<1>1. CASE kept' = FALSE
  BY <1>1 DEF KeptInv, BlockKept, OnlyMovesRemove, OneMove
<1>2. CASE call' = call /\ tier' = tier /\ kept' = kept
  BY <1>2 DEF KeptInv, BlockKept, OnlyMovesRemove, OneMove, Todo
<1>3. ASSUME NEW p \in Threads, NEW new \in Calls, Begin(p, new), Fresh(new), kept' PROVE KeptInv'
  <2>1. /\ call' \in [Threads -> Calls] /\ call'[p].op = new.op /\ call'[p].todo = new.todo
        /\ \A q \in Threads \ {p} : /\ call'[q].op = call[q].op /\ call'[q].todo = call[q].todo
                                    /\ call'[q].to = call[q].to
    BY <1>3, Begun
  <2>2. /\ tier' = tier /\ kept /\ \A n \in DOMAIN new.todo : new.todo[n].do \in {"get", "put"}
        /\ new.op = "move" => \A q \in Threads : call[q].op # "move"
    BY <1>3 DEF Begin, Fresh
  <2>3. BlockKept'
    BY <2>2 DEF KeptInv, BlockKept
  <2>4. OnlyMovesRemove'
    <3>1. ASSUME NEW q \in Threads, NEW n, Drops(q, n)' PROVE MoveOnly(q, n)'
      <4>1. q # p
        BY <2>1, <2>2, <3>1 DEF Drops, Todo
      <4>2. MoveOnly(q, n)
        BY <2>1, <2>2, <3>1, <4>1 DEF KeptInv, OnlyMovesRemove, Drops, MoveOnly, Todo
      <4>3. QED
        BY <2>1, <2>2, <4>1, <4>2 DEF MoveOnly, Todo
    <3>2. QED
      BY <3>1 DEF OnlyMovesRemove, Drops, MoveOnly
  <2>5. OneMove'
    BY <2>1, <2>2 DEF KeptInv, OneMove
  <2>6. QED
    BY <2>3, <2>4, <2>5 DEF KeptInv
<1>4. ASSUME NEW p \in Threads, Remove(p), kept' PROVE KeptInv'
  <2>1. /\ SameCall(p) /\ Todo(p) # <<>> /\ Todo(p)' = Tail(Todo(p)) /\ kept
        /\ Current(p).do \notin {"get", "put"} /\ tier' = [tier EXCEPT ![Current(p).tier] = NoEntry]
    BY <1>4, RemoveStep DEF Todo
  <2>2. QED
    BY <2>1, KeptGone
<1>5. ASSUME NEW p \in Threads, Return(p), kept' PROVE KeptInv'
  <2>1. /\ call' \in [Threads -> Calls] /\ call'[p].op = "idle" /\ call'[p].todo = <<>>
        /\ \A q \in Threads \ {p} : call'[q] = call[q]
        /\ tier' = tier /\ kept
    BY <1>5, ReturnStep, IdleCall DEF Shape
  <2>2. BlockKept' /\ \A q \in Threads \ {p} : \A n : Drops(q, n)' => MoveOnly(q, n)'
    BY <2>1, OthersKept
  <2>3. OnlyMovesRemove'
    BY <2>1, <2>2 DEF OnlyMovesRemove, Drops, MoveOnly, Todo
  <2>4. OneMove'
    BY <2>1 DEF OneMove, KeptInv
  <2>5. QED
    BY <2>2, <2>3, <2>4 DEF KeptInv
<1>6. kept' \in BOOLEAN
  BY NextTypes DEF TypeInv, TypeOK
<1>7. QED
  BY <1>1, <1>2, <1>3, <1>4, <1>5, <1>6, Steps, KeptRead, KeptStore, KeptError DEF vars, Lose, Tick

\* For any tiers and threads and either policy: a block that was stored stays in some
\* tier through every interleaving of moves one at a time, promotions, prefetches and
\* failed calls, and a replicated put that a tier rejected leaves no replica behind
\* once it has undone its writes, but for the one whose answer was lost.
THEOREM ReplicasAlwaysKept == Spec => []ReplicasKept
<1>1. Init => RollbackInv /\ KeptInv
  BY InitFinal
<1>2. TypeInv /\ RollbackInv /\ KeptInv => ReplicasKept
  BY RollbackGives DEF TypeInv, KeptInv, ReplicasKept
<1>3. QED
  BY <1>1, <1>2, InitTypes, NextTypes, NextRollback, NextKept, PTL DEF Spec

-----------------------------------------------------------------------------
(* LayeredStore.                                                           *)

\* The types, with the whole record of the running put.
LayeredTypes ==
    /\ layeredStores \in [Layered!Stores -> Entries \cup {Layered!NoEntry}]
    /\ layeredRemover \in [Removers -> 0..Backends]
    /\ layeredPut \in [pc : {"idle", "check", "write", "undo", "ok", "error"},
                       entry : Entries \cup {Layered!NoEntry}, at : Layered!Stores,
                       inserted : SUBSET Layered!Stores, before : SUBSET Layered!Stores,
                       disturbed : BOOLEAN]
    /\ layeredPut.pc \in {"check", "write"} => layeredPut.entry \in Entries

\* The backends compared so far hold the entry of the put or nothing, and once the
\* writes have begun that goes for all of them: nobody else writes.
Compared ==
    \A i \in Layered!Stores :
        (layeredPut.pc = "write" \/ (layeredPut.pc = "check" /\ i < layeredPut.at))
            => layeredStores[i] \in {Layered!NoEntry, layeredPut.entry}

\* What a put that nothing disturbs has done up to now: the backends hold what they
\* held before and what it inserted, and as it writes it leaves none empty behind.
OnlyInserted ==
    ~layeredPut.disturbed =>
        /\ \A r \in Removers : layeredRemover[r] = 0
        /\ layeredPut.pc \in {"check", "error"} => layeredPut.before = Layered!Holding
        /\ layeredPut.pc = "check" => layeredPut.inserted = {}
        /\ layeredPut.pc \in {"write", "undo"} =>
             /\ Layered!Holding = layeredPut.before \cup layeredPut.inserted
             /\ layeredPut.before \cap layeredPut.inserted = {}
        /\ layeredPut.pc = "write" =>
             \A i \in Layered!Stores : i < layeredPut.at => i \in Layered!Holding
        /\ layeredPut.pc = "ok" =>
             \A i \in Layered!Stores : layeredStores[i] = layeredPut.entry

LayeredInv == LayeredTypes /\ Layered!ReplicasAgree /\ Compared /\ OnlyInserted

\* There is a first backend, and no stored entry is the mark of an empty one.
LEMMA LayeredConstants ==
    /\ Backends \in Nat \ {0} /\ Layered!NoEntry \notin Entries
    /\ Layered!Stores = 1..Backends /\ 1 \in Layered!Stores
BY MCAssumption DEF MCAssumption, Layered!BackendsAssumption, Layered!Stores

\* Empty backends, no call: the invariant holds at the start.
LEMMA InitLayered == Layered!Init => LayeredInv
<1> SUFFICES ASSUME Layered!Init PROVE LayeredInv
  OBVIOUS
<1>1. /\ layeredPut = [pc |-> "idle", entry |-> Layered!NoEntry, at |-> 1, inserted |-> {},
                       before |-> {}, disturbed |-> FALSE]
      /\ layeredRemover = [r \in Removers |-> 0]
      /\ layeredStores = [i \in Layered!Stores |-> Layered!NoEntry]
  BY DEF Layered!Init, Layered!Idle
<1>2. LayeredTypes
  BY <1>1, LayeredConstants DEF LayeredTypes
<1>3. Layered!Holding = {}
  BY <1>1 DEF Layered!Holding
<1>4. Layered!ReplicasAgree
  BY <1>3 DEF Layered!ReplicasAgree, Layered!LoadRefused
<1>5. Compared /\ OnlyInserted
  BY <1>1 DEF Compared, OnlyInserted
<1>6. QED
  BY <1>2, <1>4, <1>5 DEF LayeredInv

\* The backends only ever lose what they hold, except to an insertion.
LEMMA AgreeShrinks ==
    ASSUME Layered!ReplicasAgree,
           \A i \in Layered!Stores : layeredStores'[i] \in {Layered!NoEntry, layeredStores[i]}
    PROVE  Layered!ReplicasAgree'
BY DEF Layered!ReplicasAgree, Layered!LoadRefused, Layered!Holding

\* Every step of LayeredStore keeps the types, the cursor of the running put included.
LEMMA NextLayeredTypes == LayeredTypes /\ [Layered!Next]_layeredVars => LayeredTypes'
<1> SUFFICES ASSUME LayeredTypes, [Layered!Next]_layeredVars PROVE LayeredTypes'
  OBVIOUS
<1> USE LayeredConstants
<1>1. ASSUME NEW e \in Entries, Layered!PutIfAbsent(e) PROVE LayeredTypes'
  <2>1. /\ layeredPut' = [pc |-> "check", entry |-> e, at |-> 1, inserted |-> {},
                          before |-> Layered!Holding, disturbed |-> Layered!Removing]
        /\ layeredStores' = layeredStores /\ layeredRemover' = layeredRemover
    BY <1>1 DEF Layered!PutIfAbsent, Layered!Idle
  <2>2. Layered!Holding \in SUBSET Layered!Stores /\ Layered!Removing \in BOOLEAN
    BY DEF Layered!Holding, Layered!Removing
  <2>3. QED
    BY <2>1, <2>2 DEF LayeredTypes
<1>2. CASE Layered!Check
  <2>1. PICK c \in {"error", "write", "check"}, n \in Layered!Stores :
          layeredPut' = [layeredPut EXCEPT !.pc = c, !.at = n]
    <3>1. layeredPut' \in {[layeredPut EXCEPT !.pc = "error"], [layeredPut EXCEPT !.pc = "write", !.at = 1]}
          \/ (layeredPut' = [layeredPut EXCEPT !.at = @ + 1] /\ layeredPut.at # Backends)
      BY <1>2 DEF Layered!Check, Layered!Checked
    <3>2. layeredPut.at \in Layered!Stores /\ layeredPut.pc = "check"
      BY <1>2 DEF Layered!Check, LayeredTypes
    <3>3. layeredPut.at # Backends => layeredPut.at + 1 \in Layered!Stores
      BY <3>2
    <3>4. [layeredPut EXCEPT !.pc = "error"] = [layeredPut EXCEPT !.pc = "error", !.at = layeredPut.at]
      BY DEF LayeredTypes
    <3>5. [layeredPut EXCEPT !.at = @ + 1] = [layeredPut EXCEPT !.pc = "check", !.at = layeredPut.at + 1]
      BY <3>2 DEF LayeredTypes
    <3>6. QED
      BY <3>1, <3>2, <3>3, <3>4, <3>5
  <2>2. layeredStores' = layeredStores /\ layeredRemover' = layeredRemover /\ layeredPut.pc = "check"
    BY <1>2 DEF Layered!Check
  <2>3. QED
    BY <2>1, <2>2 DEF LayeredTypes
<1>3. CASE Layered!CheckFails
  BY <1>3 DEF Layered!CheckFails, LayeredTypes
<1>4. CASE Layered!Insert
  <2>1. /\ layeredStores' \in [Layered!Stores -> Entries \cup {Layered!NoEntry}]
        /\ layeredRemover' = layeredRemover
    BY <1>4 DEF Layered!Insert, LayeredTypes
  <2>2. PICK s \in SUBSET Layered!Stores, c \in {"ok", "write"}, n \in Layered!Stores :
          layeredPut' = [layeredPut EXCEPT !.inserted = s, !.pc = c, !.at = n]
    <3>1. (IF layeredStores[layeredPut.at] = Layered!NoEntry
           THEN layeredPut.inserted \cup {layeredPut.at} ELSE layeredPut.inserted) \in SUBSET Layered!Stores
      BY DEF LayeredTypes
    <3>2. (IF layeredPut.at = Backends THEN 1 ELSE layeredPut.at + 1) \in Layered!Stores
      BY DEF LayeredTypes
    <3> DEFINE t == IF layeredStores[layeredPut.at] = Layered!NoEntry
                    THEN layeredPut.inserted \cup {layeredPut.at} ELSE layeredPut.inserted
               m == IF layeredPut.at = Backends THEN 1 ELSE layeredPut.at + 1
               d == IF layeredPut.at = Backends THEN "ok" ELSE "write"
    <3>3. layeredPut' = [layeredPut EXCEPT !.inserted = t, !.pc = d, !.at = m]
      BY <1>4 DEF Layered!Insert
    <3>4. t \in SUBSET Layered!Stores /\ d \in {"ok", "write"} /\ m \in Layered!Stores
      BY <3>1, <3>2
    <3> HIDE DEF t, d, m
    <3>5. QED
      BY <3>3, <3>4
  <2>3. layeredPut.pc = "write"
    BY <1>4 DEF Layered!Insert
  <2>4. QED
    BY <2>1, <2>2, <2>3 DEF LayeredTypes
<1>5. CASE Layered!InsertFails
  BY <1>5 DEF Layered!InsertFails, LayeredTypes
<1>6. CASE Layered!Undo
  <2>1. PICK i \in layeredPut.inserted :
          /\ layeredStores' \in {layeredStores, [layeredStores EXCEPT ![i] = Layered!NoEntry]}
          /\ layeredPut' \in {[layeredPut EXCEPT !.inserted = layeredPut.inserted \ {i}],
                [layeredPut EXCEPT !.inserted = layeredPut.inserted \ {i}, !.disturbed = TRUE]}
          /\ layeredRemover' = layeredRemover /\ layeredPut.pc = "undo"
    BY <1>6 DEF Layered!Undo
  <2>2. layeredPut.inserted \ {i} \in SUBSET Layered!Stores
    BY DEF LayeredTypes
  <2> DEFINE left == layeredPut.inserted \ {i}
  <2>3. layeredPut' \in {[layeredPut EXCEPT !.inserted = left], [layeredPut EXCEPT !.inserted = left, !.disturbed = TRUE]}
    BY <2>1
  <2>4. left \in SUBSET Layered!Stores /\ layeredStores' \in [Layered!Stores -> Entries \cup {Layered!NoEntry}]
    BY <2>1, <2>2 DEF LayeredTypes
  <2> HIDE DEF left
  <2>5. layeredPut' \in [pc : {"idle", "check", "write", "undo", "ok", "error"},
                       entry : Entries \cup {Layered!NoEntry}, at : Layered!Stores,
                       inserted : SUBSET Layered!Stores, before : SUBSET Layered!Stores,
                       disturbed : BOOLEAN] /\ layeredPut'.pc = "undo"
    BY <2>1, <2>3, <2>4 DEF LayeredTypes
  <2>6. QED
    BY <2>1, <2>4, <2>5 DEF LayeredTypes
<1>7. CASE Layered!UndoFails
  <2>1. PICK i \in layeredPut.inserted :
          /\ layeredStores' \in {layeredStores, [layeredStores EXCEPT ![i] = Layered!NoEntry]}
          /\ layeredPut' \in {[layeredPut EXCEPT !.inserted = layeredPut.inserted \ {i}],
                [layeredPut EXCEPT !.inserted = layeredPut.inserted \ {i}, !.disturbed = TRUE]}
          /\ layeredRemover' = layeredRemover /\ layeredPut.pc = "undo"
    BY <1>7 DEF Layered!UndoFails
  <2>2. layeredPut.inserted \ {i} \in SUBSET Layered!Stores
    BY DEF LayeredTypes
  <2> DEFINE left == layeredPut.inserted \ {i}
  <2>3. layeredPut' \in {[layeredPut EXCEPT !.inserted = left], [layeredPut EXCEPT !.inserted = left, !.disturbed = TRUE]}
    BY <2>1
  <2>4. left \in SUBSET Layered!Stores /\ layeredStores' \in [Layered!Stores -> Entries \cup {Layered!NoEntry}]
    BY <2>1, <2>2 DEF LayeredTypes
  <2> HIDE DEF left
  <2>5. layeredPut' \in [pc : {"idle", "check", "write", "undo", "ok", "error"},
                       entry : Entries \cup {Layered!NoEntry}, at : Layered!Stores,
                       inserted : SUBSET Layered!Stores, before : SUBSET Layered!Stores,
                       disturbed : BOOLEAN] /\ layeredPut'.pc = "undo"
    BY <2>1, <2>3, <2>4 DEF LayeredTypes
  <2>6. QED
    BY <2>1, <2>4, <2>5 DEF LayeredTypes
<1>8. CASE Layered!Undone
  BY <1>8 DEF Layered!Undone, LayeredTypes
<1>9. ASSUME NEW r \in Removers, Layered!Remove(r) \/ Layered!RemoveAt(r) \/ Layered!RemoveFails(r)
      PROVE LayeredTypes'
  <2>1. layeredPut' \in {layeredPut, [layeredPut EXCEPT !.disturbed = TRUE]}
    BY <1>9 DEF Layered!Remove, Layered!RemoveAt, Layered!RemoveFails, Layered!Disturb
  <2>2. layeredStores' \in [Layered!Stores -> Entries \cup {Layered!NoEntry}]
    BY <1>9 DEF Layered!Remove, Layered!RemoveAt, Layered!RemoveFails, LayeredTypes
  <2>3. layeredRemover' \in [Removers -> 0..Backends]
    <3>1. /\ (IF layeredRemover[r] = Backends THEN 0 ELSE layeredRemover[r] + 1) \in 0..Backends
          /\ 1 \in 0..Backends
      BY DEF LayeredTypes
    <3>2. QED
      BY <1>9, <3>1 DEF Layered!Remove, Layered!RemoveAt, Layered!RemoveFails, Layered!RemoveNext, LayeredTypes
  <2>4. QED
    BY <2>1, <2>2, <2>3 DEF LayeredTypes
<1>10. CASE Layered!Restart
  BY <1>10 DEF Layered!Restart, Layered!Idle, LayeredTypes
<1>11. CASE UNCHANGED layeredVars
  BY <1>11 DEF layeredVars, LayeredTypes
<1>12. QED
  BY <1>1, <1>2, <1>3, <1>4, <1>5, <1>6, <1>7, <1>8, <1>9, <1>10, <1>11 DEF Layered!Next

\* What the comparison found stays true until the last write, since nobody else writes,
\* so an insertion adds the entry the other backends hold.
LEMMA NextAgree == LayeredTypes /\ Layered!ReplicasAgree /\ Compared /\ [Layered!Next]_layeredVars
                     => (Layered!ReplicasAgree /\ Compared)'
<1> SUFFICES ASSUME LayeredTypes, Layered!ReplicasAgree, Compared, [Layered!Next]_layeredVars
             PROVE  (Layered!ReplicasAgree /\ Compared)'
  OBVIOUS
<1> USE LayeredConstants
<1>1. ASSUME NEW e \in Entries, Layered!PutIfAbsent(e) PROVE (Layered!ReplicasAgree /\ Compared)'
  <2>1. layeredPut'.pc = "check" /\ layeredPut'.at = 1 /\ layeredStores' = layeredStores
    BY <1>1 DEF Layered!PutIfAbsent, Layered!Idle
  <2>2. QED
    BY <2>1, AgreeShrinks DEF Compared
<1>2. CASE Layered!Check
  <2>1. /\ layeredPut.pc = "check" /\ layeredStores' = layeredStores /\ layeredPut'.entry = layeredPut.entry
        /\ layeredPut.at \in Layered!Stores
        /\ \/ layeredPut'.pc = "error"
           \/ /\ layeredStores[layeredPut.at] \in {Layered!NoEntry, layeredPut.entry}
              /\ \/ layeredPut'.pc = "write" /\ layeredPut.at = Backends
                 \/ layeredPut'.pc = "check" /\ layeredPut'.at = layeredPut.at + 1
    BY <1>2 DEF Layered!Check, Layered!Checked, LayeredTypes
  <2>2. \A i \in Layered!Stores : i < layeredPut.at \/ i = layeredPut.at \/ i > layeredPut.at
    BY <2>1
  <2>3. QED
    BY <2>1, <2>2, AgreeShrinks DEF Compared
<1>3. CASE Layered!CheckFails \/ Layered!InsertFails \/ Layered!UndoFails \/ Layered!Undone
  <2>1. layeredStores' = layeredStores /\ layeredPut'.pc \in {"error", "undo"}
    BY <1>3 DEF Layered!CheckFails, Layered!InsertFails, Layered!UndoFails, Layered!Undone, LayeredTypes
  <2>2. QED
    BY <2>1, AgreeShrinks DEF Compared
<1>4. CASE Layered!Insert
  <2>1. /\ layeredPut.pc = "write" /\ layeredPut'.entry = layeredPut.entry /\ layeredPut.entry \in Entries
        /\ \A i \in Layered!Stores : layeredStores'[i] \in {layeredStores[i], layeredPut.entry}
    BY <1>4 DEF Layered!Insert, LayeredTypes
  <2>2. \A i \in Layered!Stores : layeredStores'[i] \in {Layered!NoEntry, layeredPut.entry}
    BY <2>1 DEF Compared
  <2>3. QED
    BY <2>1, <2>2 DEF Compared, Layered!ReplicasAgree, Layered!LoadRefused, Layered!Holding
<1>5. CASE Layered!Undo
  <2>1. layeredPut'.pc = "undo" /\ \A i \in Layered!Stores : layeredStores'[i] \in {Layered!NoEntry, layeredStores[i]}
    BY <1>5 DEF Layered!Undo, LayeredTypes
  <2>2. QED
    BY <2>1, AgreeShrinks DEF Compared
<1>6. ASSUME NEW r \in Removers, Layered!Remove(r) \/ Layered!RemoveAt(r) \/ Layered!RemoveFails(r)
      PROVE  (Layered!ReplicasAgree /\ Compared)'
  <2>1. /\ layeredPut'.pc = layeredPut.pc /\ layeredPut'.at = layeredPut.at
        /\ layeredPut'.entry = layeredPut.entry
        /\ \A i \in Layered!Stores : layeredStores'[i] \in {Layered!NoEntry, layeredStores[i]}
    BY <1>6 DEF Layered!Remove, Layered!RemoveAt, Layered!RemoveFails, Layered!Disturb, LayeredTypes
  <2>2. QED
    BY <2>1, AgreeShrinks DEF Compared
<1>7. CASE Layered!Restart
  <2>1. /\ layeredPut'.pc = "idle"
        /\ \A i \in Layered!Stores : layeredStores'[i] \in {Layered!NoEntry, layeredStores[i]}
    BY <1>7 DEF Layered!Restart, Layered!Idle
  <2>2. QED
    BY <2>1, AgreeShrinks DEF Compared
<1>8. CASE UNCHANGED layeredVars
  <2>1. layeredPut' = layeredPut /\ layeredStores' = layeredStores
    BY <1>8 DEF layeredVars
  <2>2. QED
    BY <2>1, AgreeShrinks DEF Compared
<1>9. QED
  BY <1>1, <1>2, <1>3, <1>4, <1>5, <1>6, <1>7, <1>8 DEF Layered!Next

\* As long as nothing disturbs it, a put can tell what it wrote from what it found, and
\* the rollback takes back exactly that.
LEMMA NextInserted == LayeredTypes /\ Compared /\ OnlyInserted /\ [Layered!Next]_layeredVars => OnlyInserted'
<1> SUFFICES ASSUME LayeredTypes, Compared, OnlyInserted, [Layered!Next]_layeredVars, ~layeredPut'.disturbed
             PROVE  OnlyInserted'
  BY DEF OnlyInserted
<1> USE LayeredConstants
<1>1. ASSUME NEW e \in Entries, Layered!PutIfAbsent(e) PROVE OnlyInserted'
  <2>1. /\ layeredPut'.pc = "check" /\ layeredPut'.at = 1 /\ layeredPut'.inserted = {}
        /\ layeredPut'.before = Layered!Holding /\ layeredPut'.disturbed = Layered!Removing
        /\ layeredStores' = layeredStores /\ layeredRemover' = layeredRemover
    BY <1>1 DEF Layered!PutIfAbsent, Layered!Idle
  <2>2. Layered!Holding' = Layered!Holding
    BY <2>1 DEF Layered!Holding
  <2>3. \A r \in Removers : layeredRemover'[r] = 0
    BY <2>1 DEF Layered!Removing
  <2>4. QED
    BY <2>1, <2>2, <2>3 DEF OnlyInserted
<1>2. CASE Layered!Check \/ Layered!CheckFails
  <2>1. /\ layeredPut.pc = "check" /\ layeredPut'.inserted = layeredPut.inserted
        /\ layeredPut'.before = layeredPut.before /\ layeredPut'.disturbed = layeredPut.disturbed
        /\ layeredStores' = layeredStores /\ layeredRemover' = layeredRemover
        /\ layeredPut'.pc \in {"check", "error", "write"}
        /\ layeredPut'.pc = "write" => layeredPut'.at = 1
    <3>1. /\ layeredPut.pc = "check"
          /\ layeredStores' = layeredStores /\ layeredRemover' = layeredRemover
          /\ layeredPut' \in {[layeredPut EXCEPT !.pc = "error"],
               [layeredPut EXCEPT !.pc = "write", !.at = 1], [layeredPut EXCEPT !.at = @ + 1]}
      BY <1>2 DEF Layered!Check, Layered!Checked, Layered!CheckFails
    <3>2. QED
      BY <3>1 DEF LayeredTypes
  <2>2. Layered!Holding' = Layered!Holding
    BY <2>1 DEF Layered!Holding
  <2>3. QED
    BY <2>1, <2>2 DEF OnlyInserted
<1>3. CASE Layered!Insert
  <2>1. /\ layeredPut.pc = "write" /\ layeredPut.at \in Layered!Stores /\ layeredPut.entry \in Entries
        /\ layeredPut'.before = layeredPut.before /\ layeredPut'.entry = layeredPut.entry
        /\ layeredPut'.disturbed = layeredPut.disturbed /\ layeredRemover' = layeredRemover
    BY <1>3 DEF Layered!Insert, LayeredTypes
  <2>2. /\ layeredPut.at = Backends => layeredPut'.pc = "ok"
        /\ layeredPut.at # Backends => layeredPut'.pc = "write" /\ layeredPut'.at = layeredPut.at + 1
    BY <1>3 DEF Layered!Insert, LayeredTypes
  <2>3. layeredPut'.inserted = IF layeredStores[layeredPut.at] = Layered!NoEntry
                               THEN layeredPut.inserted \cup {layeredPut.at} ELSE layeredPut.inserted
    BY <1>3 DEF Layered!Insert, LayeredTypes
  <2>4. \A i \in Layered!Stores :
          layeredStores'[i] = IF i = layeredPut.at /\ layeredStores[i] = Layered!NoEntry
                              THEN layeredPut.entry ELSE layeredStores[i]
    BY <1>3 DEF Layered!Insert, LayeredTypes
  <2>5. Layered!Holding' = Layered!Holding \cup {layeredPut.at}
    BY <2>1, <2>4 DEF Layered!Holding
  <2>6. layeredPut'.inserted = layeredPut.inserted \cup ({layeredPut.at} \ Layered!Holding)
    BY <2>1, <2>3 DEF Layered!Holding
  <2>7. CASE layeredPut.at = Backends
    <3>1. \A i \in Layered!Stores : i < layeredPut.at \/ i = layeredPut.at
      BY <2>7
    <3>2. \A i \in Layered!Stores : layeredStores'[i] # Layered!NoEntry
      BY <2>1, <2>4, <3>1 DEF OnlyInserted, Layered!Holding
    <3>3. \A i \in Layered!Stores : layeredStores'[i] \in {Layered!NoEntry, layeredPut.entry}
      BY <2>1, <2>4 DEF Compared
    <3>4. QED
      BY <2>1, <2>2, <2>7, <3>2, <3>3 DEF OnlyInserted
  <2>8. CASE layeredPut.at # Backends
    <3>1. \A i \in Layered!Stores : i < layeredPut'.at => i < layeredPut.at \/ i = layeredPut.at
      BY <2>1, <2>2, <2>8
    <3>2. /\ \A r \in Removers : layeredRemover'[r] = 0
          /\ Layered!Holding = layeredPut.before \cup layeredPut.inserted
          /\ layeredPut.before \cap layeredPut.inserted = {}
          /\ \A i \in Layered!Stores : i < layeredPut.at => i \in Layered!Holding
      BY <2>1 DEF OnlyInserted
    <3>3. \A i \in Layered!Stores : i < layeredPut'.at => i \in Layered!Holding'
      BY <2>5, <3>1, <3>2
    <3>4. /\ Layered!Holding' = layeredPut'.before \cup layeredPut'.inserted
          /\ layeredPut'.before \cap layeredPut'.inserted = {}
      BY <2>1, <2>5, <2>6, <3>2
    <3>5. QED
      BY <2>2, <2>8, <3>2, <3>3, <3>4 DEF OnlyInserted
  <2>9. QED
    BY <2>7, <2>8
<1>4. CASE Layered!InsertFails
  <2>1. /\ layeredPut.pc = "write" /\ layeredPut'.pc = "undo"
        /\ layeredPut'.before = layeredPut.before /\ layeredPut'.inserted = layeredPut.inserted
        /\ layeredPut'.disturbed = layeredPut.disturbed
        /\ layeredStores' = layeredStores /\ layeredRemover' = layeredRemover
    BY <1>4 DEF Layered!InsertFails, LayeredTypes
  <2>2. Layered!Holding' = Layered!Holding
    BY <2>1 DEF Layered!Holding
  <2>3. QED
    BY <2>1, <2>2 DEF OnlyInserted
<1>5. CASE Layered!Undo
  <2>1. PICK i \in layeredPut.inserted :
          /\ layeredStores' = [layeredStores EXCEPT ![i] = Layered!NoEntry]
          /\ layeredPut' = [layeredPut EXCEPT !.inserted = @ \ {i}]
          /\ layeredPut.pc = "undo" /\ layeredRemover' = layeredRemover
    BY <1>5 DEF Layered!Undo
  <2>2. /\ layeredPut'.pc = "undo" /\ layeredPut'.before = layeredPut.before
        /\ layeredPut'.inserted = layeredPut.inserted \ {i}
        /\ layeredPut'.disturbed = layeredPut.disturbed
        /\ layeredPut.inserted \subseteq Layered!Stores
    BY <2>1 DEF LayeredTypes
  <2>3. Layered!Holding' = Layered!Holding \ {i}
    BY <2>1, <2>2 DEF Layered!Holding, LayeredTypes
  <2>4. QED
    BY <2>1, <2>2, <2>3 DEF OnlyInserted
<1>6. CASE Layered!UndoFails
  <2>1. layeredPut'.disturbed
    BY <1>6 DEF Layered!UndoFails, LayeredTypes
  <2>2. QED
    BY <2>1
<1>7. CASE Layered!Undone
  <2>1. /\ layeredPut.pc = "undo" /\ layeredPut'.pc = "error" /\ layeredPut.inserted = {}
        /\ layeredPut'.before = layeredPut.before
        /\ layeredPut'.disturbed = layeredPut.disturbed
        /\ layeredStores' = layeredStores /\ layeredRemover' = layeredRemover
    BY <1>7 DEF Layered!Undone, LayeredTypes
  <2>2. Layered!Holding' = Layered!Holding
    BY <2>1 DEF Layered!Holding
  <2>3. QED
    BY <2>1, <2>2 DEF OnlyInserted
<1>8. ASSUME NEW r \in Removers, Layered!Remove(r) \/ Layered!RemoveAt(r) \/ Layered!RemoveFails(r)
      PROVE  OnlyInserted'
  <2>1. layeredPut'.disturbed
    <3>1. CASE Layered!Remove(r) \/ Layered!RemoveAt(r)
      BY <3>1 DEF Layered!Remove, Layered!RemoveAt, Layered!Disturb, LayeredTypes
    <3>2. CASE Layered!RemoveFails(r)
      BY <3>2 DEF Layered!RemoveFails, OnlyInserted
    <3>3. QED
      BY <1>8, <3>1, <3>2
  <2>2. QED
    BY <2>1
<1>9. CASE Layered!Restart
  <2>1. layeredPut'.pc = "idle" /\ \A r \in Removers : layeredRemover'[r] = 0
    BY <1>9 DEF Layered!Restart, Layered!Idle
  <2>2. QED
    BY <2>1 DEF OnlyInserted
<1>10. CASE UNCHANGED layeredVars
  BY <1>10 DEF layeredVars, OnlyInserted, Layered!Holding
<1>11. QED
  BY <1>1, <1>2, <1>3, <1>4, <1>5, <1>6, <1>7, <1>8, <1>9, <1>10 DEF Layered!Next

\* The parts together are inductive.
LEMMA NextLayered == LayeredInv /\ [Layered!Next]_layeredVars => LayeredInv'
BY NextLayeredTypes, NextAgree, NextInserted DEF LayeredInv

\* For any number of backends, volatile or not, any removers and entries, however calls
\* fail and whenever the process restarts: two backends never hold different entries, a
\* failed put_if_absent that nothing disturbed leaves the backends as it found them, and
\* one that succeeded has written them all.
THEOREM LayeredAlwaysSafe == Layered!Spec => []LayeredStoreSafe
<1>1. LayeredInv => LayeredStoreSafe
  <2>1. LayeredTypes => Layered!TypeOK
    BY DEF LayeredTypes, Layered!TypeOK
  <2>2. OnlyInserted => Layered!FailureUndone /\ Layered!SuccessReplicated
    BY DEF OnlyInserted, Layered!FailureUndone, Layered!SuccessReplicated
  <2>3. QED
    BY <2>1, <2>2 DEF LayeredInv, LayeredStoreSafe, Layered!Safety
<1>2. QED
  BY <1>1, NextLayered, InitLayered, PTL DEF Layered!Spec, Layered!vars, layeredVars

-----------------------------------------------------------------------------
(* FileStore.                                                              *)

\* Where a process may be in put_if_absent and load_index.
FileStates ==
    {Shared!Idle} \cup [pc : {"absent"}, entry : Entries]
      \cup [pc : {"writing", "written", "synced"}, entry : Entries, name : Procs \X Shared!Nonces]
      \cup [pc : {"loading"}, seen : Shared!Files]

FileTypes ==
    /\ Shared!TypeOK
    /\ fileProc \in [Procs -> FileStates]

\* A process that writes has a temporary file of its own, as complete as its step says.
OwnTemp(p) ==
    fileProc[p].pc \in {"writing", "written", "synced"} =>
        /\ fileProc[p].name \in DOMAIN fileTemps /\ fileProc[p].name[1] = p
        /\ fileProc[p].pc # "writing" => fileTemps[fileProc[p].name].state = "full"
        /\ fileProc[p].pc = "synced" => fileTemps[fileProc[p].name].synced

\* A process takes a number for each put at most.
NonceCounted(p) ==
    /\ fileNonce[p] <= filePuts + 1
    /\ fileProc[p].pc = "absent" => fileNonce[p] <= filePuts

\* A process that never died has not yet used its number.
NonceFresh(p) ==
    p \notin fileCrashed => \A n \in DOMAIN fileTemps : n[1] = p => n[2] < fileNonce[p]

\* What is under the key's name is whole and on disk.
NamedSynced == Shared!WholeOrNothing /\ fileFinal.synced /\ fileDurable.synced

FileInv ==
    /\ FileTypes /\ NamedSynced
    /\ \A p \in Procs : OwnTemp(p) /\ NonceCounted(p) /\ NonceFresh(p)

\* The bounds are numbers.
LEMMA FileConstants == MaxPuts \in Nat /\ MaxFaults \in Nat /\ MaxPowerLosses \in Nat
BY MCAssumption DEF MCAssumption, Shared!BoundsAssumption

\* An empty directory satisfies the invariant.
LEMMA InitFile == Shared!Init => FileInv
<1> SUFFICES ASSUME Shared!Init PROVE FileInv
  OBVIOUS
<1>1. /\ fileFinal = Shared!NoFile /\ fileDurable = Shared!NoFile /\ DOMAIN fileTemps = {}
      /\ fileNonce = [p \in Procs |-> 1] /\ fileProc = [p \in Procs |-> Shared!Idle]
      /\ filePuts = 0 /\ fileFaults = [fault |-> 0, loss |-> 0] /\ fileCrashed = {}
  BY DEF Shared!Init
<1>2. FileTypes
  BY <1>1, FileConstants DEF FileTypes, Shared!TypeOK, FileStates, Shared!Nonces
<1>3. \A p \in Procs : OwnTemp(p) /\ NonceCounted(p) /\ NonceFresh(p)
  BY <1>1 DEF OwnTemp, NonceCounted, NonceFresh, Shared!Idle
<1>4. NamedSynced
  BY <1>1 DEF NamedSynced, Shared!WholeOrNothing, Shared!NoFile
<1>5. QED
  BY <1>2, <1>3, <1>4 DEF FileInv

\* The states a step may go to, by the place the process is in.
LEMMA StateOf ==
    ASSUME FileTypes, NEW p \in Procs
    PROVE  /\ fileProc[p].pc \in {"idle", "absent", "writing", "written", "synced", "loading"}
           /\ fileProc[p].pc = "idle" => fileProc[p] = Shared!Idle
           /\ fileProc[p].pc = "absent" => fileProc[p].entry \in Entries
           /\ fileProc[p].pc \in {"writing", "written", "synced"} =>
                /\ fileProc[p] \in [pc : {"writing", "written", "synced"}, entry : Entries,
                                    name : Procs \X Shared!Nonces]
           /\ fileProc[p].pc = "loading" => fileProc[p].seen \in Shared!Files
           /\ fileNonce[p] \in Nat \ {0} /\ filePuts \in Nat
<1>1. fileProc[p] \in FileStates
  BY DEF FileTypes
<1>2. fileNonce[p] \in Nat \ {0} /\ filePuts \in Nat
  BY FileConstants DEF FileTypes, Shared!TypeOK, Shared!Nonces
<1>3. QED
  BY <1>1, <1>2 DEF FileStates, Shared!Idle

\* A power loss keeps the shape of a file and changes only one that was not synced.
LEMMA FilesFacts ==
    /\ \A e \in Entries, s \in {"part", "full", "damaged"}, y \in BOOLEAN : Shared!File(e, s, y) \in Shared!Files
    /\ \A f \in Shared!Files \cup {Shared!NoFile} :
         /\ Shared!AfterLoss(f) \in Shared!Files \cup {Shared!NoFile}
         /\ f.synced => Shared!AfterLoss(f) = f
         /\ Shared!AfterLoss(f).synced
    /\ \A f \in Shared!Files : Shared!AfterLoss(f) \in Shared!Files
    /\ \A f \in Shared!Files : f # Shared!NoFile
<1>1. \A e \in Entries, s \in {"part", "full", "damaged"}, y \in BOOLEAN : Shared!File(e, s, y) \in Shared!Files
  BY DEF Shared!File, Shared!Files
<1>2. ASSUME NEW f \in Shared!Files
      PROVE  /\ Shared!AfterLoss(f) \in Shared!Files /\ Shared!AfterLoss(f).synced /\ f # Shared!NoFile
             /\ f.synced => Shared!AfterLoss(f) = f
  <2>1. /\ f = [entry |-> f.entry, state |-> f.state, synced |-> f.synced]
        /\ f.entry \in Entries /\ f.state \in {"part", "full", "damaged"} /\ f.synced \in BOOLEAN
    BY DEF Shared!Files
  <2>2. ~f.synced => Shared!AfterLoss(f) = [entry |-> f.entry, state |-> "part", synced |-> TRUE]
    BY <2>1 DEF Shared!AfterLoss
  <2>3. f.synced => Shared!AfterLoss(f) = f
    BY DEF Shared!AfterLoss
  <2>4. f # Shared!NoFile
    BY <2>1 DEF Shared!NoFile
  <2>5. [entry |-> f.entry, state |-> "part", synced |-> TRUE] \in Shared!Files
    BY <2>1 DEF Shared!Files
  <2>6. CASE f.synced
    BY <2>3, <2>4, <2>6
  <2>7. CASE ~f.synced
    <3>1. [entry |-> f.entry, state |-> "part", synced |-> TRUE].synced = TRUE
      OBVIOUS
    <3>2. Shared!AfterLoss(f) = [entry |-> f.entry, state |-> "part", synced |-> TRUE]
      BY <2>2, <2>7
    <3>3. QED
      BY <2>4, <2>5, <2>7, <3>1, <3>2
  <2>8. QED
    BY <2>6, <2>7
<1>3. Shared!NoFile.synced /\ Shared!AfterLoss(Shared!NoFile) = Shared!NoFile
  BY DEF Shared!AfterLoss, Shared!NoFile
<1>4. QED
  BY <1>1, <1>2, <1>3

\* The counts of faults stay within their bounds.
LEMMA FaultType ==
    ASSUME FileInv
    PROVE  /\ Shared!Faulty => fileFaults' \in [fault : 0..MaxFaults, loss : 0..MaxPowerLosses]
           /\ fileFaults.loss < MaxPowerLosses /\ fileFaults' = [fileFaults EXCEPT !.loss = @ + 1]
                => fileFaults' \in [fault : 0..MaxFaults, loss : 0..MaxPowerLosses]
<1>1. fileFaults \in [fault : 0..MaxFaults, loss : 0..MaxPowerLosses]
  BY DEF FileInv, FileTypes, Shared!TypeOK
<1>2. fileFaults.fault < MaxFaults => fileFaults.fault + 1 \in 0..MaxFaults
  BY <1>1, FileConstants
<1>3. fileFaults.loss < MaxPowerLosses => fileFaults.loss + 1 \in 0..MaxPowerLosses
  BY <1>1, FileConstants
<1>4. QED
  BY <1>1, <1>2, <1>3 DEF Shared!Faulty

\* A step of process p: its own conjuncts hold after it, and it leaves alone the places
\* of the others and the temporary files that do not carry its pid.
Stepped(p) ==
    /\ FileTypes' /\ NamedSynced' /\ OwnTemp(p)' /\ NonceCounted(p)' /\ NonceFresh(p)'
    /\ \A q \in Procs \ {p} : fileProc'[q] = fileProc[q] /\ fileNonce'[q] = fileNonce[q]
    /\ filePuts' \in {filePuts, filePuts + 1} /\ fileCrashed \subseteq fileCrashed'
    /\ \A n \in Procs \X Nat : n[1] # p =>
         /\ n \in DOMAIN fileTemps' <=> n \in DOMAIN fileTemps
         /\ n \in DOMAIN fileTemps => fileTemps'[n] = fileTemps[n]

\* A step of one process keeps the conjuncts of the others, whose files carry their pid.
LEMMA SteppedKeeps ==
    ASSUME FileInv, NEW p \in Procs, Stepped(p)
    PROVE  FileInv'
<1>1. ASSUME NEW q \in Procs, q # p PROVE OwnTemp(q)' /\ NonceCounted(q)' /\ NonceFresh(q)'
  <2>1. /\ fileProc'[q] = fileProc[q] /\ fileNonce'[q] = fileNonce[q] /\ fileNonce[q] \in Nat
        /\ filePuts \in Nat /\ filePuts' \in {filePuts, filePuts + 1} /\ fileCrashed \subseteq fileCrashed'
        /\ OwnTemp(q) /\ NonceCounted(q) /\ NonceFresh(q)
    BY <1>1, StateOf DEF Stepped, FileInv
  <2>2. \A n \in DOMAIN fileTemps \cup DOMAIN fileTemps' : n[1] # p =>
          /\ n \in DOMAIN fileTemps' <=> n \in DOMAIN fileTemps
          /\ n \in DOMAIN fileTemps => fileTemps'[n] = fileTemps[n]
    <3>1. \A n \in DOMAIN fileTemps \cup DOMAIN fileTemps' : n \in Procs \X Nat
      BY DEF Stepped, FileInv, FileTypes, Shared!TypeOK, Shared!Nonces
    <3>2. QED
      BY <3>1 DEF Stepped
  <2>3. OwnTemp(q)'
    BY <1>1, <2>1, <2>2 DEF OwnTemp
  <2>4. NonceCounted(q)'
    BY <2>1 DEF NonceCounted
  <2>5. NonceFresh(q)'
    BY <1>1, <2>1, <2>2 DEF NonceFresh
  <2>6. QED
    BY <2>3, <2>4, <2>5
<1>2. QED
  BY <1>1 DEF Stepped, FileInv

\* The parts of a step that leaves the names and the history as they are.
LEMMA QuietStep ==
    ASSUME FileInv, NEW p \in Procs, NEW s \in FileStates,
           fileProc' = [fileProc EXCEPT ![p] = s],
           s.pc \notin {"absent", "writing", "written", "synced"},
           fileNonce' = fileNonce, filePuts' = filePuts, fileCrashed' = fileCrashed,
           fileFaults' \in [fault : 0..MaxFaults, loss : 0..MaxPowerLosses],
           fileFinal' \in {fileFinal, Shared!NoFile}, fileDurable' = fileDurable,
           \/ fileTemps' = fileTemps
           \/ \E n \in DOMAIN fileTemps : n[1] = p /\ fileTemps' = Shared!Without(fileTemps, n)
    PROVE  Stepped(p)
<1>1. fileProc' \in [Procs -> FileStates] /\ fileProc'[p] = s
      /\ \A q \in Procs \ {p} : fileProc'[q] = fileProc[q]
  BY DEF FileInv, FileTypes
<1>2. /\ DOMAIN fileTemps' \subseteq DOMAIN fileTemps
      /\ \A n \in DOMAIN fileTemps' : fileTemps'[n] = fileTemps[n]
      /\ \A n \in Procs \X Nat : n[1] # p =>
           (n \in DOMAIN fileTemps' <=> n \in DOMAIN fileTemps)
  BY DEF Shared!Without
<1>3. FileTypes'
  BY <1>1, <1>2 DEF FileInv, FileTypes, Shared!TypeOK
<1>4. NamedSynced'
  BY DEF FileInv, NamedSynced, Shared!WholeOrNothing, Shared!NoFile
<1>5. OwnTemp(p)' /\ NonceCounted(p)' /\ NonceFresh(p)'
  <2>1. NonceCounted(p) /\ NonceFresh(p)
    BY DEF FileInv
  <2>2. QED
    BY <1>1, <1>2, <2>1 DEF OwnTemp, NonceCounted, NonceFresh
<1>6. QED
  BY <1>1, <1>2, <1>3, <1>4, <1>5 DEF Stepped

\* The put that has found the name free.
LEMMA PutStep ==
    ASSUME FileInv, NEW p \in Procs, NEW e \in Entries, Shared!Put(p, e)
    PROVE  Stepped(p)
<1> DEFINE s == [pc |-> "absent", entry |-> e]
<1>1. s \in FileStates /\ s.pc = "absent"
  BY DEF FileStates
<1> HIDE DEF s
<1>2. /\ fileProc' = [fileProc EXCEPT ![p] = s] /\ filePuts' = filePuts + 1 /\ filePuts < MaxPuts
      /\ fileFinal' = fileFinal /\ fileDurable' = fileDurable /\ fileTemps' = fileTemps
      /\ fileNonce' = fileNonce /\ fileFaults' = fileFaults /\ fileCrashed' = fileCrashed
  BY DEF Shared!Put, Shared!Goto, s
<1>3. fileProc' \in [Procs -> FileStates] /\ fileProc'[p] = s
      /\ \A q \in Procs \ {p} : fileProc'[q] = fileProc[q]
  BY <1>1, <1>2 DEF FileInv, FileTypes
<1>4. FileTypes'
  BY <1>2, <1>3, FileConstants DEF FileInv, FileTypes, Shared!TypeOK
<1>5. NamedSynced'
  BY <1>2 DEF FileInv, NamedSynced, Shared!WholeOrNothing
<1>6. OwnTemp(p)' /\ NonceFresh(p)'
  BY <1>1, <1>2, <1>3 DEF FileInv, OwnTemp, NonceFresh
<1>7. NonceCounted(p)'
  <2>1. fileNonce[p] \in Nat /\ filePuts \in Nat /\ NonceCounted(p)
    BY StateOf DEF FileInv
  <2>2. QED
    BY <1>2, <1>3, <2>1 DEF NonceCounted
<1>8. QED
  BY <1>2, <1>3, <1>4, <1>5, <1>6, <1>7 DEF Stepped

\* create_new takes the number of the process, if no file has the name.
LEMMA CreateStep ==
    ASSUME FileInv, NEW p \in Procs, Shared!Create(p)
    PROVE  Stepped(p)
<1>1. /\ fileProc[p].pc = "absent" /\ fileProc[p].entry \in Entries
      /\ fileNonce[p] \in Nat \ {0} /\ filePuts \in Nat
      /\ NonceCounted(p) /\ NonceFresh(p)
  BY StateOf DEF FileInv, Shared!Create
<1> DEFINE name == <<p, fileNonce[p]>>
<1>2. name \in Procs \X Shared!Nonces /\ name[1] = p /\ name[2] = fileNonce[p]
  BY DEF FileInv, FileTypes, Shared!TypeOK
<1>3. Shared!TempName(p) = name
  BY DEF Shared!TempName
<1> HIDE DEF name
<1>4. /\ fileNonce' = [fileNonce EXCEPT ![p] = @ + 1] /\ filePuts' = filePuts
      /\ fileFinal' = fileFinal /\ fileDurable' = fileDurable
      /\ fileFaults' = fileFaults /\ fileCrashed' = fileCrashed
  BY DEF Shared!Create, Shared!NextNonce
<1>5. /\ fileNonce' \in [Procs -> Shared!Nonces] /\ fileNonce'[p] = fileNonce[p] + 1
      /\ \A q \in Procs \ {p} : fileNonce'[q] = fileNonce[q]
  <2>1. fileNonce[p] + 1 \in Shared!Nonces
    BY <1>1, FileConstants DEF NonceCounted, Shared!Nonces, FileInv, FileTypes, Shared!TypeOK
  <2>2. QED
    BY <1>4, <2>1 DEF FileInv, FileTypes, Shared!TypeOK
<1>6. CASE name \in DOMAIN fileTemps
  <2>1. fileProc' = [fileProc EXCEPT ![p] = Shared!Idle] /\ fileTemps' = fileTemps
    BY <1>3, <1>6 DEF Shared!Create, Shared!Goto
  <2>2. Shared!Idle \in FileStates /\ Shared!Idle.pc = "idle"
    BY DEF FileStates, Shared!Idle
  <2>3. fileProc' \in [Procs -> FileStates] /\ fileProc'[p].pc = "idle"
        /\ \A q \in Procs \ {p} : fileProc'[q] = fileProc[q]
    BY <2>1, <2>2 DEF FileInv, FileTypes
  <2>4. FileTypes'
    BY <1>4, <1>5, <2>1, <2>3 DEF FileInv, FileTypes, Shared!TypeOK
  <2>5. NamedSynced'
    BY <1>4 DEF FileInv, NamedSynced, Shared!WholeOrNothing
  <2>6. OwnTemp(p)' /\ NonceCounted(p)'
    BY <1>1, <1>4, <1>5, <2>3 DEF OwnTemp, NonceCounted
  <2>7. NonceFresh(p)'
    BY <1>1, <1>2, <1>4, <1>6, <2>1 DEF NonceFresh
  <2>8. QED
    BY <1>4, <1>5, <2>1, <2>3, <2>4, <2>5, <2>6, <2>7 DEF Stepped
<1>7. CASE name \notin DOMAIN fileTemps
  <2> DEFINE file == Shared!File(fileProc[p].entry, "part", FALSE)
             s == [pc |-> "writing", entry |-> fileProc[p].entry, name |-> name]
  <2>1. fileProc' = [fileProc EXCEPT ![p] = s] /\ fileTemps' = Shared!With(fileTemps, name, file)
    BY <1>3, <1>7 DEF Shared!Create, Shared!Goto
  <2>2. /\ s \in FileStates /\ s.pc = "writing" /\ s.name = name
        /\ file \in Shared!Files
    BY <1>1, <1>2, FilesFacts DEF FileStates
  <2> HIDE DEF s, file
  <2>3. fileProc' \in [Procs -> FileStates] /\ fileProc'[p] = s
        /\ \A q \in Procs \ {p} : fileProc'[q] = fileProc[q]
    BY <2>1, <2>2 DEF FileInv, FileTypes
  <2>4. /\ DOMAIN fileTemps' = DOMAIN fileTemps \cup {name}
        /\ \A n \in DOMAIN fileTemps : n # name => fileTemps'[n] = fileTemps[n]
        /\ fileTemps'[name] = file
    BY <2>1 DEF Shared!With
  <2>5. FileTypes'
    <3>1. DOMAIN fileTemps' \subseteq Procs \X Shared!Nonces /\ \A n \in DOMAIN fileTemps' : fileTemps'[n] \in Shared!Files
      BY <1>2, <2>2, <2>4 DEF FileInv, FileTypes, Shared!TypeOK
    <3>2. QED
      BY <1>4, <1>5, <2>3, <3>1 DEF FileInv, FileTypes, Shared!TypeOK
  <2>6. NamedSynced'
    BY <1>4 DEF FileInv, NamedSynced, Shared!WholeOrNothing
  <2>7. OwnTemp(p)' /\ NonceCounted(p)'
    BY <1>1, <1>2, <1>4, <1>5, <2>2, <2>3, <2>4 DEF OwnTemp, NonceCounted
  <2>8. NonceFresh(p)'
    <3>1. ASSUME NEW n \in DOMAIN fileTemps', n[1] = p, p \notin fileCrashed PROVE n[2] < fileNonce[p] + 1
      <4>1. CASE n = name
        BY <1>1, <1>2, <4>1
      <4>2. CASE n \in DOMAIN fileTemps
        <5>1. n[2] \in Nat /\ n[2] < fileNonce[p]
          BY <1>1, <3>1, <4>2 DEF NonceFresh, FileInv, FileTypes, Shared!TypeOK, Shared!Nonces
        <5>2. QED
          BY <1>1, <5>1
      <4>3. QED
        BY <2>4, <4>1, <4>2
    <3>2. QED
      BY <1>4, <1>5, <3>1 DEF NonceFresh
  <2>9. QED
    BY <1>2, <1>4, <1>5, <2>3, <2>4, <2>5, <2>6, <2>7, <2>8 DEF Stepped
<1>8. QED
  BY <1>6, <1>7

\* Write and Sync: the temporary file of p is further on, and so is p.
LEMMA FillStep ==
    ASSUME FileInv, NEW p \in Procs, Shared!Write(p) \/ Shared!Sync(p)
    PROVE  Stepped(p)
<1> DEFINE name == fileProc[p].name
<1>1. /\ fileProc[p] \in [pc : {"writing", "written", "synced"}, entry : Entries,
                          name : Procs \X Shared!Nonces]
      /\ fileProc[p].pc \in {"writing", "written"} /\ fileNonce[p] \in Nat /\ filePuts \in Nat
      /\ name \in DOMAIN fileTemps /\ name[1] = p /\ fileTemps[name] \in Shared!Files
      /\ fileProc[p].pc # "writing" => fileTemps[name].state = "full"
      /\ NonceCounted(p) /\ NonceFresh(p)
  <2>1. fileProc[p].pc \in {"writing", "written"}
    BY DEF Shared!Write, Shared!Sync
  <2>2. OwnTemp(p) /\ NonceCounted(p) /\ NonceFresh(p) /\ \A n \in DOMAIN fileTemps : fileTemps[n] \in Shared!Files
    BY DEF FileInv, FileTypes, Shared!TypeOK
  <2>3. QED
    BY <2>1, <2>2, StateOf DEF OwnTemp, FileInv
<1>2. /\ fileNonce' = fileNonce /\ filePuts' = filePuts /\ fileFaults' = fileFaults
      /\ fileFinal' = fileFinal /\ fileDurable' = fileDurable /\ fileCrashed' = fileCrashed
  BY DEF Shared!Write, Shared!Sync
<1>3. PICK c \in {"written", "synced"}, f \in Shared!Files :
        /\ fileProc' = [fileProc EXCEPT ![p] = [fileProc[p] EXCEPT !.pc = c]]
        /\ fileTemps' = [fileTemps EXCEPT ![name] = f]
        /\ f.state = "full" /\ (c = "synced" => f.synced)
  <2>1. CASE Shared!Write(p)
    <3> DEFINE f == [fileTemps[name] EXCEPT !.state = "full"]
    <3>1. f \in Shared!Files /\ f.state = "full"
      BY <1>1 DEF Shared!Files
    <3>2. fileTemps' = [fileTemps EXCEPT ![name] = f]
      BY <2>1 DEF Shared!Write
    <3>3. fileProc' = [fileProc EXCEPT ![p] = [fileProc[p] EXCEPT !.pc = "written"]]
      BY <2>1 DEF Shared!Write, Shared!Goto
    <3> HIDE DEF f
    <3>4. QED
      BY <3>1, <3>2, <3>3
  <2>2. CASE Shared!Sync(p)
    <3> DEFINE f == [fileTemps[name] EXCEPT !.synced = TRUE]
    <3>1. f \in Shared!Files /\ f.state = "full" /\ f.synced
      BY <1>1, <2>2 DEF Shared!Files, Shared!Sync
    <3>2. fileTemps' = [fileTemps EXCEPT ![name] = f]
      BY <2>2 DEF Shared!Sync
    <3>3. fileProc' = [fileProc EXCEPT ![p] = [fileProc[p] EXCEPT !.pc = "synced"]]
      BY <2>2 DEF Shared!Sync, Shared!Goto
    <3> HIDE DEF f
    <3>4. QED
      BY <3>1, <3>2, <3>3
  <2>3. QED
    BY <2>1, <2>2
<1> DEFINE s == [fileProc[p] EXCEPT !.pc = c]
<1>4. s \in FileStates /\ s.pc = c /\ s.name = name
  <2>1. s \in [pc : {"writing", "written", "synced"}, entry : Entries, name : Procs \X Shared!Nonces]
    BY <1>1
  <2>2. QED
    BY <1>1, <2>1 DEF FileStates
<1>5. fileProc' \in [Procs -> FileStates] /\ fileProc'[p] = s
      /\ \A q \in Procs \ {p} : fileProc'[q] = fileProc[q]
  BY <1>3, <1>4 DEF FileInv, FileTypes
<1> HIDE DEF s, name
<1>6. /\ DOMAIN fileTemps' = DOMAIN fileTemps /\ fileTemps'[name] = f
      /\ \A n \in DOMAIN fileTemps : n # name => fileTemps'[n] = fileTemps[n]
  BY <1>1, <1>3
<1>7. FileTypes'
  BY <1>2, <1>5, <1>6 DEF FileInv, FileTypes, Shared!TypeOK
<1>8. NamedSynced'
  BY <1>2 DEF FileInv, NamedSynced, Shared!WholeOrNothing
<1>9. OwnTemp(p)' /\ NonceCounted(p)' /\ NonceFresh(p)'
  BY <1>1, <1>2, <1>3, <1>4, <1>5, <1>6 DEF OwnTemp, NonceCounted, NonceFresh
<1>10. QED
  BY <1>1, <1>2, <1>5, <1>6, <1>7, <1>8, <1>9 DEF Stepped

\* The file that is renamed is complete and synced.
LEMMA RenameStep ==
    ASSUME FileInv, NEW p \in Procs, Shared!Rename(p)
    PROVE  Stepped(p)
<1> DEFINE name == fileProc[p].name
<1>1. /\ fileProc[p].pc = "synced" /\ fileNonce[p] \in Nat /\ filePuts \in Nat
      /\ name \in DOMAIN fileTemps /\ name[1] = p /\ fileTemps[name] \in Shared!Files
      /\ fileTemps[name].state = "full" /\ fileTemps[name].synced
      /\ NonceCounted(p) /\ NonceFresh(p)
  <2>1. fileProc[p].pc = "synced"
    BY DEF Shared!Rename
  <2>2. OwnTemp(p) /\ NonceCounted(p) /\ NonceFresh(p) /\ \A n \in DOMAIN fileTemps : fileTemps[n] \in Shared!Files
    BY DEF FileInv, FileTypes, Shared!TypeOK
  <2>3. QED
    BY <2>1, <2>2, StateOf DEF OwnTemp, FileInv
<1>2. /\ fileNonce' = fileNonce /\ filePuts' = filePuts /\ fileFaults' = fileFaults
      /\ fileFinal' = fileTemps[name] /\ fileDurable' = fileDurable /\ fileCrashed' = fileCrashed
      /\ fileTemps' = Shared!Without(fileTemps, name)
      /\ fileProc' = [fileProc EXCEPT ![p] = Shared!Idle]
  BY DEF Shared!Rename, Shared!Goto
<1> HIDE DEF name
<1>3. /\ DOMAIN fileTemps' = DOMAIN fileTemps \ {name}
      /\ \A n \in DOMAIN fileTemps' : fileTemps'[n] = fileTemps[n]
  BY <1>2 DEF Shared!Without
<1>4. Shared!Idle \in FileStates /\ Shared!Idle.pc = "idle"
  BY DEF FileStates, Shared!Idle
<1>5. fileProc' \in [Procs -> FileStates] /\ fileProc'[p].pc = "idle"
      /\ \A q \in Procs \ {p} : fileProc'[q] = fileProc[q]
  BY <1>2, <1>4 DEF FileInv, FileTypes
<1>6. FileTypes'
  BY <1>1, <1>2, <1>3, <1>5 DEF FileInv, FileTypes, Shared!TypeOK
<1>7. NamedSynced'
  BY <1>1, <1>2 DEF FileInv, NamedSynced, Shared!WholeOrNothing
<1>8. OwnTemp(p)' /\ NonceCounted(p)' /\ NonceFresh(p)'
  BY <1>1, <1>2, <1>3, <1>5 DEF OwnTemp, NonceCounted, NonceFresh
<1>9. QED
  BY <1>1, <1>2, <1>3, <1>5, <1>6, <1>7, <1>8 DEF Stepped

\* A process that dies may meet its old files, which is what NonceFresh allows.
LEMMA CrashStep ==
    ASSUME FileInv, NEW p \in Procs, Shared!Crash(p)
    PROVE  Stepped(p)
<1>1. /\ fileProc' = [fileProc EXCEPT ![p] = Shared!Idle] /\ fileNonce' = [fileNonce EXCEPT ![p] = 1]
      /\ fileCrashed' = fileCrashed \cup {p} /\ filePuts' = filePuts /\ filePuts \in Nat
      /\ fileFinal' = fileFinal /\ fileDurable' = fileDurable /\ fileTemps' = fileTemps
  BY StateOf DEF Shared!Crash, Shared!Goto, FileInv
<1>2. Shared!Idle \in FileStates /\ Shared!Idle.pc = "idle"
  BY DEF FileStates, Shared!Idle
<1>3. fileProc' \in [Procs -> FileStates] /\ fileProc'[p].pc = "idle"
      /\ \A q \in Procs \ {p} : fileProc'[q] = fileProc[q]
  BY <1>1, <1>2 DEF FileInv, FileTypes
<1>4. /\ fileNonce' \in [Procs -> Shared!Nonces] /\ fileNonce'[p] = 1
      /\ \A q \in Procs \ {p} : fileNonce'[q] = fileNonce[q]
  BY <1>1, FileConstants DEF FileInv, FileTypes, Shared!TypeOK, Shared!Nonces
<1>5. fileFaults' \in [fault : 0..MaxFaults, loss : 0..MaxPowerLosses]
  BY FaultType DEF Shared!Crash
<1>6. FileTypes'
  BY <1>1, <1>3, <1>4, <1>5 DEF FileInv, FileTypes, Shared!TypeOK
<1>7. NamedSynced'
  BY <1>1 DEF FileInv, NamedSynced, Shared!WholeOrNothing
<1>8. OwnTemp(p)' /\ NonceCounted(p)' /\ NonceFresh(p)'
  BY <1>1, <1>3, <1>4 DEF OwnTemp, NonceCounted, NonceFresh
<1>9. QED
  BY <1>1, <1>3, <1>4, <1>6, <1>7, <1>8 DEF Stepped

\* The other steps of a process: calls that fail, removals and load_index.
LEMMA QuietSteps ==
    ASSUME FileInv, NEW p \in Procs,
           \/ Shared!WriteFails(p) \/ Shared!RenameFails(p) \/ Shared!Remove(p)
           \/ Shared!LoadStat(p) \/ Shared!LoadStatFails(p) \/ Shared!LoadHeader(p)
    PROVE  Stepped(p)
<1>1. Shared!Idle \in FileStates /\ Shared!Idle.pc = "idle"
  BY DEF FileStates, Shared!Idle
<1>2. fileFaults \in [fault : 0..MaxFaults, loss : 0..MaxPowerLosses]
  BY DEF FileInv, FileTypes, Shared!TypeOK
<1>3. CASE Shared!WriteFails(p)
  <2>1. fileFaults' \in [fault : 0..MaxFaults, loss : 0..MaxPowerLosses]
    BY <1>3, FaultType DEF Shared!WriteFails
  <2>2. QED
    BY <1>1, <1>3, <2>1, QuietStep DEF Shared!WriteFails, Shared!Goto
<1>4. CASE Shared!RenameFails(p)
  <2>1. fileFaults' \in [fault : 0..MaxFaults, loss : 0..MaxPowerLosses]
    BY <1>4, FaultType DEF Shared!RenameFails
  <2>2. fileProc[p].name \in DOMAIN fileTemps /\ fileProc[p].name[1] = p
    BY <1>4 DEF FileInv, OwnTemp, Shared!RenameFails
  <2>3. QED
    BY <1>1, <1>4, <2>1, <2>2, QuietStep DEF Shared!RenameFails, Shared!Goto
<1>5. CASE Shared!Remove(p)
  <2>1. fileProc' = [fileProc EXCEPT ![p] = Shared!Idle]
    BY <1>5 DEF Shared!Remove, FileInv, FileTypes
  <2>2. QED
    BY <1>1, <1>2, <1>5, <2>1, QuietStep DEF Shared!Remove
<1>6. CASE Shared!LoadStat(p)
  <2> DEFINE s == [pc |-> "loading", seen |-> fileFinal]
  <2>1. fileFinal \in Shared!Files
    BY <1>6 DEF Shared!LoadStat, FileInv, FileTypes, Shared!TypeOK
  <2>2. s \in FileStates /\ s.pc = "loading"
    BY <2>1 DEF FileStates
  <2>3. fileProc' = [fileProc EXCEPT ![p] = s]
    BY <1>6 DEF Shared!LoadStat, Shared!Goto
  <2> HIDE DEF s
  <2>4. QED
    BY <1>2, <1>6, <2>2, <2>3, QuietStep DEF Shared!LoadStat
<1>7. CASE Shared!LoadHeader(p)
  BY <1>1, <1>2, <1>7, QuietStep DEF Shared!LoadHeader, Shared!Goto
<1>8. CASE Shared!LoadStatFails(p)
  <2>1. fileFaults' \in [fault : 0..MaxFaults, loss : 0..MaxPowerLosses]
    BY <1>8, FaultType DEF Shared!LoadStatFails
  <2>2. fileProc' = [fileProc EXCEPT ![p] = Shared!Idle]
    BY <1>8 DEF Shared!LoadStatFails, FileInv, FileTypes
  <2>3. QED
    BY <1>1, <1>8, <2>1, <2>2, QuietStep DEF Shared!LoadStatFails
<1>9. QED
  BY <1>3, <1>4, <1>5, <1>6, <1>7, <1>8

\* What is under the name is synced, so a power loss leaves it whole.
LEMMA PowerLossStep == FileInv /\ Shared!PowerLoss => FileInv'
<1> SUFFICES ASSUME FileInv, Shared!PowerLoss PROVE FileInv'
  OBVIOUS
<1>1. PICK f \in {fileFinal, fileDurable} : fileFinal' = f /\ fileDurable' = f
  BY FilesFacts DEF Shared!PowerLoss, FileInv, FileTypes, Shared!TypeOK, NamedSynced
<1>2. /\ fileTemps' = [n \in DOMAIN fileTemps |-> Shared!AfterLoss(fileTemps[n])]
      /\ fileNonce' = [p \in Procs |-> 1] /\ fileProc' = [p \in Procs |-> Shared!Idle]
      /\ fileCrashed' = Procs /\ filePuts' = filePuts
  BY DEF Shared!PowerLoss
<1>3. fileFaults' \in [fault : 0..MaxFaults, loss : 0..MaxPowerLosses]
  BY FaultType DEF Shared!PowerLoss
<1>4. Shared!Idle \in FileStates /\ Shared!Idle.pc = "idle" /\ 1 \in Shared!Nonces
  BY FileConstants DEF FileStates, Shared!Idle, Shared!Nonces
<1>5. \A n \in DOMAIN fileTemps' : fileTemps'[n] \in Shared!Files /\ n \in Procs \X Shared!Nonces
  BY <1>2, FilesFacts DEF FileInv, FileTypes, Shared!TypeOK
<1>6. FileTypes'
  BY <1>1, <1>2, <1>3, <1>4, <1>5 DEF FileInv, FileTypes, Shared!TypeOK
<1>7. NamedSynced'
  BY <1>1 DEF FileInv, NamedSynced, Shared!WholeOrNothing
<1>8. ASSUME NEW p \in Procs PROVE OwnTemp(p)' /\ NonceCounted(p)' /\ NonceFresh(p)'
  <2>1. filePuts \in Nat
    BY StateOf DEF FileInv
  <2>2. QED
    BY <1>2, <1>4, <2>1 DEF OwnTemp, NonceCounted, NonceFresh
<1>9. QED
  BY <1>6, <1>7, <1>8 DEF FileInv

\* Neither the directory reaching the disk nor damage makes a part of a file.
LEMMA DiskStep == FileInv /\ (Shared!Flush \/ Shared!Damage \/ UNCHANGED fileVars) => FileInv'
<1> SUFFICES ASSUME FileInv, Shared!Flush \/ Shared!Damage \/ UNCHANGED fileVars PROVE FileInv'
  OBVIOUS
<1>1. /\ fileTemps' = fileTemps /\ fileNonce' = fileNonce /\ fileProc' = fileProc
      /\ fileCrashed' = fileCrashed /\ filePuts' = filePuts
  BY DEF Shared!Flush, Shared!Damage, fileVars
<1>2. fileFaults' \in [fault : 0..MaxFaults, loss : 0..MaxPowerLosses]
  BY FaultType DEF Shared!Flush, Shared!Damage, fileVars, FileInv, FileTypes, Shared!TypeOK
<1>3. /\ fileFinal' \in Shared!Files \cup {Shared!NoFile} /\ fileDurable' \in Shared!Files \cup {Shared!NoFile}
      /\ NamedSynced'
  <2>1. CASE Shared!Flush \/ UNCHANGED fileVars
    BY <2>1 DEF Shared!Flush, fileVars, FileInv, FileTypes, Shared!TypeOK, NamedSynced, Shared!WholeOrNothing
  <2>2. CASE Shared!Damage
    <3> DEFINE f == [fileFinal EXCEPT !.state = "damaged"]
    <3>1. fileFinal \in Shared!Files /\ fileFinal.synced
      BY <2>2 DEF Shared!Damage, FileInv, FileTypes, Shared!TypeOK, NamedSynced
    <3>2. f \in Shared!Files /\ f.state = "damaged" /\ f.synced
      BY <3>1 DEF Shared!Files
    <3>3. fileFinal' = f /\ fileDurable' \in {f, fileDurable}
      BY <2>2 DEF Shared!Damage
    <3> HIDE DEF f
    <3>4. QED
      BY <3>2, <3>3 DEF FileInv, FileTypes, Shared!TypeOK, NamedSynced, Shared!WholeOrNothing
  <2>3. QED
    BY <2>1, <2>2
<1>4. FileTypes'
  BY <1>1, <1>2, <1>3 DEF FileInv, FileTypes, Shared!TypeOK
<1>5. ASSUME NEW p \in Procs PROVE OwnTemp(p)' /\ NonceCounted(p)' /\ NonceFresh(p)'
  BY <1>1 DEF FileInv, OwnTemp, NonceCounted, NonceFresh
<1>6. QED
  BY <1>3, <1>4, <1>5 DEF FileInv

\* Every step of every process and of the machine keeps the invariant.
LEMMA NextFile == FileInv /\ [Shared!Next]_fileVars => FileInv'
<1> SUFFICES ASSUME FileInv, [Shared!Next]_fileVars PROVE FileInv'
  OBVIOUS
<1>1. ASSUME NEW p \in Procs, NEW e \in Entries, Shared!Put(p, e) PROVE FileInv'
  BY <1>1, PutStep, SteppedKeeps
<1>2. ASSUME NEW p \in Procs,
             \/ Shared!Create(p) \/ Shared!Write(p) \/ Shared!Sync(p) \/ Shared!Rename(p) \/ Shared!Crash(p)
      PROVE  FileInv'
  <2>1. Stepped(p)
    BY <1>2, CreateStep, FillStep, RenameStep, CrashStep
  <2>2. QED
    BY <2>1, SteppedKeeps
<1>3. ASSUME NEW p \in Procs,
             \/ Shared!WriteFails(p) \/ Shared!RenameFails(p) \/ Shared!Remove(p)
             \/ Shared!LoadStat(p) \/ Shared!LoadStatFails(p) \/ Shared!LoadHeader(p)
      PROVE  FileInv'
  <2>1. Stepped(p)
    BY <1>3, QuietSteps
  <2>2. QED
    BY <2>1, SteppedKeeps
<1>4. QED
  BY <1>1, <1>2, <1>3, PowerLossStep, DiskStep DEF Shared!Next

\* The composition runs one component at a time.
LEMMA FileRuns ==
    [MCNext]_mcVars => /\ part' = part
                       /\ part = "file" => [Shared!Next]_fileVars
                       /\ part = "file alone" => [Alone!Next]_fileVars
                       /\ part = "layered" => [Layered!Next]_layeredVars
BY DEF MCNext, mcVars, Still, fileVars, layeredVars

\* load_index accepts a whole file that is still the one it measured.
LEMMA LoadKeeps == Shared!LoadKeepsWhole
<1> SUFFICES ASSUME NEW p \in Procs, Shared!LoadHeader(p), fileFinal.state = "full",
                    fileFinal' = Shared!NoFile, fileProc[p].seen = fileFinal
             PROVE  FALSE
  BY DEF Shared!LoadKeepsWhole
<1>1. fileFinal # Shared!NoFile
  BY DEF Shared!NoFile
<1>2. Shared!Accepted(fileProc[p].seen, fileFinal)
  BY DEF Shared!Accepted
<1>3. QED
  BY <1>1, <1>2 DEF Shared!LoadHeader

\* For any processes on one directory, any crashes, damage and power losses: the file
\* under a key's name is never a part of an entry, a process meets its own temporary
\* name only after it died, and load_index, once it has measured a whole file, drops it
\* only if another took its place before the header was read.
THEOREM FilesAlwaysWhole == MCSpec => FileStoreSafe
<1> DEFINE Inv == part = "file" => FileInv
           Load == part = "file" => Shared!LoadKeepsWhole
<1>1. MCInit => Inv
  BY InitFile DEF MCInit
<1>2. Inv /\ [MCNext]_mcVars => Inv'
  BY FileRuns, NextFile
<1>3. Inv => (part = "file" => Shared!Safety)
  <2>1. ASSUME FileInv, NEW p \in Procs, <<p, fileNonce[p]>> \in DOMAIN fileTemps
        PROVE  p \in fileCrashed
    <3>1. fileNonce[p] \in Nat /\ NonceFresh(p)
      BY <2>1, StateOf DEF FileInv
    <3>2. QED
      BY <2>1, <3>1 DEF NonceFresh
  <2>2. FileInv => Shared!NoClash
    BY <2>1 DEF Shared!NoClash, Shared!TempName
  <2>3. QED
    BY <2>2 DEF FileInv, FileTypes, NamedSynced, Shared!Safety
<1>4. [MCNext]_mcVars => [Load]_mcVars
  BY LoadKeeps
<1>5. QED
  BY <1>1, <1>2, <1>3, <1>4, PTL DEF MCSpec, FileStoreSafe

-----------------------------------------------------------------------------
(* What the cache sees of a store.                                         *)

\* Some number of a set of numbers is the first.
LEMMA FirstOfSet ==
    ASSUME NEW T \in SUBSET Nat, T # {}
    PROVE  Layered!FirstOf(T) \in T
<1>1. \E i \in T : \A j \in T : ~(<<j, i>> \in OpToRel(<, Nat))
  BY NatLessThanWellFounded, WFMin, Zenon
<1>2. PICK i \in T : \A j \in T : ~(j < i)
  BY <1>1 DEF OpToRel
<1>3. \A j \in T : i <= j
  BY <1>2
<1>4. QED
  BY <1>3 DEF Layered!FirstOf

\* Get answers with the entry every backend that has the key holds.
GetAnswersForAll ==
    /\ Layered!Holding = {} => Layered!Get = "none"
    /\ Layered!Holding # {} => Layered!Get \in Entries
    /\ \A i \in Layered!Holding : layeredStores[i] = Layered!Get

\* Replicas that agree give one answer, whichever backend comes first.
LEMMA GetAgrees == LayeredInv => GetAnswersForAll
<1> SUFFICES ASSUME LayeredInv PROVE GetAnswersForAll
  OBVIOUS
<1>1. Layered!Holding \in SUBSET Nat
  BY LayeredConstants DEF Layered!Holding
<1>2. Layered!Holding # {} => Layered!FirstOf(Layered!Holding) \in Layered!Holding
  BY <1>1, FirstOfSet
<1>3. \A i \in Layered!Holding : layeredStores[i] \in Entries
  BY DEF Layered!Holding, LayeredTypes, LayeredInv
<1>4. \A i, j \in Layered!Holding : layeredStores[i] = layeredStores[j]
  BY DEF Layered!ReplicasAgree, Layered!LoadRefused, LayeredInv
<1>5. QED
  BY <1>2, <1>3, <1>4 DEF GetAnswersForAll, Layered!Get, Layered!NoEntry

\* A step of LayeredStore only takes entries away or only adds some.
LEMMA OneWay ==
    ASSUME LayeredTypes, [Layered!Next]_layeredVars
    PROVE  \/ \A i \in Layered!Stores : layeredStores'[i] \in {Layered!NoEntry, layeredStores[i]}
           \/ \A i \in Layered!Stores : layeredStores[i] \in {Layered!NoEntry, layeredStores'[i]}
<1>1. CASE layeredStores' = layeredStores
  BY <1>1
<1>2. CASE Layered!Insert
  BY <1>2 DEF Layered!Insert, LayeredTypes
<1>3. CASE Layered!Undo \/ Layered!Restart \/ \E r \in Removers : Layered!RemoveAt(r)
  BY <1>3 DEF Layered!Undo, Layered!Restart, Layered!RemoveAt, LayeredTypes
<1>4. QED
  <2>1. \/ layeredStores' = layeredStores \/ Layered!Insert \/ Layered!Undo \/ Layered!Restart
        \/ \E r \in Removers : Layered!RemoveAt(r)
    BY DEF Layered!Next, layeredVars, Layered!PutIfAbsent, Layered!Check, Layered!CheckFails,
       Layered!InsertFails, Layered!UndoFails, Layered!Undone, Layered!Remove, Layered!RemoveFails
  <2>2. QED
    BY <1>1, <1>2, <1>3, <2>1

\* A step that leaves the key in a backend leaves it in one that held the same before,
\* so what get answers changes only to nothing or from nothing.
LEMMA LayeredPersists ==
    ASSUME LayeredInv, LayeredInv', [Layered!Next]_layeredVars
    PROVE  \/ Layered!Get' = Layered!Get \/ Layered!Get' = "none"
           \/ Layered!Get = "none" /\ Layered!Get' \in Entries
<1>1. GetAnswersForAll
  BY GetAgrees
<1>2. GetAnswersForAll'
  BY GetAgrees, PTL
<1>3. ASSUME Layered!Holding # {}, Layered!Holding' # {}
      PROVE  \E i \in Layered!Holding \cap Layered!Holding' : layeredStores'[i] = layeredStores[i]
  <2> DEFINE old == Layered!Holding
             new == Layered!Holding'
  <2>1. /\ old = {i \in Layered!Stores : layeredStores[i] # Layered!NoEntry}
        /\ new = {i \in Layered!Stores : layeredStores'[i] # Layered!NoEntry}
    BY DEF Layered!Holding
  <2>2. old # {} /\ new # {}
    BY <1>3
  <2> HIDE DEF old, new
  <2>3. \E i \in old \cap new : layeredStores'[i] = layeredStores[i]
    <3>1. CASE \A i \in Layered!Stores : layeredStores'[i] \in {Layered!NoEntry, layeredStores[i]}
      BY <2>1, <2>2, <3>1
    <3>2. CASE \A i \in Layered!Stores : layeredStores[i] \in {Layered!NoEntry, layeredStores'[i]}
      BY <2>1, <2>2, <3>2
    <3>3. QED
      BY <3>1, <3>2, OneWay DEF LayeredInv
  <2>4. QED
    BY <2>3 DEF old, new
<1>4. QED
  BY <1>1, <1>2, <1>3 DEF GetAnswersForAll

\* One process that nothing but its own put gives a file to: the name is free while it
\* writes.
AloneTypes ==
    /\ fileFinal \in Alone!Files \cup {Alone!NoFile} /\ \A n \in DOMAIN fileTemps : fileTemps[n] \in Alone!Files
    /\ DOMAIN fileProc = {p1} /\ fileFaults \in [fault : Nat, loss : {0}]

AloneAt ==
    \/ fileProc[p1].pc \in {"idle", "loading"}
    \/ \E e \in Entries : fileProc[p1] = [pc |-> "absent", entry |-> e] /\ fileFinal = Alone!NoFile
    \/ \E e \in Entries, n \in DOMAIN fileTemps, c \in {"writing", "written", "synced"} :
         fileProc[p1] = [pc |-> c, entry |-> e, name |-> n] /\ fileFinal = Alone!NoFile

AloneInv == AloneTypes /\ AloneAt

\* A process alone starts with no file and no call.
LEMMA InitAlone == Alone!Init => AloneInv
BY DEF AloneInv, AloneTypes, AloneAt, Alone!Init, Alone!Idle

\* Either the file of the key stays, or it goes, or it comes where there was none.
AloneMoves ==
    \/ fileFinal' = Alone!NoFile
    \/ fileFinal' \in Alone!Files /\ fileFinal.entry = fileFinal'.entry
    \/ fileFinal' \in Alone!Files /\ fileFinal = Alone!NoFile

\* What writing, syncing and damage do to a file keeps its entry.
LEMMA AloneFiles ==
    /\ \A e \in Entries, s \in {"part", "full", "damaged"}, y \in BOOLEAN : Alone!File(e, s, y) \in Alone!Files
    /\ \A f \in Alone!Files : /\ f # Alone!NoFile
                             /\ [f EXCEPT !.state = "full"] \in Alone!Files
                             /\ [f EXCEPT !.synced = TRUE] \in Alone!Files
                             /\ [f EXCEPT !.state = "damaged"] \in Alone!Files
                             /\ [f EXCEPT !.state = "damaged"].entry = f.entry
                             /\ f.entry \in Entries
<1>1. \A e \in Entries, s \in {"part", "full", "damaged"}, y \in BOOLEAN : Alone!File(e, s, y) \in Alone!Files
  BY DEF Alone!File, Alone!Files
<1>2. ASSUME NEW f \in Alone!Files
      PROVE  f # Alone!NoFile /\ f.entry \in Entries
  <2>1. f.entry \in Entries /\ f.state \in {"part", "full", "damaged"}
    BY DEF Alone!Files
  <2>2. Alone!NoFile.state = "none"
    BY DEF Alone!NoFile
  <2>3. QED
    BY <2>1, <2>2
<1>3. ASSUME NEW f \in Alone!Files, NEW s \in {"full", "damaged"}
      PROVE  [f EXCEPT !.state = s] \in Alone!Files /\ [f EXCEPT !.state = s].entry = f.entry
  BY DEF Alone!Files
<1>4. ASSUME NEW f \in Alone!Files
      PROVE  [f EXCEPT !.synced = TRUE] \in Alone!Files
  BY DEF Alone!Files
<1>5. QED
  BY <1>1, <1>2, <1>3, <1>4

\* Without power losses only the count of faults grows.
LEMMA AloneFault ==
    ASSUME AloneInv
    PROVE  Alone!Faulty => fileFaults' \in [fault : Nat, loss : {0}]
BY DEF AloneInv, AloneTypes, AloneAt, Alone!Faulty

\* A step that ends the call or never began one.
LEMMA AloneIdles ==
    ASSUME AloneInv, fileFinal' \in {fileFinal, Alone!NoFile}, fileProc' = [fileProc EXCEPT ![p1] = Alone!Idle],
           DOMAIN fileTemps' \subseteq DOMAIN fileTemps, \A n \in DOMAIN fileTemps' : fileTemps'[n] = fileTemps[n],
           fileFaults' \in [fault : Nat, loss : {0}]
    PROVE  AloneInv' /\ AloneMoves
<1>1. fileProc'[p1].pc = "idle" /\ DOMAIN fileProc' = {p1}
  BY DEF AloneInv, AloneTypes, AloneAt, Alone!Idle
<1>2. AloneInv'
  BY <1>1 DEF AloneInv, AloneTypes, AloneAt
<1>3. QED
  BY <1>2 DEF AloneMoves, AloneInv, AloneTypes

\* A put up to the rename leaves the name alone.
LEMMA AlonePuts ==
    ASSUME AloneInv,
           \/ \E e \in Entries : Alone!Put(p1, e)
           \/ Alone!Create(p1) \/ Alone!Write(p1) \/ Alone!Sync(p1)
    PROVE  AloneInv' /\ AloneMoves
<1>1. /\ fileFinal \in Alone!Files \cup {Alone!NoFile} /\ \A n \in DOMAIN fileTemps : fileTemps[n] \in Alone!Files
      /\ DOMAIN fileProc = {p1} /\ fileFaults \in [fault : Nat, loss : {0}]
  BY DEF AloneInv, AloneTypes, AloneAt
<1>2. fileFinal' = fileFinal /\ fileFaults' = fileFaults
  BY DEF Alone!Put, Alone!Create, Alone!Write, Alone!Sync
<1>3. AloneMoves
  BY <1>1, <1>2 DEF AloneMoves
<1>4. ASSUME NEW e \in Entries, Alone!Put(p1, e) PROVE AloneInv'
  <2>1. /\ fileProc' = [fileProc EXCEPT ![p1] = [pc |-> "absent", entry |-> e]] /\ fileFinal = Alone!NoFile
        /\ fileTemps' = fileTemps
    BY <1>4 DEF Alone!Put, Alone!Goto
  <2>2. fileProc'[p1] = [pc |-> "absent", entry |-> e] /\ DOMAIN fileProc' = {p1}
    BY <1>1, <2>1
  <2>3. AloneAt'
    BY <1>2, <2>1, <2>2, Zenon DEF AloneAt
  <2>4. QED
    BY <1>1, <1>2, <2>1, <2>2, <2>3 DEF AloneInv, AloneTypes
<1>5. CASE Alone!Create(p1)
  <2> DEFINE name == <<p1, fileNonce[p1]>>
  <2>1. PICK e \in Entries : fileProc[p1] = [pc |-> "absent", entry |-> e] /\ fileFinal = Alone!NoFile
    <3>1. fileProc[p1].pc = "absent"
      BY <1>5 DEF Alone!Create
    <3>2. QED
      BY <3>1 DEF AloneInv, AloneTypes, AloneAt
  <2>2. CASE name \in DOMAIN fileTemps
    <3>1. fileProc' = [fileProc EXCEPT ![p1] = Alone!Idle] /\ fileTemps' = fileTemps
      BY <1>5, <2>2 DEF Alone!Create, Alone!TempName, Alone!Goto
    <3>2. QED
      BY <1>1, <1>2, <3>1, AloneIdles
  <2>3. CASE name \notin DOMAIN fileTemps
    <3> DEFINE f == Alone!File(e, "part", FALSE)
               s == [pc |-> "writing", entry |-> e, name |-> name]
    <3>1. fileProc[p1].entry = e
      BY <2>1
    <3>2. fileProc' = [fileProc EXCEPT ![p1] = s] /\ fileTemps' = Alone!With(fileTemps, name, f)
      BY <1>5, <2>3, <3>1 DEF Alone!Create, Alone!TempName, Alone!Goto
    <3>3. f \in Alone!Files
      BY AloneFiles
    <3> HIDE DEF f, name
    <3>4. fileProc'[p1] = s /\ DOMAIN fileProc' = {p1}
      BY <1>1, <3>2
    <3>5. name \in DOMAIN fileTemps' /\ \A n \in DOMAIN fileTemps' : fileTemps'[n] \in Alone!Files
      BY <1>1, <3>2, <3>3 DEF Alone!With
    <3>6. \E n \in DOMAIN fileTemps', c \in {"writing", "written", "synced"} :
            fileProc'[p1] = [pc |-> c, entry |-> e, name |-> n] /\ fileFinal' = Alone!NoFile
      BY <1>2, <2>1, <3>4, <3>5
    <3>7. AloneAt'
      BY <3>6, Zenon DEF AloneAt
    <3>8. QED
      BY <1>1, <1>2, <1>3, <3>4, <3>5, <3>7 DEF AloneInv, AloneTypes
  <2>4. QED
    BY <2>2, <2>3
<1>6. CASE Alone!Write(p1) \/ Alone!Sync(p1)
  <2>1. PICK e \in Entries, n \in DOMAIN fileTemps, c \in {"writing", "written", "synced"} :
          fileProc[p1] = [pc |-> c, entry |-> e, name |-> n] /\ fileFinal = Alone!NoFile
    <3>1. fileProc[p1].pc \in {"writing", "written"}
      BY <1>6 DEF Alone!Write, Alone!Sync
    <3>2. QED
      BY <3>1 DEF AloneInv, AloneTypes, AloneAt
  <2>2. fileProc[p1].name = n
    BY <2>1
  <2>3. PICK d \in {"written", "synced"} : fileProc' = [fileProc EXCEPT ![p1] = [fileProc[p1] EXCEPT !.pc = d]]
    BY <1>6 DEF Alone!Write, Alone!Sync, Alone!Goto
  <2>4. fileProc'[p1] = [pc |-> d, entry |-> e, name |-> n] /\ DOMAIN fileProc' = {p1}
    BY <1>1, <2>1, <2>3
  <2>5. PICK f \in Alone!Files : fileTemps' = [fileTemps EXCEPT ![n] = f]
    <3>1. CASE Alone!Write(p1)
      <4>1. fileTemps' = [fileTemps EXCEPT ![n] = [fileTemps[n] EXCEPT !.state = "full"]]
        BY <2>2, <3>1 DEF Alone!Write
      <4>2. QED
        BY <1>1, <4>1, AloneFiles
    <3>2. CASE Alone!Sync(p1)
      <4>1. fileTemps' = [fileTemps EXCEPT ![n] = [fileTemps[n] EXCEPT !.synced = TRUE]]
        BY <2>2, <3>2 DEF Alone!Sync
      <4>2. QED
        BY <1>1, <4>1, AloneFiles
    <3>3. QED
      BY <1>6, <3>1, <3>2
  <2>6. n \in DOMAIN fileTemps' /\ \A m \in DOMAIN fileTemps' : fileTemps'[m] \in Alone!Files
    BY <1>1, <2>5
  <2>7. \E m \in DOMAIN fileTemps', x \in {"writing", "written", "synced"} :
          fileProc'[p1] = [pc |-> x, entry |-> e, name |-> m] /\ fileFinal' = Alone!NoFile
    BY <1>2, <2>1, <2>4, <2>6
  <2>8. AloneAt'
    BY <2>7, Zenon DEF AloneAt
  <2>9. QED
    BY <1>1, <1>2, <1>3, <2>4, <2>6, <2>8 DEF AloneInv, AloneTypes
<1>7. QED
  BY <1>3, <1>4, <1>5, <1>6

\* The rename gives a file to a name that has none: nobody else could give it one.
LEMMA AloneRenames ==
    ASSUME AloneInv, Alone!Rename(p1) \/ Alone!RenameFails(p1) \/ Alone!WriteFails(p1)
    PROVE  AloneInv' /\ AloneMoves
<1>1. fileFaults \in [fault : Nat, loss : {0}] /\ DOMAIN fileProc = {p1}
      /\ \A n \in DOMAIN fileTemps : fileTemps[n] \in Alone!Files
  BY DEF AloneInv, AloneTypes, AloneAt
<1>2. CASE Alone!WriteFails(p1)
  BY <1>2, AloneIdles, AloneFault DEF Alone!WriteFails, Alone!Goto
<1>3. CASE Alone!RenameFails(p1)
  <2>1. DOMAIN fileTemps' \subseteq DOMAIN fileTemps /\ \A n \in DOMAIN fileTemps' : fileTemps'[n] = fileTemps[n]
    BY <1>3 DEF Alone!RenameFails, Alone!Without
  <2>2. QED
    BY <1>3, <2>1, AloneIdles, AloneFault DEF Alone!RenameFails, Alone!Goto
<1>4. CASE Alone!Rename(p1)
  <2>1. PICK e \in Entries, n \in DOMAIN fileTemps, c \in {"writing", "written", "synced"} :
          fileProc[p1] = [pc |-> c, entry |-> e, name |-> n] /\ fileFinal = Alone!NoFile
    <3>1. fileProc[p1].pc = "synced"
      BY <1>4 DEF Alone!Rename
    <3>2. QED
      BY <3>1 DEF AloneInv, AloneTypes, AloneAt
  <2>2. fileProc[p1].name = n
    BY <2>1
  <2>3. /\ fileFinal' = fileTemps[n] /\ fileFaults' = fileFaults
        /\ DOMAIN fileTemps' \subseteq DOMAIN fileTemps /\ \A m \in DOMAIN fileTemps' : fileTemps'[m] = fileTemps[m]
        /\ fileProc' = [fileProc EXCEPT ![p1] = Alone!Idle]
    BY <1>4, <2>2 DEF Alone!Rename, Alone!Without, Alone!Goto
  <2>4. fileProc'[p1].pc = "idle" /\ DOMAIN fileProc' = {p1}
    BY <1>1, <2>3 DEF Alone!Idle
  <2>5. AloneInv'
    BY <1>1, <2>3, <2>4 DEF AloneInv, AloneTypes, AloneAt
  <2>6. QED
    BY <1>1, <2>1, <2>3, <2>5 DEF AloneMoves
<1>5. QED
  BY <1>2, <1>3, <1>4

\* The other steps leave the file, damage it or remove it.
LEMMA AloneOthers ==
    ASSUME AloneInv,
           \/ Alone!Remove(p1) \/ Alone!LoadStat(p1) \/ Alone!LoadStatFails(p1)
           \/ Alone!LoadHeader(p1) \/ Alone!Crash(p1)
           \/ Alone!PowerLoss \/ Alone!Flush \/ Alone!Damage \/ UNCHANGED fileVars
    PROVE  AloneInv' /\ AloneMoves
<1>1. /\ fileFaults \in [fault : Nat, loss : {0}] /\ DOMAIN fileProc = {p1}
      /\ fileFinal \in Alone!Files \cup {Alone!NoFile} /\ \A n \in DOMAIN fileTemps : fileTemps[n] \in Alone!Files
  BY DEF AloneInv, AloneTypes, AloneAt
<1>2. CASE Alone!Remove(p1)
  <2>1. fileProc[p1].pc = "idle" /\ fileProc' = fileProc /\ fileTemps' = fileTemps /\ fileFaults' = fileFaults
        /\ fileFinal' = Alone!NoFile
    BY <1>2 DEF Alone!Remove, Alone!Idle
  <2>2. QED
    BY <1>1, <2>1 DEF AloneInv, AloneTypes, AloneAt, AloneMoves
<1>3. CASE Alone!LoadStat(p1)
  <2>1. /\ fileProc' = [fileProc EXCEPT ![p1] = [pc |-> "loading", seen |-> fileFinal]]
        /\ fileTemps' = fileTemps /\ fileFaults' = fileFaults /\ fileFinal' = fileFinal
    BY <1>3 DEF Alone!LoadStat, Alone!Goto
  <2>2. fileProc'[p1].pc = "loading" /\ DOMAIN fileProc' = {p1}
    BY <1>1, <2>1
  <2>3. QED
    BY <1>1, <2>1, <2>2 DEF AloneInv, AloneTypes, AloneAt, AloneMoves
<1>4. CASE Alone!LoadHeader(p1)
  BY <1>1, <1>4, AloneIdles DEF Alone!LoadHeader, Alone!Goto
<1>5. CASE Alone!Crash(p1)
  BY <1>1, <1>5, AloneIdles, AloneFault DEF Alone!Crash, Alone!Goto
<1>6. CASE Alone!PowerLoss
  BY <1>1, <1>6 DEF Alone!PowerLoss
<1>7. CASE Alone!Damage
  <2>1. fileFinal # Alone!NoFile /\ fileProc' = fileProc /\ fileTemps' = fileTemps
        /\ fileFaults' \in [fault : Nat, loss : {0}]
        /\ fileFinal' = [fileFinal EXCEPT !.state = "damaged"]
    BY <1>7, AloneFault DEF Alone!Damage
  <2>2. fileFinal' \in Alone!Files /\ fileFinal'.entry = fileFinal.entry
    BY <1>1, <2>1, AloneFiles
  <2>3. QED
    BY <1>1, <2>1, <2>2 DEF AloneInv, AloneTypes, AloneAt, AloneMoves
<1>8. CASE Alone!Flush \/ UNCHANGED fileVars
  <2>1. fileProc' = fileProc /\ fileTemps' = fileTemps /\ fileFaults' = fileFaults /\ fileFinal' = fileFinal
    BY <1>8 DEF Alone!Flush, fileVars
  <2>2. QED
    BY <1>1, <2>1 DEF AloneInv, AloneTypes, AloneAt, AloneMoves
<1>9. CASE Alone!LoadStatFails(p1)
  <2>1. fileProc[p1].pc = "idle" /\ fileProc' = fileProc /\ fileTemps' = fileTemps
        /\ fileFaults' \in [fault : Nat, loss : {0}] /\ fileFinal' = Alone!NoFile
    BY <1>1, <1>9, AloneFault DEF Alone!LoadStatFails, Alone!Idle
  <2>2. QED
    BY <1>1, <2>1 DEF AloneInv, AloneTypes, AloneAt, AloneMoves
<1>10. QED
  BY <1>2, <1>3, <1>4, <1>5, <1>6, <1>7, <1>8, <1>9

\* Every step of the process and the machine.
LEMMA AloneSteps ==
    ASSUME AloneInv, [Alone!Next]_fileVars
    PROVE  AloneInv' /\ AloneMoves
BY AlonePuts, AloneRenames, AloneOthers DEF Alone!Next

\* At the start the cache sees an empty store.
LEMMA InitSeen == MCInit => Seen!PSInit
<1> SUFFICES ASSUME MCInit PROVE Seen!PSInit
  OBVIOUS
<1>1. part = "file alone" => fileFinal.entry = "none"
  <2>1. part = "file alone" => fileFinal = Alone!NoFile
    BY DEF MCInit, Alone!Init
  <2>2. Alone!NoFile.entry = "none"
    BY DEF Alone!NoFile
  <2>3. QED
    BY <2>1, <2>2
<1>2. Layered!Get = "none"
  <2>1. Layered!Holding = {}
    BY DEF MCInit, Layered!Init, Layered!Holding
  <2>2. QED
    BY <2>1 DEF Layered!Get, Layered!NoEntry
<1>3. QED
  BY <1>1, <1>2 DEF Seen!PSInit

PersistInv ==
    /\ part = "file alone" => AloneInv
    /\ part = "layered" => LayeredInv

\* The invariants of the two stores, in the composition.
LEMMA NextPersists == PersistInv /\ [MCNext]_mcVars => PersistInv'
BY FileRuns, AloneSteps, NextLayered DEF PersistInv

\* Every step is an insertion, a removal or nothing to the cache.
LEMMA SeenSteps == PersistInv /\ PersistInv' /\ [MCNext]_mcVars =>
    [Seen!Insert \/ Seen!Discard]_(IF part = "file alone" THEN fileFinal.entry
                                    ELSE IF part = "layered" THEN Layered!Get ELSE "none")
<1> SUFFICES ASSUME PersistInv, PersistInv', [MCNext]_mcVars
             PROVE  [Seen!Insert \/ Seen!Discard]_(IF part = "file alone" THEN fileFinal.entry
                                    ELSE IF part = "layered" THEN Layered!Get ELSE "none")
  OBVIOUS
<1>1. part' = part
  BY FileRuns
<1>2. CASE part = "file alone"
  <2>1. AloneMoves /\ AloneInv
    BY <1>2, FileRuns, AloneSteps DEF PersistInv
  <2>2. \A f \in Alone!Files : f.entry \in Entries
    BY AloneFiles
  <2>3. Alone!NoFile.entry = "none"
    BY DEF Alone!NoFile
  <2>4. \/ fileFinal'.entry = fileFinal.entry \/ fileFinal'.entry = "none"
        \/ fileFinal.entry = "none" /\ fileFinal'.entry \in Entries
    BY <2>1, <2>2, <2>3 DEF AloneMoves
  <2>5. QED
    BY <1>1, <1>2, <2>4 DEF Seen!Insert, Seen!Discard
<1>3. CASE part = "layered"
  <2>1. \/ Layered!Get' = Layered!Get \/ Layered!Get' = "none"
        \/ Layered!Get = "none" /\ Layered!Get' \in Entries
    BY <1>1, <1>3, FileRuns, LayeredPersists DEF PersistInv
  <2>2. part # "file alone"
    BY <1>3
  <2>3. QED
    BY <1>1, <1>3, <2>1, <2>2 DEF Seen!Insert, Seen!Discard
<1>4. CASE part \notin {"file alone", "layered"}
  BY <1>1, <1>4
<1>5. QED
  BY <1>2, <1>3, <1>4

\* A LayeredStore with any backends, removers and failures, and a FileStore that one
\* process uses through crashes and damage, implement PersistentStore: each step sets the
\* entry where there was none, removes it, or leaves what the cache sees as it was.
THEOREM StoresAlwaysPersist == MCSpec => StoresPersist
<1>1. MCInit => PersistInv
  BY InitAlone, InitLayered DEF MCInit, PersistInv
<1>2. QED
  BY <1>1, InitSeen, NextPersists, SeenSteps, PTL DEF MCSpec, StoresPersist, Seen!PSSpec

=============================================================================
