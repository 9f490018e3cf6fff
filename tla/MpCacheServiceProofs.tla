------------------------ MODULE MpCacheServiceProofs ------------------------
(***************************************************************************)
(* MpCacheService for any number of threads, sessions, prompts, workers    *)
(* and jobs: the two registries agree, the prefix index tells the truth, a *)
(* request fetches blocks of its own prompt, and a delete is final.        *)
(***************************************************************************)
EXTENDS MpCacheService, WellFoundedInduction, TLAPS

\* The keys of a job: a job over all tiers has one that is no block's.
JobKeys == Keys \cup {NoKey}

Records ==
    [session : Sessions, kind : Kinds, prompt : Prompts \cup {NoPrompt},
     keys : Seq(Keys), indexed : BOOLEAN]

Jobs ==
    [op : Ops, keys : Seq(JobKeys), state : {"pending", "running"} \cup Terminal,
     held : BOOLEAN, completed : Seq(JobKeys), missed : Nat, after : SUBSET Ids]

Places ==
    {Idle}
    \cup [pc : {"session", "request", "publish", "mark"}, id : Ids, rec : Records]
    \cup [pc : {"record"}, id : Ids, state : {"pending", "running"} \cup Terminal]
    \cup [pc : {"remove"}, ids : SUBSET Ids]

ForPrompt == {"lookup", "store", "retrieve", "pin", "delete"}

\* What a request of each kind asks of the pipeline.
Asks(kind, op, prompt, keys, payload) ==
    /\ kind \in ForPrompt => prompt \in Prompts /\ payload = keys
    /\ op \notin {"clear", "health"} => payload \in Seq(Keys)
    /\ op = "clear" => payload = <<NoKey>>
    /\ kind = "store" => op = "store" /\ keys = BlockKeys(prompt)

\* The worker has done no more than it was asked to.
Sane(job) ==
    /\ Len(job.completed) + job.missed <= Len(job.keys)
    /\ job.op \notin {"clear", "health"} => job.keys \in Seq(Keys)
    /\ job.op = "clear" => job.keys = <<NoKey>>
    /\ job.op \notin Copying \cup {"health"} => job.missed = 0
    /\ job.held => job.op \in Copying
    /\ job.held => job.state = "running"
    /\ job.held => Len(job.completed) + job.missed < Len(job.keys)
    /\ job.state = "completed" => Len(job.completed) + job.missed = Len(job.keys)

RequestsTyped ==
    /\ requests \in [DOMAIN requests -> Records]
    /\ DOMAIN requests \subseteq DOMAIN jobs
    /\ \A id \in DOMAIN requests :
         LET r == requests[id] IN Asks(r.kind, jobs[id].op, r.prompt, r.keys, jobs[id].keys)

JobsTyped ==
    /\ jobs \in Seq(Jobs) /\ Len(jobs) <= MaxJobs
    /\ \A id \in DOMAIN jobs : Sane(jobs[id]) /\ jobs[id].after \subseteq DOMAIN jobs

Located(t) ==
    /\ thread[t].pc \in {"session", "request", "publish", "mark", "record"} =>
         thread[t].id \in DOMAIN jobs
    /\ thread[t].pc \in {"session", "request", "publish", "mark"} =>
         LET r == thread[t].rec
             id == thread[t].id
         IN Asks(r.kind, jobs[id].op, r.prompt, r.keys, jobs[id].keys)
    /\ thread[t].pc \in {"publish", "mark"} => thread[t].rec.kind = "store"
    /\ thread[t].pc = "remove" => thread[t].ids \subseteq DOMAIN jobs

ThreadsTyped == thread \in [Threads -> Places] /\ \A t \in Threads : Located(t)

\* The inductive invariant of the types.  Every id is that of a job, so the id of
\* a new job is in no registry yet.
TypeInv ==
    /\ sessions \in [Sessions -> SUBSET (DOMAIN jobs)]
    /\ RequestsTyped /\ JobsTyped /\ ThreadsTyped
    /\ index \subseteq [prompt : Prompts, keys : Seq(Keys)]
    /\ stored \subseteq Keys
    /\ raced \subseteq DOMAIN jobs

\* A request being registered is in no registry it has not been entered in, and
\* nobody else works on it.
RegisteredOnce ==
    \A t \in Threads : thread[t].pc \in {"session", "request"} =>
        /\ thread[t].id \notin DOMAIN requests
        /\ \A u \in Threads :
             (u # t /\ thread[u].pc \in {"session", "request", "publish", "mark"}) =>
                 thread[u].id # thread[t].id

NotYetListed ==
    \A t \in Threads : thread[t].pc = "session" =>
        /\ thread[t].id \notin raced
        /\ \A s \in Sessions : thread[t].id \notin sessions[s]
        /\ \A u \in Threads : thread[u].pc = "remove" => thread[t].id \notin thread[u].ids

HalfListed ==
    \A t \in Threads : thread[t].pc = "request" =>
        /\ thread[t].id \in sessions[thread[t].rec.session] \cup raced
        /\ \A s \in Sessions : thread[t].id \in sessions[s] => s = thread[t].rec.session

\* What end_session is about to drop is listed nowhere any more.
RemovedUnlisted ==
    \A t \in Threads : thread[t].pc = "remove" =>
        \A s \in Sessions : \A id \in thread[t].ids : id \notin sessions[s]

OwnInv == RegisteredOnce /\ NotYetListed /\ HalfListed /\ RemovedUnlisted /\ RequestsOwned

\* A store ends with its keys completed in the order it was given them.
StoresInOrder ==
    \A id \in DOMAIN jobs : jobs[id].op = "store" =>
        \A i \in 1..Len(jobs[id].completed) : jobs[id].completed[i] = jobs[id].keys[i]

\* What a query has read of a job that ended stays true while it goes on.
QueryTrue(t) ==
    /\ (thread[t].pc = "record" /\ thread[t].state = "completed") =>
         jobs[thread[t].id].state = "completed"
    /\ thread[t].pc \in {"publish", "mark"} => jobs[thread[t].id].state = "completed"
    /\ (thread[t].pc \in {"publish", "mark"} /\ thread[t].id \in DOMAIN requests) =>
         requests[thread[t].id].prompt = thread[t].rec.prompt
    /\ thread[t].pc = "mark" => \E r \in index : r.prompt = thread[t].rec.prompt
    /\ (thread[t].pc \in {"session", "request"} /\ thread[t].rec.kind = "store") =>
         ~thread[t].rec.indexed

QueriesTrue == \A t \in Threads : QueryTrue(t)

IndexInv == StoresInOrder /\ QueriesTrue /\ PublishedAfterStore /\ IndexedPublished

\* The keys are of blocks that hold a prefix of the prompt, without gap.
OwnBlocks(p, ks) ==
    \A i \in DOMAIN ks :
        /\ ks[i].model = p.model /\ IsPrefix(ks[i].prefix, p.tokens)
        /\ ks[i].start = IF i = 1 THEN 0 ELSE Len(ks[i - 1].prefix)

FetchInv ==
    /\ \A id \in DOMAIN requests : requests[id].kind \in {"lookup", "retrieve"} =>
         OwnBlocks(requests[id].prompt, requests[id].keys)
    /\ \A t \in Threads : (thread[t].pc \in {"session", "request"}
                            /\ thread[t].rec.kind \in {"lookup", "retrieve"}) =>
         OwnBlocks(thread[t].rec.prompt, thread[t].rec.keys)

\* The keys that job d, a delete or a clear, has removed so far.
Removes(d) == jobs[d].op \in {"invalidate", "clear"}

Removed(d) ==
    {k \in Keys : \E i \in 1..Len(jobs[d].completed) :
                    jobs[d].op = "clear" \/ jobs[d].keys[i] = k}

\* A job that may have brought k back, as DeleteFinal allows.
Excused(d, k) ==
    \E j \in DOMAIN jobs \ jobs[d].after :
        /\ k \in Range(jobs[j].keys)
        /\ jobs[j].op = "store" \/ (jobs[j].op \in Copying /\ d \notin jobs[j].after)

AfterEnded ==
    \A d \in DOMAIN jobs : \A j \in jobs[d].after : jobs[j].state \in Terminal

RemovedExcused ==
    \A d \in DOMAIN jobs : Removes(d) => \A k \in stored \cap Removed(d) : Excused(d, k)

\* The same for an entry that a copying job has read and not yet written.
HeldExcused ==
    \A j \in DOMAIN jobs : jobs[j].held =>
        \A d \in jobs[j].after :
            (Removes(d) /\ Current(j) \in Removed(d)) => Excused(d, Current(j))

DeleteInv == AfterEnded /\ RemovedExcused /\ HeldExcused

-----------------------------------------------------------------------------
(* The blocks of a prompt.                                                 *)

\* The first token of every block is one of the prompt's n tokens.
LEMMA BlocksFit ==
    ASSUME NEW n \in Nat
    PROVE  LET m == (n + BlockTokens - 1) \div BlockTokens IN
           /\ m \in Nat
           /\ \A i \in 1..m : (i - 1) * BlockTokens \in Nat /\ (i - 1) * BlockTokens < n
<1>1. BlockTokens \in Nat \ {0}
  BY ServiceAssumption
<1> DEFINE m == (n + BlockTokens - 1) \div BlockTokens
<1>2. m \in Nat /\ m * BlockTokens <= n + BlockTokens - 1
  BY <1>1
<1>3. ASSUME NEW i \in 1..m
      PROVE  (i - 1) * BlockTokens \in Nat /\ (i - 1) * BlockTokens < n
  <2>1. i * BlockTokens <= m * BlockTokens
    BY <1>1, <1>2
  <2>2. (i - 1) * BlockTokens = i * BlockTokens - BlockTokens
    BY <1>1, <1>2
  <2>3. QED
    BY <1>1, <1>2, <2>1, <2>2
<1>4. QED
  BY <1>2, <1>3

LEMMA BlockKeysTyped ==
    ASSUME NEW p \in Prompts
    PROVE  BlockKeys(p) \in Seq(Keys)
<1>1. p.tokens \in Seq(Nat)
  BY ServiceAssumption
<1> DEFINE m == (Len(p.tokens) + BlockTokens - 1) \div BlockTokens
<1>2. m \in Nat
  BY <1>1, BlocksFit
<1>3. DOMAIN BlockKeys(p) = 1..m
  BY DEF BlockKeys
<1>4. \A i \in 1..m : BlockKeys(p)[i] \in Keys
  <2>1. Range(BlockKeys(p)) \in {Range(BlockKeys(q)) : q \in Prompts}
    OBVIOUS
  <2>2. \A i \in 1..m : BlockKeys(p)[i] \in Range(BlockKeys(p))
    BY <1>3 DEF Range
  <2>3. QED
    BY <2>1, <2>2 DEF Keys
<1>5. BlockKeys(p) = [i \in 1..m |-> BlockKeys(p)[i]]
  BY <1>3 DEF BlockKeys
<1> HIDE DEF m
<1>6. QED
  BY <1>2, <1>4, <1>5

-----------------------------------------------------------------------------
(* The prefix index.                                                       *)

LEMMA LeastOfNaturals ==
    ASSUME NEW T \in SUBSET Nat, T # {}
    PROVE  \E x \in T : \A y \in T : x <= y
<1>1. PICK x \in T : \A y \in T : ~ (<<y, x>> \in OpToRel(<, Nat))
  BY NatLessThanWellFounded, WFMin
<1>2. ASSUME NEW y \in T PROVE x <= y
  <2>1. SUFFICES ASSUME y < x PROVE FALSE
    OBVIOUS
  <2>2. <<y, x>> \in Nat \X Nat /\ <<y, x>>[1] < <<y, x>>[2]
    BY <2>1
  <2>3. <<y, x>> \in OpToRel(<, Nat)
    BY <2>2, Zenon DEF OpToRel
  <2>4. QED
    BY <1>1, <2>3
<1>3. QED
  BY <1>2

\* longest_prefix returns one of the records that match.
LEMMA LongestMatches ==
    ASSUME TypeInv, NEW p \in Prompts, Matches(p) # {}
    PROVE  LongestPrefix(p) \in Matches(p)
<1>1. p.tokens \in Seq(Nat) /\ Len(p.tokens) \in Nat
  BY ServiceAssumption
<1>2. \A r \in Matches(p) : Len(r.prompt.tokens) \in 0..Len(p.tokens)
  <2>1. ASSUME NEW r \in Matches(p) PROVE r.prompt \in Prompts /\ IsPrefix(r.prompt.tokens, p.tokens)
    BY DEF Matches, TypeInv
  <2>2. ASSUME NEW r \in Matches(p) PROVE Len(r.prompt.tokens) \in Nat
    BY <2>1, ServiceAssumption
  <2>3. QED
    BY <1>1, <2>1, <2>2 DEF IsPrefix
<1> DEFINE Rest == {Len(p.tokens) - Len(r.prompt.tokens) : r \in Matches(p)}
<1>3. Rest \in SUBSET Nat /\ Rest # {}
  <2>1. ASSUME NEW x \in Rest PROVE x \in Nat
    <3>1. PICK r \in Matches(p) : x = Len(p.tokens) - Len(r.prompt.tokens)
      OBVIOUS
    <3>2. Len(r.prompt.tokens) \in 0..Len(p.tokens)
      BY <1>2
    <3>3. QED
      BY <1>1, <3>1, <3>2
  <2>2. QED
    BY <2>1
<1>4. PICK x \in Rest : \A y \in Rest : x <= y
  BY <1>3, LeastOfNaturals
<1>5. PICK r \in Matches(p) : x = Len(p.tokens) - Len(r.prompt.tokens)
  BY <1>4
<1>6. \A q \in Matches(p) : Len(q.prompt.tokens) <= Len(r.prompt.tokens)
  <2>1. ASSUME NEW q \in Matches(p)
        PROVE  Len(q.prompt.tokens) <= Len(r.prompt.tokens)
    <3>1. Len(p.tokens) - Len(q.prompt.tokens) \in Rest
      OBVIOUS
    <3>2. x <= Len(p.tokens) - Len(q.prompt.tokens)
      BY <1>4, <3>1
    <3>3. Len(q.prompt.tokens) \in Nat /\ Len(r.prompt.tokens) \in Nat
      BY <1>2
    <3> HIDE DEF Rest
    <3>4. QED
      BY <1>1, <1>5, <3>2, <3>3
  <2>2. QED
    BY <2>1
<1>7. QED
  BY <1>6 DEF LongestPrefix

LEMMA LookupKeysTyped ==
    ASSUME TypeInv, NEW p \in Prompts
    PROVE  LookupKeys(p) \in Seq(Keys)
<1>1. CASE Matches(p) = {}
  BY <1>1, BlockKeysTyped DEF LookupKeys
<1>2. CASE Matches(p) # {}
  <2>1. LongestPrefix(p) \in index
    BY <1>2, LongestMatches DEF Matches
  <2>2. QED
    BY <1>2, <2>1 DEF LookupKeys, TypeInv
<1>3. QED
  BY <1>1, <1>2

-----------------------------------------------------------------------------
(* Submission.                                                             *)

\* Some submission of t is under way for session s.
Submission(t, s) ==
    \/ \E p \in Prompts :
         \/ SubmitLookup(t, s, p) \/ SubmitStore(t, s, p) \/ SubmitRetrieve(t, s, p)
         \/ SubmitPin(t, s, p) \/ SubmitDelete(t, s, p)
    \/ \E id \in Ids : SubmitRetrieveLookup(t, s, id)
    \/ SubmitClear(t, s) \/ SubmitHealth(t, s)

LEMMA NoKeyTyped == <<NoKey>> \in Seq(JobKeys) /\ <<>> \in Seq(Keys)
BY DEF JobKeys

LEMMA KeysAreJobKeys ==
    ASSUME NEW ks \in Seq(Keys)
    PROVE  ks \in Seq(JobKeys)
BY DEF JobKeys

LEMMA Submissions ==
    ASSUME TypeInv, NEW t \in Threads, NEW s \in Sessions, Submission(t, s)
    PROVE  \E kind \in Kinds, op \in Ops, prompt \in Prompts \cup {NoPrompt}, keys \in Seq(Keys),
              payload \in Seq(JobKeys) :
             /\ Asks(kind, op, prompt, keys, payload)
             /\ Submit(t, s, kind, op, prompt, keys, payload)
<1> DEFINE Goal == \E kind \in Kinds, op \in Ops, prompt \in Prompts \cup {NoPrompt},
                      keys \in Seq(Keys), payload \in Seq(JobKeys) :
                        /\ Asks(kind, op, prompt, keys, payload)
                        /\ Submit(t, s, kind, op, prompt, keys, payload)
\* A job for the blocks of one prompt.
<1>1. ASSUME NEW kind \in ForPrompt, NEW op \in Ops \ {"clear", "health"}, NEW p \in Prompts,
             NEW ks \in Seq(Keys), Submit(t, s, kind, op, p, ks, ks),
             kind = "store" => op = "store" /\ ks = BlockKeys(p)
      PROVE  Goal
  <2>1. ks \in Seq(JobKeys)
    BY KeysAreJobKeys
  <2>2. kind \in Kinds
    BY <1>1 DEF Submit
  <2>3. Asks(kind, op, p, ks, ks)
    BY <1>1 DEF Asks
  <2>4. QED
    BY <1>1, <2>1, <2>2, <2>3
\* A job over all tiers.
<1>2. ASSUME NEW op \in {"clear", "health"}, Submit(t, s, op, op, NoPrompt, <<>>, <<NoKey>>)
      PROVE  Goal
  <2>1. op \in Kinds /\ op \in Ops
    BY <1>2 DEF Submit, Ops
  <2>2. Asks(op, op, NoPrompt, <<>>, <<NoKey>>)
    BY DEF Asks, ForPrompt
  <2>3. QED
    BY <1>2, <2>1, <2>2, NoKeyTyped
<1> HIDE DEF Goal
<1>3. ASSUME NEW p \in Prompts,
             \/ SubmitLookup(t, s, p) \/ SubmitStore(t, s, p) \/ SubmitRetrieve(t, s, p)
             \/ SubmitPin(t, s, p) \/ SubmitDelete(t, s, p)
      PROVE  Goal
  <2>1. BlockKeys(p) \in Seq(Keys) /\ LookupKeys(p) \in Seq(Keys)
    BY BlockKeysTyped, LookupKeysTyped
  <2>2. CASE SubmitLookup(t, s, p)
    BY <1>1, <2>1, <2>2 DEF SubmitLookup, Ops, ForPrompt
  <2>3. CASE SubmitStore(t, s, p)
    BY <1>1, <2>1, <2>3 DEF SubmitStore, Ops, ForPrompt
  <2>4. CASE SubmitRetrieve(t, s, p)
    BY <1>1, <2>1, <2>4 DEF SubmitRetrieve, Ops, ForPrompt
  <2>5. CASE SubmitPin(t, s, p)
    BY <1>1, <2>1, <2>5 DEF SubmitPin, Ops, ForPrompt
  <2>6. CASE SubmitDelete(t, s, p)
    BY <1>1, <2>1, <2>6 DEF SubmitDelete, Ops, ForPrompt
  <2>7. QED
    BY <1>3, <2>2, <2>3, <2>4, <2>5, <2>6
<1>4. ASSUME NEW id \in Ids, SubmitRetrieveLookup(t, s, id)
      PROVE  Goal
  <2>1. id \in DOMAIN requests /\ requests[id].kind = "lookup"
        /\ Submit(t, s, "retrieve", "retrieve", requests[id].prompt, requests[id].keys,
                  requests[id].keys)
    BY <1>4 DEF SubmitRetrieveLookup
  <2>2. requests[id].prompt \in Prompts /\ requests[id].keys \in Seq(Keys)
    BY <2>1 DEF TypeInv, RequestsTyped, Records, Asks, ForPrompt
  <2>3. QED
    BY <1>1, <2>1, <2>2 DEF Ops, ForPrompt
<1>5. ASSUME SubmitClear(t, s) PROVE Goal
  BY <1>2, <1>5 DEF SubmitClear
<1>6. ASSUME SubmitHealth(t, s) PROVE Goal
  BY <1>2, <1>6 DEF SubmitHealth
<1>7. Goal
  BY <1>3, <1>4, <1>5, <1>6 DEF Submission
<1>8. QED
  BY <1>7 DEF Goal

\* A submitted job is the last one, and its id is new.
Appended(op, payload) ==
    /\ JobsTyped' /\ Len(jobs) + 1 \in Ids /\ Len(jobs) + 1 \notin DOMAIN jobs
    /\ DOMAIN jobs' = DOMAIN jobs \cup {Len(jobs) + 1}
    /\ \A id \in DOMAIN jobs : jobs'[id] = jobs[id]
    /\ jobs'[Len(jobs) + 1] =
         [op |-> op, keys |-> payload, state |-> "pending", held |-> FALSE,
          completed |-> <<>>, missed |-> 0,
          after |-> {j \in DOMAIN jobs : jobs[j].state \in Terminal}]

LEMMA Enqueued ==
    ASSUME JobsTyped, NEW op \in Ops, NEW payload \in Seq(JobKeys),
           op \notin {"clear", "health"} => payload \in Seq(Keys),
           op = "clear" => payload = <<NoKey>>, Enqueue(op, payload)
    PROVE  Appended(op, payload)
<1> DEFINE new == [op |-> op, keys |-> payload, state |-> "pending", held |-> FALSE,
                   completed |-> <<>>, missed |-> 0,
                   after |-> {j \in DOMAIN jobs : jobs[j].state \in Terminal}]
<1>1. /\ jobs \in Seq(Jobs) /\ Len(jobs) \in Nat /\ DOMAIN jobs = 1..Len(jobs)
      /\ Len(jobs) < MaxJobs /\ MaxJobs \in Nat /\ jobs' = Append(jobs, new)
  BY ServiceAssumption DEF JobsTyped, Enqueue
<1>2. DOMAIN jobs \subseteq Ids /\ Len(jobs) + 1 \in Ids /\ Len(jobs) + 1 \notin DOMAIN jobs
  BY <1>1 DEF Ids
<1>3. new \in Jobs
  <2>1. {j \in DOMAIN jobs : jobs[j].state \in Terminal} \in SUBSET Ids
    BY <1>2
  <2>2. QED
    BY <2>1 DEF Jobs, Terminal
<1>4. Sane(new) /\ new.after \subseteq DOMAIN jobs
  BY DEF Sane
<1> HIDE DEF new
<1>5. /\ jobs' \in Seq(Jobs) /\ Len(jobs') = Len(jobs) + 1
      /\ DOMAIN jobs' = DOMAIN jobs \cup {Len(jobs) + 1}
      /\ \A id \in DOMAIN jobs : jobs'[id] = jobs[id]
      /\ jobs'[Len(jobs) + 1] = new
  BY <1>1, <1>3
<1>6. JobsTyped'
  BY <1>1, <1>4, <1>5 DEF JobsTyped
<1>7. QED
  BY <1>2, <1>5, <1>6 DEF new, Appended

-----------------------------------------------------------------------------
(* The workers.                                                            *)

\* Job id becomes r, the others stay.
Becomes(id, r) ==
    /\ DOMAIN jobs' = DOMAIN jobs /\ Len(jobs') = Len(jobs)
    /\ jobs'[id] = r
    /\ \A j \in DOMAIN jobs : j # id => jobs'[j] = jobs[j]

LEMMA Replaced ==
    ASSUME JobsTyped, NEW id \in DOMAIN jobs, NEW r \in Jobs, Sane(r),
           r.after = jobs[id].after, jobs' = [jobs EXCEPT ![id] = r]
    PROVE  JobsTyped' /\ Becomes(id, r)
<1>1. jobs \in Seq(Jobs) /\ Len(jobs) \in Nat /\ DOMAIN jobs = 1..Len(jobs)
  BY DEF JobsTyped
<1>2. jobs' \in Seq(Jobs) /\ Becomes(id, r)
  BY <1>1 DEF Becomes
<1>3. QED
  BY <1>1, <1>2 DEF JobsTyped, Becomes

\* The key a job is at.
LEMMA CurrentTyped ==
    ASSUME JobsTyped, NEW id \in DOMAIN jobs, ~AllDone(id)
    PROVE  LET n == Len(jobs[id].completed) + jobs[id].missed IN
           /\ n \in Nat /\ n + 1 \in DOMAIN jobs[id].keys /\ n < Len(jobs[id].keys)
           /\ Current(id) = jobs[id].keys[n + 1]
           /\ Current(id) \in JobKeys /\ Current(id) \in Range(jobs[id].keys)
           /\ jobs[id].op \notin {"clear", "health"} => Current(id) \in Keys
<1> DEFINE n == Len(jobs[id].completed) + jobs[id].missed
<1>1. jobs[id] \in Jobs /\ Sane(jobs[id])
  BY DEF JobsTyped
<1>2. /\ Len(jobs[id].completed) \in Nat /\ jobs[id].missed \in Nat
      /\ jobs[id].keys \in Seq(JobKeys) /\ Len(jobs[id].keys) \in Nat
      /\ DOMAIN jobs[id].keys = 1..Len(jobs[id].keys)
  BY <1>1 DEF Jobs
<1>3. n \in Nat /\ n < Len(jobs[id].keys) /\ n + 1 \in DOMAIN jobs[id].keys
  BY <1>1, <1>2 DEF AllDone, Sane
<1>4. Current(id) = jobs[id].keys[n + 1]
  BY DEF Current
<1> HIDE DEF n
<1>5. Current(id) \in JobKeys /\ Current(id) \in Range(jobs[id].keys)
  BY <1>2, <1>3, <1>4 DEF Range
<1>6. ASSUME jobs[id].op \notin {"clear", "health"} PROVE Current(id) \in Keys
  <2>1. jobs[id].keys \in Seq(Keys)
    BY <1>1, <1>6 DEF Sane
  <2>2. QED
    BY <1>3, <1>4, <2>1
<1>7. QED
  BY <1>3, <1>4, <1>5, <1>6 DEF n

\* The engine has found the current key, or has not.
LEMMA HitFacts ==
    ASSUME JobsTyped, NEW id \in DOMAIN jobs, jobs[id].state = "running", ~AllDone(id),
           jobs' = Hit(id)
    PROVE  JobsTyped' /\ Becomes(id, [jobs[id] EXCEPT !.completed = Append(@, Current(id)),
                                                      !.held = FALSE])
<1> DEFINE r == [jobs[id] EXCEPT !.completed = Append(@, Current(id)), !.held = FALSE]
<1>1. jobs[id] \in Jobs /\ Sane(jobs[id]) /\ jobs \in Seq(Jobs)
  BY DEF JobsTyped
<1>2. /\ Current(id) \in JobKeys
      /\ Len(jobs[id].completed) + jobs[id].missed < Len(jobs[id].keys)
  BY CurrentTyped
<1>3. /\ Append(jobs[id].completed, Current(id)) \in Seq(JobKeys)
      /\ Len(Append(jobs[id].completed, Current(id))) = Len(jobs[id].completed) + 1
      /\ Len(jobs[id].completed) \in Nat /\ jobs[id].missed \in Nat /\ Len(jobs[id].keys) \in Nat
  BY <1>1, <1>2 DEF Jobs
<1>4. /\ r \in Jobs /\ r.after = jobs[id].after /\ r.op = jobs[id].op /\ r.keys = jobs[id].keys
      /\ r.state = "running" /\ r.held = FALSE /\ r.missed = jobs[id].missed
      /\ Len(r.completed) = Len(jobs[id].completed) + 1
  BY <1>1, <1>3 DEF Jobs
<1>5. jobs' = [jobs EXCEPT ![id] = r]
  BY <1>1 DEF Hit
<1> HIDE DEF r
<1>6. Sane(r)
  BY <1>1, <1>2, <1>3, <1>4 DEF Sane
<1>7. QED
  BY <1>4, <1>5, <1>6, Replaced DEF r

LEMMA MissFacts ==
    ASSUME JobsTyped, NEW id \in DOMAIN jobs, jobs[id].state = "running", ~AllDone(id),
           jobs[id].op \in Copying \cup {"health"}, ~jobs[id].held, jobs' = Miss(id)
    PROVE  JobsTyped' /\ Becomes(id, [jobs[id] EXCEPT !.missed = @ + 1])
<1> DEFINE n == jobs[id].missed + 1
           r == [jobs[id] EXCEPT !.missed = n]
<1>1. jobs[id] \in Jobs /\ Sane(jobs[id]) /\ jobs \in Seq(Jobs)
  BY DEF JobsTyped
<1>2. Len(jobs[id].completed) + jobs[id].missed < Len(jobs[id].keys)
  BY CurrentTyped
<1>3. Len(jobs[id].completed) \in Nat /\ jobs[id].missed \in Nat /\ Len(jobs[id].keys) \in Nat
  BY <1>1 DEF Jobs
<1>4. /\ r \in Jobs /\ r.after = jobs[id].after /\ r.op = jobs[id].op /\ r.keys = jobs[id].keys
      /\ r.state = "running" /\ r.held = jobs[id].held /\ r.missed = n
      /\ r.completed = jobs[id].completed
  <2>1. n \in Nat
    BY <1>3
  <2> HIDE DEF n
  <2>2. QED
    BY <1>1, <2>1 DEF Jobs
<1>5. jobs' = [jobs EXCEPT ![id] = r]
  BY <1>1 DEF Miss
<1> HIDE DEF r
<1>6. Sane(r)
  BY <1>1, <1>2, <1>3, <1>4 DEF Sane
<1>7. JobsTyped' /\ Becomes(id, r)
  BY <1>4, <1>5, <1>6, Replaced
<1>8. QED
  BY <1>7 DEF r

\* What every step of a worker does to its job: op, keys and after stay, and a
\* store completes its keys in order.
Worked(id) ==
    /\ id \in DOMAIN jobs /\ jobs[id].state \notin Terminal /\ JobsTyped'
    /\ Becomes(id, jobs'[id])
    /\ jobs'[id].op = jobs[id].op /\ jobs'[id].keys = jobs[id].keys
    /\ jobs'[id].after = jobs[id].after
    /\ jobs[id].op = "store" =>
         \/ jobs'[id].completed = jobs[id].completed
         \/ jobs'[id].completed = Append(jobs[id].completed, Current(id))
    /\ stored' \subseteq Keys
    /\ UNCHANGED <<sessions, requests, index, thread, raced>>

LEMMA WorkFacts ==
    ASSUME TypeInv, NEW id \in Ids, Work(id)
    PROVE  Worked(id)
<1>1. JobsTyped /\ stored \subseteq Keys /\ UNCHANGED <<sessions, requests, index, thread, raced>>
  BY DEF TypeInv, Work, Start, Store, Read, WriteBack, Invalidate, Clear, Health, Complete, Fail
<1>2. id \in DOMAIN jobs /\ jobs[id].state \notin Terminal
  BY DEF Work, Start, Store, Read, WriteBack, Invalidate, Clear, Health, Complete, Fail,
         Doing, Running, Terminal
<1>3. /\ jobs[id] \in Jobs /\ Sane(jobs[id]) /\ jobs \in Seq(Jobs)
      /\ Len(jobs[id].completed) \in Nat /\ jobs[id].missed \in Nat /\ Len(jobs[id].keys) \in Nat
  <2>1. jobs[id] \in Jobs /\ Sane(jobs[id]) /\ jobs \in Seq(Jobs)
    BY <1>1, <1>2 DEF JobsTyped
  <2>2. QED
    BY <2>1 DEF Jobs
<1>4. ASSUME NEW r \in Jobs, jobs' = [jobs EXCEPT ![id] = r], Sane(r),
             r.after = jobs[id].after, r.op = jobs[id].op, r.keys = jobs[id].keys,
             r.completed = jobs[id].completed, stored' \subseteq Keys
      PROVE  Worked(id)
  <2>1. JobsTyped' /\ Becomes(id, r) /\ jobs'[id] = r
    BY <1>1, <1>2, <1>4, Replaced DEF Becomes
  <2>2. QED
    BY <1>1, <1>2, <1>4, <2>1 DEF Worked
<1>5. ASSUME id \in Running, ~AllDone(id), jobs' = Hit(id), stored' \subseteq Keys
      PROVE  Worked(id)
  <2> DEFINE r == [jobs[id] EXCEPT !.completed = Append(@, Current(id)), !.held = FALSE]
  <2>1. JobsTyped' /\ Becomes(id, r)
    BY <1>1, <1>2, <1>5, HitFacts DEF Running
  <2>2. /\ r.op = jobs[id].op /\ r.keys = jobs[id].keys /\ r.after = jobs[id].after
        /\ r.completed = Append(jobs[id].completed, Current(id))
    BY <1>3 DEF Jobs
  <2> HIDE DEF r
  <2>3. QED
    BY <1>1, <1>2, <1>5, <2>1, <2>2 DEF Worked, Becomes
<1>6. ASSUME id \in Running, ~AllDone(id), jobs[id].op \in Copying \cup {"health"},
             ~jobs[id].held, jobs' = Miss(id), stored' \subseteq Keys
      PROVE  Worked(id)
  <2> DEFINE r == [jobs[id] EXCEPT !.missed = @ + 1]
  <2>1. JobsTyped' /\ Becomes(id, r)
    BY <1>1, <1>2, <1>6, MissFacts DEF Running
  <2>2. /\ r.op = jobs[id].op /\ r.keys = jobs[id].keys /\ r.after = jobs[id].after
        /\ r.completed = jobs[id].completed
    BY <1>3 DEF Jobs
  <2> HIDE DEF r
  <2>3. QED
    BY <1>1, <1>2, <1>6, <2>1, <2>2 DEF Worked, Becomes
<1>7. ASSUME NEW ops, Doing(id, ops)
      PROVE  /\ id \in Running /\ ~AllDone(id) /\ jobs[id].op \in ops
             /\ jobs[id].op \notin {"clear", "health"} => Current(id) \in Keys
  BY <1>1, <1>2, <1>7, CurrentTyped DEF Doing
<1>8. ASSUME Start(id) PROVE Worked(id)
  <2> DEFINE r == [jobs[id] EXCEPT !.state = "running"]
  <2>1. /\ r \in Jobs /\ jobs' = [jobs EXCEPT ![id] = r]
        /\ r.after = jobs[id].after /\ r.op = jobs[id].op /\ r.keys = jobs[id].keys
        /\ r.completed = jobs[id].completed /\ r.missed = jobs[id].missed
        /\ r.state = "running" /\ r.held = jobs[id].held
    BY <1>3, <1>8 DEF Start, Jobs
  <2> HIDE DEF r
  <2>2. Sane(r)
    BY <1>3, <2>1 DEF Sane
  <2>3. QED
    BY <1>1, <1>4, <1>8, <2>1, <2>2 DEF Start
<1>9. ASSUME Store(id) PROVE Worked(id)
  <2>1. Doing(id, {"store"}) /\ stored' = stored \cup {Current(id)} /\ jobs' = Hit(id)
    BY <1>9 DEF Store
  <2>2. QED
    BY <1>1, <1>5, <1>7, <2>1
<1>10. ASSUME Read(id) PROVE Worked(id)
  <2>1. Doing(id, Copying) /\ ~jobs[id].held /\ stored' = stored
    BY <1>10 DEF Read
  <2>2. CASE jobs' = Miss(id)
    BY <1>1, <1>6, <1>7, <2>1, <2>2
  <2>3. CASE jobs' = [jobs EXCEPT ![id].held = TRUE]
    <3> DEFINE r == [jobs[id] EXCEPT !.held = TRUE]
    <3>1. /\ r \in Jobs /\ jobs' = [jobs EXCEPT ![id] = r]
          /\ r.after = jobs[id].after /\ r.op = jobs[id].op /\ r.keys = jobs[id].keys
          /\ r.completed = jobs[id].completed /\ r.missed = jobs[id].missed
          /\ r.state = jobs[id].state
      BY <1>3, <2>3 DEF Jobs
    <3> HIDE DEF r
    <3>2. /\ r.op \in Copying /\ r.state = "running"
          /\ Len(r.completed) + r.missed < Len(r.keys)
      BY <1>1, <1>2, <1>7, <2>1, <3>1, CurrentTyped DEF Running
    <3>3. Sane(r)
      BY <1>3, <3>1, <3>2 DEF Sane
    <3>4. QED
      BY <1>1, <1>4, <2>1, <3>1, <3>3
  <2>4. QED
    BY <1>10, <2>2, <2>3 DEF Read
<1>11. ASSUME WriteBack(id) PROVE Worked(id)
  <2>1. /\ Doing(id, Copying) /\ jobs' = Hit(id)
        /\ stored' \in {stored, stored \cup {Current(id)}}
    BY <1>11 DEF WriteBack
  <2>2. Current(id) \in Keys
    BY <1>7, <2>1 DEF Copying
  <2>3. QED
    BY <1>1, <1>5, <1>7, <2>1, <2>2
<1>12. ASSUME Invalidate(id) PROVE Worked(id)
  BY <1>1, <1>5, <1>7, <1>12 DEF Invalidate
<1>13. ASSUME Clear(id) PROVE Worked(id)
  BY <1>1, <1>5, <1>7, <1>13 DEF Clear
<1>14. ASSUME Health(id) PROVE Worked(id)
  <2>1. Doing(id, {"health"}) /\ jobs' \in {Hit(id), Miss(id)} /\ stored' = stored
    BY <1>14 DEF Health
  <2>2. ~jobs[id].held
    BY <1>3, <1>7, <2>1 DEF Sane, Copying
  <2>3. QED
    BY <1>1, <1>5, <1>6, <1>7, <2>1, <2>2
<1>15. ASSUME Complete(id) PROVE Worked(id)
  <2> DEFINE r == [jobs[id] EXCEPT !.state = "completed"]
  <2>1. /\ r \in Jobs /\ jobs' = [jobs EXCEPT ![id] = r]
        /\ r.after = jobs[id].after /\ r.op = jobs[id].op /\ r.keys = jobs[id].keys
        /\ r.completed = jobs[id].completed /\ r.missed = jobs[id].missed
        /\ r.held = jobs[id].held
    BY <1>3, <1>15 DEF Complete, Jobs, Terminal
  <2> HIDE DEF r
  <2>2. Len(r.completed) + r.missed = Len(r.keys)
    BY <1>15, <2>1 DEF Complete, AllDone
  <2>3. Sane(r)
    BY <1>3, <2>1, <2>2 DEF Sane
  <2>4. QED
    BY <1>1, <1>4, <1>15, <2>1, <2>3 DEF Complete
<1>16. ASSUME Fail(id) PROVE Worked(id)
  <2> DEFINE r == [jobs[id] EXCEPT !.state = "failed", !.held = FALSE]
  <2>1. /\ r \in Jobs /\ jobs' = [jobs EXCEPT ![id] = r]
        /\ r.after = jobs[id].after /\ r.op = jobs[id].op /\ r.keys = jobs[id].keys
        /\ r.completed = jobs[id].completed /\ r.missed = jobs[id].missed
        /\ r.held = FALSE /\ r.state = "failed"
    BY <1>3, <1>16 DEF Fail, Jobs, Terminal
  <2> HIDE DEF r
  <2>2. Sane(r)
    BY <1>3, <2>1 DEF Sane
  <2>3. stored' \subseteq Keys
    <3>1. jobs[id].held => Current(id) \in Keys
      BY <1>1, <1>2, <1>3, <1>16, CurrentTyped DEF Fail, Sane, Copying
    <3>2. stored' = stored \/ (jobs[id].held /\ stored' = stored \cup {Current(id)})
      BY <1>16 DEF Fail
    <3>3. QED
      BY <1>1, <3>1, <3>2
  <2>4. QED
    BY <1>4, <2>1, <2>2, <2>3
<1>17. QED
  BY <1>8, <1>9, <1>10, <1>11, <1>12, <1>13, <1>14, <1>15, <1>16 DEF Work

-----------------------------------------------------------------------------
(* The types.                                                              *)

\* Jobs keep what they were submitted with, so what refers to them stays typed.
LEMMA JobsGrow ==
    ASSUME TypeInv, JobsTyped', DOMAIN jobs \subseteq DOMAIN jobs',
           \A id \in DOMAIN jobs : jobs'[id].op = jobs[id].op /\ jobs'[id].keys = jobs[id].keys,
           UNCHANGED <<sessions, requests, index, raced>>, stored' \subseteq Keys
    PROVE  /\ \A u \in Threads : thread'[u] = thread[u] => Located(u)'
           /\ ThreadsTyped' => TypeInv'
<1>1. \A u \in Threads : thread'[u] = thread[u] => Located(u)'
  BY DEF TypeInv, ThreadsTyped, Located
<1>2. RequestsTyped'
  BY DEF TypeInv, RequestsTyped
<1>3. sessions' \in [Sessions -> SUBSET (DOMAIN jobs')] /\ raced' \subseteq DOMAIN jobs'
  BY DEF TypeInv
<1>4. QED
  BY <1>1, <1>2, <1>3 DEF TypeInv

\* The new place of a thread that has submitted a request, and the new job.
Submitted(t, s, kind, op, prompt, keys, payload) ==
    /\ Asks(kind, op, prompt, keys, payload) /\ Appended(op, payload)
    /\ thread[t] = Idle /\ thread' \in [Threads -> Places]
    /\ \A u \in Threads : u # t => thread'[u] = thread[u]
    /\ thread'[t].pc = "session" /\ thread'[t].id = Len(jobs) + 1
    /\ thread'[t].rec = [session |-> s, kind |-> kind, prompt |-> prompt,
                         keys |-> keys, indexed |-> kind # "store"]
    /\ UNCHANGED <<sessions, requests, index, stored, raced>>

LEMMA SubmitFacts ==
    ASSUME TypeInv, NEW t \in Threads, NEW s \in Sessions, Submission(t, s)
    PROVE  \E kind \in Kinds, op \in Ops, prompt \in Prompts \cup {NoPrompt}, keys \in Seq(Keys),
              payload \in Seq(JobKeys) :
             /\ Submitted(t, s, kind, op, prompt, keys, payload)
             /\ Submit(t, s, kind, op, prompt, keys, payload)
<1>1. PICK kind \in Kinds, op \in Ops, prompt \in Prompts \cup {NoPrompt}, keys \in Seq(Keys),
           payload \in Seq(JobKeys) :
             /\ Asks(kind, op, prompt, keys, payload)
             /\ Submit(t, s, kind, op, prompt, keys, payload)
  BY Submissions
<1> DEFINE rec == [session |-> s, kind |-> kind, prompt |-> prompt,
                   keys |-> keys, indexed |-> kind # "store"]
           place == [pc |-> "session", id |-> Len(jobs) + 1, rec |-> rec]
<1>2. /\ thread[t] = Idle /\ thread' = [thread EXCEPT ![t] = place] /\ Enqueue(op, payload)
      /\ UNCHANGED <<sessions, requests, index, stored, raced>>
  BY <1>1 DEF Submit
<1>3. JobsTyped
  BY DEF TypeInv
<1>4. /\ op \notin {"clear", "health"} => payload \in Seq(Keys)
      /\ op = "clear" => payload = <<NoKey>>
  BY <1>1 DEF Asks
<1>5. Appended(op, payload) /\ Len(jobs) + 1 \in Ids
  BY <1>2, <1>3, <1>4, Enqueued DEF Appended
<1>6. rec \in Records
  BY DEF Records
<1>7. place.pc = "session" /\ place.id = Len(jobs) + 1 /\ place.rec = rec
  OBVIOUS
<1>8. place \in Places
  <2> HIDE DEF rec
  <2>1. QED
    BY <1>5, <1>6 DEF Places
<1> HIDE DEF place
<1>9. /\ thread' \in [Threads -> Places] /\ thread'[t] = place
      /\ \A u \in Threads : u # t => thread'[u] = thread[u]
  BY <1>2, <1>8 DEF TypeInv, ThreadsTyped
<1>10. Submitted(t, s, kind, op, prompt, keys, payload)
  BY <1>1, <1>2, <1>5, <1>7, <1>9 DEF Submitted
<1>11. QED
  BY <1>1, <1>10

LEMMA SubmitTyped ==
    ASSUME TypeInv, NEW t \in Threads, NEW s \in Sessions, Submission(t, s)
    PROVE  TypeInv'
<1>1. PICK kind \in Kinds, op \in Ops, prompt \in Prompts \cup {NoPrompt}, keys \in Seq(Keys),
           payload \in Seq(JobKeys) : Submitted(t, s, kind, op, prompt, keys, payload)
  BY SubmitFacts
<1> DEFINE new == Len(jobs) + 1
<1>2. /\ thread' \in [Threads -> Places] /\ \A u \in Threads : u # t => thread'[u] = thread[u]
      /\ thread'[t].pc = "session" /\ thread'[t].id = new
      /\ thread'[t].rec.kind = kind /\ thread'[t].rec.prompt = prompt /\ thread'[t].rec.keys = keys
      /\ UNCHANGED <<sessions, requests, index, stored, raced>>
  BY <1>1 DEF Submitted
<1>3. /\ JobsTyped' /\ new \in DOMAIN jobs' /\ DOMAIN jobs \subseteq DOMAIN jobs'
      /\ \A id \in DOMAIN jobs : jobs'[id] = jobs[id]
      /\ jobs'[new].op = op /\ jobs'[new].keys = payload
  BY <1>1 DEF Submitted, Appended
<1> HIDE DEF new
<1>4. Asks(kind, op, prompt, keys, payload)
  BY <1>1 DEF Submitted
<1>5. Located(t)'
  BY <1>2, <1>3, <1>4 DEF Located
<1>6. stored' \subseteq Keys
  BY <1>2 DEF TypeInv
<1>7. ThreadsTyped'
  BY <1>2, <1>3, <1>5, <1>6, JobsGrow DEF ThreadsTyped
<1>8. QED
  BY <1>2, <1>3, <1>6, <1>7, JobsGrow

\* The jobs of RuntimeCacheController.
Runtime ==
    \/ \E p \in Prompts : RuntimeMove(p) \/ RuntimePin(p) \/ RuntimeDelete(p)
    \/ RuntimeClear \/ RuntimeHealth

LEMMA RuntimeFacts ==
    ASSUME TypeInv, Runtime
    PROVE  /\ UNCHANGED <<sessions, requests, index, stored, thread, raced>>
           /\ \E op \in Ops \ {"store"}, payload \in Seq(JobKeys) : Appended(op, payload)
<1>1. \E op \in Ops \ {"store"}, payload \in Seq(JobKeys) :
        /\ op \notin {"clear", "health"} => payload \in Seq(Keys)
        /\ op = "clear" => payload = <<NoKey>>
        /\ RuntimeJob(op, payload)
  <2>1. ASSUME NEW p \in Prompts, RuntimeMove(p) \/ RuntimePin(p) \/ RuntimeDelete(p)
        PROVE  \E op \in {"move", "pin", "invalidate"} : RuntimeJob(op, BlockKeys(p))
    BY <2>1 DEF RuntimeMove, RuntimePin, RuntimeDelete
  <2>2. ASSUME RuntimeClear \/ RuntimeHealth
        PROVE  \E op \in {"clear", "health"} : RuntimeJob(op, <<NoKey>>)
    BY <2>2 DEF RuntimeClear, RuntimeHealth
  <2>3. \A p \in Prompts : BlockKeys(p) \in Seq(Keys) /\ BlockKeys(p) \in Seq(JobKeys)
    BY BlockKeysTyped, KeysAreJobKeys
  <2>4. QED
    BY <2>1, <2>2, <2>3, NoKeyTyped DEF Ops, Runtime
<1>2. PICK op \in Ops \ {"store"}, payload \in Seq(JobKeys) :
        /\ op \notin {"clear", "health"} => payload \in Seq(Keys)
        /\ op = "clear" => payload = <<NoKey>>
        /\ RuntimeJob(op, payload)
  BY <1>1
<1>3. Enqueue(op, payload) /\ UNCHANGED <<sessions, requests, index, stored, thread, raced>>
  BY <1>2 DEF RuntimeJob
<1>4. JobsTyped /\ op \in Ops
  BY DEF TypeInv
<1>5. Appended(op, payload)
  BY <1>2, <1>3, <1>4, Enqueued
<1>6. QED
  BY <1>3, <1>5

LEMMA RuntimeTyped ==
    ASSUME TypeInv, Runtime
    PROVE  TypeInv'
<1>1. /\ UNCHANGED <<sessions, requests, index, stored, thread, raced>>
      /\ JobsTyped' /\ DOMAIN jobs \subseteq DOMAIN jobs'
      /\ \A id \in DOMAIN jobs : jobs'[id] = jobs[id]
  BY RuntimeFacts DEF Appended
<1>2. stored' \subseteq Keys /\ thread' \in [Threads -> Places]
  BY <1>1 DEF TypeInv, ThreadsTyped
<1>3. ThreadsTyped'
  BY <1>1, <1>2, JobsGrow DEF ThreadsTyped
<1>4. QED
  BY <1>1, <1>2, <1>3, JobsGrow

LEMMA WorkTyped ==
    ASSUME TypeInv, NEW id \in Ids, Work(id)
    PROVE  TypeInv'
<1>1. Worked(id)
  BY WorkFacts
<1>2. /\ UNCHANGED <<sessions, requests, index, thread, raced>> /\ stored' \subseteq Keys
      /\ JobsTyped' /\ DOMAIN jobs' = DOMAIN jobs
      /\ \A j \in DOMAIN jobs : jobs'[j].op = jobs[j].op /\ jobs'[j].keys = jobs[j].keys
  BY <1>1 DEF Worked, Becomes
<1>3. thread' \in [Threads -> Places]
  BY <1>2 DEF TypeInv, ThreadsTyped
<1>4. ThreadsTyped'
  BY <1>2, <1>3, JobsGrow DEF ThreadsTyped
<1>5. QED
  BY <1>2, <1>4, JobsGrow

\* The steps of a client that submit nothing.
Client(t) ==
    \/ \E s \in Sessions : EndSession(t, s)
    \/ \E id \in Ids : QuerySnapshot(t, id)
    \/ RegisterSession(t) \/ RegisterRequest(t)
    \/ QueryRecord(t) \/ Publish(t) \/ Mark(t) \/ EndRequests(t)

LEMMA Steps ==
    ASSUME [Next]_vars
    PROVE  \/ \E t \in Threads, s \in Sessions : Submission(t, s)
           \/ \E t \in Threads : Client(t)
           \/ \E id \in Ids : Work(id)
           \/ Runtime
           \/ \E k \in Keys : Lose(k)
           \/ UNCHANGED vars
<1>1. ASSUME NEW t \in Threads, Call(t)
      PROVE  Client(t) \/ \E s \in Sessions : Submission(t, s)
  BY <1>1 DEF Call, Client, Submission
<1>2. QED
  BY <1>1 DEF Next, Runtime

\* What a thread's place says of it.
LEMMA PlaceFacts ==
    ASSUME TypeInv, NEW t \in Threads
    PROVE  /\ thread[t].pc \in {"idle", "session", "request", "record", "publish", "mark", "remove"}
           /\ thread[t].pc \in {"session", "request", "publish", "mark"} =>
                /\ thread[t].id \in Ids /\ thread[t].rec \in Records
                /\ thread[t] = [pc |-> thread[t].pc, id |-> thread[t].id, rec |-> thread[t].rec]
           /\ thread[t].pc = "record" => thread[t].id \in Ids
           /\ thread[t].pc = "remove" => thread[t].ids \in SUBSET Ids
           /\ thread[t].pc = "idle" <=> thread[t] = Idle
<1>1. thread[t] \in Places
  BY DEF TypeInv, ThreadsTyped
<1>2. CASE thread[t] = Idle
  BY <1>2 DEF Idle
<1>3. CASE thread[t] \in [pc : {"session", "request", "publish", "mark"}, id : Ids, rec : Records]
  BY <1>3 DEF Idle
<1>4. CASE thread[t] \in [pc : {"record"}, id : Ids,
                          state : {"pending", "running"} \cup Terminal]
  BY <1>4 DEF Idle
<1>5. CASE thread[t] \in [pc : {"remove"}, ids : SUBSET Ids]
  BY <1>5 DEF Idle
<1>6. QED
  BY <1>1, <1>2, <1>3, <1>4, <1>5 DEF Places

\* The places a client's step leads to.
LEMMA NewPlaces ==
    /\ Idle \in Places /\ Idle.pc = "idle"
    /\ \A pc \in {"session", "request", "publish", "mark"}, id \in Ids, rec \in Records :
         [pc |-> pc, id |-> id, rec |-> rec] \in Places
    /\ \A id \in Ids, state \in {"pending", "running"} \cup Terminal :
         [pc |-> "record", id |-> id, state |-> state] \in Places
    /\ \A ids \in SUBSET Ids : [pc |-> "remove", ids |-> ids] \in Places
<1>1. Idle \in Places /\ Idle.pc = "idle"
  BY DEF Places, Idle
<1>2. ASSUME NEW pc \in {"session", "request", "publish", "mark"}, NEW id \in Ids,
             NEW rec \in Records
      PROVE  [pc |-> pc, id |-> id, rec |-> rec] \in Places
  BY DEF Places
<1>3. ASSUME NEW id \in Ids, NEW state \in {"pending", "running"} \cup Terminal
      PROVE  [pc |-> "record", id |-> id, state |-> state] \in Places
  BY DEF Places
<1>4. ASSUME NEW ids \in SUBSET Ids
      PROVE  [pc |-> "remove", ids |-> ids] \in Places
  BY DEF Places
<1>5. QED
  BY <1>1, <1>2, <1>3, <1>4

\* Thread t moves to place, the other threads and the jobs stay.
Moves(t, place) ==
    /\ thread' \in [Threads -> Places] /\ thread'[t] = place
    /\ \A u \in Threads : u # t => thread'[u] = thread[u]
    /\ UNCHANGED <<jobs, stored>>

LEMMA MoveFacts ==
    ASSUME TypeInv, NEW t \in Threads, NEW place \in Places,
           thread' = [thread EXCEPT ![t] = place], UNCHANGED <<jobs, stored>>
    PROVE  Moves(t, place)
BY DEF TypeInv, ThreadsTyped, Moves

LEMMA JobsAreIds ==
    ASSUME TypeInv
    PROVE  DOMAIN jobs \subseteq Ids /\ \A id \in DOMAIN jobs : jobs[id] \in Jobs
BY ServiceAssumption DEF TypeInv, JobsTyped, Ids

\* The steps of a client, place by place.
LEMMA ClientFacts ==
    ASSUME TypeInv, NEW t \in Threads
    PROVE  /\ \A s \in Sessions : EndSession(t, s) =>
                /\ Moves(t, [pc |-> "remove", ids |-> sessions[s]]) /\ thread[t] = Idle
           /\ \A id \in Ids : QuerySnapshot(t, id) =>
                /\ Moves(t, [pc |-> "record", id |-> id, state |-> jobs[id].state])
                /\ id \in DOMAIN jobs
           /\ RegisterSession(t) =>
                Moves(t, [pc |-> "request", id |-> thread[t].id, rec |-> thread[t].rec])
           /\ RegisterRequest(t) => Moves(t, Idle)
           /\ QueryRecord(t) =>
                \/ Moves(t, Idle)
                \/ /\ Moves(t, [pc |-> "publish", id |-> thread[t].id,
                               rec |-> requests[thread[t].id]])
                   /\ thread[t].id \in DOMAIN requests
                   /\ Publishes(requests[thread[t].id], thread[t].state)
           /\ Publish(t) =>
                Moves(t, [pc |-> "mark", id |-> thread[t].id, rec |-> thread[t].rec])
           /\ Mark(t) => Moves(t, Idle)
           /\ EndRequests(t) => Moves(t, Idle)
<1>1. DOMAIN jobs \subseteq Ids /\ \A id \in DOMAIN jobs : jobs[id] \in Jobs
  BY JobsAreIds
<1>2. ASSUME NEW s \in Sessions, EndSession(t, s)
      PROVE  Moves(t, [pc |-> "remove", ids |-> sessions[s]]) /\ thread[t] = Idle
  <2>1. sessions[s] \in SUBSET Ids
    BY <1>1 DEF TypeInv
  <2>2. QED
    BY <1>2, <2>1, MoveFacts, NewPlaces DEF EndSession
<1>3. ASSUME NEW id \in Ids, QuerySnapshot(t, id)
      PROVE  /\ Moves(t, [pc |-> "record", id |-> id, state |-> jobs[id].state])
             /\ id \in DOMAIN jobs
  <2>1. id \in DOMAIN jobs /\ jobs[id].state \in {"pending", "running"} \cup Terminal
    BY <1>1, <1>3 DEF QuerySnapshot, Jobs
  <2>2. QED
    BY <1>3, <2>1, MoveFacts, NewPlaces DEF QuerySnapshot
\* A step that only moves pc on.
<1>4. ASSUME NEW from \in {"session", "publish"}, NEW to \in {"request", "mark"},
             thread[t].pc = from, thread' = [thread EXCEPT ![t].pc = to],
             UNCHANGED <<jobs, stored>>
      PROVE  Moves(t, [pc |-> to, id |-> thread[t].id, rec |-> thread[t].rec])
  <2> DEFINE place == [pc |-> to, id |-> thread[t].id, rec |-> thread[t].rec]
  <2>1. /\ thread[t].id \in Ids /\ thread[t].rec \in Records
        /\ thread[t] = [pc |-> thread[t].pc, id |-> thread[t].id, rec |-> thread[t].rec]
    BY <1>4, PlaceFacts
  <2>2. place \in Places
    BY <2>1, NewPlaces
  <2>3. [thread[t] EXCEPT !.pc = to] = place
    BY <2>1
  <2>4. thread' = [thread EXCEPT ![t] = place]
    BY <1>4, <2>3
  <2> HIDE DEF place
  <2>5. Moves(t, place)
    BY <1>4, <2>2, <2>4, MoveFacts
  <2>6. QED
    BY <2>5 DEF place
<1>5. ASSUME RegisterSession(t)
      PROVE  Moves(t, [pc |-> "request", id |-> thread[t].id, rec |-> thread[t].rec])
  BY <1>4, <1>5 DEF RegisterSession
<1>6. ASSUME Publish(t)
      PROVE  Moves(t, [pc |-> "mark", id |-> thread[t].id, rec |-> thread[t].rec])
  BY <1>4, <1>6 DEF Publish
<1>7. ASSUME RegisterRequest(t) \/ Mark(t) \/ EndRequests(t)
      PROVE  Moves(t, Idle)
  <2>1. thread' = [thread EXCEPT ![t] = Idle] /\ UNCHANGED <<jobs, stored>>
    BY <1>7 DEF RegisterRequest, Mark, EndRequests
  <2>2. QED
    BY <2>1, MoveFacts, NewPlaces
<1>8. ASSUME QueryRecord(t)
      PROVE  \/ Moves(t, Idle)
             \/ /\ Moves(t, [pc |-> "publish", id |-> thread[t].id,
                            rec |-> requests[thread[t].id]])
                /\ thread[t].id \in DOMAIN requests
                /\ Publishes(requests[thread[t].id], thread[t].state)
  <2> DEFINE id == thread[t].id
             place == [pc |-> "publish", id |-> id, rec |-> requests[id]]
             publishes == id \in DOMAIN requests /\ Publishes(requests[id], thread[t].state)
  <2>1. /\ thread[t].pc = "record" /\ UNCHANGED <<jobs, stored>>
        /\ thread' = [thread EXCEPT ![t] = IF publishes THEN place ELSE Idle]
    BY <1>8 DEF QueryRecord
  <2>2. id \in Ids
    BY <2>1, PlaceFacts
  <2>3. CASE publishes
    <3>1. requests[id] \in Records
      BY <2>3 DEF TypeInv, RequestsTyped
    <3>2. place \in Places
      BY <2>2, <3>1, NewPlaces
    <3>3. thread' = [thread EXCEPT ![t] = place]
      BY <2>1, <2>3
    <3> HIDE DEF place
    <3>4. Moves(t, place)
      BY <2>1, <3>2, <3>3, MoveFacts
    <3>5. QED
      BY <2>3, <3>4 DEF place
  <2>4. CASE ~publishes
    <3>1. thread' = [thread EXCEPT ![t] = Idle]
      BY <2>1, <2>4
    <3>2. QED
      BY <2>1, <3>1, MoveFacts, NewPlaces
  <2>5. QED
    BY <2>3, <2>4
<1>9. QED
  BY <1>2, <1>3, <1>5, <1>6, <1>7, <1>8

LEMMA MovesTyped ==
    ASSUME TypeInv, NEW t \in Threads, NEW place, Moves(t, place), Located(t)'
    PROVE  ThreadsTyped' /\ JobsTyped' /\ stored' \subseteq Keys
<1>1. \A u \in Threads : u # t => Located(u)'
  BY DEF TypeInv, ThreadsTyped, Located, Moves
<1>2. JobsTyped'
  BY DEF TypeInv, JobsTyped, Sane, Moves
<1>3. QED
  BY <1>1, <1>2 DEF ThreadsTyped, TypeInv, Moves

LEMMA ClientTyped ==
    ASSUME TypeInv, NEW t \in Threads, Client(t)
    PROVE  TypeInv'
<1> USE DEF Moves
<1>1. Located(t)
  BY DEF TypeInv, ThreadsTyped
\* What no step but the first of each pair below changes.
<1>2. /\ UNCHANGED <<jobs, sessions>> => sessions' \in [Sessions -> SUBSET (DOMAIN jobs')]
      /\ UNCHANGED <<jobs, requests>> => RequestsTyped'
      /\ UNCHANGED index => index' \subseteq [prompt : Prompts, keys : Seq(Keys)]
      /\ UNCHANGED <<jobs, raced>> => raced' \subseteq DOMAIN jobs'
  BY DEF TypeInv, RequestsTyped
<1>3. ASSUME NEW s \in Sessions, EndSession(t, s)
      PROVE  TypeInv'
  <2>1. Moves(t, [pc |-> "remove", ids |-> sessions[s]])
    BY <1>3, ClientFacts
  <2>2. sessions[s] \subseteq DOMAIN jobs
    BY DEF TypeInv
  <2>3. Located(t)'
    BY <2>1, <2>2 DEF Located
  <2>4. sessions' \in [Sessions -> SUBSET (DOMAIN jobs')]
    BY <1>3 DEF EndSession, TypeInv
  <2>5. raced' \subseteq DOMAIN jobs'
    <3>1. UNCHANGED jobs /\ raced \subseteq DOMAIN jobs
      BY <1>3 DEF EndSession, TypeInv
    <3>2. raced' \subseteq raced \cup sessions[s]
      BY <1>3 DEF EndSession
    <3>3. QED
      BY <2>2, <3>1, <3>2
  <2>6. QED
    BY <1>2, <1>3, <2>1, <2>3, <2>4, <2>5, MovesTyped DEF EndSession, TypeInv
<1>4. ASSUME NEW id \in Ids, QuerySnapshot(t, id)
      PROVE  TypeInv'
  <2>1. Moves(t, [pc |-> "record", id |-> id, state |-> jobs[id].state]) /\ id \in DOMAIN jobs
    BY <1>4, ClientFacts
  <2>2. Located(t)'
    BY <2>1 DEF Located
  <2>3. QED
    BY <1>2, <1>4, <2>1, <2>2, MovesTyped DEF QuerySnapshot, TypeInv
<1>5. ASSUME RegisterSession(t)
      PROVE  TypeInv'
  <2>1. /\ thread[t].pc = "session"
        /\ Moves(t, [pc |-> "request", id |-> thread[t].id, rec |-> thread[t].rec])
    BY <1>5, ClientFacts DEF RegisterSession
  <2>2. Located(t)' /\ thread[t].id \in DOMAIN jobs
    BY <1>1, <2>1 DEF Located
  <2>3. sessions' \in [Sessions -> SUBSET (DOMAIN jobs')]
    BY <1>5, <2>2 DEF RegisterSession, TypeInv
  <2>4. QED
    BY <1>2, <1>5, <2>1, <2>2, <2>3, MovesTyped DEF RegisterSession, TypeInv
<1>6. ASSUME RegisterRequest(t)
      PROVE  TypeInv'
  <2>1. thread[t].pc = "request" /\ Moves(t, Idle)
    BY <1>6, ClientFacts DEF RegisterRequest
  <2>2. Located(t)'
    BY <2>1, NewPlaces DEF Located
  <2>3. thread[t].id \in DOMAIN jobs /\ thread[t].rec \in Records
    BY <1>1, <2>1, PlaceFacts DEF Located
  <2>4. RequestsTyped'
    <3> DEFINE r == thread[t].rec
               id == thread[t].id
    <3>1. Asks(r.kind, jobs[id].op, r.prompt, r.keys, jobs[id].keys)
      BY <1>1, <2>1 DEF Located
    <3>2. /\ DOMAIN requests' = DOMAIN requests \cup {id} /\ requests'[id] = r
          /\ \A j \in DOMAIN requests : j # id => requests'[j] = requests[j]
          /\ requests' = [j \in DOMAIN requests' |-> requests'[j]]
          /\ UNCHANGED jobs
      BY <1>6 DEF RegisterRequest
    <3> HIDE DEF r, id
    <3>3. /\ \A j \in DOMAIN requests' : requests'[j] \in Records
          /\ DOMAIN requests' \subseteq DOMAIN jobs'
      BY <2>3, <3>2 DEF TypeInv, RequestsTyped, r, id
    <3>4. ASSUME NEW j \in DOMAIN requests'
          PROVE  Asks(requests'[j].kind, jobs'[j].op, requests'[j].prompt,
                      requests'[j].keys, jobs'[j].keys)
      BY <3>1, <3>2 DEF TypeInv, RequestsTyped
    <3>5. requests' \in [DOMAIN requests' -> Records]
      BY <3>2, <3>3
    <3>6. QED
      BY <3>3, <3>4, <3>5 DEF RequestsTyped
  <2>5. QED
    BY <1>2, <1>6, <2>1, <2>2, <2>4, MovesTyped DEF RegisterRequest, TypeInv
<1>7. ASSUME QueryRecord(t)
      PROVE  TypeInv'
  <2>1. CASE Moves(t, Idle)
    <3>1. Located(t)'
      BY <2>1, NewPlaces DEF Located
    <3>2. QED
      BY <1>2, <1>7, <2>1, <3>1, MovesTyped DEF QueryRecord, TypeInv
  <2>2. CASE ~Moves(t, Idle)
    <3> DEFINE id == thread[t].id
    <3>1. /\ Moves(t, [pc |-> "publish", id |-> id, rec |-> requests[id]])
          /\ id \in DOMAIN requests /\ requests[id].kind = "store"
      BY <1>7, <2>2, ClientFacts DEF Publishes
    <3>2. /\ Asks(requests[id].kind, jobs[id].op, requests[id].prompt, requests[id].keys,
                  jobs[id].keys)
          /\ id \in DOMAIN jobs
      BY <3>1 DEF TypeInv, RequestsTyped
    <3> HIDE DEF id
    <3>3. Located(t)'
      BY <3>1, <3>2 DEF Located
    <3>4. QED
      BY <1>2, <1>7, <3>1, <3>3, MovesTyped DEF QueryRecord, TypeInv
  <2>3. QED
    BY <2>1, <2>2
<1>8. ASSUME Publish(t)
      PROVE  TypeInv'
  <2>1. /\ thread[t].pc = "publish"
        /\ Moves(t, [pc |-> "mark", id |-> thread[t].id, rec |-> thread[t].rec])
    BY <1>8, ClientFacts DEF Publish
  <2>2. Located(t)'
    BY <1>1, <2>1 DEF Located
  <2>3. thread[t].rec.prompt \in Prompts /\ thread[t].rec.keys \in Seq(Keys)
    BY <1>1, <2>1, PlaceFacts DEF Located, Asks, ForPrompt, Records
  <2>4. index' \subseteq [prompt : Prompts, keys : Seq(Keys)]
    BY <1>8, <2>3 DEF Publish, Retained, TypeInv
  <2>5. QED
    BY <1>2, <1>8, <2>1, <2>2, <2>4, MovesTyped DEF Publish, TypeInv
<1>9. ASSUME Mark(t)
      PROVE  TypeInv'
  <2>1. Moves(t, Idle)
    BY <1>9, ClientFacts
  <2>2. Located(t)'
    BY <2>1, NewPlaces DEF Located
  <2>3. /\ DOMAIN requests' = DOMAIN requests
        /\ requests' = [j \in DOMAIN requests |->
             IF j = thread[t].id THEN [requests[j] EXCEPT !.indexed = TRUE] ELSE requests[j]]
        /\ UNCHANGED jobs
    BY <1>9 DEF Mark
  <2>4. ASSUME NEW j \in DOMAIN requests
        PROVE  /\ requests'[j] \in Records /\ requests'[j].kind = requests[j].kind
               /\ requests'[j].prompt = requests[j].prompt /\ requests'[j].keys = requests[j].keys
    <3>1. requests[j] \in Records
      BY DEF TypeInv, RequestsTyped
    <3>2. QED
      BY <2>3, <3>1 DEF Records
  <2>5. RequestsTyped'
    <3>1. requests' \in [DOMAIN requests' -> Records]
      BY <2>3, <2>4
    <3>2. QED
      BY <2>3, <2>4, <3>1 DEF TypeInv, RequestsTyped
  <2>6. QED
    BY <1>2, <1>9, <2>1, <2>2, <2>5, MovesTyped DEF Mark, TypeInv
<1>10. ASSUME EndRequests(t)
       PROVE  TypeInv'
  <2>1. Moves(t, Idle)
    BY <1>10, ClientFacts
  <2>2. Located(t)'
    BY <2>1, NewPlaces DEF Located
  <2>3. /\ DOMAIN requests' = DOMAIN requests \ thread[t].ids /\ UNCHANGED jobs
        /\ \A j \in DOMAIN requests' : requests'[j] = requests[j]
        /\ requests' = [j \in DOMAIN requests' |-> requests'[j]]
    BY <1>10 DEF EndRequests
  <2>4. RequestsTyped'
    <3>1. \A j \in DOMAIN requests' : requests'[j] \in Records
      BY <2>3 DEF TypeInv, RequestsTyped
    <3>2. requests' \in [DOMAIN requests' -> Records]
      BY <2>3, <3>1
    <3>3. QED
      BY <2>3, <3>2 DEF TypeInv, RequestsTyped
  <2>5. QED
    BY <1>2, <1>10, <2>1, <2>2, <2>4, MovesTyped DEF EndRequests, TypeInv
<1>11. QED
  BY <1>3, <1>4, <1>5, <1>6, <1>7, <1>8, <1>9, <1>10 DEF Client

LEMMA TypeStep ==
    ASSUME TypeInv, [Next]_vars
    PROVE  TypeInv'
<1>1. ASSUME NEW k \in Keys, Lose(k) PROVE TypeInv'
  BY <1>1 DEF Lose, TypeInv, RequestsTyped, JobsTyped, ThreadsTyped, Located
<1>2. ASSUME UNCHANGED vars PROVE TypeInv'
  BY <1>2 DEF vars, TypeInv, RequestsTyped, JobsTyped, ThreadsTyped, Located
<1>3. QED
  BY <1>1, <1>2, Steps, SubmitTyped, ClientTyped, WorkTyped, RuntimeTyped

LEMMA InitTyped ==
    ASSUME Init
    PROVE  TypeInv
<1>1. jobs = <<>> /\ DOMAIN jobs = {} /\ Len(jobs) = 0
  BY DEF Init
<1>2. JobsTyped
  BY <1>1, ServiceAssumption DEF JobsTyped
<1>3. RequestsTyped
  BY <1>1 DEF Init, RequestsTyped
<1>4. ThreadsTyped
  BY NewPlaces DEF Init, ThreadsTyped, Located
<1>5. QED
  BY <1>1, <1>2, <1>3, <1>4 DEF Init, TypeInv

\* Every variable keeps its shape, every id is that of a job, and no worker does
\* more than the job asked for.
THEOREM TypesKept == Spec => []TypeInv
<1>1. Init => TypeInv
  BY InitTyped
<1>2. TypeInv /\ [Next]_vars => TypeInv'
  BY TypeStep
<1>3. QED
  BY <1>1, <1>2, PTL DEF Spec

-----------------------------------------------------------------------------
(* The two registries.                                                     *)

LEMMA OwnFrame ==
    ASSUME OwnInv, UNCHANGED <<sessions, requests, thread, raced>>
    PROVE  OwnInv'
BY DEF OwnInv, RegisteredOnce, NotYetListed, HalfListed, RemovedUnlisted, RequestsOwned

\* Every id that a registry or a thread holds is that of a job.
LEMMA IdsOld ==
    ASSUME TypeInv, NEW new, new \notin DOMAIN jobs
    PROVE  /\ new \notin DOMAIN requests /\ new \notin raced
           /\ \A s \in Sessions : new \notin sessions[s]
           /\ \A u \in Threads :
                /\ thread[u].pc \in {"session", "request", "publish", "mark"} => thread[u].id # new
                /\ thread[u].pc = "remove" => new \notin thread[u].ids
BY DEF TypeInv, RequestsTyped, ThreadsTyped, Located

LEMMA SubmitOwn ==
    ASSUME TypeInv, OwnInv, NEW t \in Threads, NEW s \in Sessions, Submission(t, s)
    PROVE  OwnInv'
<1> DEFINE new == Len(jobs) + 1
<1>1. /\ thread[t].pc = "idle" /\ \A u \in Threads : u # t => thread'[u] = thread[u]
      /\ thread'[t].pc = "session" /\ thread'[t].id = new
      /\ UNCHANGED <<sessions, requests, raced>> /\ new \notin DOMAIN jobs
  <2>1. PICK kind \in Kinds, op \in Ops, prompt \in Prompts \cup {NoPrompt}, keys \in Seq(Keys),
             payload \in Seq(JobKeys) : Submitted(t, s, kind, op, prompt, keys, payload)
    BY SubmitFacts
  <2>2. QED
    BY <2>1, NewPlaces DEF Submitted, Appended
<1> HIDE DEF new
<1>2. /\ new \notin DOMAIN requests /\ new \notin raced
      /\ \A z \in Sessions : new \notin sessions[z]
      /\ \A u \in Threads :
           /\ thread[u].pc \in {"session", "request", "publish", "mark"} => thread[u].id # new
           /\ thread[u].pc = "remove" => new \notin thread[u].ids
  BY <1>1, IdsOld
<1>3. RegisteredOnce'
  BY <1>1, <1>2 DEF OwnInv, RegisteredOnce
<1>4. NotYetListed'
  BY <1>1, <1>2 DEF OwnInv, NotYetListed
<1>5. HalfListed'
  BY <1>1 DEF OwnInv, HalfListed
<1>6. RemovedUnlisted'
  BY <1>1 DEF OwnInv, RemovedUnlisted
<1>7. RequestsOwned'
  <2>1. ASSUME NEW id \in DOMAIN requests'
        PROVE  \/ id \in sessions'[requests'[id].session] \cup raced'
               \/ \E u \in Threads : thread'[u].pc = "remove" /\ id \in thread'[u].ids
    BY <1>1 DEF OwnInv, RequestsOwned
  <2>2. ASSUME NEW z \in Sessions, NEW id \in sessions'[z]
        PROVE  \/ id \in DOMAIN requests' /\ requests'[id].session = z
               \/ \E u \in Threads : thread'[u].pc = "request" /\ thread'[u].id = id
    BY <1>1 DEF OwnInv, RequestsOwned
  <2>3. QED
    BY <2>1, <2>2 DEF RequestsOwned
<1>8. QED
  BY <1>3, <1>4, <1>5, <1>6, <1>7 DEF OwnInv

\* end_session takes a session's ids out of the first registry ...
LEMMA EndSessionOwn ==
    ASSUME TypeInv, OwnInv, NEW t \in Threads, NEW s \in Sessions, EndSession(t, s)
    PROVE  OwnInv'
<1>1. /\ thread[t].pc = "idle" /\ \A u \in Threads : u # t => thread'[u] = thread[u]
      /\ thread'[t].pc = "remove" /\ thread'[t].ids = sessions[s]
  <2>1. Moves(t, [pc |-> "remove", ids |-> sessions[s]]) /\ thread[t] = Idle
    BY ClientFacts
  <2>2. QED
    BY <2>1, NewPlaces DEF Moves
<1>2. /\ UNCHANGED requests /\ sessions' = [sessions EXCEPT ![s] = {}]
      /\ raced' = raced \cup
           {thread[u].id : u \in {v \in Threads : thread[v].pc = "request"
                                                    /\ thread[v].id \in sessions[s]}}
  BY DEF EndSession
<1>3. sessions'[s] = {} /\ \A z \in Sessions : z # s => sessions'[z] = sessions[z]
  BY <1>2 DEF TypeInv
<1>4. raced \subseteq raced'
      /\ \A u \in Threads : (thread[u].pc = "request" /\ thread[u].id \in sessions[s]) =>
                              thread[u].id \in raced'
  BY <1>2
\* A session's ids are in no other session.
<1>5. \A z \in Sessions : z # s => sessions[z] \cap sessions[s] = {}
  <2>1. SUFFICES ASSUME NEW z \in Sessions, z # s, NEW id \in sessions[z] \cap sessions[s]
                 PROVE  FALSE
    OBVIOUS
  <2>2. CASE id \in DOMAIN requests /\ requests[id].session = s
    <3>1. PICK u \in Threads : thread[u].pc = "request" /\ thread[u].id = id
      BY <2>1, <2>2 DEF OwnInv, RequestsOwned
    <3>2. QED
      BY <2>2, <3>1 DEF OwnInv, RegisteredOnce
  <2>3. CASE \E u \in Threads : thread[u].pc = "request" /\ thread[u].id = id
    BY <2>1, <2>3 DEF OwnInv, HalfListed
  <2>4. QED
    BY <2>1, <2>2, <2>3 DEF OwnInv, RequestsOwned
<1>6. RegisteredOnce'
  BY <1>1, <1>2 DEF OwnInv, RegisteredOnce
<1>7. NotYetListed'
  <2>1. ASSUME NEW u \in Threads, thread'[u].pc = "session"
        PROVE  thread'[u].id \notin raced'
    <3>1. u # t /\ thread[u].pc = "session" /\ thread'[u] = thread[u]
      BY <1>1, <2>1
    <3>2. thread[u].id \notin raced /\ thread[u].id \notin sessions[s]
      BY <3>1 DEF OwnInv, NotYetListed
    <3>3. ASSUME NEW v \in Threads, thread[v].pc = "request", thread[v].id \in sessions[s]
          PROVE  thread[v].id # thread[u].id
      BY <3>2, <3>3
    <3>4. QED
      BY <1>2, <3>1, <3>2, <3>3
  <2>2. QED
    BY <1>1, <1>3, <2>1 DEF OwnInv, NotYetListed
<1>8. HalfListed'
  <2>1. ASSUME NEW u \in Threads, thread'[u].pc = "request"
        PROVE  /\ thread'[u].id \in sessions'[thread'[u].rec.session] \cup raced'
               /\ \A z \in Sessions : thread'[u].id \in sessions'[z] => z = thread'[u].rec.session
    <3>1. u # t /\ thread[u].pc = "request" /\ thread'[u] = thread[u]
      BY <1>1, <2>1
    <3>2. /\ thread[u].id \in sessions[thread[u].rec.session] \cup raced
          /\ \A z \in Sessions : thread[u].id \in sessions[z] => z = thread[u].rec.session
      BY <3>1 DEF OwnInv, HalfListed
    <3>3. thread[u].rec.session \in Sessions
      BY <3>1, PlaceFacts DEF Records
    <3>4. QED
      BY <1>3, <1>4, <3>1, <3>2, <3>3
  <2>2. QED
    BY <2>1 DEF HalfListed
<1>9. RemovedUnlisted'
  BY <1>1, <1>3, <1>5 DEF OwnInv, RemovedUnlisted
<1>10. RequestsOwned'
  <2>1. ASSUME NEW id \in DOMAIN requests'
        PROVE  \/ id \in sessions'[requests'[id].session] \cup raced'
               \/ \E u \in Threads : thread'[u].pc = "remove" /\ id \in thread'[u].ids
    <3>1. id \in DOMAIN requests /\ requests'[id] = requests[id] /\ requests[id].session \in Sessions
      BY <1>2 DEF TypeInv, RequestsTyped, Records
    <3>2. CASE id \in sessions[requests[id].session] \cup raced
      BY <1>1, <1>3, <1>4, <3>1, <3>2
    <3>3. CASE \E u \in Threads : thread[u].pc = "remove" /\ id \in thread[u].ids
      BY <1>1, <3>3
    <3>4. QED
      BY <3>1, <3>2, <3>3 DEF OwnInv, RequestsOwned
  <2>2. ASSUME NEW z \in Sessions, NEW id \in sessions'[z]
        PROVE  \/ id \in DOMAIN requests' /\ requests'[id].session = z
               \/ \E u \in Threads : thread'[u].pc = "request" /\ thread'[u].id = id
    <3>1. id \in sessions[z]
      BY <1>3
    <3>2. QED
      BY <1>1, <1>2, <3>1 DEF OwnInv, RequestsOwned
  <2>3. QED
    BY <2>1, <2>2 DEF RequestsOwned
<1>11. QED
  BY <1>6, <1>7, <1>8, <1>9, <1>10 DEF OwnInv

\* ... and then out of the second.
LEMMA EndRequestsOwn ==
    ASSUME TypeInv, OwnInv, NEW t \in Threads, EndRequests(t)
    PROVE  OwnInv'
<1>1. /\ thread[t].pc = "remove" /\ thread'[t].pc = "idle"
      /\ \A u \in Threads : u # t => thread'[u] = thread[u]
  BY ClientFacts, NewPlaces DEF Moves, EndRequests
<1>2. /\ UNCHANGED <<sessions, raced>> /\ DOMAIN requests' = DOMAIN requests \ thread[t].ids
      /\ \A j \in DOMAIN requests' : requests'[j] = requests[j]
  BY DEF EndRequests
<1>3. RegisteredOnce'
  BY <1>1, <1>2 DEF OwnInv, RegisteredOnce
<1>4. NotYetListed'
  BY <1>1, <1>2 DEF OwnInv, NotYetListed
<1>5. HalfListed'
  BY <1>1, <1>2 DEF OwnInv, HalfListed
<1>6. RemovedUnlisted'
  BY <1>1, <1>2 DEF OwnInv, RemovedUnlisted
<1>7. RequestsOwned'
  <2>1. ASSUME NEW id \in DOMAIN requests'
        PROVE  \/ id \in sessions'[requests'[id].session] \cup raced'
               \/ \E u \in Threads : thread'[u].pc = "remove" /\ id \in thread'[u].ids
    <3>1. id \in DOMAIN requests /\ requests'[id] = requests[id] /\ id \notin thread[t].ids
      BY <1>2
    <3>2. QED
      BY <1>1, <1>2, <3>1 DEF OwnInv, RequestsOwned
  <2>2. ASSUME NEW z \in Sessions, NEW id \in sessions'[z]
        PROVE  \/ id \in DOMAIN requests' /\ requests'[id].session = z
               \/ \E u \in Threads : thread'[u].pc = "request" /\ thread'[u].id = id
    <3>1. id \in sessions[z] /\ id \notin thread[t].ids
      BY <1>1, <1>2 DEF OwnInv, RemovedUnlisted
    <3>2. QED
      BY <1>1, <1>2, <3>1 DEF OwnInv, RequestsOwned
  <2>3. QED
    BY <2>1, <2>2 DEF RequestsOwned
<1>8. QED
  BY <1>3, <1>4, <1>5, <1>6, <1>7 DEF OwnInv

LEMMA RegisterSessionOwn ==
    ASSUME TypeInv, OwnInv, NEW t \in Threads, RegisterSession(t)
    PROVE  OwnInv'
<1> DEFINE id == thread[t].id
           s == thread[t].rec.session
<1>1. /\ thread[t].pc = "session" /\ UNCHANGED <<requests, raced>>
      /\ sessions' = [sessions EXCEPT ![s] = @ \cup {id}]
  BY DEF RegisterSession
<1>2. /\ thread'[t].pc = "request" /\ thread'[t].id = id /\ thread'[t].rec = thread[t].rec
      /\ \A u \in Threads : u # t => thread'[u] = thread[u]
  <2>1. Moves(t, [pc |-> "request", id |-> thread[t].id, rec |-> thread[t].rec])
    BY ClientFacts
  <2>2. QED
    BY <2>1 DEF Moves
<1>3. s \in Sessions
  BY <1>1, PlaceFacts DEF Records
<1>4. /\ sessions'[s] = sessions[s] \cup {id}
      /\ \A z \in Sessions : z # s => sessions'[z] = sessions[z]
  BY <1>1, <1>3 DEF TypeInv
<1>5. /\ \A z \in Sessions : id \notin sessions[z]
      /\ \A u \in Threads : thread[u].pc = "remove" => id \notin thread[u].ids
      /\ \A u \in Threads :
           (u # t /\ thread[u].pc \in {"session", "request", "publish", "mark"}) =>
               thread[u].id # id
  BY <1>1 DEF OwnInv, NotYetListed, RegisteredOnce
<1>6. thread'[t].rec.session = s
  BY <1>2
<1> HIDE DEF id, s
<1>7. RegisteredOnce'
  BY <1>1, <1>2 DEF OwnInv, RegisteredOnce, id
<1>8. NotYetListed'
  BY <1>1, <1>2, <1>3, <1>4, <1>5 DEF OwnInv, NotYetListed
<1>9. HalfListed'
  BY <1>1, <1>2, <1>3, <1>4, <1>5, <1>6 DEF OwnInv, HalfListed
<1>10. RemovedUnlisted'
  BY <1>2, <1>3, <1>4, <1>5 DEF OwnInv, RemovedUnlisted
<1>11. RequestsOwned'
  <2>1. ASSUME NEW j \in DOMAIN requests'
        PROVE  \/ j \in sessions'[requests'[j].session] \cup raced'
               \/ \E u \in Threads : thread'[u].pc = "remove" /\ j \in thread'[u].ids
    <3>1. j \in DOMAIN requests /\ requests'[j] = requests[j] /\ requests[j].session \in Sessions
      BY <1>1 DEF TypeInv, RequestsTyped, Records
    <3>2. QED
      BY <1>1, <1>2, <1>4, <3>1 DEF OwnInv, RequestsOwned
  <2>2. ASSUME NEW z \in Sessions, NEW j \in sessions'[z]
        PROVE  \/ j \in DOMAIN requests' /\ requests'[j].session = z
               \/ \E u \in Threads : thread'[u].pc = "request" /\ thread'[u].id = j
    <3>1. j = id \/ j \in sessions[z]
      BY <1>4
    <3>2. QED
      BY <1>1, <1>2, <3>1 DEF OwnInv, RequestsOwned
  <2>3. QED
    BY <2>1, <2>2 DEF RequestsOwned
<1>12. QED
  BY <1>7, <1>8, <1>9, <1>10, <1>11 DEF OwnInv

LEMMA RegisterRequestOwn ==
    ASSUME TypeInv, OwnInv, NEW t \in Threads, RegisterRequest(t)
    PROVE  OwnInv'
<1> DEFINE id == thread[t].id
           rec == thread[t].rec
<1>1. /\ thread[t].pc = "request" /\ UNCHANGED <<sessions, raced>>
      /\ DOMAIN requests' = DOMAIN requests \cup {id} /\ requests'[id] = rec
      /\ \A j \in DOMAIN requests : j # id => requests'[j] = requests[j]
  BY DEF RegisterRequest
<1>2. thread'[t].pc = "idle" /\ \A u \in Threads : u # t => thread'[u] = thread[u]
  BY ClientFacts, NewPlaces DEF Moves
<1>3. /\ id \in sessions[rec.session] \cup raced
      /\ \A z \in Sessions : id \in sessions[z] => z = rec.session
      /\ \A u \in Threads :
           (u # t /\ thread[u].pc \in {"session", "request", "publish", "mark"}) =>
               thread[u].id # id
  BY <1>1 DEF OwnInv, HalfListed, RegisteredOnce
<1> HIDE DEF id, rec
<1>4. RegisteredOnce'
  BY <1>1, <1>2, <1>3 DEF OwnInv, RegisteredOnce
<1>5. NotYetListed'
  BY <1>1, <1>2 DEF OwnInv, NotYetListed
<1>6. HalfListed'
  BY <1>1, <1>2 DEF OwnInv, HalfListed
<1>7. RemovedUnlisted'
  BY <1>1, <1>2 DEF OwnInv, RemovedUnlisted
<1>8. RequestsOwned'
  <2>1. ASSUME NEW j \in DOMAIN requests'
        PROVE  \/ j \in sessions'[requests'[j].session] \cup raced'
               \/ \E u \in Threads : thread'[u].pc = "remove" /\ j \in thread'[u].ids
    <3>1. CASE j = id
      BY <1>1, <1>3, <3>1
    <3>2. CASE j # id
      BY <1>1, <1>2, <3>2 DEF OwnInv, RequestsOwned
    <3>3. QED
      BY <3>1, <3>2
  <2>2. ASSUME NEW z \in Sessions, NEW j \in sessions'[z]
        PROVE  \/ j \in DOMAIN requests' /\ requests'[j].session = z
               \/ \E u \in Threads : thread'[u].pc = "request" /\ thread'[u].id = j
    <3>1. CASE j = id
      BY <1>1, <1>3, <3>1
    <3>2. CASE j # id
      BY <1>1, <1>2, <3>2 DEF OwnInv, RequestsOwned, id
    <3>3. QED
      BY <3>1, <3>2
  <2>3. QED
    BY <2>1, <2>2 DEF RequestsOwned
<1>9. QED
  BY <1>4, <1>5, <1>6, <1>7, <1>8 DEF OwnInv

\* A query reads and marks records, and gives none to another session.
LEMMA QueryOwn ==
    ASSUME TypeInv, OwnInv, NEW t \in Threads,
           \/ \E id \in Ids : QuerySnapshot(t, id)
           \/ QueryRecord(t) \/ Publish(t) \/ Mark(t)
    PROVE  OwnInv'
<1>1. /\ UNCHANGED <<sessions, raced>> /\ DOMAIN requests' = DOMAIN requests
      /\ \A j \in DOMAIN requests : requests'[j].session = requests[j].session
  <2>1. CASE Mark(t)
    <3>1. /\ UNCHANGED <<sessions, raced>>
          /\ requests' = [j \in DOMAIN requests |->
               IF j = thread[t].id THEN [requests[j] EXCEPT !.indexed = TRUE] ELSE requests[j]]
      BY <2>1 DEF Mark
    <3>2. ASSUME NEW j \in DOMAIN requests
          PROVE  requests'[j].session = requests[j].session
      <4>1. requests[j] \in Records
        BY DEF TypeInv, RequestsTyped
      <4>2. QED
        BY <3>1, <4>1 DEF Records
    <3>3. QED
      BY <3>1, <3>2
  <2>2. CASE ~Mark(t)
    BY <2>2 DEF QuerySnapshot, QueryRecord, Publish
  <2>3. QED
    BY <2>1, <2>2
<1>2. /\ \A u \in Threads : u # t => thread'[u] = thread[u]
      /\ thread[t].pc \notin {"session", "request", "remove"}
      /\ thread'[t].pc \notin {"session", "request", "remove"}
      /\ thread'[t].pc \in {"publish", "mark"} =>
           \/ thread'[t].id \in DOMAIN requests
           \/ thread[t].pc = "publish" /\ thread'[t].id = thread[t].id
  <2>1. ASSUME NEW id \in Ids, QuerySnapshot(t, id)
        PROVE  /\ thread[t].pc = "idle" /\ thread'[t].pc = "record"
               /\ \A u \in Threads : u # t => thread'[u] = thread[u]
    <3>1. Moves(t, [pc |-> "record", id |-> id, state |-> jobs[id].state])
      BY <2>1, ClientFacts
    <3>2. QED
      BY <2>1, <3>1, NewPlaces DEF Moves, QuerySnapshot
  <2>2. ASSUME QueryRecord(t)
        PROVE  /\ thread[t].pc = "record"
               /\ \/ thread'[t].pc = "idle"
                  \/ thread'[t].pc = "publish" /\ thread'[t].id \in DOMAIN requests
               /\ \A u \in Threads : u # t => thread'[u] = thread[u]
    <3>1. CASE Moves(t, Idle)
      BY <2>2, <3>1, NewPlaces DEF Moves, QueryRecord
    <3>2. CASE ~Moves(t, Idle)
      <4>1. /\ Moves(t, [pc |-> "publish", id |-> thread[t].id, rec |-> requests[thread[t].id]])
            /\ thread[t].id \in DOMAIN requests
        BY <2>2, <3>2, ClientFacts
      <4>2. QED
        BY <2>2, <4>1 DEF Moves, QueryRecord
    <3>3. QED
      BY <3>1, <3>2
  <2>3. ASSUME Publish(t)
        PROVE  /\ thread[t].pc = "publish" /\ thread'[t].pc = "mark"
               /\ thread'[t].id = thread[t].id
               /\ \A u \in Threads : u # t => thread'[u] = thread[u]
    <3>1. Moves(t, [pc |-> "mark", id |-> thread[t].id, rec |-> thread[t].rec])
      BY <2>3, ClientFacts
    <3>2. QED
      BY <2>3, <3>1 DEF Moves, Publish
  <2>4. ASSUME Mark(t)
        PROVE  /\ thread[t].pc = "mark" /\ thread'[t].pc = "idle"
               /\ \A u \in Threads : u # t => thread'[u] = thread[u]
    BY <2>4, ClientFacts, NewPlaces DEF Moves, Mark
  <2>5. QED
    BY <2>1, <2>2, <2>3, <2>4
<1>3. RegisteredOnce'
  <2>1. ASSUME NEW u \in Threads, thread'[u].pc \in {"session", "request"}
        PROVE  /\ thread'[u].id \notin DOMAIN requests'
               /\ \A v \in Threads :
                    (v # u /\ thread'[v].pc \in {"session", "request", "publish", "mark"}) =>
                        thread'[v].id # thread'[u].id
    <3>1. /\ u # t /\ thread'[u] = thread[u] /\ thread[u].id \notin DOMAIN requests
          /\ \A v \in Threads :
               (v # u /\ thread[v].pc \in {"session", "request", "publish", "mark"}) =>
                   thread[v].id # thread[u].id
      BY <1>2, <2>1 DEF OwnInv, RegisteredOnce
    <3>2. QED
      BY <1>1, <1>2, <3>1
  <2>2. QED
    BY <2>1 DEF RegisteredOnce
<1>4. NotYetListed'
  BY <1>1, <1>2 DEF OwnInv, NotYetListed
<1>5. HalfListed'
  BY <1>1, <1>2 DEF OwnInv, HalfListed
<1>6. RemovedUnlisted'
  BY <1>1, <1>2 DEF OwnInv, RemovedUnlisted
<1>7. RequestsOwned'
  <2>1. ASSUME NEW j \in DOMAIN requests'
        PROVE  \/ j \in sessions'[requests'[j].session] \cup raced'
               \/ \E u \in Threads : thread'[u].pc = "remove" /\ j \in thread'[u].ids
    BY <1>1, <1>2 DEF OwnInv, RequestsOwned
  <2>2. ASSUME NEW z \in Sessions, NEW j \in sessions'[z]
        PROVE  \/ j \in DOMAIN requests' /\ requests'[j].session = z
               \/ \E u \in Threads : thread'[u].pc = "request" /\ thread'[u].id = j
    BY <1>1, <1>2 DEF OwnInv, RequestsOwned
  <2>3. QED
    BY <2>1, <2>2 DEF RequestsOwned
<1>8. QED
  BY <1>3, <1>4, <1>5, <1>6, <1>7 DEF OwnInv

LEMMA OwnStep ==
    ASSUME TypeInv, OwnInv, [Next]_vars
    PROVE  OwnInv'
<1>1. ASSUME NEW t \in Threads, Client(t) PROVE OwnInv'
  BY <1>1, EndSessionOwn, EndRequestsOwn, RegisterSessionOwn, RegisterRequestOwn, QueryOwn
     DEF Client
<1>2. ASSUME NEW id \in Ids, Work(id) PROVE OwnInv'
  BY <1>2, WorkFacts, OwnFrame DEF Worked
<1>3. ASSUME Runtime PROVE OwnInv'
  BY <1>3, RuntimeFacts, OwnFrame
<1>4. ASSUME NEW k \in Keys, Lose(k) PROVE OwnInv'
  BY <1>4, OwnFrame DEF Lose
<1>5. ASSUME UNCHANGED vars PROVE OwnInv'
  BY <1>5, OwnFrame DEF vars
<1>6. QED
  BY <1>1, <1>2, <1>3, <1>4, <1>5, Steps, SubmitOwn

LEMMA TypeInvType ==
    ASSUME TypeInv
    PROVE  TypeOK
<1>1. DOMAIN jobs \subseteq Ids /\ \A id \in DOMAIN jobs : jobs[id] \in Jobs
  BY JobsAreIds
<1>2. sessions \in [Sessions -> SUBSET Ids] /\ raced \subseteq Ids
  BY <1>1 DEF TypeInv
<1>3. /\ DOMAIN requests \subseteq Ids
      /\ \A id \in DOMAIN requests :
           requests[id].session \in Sessions /\ requests[id].kind \in Kinds
  BY <1>1 DEF TypeInv, RequestsTyped, Records
<1>4. \A r \in index : r.prompt \in Prompts
  BY DEF TypeInv
<1>5. ASSUME NEW id \in DOMAIN jobs
      PROVE  /\ jobs[id].op \in Ops
             /\ jobs[id].state \in {"pending", "running"} \cup Terminal
             /\ Len(jobs[id].completed) + jobs[id].missed <= Len(jobs[id].keys)
  <2>1. Sane(jobs[id])
    BY DEF TypeInv, JobsTyped
  <2>2. QED
    BY <1>1, <2>1 DEF Jobs, Sane
<1>6. QED
  BY <1>2, <1>3, <1>4, <1>5 DEF TypeOK, TypeInv

-----------------------------------------------------------------------------
(* The prefix index.                                                       *)

\* A job that has completed stays as it is.
LEMMA IndexGrow ==
    ASSUME TypeInv, IndexInv, DOMAIN jobs \subseteq DOMAIN jobs',
           \A id \in DOMAIN jobs : jobs[id].state = "completed" => jobs'[id] = jobs[id],
           UNCHANGED <<requests, index>>
    PROVE  /\ PublishedAfterStore' /\ IndexedPublished'
           /\ \A u \in Threads : thread'[u] = thread[u] => QueryTrue(u)'
<1>1. PublishedAfterStore'
  <2>1. ASSUME NEW r \in index'
        PROVE  \E id \in DOMAIN jobs' :
                 /\ jobs'[id].op = "store" /\ jobs'[id].state = "completed"
                 /\ jobs'[id].completed = r.keys /\ r.keys = BlockKeys(r.prompt)
    BY DEF IndexInv, PublishedAfterStore
  <2>2. QED
    BY <2>1 DEF PublishedAfterStore
<1>2. IndexedPublished'
  BY DEF IndexInv, IndexedPublished
<1>3. ASSUME NEW u \in Threads, thread'[u] = thread[u]
      PROVE  QueryTrue(u)'
  <2>1. QueryTrue(u) /\ Located(u)
    BY DEF IndexInv, QueriesTrue, TypeInv, ThreadsTyped
  <2>2. QED
    BY <1>3, <2>1 DEF QueryTrue, Located
<1>4. QED
  BY <1>1, <1>2, <1>3

\* A new job has completed nothing.
LEMMA AppendedInOrder ==
    ASSUME TypeInv, StoresInOrder, NEW op, NEW payload, Appended(op, payload)
    PROVE  StoresInOrder'
<1> DEFINE new == Len(jobs) + 1
<1>1. /\ DOMAIN jobs' = DOMAIN jobs \cup {new} /\ \A id \in DOMAIN jobs : jobs'[id] = jobs[id]
      /\ jobs'[new].completed = <<>>
  BY DEF Appended
<1> HIDE DEF new
<1>2. ASSUME NEW id \in DOMAIN jobs', jobs'[id].op = "store",
             NEW i \in 1..Len(jobs'[id].completed)
      PROVE  jobs'[id].completed[i] = jobs'[id].keys[i]
  <2>1. CASE id = new
    BY <1>1, <1>2, <2>1
  <2>2. CASE id \in DOMAIN jobs
    BY <1>1, <1>2, <2>2 DEF StoresInOrder
  <2>3. QED
    BY <1>1, <2>1, <2>2
<1>3. QED
  BY <1>2 DEF StoresInOrder

LEMMA SubmitIndex ==
    ASSUME TypeInv, IndexInv, NEW t \in Threads, NEW s \in Sessions, Submission(t, s)
    PROVE  IndexInv'
<1>1. PICK kind \in Kinds, op \in Ops, prompt \in Prompts \cup {NoPrompt}, keys \in Seq(Keys),
           payload \in Seq(JobKeys) : Submitted(t, s, kind, op, prompt, keys, payload)
  BY SubmitFacts
<1>2. /\ \A u \in Threads : u # t => thread'[u] = thread[u]
      /\ thread'[t].pc = "session" /\ thread'[t].rec.kind = kind
      /\ thread'[t].rec.indexed = (kind # "store")
      /\ UNCHANGED <<requests, index>> /\ Appended(op, payload)
  BY <1>1 DEF Submitted
<1>3. DOMAIN jobs \subseteq DOMAIN jobs' /\ \A id \in DOMAIN jobs : jobs'[id] = jobs[id]
  BY <1>2 DEF Appended
<1>4. QueryTrue(t)'
  BY <1>2 DEF QueryTrue
<1>5. StoresInOrder'
  BY <1>2, AppendedInOrder DEF IndexInv
<1>6. QED
  BY <1>2, <1>3, <1>4, <1>5, IndexGrow DEF IndexInv, QueriesTrue

LEMMA RuntimeIndex ==
    ASSUME TypeInv, IndexInv, Runtime
    PROVE  IndexInv'
<1>1. PICK op \in Ops, payload \in Seq(JobKeys) : Appended(op, payload)
  BY RuntimeFacts
<1>2. UNCHANGED <<requests, index, thread>>
  BY RuntimeFacts
<1>3. DOMAIN jobs \subseteq DOMAIN jobs' /\ \A id \in DOMAIN jobs : jobs'[id] = jobs[id]
  BY <1>1 DEF Appended
<1>4. StoresInOrder'
  BY <1>1, AppendedInOrder DEF IndexInv
<1>5. QED
  BY <1>2, <1>3, <1>4, IndexGrow DEF IndexInv, QueriesTrue

LEMMA WorkIndex ==
    ASSUME TypeInv, IndexInv, NEW id \in Ids, Work(id)
    PROVE  IndexInv'
<1>1. /\ id \in DOMAIN jobs /\ jobs[id].state \notin Terminal
      /\ DOMAIN jobs' = DOMAIN jobs /\ \A j \in DOMAIN jobs : j # id => jobs'[j] = jobs[j]
      /\ jobs'[id].op = jobs[id].op /\ jobs'[id].keys = jobs[id].keys
      /\ jobs[id].op = "store" =>
           \/ jobs'[id].completed = jobs[id].completed
           \/ jobs'[id].completed = Append(jobs[id].completed, Current(id))
      /\ UNCHANGED <<requests, index, thread>>
  BY WorkFacts DEF Worked, Becomes
<1>2. /\ jobs[id].completed \in Seq(JobKeys)
      /\ jobs[id].op = "store" => jobs[id].missed = 0
  BY <1>1, JobsAreIds DEF Jobs, TypeInv, JobsTyped, Sane, Copying
<1>3. ASSUME jobs[id].op = "store", NEW i \in 1..Len(jobs'[id].completed)
      PROVE  jobs'[id].completed[i] = jobs[id].keys[i]
  <2>1. \A j \in 1..Len(jobs[id].completed) : jobs[id].completed[j] = jobs[id].keys[j]
    BY <1>1, <1>3 DEF IndexInv, StoresInOrder
  <2>2. Current(id) = jobs[id].keys[Len(jobs[id].completed) + 1]
    BY <1>2, <1>3 DEF Current
  <2>3. CASE jobs'[id].completed = jobs[id].completed
    BY <1>3, <2>1, <2>3
  <2>4. CASE jobs'[id].completed = Append(jobs[id].completed, Current(id))
    BY <1>2, <1>3, <2>1, <2>2, <2>4
  <2>5. QED
    BY <1>1, <1>3, <2>3, <2>4
<1>4. StoresInOrder'
  BY <1>1, <1>3 DEF IndexInv, StoresInOrder
<1>5. \A j \in DOMAIN jobs : jobs[j].state = "completed" => jobs'[j] = jobs[j]
  BY <1>1 DEF Terminal
<1>6. QED
  BY <1>1, <1>4, <1>5, IndexGrow DEF IndexInv, QueriesTrue

\* A store that has completed has written all its keys.
LEMMA StoreDone ==
    ASSUME TypeInv, StoresInOrder, NEW id \in DOMAIN jobs, jobs[id].op = "store",
           jobs[id].state = "completed"
    PROVE  jobs[id].completed = jobs[id].keys
<1>1. jobs[id] \in Jobs /\ Sane(jobs[id])
  BY DEF TypeInv, JobsTyped
<1>2. jobs[id].completed \in Seq(JobKeys) /\ jobs[id].keys \in Seq(JobKeys)
  BY <1>1 DEF Jobs
<1>3. Len(jobs[id].completed) = Len(jobs[id].keys)
  BY <1>1, <1>2 DEF Sane, Copying
<1>4. \A i \in 1..Len(jobs[id].completed) : jobs[id].completed[i] = jobs[id].keys[i]
  BY DEF StoresInOrder
<1> DEFINE a == jobs[id].completed
           b == jobs[id].keys
<1>5. a \in Seq(JobKeys) /\ b \in Seq(JobKeys) /\ Len(a) = Len(b)
      /\ \A i \in 1..Len(a) : a[i] = b[i]
  BY <1>2, <1>3, <1>4
<1> HIDE DEF a, b
<1>6. a = b
  BY <1>5
<1>7. QED
  BY <1>6 DEF a, b

LEMMA ClientIndex ==
    ASSUME TypeInv, OwnInv, IndexInv, NEW t \in Threads, Client(t)
    PROVE  IndexInv'
<1>1. UNCHANGED jobs
  BY DEF Client, EndSession, QuerySnapshot, RegisterSession, RegisterRequest, QueryRecord,
         Publish, Mark, EndRequests
<1>2. StoresInOrder'
  BY <1>1 DEF IndexInv, StoresInOrder
<1>3. Located(t) /\ QueryTrue(t)
  BY DEF TypeInv, ThreadsTyped, IndexInv, QueriesTrue
<1>4. ASSUME NEW place, Moves(t, place), UNCHANGED <<requests, index>>, QueryTrue(t)'
      PROVE  IndexInv'
  <2>1. \A u \in Threads : u # t => thread'[u] = thread[u]
    BY <1>4 DEF Moves
  <2>2. QED
    BY <1>1, <1>2, <1>4, <2>1, IndexGrow DEF IndexInv, QueriesTrue
<1>5. ASSUME NEW s \in Sessions, EndSession(t, s) PROVE IndexInv'
  <2>1. Moves(t, [pc |-> "remove", ids |-> sessions[s]]) /\ UNCHANGED <<requests, index>>
    BY <1>5, ClientFacts DEF EndSession
  <2>2. QueryTrue(t)'
    BY <2>1 DEF Moves, QueryTrue
  <2>3. QED
    BY <1>4, <2>1, <2>2
<1>6. ASSUME NEW id \in Ids, QuerySnapshot(t, id) PROVE IndexInv'
  <2>1. /\ Moves(t, [pc |-> "record", id |-> id, state |-> jobs[id].state])
        /\ UNCHANGED <<requests, index>>
    BY <1>6, ClientFacts DEF QuerySnapshot
  <2>2. QueryTrue(t)'
    BY <2>1 DEF Moves, QueryTrue
  <2>3. QED
    BY <1>4, <2>1, <2>2
<1>7. ASSUME RegisterSession(t) PROVE IndexInv'
  <2>1. /\ Moves(t, [pc |-> "request", id |-> thread[t].id, rec |-> thread[t].rec])
        /\ thread[t].pc = "session" /\ UNCHANGED <<requests, index>>
    BY <1>7, ClientFacts DEF RegisterSession
  <2>2. QueryTrue(t)'
    BY <1>3, <2>1 DEF Moves, QueryTrue
  <2>3. QED
    BY <1>4, <2>1, <2>2
<1>8. ASSUME QueryRecord(t) PROVE IndexInv'
  <2>1. UNCHANGED <<requests, index>> /\ thread[t].pc = "record"
    BY <1>8 DEF QueryRecord
  <2>2. CASE Moves(t, Idle)
    <3>1. QueryTrue(t)'
      BY <2>2, NewPlaces DEF Moves, QueryTrue
    <3>2. QED
      BY <1>4, <2>1, <2>2, <3>1
  <2>3. CASE ~Moves(t, Idle)
    <3>1. /\ Moves(t, [pc |-> "publish", id |-> thread[t].id, rec |-> requests[thread[t].id]])
          /\ thread[t].state = "completed"
      BY <1>8, <2>3, ClientFacts DEF Publishes
    <3>2. QueryTrue(t)'
      BY <1>3, <2>1, <3>1 DEF Moves, QueryTrue
    <3>3. QED
      BY <1>4, <2>1, <3>1, <3>2
  <2>4. QED
    BY <2>2, <2>3
\* The records of requests come and go, none of them changed.
<1>9. ASSUME RegisterRequest(t) PROVE IndexInv'
  <2> DEFINE id == thread[t].id
             rec == thread[t].rec
  <2>1. /\ thread[t].pc = "request" /\ UNCHANGED index
        /\ DOMAIN requests' = DOMAIN requests \cup {id} /\ requests'[id] = rec
        /\ \A j \in DOMAIN requests : j # id => requests'[j] = requests[j]
    BY <1>9 DEF RegisterRequest
  <2>2. thread'[t].pc = "idle" /\ \A u \in Threads : u # t => thread'[u] = thread[u]
    BY <1>9, ClientFacts, NewPlaces DEF Moves
  <2>3. /\ rec.kind = "store" => ~rec.indexed
        /\ \A u \in Threads : (u # t /\ thread[u].pc \in {"publish", "mark"}) => thread[u].id # id
    BY <1>3, <2>1 DEF QueryTrue, OwnInv, RegisteredOnce
  <2> HIDE DEF id, rec
  <2>4. PublishedAfterStore'
    BY <1>1, <2>1 DEF IndexInv, PublishedAfterStore
  <2>5. IndexedPublished'
    BY <2>1, <2>3 DEF IndexInv, IndexedPublished
  <2>6. ASSUME NEW u \in Threads PROVE QueryTrue(u)'
    <3>1. QueryTrue(u)
      BY DEF IndexInv, QueriesTrue
    <3>2. QED
      BY <1>1, <2>1, <2>2, <2>3, <3>1 DEF QueryTrue
  <2>7. QED
    BY <1>2, <2>4, <2>5, <2>6 DEF IndexInv, QueriesTrue
<1>10. ASSUME EndRequests(t) PROVE IndexInv'
  <2>1. /\ UNCHANGED index /\ DOMAIN requests' \subseteq DOMAIN requests
        /\ \A j \in DOMAIN requests' : requests'[j] = requests[j]
    BY <1>10 DEF EndRequests
  <2>2. thread'[t].pc = "idle" /\ \A u \in Threads : u # t => thread'[u] = thread[u]
    BY <1>10, ClientFacts, NewPlaces DEF Moves
  <2>3. PublishedAfterStore'
    BY <1>1, <2>1 DEF IndexInv, PublishedAfterStore
  <2>4. IndexedPublished'
    BY <2>1 DEF IndexInv, IndexedPublished
  <2>5. ASSUME NEW u \in Threads PROVE QueryTrue(u)'
    <3>1. QueryTrue(u)
      BY DEF IndexInv, QueriesTrue
    <3>2. QED
      BY <1>1, <2>1, <2>2, <3>1 DEF QueryTrue
  <2>6. QED
    BY <1>2, <2>3, <2>4, <2>5 DEF IndexInv, QueriesTrue
\* A record of the index is replaced only by one of the same prompt.
<1>11. ASSUME Publish(t) PROVE IndexInv'
  <2> DEFINE rec == thread[t].rec
             new == [prompt |-> rec.prompt, keys |-> rec.keys]
  <2>1. /\ thread[t].pc = "publish" /\ UNCHANGED requests
        /\ index' = Retained(rec.prompt) \cup {new}
    BY <1>11 DEF Publish
  <2>2. /\ thread'[t].pc = "mark" /\ thread'[t].id = thread[t].id /\ thread'[t].rec = rec
        /\ \A u \in Threads : u # t => thread'[u] = thread[u]
    <3>1. Moves(t, [pc |-> "mark", id |-> thread[t].id, rec |-> thread[t].rec])
      BY <1>11, ClientFacts
    <3>2. QED
      BY <3>1 DEF Moves
  <2>3. /\ rec.kind = "store" /\ rec.prompt \in Prompts
        /\ thread[t].id \in DOMAIN jobs /\ jobs[thread[t].id].op = "store"
        /\ jobs[thread[t].id].keys = rec.keys /\ rec.keys = BlockKeys(rec.prompt)
        /\ jobs[thread[t].id].state = "completed"
    BY <1>3, <2>1 DEF Located, Asks, ForPrompt, QueryTrue
  <2>4. jobs[thread[t].id].completed = rec.keys
    BY <2>3, StoreDone DEF IndexInv
  <2>5. new.prompt = rec.prompt /\ new.keys = rec.keys /\ new \in index'
    BY <2>1
  <2>6. \A r \in index' : r \in index \/ r = new
    BY <2>1 DEF Retained
  <2>7. ASSUME NEW r \in index PROVE \E q \in index' : q.prompt = r.prompt
    <3>1. CASE r \in Retained(rec.prompt)
      BY <2>1, <3>1
    <3>2. CASE r \notin Retained(rec.prompt)
      <4>1. r.prompt.model = rec.prompt.model /\ r.prompt.tokens = rec.prompt.tokens
        BY <3>2 DEF Retained
      <4>2. r.prompt \in Prompts
        BY DEF TypeInv
      <4>3. /\ r.prompt = [model |-> r.prompt.model, tokens |-> r.prompt.tokens]
            /\ rec.prompt = [model |-> rec.prompt.model, tokens |-> rec.prompt.tokens]
        BY <2>3, <4>2, ServiceAssumption
      <4>4. r.prompt = rec.prompt
        BY <4>1, <4>3
      <4>5. QED
        BY <2>5, <4>4
    <3>3. QED
      BY <3>1, <3>2
  <2> HIDE DEF new, rec
  <2>8. PublishedAfterStore'
    <3>1. ASSUME NEW r \in index'
          PROVE  \E id \in DOMAIN jobs' :
                   /\ jobs'[id].op = "store" /\ jobs'[id].state = "completed"
                   /\ jobs'[id].completed = r.keys /\ r.keys = BlockKeys(r.prompt)
      <4>1. CASE r = new
        BY <1>1, <2>3, <2>4, <2>5, <4>1
      <4>2. CASE r \in index
        BY <1>1, <4>2 DEF IndexInv, PublishedAfterStore
      <4>3. QED
        BY <2>6, <4>1, <4>2
    <3>2. QED
      BY <3>1 DEF PublishedAfterStore
  <2>9. IndexedPublished'
    <3>1. ASSUME NEW id \in DOMAIN requests', requests'[id].kind = "store", requests'[id].indexed
          PROVE  \E q \in index' : q.prompt = requests'[id].prompt
      <4>1. PICK r \in index : r.prompt = requests[id].prompt
        BY <2>1, <3>1 DEF IndexInv, IndexedPublished
      <4>2. QED
        BY <2>1, <2>7, <4>1
    <3>2. QED
      BY <3>1 DEF IndexedPublished
  <2>10. ASSUME NEW u \in Threads PROVE QueryTrue(u)'
    <3>1. QueryTrue(u)
      BY DEF IndexInv, QueriesTrue
    <3>2. CASE u = t
      BY <1>1, <2>1, <2>2, <2>5, <3>1, <3>2 DEF QueryTrue, rec
    <3>3. CASE u # t
      BY <1>1, <2>1, <2>2, <2>7, <3>1, <3>3 DEF QueryTrue
    <3>4. QED
      BY <3>2, <3>3
  <2>11. QED
    BY <1>2, <2>8, <2>9, <2>10 DEF IndexInv, QueriesTrue
<1>12. ASSUME Mark(t) PROVE IndexInv'
  <2>1. /\ thread[t].pc = "mark" /\ UNCHANGED index
        /\ requests' = [j \in DOMAIN requests |->
             IF j = thread[t].id THEN [requests[j] EXCEPT !.indexed = TRUE] ELSE requests[j]]
    BY <1>12 DEF Mark
  <2>2. DOMAIN requests' = DOMAIN requests
    BY <2>1
  <2>3. ASSUME NEW j \in DOMAIN requests
        PROVE  /\ requests'[j].prompt = requests[j].prompt /\ requests'[j].kind = requests[j].kind
               /\ j # thread[t].id => requests'[j] = requests[j]
    <3>1. requests[j] \in Records
      BY DEF TypeInv, RequestsTyped
    <3>2. QED
      BY <2>1, <3>1 DEF Records
  <2>4. thread'[t].pc = "idle" /\ \A u \in Threads : u # t => thread'[u] = thread[u]
    BY <1>12, ClientFacts, NewPlaces DEF Moves
  <2>5. PublishedAfterStore'
    BY <1>1, <2>1 DEF IndexInv, PublishedAfterStore
  <2>6. IndexedPublished'
    <3>1. ASSUME NEW id \in DOMAIN requests', requests'[id].kind = "store", requests'[id].indexed
          PROVE  \E q \in index' : q.prompt = requests'[id].prompt
      <4>1. CASE id = thread[t].id
        BY <1>3, <2>1, <2>2, <2>3, <4>1 DEF QueryTrue
      <4>2. CASE id # thread[t].id
        BY <2>1, <2>2, <2>3, <3>1, <4>2 DEF IndexInv, IndexedPublished
      <4>3. QED
        BY <4>1, <4>2
    <3>2. QED
      BY <3>1 DEF IndexedPublished
  <2>7. ASSUME NEW u \in Threads PROVE QueryTrue(u)'
    <3>1. QueryTrue(u)
      BY DEF IndexInv, QueriesTrue
    <3>2. QED
      BY <1>1, <2>1, <2>2, <2>3, <2>4, <3>1 DEF QueryTrue
  <2>8. QED
    BY <1>2, <2>5, <2>6, <2>7 DEF IndexInv, QueriesTrue
<1>13. QED
  BY <1>5, <1>6, <1>7, <1>8, <1>9, <1>10, <1>11, <1>12 DEF Client

LEMMA IndexStep ==
    ASSUME TypeInv, OwnInv, IndexInv, [Next]_vars
    PROVE  IndexInv'
<1>1. ASSUME UNCHANGED <<jobs, requests, index, thread>> PROVE IndexInv'
  BY <1>1, IndexGrow DEF IndexInv, QueriesTrue, StoresInOrder
<1>2. ASSUME NEW k \in Keys, Lose(k) PROVE IndexInv'
  BY <1>1, <1>2 DEF Lose
<1>3. ASSUME UNCHANGED vars PROVE IndexInv'
  BY <1>1, <1>3 DEF vars
<1>4. QED
  BY <1>2, <1>3, Steps, SubmitIndex, ClientIndex, WorkIndex, RuntimeIndex

LEMMA InitIndex ==
    ASSUME Init
    PROVE  OwnInv /\ IndexInv
<1>1. /\ \A t \in Threads : thread[t].pc = "idle"
      /\ DOMAIN requests = {} /\ \A s \in Sessions : sessions[s] = {}
      /\ DOMAIN jobs = {} /\ index = {}
  BY NewPlaces DEF Init
<1>2. OwnInv
  BY <1>1 DEF OwnInv, RegisteredOnce, NotYetListed, HalfListed, RemovedUnlisted, RequestsOwned
<1>3. IndexInv
  BY <1>1 DEF IndexInv, StoresInOrder, QueriesTrue, QueryTrue, PublishedAfterStore,
              IndexedPublished
<1>4. QED
  BY <1>2, <1>3

LEMMA IndexAlways == Spec => [](TypeInv /\ OwnInv /\ IndexInv)
<1>1. Init => OwnInv /\ IndexInv
  BY InitIndex
<1>2. TypeInv /\ OwnInv /\ IndexInv /\ [Next]_vars => OwnInv' /\ IndexInv'
  BY OwnStep, IndexStep
<1>3. QED
  BY <1>1, <1>2, TypesKept, PTL DEF Spec

\* The registries of sessions and of requests agree, whatever register and
\* end_session, each two critical sections, interleave with.
THEOREM SessionsAlwaysAgree == Spec => []SessionsAgree
<1>1. TypeInv /\ OwnInv => SessionsAgree
  BY TypeInvType DEF OwnInv, SessionsAgree
<1>2. QED
  BY <1>1, IndexAlways, PTL

\* A record of the prefix index stands for a store that completed with exactly
\* its keys, and a store marked as indexed keeps its record.
THEOREM IndexAlwaysTrue == Spec => []IndexTrue
<1>1. IndexInv => IndexTrue
  BY DEF IndexInv, IndexTrue
<1>2. QED
  BY <1>1, IndexAlways, PTL

-----------------------------------------------------------------------------
(* What a request fetches.                                                 *)

\* The blocks of a prompt hold a prefix of every prompt that extends it.
LEMMA BlocksOfPrefix ==
    ASSUME NEW p \in Prompts, NEW q \in Prompts, q.model = p.model, IsPrefix(q.tokens, p.tokens)
    PROVE  OwnBlocks(p, BlockKeys(q))
<1> DEFINE a == q.tokens
           b == p.tokens
           m == (Len(a) + BlockTokens - 1) \div BlockTokens
           ks == BlockKeys(q)
           end(i) == Least(i * BlockTokens, Len(a))
<1>1. /\ a \in Seq(Nat) /\ b \in Seq(Nat) /\ Len(a) \in Nat /\ Len(b) \in Nat
      /\ BlockTokens \in Nat \ {0}
  BY ServiceAssumption
<1>2. Len(a) <= Len(b) /\ \A j \in 1..Len(a) : a[j] = b[j]
  <2>1. Len(a) <= Len(b) /\ SubSeq(a, 1, Len(a)) = SubSeq(b, 1, Len(a))
    BY DEF IsPrefix
  <2> HIDE DEF a, b
  <2>2. \A j \in 1..Len(a) : SubSeq(a, 1, Len(a))[j] = a[j] /\ SubSeq(b, 1, Len(a))[j] = b[j]
    BY <1>1, <2>1
  <2>3. QED
    BY <2>1, <2>2
<1>3. /\ m \in Nat
      /\ \A i \in 1..m : (i - 1) * BlockTokens \in Nat /\ (i - 1) * BlockTokens < Len(a)
  BY <1>1, BlocksFit
<1>4. /\ DOMAIN ks = 1..m
      /\ \A i \in 1..m : /\ ks[i].model = q.model /\ ks[i].prefix = SubSeq(a, 1, end(i))
                         /\ ks[i].start = (i - 1) * BlockTokens
  BY DEF BlockKeys
<1>5. ASSUME NEW i \in 1..m PROVE end(i) \in 0..Len(a)
  <2>1. i * BlockTokens \in Nat
    BY <1>1, <1>3
  <2>2. QED
    BY <1>1, <2>1 DEF Least
<1> HIDE DEF m, ks, end, a, b
<1>6. ASSUME NEW n \in 0..Len(a)
      PROVE  IsPrefix(SubSeq(a, 1, n), b) /\ Len(SubSeq(a, 1, n)) = n
  <2>1. SubSeq(a, 1, n) \in Seq(Nat) /\ Len(SubSeq(a, 1, n)) = n
    BY <1>1
  <2>2. SubSeq(SubSeq(a, 1, n), 1, n) = SubSeq(a, 1, n)
    BY <1>1, <2>1
  <2>3. SubSeq(a, 1, n) = SubSeq(b, 1, n)
    BY <1>1, <1>2
  <2>4. QED
    BY <1>1, <1>2, <2>1, <2>2, <2>3 DEF IsPrefix
<1>7. ASSUME NEW i \in 1..m
      PROVE  /\ ks[i].model = p.model /\ IsPrefix(ks[i].prefix, b)
             /\ ks[i].start = IF i = 1 THEN 0 ELSE Len(ks[i - 1].prefix)
  <2>1. ks[i].model = p.model /\ IsPrefix(ks[i].prefix, b)
    BY <1>4, <1>5, <1>6
  <2>2. CASE i = 1
    BY <1>1, <1>4, <2>1, <2>2
  <2>3. CASE i # 1
    <3>1. i - 1 \in 1..m
      BY <1>3, <2>3
    <3>2. Len(ks[i - 1].prefix) = end(i - 1)
      BY <1>4, <1>5, <1>6, <3>1
    <3>3. end(i - 1) = (i - 1) * BlockTokens
      BY <1>1, <1>3 DEF end, Least
    <3>4. QED
      BY <1>4, <2>1, <2>3, <3>2, <3>3
  <2>4. QED
    BY <2>2, <2>3
<1>8. QED
  BY <1>4, <1>7 DEF OwnBlocks, ks, b

LEMMA OwnBlockKeys ==
    ASSUME NEW p \in Prompts
    PROVE  OwnBlocks(p, BlockKeys(p))
<1>1. p.tokens \in Seq(Nat)
  BY ServiceAssumption
<1>2. IsPrefix(p.tokens, p.tokens)
  BY <1>1 DEF IsPrefix
<1>3. QED
  BY <1>2, BlocksOfPrefix

\* A lookup that finds a record is for the blocks of a prefix of the same model.
LEMMA OwnLookupKeys ==
    ASSUME TypeInv, IndexInv, NEW p \in Prompts
    PROVE  OwnBlocks(p, LookupKeys(p))
<1>1. CASE Matches(p) = {}
  BY <1>1, OwnBlockKeys DEF LookupKeys
<1>2. CASE Matches(p) # {}
  <2> DEFINE r == LongestPrefix(p)
  <2>1. /\ r \in index /\ r.prompt.model = p.model /\ IsPrefix(r.prompt.tokens, p.tokens)
        /\ LookupKeys(p) = r.keys
    BY <1>2, LongestMatches DEF Matches, LookupKeys
  <2> HIDE DEF r
  <2>2. r.prompt \in Prompts /\ r.keys = BlockKeys(r.prompt)
    BY <2>1 DEF TypeInv, IndexInv, PublishedAfterStore
  <2>3. QED
    BY <2>1, <2>2, BlocksOfPrefix
<1>3. QED
  BY <1>1, <1>2

LEMMA SubmitFetch ==
    ASSUME TypeInv, IndexInv, FetchInv, NEW t \in Threads, NEW s \in Sessions, Submission(t, s)
    PROVE  FetchInv'
<1> DEFINE Own == thread'[t].rec.kind \in {"lookup", "retrieve"} =>
                    OwnBlocks(thread'[t].rec.prompt, thread'[t].rec.keys)
<1>1. ASSUME NEW kind, NEW op, NEW prompt, NEW keys, NEW payload,
             Submit(t, s, kind, op, prompt, keys, payload)
      PROVE  /\ thread'[t].rec.kind = kind /\ thread'[t].rec.prompt = prompt
             /\ thread'[t].rec.keys = keys
  BY <1>1 DEF Submit, TypeInv, ThreadsTyped
<1>2. ASSUME NEW p \in Prompts, SubmitLookup(t, s, p) PROVE Own
  BY <1>1, <1>2, OwnLookupKeys DEF SubmitLookup
<1>3. ASSUME NEW p \in Prompts, SubmitRetrieve(t, s, p) PROVE Own
  BY <1>1, <1>3, OwnBlockKeys DEF SubmitRetrieve
<1>4. ASSUME NEW id \in Ids, SubmitRetrieveLookup(t, s, id) PROVE Own
  BY <1>1, <1>4 DEF SubmitRetrieveLookup, FetchInv
<1>5. ASSUME \/ \E p \in Prompts : SubmitStore(t, s, p) \/ SubmitPin(t, s, p)
                                   \/ SubmitDelete(t, s, p)
             \/ SubmitClear(t, s) \/ SubmitHealth(t, s)
      PROVE  Own
  <2>1. \E kind \in {"store", "pin", "delete", "clear", "health"} :
          \E op, prompt, keys, payload : Submit(t, s, kind, op, prompt, keys, payload)
    BY <1>5 DEF SubmitStore, SubmitPin, SubmitDelete, SubmitClear, SubmitHealth
  <2>2. QED
    BY <1>1, <2>1
<1>6. Own
  BY <1>2, <1>3, <1>4, <1>5 DEF Submission
<1>7. /\ UNCHANGED requests /\ thread'[t].pc = "session"
      /\ \A u \in Threads : u # t => thread'[u] = thread[u]
  <2>1. PICK kind \in Kinds, op \in Ops, prompt \in Prompts \cup {NoPrompt}, keys \in Seq(Keys),
             payload \in Seq(JobKeys) : Submitted(t, s, kind, op, prompt, keys, payload)
    BY SubmitFacts
  <2>2. QED
    BY <2>1 DEF Submitted
<1> HIDE DEF Own
<1>8. ASSUME NEW u \in Threads, thread'[u].pc \in {"session", "request"},
             thread'[u].rec.kind \in {"lookup", "retrieve"}
      PROVE  OwnBlocks(thread'[u].rec.prompt, thread'[u].rec.keys)
  <2>1. CASE u = t
    BY <1>6, <1>8, <2>1 DEF Own
  <2>2. CASE u # t
    BY <1>7, <1>8, <2>2 DEF FetchInv
  <2>3. QED
    BY <2>1, <2>2
<1>9. ASSUME NEW id \in DOMAIN requests', requests'[id].kind \in {"lookup", "retrieve"}
      PROVE  OwnBlocks(requests'[id].prompt, requests'[id].keys)
  BY <1>7, <1>9 DEF FetchInv
<1>10. QED
  BY <1>8, <1>9 DEF FetchInv, OwnBlocks

LEMMA ClientFetch ==
    ASSUME TypeInv, OwnInv, FetchInv, NEW t \in Threads, Client(t)
    PROVE  FetchInv'
<1> DEFINE Kept == \A id \in DOMAIN requests' :
                     id \in DOMAIN requests /\ requests'[id].kind = requests[id].kind
                     /\ requests'[id].prompt = requests[id].prompt
                     /\ requests'[id].keys = requests[id].keys
           Elsewhere == /\ thread'[t].pc \notin {"session", "request"}
                        /\ \A u \in Threads : u # t => thread'[u] = thread[u]
<1>1. ASSUME Kept, Elsewhere PROVE FetchInv'
  BY <1>1 DEF FetchInv, OwnBlocks
<1>2. ASSUME NEW s \in Sessions, EndSession(t, s) PROVE FetchInv'
  <2>1. Moves(t, [pc |-> "remove", ids |-> sessions[s]]) /\ UNCHANGED requests
    BY <1>2, ClientFacts DEF EndSession
  <2>2. QED
    BY <1>1, <2>1 DEF Moves
<1>3. ASSUME NEW id \in Ids, QuerySnapshot(t, id) PROVE FetchInv'
  <2>1. Moves(t, [pc |-> "record", id |-> id, state |-> jobs[id].state]) /\ UNCHANGED requests
    BY <1>3, ClientFacts DEF QuerySnapshot
  <2>2. QED
    BY <1>1, <2>1 DEF Moves
<1>4. ASSUME QueryRecord(t) PROVE FetchInv'
  <2>1. UNCHANGED requests
    BY <1>4 DEF QueryRecord
  <2>2. CASE Moves(t, Idle)
    BY <1>1, <2>1, <2>2, NewPlaces DEF Moves
  <2>3. CASE ~Moves(t, Idle)
    <3>1. Moves(t, [pc |-> "publish", id |-> thread[t].id, rec |-> requests[thread[t].id]])
      BY <1>4, <2>3, ClientFacts
    <3>2. QED
      BY <1>1, <2>1, <3>1 DEF Moves
  <2>4. QED
    BY <2>2, <2>3
<1>5. ASSUME Publish(t) PROVE FetchInv'
  <2>1. /\ Moves(t, [pc |-> "mark", id |-> thread[t].id, rec |-> thread[t].rec])
        /\ UNCHANGED requests
    BY <1>5, ClientFacts DEF Publish
  <2>2. QED
    BY <1>1, <2>1 DEF Moves
<1>6. ASSUME Mark(t) PROVE FetchInv'
  <2>1. requests' = [j \in DOMAIN requests |->
          IF j = thread[t].id THEN [requests[j] EXCEPT !.indexed = TRUE] ELSE requests[j]]
    BY <1>6 DEF Mark
  <2>2. DOMAIN requests' = DOMAIN requests
    BY <2>1
  <2>3. ASSUME NEW j \in DOMAIN requests
        PROVE  /\ requests'[j].prompt = requests[j].prompt /\ requests'[j].kind = requests[j].kind
               /\ requests'[j].keys = requests[j].keys
    <3>1. requests[j] \in Records
      BY DEF TypeInv, RequestsTyped
    <3>2. QED
      BY <2>1, <3>1 DEF Records
  <2>4. Elsewhere
    BY <1>6, ClientFacts, NewPlaces DEF Moves
  <2>5. QED
    BY <1>1, <2>2, <2>3, <2>4
<1>7. ASSUME EndRequests(t) PROVE FetchInv'
  <2>1. Kept
    BY <1>7 DEF EndRequests
  <2>2. Elsewhere
    BY <1>7, ClientFacts, NewPlaces DEF Moves
  <2>3. QED
    BY <1>1, <2>1, <2>2
<1>8. ASSUME RegisterSession(t) PROVE FetchInv'
  <2>1. /\ Moves(t, [pc |-> "request", id |-> thread[t].id, rec |-> thread[t].rec])
        /\ UNCHANGED requests /\ thread[t].pc = "session"
    BY <1>8, ClientFacts DEF RegisterSession
  <2>2. /\ thread'[t].rec = thread[t].rec
        /\ \A u \in Threads : u # t => thread'[u] = thread[u]
    BY <2>1 DEF Moves
  <2>3. ASSUME NEW u \in Threads, thread'[u].pc \in {"session", "request"},
               thread'[u].rec.kind \in {"lookup", "retrieve"}
        PROVE  OwnBlocks(thread'[u].rec.prompt, thread'[u].rec.keys)
    <3>1. thread[u].pc \in {"session", "request"} /\ thread'[u].rec = thread[u].rec
      BY <2>1, <2>2, <2>3
    <3>2. QED
      BY <2>3, <3>1 DEF FetchInv
  <2>4. requests' = requests
    BY <2>1
  <2>5. QED
    BY <2>3, <2>4 DEF FetchInv
<1>9. ASSUME RegisterRequest(t) PROVE FetchInv'
  <2> DEFINE id == thread[t].id
             rec == thread[t].rec
  <2>1. /\ thread[t].pc = "request"
        /\ DOMAIN requests' = DOMAIN requests \cup {id} /\ requests'[id] = rec
        /\ \A j \in DOMAIN requests : j # id => requests'[j] = requests[j]
    BY <1>9 DEF RegisterRequest
  <2>2. Elsewhere
    BY <1>9, ClientFacts, NewPlaces DEF Moves
  <2>3. rec.kind \in {"lookup", "retrieve"} => OwnBlocks(rec.prompt, rec.keys)
    BY <2>1 DEF FetchInv
  <2> HIDE DEF id, rec
  <2>4. ASSUME NEW j \in DOMAIN requests', requests'[j].kind \in {"lookup", "retrieve"}
        PROVE  OwnBlocks(requests'[j].prompt, requests'[j].keys)
    BY <2>1, <2>3, <2>4 DEF FetchInv
  <2>5. QED
    BY <2>2, <2>4 DEF FetchInv, OwnBlocks
<1>10. QED
  BY <1>2, <1>3, <1>4, <1>5, <1>6, <1>7, <1>8, <1>9 DEF Client

LEMMA FetchStep ==
    ASSUME TypeInv, OwnInv, IndexInv, FetchInv, [Next]_vars
    PROVE  FetchInv'
<1>1. ASSUME UNCHANGED <<requests, thread>> PROVE FetchInv'
  BY <1>1 DEF FetchInv, OwnBlocks
<1>2. ASSUME NEW id \in Ids, Work(id) PROVE FetchInv'
  BY <1>1, <1>2, WorkFacts DEF Worked
<1>3. ASSUME Runtime PROVE FetchInv'
  BY <1>1, <1>3, RuntimeFacts
<1>4. ASSUME NEW k \in Keys, Lose(k) PROVE FetchInv'
  BY <1>1, <1>4 DEF Lose
<1>5. ASSUME UNCHANGED vars PROVE FetchInv'
  BY <1>1, <1>5 DEF vars
<1>6. QED
  BY <1>2, <1>3, <1>4, <1>5, Steps, SubmitFetch, ClientFetch

\* A lookup, and a retrieve of what a lookup found, is for blocks of the
\* request's model that hold a prefix of its tokens, in order and without gap.
THEOREM FetchesAlwaysOwnPrefix == Spec => []FetchesOwnPrefix
<1>1. Init => FetchInv
  BY NewPlaces DEF Init, FetchInv
<1>2. TypeInv /\ OwnInv /\ IndexInv /\ FetchInv /\ [Next]_vars => FetchInv'
  BY FetchStep
<1>3. TypeInv /\ FetchInv => FetchesOwnPrefix
  <2>1. SUFFICES ASSUME TypeInv, FetchInv, NEW id \in DOMAIN requests,
                        requests[id].kind \in {"lookup", "retrieve"}
                 PROVE  OwnBlocks(requests[id].prompt, jobs[id].keys)
    BY DEF FetchesOwnPrefix, OwnBlocks
  <2>2. jobs[id].keys = requests[id].keys
    BY <2>1 DEF TypeInv, RequestsTyped, Asks, ForPrompt
  <2>3. QED
    BY <2>1, <2>2 DEF FetchInv
<1>4. QED
  BY <1>1, <1>2, <1>3, IndexAlways, PTL DEF Spec

-----------------------------------------------------------------------------
(* Deletes and clears.                                                     *)

\* A job that excuses a block goes on excusing it.
LEMMA ExcusedStays ==
    ASSUME DOMAIN jobs \subseteq DOMAIN jobs',
           \A j \in DOMAIN jobs : /\ jobs'[j].op = jobs[j].op /\ jobs'[j].keys = jobs[j].keys
                                  /\ jobs'[j].after = jobs[j].after,
           NEW d \in DOMAIN jobs, NEW k, Excused(d, k)
    PROVE  Excused(d, k)'
<1>1. PICK j \in DOMAIN jobs \ jobs[d].after :
        /\ k \in Range(jobs[j].keys)
        /\ jobs[j].op = "store" \/ (jobs[j].op \in Copying /\ d \notin jobs[j].after)
  BY DEF Excused
<1>2. QED
  BY <1>1 DEF Excused

LEMMA SameRemoved ==
    ASSUME NEW d, jobs'[d] = jobs[d]
    PROVE  (Removes(d)' <=> Removes(d)) /\ Removed(d)' = Removed(d) /\ Current(d)' = Current(d)
BY DEF Removes, Removed, Current

\* A new job comes after the jobs that have ended, and has done nothing yet.
LEMMA AppendedDelete ==
    ASSUME TypeInv, DeleteInv, NEW op, NEW payload, Appended(op, payload), UNCHANGED stored
    PROVE  DeleteInv'
<1> DEFINE new == Len(jobs) + 1
           ended == {j \in DOMAIN jobs : jobs[j].state \in Terminal}
<1>1. /\ DOMAIN jobs' = DOMAIN jobs \cup {new} /\ \A j \in DOMAIN jobs : jobs'[j] = jobs[j]
      /\ jobs'[new].completed = <<>> /\ jobs'[new].held = FALSE /\ jobs'[new].after = ended
  BY DEF Appended
<1>2. \A j \in DOMAIN jobs : jobs[j].after \subseteq DOMAIN jobs
  BY DEF TypeInv, JobsTyped
<1> HIDE DEF new
<1>3. AfterEnded'
  BY <1>1, <1>2 DEF DeleteInv, AfterEnded
<1>4. ASSUME NEW d \in DOMAIN jobs', Removes(d)', NEW k \in stored' \cap Removed(d)'
      PROVE  Excused(d, k)'
  <2>1. d # new
    BY <1>1, <1>4 DEF Removed
  <2>2. d \in DOMAIN jobs /\ Removes(d) /\ k \in stored \cap Removed(d)
    BY <1>1, <1>4, <2>1, SameRemoved
  <2>3. Excused(d, k)
    BY <2>2 DEF DeleteInv, RemovedExcused
  <2>4. QED
    BY <1>1, <2>2, <2>3, ExcusedStays
<1>5. ASSUME NEW j \in DOMAIN jobs', jobs'[j].held, NEW d \in jobs'[j].after, Removes(d)',
             Current(j)' \in Removed(d)'
      PROVE  Excused(d, Current(j))'
  <2>1. j \in DOMAIN jobs /\ jobs'[j] = jobs[j] /\ d \in DOMAIN jobs /\ jobs'[d] = jobs[d]
    BY <1>1, <1>2, <1>5
  <2>2. PICK k : k = Current(j)
    OBVIOUS
  <2>3. Removes(d) /\ k \in Removed(d) /\ Current(j)' = k
    BY <1>5, <2>1, <2>2, SameRemoved
  <2>4. Excused(d, k)
    BY <1>5, <2>1, <2>2, <2>3 DEF DeleteInv, HeldExcused
  <2>5. Excused(d, k)'
    BY <1>1, <2>1, <2>4, ExcusedStays
  <2>6. QED
    BY <2>3, <2>5
<1>6. RemovedExcused'
  BY <1>4 DEF RemovedExcused
<1>7. HeldExcused'
  BY <1>5 DEF HeldExcused
<1>8. QED
  BY <1>3, <1>6, <1>7 DEF DeleteInv

\* What a worker's step can add to the engine, what is left of the keys a delete
\* has removed, and when the job holds an entry afterwards.
Effect(id) ==
    /\ \A k \in stored' \ stored :
         /\ k = Current(id) /\ k \in Range(jobs[id].keys)
         /\ jobs[id].op = "store" \/ (jobs[id].op \in Copying /\ jobs[id].held)
    /\ Removes(id) => stored' \cap Removed(id)' \subseteq stored \cap Removed(id)
    /\ jobs'[id].held => Current(id)' = Current(id) /\ (jobs[id].held \/ Current(id) \in stored)

LEMMA WorkEffect ==
    ASSUME TypeInv, NEW id \in Ids, Work(id)
    PROVE  Effect(id)
<1>1. /\ id \in DOMAIN jobs /\ JobsTyped
      /\ jobs'[id].op = jobs[id].op /\ jobs'[id].keys = jobs[id].keys
  BY WorkFacts DEF Worked, TypeInv
<1>2. /\ jobs[id] \in Jobs /\ Sane(jobs[id]) /\ jobs \in Seq(Jobs)
      /\ jobs[id].completed \in Seq(JobKeys)
  <2>1. jobs[id] \in Jobs /\ Sane(jobs[id]) /\ jobs \in Seq(Jobs)
    BY <1>1 DEF JobsTyped
  <2>2. QED
    BY <2>1 DEF Jobs
\* A step that only changes the state of the job.
<1>3. ASSUME jobs'[id].completed = jobs[id].completed
      PROVE  /\ Removed(id)' = Removed(id)
             /\ jobs'[id].missed = jobs[id].missed => Current(id)' = Current(id)
  BY <1>1, <1>3 DEF Removed, Current
<1>4. ASSUME id \in Running, ~AllDone(id), jobs' = Hit(id)
      PROVE  /\ jobs'[id].held = FALSE
             /\ jobs'[id].completed = Append(jobs[id].completed, Current(id))
             /\ Current(id) \in Range(jobs[id].keys)
  <2> DEFINE r == [jobs[id] EXCEPT !.completed = Append(@, Current(id)), !.held = FALSE]
  <2>1. Becomes(id, r)
    BY <1>1, <1>4, HitFacts DEF Running
  <2>2. r.held = FALSE /\ r.completed = Append(jobs[id].completed, Current(id))
    BY <1>2 DEF Jobs
  <2> HIDE DEF r
  <2>3. QED
    BY <1>1, <1>4, <2>1, <2>2, CurrentTyped DEF Becomes
<1>5. ASSUME Start(id) \/ Complete(id) PROVE Effect(id)
  <2>1. /\ jobs'[id].completed = jobs[id].completed /\ jobs'[id].missed = jobs[id].missed
        /\ jobs'[id].held = jobs[id].held /\ UNCHANGED stored
    BY <1>1, <1>2, <1>5 DEF Start, Complete, Jobs
  <2>2. QED
    BY <1>3, <2>1 DEF Effect
<1>6. ASSUME Store(id) PROVE Effect(id)
  <2>1. /\ id \in Running /\ ~AllDone(id) /\ jobs[id].op = "store"
        /\ stored' = stored \cup {Current(id)} /\ jobs' = Hit(id)
    BY <1>6 DEF Store, Doing
  <2>2. QED
    BY <1>4, <2>1 DEF Effect, Removes
<1>7. ASSUME Read(id) PROVE Effect(id)
  <2>1. /\ jobs[id].op \in Copying /\ ~jobs[id].held /\ UNCHANGED stored
    BY <1>7 DEF Read, Doing
  <2>2. CASE jobs' = Miss(id)
    <3>1. jobs'[id].held = jobs[id].held
      BY <1>1, <1>2, <2>2 DEF Miss, Jobs
    <3>2. QED
      BY <2>1, <3>1 DEF Effect, Removes, Copying
  <2>3. CASE Current(id) \in stored /\ jobs' = [jobs EXCEPT ![id].held = TRUE]
    <3>1. jobs'[id].completed = jobs[id].completed /\ jobs'[id].missed = jobs[id].missed
      BY <1>1, <1>2, <2>3 DEF Jobs
    <3>2. QED
      BY <1>3, <2>1, <2>3, <3>1 DEF Effect
  <2>4. QED
    BY <1>7, <2>2, <2>3 DEF Read
<1>8. ASSUME WriteBack(id) PROVE Effect(id)
  <2>1. /\ id \in Running /\ ~AllDone(id) /\ jobs[id].op \in Copying /\ jobs[id].held
        /\ stored' \in {stored, stored \cup {Current(id)}} /\ jobs' = Hit(id)
    BY <1>8 DEF WriteBack, Doing
  <2>2. QED
    BY <1>4, <2>1 DEF Effect, Removes, Copying
<1>9. ASSUME Invalidate(id) PROVE Effect(id)
  <2>1. /\ id \in Running /\ ~AllDone(id) /\ jobs[id].op = "invalidate"
        /\ stored' = stored \ {Current(id)} /\ jobs' = Hit(id)
    BY <1>9 DEF Invalidate, Doing
  <2>2. jobs[id].missed = 0
    BY <1>2, <2>1 DEF Sane, Copying
  <2>3. Current(id) = jobs[id].keys[Len(jobs[id].completed) + 1]
    BY <1>2, <2>2 DEF Current
  <2>4. ASSUME NEW k \in stored' \cap Removed(id)'
        PROVE  k \in stored \cap Removed(id)
    <3>1. PICK i \in 1..Len(jobs'[id].completed) : jobs'[id].keys[i] = k
      BY <1>1, <2>1, <2>4 DEF Removed
    <3>2. i # Len(jobs[id].completed) + 1
      BY <1>1, <2>1, <2>3, <2>4, <3>1
    <3>3. i \in 1..Len(jobs[id].completed)
      BY <1>2, <1>4, <2>1, <3>1, <3>2
    <3>4. k \in Keys /\ jobs[id].keys[i] = k
      BY <1>1, <2>4, <3>1 DEF Removed
    <3>5. QED
      BY <2>1, <2>4, <3>3, <3>4 DEF Removed
  <2>5. QED
    BY <1>4, <2>1, <2>4 DEF Effect
<1>10. ASSUME Clear(id) PROVE Effect(id)
  <2>1. id \in Running /\ ~AllDone(id) /\ stored' = {} /\ jobs' = Hit(id)
    BY <1>10 DEF Clear, Doing
  <2>2. QED
    BY <1>4, <2>1 DEF Effect
<1>11. ASSUME Health(id) PROVE Effect(id)
  <2>1. id \in Running /\ ~AllDone(id) /\ jobs[id].op = "health" /\ UNCHANGED stored
        /\ jobs' \in {Hit(id), Miss(id)}
    BY <1>11 DEF Health, Doing
  <2>2. ~jobs'[id].held
    <3>1. CASE jobs' = Hit(id)
      BY <1>4, <2>1, <3>1
    <3>2. CASE jobs' = Miss(id)
      <4>1. jobs'[id].held = jobs[id].held
        BY <1>1, <1>2, <3>2 DEF Miss, Jobs
      <4>2. ~jobs[id].held
        BY <1>2, <2>1 DEF Sane, Copying
      <4>3. QED
        BY <4>1, <4>2
    <3>3. QED
      BY <2>1, <3>1, <3>2
  <2>3. QED
    BY <2>1, <2>2 DEF Effect, Removes
<1>12. ASSUME Fail(id) PROVE Effect(id)
  <2>1. /\ ~AllDone(id)
        /\ stored' = stored \/ (jobs[id].held /\ stored' = stored \cup {Current(id)})
    BY <1>12 DEF Fail
  <2>2. jobs'[id].held = FALSE /\ jobs'[id].completed = jobs[id].completed
    BY <1>1, <1>2, <1>12 DEF Fail, Jobs
  <2>3. Current(id) \in Range(jobs[id].keys)
    BY <1>1, <2>1, CurrentTyped
  <2>4. jobs[id].held => jobs[id].op \in Copying
    BY <1>2 DEF Sane
  <2>5. QED
    BY <1>3, <2>1, <2>2, <2>3, <2>4 DEF Effect, Removes, Copying
<1>13. QED
  BY <1>5, <1>6, <1>7, <1>8, <1>9, <1>10, <1>11, <1>12 DEF Work

LEMMA WorkDelete ==
    ASSUME TypeInv, DeleteInv, NEW id \in Ids, Work(id)
    PROVE  DeleteInv'
<1>1. /\ id \in DOMAIN jobs /\ jobs[id].state \notin Terminal
      /\ DOMAIN jobs' = DOMAIN jobs /\ \A j \in DOMAIN jobs : j # id => jobs'[j] = jobs[j]
      /\ jobs'[id].op = jobs[id].op /\ jobs'[id].keys = jobs[id].keys
      /\ jobs'[id].after = jobs[id].after
  BY WorkFacts DEF Worked, Becomes
<1>2. Effect(id)
  BY WorkEffect
<1>3. \A j \in DOMAIN jobs : jobs[j].after \subseteq DOMAIN jobs /\ id \notin jobs[j].after
  BY <1>1 DEF TypeInv, JobsTyped, DeleteInv, AfterEnded
<1>4. ASSUME NEW d \in DOMAIN jobs, NEW k, Excused(d, k)
      PROVE  Excused(d, k)'
  BY <1>1, <1>4, ExcusedStays
<1>5. AfterEnded'
  BY <1>1, <1>3 DEF DeleteInv, AfterEnded
<1>6. ASSUME NEW d \in DOMAIN jobs, Removes(d), NEW k \in stored' \cap Removed(d)'
      PROVE  Excused(d, k)'
  <2>1. CASE k \in stored /\ k \in Removed(d)
    BY <1>4, <1>6, <2>1 DEF DeleteInv, RemovedExcused
  <2>2. CASE ~(k \in stored /\ k \in Removed(d))
    <3>1. d # id
      BY <1>2, <1>6, <2>2 DEF Effect
    <3>2. k \in Removed(d)
      BY <1>1, <1>6, <3>1, SameRemoved
    <3>3. /\ k = Current(id) /\ k \in Range(jobs[id].keys)
          /\ jobs[id].op = "store" \/ (jobs[id].op \in Copying /\ jobs[id].held)
      BY <1>2, <1>6, <2>2, <3>2 DEF Effect
    <3>4. CASE jobs[id].op = "store" \/ d \notin jobs[id].after
      <4>1. Excused(d, k)
        BY <1>1, <1>3, <3>3, <3>4 DEF Excused
      <4>2. QED
        BY <1>4, <4>1
    <3>5. CASE jobs[id].held /\ d \in jobs[id].after
      <4>1. Excused(d, k)
        BY <1>1, <1>6, <3>2, <3>3, <3>5 DEF DeleteInv, HeldExcused
      <4>2. QED
        BY <1>4, <4>1
    <3>6. QED
      BY <3>3, <3>4, <3>5
  <2>3. QED
    BY <2>1, <2>2
<1>7. ASSUME NEW j \in DOMAIN jobs, jobs'[j].held, NEW d \in jobs[j].after, Removes(d),
             Current(j)' \in Removed(d)'
      PROVE  Excused(d, Current(j))'
  <2>1. d \in DOMAIN jobs /\ d # id /\ jobs'[d] = jobs[d]
    BY <1>1, <1>3
  <2>2. PICK k : k = Current(j)
    OBVIOUS
  <2>3. Current(j)' = k /\ (jobs[j].held \/ k \in stored)
    <3>1. CASE j = id
      BY <1>2, <1>7, <2>2, <3>1 DEF Effect
    <3>2. CASE j # id
      BY <1>1, <1>7, <2>2, <3>2, SameRemoved
    <3>3. QED
      BY <3>1, <3>2
  <2>4. k \in Removed(d)
    BY <1>7, <2>1, <2>3, SameRemoved
  <2>5. Excused(d, k)
    BY <1>7, <2>1, <2>2, <2>3, <2>4 DEF DeleteInv, HeldExcused, RemovedExcused
  <2>6. Excused(d, k)'
    BY <1>4, <2>1, <2>5
  <2>7. QED
    BY <2>3, <2>6
<1>8. \A d \in DOMAIN jobs : Removes(d)' <=> Removes(d)
  BY <1>1 DEF Removes
<1>9. RemovedExcused'
  BY <1>1, <1>6, <1>8 DEF RemovedExcused
<1>10. HeldExcused'
  BY <1>1, <1>3, <1>7, <1>8 DEF HeldExcused
<1>11. QED
  BY <1>5, <1>9, <1>10 DEF DeleteInv

LEMMA DeleteStep ==
    ASSUME TypeInv, DeleteInv, [Next]_vars
    PROVE  DeleteInv'
\* Neither a client nor a loss changes a job or adds a block.
<1>1. ASSUME UNCHANGED jobs, stored' \subseteq stored PROVE DeleteInv'
  <2>1. \A d \in DOMAIN jobs : /\ (Removes(d)' <=> Removes(d)) /\ Removed(d)' = Removed(d)
                               /\ Current(d)' = Current(d)
    BY <1>1, SameRemoved
  <2>2. ASSUME NEW d \in DOMAIN jobs, NEW k, Excused(d, k) PROVE Excused(d, k)'
    BY <1>1, <2>2, ExcusedStays
  <2>3. AfterEnded'
    BY <1>1 DEF DeleteInv, AfterEnded
  <2>4. RemovedExcused'
    BY <1>1, <2>1, <2>2 DEF DeleteInv, RemovedExcused
  <2>5. ASSUME NEW j \in DOMAIN jobs, jobs[j].held, NEW d \in jobs[j].after, Removes(d),
               Current(j) \in Removed(d)
        PROVE  Excused(d, Current(j))'
    <3>1. d \in DOMAIN jobs
      BY DEF TypeInv, JobsTyped
    <3>2. PICK k : k = Current(j)
      OBVIOUS
    <3>3. Excused(d, k)
      BY <2>5, <3>1, <3>2 DEF DeleteInv, HeldExcused
    <3>4. Excused(d, k)' /\ Current(j)' = k
      BY <2>1, <2>2, <3>1, <3>2, <3>3
    <3>5. QED
      BY <3>4
  <2>6. \A j \in DOMAIN jobs : jobs[j].after \subseteq DOMAIN jobs
    BY DEF TypeInv, JobsTyped
  <2>7. HeldExcused'
    BY <1>1, <2>1, <2>5, <2>6 DEF HeldExcused
  <2>8. QED
    BY <2>3, <2>4, <2>7 DEF DeleteInv
<1>2. ASSUME NEW t \in Threads, NEW s \in Sessions, Submission(t, s) PROVE DeleteInv'
  <2>1. PICK kind \in Kinds, op \in Ops, prompt \in Prompts \cup {NoPrompt}, keys \in Seq(Keys),
             payload \in Seq(JobKeys) : Submitted(t, s, kind, op, prompt, keys, payload)
    BY <1>2, SubmitFacts
  <2>2. QED
    BY <2>1, AppendedDelete DEF Submitted
<1>3. ASSUME Runtime PROVE DeleteInv'
  BY <1>3, RuntimeFacts, AppendedDelete
<1>4. ASSUME NEW t \in Threads, Client(t) PROVE DeleteInv'
  <2>1. UNCHANGED <<jobs, stored>>
    BY <1>4 DEF Client, EndSession, QuerySnapshot, RegisterSession, RegisterRequest, QueryRecord,
                Publish, Mark, EndRequests
  <2>2. QED
    BY <1>1, <2>1
<1>5. ASSUME NEW k \in Keys, Lose(k) PROVE DeleteInv'
  BY <1>1, <1>5 DEF Lose
<1>6. ASSUME UNCHANGED vars PROVE DeleteInv'
  BY <1>1, <1>6 DEF vars
<1>7. QED
  BY <1>2, <1>3, <1>4, <1>5, <1>6, Steps, WorkDelete

\* A block that a completed delete or clear covered is there again only if a
\* store had not ended when it was submitted, or a call that copies overlapped it.
THEOREM DeletesFinal == Spec => []DeleteFinal
<1>1. Init => DeleteInv
  BY DEF Init, DeleteInv, AfterEnded, RemovedExcused, HeldExcused
<1>2. TypeInv /\ DeleteInv /\ [Next]_vars => DeleteInv'
  BY DeleteStep
<1>3. TypeInv /\ DeleteInv => DeleteFinal
  <2>1. SUFFICES ASSUME TypeInv, DeleteInv, NEW d \in DOMAIN jobs,
                        jobs[d].op \in {"invalidate", "clear"}, jobs[d].state = "completed",
                        NEW k \in stored, k \in Range(jobs[d].keys) \/ jobs[d].op = "clear"
                 PROVE  Excused(d, k)
    BY DEF DeleteFinal, Excused
  <2>2. /\ Sane(jobs[d]) /\ jobs[d].missed = 0 /\ k \in Keys
        /\ jobs[d].completed \in Seq(JobKeys) /\ jobs[d].keys \in Seq(JobKeys)
    <3>1. jobs[d] \in Jobs /\ Sane(jobs[d])
      BY <2>1 DEF TypeInv, JobsTyped
    <3>2. QED
      BY <2>1, <3>1 DEF Jobs, Sane, Copying, TypeInv
  <2>3. Len(jobs[d].completed) = Len(jobs[d].keys) /\ Len(jobs[d].keys) \in Nat
    BY <2>1, <2>2 DEF Sane
  <2>4. k \in Removed(d)
    <3>1. CASE jobs[d].op = "clear"
      <4>1. Len(jobs[d].keys) = 1
        BY <2>2, <3>1 DEF Sane
      <4>2. QED
        BY <2>2, <2>3, <3>1, <4>1 DEF Removed
    <3>2. CASE jobs[d].op # "clear"
      <4>1. PICK i \in DOMAIN jobs[d].keys : jobs[d].keys[i] = k
        BY <2>1, <3>2 DEF Range
      <4>2. i \in 1..Len(jobs[d].completed)
        BY <2>2, <2>3
      <4>3. QED
        BY <2>2, <4>1, <4>2 DEF Removed
    <3>3. QED
      BY <3>1, <3>2
  <2>5. QED
    BY <2>1, <2>4 DEF DeleteInv, RemovedExcused, Removes
<1>4. QED
  BY <1>1, <1>2, <1>3, TypesKept, PTL DEF Spec

=============================================================================
