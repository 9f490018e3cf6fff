--------------------------- MODULE MpCacheService ---------------------------
(***************************************************************************)
(* MpCacheService: clients of several sessions submit lookups, stores,     *)
(* retrieves, pins, deletes and clears.  Each becomes a job of the         *)
(* pipeline; two registries under two locks say which session owns which   *)
(* request; the prefix of a completed store is published when somebody     *)
(* asks for the store's status.                                            *)
(*                                                                         *)
(* The pipeline is the bounded pool that WorkQueue promises, with execute  *)
(* run key by key.  The engine is the set of keys some tier holds; a call  *)
(* that copies an entry between tiers reads it in one step and may write   *)
(* it in a later one, as in KvEngine.                                      *)
(***************************************************************************)
EXTENDS Integers, Sequences, SequencesExt, FiniteSets

CONSTANTS
    Threads,      \* threads that call the service
    Sessions,     \* session ids
    Prompts,      \* [model, tokens] of the requests
    BlockTokens,  \* MpCacheConfig::block_tokens
    PoolSize,     \* worker threads of the pipeline
    Kinds,        \* bound: the kinds of request submitted; "runtime" stands for
                  \* the jobs of RuntimeCacheController
    Volatile,     \* bound: the block keys that tiers evict or that expire
    MaxJobs,      \* bound: requests submitted
    MaxFailures   \* bound: jobs an engine error ends

ASSUME ServiceAssumption ==
    /\ BlockTokens \in Nat \ {0} /\ PoolSize \in Nat \ {0}
    /\ MaxJobs \in Nat /\ MaxFailures \in Nat
    /\ \A p \in Prompts : p = [model |-> p.model, tokens |-> p.tokens]
    /\ \A p \in Prompts : p.tokens \in Seq(Nat) \ {<<>>}
    /\ Kinds \subseteq {"lookup", "store", "retrieve", "pin", "delete", "clear", "health",
                        "runtime"}

VARIABLES
    sessions,  \* MpCacheService::sessions, {} where the map has no entry
    requests,  \* MpCacheService::requests
    index,     \* PrefixIndex::records
    jobs,      \* the pipeline's registry; the id of a job is its position
    stored,    \* the keys the engine holds
    thread,    \* thread[t]: where t is in a call
    raced      \* history: ids an end_session took in the middle of register

vars == <<sessions, requests, index, jobs, stored, thread, raced>>

Ids == 1..MaxJobs
NoPrompt == [model |-> "", tokens |-> <<>>]
NoKey == [model |-> "", prefix |-> <<>>, start |-> 0]

Least(a, b) == IF a < b THEN a ELSE b

\* KvCaptureRequest::block_keys.  A key carries a hash of all tokens up to the
\* end of its block; the hash is taken to be free of collisions.
BlockKeys(p) ==
    [i \in 1..((Len(p.tokens) + BlockTokens - 1) \div BlockTokens) |->
        [model |-> p.model,
         prefix |-> SubSeq(p.tokens, 1, Least(i * BlockTokens, Len(p.tokens))),
         start |-> (i - 1) * BlockTokens]]

Keys == UNION {Range(BlockKeys(p)) : p \in Prompts}

Terminal == {"completed", "failed"}
Idle == [pc |-> "idle"]

Init ==
    /\ sessions = [s \in Sessions |-> {}]
    /\ requests = [id \in {} |-> NoPrompt]
    /\ index = {}
    /\ jobs = <<>>
    /\ stored = {}
    /\ thread = [t \in Threads |-> Idle]
    /\ raced = {}

-----------------------------------------------------------------------------
(* Submission.                                                             *)

\* AsyncKvPipeline::submit.  A submission the full channel refuses changes
\* nothing.  after is history: the jobs already ended.
Enqueue(op, payload) ==
    /\ Len(jobs) < MaxJobs
    /\ jobs' = Append(jobs,
         [op |-> op, keys |-> payload, state |-> "pending", held |-> FALSE,
          completed |-> <<>>, missed |-> 0,
          after |-> {j \in DOMAIN jobs : jobs[j].state \in Terminal}])

\* A job, then the call to register.
Submit(t, s, kind, op, prompt, keys, payload) ==
    /\ kind \in Kinds
    /\ thread[t] = Idle /\ Enqueue(op, payload)
    /\ thread' = [thread EXCEPT ![t] =
         [pc |-> "session", id |-> Len(jobs) + 1,
          rec |-> [session |-> s, kind |-> kind, prompt |-> prompt,
                   keys |-> keys, indexed |-> kind # "store"]]]
    /\ UNCHANGED <<sessions, requests, index, stored, raced>>

\* Mutant: records of every model match.
MatchesAnyModel(p) == {r \in index : IsPrefix(r.prompt.tokens, p.tokens)}

\* The records PrefixIndex::longest_prefix chooses from.
Matches(p) ==
    {r \in index : r.prompt.model = p.model /\ IsPrefix(r.prompt.tokens, p.tokens)}

LongestPrefix(p) ==
    CHOOSE r \in Matches(p) :
        \A q \in Matches(p) : Len(q.prompt.tokens) <= Len(r.prompt.tokens)

LookupKeys(p) == IF Matches(p) = {} THEN BlockKeys(p) ELSE LongestPrefix(p).keys

SubmitLookup(t, s, p) ==
    Submit(t, s, "lookup", "prefetch", p, LookupKeys(p), LookupKeys(p))

\* The blocks given are those of the prompt: others are refused.
SubmitStore(t, s, p) == Submit(t, s, "store", "store", p, BlockKeys(p), BlockKeys(p))

SubmitRetrieve(t, s, p) ==
    Submit(t, s, "retrieve", "retrieve", p, BlockKeys(p), BlockKeys(p))

\* Any session may retrieve what any session's lookup found.
SubmitRetrieveLookup(t, s, id) ==
    /\ id \in DOMAIN requests /\ requests[id].kind = "lookup"
    /\ Submit(t, s, "retrieve", "retrieve", requests[id].prompt,
              requests[id].keys, requests[id].keys)

\* Pins and unpins alike.
SubmitPin(t, s, p) == Submit(t, s, "pin", "pin", p, BlockKeys(p), BlockKeys(p))

SubmitDelete(t, s, p) ==
    Submit(t, s, "delete", "invalidate", p, BlockKeys(p), BlockKeys(p))

SubmitClear(t, s) == Submit(t, s, "clear", "clear", NoPrompt, <<>>, <<NoKey>>)

SubmitHealth(t, s) == Submit(t, s, "health", "health", NoPrompt, <<>>, <<NoKey>>)

\* register: the session's set first, then the request itself.
RegisterSession(t) ==
    /\ thread[t].pc = "session"
    /\ sessions' = [sessions EXCEPT ![thread[t].rec.session] = @ \cup {thread[t].id}]
    /\ thread' = [thread EXCEPT ![t].pc = "request"]
    /\ UNCHANGED <<requests, index, jobs, stored, raced>>

RegisterRequest(t) ==
    /\ thread[t].pc = "request"
    /\ requests' = [id \in DOMAIN requests \cup {thread[t].id} |->
                      IF id = thread[t].id THEN thread[t].rec ELSE requests[id]]
    /\ thread' = [thread EXCEPT ![t] = Idle]
    /\ UNCHANGED <<sessions, index, jobs, stored, raced>>

-----------------------------------------------------------------------------
(* RuntimeCacheController: jobs of the same pipeline, with no session and  *)
(* no request.  Its lookup is SubmitLookup and then wait.                  *)

RuntimeJob(op, payload) ==
    /\ "runtime" \in Kinds /\ Enqueue(op, payload)
    /\ UNCHANGED <<sessions, requests, index, stored, thread, raced>>

\* submit_move, submit_compress and submit_decompress.
RuntimeMove(p) == RuntimeJob("move", BlockKeys(p))
RuntimePin(p) == RuntimeJob("pin", BlockKeys(p))
RuntimeDelete(p) == RuntimeJob("invalidate", BlockKeys(p))
RuntimeClear == RuntimeJob("clear", <<NoKey>>)
RuntimeHealth == RuntimeJob("health", <<NoKey>>)

-----------------------------------------------------------------------------
(* query and wait.  wait differs in taking only a snapshot of a job that   *)
(* has ended.                                                              *)

QuerySnapshot(t, id) ==
    /\ thread[t] = Idle /\ id \in DOMAIN jobs
    /\ thread' = [thread EXCEPT ![t] = [pc |-> "record", id |-> id, state |-> jobs[id].state]]
    /\ UNCHANGED <<sessions, requests, index, jobs, stored, raced>>

\* Mutant: the state of the snapshot is not looked at.
PublishesAlways(rec, state) == rec.kind = "store" /\ ~rec.indexed

\* The early return of finalize_prefix.
Publishes(rec, state) == rec.kind = "store" /\ ~rec.indexed /\ state = "completed"

QueryRecord(t) ==
    /\ thread[t].pc = "record"
    /\ LET id == thread[t].id
           known == id \in DOMAIN requests
       IN thread' = [thread EXCEPT ![t] =
            IF known /\ Publishes(requests[id], thread[t].state)
            THEN [pc |-> "publish", id |-> id, rec |-> requests[id]] ELSE Idle]
    /\ UNCHANGED <<sessions, requests, index, jobs, stored, raced>>

\* PrefixIndex::register keeps the records of other tokens or another model.
Retained(p) == {r \in index : r.prompt.model # p.model \/ r.prompt.tokens # p.tokens}

Publish(t) ==
    /\ thread[t].pc = "publish"
    /\ LET rec == thread[t].rec IN
         index' = Retained(rec.prompt) \cup {[prompt |-> rec.prompt, keys |-> rec.keys]}
    /\ thread' = [thread EXCEPT ![t].pc = "mark"]
    /\ UNCHANGED <<sessions, requests, jobs, stored, raced>>

\* The record may be gone by now: end_session does not wait for queries.
Mark(t) ==
    /\ thread[t].pc = "mark"
    /\ requests' = [id \in DOMAIN requests |->
         IF id = thread[t].id THEN [requests[id] EXCEPT !.indexed = TRUE] ELSE requests[id]]
    /\ thread' = [thread EXCEPT ![t] = Idle]
    /\ UNCHANGED <<sessions, index, jobs, stored, raced>>

-----------------------------------------------------------------------------
(* end_session.                                                            *)

EndSession(t, s) ==
    /\ thread[t] = Idle /\ sessions[s] # {}
    /\ sessions' = [sessions EXCEPT ![s] = {}]
    /\ thread' = [thread EXCEPT ![t] = [pc |-> "remove", ids |-> sessions[s]]]
    /\ raced' = raced \cup
         {thread[u].id : u \in {v \in Threads : thread[v].pc = "request"
                                                  /\ thread[v].id \in sessions[s]}}
    /\ UNCHANGED <<requests, index, jobs, stored>>

\* Mutant: only the oldest request of the session goes.
EndRequestsFirst(t) ==
    /\ thread[t].pc = "remove"
    /\ requests' = [id \in DOMAIN requests \
         {i \in thread[t].ids : \A j \in thread[t].ids : i <= j} |-> requests[id]]
    /\ thread' = [thread EXCEPT ![t] = Idle]
    /\ UNCHANGED <<sessions, index, jobs, stored, raced>>

EndRequests(t) ==
    /\ thread[t].pc = "remove"
    /\ requests' = [id \in DOMAIN requests \ thread[t].ids |-> requests[id]]
    /\ thread' = [thread EXCEPT ![t] = Idle]
    /\ UNCHANGED <<sessions, index, jobs, stored, raced>>

-----------------------------------------------------------------------------
(* The pipeline's workers: worker_loop and execute.                        *)

Running == {id \in DOMAIN jobs : jobs[id].state = "running"}
Current(id) == jobs[id].keys[Len(jobs[id].completed) + jobs[id].missed + 1]
AllDone(id) == Len(jobs[id].completed) + jobs[id].missed = Len(jobs[id].keys)

Start(id) ==
    /\ id \in DOMAIN jobs /\ jobs[id].state = "pending"
    /\ Cardinality(Running) < PoolSize
    /\ jobs' = [jobs EXCEPT ![id].state = "running"]
    /\ UNCHANGED <<sessions, requests, index, stored, thread, raced>>

\* The engine has answered for the current key.
Hit(id) == [jobs EXCEPT ![id].completed = Append(@, Current(id)), ![id].held = FALSE]
Miss(id) == [jobs EXCEPT ![id].missed = @ + 1]

Doing(id, ops) == id \in Running /\ jobs[id].op \in ops /\ ~AllDone(id)

Store(id) ==
    /\ Doing(id, {"store"})
    /\ stored' = stored \cup {Current(id)}
    /\ jobs' = Hit(id)
    /\ UNCHANGED <<sessions, requests, index, thread, raced>>

Copying == {"retrieve", "prefetch", "pin", "move"}

\* KvEngine::get, prefetch_to, set_pinned and move_block: the entry is looked
\* up, by a move in its source tier only ...
Read(id) ==
    /\ Doing(id, Copying) /\ ~jobs[id].held
    /\ \/ /\ Current(id) \in stored
          /\ jobs' = [jobs EXCEPT ![id].held = TRUE]
       \/ /\ Current(id) \notin stored \/ jobs[id].op = "move"
          /\ jobs' = Miss(id)
    /\ UNCHANGED <<sessions, requests, index, stored, thread, raced>>

\* ... and may be written to a tier again.  Two moves that remove each other's
\* copy lose the block, as Lose does.
WriteBack(id) ==
    /\ Doing(id, Copying) /\ jobs[id].held
    /\ stored' \in {stored, stored \cup {Current(id)}}
    /\ jobs' = Hit(id)
    /\ UNCHANGED <<sessions, requests, index, thread, raced>>

\* Mutant: the last key of a delete is left alone.
InvalidateButLast(id) ==
    /\ Doing(id, {"invalidate"})
    /\ stored' = IF Len(jobs[id].completed) + 1 = Len(jobs[id].keys)
                 THEN stored ELSE stored \ {Current(id)}
    /\ jobs' = Hit(id)
    /\ UNCHANGED <<sessions, requests, index, thread, raced>>

Invalidate(id) ==
    /\ Doing(id, {"invalidate"})
    /\ stored' = stored \ {Current(id)}
    /\ jobs' = Hit(id)
    /\ UNCHANGED <<sessions, requests, index, thread, raced>>

Clear(id) ==
    /\ Doing(id, {"clear"})
    /\ stored' = {}
    /\ jobs' = Hit(id)
    /\ UNCHANGED <<sessions, requests, index, thread, raced>>

\* Every tier is healthy, or not.
Health(id) ==
    /\ Doing(id, {"health"})
    /\ jobs' \in {Hit(id), Miss(id)}
    /\ UNCHANGED <<sessions, requests, index, stored, thread, raced>>

Complete(id) ==
    /\ id \in Running /\ AllDone(id)
    /\ jobs' = [jobs EXCEPT ![id].state = "completed"]
    /\ UNCHANGED <<sessions, requests, index, stored, thread, raced>>

\* An engine call fails, perhaps after it has written the entry it held.
Fail(id) ==
    /\ id \in Running /\ ~AllDone(id) /\ jobs[id].op # "health"
    /\ Cardinality({j \in DOMAIN jobs : jobs[j].state = "failed"}) < MaxFailures
    /\ stored' \in {stored} \cup (IF jobs[id].held THEN {stored \cup {Current(id)}} ELSE {})
    /\ jobs' = [jobs EXCEPT ![id].state = "failed", ![id].held = FALSE]
    /\ UNCHANGED <<sessions, requests, index, thread, raced>>

\* A tier evicts a block, or the block expires.
Lose(k) ==
    /\ k \in stored \cap Volatile
    /\ stored' = stored \ {k}
    /\ UNCHANGED <<sessions, requests, index, jobs, thread, raced>>

-----------------------------------------------------------------------------
Call(t) ==
    \/ \E s \in Sessions :
         \/ \E p \in Prompts :
              \/ SubmitLookup(t, s, p) \/ SubmitStore(t, s, p) \/ SubmitRetrieve(t, s, p)
              \/ SubmitPin(t, s, p) \/ SubmitDelete(t, s, p)
         \/ \E id \in Ids : SubmitRetrieveLookup(t, s, id)
         \/ SubmitClear(t, s) \/ SubmitHealth(t, s) \/ EndSession(t, s)
    \/ \E id \in Ids : QuerySnapshot(t, id)
    \/ RegisterSession(t) \/ RegisterRequest(t)
    \/ QueryRecord(t) \/ Publish(t) \/ Mark(t) \/ EndRequests(t)

Work(id) ==
    \/ Start(id) \/ Store(id) \/ Read(id) \/ WriteBack(id) \/ Invalidate(id)
    \/ Clear(id) \/ Health(id) \/ Complete(id) \/ Fail(id)

Next ==
    \/ \E t \in Threads : Call(t)
    \/ \E id \in Ids : Work(id)
    \/ \E p \in Prompts : RuntimeMove(p) \/ RuntimePin(p) \/ RuntimeDelete(p)
    \/ RuntimeClear \/ RuntimeHealth
    \/ \E k \in Keys : Lose(k)

Spec == Init /\ [][Next]_vars

-----------------------------------------------------------------------------
(* Properties.                                                             *)

Ops == {"store", "retrieve", "prefetch", "pin", "move", "invalidate", "clear", "health"}

\* Every variable has the shape of the Rust state it stands for.
TypeOK ==
    /\ sessions \in [Sessions -> SUBSET Ids]
    /\ DOMAIN requests \subseteq Ids
    /\ \A id \in DOMAIN requests :
         requests[id].session \in Sessions /\ requests[id].kind \in Kinds
    /\ \A r \in index : r.prompt \in Prompts
    /\ \A id \in DOMAIN jobs :
         /\ jobs[id].op \in Ops
         /\ jobs[id].state \in {"pending", "running"} \cup Terminal
         /\ Len(jobs[id].completed) + jobs[id].missed <= Len(jobs[id].keys)
    /\ stored \subseteq Keys
    /\ raced \subseteq Ids

\* "Prefix records are only published after the asynchronous store completes":
\* behind every record is a store of exactly its keys that completed, every key
\* written, whatever queries, deletes and session ends ran meanwhile.
PublishedAfterStore ==
    \A r \in index : \E id \in DOMAIN jobs :
        /\ jobs[id].op = "store" /\ jobs[id].state = "completed"
        /\ jobs[id].completed = r.keys /\ r.keys = BlockKeys(r.prompt)

\* What a request fetches, a retrieve of a lookup's result included, are blocks
\* of its own model that hold a prefix of its own tokens, in order, without gap.
FetchesOwnPrefix ==
    \A id \in DOMAIN requests : requests[id].kind \in {"lookup", "retrieve"} =>
        LET p == requests[id].prompt
            ks == jobs[id].keys
        IN \A i \in DOMAIN ks :
             /\ ks[i].model = p.model /\ IsPrefix(ks[i].prefix, p.tokens)
             /\ ks[i].start = IF i = 1 THEN 0 ELSE Len(ks[i - 1].prefix)

\* Both registries agree: a request nobody is registering or removing belongs to
\* its session, unless an end_session ran between the two halves of its register;
\* and a session lists no request that is not there.
RequestsOwned ==
    /\ \A id \in DOMAIN requests :
         \/ id \in sessions[requests[id].session] \cup raced
         \/ \E t \in Threads : thread[t].pc = "remove" /\ id \in thread[t].ids
    /\ \A s \in Sessions : \A id \in sessions[s] :
         \/ id \in DOMAIN requests /\ requests[id].session = s
         \/ \E t \in Threads : thread[t].pc = "request" /\ thread[t].id = id

\* A completed delete or clear is final: a block it covers is there again only
\* if a store had not ended when it was submitted, or some call that copies the
\* block overlapped it.
DeleteFinal ==
    \A d \in DOMAIN jobs :
        (jobs[d].op \in {"invalidate", "clear"} /\ jobs[d].state = "completed") =>
            \A k \in stored : (k \in Range(jobs[d].keys) \/ jobs[d].op = "clear") =>
                \E j \in DOMAIN jobs \ jobs[d].after :
                    /\ k \in Range(jobs[j].keys)
                    /\ jobs[j].op = "store" \/ (jobs[j].op \in Copying /\ d \notin jobs[j].after)

\* A store marked as indexed is in the index: no later store of the same model,
\* and no second query of the same store, takes its record away.
IndexedPublished ==
    \A id \in DOMAIN requests :
        (requests[id].kind = "store" /\ requests[id].indexed) =>
            \E r \in index : r.prompt = requests[id].prompt

\* Sessions and requests agree: no request outlives its session but for the ids that an
\* end_session took between the two locks of their register.
SessionsAgree == TypeOK /\ RequestsOwned

\* Every record of the index stands for a store that completed, and stays while the store
\* is marked as indexed.
IndexTrue == PublishedAfterStore /\ IndexedPublished

=============================================================================
