------------------------------- MODULE ReusePlan -------------------------------
(***************************************************************************)
(* SegmentIndex, quality-aware planning and the application of a plan:     *)
(* which spans of a query can be served by cached blocks of other          *)
(* prompts, which tokens at their edges are computed anew, and how the     *)
(* blocks get into the runtime while the engine may lose them.             *)
(***************************************************************************)
EXTENDS Integers, Sequences, FiniteSets

LOCAL SeqOps == INSTANCE SequencesExt

CONSTANTS
    Models,
    Sources,       \* registered prompts: sequences of tokens
    Queries,       \* sequences of tokens
    BlockTokens,   \* tokens of a block
    MinMatch,      \* min_match_tokens
    Halo,          \* boundary_recompute_tokens
    MaxSegments,   \* max_segments
    MinCoverage,   \* min_coverage_per_mille
    MaxRecords     \* bound: records in the index

PolicyAssumption ==
    MinMatch \in Nat \ {0} /\ MaxSegments \in 1..1024 /\ Halo \in Nat /\ MinCoverage \in 0..1000

VARIABLES
    records,   \* SegmentIndex::records
    lost,      \* the blocks of the plan the engine has lost
    call,      \* the call that plans and applies
    runtime    \* position of the query -> what the runtime holds there

vars == <<records, lost, call, runtime>>

None == "none"
Empty == [computed |-> FALSE]      \* nothing is restored at a position
Computed == [computed |-> TRUE]

-----------------------------------------------------------------------------
(* Blocks and segments.  Positions count from zero, as in the code.        *)

Lesser(a, b) == IF a <= b THEN a ELSE b

\* A block's key names its model, its place and, by its hash, every token up to its end;
\* the last block may be short.
BlockKeys(model, tokens) ==
    [b \in 1..((Len(tokens) + BlockTokens - 1) \div BlockTokens) |->
        LET start == (b - 1) * BlockTokens
            end == Lesser(start + BlockTokens, Len(tokens))
        IN [model |-> model, prefix |-> SubSeq(tokens, 1, end),
            token_start |-> start, token_count |-> end - start]]

\* The lengths of the common runs that end at each pair of positions.
RunLengths(query, source) ==
    LET run[i \in 0..Len(query), j \in 0..Len(source)] ==
            IF i = 0 \/ j = 0 THEN 0
            ELSE IF query[i] = source[j] THEN run[i - 1, j - 1] + 1 ELSE 0
    IN run

\* The longest of these runs, the first to end when several are as long.
LongestRun(run, ends) ==
    CHOOSE e \in ends : \A other \in ends :
        \/ run[e] > run[other]
        \/ run[e] = run[other] /\ (e[1] < other[1] \/ (e[1] = other[1] /\ e[2] <= other[2]))

RunTo(end, len) == [query_start |-> end[1] - len, source_start |-> end[2] - len, len |-> len]

MatchOf(run, end) == RunTo(end, run[end])

LongestMatch(run, ends) == MatchOf(run, LongestRun(run, ends))

\* The longest common run; length 0 for none.
LongestCommonSubstring(query, source) ==
    IF query = <<>> THEN [len |-> 0]
    ELSE LongestMatch(RunLengths(query, source), (1..Len(query)) \X (1..Len(source)))

NoSpan == [matched_tokens |-> 0]

KeyEnd(key) == key.token_start + key.token_count

\* The span that these consecutive blocks of the record make of the match.
SpanOf(record, raw, inside) ==
    LET first == CHOOSE i \in inside : \A j \in inside : i <= j
        last == CHOOSE i \in inside : \A j \in inside : j <= i
        start == record.keys[first].token_start
    IN IF inside = {} THEN NoSpan
       ELSE [query_start |-> raw.query_start + start - raw.source_start, source_start |-> start,
             matched_tokens |-> KeyEnd(record.keys[last]) - start,
             source_keys |-> SubSeq(record.keys, first, last)]

\* The whole blocks inside the match; validate_record has made them contiguous.
AlignToBlocks(record, raw) ==
    SpanOf(record, raw, {i \in DOMAIN record.keys :
                           /\ record.keys[i].token_start >= raw.source_start
                           /\ KeyEnd(record.keys[i]) <= raw.source_start + raw.len})

\* Longer is better, then earlier in the query.
Better(a, b) ==
    \/ a.matched_tokens > b.matched_tokens
    \/ a.matched_tokens = b.matched_tokens /\ a.query_start < b.query_start

AlignedSpan(record, raw) == IF raw.len < MinMatch THEN NoSpan ELSE AlignToBlocks(record, raw)

\* The best of the spans of these records, the first when none is better.
BestSpan(spanOf) ==
    LET usable == {i \in DOMAIN spanOf : spanOf[i].matched_tokens >= MinMatch}
    IN IF usable = {} THEN NoSpan
       ELSE spanOf[CHOOSE i \in usable : \A j \in usable :
                      \/ Better(spanOf[i], spanOf[j])
                      \/ ~Better(spanOf[j], spanOf[i]) /\ i <= j]

BestOf(candidates, query) ==
    BestSpan([i \in candidates |->
                AlignedSpan(records[i], LongestCommonSubstring(query, records[i].tokens))])

\* Mutant: records of every model are searched.
BestSegmentAnyModel(model, query) == BestOf(DOMAIN records, query)

BestSegment(model, query) == BestOf({i \in DOMAIN records : records[i].model = model}, query)

-----------------------------------------------------------------------------
(* plan_quality_reuse.                                                     *)

Shifted(span, start) == IF span = NoSpan THEN NoSpan ELSE [span EXCEPT !.query_start = @ + start]

\* The best span within an open range of the query.
SpanIn(model, query, range) ==
    IF range[2] - range[1] < MinMatch THEN NoSpan
    ELSE Shifted(BestSegment(model, SubSeq(query, range[1] + 1, range[2])), range[1])

\* What a span leaves open of its range.
Rest(range, span) ==
    {r \in {<<range[1], span.query_start>>, <<span.query_start + span.matched_tokens, range[2]>>} : r[1] < r[2]}

\* The best span of all open ranges is taken out of its range.
Taken(spans, spanIn) ==
    LET usable == {range \in DOMAIN spanIn : spanIn[range] # NoSpan}
        range == CHOOSE r \in usable : \A other \in usable \ {r} : Better(spanIn[r], spanIn[other])
    IN IF usable = {} THEN [spans |-> spans, ranges |-> DOMAIN spanIn]
       ELSE [spans |-> spans \cup {spanIn[range]},
             ranges |-> (DOMAIN spanIn \ {range}) \cup Rest(range, spanIn[range])]

InOrder(spans) == SeqOps!SetToSortSeq(spans, LAMBDA a, b : a.query_start < b.query_start)

\* The first and the last tokens of each span.
Boundary(spans, query_len) ==
    UNION {LET len == Lesser(Halo, spans[i].matched_tokens)
               end == Lesser(spans[i].query_start + spans[i].matched_tokens, query_len)
           IN {[start |-> spans[i].query_start, len |-> len], [start |-> end - len, len |-> len]} :
           i \in DOMAIN spans}

End(range) == range.start + range.len

\* Ranges that touch or overlap become one.
MergeRanges(ranges) ==
    LET sorted == SeqOps!SetToSortSeq({r \in ranges : r.len > 0},
                  LAMBDA a, b : a.start < b.start \/ (a.start = b.start /\ a.len < b.len))
        add(merged, range) ==
            IF merged # <<>> /\ range.start <= End(merged[Len(merged)])
            THEN [merged EXCEPT ![Len(merged)].len =
                    (IF End(range) > End(merged[Len(merged)]) THEN End(range) ELSE End(merged[Len(merged)]))
                    - merged[Len(merged)].start]
            ELSE Append(merged, range)
    IN SeqOps!FoldLeft(add, <<>>, sorted)

Reused(spans) == SeqOps!FoldLeft(LAMBDA total, span : total + span.matched_tokens, 0, spans)

NoPlan == [spans |-> <<>>, recompute |-> <<>>]

\* The plan of these spans, unless they cover too little.
PlanOf(query, spans) ==
    IF (Reused(spans) * 1000) \div Len(query) < MinCoverage THEN NoPlan
    ELSE [spans |-> spans, recompute |-> MergeRanges(Boundary(spans, Len(query)))]

-----------------------------------------------------------------------------
(* The index and the call.                                                 *)

\* search is a plan in the making: the spans taken, the ranges of the round to look up
\* and what the others gave.
Searching(spans, ranges) == [spans |-> spans, todo |-> ranges, found |-> [range \in {} |-> NoSpan]]

Idle == [pc |-> "idle", model |-> None, query |-> <<>>, plan |-> NoPlan, at |-> 1, search |-> Searching({}, {})]

Init ==
    /\ records = <<>> /\ lost = {}
    /\ call = Idle /\ runtime = <<>>

Others(model, tokens) == SelectSeq(records, LAMBDA r : r.model # model \/ r.tokens # tokens)

Enters(model, tokens, others) ==
    LET keys == BlockKeys(model, tokens)
    IN /\ call.pc \in {"idle", "plan"} /\ Len(others) < MaxRecords
       /\ records' = Append(others, [model |-> model, tokens |-> tokens, keys |-> keys])
       /\ UNCHANGED <<lost, call, runtime>>

\* A record with the same model and tokens is replaced and goes to the end.  Its blocks
\* have been captured into the engine.
Register(model, tokens) == Enters(model, tokens, Others(model, tokens))

RemoveModel(model) ==
    /\ records # <<>>
    /\ records' = SelectSeq(records, LAMBDA r : r.model # model)
    /\ UNCHANGED <<lost, call, runtime>>

\* plan_quality_reuse: the whole query is open in the first round.
PlanQualityReuse(model, query) ==
    /\ call.pc = "idle" /\ query # <<>>
    /\ call' = [Idle EXCEPT !.pc = "plan", !.model = model, !.query = query,
                            !.search = Searching({}, {<<0, Len(query)>>})]
    /\ runtime' = [i \in DOMAIN query |-> Empty]
    /\ UNCHANGED <<records, lost>>

\* best_segment locks the index for one range; the index may change before the next.
LookUp ==
    /\ call.pc = "plan"
    /\ \E range \in call.search.todo :
         LET found == call.search.found
             span == SpanIn(call.model, call.query, range)
         IN call' = [call EXCEPT !.search.todo = @ \ {range},
                                 !.search.found = [r \in DOMAIN found \cup {range} |->
                                                     IF r = range THEN span ELSE found[r]]]
    /\ UNCHANGED <<records, lost, runtime>>

\* The round's best span is taken, and another round follows while one may still give
\* something; no span, or too few tokens, is no plan.
Take ==
    LET search == call.search
        taken == Taken(search.spans, search.found)
        plan == PlanOf(call.query, InOrder(taken.spans))
    IN /\ call.pc = "plan" /\ search.todo = {}
       /\ IF taken.spans # search.spans /\ taken.ranges # {} /\ Cardinality(taken.spans) < MaxSegments
          THEN call' = [call EXCEPT !.search = Searching(taken.spans, taken.ranges)] /\ UNCHANGED runtime
          ELSE IF taken.spans = {} \/ plan.spans = <<>> THEN call' = Idle /\ runtime' = <<>>
          ELSE /\ call' = [call EXCEPT !.pc = "planned", !.plan = plan, !.search = Searching({}, {})]
               /\ UNCHANGED runtime
       /\ UNCHANGED <<records, lost>>

\* apply_quality_reuse refuses a query of another length than the plan's.
ApplyQualityReuse ==
    /\ call.pc = "planned"
    /\ \/ call' = [call EXCEPT !.pc = "load"]
       \/ \E other \in Queries : Len(other) # Len(call.query) /\ call' = [call EXCEPT !.pc = "failed"]
    /\ UNCHANGED <<records, lost, runtime>>

\* best_segment and restore_reuse: one span, and no token is computed anew.
RestoreReuse(model, query) ==
    LET span == BestSegment(model, query)
    IN /\ call.pc = "idle" /\ span # NoSpan
       /\ call' = [Idle EXCEPT !.pc = "load", !.model = model, !.query = query, !.plan.spans = <<span>>]
       /\ runtime' = [i \in DOMAIN query |-> Empty]
       /\ UNCHANGED <<records, lost>>

\* The blocks of the plan, span after span.
PlannedKeys == SeqOps!FlattenSeq([i \in DOMAIN call.plan.spans |-> call.plan.spans[i].source_keys])

NextOf(n, pc) ==
    call' = IF call.at < n THEN [call EXCEPT !.at = @ + 1] ELSE [call EXCEPT !.pc = pc, !.at = 1]

\* restore_relocated puts the tokens of the blocks where the span lies in the query.
Relocated(span, keys) ==
    [i \in DOMAIN runtime |->
        LET source == span.source_start + (i - 1) - span.query_start
            here == {k \in keys : source >= k.token_start /\ source < KeyEnd(k)}
        IN IF here = {} THEN runtime[i]
           ELSE LET key == CHOOSE k \in here : TRUE
                IN [model |-> key.model, token |-> key.prefix[source + 1]]]

\* The engine loses a block of the plan; one it lost before the call is one it loses
\* at its start.
Evict(key) ==
    /\ call.pc = "load"
    /\ lost' = lost \cup {key}
    /\ UNCHANGED <<records, call, runtime>>

KeysOf(span) == {span.source_keys[i] : i \in DOMAIN span.source_keys}

\* Every block is loaded before the runtime is touched; a miss ends the call.
Load ==
    /\ call.pc = "load"
    /\ IF PlannedKeys[call.at] \notin lost THEN NextOf(Len(PlannedKeys), "restore")
       ELSE call' = [call EXCEPT !.pc = "missed"]
    /\ UNCHANGED <<records, lost, runtime>>

\* The spans one after the other.
Restore ==
    LET span == call.plan.spans[call.at]
    IN /\ call.pc = "restore"
       /\ runtime' = Relocated(span, KeysOf(span))
       /\ NextOf(Len(call.plan.spans), "recompute")
       /\ UNCHANGED <<records, lost>>

\* The engine or the adapter reports an error.
Fails ==
    /\ call.pc \in {"load", "restore"} \/ (call.pc = "recompute" /\ call.plan.recompute # <<>>)
    /\ call' = [call EXCEPT !.pc = "failed"]
    /\ UNCHANGED <<records, lost, runtime>>

RecomputedPositions(plan) ==
    {p \in 0..(Len(call.query) - 1) : \E i \in DOMAIN plan.recompute :
        plan.recompute[i].start <= p /\ p < End(plan.recompute[i])}

Recompute ==
    /\ call.pc = "recompute"
    /\ runtime' = [i \in DOMAIN runtime |->
                     IF i - 1 \in RecomputedPositions(call.plan) THEN Computed ELSE runtime[i]]
    /\ call' = [call EXCEPT !.pc = "restored"]
    /\ UNCHANGED <<records, lost>>

Return ==
    /\ call.pc \in {"missed", "failed", "restored"}
    /\ call' = Idle /\ runtime' = <<>> /\ lost' = {}
    /\ UNCHANGED records

-----------------------------------------------------------------------------
Next ==
    \/ \E model \in Models : RemoveModel(model) \/ \E tokens \in Sources : Register(model, tokens)
    \/ \E i \in DOMAIN PlannedKeys : Evict(PlannedKeys[i])
    \/ \E model \in Models, query \in Queries : PlanQualityReuse(model, query) \/ RestoreReuse(model, query)
    \/ LookUp \/ Take \/ ApplyQualityReuse \/ Load \/ Restore \/ Fails \/ Recompute \/ Return

Spec == Init /\ [][Next]_vars

-----------------------------------------------------------------------------
Positions(span) == span.query_start..(span.query_start + span.matched_tokens - 1)

\* The index holds a prompt of a model once, and a call is at a span or a block of its plan.
TypeOK ==
    /\ \A i, j \in DOMAIN records :
         (records[i].model = records[j].model /\ records[i].tokens = records[j].tokens) => i = j
    /\ Len(records) <= MaxRecords
    /\ call.at \in 1..(IF call.pc = "load" THEN Len(PlannedKeys) ELSE Len(call.plan.spans) + 1)

\* The spans of a plan lie in the query, in order and apart, each at least as long as
\* min_match_tokens, and there are no more of them than max_segments.
SpansTrue ==
    LET spans == call.plan.spans
    IN call.pc \notin {"idle", "plan"} =>
       /\ Len(spans) \in 1..MaxSegments
       /\ \A i \in DOMAIN spans :
            /\ Positions(spans[i]) \subseteq 0..(Len(call.query) - 1)
            /\ spans[i].matched_tokens >= MinMatch
       /\ \A i, j \in DOMAIN spans : i < j =>
            spans[i].query_start + spans[i].matched_tokens <= spans[j].query_start

\* When a call has succeeded the runtime holds, at every position of a span, the state
\* of the query's own token under the query's model, or state that was computed anew,
\* and nothing outside the spans: relocating blocks of other prompts, some of them
\* registered for another model, never puts a token where the query has another.
RuntimeTrue ==
    call.pc = "restored" =>
        \A i \in DOMAIN runtime :
            IF \E n \in DOMAIN call.plan.spans : i - 1 \in Positions(call.plan.spans[n])
            THEN runtime[i] \in {Computed, [model |-> call.model, token |-> call.query[i]]}
            ELSE runtime[i] = Empty

\* The tokens that are computed anew are those within Halo of an edge of a span, each
\* once: no two ranges overlap or touch.
RecomputeExact ==
    call.plan.recompute # <<>> =>
        LET spans == call.plan.spans
            ranges == call.plan.recompute
        IN /\ RecomputedPositions(call.plan) =
                {p \in 0..(Len(call.query) - 1) : \E i \in DOMAIN spans :
                    /\ p \in Positions(spans[i])
                    /\ \/ p < spans[i].query_start + Halo
                       \/ p >= spans[i].query_start + spans[i].matched_tokens - Halo}
           /\ \A i, j \in DOMAIN ranges : i < j => End(ranges[i]) < ranges[j].start

\* "A miss therefore leaves the runtime untouched rather than partially restoring a
\* multi-segment plan."
MissUntouched == call.pc = "missed" => \A i \in DOMAIN runtime : runtime[i] = Empty

\* A plan is well formed, and applying it leaves the runtime right or untouched.
Safety == TypeOK /\ SpansTrue /\ RecomputeExact /\ MissUntouched /\ RuntimeTrue

=============================================================================
