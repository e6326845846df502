---------------------------- MODULE SpanLifecycle ----------------------------
(***************************************************************************)
(* A transaction and its spans (transaction.go, span.go) with the          *)
(* compression of short exit spans into composites (span_compressed.go):   *)
(* what any number of goroutines may do by starting and ending spans,      *)
(* propagating their contexts, and ending or discarding the transaction.   *)
(*                                                                         *)
(* Span.End is two steps.  The first runs with only the span's own lock    *)
(* held and fixes its duration and outcome; the second runs with the       *)
(* locks of the span, its parent, the transaction and its data held, and   *)
(* so does the body of StartSpanOptions.  Handing an event to the tracer   *)
(* is where this module ends and TracerLoop!Enqueue begins.  Self-times    *)
(* (childrenTimer, spanTimings) are left out.                              *)
(***************************************************************************)
EXTENDS Integers, FiniteSets, FiniteSetsExt

CONSTANTS
    Shape,                \* Shape[s]: what the s-th span may be: [type, name, exit, ok]
    MaxSpans,             \* values of transaction_max_spans; negative: no limit
    CompressionEnabled,   \* span_compression_enabled
    ExactMatchMax,        \* span_compression_exact_match_max_duration
    SameKindMax,          \* span_compression_same_kind_max_duration
    ExitSpanMin,          \* exit_span_min_duration
    MaxDroppedSpanStats,  \* maxDroppedSpanStats
    LateChildren,         \* whether children are started under spans that have
                          \* ended and were cached, compressed or dropped
    NumSpans,             \* bound: spans started
    MaxTime,              \* bound: the clock
    Tx,                   \* the transaction, as a parent and as a cache's owner
    None                  \* a nil pointer or a zero ID

Span == 1..NumSpans
Shapes == UNION {Shape[s] : s \in Span}
StatsKey == {x.type : x \in Shapes} \X BOOLEAN

ASSUME SpanLifecycleAssumption ==
    /\ MaxSpans \subseteq Int /\ CompressionEnabled \in BOOLEAN /\ LateChildren \in BOOLEAN
    /\ ExactMatchMax \in Nat /\ SameKindMax \in Nat /\ ExitSpanMin \in Nat
    /\ MaxDroppedSpanStats \in Nat /\ NumSpans \in Nat /\ MaxTime \in Nat
    /\ Tx \notin Nat /\ None \notin Nat /\ Tx # None
    /\ \A x \in Shapes : x.exit \in BOOLEAN /\ x.ok \in BOOLEAN

VARIABLES
    now,    \* the clock
    tx,     \* the Transaction: data (TransactionData # nil), recording, sampled,
            \* maxSpans, spansCreated, spansDropped, cache, and the stats of dropped spans
    span    \* the Spans: phase ("unused", "live", "ending" between the steps of
            \* End, "ended"), data (SpanData # nil), tracer (not dropped), the
            \* fields of Span and SpanData, and, as history, fate and into: what
            \* became of the span, and the span it was compressed into

vars == <<now, tx, span>>
world == [tx |-> tx, span |-> span]

Unused ==
    [phase |-> "unused", data |-> FALSE, tracer |-> FALSE, tx |-> FALSE,
     parent |-> None, parentID |-> None, id |-> None, type |-> None, name |-> None,
     exit |-> FALSE, enabled |-> FALSE, propagated |-> FALSE, timestamp |-> 0,
     duration |-> 0, ok |-> TRUE, strategy |-> "none", count |-> 0, sum |-> 0,
     last |-> 0, cache |-> None, fate |-> "none", into |-> None]

-----------------------------------------------------------------------------
(* Starting spans *)

\* Span.TraceContext: records that the context has been handed out.  It is a
\* call of its own and the first thing StartSpanOptions does with its parent.
TraceContext(s) ==
    /\ span[s].phase # "unused" /\ ~span[s].propagated
    /\ span' = [span EXCEPT ![s].propagated = TRUE]
    /\ UNCHANGED <<now, tx>>

NextSpan(s) == span[s].phase = "unused" /\ \A r \in 1..(s - 1) : span[r].phase # "unused"

\* A span as startSpan makes it, under the trace context with span ID id.
Started(shape, id) ==
    [Unused EXCEPT !.phase = "live", !.data = TRUE, !.tracer = TRUE,
                   !.parentID = id, !.id = id, !.type = shape.type,
                   !.name = shape.name, !.exit = shape.exit, !.ok = shape.ok,
                   !.timestamp = now]

\* Mutant: one span too many is let through.
ExceedsMaxSpansByOne == tx.maxSpans >= 0 /\ tx.spansCreated > tx.maxSpans

ExceedsMaxSpans == tx.maxSpans >= 0 /\ tx.spansCreated >= tx.maxSpans

\* StartSpanOptions on a transaction that has not ended; parent is nil when
\* the parent was given by its trace context only.
StartInTransaction(s, shape, parent, id) ==
    LET r == [Started(shape, id) EXCEPT !.tx = TRUE, !.parent = parent]
    IN  \/ /\ ~tx.sampled
           /\ span' = [span EXCEPT ![s] = [r EXCEPT !.tracer = FALSE]]
           /\ UNCHANGED tx
        \/ /\ tx.sampled /\ ExceedsMaxSpans
           /\ span' = [span EXCEPT ![s] = [r EXCEPT !.tracer = FALSE]]
           /\ tx' = [tx EXCEPT !.spansDropped = @ + 1]
        \/ /\ tx.sampled /\ ~ExceedsMaxSpans
           /\ span' = [span EXCEPT ![s] =
                  [r EXCEPT !.id = s, !.enabled = CompressionEnabled]]
           /\ tx' = [tx EXCEPT !.spansCreated = @ + 1]

\* Tracer.StartSpan, which StartSpanOptions falls back to once the transaction
\* has ended: the span belongs to no transaction and has no parent to cache it.
StartOutside(s, shape, parent, id) ==
    /\ span' = [span EXCEPT ![s] =
           IF \/ id = None \/ ~tx.sampled
              \/ parent # None /\ span[parent].exit
           THEN [Unused EXCEPT !.phase = "live", !.data = TRUE]
           ELSE [Started(shape, id) EXCEPT !.id = s, !.enabled = CompressionEnabled]]
    /\ UNCHANGED tx

StartSpanOptions(s, shape, parent, id) ==
    /\ NextSpan(s)
    /\ IF tx.data THEN StartInTransaction(s, shape, parent, id)
                  ELSE StartOutside(s, shape, parent, id)
    /\ UNCHANGED now

\* A span under the transaction itself.
StartRootSpan(s, shape) == StartSpanOptions(s, shape, None, Tx)

\* A span under another, whose lock the call takes, or which it knows only by
\* the trace context it was given.
StartChildSpan(s, shape, p) ==
    /\ span[p].propagated
    /\ LateChildren \/ span[p].fate \notin {"cached", "compressed", "fast"}
    /\ \/ span[p].phase # "ending" /\ StartSpanOptions(s, shape, p, span[p].id)
       \/ StartSpanOptions(s, shape, None, span[p].id)

-----------------------------------------------------------------------------
(* Dropping and reporting: functions from one world to the next *)

\* droppedSpanTimingsMap.add
AddStats(stats, key, n) ==
    IF stats[key] > 0 \/ Cardinality({k \in StatsKey : stats[k] > 0}) < MaxDroppedSpanStats
    THEN [stats EXCEPT ![key] = @ + n] ELSE stats

\* Mutant: spans whose context was propagated are eligible too.
EligiblePropagated(r) == r.exit /\ r.ok

\* Span.isCompressionEligible
Eligible(r) == r.exit /\ ~r.propagated /\ r.ok

\* Mutant: a composite counts as one dropped call.
RepresentsOne(r) == 1

\* The number of calls a span stands for, in aggregateDroppedSpanStats.
Represents(r) == IF r.count > 0 THEN r.count ELSE 1

\* Mutant: a span that was refused at the start is dropped once more.
FastAgain(w, r) == r.tx /\ w.tx.data /\ Eligible(r) /\ r.duration < ExitSpanMin

\* Whether dropFastExitSpan drops the span r, which was not dropped before.
Fast(w, r) ==
    r.tx /\ w.tx.data /\ r.tracer /\ Eligible(r) /\ r.duration < ExitSpanMin

\* Mutant: the dropped span stays counted as created.
DropFastExitSpanKeepsCreated(t) == [t EXCEPT !.spansDropped = @ + 1]

\* Span.dropFastExitSpan's effect on the transaction.
DropFastExitSpan(t) == [t EXCEPT !.spansCreated = @ - 1, !.spansDropped = @ + 1]

\* Span.end, for a span that is named (dest) in the statistics if dropped: a
\* fast exit span is dropped, a dropped one aggregated, any other enqueued, and
\* the SpanData is gone.
Finish(w, s, dest) ==
    LET r == w.span[s]
        fast == Fast(w, r)
        dropped == ~r.tracer \/ fast
        aggregated == dropped /\ r.tx /\ w.tx.data /\ r.exit /\ dest
    IN  [span |-> [w.span EXCEPT ![s] = [@ EXCEPT
             !.tracer = ~dropped, !.data = FALSE,
             !.timestamp = 0, !.duration = 0, !.sum = 0, !.last = 0,
             !.fate = IF fast THEN "fast"
                      ELSE IF ~dropped THEN "enqueued"
                      ELSE IF aggregated THEN "aggregated" ELSE "dropped"]],
         tx |-> [(IF fast THEN DropFastExitSpan(w.tx) ELSE w.tx) EXCEPT
             !.stats = IF aggregated THEN AddStats(@, <<r.type, r.ok>>, Represents(r))
                       ELSE @]]

-----------------------------------------------------------------------------
(* Compression *)

Cache(w, h) == IF h = Tx THEN w.tx.cache ELSE w.span[h].cache
SetCache(w, h, c) ==
    IF h = Tx THEN [w EXCEPT !.tx.cache = c] ELSE [w EXCEPT !.span[h].cache = c]

\* compressedSpan.evict: empties h's cache, and gives a composite in it the
\* duration from its own start to the end of its last member.
Evict(w, h) ==
    LET c == Cache(w, h)
        emptied == SetCache(w, h, None)
    IN  IF c # None /\ w.span[c].count > 0
        THEN [emptied EXCEPT !.span[c].duration = w.span[c].last - w.span[c].timestamp]
        ELSE emptied

\* Span.durationLowerOrEq
DurationLowerOrEq(r, q, max) == r.duration <= max /\ q.duration <= max

IsSameKind(r, q) == r.type = q.type
IsExactMatch(r, q) == r.name = q.name /\ IsSameKind(r, q)

\* Span.canCompressComposite and Span.canCompressStandard
Strategy(r, q) ==
    LET exact == IsExactMatch(r, q)
        standard == IF exact THEN "exact_match" ELSE "same_kind"
        max == IF exact THEN ExactMatchMax ELSE SameKindMax
    IN  IF \/ /\ r.strategy = "exact_match" /\ exact
              /\ DurationLowerOrEq(r, q, ExactMatchMax)
           \/ /\ r.strategy = "same_kind" /\ IsSameKind(r, q)
              /\ DurationLowerOrEq(r, q, SameKindMax)
        THEN r.strategy
        ELSE IF /\ IsSameKind(r, q)
                /\ DurationLowerOrEq(r, q, max)
                /\ r.count > 0 => r.strategy = standard
        THEN standard ELSE "none"

\* Mutant: spans in the same cache are taken to be siblings.
SiblingsAlways(r, q) == TRUE

Siblings(r, q) == r.parentID = q.parentID

\* Span.compress, when it succeeds: q becomes part of the composite r.
Composite(r, q, strategy) ==
    [r EXCEPT !.strategy = IF r.count = 0 THEN strategy ELSE @,
              !.count = IF @ = 0 THEN 2 ELSE @ + 1,
              !.sum = (IF r.count = 0 THEN r.duration ELSE @) + q.duration,
              !.last = IF q.timestamp + q.duration > @ THEN q.timestamp + q.duration ELSE @]

\* compressedSpan.compressOrEvictCache for h's cache and the span s: the world
\* after it, the evicted span and whether s was cached.
CompressOrEvict(w, h, s) ==
    LET c == Cache(w, h)
        r == w.span[s]
        cached == [SetCache(Evict(w, h), h, s) EXCEPT !.span[s].fate = "cached"]
        strategy == IF c # None /\ Siblings(w.span[c], r) THEN Strategy(w.span[c], r)
                    ELSE "none"
    IN  IF ~Eligible(r) THEN [w |-> Evict(w, h), evicted |-> c, cached |-> FALSE]
        ELSE IF strategy = "none" THEN [w |-> cached, evicted |-> c, cached |-> TRUE]
        ELSE [w |-> [w EXCEPT
                  !.span[c] = Composite(w.span[c], r, strategy),
                  !.span[s].fate = "compressed", !.span[s].into = c,
                  !.tx.spansCreated = IF r.tx /\ w.tx.data THEN @ - 1 ELSE @],
              evicted |-> None, cached |-> TRUE]

\* Span.attemptCompress
AttemptCompress(w, s) ==
    LET r == w.span[s]
        no == [w |-> w, evicted |-> None, cached |-> FALSE]
    IN  IF ~r.enabled THEN no
        ELSE IF r.cache # None
        THEN [w |-> Evict(w, s), evicted |-> r.cache, cached |-> FALSE]
        ELSE IF r.parent # None
        THEN IF w.span[r.parent].data THEN CompressOrEvict(w, r.parent, s) ELSE no
        ELSE IF r.tx /\ w.tx.data THEN CompressOrEvict(w, Tx, s)
        ELSE no

-----------------------------------------------------------------------------
(* Ending *)

\* The first step of Span.End, with s.mu held, fixes the duration and the
\* outcome (which the shape of the span has given).
End(s) ==
    /\ span[s].phase = "live"
    /\ span' = [span EXCEPT ![s] = [@ EXCEPT
           !.phase = "ending", !.duration = now - span[s].timestamp]]
    /\ UNCHANGED <<now, tx>>

\* No call of End holds the lock of s's parent.
ParentUnlocked(s) == span[s].parent # None => span[span[s].parent].phase # "ending"

\* Whether s is a child of an exit span of another type.
Mismatched(r) ==
    r.parent # None /\ span[r.parent].exit /\ r.type # span[r.parent].type

\* The rest of End for such a span: it is dropped, without compression.
EndMismatched(s) ==
    /\ span[s].phase = "ending"
    /\ ParentUnlocked(s)
    /\ Mismatched(span[s])
    /\ \E dest \in BOOLEAN :
           LET w == Finish([world EXCEPT !.span[s].tracer = FALSE], s, dest)
           IN  span' = [w.span EXCEPT ![s].phase = "ended"] /\ tx' = w.tx
    /\ UNCHANGED now

\* Mutant: the span that was pushed out of a cache is forgotten.
FlushForgets(a) == a.w

\* The evicted span, if there is one, is ended.
Flush(a) == IF a.evicted = None THEN a.w ELSE Finish(a.w, a.evicted, TRUE)

\* The rest of End for any other span.
EndLocked(s) ==
    /\ span[s].phase = "ending"
    /\ ParentUnlocked(s)
    /\ ~Mismatched(span[s])
    /\ LET a == AttemptCompress(world, s)
           flushed == Flush(a)
           w == IF a.cached THEN flushed ELSE Finish(flushed, s, TRUE)
       IN  /\ span' = [w.span EXCEPT ![s].phase = "ended"]
           /\ tx' = w.tx
    /\ UNCHANGED now

\* Transaction.End: the cached span is ended and the transaction enqueued.
EndTransaction ==
    /\ tx.data
    /\ LET w == Flush([w |-> Evict(world, Tx), evicted |-> tx.cache])
       IN  span' = w.span /\ tx' = [w.tx EXCEPT !.data = FALSE, !.sent = tx.recording]
    /\ UNCHANGED now

\* Transaction.Discard: the cached span is dropped with the transaction's data.
Discard ==
    /\ tx.data
    /\ tx' = [tx EXCEPT !.data = FALSE, !.cache = None]
    /\ span' = IF tx.cache = None THEN span
               ELSE [span EXCEPT ![tx.cache].fate = "discarded"]
    /\ UNCHANGED now

Tick ==
    /\ now < MaxTime
    /\ now' = now + 1
    /\ UNCHANGED <<tx, span>>

\* A transaction just started by StartTransactionOptions.  One that is not
\* recording has a zero trace context, which is not sampled.
Init ==
    /\ now = 0
    /\ span = [s \in Span |-> Unused]
    /\ \E recording, sampled \in BOOLEAN, max \in MaxSpans :
           /\ sampled => recording
           /\ tx = [data |-> TRUE, recording |-> recording, sampled |-> sampled,
                    maxSpans |-> max,
                    spansCreated |-> 0, spansDropped |-> 0, cache |-> None,
                    stats |-> [k \in StatsKey |-> 0], sent |-> FALSE]

Next ==
    \/ \E s \in Span : \/ \E shape \in Shape[s] : StartRootSpan(s, shape)
                       \/ \E shape \in Shape[s], p \in Span : StartChildSpan(s, shape, p)
                       \/ TraceContext(s)
                       \/ End(s) \/ EndMismatched(s) \/ EndLocked(s)
    \/ EndTransaction \/ Discard \/ Tick

Spec == Init /\ [][Next]_vars

-----------------------------------------------------------------------------
(* Properties *)

SpanType ==
    [phase : {"unused", "live", "ending", "ended"}, data : BOOLEAN, tracer : BOOLEAN,
     tx : BOOLEAN, parent : Span \cup {None}, parentID : Span \cup {Tx, None},
     id : Span \cup {Tx, None}, type : {x.type : x \in Shapes} \cup {None},
     name : {x.name : x \in Shapes} \cup {None}, exit : BOOLEAN, enabled : BOOLEAN,
     propagated : BOOLEAN, timestamp : Nat, duration : Int, ok : BOOLEAN,
     strategy : {"none", "exact_match", "same_kind"}, count : Nat, sum : Nat, last : Nat,
     cache : Span \cup {None},
     fate : {"none", "cached", "compressed", "enqueued", "fast", "aggregated", "dropped",
             "discarded"},
     into : Span \cup {None}]

\* Every variable has its type; in particular spansCreated, which compression
\* and dropping decrement, is never negative.
TypeOK ==
    /\ now \in 0..MaxTime
    /\ tx \in [data : BOOLEAN, recording : BOOLEAN, sampled : BOOLEAN, maxSpans : MaxSpans,
               spansCreated : Nat, spansDropped : Nat, cache : Span \cup {None}, stats : [StatsKey -> Nat],
               sent : BOOLEAN]
    /\ \A s \in Span : span[s] \in SpanType

\* The spans of the transaction that were let through when they started.
Recorded == {s \in Span : span[s].tx /\ span[s].id = s}
With(fates) == {s \in Span : span[s].fate \in fates}
Members(c) == {s \in Span : span[s].into = c}

\* The span counts the transaction reports are exact, whatever was compressed
\* or dropped: "started" counts the spans let through, less those compressed
\* into another or dropped for being fast, and "dropped" those refused at the
\* start and the fast ones, a composite as one.  Children filtered out because
\* of their exit parent stay in "started".
SpanCountExact ==
    tx.data /\ tx.sampled =>
        /\ tx.spansCreated = Cardinality(Recorded \ With({"compressed", "fast"}))
        /\ tx.spansDropped = Cardinality({s \in Span : span[s].tx /\ span[s].id # s}
                                        \cup With({"fast"}))

\* transaction_max_spans holds for what is reported, although room is made
\* again whenever a span is compressed or dropped, also after the transaction
\* has ended: no more spans are enqueued, cached or under way than the limit.
MaxSpansRespected ==
    tx.maxSpans >= 0 =>
        Cardinality(Recorded \cap With({"none", "cached", "enqueued"})) <= tx.maxSpans

SumSpans(S) == MapThenSumSet(LAMBDA s : span[s].duration, S)

\* A composite is what it says: its count and sum are those of the spans
\* compressed into it, all of them successful exit siblings of the same kind,
\* of the same name if compressed as exact matches, and short enough.
CompositeExact ==
    \A c \in Span :
        LET members == Members(c)
            r == span[c]
            max == IF r.strategy = "exact_match" THEN ExactMatchMax ELSE SameKindMax
        IN  /\ r.count = IF members = {} THEN 0 ELSE Cardinality(members) + 1
            /\ r.fate = "cached" /\ members # {} =>
                   /\ r.sum = SumSpans(members \cup {c})
                   /\ r.duration <= max
            /\ \A m \in members :
                   /\ span[m].parentID = r.parentID /\ span[m].type = r.type
                   /\ span[m].exit /\ span[m].ok /\ span[m].duration <= max
                   /\ r.strategy = "exact_match" => span[m].name = r.name

\* No orphans: a span that others name as their parent is never compressed
\* into another or dropped for being fast.
ParentsReported ==
    \A s \in Span : span[s].parentID \in Span =>
        span[span[s].parentID].fate \notin {"compressed", "fast"}

\* A span is in the cache of a transaction or span that has yet to end.
InLiveCache(s) ==
    \/ tx.data /\ tx.cache = s
    \/ \E h \in Span : span[h].cache = s /\ span[h].phase # "ended"

\* A span whose End does not flush its cache: a child of an exit span of another
\* type (span.go:408), or one refused at the start, for which compression is not
\* enabled (span_compressed.go:143).
KeepsCache(r) == Mismatched(r) \/ ~r.enabled

\* Every cached span will be flushed, but for those cached in such a span.
NothingElseStranded ==
    \A s \in With({"cached"}) :
        InLiveCache(s) \/ \E h \in Span : span[h].cache = s /\ KeepsCache(span[h])

\* "s has been cached for potential compression, and will be enqueued by a
\* future call to attemptCompress on a sibling span, or when the parent is
\* ended." (span.go:466): false for the spans of KeepsCache.
CachedSpansFlushed == \A s \in With({"cached"}) : InLiveCache(s)

\* The statistics on dropped spans count every call a dropped span stands for,
\* those of a composite included, as long as there is room for their keys.
DroppedStatsExact ==
    LET total == Cardinality(UNION {{k} \X (1..tx.stats[k]) : k \in StatsKey})
        dropped == {s \in With({"fast", "aggregated"}) : span[s].tx}
        calls == Cardinality(dropped \cup {s \in Span : span[s].into \in dropped})
    IN  /\ total <= calls
        /\ Cardinality({k \in StatsKey : tx.stats[k] > 0}) < MaxDroppedSpanStats =>
               total = calls

\* What a transaction reports about the number of its spans is true, whoever
\* drops, compresses or refuses them, and the limit holds.
CountsExact == TypeOK /\ SpanCountExact /\ MaxSpansRespected /\ DroppedStatsExact
=============================================================================
