---------------------------- MODULE TraceContext ----------------------------
(***************************************************************************)
(* How a trace passes through services: StartTransactionOptions with its   *)
(* continuation strategies and the sampling of roots (transaction.go,      *)
(* sampler.go), trace state (tracecontext.go), and the headers that the    *)
(* HTTP instrumentation writes and reads (module/apmhttp).                 *)
(*                                                                         *)
(* Services with the agent and systems without it send each other          *)
(* requests.  An ID is a number, 0 being the invalid one; the tracestate   *)
(* is a sequence of [key, value] whose values are rates for the key "es".  *)
(***************************************************************************)
EXTENDS Integers, Sequences, FiniteSets, FiniteSetsExt

CONSTANTS
    Service,       \* services with the agent
    Strategy,      \* Strategy[s]: trace_continuation_strategy
    Rate,          \* Rate[s]: the rate of the service's ratio sampler, in ten
                   \* thousandths, -1 for no sampler
    Legacy,        \* services that use Elastic-Apm-Traceparent too
    Recording,     \* services that are recording
    MaxEntries,    \* the most entries that Validate allows, 32 in the code
    MaxRequests,   \* bound: requests sent
    BadRate,       \* a value of "es" that cannot be parsed
    NoHeader, Malformed  \* an absent header, and one that cannot be parsed

ASSUME TraceContextAssumption ==
    /\ Legacy \subseteq Service /\ Recording \subseteq Service /\ MaxEntries \in Nat
    /\ \A s \in Service : /\ Strategy[s] \in {"continue", "restart", "restart_external"}
                          /\ Rate[s] \in -1..10000

VARIABLES
    nextID,    \* IDs are generated in order
    txs,       \* the transactions that services have started, each with the request
               \* that caused it, if any
    msgs,      \* the requests that were sent
    sent       \* bounded

traceVars == <<nextID, txs, msgs, sent>>

-----------------------------------------------------------------------------
(* Trace state *)

NoState == [entries |-> <<>>, haveElastic |-> FALSE]

\* The entries of other vendors, in their order.
Others(entries) ==
    LET upTo[i \in 0..Len(entries)] ==
            IF i = 0 THEN <<>>
            ELSE IF entries[i].key = "es" THEN upTo[i - 1] ELSE Append(upTo[i - 1], entries[i])
    IN upTo[Len(entries)]

Elastic(entries) == {i \in DOMAIN entries : entries[i].key = "es"}

\* NewTraceState: the "es" entry comes first, with the value of its last
\* occurrence.
NewTraceState(entries) ==
    [entries |-> (IF Elastic(entries) = {} THEN <<>> ELSE <<entries[Max(Elastic(entries))]>>)
                 \o Others(entries),
     haveElastic |-> Elastic(entries) # {}]

\* TraceState.Validate: not too many entries, each of them valid.
ValidState(state) ==
    /\ Len(state.entries) <= MaxEntries
    /\ \A i \in DOMAIN state.entries : state.entries[i].value # BadRate

\* The sample rate that parseElasticTracestate finds, -1 if none.
StateRate(state) ==
    IF state.haveElastic /\ state.entries[1].value # BadRate THEN state.entries[1].value ELSE -1

-----------------------------------------------------------------------------
(* Sampling *)

\* roundSampleRate of a rate of r hundred thousandths, in ten thousandths.
RoundSampleRate(r) == IF 0 < r /\ r < 10 THEN 1 ELSE (r + 5) \div 10

\* Mutant: the ID is compared as it is.
RatioSampledOff(v, rate, maxID) == v > 0 /\ v < (maxID * rate) \div 10000

\* ratioSampler.Sample: of the IDs 1..maxID, the share rate is sampled.
RatioSampled(v, rate, maxID) == v > 0 /\ v - 1 < (maxID * rate) \div 10000

\* A root is sampled or not, by its ID: either is possible unless the rate is
\* 0 or 1; without a sampler it is sampled.
SampleResults(rate) == {b \in BOOLEAN : /\ rate = 0 => ~b
                                        /\ rate \in {-1, 10000} => b}

-----------------------------------------------------------------------------
(* StartTransactionOptions *)

\* Mutant: "restart_external" restarts whatever it has not made itself.
ContinuesNever(s, ctx) == Strategy[s] = "continue"

\* The strategy for this trace context.
Continues(s, ctx) ==
    \/ Strategy[s] = "continue"
    \/ Strategy[s] = "restart_external" /\ ctx.state.haveElastic

\* A trace context that is not restarted although the strategy says so: it has
\* no IDs.
Restarts(s, ctx) == ~Continues(s, ctx) /\ ctx.trace # 0 /\ ctx.span # 0

\* Mutant: the rate of an unsampled root is reported as it is.
RootStateRate(rate, sampled) ==
    IF rate = -1 THEN NoState ELSE NewTraceState(<<[key |-> "es", value |-> rate]>>)

\* The state of a new trace: for an unsampled root a rate of 0.
RootState(rate, sampled) ==
    IF rate = -1 THEN NoState
    ELSE NewTraceState(<<[key |-> "es", value |-> IF sampled THEN rate ELSE 0]>>)

\* Mutant: a service with a sampler decides for itself.
ContinuedResampled(s, ctx, id) ==
    [service |-> s, trace |-> ctx.trace, id |-> id, parent |-> ctx.span,
     sampled |-> Rate[s] # 0, state |-> NoState, links |-> {}, msg |-> NoHeader]

\* The transaction that s continues the trace with, its own ID being id.
Continued(s, ctx, id) ==
    [service |-> s, trace |-> ctx.trace, id |-> id, parent |-> ctx.span,
     sampled |-> ctx.sampled, state |-> IF ValidState(ctx.state) THEN ctx.state ELSE NoState,
     links |-> {}, msg |-> NoHeader]

\* Mutant: a restarted trace is not linked to the one before.
RootTransactionUnlinked(s, ctx, id, sampled) ==
    [service |-> s, trace |-> id, id |-> id, parent |-> 0, sampled |-> sampled,
     state |-> RootState(Rate[s], sampled), links |-> {}, msg |-> NoHeader]

\* The transaction that s starts a new trace with; its ID is part of the trace's.
RootTransaction(s, ctx, id, sampled) ==
    [service |-> s, trace |-> id, id |-> id, parent |-> 0, sampled |-> sampled,
     state |-> RootState(Rate[s], sampled),
     links |-> IF Restarts(s, ctx) THEN {<<ctx.trace, ctx.span>>} ELSE {}, msg |-> NoHeader]

\* The transaction of a service that is not recording: it has no IDs.
Unrecorded(s, ctx) ==
    [service |-> s, trace |-> 0, id |-> 0, parent |-> 0, sampled |-> FALSE,
     state |-> NoState, links |-> {}, msg |-> NoHeader]

\* The transactions StartTransactionOptions may return.
StartTransactionOptions(s, ctx, id) ==
    IF s \notin Recording THEN {Unrecorded(s, ctx)}
    ELSE IF ctx.trace # 0 /\ ~Restarts(s, ctx) THEN {Continued(s, ctx, id)}
    ELSE {RootTransaction(s, ctx, id, b) : b \in SampleResults(Rate[s])}

-----------------------------------------------------------------------------
(* Headers *)

NoContext == [trace |-> 0, span |-> 0, sampled |-> FALSE, state |-> NoState]

\* ParseTraceparentHeader: zero IDs are an error.
Parsable(header) == header \notin {NoHeader, Malformed} /\ header.trace # 0 /\ header.span # 0

\* Mutant: the legacy header is preferred.
TraceparentLegacy(msg) == IF Parsable(msg.legacy) THEN msg.legacy ELSE msg.w3c

\* StartTransaction takes the standard header if it can be parsed, else the
\* legacy one.
Traceparent(msg) == IF Parsable(msg.w3c) THEN msg.w3c ELSE msg.legacy

\* ParseTracestateHeader; a tracestate that cannot be parsed counts as none.
ParseTracestateHeader(tracestate) ==
    IF tracestate = Malformed THEN NoState ELSE NewTraceState(tracestate)

\* The trace context of a request.
RequestContext(msg) ==
    LET tp == Traceparent(msg) IN
    IF ~Parsable(tp) THEN NoContext
    ELSE [trace |-> tp.trace, span |-> tp.span, sampled |-> tp.sampled,
          state |-> ParseTracestateHeader(msg.tracestate)]

\* SetHeaders for a span of tx, or tx itself, with the ID id.
SetHeaders(tx, id) ==
    LET header == [trace |-> tx.trace, span |-> id, sampled |-> tx.sampled] IN
    [w3c |-> header, legacy |-> IF tx.service \in Legacy THEN header ELSE NoHeader,
     tracestate |-> tx.state.entries]

-----------------------------------------------------------------------------

\* A service receives a request and starts its transaction.
Receive(s, m) ==
    /\ \A tx \in txs : tx.msg # m
    /\ \E tx \in StartTransactionOptions(s, RequestContext(m), nextID) :
        txs' = txs \cup {[tx EXCEPT !.msg = m]}
    /\ nextID' = nextID + 1
    /\ UNCHANGED <<msgs, sent>>

\* A request that no service was asked for by another: a cron job, a browser.
Begin(s) ==
    /\ sent < MaxRequests /\ sent' = sent + 1
    /\ \E tx \in StartTransactionOptions(s, NoContext, nextID) :
        txs' = txs \cup {tx}
    /\ nextID' = nextID + 1
    /\ UNCHANGED msgs

\* A request made in tx (RoundTrip): with an exit span of its own if tx is
\* sampled and the span is not dropped, else with the transaction's context.
TracedRequest(tx) ==
    /\ sent < MaxRequests /\ sent' = sent + 1
    /\ \/ tx.sampled /\ msgs' = msgs \cup {SetHeaders(tx, nextID)} /\ nextID' = nextID + 1
       \/ msgs' = msgs \cup {SetHeaders(tx, tx.id)} /\ UNCHANGED nextID
    /\ UNCHANGED txs

\* A system without the agent starts a trace of its own.
ForeignBegin(sampled) ==
    /\ sent < MaxRequests /\ sent' = sent + 1
    /\ msgs' = msgs \cup
           {[w3c |-> [trace |-> nextID, span |-> nextID, sampled |-> sampled],
             legacy |-> NoHeader, tracestate |-> <<[key |-> "v", value |-> nextID]>>]}
    /\ nextID' = nextID + 1
    /\ UNCHANGED txs

\* It passes on a request it received with a span of its own, and what it makes
\* of the tracestate: its own entry in front, or something unusable.
ForeignForward(m) ==
    /\ sent < MaxRequests /\ sent' = sent + 1
    /\ m.w3c # NoHeader /\ m.w3c.trace # 0
    /\ \E ts \in {<<[key |-> "v", value |-> nextID]>> \o m.tracestate, Malformed,
                  <<[key |-> "v", value |-> BadRate]>> \o m.tracestate} :
        msgs' = msgs \cup {[w3c |-> [m.w3c EXCEPT !.span = nextID], legacy |-> NoHeader,
                            tracestate |-> ts]}
    /\ nextID' = nextID + 1
    /\ UNCHANGED txs

TraceInit == nextID = 1 /\ txs = {} /\ msgs = {} /\ sent = 0

TraceNext ==
    \/ \E s \in Service : Begin(s) \/ \E m \in msgs : Receive(s, m)
    \/ \E tx \in txs : TracedRequest(tx)
    \/ \E b \in BOOLEAN : ForeignBegin(b)
    \/ \E m \in {m \in msgs : m.tracestate # Malformed} : ForeignForward(m)

TraceSpec == TraceInit /\ [][TraceNext]_traceVars

-----------------------------------------------------------------------------
(* Properties *)

\* The transactions of one trace agree on whether it is sampled, whatever the
\* rates of the services: a trace is reported whole or not at all.
SampledTogether ==
    \A t, u \in txs : t.trace = u.trace /\ t.trace # 0 => t.sampled = u.sampled

\* The rate that travels with a trace is that of the service that started it if
\* it is sampled, else 0, so that the server scales it up rightly.
RateTravels ==
    \A t, u \in txs : t.trace = u.trace /\ u.trace # 0 /\ u.parent = 0 /\ StateRate(t.state) # -1 =>
        StateRate(t.state) = IF u.sampled THEN Rate[u.service] ELSE 0

\* A transaction has its parent in its own trace, or is linked to the span that
\* called it: the parent of a continued trace is the span that was sent with
\* the trace, and a restarted trace has another ID.
CallerKnown ==
    \A t \in txs : t.msg # NoHeader /\ t.trace # 0 =>
        LET ctx == RequestContext(t.msg) IN
        ctx.trace # 0 => \/ t.trace = ctx.trace /\ t.parent = ctx.span /\ t.links = {}
                         \/ t.trace # ctx.trace /\ t.parent = 0
                            /\ t.links = {<<ctx.trace, ctx.span>>}

\* A service with "restart_external" continues the traces that were started by
\* an agent with a sampler, whatever systems they passed through, as long as
\* none of these spoiled the tracestate: one entry that cannot be parsed hides
\* that of the agent, from the next service or from the one after it.
AgentsTrusted ==
    \A t, u \in txs :
        /\ t.msg # NoHeader /\ Strategy[t.service] = "restart_external" /\ t.trace # 0
        /\ u.parent = 0 /\ u.trace = RequestContext(t.msg).trace /\ u.trace # 0 /\ Rate[u.service] # -1
        => \/ t.trace = u.trace
           \/ \E m \in msgs : /\ m.w3c.trace = u.trace
                              /\ \/ m.tracestate = Malformed
                                 \/ Len(m.tracestate) > MaxEntries
                                 \/ \E i \in DOMAIN m.tracestate : m.tracestate[i].value = BadRate

\* The share of the valid IDs that is sampled, to the rounding.
ShareSampled(rate, maxID) ==
    Cardinality({v \in 0..maxID : RatioSampled(v, rate, maxID)}) = (maxID * rate) \div 10000

\* Of the valid IDs the share given by the rate is sampled: all of them at rate 1
\* and none at 0 (NewRatioSampler, "samples 100%").
RatioShare ==
    sent = 0 => \A rate \in {0, 1, 2500, 3333, 5000, 9999, 10000}, maxID \in {1, 7, 20} :
        ShareSampled(rate, maxID)

\* Whatever a request passes through, its transactions agree on the trace: who
\* called whom, whether it is sampled, and at which rate.
TracesConsistent == SampledTogether /\ RateTravels /\ CallerKnown /\ AgentsTrusted /\ RatioShare
=============================================================================
