------------------------------- MODULE Bridges -------------------------------
(***************************************************************************)
(* The OpenTracing (apmot) and OpenTelemetry (apmotel) bridges: spans that *)
(* are started with the bridge's API are transactions and spans of the     *)
(* agent, and the native API and the bridge find each other's spans in a   *)
(* context.  Two parts:                                                    *)
(*   - contexts: who becomes the parent of whom, for every way to mix the  *)
(*     two APIs                                                            *)
(*   - life: what is set on one bridged span until it is ended, and the    *)
(*     outcome that the agent reports.                                     *)
(* All transactions are sampled and no limit of spans is reached; names,   *)
(* tags and attributes are left out unless they decide the outcome.        *)
(***************************************************************************)
EXTENDS Integers, Sequences

CONSTANTS
    BridgeKinds,    \* the bridges that may be loaded, "ot" or "otel", one at a time
    MaxStarted,     \* transactions and spans
    MaxFields       \* fields of a log record

ASSUME BridgeBounds == BridgeKinds \subseteq {"ot", "otel"} /\ {MaxStarted, MaxFields} \subseteq Nat

-----------------------------------------------------------------------------
(* Contexts *)

VARIABLES
    bridge,     \* the bridge that is loaded
    started     \* the transactions and spans, each with the context it was put in

contextVars == <<bridge, started>>

\* A context: the native keys' values, and the bridge's span as its transaction
\* and span.  Transactions and spans are numbers, 0 is nil.  `head` is what was
\* put into the context last.
NoCtx == [tx |-> 0, span |-> 0, ot |-> [tx |-> 0, span |-> 0], head |-> 0]

\* Mutant: apmot, too, wraps a native span without its transaction.
OTWithSpanAlone(ctx, s) == [ctx EXCEPT !.ot = [tx |-> 0, span |-> s], !.head = s]

\* contextWithSpan of apmot.
OTWithSpan(ctx, s) == [ctx EXCEPT !.ot = [tx |-> ctx.ot.tx, span |-> s], !.head = s]

\* contextWithTransaction of apmot.
OTWithTransaction(ctx, t) == [ctx EXCEPT !.ot = [tx |-> t, span |-> 0], !.head = t]

\* contextWithSpan of apmotel, around the default: the wrapper has no transaction.
OTelWithSpan(ctx, s) == [ctx EXCEPT !.span = s, !.ot = [tx |-> 0, span |-> s], !.head = s]

\* contextWithTransaction of apmotel, around the default.
OTelWithTransaction(ctx, t) == [ctx EXCEPT !.tx = t, !.ot = [tx |-> t, span |-> 0], !.head = t]

ContextWithSpan(ctx, s) == IF bridge = "ot" THEN OTWithSpan(ctx, s) ELSE OTelWithSpan(ctx, s)

ContextWithTransaction(ctx, t) ==
    IF bridge = "ot" THEN OTWithTransaction(ctx, t) ELSE OTelWithTransaction(ctx, t)

\* spanFromContext and transactionFromContext of apmot, or the defaults.
SpanFromContext(ctx) == IF bridge = "ot" THEN ctx.ot.span ELSE ctx.span
TransactionFromContext(ctx) == IF bridge = "ot" THEN ctx.ot.tx ELSE ctx.tx

New == Len(started) + 1

\* A transaction or span with its parent, and the context that holds it; `tx` is
\* the transaction of a span, 0 if the span was dropped for want of one.
Item(api, kind, tx, parent, below, ctx) ==
    [api |-> api, kind |-> kind, tx |-> tx, parent |-> parent, below |-> below, ctx |-> ctx]

StartItem(item) == Len(started) < MaxStarted /\ started' = Append(started, item) /\ UNCHANGED bridge

\* Tracer.StartTransaction and ContextWithTransaction with a new context.
NativeTransaction ==
    StartItem(Item("native", "tx", New, 0, 0, ContextWithTransaction(NoCtx, New)))

\* StartSpan(ctx): below the span in the context, or its transaction; without
\* either the span is dropped and the context unchanged.
NativeSpan(ctx) ==
    LET parent == SpanFromContext(ctx)
        tx == IF parent # 0 THEN started[parent].tx ELSE TransactionFromContext(ctx)
    IN StartItem(Item("native", "span", tx, IF parent # 0 THEN parent ELSE tx, ctx.head,
                      IF tx # 0 THEN ContextWithSpan(ctx, New) ELSE ctx))

\* StartSpanWithOptions of apmot for a child of the span in the context, and
\* opentracing.ContextWithSpan; a context of another process, or a span without
\* a transaction, makes it a transaction of that trace.
OTStartSpan(ctx) ==
    /\ bridge = "ot"
    /\ LET p == ctx.ot
           parent == IF p.span # 0 THEN p.span ELSE p.tx
       IN IF p.tx # 0
          THEN StartItem(Item("bridge", "span", p.tx, parent, ctx.head,
                              [ctx EXCEPT !.ot = [tx |-> p.tx, span |-> New], !.head = New]))
          ELSE StartItem(Item("bridge", "tx", New, parent, ctx.head,
                              [ctx EXCEPT !.ot = [tx |-> New, span |-> 0], !.head = New]))

\* Start of apmotel.  The parent is the bridge's span in the context, or else
\* the native transaction; a new root ignores both.
OTelStart(ctx, newRoot) ==
    /\ bridge = "otel"
    /\ LET p == IF ctx.ot.tx # 0 \/ ctx.ot.span # 0 THEN ctx.ot
                ELSE [tx |-> TransactionFromContext(ctx), span |-> 0]
           parent == IF p.span # 0 THEN p.span ELSE p.tx
       IN IF ~newRoot /\ parent # 0
          THEN StartItem(Item("bridge", "span", p.tx, parent, ctx.head,
                    [ContextWithSpan(ctx, New) EXCEPT !.ot = [tx |-> p.tx, span |-> New]]))
          ELSE StartItem(Item("bridge", "tx", New, 0, IF newRoot THEN 0 ELSE ctx.head,
                              ContextWithTransaction(ctx, New)))

ContextInit == bridge \in BridgeKinds /\ started = <<>>

ContextNext ==
    \/ NativeTransaction
    \/ \E ctx \in {NoCtx} \cup {started[i].ctx : i \in DOMAIN started} :
        \/ NativeSpan(ctx) \/ OTStartSpan(ctx)
        \/ \E newRoot \in BOOLEAN : OTelStart(ctx, newRoot)

ContextSpec == ContextInit /\ [][ContextNext]_contextVars

-----------------------------------------------------------------------------
(* The life of a bridged span *)

VARIABLES bspan

lifeVars == <<bspan>>

NewBridged(kind, item) ==
    [kind |-> kind, item |-> item, ended |-> FALSE, status |-> 0, httpStatus |-> 0,
     errorCaptured |-> FALSE, outcome |-> "",
     wasSet |-> {}, logged |-> FALSE]  \* what the program did before the end

\* Fields of a log record: event with the value "error" or another one, or others.
RecordFields == {"error_event", "other_event", "other"}

Records == UNION {[1..n -> RecordFields] : n \in 0..MaxFields}

\* logContext.field for each field: another event makes the record ignored; then
\* emit, which sends an error if there was an error event.
EmitsError(fields) ==
    /\ \E i \in DOMAIN fields : fields[i] = "error_event"
    /\ \A i \in DOMAIN fields : fields[i] # "other_event"

\* logFields and emit: the error is linked, which counts until the span has ended.
LogFields(b, fields) ==
    [b EXCEPT !.errorCaptured = @ \/ (EmitsError(fields) /\ ~b.ended)]

\* Mutant: a later status always replaces an earlier one.
SetStatusLast(b, code) == [b EXCEPT !.status = code]

\* SetStatus of apmotel; Unset is 0, Error 1 and Ok 2.
SetStatus(b, code) == IF b.status > code THEN b ELSE [b EXCEPT !.status = code]

\* The agent's End: an outcome that is not set is taken from the status code of
\* the response, else from whether an error was captured.
AgentEnd(b) ==
    IF b.ended THEN b
    ELSE [b EXCEPT !.ended = TRUE,
              !.outcome = CASE @ # "" -> @
                            [] @ = "" /\ b.httpStatus # 0 -> IF b.httpStatus < 500 THEN "success" ELSE "failure"
                            [] OTHER -> IF b.errorCaptured THEN "failure" ELSE "success"]

\* setTransactionContext of apmot: the response's status is set from the tag
\* http.status_code unless the tag result is there.
OTSetTransactionContext(b, code, result) == [b EXCEPT !.httpStatus = IF result THEN 0 ELSE code]

\* setSpanContext of apmot: its tags set no status of a response.
OTSetSpanContext(b) == b

\* Mutant: the span is ended before its log records are sent.
FinishWithOptionsEnds(b, code, result, fields) ==
    IF b.item = "span" THEN LogFields(AgentEnd(OTSetSpanContext(b)), fields)
    ELSE LogFields(AgentEnd(OTSetTransactionContext(b, code, result)), fields)

\* FinishWithOptions of apmot, with a log record.
FinishWithOptions(b, code, result, fields) ==
    IF b.item = "span" THEN AgentEnd(OTSetSpanContext(LogFields(b, fields)))
    ELSE AgentEnd(LogFields(OTSetTransactionContext(b, code, result), fields))

\* setTransactionAttributes of apmotel, likewise; setSpanAttributes sets no status.
SetAttributes(b, code, result) ==
    IF b.item = "tx" /\ ~result THEN [b EXCEPT !.httpStatus = code] ELSE b

\* End of apmotel, which has an effect once.
OTelEnd(b, code, result) ==
    IF b.ended THEN b
    ELSE AgentEnd([SetAttributes(b, code, result) EXCEPT
            !.outcome = CASE b.status = 2 -> "success" [] b.status = 1 -> "failure" [] OTHER -> "unknown"])

\* LogKV and LogFields of apmot, which may not follow Finish.
LogKV(fields) ==
    /\ bspan.kind = "ot" /\ ~bspan.ended
    /\ bspan' = [LogFields(bspan, fields) EXCEPT !.logged = @ \/ EmitsError(fields)]

OTFinish(code, result, fields) ==
    /\ bspan.kind = "ot" /\ ~bspan.ended
    /\ bspan' = [FinishWithOptions(bspan, code, result, fields) EXCEPT !.logged = @ \/ EmitsError(fields)]

\* The program may go on to use an OpenTelemetry span after its end.
UseStatus(code) ==
    /\ bspan.kind = "otel"
    /\ bspan' = [SetStatus(bspan, code) EXCEPT !.wasSet = IF bspan.ended THEN @ ELSE @ \cup {code}]

OTelEndSpan(code, result) == bspan.kind = "otel" /\ bspan' = OTelEnd(bspan, code, result)

LifeInit == \E kind \in BridgeKinds, item \in {"tx", "span"} : bspan = NewBridged(kind, item)

LifeNext ==
    \/ \E fields \in Records : LogKV(fields)
    \/ \E code \in {0, 200, 404, 500}, result \in BOOLEAN :
        \/ \E fields \in Records : OTFinish(code, result, fields)
        \/ OTelEndSpan(code, result)
    \/ \E code \in 0..2 : UseStatus(code)

LifeSpec == LifeInit /\ [][LifeNext]_lifeVars

-----------------------------------------------------------------------------
(* Properties *)

\* Whichever API starts it, what is started in a context is a span, the child of
\* what was put into the context last, in the transaction of its parent.  Two
\* cases are left out, both of apmotel: the transaction of a child of a native
\* span (NativeSpansAreParents), and a native span in the context of a new root
\* that was started below a span: the native API still finds that span.
ParentIsHead ==
    \A i \in DOMAIN started : LET s == started[i] IN s.below # 0 =>
        LET up == started[s.below] IN
        \/ /\ s.parent = s.below /\ s.kind = "span"
           /\ \/ s.tx = up.tx
              \/ bridge = "otel" /\ s.api = "bridge" /\ up.api = "native" /\ up.kind = "span"
        \/ /\ bridge = "otel" /\ s.api = "native" /\ up.api = "bridge" /\ up.kind = "tx"
           /\ s.parent = up.ctx.span /\ s.tx = started[s.parent].tx

\* A native span that is in a context is the parent of the spans that the bridge
\* starts there: they are not dropped.
NativeSpansAreParents ==
    \A i \in DOMAIN started : LET s == started[i] IN
        s.api = "bridge" /\ s.below # 0 => s.tx # 0

\* The outcome of an OpenTelemetry span: success if Ok was set before its end,
\* whatever was set before or after that; else failure if Error was set.
OutcomeOfStatus ==
    bspan.kind = "otel" /\ bspan.ended =>
        bspan.outcome = CASE 2 \in bspan.wasSet -> "success"
                          [] 2 \notin bspan.wasSet /\ 1 \in bspan.wasSet -> "failure"
                          [] OTHER -> "unknown"

\* An OpenTracing span without a response's status is a failure exactly if an
\* error event was logged before it ended, also in the records given to Finish.
OutcomeOfLogs ==
    bspan.kind = "ot" /\ bspan.ended /\ bspan.httpStatus = 0 =>
        (bspan.outcome = "failure" <=> bspan.logged)

\* A program may use a bridge and the native API together: spans are nested as
\* their contexts are, and have the outcome that either API gave them.
BridgeAgrees == ParentIsHead /\ OutcomeOfStatus /\ OutcomeOfLogs
=============================================================================
