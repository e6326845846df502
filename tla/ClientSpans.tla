----------------------------- MODULE ClientSpans -----------------------------
(***************************************************************************)
(* The client side of the instrumentation modules: calls of databases,     *)
(* caches and services are reported as exit spans of the transaction in    *)
(* the context, below the span in the context.  Three parts:               *)
(*   - calls: a span is started, the call is made, the span is ended;      *)
(*     several goroutines make calls below one span of the caller's        *)
(*   - exchange: an HTTP request, whose span ends with the response's body *)
(*     while the transport's callbacks start and end spans below it        *)
(*   - stream: a gRPC stream, whose span a goroutine ends.                 *)
(* Names, statements and destinations of spans are left out.               *)
(***************************************************************************)
EXTENDS Integers, FiniteSets

CONSTANTS
    Caller,         \* goroutines that make calls with a context of one span, "outer"
    ClientKinds,    \* the instrumentations they may use: a subset of AllKinds
    MaxSpansLeft,   \* how many more spans the transaction may have
    ConnectAddr,    \* addresses that the HTTP transport dials
    BodyUser        \* goroutines that read or close the response's body

\* Instrumentations whose second half finds the span in the context.
FromContext == {"goredisv8", "gopgv10", "pgxv5"}
\* Instrumentations that end the span in a deferred call.
Defers == {"redigo", "goredis", "azure", "sql_connect", "grpc"}
AllKinds == FromContext \cup Defers \cup
    {"sql", "gopg", "gorm", "pgx", "gocql", "gocql_batch", "mongo", "aws", "azure_queue"}

ASSUME KindsKnown == ClientKinds \subseteq AllKinds /\ BodyUser # {} /\ MaxSpansLeft \in Nat

\* What the second half of a call tells apart of what the call returns: the
\* operations of a connection and of a prepared statement, gorm's errors, and
\* the versions of pgx that log too little.
ConnResults == {"ok", "error", "skip", "badconn", "canceled"}
StmtResults == {"ok", "error", "badconn", "canceled"}
GormResults == {"ok", "error", "notfound"}
PgxResults == {"ok", "error", "unsupported"}

Results(kind) ==
    CASE kind = "sql" -> ConnResults \cup StmtResults
      [] kind = "gorm" -> GormResults
      [] kind = "pgx" -> PgxResults
      [] OTHER -> {"ok", "error"}

VARIABLES
    call,           \* call[g]: the call of g, its own span and what it reported
    outer,          \* the caller's span: state, and who ended it
    spansLeft,      \* spans until transaction_max_spans is reached
    commandSpans    \* the mongo monitor's map: commands that have a span in it

callVars == <<call, outer, spansLeft, commandSpans>>

NoCall == [kind |-> "redigo", phase |-> "idle", own |-> "none", ctx |-> "outer",
           tx |-> "none", result |-> "ok", errors |-> {}]

-----------------------------------------------------------------------------
(* Calls *)

\* StartSpanOptions: a span that is not dropped is in the context it returns.
StartSpanOptions(c) ==
    IF spansLeft > 0 THEN [c EXCEPT !.own = "open", !.ctx = "own"]
    ELSE [c EXCEPT !.own = "dropped"]

\* Instrumentations that hear of a call when it has been made.
Afterwards == {"pgx", "gocql", "gocql_batch"}

\* The first halves of calls, where each instrumentation starts its span.
SQLStart(c) == StartSpanOptions(c)
SQLConnect(c) == StartSpanOptions(c)
GopgBeforeQuery(c) == StartSpanOptions(c)
GopgV10BeforeQuery(c) == StartSpanOptions(c)
PgxV5Start(c) == StartSpanOptions(c)
RedigoDo(c) == StartSpanOptions(c)
RedisProcess(c) == StartSpanOptions(c)
RedisBeforeProcess(c) == StartSpanOptions(c)
CommandStarted(c) == StartSpanOptions(c)
UnaryClient(c) == StartSpanOptions(c)
AzureDo(c) == StartSpanOptions(c)

\* build of aws, which also keeps the span under a key of its own in the context.
AWSBuild(c) == StartSpanOptions(c)

\* newBeforeCallback of gorm forgets the context of a span that was dropped.
GormBefore(c) ==
    LET s == StartSpanOptions(c) IN IF s.own = "dropped" THEN [s EXCEPT !.ctx = "none"] ELSE s

\* A message received from an Azure queue has a transaction of its own.
AzureReceive(c) == [c EXCEPT !.tx = "open", !.own = "open", !.ctx = "own"]

Before(c) ==
    CASE c.kind \in Afterwards -> c
      [] c.kind = "sql" -> SQLStart(c)
      [] c.kind = "sql_connect" -> SQLConnect(c)
      [] c.kind = "gopg" -> GopgBeforeQuery(c)
      [] c.kind = "gopgv10" -> GopgV10BeforeQuery(c)
      [] c.kind = "pgxv5" -> PgxV5Start(c)
      [] c.kind = "gorm" -> GormBefore(c)
      [] c.kind = "redigo" -> RedigoDo(c)
      [] c.kind = "goredis" -> RedisProcess(c)
      [] c.kind = "goredisv8" -> RedisBeforeProcess(c)
      [] c.kind = "mongo" -> CommandStarted(c)
      [] c.kind = "grpc" -> UnaryClient(c)
      [] c.kind = "aws" -> AWSBuild(c)
      [] c.kind = "azure" -> AzureDo(c)
      [] c.kind = "azure_queue" -> AzureReceive(c)

\* A call begins.
StartCall(g, kind) ==
    /\ call[g].phase = "idle" /\ outer.by # "owner"
    /\ LET c == Before([NoCall EXCEPT !.kind = kind, !.phase = "calling"]) IN
       /\ call' = [call EXCEPT ![g] = c]
       /\ spansLeft' = IF c.own = "open" /\ c.tx = "none" THEN spansLeft - 1 ELSE spansLeft
       /\ commandSpans' = IF kind = "mongo" /\ c.own = "open" THEN commandSpans \cup {g}
                          ELSE commandSpans
    /\ UNCHANGED outer

\* End of the span `which` of the call c; an End of a span that has ended, or was
\* dropped, has no effect.
EndSpan(c, which) ==
    IF which = "own" /\ c.own = "open" THEN [c EXCEPT !.own = "ended"] ELSE c

\* CaptureError(ctx, err) and Send: the error belongs to the span in the context.
CaptureError(c) == [c EXCEPT !.errors = @ \cup {c.ctx}]

\* Mutant: the span of a call that was canceled is not ended.
FinishSpanCanceled(c) ==
    IF c.result \in {"skip", "canceled"} THEN c
    ELSE EndSpan(IF c.result = "error" THEN CaptureError(c) ELSE c, "own")

\* finishSpan of sql: a skipped call's span is never ended, and calls that were
\* canceled or met a bad connection are no errors.
FinishSpan(c) ==
    IF c.result = "skip" THEN c
    ELSE EndSpan(IF c.result = "error" THEN CaptureError(c) ELSE c, "own")

\* gorm's callback after a statement: no span in the context, no error.
GormAfter(c) ==
    IF c.ctx = "none" THEN c
    ELSE EndSpan(IF c.result = "error" THEN CaptureError(c) ELSE c, c.ctx)

\* Mutant: the error is captured with the context that the call was made with.
PgxTraceContext(c) ==
    LET s == StartSpanOptions(c) IN
    IF c.result = "unsupported" THEN CaptureError(c)
    ELSE IF s.own = "dropped" THEN s
    ELSE EndSpan(IF s.result # "ok" THEN [s EXCEPT !.errors = {c.ctx}] ELSE s, "own")

\* pgx: the span is made up when the call is logged, for a span of the error's;
\* without a span there is no error, unless the version of pgx logs too little
\* to make one.
PgxTrace(c) ==
    LET s == StartSpanOptions(c) IN
    IF c.result = "unsupported" THEN CaptureError(c)
    ELSE IF s.own = "dropped" THEN s
    ELSE EndSpan(IF s.result # "ok" THEN [s EXCEPT !.errors = {"own"}] ELSE s, "own")

\* ObserveQuery of gocql: the error is captured with the context of the call.
ObserveQuery(c) ==
    LET s == StartSpanOptions(c) IN
    EndSpan(IF s.result # "ok" THEN [s EXCEPT !.errors = {c.ctx}] ELSE s, "own")

\* ObserveBatch of gocql: the error is captured with the context of the batch.
ObserveBatch(c) ==
    LET s == StartSpanOptions(c) IN
    EndSpan(IF s.result # "ok" THEN CaptureError(s) ELSE s, "own")

\* endSpan of pgxv5.
PgxEndSpan(c) == EndSpan(IF c.result # "ok" THEN CaptureError(c) ELSE c, c.ctx)

\* complete of aws, for a request whose context has a span of build's.
Complete(c) ==
    IF c.own # "open" THEN c
    ELSE EndSpan(IF c.result # "ok" THEN CaptureError(c) ELSE c, "own")

\* azure's Do, which returns early if the span was dropped; span, then
\* transaction end.
PipelineDo(c) ==
    [EndSpan(IF c.own = "open" /\ c.result # "ok" THEN CaptureError(c) ELSE c, "own")
        EXCEPT !.tx = IF @ = "open" THEN "ended" ELSE @]

\* finished of mongo: the span is in the map.
CommandFinished(g, c) == IF g \in commandSpans THEN EndSpan(c, "own") ELSE c

\* AfterQuery of gopg, which has kept the span of the query; deferred calls.
GopgAfterQuery(c) == EndSpan(c, "own")

\* The hooks that end whatever span is in the context.
GopgV10AfterQuery(c) == EndSpan(c, c.ctx)
RedisAfterProcess(c) == EndSpan(c, c.ctx)

\* The second half of a call of each instrumentation; the others defer End.
After(g, c) ==
    CASE c.kind = "sql" -> FinishSpan(c)
      [] c.kind = "gorm" -> GormAfter(c)
      [] c.kind = "pgx" -> PgxTrace(c)
      [] c.kind = "gocql" -> ObserveQuery(c)
      [] c.kind = "gocql_batch" -> ObserveBatch(c)
      [] c.kind = "pgxv5" -> PgxEndSpan(c)
      [] c.kind = "aws" -> Complete(c)
      [] c.kind \in {"azure", "azure_queue"} -> PipelineDo(c)
      [] c.kind = "mongo" -> CommandFinished(g, c)
      [] c.kind = "gopg" -> GopgAfterQuery(c)
      [] c.kind = "gopgv10" -> GopgV10AfterQuery(c)
      [] c.kind = "goredisv8" -> RedisAfterProcess(c)
      [] OTHER -> EndSpan(c, "own")

\* Mutant: mongo's monitor looks its spans up in the context, like the hooks.
LooksInContext(kind) == kind \in FromContext \cup {"mongo"}

\* Whether the second half ends whatever span is in the context.
EndsContextSpan(kind) == kind \in FromContext

\* Spans that a call has used when it was over: a batch has one for its
\* statement, too.
SpansUsed(c, d) ==
    IF c.own # "none" \/ d.own \in {"none", "dropped"} THEN 0
    ELSE IF c.kind = "gocql_batch" /\ spansLeft > 1 THEN 2 ELSE 1

\* A call returns.
FinishCall(g, result) ==
    /\ call[g].phase = "calling"
    /\ LET c == [call[g] EXCEPT !.result = result, !.phase = "done"]
           d == After(g, c) IN
       /\ call' = [call EXCEPT ![g] = d]
       /\ spansLeft' = spansLeft - SpansUsed(c, d)
       /\ outer' = IF EndsContextSpan(c.kind) /\ c.ctx = "outer" /\ outer.state = "open"
                   THEN [state |-> "ended", by |-> c.kind] ELSE outer
    /\ commandSpans' = commandSpans \ {g}

\* The caller ends its own span when the calls have been made.
EndOuter ==
    /\ \A g \in Caller : call[g].phase # "calling"
    /\ outer.state = "open"
    /\ outer' = [state |-> "ended", by |-> "owner"]
    /\ UNCHANGED <<call, spansLeft, commandSpans>>

CallInit ==
    /\ call = [g \in Caller |-> NoCall]
    /\ outer = [state |-> "open", by |-> "nobody"]
    /\ spansLeft \in 0..MaxSpansLeft /\ commandSpans = {}

CallNext ==
    \/ \E g \in Caller, kind \in ClientKinds : StartCall(g, kind)
    \/ \E g \in Caller : \E result \in Results(call[g].kind) : FinishCall(g, result)
    \/ EndOuter

CallSpec == CallInit /\ [][CallNext]_callVars

-----------------------------------------------------------------------------
(* An HTTP exchange, traced in detail (WithClientTrace) *)

VARIABLES
    hx,     \* the exchange: its span and the requestTracer's spans below it
    user    \* user[u]: how far u is in endSpan

exchangeVars == <<hx, user>>

NoExchange ==
    [phase |-> "idle", client |-> "http", span |-> "none", parent |-> "none", ptr |-> FALSE, ended |-> FALSE,
     open |-> {}, pending |-> {}, begun |-> {}, late |-> FALSE, ends |-> 0]

\* Pairs of callbacks, and the spans they start and end.
Dials == [what : {"connect"}, addr : ConnectAddr]
DNS == [what |-> "dns", addr |-> "none"]
TLS == [what |-> "tls", addr |-> "none"]
Request == [what |-> "request", addr |-> "none"]
Response == [what |-> "response", addr |-> "none"]

\* RoundTrip up to the call of the wrapped transport.  The headers name the
\* span, or the transaction if the span was dropped or is not sampled; a request
\* that is ignored or has no transaction gets none.
RoundTrip(span) ==
    /\ hx.phase = "idle"
    /\ hx' = [NoExchange EXCEPT !.phase = "roundtrip", !.span = span,
                  !.parent = CASE span = "none" -> "none" [] span = "open" -> "span"
                               [] OTHER -> "transaction"]
    /\ UNCHANGED user

\* RoundTrip of the Elasticsearch client: the same, without a requestTracer.
SearchRoundTrip(span) ==
    /\ hx.phase = "idle"
    /\ hx' = [NoExchange EXCEPT !.phase = "roundtrip", !.client = "elasticsearch", !.span = span,
                  !.parent = CASE span = "none" -> "none" [] span = "open" -> "span"
                               [] OTHER -> "transaction"]
    /\ UNCHANGED user

\* Mutant: callbacks that come late start spans, too.
MayStartAlways(h) == TRUE

\* requestTracer: no span is started once it has ended.
MayStart(h) == ~h.ended

\* The transport calls the requestTracer back.
Traced(h) == h.phase # "idle" /\ h.client = "http" /\ h.span \in {"open", "ended"}

\* A span is started below the exchange's.
StartChild(h, child) ==
    IF ~MayStart(h) THEN h
    ELSE [h EXCEPT !.open = @ \cup {child}, !.late = @ \/ h.span = "ended"]

EndChild(h, child) == [h EXCEPT !.open = @ \ {child}]

\* DNSStart, ConnectStart and TLSHandshakeStart: the transport, and dialers that
\* go on after the request has failed, call them at any time.
CallbackStart(child) ==
    /\ Traced(hx) /\ child \notin hx.begun
    /\ hx' = [StartChild(hx, child) EXCEPT !.pending = @ \cup {child}, !.begun = @ \cup {child}]
    /\ UNCHANGED user

\* DNSDone, ConnectDone and TLSHandshakeDone; the last one may come without a
\* start.
CallbackDone(child) ==
    /\ Traced(hx) /\ (child \in hx.pending \/ (child = TLS /\ TLS \notin hx.begun))
    /\ hx' = [EndChild(hx, child) EXCEPT !.pending = @ \ {child}, !.begun = @ \cup {child}]
    /\ UNCHANGED user

\* GotConn
GotConn ==
    /\ Traced(hx) /\ Request \notin hx.begun
    /\ hx' = [StartChild(hx, Request) EXCEPT !.begun = @ \cup {Request}]
    /\ UNCHANGED user

\* GotFirstResponseByte
GotFirstResponseByte ==
    /\ Traced(hx) /\ Request \in hx.begun /\ Response \notin hx.begun
    /\ hx' = [StartChild(EndChild(hx, Request), Response) EXCEPT !.begun = @ \cup {Response}]
    /\ UNCHANGED user

\* Mutant: end only says that the tracer has ended.
TracerEndFlag(h) == [h EXCEPT !.ended = TRUE]

\* requestTracer.end
TracerEnd(h) == [EndChild(h, Response) EXCEPT !.ended = TRUE]

SpanEnd(h) == [h EXCEPT !.span = "ended", !.ends = @ + 1]

\* The transport returns an error: first the tracer ends, then the span.
RoundTripFails ==
    /\ hx.phase = "roundtrip"
    /\ hx' = IF hx.span = "open" THEN [TracerEnd(hx) EXCEPT !.phase = "failing"]
             ELSE [hx EXCEPT !.phase = "over"]
    /\ UNCHANGED user

EndFailed ==
    /\ hx.phase = "failing"
    /\ hx' = [SpanEnd(hx) EXCEPT !.phase = "over"]
    /\ UNCHANGED user

\* The transport returns a response: its body is wrapped if there is a span.
RoundTripReturns ==
    /\ hx.phase = "roundtrip"
    /\ hx' = [hx EXCEPT !.phase = "body", !.ptr = (hx.span = "open")]
    /\ UNCHANGED user

\* Mutant: the pointer is loaded, and cleared only afterwards.
PointerKept(p) == p

\* atomic.SwapPointer leaves nil.
PointerAfterSwap(p) == FALSE

\* endSpan, for a Read that returns io.EOF and for Close, which different
\* goroutines may call: the pointer is swapped,
SwapSpan(u) ==
    /\ hx.phase = "body" /\ hx.client = "http" /\ user[u] = "idle"
    /\ hx' = [hx EXCEPT !.ptr = PointerAfterSwap(@)]
    /\ user' = [user EXCEPT ![u] = IF hx.ptr THEN "swapped" ELSE "done"]

\* the tracer is ended,
EndTracer(u) ==
    /\ user[u] = "swapped"
    /\ hx' = TracerEnd(hx)
    /\ user' = [user EXCEPT ![u] = "traced"]

\* and the span.
EndExchange(u) ==
    /\ user[u] = "traced"
    /\ hx' = SpanEnd(hx)
    /\ user' = [user EXCEPT ![u] = "done"]

\* endSpan of the Elasticsearch client, up to the call of End.
SearchSwapSpan(u) ==
    /\ hx.phase = "body" /\ hx.client = "elasticsearch" /\ user[u] = "idle"
    /\ hx' = [hx EXCEPT !.ptr = PointerAfterSwap(@)]
    /\ user' = [user EXCEPT ![u] = IF hx.ptr THEN "traced" ELSE "done"]

ExchangeInit == hx = NoExchange /\ user = [u \in BodyUser |-> "idle"]

ExchangeNext ==
    \/ \E span \in {"none", "unsampled", "dropped", "open"} : RoundTrip(span) \/ SearchRoundTrip(span)
    \/ \E child \in Dials \cup {DNS, TLS} : CallbackStart(child) \/ CallbackDone(child)
    \/ GotConn \/ GotFirstResponseByte
    \/ RoundTripFails \/ EndFailed \/ RoundTripReturns
    \/ \E u \in BodyUser : SwapSpan(u) \/ SearchSwapSpan(u) \/ EndTracer(u) \/ EndExchange(u)

ExchangeSpec == ExchangeInit /\ [][ExchangeNext]_exchangeVars

-----------------------------------------------------------------------------
(* A gRPC stream *)

VARIABLES stream

streamVars == <<stream>>

NoStream == [phase |-> "idle", span |-> "none", err |-> "none", receiving |-> FALSE,
             outcome |-> "", before |-> FALSE]

\* NewStreamClientInterceptor's call of the streamer.
OpenStream(fails) ==
    /\ stream.phase = "idle"
    /\ stream' = IF fails THEN [NoStream EXCEPT !.phase = "closed", !.span = "ended",
                                                !.outcome = "failure"]
                 ELSE [NoStream EXCEPT !.phase = "open", !.span = "open"]

\* Mutant: a call that succeeds forgets the error of an earlier one.
SetErrorAlways(e, err) == err

\* setError
SetError(e, err) == IF err # "none" THEN err ELSE e

\* SendMsg, CloseSend, Header or a RecvMsg of one of many messages.
StreamCall(err) ==
    /\ stream.phase = "open" /\ ~stream.receiving
    /\ stream' = [stream EXCEPT !.err = SetError(@, err), !.before = @ \/ err # "none"]

\* The last RecvMsg: the stream is finished and its context canceled,
FinishStream ==
    /\ stream.phase = "open"
    /\ \E receiving \in BOOLEAN :
        stream' = [stream EXCEPT !.phase = "closed", !.receiving = receiving]

\* and then RecvMsg returns io.EOF or the status, both of which are errors.
RecvReturns(err) ==
    /\ stream.receiving
    /\ stream' = [stream EXCEPT !.err = SetError(@, err), !.receiving = FALSE]

\* The goroutine that waits for the context: getError, setSpanOutcome, End.
Watch ==
    /\ stream.phase = "closed" /\ stream.span = "open"
    /\ stream' = [stream EXCEPT !.span = "ended",
                      !.outcome = IF stream.err = "none" THEN "success" ELSE "failure"]

StreamInit == stream = NoStream

StreamNext ==
    \/ \E fails \in BOOLEAN : OpenStream(fails)
    \/ \E err \in {"none", "status"} : StreamCall(err)
    \/ FinishStream \/ Watch
    \/ \E err \in {"eof", "status"} : RecvReturns(err)

StreamSpec == StreamInit /\ [][StreamNext]_streamVars

-----------------------------------------------------------------------------
(* Properties *)

\* A call ends its own span and, if it started one, its own transaction; a call
\* that database/sql is told to skip leaves its span open (conn.go:97).
CallsEndTheirSpans ==
    \A g \in Caller : call[g].phase = "done" =>
        /\ call[g].own # "open" \/ (call[g].kind = "sql" /\ call[g].result = "skip")
        /\ call[g].tx # "open"

\* No call ends a span of its caller's, except that the hooks that look for
\* their span in the context end the caller's when theirs was dropped.
EndsOnlyItsOwn == outer.state = "ended" => outer.by \in {"owner"} \cup FromContext

\* An error of a call is reported at most once, and belongs to the span of the
\* call if that is reported; gocql's queries report theirs with the caller's.
ErrorsLinked ==
    \A g \in Caller :
        /\ Cardinality(call[g].errors) <= 1
        /\ call[g].own = "ended" /\ call[g].errors # {} /\ call[g].kind # "gocql"
               => call[g].errors = {"own"}

\* However reading and closing the body interleave, the span of an exchange is
\* ended once, and it has been when everybody is done with the body.
ExchangeEndsOnce ==
    /\ hx.ends <= 1
    /\ hx.phase = "body" /\ (\A u \in BodyUser : user[u] = "done") => hx.span # "open"

\* No span is started below an exchange whose span has ended, however late the
\* transport calls back.
NoLateChildren == ~hx.late

\* When the span of an exchange has ended, a span below it is open only if its
\* callback is still to come; except the one from a connection to the first byte
\* of a response, which is never ended if the response does not come.
ChildrenEnded == hx.span = "ended" => hx.open \subseteq hx.pending \cup {Request}

\* An error that a call on the stream returned before the stream was finished
\* makes the span a failure.
StreamErrorKept ==
    stream.span = "ended" /\ stream.before => stream.outcome = "failure"

\* A call ends its spans and nobody else's, and its error is reported with them.
CallsReported == CallsEndTheirSpans /\ EndsOnlyItsOwn /\ ErrorsLinked

\* An exchange or a stream, whose span is ended by other goroutines than the one
\* that started it, ends once, with its children and with its error.
ExchangesReported == ExchangeEndsOnce /\ NoLateChildren /\ ChildrenEnded /\ StreamErrorKept
=============================================================================
