--------------------------- MODULE ServerMiddleware ---------------------------
(***************************************************************************)
(* The server side of the instrumentation modules: a request is reported   *)
(* as a transaction, panics and errors of its handler as errors.  Every    *)
(* framework has its own version of the same steps: start the transaction, *)
(* capture the body, call the handler, recover in a deferred function,     *)
(* report the status, discard the body capturer, end the transaction.      *)
(*                                                                         *)
(* A status is 0 (none), 200, 404 or 500; gRPC codes are represented by    *)
(* the status with the same meaning.  Names of transactions, headers and   *)
(* payloads are left out.                                                  *)
(***************************************************************************)
EXTENDS Integers, Sequences, FiniteSets, SequencesExt

CONSTANTS
    ServerReq,          \* goroutines that serve requests, one after the other
    Frameworks,         \* the frameworks that the service may use
    CaptureBody,        \* the frameworks whose tracer has capture_body on
    PooledCapturer,     \* body capturers
    NoBody              \* what a request without one has

\* How a framework's middleware works: `via`, whose steps it takes; `propagate`,
\* whether it may be told to let panics go on; `initial`, the status that the
\* framework's response shows before anything is set; `errors`, whether its
\* handlers return one.
Middleware(via, propagate, initial, errors) ==
    [via |-> via, propagate |-> propagate, initial |-> initial, errors |-> errors]

NetHTTP == Middleware("http", BOOLEAN, 0, FALSE)

\* Middlewares that call apmhttp.Wrap with the options they were given.
Chi == Middleware("http", {FALSE}, 0, FALSE)
ChiV5 == Middleware("http", BOOLEAN, 0, FALSE)
Gorilla == Middleware("http", BOOLEAN, 0, FALSE)
Negroni == Middleware("http", BOOLEAN, 0, FALSE)
Beego == Middleware("http", {FALSE}, 0, FALSE)

\* Copies of apmhttp's handler.
HTTPRouter == Middleware("httprouter", {FALSE}, 0, FALSE)
Restful == Middleware("restful", {FALSE}, 0, FALSE)
RestfulV3 == Middleware("restful", {FALSE}, 0, FALSE)

Gin == Middleware("gin", BOOLEAN, 200, FALSE)
Echo == Middleware("echo", {FALSE}, 200, TRUE)
EchoV4 == Middleware("echo", {FALSE}, 200, TRUE)
FastHTTP == Middleware("fasthttp", BOOLEAN, 200, FALSE)
Fiber == Middleware("fiber", BOOLEAN, 200, TRUE)

\* gRPC's interceptors propagate panics unless WithRecovery is given.
GRPCUnary == Middleware("grpc", BOOLEAN, 0, TRUE)
GRPCStream == Middleware("grpc", BOOLEAN, 0, TRUE)

Lambda == Middleware("lambda", {FALSE}, 0, TRUE)

Traits ==
    [http |-> NetHTTP, chi |-> Chi, chiv5 |-> ChiV5, gorilla |-> Gorilla, negroni |-> Negroni,
     beego |-> Beego, httprouter |-> HTTPRouter, restful |-> Restful, restfulv3 |-> RestfulV3,
     gin |-> Gin, echo |-> Echo, echov4 |-> EchoV4, fasthttp |-> FastHTTP, fiber |-> Fiber,
     grpc |-> GRPCUnary, grpc_stream |-> GRPCStream, lambda |-> Lambda]

ASSUME FrameworksKnown == Frameworks \subseteq DOMAIN Traits /\ CaptureBody \subseteq Frameworks

\* The request q is served with fasthttp, directly or below fiber.
ViaFastHTTP(q) == q.via \in {"fasthttp", "fiber"}

VARIABLES
    srv,        \* srv[r]: r's request, its response and its transaction
    bodyPool    \* how often each capturer is in the pool or could still be made

serverVars == <<srv, bodyPool>>

\* A request that the middleware of f takes up.
TakeUp(f, phase, traced, sampled, propagate, capturer) ==
    [phase |-> phase, fw |-> f, via |-> Traits[f].via, traced |-> traced, sampled |-> sampled,
     propagate |-> propagate, status |-> Traits[f].initial, committed |-> FALSE, client |-> 0,
     answers |-> 0, err |-> 0, panicking |-> FALSE, panicked |-> FALSE, capturer |-> capturer,
     result |-> 0, ctxStatus |-> 0, outcome |-> "", errors |-> <<>>, ended |-> 0]

\* A goroutine that serves with f and has no request yet.
Idle(f) == TakeUp(f, "idle", FALSE, FALSE, FALSE, NoBody)

-----------------------------------------------------------------------------
(* Responses *)

\* A handler, or the middleware, answers with a status.  apmhttp's
\* responseWriter passes every WriteHeader on and remembers the last one; the
\* response of gin and echo ignores all but the first; fasthttp's is sent when
\* the handlers have returned.
WriteHeader(q, code) ==
    LET first == ~q.committed IN
    CASE ViaFastHTTP(q) -> [q EXCEPT !.status = code]
      [] q.via \in {"gin", "echo"} ->
            IF first THEN [q EXCEPT !.status = code, !.committed = TRUE, !.client = code] ELSE q
      [] OTHER -> [q EXCEPT !.status = code, !.committed = TRUE,
                            !.client = IF first THEN code ELSE @]

\* What the server sends when the handlers have returned, or has sent: net/http
\* answers 200, gin its status, fasthttp the status that was set, and the error
\* handlers of echo and fiber the status of the error.  net/http closes the
\* connection when a panic reaches it; with fasthttp somebody must recover, or the
\* program ends.
Sent(q) ==
    IF q.client # 0 THEN q.client
    ELSE IF q.panicking /\ ~ViaFastHTTP(q) THEN 0
    ELSE IF Traits[q.fw].errors /\ q.err # 0 THEN q.err
    ELSE IF q.status # 0 THEN q.status ELSE 200

-----------------------------------------------------------------------------
(* Transactions and errors *)

\* Recovered or NewError, SetTransaction and Send.
SendError(q, kind) == [q EXCEPT !.errors = Append(@, kind)]

\* SetTransactionContext of apmhttp, and what the others do in its place.
SetTransactionContext(q) ==
    [q EXCEPT !.result = q.status, !.ctxStatus = IF q.sampled THEN q.status ELSE @]

\* Transaction.End as far as the outcome goes; a second End has no effect.
End(q) ==
    IF q.ended > 0 THEN q ELSE
    [q EXCEPT !.ended = 1,
              !.outcome = IF @ # "" THEN @
                          ELSE IF q.ctxStatus # 0
                               THEN IF q.ctxStatus < 500 THEN "success" ELSE "failure"
                          ELSE IF q.errors # <<>> THEN "failure" ELSE "success"]

-----------------------------------------------------------------------------
(* The deferred functions: each takes the request as its handler left it to   *)
(* what it is when the function is left; panicking says whether a panic goes  *)
(* on.                                                                        *)

\* apmhttp's handler when there is a panic: recovery is NewTraceRecovery.
HTTPRecover(q) ==
    [SendError(IF q.propagate THEN [q EXCEPT !.status = IF @ = 0 THEN 500 ELSE @]
               ELSE IF q.status = 0 THEN WriteHeader(q, 500) ELSE q, "recovered")
        EXCEPT !.panicking = q.propagate]

HTTPDeferred(q) == SetTransactionContext(IF q.panicking THEN HTTPRecover(q) ELSE q)

\* httprouter's copy of it, which never propagates.
RouterDeferred(q) ==
    SetTransactionContext(
        IF q.panicking
        THEN [SendError(IF q.status = 0 THEN WriteHeader(q, 500) ELSE q, "recovered")
                EXCEPT !.panicking = FALSE]
        ELSE q)

\* The filter of go-restful, v2 and v3.
RestfulDeferred(q) ==
    SetTransactionContext(
        IF q.panicking
        THEN [SendError(IF q.status = 0 THEN WriteHeader(q, 500) ELSE q, "recovered")
                EXCEPT !.panicking = FALSE]
        ELSE q)

\* gin.  AbortWithStatus writes the status; the errors that handlers added to
\* the context (at most one here) are reported last.
GinDeferred(q) ==
    LET p == IF q.panicking
             THEN [SendError(IF ~q.propagate /\ ~q.committed THEN WriteHeader(q, 500) ELSE q,
                             "recovered") EXCEPT !.panicking = q.propagate]
             ELSE q
        t == SetTransactionContext(p)
    IN IF t.err # 0 THEN SendError(t, "handled") ELSE t

\* Mutant: the status is taken before the error handler has set it.
EchoDeferredEarly(q) ==
    LET t == SetTransactionContext(q)
        p == IF q.panicking
             THEN [SendError(WriteHeader(t, 500), "recovered") EXCEPT !.panicking = FALSE]
             ELSE t
    IN IF p.err # 0 THEN SendError(p, "handled") ELSE p

\* echo v3 and v4: c.Error lets the error handler answer, if nobody has.
EchoDeferred(q) ==
    LET p == IF q.panicking
             THEN [SendError(WriteHeader(q, 500), "recovered") EXCEPT !.panicking = FALSE]
             ELSE q
    IN SetTransactionContext(IF p.err # 0 THEN SendError(p, "handled") ELSE p)

\* fiber: the error is sent with the status that was set, then the status is
\* set to 500.
FiberDeferred(q) ==
    SetTransactionContext(
        IF q.panicking
        THEN [SendError(q, "recovered") EXCEPT !.status = 500, !.panicking = q.propagate]
        ELSE q)

\* fasthttp: the recovery sets the transaction's context, too.
FastHTTPDeferred(q) ==
    IF q.panicking
    THEN [SendError(SetTransactionContext([q EXCEPT !.status = IF @ = 200 THEN 500 ELSE @]),
                    "recovered") EXCEPT !.panicking = q.propagate]
    ELSE q

\* setTransactionResult of gRPC: the outcome is set, unless the handler did.
SetTransactionResult(q) ==
    LET code == IF q.err = 0 THEN 200 ELSE q.err IN
    [q EXCEPT !.result = code, !.status = code,
              !.outcome = IF @ # "" THEN @ ELSE IF code = 500 THEN "failure" ELSE "success"]

\* Mutant: the error is sent only if the panic is recovered.
GRPCDeferredSilent(q) ==
    IF q.panicking /\ q.propagate THEN q
    ELSE SetTransactionResult(
            IF q.panicking THEN [SendError(q, "recovered") EXCEPT !.err = 500, !.panicking = FALSE]
            ELSE q)

\* The gRPC interceptors.  Without recovery the panic is raised again before
\* the transaction's result is set.
GRPCDeferred(q) ==
    IF q.panicking /\ q.propagate THEN SendError(q, "recovered")
    ELSE SetTransactionResult(
            IF q.panicking THEN [SendError(q, "recovered") EXCEPT !.err = 500, !.panicking = FALSE]
            ELSE q)

\* Invoke of the Lambda function: a panic ends here, and no error is returned.
LambdaDeferred(q) ==
    IF q.panicking THEN [SendError(q, "recovered") EXCEPT !.panicking = FALSE] ELSE q

Deferred(q) ==
    CASE q.via = "http" -> HTTPDeferred(q)
      [] q.via = "httprouter" -> RouterDeferred(q)
      [] q.via = "restful" -> RestfulDeferred(q)
      [] q.via = "gin" -> GinDeferred(q)
      [] q.via = "echo" -> EchoDeferred(q)
      [] q.via = "fiber" -> FiberDeferred(q)
      [] q.via = "fasthttp" -> FastHTTPDeferred(q)
      [] q.via = "grpc" -> GRPCDeferred(q)
      [] q.via = "lambda" -> LambdaDeferred(q)

\* The code that follows the call of the handler, when it returns.
AfterHandler(q) ==
    CASE q.via \in {"http", "httprouter", "restful"} -> [q EXCEPT !.status = IF @ = 0 THEN 200 ELSE @]
      [] q.via = "echo" -> IF q.err # 0 THEN [q EXCEPT !.status = q.err]
                          ELSE IF ~q.committed THEN WriteHeader(q, 200) ELSE q
      [] q.via = "fiber" -> IF q.err # 0 THEN SendError(q, "handled") ELSE q
      [] q.via = "lambda" -> IF q.err # 0 THEN SendError(q, "handled") ELSE q
      [] OTHER -> q

-----------------------------------------------------------------------------
(* Steps *)

\* r can serve another request.
Free(r) == srv[r].phase \in {"idle", "done", "refused", "finished"}

\* The middleware is called while the tracer does not record, or for a request
\* that is ignored: it only calls the handler.
Untraced(r) ==
    /\ Free(r)
    /\ srv[r].via # "lambda"
    /\ srv' = [srv EXCEPT ![r] = TakeUp(@.fw, "handling", FALSE, FALSE, FALSE, NoBody)]
    /\ UNCHANGED bodyPool

\* StartTransactionWithBody
StartTransaction(r) ==
    /\ Free(r)
    /\ \E sampled \in BOOLEAN, propagate \in Traits[srv[r].fw].propagate :
       \E c \in IF srv[r].fw \in CaptureBody THEN {d \in PooledCapturer : bodyPool[d] > 0} ELSE {NoBody} :
        /\ srv' = [srv EXCEPT ![r] = TakeUp(@.fw, "handling", TRUE, sampled, propagate, c)]
        /\ bodyPool' = IF c = NoBody THEN bodyPool ELSE [bodyPool EXCEPT ![c] = @ - 1]

\* The request cannot be converted for the tracer: fasthttp and fiber answer 500
\* and do not call the handler.
ConvertFails(r) ==
    /\ Free(r)
    /\ ViaFastHTTP(srv[r])
    /\ \E sampled \in BOOLEAN :
        srv' = [srv EXCEPT ![r] =
            [End(TakeUp(@.fw, "refused", TRUE, sampled, FALSE, NoBody))
                EXCEPT !.status = 500, !.client = 500]]
    /\ UNCHANGED bodyPool

\* The handler answers, perhaps more than once.
Answer(r, code) ==
    /\ srv[r].phase = "handling" /\ srv[r].answers < 2 /\ srv[r].via \notin {"grpc", "lambda"}
    /\ srv' = [srv EXCEPT ![r] = [WriteHeader(srv[r], code) EXCEPT !.answers = @ + 1]]
    /\ UNCHANGED bodyPool

\* The handler returns; one of gin may have added an error.
Return(r, err) ==
    /\ srv[r].phase = "handling" /\ (err # 0 => Traits[srv[r].fw].errors \/ srv[r].via = "gin")
    /\ srv' = [srv EXCEPT ![r] =
            LET q0 == @
                q == [q0 EXCEPT !.err = err, !.answers = @ + IF err # 0 /\ q0.via # "gin" THEN 1 ELSE 0] IN
            IF q.traced THEN [AfterHandler(q) EXCEPT !.phase = "deferred"]
            ELSE [q EXCEPT !.phase = "finished"]]
    /\ UNCHANGED bodyPool

\* The handler panics.
Panic(r) ==
    /\ srv[r].phase = "handling"
    /\ srv' = [srv EXCEPT ![r].panicking = TRUE, ![r].panicked = TRUE,
                          ![r].phase = IF srv[r].traced THEN "deferred" ELSE "finished"]
    /\ UNCHANGED bodyPool

\* Mutant: the capturer is put back by the transaction's context as well.
DiscardBodyTwice(c) == IF c = NoBody THEN bodyPool ELSE [bodyPool EXCEPT ![c] = @ + 2]

\* Body capturers: Discard.
DiscardBody(c) == IF c = NoBody THEN bodyPool ELSE [bodyPool EXCEPT ![c] = @ + 1]

\* The deferred function, which ends with body.Discard (fasthttp leaves that to
\* the closer).
RunDeferred(r) ==
    /\ srv[r].phase = "deferred"
    /\ srv' = [srv EXCEPT ![r] = [Deferred(@) EXCEPT !.phase = "ending"]]
    /\ bodyPool' = IF srv[r].via = "fasthttp" THEN bodyPool ELSE DiscardBody(srv[r].capturer)

\* Mutant: the transaction is not ended if the panic goes on.
EndsUnlessPanicking(q) == IF q.panicking THEN q ELSE End(q)

\* defer tx.End()
DeferredEnd(q) == End(q)

\* The deferred tx.End; the server has what it needs to answer.  fasthttp first
\* sends the response and then closes the txCloser that the context holds, which
\* reports the response's status, ends the transaction and discards the capturer.
Finish(r) ==
    /\ srv[r].phase = "ending"
    /\ srv' = [srv EXCEPT ![r] =
            IF ViaFastHTTP(srv[r])
            THEN LET sent == Sent(@)
                     q == [@ EXCEPT !.client = sent, !.status = sent]
                 IN [End(SetTransactionContext(q)) EXCEPT !.phase = "done"]
            ELSE LET q == DeferredEnd(@) IN [q EXCEPT !.client = Sent(q), !.phase = "done"]]
    /\ bodyPool' = IF ViaFastHTTP(srv[r]) THEN DiscardBody(srv[r].capturer) ELSE bodyPool

ServerInit ==
    /\ \E f \in Frameworks : srv = [r \in ServerReq |-> Idle(f)]
    /\ bodyPool = [c \in PooledCapturer |-> 1]

ServerNext == \E r \in ServerReq :
    \/ Untraced(r) \/ StartTransaction(r) \/ ConvertFails(r)
    \/ \E code \in {200, 404} : Answer(r, code)
    \/ \E err \in {0, 404, 500} : Return(r, err)
    \/ Panic(r) \/ RunDeferred(r) \/ Finish(r)

ServerSpec == ServerInit /\ [][ServerNext]_serverVars

-----------------------------------------------------------------------------
(* Properties *)

\* Every traced request's transaction is ended when the middleware is left, also
\* when a panic goes on; every panic is reported as one error, the first; and a
\* panic reaches the server exactly if the middleware was asked to propagate it.
PanicsReported ==
    \A r \in ServerReq : LET q == srv[r] IN
        q.phase = "done" =>
            /\ q.ended = 1
            /\ {i \in DOMAIN q.errors : q.errors[i] = "recovered"}
                   = (IF q.panicked THEN {1} ELSE {})
            /\ q.panicking = (q.panicked /\ q.propagate)

\* The result of a transaction is the status that the client was sent, unless
\* the handler answered twice: apmhttp then reports the second status, and echo
\* that of an error returned after the answer.  A panic that goes on leaves no
\* answer to compare with.  gRPC and Lambda have no other status than the result.
StatusReported ==
    \A r \in ServerReq : LET q == srv[r] IN
        q.phase = "done" /\ q.answers < 2 /\ ~q.panicking /\ q.via \notin {"grpc", "lambda"}
            => q.result = q.client

\* A handler that panics before it has answered makes the transaction a failure,
\* sampled or not, whatever the framework; except that gin's response shows the
\* status 200 while a panic is propagated.
PanicIsFailure ==
    \A r \in ServerReq : LET q == srv[r] IN
        q.phase = "done" /\ q.panicked /\ q.answers = 0
            => q.outcome = "failure" \/ (q.via = "gin" /\ q.propagate /\ q.sampled)

\* Two requests that are being handled never share a body capturer.
BodiesSeparate ==
    \A q, r \in ServerReq :
        /\ srv[q].phase = "handling" /\ srv[r].phase = "handling"
        /\ srv[q].capturer = srv[r].capturer
        => q = r \/ srv[q].capturer = NoBody

\* Every request is reported, as what it was, and apart from the others.
RequestsReported == PanicsReported /\ StatusReported /\ PanicIsFailure /\ BodiesSeparate
=============================================================================
