------------------------- MODULE IntegrationsProofs -------------------------
(***************************************************************************)
(* Theorems about the instrumentation modules, for every value of their    *)
(* constants: the client's calls, exchanges and streams (ClientSpans), the *)
(* bridges of OpenTracing and OpenTelemetry (Bridges) and the server's     *)
(* requests (ServerMiddleware).                                            *)
(***************************************************************************)
EXTENDS ServerMiddleware, ClientSpans, Bridges, FiniteSetTheorems, TLAPS

-----------------------------------------------------------------------------
(* HTTP exchanges *)

Child == Dials \cup {DNS, TLS, Request, Response}

Exchange == [phase : {"idle", "roundtrip", "failing", "body", "over"},
             client : {"http", "elasticsearch"},
             span : {"none", "unsampled", "dropped", "open", "ended"},
             parent : {"none", "span", "transaction"}, ptr : BOOLEAN, ended : BOOLEAN,
             open : SUBSET Child, pending : SUBSET Child, begun : SUBSET Child,
             late : BOOLEAN, ends : Nat]

\* Users of the body that have taken the pointer, and are to end the span.
Ending == {u \in BodyUser : user[u] \in {"swapped", "traced"}}

\* The inductive invariant behind ExchangeEndsOnce: the right to end the span is in
\* the pointer, with one user of the body, or used up.
EndsInv ==
    /\ hx.span = "ended" <=> hx.ends = 1
    /\ hx.ends \in {0, 1}
    /\ hx.ptr => hx.phase = "body" /\ hx.span = "open" /\ \A u \in BodyUser : user[u] = "idle"
    /\ hx.phase # "body" => \A u \in BodyUser : user[u] = "idle"
    /\ hx.phase \in {"idle", "roundtrip"} => hx.ends = 0
    /\ hx.phase = "failing" => hx.span = "open"
    /\ \A u \in Ending : hx.span = "open" /\ ~hx.ptr /\ \A v \in Ending : v = u
    /\ hx.phase = "body" /\ hx.span = "open" /\ ~hx.ptr => Ending # {}

\* The inductive invariant behind NoLateChildren and ChildrenEnded: the tracer ends
\* before the span, and has then ended the span of the response.
TracerInv ==
    /\ ~hx.late
    /\ hx.open \subseteq hx.pending \cup {Request, Response}
    /\ hx.ended => Response \notin hx.open
    /\ hx.client = "elasticsearch" => hx.open = {}
    /\ hx.phase = "idle" => hx.open = {}
    /\ hx.span = "ended" /\ hx.client = "http" => hx.ended
    /\ hx.phase = "failing" => hx.ended
    /\ \A u \in BodyUser : user[u] = "traced" /\ hx.client = "http" => hx.ended

ExchangeInv ==
    /\ hx \in Exchange /\ user \in [BodyUser -> {"idle", "swapped", "traced", "done"}]
    /\ EndsInv /\ TracerInv

\* Nothing has happened.
LEMMA ExchangeInitial == ExchangeInit => ExchangeInv
<1> SUFFICES ASSUME ExchangeInit PROVE ExchangeInv
  OBVIOUS
<1>1. hx = NoExchange /\ user = [u \in BodyUser |-> "idle"]
  BY DEF ExchangeInit
<1>2. hx \in Exchange
  BY <1>1 DEF NoExchange, Exchange
<1>3. /\ hx.phase = "idle" /\ hx.span = "none" /\ ~hx.ptr /\ ~hx.ended /\ ~hx.late
      /\ hx.open = {} /\ hx.ends = 0
  BY <1>1 DEF NoExchange
<1>4. EndsInv
  BY <1>1, <1>3 DEF EndsInv, Ending
<1>5. TracerInv
  BY <1>1, <1>3 DEF TracerInv
<1> QED
  BY <1>1, <1>2, <1>4, <1>5 DEF ExchangeInv

\* The request is sent.
LEMMA ExchangeStarts ==
    ASSUME ExchangeInv, NEW span \in {"none", "unsampled", "dropped", "open"},
           RoundTrip(span) \/ SearchRoundTrip(span)
    PROVE  ExchangeInv'
<1>1. /\ hx.phase = "idle" /\ UNCHANGED user
      /\ hx' \in Exchange /\ hx'.phase = "roundtrip" /\ hx'.span = span
      /\ ~hx'.ptr /\ ~hx'.ended /\ ~hx'.late /\ hx'.open = {} /\ hx'.ends = 0
  <2>1. CASE RoundTrip(span)
    BY <2>1 DEF RoundTrip, NoExchange, Exchange
  <2>2. CASE SearchRoundTrip(span)
    BY <2>2 DEF SearchRoundTrip, NoExchange, Exchange
  <2> QED
    BY <2>1, <2>2
<1>2. EndsInv'
  BY <1>1 DEF ExchangeInv, EndsInv, Ending
<1>3. TracerInv'
  BY <1>1 DEF ExchangeInv, EndsInv, TracerInv
<1> QED
  BY <1>1, <1>2, <1>3 DEF ExchangeInv

\* What the start of a span below the exchange's does.
Starts(h, s, child) ==
    /\ s.phase = h.phase /\ s.client = h.client /\ s.span = h.span
    /\ s.ptr = h.ptr /\ s.ended = h.ended /\ s.ends = h.ends /\ s.pending = h.pending
    /\ s.open \subseteq h.open \cup {child}
    /\ s.late => h.late \/ (~h.ended /\ h.span = "ended")
    /\ child \in s.open => child \in h.open \/ ~h.ended

LEMMA StartChildIs ==
    ASSUME NEW h \in Exchange, NEW child \in Child
    PROVE  StartChild(h, child) \in Exchange /\ Starts(h, StartChild(h, child), child)
<1>1. CASE h.ended
  BY <1>1 DEF StartChild, MayStart, Starts
<1>2. CASE ~h.ended
  <2>1. PICK s : s = StartChild(h, child)
    OBVIOUS
  <2>2. s = [h EXCEPT !.open = h.open \cup {child}, !.late = h.late \/ h.span = "ended"]
    BY <1>2, <2>1 DEF StartChild, MayStart
  <2>3. s \in Exchange
    BY <2>2 DEF Exchange
  <2>4. Starts(h, s, child)
    BY <1>2, <2>2 DEF Exchange, Starts
  <2> QED
    BY <2>1, <2>3, <2>4
<1> QED
  BY <1>1, <1>2

\* A callback of the transport: spans below the exchange's start and end.
LEMMA ExchangeCallback ==
    ASSUME ExchangeInv,
           \/ \E child \in Dials \cup {DNS, TLS} : CallbackStart(child) \/ CallbackDone(child)
           \/ GotConn \/ GotFirstResponseByte
    PROVE  ExchangeInv'
<1>1. /\ hx \in Exchange /\ Traced(hx) /\ UNCHANGED user
      /\ EndsInv /\ TracerInv
  BY DEF ExchangeInv, CallbackStart, CallbackDone, GotConn, GotFirstResponseByte
<1>2. /\ Response # Request /\ \A d \in Dials \cup {DNS, TLS} : d # Response /\ d \in Child
      /\ Request \in Child /\ Response \in Child
  BY DEF Dials, DNS, TLS, Request, Response, Child
<1>3. /\ hx' \in Exchange
      /\ hx'.phase = hx.phase /\ hx'.client = hx.client /\ hx'.span = hx.span
      /\ hx'.ptr = hx.ptr /\ hx'.ended = hx.ended /\ hx'.ends = hx.ends
      /\ hx'.late => hx.late \/ (~hx.ended /\ hx.span = "ended")
      /\ hx'.open \subseteq hx'.pending \cup {Request, Response}
      /\ Response \in hx'.open => Response \in hx.open \/ ~hx.ended
  <2>1. ASSUME NEW child \in Dials \cup {DNS, TLS}, CallbackStart(child)
        PROVE  <1>3!:
    <3>1. child \in Child /\ child # Response
      BY <1>2
    <3>2. PICK s : s = StartChild(hx, child)
      OBVIOUS
    <3>3. s \in Exchange /\ Starts(hx, s, child)
      BY <1>1, <3>1, <3>2, StartChildIs
    <3>4. hx' = [s EXCEPT !.pending = s.pending \cup {child}, !.begun = s.begun \cup {child}]
      BY <2>1, <3>2 DEF CallbackStart
    <3>5. /\ hx' \in Exchange
          /\ hx'.phase = s.phase /\ hx'.client = s.client /\ hx'.span = s.span
          /\ hx'.ptr = s.ptr /\ hx'.ended = s.ended /\ hx'.ends = s.ends
          /\ hx'.late = s.late /\ hx'.open = s.open /\ hx'.pending = s.pending \cup {child}
      BY <3>1, <3>3, <3>4 DEF Exchange
    <3>6. hx.open \subseteq hx.pending \cup {Request, Response}
      BY <1>1 DEF TracerInv
    <3> QED
      BY <3>1, <3>3, <3>5, <3>6 DEF Starts
  <2>2. ASSUME NEW child \in Dials \cup {DNS, TLS}, CallbackDone(child)
        PROVE  <1>3!:
    BY <1>1, <1>2, <2>2 DEF CallbackDone, EndChild, Exchange, TracerInv
  <2>3. CASE GotConn
    BY <1>1, <1>2, <2>3 DEF GotConn, StartChild, MayStart, Exchange, TracerInv
  <2>4. CASE GotFirstResponseByte
    BY <1>1, <1>2, <2>4 DEF GotFirstResponseByte, StartChild, EndChild, MayStart, Exchange,
                            TracerInv
  <2> QED
    BY <2>1, <2>2, <2>3, <2>4
<1>4. EndsInv'
  BY <1>1, <1>3 DEF EndsInv, Ending
<1>5. TracerInv'
  BY <1>1, <1>3 DEF TracerInv, Traced
<1> QED
  BY <1>1, <1>3, <1>4, <1>5 DEF ExchangeInv

\* The span is ended.
LEMMA SpanEndIs ==
    ASSUME NEW h \in Exchange
    PROVE  /\ SpanEnd(h) \in Exchange
           /\ SpanEnd(h).phase = h.phase /\ SpanEnd(h).client = h.client
           /\ SpanEnd(h).span = "ended" /\ SpanEnd(h).ptr = h.ptr
           /\ SpanEnd(h).ended = h.ended /\ SpanEnd(h).open = h.open
           /\ SpanEnd(h).pending = h.pending /\ SpanEnd(h).late = h.late
           /\ SpanEnd(h).ends = h.ends + 1
<1> DEFINE g == [h EXCEPT !.span = "ended"]
           n == h.ends + 1
<1>1. n \in Nat
  BY DEF Exchange
<1>2. SpanEnd(h) = [g EXCEPT !.ends = n]
  BY DEF SpanEnd, Exchange
<1>3. /\ g \in Exchange
      /\ g.phase = h.phase /\ g.client = h.client /\ g.span = "ended" /\ g.ptr = h.ptr
      /\ g.ended = h.ended /\ g.open = h.open /\ g.pending = h.pending /\ g.late = h.late
  BY DEF Exchange
<1> HIDE DEF g, n
<1>4. [g EXCEPT !.ends = n] \in Exchange /\ [g EXCEPT !.ends = n].ends = n
  BY <1>1, <1>3 DEF Exchange
<1> QED
  BY <1>2, <1>3, <1>4 DEF Exchange, n

\* The transport has returned: an error ends the tracer and the span, a response
\* leaves them to the users of its body.
LEMMA ExchangeReturns ==
    ASSUME ExchangeInv, RoundTripFails \/ EndFailed \/ RoundTripReturns
    PROVE  ExchangeInv'
<1>1. hx \in Exchange /\ UNCHANGED user /\ EndsInv /\ TracerInv
  BY DEF ExchangeInv, RoundTripFails, EndFailed, RoundTripReturns
<1>2. CASE RoundTripFails
  <2>1. /\ hx.phase = "roundtrip" /\ hx' \in Exchange
        /\ hx'.phase = IF hx.span = "open" THEN "failing" ELSE "over"
        /\ hx'.client = hx.client /\ hx'.span = hx.span /\ hx'.ptr = hx.ptr
        /\ hx'.ends = hx.ends /\ hx'.late = hx.late /\ hx'.pending = hx.pending
        /\ hx'.ended = (hx.ended \/ hx.span = "open")
        /\ hx'.open = IF hx.span = "open" THEN hx.open \ {Response} ELSE hx.open
    BY <1>1, <1>2 DEF RoundTripFails, TracerEnd, EndChild, Exchange
  <2>2. EndsInv'
    BY <1>1, <2>1 DEF EndsInv, Ending
  <2>3. TracerInv'
    BY <1>1, <2>1 DEF TracerInv, EndsInv
  <2> QED
    BY <1>1, <2>1, <2>2, <2>3 DEF ExchangeInv
<1>3. CASE EndFailed
  <2>1. /\ hx.phase = "failing" /\ hx' \in Exchange /\ hx'.phase = "over"
        /\ hx'.client = hx.client /\ hx'.span = "ended" /\ hx'.ptr = hx.ptr
        /\ hx'.ends = hx.ends + 1 /\ hx'.late = hx.late /\ hx'.pending = hx.pending
        /\ hx'.ended = hx.ended /\ hx'.open = hx.open
    BY <1>1, <1>3, SpanEndIs DEF EndFailed, Exchange
  <2>2. EndsInv'
    BY <1>1, <2>1 DEF EndsInv, Ending
  <2>3. TracerInv'
    BY <1>1, <2>1 DEF TracerInv, EndsInv
  <2> QED
    BY <1>1, <2>1, <2>2, <2>3 DEF ExchangeInv
<1>4. CASE RoundTripReturns
  <2>1. /\ hx.phase = "roundtrip" /\ hx' \in Exchange /\ hx'.phase = "body"
        /\ hx'.client = hx.client /\ hx'.span = hx.span /\ hx'.ptr = (hx.span = "open")
        /\ hx'.ends = hx.ends /\ hx'.late = hx.late /\ hx'.pending = hx.pending
        /\ hx'.ended = hx.ended /\ hx'.open = hx.open
    BY <1>1, <1>4 DEF RoundTripReturns, Exchange
  <2>2. EndsInv'
    BY <1>1, <2>1 DEF EndsInv, Ending
  <2>3. TracerInv'
    BY <1>1, <2>1 DEF TracerInv, EndsInv
  <2> QED
    BY <1>1, <2>1, <2>2, <2>3 DEF ExchangeInv
<1> QED
  BY <1>2, <1>3, <1>4

\* A user of the body swaps the pointer: the one that gets it is the only one
\* that goes on to end the span.
LEMMA ExchangeSwaps ==
    ASSUME ExchangeInv, NEW u \in BodyUser, SwapSpan(u) \/ SearchSwapSpan(u)
    PROVE  ExchangeInv'
<1>1. /\ hx \in Exchange /\ EndsInv /\ TracerInv
      /\ user \in [BodyUser -> {"idle", "swapped", "traced", "done"}]
  BY DEF ExchangeInv
<1>2. /\ hx.phase = "body" /\ user[u] = "idle" /\ hx' \in Exchange
      /\ hx'.phase = hx.phase /\ hx'.client = hx.client /\ hx'.span = hx.span
      /\ hx'.ptr = FALSE /\ hx'.ends = hx.ends /\ hx'.late = hx.late
      /\ hx'.pending = hx.pending /\ hx'.ended = hx.ended /\ hx'.open = hx.open
  BY <1>1 DEF SwapSpan, SearchSwapSpan, PointerAfterSwap, Exchange
<1>3. /\ user' \in [BodyUser -> {"idle", "swapped", "traced", "done"}]
      /\ \A v \in BodyUser : v # u => user'[v] = user[v]
      /\ IF hx.ptr THEN user'[u] \in {"swapped", "traced"} ELSE user'[u] = "done"
      /\ user'[u] = "traced" => hx.client = "elasticsearch"
  BY <1>1 DEF SwapSpan, SearchSwapSpan
<1>4. CASE hx.ptr
  <2>1. Ending' = {u}
    BY <1>1, <1>3, <1>4 DEF Ending, EndsInv
  <2> QED
    BY <1>1, <1>2, <1>3, <1>4, <2>1 DEF ExchangeInv, EndsInv, TracerInv
<1>5. CASE ~hx.ptr
  <2>1. Ending' = Ending
    BY <1>2, <1>3, <1>5 DEF Ending
  <2>2. EndsInv'
    BY <1>1, <1>2, <1>3, <1>5, <2>1 DEF EndsInv
  <2>3. TracerInv'
    BY <1>1, <1>2, <1>3, <1>5 DEF TracerInv
  <2> QED
    BY <1>2, <1>3, <2>2, <2>3 DEF ExchangeInv
<1> QED
  BY <1>4, <1>5

\* That user ends the tracer and then the span.
LEMMA ExchangeEnding ==
    ASSUME ExchangeInv, NEW u \in BodyUser, EndTracer(u) \/ EndExchange(u)
    PROVE  ExchangeInv'
<1>1. /\ hx \in Exchange /\ EndsInv /\ TracerInv
      /\ user \in [BodyUser -> {"idle", "swapped", "traced", "done"}]
  BY DEF ExchangeInv
<1>2. u \in Ending /\ hx.phase = "body" /\ hx.span = "open" /\ ~hx.ptr /\ Ending = {u}
        /\ hx.ends = 0
  <2>1. u \in Ending
    BY DEF Ending, EndTracer, EndExchange
  <2>2. hx.phase = "body"
    BY <1>1, <2>1 DEF EndsInv, Ending
  <2>3. hx.span = "open" /\ ~hx.ptr /\ \A v \in Ending : v = u
    BY <1>1, <2>1 DEF EndsInv
  <2> QED
    BY <1>1, <2>1, <2>2, <2>3 DEF EndsInv
<1>3. CASE EndTracer(u)
  <2>1. /\ hx' \in Exchange /\ hx'.phase = hx.phase /\ hx'.client = hx.client
        /\ hx'.span = hx.span /\ hx'.ptr = hx.ptr /\ hx'.ends = hx.ends
        /\ hx'.late = hx.late /\ hx'.pending = hx.pending
        /\ hx'.ended = TRUE /\ hx'.open = hx.open \ {Response}
    BY <1>1, <1>3 DEF EndTracer, TracerEnd, EndChild, Exchange
  <2>2. /\ user' \in [BodyUser -> {"idle", "swapped", "traced", "done"}]
        /\ user'[u] = "traced" /\ \A v \in BodyUser : v # u => user'[v] = user[v]
    BY <1>1, <1>3 DEF EndTracer
  <2>3. Ending' = Ending
    BY <1>2, <2>2 DEF Ending
  <2>4. EndsInv'
    BY <1>1, <1>2, <2>1, <2>2, <2>3 DEF EndsInv
  <2>5. TracerInv'
    BY <1>1, <1>2, <2>1, <2>2 DEF TracerInv
  <2> QED
    BY <2>1, <2>2, <2>4, <2>5 DEF ExchangeInv
<1>4. CASE EndExchange(u)
  <2>1. /\ hx' \in Exchange /\ hx'.phase = hx.phase /\ hx'.client = hx.client
        /\ hx'.span = "ended" /\ hx'.ptr = hx.ptr /\ hx'.ends = hx.ends + 1
        /\ hx'.late = hx.late /\ hx'.pending = hx.pending
        /\ hx'.ended = hx.ended /\ hx'.open = hx.open /\ user[u] = "traced"
    BY <1>1, <1>4, SpanEndIs DEF EndExchange, Exchange
  <2>2. /\ user' \in [BodyUser -> {"idle", "swapped", "traced", "done"}]
        /\ user'[u] = "done" /\ \A v \in BodyUser : v # u => user'[v] = user[v]
    BY <1>1, <1>4 DEF EndExchange
  <2>3. Ending' = {}
    BY <1>2, <2>2 DEF Ending
  <2>4. EndsInv'
    BY <1>1, <1>2, <2>1, <2>2, <2>3 DEF EndsInv
  <2>5. TracerInv'
    BY <1>1, <1>2, <2>1, <2>2 DEF TracerInv
  <2> QED
    BY <2>1, <2>2, <2>4, <2>5 DEF ExchangeInv
<1> QED
  BY <1>3, <1>4

\* Every step preserves the invariant.
LEMMA ExchangeStep == ExchangeInv /\ [ExchangeNext]_exchangeVars => ExchangeInv'
<1> SUFFICES ASSUME ExchangeInv, [ExchangeNext]_exchangeVars PROVE ExchangeInv'
  OBVIOUS
<1>1. CASE UNCHANGED exchangeVars
  BY <1>1 DEF exchangeVars, ExchangeInv, EndsInv, Ending, TracerInv
<1> QED
  BY <1>1, ExchangeStarts, ExchangeCallback, ExchangeReturns, ExchangeSwaps, ExchangeEnding
     DEF ExchangeNext

\* What the invariant says.
LEMMA ExchangeSafe == ExchangeInv => ExchangeEndsOnce /\ NoLateChildren /\ ChildrenEnded
<1> SUFFICES ASSUME ExchangeInv PROVE ExchangeEndsOnce /\ NoLateChildren /\ ChildrenEnded
  OBVIOUS
<1>1. ExchangeEndsOnce
  <2>1. PICK u \in BodyUser : TRUE
    BY KindsKnown
  <2>2. (\A v \in BodyUser : user[v] = "done") => ~hx.ptr /\ Ending = {}
    BY <2>1 DEF ExchangeInv, EndsInv, Ending
  <2> QED
    BY <2>2 DEF ExchangeInv, EndsInv, ExchangeEndsOnce
<1>2. ChildrenEnded
  <2>1. hx.client \in {"http", "elasticsearch"}
    BY DEF ExchangeInv, Exchange
  <2> QED
    BY <2>1 DEF ExchangeInv, TracerInv, ChildrenEnded
<1> QED
  BY <1>1, <1>2 DEF ExchangeInv, TracerInv, NoLateChildren

-----------------------------------------------------------------------------
(* gRPC streams *)

\* The inductive invariant behind StreamErrorKept: an error that was returned before
\* the stream was finished is kept, since only errors replace it.
ClientStreamInv ==
    /\ stream \in [phase : {"idle", "open", "closed"}, span : {"none", "open", "ended"},
                   err : {"none", "eof", "status"}, receiving : BOOLEAN,
                   outcome : {"", "success", "failure"}, before : BOOLEAN]
    /\ stream.before => stream.err # "none"
    /\ stream.span = "ended" => stream.phase = "closed"
    /\ StreamErrorKept

\* Every step preserves the invariant.
LEMMA StreamStep == ClientStreamInv /\ [StreamNext]_streamVars => ClientStreamInv'
<1> SUFFICES ASSUME ClientStreamInv, [StreamNext]_streamVars PROVE ClientStreamInv'
  OBVIOUS
<1> USE DEF ClientStreamInv, StreamErrorKept
<1>1. ASSUME NEW fails \in BOOLEAN, OpenStream(fails) PROVE ClientStreamInv'
  <2>1. ~stream'.before
    BY <1>1 DEF OpenStream, NoStream
  <2>2. CASE fails
    BY <1>1, <2>1, <2>2 DEF OpenStream, NoStream
  <2>3. CASE ~fails
    BY <1>1, <2>1, <2>3 DEF OpenStream, NoStream
  <2> QED
    BY <2>2, <2>3
<1>2. ASSUME NEW err \in {"none", "status"}, StreamCall(err) PROVE ClientStreamInv'
  <2>1. CASE err = "none"
    BY <1>2, <2>1 DEF StreamCall, SetError
  <2>2. CASE err = "status"
    <3>1. stream' = [[stream EXCEPT !.err = "status"] EXCEPT !.before = TRUE]
      BY <1>2, <2>2 DEF StreamCall, SetError
    <3> QED
      BY <1>2, <3>1 DEF StreamCall
  <2> QED
    BY <2>1, <2>2
<1>3. CASE FinishStream
  BY <1>3 DEF FinishStream
<1>4. ASSUME NEW err \in {"eof", "status"}, RecvReturns(err) PROVE ClientStreamInv'
  BY <1>4 DEF RecvReturns, SetError
<1>5. CASE Watch
  BY <1>5 DEF Watch
<1>6. CASE UNCHANGED streamVars
  BY <1>6 DEF streamVars
<1> QED
  BY <1>1, <1>2, <1>3, <1>4, <1>5, <1>6 DEF StreamNext

\* However the users of a response's body, the callbacks of the transport and the
\* calls on a stream interleave (module/apmhttp/client.go, clienttrace.go;
\* module/apmgrpc/client.go), the span is ended once, with its error, none is
\* started below it afterwards and none is left open whose callback has come.
THEOREM ExchangesAreReported == ExchangeSpec /\ StreamSpec => []ExchangesReported
<1>1. StreamInit => ClientStreamInv
  <2> SUFFICES ASSUME StreamInit PROVE ClientStreamInv
    OBVIOUS
  <2>1. stream = NoStream /\ ~stream.before
    BY DEF StreamInit, NoStream
  <2> QED
    BY <2>1 DEF NoStream, ClientStreamInv, StreamErrorKept
<1>2. ExchangeInv /\ ClientStreamInv => ExchangesReported
  BY ExchangeSafe DEF ClientStreamInv, ExchangesReported
<1> QED
  BY <1>1, <1>2, ExchangeInitial, ExchangeStep, StreamStep, PTL DEF ExchangeSpec, StreamSpec

-----------------------------------------------------------------------------
(* Calls *)

Reporting == {"outer", "own", "none"}

ClientCall == [kind : AllKinds, phase : {"idle", "calling", "done"},
               own : {"none", "open", "dropped", "ended"}, ctx : Reporting,
               tx : {"none", "open", "ended"},
               result : ConnResults \cup StmtResults \cup GormResults \cup PgxResults,
               errors : SUBSET Reporting]

\* A call that is being made: its span, if it has one already, is open and in the
\* context, or dropped; only gorm forgets the context of the caller.
Made(c) ==
    /\ c.errors = {} /\ c.own \in {"none", "open", "dropped"}
    /\ c.own = "open" <=> c.ctx = "own"
    /\ c.own = "none" <=> c.kind \in Afterwards
    /\ c.tx \in {"none", "open"}
    /\ c.tx = "open" => c.kind = "azure_queue"

\* A call that is over.
Reported(c) ==
    /\ c.own # "open" \/ (c.kind = "sql" /\ c.result = "skip")
    /\ c.tx # "open"
    /\ c.errors = {} \/ \E x \in Reporting : c.errors = {x}
    /\ c.own = "ended" /\ c.errors # {} /\ c.kind # "gocql" => c.errors = {"own"}

\* The inductive invariant behind CallsReported: the span of a mongo command that
\* is being made is in the monitor's map, where its end looks for it.
CallInv ==
    /\ call \in [Caller -> ClientCall]
    /\ \A g \in Caller :
        /\ call[g].phase = "idle" => call[g].errors = {}
        /\ call[g].phase = "calling" => Made(call[g])
        /\ call[g].phase = "calling" /\ call[g].kind = "mongo" /\ call[g].own = "open"
               => g \in commandSpans
        /\ call[g].phase = "done" => Reported(call[g])
    /\ EndsOnlyItsOwn

\* What the operators on calls do.
LEMMA StartSpanIs ==
    ASSUME NEW c \in ClientCall
    PROVE  LET d == StartSpanOptions(c) IN
           /\ d \in ClientCall
           /\ d.kind = c.kind /\ d.phase = c.phase /\ d.tx = c.tx /\ d.result = c.result
           /\ d.errors = c.errors
           /\ \/ d.own = "open" /\ d.ctx = "own"
              \/ d.own = "dropped" /\ d.ctx = c.ctx
  BY DEF StartSpanOptions, ClientCall, Reporting

\* What ending one does.
LEMMA EndSpanIs ==
    ASSUME NEW c \in ClientCall, NEW w
    PROVE  LET d == EndSpan(c, w) IN
           /\ d \in ClientCall
           /\ d.kind = c.kind /\ d.phase = c.phase /\ d.tx = c.tx /\ d.result = c.result
           /\ d.errors = c.errors /\ d.ctx = c.ctx
           /\ d.own = IF w = "own" /\ c.own = "open" THEN "ended" ELSE c.own
  BY DEF EndSpan, ClientCall

\* What capturing an error does.
LEMMA CaptureErrorIs ==
    ASSUME NEW c \in ClientCall, c.errors = {}
    PROVE  LET d == CaptureError(c) IN
           /\ d \in ClientCall
           /\ d.kind = c.kind /\ d.phase = c.phase /\ d.tx = c.tx /\ d.result = c.result
           /\ d.errors = {c.ctx} /\ d.ctx = c.ctx /\ d.own = c.own
  BY DEF CaptureError, ClientCall

\* The first half of a call.
LEMMA BeforeIs ==
    ASSUME NEW c \in ClientCall, c.own = "none", c.ctx = "outer", c.tx = "none",
           c.errors = {}, c.phase = "calling"
    PROVE  /\ Before(c) \in ClientCall /\ Before(c).phase = "calling"
           /\ Before(c).kind = c.kind /\ Made(Before(c))
<1> DEFINE d == StartSpanOptions(c)
<1>1. /\ d \in ClientCall
      /\ d.kind = c.kind /\ d.phase = c.phase /\ d.tx = c.tx /\ d.result = c.result
      /\ d.errors = c.errors
      /\ \/ d.own = "open" /\ d.ctx = "own"
         \/ d.own = "dropped" /\ d.ctx = c.ctx
  BY StartSpanIs
<1> HIDE DEF d
<1>2. c.kind \in AllKinds
  BY DEF ClientCall
<1>3. CASE c.kind \in Afterwards
  BY <1>3 DEF Before, Made, Afterwards
<1>4. CASE c.kind = "gorm"
  <2>1. Before(c) = IF d.own = "dropped" THEN [d EXCEPT !.ctx = "none"] ELSE d
    BY <1>4 DEF Before, Afterwards, GormBefore, d
  <2>2. [d EXCEPT !.ctx = "none"] \in ClientCall
    BY <1>1 DEF ClientCall, Reporting
  <2> QED
    BY <1>1, <1>4, <2>1, <2>2 DEF Made, Afterwards, ClientCall
<1>5. CASE c.kind = "azure_queue"
  <2>1. Before(c) = AzureReceive(c)
    BY <1>5 DEF Before, Afterwards
  <2> QED
    BY <1>5, <2>1 DEF AzureReceive, Made, Afterwards, ClientCall, Reporting
<1>6. CASE c.kind \notin Afterwards \cup {"gorm", "azure_queue"}
  <2>1. Before(c) = d
    BY <1>2, <1>6 DEF Before, Afterwards, AllKinds, FromContext, Defers, SQLStart, SQLConnect,
       GopgBeforeQuery, GopgV10BeforeQuery, PgxV5Start, RedigoDo, RedisProcess,
       RedisBeforeProcess, CommandStarted, UnaryClient, AWSBuild, AzureDo, d
  <2> QED
    BY <1>1, <1>6, <2>1 DEF Made
<1> QED
  BY <1>3, <1>4, <1>5, <1>6

\* The second half of a call.
LEMMA AfterIs ==
    ASSUME NEW g \in Caller, NEW c \in ClientCall, Made(c), c.phase = "done",
           c.kind = "mongo" /\ c.own = "open" => g \in commandSpans
    PROVE  /\ After(g, c) \in ClientCall /\ After(g, c).phase = "done"
           /\ Reported(After(g, c))
<1> DEFINE s == StartSpanOptions(c)
           e == CaptureError(c)
           f == CaptureError(s)
<1>1. /\ s \in ClientCall
      /\ s.kind = c.kind /\ s.phase = c.phase /\ s.tx = c.tx /\ s.result = c.result
      /\ s.errors = c.errors
      /\ \/ s.own = "open" /\ s.ctx = "own"
         \/ s.own = "dropped" /\ s.ctx = c.ctx
  BY StartSpanIs
<1>2. /\ e \in ClientCall
      /\ e.kind = c.kind /\ e.phase = c.phase /\ e.tx = c.tx /\ e.result = c.result
      /\ e.errors = {c.ctx} /\ e.ctx = c.ctx /\ e.own = c.own
  BY CaptureErrorIs DEF Made
<1>3. /\ f \in ClientCall
      /\ f.kind = c.kind /\ f.phase = c.phase /\ f.tx = c.tx /\ f.result = c.result
      /\ f.errors = {s.ctx} /\ f.ctx = s.ctx /\ f.own = s.own
  <2> HIDE DEF s
  <2> QED
    BY <1>1, CaptureErrorIs DEF Made
<1>4. /\ c.ctx \in Reporting /\ s.ctx \in Reporting
  BY <1>1 DEF ClientCall
<1> HIDE DEF s, e, f
<1>5. ASSUME NEW x \in {c, e}, NEW w, c.own = "open" => w = "own" \/ w = c.ctx,
             c.kind \notin Afterwards, c.tx = "none"
      PROVE  EndSpan(x, w) \in ClientCall /\ EndSpan(x, w).phase = "done"
             /\ Reported(EndSpan(x, w))
  BY <1>2, <1>4, <1>5, EndSpanIs DEF Made, Reported
<1>6. CASE c.kind = "sql"
  <2>1. After(g, c) = IF c.result = "skip" THEN c
                      ELSE EndSpan(IF c.result = "error" THEN e ELSE c, "own")
    BY <1>6 DEF After, FinishSpan, e
  <2>2. c.tx = "none" /\ c.kind \notin Afterwards
    BY <1>6 DEF Made, Afterwards
  <2>3. CASE c.result = "skip"
    BY <1>6, <2>1, <2>2, <2>3 DEF Made, Reported
  <2>4. CASE c.result # "skip"
    BY <1>5, <2>1, <2>2, <2>4
  <2> QED
    BY <2>3, <2>4
<1>7. CASE c.kind = "gorm"
  <2>1. After(g, c) = IF c.ctx = "none" THEN c
                      ELSE EndSpan(IF c.result = "error" THEN e ELSE c, c.ctx)
    BY <1>7 DEF After, GormAfter, e
  <2>2. c.tx = "none" /\ c.kind \notin Afterwards
    BY <1>7 DEF Made, Afterwards
  <2>3. CASE c.ctx = "none"
    BY <1>7, <2>1, <2>2, <2>3 DEF Made, Reported
  <2>4. CASE c.ctx # "none"
    BY <1>5, <2>1, <2>2, <2>4
  <2> QED
    BY <2>3, <2>4
<1>8. CASE c.kind = "pgx"
  <2> DEFINE x == [s EXCEPT !.errors = {"own"}]
  <2>1. After(g, c) = IF c.result = "unsupported" THEN e
                      ELSE IF s.own = "dropped" THEN s
                      ELSE EndSpan(IF s.result # "ok" THEN x ELSE s, "own")
    BY <1>8 DEF After, PgxTrace, s, e
  <2>2. x \in ClientCall /\ x.phase = "done" /\ x.own = s.own /\ x.tx = s.tx
          /\ x.errors = {"own"} /\ x.kind = c.kind
    BY <1>1 DEF ClientCall, Reporting
  <2>3. c.own = "none" /\ c.tx = "none" /\ c.errors = {} /\ "own" \in Reporting
    BY <1>8 DEF Made, Afterwards, Reporting
  <2> HIDE DEF x
  <2> QED
    BY <1>1, <1>2, <1>4, <1>8, <2>1, <2>2, <2>3, EndSpanIs DEF Reported
<1>9. CASE c.kind = "gocql"
  <2> DEFINE x == [s EXCEPT !.errors = {c.ctx}]
  <2>1. After(g, c) = EndSpan(IF s.result # "ok" THEN x ELSE s, "own")
    BY <1>9 DEF After, ObserveQuery, s
  <2>2. x \in ClientCall /\ x.phase = "done" /\ x.own = s.own /\ x.tx = s.tx
          /\ x.errors = {c.ctx} /\ x.kind = c.kind
    BY <1>1, <1>4 DEF ClientCall, Reporting
  <2>3. c.own = "none" /\ c.tx = "none" /\ c.errors = {}
    BY <1>9 DEF Made, Afterwards
  <2> HIDE DEF x
  <2> QED
    BY <1>1, <1>4, <1>9, <2>1, <2>2, <2>3, EndSpanIs DEF Reported
<1>10. CASE c.kind = "gocql_batch"
  <2>1. After(g, c) = EndSpan(IF s.result # "ok" THEN f ELSE s, "own")
    BY <1>10 DEF After, ObserveBatch, s, f
  <2>2. c.own = "none" /\ c.tx = "none" /\ c.errors = {}
    BY <1>10 DEF Made, Afterwards
  <2> QED
    BY <1>1, <1>3, <1>4, <1>10, <2>1, <2>2, EndSpanIs DEF Reported
<1>11. CASE c.kind = "pgxv5"
  <2>1. After(g, c) = EndSpan(IF c.result # "ok" THEN e ELSE c, c.ctx)
    BY <1>11 DEF After, PgxEndSpan, e
  <2>2. c.tx = "none" /\ c.kind \notin Afterwards
    BY <1>11 DEF Made, Afterwards
  <2> QED
    BY <1>5, <2>1, <2>2
<1>12. CASE c.kind = "aws"
  <2>1. After(g, c) = IF c.own # "open" THEN c
                      ELSE EndSpan(IF c.result # "ok" THEN e ELSE c, "own")
    BY <1>12 DEF After, Complete, e
  <2>2. c.tx = "none" /\ c.kind \notin Afterwards
    BY <1>12 DEF Made, Afterwards
  <2>3. CASE c.own # "open"
    BY <1>12, <2>1, <2>2, <2>3 DEF Made, Reported
  <2>4. CASE c.own = "open"
    BY <1>5, <2>1, <2>2, <2>4
  <2> QED
    BY <2>3, <2>4
<1>13. CASE c.kind \in {"azure", "azure_queue"}
  <2> DEFINE x == EndSpan(IF c.own = "open" /\ c.result # "ok" THEN e ELSE c, "own")
             t == IF x.tx = "open" THEN "ended" ELSE x.tx
  <2>1. /\ x \in ClientCall /\ x.phase = "done" /\ x.kind = c.kind /\ x.tx = c.tx
        /\ x.own # "open"
        /\ x.errors = {} \/ (x.errors = {c.ctx} /\ c.ctx = "own")
    BY <1>2, EndSpanIs DEF Made
  <2>2. After(g, c) = [x EXCEPT !.tx = t]
    BY <1>13, <2>1 DEF After, PipelineDo, e, ClientCall
  <2> HIDE DEF x
  <2>3. [x EXCEPT !.tx = t] \in ClientCall
    BY <2>1 DEF ClientCall
  <2> QED
    BY <1>4, <2>1, <2>2, <2>3 DEF Reported, ClientCall
<1>14. CASE c.kind = "mongo"
  <2>1. After(g, c) = IF g \in commandSpans THEN EndSpan(c, "own") ELSE c
    BY <1>14 DEF After, CommandFinished
  <2>2. c.tx = "none" /\ c.kind \notin Afterwards
    BY <1>14 DEF Made, Afterwards
  <2>3. CASE g \notin commandSpans
    BY <1>14, <2>1, <2>2, <2>3 DEF Made, Reported
  <2>4. CASE g \in commandSpans
    BY <1>5, <2>1, <2>2, <2>4
  <2> QED
    BY <2>3, <2>4
<1>15. CASE c.kind \in {"gopg", "gopgv10", "goredisv8", "redigo", "goredis", "sql_connect",
                        "grpc"}
  <2>1. After(g, c) = EndSpan(c, "own") \/ After(g, c) = EndSpan(c, c.ctx)
    BY <1>15 DEF After, GopgAfterQuery, GopgV10AfterQuery, RedisAfterProcess
  <2>2. c.tx = "none" /\ c.kind \notin Afterwards
    BY <1>15 DEF Made, Afterwards
  <2> QED
    BY <1>5, <2>1, <2>2
<1>16. c.kind \in AllKinds
  BY DEF ClientCall
<1> QED
  BY <1>6, <1>7, <1>8, <1>9, <1>10, <1>11, <1>12, <1>13, <1>14, <1>15, <1>16
     DEF AllKinds, FromContext, Defers

\* A call begins.
LEMMA CallStarts ==
    ASSUME CallInv, NEW g \in Caller, NEW kind \in ClientKinds, StartCall(g, kind)
    PROVE  CallInv'
<1> DEFINE c == [[NoCall EXCEPT !.kind = kind] EXCEPT !.phase = "calling"]
           d == Before(c)
<1>1. call \in [Caller -> ClientCall] /\ kind \in AllKinds
  BY KindsKnown DEF CallInv
<1>2. NoCall \in ClientCall
  BY DEF NoCall, ClientCall, Reporting, AllKinds, Defers, ConnResults
<1>3. /\ c \in ClientCall /\ c.kind = kind /\ c.phase = "calling" /\ c.own = "none"
      /\ c.ctx = "outer" /\ c.tx = "none" /\ c.errors = {}
  <2>1. /\ [NoCall EXCEPT !.kind = kind] \in ClientCall
        /\ [NoCall EXCEPT !.kind = kind].kind = kind
    BY <1>1, <1>2 DEF ClientCall
  <2> QED
    BY <1>2, <2>1 DEF ClientCall, NoCall
<1>4. /\ call' = [call EXCEPT ![g] = d] /\ UNCHANGED outer
      /\ commandSpans' = IF kind = "mongo" /\ d.own = "open" THEN commandSpans \cup {g}
                         ELSE commandSpans
  BY DEF StartCall
<1> HIDE DEF c
<1>5. d \in ClientCall /\ d.phase = "calling" /\ d.kind = kind /\ Made(d)
  BY <1>3, BeforeIs
<1> HIDE DEF d
<1>6. /\ call' \in [Caller -> ClientCall] /\ call'[g] = d
      /\ \A h \in Caller : h # g => call'[h] = call[h]
  BY <1>1, <1>4, <1>5
<1>7. EndsOnlyItsOwn'
  BY <1>4 DEF CallInv, EndsOnlyItsOwn
<1> QED
  BY <1>4, <1>5, <1>6, <1>7 DEF CallInv

\* A call returns.
LEMMA CallFinishes ==
    ASSUME CallInv, NEW g \in Caller, NEW result \in Results(call[g].kind),
           FinishCall(g, result)
    PROVE  CallInv'
<1> DEFINE b == [call[g] EXCEPT !.result = result]
           c == [b EXCEPT !.phase = "done"]
           d == After(g, c)
<1>1. /\ call \in [Caller -> ClientCall] /\ call[g] \in ClientCall
      /\ call[g].phase = "calling" /\ Made(call[g])
      /\ call[g].kind = "mongo" /\ call[g].own = "open" => g \in commandSpans
  BY DEF CallInv, FinishCall
<1>2. result \in ConnResults \cup StmtResults \cup GormResults \cup PgxResults
  BY DEF Results, ConnResults, StmtResults, GormResults, PgxResults
<1>3. /\ b \in ClientCall /\ b.kind = call[g].kind /\ b.own = call[g].own
      /\ b.ctx = call[g].ctx /\ b.tx = call[g].tx /\ b.errors = call[g].errors
  BY <1>1, <1>2 DEF ClientCall
<1>4. /\ call' = [call EXCEPT ![g] = d] /\ commandSpans' = commandSpans \ {g}
      /\ outer' = IF EndsContextSpan(c.kind) /\ c.ctx = "outer" /\ outer.state = "open"
                  THEN [state |-> "ended", by |-> c.kind] ELSE outer
  <2>1. c = [call[g] EXCEPT !.result = result, !.phase = "done"]
    BY <1>1 DEF ClientCall
  <2> HIDE DEF b, c
  <2> QED
    BY <2>1 DEF FinishCall
<1> HIDE DEF b
<1>5. /\ c \in ClientCall /\ c.phase = "done" /\ c.kind = call[g].kind /\ Made(c)
      /\ c.own = call[g].own
  BY <1>1, <1>3 DEF ClientCall, Made
<1> HIDE DEF c
<1>6. d \in ClientCall /\ d.phase = "done" /\ Reported(d)
  BY <1>1, <1>5, AfterIs
<1> HIDE DEF d
<1>7. /\ call' \in [Caller -> ClientCall] /\ call'[g] = d
      /\ \A h \in Caller : h # g => call'[h] = call[h]
  BY <1>1, <1>4, <1>6
<1>8. EndsOnlyItsOwn'
  BY <1>4 DEF CallInv, EndsOnlyItsOwn, EndsContextSpan
<1> QED
  BY <1>4, <1>6, <1>7, <1>8 DEF CallInv

\* Every step preserves the invariant.
LEMMA CallStep == CallInv /\ [CallNext]_callVars => CallInv'
<1> SUFFICES ASSUME CallInv, [CallNext]_callVars PROVE CallInv'
  OBVIOUS
<1>1. CASE EndOuter
  BY <1>1 DEF EndOuter, CallInv, EndsOnlyItsOwn
<1>2. CASE UNCHANGED callVars
  BY <1>2 DEF callVars, CallInv, EndsOnlyItsOwn
<1> QED
  BY <1>1, <1>2, CallStarts, CallFinishes DEF CallNext

\* Whatever calls the goroutines make below one span, and however many spans the
\* transaction may still have, each call of every instrumentation
\* (module/apmsql, apmgorm, apmpgx, apmgocql, apmmongo, ...) ends its own span and
\* no other (but for the hooks that look in the context), and reports its error
\* once, with its span.
THEOREM CallsAreReported == CallSpec => []CallsReported
<1>1. CallInit => CallInv
  <2> SUFFICES ASSUME CallInit PROVE CallInv
    OBVIOUS
  <2>1. NoCall \in ClientCall /\ NoCall.phase = "idle" /\ NoCall.errors = {}
    BY DEF NoCall, ClientCall, Reporting, AllKinds, Defers, ConnResults
  <2>2. call \in [Caller -> ClientCall] /\ \A g \in Caller : call[g] = NoCall
    BY <2>1 DEF CallInit
  <2>3. EndsOnlyItsOwn
    BY DEF CallInit, EndsOnlyItsOwn
  <2> QED
    BY <2>1, <2>2, <2>3 DEF CallInv
<1>2. CallInv => CallsReported
  <2> SUFFICES ASSUME CallInv PROVE CallsReported
    OBVIOUS
  <2>1. \A g \in Caller : call[g].phase \in {"idle", "calling", "done"}
    BY DEF CallInv, ClientCall
  <2>2. \A g \in Caller : call[g].errors = {} \/ \E x \in Reporting : call[g].errors = {x}
    BY <2>1 DEF CallInv, Made, Reported
  <2>3. \A g \in Caller : Cardinality(call[g].errors) <= 1
    <3> SUFFICES ASSUME NEW g \in Caller PROVE Cardinality(call[g].errors) <= 1
      OBVIOUS
    <3>1. CASE call[g].errors = {}
      BY <3>1, FS_EmptySet
    <3>2. ASSUME NEW x, call[g].errors = {x} PROVE Cardinality(call[g].errors) <= 1
      <4>1. Cardinality({x}) = 1
        BY FS_Singleton
      <4> QED
        BY <3>2, <4>1
    <3> QED
      BY <2>2, <3>1, <3>2
  <2>4. \A g \in Caller : call[g].own = "ended" /\ call[g].errors # {} /\ call[g].kind # "gocql"
                              => call[g].errors = {"own"}
    BY <2>1 DEF CallInv, Made, Reported
  <2> QED
    BY <2>3, <2>4 DEF CallInv, Reported, CallsReported, CallsEndTheirSpans, ErrorsLinked
<1> QED
  BY <1>1, <1>2, CallStep, PTL DEF CallSpec

-----------------------------------------------------------------------------
(* The contexts of the bridges *)

Context == [tx : Nat, span : Nat, ot : [tx : Nat, span : Nat], head : Nat]

Started == [api : {"native", "bridge"}, kind : {"tx", "span"}, tx : Nat, parent : Nat,
            below : Nat, ctx : Context]

\* What a context holds is what was put into it last, in the form its bridge keeps:
\* apmot in its own keys, with the transaction; apmotel in the native keys as well,
\* where a new root leaves the span that it was started below.
Holds(ctx) ==
    /\ ctx \in Context
    /\ ctx.head \in 0..Len(started) /\ ctx.span \in 0..Len(started)
    /\ ctx.head = IF ctx.ot.span # 0 THEN ctx.ot.span ELSE ctx.ot.tx
    /\ ctx.head = 0 => ctx.tx = 0 /\ ctx.span = 0 /\ ctx.ot.tx = 0
    /\ ctx.head # 0 => ctx = started[ctx.head].ctx

HoldsOT(ctx) ==
    /\ ctx.tx = 0 /\ ctx.span = 0
    /\ ctx.head # 0 => ctx.ot.tx = started[ctx.head].tx /\ ctx.ot.tx # 0

HoldsOTel(ctx) ==
    ctx.head # 0 =>
        LET last == started[ctx.head] IN
        /\ ctx.tx # 0
        /\ ctx.ot.span # 0 => /\ ctx.span = ctx.ot.span /\ last.kind = "span"
                              /\ ctx.ot.tx = last.tx \/ last.api = "native"
        /\ ctx.ot.span = 0 => /\ ctx.tx = ctx.head /\ last.kind = "tx" /\ last.tx = ctx.head
                              /\ ctx.span # 0 => last.api = "bridge"

\* What was started is nested as its context is; this is ParentIsHead of one.
Nested(s) ==
    /\ s.below \in 0..Len(started)
    /\ s.below # 0 =>
        LET up == started[s.below] IN
        \/ /\ s.parent = s.below /\ s.kind = "span"
           /\ \/ s.tx = up.tx
              \/ bridge = "otel" /\ s.api = "bridge" /\ up.api = "native" /\ up.kind = "span"
        \/ /\ bridge = "otel" /\ s.api = "native" /\ up.api = "bridge" /\ up.kind = "tx"
           /\ s.parent \in 1..Len(started)
           /\ s.parent = up.ctx.span /\ s.tx = started[s.parent].tx

ContextOK(ctx) ==
    Holds(ctx) /\ (bridge = "ot" => HoldsOT(ctx)) /\ (bridge # "ot" => HoldsOTel(ctx))

ContextInv ==
    /\ bridge \in {"ot", "otel"}
    /\ started \in Seq(Started)
    /\ \A i \in 1..Len(started) : ContextOK(started[i].ctx) /\ Nested(started[i])

-----------------------------------------------------------------------------

\* A sequence that grows keeps what it had.
LEMMA Appending ==
    ASSUME NEW item \in Started, started \in Seq(Started), started' = Append(started, item)
    PROVE  /\ started' \in Seq(Started) /\ Len(started') = Len(started) + 1
           /\ Len(started) \in Nat
           /\ \A i \in 1..Len(started) : started'[i] = started[i]
           /\ started'[Len(started) + 1] = item
  OBVIOUS

\* What a context holds, and how an item is nested, stays when another is started.
LEMMA ContextStays ==
    ASSUME NEW item \in Started, NEW ctx, ContextInv, ContextOK(ctx),
           started' = Append(started, item), bridge' = bridge
    PROVE  /\ ctx \in Context
           /\ ctx.head \in 0..Len(started') /\ ctx.span \in 0..Len(started')
           /\ ctx.head = IF ctx.ot.span # 0 THEN ctx.ot.span ELSE ctx.ot.tx
           /\ ctx.head = 0 => ctx.tx = 0 /\ ctx.span = 0 /\ ctx.ot.tx = 0
           /\ ctx.head # 0 => started'[ctx.head] = started[ctx.head]
  <1>1. started \in Seq(Started) BY DEF ContextInv
  <1>2. /\ Len(started') = Len(started) + 1 /\ Len(started) \in Nat
        /\ \A i \in 1..Len(started) : started'[i] = started[i]
    BY <1>1, Appending
  <1>3. Holds(ctx) BY DEF ContextOK
  <1>4. ctx \in Context /\ ctx.head \in 0..Len(started) /\ ctx.span \in 0..Len(started)
    BY <1>3 DEF Holds
  <1>5. ctx.head \in 0..Len(started') /\ ctx.span \in 0..Len(started')
    BY <1>2, <1>4
  <1>6. ctx.head # 0 => started'[ctx.head] = started[ctx.head]
    BY <1>2, <1>4
  <1> QED BY <1>3, <1>4, <1>5, <1>6 DEF Holds

\* The same, as the predicate of the next state.
LEMMA ContextStillOK ==
    ASSUME NEW item \in Started, NEW ctx, ContextInv, ContextOK(ctx),
           started' = Append(started, item), bridge' = bridge
    PROVE  ContextOK(ctx)'
  <1>1. /\ ctx \in Context
        /\ ctx.head \in 0..Len(started') /\ ctx.span \in 0..Len(started')
        /\ ctx.head = IF ctx.ot.span # 0 THEN ctx.ot.span ELSE ctx.ot.tx
        /\ ctx.head = 0 => ctx.tx = 0 /\ ctx.span = 0 /\ ctx.ot.tx = 0
        /\ ctx.head # 0 => started'[ctx.head] = started[ctx.head]
    BY ContextStays
  <1>2. ctx.head # 0 => ctx = started[ctx.head].ctx BY DEF ContextOK, Holds
  <1>3. Holds(ctx)' BY <1>1, <1>2 DEF Holds
  <1>4. bridge' = "ot" => HoldsOT(ctx)' BY <1>1 DEF ContextOK, HoldsOT
  <1>5. bridge' # "ot" => HoldsOTel(ctx)' BY <1>1 DEF ContextOK, HoldsOTel
  <1> QED BY <1>3, <1>4, <1>5 DEF ContextOK

\* The contexts that were nested stay so.
LEMMA NestedStill ==
    ASSUME NEW item \in Started, NEW s, ContextInv, Nested(s),
           started' = Append(started, item), bridge' = bridge
    PROVE  Nested(s)'
  <1>1. started \in Seq(Started) BY DEF ContextInv
  <1>2. /\ Len(started') = Len(started) + 1 /\ Len(started) \in Nat
        /\ \A j \in 1..Len(started) : started'[j] = started[j]
    BY <1>1, Appending
  <1>3. s.below \in 0..Len(started) BY DEF Nested
  <1>4. s.below # 0 => started'[s.below] = started[s.below] BY <1>2, <1>3
  <1>5. s.parent \in 1..Len(started) =>
            started'[s.parent] = started[s.parent] /\ s.parent \in 1..Len(started')
    BY <1>2
  <1>6. s.below \in 0..Len(started') BY <1>2, <1>3
  <1> QED BY <1>4, <1>5, <1>6 DEF Nested

\* What is to be shown of a step: what is started is nested, and its context holds it.
LEMMA StartingKeeps ==
    ASSUME NEW item \in Started, ContextInv, StartItem(item),
           ContextOK(item.ctx)', Nested(item)'
    PROVE  ContextInv'
  <1>1. started' = Append(started, item) /\ bridge' = bridge BY DEF StartItem
  <1>2. started \in Seq(Started) BY DEF ContextInv
  <1>3. /\ started' \in Seq(Started) /\ Len(started') = Len(started) + 1 /\ Len(started) \in Nat
        /\ started'[Len(started) + 1] = item
    BY <1>1, <1>2, Appending
  <1>4. ASSUME NEW i \in 1..Len(started)
        PROVE  ContextOK(started[i].ctx)' /\ Nested(started[i])'
    <2>1. PICK s : s = started[i] OBVIOUS
    <2>2. PICK ctx : ctx = started[i].ctx OBVIOUS
    <2>3. ContextOK(ctx) /\ Nested(s) BY <2>1, <2>2 DEF ContextInv
    <2>4. ContextOK(ctx)' /\ Nested(s)' BY <1>1, <2>3, ContextStillOK, NestedStill
    <2>5. started'[i] = s /\ started'[i].ctx = ctx BY <1>1, <1>2, <2>1, <2>2, Appending
    <2> QED BY <2>4, <2>5
  <1>5. ASSUME NEW i \in 1..Len(started')
        PROVE  ContextOK(started[i].ctx)' /\ Nested(started[i])'
    <2>1. CASE i = Len(started) + 1 BY <1>3, <2>1
    <2>2. CASE i # Len(started) + 1
      <3>1. i \in 1..Len(started) BY <1>3, <2>2
      <3> QED BY <1>4, <3>1
    <2> QED BY <2>1, <2>2
  <1>6. bridge' \in {"ot", "otel"} BY <1>1 DEF ContextInv
  <1> QED BY <1>3, <1>5, <1>6 DEF ContextInv
-----------------------------------------------------------------------------

\* What the contexts of the four operations are.
LEMMA ContextsAre ==
    ASSUME NEW ctx \in Context, NEW n \in Nat
    PROVE  /\ OTWithSpan(ctx, n) \in Context /\ OTWithTransaction(ctx, n) \in Context
           /\ OTWithSpan(ctx, n).tx = ctx.tx /\ OTWithSpan(ctx, n).span = ctx.span
           /\ OTWithSpan(ctx, n).ot = [tx |-> ctx.ot.tx, span |-> n] /\ OTWithSpan(ctx, n).head = n
           /\ OTWithTransaction(ctx, n).tx = ctx.tx /\ OTWithTransaction(ctx, n).span = ctx.span
           /\ OTWithTransaction(ctx, n).ot = [tx |-> n, span |-> 0]
           /\ OTWithTransaction(ctx, n).head = n
  BY DEF OTWithSpan, OTWithTransaction, Context

\* OpenTelemetry's contexts are contexts.
LEMMA OTelContextsAre ==
    ASSUME NEW ctx \in Context, NEW n \in Nat
    PROVE  /\ OTelWithSpan(ctx, n) \in Context /\ OTelWithTransaction(ctx, n) \in Context
           /\ OTelWithSpan(ctx, n).tx = ctx.tx /\ OTelWithSpan(ctx, n).span = n
           /\ OTelWithSpan(ctx, n).ot = [tx |-> 0, span |-> n] /\ OTelWithSpan(ctx, n).head = n
           /\ OTelWithTransaction(ctx, n).tx = n /\ OTelWithTransaction(ctx, n).span = ctx.span
           /\ OTelWithTransaction(ctx, n).ot = [tx |-> n, span |-> 0]
           /\ OTelWithTransaction(ctx, n).head = n
  BY DEF OTelWithSpan, OTelWithTransaction, Context

\* A context in which something may be started.
Given == {NoCtx} \cup {started[i].ctx : i \in DOMAIN started}

\* A context that a caller has been given is one of the invariant.
LEMMA GivenIsOK == ASSUME ContextInv, NEW ctx \in Given PROVE ContextOK(ctx) /\ ctx \in Context
  <1>1. started \in Seq(Started) BY DEF ContextInv
  <1>2. Len(started) \in Nat /\ DOMAIN started = 1..Len(started) BY <1>1
  <1>3. CASE ctx = NoCtx
    <2>1. Holds(ctx) BY <1>2, <1>3 DEF NoCtx, Context, Holds
    <2>2. HoldsOT(ctx) /\ HoldsOTel(ctx) BY <1>3 DEF NoCtx, HoldsOT, HoldsOTel
    <2> QED BY <2>1, <2>2 DEF ContextOK, Holds
  <1>4. CASE \E i \in 1..Len(started) : ctx = started[i].ctx
    BY <1>4 DEF ContextInv, ContextOK, Holds
  <1> QED BY <1>2, <1>3, <1>4 DEF Given

\* A new context is that of the item that is put into it.
LEMMA NewContextHolds ==
    ASSUME NEW item \in Started, ContextInv, StartItem(item),
           item.ctx.head = New, item.ctx.span \in 0..New,
           item.ctx.head = IF item.ctx.ot.span # 0 THEN item.ctx.ot.span ELSE item.ctx.ot.tx,
           bridge = "ot" => item.ctx.tx = 0 /\ item.ctx.span = 0 /\ item.ctx.ot.tx = item.tx
                            /\ item.ctx.ot.tx # 0,
           bridge # "ot" =>
              /\ item.ctx.tx # 0
              /\ item.ctx.ot.span # 0 =>
                    /\ item.ctx.span = item.ctx.ot.span /\ item.kind = "span"
                    /\ item.ctx.ot.tx = item.tx \/ item.api = "native"
              /\ item.ctx.ot.span = 0 =>
                    /\ item.ctx.tx = New /\ item.kind = "tx" /\ item.tx = New
                    /\ item.ctx.span # 0 => item.api = "bridge"
    PROVE  ContextOK(item.ctx)'
  <1>1. started' = Append(started, item) /\ bridge' = bridge BY DEF StartItem
  <1>2. started \in Seq(Started) BY DEF ContextInv
  <1>3. /\ Len(started') = New /\ Len(started) \in Nat /\ New \in Nat \ {0}
        /\ started'[New] = item
    BY <1>1, <1>2, Appending DEF New
  <1>4. item.ctx \in Context BY DEF Started
  <1> HIDE DEF New
  <1>5. Holds(item.ctx)'
    <2>1. PICK ctx : ctx = item.ctx OBVIOUS
    <2>2. /\ ctx \in Context /\ ctx.head = New /\ ctx.head # 0 /\ ctx = started'[ctx.head].ctx
          /\ ctx.head = IF ctx.ot.span # 0 THEN ctx.ot.span ELSE ctx.ot.tx
      BY <1>3, <1>4, <2>1
    <2>3. ctx.head = New /\ ctx.span \in 0..New BY <2>1
    <2>5. PICK n \in Nat : n = New BY <1>3
    <2>6. n \in 0..n BY <2>5
    <2>7. ctx.head \in 0..Len(started') /\ ctx.span \in 0..Len(started')
      BY <1>3, <2>3, <2>5, <2>6, Zenon
    <2>4. Holds(ctx)' BY <2>2, <2>7 DEF Holds
    <2> QED BY <2>1, <2>4
  <1>6. bridge' = "ot" => HoldsOT(item.ctx)' BY <1>1, <1>3 DEF HoldsOT
  <1>7. bridge' # "ot" => HoldsOTel(item.ctx)' BY <1>1, <1>3 DEF HoldsOTel
  <1> QED BY <1>5, <1>6, <1>7 DEF ContextOK

\* The next span has a number of its own.
LEMMA NewIs == ContextInv => /\ New \in Nat \ {0} /\ Len(started) \in Nat /\ 0..Len(started) \subseteq Nat
                             /\ \A n \in 0..Len(started) : n \in 0..New
                             /\ 0 \in 0..Len(started) /\ New \in 0..New
  <1> SUFFICES ASSUME ContextInv PROVE Len(started) \in Nat
    BY DEF New
  <1> QED BY DEF ContextInv

\* A transaction of the native API, in a new context.
LEMMA NativeTransactionKeeps == ASSUME ContextInv, NativeTransaction PROVE ContextInv'
  <1> DEFINE ctx == ContextWithTransaction(NoCtx, New)
             item == Item("native", "tx", New, 0, 0, ctx)
  <1>1. New \in Nat \ {0} /\ New \in 0..New /\ 0 \in 0..New /\ 0 \in 0..Len(started) BY NewIs
  <1>2. NoCtx \in Context /\ NoCtx.tx = 0 /\ NoCtx.span = 0 BY DEF NoCtx, Context
  <1>3. /\ ctx \in Context /\ ctx.head = New /\ ctx.span = 0 /\ ctx.ot = [tx |-> New, span |-> 0]
        /\ bridge = "ot" => ctx.tx = 0
        /\ bridge # "ot" => ctx.tx = New
    <2>1. PICK no, n : no = NoCtx /\ n = New OBVIOUS
    <2>2. no \in Context /\ n \in Nat BY <1>1, <1>2, <2>1
    <2>3. CASE bridge = "ot"
      <3>1. ctx = OTWithTransaction(no, n) BY <2>1, <2>3 DEF ContextWithTransaction
      <3> HIDE DEF ctx
      <3> QED BY <1>2, <2>1, <2>2, <2>3, <3>1, ContextsAre
    <2>4. CASE bridge # "ot"
      <3>1. ctx = OTelWithTransaction(no, n) BY <2>1, <2>4 DEF ContextWithTransaction
      <3> HIDE DEF ctx
      <3> QED BY <1>2, <2>1, <2>2, <2>4, <3>1, OTelContextsAre
    <2> QED BY <2>3, <2>4
  <1>4. StartItem(item) BY DEF NativeTransaction
  <1> HIDE DEF ctx
  <1>5. /\ item \in Started /\ item.api = "native" /\ item.kind = "tx" /\ item.tx = New
        /\ item.parent = 0 /\ item.below = 0 /\ item.ctx = ctx
    BY <1>1, <1>3 DEF Item, Started
  <1> HIDE DEF item
  <1>6. Nested(item) BY <1>1, <1>5 DEF Nested
  <1>7. PICK i : i = item OBVIOUS
  <1>8. i \in Started /\ StartItem(i) /\ Nested(i) BY <1>4, <1>5, <1>6, <1>7
  <1>9. Nested(i)' BY <1>8, NestedStill DEF StartItem
  <1>10. ContextOK(i.ctx)'
    BY <1>1, <1>3, <1>5, <1>7, <1>8, NewContextHolds
  <1> QED BY <1>8, <1>9, <1>10, StartingKeeps

\* What the program has of a context it was given: the facts that the operations use.
LEMMA GivenIs ==
    ASSUME ContextInv, NEW ctx \in Given
    PROVE  /\ ctx \in Context /\ ContextOK(ctx)
           /\ ctx.tx \in Nat /\ ctx.span \in 0..Len(started) /\ ctx.head \in 0..Len(started)
           /\ ctx.ot.tx \in Nat /\ ctx.ot.span \in Nat /\ ctx.head \in Nat
           /\ ctx.head = IF ctx.ot.span # 0 THEN ctx.ot.span ELSE ctx.ot.tx
           /\ ctx.head = 0 => ctx.tx = 0 /\ ctx.span = 0 /\ ctx.ot.tx = 0 /\ ctx.ot.span = 0
           /\ ctx.head # 0 => ctx = started[ctx.head].ctx
           /\ \A i \in 0..Len(started) : i # 0 => started[i] \in Started /\ started[i].tx \in Nat
           /\ bridge = "ot" => HoldsOT(ctx)
           /\ bridge # "ot" => HoldsOTel(ctx)
  <1>1. ctx \in Context /\ ContextOK(ctx) BY GivenIsOK
  <1>2. /\ ctx.tx \in Nat /\ ctx.ot.tx \in Nat /\ ctx.ot.span \in Nat /\ ctx.head \in Nat
    BY <1>1 DEF Context
  <1>3. Holds(ctx) /\ (bridge = "ot" => HoldsOT(ctx)) /\ (bridge # "ot" => HoldsOTel(ctx))
    BY <1>1 DEF ContextOK
  <1>4. ASSUME NEW i \in 0..Len(started), i # 0 PROVE started[i] \in Started /\ started[i].tx \in Nat
    <2>1. started \in Seq(Started) /\ Len(started) \in Nat BY DEF ContextInv
    <2>2. i \in 1..Len(started) BY <1>4, <2>1
    <2>3. started[i] \in Started BY <2>1, <2>2
    <2> QED BY <2>3 DEF Started
  <1> QED BY <1>1, <1>2, <1>3, <1>4 DEF Holds

\* A span of the native API: below the span in the context, or its transaction.
LEMMA NativeSpanKeeps ==
    ASSUME ContextInv, NEW ctx \in Given, NativeSpan(ctx) PROVE ContextInv'
  <1> DEFINE span == SpanFromContext(ctx)
             tx == IF span # 0 THEN started[span].tx ELSE TransactionFromContext(ctx)
             parent == IF span # 0 THEN span ELSE tx
             new == IF tx # 0 THEN ContextWithSpan(ctx, New) ELSE ctx
             item == Item("native", "span", tx, parent, ctx.head, new)
  <1>1. StartItem(item) BY DEF NativeSpan
  <1>2. /\ New \in Nat \ {0} /\ New \in 0..New /\ \A n \in 0..Len(started) : n \in 0..New
        /\ 0..Len(started) \subseteq Nat
    BY NewIs
  <1>3. /\ ctx \in Context /\ ContextOK(ctx)
        /\ ctx.tx \in Nat /\ ctx.span \in 0..Len(started) /\ ctx.head \in 0..Len(started)
        /\ ctx.ot.tx \in Nat /\ ctx.ot.span \in Nat /\ ctx.head \in Nat
        /\ ctx.head = IF ctx.ot.span # 0 THEN ctx.ot.span ELSE ctx.ot.tx
        /\ ctx.head = 0 => ctx.tx = 0 /\ ctx.span = 0 /\ ctx.ot.tx = 0 /\ ctx.ot.span = 0
        /\ ctx.head # 0 => ctx = started[ctx.head].ctx
        /\ \A i \in 0..Len(started) : i # 0 => started[i] \in Started /\ started[i].tx \in Nat
        /\ bridge = "ot" => HoldsOT(ctx)
        /\ bridge # "ot" => HoldsOTel(ctx)
    BY GivenIs
  <1>4. span = (IF bridge = "ot" THEN ctx.ot.span ELSE ctx.span)
    BY DEF SpanFromContext
  <1>5. TransactionFromContext(ctx) = (IF bridge = "ot" THEN ctx.ot.tx ELSE ctx.tx)
    BY DEF TransactionFromContext
  <1>6. span \in Nat /\ span \in 0..Len(started) BY <1>2, <1>3, <1>4
  <1>7. tx \in Nat
    <2> HIDE DEF span
    <2> QED BY <1>3, <1>5, <1>6
  <1>8. /\ new \in Context
        /\ tx = 0 => new = ctx
        /\ tx # 0 => /\ new.head = New
                     /\ bridge = "ot" => new.tx = ctx.tx /\ new.span = ctx.span
                                         /\ new.ot = [tx |-> ctx.ot.tx, span |-> New]
                     /\ bridge # "ot" => new.tx = ctx.tx /\ new.span = New
                                         /\ new.ot = [tx |-> 0, span |-> New]
    <2>1. PICK n : n = New OBVIOUS
    <2>2. n \in Nat BY <1>2, <2>1
    <2> HIDE DEF tx
    <2>3. CASE tx = 0 BY <1>3, <2>3
    <2>4. CASE tx # 0 /\ bridge = "ot"
      <3>1. new = OTWithSpan(ctx, n) BY <2>1, <2>4 DEF ContextWithSpan
      <3> HIDE DEF new
      <3> QED BY <1>3, <2>1, <2>2, <2>4, <3>1, ContextsAre
    <2>5. CASE tx # 0 /\ bridge # "ot"
      <3>1. new = OTelWithSpan(ctx, n) BY <2>1, <2>5 DEF ContextWithSpan
      <3> HIDE DEF new
      <3> QED BY <1>3, <2>1, <2>2, <2>5, <3>1, OTelContextsAre
    <2> QED BY <2>3, <2>4, <2>5
  <1> HIDE DEF new
  <1>9. parent \in Nat BY <1>6, <1>7
  <1>10. /\ item \in Started /\ item.api = "native" /\ item.kind = "span" /\ item.tx = tx
         /\ item.parent = parent /\ item.below = ctx.head /\ item.ctx = new
    <2> HIDE DEF tx, parent
    <2> QED BY <1>3, <1>7, <1>8, <1>9 DEF Item, Started
  <1>11. Nested(item)
    <2>1. CASE ctx.head = 0 BY <1>3, <1>10, <2>1 DEF Nested
    <2>2. CASE ctx.head # 0 /\ bridge = "ot"
      <3>1. ctx.ot.tx = started[ctx.head].tx /\ ctx.ot.tx # 0 BY <1>3, <2>2 DEF HoldsOT
      <3>2. parent = ctx.head /\ tx = started[ctx.head].tx
        BY <1>3, <1>4, <1>5, <2>2, <3>1
      <3> HIDE DEF item, tx, parent
      <3> QED BY <1>3, <1>10, <2>2, <3>2 DEF Nested
    <2>3. CASE ctx.head # 0 /\ bridge # "ot"
      <3>1. /\ ctx.tx # 0
            /\ ctx.ot.span # 0 => ctx.span = ctx.ot.span
            /\ ctx.ot.span = 0 => /\ ctx.tx = ctx.head /\ started[ctx.head].kind = "tx"
                                  /\ started[ctx.head].tx = ctx.head
                                  /\ ctx.span # 0 => started[ctx.head].api = "bridge"
        BY <1>3, <2>3 DEF HoldsOTel
      <3>2. bridge = "otel" BY <2>3 DEF ContextInv
      <3>3. CASE ctx.ot.span # 0 \/ ctx.span = 0
        <4>1. parent = ctx.head /\ tx = started[ctx.head].tx
          BY <1>3, <1>4, <1>5, <2>3, <3>1, <3>3
        <4> HIDE DEF item, tx, parent
        <4> QED BY <1>3, <1>10, <2>3, <4>1 DEF Nested
      <3>4. CASE ctx.ot.span = 0 /\ ctx.span # 0
        <4>1. parent = ctx.span /\ tx = started[ctx.span].tx /\ ctx.span = started[ctx.head].ctx.span
          BY <1>3, <1>4, <2>3, <3>4
        <4>2. ctx.span \in 1..Len(started) BY <1>3, <3>4
        <4> HIDE DEF item, tx, parent
        <4> QED BY <1>3, <1>10, <2>3, <3>1, <3>2, <3>4, <4>1, <4>2 DEF Nested
      <3> QED BY <3>3, <3>4
    <2> QED BY <2>1, <2>2, <2>3
  <1> HIDE DEF item
  <1>12. PICK i : i = item OBVIOUS
  <1>13. i \in Started /\ StartItem(i) /\ Nested(i) /\ i.ctx = new BY <1>1, <1>10, <1>11, <1>12
  <1>14. Nested(i)' BY <1>13, NestedStill DEF StartItem
  <1>15. ContextOK(i.ctx)'
    <2>1. CASE tx = 0
      <3>1. ContextOK(ctx)'
        <4>1. ContextOK(ctx) BY <1>3
        <4> HIDE DEF tx
        <4> QED BY <1>13, <4>1, ContextStillOK DEF StartItem
      <3>2. i.ctx = ctx BY <1>8, <1>13, <2>1
      <3> QED BY <3>1, <3>2
    <2>2. CASE tx # 0
      <3>1. ctx.head # 0 BY <1>3, <1>4, <1>5, <2>2
      <3>2. bridge = "ot" => ctx.tx = 0 /\ ctx.span = 0 /\ ctx.ot.tx = tx
        BY <1>3, <1>4, <1>5, <3>1 DEF HoldsOT
      <3>3. bridge # "ot" => ctx.tx # 0 BY <1>3, <3>1 DEF HoldsOTel
      <3> HIDE DEF tx, parent
      <3>4. new.head = New /\ new.ot.span = New BY <1>8, <2>2
      <3>5. new.span \in 0..New BY <1>2, <1>3, <1>8, <2>2
      <3>6. bridge = "ot" => new.tx = 0 /\ new.span = 0 /\ new.ot.tx = i.tx /\ new.ot.tx # 0
        BY <1>8, <1>10, <1>12, <2>2, <3>2
      <3>7. bridge # "ot" => new.tx # 0 /\ new.span = new.ot.span
        BY <1>8, <2>2, <3>3
      <3>8. i.kind = "span" /\ i.api = "native" BY <1>10, <1>12
      <3> QED BY <1>2, <1>13, <3>4, <3>5, <3>6, <3>7, <3>8, NewContextHolds
    <2> QED BY <2>1, <2>2
  <1> QED BY <1>13, <1>14, <1>15, StartingKeeps

\* A span of apmot: a child of what is in the context, or a transaction without it.
LEMMA OTStartSpanKeeps ==
    ASSUME ContextInv, NEW ctx \in Given, OTStartSpan(ctx) PROVE ContextInv'
  <1> DEFINE parent == IF ctx.ot.span # 0 THEN ctx.ot.span ELSE ctx.ot.tx
             below == [ctx EXCEPT !.ot = [tx |-> ctx.ot.tx, span |-> New], !.head = New]
             root == [ctx EXCEPT !.ot = [tx |-> New, span |-> 0], !.head = New]
  <1>1. bridge = "ot" BY DEF OTStartSpan
  <1>2. /\ New \in Nat \ {0} /\ New \in 0..New /\ \A n \in 0..Len(started) : n \in 0..New
    BY NewIs
  <1>3. /\ ctx \in Context /\ ctx.head \in 0..Len(started) /\ ctx.head \in Nat
        /\ ctx.ot.tx \in Nat /\ ctx.ot.span \in Nat
        /\ ctx.head = parent
        /\ ctx.head = 0 => ctx.ot.tx = 0
        /\ ctx.tx = 0 /\ ctx.span = 0
        /\ ctx.head # 0 => ctx.ot.tx = started[ctx.head].tx /\ ctx.ot.tx # 0
    BY <1>1, GivenIs DEF HoldsOT
  <1>4. CASE ctx.ot.tx # 0
    <2> DEFINE item == Item("bridge", "span", ctx.ot.tx, parent, ctx.head, below)
    <2>1. StartItem(item) BY <1>4 DEF OTStartSpan
    <2>2. below \in Context /\ below.head = New /\ below.ot = [tx |-> ctx.ot.tx, span |-> New]
          /\ below.tx = 0 /\ below.span = 0
      BY <1>2, <1>3 DEF Context
    <2> HIDE DEF below
    <2>3. /\ item \in Started /\ item.kind = "span" /\ item.tx = ctx.ot.tx
          /\ item.parent = ctx.head /\ item.below = ctx.head /\ item.ctx = below
      <3> HIDE DEF parent
      <3> QED BY <1>3, <2>2 DEF Item, Started
    <2> HIDE DEF item
    <2>4. PICK i : i = item OBVIOUS
    <2>5. i \in Started /\ StartItem(i) BY <2>1, <2>3, <2>4
    <2>6. ctx.head # 0 BY <1>3, <1>4
    <2>7. Nested(i) BY <1>3, <2>3, <2>4, <2>6 DEF Nested
    <2>8. Nested(i)' BY <2>5, <2>7, NestedStill DEF StartItem
    <2>9. ContextOK(i.ctx)'
      <3>1. i.ctx.head = New /\ i.ctx.ot.span = New /\ i.ctx.span = 0 BY <2>2, <2>3, <2>4
      <3>2. i.ctx.tx = 0 /\ i.ctx.ot.tx = i.tx /\ i.ctx.ot.tx # 0 BY <1>4, <2>2, <2>3, <2>4
      <3>3. i.ctx.span \in 0..New BY <1>2, <3>1
      <3> QED BY <1>1, <1>2, <2>5, <3>1, <3>2, <3>3, NewContextHolds
    <2> QED BY <2>5, <2>8, <2>9, StartingKeeps
  <1>5. CASE ctx.ot.tx = 0
    <2> DEFINE item == Item("bridge", "tx", New, parent, ctx.head, root)
    <2>1. StartItem(item) BY <1>5 DEF OTStartSpan
    <2>2. root \in Context /\ root.head = New /\ root.ot = [tx |-> New, span |-> 0]
          /\ root.tx = 0 /\ root.span = 0
      BY <1>2, <1>3 DEF Context
    <2> HIDE DEF root
    <2>3. /\ item \in Started /\ item.tx = New /\ item.below = ctx.head /\ item.ctx = root
      <3> HIDE DEF parent
      <3> QED BY <1>2, <1>3, <2>2 DEF Item, Started
    <2> HIDE DEF item
    <2>4. PICK i : i = item OBVIOUS
    <2>5. i \in Started /\ StartItem(i) BY <2>1, <2>3, <2>4
    <2>6. ctx.head = 0 BY <1>3, <1>5
    <2>7. Nested(i) BY <1>3, <2>3, <2>4, <2>6 DEF Nested
    <2>8. Nested(i)' BY <2>5, <2>7, NestedStill DEF StartItem
    <2>9. ContextOK(i.ctx)'
      <3>1. i.ctx.head = New /\ i.ctx.ot.span = 0 /\ i.ctx.ot.tx = New /\ i.ctx.span = 0
        BY <2>2, <2>3, <2>4
      <3>2. i.ctx.tx = 0 /\ i.ctx.ot.tx = i.tx /\ i.ctx.ot.tx # 0 BY <1>2, <2>2, <2>3, <2>4
      <3>3. i.ctx.span \in 0..New BY <2>6, <1>2, <1>3, <3>1
      <3> QED BY <1>1, <1>2, <2>5, <3>1, <3>2, <3>3, NewContextHolds
    <2> QED BY <2>5, <2>8, <2>9, StartingKeeps
  <1> QED BY <1>4, <1>5

\* A span of apmotel: a child of the bridge's span in the context, or of the native
\* transaction, or a transaction.
LEMMA OTelStartKeeps ==
    ASSUME ContextInv, NEW ctx \in Given, NEW newRoot \in BOOLEAN, OTelStart(ctx, newRoot)
    PROVE  ContextInv'
  <1> DEFINE p == IF ctx.ot.tx # 0 \/ ctx.ot.span # 0 THEN ctx.ot
                  ELSE [tx |-> TransactionFromContext(ctx), span |-> 0]
             parent == IF p.span # 0 THEN p.span ELSE p.tx
             below == [ContextWithSpan(ctx, New) EXCEPT !.ot = [tx |-> p.tx, span |-> New]]
             root == ContextWithTransaction(ctx, New)
  <1>1. bridge = "otel" BY DEF OTelStart
  <1>2. /\ New \in Nat \ {0} /\ New \in 0..New /\ \A n \in 0..Len(started) : n \in 0..New
        /\ 0 \in 0..Len(started)
    BY NewIs
  <1>3. /\ ctx \in Context /\ ctx.head \in 0..Len(started) /\ ctx.head \in Nat
        /\ ctx.ot.tx \in Nat /\ ctx.ot.span \in Nat /\ ctx.tx \in Nat /\ ctx.span \in 0..Len(started)
        /\ ctx.head = IF ctx.ot.span # 0 THEN ctx.ot.span ELSE ctx.ot.tx
        /\ ctx.head = 0 => ctx.tx = 0 /\ ctx.ot.tx = 0 /\ ctx.ot.span = 0
        /\ HoldsOTel(ctx)
    BY <1>1, GivenIs
  <1>4. PICK n : n = New OBVIOUS
  <1>5. n \in Nat \ {0} BY <1>2, <1>4
  <1>6. CASE ~newRoot /\ parent # 0
    <2> DEFINE item == Item("bridge", "span", p.tx, parent, ctx.head, below)
    <2>1. StartItem(item) BY <1>6 DEF OTelStart
    <2>2. /\ ctx.head # 0 /\ p = ctx.ot /\ parent = ctx.head /\ p.tx \in Nat
      BY <1>1, <1>3, <1>6 DEF TransactionFromContext
    <2>3. /\ ctx.tx # 0
          /\ ctx.ot.span # 0 => /\ started[ctx.head].kind = "span"
                                /\ ctx.ot.tx = started[ctx.head].tx \/ started[ctx.head].api = "native"
          /\ ctx.ot.span = 0 => started[ctx.head].tx = ctx.head
      BY <1>3, <2>2 DEF HoldsOTel
    <2>4. below \in Context /\ below.head = New /\ below.ot = [tx |-> ctx.ot.tx, span |-> New]
          /\ below.tx = ctx.tx /\ below.span = New
      <3>1. PICK with : with = OTelWithSpan(ctx, n) OBVIOUS
      <3>2. with \in Context /\ with.tx = ctx.tx /\ with.span = n /\ with.head = n
        BY <1>3, <1>5, <3>1, OTelContextsAre
      <3>3. below = [with EXCEPT !.ot = [tx |-> ctx.ot.tx, span |-> n]]
        BY <1>1, <1>4, <2>2, <3>1 DEF ContextWithSpan
      <3> HIDE DEF below
      <3> QED BY <1>3, <1>4, <1>5, <3>2, <3>3 DEF Context
    <2> HIDE DEF below
    <2>5. /\ item \in Started /\ item.api = "bridge" /\ item.kind = "span" /\ item.tx = ctx.ot.tx
          /\ item.parent = ctx.head /\ item.below = ctx.head /\ item.ctx = below
      <3> HIDE DEF parent, p
      <3> QED BY <1>3, <2>2, <2>4 DEF Item, Started
    <2> HIDE DEF item
    <2>6. PICK i : i = item OBVIOUS
    <2>7. i \in Started /\ StartItem(i) BY <2>1, <2>5, <2>6
    <2>8. Nested(i)
      <3>1. ctx.ot.span = 0 => ctx.ot.tx = started[ctx.head].tx BY <1>3, <2>3
      <3> HIDE DEF parent, p
      <3> QED BY <1>1, <1>3, <2>2, <2>3, <2>5, <2>6, <3>1 DEF Nested
    <2>9. Nested(i)' BY <2>7, <2>8, NestedStill DEF StartItem
    <2>10. ContextOK(i.ctx)'
      <3>1. i.ctx.head = New /\ i.ctx.ot.span = New /\ i.ctx.ot.span # 0 /\ i.ctx.span = New
            /\ i.ctx.tx # 0 /\ i.kind = "span" /\ i.ctx.ot.tx = i.tx
        BY <1>2, <2>3, <2>4, <2>5, <2>6
      <3>2. i.ctx.span \in 0..New BY <1>2, <3>1
      <3> QED BY <1>1, <1>2, <2>7, <3>1, <3>2, NewContextHolds
    <2> QED BY <2>7, <2>9, <2>10, StartingKeeps
  <1>7. CASE ~(~newRoot /\ parent # 0)
    <2> DEFINE below0 == IF newRoot THEN 0 ELSE ctx.head
               item == Item("bridge", "tx", New, 0, below0, root)
    <2>1. StartItem(item) BY <1>7 DEF OTelStart
    <2>2. below0 = 0
      BY <1>3, <1>7
    <2>3. root \in Context /\ root.head = New /\ root.ot = [tx |-> New, span |-> 0]
          /\ root.tx = New /\ root.span = ctx.span
      <3>1. root = OTelWithTransaction(ctx, n) BY <1>1, <1>4 DEF ContextWithTransaction
      <3> HIDE DEF root
      <3> QED BY <1>3, <1>4, <1>5, <3>1, OTelContextsAre
    <2> HIDE DEF root
    <2>4. /\ item \in Started /\ item.api = "bridge" /\ item.kind = "tx" /\ item.tx = New
          /\ item.below = 0 /\ item.ctx = root
      <3> HIDE DEF below0
      <3> QED BY <1>2, <2>2, <2>3 DEF Item, Started
    <2> HIDE DEF item
    <2>5. PICK i : i = item OBVIOUS
    <2>6. i \in Started /\ StartItem(i) BY <2>1, <2>4, <2>5
    <2>7. Nested(i) BY <1>2, <2>4, <2>5 DEF Nested
    <2>8. Nested(i)' BY <2>6, <2>7, NestedStill DEF StartItem
    <2>9. ContextOK(i.ctx)'
      <3>1. i.ctx.head = New /\ i.ctx.ot.span = 0 /\ i.ctx.ot.tx = New /\ i.ctx.span = ctx.span
            /\ i.ctx.tx = New /\ i.kind = "tx" /\ i.tx = New /\ i.api = "bridge"
        BY <2>3, <2>4, <2>5
      <3>2. i.ctx.span \in 0..New BY <1>2, <1>3, <3>1
      <3> QED BY <1>1, <1>2, <2>6, <3>1, <3>2, NewContextHolds
    <2> QED BY <2>6, <2>8, <2>9, StartingKeeps
  <1> QED BY <1>6, <1>7

\* Every step keeps it.
LEMMA ContextStep == ContextInv /\ [ContextNext]_contextVars => ContextInv'
  <1> SUFFICES ASSUME ContextInv, [ContextNext]_contextVars PROVE ContextInv'
    OBVIOUS
  <1>1. CASE NativeTransaction BY <1>1, NativeTransactionKeeps
  <1>2. ASSUME NEW ctx \in Given, NativeSpan(ctx) PROVE ContextInv' BY <1>2, NativeSpanKeeps
  <1>3. ASSUME NEW ctx \in Given, OTStartSpan(ctx) PROVE ContextInv' BY <1>3, OTStartSpanKeeps
  <1>4. ASSUME NEW ctx \in Given, NEW newRoot \in BOOLEAN, OTelStart(ctx, newRoot) PROVE ContextInv'
    BY <1>4, OTelStartKeeps
  <1>5. CASE UNCHANGED contextVars
    BY <1>5 DEF contextVars, ContextInv, ContextOK, Holds, HoldsOT, HoldsOTel, Nested
  <1> QED BY <1>1, <1>2, <1>3, <1>4, <1>5 DEF ContextNext, Given

\* It holds of the root context.
LEMMA ContextInitial == ContextInit => ContextInv
  BY BridgeBounds DEF ContextInit, ContextInv

\* It implies what the bridges promise of parents.
LEMMA ContextsAgree == ContextInv => ParentIsHead
  <1> SUFFICES ASSUME ContextInv PROVE ParentIsHead
    OBVIOUS
  <1>1. DOMAIN started = 1..Len(started) BY DEF ContextInv
  <1>2. \A i \in 1..Len(started) : Nested(started[i]) BY DEF ContextInv
  <1> QED BY <1>1, <1>2 DEF ParentIsHead, Nested

-----------------------------------------------------------------------------
(* The life of a bridged span *)

Kind == {"ot", "otel"}
What == {"tx", "span"}
Code == 0..2
Statuses == SUBSET Code
HTTPCode == {0, 200, 404, 500}
Out == {"", "success", "failure", "unknown"}

Bridged == [kind : Kind, item : What, ended : BOOLEAN, status : Code, httpStatus : HTTPCode,
            errorCaptured : BOOLEAN, outcome : Out, wasSet : Statuses, logged : BOOLEAN]

LifeInv ==
    /\ bspan \in Bridged
    /\ bspan.kind = "otel" =>
          IF bspan.ended
          THEN bspan.outcome = CASE 2 \in bspan.wasSet -> "success"
                                 [] 2 \notin bspan.wasSet /\ 1 \in bspan.wasSet -> "failure"
                                 [] OTHER -> "unknown"
          ELSE /\ bspan.status = 2 <=> 2 \in bspan.wasSet
               /\ bspan.status = 1 <=> 2 \notin bspan.wasSet /\ 1 \in bspan.wasSet
    /\ bspan.kind = "ot" =>
          IF bspan.ended
          THEN bspan.httpStatus = 0 => (bspan.outcome = "failure" <=> bspan.logged)
          ELSE bspan.outcome = "" /\ bspan.httpStatus = 0 /\ (bspan.errorCaptured <=> bspan.logged)

\* It holds before the first span.
LEMMA LifeInitial == LifeInit => LifeInv
  <1> SUFFICES ASSUME NEW kind \in {"ot", "otel"}, NEW item \in {"tx", "span"},
                      bspan = NewBridged(kind, item)
               PROVE  LifeInv
    BY BridgeBounds DEF LifeInit
  <1>1. /\ bspan.kind = kind /\ bspan.ended = FALSE /\ bspan.status = 0 /\ bspan.httpStatus = 0
        /\ bspan.errorCaptured = FALSE /\ bspan.outcome = "" /\ bspan.wasSet = {}
        /\ bspan.logged = FALSE
    BY DEF NewBridged
  <1>2. /\ kind \in Kind /\ item \in What /\ 0 \in Code /\ 0 \in HTTPCode /\ "" \in Out /\ {} \in Statuses
    BY DEF Kind, What, Code, HTTPCode, Out, Statuses
  <1>3. bspan \in Bridged BY <1>2 DEF NewBridged, Bridged
  <1>4. /\ bspan.status = 2 <=> 2 \in bspan.wasSet
        /\ bspan.status = 1 <=> 2 \notin bspan.wasSet /\ 1 \in bspan.wasSet
    <2>3. bspan.status = 0 BY <1>1
    <2>1. bspan.status # 2 /\ bspan.status # 1 BY <2>3
    <2>2. 2 \notin bspan.wasSet /\ 1 \notin bspan.wasSet BY <1>1
    <2> QED BY <2>1, <2>2
  <1>5. ~bspan.ended /\ bspan.outcome = "" /\ bspan.httpStatus = 0
        /\ (bspan.errorCaptured <=> bspan.logged)
    BY <1>1
  <1> QED BY <1>3, <1>4, <1>5 DEF LifeInv

\* A flag of a bridged span that is set.
LEMMA FlagSet ==
    ASSUME NEW b \in Bridged, NEW v \in BOOLEAN
    PROVE  /\ [b EXCEPT !.errorCaptured = v] \in Bridged
           /\ [b EXCEPT !.logged = v] \in Bridged
  <1>1. CASE v = TRUE BY <1>1 DEF Bridged
  <1>2. CASE v = FALSE BY <1>2 DEF Bridged
  <1> QED BY <1>1, <1>2

\* What an event in a log record does to a span.
LEMMA LogFieldsIs ==
    ASSUME NEW b \in Bridged, NEW fields
    PROVE  /\ LogFields(b, fields) \in Bridged
           /\ LogFields(b, fields).kind = b.kind /\ LogFields(b, fields).item = b.item
           /\ LogFields(b, fields).ended = b.ended
           /\ LogFields(b, fields).httpStatus = b.httpStatus
           /\ LogFields(b, fields).outcome = b.outcome /\ LogFields(b, fields).logged = b.logged
           /\ ~b.ended => (LogFields(b, fields).errorCaptured <=> b.errorCaptured \/ EmitsError(fields))
  <1> DEFINE v == b.errorCaptured \/ (EmitsError(fields) /\ ~b.ended)
  <1>1. PICK w : w = LogFields(b, fields) OBVIOUS
  <1>2. w = [b EXCEPT !.errorCaptured = v] BY <1>1 DEF LogFields
  <1>3. CASE v
    <2>1. v = TRUE BY <1>3
    <2>2. w = [b EXCEPT !.errorCaptured = TRUE] BY <1>2, <2>1
    <2>3. w \in Bridged BY <2>2, FlagSet
    <2>4. w.errorCaptured = TRUE BY <2>2 DEF Bridged
    <2>5. w.kind = b.kind /\ w.item = b.item /\ w.ended = b.ended /\ w.httpStatus = b.httpStatus
          /\ w.outcome = b.outcome /\ w.logged = b.logged
      BY <2>2 DEF Bridged
    <2>6. ~b.ended => (b.errorCaptured \/ EmitsError(fields)) BY <1>3
    <2> HIDE DEF v
    <2> QED BY <1>1, <2>3, <2>4, <2>5, <2>6
  <1>4. CASE ~v
    <2>1. v = FALSE BY <1>4
    <2>2. w = [b EXCEPT !.errorCaptured = FALSE] BY <1>2, <2>1
    <2>3. w \in Bridged BY <2>2, FlagSet
    <2>4. w.errorCaptured = FALSE BY <2>2 DEF Bridged
    <2>5. w.kind = b.kind /\ w.item = b.item /\ w.ended = b.ended /\ w.httpStatus = b.httpStatus
          /\ w.outcome = b.outcome /\ w.logged = b.logged
      BY <2>2 DEF Bridged
    <2>6. ~b.ended => ~(b.errorCaptured \/ EmitsError(fields)) BY <1>4
    <2> HIDE DEF v
    <2> QED BY <1>1, <2>3, <2>4, <2>5, <2>6
  <1> QED BY <1>3, <1>4

\* Log entries.
LEMMA LogKVKeeps == ASSUME LifeInv, NEW fields, LogKV(fields) PROVE LifeInv'
  <1> DEFINE v == bspan.logged \/ EmitsError(fields)
  <1>1. PICK b, r : b = bspan /\ r = LogFields(bspan, fields) OBVIOUS
  <1>2. b \in Bridged /\ b.kind = "ot" /\ ~b.ended /\ b.outcome = "" /\ b.httpStatus = 0
        /\ (b.errorCaptured <=> b.logged)
    BY <1>1 DEF LifeInv, LogKV
  <1>3. /\ r \in Bridged /\ r.kind = "ot" /\ ~r.ended /\ r.httpStatus = 0 /\ r.outcome = ""
        /\ r.logged = b.logged
        /\ r.errorCaptured <=> b.errorCaptured \/ EmitsError(fields)
    BY <1>1, <1>2, LogFieldsIs
  <1>4. bspan' = [r EXCEPT !.logged = r.logged \/ EmitsError(fields)] BY <1>1, <1>3 DEF LogKV
  <1>5. (r.logged \/ EmitsError(fields)) <=> r.errorCaptured BY <1>2, <1>3
  <1>6. CASE r.logged \/ EmitsError(fields)
    <2>1. bspan' = [r EXCEPT !.logged = TRUE] BY <1>4, <1>6
    <2>2. bspan' \in Bridged BY <1>3, <2>1, FlagSet
    <2>3. bspan'.logged = TRUE /\ bspan'.kind = "ot" /\ ~bspan'.ended /\ bspan'.httpStatus = 0
          /\ bspan'.outcome = "" /\ bspan'.errorCaptured = r.errorCaptured
      BY <1>3, <2>1 DEF Bridged
    <2> QED BY <1>5, <1>6, <2>2, <2>3 DEF LifeInv
  <1>7. CASE ~(r.logged \/ EmitsError(fields))
    <2>1. bspan' = [r EXCEPT !.logged = FALSE] BY <1>4, <1>7
    <2>2. bspan' \in Bridged BY <1>3, <2>1, FlagSet
    <2>3. bspan'.logged = FALSE /\ bspan'.kind = "ot" /\ ~bspan'.ended /\ bspan'.httpStatus = 0
          /\ bspan'.outcome = "" /\ bspan'.errorCaptured = r.errorCaptured
      BY <1>3, <2>1 DEF Bridged
    <2> QED BY <1>5, <1>7, <2>2, <2>3 DEF LifeInv
  <1> QED BY <1>6, <1>7

\* What the agent's End leaves of a span that has no outcome yet.
LEMMA AgentEndIs ==
    ASSUME NEW b \in Bridged
    PROVE  /\ AgentEnd(b) \in Bridged /\ AgentEnd(b).kind = b.kind /\ AgentEnd(b).ended = TRUE
           /\ AgentEnd(b).httpStatus = b.httpStatus /\ AgentEnd(b).wasSet = b.wasSet
           /\ AgentEnd(b).logged = b.logged
           /\ ~b.ended /\ b.outcome # "" => AgentEnd(b).outcome = b.outcome
           /\ ~b.ended /\ b.outcome = "" /\ b.httpStatus = 0 =>
                 (AgentEnd(b).outcome = "failure" <=> b.errorCaptured)
  <1> DEFINE out == CASE b.outcome # "" -> b.outcome
                      [] b.outcome = "" /\ b.httpStatus # 0 -> IF b.httpStatus < 500 THEN "success" ELSE "failure"
                      [] OTHER -> IF b.errorCaptured THEN "failure" ELSE "success"
  <1>1. PICK w : w = AgentEnd(b) OBVIOUS
  <1>2. CASE b.ended BY <1>2 DEF AgentEnd, Bridged
  <1>3. CASE ~b.ended
    <2>1. w = [b EXCEPT !.ended = TRUE, !.outcome = out] BY <1>1, <1>3 DEF AgentEnd
    <2>2. /\ out \in Out
          /\ b.outcome # "" => out = b.outcome
          /\ b.outcome = "" /\ b.httpStatus = 0 => (out = "failure" <=> b.errorCaptured)
      BY DEF Bridged, Out
    <2> HIDE DEF out
    <2>3. PICK x : x = [b EXCEPT !.ended = TRUE] OBVIOUS
    <2>4. x \in Bridged /\ x.ended = TRUE /\ x.kind = b.kind /\ x.httpStatus = b.httpStatus
          /\ x.wasSet = b.wasSet /\ x.logged = b.logged
      BY <2>3 DEF Bridged
    <2>5. w = [x EXCEPT !.outcome = out] BY <2>1, <2>3 DEF Bridged
    <2>6. w \in Bridged /\ w.outcome = out BY <2>2, <2>4, <2>5 DEF Bridged
    <2>7. w.ended = x.ended /\ w.kind = x.kind /\ w.httpStatus = x.httpStatus
          /\ w.wasSet = x.wasSet /\ w.logged = x.logged
      BY <2>4, <2>5 DEF Bridged
    <2> QED BY <1>1, <2>2, <2>4, <2>6, <2>7
  <1> QED BY <1>2, <1>3

\* What the program tells Finish decides the outcome only with a response's status.
LEMMA OTFinishKeeps ==
    ASSUME LifeInv, NEW code \in {0, 200, 404, 500}, NEW result \in BOOLEAN, NEW fields,
           OTFinish(code, result, fields)
    PROVE  LifeInv'
  <1>1. PICK b : b = bspan OBVIOUS
  <1>2. b \in Bridged /\ b.kind = "ot" /\ ~b.ended /\ b.outcome = "" /\ b.httpStatus = 0
        /\ (b.errorCaptured <=> b.logged)
    BY <1>1 DEF LifeInv, OTFinish
  <1>3. PICK w : w = FinishWithOptions(b, code, result, fields) OBVIOUS
  <1>4. /\ w \in Bridged /\ w.kind = "ot" /\ w.ended = TRUE /\ w.logged = b.logged
        /\ w.httpStatus = 0 => (w.outcome = "failure" <=> b.errorCaptured \/ EmitsError(fields))
    <2>1. CASE b.item = "span"
      <3>1. PICK r : r = LogFields(b, fields) OBVIOUS
      <3>2. /\ r \in Bridged /\ r.kind = "ot" /\ ~r.ended /\ r.httpStatus = 0 /\ r.outcome = ""
            /\ r.logged = b.logged
            /\ r.errorCaptured <=> b.errorCaptured \/ EmitsError(fields)
        <4>1. b \in Bridged BY <1>2
        <4>2. /\ r \in Bridged /\ r.kind = b.kind /\ r.ended = b.ended /\ r.httpStatus = b.httpStatus
              /\ r.outcome = b.outcome /\ r.logged = b.logged
              /\ ~b.ended => (r.errorCaptured <=> b.errorCaptured \/ EmitsError(fields))
          <5> DEFINE q == LogFields(b, fields)
          <5>1. /\ q \in Bridged /\ q.kind = b.kind /\ q.ended = b.ended
                /\ q.httpStatus = b.httpStatus
                /\ q.outcome = b.outcome /\ q.logged = b.logged
                /\ ~b.ended => (q.errorCaptured <=> b.errorCaptured \/ EmitsError(fields))
            BY <4>1, LogFieldsIs
          <5>2. r = q BY <3>1
          <5> HIDE DEF q
          <5> QED BY <5>1, <5>2
        <4>3. r \in Bridged /\ r.logged = b.logged BY <4>2
        <4>4. r.kind = "ot" BY <1>2, <4>2
        <4>5. ~r.ended BY <1>2, <4>2
        <4>6. r.httpStatus = 0 BY <1>2, <4>2
        <4>7. r.outcome = "" BY <1>2, <4>2
        <4>8. r.errorCaptured <=> b.errorCaptured \/ EmitsError(fields) BY <1>2, <4>2
        <4> QED BY <4>3, <4>4, <4>5, <4>6, <4>7, <4>8
      <3>3. w = AgentEnd(r) BY <1>3, <2>1, <3>1 DEF FinishWithOptions, OTSetSpanContext
      <3>4. /\ w \in Bridged /\ w.kind = "ot" /\ w.ended = TRUE /\ w.logged = r.logged
            /\ w.outcome = "failure" <=> r.errorCaptured
        <4>1. r \in Bridged BY <3>2
        <4>2. /\ w \in Bridged /\ w.kind = r.kind /\ w.ended = TRUE /\ w.logged = r.logged
              /\ ~r.ended /\ r.outcome = "" /\ r.httpStatus = 0 =>
                   (w.outcome = "failure" <=> r.errorCaptured)
          BY <3>3, <4>1, AgentEndIs, Zenon
        <4> QED BY <3>2, <4>2
      <3> QED BY <3>2, <3>4
    <2>2. CASE b.item # "span"
      <3>1. PICK c : c = OTSetTransactionContext(b, code, result) OBVIOUS
      <3>2. PICK k : k = IF result THEN 0 ELSE code OBVIOUS
      <3>3. k \in HTTPCode BY <3>2 DEF HTTPCode
      <3>4. c = [b EXCEPT !.httpStatus = k] BY <3>1, <3>2 DEF OTSetTransactionContext
      <3>5. /\ c \in Bridged /\ c.kind = "ot" /\ ~c.ended /\ c.outcome = "" /\ c.logged = b.logged
            /\ c.errorCaptured = b.errorCaptured
        <4>1. b \in Bridged BY <1>2
        <4>2. c \in Bridged BY <3>3, <3>4, <4>1 DEF Bridged
        <4>3. c.kind = b.kind /\ c.ended = b.ended /\ c.outcome = b.outcome /\ c.logged = b.logged
              /\ c.errorCaptured = b.errorCaptured
          BY <3>4, <4>1 DEF Bridged
        <4>4. c.kind = "ot" /\ ~c.ended BY <1>2, <4>3
        <4>5. c.outcome = "" BY <1>2, <4>3
        <4> QED BY <4>2, <4>3, <4>4, <4>5
      <3>6. PICK r : r = LogFields(c, fields) OBVIOUS
      <3>7. /\ r \in Bridged /\ r.kind = "ot" /\ ~r.ended /\ r.outcome = ""
            /\ r.logged = b.logged
            /\ r.errorCaptured <=> c.errorCaptured \/ EmitsError(fields)
        <4>1. c \in Bridged BY <3>5
        <4>2. /\ r \in Bridged /\ r.kind = c.kind /\ r.ended = c.ended
              /\ r.outcome = c.outcome /\ r.logged = c.logged
              /\ ~c.ended => (r.errorCaptured <=> c.errorCaptured \/ EmitsError(fields))
          <5> DEFINE q == LogFields(c, fields)
          <5>1. /\ q \in Bridged /\ q.kind = c.kind /\ q.ended = c.ended
                /\ q.httpStatus = c.httpStatus
                /\ q.outcome = c.outcome /\ q.logged = c.logged
                /\ ~c.ended => (q.errorCaptured <=> c.errorCaptured \/ EmitsError(fields))
            BY <4>1, LogFieldsIs
          <5>2. r = q BY <3>6
          <5> HIDE DEF q
          <5> QED BY <5>1, <5>2
        <4>3. r \in Bridged BY <4>2
        <4>4. r.kind = "ot" /\ ~r.ended /\ r.logged = b.logged BY <3>5, <4>2
        <4>5. r.outcome = "" BY <3>5, <4>2
        <4>6. r.errorCaptured <=> c.errorCaptured \/ EmitsError(fields) BY <3>5, <4>2
        <4> QED BY <4>3, <4>4, <4>5, <4>6
      <3>8. w = AgentEnd(r) BY <1>3, <2>2, <3>1, <3>6 DEF FinishWithOptions
      <3>9. w.httpStatus = r.httpStatus BY <3>7, <3>8, AgentEndIs
      <3>10. /\ w \in Bridged /\ w.kind = "ot" /\ w.ended = TRUE /\ w.logged = b.logged
             /\ r.httpStatus = 0 => (w.outcome = "failure" <=> r.errorCaptured)
        BY <3>7, <3>8, AgentEndIs
      <3> QED BY <3>5, <3>7, <3>9, <3>10
    <2> QED BY <2>1, <2>2
  <1>5. bspan' = [w EXCEPT !.logged = w.logged \/ EmitsError(fields)] BY <1>1, <1>3 DEF OTFinish
  <1>6. CASE w.logged \/ EmitsError(fields)
    <2>1. bspan' = [w EXCEPT !.logged = TRUE] BY <1>5, <1>6
    <2>2. bspan' \in Bridged BY <1>4, <2>1, FlagSet
    <2>3. bspan'.logged = TRUE /\ bspan'.kind = "ot" /\ bspan'.ended = TRUE
          /\ bspan'.httpStatus = w.httpStatus /\ bspan'.outcome = w.outcome
      BY <1>4, <2>1 DEF Bridged
    <2>4. bspan'.httpStatus = 0 => (bspan'.outcome = "failure" <=> bspan'.logged)
      BY <1>2, <1>4, <1>6, <2>3
    <2>5. bspan'.kind = "ot" /\ bspan'.kind # "otel" /\ bspan'.ended = TRUE
      BY <2>3
    <2> QED BY <2>2, <2>4, <2>5 DEF LifeInv
  <1>7. CASE ~(w.logged \/ EmitsError(fields))
    <2>1. bspan' = [w EXCEPT !.logged = FALSE] BY <1>5, <1>7
    <2>2. bspan' \in Bridged BY <1>4, <2>1, FlagSet
    <2>3. bspan'.logged = FALSE /\ bspan'.kind = "ot" /\ bspan'.ended = TRUE
          /\ bspan'.httpStatus = w.httpStatus /\ bspan'.outcome = w.outcome
      BY <1>4, <2>1 DEF Bridged
    <2>4. bspan'.httpStatus = 0 => (bspan'.outcome = "failure" <=> bspan'.logged)
      BY <1>2, <1>4, <1>7, <2>3
    <2>5. bspan'.kind = "ot" /\ bspan'.kind # "otel" /\ bspan'.ended = TRUE
      BY <2>3
    <2> QED BY <2>2, <2>4, <2>5 DEF LifeInv
  <1> QED BY <1>6, <1>7

\* A status only rises, and the statuses set after the end are not counted.
LEMMA UseStatusKeeps == ASSUME LifeInv, NEW code \in 0..2, UseStatus(code) PROVE LifeInv'
  <1>1. PICK b : b = bspan OBVIOUS
  <1>2. b \in Bridged /\ b.kind = "otel" BY <1>1 DEF LifeInv, UseStatus
  <1>3. PICK r : r = SetStatus(b, code) OBVIOUS
  <1>4. /\ r \in Bridged /\ r.kind = "otel" /\ r.ended = b.ended /\ r.outcome = b.outcome
        /\ r.wasSet = b.wasSet /\ r.status = (IF b.status > code THEN b.status ELSE code)
    <2>1. CASE b.status > code BY <1>2, <1>3, <2>1 DEF SetStatus
    <2>2. CASE ~(b.status > code)
      <3>1. r = [b EXCEPT !.status = code] /\ code \in Code BY <1>3, <2>2 DEF SetStatus, Code
      <3> QED BY <1>2, <2>2, <3>1 DEF Bridged
    <2> QED BY <2>1, <2>2
  <1>5. PICK set : set = IF b.ended THEN b.wasSet ELSE b.wasSet \cup {code} OBVIOUS
  <1>6. set \in Statuses /\ b.status \in 0..2
    <2>1. b.wasSet \in Statuses /\ b.status \in Code BY <1>2 DEF Bridged
    <2> QED BY <1>5, <2>1 DEF Statuses, Code
  <1>7. bspan' = [r EXCEPT !.wasSet = set] BY <1>1, <1>3, <1>4, <1>5 DEF UseStatus
  <1>8. /\ bspan' \in Bridged /\ bspan'.kind = "otel" /\ bspan'.ended = b.ended
        /\ bspan'.outcome = b.outcome /\ bspan'.wasSet = set /\ bspan'.status = r.status
    BY <1>4, <1>6, <1>7 DEF Bridged
  <1>9. CASE b.ended
    <2>1. set = b.wasSet BY <1>5, <1>9
    <2> QED BY <1>1, <1>2, <1>8, <1>9, <2>1 DEF LifeInv
  <1>10. CASE ~b.ended
    <2>1. set = b.wasSet \cup {code} BY <1>5, <1>10
    <2>2. /\ b.status = 2 <=> 2 \in b.wasSet
          /\ b.status = 1 <=> 2 \notin b.wasSet /\ 1 \in b.wasSet
      BY <1>1, <1>2, <1>10 DEF LifeInv
    <2>3. /\ r.status = 2 <=> 2 \in set
          /\ r.status = 1 <=> 2 \notin set /\ 1 \in set
      BY <1>4, <1>6, <2>1, <2>2
    <2> QED BY <1>8, <1>10, <2>3 DEF LifeInv
  <1> QED BY <1>9, <1>10

\* The outcome of an OpenTelemetry span is decided at its first end.
LEMMA OTelEndKeeps ==
    ASSUME LifeInv, NEW code \in {0, 200, 404, 500}, NEW result \in BOOLEAN, OTelEndSpan(code, result)
    PROVE  LifeInv'
  <1>1. PICK b : b = bspan OBVIOUS
  <1>2. b \in Bridged /\ b.kind = "otel" /\ bspan' = OTelEnd(b, code, result)
    BY <1>1 DEF LifeInv, OTelEndSpan
  <1>3. CASE b.ended
    <2>1. bspan' = bspan BY <1>1, <1>2, <1>3 DEF OTelEnd
    <2> QED BY <2>1 DEF LifeInv
  <1>4. CASE ~b.ended
    <2> DEFINE out == CASE b.status = 2 -> "success" [] b.status = 1 -> "failure" [] OTHER -> "unknown"
    <2>1. PICK a : a = SetAttributes(b, code, result) OBVIOUS
    <2>2. /\ a \in Bridged /\ a.kind = "otel" /\ ~a.ended /\ a.status = b.status /\ a.wasSet = b.wasSet
      <3>1. CASE b.item = "tx" /\ ~result
        <4>1. a = [b EXCEPT !.httpStatus = code] /\ code \in HTTPCode
          BY <2>1, <3>1 DEF SetAttributes, HTTPCode
        <4> QED BY <1>2, <1>4, <4>1 DEF Bridged
      <3>2. CASE ~(b.item = "tx" /\ ~result) BY <1>2, <1>4, <2>1, <3>2 DEF SetAttributes
      <3> QED BY <3>1, <3>2
    <2>3. PICK o : o = out OBVIOUS
    <2>4. o \in Out /\ o # "" BY <2>3 DEF Out
    <2>5. PICK x : x = [a EXCEPT !.outcome = o] OBVIOUS
    <2>6. bspan' = AgentEnd(x)
      <3>1. bspan' = AgentEnd([a EXCEPT !.outcome = out]) BY <1>1, <1>2, <1>4, <2>1 DEF OTelEnd
      <3> QED BY <2>3, <2>5, <3>1
    <2>7. x \in Bridged /\ x.kind = "otel" /\ ~x.ended /\ x.outcome = o /\ x.wasSet = b.wasSet
      BY <2>2, <2>4, <2>5 DEF Bridged
    <2>8. /\ bspan' \in Bridged /\ bspan'.kind = "otel" /\ bspan'.ended = TRUE
          /\ bspan'.outcome = o /\ bspan'.wasSet = b.wasSet
      BY <2>4, <2>6, <2>7, AgentEndIs
    <2>9. /\ b.status = 2 <=> 2 \in b.wasSet
          /\ b.status = 1 <=> 2 \notin b.wasSet /\ 1 \in b.wasSet
      BY <1>1, <1>2, <1>4 DEF LifeInv
    <2>10. o = CASE 2 \in b.wasSet -> "success"
                 [] 2 \notin b.wasSet /\ 1 \in b.wasSet -> "failure"
                 [] OTHER -> "unknown"
      <3>1. CASE 2 \in b.wasSet BY <2>3, <2>9, <3>1
      <3>2. CASE 2 \notin b.wasSet /\ 1 \in b.wasSet BY <2>3, <2>9, <3>2
      <3>3. CASE 2 \notin b.wasSet /\ 1 \notin b.wasSet
        <4>1. b.status # 2 /\ b.status # 1 BY <2>9, <3>3
        <4> QED BY <2>3, <3>3, <4>1
      <3> QED BY <3>1, <3>2, <3>3
    <2> HIDE DEF out
    <2> QED BY <2>8, <2>10 DEF LifeInv
  <1> QED BY <1>3, <1>4

\* Every step keeps it.
LEMMA LifeStep == LifeInv /\ [LifeNext]_lifeVars => LifeInv'
  <1> SUFFICES ASSUME LifeInv, [LifeNext]_lifeVars PROVE LifeInv'
    OBVIOUS
  <1>1. ASSUME NEW fields \in Records, LogKV(fields) PROVE LifeInv' BY <1>1, LogKVKeeps
  <1>2. ASSUME NEW code \in {0, 200, 404, 500}, NEW result \in BOOLEAN, NEW fields \in Records,
               OTFinish(code, result, fields)
        PROVE  LifeInv'
    BY <1>2, OTFinishKeeps
  <1>3. ASSUME NEW code \in {0, 200, 404, 500}, NEW result \in BOOLEAN, OTelEndSpan(code, result)
        PROVE  LifeInv'
    BY <1>3, OTelEndKeeps
  <1>4. ASSUME NEW code \in 0..2, UseStatus(code) PROVE LifeInv' BY <1>4, UseStatusKeeps
  <1>5. CASE UNCHANGED lifeVars BY <1>5 DEF lifeVars, LifeInv
  <1> QED BY <1>1, <1>2, <1>3, <1>4, <1>5 DEF LifeNext

\* BridgeAgrees: whatever a program mixes of the native API and a bridge's, spans are
\* nested as their contexts are, and have the outcome that either API gave them.
THEOREM BridgesDoAgree == ContextSpec /\ LifeSpec => []BridgeAgrees
  <1>1. ContextSpec => []ContextInv BY ContextInitial, ContextStep, PTL DEF ContextSpec
  <1>2. LifeSpec => []LifeInv BY LifeInitial, LifeStep, PTL DEF LifeSpec
  <1>3. ContextInv /\ LifeInv => BridgeAgrees
    <2> SUFFICES ASSUME ContextInv, LifeInv PROVE BridgeAgrees
      OBVIOUS
    <2>1. ParentIsHead BY ContextsAgree
    <2>2. OutcomeOfStatus BY DEF LifeInv, OutcomeOfStatus
    <2>3. OutcomeOfLogs BY DEF LifeInv, OutcomeOfLogs
    <2> QED BY <2>1, <2>2, <2>3 DEF BridgeAgrees
  <1> QED BY <1>1, <1>2, <1>3, PTL

-----------------------------------------------------------------------------
(* Servers *)

Via == {"http", "httprouter", "restful", "gin", "echo", "fasthttp", "fiber", "grpc", "lambda"}

\* The middlewares that count on net/http's response.
HTTPLike == {"http", "httprouter", "restful"}

Codes == {0, 200, 404, 500}

Phases == {"idle", "handling", "deferred", "ending", "done", "refused", "finished"}
GivenErr == {0, 404, 500}
Capturers == PooledCapturer \cup {NoBody}
Outcomes == {"", "success", "failure"}
Reports == {<<>>, <<"handled">>, <<"recovered">>, <<"recovered", "handled">>}
Once == {0, 1}

ServerRequest ==
    [phase : Phases, fw : Frameworks, via : Via, traced : BOOLEAN, sampled : BOOLEAN,
     propagate : BOOLEAN, status : Codes, committed : BOOLEAN, client : Codes, answers : Nat,
     err : GivenErr, panicking : BOOLEAN, panicked : BOOLEAN, capturer : Capturers,
     result : Codes, ctxStatus : Codes, outcome : Outcomes, errors : Reports, ended : Once]

\* What the traits of the frameworks say.
LEMMA TraitsAre ==
    ASSUME NEW f \in Frameworks
    PROVE  /\ Traits[f].via \in Via /\ Traits[f].propagate \subseteq BOOLEAN
           /\ Traits[f].errors \in BOOLEAN
           /\ Traits[f].initial = IF Traits[f].via \in HTTPLike \cup {"grpc", "lambda"}
                                  THEN 0 ELSE 200
           /\ Traits[f].via \in HTTPLike \cup {"gin", "fasthttp"} => ~Traits[f].errors
           /\ Traits[f].via \in {"echo", "fiber"} => Traits[f].errors
           /\ Traits[f].via \in {"httprouter", "restful", "echo", "lambda"} =>
                  Traits[f].propagate = {FALSE}
           /\ Traits[f].via = "fiber" => f = "fiber"
<1>1. f \in {"http", "chi", "chiv5", "gorilla", "negroni", "beego", "httprouter", "restful",
             "restfulv3", "gin", "echo", "echov4", "fasthttp", "fiber", "grpc",
             "grpc_stream", "lambda"}
  BY FrameworksKnown DEF Traits
<1>2. CASE f = "http"
  <2>1. Traits[f] = NetHTTP BY <1>2 DEF Traits
  <2> QED BY <1>2, <2>1 DEF NetHTTP, Middleware, Via, HTTPLike
<1>3. CASE f = "chi"
  <2>1. Traits[f] = Chi BY <1>3 DEF Traits
  <2> QED BY <1>3, <2>1 DEF Chi, Middleware, Via, HTTPLike
<1>4. CASE f = "chiv5"
  <2>1. Traits[f] = ChiV5 BY <1>4 DEF Traits
  <2> QED BY <1>4, <2>1 DEF ChiV5, Middleware, Via, HTTPLike
<1>5. CASE f = "gorilla"
  <2>1. Traits[f] = Gorilla BY <1>5 DEF Traits
  <2> QED BY <1>5, <2>1 DEF Gorilla, Middleware, Via, HTTPLike
<1>6. CASE f = "negroni"
  <2>1. Traits[f] = Negroni BY <1>6 DEF Traits
  <2> QED BY <1>6, <2>1 DEF Negroni, Middleware, Via, HTTPLike
<1>7. CASE f = "beego"
  <2>1. Traits[f] = Beego BY <1>7 DEF Traits
  <2> QED BY <1>7, <2>1 DEF Beego, Middleware, Via, HTTPLike
<1>8. CASE f = "httprouter"
  <2>1. Traits[f] = HTTPRouter BY <1>8 DEF Traits
  <2> QED BY <1>8, <2>1 DEF HTTPRouter, Middleware, Via, HTTPLike
<1>9. CASE f = "restful"
  <2>1. Traits[f] = Restful BY <1>9 DEF Traits
  <2> QED BY <1>9, <2>1 DEF Restful, Middleware, Via, HTTPLike
<1>10. CASE f = "restfulv3"
  <2>1. Traits[f] = RestfulV3 BY <1>10 DEF Traits
  <2> QED BY <1>10, <2>1 DEF RestfulV3, Middleware, Via, HTTPLike
<1>11. CASE f = "gin"
  <2>1. Traits[f] = Gin BY <1>11 DEF Traits
  <2> QED BY <1>11, <2>1 DEF Gin, Middleware, Via, HTTPLike
<1>12. CASE f = "echo"
  <2>1. Traits[f] = Echo BY <1>12 DEF Traits
  <2> QED BY <1>12, <2>1 DEF Echo, Middleware, Via, HTTPLike
<1>13. CASE f = "echov4"
  <2>1. Traits[f] = EchoV4 BY <1>13 DEF Traits
  <2> QED BY <1>13, <2>1 DEF EchoV4, Middleware, Via, HTTPLike
<1>14. CASE f = "fasthttp"
  <2>1. Traits[f] = FastHTTP BY <1>14 DEF Traits
  <2> QED BY <1>14, <2>1 DEF FastHTTP, Middleware, Via, HTTPLike
<1>15. CASE f = "fiber"
  <2>1. Traits[f] = Fiber BY <1>15 DEF Traits
  <2> QED BY <1>15, <2>1 DEF Fiber, Middleware, Via, HTTPLike
<1>16. CASE f = "grpc"
  <2>1. Traits[f] = GRPCUnary BY <1>16 DEF Traits
  <2> QED BY <1>16, <2>1 DEF GRPCUnary, Middleware, Via, HTTPLike
<1>17. CASE f = "grpc_stream"
  <2>1. Traits[f] = GRPCStream BY <1>17 DEF Traits
  <2> QED BY <1>17, <2>1 DEF GRPCStream, Middleware, Via, HTTPLike
<1>18. CASE f = "lambda"
  <2>1. Traits[f] = Lambda BY <1>18 DEF Traits
  <2> QED BY <1>18, <2>1 DEF Lambda, Middleware, Via, HTTPLike
<1> QED
  BY <1>1, <1>2, <1>3, <1>4, <1>5, <1>6, <1>7, <1>8, <1>9, <1>10, <1>11, <1>12, <1>13, <1>14, <1>15, <1>16, <1>17, <1>18

\* p is q, but for the field k.
Only(p, q, k) ==
    /\ p \in ServerRequest
    /\ p.fw = q.fw /\ p.via = q.via /\ p.traced = q.traced /\ p.sampled = q.sampled
    /\ p.propagate = q.propagate /\ p.capturer = q.capturer
    /\ k # "phase" => p.phase = q.phase
    /\ k # "status" => p.status = q.status
    /\ k # "committed" => p.committed = q.committed
    /\ k # "client" => p.client = q.client
    /\ k # "answers" => p.answers = q.answers
    /\ k # "err" => p.err = q.err
    /\ k # "panicking" => p.panicking = q.panicking
    /\ k # "panicked" => p.panicked = q.panicked
    /\ k # "result" => p.result = q.result
    /\ k # "ctxStatus" => p.ctxStatus = q.ctxStatus
    /\ k # "outcome" => p.outcome = q.outcome
    /\ k # "errors" => p.errors = q.errors
    /\ k # "ended" => p.ended = q.ended

\* An update of the field phase.
LEMMA PhaseIs ==
    ASSUME NEW q \in ServerRequest, NEW x \in Phases
    PROVE  Only([q EXCEPT !.phase = x], q, "phase") /\ [q EXCEPT !.phase = x].phase = x
  BY DEF Only, ServerRequest

\* An update of the field status.
LEMMA StatusIs ==
    ASSUME NEW q \in ServerRequest, NEW x \in Codes
    PROVE  Only([q EXCEPT !.status = x], q, "status") /\ [q EXCEPT !.status = x].status = x
  BY DEF Only, ServerRequest

\* An update of the field client.
LEMMA ClientIs ==
    ASSUME NEW q \in ServerRequest, NEW x \in Codes
    PROVE  Only([q EXCEPT !.client = x], q, "client") /\ [q EXCEPT !.client = x].client = x
  BY DEF Only, ServerRequest

\* An update of the field answers.
LEMMA AnswersIs ==
    ASSUME NEW q \in ServerRequest, NEW x \in Nat
    PROVE  Only([q EXCEPT !.answers = x], q, "answers") /\ [q EXCEPT !.answers = x].answers = x
  BY DEF Only, ServerRequest

\* An update of the field err.
LEMMA ErrIs ==
    ASSUME NEW q \in ServerRequest, NEW x \in GivenErr
    PROVE  Only([q EXCEPT !.err = x], q, "err") /\ [q EXCEPT !.err = x].err = x
  BY DEF Only, ServerRequest

\* An update of the field result.
LEMMA ResultIs ==
    ASSUME NEW q \in ServerRequest, NEW x \in Codes
    PROVE  Only([q EXCEPT !.result = x], q, "result") /\ [q EXCEPT !.result = x].result = x
  BY DEF Only, ServerRequest

\* An update of the field ctxStatus.
LEMMA CtxStatusIs ==
    ASSUME NEW q \in ServerRequest, NEW x \in Codes
    PROVE  Only([q EXCEPT !.ctxStatus = x], q, "ctxStatus") /\ [q EXCEPT !.ctxStatus = x].ctxStatus = x
  BY DEF Only, ServerRequest

\* An update of the field outcome.
LEMMA OutcomeIs ==
    ASSUME NEW q \in ServerRequest, NEW x \in Outcomes
    PROVE  Only([q EXCEPT !.outcome = x], q, "outcome") /\ [q EXCEPT !.outcome = x].outcome = x
  BY DEF Only, ServerRequest

\* An update of the field errors.
LEMMA ErrorsIs ==
    ASSUME NEW q \in ServerRequest, NEW x \in Reports
    PROVE  Only([q EXCEPT !.errors = x], q, "errors") /\ [q EXCEPT !.errors = x].errors = x
  BY DEF Only, ServerRequest

\* An update of the field ended.
LEMMA EndedIs ==
    ASSUME NEW q \in ServerRequest, NEW x \in Once
    PROVE  Only([q EXCEPT !.ended = x], q, "ended") /\ [q EXCEPT !.ended = x].ended = x
  BY DEF Only, ServerRequest

\* An update of the flag committed.
LEMMA CommittedIs ==
    ASSUME NEW q \in ServerRequest, NEW x \in BOOLEAN
    PROVE  Only([q EXCEPT !.committed = x], q, "committed") /\ [q EXCEPT !.committed = x].committed = x
<1>1. CASE x = TRUE BY <1>1 DEF Only, ServerRequest
<1>2. CASE x = FALSE BY <1>2 DEF Only, ServerRequest
<1> QED BY <1>1, <1>2

\* An update of the flag panicking.
LEMMA PanickingIs ==
    ASSUME NEW q \in ServerRequest, NEW x \in BOOLEAN
    PROVE  Only([q EXCEPT !.panicking = x], q, "panicking") /\ [q EXCEPT !.panicking = x].panicking = x
<1>1. CASE x = TRUE BY <1>1 DEF Only, ServerRequest
<1>2. CASE x = FALSE BY <1>2 DEF Only, ServerRequest
<1> QED BY <1>1, <1>2

\* An update of the flag panicked.
LEMMA PanickedIs ==
    ASSUME NEW q \in ServerRequest, NEW x \in BOOLEAN
    PROVE  Only([q EXCEPT !.panicked = x], q, "panicked") /\ [q EXCEPT !.panicked = x].panicked = x
<1>1. CASE x = TRUE BY <1>1 DEF Only, ServerRequest
<1>2. CASE x = FALSE BY <1>2 DEF Only, ServerRequest
<1> QED BY <1>1, <1>2

\* What stays of a request while it is answered and reported.
Fixed(p, q) ==
    /\ p \in ServerRequest /\ p.fw = q.fw /\ p.via = q.via /\ p.traced = q.traced
    /\ p.sampled = q.sampled /\ p.propagate = q.propagate /\ p.capturer = q.capturer
    /\ p.phase = q.phase /\ p.answers = q.answers /\ p.panicked = q.panicked

SameResponse(p, q) == p.status = q.status /\ p.committed = q.committed /\ p.client = q.client

SameReport(p, q) ==
    p.result = q.result /\ p.ctxStatus = q.ctxStatus /\ p.outcome = q.outcome
    /\ p.errors = q.errors /\ p.ended = q.ended

\* What answering does.
LEMMA WriteHeaderIs ==
    ASSUME NEW q \in ServerRequest, NEW code \in Codes, NEW p, p = WriteHeader(q, code)
    PROVE  /\ Fixed(p, q) /\ SameReport(p, q) /\ p.err = q.err /\ p.panicking = q.panicking
           /\ ViaFastHTTP(q) => p.status = code /\ p.committed = q.committed /\ p.client = q.client
           /\ q.via \in {"gin", "echo"} =>
                  IF q.committed THEN SameResponse(p, q)
                  ELSE p.status = code /\ p.committed = TRUE /\ p.client = code
           /\ q.via \in HTTPLike \cup {"grpc", "lambda"} =>
                  p.status = code /\ p.committed = TRUE /\ p.client = IF q.committed THEN q.client ELSE code
<1>a. PICK s : s = [q EXCEPT !.status = code] OBVIOUS
<1>b. s \in ServerRequest /\ Only(s, q, "status") /\ s.status = code BY <1>a, StatusIs DEF Only
<1>c. PICK t : t = [s EXCEPT !.committed = TRUE] OBVIOUS
<1>d. t \in ServerRequest /\ Only(t, s, "committed") /\ t.committed = TRUE
  <2>1. TRUE \in BOOLEAN /\ s \in ServerRequest BY <1>b
  <2>2. Only(t, s, "committed") /\ t.committed = TRUE BY <1>c, <2>1, CommittedIs, Zenon
  <2> QED BY <2>2 DEF Only
<1>e. q.client \in Codes BY DEF ServerRequest
<1>1. CASE ViaFastHTTP(q)
  <2>1. p = s BY <1>1, <1>a DEF WriteHeader, ViaFastHTTP
  <2>2. Fixed(s, q) /\ SameReport(s, q) /\ s.err = q.err /\ s.panicking = q.panicking
        /\ s.status = code /\ s.committed = q.committed /\ s.client = q.client
    BY <1>b DEF Only, Fixed, SameReport
  <2> QED BY <1>1, <2>1, <2>2 DEF ViaFastHTTP, HTTPLike
<1>2. CASE q.via \in {"gin", "echo"} /\ q.committed
  <2>1. p = q BY <1>2 DEF WriteHeader, ViaFastHTTP
  <2> QED BY <1>2, <2>1 DEF ViaFastHTTP, HTTPLike, Fixed, SameReport, SameResponse
<1>3. CASE q.via \in {"gin", "echo"} /\ ~q.committed
  <2>1. p = [q EXCEPT !.status = code, !.committed = TRUE, !.client = code]
    BY <1>3 DEF WriteHeader, ViaFastHTTP
  <2>2. p = [t EXCEPT !.client = code] BY <2>1, <1>a, <1>c
  <2>3. Only(p, t, "client") /\ p.client = code BY <1>d, <2>2, ClientIs
  <2>4. /\ Fixed(p, q) /\ SameReport(p, q) /\ p.err = q.err /\ p.panicking = q.panicking
        /\ p.status = code /\ p.committed = TRUE
    BY <1>b, <1>d, <2>3 DEF Only, Fixed, SameReport
  <2> QED BY <1>3, <2>3, <2>4 DEF ViaFastHTTP, HTTPLike
<1>4. CASE ~ViaFastHTTP(q) /\ q.via \notin {"gin", "echo"}
  <2>1. PICK x : x = IF q.committed THEN q.client ELSE code OBVIOUS
  <2>2. p = [q EXCEPT !.status = code, !.committed = TRUE, !.client = x]
    <3>1. p = [q EXCEPT !.status = code, !.committed = TRUE,
                        !.client = IF ~q.committed THEN code ELSE q.client]
      BY <1>4 DEF WriteHeader, ServerRequest
    <3>2. (IF ~q.committed THEN code ELSE q.client) = x BY <2>1
    <3> QED BY <3>1, <3>2
  <2>3. p = [t EXCEPT !.client = x] BY <2>2, <1>a, <1>c
  <2>4. x \in Codes BY <1>e, <2>1
  <2>5. Only(p, t, "client") /\ p.client = x BY <1>d, <2>3, <2>4, ClientIs
  <2>6. /\ Fixed(p, q) /\ SameReport(p, q) /\ p.err = q.err /\ p.panicking = q.panicking
        /\ p.status = code /\ p.committed = TRUE
    BY <1>b, <1>d, <2>5 DEF Only, Fixed, SameReport
  <2> QED BY <1>4, <2>1, <2>5, <2>6 DEF ViaFastHTTP, HTTPLike
<1> QED BY <1>1, <1>2, <1>3, <1>4

\* The reports of a panic and of a handler's error, one after the other.
LEMMA TwoReports == Append(<<"recovered">>, "handled") = <<"recovered", "handled">>
<1>1. PICK a : a = <<"recovered">> OBVIOUS
<1>2. a \in Seq({"recovered", "handled"}) /\ Len(a) = 1 /\ a[1] = "recovered" BY <1>1
<1>3. PICK b : b = Append(a, "handled") OBVIOUS
<1>4. b \in Seq({"recovered", "handled"}) /\ Len(b) = 2 /\ b[1] = "recovered" /\ b[2] = "handled"
  BY <1>2, <1>3
<1>5. b = <<b[1], b[2]>> BY <1>4
<1> QED BY <1>1, <1>3, <1>4, <1>5

\* What reporting an error does.
LEMMA SendErrorIs ==
    ASSUME NEW q \in ServerRequest, NEW x \in {"recovered", "handled"},
           q.errors = <<>> \/ (q.errors = <<"recovered">> /\ x = "handled")
    PROVE  LET p == SendError(q, x) IN
           /\ Fixed(p, q) /\ SameResponse(p, q) /\ p.err = q.err /\ p.panicking = q.panicking
           /\ p.result = q.result /\ p.ctxStatus = q.ctxStatus /\ p.outcome = q.outcome
           /\ p.ended = q.ended
           /\ p.errors = IF q.errors = <<>> THEN <<x>> ELSE <<"recovered", "handled">>
<1> DEFINE p == SendError(q, x)
<1>1. PICK s : s = IF q.errors = <<>> THEN <<x>> ELSE <<"recovered", "handled">> OBVIOUS
<1>2. s \in Reports BY <1>1 DEF Reports
<1>3. Append(q.errors, x) = s
  <2>1. CASE q.errors = <<>> BY <1>1, <2>1
  <2>2. CASE q.errors = <<"recovered">> /\ x = "handled"
    <3>1. Append(<<"recovered">>, "handled") = <<"recovered", "handled">> BY TwoReports
    <3>2. <<"recovered">> # <<>> OBVIOUS
    <3> QED BY <1>1, <2>2, <3>1, <3>2
  <2> QED BY <2>1, <2>2
<1>4. p = [q EXCEPT !.errors = s]
  <2>1. p = [q EXCEPT !.errors = Append(q.errors, x)] BY DEF SendError, ServerRequest
  <2> HIDE DEF p
  <2> QED BY <1>3, <2>1
<1> HIDE DEF p
<1>5. Only(p, q, "errors") /\ p.errors = s BY <1>2, <1>4, ErrorsIs
<1>6. Fixed(p, q) /\ SameResponse(p, q) /\ p.err = q.err /\ p.panicking = q.panicking
      /\ p.result = q.result /\ p.ctxStatus = q.ctxStatus /\ p.outcome = q.outcome
      /\ p.ended = q.ended
  BY <1>5 DEF Only, Fixed, SameResponse
<1> QED BY <1>1, <1>5, <1>6 DEF p

\* What reporting the status does.
LEMMA ContextIs ==
    ASSUME NEW q \in ServerRequest
    PROVE  LET p == SetTransactionContext(q) IN
           /\ Fixed(p, q) /\ SameResponse(p, q) /\ p.err = q.err /\ p.panicking = q.panicking
           /\ p.outcome = q.outcome /\ p.errors = q.errors /\ p.ended = q.ended
           /\ p.result = q.status
           /\ p.ctxStatus = IF q.sampled THEN q.status ELSE q.ctxStatus
<1> DEFINE p == SetTransactionContext(q)
<1>1. PICK g : g = [q EXCEPT !.result = q.status] OBVIOUS
<1>2. PICK x : x = IF q.sampled THEN q.status ELSE q.ctxStatus OBVIOUS
<1>3. q.status \in Codes /\ x \in Codes BY <1>2 DEF ServerRequest
<1>4. g \in ServerRequest /\ Only(g, q, "result") /\ g.result = q.status
  <2>1. PICK y \in Codes : y = q.status BY <1>3
  <2> QED BY <1>1, <2>1, ResultIs DEF Only
<1>5. p = [g EXCEPT !.ctxStatus = x]
  <2>1. p = [q EXCEPT !.result = q.status, !.ctxStatus = IF q.sampled THEN q.status ELSE q.ctxStatus]
    BY DEF SetTransactionContext, ServerRequest
  <2> HIDE DEF p
  <2> QED BY <1>1, <1>2, <2>1
<1> HIDE DEF p
<1>6. Only(p, g, "ctxStatus") /\ p.ctxStatus = x BY <1>3, <1>4, <1>5, CtxStatusIs
<1>7. Fixed(p, q) /\ SameResponse(p, q) /\ p.err = q.err /\ p.panicking = q.panicking
      /\ p.outcome = q.outcome /\ p.errors = q.errors /\ p.ended = q.ended /\ p.result = q.status
  BY <1>4, <1>6 DEF Only, Fixed, SameResponse
<1> QED BY <1>2, <1>6, <1>7 DEF p

\* The outcome that the transaction's end finds.
OutcomeOf(q) == IF q.outcome # "" THEN q.outcome
                ELSE IF q.ctxStatus # 0 THEN IF q.ctxStatus < 500 THEN "success" ELSE "failure"
                ELSE IF q.errors # <<>> THEN "failure" ELSE "success"

\* What the transaction's end does to one that has not ended.
LEMMA EndIs ==
    ASSUME NEW q \in ServerRequest, q.ended = 0
    PROVE  LET p == End(q) IN
           /\ Fixed(p, q) /\ SameResponse(p, q) /\ p.err = q.err /\ p.panicking = q.panicking
           /\ p.errors = q.errors /\ p.result = q.result /\ p.ended = 1
           /\ p.outcome = OutcomeOf(q)
<1> DEFINE p == End(q)
<1>1. PICK g : g = [q EXCEPT !.ended = 1] OBVIOUS
<1>2. g \in ServerRequest /\ Only(g, q, "ended") /\ g.ended = 1
  <2>1. 1 \in Once BY DEF Once
  <2> QED BY <1>1, <2>1, EndedIs DEF Only
<1>3. OutcomeOf(q) \in Outcomes BY DEF OutcomeOf, Outcomes, ServerRequest
<1>4. PICK x \in Outcomes : x = OutcomeOf(q) BY <1>3
<1>5. p = [g EXCEPT !.outcome = x]
  <2>1. p = [q EXCEPT !.ended = 1, !.outcome = OutcomeOf(q)]
    BY DEF End, OutcomeOf, ServerRequest
  <2> HIDE DEF p
  <2> QED BY <1>1, <1>4, <2>1
<1> HIDE DEF p
<1>6. Only(p, g, "outcome") /\ p.outcome = x BY <1>2, <1>4, <1>5, OutcomeIs
<1>7. Fixed(p, q) /\ SameResponse(p, q) /\ p.err = q.err /\ p.panicking = q.panicking
      /\ p.errors = q.errors /\ p.result = q.result /\ p.ended = 1
  BY <1>2, <1>6 DEF Only, Fixed, SameResponse
<1> QED BY <1>4, <1>6, <1>7 DEF p

\* The status of an RPC's result.
LEMMA CodeIs ==
    ASSUME NEW q \in ServerRequest
    PROVE  \E code : /\ code \in Codes /\ code = (IF q.err = 0 THEN 200 ELSE q.err)
                     /\ code = 500 <=> q.err = 500
<1>1. PICK e : e = q.err OBVIOUS
<1>2. e = 0 \/ e = 404 \/ e = 500 BY <1>1 DEF ServerRequest, GivenErr
<1>3. PICK c : c = IF e = 0 THEN 200 ELSE e OBVIOUS
<1>4. c \in Codes /\ (c = 500 <=> e = 500)
  <2>1. CASE e = 0 BY <1>3, <2>1 DEF Codes
  <2>2. CASE e = 404 BY <1>3, <2>2 DEF Codes
  <2>3. CASE e = 500 BY <1>3, <2>3 DEF Codes
  <2> QED BY <1>2, <2>1, <2>2, <2>3
<1> QED BY <1>1, <1>3, <1>4

\* What setting the result of an RPC does.
LEMMA RPCResultIs ==
    ASSUME NEW q \in ServerRequest, q.outcome = ""
    PROVE  LET p == SetTransactionResult(q) IN
           /\ Fixed(p, q) /\ p.panicking = q.panicking /\ p.errors = q.errors /\ p.ended = q.ended
           /\ p.ctxStatus = q.ctxStatus
           /\ p.outcome = IF q.err = 500 THEN "failure" ELSE "success"
<1> DEFINE p == SetTransactionResult(q)
<1>0. PICK code : /\ code \in Codes /\ code = (IF q.err = 0 THEN 200 ELSE q.err)
                  /\ code = 500 <=> q.err = 500
  BY CodeIs
<1>1. code = IF q.err = 0 THEN 200 ELSE q.err BY <1>0
<1>2. PICK x : x = IF q.err = 500 THEN "failure" ELSE "success" OBVIOUS
<1>4. code \in Codes /\ x \in Outcomes /\ x = (IF code = 500 THEN "failure" ELSE "success")
  <2>1. x \in Outcomes BY <1>2 DEF Outcomes
  <2> QED BY <1>0, <1>2, <2>1
<1>5. PICK g : g = [q EXCEPT !.result = code] OBVIOUS
<1>6. PICK h : h = [g EXCEPT !.status = code] OBVIOUS
<1>7. p = [h EXCEPT !.outcome = x]
  <2>1. p = [q EXCEPT !.result = code, !.status = code,
                      !.outcome = IF code = 500 THEN "failure" ELSE "success"]
    BY <1>1 DEF SetTransactionResult, ServerRequest
  <2> HIDE DEF p
  <2> QED BY <1>4, <1>5, <1>6, <2>1
<1> HIDE DEF p
<1>8. g \in ServerRequest /\ Only(g, q, "result")
  <2>1. code \in Codes /\ q \in ServerRequest BY <1>4
  <2>2. Only(g, q, "result") BY <1>5, <2>1, ResultIs, Zenon
  <2> QED BY <2>2 DEF Only
<1>9. h \in ServerRequest /\ Only(h, g, "status") 
  <2>1. code \in Codes /\ g \in ServerRequest BY <1>4, <1>8
  <2>2. Only(h, g, "status") BY <1>6, <2>1, StatusIs, Zenon
  <2> QED BY <2>2 DEF Only
<1>10. Only(p, h, "outcome") /\ p.outcome = x
  <2>1. x \in Outcomes /\ h \in ServerRequest BY <1>4, <1>9
  <2> QED BY <1>7, <2>1, OutcomeIs, Zenon
<1>11. Fixed(p, q) /\ p.panicking = q.panicking /\ p.errors = q.errors /\ p.ended = q.ended
       /\ p.ctxStatus = q.ctxStatus
  BY <1>8, <1>9, <1>10 DEF Only, Fixed
<1> QED BY <1>2, <1>10, <1>11 DEF p

-----------------------------------------------------------------------------
(* The phases of a request *)

\* What a framework's traits say of a request, and its capturer: fiber's tracer has
\* capture_body off.
Fitting(q) ==
    /\ q \in ServerRequest
    /\ q.via = Traits[q.fw].via
    /\ q.propagate \in Traits[q.fw].propagate \/ q.propagate = FALSE
    /\ q.fw \notin CaptureBody => q.capturer = NoBody

\* Nothing has been reported, and the response is what the handler's answers made it.
Unreported(q) == q.ended = 0 /\ q.outcome = "" /\ q.result = 0 /\ q.ctxStatus = 0

Answered(q) ==
    /\ q.via \in HTTPLike \cup {"grpc", "lambda"} =>
        /\ q.answers = 0 => q.status = 0 /\ ~q.committed /\ q.client = 0
        /\ q.answers # 0 => q.committed /\ q.status # 0 /\ q.client # 0
        /\ q.answers = 1 => q.client = q.status
    /\ q.via \in {"gin", "echo"} =>
        /\ q.answers = 0 => q.status = 200 /\ ~q.committed
        /\ q.answers # 0 => q.committed
        /\ IF q.committed THEN q.client = q.status /\ q.status # 0 ELSE q.client = 0
    /\ ViaFastHTTP(q) => q.client = 0 /\ (q.answers = 0 => q.status = 200)

Handling(q) ==
    /\ Fitting(q) /\ Unreported(q) /\ Answered(q)
    /\ q.errors = <<>> /\ q.err = 0 /\ ~q.panicking /\ ~q.panicked

\* The handler has panicked,
AfterPanic(q) ==
    /\ Fitting(q) /\ Unreported(q) /\ Answered(q)
    /\ q.errors = <<>> /\ q.err = 0 /\ q.panicking /\ q.panicked /\ q.traced

\* or has returned: the status that is reported is then the one that is sent.
AfterReturn(q) ==
    /\ Fitting(q) /\ Unreported(q)
    /\ q.errors \in {<<>>, <<"handled">>} /\ ~q.panicking /\ ~q.panicked /\ q.traced
    /\ q.via \notin {"fiber", "lambda"} => q.errors = <<>>
    /\ q.via \in HTTPLike \cup {"gin", "echo"} /\ q.answers < 2 => q.status = Sent(q)

\* The deferred function has run: what is left is to end the transaction, with
\* fasthttp after its context is set again.
RequestReported(q) ==
    /\ Fitting(q) /\ q.ended = 0 /\ q.traced
    /\ q.errors \in IF q.panicked THEN {<<"recovered">>, <<"recovered", "handled">>}
                     ELSE {<<>>, <<"handled">>}
    /\ q.panicking <=> q.panicked /\ q.propagate
    /\ q.via \in HTTPLike \cup {"gin", "echo"} /\ q.answers < 2 /\ ~q.panicking => q.result = Sent(q)
    /\ q.panicked /\ q.answers = 0 =>
          IF ViaFastHTTP(q) THEN q.outcome = "" /\ q.ctxStatus \in {0, 500} /\ Sent(q) = 500
                                 /\ (~q.sampled => q.ctxStatus = 0)
          ELSE OutcomeOf(q) = "failure" \/ (q.via = "gin" /\ q.propagate /\ q.sampled)

\* The request is done, as RequestsReported says of it.
Done(q) ==
    /\ Fitting(q) /\ q.ended = 1
    /\ q.errors \in IF q.panicked THEN {<<"recovered">>, <<"recovered", "handled">>}
                     ELSE {<<>>, <<"handled">>}
    /\ q.panicking <=> q.panicked /\ q.propagate
    /\ q.answers < 2 /\ ~q.panicking /\ q.via \notin {"grpc", "lambda"} => q.result = q.client
    /\ q.panicked /\ q.answers = 0 =>
          q.outcome = "failure" \/ (q.via = "gin" /\ q.propagate /\ q.sampled)

\* Every request is in one of these.
RequestOK(q) ==
    /\ Fitting(q)
    /\ q.phase = "handling" => Handling(q)
    /\ q.phase = "deferred" => AfterPanic(q) \/ AfterReturn(q)
    /\ q.phase = "ending" => RequestReported(q)
    /\ q.phase = "done" => Done(q)

\* What a field of no interest to them leaves of these predicates.
LEMMA PhaseKeeps ==
    ASSUME NEW q \in ServerRequest, NEW p, Only(p, q, "phase")
    PROVE  /\ Fitting(q) => Fitting(p)
           /\ Handling(q) => Handling(p)
           /\ AfterPanic(q) => AfterPanic(p)
           /\ AfterReturn(q) => AfterReturn(p)
           /\ RequestReported(q) => RequestReported(p)
           /\ Done(q) => Done(p)
<1>1. /\ p \in ServerRequest /\ p.fw = q.fw /\ p.via = q.via /\ p.traced = q.traced
      /\ p.sampled = q.sampled /\ p.propagate = q.propagate /\ p.capturer = q.capturer
      /\ p.status = q.status /\ p.committed = q.committed /\ p.client = q.client
      /\ p.answers = q.answers /\ p.err = q.err /\ p.panicking = q.panicking
      /\ p.panicked = q.panicked /\ p.result = q.result /\ p.ctxStatus = q.ctxStatus
      /\ p.outcome = q.outcome /\ p.errors = q.errors /\ p.ended = q.ended
  BY DEF Only
<1>2. ViaFastHTTP(p) = ViaFastHTTP(q) BY <1>1 DEF ViaFastHTTP
<1>3. Sent(p) = Sent(q) BY <1>1, <1>2 DEF Sent
<1>4. OutcomeOf(p) = OutcomeOf(q) BY <1>1 DEF OutcomeOf
<1>5. Fitting(q) => Fitting(p) BY <1>1 DEF Fitting
<1>6. Unreported(q) => Unreported(p) BY <1>1 DEF Unreported
<1>7. Answered(q) => Answered(p) BY <1>1, <1>2 DEF Answered
<1>8. Handling(q) => Handling(p) BY <1>1, <1>5, <1>6, <1>7 DEF Handling
<1>9. AfterPanic(q) => AfterPanic(p) BY <1>1, <1>5, <1>6, <1>7 DEF AfterPanic
<1>10. AfterReturn(q) => AfterReturn(p) BY <1>1, <1>3, <1>5, <1>6 DEF AfterReturn
<1>11. RequestReported(q) => RequestReported(p) BY <1>1, <1>2, <1>3, <1>4, <1>5 DEF RequestReported
<1>12. Done(q) => Done(p) BY <1>1, <1>5 DEF Done
<1> QED BY <1>5, <1>8, <1>9, <1>10, <1>11, <1>12

\* Serving keeps what fits the framework.
LEMMA FixedFits ==
    ASSUME NEW q, NEW p, Fitting(q), Fixed(p, q)
    PROVE  Fitting(p) /\ (ViaFastHTTP(p) <=> ViaFastHTTP(q))
BY DEF Fixed, Fitting, ViaFastHTTP

\* What the frameworks allow.
LEMMA FittingIs ==
    ASSUME NEW q, Fitting(q)
    PROVE  /\ q \in ServerRequest /\ q.via \in Via
           /\ q.propagate \in BOOLEAN /\ q.sampled \in BOOLEAN /\ q.answers \in Nat
           /\ q.status \in Codes /\ q.client \in Codes /\ q.err \in GivenErr
           /\ q.via \in {"httprouter", "restful", "echo", "lambda"} => q.propagate = FALSE
           /\ q.via \in HTTPLike \cup {"gin", "fasthttp"} => ~Traits[q.fw].errors
           /\ q.via \in {"echo", "fiber"} => Traits[q.fw].errors
<1>1. q \in ServerRequest /\ q.via = Traits[q.fw].via
      /\ (q.propagate \in Traits[q.fw].propagate \/ q.propagate = FALSE)
  BY DEF Fitting
<1>2. /\ q.fw \in Frameworks /\ q.via \in Via /\ q.propagate \in BOOLEAN
      /\ q.sampled \in BOOLEAN /\ q.answers \in Nat
      /\ q.status \in Codes /\ q.client \in Codes /\ q.err \in GivenErr
  BY <1>1 DEF ServerRequest
<1>3. /\ q.via \in {"httprouter", "restful", "echo", "lambda"} => Traits[q.fw].propagate = {FALSE}
      /\ q.via \in HTTPLike \cup {"gin", "fasthttp"} => ~Traits[q.fw].errors
      /\ q.via \in {"echo", "fiber"} => Traits[q.fw].errors
  BY <1>1, <1>2, TraitsAre
<1> QED BY <1>1, <1>2, <1>3

-----------------------------------------------------------------------------
(* The deferred functions *)

\* A handler that returned is reported with the status it left.
LEMMA ReturnReported ==
    ASSUME NEW q, AfterReturn(q), NEW p, Fixed(p, q), p.panicking = q.panicking, p.ended = q.ended,
           p.errors \in {<<>>, <<"handled">>},
           q.via \in HTTPLike \cup {"gin", "echo"} =>
                SameResponse(p, q) /\ p.err = q.err /\ p.result = q.status
    PROVE  RequestReported(p)
<1>1. /\ Fitting(q) /\ q.ended = 0 /\ ~q.panicking /\ ~q.panicked /\ q.traced
      /\ q.via \in HTTPLike \cup {"gin", "echo"} /\ q.answers < 2 => q.status = Sent(q)
  BY DEF AfterReturn, Unreported
<1>2. Fitting(p) /\ (ViaFastHTTP(p) <=> ViaFastHTTP(q)) BY <1>1, FixedFits
<1>3. /\ p.fw = q.fw /\ p.via = q.via /\ p.traced = q.traced /\ p.panicked = q.panicked
      /\ p.answers = q.answers
  BY DEF Fixed
<1>4. q.via \in HTTPLike \cup {"gin", "echo"} => Sent(p) = Sent(q)
  BY <1>2, <1>3 DEF Sent, SameResponse
<1> QED BY <1>1, <1>2, <1>3, <1>4 DEF RequestReported

\* A panic is reported: with net/http, gin and echo the recovery q0 answers unless the
\* panic goes on, and the transaction takes the status.
LEMMA PanicReported ==
    ASSUME NEW q, AfterPanic(q), q.via \in HTTPLike \cup {"gin", "echo"},
           NEW q0, Fixed(q0, q), SameReport(q0, q), q0.err = q.err,
           q.answers = 0 => q0.status = 500 \/ (q.via = "gin" /\ q.propagate),
           q.answers < 2 /\ ~q.propagate => q0.client = q0.status /\ q0.client # 0,
           NEW p, p = SetTransactionContext([SendError(q0, "recovered") EXCEPT !.panicking = q.propagate])
    PROVE  RequestReported(p) /\ p.err = 0
<1>1. /\ Fitting(q) /\ q.ended = 0 /\ q.outcome = "" /\ q.ctxStatus = 0 /\ q.errors = <<>>
      /\ q.panicked /\ q.traced /\ q.err = 0
  BY DEF AfterPanic, Unreported
<1>2. /\ Fitting(q0) /\ q0.errors = <<>> /\ q0.ended = 0 /\ q0.outcome = "" /\ q0.ctxStatus = 0
      /\ q0.propagate = q.propagate /\ q0 \in ServerRequest /\ q0.panicked /\ q0.traced
      /\ q0.via = q.via /\ q0.answers = q.answers /\ q0.sampled = q.sampled
  BY <1>1, FixedFits DEF Fixed, SameReport
<1>3. PICK s : s = SendError(q0, "recovered") OBVIOUS
<1>4. /\ Fixed(s, q0) /\ SameResponse(s, q0) /\ s.err = q0.err
      /\ s.ctxStatus = q0.ctxStatus /\ s.outcome = q0.outcome
      /\ s.ended = q0.ended /\ s.errors = <<"recovered">>
  BY <1>2, <1>3, SendErrorIs
<1>5. q.propagate \in BOOLEAN BY <1>1, FittingIs
<1>6. PICK t : t = [s EXCEPT !.panicking = q.propagate] OBVIOUS
<1>7. s \in ServerRequest BY <1>4 DEF Fixed
<1>8. Only(t, s, "panicking") /\ t.panicking = q.propagate
  <2>1. PICK v \in BOOLEAN : v = q.propagate BY <1>5
  <2> QED BY <1>6, <1>7, <2>1, PanickingIs
<1>9. t \in ServerRequest BY <1>8 DEF Only
<1>10. p = SetTransactionContext(t) BY <1>3, <1>6
<1>11. /\ Fixed(p, t) /\ SameResponse(p, t) /\ p.err = t.err /\ p.panicking = t.panicking
       /\ p.outcome = t.outcome /\ p.errors = t.errors /\ p.ended = t.ended
       /\ p.result = t.status
       /\ p.ctxStatus = IF t.sampled THEN t.status ELSE t.ctxStatus
  BY <1>9, <1>10, ContextIs
<1>12. /\ Fixed(t, q0) /\ SameResponse(t, q0) /\ t.err = q0.err
       /\ t.ctxStatus = 0 /\ t.outcome = "" /\ t.ended = 0 /\ t.errors = <<"recovered">>
  BY <1>2, <1>4, <1>8, <1>9 DEF Only, Fixed, SameResponse
<1>13. /\ Fixed(p, q0) /\ SameResponse(p, q0) /\ p.err = 0 /\ p.panicking = q.propagate
       /\ p.outcome = "" /\ p.ended = 0 /\ p.errors = <<"recovered">> /\ p.result = q0.status
       /\ p.ctxStatus = IF q.sampled THEN q0.status ELSE 0
  <2>1. Fixed(p, q0) /\ SameResponse(p, q0) BY <1>11, <1>12 DEF Fixed, SameResponse
  <2>2. p.err = 0 /\ p.panicking = q.propagate /\ p.outcome = "" /\ p.ended = 0
        /\ p.errors = <<"recovered">>
    BY <1>1, <1>8, <1>11, <1>12
  <2>3. t.status = q0.status /\ t.sampled = q.sampled /\ t.ctxStatus = 0
    BY <1>2, <1>12 DEF Fixed, SameResponse
  <2>4. p.result = q0.status /\ p.ctxStatus = IF q.sampled THEN q0.status ELSE 0
    BY <1>11, <2>3
  <2> QED BY <2>1, <2>2, <2>4
<1>14. Fitting(p) BY <1>2, <1>13, FixedFits
<1>15. /\ p.via = q.via /\ p.answers = q.answers /\ p.sampled = q.sampled /\ p.panicked
       /\ p.propagate = q.propagate /\ p.traced
  BY <1>2, <1>13 DEF Fixed
<1>16. ~ViaFastHTTP(p) BY <1>15 DEF ViaFastHTTP, HTTPLike
<1>17. q.answers < 2 /\ ~q.propagate => Sent(p) = p.result
  BY <1>13 DEF Sent, SameResponse
<1>18. q.answers = 0 => OutcomeOf(p) = "failure" \/ (p.via = "gin" /\ p.propagate /\ p.sampled)
  <2> SUFFICES ASSUME q.answers = 0, ~(p.via = "gin" /\ p.propagate /\ p.sampled)
               PROVE  OutcomeOf(p) = "failure"
    OBVIOUS
  <2>1. <<"recovered">> # <<>> OBVIOUS
  <2>2. CASE ~q.sampled BY <1>13, <2>1, <2>2 DEF OutcomeOf
  <2>3. CASE q.sampled
    <3>1. q0.status = 500 BY <1>15, <2>3
    <3>2. p.ctxStatus = 500 BY <1>13, <2>3, <3>1
    <3>3. p.ctxStatus # 0 /\ ~(p.ctxStatus < 500)
      <4>1. PICK n : n = p.ctxStatus OBVIOUS
      <4>2. n = 500 BY <3>2, <4>1
      <4>3. n # 0 /\ ~(n < 500) BY <4>2
      <4> QED BY <4>1, <4>3
    <3>4. p.outcome = "" BY <1>13
    <3> QED BY <3>3, <3>4 DEF OutcomeOf
  <2> QED BY <2>2, <2>3
<1>19. p.panicked /\ p.answers = 0 => OutcomeOf(p) = "failure" \/ (p.via = "gin" /\ p.propagate /\ p.sampled)
  BY <1>15, <1>18
<1>20. p.answers < 2 /\ ~p.panicking => p.result = Sent(p) BY <1>13, <1>15, <1>17
<1> QED BY <1>13, <1>14, <1>15, <1>16, <1>19, <1>20 DEF RequestReported

\* net/http and the copies of its handler.
LEMMA HTTPReported ==
    ASSUME NEW q, AfterPanic(q) \/ AfterReturn(q), q.via \in HTTPLike
    PROVE  RequestReported(Deferred(q))
<1>1. q \in ServerRequest /\ Fitting(q) BY DEF AfterPanic, AfterReturn, Fitting
<1>2. CASE AfterReturn(q)
  <2>1. ~q.panicking /\ q.errors = <<>> BY <1>2 DEF AfterReturn, HTTPLike
  <2>2. Deferred(q) = SetTransactionContext(q)
    BY <2>1 DEF Deferred, HTTPLike, HTTPDeferred, RouterDeferred, RestfulDeferred
  <2>3. PICK p : p = SetTransactionContext(q) OBVIOUS
  <2>4. /\ Fixed(p, q) /\ SameResponse(p, q) /\ p.err = q.err /\ p.panicking = q.panicking
        /\ p.errors = q.errors /\ p.ended = q.ended /\ p.result = q.status
    BY <1>1, <2>3, ContextIs
  <2>5. RequestReported(p) BY <1>2, <2>1, <2>4, ReturnReported
  <2> QED BY <2>2, <2>3, <2>5
<1>3. CASE AfterPanic(q)
  <2>1. q.panicking /\ Answered(q) BY <1>3 DEF AfterPanic
  <2>2. q.propagate \in BOOLEAN /\ q.answers \in Nat
        /\ (q.via \in {"httprouter", "restful"} => q.propagate = FALSE)
    BY <1>1, FittingIs
  <2>3. PICK q0 : q0 = IF q.propagate THEN [q EXCEPT !.status = IF q.status = 0 THEN 500 ELSE q.status]
                       ELSE IF q.status = 0 THEN WriteHeader(q, 500) ELSE q
    OBVIOUS
  <2>4. Deferred(q) = SetTransactionContext([SendError(q0, "recovered") EXCEPT !.panicking = q.propagate])
    <3>1. CASE q.via = "http"
      <4>1. q0 = IF q.propagate THEN [q EXCEPT !.status = IF @ = 0 THEN 500 ELSE @]
                 ELSE IF q.status = 0 THEN WriteHeader(q, 500) ELSE q
        BY <2>3
      <4> QED BY <2>1, <3>1, <4>1 DEF Deferred, HTTPDeferred, HTTPRecover
    <3>2. CASE q.via # "http"
      <4>1. q.via \in {"httprouter", "restful"} /\ q.propagate = FALSE BY <2>2, <3>2 DEF HTTPLike
      <4>2. q0 = IF q.status = 0 THEN WriteHeader(q, 500) ELSE q BY <2>3, <4>1
      <4>3. Deferred(q) = SetTransactionContext([SendError(q0, "recovered") EXCEPT !.panicking = FALSE])
        BY <2>1, <4>1, <4>2 DEF Deferred, RouterDeferred, RestfulDeferred
      <4> QED BY <4>1, <4>3
    <3> QED BY <3>1, <3>2
  <2>5. /\ q.answers = 0 => q.status = 0 /\ ~q.committed /\ q.client = 0
        /\ q.answers # 0 => q.committed /\ q.status # 0 /\ q.client # 0
        /\ q.answers = 1 => q.client = q.status
    BY <2>1 DEF Answered
  <2>6. 500 \in Codes BY DEF Codes
  <2>7. /\ Fixed(q0, q) /\ SameReport(q0, q) /\ q0.err = q.err
        /\ q.answers = 0 => q0.status = 500
        /\ q.answers < 2 /\ ~q.propagate => q0.client = q0.status /\ q0.client # 0
    <3>1. CASE q.status # 0
      <4>1. q0 = q
        <5>1. q0 = IF q.propagate THEN [q EXCEPT !.status = q.status] ELSE q BY <2>3, <3>1
        <5>2. [q EXCEPT !.status = q.status] = q BY <1>1 DEF ServerRequest
        <5> QED BY <5>1, <5>2
      <4> QED BY <1>1, <2>2, <2>5, <3>1, <4>1 DEF Fixed, SameReport
    <3>2. CASE q.status = 0 /\ q.propagate
      <4>1. q0 = [q EXCEPT !.status = 500] BY <2>3, <3>2
      <4>2. Only(q0, q, "status") /\ q0.status = 500 BY <1>1, <2>6, <4>1, StatusIs
      <4> QED BY <3>2, <4>2 DEF Only, Fixed, SameReport
    <3>3. CASE q.status = 0 /\ ~q.propagate
      <4>1. q0 = WriteHeader(q, 500) BY <2>3, <3>3
      <4>2. /\ Fixed(q0, q) /\ SameReport(q0, q) /\ q0.err = q.err
            /\ q0.status = 500 /\ q0.client = IF q.committed THEN q.client ELSE 500
        <5>1. /\ Fixed(q0, q) /\ SameReport(q0, q) /\ q0.err = q.err
              /\ q.via \in HTTPLike \cup {"grpc", "lambda"} =>
                   q0.status = 500 /\ q0.committed = TRUE /\ q0.client = IF q.committed THEN q.client ELSE 500
          <6>1. PICK code : code = 500 OBVIOUS
          <6>2. code \in Codes /\ q0 = WriteHeader(q, code) /\ q \in ServerRequest BY <1>1, <2>6, <4>1, <6>1
          <6>3. /\ Fixed(q0, q) /\ SameReport(q0, q) /\ q0.err = q.err
                /\ q.via \in HTTPLike \cup {"grpc", "lambda"} =>
                     q0.status = code /\ q0.committed = TRUE /\ q0.client = IF q.committed THEN q.client ELSE code
            BY <6>2, WriteHeaderIs
          <6> QED BY <6>1, <6>3
        <5> QED BY <5>1
      <4> QED BY <2>5, <3>3, <4>2
    <3> QED BY <3>1, <3>2, <3>3
  <2>8. PICK p : p = Deferred(q) OBVIOUS
  <2>9. RequestReported(p) BY <1>3, <2>4, <2>7, <2>8, PanicReported
  <2> QED BY <2>8, <2>9
<1> QED BY <1>2, <1>3

\* gin: the error of a handler is reported after the status.
LEMMA GinReported ==
    ASSUME NEW q, AfterPanic(q) \/ AfterReturn(q), q.via = "gin"
    PROVE  RequestReported(Deferred(q))
<1>1. q \in ServerRequest /\ Fitting(q) BY DEF AfterPanic, AfterReturn, Fitting
<1>2. Deferred(q) = GinDeferred(q) BY DEF Deferred
<1>3. CASE AfterReturn(q)
  <2>1. ~q.panicking /\ q.errors = <<>> BY <1>3 DEF AfterReturn
  <2>2. PICK t : t = SetTransactionContext(q) OBVIOUS
  <2>3. /\ Fixed(t, q) /\ SameResponse(t, q) /\ t.err = q.err /\ t.panicking = q.panicking
        /\ t.errors = <<>> /\ t.ended = q.ended /\ t.result = q.status
    BY <1>1, <2>1, <2>2, ContextIs
  <2>4. CASE t.err = 0
    <3>1. GinDeferred(q) = t BY <2>1, <2>2, <2>4 DEF GinDeferred
    <3>2. RequestReported(t) BY <1>3, <2>3, ReturnReported
    <3> QED BY <1>2, <3>1, <3>2
  <2>5. CASE t.err # 0
    <3>1. PICK p : p = SendError(t, "handled") OBVIOUS
    <3>2. GinDeferred(q) = p BY <2>1, <2>2, <2>5, <3>1 DEF GinDeferred
    <3>3. t \in ServerRequest BY <2>3 DEF Fixed
    <3>4. /\ Fixed(p, t) /\ SameResponse(p, t) /\ p.err = t.err /\ p.panicking = t.panicking
          /\ p.result = t.result /\ p.ended = t.ended /\ p.errors = <<"handled">>
      BY <2>3, <3>1, <3>3, SendErrorIs
    <3>5. /\ Fixed(p, q) /\ SameResponse(p, q) /\ p.err = q.err /\ p.panicking = q.panicking
          /\ p.ended = q.ended /\ p.result = q.status
      BY <2>3, <3>4 DEF Fixed, SameResponse
    <3>6. RequestReported(p) BY <1>3, <3>4, <3>5, ReturnReported
    <3> QED BY <1>2, <3>2, <3>6
  <2> QED BY <2>4, <2>5
<1>4. CASE AfterPanic(q)
  <2>1. q.panicking /\ Answered(q) BY <1>4 DEF AfterPanic
  <2>2. PICK q0 : q0 = IF ~q.propagate /\ ~q.committed THEN WriteHeader(q, 500) ELSE q
    OBVIOUS
  <2>3. PICK p : p = SetTransactionContext([SendError(q0, "recovered") EXCEPT !.panicking = q.propagate])
    OBVIOUS
  <2>4. /\ q.answers = 0 => ~q.committed
        /\ q.committed => q.client = q.status /\ q.status # 0
    BY <2>1 DEF Answered
  <2>5. /\ Fixed(q0, q) /\ SameReport(q0, q) /\ q0.err = q.err
        /\ q.answers = 0 => q0.status = 500 \/ (q.via = "gin" /\ q.propagate)
        /\ q.answers < 2 /\ ~q.propagate => q0.client = q0.status /\ q0.client # 0
    <3>1. CASE ~q.propagate /\ ~q.committed
      <4>1. PICK code : code = 500 OBVIOUS
      <4>2. code \in Codes /\ code # 0 BY <4>1 DEF Codes
      <4>3. q0 = WriteHeader(q, code) BY <2>2, <3>1, <4>1
      <4>4. /\ Fixed(q0, q) /\ SameReport(q0, q) /\ q0.err = q.err
            /\ q.via \in {"gin", "echo"} =>
                  IF q.committed THEN SameResponse(q0, q)
                  ELSE q0.status = code /\ q0.committed = TRUE /\ q0.client = code
        BY <1>1, <4>2, <4>3, WriteHeaderIs
      <4> QED BY <3>1, <4>1, <4>2, <4>4
    <3>2. CASE ~(~q.propagate /\ ~q.committed)
      <4>1. q0 = q BY <2>2, <3>2
      <4> QED BY <1>1, <2>4, <3>2, <4>1 DEF Fixed, SameReport
    <3> QED BY <3>1, <3>2
  <2>6. RequestReported(p) /\ p.err = 0 BY <1>4, <2>3, <2>5, PanicReported
  <2>7. GinDeferred(q) = p BY <2>1, <2>2, <2>3, <2>6 DEF GinDeferred
  <2> QED BY <1>2, <2>6, <2>7
<1> QED BY <1>3, <1>4

\* echo: the panic, or else the error of the handler, is reported before the status.
LEMMA EchoReported ==
    ASSUME NEW q, AfterPanic(q) \/ AfterReturn(q), q.via = "echo"
    PROVE  RequestReported(Deferred(q))
<1>1. q \in ServerRequest /\ Fitting(q) /\ q.propagate = FALSE
  BY FittingIs DEF AfterPanic, AfterReturn, Fitting
<1>2. Deferred(q) = EchoDeferred(q) BY DEF Deferred
<1>3. CASE AfterReturn(q)
  <2>1. ~q.panicking /\ q.errors = <<>> BY <1>3 DEF AfterReturn
  <2>2. PICK t : t = IF q.err # 0 THEN SendError(q, "handled") ELSE q OBVIOUS
  <2>3. /\ Fixed(t, q) /\ SameResponse(t, q) /\ t.err = q.err /\ t.panicking = q.panicking
        /\ t.ended = q.ended /\ t.errors \in {<<>>, <<"handled">>}
    <3>1. CASE q.err # 0
      <4>1. t = SendError(q, "handled") BY <2>2, <3>1
      <4> QED BY <1>1, <2>1, <4>1, SendErrorIs
    <3>2. CASE q.err = 0 BY <1>1, <2>1, <2>2, <3>2 DEF Fixed, SameResponse
    <3> QED BY <3>1, <3>2
  <2>4. t \in ServerRequest BY <2>3 DEF Fixed
  <2>5. PICK p : p = SetTransactionContext(t) OBVIOUS
  <2>6. /\ Fixed(p, t) /\ SameResponse(p, t) /\ p.err = t.err /\ p.panicking = t.panicking
        /\ p.errors = t.errors /\ p.ended = t.ended /\ p.result = t.status
    BY <2>4, <2>5, ContextIs
  <2>7. /\ Fixed(p, q) /\ SameResponse(p, q) /\ p.err = q.err /\ p.panicking = q.panicking
        /\ p.ended = q.ended /\ p.result = q.status
    BY <2>3, <2>6 DEF Fixed, SameResponse
  <2>8. RequestReported(p) BY <1>3, <2>3, <2>6, <2>7, ReturnReported
  <2>9. EchoDeferred(q) = p BY <2>1, <2>2, <2>5 DEF EchoDeferred
  <2> QED BY <1>2, <2>8, <2>9
<1>4. CASE AfterPanic(q)
  <2>1. q.panicking /\ Answered(q) BY <1>4 DEF AfterPanic
  <2>2. PICK code : code = 500 OBVIOUS
  <2>3. code \in Codes /\ code # 0 BY <2>2 DEF Codes
  <2>4. PICK q0 : q0 = WriteHeader(q, code) OBVIOUS
  <2>5. /\ Fixed(q0, q) /\ SameReport(q0, q) /\ q0.err = q.err
        /\ q.via \in {"gin", "echo"} =>
              IF q.committed THEN SameResponse(q0, q)
              ELSE q0.status = code /\ q0.committed = TRUE /\ q0.client = code
    BY <1>1, <2>3, <2>4, WriteHeaderIs
  <2>6. PICK p : p = SetTransactionContext([SendError(q0, "recovered") EXCEPT !.panicking = q.propagate])
    OBVIOUS
  <2>7. /\ q.answers = 0 => ~q.committed
        /\ q.committed => q.client = q.status /\ q.status # 0
    BY <2>1 DEF Answered
  <2>8. /\ q.answers = 0 => q0.status = 500
        /\ q0.client = q0.status /\ q0.client # 0
    BY <2>2, <2>3, <2>5, <2>7 DEF SameResponse
  <2>9. RequestReported(p) /\ p.err = 0 BY <1>4, <2>5, <2>6, <2>8, PanicReported
  <2>10. PICK s : s = [SendError(q0, "recovered") EXCEPT !.panicking = FALSE] OBVIOUS
  <2>11. p = SetTransactionContext(s) BY <1>1, <2>6, <2>10
  <2>12. s \in ServerRequest
    <3>1. PICK e : e = SendError(q0, "recovered") OBVIOUS
    <3>2. q0 \in ServerRequest /\ q0.errors = <<>>
      BY <1>4, <2>5 DEF Fixed, SameReport, AfterPanic
    <3>3. e \in ServerRequest BY <3>1, <3>2, SendErrorIs DEF Fixed
    <3>4. FALSE \in BOOLEAN OBVIOUS
    <3>5. Only(s, e, "panicking") BY <2>10, <3>1, <3>3, <3>4, PanickingIs, Zenon
    <3> QED BY <3>5 DEF Only
  <2>13. s.err = 0 BY <2>9, <2>11, <2>12, ContextIs
  <2>14. EchoDeferred(q) = SetTransactionContext(s)
    BY <2>1, <2>2, <2>4, <2>10, <2>13 DEF EchoDeferred
  <2> QED BY <1>2, <2>9, <2>11, <2>14
<1> QED BY <1>3, <1>4

\* Lambda and gRPC: the panic makes the outcome a failure, through its error if it goes on.
LEMMA LambdaReported ==
    ASSUME NEW q, AfterPanic(q) \/ AfterReturn(q), q.via = "lambda"
    PROVE  RequestReported(Deferred(q))
<1>1. q \in ServerRequest /\ Fitting(q) /\ q.propagate = FALSE
  BY FittingIs DEF AfterPanic, AfterReturn, Fitting
<1>2. Deferred(q) = LambdaDeferred(q) BY DEF Deferred
<1>3. CASE AfterReturn(q)
  <2>1. ~q.panicking /\ q.errors \in {<<>>, <<"handled">>} BY <1>3 DEF AfterReturn
  <2>2. LambdaDeferred(q) = q BY <2>1 DEF LambdaDeferred
  <2>3. Fixed(q, q) BY <1>1 DEF Fixed
  <2>4. RequestReported(q) BY <1>3, <2>1, <2>3, ReturnReported DEF HTTPLike
  <2> QED BY <1>2, <2>2, <2>4
<1>4. CASE AfterPanic(q)
  <2>1. /\ q.panicking /\ q.errors = <<>> /\ q.panicked /\ q.traced /\ q.ended = 0 /\ q.outcome = ""
        /\ q.ctxStatus = 0
    BY <1>4 DEF AfterPanic, Unreported
  <2>2. PICK s : s = SendError(q, "recovered") OBVIOUS
  <2>3. /\ Fixed(s, q) /\ s.ctxStatus = q.ctxStatus /\ s.outcome = q.outcome
        /\ s.ended = q.ended /\ s.errors = <<"recovered">>
    BY <1>1, <2>1, <2>2, SendErrorIs
  <2>4. PICK p : p = [s EXCEPT !.panicking = FALSE] OBVIOUS
  <2>5. Only(p, s, "panicking") /\ p.panicking = FALSE
    <3>1. FALSE \in BOOLEAN /\ s \in ServerRequest BY <2>3 DEF Fixed
    <3> QED BY <2>4, <3>1, PanickingIs, Zenon
  <2>6. /\ Fixed(p, q) /\ p.ctxStatus = 0 /\ p.outcome = "" /\ p.ended = 0 /\ p.errors = <<"recovered">>
    BY <2>1, <2>3, <2>5 DEF Only, Fixed
  <2>7. OutcomeOf(p) = "failure"
    <3>1. <<"recovered">> # <<>> OBVIOUS
    <3> QED BY <2>6, <3>1 DEF OutcomeOf
  <2>8. Fitting(p) /\ p.via = "lambda" /\ p.panicked /\ p.traced /\ p.propagate = FALSE
    BY <1>1, <2>1, <2>6, FixedFits DEF Fixed
  <2>9. RequestReported(p) BY <2>5, <2>6, <2>7, <2>8 DEF RequestReported, HTTPLike, ViaFastHTTP
  <2>10. LambdaDeferred(q) = p BY <2>1, <2>2, <2>4 DEF LambdaDeferred
  <2> QED BY <1>2, <2>9, <2>10
<1> QED BY <1>3, <1>4

\* gRPC's interceptors: the result follows the error, or the panic goes on.
LEMMA GRPCReported ==
    ASSUME NEW q, AfterPanic(q) \/ AfterReturn(q), q.via = "grpc"
    PROVE  RequestReported(Deferred(q))
<1>1. q \in ServerRequest /\ Fitting(q) /\ q.propagate \in BOOLEAN /\ q.outcome = ""
  BY FittingIs DEF AfterPanic, AfterReturn, Fitting, Unreported
<1>2. Deferred(q) = GRPCDeferred(q) BY DEF Deferred
<1>3. CASE AfterReturn(q)
  <2>1. ~q.panicking /\ q.errors = <<>> BY <1>3 DEF AfterReturn
  <2>2. PICK p : p = SetTransactionResult(q) OBVIOUS
  <2>3. GRPCDeferred(q) = p BY <2>1, <2>2 DEF GRPCDeferred
  <2>4. Fixed(p, q) /\ p.panicking = q.panicking /\ p.errors = q.errors /\ p.ended = q.ended
    BY <1>1, <2>2, RPCResultIs
  <2>5. RequestReported(p) BY <1>3, <2>1, <2>4, ReturnReported DEF HTTPLike
  <2> QED BY <1>2, <2>3, <2>5
<1>4. CASE AfterPanic(q)
  <2>1. /\ q.panicking /\ q.errors = <<>> /\ q.panicked /\ q.traced /\ q.ended = 0 /\ q.ctxStatus = 0
    BY <1>4 DEF AfterPanic, Unreported
  <2>2. PICK s : s = SendError(q, "recovered") OBVIOUS
  <2>3. /\ Fixed(s, q) /\ s.ctxStatus = 0 /\ s.outcome = "" /\ s.panicking = q.panicking
        /\ s.ended = 0 /\ s.errors = <<"recovered">>
    BY <1>1, <2>1, <2>2, SendErrorIs
  <2>4. /\ Fitting(s) /\ s.via = "grpc" /\ s.panicked /\ s.traced /\ s.propagate = q.propagate
        /\ s \in ServerRequest
    BY <1>1, <2>1, <2>3, FixedFits DEF Fixed
  <2>5. <<"recovered">> # <<>> OBVIOUS
  <2>6. CASE q.propagate
    <3>1. GRPCDeferred(q) = s BY <2>1, <2>2, <2>6 DEF GRPCDeferred
    <3>2. OutcomeOf(s) = "failure" BY <2>3, <2>5 DEF OutcomeOf
    <3>3. RequestReported(s) BY <2>1, <2>3, <2>4, <2>6, <3>2 DEF RequestReported, HTTPLike, ViaFastHTTP
    <3> QED BY <1>2, <3>1, <3>3
  <2>7. CASE ~q.propagate
    <3>1. PICK u : u = [s EXCEPT !.err = 500] OBVIOUS
    <3>2. Only(u, s, "err") /\ u.err = 500
      <4>1. PICK e : e = 500 OBVIOUS
      <4>2. e \in GivenErr BY <4>1 DEF GivenErr
      <4>3. Only(u, s, "err") /\ u.err = e BY <2>4, <3>1, <4>1, <4>2, ErrIs
      <4> QED BY <4>1, <4>3
    <3>3. u \in ServerRequest BY <3>2 DEF Only
    <3>4. PICK t : t = [u EXCEPT !.panicking = FALSE] OBVIOUS
    <3>5. Only(t, u, "panicking") /\ t.panicking = FALSE
      <4>1. FALSE \in BOOLEAN OBVIOUS
      <4> QED BY <3>3, <3>4, <4>1, PanickingIs, Zenon
    <3>6. t \in ServerRequest BY <3>5 DEF Only
    <3>7. t = [SendError(q, "recovered") EXCEPT !.err = 500, !.panicking = FALSE]
      BY <2>2, <3>1, <3>4
    <3>8. PICK p : p = SetTransactionResult(t) OBVIOUS
    <3>9. GRPCDeferred(q) = p BY <2>1, <2>7, <3>7, <3>8 DEF GRPCDeferred
    <3>10. /\ Fixed(t, s) /\ t.outcome = "" /\ t.err = 500 /\ t.errors = <<"recovered">> /\ t.ended = 0
      <4>1. Fixed(u, s) /\ u.outcome = s.outcome /\ u.errors = s.errors /\ u.ended = s.ended
        BY <3>2 DEF Only, Fixed
      <4>2. Fixed(t, u) /\ t.outcome = u.outcome /\ t.errors = u.errors /\ t.ended = u.ended
            /\ t.err = u.err
        BY <3>5 DEF Only, Fixed
      <4>3. Fixed(t, s) BY <4>1, <4>2 DEF Fixed
      <4> QED BY <2>3, <3>2, <4>1, <4>2, <4>3
    <3>11. /\ Fixed(p, t) /\ p.panicking = FALSE /\ p.errors = <<"recovered">> /\ p.ended = 0
           /\ p.outcome = IF t.err = 500 THEN "failure" ELSE "success"
      <4>1. /\ Fixed(p, t) /\ p.panicking = t.panicking /\ p.errors = t.errors /\ p.ended = t.ended
            /\ p.outcome = IF t.err = 500 THEN "failure" ELSE "success"
        <5>1. t \in ServerRequest /\ t.outcome = "" BY <3>6, <3>10
        <5> QED BY <3>8, <5>1, RPCResultIs
      <4> QED BY <3>5, <3>10, <4>1
    <3>12. p.outcome = "failure" BY <3>10, <3>11
    <3>13. Fixed(p, s)
      <4>1. Fixed(p, t) /\ Fixed(t, s) BY <3>10, <3>11
      <4> QED BY <4>1 DEF Fixed
    <3>14. Fitting(p) /\ p.via = "grpc" /\ p.panicked /\ p.traced /\ p.propagate = q.propagate
      BY <2>4, <3>13, FixedFits DEF Fixed
    <3>15. OutcomeOf(p) = "failure" BY <3>12 DEF OutcomeOf
    <3>16. RequestReported(p) BY <2>7, <3>11, <3>14, <3>15 DEF RequestReported, HTTPLike, ViaFastHTTP
    <3> QED BY <1>2, <3>9, <3>16
  <2> QED BY <1>1, <2>6, <2>7
<1> QED BY <1>3, <1>4

\* The status that a recovery sets.
LEMMA ErrorStatus == \E code : code = 500 /\ code # 0
  OBVIOUS

\* fiber and fasthttp: a panic before the answer leaves the status 500, which the
\* transaction takes again when the response is sent.
LEMMA FastPanicReported ==
    ASSUME NEW q, AfterPanic(q), ViaFastHTTP(q), NEW p, Fixed(p, q), p.err = 0,
           p.panicking = q.propagate, p.errors = <<"recovered">>, p.ended = 0, p.outcome = "",
           p.client = 0, q.answers = 0 => p.status = 500,
           p.ctxStatus = IF q.sampled THEN p.status ELSE 0
    PROVE  RequestReported(p)
<1>1. Fitting(q) /\ q.panicked /\ q.traced BY DEF AfterPanic
<1>2. /\ Fitting(p) /\ ViaFastHTTP(p) /\ p.panicked /\ p.traced /\ p.propagate = q.propagate
      /\ p.answers = q.answers /\ p.sampled = q.sampled
  BY <1>1, FixedFits DEF Fixed
<1>3. p.via \notin HTTPLike \cup {"gin", "echo"} BY <1>2 DEF ViaFastHTTP, HTTPLike
<1>4. p.answers = 0 => Sent(p) = 500 /\ p.ctxStatus \in {0, 500} /\ (~p.sampled => p.ctxStatus = 0)
  <2> SUFFICES ASSUME p.answers = 0
               PROVE  Sent(p) = 500 /\ p.ctxStatus \in {0, 500} /\ (~p.sampled => p.ctxStatus = 0)
    OBVIOUS
  <2>1. PICK code : code = 500 /\ code # 0 BY ErrorStatus
  <2>5. q.answers = 0 BY <1>2
  <2>6. p.status = 500 BY <2>5
  <2>7. p.status = code BY <2>1, <2>6
  <2>8. code # 0 BY <2>1, Zenon
  <2>2. p.status = code /\ code # 0 BY <2>7, <2>8, Zenon
  <2>3. Sent(p) = code BY <1>2, <2>2 DEF Sent
  <2>4. p.ctxStatus \in {0, code} /\ (~p.sampled => p.ctxStatus = 0) BY <1>2, <2>2
  <2> QED BY <2>1, <2>3, <2>4
<1> QED BY <1>2, <1>3, <1>4 DEF RequestReported

\* fiber reports the status of a panic as 500.
LEMMA FiberReported ==
    ASSUME NEW q, AfterPanic(q) \/ AfterReturn(q), q.via = "fiber"
    PROVE  RequestReported(Deferred(q))
<1>1. q \in ServerRequest /\ Fitting(q) /\ q.propagate \in BOOLEAN
  BY FittingIs DEF AfterPanic, AfterReturn, Fitting
<1>2. Deferred(q) = FiberDeferred(q) BY DEF Deferred
<1>3. CASE AfterReturn(q)
  <2>1. ~q.panicking /\ q.errors \in {<<>>, <<"handled">>} BY <1>3 DEF AfterReturn
  <2>2. PICK p : p = SetTransactionContext(q) OBVIOUS
  <2>3. Fixed(p, q) /\ p.panicking = q.panicking /\ p.errors = q.errors /\ p.ended = q.ended
    BY <1>1, <2>2, ContextIs
  <2>4. RequestReported(p) BY <1>3, <2>1, <2>3, ReturnReported DEF HTTPLike
  <2>5. FiberDeferred(q) = p BY <2>1, <2>2 DEF FiberDeferred
  <2> QED BY <1>2, <2>4, <2>5
<1>4. CASE AfterPanic(q)
  <2>1. /\ q.panicking /\ q.errors = <<>> /\ q.panicked /\ q.traced /\ q.ended = 0 /\ q.outcome = ""
        /\ q.ctxStatus = 0 /\ q.err = 0 /\ q.client = 0 /\ ViaFastHTTP(q)
    BY <1>4 DEF AfterPanic, Unreported, Answered, ViaFastHTTP
  <2>2. PICK s : s = SendError(q, "recovered") OBVIOUS
  <2>3. /\ Fixed(s, q) /\ SameResponse(s, q) /\ s.err = 0 /\ s.ctxStatus = 0 /\ s.outcome = ""
        /\ s.ended = 0 /\ s.errors = <<"recovered">>
    BY <1>1, <2>1, <2>2, SendErrorIs
  <2>4. s \in ServerRequest BY <2>3 DEF Fixed
  <2>5. PICK code : code = 500 OBVIOUS
  <2>6. code \in Codes BY <2>5 DEF Codes
  <2>7. PICK u : u = [s EXCEPT !.status = code] OBVIOUS
  <2>8. Only(u, s, "status") /\ u.status = code BY <2>4, <2>6, <2>7, StatusIs
  <2>9. u \in ServerRequest BY <2>8 DEF Only
  <2>10. PICK t : t = [u EXCEPT !.panicking = q.propagate] OBVIOUS
  <2>11. Only(t, u, "panicking") /\ t.panicking = q.propagate
    <3>1. PICK v : v = q.propagate OBVIOUS
    <3>2. v \in BOOLEAN /\ t = [u EXCEPT !.panicking = v] BY <1>1, <2>10, <3>1
    <3>3. Only(t, u, "panicking") /\ t.panicking = v BY <2>9, <3>2, PanickingIs
    <3> QED BY <3>1, <3>3
  <2>12. t \in ServerRequest BY <2>11 DEF Only
  <2>13. PICK p : p = SetTransactionContext(t) OBVIOUS
  <2>14. /\ Fixed(p, t) /\ SameResponse(p, t) /\ p.err = t.err /\ p.panicking = t.panicking
         /\ p.outcome = t.outcome /\ p.errors = t.errors /\ p.ended = t.ended
         /\ p.ctxStatus = IF t.sampled THEN t.status ELSE t.ctxStatus
    BY <2>12, <2>13, ContextIs
  <2>15. FiberDeferred(q) = p
    <3>1. t = [SendError(q, "recovered") EXCEPT !.status = 500, !.panicking = q.propagate]
      BY <2>2, <2>5, <2>7, <2>10
    <3> QED BY <2>1, <2>13, <3>1 DEF FiberDeferred
  <2>16. /\ Fixed(u, s) /\ u.client = s.client /\ u.err = s.err /\ u.outcome = s.outcome
         /\ u.errors = s.errors /\ u.ended = s.ended /\ u.ctxStatus = s.ctxStatus
    BY <2>8 DEF Only, Fixed
  <2>17. /\ Fixed(t, u) /\ t.client = u.client /\ t.err = u.err /\ t.outcome = u.outcome
         /\ t.errors = u.errors /\ t.ended = u.ended /\ t.ctxStatus = u.ctxStatus
         /\ t.status = u.status
    BY <2>11 DEF Only, Fixed
  <2>18. Fixed(p, q)
    <3>1. Fixed(p, t) /\ Fixed(t, u) /\ Fixed(u, s) /\ Fixed(s, q) BY <2>3, <2>14, <2>16, <2>17
    <3> QED BY <3>1 DEF Fixed
  <2>19. p.client = 0 /\ p.status = code /\ t.sampled = q.sampled
    <3>1. s.client = q.client BY <2>3 DEF SameResponse
    <3>2. p.client = t.client /\ p.status = t.status BY <2>14 DEF SameResponse
    <3>3. t.sampled = p.sampled /\ p.sampled = q.sampled BY <2>14, <2>18 DEF Fixed
    <3> QED BY <2>1, <2>8, <2>16, <2>17, <3>1, <3>2, <3>3
  <2>20. /\ p.err = 0 /\ p.panicking = q.propagate /\ p.errors = <<"recovered">> /\ p.ended = 0
         /\ p.outcome = ""
    BY <2>3, <2>11, <2>14, <2>16, <2>17
  <2>21. p.ctxStatus = IF q.sampled THEN p.status ELSE 0
    <3>1. t.ctxStatus = 0 /\ t.status = code BY <2>3, <2>8, <2>16, <2>17
    <3> QED BY <2>14, <2>19, <3>1
  <2>22. p.status = 500 BY <2>5, <2>19
  <2>23. RequestReported(p) BY <1>4, <2>1, <2>18, <2>19, <2>20, <2>21, <2>22, FastPanicReported
  <2> QED BY <1>2, <2>15, <2>23
<1> QED BY <1>3, <1>4

\* fasthttp leaves the report of the status to its closer.
LEMMA FastHTTPReported ==
    ASSUME NEW q, AfterPanic(q) \/ AfterReturn(q), q.via = "fasthttp"
    PROVE  RequestReported(Deferred(q))
<1>1. q \in ServerRequest /\ Fitting(q) /\ q.propagate \in BOOLEAN /\ q.status \in Codes
  BY FittingIs DEF AfterPanic, AfterReturn, Fitting
<1>2. Deferred(q) = FastHTTPDeferred(q) BY DEF Deferred
<1>3. CASE AfterReturn(q)
  <2>1. ~q.panicking /\ q.errors \in {<<>>, <<"handled">>} BY <1>3 DEF AfterReturn
  <2>2. FastHTTPDeferred(q) = q BY <2>1 DEF FastHTTPDeferred
  <2>3. Fixed(q, q) BY <1>1 DEF Fixed
  <2>4. RequestReported(q) BY <1>3, <2>1, <2>3, ReturnReported DEF HTTPLike
  <2> QED BY <1>2, <2>2, <2>4
<1>4. CASE AfterPanic(q)
  <2>1. /\ q.panicking /\ q.errors = <<>> /\ q.panicked /\ q.traced /\ q.ended = 0 /\ q.outcome = ""
        /\ q.ctxStatus = 0 /\ q.err = 0 /\ q.client = 0 /\ ViaFastHTTP(q)
        /\ q.answers = 0 => q.status = 200
    BY <1>4 DEF AfterPanic, Unreported, Answered, ViaFastHTTP
  <2>2. PICK code : code = IF q.status = 200 THEN 500 ELSE q.status OBVIOUS
  <2>3. code \in Codes /\ (q.answers = 0 => code = 500)
    <3>1. 500 \in Codes BY DEF Codes
    <3> QED BY <1>1, <2>1, <2>2, <3>1
  <2>4. PICK u : u = [q EXCEPT !.status = code] OBVIOUS
  <2>5. Only(u, q, "status") /\ u.status = code
    <3>1. code \in Codes BY <2>3
    <3> QED BY <1>1, <2>4, <3>1, StatusIs
  <2>6. u \in ServerRequest BY <2>5 DEF Only
  <2>7. PICK c : c = SetTransactionContext(u) OBVIOUS
  <2>8. /\ Fixed(c, u) /\ SameResponse(c, u) /\ c.err = u.err
        /\ c.outcome = u.outcome /\ c.errors = u.errors /\ c.ended = u.ended
        /\ c.ctxStatus = IF u.sampled THEN u.status ELSE u.ctxStatus
    BY <2>6, <2>7, ContextIs
  <2>9. /\ Fixed(u, q) /\ u.client = q.client /\ u.err = q.err /\ u.outcome = q.outcome
        /\ u.errors = q.errors /\ u.ended = q.ended /\ u.ctxStatus = q.ctxStatus
    BY <2>5 DEF Only, Fixed
  <2>10. c \in ServerRequest /\ c.errors = <<>> BY <2>1, <2>8, <2>9 DEF Fixed
  <2>11. PICK s : s = SendError(c, "recovered") OBVIOUS
  <2>12. /\ Fixed(s, c) /\ SameResponse(s, c) /\ s.err = c.err /\ s.ctxStatus = c.ctxStatus
         /\ s.outcome = c.outcome /\ s.ended = c.ended /\ s.errors = <<"recovered">>
    BY <2>10, <2>11, SendErrorIs
  <2>13. s \in ServerRequest BY <2>12 DEF Fixed
  <2>14. PICK p : p = [s EXCEPT !.panicking = q.propagate] OBVIOUS
  <2>15. Only(p, s, "panicking") /\ p.panicking = q.propagate
    <3>1. PICK v : v = q.propagate OBVIOUS
    <3>2. v \in BOOLEAN /\ p = [s EXCEPT !.panicking = v] BY <1>1, <2>14, <3>1
    <3>3. Only(p, s, "panicking") /\ p.panicking = v BY <2>13, <3>2, PanickingIs
    <3> QED BY <3>1, <3>3
  <2>16. FastHTTPDeferred(q) = p
    <3>1. u = [q EXCEPT !.status = IF @ = 200 THEN 500 ELSE @] BY <2>2, <2>4
    <3> QED BY <2>1, <2>7, <2>11, <2>14, <3>1 DEF FastHTTPDeferred
  <2>17. /\ Fixed(p, s) /\ p.client = s.client /\ p.err = s.err /\ p.outcome = s.outcome
         /\ p.errors = s.errors /\ p.ended = s.ended /\ p.ctxStatus = s.ctxStatus
         /\ p.status = s.status
    BY <2>15 DEF Only, Fixed
  <2>18. Fixed(p, q)
    <3>1. Fixed(p, s) /\ Fixed(s, c) /\ Fixed(c, u) /\ Fixed(u, q) BY <2>8, <2>9, <2>12, <2>17
    <3> QED BY <3>1 DEF Fixed
  <2>19. p.client = 0 /\ p.status = code /\ u.sampled = q.sampled
    <3>1. s.client = c.client /\ s.status = c.status BY <2>12 DEF SameResponse
    <3>2. c.client = u.client /\ c.status = u.status BY <2>8 DEF SameResponse
    <3>3. u.sampled = q.sampled BY <2>9 DEF Fixed
    <3>4. p.status = code BY <2>5, <2>17, <3>1, <3>2
    <3>5. p.client = q.client BY <2>9, <2>17, <3>1, <3>2
    <3>6. q.client = 0 BY <2>1
    <3> QED BY <3>3, <3>4, <3>5, <3>6
  <2>20. /\ p.err = 0 /\ p.errors = <<"recovered">> /\ p.ended = 0 /\ p.outcome = ""
    <3>1. p.err = q.err /\ p.ended = q.ended /\ p.outcome = q.outcome BY <2>8, <2>9, <2>12, <2>17
    <3>2. q.err = 0 /\ q.ended = 0 /\ q.outcome = "" BY <2>1
    <3>3. p.errors = <<"recovered">> BY <2>12, <2>17
    <3> QED BY <3>1, <3>2, <3>3
  <2>21. p.ctxStatus = IF q.sampled THEN p.status ELSE 0
    <3>1. p.ctxStatus = c.ctxStatus /\ u.ctxStatus = 0 BY <2>1, <2>9, <2>12, <2>17
    <3> QED BY <2>5, <2>8, <2>19, <3>1
  <2>22. q.answers = 0 => p.status = 500 BY <2>3, <2>19
  <2>23. RequestReported(p) BY <1>4, <2>1, <2>15, <2>18, <2>19, <2>20, <2>21, <2>22, FastPanicReported
  <2> QED BY <1>2, <2>16, <2>23
<1> QED BY <1>3, <1>4

\* Every framework's deferred function reports the request.
LEMMA DeferredReports ==
    ASSUME NEW q, AfterPanic(q) \/ AfterReturn(q)
    PROVE  RequestReported(Deferred(q))
<1>1. q.via \in Via BY FittingIs DEF AfterPanic, AfterReturn
<1>2. q.via \in HTTPLike \/ q.via \in {"gin", "echo", "fasthttp", "fiber", "grpc", "lambda"}
  BY <1>1 DEF Via, HTTPLike
<1> QED
  BY <1>2, HTTPReported, GinReported, EchoReported, FastHTTPReported, FiberReported, GRPCReported,
     LambdaReported

-----------------------------------------------------------------------------
(* The other steps *)

\* Transitivity of what stays.
LEMMA FixedChain == ASSUME NEW p, NEW q, NEW s, Fixed(p, q), Fixed(q, s) PROVE Fixed(p, s)
BY DEF Fixed

\* What the server sends is a status.
LEMMA SentIs == ASSUME NEW q, Fitting(q) PROVE Sent(q) \in Codes
<1>1. q.client \in Codes /\ q.status \in Codes /\ q.err \in GivenErr BY FittingIs
<1>2. q.err \in Codes BY <1>1 DEF GivenErr, Codes
<1>3. 0 \in Codes /\ 200 \in Codes BY DEF Codes
<1> QED BY <1>1, <1>2, <1>3 DEF Sent

\* The transaction ends with the outcome of a failure if the handler panicked.
LEMMA FinishReports ==
    ASSUME NEW q, RequestReported(q), ~ViaFastHTTP(q),
           NEW z, z = [DeferredEnd(q) EXCEPT !.client = Sent(DeferredEnd(q))]
    PROVE  Done(z)
<1>1. q \in ServerRequest /\ Fitting(q) /\ q.ended = 0 BY DEF RequestReported, Fitting
<1>2. PICK y : y = End(q) OBVIOUS
<1>3. /\ Fixed(y, q) /\ SameResponse(y, q) /\ y.err = q.err /\ y.panicking = q.panicking
      /\ y.errors = q.errors /\ y.result = q.result /\ y.ended = 1 /\ y.outcome = OutcomeOf(q)
  BY <1>1, <1>2, EndIs
<1>4. Fitting(y) /\ y \in ServerRequest BY <1>1, <1>3, FixedFits DEF Fixed
<1>5. PICK sent : sent = Sent(y) OBVIOUS
<1>6. sent \in Codes BY <1>4, <1>5, SentIs
<1>7. z = [y EXCEPT !.client = sent] BY <1>2, <1>5 DEF DeferredEnd
<1>8. Only(z, y, "client") /\ z.client = sent BY <1>4, <1>6, <1>7, ClientIs
<1>9. /\ Fixed(z, y) /\ z.panicking = y.panicking /\ z.errors = y.errors /\ z.result = y.result
      /\ z.ended = y.ended /\ z.outcome = y.outcome
  BY <1>8 DEF Only, Fixed
<1>10. sent = Sent(q)
  <2>1. ViaFastHTTP(y) <=> ViaFastHTTP(q) BY <1>1, <1>3, FixedFits
  <2>2. y.fw = q.fw BY <1>3 DEF Fixed
  <2> QED BY <1>3, <1>5, <2>1, <2>2 DEF Sent, SameResponse
<1>11. Fixed(z, q) BY <1>3, <1>9, FixedChain
<1>12. /\ Fitting(z) /\ z.via = q.via /\ z.answers = q.answers /\ z.panicked = q.panicked
       /\ z.propagate = q.propagate /\ z.sampled = q.sampled
  BY <1>1, <1>11, FixedFits DEF Fixed
<1>13. /\ z.panicking = q.panicking /\ z.errors = q.errors /\ z.result = q.result
       /\ z.ended = 1 /\ z.outcome = OutcomeOf(q) /\ z.client = Sent(q)
  BY <1>3, <1>8, <1>9, <1>10
<1>14. q.via \in Via BY <1>1, FittingIs
<1>15. q.via \notin {"grpc", "lambda"} => q.via \in HTTPLike \cup {"gin", "echo"}
  BY <1>14 DEF Via, HTTPLike, ViaFastHTTP
<1> QED BY <1>12, <1>13, <1>15 DEF RequestReported, Done

\* fasthttp and fiber: the context is set again, with the status that was sent.
LEMMA FastFinishReports ==
    ASSUME NEW q, RequestReported(q), ViaFastHTTP(q),
           NEW z, z = End(SetTransactionContext([q EXCEPT !.client = Sent(q), !.status = Sent(q)]))
    PROVE  Done(z)
<1>1. q \in ServerRequest /\ Fitting(q) /\ q.ended = 0 BY DEF RequestReported, Fitting
<1>2. PICK sent : sent = Sent(q) OBVIOUS
<1>3. sent \in Codes BY <1>1, <1>2, SentIs
<1>4. PICK g : g = [q EXCEPT !.client = sent] OBVIOUS
<1>5. Only(g, q, "client") /\ g.client = sent BY <1>1, <1>3, <1>4, ClientIs
<1>6. PICK h : h = [g EXCEPT !.status = sent] OBVIOUS
<1>7. g \in ServerRequest BY <1>5 DEF Only
<1>8. Only(h, g, "status") /\ h.status = sent BY <1>3, <1>6, <1>7, StatusIs
<1>9. h \in ServerRequest BY <1>8 DEF Only
<1>10. PICK c : c = SetTransactionContext(h) OBVIOUS
<1>11. /\ Fixed(c, h) /\ SameResponse(c, h) /\ c.panicking = h.panicking
       /\ c.outcome = h.outcome /\ c.errors = h.errors /\ c.ended = h.ended
       /\ c.result = h.status /\ c.ctxStatus = IF h.sampled THEN h.status ELSE h.ctxStatus
  BY <1>9, <1>10, ContextIs
<1>12. /\ Fixed(g, q) /\ g.panicking = q.panicking /\ g.outcome = q.outcome /\ g.errors = q.errors
       /\ g.ended = q.ended /\ g.ctxStatus = q.ctxStatus
  BY <1>5 DEF Only, Fixed
<1>13. /\ Fixed(h, g) /\ h.panicking = g.panicking /\ h.outcome = g.outcome /\ h.errors = g.errors
       /\ h.ended = g.ended /\ h.ctxStatus = g.ctxStatus /\ h.client = g.client
  BY <1>8 DEF Only, Fixed
<1>14. c \in ServerRequest /\ c.ended = 0 BY <1>1, <1>11, <1>12, <1>13 DEF Fixed
<1>15. z = End(c) BY <1>2, <1>4, <1>6, <1>10
<1>16. /\ Fixed(z, c) /\ SameResponse(z, c) /\ z.panicking = c.panicking
       /\ z.errors = c.errors /\ z.result = c.result /\ z.ended = 1 /\ z.outcome = OutcomeOf(c)
  BY <1>14, <1>15, EndIs
<1>17. Fixed(c, q)
  <2>1. Fixed(h, q) BY <1>12, <1>13, FixedChain
  <2> QED BY <1>11, <2>1, FixedChain
<1>18. Fixed(z, q) BY <1>16, <1>17, FixedChain
<1>19. /\ Fitting(z) /\ z.via = q.via /\ z.answers = q.answers /\ z.panicked = q.panicked
       /\ z.propagate = q.propagate /\ z.sampled = q.sampled
  BY <1>1, <1>18, FixedFits DEF Fixed
<1>20. z.panicking = q.panicking /\ z.errors = q.errors BY <1>11, <1>12, <1>13, <1>16
<1>21. z.result = sent /\ z.client = sent
  <2>1. z.client = c.client /\ c.client = h.client BY <1>11, <1>16 DEF SameResponse
  <2> QED BY <1>5, <1>8, <1>11, <1>13, <1>16, <2>1
<1>22. q.panicked /\ q.answers = 0 => z.outcome = "failure"
  <2> SUFFICES ASSUME q.panicked, q.answers = 0 PROVE OutcomeOf(c) = "failure"
    BY <1>16
  <2>1. /\ q.outcome = "" /\ Sent(q) = 500 /\ (~q.sampled => q.ctxStatus = 0)
        /\ q.errors \in {<<"recovered">>, <<"recovered", "handled">>}
    BY DEF RequestReported
  <2>2. c.outcome = "" /\ c.errors # <<>>
    <3>1. <<"recovered">> # <<>> /\ <<"recovered", "handled">> # <<>> OBVIOUS
    <3>2. c.outcome = q.outcome /\ c.errors = q.errors BY <1>11, <1>12, <1>13
    <3>3. q.outcome = "" BY <2>1
    <3>4. q.errors = <<"recovered">> \/ q.errors = <<"recovered", "handled">> BY <2>1
    <3>5. q.errors # <<>> BY <3>1, <3>4
    <3> QED BY <3>2, <3>3, <3>5, Zenon
  <2>3. h.sampled = q.sampled /\ h.status = sent /\ h.ctxStatus = q.ctxStatus
    BY <1>8, <1>12, <1>13 DEF Fixed
  <2>4. CASE q.sampled
    <3>3. sent = 500 BY <1>2, <2>1
    <3>4. c.ctxStatus = sent BY <1>11, <2>3, <2>4
    <3>1. c.ctxStatus = 500 BY <3>3, <3>4, Zenon
    <3>2. c.ctxStatus # 0 /\ ~(c.ctxStatus < 500)
      <4>1. PICK n : n = c.ctxStatus OBVIOUS
      <4>2. n = 500 BY <3>1, <4>1
      <4>3. n # 0 /\ ~(n < 500) BY <4>2
      <4> QED BY <4>1, <4>3
    <3> QED BY <2>2, <3>2 DEF OutcomeOf
  <2>5. CASE ~q.sampled
    <3>1. c.ctxStatus = 0 BY <1>11, <2>1, <2>3, <2>5
    <3> QED BY <2>2, <3>1 DEF OutcomeOf
  <2> QED BY <2>4, <2>5
<1>23. z.errors \in IF z.panicked THEN {<<"recovered">>, <<"recovered", "handled">>}
                   ELSE {<<>>, <<"handled">>}
  <2>1. q.errors \in IF q.panicked THEN {<<"recovered">>, <<"recovered", "handled">>}
                    ELSE {<<>>, <<"handled">>}
    BY DEF RequestReported
  <2>2. z.errors = q.errors /\ z.panicked = q.panicked BY <1>19, <1>20
  <2> QED BY <2>1, <2>2
<1>24. z.panicking <=> z.panicked /\ z.propagate
  <2>1. q.panicking <=> q.panicked /\ q.propagate BY DEF RequestReported
  <2> QED BY <1>19, <1>20, <2>1
<1>25. z.panicked /\ z.answers = 0 => z.outcome = "failure" BY <1>19, <1>22
<1> QED BY <1>16, <1>19, <1>21, <1>23, <1>24, <1>25 DEF Done

\* Another answer.
LEMMA AnswerKeeps ==
    ASSUME NEW q, Handling(q), NEW code \in Codes, code # 0, q.via \notin {"grpc", "lambda"}
    PROVE  Handling([WriteHeader(q, code) EXCEPT !.answers = @ + 1])
<1>1. q \in ServerRequest /\ Fitting(q) BY DEF Handling, Fitting
<1>2. code \in Codes /\ code # 0 OBVIOUS
<1>3. PICK w : w = WriteHeader(q, code) OBVIOUS
<1>4. /\ Fixed(w, q) /\ SameReport(w, q) /\ w.err = q.err /\ w.panicking = q.panicking
      /\ ViaFastHTTP(q) => w.status = code /\ w.committed = q.committed /\ w.client = q.client
      /\ q.via \in {"gin", "echo"} =>
            IF q.committed THEN SameResponse(w, q)
            ELSE w.status = code /\ w.committed = TRUE /\ w.client = code
      /\ q.via \in HTTPLike \cup {"grpc", "lambda"} =>
            w.status = code /\ w.committed = TRUE /\ w.client = IF q.committed THEN q.client ELSE code
  BY <1>1, <1>3, WriteHeaderIs
<1>5. w \in ServerRequest /\ w.answers = q.answers /\ q.answers \in Nat
  BY <1>1, <1>4, FittingIs DEF Fixed
<1>6. PICK n : n = q.answers + 1 OBVIOUS
<1>7. n \in Nat /\ n # 0 /\ (n = 1 => q.answers = 0) BY <1>5, <1>6
<1>17. PICK p : p = [WriteHeader(q, code) EXCEPT !.answers = @ + 1] OBVIOUS
<1>8. p = [w EXCEPT !.answers = n]
  <2>1. p = [w EXCEPT !.answers = w.answers + 1] BY <1>3, <1>5, <1>17 DEF ServerRequest
  <2> QED BY <1>5, <1>6, <2>1
<1>9. Only(p, w, "answers") /\ p.answers = n
  <2>1. n \in Nat /\ w \in ServerRequest BY <1>5, <1>7
  <2> QED BY <1>8, <2>1, AnswersIs, Zenon
<1>10. /\ p \in ServerRequest /\ p.fw = w.fw /\ p.via = w.via /\ p.propagate = w.propagate
       /\ p.capturer = w.capturer /\ p.panicked = w.panicked
       /\ p.status = w.status /\ p.committed = w.committed /\ p.client = w.client
       /\ p.err = w.err /\ p.panicking = w.panicking
       /\ p.result = w.result /\ p.ctxStatus = w.ctxStatus /\ p.outcome = w.outcome
       /\ p.errors = w.errors /\ p.ended = w.ended
  BY <1>9 DEF Only
<1>11. Fitting(w) BY <1>1, <1>4, FixedFits
<1>12. Fitting(p) BY <1>10, <1>11 DEF Fitting
<1>13. w.via = q.via /\ w.panicked = q.panicked BY <1>4 DEF Fixed
<1>14. /\ Unreported(p) /\ p.errors = <<>> /\ p.err = 0 /\ ~p.panicking /\ ~p.panicked
  <2>1. Unreported(q) /\ q.errors = <<>> /\ q.err = 0 /\ ~q.panicking /\ ~q.panicked BY DEF Handling
  <2>2. SameReport(w, q) /\ w.err = q.err /\ w.panicking = q.panicking BY <1>4
  <2>3. Unreported(w) /\ w.errors = <<>> BY <2>1, <2>2 DEF Unreported, SameReport
  <2>4. Unreported(p) /\ p.errors = <<>> BY <1>10, <2>3 DEF Unreported
  <2> QED BY <1>10, <1>13, <2>1, <2>2, <2>4
<1>15. Answered(q) BY DEF Handling
<1>16. Answered(p)
  <2>1. ASSUME q.via \in HTTPLike
        PROVE  /\ p.committed /\ p.status # 0 /\ p.client # 0
               /\ p.answers = 1 => p.client = p.status
    <3>1. /\ q.answers = 0 => ~q.committed
          /\ q.answers # 0 => q.client # 0
      BY <1>15, <2>1 DEF Answered
    <3>2. w.status = code /\ w.committed = TRUE /\ w.client = IF q.committed THEN q.client ELSE code
      BY <1>4, <2>1
    <3> QED BY <1>2, <1>7, <1>9, <1>10, <3>1, <3>2
  <2>2. ASSUME q.via \in {"gin", "echo"}
        PROVE  p.committed /\ p.client = p.status /\ p.status # 0
    <3>1. q.committed => q.client = q.status /\ q.status # 0 BY <1>15, <2>2 DEF Answered
    <3> QED BY <1>2, <1>4, <1>10, <2>2, <3>1 DEF SameResponse
  <2>3. ASSUME ViaFastHTTP(q) PROVE p.client = 0
    BY <1>4, <1>10, <1>15, <2>3 DEF Answered
  <2>4. p.via = q.via BY <1>10, <1>13
  <2>5. p.answers # 0 BY <1>7, <1>9
  <2> QED BY <2>1, <2>2, <2>3, <2>4, <2>5 DEF Answered, ViaFastHTTP
<1>18. Handling(p) BY <1>12, <1>14, <1>16 DEF Handling
<1> QED BY <1>17, <1>18

\* The handler returns: net/http's status is then 200 if there is none, and echo's that
\* of the error.
LEMMA ReturnKeeps ==
    ASSUME NEW q, Handling(q), q.traced, NEW err \in GivenErr,
           err # 0 => Traits[q.fw].errors \/ q.via = "gin",
           NEW more \in Nat, (err # 0 /\ q.via # "gin") => more = 1, ~(err # 0 /\ q.via # "gin") => more = 0
    PROVE  AfterReturn(AfterHandler([q EXCEPT !.err = err, !.answers = @ + more]))
<1>1. q \in ServerRequest /\ Fitting(q) BY DEF Handling, Fitting
<1>2. /\ Unreported(q) /\ Answered(q) /\ q.errors = <<>> /\ ~q.panicking /\ ~q.panicked
  BY DEF Handling
<1>3. q.answers \in Nat /\ q.via \in Via BY <1>1, FittingIs
<1>4. PICK g : g = [q EXCEPT !.err = err] OBVIOUS
<1>5. Only(g, q, "err") /\ g.err = err BY <1>1, <1>4, ErrIs
<1>6. g \in ServerRequest /\ g.answers = q.answers BY <1>5 DEF Only
<1>7. PICK n : n = q.answers + more OBVIOUS
<1>8. n \in Nat /\ (more = 0 => n = q.answers) /\ (more = 1 /\ n < 2 => q.answers = 0) BY <1>3, <1>7
<1>9. PICK p : p = [q EXCEPT !.err = err, !.answers = @ + more] OBVIOUS
<1>10. p = [g EXCEPT !.answers = n]
  <2>1. p = [q EXCEPT !.err = err, !.answers = n] BY <1>1, <1>7, <1>9 DEF ServerRequest
  <2> QED BY <1>4, <2>1
<1>11. Only(p, g, "answers") /\ p.answers = n
  <2>1. n \in Nat /\ g \in ServerRequest BY <1>6, <1>8
  <2> QED BY <1>10, <2>1, AnswersIs, Zenon
<1>12. /\ p \in ServerRequest /\ p.fw = q.fw /\ p.via = q.via /\ p.propagate = q.propagate
       /\ p.capturer = q.capturer /\ p.traced = q.traced
  BY <1>5, <1>11 DEF Only
<1>13. SameResponse(p, q) /\ SameReport(p, q) /\ p.panicking = q.panicking /\ p.panicked = q.panicked
       /\ p.err = err
  BY <1>5, <1>11 DEF Only, SameResponse, SameReport
<1>14. Fitting(p) BY <1>1, <1>12 DEF Fitting
<1>15. /\ Unreported(p) /\ p.errors = <<>> /\ ~p.panicking /\ ~p.panicked /\ p.traced
  BY <1>2, <1>12, <1>13 DEF Unreported, SameReport
<1> HIDE DEF Via
<1>16. PICK r : r = AfterHandler(p) OBVIOUS
<1>17. ASSUME Fixed(r, p), SameReport(r, p), r.panicking = p.panicking,
              q.via \in HTTPLike \cup {"gin", "echo"} /\ n < 2 => r.status = Sent(r)
       PROVE  AfterReturn(r)
  <2>1. /\ Fitting(r) /\ r.via = q.via /\ r.answers = n /\ r.traced /\ ~r.panicked
    BY <1>11, <1>12, <1>14, <1>15, <1>17, FixedFits DEF Fixed
  <2>2. Unreported(r) /\ r.errors = <<>> BY <1>15, <1>17 DEF Unreported, SameReport
  <2> QED BY <1>15, <1>17, <2>1, <2>2 DEF AfterReturn
<1>18. p.status = q.status /\ p.committed = q.committed /\ p.client = q.client
  BY <1>13 DEF SameResponse
<1>19. PICK ok : ok = 200 OBVIOUS
<1>20. ok \in Codes /\ ok # 0 BY <1>19 DEF Codes
<1>21. CASE q.via \in HTTPLike
  <2>1. err = 0 /\ more = 0 /\ ~Traits[q.fw].errors
    <3>1. ~Traits[q.fw].errors /\ q.via # "gin" BY <1>1, <1>21, FittingIs DEF HTTPLike
    <3> QED BY <3>1
  <2>2. PICK x : x = IF p.status = 0 THEN ok ELSE p.status OBVIOUS
  <2>3. x \in Codes /\ x # 0 BY <1>12, <1>20, <2>2 DEF ServerRequest
  <2>4. r = [p EXCEPT !.status = x]
    BY <1>12, <1>16, <1>19, <1>21, <2>2 DEF AfterHandler, HTTPLike, ServerRequest
  <2>5. Only(r, p, "status") /\ r.status = x BY <1>12, <2>3, <2>4, StatusIs
  <2>6. /\ Fixed(r, p) /\ SameReport(r, p) /\ r.panicking = p.panicking /\ r.client = p.client
        /\ r.fw = p.fw
    BY <2>5 DEF Only, Fixed, SameReport
  <2>7. /\ q.answers = 0 => q.status = 0 /\ q.client = 0
        /\ q.answers = 1 => q.client = q.status /\ q.status # 0
    BY <1>2, <1>21 DEF Answered
  <2>8. n < 2 => r.client = 0 \/ r.client = x
    <3> SUFFICES ASSUME n < 2 PROVE r.client = 0 \/ r.client = x
      OBVIOUS
    <3>1. q.answers = 0 \/ q.answers = 1 BY <1>3, <1>8, <2>1
    <3> QED BY <1>18, <2>2, <2>6, <2>7, <3>1
  <2>9. r.fw = q.fw /\ ~r.panicking BY <1>12, <1>15, <2>6
  <2>10. n < 2 => r.status = Sent(r) BY <2>1, <2>3, <2>5, <2>8, <2>9 DEF Sent
  <2>11. AfterReturn(r) BY <1>17, <2>6, <2>10
  <2> QED BY <1>9, <1>16, <2>11
<1>22. CASE q.via = "gin"
  <2>1. r = p BY <1>12, <1>16, <1>22 DEF AfterHandler
  <2>2. Fixed(p, p) /\ SameReport(p, p) BY <1>12 DEF Fixed, SameReport
  <2>3. IF q.committed THEN q.client = q.status /\ q.status # 0 ELSE q.client = 0
    BY <1>2, <1>22 DEF Answered
  <2>4. q.answers = 0 => q.status = 200 BY <1>2, <1>22 DEF Answered
  <2>5. q.answers # 0 => q.committed BY <1>2, <1>22 DEF Answered
  <2>6. q.status # 0
    <3>1. q.answers = 0 => q.status # 0 BY <1>19, <1>20, <2>4
    <3> QED BY <2>3, <2>5, <3>1
  <2>7. ~Traits[q.fw].errors BY <1>1, <1>22, FittingIs
  <2>8. r.status = Sent(r) BY <1>12, <1>15, <1>18, <2>1, <2>3, <2>6, <2>7 DEF Sent
  <2>9. AfterReturn(r) BY <1>17, <2>1, <2>2, <2>8
  <2> QED BY <1>9, <1>16, <2>9
<1>23. CASE q.via = "echo"
  <2>1. IF q.committed THEN q.client = q.status /\ q.status # 0 ELSE q.client = 0
    BY <1>2, <1>23 DEF Answered
  <2>2. q.answers = 0 => ~q.committed BY <1>2, <1>23 DEF Answered
  <2>3. Traits[q.fw].errors BY <1>1, <1>23, FittingIs
  <2>4. CASE err # 0
    <3>1. r = [p EXCEPT !.status = err] BY <1>12, <1>13, <1>16, <1>23, <2>4 DEF AfterHandler
    <3>2. err \in Codes BY DEF GivenErr, Codes
    <3>3. Only(r, p, "status") /\ r.status = err BY <1>12, <3>1, <3>2, StatusIs
    <3>4. /\ Fixed(r, p) /\ SameReport(r, p) /\ r.panicking = p.panicking /\ r.client = p.client
          /\ r.fw = p.fw /\ r.err = p.err
      BY <3>3 DEF Only, Fixed, SameReport
    <3>5. more = 1 BY <1>23, <2>4
    <3>6. n < 2 => r.client = 0 BY <1>8, <1>18, <2>1, <2>2, <3>4, <3>5
    <3>7. r.fw = q.fw /\ ~r.panicking /\ r.err = err BY <1>12, <1>13, <1>15, <3>4
    <3>8. n < 2 => r.status = Sent(r) BY <2>3, <2>4, <3>3, <3>6, <3>7 DEF Sent
    <3>9. AfterReturn(r) BY <1>17, <3>4, <3>8
    <3> QED BY <1>9, <1>16, <3>9
  <2>5. CASE err = 0 /\ q.committed
    <3>1. r = p BY <1>12, <1>13, <1>16, <1>18, <1>23, <2>5 DEF AfterHandler
    <3>2. Fixed(p, p) /\ SameReport(p, p) BY <1>12 DEF Fixed, SameReport
    <3>3. r.status = Sent(r) BY <1>18, <2>1, <2>5, <3>1 DEF Sent
    <3>4. AfterReturn(r) BY <1>17, <3>1, <3>2, <3>3
    <3> QED BY <1>9, <1>16, <3>4
  <2>6. CASE err = 0 /\ ~q.committed
    <3>1. r = WriteHeader(p, ok)
      <4>1. r = WriteHeader(p, 200) BY <1>12, <1>13, <1>16, <1>18, <1>23, <2>6 DEF AfterHandler
      <4> QED BY <1>19, <4>1
    <3>2. /\ Fixed(r, p) /\ SameReport(r, p) /\ r.panicking = p.panicking
          /\ p.via \in {"gin", "echo"} =>
                IF p.committed THEN SameResponse(r, p)
                ELSE r.status = ok /\ r.committed = TRUE /\ r.client = ok
      <4>1. p \in ServerRequest /\ ok \in Codes BY <1>12, <1>20
      <4> QED BY <3>1, <4>1, WriteHeaderIs
    <3>3. r.status = ok /\ r.client = ok BY <1>12, <1>18, <1>23, <2>6, <3>2
    <3>4. r.status = Sent(r) BY <1>20, <3>3 DEF Sent
    <3>5. AfterReturn(r) BY <1>17, <3>2, <3>4
    <3> QED BY <1>9, <1>16, <3>5
  <2> QED BY <2>4, <2>5, <2>6
<1>24. CASE q.via \in {"fasthttp", "grpc"}
  <2>1. r = p BY <1>12, <1>16, <1>24 DEF AfterHandler
  <2>2. Fixed(p, p) /\ SameReport(p, p) BY <1>12 DEF Fixed, SameReport
  <2>3. q.via \notin HTTPLike \cup {"gin", "echo"} BY <1>24 DEF HTTPLike
  <2>4. AfterReturn(r) BY <1>17, <2>1, <2>2, <2>3
  <2> QED BY <1>9, <1>16, <2>4
<1>25. CASE q.via \in {"fiber", "lambda"}
  <2>1. r = IF p.err # 0 THEN SendError(p, "handled") ELSE p BY <1>12, <1>16, <1>25 DEF AfterHandler
  <2>2. q.via \notin HTTPLike \cup {"gin", "echo"} BY <1>25 DEF HTTPLike
  <2>3. /\ Fixed(r, p) /\ r.panicking = p.panicking /\ r.result = p.result /\ r.ctxStatus = p.ctxStatus
        /\ r.outcome = p.outcome /\ r.ended = p.ended /\ r.errors \in {<<>>, <<"handled">>}
    <3>1. CASE p.err # 0
      <4>1. r = SendError(p, "handled") BY <2>1, <3>1
      <4>2. p \in ServerRequest /\ p.errors = <<>> BY <1>12, <1>15
      <4> QED BY <4>1, <4>2, SendErrorIs
    <3>2. CASE p.err = 0 BY <1>12, <1>15, <2>1, <3>2 DEF Fixed
    <3> QED BY <3>1, <3>2
  <2>4. /\ Fitting(r) /\ r.via = q.via /\ r.traced /\ ~r.panicked
    BY <1>12, <1>14, <1>15, <2>3, FixedFits DEF Fixed
  <2>5. Unreported(r) BY <1>15, <2>3 DEF Unreported
  <2>6. AfterReturn(r) BY <1>15, <1>25, <2>2, <2>3, <2>4, <2>5 DEF AfterReturn
  <2> QED BY <1>9, <1>16, <2>6
<1> QED BY <1>3, <1>21, <1>22, <1>23, <1>24, <1>25 DEF Via, HTTPLike

\* The handler panics.
LEMMA PanicKeeps ==
    ASSUME NEW q, Handling(q)
    PROVE  LET p == [q EXCEPT !.panicking = TRUE, !.panicked = TRUE]
           IN p \in ServerRequest /\ Fitting(p) /\ (q.traced => AfterPanic(p))
<1>1. q \in ServerRequest /\ Fitting(q) BY DEF Handling, Fitting
<1>2. TRUE \in BOOLEAN OBVIOUS
<1>3. PICK g : g = [q EXCEPT !.panicking = TRUE] OBVIOUS
<1>4. Only(g, q, "panicking") /\ g.panicking = TRUE BY <1>1, <1>2, <1>3, PanickingIs, Zenon
<1>5. g \in ServerRequest BY <1>4 DEF Only
<1>6. PICK p : p = [g EXCEPT !.panicked = TRUE] OBVIOUS
<1>7. Only(p, g, "panicked") /\ p.panicked = TRUE BY <1>2, <1>5, <1>6, PanickedIs, Zenon
<1>8. /\ p \in ServerRequest /\ p.fw = q.fw /\ p.via = q.via /\ p.traced = q.traced
      /\ p.propagate = q.propagate /\ p.capturer = q.capturer /\ p.answers = q.answers
  BY <1>4, <1>7 DEF Only
<1>9. SameResponse(p, q) /\ SameReport(p, q) /\ p.err = q.err /\ p.panicking = TRUE
  BY <1>4, <1>7 DEF Only, SameResponse, SameReport
<1>10. Fitting(p) BY <1>1, <1>8 DEF Fitting
<1>11. Unreported(p) /\ p.errors = <<>> /\ p.err = 0
  <2>1. Unreported(q) /\ q.errors = <<>> /\ q.err = 0 BY DEF Handling
  <2>2. Unreported(p) /\ p.errors = <<>> BY <1>9, <2>1 DEF Unreported, SameReport
  <2> QED BY <1>9, <2>1, <2>2
<1>12. Answered(p) BY <1>8, <1>9 DEF Handling, Answered, SameResponse, ViaFastHTTP
<1>13. q.traced => AfterPanic(p) BY <1>7, <1>8, <1>9, <1>10, <1>11, <1>12 DEF AfterPanic
<1> QED BY <1>3, <1>6, <1>8, <1>10, <1>13


\* The values that a fresh request starts with.
LEMMA Zeros ==
    /\ "idle" \in Phases /\ "handling" \in Phases /\ "refused" \in Phases
    /\ 0 \in Codes /\ 0 \in GivenErr /\ 0 \in Once /\ 500 \in Codes
    /\ "" \in Outcomes /\ <<>> \in Reports /\ NoBody \in Capturers
BY DEF Phases, Codes, GivenErr, Once, Outcomes, Reports, Capturers

\* What a middleware takes a request up with.
TakenUp(f, ph, traced, sampled, propagate, c) ==
    /\ f \in Frameworks /\ ph \in Phases /\ traced \in BOOLEAN /\ sampled \in BOOLEAN
    /\ propagate \in BOOLEAN /\ (propagate \in Traits[f].propagate \/ propagate = FALSE)
    /\ c \in Capturers /\ (f \notin CaptureBody => c = NoBody)

StartsAs(q, ph, c) == Handling(q) /\ q.phase = ph /\ q.capturer = c

\* What the middleware starts fits the framework, and nothing has happened to it.
LEMMA TakenIs ==
    ASSUME NEW f, NEW ph, NEW traced, NEW sampled, NEW propagate, NEW c,
           TakenUp(f, ph, traced, sampled, propagate, c)
    PROVE  StartsAs(TakeUp(f, ph, traced, sampled, propagate, c), ph, c)
<1> USE DEF TakenUp
<1>10. PICK q : q = TakeUp(f, ph, traced, sampled, propagate, c) OBVIOUS
<1>1. /\ q.phase = ph /\ q.fw = f /\ q.via = Traits[f].via /\ q.status = Traits[f].initial
      /\ ~q.committed /\ q.client = 0 /\ q.answers = 0 /\ q.err = 0 /\ ~q.panicking /\ ~q.panicked
      /\ q.capturer = c /\ q.result = 0 /\ q.ctxStatus = 0 /\ q.outcome = "" /\ q.errors = <<>>
      /\ q.ended = 0
  BY <1>10 DEF TakeUp
<1>2. q.propagate = propagate BY <1>10 DEF TakeUp
<1>3. /\ Traits[f].via \in Via
      /\ Traits[f].initial = IF Traits[f].via \in HTTPLike \cup {"grpc", "lambda"} THEN 0 ELSE 200
  BY TraitsAre
<1>4. Traits[f].initial \in Codes BY <1>3 DEF Codes
<1>5. q \in ServerRequest
  <2>1. 0 \in Nat OBVIOUS
  <2>2. PICK i, v, no, zero, none, empty :
           /\ i = Traits[f].initial /\ v = Traits[f].via /\ no = FALSE /\ zero = 0 /\ none = "" /\ empty = <<>>
    OBVIOUS
  <2>3. /\ i \in Codes /\ v \in Via /\ no \in BOOLEAN /\ zero \in Nat /\ zero \in Codes
        /\ zero \in GivenErr /\ zero \in Once /\ none \in Outcomes /\ empty \in Reports
    BY <1>3, <1>4, <2>1, <2>2, Zeros
  <2>5. /\ traced \in BOOLEAN /\ sampled \in BOOLEAN /\ propagate \in BOOLEAN /\ f \in Frameworks
        /\ c \in Capturers /\ ph \in Phases
    OBVIOUS
  <2> HIDE DEF TakenUp
  <2> HIDE DEF Phases, Via, Codes, GivenErr, Once, Outcomes, Reports, Capturers
  <2>4. q = [phase |-> ph, fw |-> f, via |-> v, traced |-> traced, sampled |-> sampled,
             propagate |-> propagate, status |-> i, committed |-> no, client |-> zero,
             answers |-> zero, err |-> zero, panicking |-> no, panicked |-> no, capturer |-> c,
             result |-> zero, ctxStatus |-> zero, outcome |-> none, errors |-> empty, ended |-> zero]
    BY <1>10, <2>2, Zenon DEF TakeUp
  <2> QED BY <2>3, <2>4, <2>5 DEF ServerRequest
<1>6. Fitting(q) BY <1>1, <1>2, <1>5 DEF Fitting
<1>7. Unreported(q) BY <1>1 DEF Unreported
<1>8. q.status = IF q.via \in HTTPLike \cup {"grpc", "lambda"} THEN 0 ELSE 200 BY <1>1, <1>3
<1>9. Answered(q) BY <1>1, <1>8 DEF Answered, ViaFastHTTP, HTTPLike
<1>11. Handling(q) BY <1>1, <1>6, <1>7, <1>9 DEF Handling
<1> QED BY <1>1, <1>10, <1>11 DEF StartsAs

\* A request that cannot be converted ends at once.
Refused(f, sampled) ==
    [End(TakeUp(f, "refused", TRUE, sampled, FALSE, NoBody)) EXCEPT !.status = 500, !.client = 500]

\* It fits its framework all the same.
LEMMA RefusedFits ==
    ASSUME NEW f \in Frameworks, NEW sampled \in BOOLEAN
    PROVE  LET z == Refused(f, sampled)
           IN  Fitting(z) /\ z.phase = "refused" /\ z.capturer = NoBody
<1>18. PICK z : z = Refused(f, sampled) OBVIOUS
<1>1. PICK q : q = TakeUp(f, "refused", TRUE, sampled, FALSE, NoBody) OBVIOUS
<1>2. Handling(q) /\ q.phase = "refused" /\ q.capturer = NoBody
  <2>1. PICK ph, yes, no, c : ph = "refused" /\ yes = TRUE /\ no = FALSE /\ c = NoBody OBVIOUS
  <2>2. ph \in Phases /\ yes \in BOOLEAN /\ no \in BOOLEAN /\ c \in Capturers BY <2>1, Zeros
  <2>3. q = TakeUp(f, ph, yes, sampled, no, c) BY <1>1, <2>1
  <2>4. no \in Traits[f].propagate \/ no = FALSE BY <2>1
  <2>5. f \notin CaptureBody => c = NoBody BY <2>1
  <2>6. sampled \in BOOLEAN /\ f \in Frameworks OBVIOUS
  <2>7. Handling(q) /\ q.phase = ph /\ q.capturer = c
    <3>1. TakenUp(f, ph, yes, sampled, no, c) BY <2>2, <2>4, <2>5, <2>6 DEF TakenUp
    <3>2. StartsAs(TakeUp(f, ph, yes, sampled, no, c), ph, c) BY <3>1, TakenIs
    <3> QED BY <2>3, <3>2 DEF StartsAs
  <2> QED BY <2>1, <2>7
<1>3. Fitting(q) /\ q \in ServerRequest /\ q.ended = 0 BY <1>2 DEF Handling, Fitting, Unreported
<1>4. PICK e : e = End(q) OBVIOUS
<1>5. Fixed(e, q) BY <1>3, <1>4, EndIs
<1>6. Fitting(e) /\ e \in ServerRequest /\ e.capturer = NoBody /\ e.phase = "refused"
  BY <1>2, <1>3, <1>5, FixedFits DEF Fixed
<1>7. PICK code : code = 500 OBVIOUS
<1>8. code \in Codes BY <1>7, Zeros
<1>9. PICK h : h = [e EXCEPT !.status = code] OBVIOUS
<1>10. Only(h, e, "status") BY <1>6, <1>8, <1>9, StatusIs
<1>11. h \in ServerRequest BY <1>10 DEF Only
<1>12. PICK k : k = [h EXCEPT !.client = code] OBVIOUS
<1>13. Only(k, h, "client") BY <1>8, <1>11, <1>12, ClientIs
<1>14. k = z BY <1>1, <1>4, <1>7, <1>9, <1>12, <1>18 DEF Refused
<1>16. /\ h.fw = e.fw /\ h.via = e.via /\ h.propagate = e.propagate /\ h.capturer = e.capturer
       /\ h.phase = e.phase
  BY <1>10 DEF Only
<1>17. /\ k \in ServerRequest /\ k.fw = h.fw /\ k.via = h.via /\ k.propagate = h.propagate
       /\ k.capturer = h.capturer /\ k.phase = h.phase
  BY <1>13 DEF Only
<1>15. /\ z \in ServerRequest /\ z.fw = e.fw /\ z.via = e.via /\ z.propagate = e.propagate
       /\ z.capturer = e.capturer /\ z.phase = e.phase
  BY <1>14, <1>16, <1>17
<1>19. Fitting(z) /\ z.phase = "refused" /\ z.capturer = NoBody BY <1>6, <1>15 DEF Fitting
<1> QED BY <1>18, <1>19

-----------------------------------------------------------------------------
(* Body capturers *)

\* A request, as far as its capturer is concerned; p has that of q.
HasCapturer(q) == "capturer" \in DOMAIN q /\ "via" \in DOMAIN q

SameCapturer(p, q) == HasCapturer(p) /\ p.capturer = q.capturer /\ p.via = q.via

\* The helpers.
LEMMA HelpersKeepCapturer ==
    ASSUME NEW q, HasCapturer(q), NEW code, NEW kind
    PROVE  /\ SameCapturer(WriteHeader(q, code), q)
           /\ SameCapturer(SendError(q, kind), q)
           /\ SameCapturer(SetTransactionContext(q), q)
           /\ SameCapturer(SetTransactionResult(q), q)
           /\ SameCapturer(End(q), q)
<1>1. SameCapturer(WriteHeader(q, code), q) BY DEF SameCapturer, HasCapturer, WriteHeader
<1>2. SameCapturer(SendError(q, kind), q) BY DEF SameCapturer, HasCapturer, SendError
<1>3. SameCapturer(SetTransactionContext(q), q) BY DEF SameCapturer, HasCapturer, SetTransactionContext
<1>4. SameCapturer(SetTransactionResult(q), q) BY DEF SameCapturer, HasCapturer, SetTransactionResult
<1>5. SameCapturer(End(q), q) BY DEF SameCapturer, HasCapturer, End
<1> QED BY <1>1, <1>2, <1>3, <1>4, <1>5

\* A helper after another.
LEMMA CapturerChain ==
    ASSUME NEW p, NEW q, NEW s, SameCapturer(p, q), SameCapturer(q, s)
    PROVE  SameCapturer(p, s)
BY DEF SameCapturer, HasCapturer

\* The error is sent, and the panic ends or goes on.
LEMMA RecoveryKeepsCapturer ==
    ASSUME NEW q, HasCapturer(q), NEW kind, NEW b, NEW x
    PROVE  /\ SameCapturer([SendError(q, kind) EXCEPT !.panicking = b], q)
           /\ SameCapturer([SendError(q, kind) EXCEPT !.status = x, !.panicking = b], q)
           /\ SameCapturer([SendError(q, kind) EXCEPT !.err = x, !.panicking = b], q)
           /\ SameCapturer([q EXCEPT !.status = x], q)
<1>1. PICK s : s = SendError(q, kind) OBVIOUS
<1>2. SameCapturer(s, q) BY <1>1, HelpersKeepCapturer
<1>3. SameCapturer([s EXCEPT !.panicking = b], q) BY <1>2 DEF SameCapturer, HasCapturer
<1>4. SameCapturer([s EXCEPT !.status = x, !.panicking = b], q) BY <1>2 DEF SameCapturer, HasCapturer
<1>5. SameCapturer([s EXCEPT !.err = x, !.panicking = b], q) BY <1>2 DEF SameCapturer, HasCapturer
<1>6. SameCapturer([q EXCEPT !.status = x], q) BY DEF SameCapturer, HasCapturer
<1> QED BY <1>1, <1>3, <1>4, <1>5, <1>6

\* The deferred functions.
LEMMA DeferredKeepsCapturer ==
    ASSUME NEW q, HasCapturer(q), q.via \in Via
    PROVE  SameCapturer(Deferred(q), q)
<1> USE HelpersKeepCapturer, RecoveryKeepsCapturer
<1>1. SameCapturer(q, q) BY DEF SameCapturer, HasCapturer
<1>2. ASSUME NEW p, SameCapturer(p, q)
      PROVE  HasCapturer(p) /\ \A s : SameCapturer(s, p) => SameCapturer(s, q)
  BY <1>2, CapturerChain DEF SameCapturer, HasCapturer
<1>3. CASE q.via = "http"
  <2>1. PICK w : w = IF q.propagate THEN [q EXCEPT !.status = IF @ = 0 THEN 500 ELSE @]
                     ELSE IF q.status = 0 THEN WriteHeader(q, 500) ELSE q
    OBVIOUS
  <2>2. SameCapturer(w, q)
    <3>1. PICK x : x = IF q.status = 0 THEN 500 ELSE q.status OBVIOUS
    <3>2. w = IF q.propagate THEN [q EXCEPT !.status = x]
              ELSE IF q.status = 0 THEN WriteHeader(q, 500) ELSE q
      BY <2>1, <3>1
    <3> QED BY <1>1, <3>2
  <2>3. SameCapturer(HTTPRecover(q), q)
    <3>1. PICK s : s = [SendError(w, "recovered") EXCEPT !.panicking = q.propagate] OBVIOUS
    <3>2. SameCapturer(s, q) BY <1>2, <2>2, <3>1
    <3>3. HTTPRecover(q) = s BY <2>1, <3>1, Zenon DEF HTTPRecover
    <3> QED BY <3>2, <3>3
  <2>4. SameCapturer(HTTPDeferred(q), q) BY <1>1, <1>2, <2>3 DEF HTTPDeferred
  <2> QED BY <1>3, <2>4 DEF Deferred
<1>4. ASSUME NEW w, w = IF q.status = 0 THEN WriteHeader(q, 500) ELSE q
      PROVE  SameCapturer(SetTransactionContext(
                IF q.panicking THEN [SendError(w, "recovered") EXCEPT !.panicking = FALSE] ELSE q), q)
  <2>1. SameCapturer(w, q) BY <1>1, <1>4
  <2>2. PICK s : s = [SendError(w, "recovered") EXCEPT !.panicking = FALSE] OBVIOUS
  <2>3. SameCapturer(s, q) BY <1>2, <2>1, <2>2
  <2> QED BY <1>1, <1>2, <2>2, <2>3
<1>5. CASE q.via = "httprouter" BY <1>4, <1>5 DEF Deferred, RouterDeferred
<1>6. CASE q.via = "restful" BY <1>4, <1>6 DEF Deferred, RestfulDeferred
<1>7. CASE q.via = "gin"
  <2>1. PICK w : w = IF ~q.propagate /\ ~q.committed THEN WriteHeader(q, 500) ELSE q OBVIOUS
  <2>2. SameCapturer(w, q) BY <1>1, <2>1
  <2>3. PICK p : p = IF q.panicking
                     THEN [SendError(w, "recovered") EXCEPT !.panicking = q.propagate] ELSE q
    OBVIOUS
  <2>4. SameCapturer(p, q) BY <1>1, <1>2, <2>2, <2>3
  <2>5. PICK t : t = SetTransactionContext(p) OBVIOUS
  <2>6. SameCapturer(t, q) BY <1>2, <2>4, <2>5
  <2>7. SameCapturer(IF t.err # 0 THEN SendError(t, "handled") ELSE t, q) BY <1>2, <2>6
  <2>8. GinDeferred(q) = IF t.err # 0 THEN SendError(t, "handled") ELSE t
    BY <2>1, <2>3, <2>5 DEF GinDeferred
  <2> QED BY <1>7, <2>7, <2>8 DEF Deferred
<1>8. CASE q.via = "echo"
  <2>1. PICK w : w = WriteHeader(q, 500) OBVIOUS
  <2>2. SameCapturer(w, q) BY <2>1
  <2>3. PICK p : p = IF q.panicking
                     THEN [SendError(w, "recovered") EXCEPT !.panicking = FALSE] ELSE q
    OBVIOUS
  <2>4. SameCapturer(p, q) BY <1>1, <1>2, <2>2, <2>3
  <2>5. PICK t : t = IF p.err # 0 THEN SendError(p, "handled") ELSE p OBVIOUS
  <2>6. SameCapturer(t, q) BY <1>2, <2>4, <2>5
  <2>7. EchoDeferred(q) = SetTransactionContext(t) 
    <3> HIDE HelpersKeepCapturer, RecoveryKeepsCapturer
    <3> QED BY <2>1, <2>3, <2>5 DEF EchoDeferred
  <2>8. SameCapturer(SetTransactionContext(t), q) BY <1>2, <2>6
  <2> QED BY <1>8, <2>7, <2>8 DEF Deferred
<1>9. CASE q.via = "fiber"
  <2>1. PICK s : s = SendError(q, "recovered") OBVIOUS
  <2>2. PICK p : p = IF q.panicking THEN [s EXCEPT !.status = 500, !.panicking = q.propagate] ELSE q
    OBVIOUS
  <2>3. SameCapturer(p, q)
    <3>1. SameCapturer(s, q) BY <1>1, <2>1
    <3> HIDE HelpersKeepCapturer, RecoveryKeepsCapturer
    <3>2. CASE q.panicking
      <4>1. p = [s EXCEPT !.status = 500, !.panicking = q.propagate] BY <2>2, <3>2
      <4> QED BY <3>1, <4>1 DEF SameCapturer, HasCapturer
    <3>3. CASE ~q.panicking
      <4>1. p = q BY <2>2, <3>3
      <4> QED BY <1>1, <4>1
    <3> QED BY <3>2, <3>3
  <2>4. FiberDeferred(q) = SetTransactionContext(p) BY <2>1, <2>2 DEF FiberDeferred
  <2>5. SameCapturer(SetTransactionContext(p), q) BY <1>2, <2>3
  <2> QED BY <1>9, <2>4, <2>5 DEF Deferred
<1>10. CASE q.via = "fasthttp"
  <2>1. PICK x : x = IF q.status = 200 THEN 500 ELSE q.status
    <3> HIDE HelpersKeepCapturer, RecoveryKeepsCapturer
    <3> QED OBVIOUS
  <2>2. PICK w : w = [q EXCEPT !.status = x] OBVIOUS
  <2>3. SameCapturer(w, q) BY <2>2
  <2>4. PICK t : t = SetTransactionContext(w) OBVIOUS
  <2>5. SameCapturer(t, q) BY <1>2, <2>3, <2>4
  <2>6. PICK s : s = [SendError(t, "recovered") EXCEPT !.panicking = q.propagate] OBVIOUS
  <2>7. SameCapturer(s, q) BY <1>2, <2>5, <2>6
  <2>8. FastHTTPDeferred(q) = IF q.panicking THEN s ELSE q
    BY <2>1, <2>2, <2>4, <2>6 DEF FastHTTPDeferred
  <2> QED BY <1>1, <1>10, <2>7, <2>8 DEF Deferred
<1>11. CASE q.via = "grpc"
  <2>1. PICK s : s = SendError(q, "recovered") OBVIOUS
  <2>2. PICK p : p = IF q.panicking THEN [s EXCEPT !.err = 500, !.panicking = FALSE] ELSE q
    OBVIOUS
  <2>3. SameCapturer(p, q)
    <3>1. SameCapturer(s, q) BY <1>1, <2>1
    <3> HIDE HelpersKeepCapturer, RecoveryKeepsCapturer
    <3>2. CASE q.panicking
      <4>1. p = [s EXCEPT !.err = 500, !.panicking = FALSE] BY <2>2, <3>2
      <4> QED BY <3>1, <4>1 DEF SameCapturer, HasCapturer
    <3>3. CASE ~q.panicking
      <4>1. p = q BY <2>2, <3>3
      <4> QED BY <1>1, <4>1
    <3> QED BY <3>2, <3>3
  <2>4. GRPCDeferred(q) = IF q.panicking /\ q.propagate THEN SendError(q, "recovered")
                          ELSE SetTransactionResult(p)
    BY <2>1, <2>2 DEF GRPCDeferred
  <2>5. SameCapturer(SetTransactionResult(p), q) BY <1>2, <2>3
  <2> QED BY <1>11, <2>4, <2>5 DEF Deferred
<1>12. CASE q.via = "lambda"
  <2>1. SameCapturer(LambdaDeferred(q), q) BY <1>1 DEF LambdaDeferred
  <2> QED BY <1>12, <2>1 DEF Deferred
<1> QED
  BY <1>3, <1>5, <1>6, <1>7, <1>8, <1>9, <1>10, <1>11, <1>12 DEF Via

-----------------------------------------------------------------------------
(* What the steps make of a request *)

\* In the other phases a request only has to fit its framework.
LEMMA OtherPhase ==
    ASSUME NEW n, Fitting(n), n.phase \notin {"handling", "deferred", "ending", "done"}
    PROVE  RequestOK(n)
BY DEF RequestOK

\* Untraced
LEMMA UntracedOK ==
    ASSUME NEW f \in Frameworks, NEW n, n = TakeUp(f, "handling", FALSE, FALSE, FALSE, NoBody)
    PROVE  RequestOK(n) /\ n.capturer = NoBody
<1>1. PICK ph, no, c : ph = "handling" /\ no = FALSE /\ c = NoBody OBVIOUS
<1>2. ph \in Phases /\ no \in BOOLEAN /\ c \in Capturers BY <1>1, Zeros
<1>3. TakenUp(f, ph, no, no, no, c) BY <1>1, <1>2 DEF TakenUp
<1>4. n = TakeUp(f, ph, no, no, no, c) BY <1>1
<1>5. StartsAs(n, ph, c) BY <1>3, <1>4, TakenIs
<1>6. Handling(n) /\ n.phase = "handling" /\ n.capturer = NoBody BY <1>1, <1>5 DEF StartsAs
<1>7. Fitting(n) BY <1>6 DEF Handling
<1> QED BY <1>6, <1>7 DEF RequestOK

\* A request that may take the place of one with the capturer c.
Becomes(n, c) == RequestOK(n) /\ n.capturer = c

\* StartTransaction
LEMMA StartOK ==
    ASSUME NEW f, NEW sampled, NEW propagate, NEW c, NEW yes, yes = TRUE,
           TakenUp(f, "handling", yes, sampled, propagate, c)
    PROVE  Becomes(TakeUp(f, "handling", yes, sampled, propagate, c), c)
<1>1. PICK n : n = TakeUp(f, "handling", yes, sampled, propagate, c) OBVIOUS
<1>2. StartsAs(n, "handling", c) BY <1>1, TakenIs
<1>3. Handling(n) /\ n.phase = "handling" /\ n.capturer = c BY <1>2 DEF StartsAs
<1>4. Fitting(n) BY <1>3 DEF Handling
<1>5. Becomes(n, c) BY <1>3, <1>4 DEF Becomes, RequestOK
<1> QED BY <1>1, <1>5

\* The requests that no goroutine has yet.
LEMMA IdleOK ==
    ASSUME NEW f \in Frameworks
    PROVE  RequestOK(Idle(f)) /\ Idle(f).capturer = NoBody
<1>1. PICK ph, no, c : ph = "idle" /\ no = FALSE /\ c = NoBody OBVIOUS
<1>2. ph \in Phases /\ no \in BOOLEAN /\ c \in Capturers BY <1>1, Zeros
<1>3. TakenUp(f, ph, no, no, no, c) BY <1>1, <1>2 DEF TakenUp
<1>4. Idle(f) = TakeUp(f, ph, no, no, no, c) BY <1>1 DEF Idle
<1>5. StartsAs(Idle(f), ph, c) BY <1>3, <1>4, TakenIs
<1>6. Handling(Idle(f)) /\ Idle(f).phase = "idle" /\ Idle(f).capturer = NoBody
  BY <1>1, <1>5 DEF StartsAs
<1>7. Fitting(Idle(f)) BY <1>6 DEF Handling
<1> QED BY <1>6, <1>7, OtherPhase

\* Answer
LEMMA AnswerOK ==
    ASSUME NEW q, Handling(q), q.phase = "handling", NEW code \in Codes, code # 0,
           q.via \notin {"grpc", "lambda"},
           NEW n, n = [WriteHeader(q, code) EXCEPT !.answers = @ + 1]
    PROVE  RequestOK(n) /\ n.capturer = q.capturer
<1>1. Handling(n) BY AnswerKeeps
<1>2. q \in ServerRequest /\ q.answers \in Nat BY FittingIs DEF Handling
<1>3. PICK w : w = WriteHeader(q, code) OBVIOUS
<1>4. Fixed(w, q) BY <1>2, <1>3, WriteHeaderIs
<1>5. w \in ServerRequest /\ w.phase = q.phase /\ w.capturer = q.capturer /\ w.answers \in Nat
  BY <1>2, <1>4 DEF Fixed
<1>6. PICK a : a = w.answers + 1 OBVIOUS
<1>7. a \in Nat BY <1>5, <1>6
<1>8. n = [w EXCEPT !.answers = a] BY <1>3, <1>5, <1>6 DEF ServerRequest
<1>9. Only(n, w, "answers")
  <2>1. a \in Nat /\ w \in ServerRequest BY <1>5, <1>7
  <2> QED BY <1>8, <2>1, AnswersIs, Zenon
<1>10. n.phase = "handling" /\ n.capturer = q.capturer BY <1>5, <1>9 DEF Only
<1> QED BY <1>1, <1>10 DEF RequestOK, Handling

\* What a handler may return, and what follows.
MayReturn(q, err, more) ==
    /\ err \in GivenErr /\ (err # 0 => Traits[q.fw].errors \/ q.via = "gin")
    /\ more \in Nat /\ ((err # 0 /\ q.via # "gin") => more = 1)
    /\ (~(err # 0 /\ q.via # "gin") => more = 0)

Returning(q, err, more) == [q EXCEPT !.err = err, !.answers = @ + more]

Returned(p) ==
    IF p.traced THEN [AfterHandler(p) EXCEPT !.phase = "deferred"] ELSE [p EXCEPT !.phase = "finished"]

\* Return
LEMMA ReturnOK ==
    ASSUME NEW q, Handling(q), NEW err, NEW more, MayReturn(q, err, more)
    PROVE  Becomes(Returned(Returning(q, err, more)), q.capturer)
<1>13. PICK p : p = [q EXCEPT !.err = err, !.answers = @ + more] OBVIOUS
<1>14. PICK n : n = IF p.traced THEN [AfterHandler(p) EXCEPT !.phase = "deferred"]
                    ELSE [p EXCEPT !.phase = "finished"]
  OBVIOUS
<1>15. n = Returned(Returning(q, err, more)) BY <1>13, <1>14 DEF Returned, Returning
<1> SUFFICES RequestOK(n) /\ n.capturer = q.capturer BY <1>15 DEF Becomes
<1>16. /\ err \in GivenErr /\ (err # 0 => Traits[q.fw].errors \/ q.via = "gin")
       /\ more \in Nat /\ ((err # 0 /\ q.via # "gin") => more = 1)
       /\ (~(err # 0 /\ q.via # "gin") => more = 0)
  BY DEF MayReturn
<1>1. q \in ServerRequest /\ Fitting(q) /\ q.answers \in Nat BY FittingIs DEF Handling
<1>2. PICK g : g = [q EXCEPT !.err = err] OBVIOUS
<1>3. Only(g, q, "err") BY <1>1, <1>2, <1>16, ErrIs
<1>4. g \in ServerRequest /\ g.answers = q.answers BY <1>3 DEF Only
<1>5. PICK a : a = q.answers + more OBVIOUS
<1>6. a \in Nat BY <1>1, <1>5, <1>16
<1>7. p = [g EXCEPT !.answers = a]
  <2>1. p = [q EXCEPT !.err = err, !.answers = a] BY <1>1, <1>5, <1>13 DEF ServerRequest
  <2> QED BY <1>2, <2>1
<1>8. Only(p, g, "answers")
  <2>1. a \in Nat /\ g \in ServerRequest BY <1>4, <1>6
  <2> QED BY <1>7, <2>1, AnswersIs, Zenon
<1>9. /\ p \in ServerRequest /\ p.fw = q.fw /\ p.via = q.via /\ p.propagate = q.propagate
      /\ p.capturer = q.capturer /\ p.traced = q.traced
  BY <1>3, <1>8 DEF Only
<1>10. Fitting(p) BY <1>1, <1>9 DEF Fitting
<1>11. CASE p.traced
  <2>1. PICK r : r = AfterHandler(p) OBVIOUS
  <2>2. AfterReturn(r)
    <3>1. q.traced BY <1>9, <1>11
    <3> QED BY <1>13, <1>16, <2>1, <3>1, ReturnKeeps
  <2>3. r \in ServerRequest BY <2>2 DEF AfterReturn, Fitting
  <2>4. r.capturer = p.capturer
    <3>1. HasCapturer(p) BY <1>9 DEF ServerRequest, HasCapturer
    <3>2. SameCapturer(p, p) /\ \A x : SameCapturer([p EXCEPT !.status = x], p)
      BY <3>1 DEF SameCapturer, HasCapturer
    <3>3. SameCapturer(WriteHeader(p, 200), p) /\ SameCapturer(SendError(p, "handled"), p)
      BY <3>1, HelpersKeepCapturer
    <3>4. SameCapturer(r, p)
      <4>1. PICK y : y = IF p.status = 0 THEN 200 ELSE p.status OBVIOUS
      <4>2. p.via \in {"http", "httprouter", "restful"} => r = [p EXCEPT !.status = y]
        BY <2>1, <4>1 DEF AfterHandler
      <4>3. p.via \notin {"http", "httprouter", "restful"} =>
              r \in {[p EXCEPT !.status = p.err], WriteHeader(p, 200), SendError(p, "handled"), p}
        BY <2>1 DEF AfterHandler
      <4>4. SameCapturer([p EXCEPT !.status = y], p) /\ SameCapturer([p EXCEPT !.status = p.err], p)
        BY <3>2
      <4> QED BY <3>2, <3>3, <4>2, <4>3, <4>4
    <3> QED BY <3>4 DEF SameCapturer, HasCapturer
  <2>5. n = [r EXCEPT !.phase = "deferred"] BY <1>11, <1>14, <2>1
  <2>6. "deferred" \in Phases BY DEF Phases
  <2>7. Only(n, r, "phase") /\ n.phase = "deferred" BY <2>3, <2>5, <2>6, PhaseIs
  <2>8. AfterReturn(n) /\ n.capturer = r.capturer BY <2>2, <2>3, <2>7, PhaseKeeps DEF Only
  <2>9. RequestOK(n) BY <2>7, <2>8 DEF RequestOK, AfterReturn
  <2> QED BY <1>9, <2>4, <2>7, <2>8, <2>9
<1>12. CASE ~p.traced
  <2>1. n = [p EXCEPT !.phase = "finished"] BY <1>12, <1>14
  <2>2. "finished" \in Phases BY DEF Phases
  <2>6. p \in ServerRequest BY <1>9
  <2>8. PICK f : f = [p EXCEPT !.phase = "finished"] OBVIOUS
  <2>9. Only(f, p, "phase") /\ f.phase = "finished" BY <2>2, <2>6, <2>8, PhaseIs
  <2>3. Only(n, p, "phase") /\ n.phase = "finished" BY <2>1, <2>8, <2>9
  <2>7. Fitting(n) BY <1>10, <2>3, <2>6, PhaseKeeps
  <2>4. Fitting(n) /\ n.capturer = p.capturer BY <2>3, <2>7 DEF Only
  <2>5. RequestOK(n) BY <2>3, <2>4, OtherPhase
  <2> QED BY <1>9, <2>3, <2>4, <2>5
<1> QED BY <1>11, <1>12

\* Panic
LEMMA PanicOK ==
    ASSUME NEW q, Handling(q),
           NEW ph, ph = IF q.traced THEN "deferred" ELSE "finished",
           NEW n, n = [q EXCEPT !.panicking = TRUE, !.panicked = TRUE, !.phase = ph]
    PROVE  /\ RequestOK(n) /\ n.capturer = q.capturer
           /\ n.phase \in {"deferred", "finished"}
<1>1. PICK p : p = [q EXCEPT !.panicking = TRUE, !.panicked = TRUE] OBVIOUS
<1>2. p \in ServerRequest /\ Fitting(p) /\ (q.traced => AfterPanic(p)) BY <1>1, PanicKeeps
<1>3. n = [p EXCEPT !.phase = ph] BY <1>1
<1>4. ph \in Phases BY DEF Phases
<1>9. p \in ServerRequest BY <1>2
<1>10. PICK f : f = [p EXCEPT !.phase = ph] OBVIOUS
<1>11. Only(f, p, "phase") /\ f.phase = ph
  <2>1. CASE ph = "deferred"
    <3>1. f = [p EXCEPT !.phase = "deferred"] /\ "deferred" \in Phases BY <1>4, <1>10, <2>1
    <3> QED BY <1>9, <2>1, <3>1, PhaseIs
  <2>2. CASE ph = "finished"
    <3>1. f = [p EXCEPT !.phase = "finished"] /\ "finished" \in Phases BY <1>4, <1>10, <2>2
    <3> QED BY <1>9, <2>2, <3>1, PhaseIs
  <2> QED BY <2>1, <2>2
<1>5. Only(n, p, "phase") /\ n.phase = ph BY <1>3, <1>10, <1>11
<1>6. Fitting(n) /\ (q.traced => AfterPanic(n)) /\ n.capturer = p.capturer
  BY <1>2, <1>5, PhaseKeeps DEF Only
<1>7. p.capturer = q.capturer
  <2>1. q \in ServerRequest BY DEF Handling, Fitting
  <2>2. HasCapturer(q) BY <2>1 DEF ServerRequest, HasCapturer
  <2> QED BY <1>1, <2>2 DEF HasCapturer
<1>8. RequestOK(n) BY <1>5, <1>6 DEF RequestOK
<1> QED BY <1>5, <1>6, <1>7, <1>8

\* RunDeferred
LEMMA DeferredOK ==
    ASSUME NEW q, AfterPanic(q) \/ AfterReturn(q),
           NEW n, n = [Deferred(q) EXCEPT !.phase = "ending"]
    PROVE  RequestOK(n) /\ n.capturer = q.capturer /\ n.via = q.via /\ n.phase = "ending"
<1>1. PICK p : p = Deferred(q) OBVIOUS
<1>2. RequestReported(p) BY <1>1, DeferredReports
<1>3. Fitting(q) BY DEF AfterPanic, AfterReturn
<1>4. q \in ServerRequest /\ q.via \in Via BY <1>3, FittingIs
<1>11. HasCapturer(q) BY <1>4 DEF ServerRequest, HasCapturer
<1>5. p.capturer = q.capturer /\ p.via = q.via BY <1>1, <1>4, <1>11, DeferredKeepsCapturer DEF SameCapturer, HasCapturer
<1>6. p \in ServerRequest BY <1>2 DEF RequestReported, Fitting
<1>7. "ending" \in Phases BY DEF Phases
<1>8. Only(n, p, "phase") /\ n.phase = "ending" BY <1>1, <1>6, <1>7, PhaseIs
<1>9. RequestReported(n) /\ n.capturer = p.capturer /\ n.via = p.via BY <1>2, <1>6, <1>8, PhaseKeeps DEF Only
<1>10. RequestOK(n) BY <1>8, <1>9 DEF RequestOK, RequestReported
<1> QED BY <1>5, <1>8, <1>9, <1>10

\* Finish
LEMMA FinishOK ==
    ASSUME NEW q, RequestReported(q),
           NEW n, n = IF ViaFastHTTP(q)
                      THEN [End(SetTransactionContext([q EXCEPT !.client = Sent(q), !.status = Sent(q)]))
                              EXCEPT !.phase = "done"]
                      ELSE [DeferredEnd(q) EXCEPT !.client = Sent(DeferredEnd(q)), !.phase = "done"]
    PROVE  RequestOK(n) /\ n.phase = "done"
<1>1. PICK z : z = IF ViaFastHTTP(q)
                   THEN End(SetTransactionContext([q EXCEPT !.client = Sent(q), !.status = Sent(q)]))
                   ELSE [DeferredEnd(q) EXCEPT !.client = Sent(DeferredEnd(q))]
  OBVIOUS
<1>2. Done(z)
  <2>1. CASE ViaFastHTTP(q) BY <1>1, <2>1, FastFinishReports
  <2>2. CASE ~ViaFastHTTP(q) BY <1>1, <2>2, FinishReports
  <2> QED BY <2>1, <2>2
<1>3. n = [z EXCEPT !.phase = "done"]
  <2>1. CASE ViaFastHTTP(q) BY <1>1, <2>1
  <2>2. CASE ~ViaFastHTTP(q) BY <1>1, <2>2
  <2> QED BY <2>1, <2>2
<1>4. z \in ServerRequest BY <1>2 DEF Done, Fitting
<1>5. "done" \in Phases BY DEF Phases
<1>6. Only(n, z, "phase") /\ n.phase = "done" BY <1>3, <1>4, <1>5, PhaseIs
<1>7. Done(n) BY <1>2, <1>4, <1>6, PhaseKeeps
<1>8. Fitting(n) BY <1>7 DEF Done
<1> QED BY <1>6, <1>7, <1>8 DEF RequestOK

-----------------------------------------------------------------------------
(* The steps *)

\* The request q has its capturer still: fasthttp's closer has it until the end.
UsesBody(q) ==
    /\ q.capturer # NoBody
    /\ q.phase \in {"handling", "deferred"} \/ (q.phase = "ending" /\ q.via = "fasthttp")

\* Every capturer is in the pool, once, or used by one request.
PoolOK(requests, pool) ==
    /\ pool \in [PooledCapturer -> {0, 1}]
    /\ \A r \in ServerReq : UsesBody(requests[r]) =>
          requests[r].capturer \in PooledCapturer /\ pool[requests[r].capturer] = 0
    /\ \A q, r \in ServerReq :
          UsesBody(requests[q]) /\ UsesBody(requests[r]) /\ requests[q].capturer = requests[r].capturer
             => q = r

RequestsOK(requests) ==
    requests \in [ServerReq -> ServerRequest] /\ \A r \in ServerReq : RequestOK(requests[r])

ServerInv == RequestsOK(srv) /\ PoolOK(srv, bodyPool)

\* One request changes.
LEMMA RequestsStay ==
    ASSUME NEW s, RequestsOK(s), NEW r \in ServerReq, NEW n, RequestOK(n), NEW t, t = [s EXCEPT ![r] = n]
    PROVE  RequestsOK(t)
<1>1. n \in ServerRequest BY DEF RequestOK, Fitting
<1>2. \A q \in ServerReq : t[q] = IF q = r THEN n ELSE s[q] BY DEF RequestsOK
<1>3. t \in [ServerReq -> ServerRequest] BY <1>1 DEF RequestsOK
<1>4. \A q \in ServerReq : RequestOK(t[q]) BY <1>2 DEF RequestsOK
<1> QED BY <1>3, <1>4 DEF RequestsOK

\* It goes on with the capturer it has, or without one.
LEMMA PoolStays ==
    ASSUME NEW s \in [ServerReq -> ServerRequest], NEW pool, PoolOK(s, pool), NEW r \in ServerReq,
           NEW n, UsesBody(n) => UsesBody(s[r]) /\ n.capturer = s[r].capturer,
           NEW t, t = [s EXCEPT ![r] = n]
    PROVE  PoolOK(t, pool)
<1>1. \A q \in ServerReq : t[q] = IF q = r THEN n ELSE s[q] OBVIOUS
<1>2. \A q \in ServerReq : UsesBody(t[q]) => UsesBody(s[q]) /\ t[q].capturer = s[q].capturer BY <1>1
<1> QED BY <1>2 DEF PoolOK

\* It takes a capturer out of the pool.
LEMMA PoolTaken ==
    ASSUME NEW s \in [ServerReq -> ServerRequest], NEW pool, PoolOK(s, pool), NEW r \in ServerReq,
           NEW n, NEW c \in PooledCapturer, pool[c] > 0, n.capturer = c,
           NEW t, t = [s EXCEPT ![r] = n], NEW left, left = [pool EXCEPT ![c] = @ - 1]
    PROVE  PoolOK(t, left)
<1>1. pool \in [PooledCapturer -> {0, 1}] BY DEF PoolOK
<1>2. pool[c] = 1 BY <1>1
<1>3. left = [pool EXCEPT ![c] = 0] BY <1>1, <1>2
<1>4. \A q \in ServerReq : t[q] = IF q = r THEN n ELSE s[q] OBVIOUS
<1>5. \A d \in PooledCapturer : left[d] = IF d = c THEN 0 ELSE pool[d] BY <1>1, <1>3
<1>6. left \in [PooledCapturer -> {0, 1}] BY <1>1, <1>3
<1>7. \A q \in ServerReq : UsesBody(s[q]) =>
         s[q].capturer \in PooledCapturer /\ pool[s[q].capturer] = 0
  BY DEF PoolOK
<1>8. \A q \in ServerReq : UsesBody(s[q]) => s[q].capturer # c BY <1>2, <1>7
<1>9. \A q \in ServerReq : UsesBody(t[q]) =>
         t[q].capturer \in PooledCapturer /\ left[t[q].capturer] = 0
  BY <1>4, <1>5, <1>7
<1>10. \A p, q \in ServerReq :
         UsesBody(t[p]) /\ UsesBody(t[q]) /\ t[p].capturer = t[q].capturer => p = q
  BY <1>4, <1>8 DEF PoolOK
<1> QED BY <1>6, <1>9, <1>10 DEF PoolOK

\* It puts its capturer back.
LEMMA PoolGiven ==
    ASSUME NEW s \in [ServerReq -> ServerRequest], NEW pool, PoolOK(s, pool), NEW r \in ServerReq,
           NEW n, ~UsesBody(n), NEW c, c = s[r].capturer, c # NoBody => UsesBody(s[r]),
           NEW t, t = [s EXCEPT ![r] = n],
           NEW left, left = IF c = NoBody THEN pool ELSE [pool EXCEPT ![c] = @ + 1]
    PROVE  PoolOK(t, left)
<1>1. CASE c = NoBody BY <1>1, PoolStays
<1>2. CASE c # NoBody
  <2>1. UsesBody(s[r]) /\ c \in PooledCapturer /\ pool[c] = 0 /\ pool \in [PooledCapturer -> {0, 1}]
    BY <1>2 DEF PoolOK
  <2>2. left = [pool EXCEPT ![c] = 1] BY <1>2, <2>1
  <2>3. left \in [PooledCapturer -> {0, 1}] BY <2>1, <2>2
  <2>4. \A q \in ServerReq : t[q] = IF q = r THEN n ELSE s[q] OBVIOUS
  <2>5. \A q \in ServerReq : UsesBody(t[q]) => q # r /\ UsesBody(s[q]) /\ t[q] = s[q] BY <2>4
  <2>6. \A q \in ServerReq : UsesBody(t[q]) => t[q].capturer # c BY <2>1, <2>5 DEF PoolOK
  <2>7. \A q \in ServerReq : UsesBody(t[q]) =>
           t[q].capturer \in PooledCapturer /\ pool[t[q].capturer] = 0
    BY <2>5 DEF PoolOK
  <2>8. \A q \in ServerReq : UsesBody(t[q]) =>
           t[q].capturer \in PooledCapturer /\ left[t[q].capturer] = 0
    BY <2>1, <2>2, <2>6, <2>7
  <2>9. \A p, q \in ServerReq :
           UsesBody(t[p]) /\ UsesBody(t[q]) /\ t[p].capturer = t[q].capturer => p = q
    BY <2>5 DEF PoolOK
  <2> QED BY <2>3, <2>8, <2>9 DEF PoolOK
<1> QED BY <1>1, <1>2

\* The invariant holds before the first request,
LEMMA ServerInitial == ServerInit => ServerInv
<1> SUFFICES ASSUME ServerInit PROVE ServerInv OBVIOUS
<1>1. PICK f \in Frameworks : srv = [r \in ServerReq |-> Idle(f)] BY DEF ServerInit
<1>2. RequestOK(Idle(f)) /\ Idle(f).capturer = NoBody BY IdleOK
<1>3. Idle(f) \in ServerRequest BY <1>2 DEF RequestOK, Fitting
<1>4. \A r \in ServerReq : srv[r] = Idle(f) BY <1>1
<1>5. srv \in [ServerReq -> ServerRequest] BY <1>1, <1>3
<1>6. RequestsOK(srv) BY <1>2, <1>4, <1>5 DEF RequestsOK
<1>7. \A r \in ServerReq : ~UsesBody(srv[r]) BY <1>2, <1>4 DEF UsesBody
<1>8. bodyPool \in [PooledCapturer -> {0, 1}] BY DEF ServerInit
<1>9. PoolOK(srv, bodyPool) BY <1>7, <1>8 DEF PoolOK
<1> QED BY <1>6, <1>9 DEF ServerInv

\* A request changes, and keeps its capturer if it has one.
LEMMA OneRequest ==
    ASSUME ServerInv, NEW r \in ServerReq, NEW n, RequestOK(n), srv' = [srv EXCEPT ![r] = n],
           UNCHANGED bodyPool,
           UsesBody(n) => UsesBody(srv[r]) /\ n.capturer = srv[r].capturer
    PROVE  ServerInv'
<1>1. RequestsOK(srv) /\ PoolOK(srv, bodyPool) /\ srv \in [ServerReq -> ServerRequest]
  BY DEF ServerInv, RequestsOK
<1>2. PICK s, pool : s = srv /\ pool = bodyPool OBVIOUS
<1>3. PICK t : t = [s EXCEPT ![r] = n] OBVIOUS
<1>4. RequestsOK(t) BY <1>1, <1>2, <1>3, RequestsStay
<1>5. PoolOK(t, pool) BY <1>1, <1>2, <1>3, PoolStays
<1>6. srv' = t /\ bodyPool' = pool BY <1>2, <1>3
<1> QED BY <1>4, <1>5, <1>6 DEF ServerInv

\* What the invariant says of one request.
LEMMA OneOK ==
    ASSUME ServerInv, NEW r \in ServerReq
    PROVE  /\ RequestOK(srv[r]) /\ srv[r] \in ServerRequest /\ srv[r].fw \in Frameworks
           /\ srv[r].via = Traits[srv[r].fw].via
<1>1. RequestOK(srv[r]) /\ srv[r] \in ServerRequest BY DEF ServerInv, RequestsOK
<1>2. srv[r].fw \in Frameworks BY <1>1 DEF ServerRequest
<1> QED BY <1>1, <1>2 DEF RequestOK, Fitting

\* and every step keeps it.
LEMMA ServerStep ==
    ASSUME ServerInv, [ServerNext]_serverVars, "fiber" \notin CaptureBody
    PROVE  ServerInv'
<1>1. CASE UNCHANGED serverVars
  <2>1. srv' = srv /\ bodyPool' = bodyPool BY <1>1 DEF serverVars
  <2> QED BY <2>1 DEF ServerInv
<1>2. ASSUME NEW r \in ServerReq, Untraced(r) PROVE ServerInv'
  <2>1. srv[r].fw \in Frameworks BY OneOK
  <2>2. PICK n : n = TakeUp(srv[r].fw, "handling", FALSE, FALSE, FALSE, NoBody) OBVIOUS
  <2>3. RequestOK(n) /\ n.capturer = NoBody BY <2>1, <2>2, UntracedOK
  <2>4. srv' = [srv EXCEPT ![r] = n] /\ UNCHANGED bodyPool
    BY <1>2, <2>2 DEF Untraced, ServerInv, RequestsOK
  <2> QED BY <2>3, <2>4, OneRequest DEF UsesBody
<1>3. ASSUME NEW r \in ServerReq, StartTransaction(r) PROVE ServerInv'
  <2>1. srv[r].fw \in Frameworks BY OneOK
  <2>2. PICK sampled \in BOOLEAN, propagate \in Traits[srv[r].fw].propagate :
        \E c \in IF srv[r].fw \in CaptureBody THEN {d \in PooledCapturer : bodyPool[d] > 0} ELSE {NoBody} :
         /\ srv' = [srv EXCEPT ![r] = TakeUp(@.fw, "handling", TRUE, sampled, propagate, c)]
         /\ bodyPool' = IF c = NoBody THEN bodyPool ELSE [bodyPool EXCEPT ![c] = @ - 1]
    BY <1>3 DEF StartTransaction
  <2>3. PICK c : /\ c \in IF srv[r].fw \in CaptureBody THEN {d \in PooledCapturer : bodyPool[d] > 0}
                          ELSE {NoBody}
                 /\ srv' = [srv EXCEPT ![r] = TakeUp(@.fw, "handling", TRUE, sampled, propagate, c)]
                 /\ bodyPool' = IF c = NoBody THEN bodyPool ELSE [bodyPool EXCEPT ![c] = @ - 1]
    BY <2>2
  <2>4. c \in Capturers /\ (srv[r].fw \notin CaptureBody => c = NoBody)
        /\ (c # NoBody => c \in PooledCapturer /\ bodyPool[c] > 0)
    BY <2>3 DEF Capturers
  <2>5. PICK n : n = TakeUp(srv[r].fw, "handling", TRUE, sampled, propagate, c) OBVIOUS
  <2>6. RequestOK(n) /\ n.capturer = c
    <3>1. PICK f, yes : f = srv[r].fw /\ yes = TRUE OBVIOUS
    <3>2. /\ f \in Frameworks /\ propagate \in Traits[f].propagate /\ (f \notin CaptureBody => c = NoBody)
          /\ yes \in BOOLEAN /\ c \in Capturers /\ "handling" \in Phases
      BY <2>1, <2>4, <3>1, Zeros
    <3>3. propagate \in BOOLEAN BY <3>2, TraitsAre
    <3>4. TakenUp(f, "handling", yes, sampled, propagate, c) BY <3>2, <3>3 DEF TakenUp
    <3>5. Becomes(TakeUp(f, "handling", yes, sampled, propagate, c), c) BY <3>1, <3>4, StartOK
    <3>6. n = TakeUp(f, "handling", yes, sampled, propagate, c) BY <2>5, <3>1
    <3> QED BY <3>5, <3>6 DEF Becomes
  <2>7. srv' = [srv EXCEPT ![r] = n] BY <2>3, <2>5 DEF ServerInv, RequestsOK
  <2>8. CASE c = NoBody
    <3>1. UNCHANGED bodyPool BY <2>3, <2>8
    <3> QED BY <2>6, <2>7, <2>8, <3>1, OneRequest DEF UsesBody
  <2>9. CASE c # NoBody
    <3>1. PICK s, pool : s = srv /\ pool = bodyPool OBVIOUS
    <3>2. PICK t, left : t = [s EXCEPT ![r] = n] /\ left = [pool EXCEPT ![c] = @ - 1] OBVIOUS
    <3>3. RequestsOK(s) /\ PoolOK(s, pool) /\ s \in [ServerReq -> ServerRequest]
      BY <3>1 DEF ServerInv, RequestsOK
    <3>4. RequestsOK(t) BY <2>6, <3>2, <3>3, RequestsStay
    <3>5. c \in PooledCapturer /\ pool[c] > 0 BY <2>4, <2>9, <3>1
    <3>6. PoolOK(t, left) BY <2>6, <3>2, <3>3, <3>5, PoolTaken
    <3>7. srv' = t /\ bodyPool' = left BY <2>3, <2>7, <2>9, <3>1, <3>2
    <3> QED BY <3>4, <3>6, <3>7 DEF ServerInv
  <2> QED BY <2>8, <2>9
<1>4. ASSUME NEW r \in ServerReq, ConvertFails(r) PROVE ServerInv'
  <2>1. PICK f : f = srv[r].fw OBVIOUS
  <2>2. f \in Frameworks BY <2>1, OneOK
  <2>3. PICK sampled \in BOOLEAN :
        srv' = [srv EXCEPT ![r] =
            [End(TakeUp(@.fw, "refused", TRUE, sampled, FALSE, NoBody))
                EXCEPT !.status = 500, !.client = 500]]
    BY <1>4 DEF ConvertFails
  <2>4. PICK n : n = Refused(f, sampled) OBVIOUS
  <2>5. Fitting(n) /\ n.phase = "refused" /\ n.capturer = NoBody BY <2>2, <2>4, RefusedFits
  <2>6. RequestOK(n) BY <2>5, OtherPhase
  <2>7. srv' = [srv EXCEPT ![r] = n] BY <2>1, <2>3, <2>4 DEF Refused, ServerInv, RequestsOK
  <2>8. UNCHANGED bodyPool BY <1>4 DEF ConvertFails
  <2> QED BY <2>5, <2>6, <2>7, <2>8, OneRequest DEF UsesBody
<1>5. ASSUME NEW r \in ServerReq, NEW code, code = 200 \/ code = 404, Answer(r, code) PROVE ServerInv'
  <2>1. PICK q : q = srv[r] OBVIOUS
  <2>2. RequestOK(q) BY <2>1, OneOK
  <2>3. q.phase = "handling" /\ q.via \notin {"grpc", "lambda"} BY <1>5, <2>1 DEF Answer
  <2>4. Handling(q) BY <2>2, <2>3 DEF RequestOK
  <2>5. code \in Codes /\ code # 0 BY <1>5 DEF Codes
  <2>6. PICK n : n = [WriteHeader(q, code) EXCEPT !.answers = @ + 1] OBVIOUS
  <2>7. RequestOK(n) /\ n.capturer = q.capturer BY <2>3, <2>4, <2>5, <2>6, AnswerOK
  <2>8. srv' = [srv EXCEPT ![r] = n] 
    <3>1. srv' = [srv EXCEPT ![r] = [WriteHeader(srv[r], code) EXCEPT !.answers = @ + 1]]
      BY <1>5 DEF Answer
    <3> QED BY <2>1, <2>6, <3>1
  <2>9. UNCHANGED bodyPool BY <1>5 DEF Answer
  <2>10. UsesBody(n) => UsesBody(q) BY <2>3, <2>7 DEF UsesBody
  <2> QED BY <2>1, <2>7, <2>8, <2>9, <2>10, OneRequest
<1>6. ASSUME NEW r \in ServerReq, NEW err \in {0, 404, 500}, Return(r, err) PROVE ServerInv'
  <2>1. PICK q : q = srv[r] OBVIOUS
  <2>2. RequestOK(q) BY <2>1, OneOK
  <2>3. q.phase = "handling" /\ (err # 0 => Traits[q.fw].errors \/ q.via = "gin")
    BY <1>6, <2>1 DEF Return
  <2>4. Handling(q) BY <2>2, <2>3 DEF RequestOK
  <2>5. PICK more : more = IF err # 0 /\ q.via # "gin" THEN 1 ELSE 0 OBVIOUS
  <2>6. MayReturn(q, err, more) BY <2>3, <2>5 DEF MayReturn, GivenErr
  <2>7. PICK n : n = Returned(Returning(q, err, more)) OBVIOUS
  <2>8. Becomes(n, q.capturer) BY <2>4, <2>6, <2>7, ReturnOK
  <2>10. RequestOK(n) /\ n.capturer = q.capturer BY <2>8 DEF Becomes
  <2>11. srv' = [srv EXCEPT ![r] = n]
    BY <1>6, <2>1, <2>5, <2>7 DEF Return, Returning, Returned, ServerInv, RequestsOK
  <2>12. UNCHANGED bodyPool BY <1>6 DEF Return
  <2>13. UsesBody(n) => UsesBody(q) BY <2>3, <2>10 DEF UsesBody
  <2> QED BY <2>1, <2>10, <2>11, <2>12, <2>13, OneRequest
<1>7. ASSUME NEW r \in ServerReq, Panic(r) PROVE ServerInv'
  <2>1. PICK q : q = srv[r] OBVIOUS
  <2>2. RequestOK(q) BY <2>1, OneOK
  <2>3. q.phase = "handling" BY <1>7, <2>1 DEF Panic
  <2>4. Handling(q) BY <2>2, <2>3 DEF RequestOK
  <2>5. PICK ph : ph = IF q.traced THEN "deferred" ELSE "finished" OBVIOUS
  <2>6. PICK n : n = [q EXCEPT !.panicking = TRUE, !.panicked = TRUE, !.phase = ph] OBVIOUS
  <2>7. RequestOK(n) /\ n.capturer = q.capturer BY <2>4, <2>5, <2>6, PanicOK
  <2>8. srv' = [srv EXCEPT ![r] = n]
    <3>1. srv \in [ServerReq -> ServerRequest] BY DEF ServerInv, RequestsOK
    <3>2. srv' = [srv EXCEPT ![r].panicking = TRUE, ![r].panicked = TRUE, ![r].phase = ph]
      BY <1>7, <2>1, <2>5 DEF Panic
    <3> QED BY <2>1, <2>6, <3>1, <3>2
  <2>9. UNCHANGED bodyPool BY <1>7 DEF Panic
  <2>10. UsesBody(n) => UsesBody(q) BY <2>3, <2>7 DEF UsesBody
  <2> QED BY <2>1, <2>7, <2>8, <2>9, <2>10, OneRequest
<1>8. ASSUME NEW r \in ServerReq, RunDeferred(r) PROVE ServerInv'
  <2>1. PICK q : q = srv[r] OBVIOUS
  <2>2. RequestOK(q) BY <2>1, OneOK
  <2>3. q.phase = "deferred" BY <1>8, <2>1 DEF RunDeferred
  <2>4. AfterPanic(q) \/ AfterReturn(q) BY <2>2, <2>3 DEF RequestOK
  <2>5. PICK n : n = [Deferred(q) EXCEPT !.phase = "ending"] OBVIOUS
  <2>6. RequestOK(n) /\ n.capturer = q.capturer /\ n.via = q.via /\ n.phase = "ending"
    BY <2>4, <2>5, DeferredOK
  <2>7. srv' = [srv EXCEPT ![r] = n] BY <1>8, <2>1, <2>5 DEF RunDeferred, ServerInv, RequestsOK
  <2>8. CASE q.via = "fasthttp"
    <3>1. UNCHANGED bodyPool BY <1>8, <2>1, <2>8 DEF RunDeferred
    <3>2. UsesBody(n) => UsesBody(q) BY <2>3, <2>6 DEF UsesBody
    <3> QED BY <2>1, <2>6, <2>7, <3>1, <3>2, OneRequest
  <2>9. CASE q.via # "fasthttp"
    <3>1. PICK s, pool, c : s = srv /\ pool = bodyPool /\ c = q.capturer OBVIOUS
    <3>2. PICK t, left : /\ t = [s EXCEPT ![r] = n]
                         /\ left = IF c = NoBody THEN pool ELSE [pool EXCEPT ![c] = @ + 1]
      OBVIOUS
    <3>3. RequestsOK(s) /\ PoolOK(s, pool) /\ s \in [ServerReq -> ServerRequest]
      BY <3>1 DEF ServerInv, RequestsOK
    <3>4. RequestsOK(t) BY <2>6, <3>2, <3>3, RequestsStay
    <3>5. ~UsesBody(n) BY <2>6, <2>9 DEF UsesBody
    <3>6. c = s[r].capturer /\ (c # NoBody => UsesBody(s[r])) BY <2>1, <2>3, <3>1 DEF UsesBody
    <3>7. PoolOK(t, left) BY <3>2, <3>3, <3>5, <3>6, PoolGiven
    <3>8. srv' = t /\ bodyPool' = left
      BY <1>8, <2>1, <2>7, <2>9, <3>1, <3>2 DEF RunDeferred, DiscardBody
    <3> QED BY <3>4, <3>7, <3>8 DEF ServerInv
  <2> QED BY <2>8, <2>9
<1>9. ASSUME NEW r \in ServerReq, Finish(r) PROVE ServerInv'
  <2>1. PICK q : q = srv[r] OBVIOUS
  <2>2. RequestOK(q) BY <2>1, OneOK
  <2>3. q.phase = "ending" BY <1>9, <2>1 DEF Finish
  <2>4. RequestReported(q) BY <2>2, <2>3 DEF RequestOK
  <2>5. PICK n : n = IF ViaFastHTTP(q)
                     THEN [End(SetTransactionContext([q EXCEPT !.client = Sent(q), !.status = Sent(q)]))
                             EXCEPT !.phase = "done"]
                     ELSE [DeferredEnd(q) EXCEPT !.client = Sent(DeferredEnd(q)), !.phase = "done"]
    OBVIOUS
  <2>6. RequestOK(n) /\ n.phase = "done" BY <2>4, <2>5, FinishOK
  <2>7. srv' = [srv EXCEPT ![r] = n] BY <1>9, <2>1, <2>5 DEF Finish, ServerInv, RequestsOK
  <2>8. ~UsesBody(n) BY <2>6 DEF UsesBody
  <2>9. CASE ~ViaFastHTTP(q)
    <3>1. UNCHANGED bodyPool BY <1>9, <2>1, <2>9 DEF Finish
    <3> QED BY <2>6, <2>7, <2>8, <3>1, OneRequest
  <2>10. CASE ViaFastHTTP(q)
    <3>1. PICK s, pool, c : s = srv /\ pool = bodyPool /\ c = q.capturer OBVIOUS
    <3>2. PICK t, left : /\ t = [s EXCEPT ![r] = n]
                         /\ left = IF c = NoBody THEN pool ELSE [pool EXCEPT ![c] = @ + 1]
      OBVIOUS
    <3>3. RequestsOK(s) /\ PoolOK(s, pool) /\ s \in [ServerReq -> ServerRequest]
      BY <3>1 DEF ServerInv, RequestsOK
    <3>4. RequestsOK(t) BY <2>6, <3>2, <3>3, RequestsStay
    <3>5. c # NoBody => q.via = "fasthttp"
      <4>1. q.fw \in Frameworks /\ q.via = Traits[q.fw].via BY <2>1, OneOK
      <4>2. q.via = "fiber" => q.fw = "fiber" BY <4>1, TraitsAre
      <4>3. q.fw \notin CaptureBody => q.capturer = NoBody BY <2>4 DEF RequestReported, Fitting
      <4> QED BY <2>10, <3>1, <4>2, <4>3 DEF ViaFastHTTP
    <3>6. c = s[r].capturer /\ (c # NoBody => UsesBody(s[r])) BY <2>1, <2>3, <3>1, <3>5 DEF UsesBody
    <3>7. PoolOK(t, left) BY <2>8, <3>2, <3>3, <3>6, PoolGiven
    <3>8. srv' = t /\ bodyPool' = left
      BY <1>9, <2>1, <2>7, <2>10, <3>1, <3>2 DEF Finish, DiscardBody
    <3> QED BY <3>4, <3>7, <3>8 DEF ServerInv
  <2> QED BY <2>9, <2>10
<1>10. CASE ServerNext
  <2>1. PICK r \in ServerReq :
          \/ Untraced(r) \/ StartTransaction(r) \/ ConvertFails(r)
          \/ \E code \in {200, 404} : Answer(r, code)
          \/ \E err \in {0, 404, 500} : Return(r, err)
          \/ Panic(r) \/ RunDeferred(r) \/ Finish(r)
    BY <1>10 DEF ServerNext
  <2>2. ASSUME \E code \in {200, 404} : Answer(r, code) PROVE ServerInv'
    <3>1. PICK code : (code = 200 \/ code = 404) /\ Answer(r, code) BY <2>2
    <3> QED BY <1>5, <3>1
  <2>3. ASSUME \E err \in {0, 404, 500} : Return(r, err) PROVE ServerInv'
    <3>1. PICK err : err \in {0, 404, 500} /\ Return(r, err) BY <2>3
    <3> QED BY <1>6, <3>1
  <2> QED BY <1>2, <1>3, <1>4, <1>7, <1>8, <1>9, <2>1, <2>2, <2>3
<1> QED BY <1>1, <1>10

\* The reports of a request, as RequestsReported counts them.
LEMMA ReportsAre ==
    ASSUME NEW e, NEW b,
           e \in IF b THEN {<<"recovered">>, <<"recovered", "handled">>} ELSE {<<>>, <<"handled">>}
    PROVE  {i \in DOMAIN e : e[i] = "recovered"} = (IF b THEN {1} ELSE {})
<1>1. CASE e = <<"recovered">> /\ b BY <1>1
<1>2. CASE e = <<"recovered", "handled">> /\ b BY <1>2
<1>3. CASE e = <<>> /\ ~b BY <1>3
<1>4. CASE e = <<"handled">> /\ ~b BY <1>4
<1> QED BY <1>1, <1>2, <1>3, <1>4

\* What the invariant promises.
LEMMA ServersReport == ServerInv => RequestsReported
<1> SUFFICES ASSUME ServerInv PROVE RequestsReported OBVIOUS
<1>1. PanicsReported
  <2> SUFFICES ASSUME NEW r \in ServerReq, srv[r].phase = "done"
               PROVE  /\ srv[r].ended = 1
                      /\ {i \in DOMAIN srv[r].errors : srv[r].errors[i] = "recovered"}
                           = (IF srv[r].panicked THEN {1} ELSE {})
                      /\ srv[r].panicking = (srv[r].panicked /\ srv[r].propagate)
    BY DEF PanicsReported
  <2>1. PICK q : q = srv[r] OBVIOUS
  <2>2. Done(q) BY <2>1, OneOK DEF RequestOK
  <2>3. q.ended = 1 BY <2>2 DEF Done
  <2>4. q.errors \in IF q.panicked THEN {<<"recovered">>, <<"recovered", "handled">>}
                     ELSE {<<>>, <<"handled">>}
    BY <2>2 DEF Done
  <2>5. {i \in DOMAIN q.errors : q.errors[i] = "recovered"} = (IF q.panicked THEN {1} ELSE {})
    BY <2>4, ReportsAre
  <2>6. q.panicking = (q.panicked /\ q.propagate)
    <3>1. q.panicking <=> q.panicked /\ q.propagate BY <2>2 DEF Done
    <3>2. q.panicking \in BOOLEAN BY <2>2 DEF Done, Fitting, ServerRequest
    <3> QED BY <3>1, <3>2
  <2> QED BY <2>1, <2>3, <2>5, <2>6
<1>2. StatusReported
  <2> SUFFICES ASSUME NEW r \in ServerReq, srv[r].phase = "done", srv[r].answers < 2,
                      ~srv[r].panicking, srv[r].via \notin {"grpc", "lambda"}
               PROVE  srv[r].result = srv[r].client
    BY DEF StatusReported
  <2>1. Done(srv[r]) BY OneOK DEF RequestOK
  <2> QED BY <2>1 DEF Done
<1>3. PanicIsFailure
  <2> SUFFICES ASSUME NEW r \in ServerReq, srv[r].phase = "done", srv[r].panicked, srv[r].answers = 0
               PROVE  \/ srv[r].outcome = "failure"
                      \/ srv[r].via = "gin" /\ srv[r].propagate /\ srv[r].sampled
    BY DEF PanicIsFailure
  <2>1. Done(srv[r]) BY OneOK DEF RequestOK
  <2> QED BY <2>1 DEF Done
<1>4. BodiesSeparate
  <2>1. PoolOK(srv, bodyPool) BY DEF ServerInv
  <2> QED BY <2>1 DEF BodiesSeparate, PoolOK, UsesBody
<1> QED BY <1>1, <1>2, <1>3, <1>4 DEF RequestsReported

\* Every traced request ends with its panics and errors reported, the status that
\* the client was sent and the outcome of a failure if its handler panicked, and no
\* two requests that are being handled share a body capturer, whatever the
\* frameworks; but fiber's body must not be captured: its middleware discards the
\* capturer twice.
THEOREM RequestsAreReported == ServerSpec /\ "fiber" \notin CaptureBody => []RequestsReported
<1> SUFFICES ASSUME "fiber" \notin CaptureBody PROVE ServerSpec => []RequestsReported
  OBVIOUS
<1>1. ServerInit => ServerInv BY ServerInitial
<1>2. ASSUME ServerInv, [ServerNext]_serverVars PROVE ServerInv'
  BY <1>2, ServerStep
<1>3. ServerInv => RequestsReported BY ServersReport
<1> QED BY <1>1, <1>2, <1>3, PTL DEF ServerSpec

=============================================================================
