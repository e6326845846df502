----------------------------- MODULE TracerLoop -----------------------------
(***************************************************************************)
(* The tracer's background goroutine (Tracer.loop in tracer.go) with the   *)
(* goroutines it talks to: the application ending transactions, spans and  *)
(* errors; callers of Flush, SendMetrics, Close and the Set* methods; the  *)
(* sender goroutine and the transport that reads the request stream; the   *)
(* metrics-gathering and version-refreshing goroutines.                    *)
(*                                                                         *)
(* A turn of the loop is one select case followed by the code below the    *)
(* select.  pc is where the loop stands: "select", "drain" (the loop in    *)
(* the forceFlush case), "notify" (about to send on `flushed`), "bottom",  *)
(* "fill" and "finish" (the code below the select), "exit" (running the    *)
(* deferred functions) and "done" (t.closed is closed).                    *)
(*                                                                         *)
(* The compressed request stream is the sequence `body` of the items       *)
(* written to the zlib writer; its first `emitted` items have come out of  *)
(* the compressor into requestBuf and the first requestBytesRead of those  *)
(* have been read by the transport.  Sizes count such items.               *)
(***************************************************************************)
EXTENDS Integers, Sequences, FiniteSets

CONSTANTS
    Event,              \* the events the application ends, each once
    Kind,               \* Kind[e]: "transaction", "span" or "error"
    Size,               \* Size[e]: bytes of e in the buffer, header included
    Unsampled,          \* the transactions that are not sampled
    EventChannelCap,    \* tracerEventChannelCap
    BufferSize,         \* Tracer.bufferSize
    MetricsBufferSize,  \* Tracer.metricsBufferSize, in metricsets
    RequestSize,        \* tracerConfig.requestSize, in items
    RequestExpires,     \* whether requestDuration may pass before a result
    ServerVersion,      \* the server's major version; 0: no version getter
    Interval,           \* values of tracerConfig.metricsInterval
    Flusher,            \* calls of Flush
    MetricsCaller,      \* calls of SendMetrics
    Closer,             \* calls of Close
    Abortable,          \* the Flush and SendMetrics calls given an abort channel
    MaxCommands,        \* bound: Set* calls that reach the loop
    MaxGathers,         \* bound: metrics gatherings
    MaxMetricsets,      \* bound: metricsets of one gathering
    None                \* a nil channel or an empty req

Kinds == {"transaction", "span", "error"}
Tags == Kinds \cup {"metricset"}
Caller == Flusher \cup MetricsCaller \cup Closer

ASSUME TracerLoopAssumption ==
    /\ Kind \in [Event -> Kinds]
    /\ Size \in [Event -> Nat \ {0}]
    /\ IsFiniteSet(Event)
    /\ EventChannelCap \in Nat \ {0}
    /\ BufferSize \in Nat /\ MetricsBufferSize \in Nat
    /\ RequestSize \in Nat
    /\ RequestExpires \in BOOLEAN
    /\ ServerVersion \in Nat
    /\ Interval \subseteq Nat
    /\ MaxCommands \in Nat /\ MaxGathers \in Nat /\ MaxMetricsets \in Nat
    /\ None \notin Caller
    /\ Flusher \cap MetricsCaller = {}
    /\ None \notin {0, 1}
    /\ {"header", "metadata", "metricset", "trailer"} \cap Event = {}

VARIABLES
    \* Tracer
    events, tstats, closing, majorServerVersion,
    \* where the loop stands, and its per-turn and per-call variables
    pc, draining, flushed, sentMetrics, gatherMetrics,
    \* buffers and the loop's own statistics
    buffer, metricsBuffer, stats,
    \* the request being streamed
    requestActive, closeRequest, flushRequest, zlibFlushed, zlibClosed,
    body, emitted, requestBytesRead, requestBufCount,
    requestTimer, requestTimerActive, gracePeriod,
    \* the iochan.Reader and the read request the loop holds
    iochanReader, req, reading,
    \* the sender goroutine and its result channel
    sender, requestResult,
    \* metrics
    recording, metricsInterval, metricsTimer, metricsTimerStart,
    gatheringMetrics, gatherer, refresher,
    \* callers: progress of each call, and the channels holding a token
    call, token,
    \* bounds, and history: where each event is, what each Flush waits for
    commands, gathers, at, owed

tracerVars == <<events, tstats, closing, majorServerVersion>>
turnVars == <<draining, flushed, sentMetrics, gatherMetrics>>
bufferVars == <<buffer, metricsBuffer, stats>>
requestVars == <<requestActive, closeRequest, flushRequest, gracePeriod>>
zlibVars == <<zlibFlushed, zlibClosed, body, emitted, requestBytesRead, requestBufCount>>
requestTimerVars == <<requestTimer, requestTimerActive>>
streamVars == <<requestVars, zlibVars, requestTimerVars>>
readerVars == <<iochanReader, req, reading>>
senderVars == <<sender, requestResult>>
configVars == <<recording, metricsInterval>>
metricsTimerVars == <<metricsTimer, metricsTimerStart>>
gatherVars == <<gatheringMetrics, gatherer>>
metricsVars == <<configVars, metricsTimerVars, gatherVars, refresher>>
callVars == <<call, token>>
boundVars == <<commands, gathers>>
historyVars == <<at, owed>>
vars == <<tracerVars, pc, turnVars, bufferVars, streamVars, readerVars, senderVars,
          metricsVars, callVars, boundVars, historyVars>>

BQ == INSTANCE BlockQueue WITH Block <- Event, Bytes <- Size, Cap <- BufferSize,
                               queue <- buffer, out <- <<>>

-----------------------------------------------------------------------------
(* Events and statistics *)

NoStats == [sent |-> [k \in Kinds |-> 0], dropped |-> [k \in Kinds |-> 0], errors |-> 0]

\* Mutant: the counts of dropped events are forgotten.
AccumulateSentOnly(s, t) ==
    [s EXCEPT !.sent = [k \in Kinds |-> @[k] + t.sent[k]], !.errors = @ + t.errors]

\* TracerStats.accumulate
Accumulate(s, t) ==
    [sent |-> [k \in Kinds |-> s.sent[k] + t.sent[k]],
     dropped |-> [k \in Kinds |-> s.dropped[k] + t.dropped[k]],
     errors |-> s.errors + t.errors]

\* Mutant: an event dropped at the full channel is not counted.
EnqueueUncounted(e) ==
    /\ at[e] = "app"
    /\ IF Len(events) < EventChannelCap
       THEN events' = Append(events, e) /\ at' = [at EXCEPT ![e] = "channel"]
       ELSE at' = [at EXCEPT ![e] = "dropped"] /\ UNCHANGED events
    /\ UNCHANGED <<tstats, closing, majorServerVersion, pc, turnVars, bufferVars, streamVars,
                   readerVars, senderVars, metricsVars, callVars, boundVars, owed>>

\* Transaction.enqueue, Span.enqueue and ErrorData.enqueue: never block, but
\* drop the event and count it when the channel is full.
Enqueue(e) ==
    /\ at[e] = "app"
    /\ IF Len(events) < EventChannelCap
       THEN /\ events' = Append(events, e)
            /\ at' = [at EXCEPT ![e] = "channel"]
            /\ UNCHANGED tstats
       ELSE /\ tstats' = [tstats EXCEPT !.dropped[Kind[e]] = @ + 1]
            /\ at' = [at EXCEPT ![e] = "dropped"]
            /\ UNCHANGED events
    /\ UNCHANGED <<closing, majorServerVersion, pc, turnVars, bufferVars, streamVars,
                   readerVars, senderVars, metricsVars, callVars, boundVars, owed>>

\* modelWriter.writeTransaction, writeSpan and writeError, all ending in
\* buffer.WriteBlock.  Evicted events are counted as dropped; the error that
\* WriteBlock returns for an event larger than the buffer is ignored.
WriteEvent(e) ==
    IF BQ!TooLarge(e)
    THEN /\ at' = [at EXCEPT ![e] = "toolarge"]
         /\ UNCHANGED <<buffer, stats>>
    ELSE \E k \in 0..Len(buffer) :
             /\ BQ!Evicts(buffer, e, k)
             /\ buffer' = Append(BQ!Without(buffer, k), e)
             /\ stats' = [stats EXCEPT !.dropped =
                    [x \in Kinds |-> @[x] + Cardinality({i \in 1..k : Kind[buffer[i]] = x})]]
             /\ at' = [x \in Event |->
                    IF x = e THEN "buffer"
                    ELSE IF \E i \in 1..k : buffer[i] = x THEN "dropped"
                    ELSE at[x]]

\* Tracer.maybeDropTransaction
MaybeDropTransaction(e) ==
    Kind[e] = "transaction" /\ e \in Unsampled /\ majorServerVersion >= 8

\* The event switch, common to the events and the forceFlush cases.
HandleEvent(e) ==
    IF MaybeDropTransaction(e)
    THEN /\ at' = [at EXCEPT ![e] = "discarded"]
         /\ UNCHANGED <<buffer, stats>>
    ELSE WriteEvent(e)

-----------------------------------------------------------------------------
(* The select cases of the loop *)

\* Mutant: the reader is left open, so the transport goes on waiting for it.
CaseClosingLeavesReader ==
    /\ pc = "select"
    /\ closing
    /\ pc' = "exit"
    /\ UNCHANGED <<tracerVars, turnVars, bufferVars, streamVars, readerVars, senderVars,
                   metricsVars, callVars, boundVars, historyVars>>

\* case <-t.closing: the context is cancelled, the reader closed, and the
\* deferred functions run.
CaseClosing ==
    /\ pc = "select"
    /\ closing
    /\ pc' = "exit"
    /\ reading' = "closed"
    /\ UNCHANGED <<tracerVars, turnVars, bufferVars, streamVars, iochanReader, req,
                   senderVars, metricsVars, callVars, boundVars, historyVars>>

\* `if !timer.Stop() { <-timer.C }`: goes on at once if the timer was running
\* (fired but not yet received included) and blocks for ever if it was not.
StopTimer(running) == running

\* Mutant: the timer is touched even while metrics are being gathered.
IntervalChangedAnyTime(old, new) == new # old

\* Whether a command makes handleTracerConfigCommand touch the metrics timer.
IntervalChanged(old, new) == ~gatheringMetrics /\ new # old

\* handleTracerConfigCommand for a command that leaves r as cfg.recording and
\* i as cfg.metricsInterval: it starts, stops or resets the metrics timer.
HandleConfigCommand(r, i) ==
    LET old == IF recording THEN metricsInterval ELSE 0
        new == IF r THEN i ELSE 0
    IN  /\ recording' = r
        /\ metricsInterval' = i
        /\ IF IntervalChanged(old, new)
           THEN \/ ~metricsTimerStart /\ new = 0 /\ UNCHANGED metricsTimerVars
                \/ /\ ~metricsTimerStart /\ new > 0
                   /\ metricsTimer' = TRUE /\ metricsTimerStart' = TRUE
                \/ /\ metricsTimerStart /\ new = 0
                   /\ StopTimer(metricsTimer)
                   /\ metricsTimer' = FALSE /\ metricsTimerStart' = FALSE
                \/ /\ metricsTimerStart /\ new > 0
                   /\ metricsTimer' = TRUE /\ UNCHANGED metricsTimerStart
           ELSE UNCHANGED metricsTimerVars

\* case cmd := <-t.configCommands: SetRecording, SetMetricsInterval, or a
\* command for a setting that is not modelled.
CaseConfigCommand ==
    /\ pc = "select"
    /\ commands < MaxCommands
    /\ commands' = commands + 1
    /\ \/ \E r \in BOOLEAN : HandleConfigCommand(r, metricsInterval)
       \/ \E i \in Interval : HandleConfigCommand(recording, i)
    /\ UNCHANGED <<tracerVars, pc, turnVars, bufferVars, streamVars, readerVars,
                   senderVars, gatherVars, refresher, callVars, gathers, historyVars>>

\* case <-refreshVersionTicker.C: refresh the server's version if unknown.
\* Ticks that find it cached, or a refresh under way, change nothing and are
\* left out.
CaseRefreshVersion ==
    /\ pc = "select"
    /\ ServerVersion > 0 /\ majorServerVersion = 0
    /\ refresher = "none"
    /\ refresher' = "running"
    /\ pc' = "bottom"
    /\ UNCHANGED <<tracerVars, turnVars, bufferVars, streamVars, readerVars, senderVars,
                   configVars, metricsTimerVars, gatherVars, callVars, boundVars,
                   historyVars>>

\* case event := <-t.events
CaseEvent ==
    /\ pc = "select"
    /\ events # <<>>
    /\ HandleEvent(Head(events))
    /\ events' = Tail(events)
    /\ flushRequest' = (flushRequest \/ Kind[Head(events)] = "error")
    /\ pc' = "bottom"
    /\ UNCHANGED <<tstats, closing, majorServerVersion, turnVars, metricsBuffer,
                   requestActive, closeRequest, zlibVars, requestTimerVars, gracePeriod,
                   readerVars, senderVars, metricsVars, callVars, boundVars, owed>>

\* Mutant: requestTimerActive is left set when the timer has fired.
CaseRequestTimerKeepsActive ==
    /\ pc = "select"
    /\ requestTimer /\ RequestExpires
    /\ requestTimer' = FALSE
    /\ closeRequest' = TRUE
    /\ pc' = "bottom"
    /\ UNCHANGED <<tracerVars, turnVars, bufferVars, requestActive, flushRequest, zlibVars,
                   requestTimerActive, gracePeriod, readerVars, senderVars, metricsVars,
                   callVars, boundVars, historyVars>>

\* case <-requestTimer.C
CaseRequestTimer ==
    /\ pc = "select"
    /\ requestTimer /\ RequestExpires
    /\ requestTimer' = FALSE
    /\ requestTimerActive' = FALSE
    /\ closeRequest' = TRUE
    /\ pc' = "bottom"
    /\ UNCHANGED <<tracerVars, turnVars, bufferVars, requestActive, flushRequest, zlibVars,
                   gracePeriod, readerVars, senderVars, metricsVars, callVars, boundVars,
                   historyVars>>

\* case <-metricsTimer.C
CaseMetricsTimer ==
    /\ pc = "select"
    /\ metricsTimer
    /\ gathers < MaxGathers
    /\ metricsTimer' = FALSE
    /\ metricsTimerStart' = FALSE
    /\ gatherMetrics' = ~gatheringMetrics
    /\ pc' = "bottom"
    /\ UNCHANGED <<tracerVars, draining, flushed, sentMetrics, bufferVars, streamVars,
                   readerVars, senderVars, configVars, gatherVars, refresher, callVars,
                   boundVars, historyVars>>

\* case sentMetrics = <-t.forceSendMetrics, with the call m that sends on it.
CaseForceSendMetrics(m) ==
    /\ pc = "select"
    /\ call[m] = "calling"
    /\ gathers < MaxGathers
    /\ call' = [call EXCEPT ![m] = "waiting"]
    /\ sentMetrics' = m
    /\ IF recording
       THEN /\ metricsTimerStart => StopTimer(metricsTimer)
            /\ metricsTimer' = IF metricsTimerStart THEN FALSE ELSE metricsTimer
            /\ metricsTimerStart' = FALSE
            /\ gatherMetrics' = ~gatheringMetrics
       ELSE UNCHANGED <<metricsTimer, metricsTimerStart, gatherMetrics>>
    /\ pc' = "bottom"
    /\ UNCHANGED <<tracerVars, draining, flushed, bufferVars, streamVars, readerVars,
                   senderVars, configVars, gatherVars, refresher, token, boundVars,
                   historyVars>>

\* case <-gatheredMetrics: n metricsets are written to the metrics buffer,
\* whose oldest blocks make room, uncounted; the timer is started again.
CaseGatheredMetrics ==
    /\ pc = "select"
    /\ gatherer = "done"
    /\ gatherer' = "none"
    /\ \E n \in 0..MaxMetricsets :
           metricsBuffer' = IF metricsBuffer + n > MetricsBufferSize
                            THEN MetricsBufferSize ELSE metricsBuffer + n
    /\ gatheringMetrics' = FALSE
    /\ flushRequest' = TRUE
    /\ IF recording /\ metricsInterval > 0
       THEN metricsTimerStart' = TRUE /\ metricsTimer' = TRUE
       ELSE UNCHANGED <<metricsTimerStart, metricsTimer>>
    /\ pc' = "bottom"
    /\ UNCHANGED <<tracerVars, turnVars, buffer, stats, requestActive, closeRequest,
                   zlibVars, requestTimerVars, gracePeriod, readerVars, senderVars,
                   configVars, refresher, callVars, boundVars, historyVars>>

\* case flushed = <-t.forceFlush, with the call f that sends on it.  The
\* events in the channel at this moment are then drained, one by one.
CaseForceFlush(f) ==
    /\ pc = "select"
    /\ call[f] = "calling"
    /\ call' = [call EXCEPT ![f] = "waiting"]
    /\ flushed' = f
    /\ draining' = Len(events)
    /\ pc' = "drain"
    /\ UNCHANGED <<tracerVars, sentMetrics, gatherMetrics, bufferVars, streamVars,
                   readerVars, senderVars, metricsVars, token, boundVars, historyVars>>

Drain ==
    /\ pc = "drain"
    /\ draining > 0 /\ events # <<>>
    /\ HandleEvent(Head(events))
    /\ events' = Tail(events)
    /\ draining' = draining - 1
    /\ UNCHANGED <<tstats, closing, majorServerVersion, pc, flushed, sentMetrics,
                   gatherMetrics, metricsBuffer, streamVars, readerVars, senderVars,
                   metricsVars, callVars, boundVars, owed>>

\* Mutants: the test with a negation lost, and without the events' buffer.
NothingToSendActive == requestActive /\ buffer = <<>> /\ metricsBuffer = 0
NothingToSendBuffered == ~requestActive /\ metricsBuffer = 0

NothingToSend == ~requestActive /\ buffer = <<>> /\ metricsBuffer = 0

\* Nothing to send: the caller is told at once.  Otherwise the request is to
\* be closed, and the caller is told when its result arrives.
Drained ==
    /\ pc = "drain"
    /\ draining = 0
    /\ IF NothingToSend
       THEN /\ token' = token \cup {flushed}
            /\ pc' = "select"
            /\ UNCHANGED closeRequest
       ELSE /\ closeRequest' = TRUE
            /\ pc' = "bottom"
            /\ UNCHANGED token
    /\ UNCHANGED <<tracerVars, turnVars, bufferVars, requestActive, flushRequest, zlibVars,
                   requestTimerVars, gracePeriod, readerVars, senderVars, metricsVars,
                   call, boundVars, historyVars>>

\* case req = <-iochanReader.C
CaseReadRequest ==
    /\ pc = "select"
    /\ reading = "idle"
    /\ reading' = "await"
    /\ req' = iochanReader
    /\ pc' = "bottom"
    /\ UNCHANGED <<tracerVars, turnVars, bufferVars, streamVars, iochanReader, senderVars,
                   metricsVars, callVars, boundVars, historyVars>>

\* Mutant: the square is forgotten.
NextGracePeriodLinear(p) == p + 1

\* Tracer grace periods (nextGracePeriod in utils.go), in seconds:
\* -1, 0, 1, 4, 9, 16, 25, 36, 36, ...
NextGracePeriod(p) ==
    IF p = -1 THEN 0
    ELSE IF p \in {i * i : i \in 0..5}
    THEN CHOOSE n \in {i * i : i \in 1..6} : \E i \in 0..5 : p = i * i /\ n = (i + 1) * (i + 1)
    ELSE p

\* Mutant: any request counts as having carried the metrics.
TellsMetricsAlways == sentMetrics # None

\* A SendMetrics call waits, and the request held some metricset.
TellsMetrics == sentMetrics # None /\ requestBufCount["metricset"] > 0

\* case err := <-requestResult, up to the sends on the callers' channels: only
\* a success counts the events of the request as sent.  A SendMetrics call is
\* told if the request held any metricset.
CaseRequestResult ==
    /\ pc = "select"
    /\ requestResult # "none"
    /\ requestResult' = "none"
    /\ LET ok == requestResult = "ok"
           result == [NoStats EXCEPT !.sent = [k \in Kinds |-> IF ok THEN requestBufCount[k] ELSE 0],
                                     !.errors = IF ok THEN 0 ELSE 1]
       IN  /\ gracePeriod' = IF ok THEN -1 ELSE NextGracePeriod(gracePeriod)
           /\ tstats' = Accumulate(tstats, Accumulate(stats, result))
           /\ at' = [e \in Event |->
                        IF \E i \in 1..Len(body) : body[i] = e
                        THEN IF ok THEN "acked" ELSE "failed"
                        ELSE at[e]]
    /\ stats' = NoStats
    /\ IF TellsMetrics
       THEN token' = token \cup {sentMetrics} /\ sentMetrics' = None
       ELSE UNCHANGED <<token, sentMetrics>>
    /\ pc' = "notify"
    /\ UNCHANGED <<events, closing, majorServerVersion, draining, flushed, gatherMetrics,
                   buffer, metricsBuffer, requestActive, closeRequest, flushRequest,
                   zlibVars, requestTimerVars, readerVars, sender, metricsVars, call,
                   boundVars, owed>>

\* Mutant: the read request of the old reader is kept.
ReplaceReaderKeepsReq ==
    /\ iochanReader' = 1 - iochanReader
    /\ reading' = "none"
    /\ UNCHANGED req

\* The reader of the request that is over is closed, which cancels its read
\* request if there is one, and replaced.
ReplaceReader ==
    /\ req' = None
    /\ iochanReader' = 1 - iochanReader
    /\ reading' = "none"

\* The rest of that case.  The send on `flushed`, a channel with room for one
\* token, blocks while the channel is full.  Then the reader is replaced and
\* the request's variables are reset.
Notify ==
    /\ pc = "notify"
    /\ flushed \notin token
    /\ token' = IF flushed = None THEN token ELSE token \cup {flushed}
    /\ flushed' = None
    /\ ReplaceReader
    /\ flushRequest' = FALSE /\ closeRequest' = FALSE /\ requestActive' = FALSE
    /\ body' = <<>> /\ emitted' = 0 /\ requestBytesRead' = 0
    /\ requestBufCount' = [t \in Tags |-> 0]
    /\ requestTimerActive => StopTimer(requestTimer)
    /\ requestTimer' = IF requestTimerActive THEN FALSE ELSE requestTimer
    /\ requestTimerActive' = FALSE
    /\ pc' = "bottom"
    /\ UNCHANGED <<tracerVars, draining, sentMetrics, gatherMetrics, bufferVars,
                   zlibFlushed, zlibClosed, gracePeriod, senderVars, metricsVars, call,
                   boundVars, historyVars>>

-----------------------------------------------------------------------------
(* The code below the select *)

\* Mutant: only a turn outside a request publishes.
PublishStatsBetween ==
    IF ~requestActive
    THEN tstats' = Accumulate(tstats, stats) /\ stats' = NoStats
    ELSE UNCHANGED <<tstats, stats>>

PublishStats ==
    /\ tstats' = Accumulate(tstats, stats)
    /\ stats' = NoStats

\* The first part: publish the statistics, start gathering metrics, and start
\* a request if there is something to send and none is active.  The 2-byte
\* zlib header comes out with the first write; the metadata is compressed.
Bottom ==
    /\ pc = "bottom"
    /\ PublishStats
    /\ gatherMetrics' = FALSE
    /\ IF gatherMetrics
       THEN gatheringMetrics' = TRUE /\ gatherer' = "running" /\ gathers' = gathers + 1
       ELSE UNCHANGED <<gatheringMetrics, gatherer, gathers>>
    /\ \/ /\ ~requestActive /\ buffer = <<>> /\ metricsBuffer = 0
          /\ pc' = "select"
          /\ UNCHANGED <<streamVars, sender, reading>>
       \/ /\ requestActive
          /\ pc' = "fill"
          /\ UNCHANGED <<streamVars, sender, reading>>
       \/ /\ ~requestActive /\ (buffer # <<>> \/ metricsBuffer > 0)
          /\ sender = "range"
          /\ IF gracePeriod > 0
             THEN sender' = "grace" /\ UNCHANGED reading
             ELSE sender' = "sending" /\ reading' = "idle"
          /\ requestActive' = TRUE
          /\ body' = <<"header", "metadata">> /\ emitted' = 1
          /\ zlibFlushed' = FALSE /\ zlibClosed' = FALSE
          /\ requestTimer' = TRUE /\ requestTimerActive' = TRUE
          /\ pc' = "fill"
          /\ UNCHANGED <<closeRequest, flushRequest, requestBytesRead, requestBufCount,
                         gracePeriod>>
    /\ UNCHANGED <<events, closing, majorServerVersion, draining, flushed, sentMetrics,
                   buffer, metricsBuffer, iochanReader, req, requestResult, configVars,
                   metricsTimerVars, refresher, callVars, commands, historyVars>>

\* A run of the loop that fills the request: m metricsets and then n events
\* are written, and z items are out of the compressor when it stops.  The
\* compressor keeps at least a tail of the last item until it is flushed.
FillsWith(m, n, z) ==
    /\ n > 0 => m = metricsBuffer
    /\ m + n > 0 => emitted < RequestSize /\ z < Len(body) + m + n
    /\ m + n = 0 => z = emitted
    /\ z >= RequestSize \/ (m = metricsBuffer /\ n = Len(buffer))

Fill ==
    /\ pc = "fill"
    /\ IF ~closeRequest \/ ~zlibClosed
       THEN \E m \in 0..metricsBuffer, n \in 0..Len(buffer) :
            \E z \in emitted..(Len(body) + m + n) :
                /\ FillsWith(m, n, z)
                /\ body' = body \o [i \in 1..m |-> "metricset"] \o SubSeq(buffer, 1, n)
                /\ emitted' = z
                /\ metricsBuffer' = metricsBuffer - m
                /\ buffer' = BQ!Without(buffer, n)
                /\ requestBufCount' = [t \in Tags |-> requestBufCount[t] +
                       IF t = "metricset" THEN m
                       ELSE Cardinality({i \in 1..n : Kind[buffer[i]] = t})]
                /\ at' = [e \in Event |->
                       IF \E i \in 1..n : buffer[i] = e THEN "request" ELSE at[e]]
                /\ zlibFlushed' = (zlibFlushed /\ m + n = 0)
                /\ closeRequest' = \/ closeRequest
                                   \/ m > 0 /\ sentMetrics # None
                                   \/ z >= RequestSize
       ELSE UNCHANGED <<body, emitted, metricsBuffer, buffer, requestBufCount, at,
                        zlibFlushed, closeRequest>>
    /\ pc' = "finish"
    /\ UNCHANGED <<tracerVars, turnVars, stats, requestActive, flushRequest, zlibClosed,
                   requestBytesRead, requestTimerVars, gracePeriod, readerVars, senderVars,
                   metricsVars, callVars, boundVars, owed>>

\* Mutants: a closed compressor is closed again; closing does not flush it; a
\* lone last item is taken for the zlib header.
ClosesAgain == closeRequest
FinishedEmittedUnflushed == emitted
AnswersAllButLast == /\ req # None
                     /\ emitted > requestBytesRead + 1

\* What Finish makes of the stream: closing the zlib writer writes a trailer,
\* flushing it pushes everything written out of the compressor.
Closes == closeRequest /\ ~zlibClosed
Flushes == ~closeRequest /\ flushRequest /\ ~zlibFlushed
FinishedBody == IF Closes THEN Append(body, "trailer") ELSE body
FinishedEmitted == IF Closes \/ Flushes THEN Len(FinishedBody) ELSE emitted

\* A read request is answered when requestBuf holds more than the zlib header
\* (zlibHeaderLen, one item here) or that has been read.
Answers == /\ req # None
           /\ FinishedEmitted > requestBytesRead
           /\ FinishedEmitted > 1

\* The last part: close or flush the zlib writer, and answer the transport's
\* read with some or all of requestBuf, and io.EOF if that is the end.
Finish ==
    /\ pc = "finish"
    /\ body' = FinishedBody
    /\ emitted' = FinishedEmitted
    /\ zlibClosed' = (zlibClosed \/ Closes)
    /\ zlibFlushed' = (zlibFlushed \/ Flushes)
    /\ flushRequest' = (flushRequest /\ ~Flushes)
    /\ IF Answers
       THEN \E n \in 1..(FinishedEmitted - requestBytesRead) :
                /\ requestBytesRead' = requestBytesRead + n
                /\ reading' = IF closeRequest /\ requestBytesRead + n = FinishedEmitted
                              THEN "eof" ELSE "idle"
                /\ req' = None
       ELSE UNCHANGED <<requestBytesRead, reading, req>>
    /\ pc' = "select"
    /\ UNCHANGED <<tracerVars, turnVars, bufferVars, requestActive, closeRequest,
                   requestBufCount, requestTimerVars, gracePeriod, iochanReader,
                   senderVars, metricsVars, callVars, boundVars, historyVars>>

\* The deferred functions: wait for the sender goroutine, close t.closed.
Exit ==
    /\ pc = "exit"
    /\ sender = "range"
    /\ pc' = "done"
    /\ UNCHANGED <<tracerVars, turnVars, bufferVars, streamVars, readerVars, senderVars,
                   metricsVars, callVars, boundVars, historyVars>>

-----------------------------------------------------------------------------
(* The goroutines the loop starts *)

\* Mutant: the sender gives the request up instead of sending it.
GraceOverGivesUp ==
    /\ sender = "grace"
    /\ sender' = "range"
    /\ UNCHANGED <<tracerVars, pc, turnVars, bufferVars, streamVars, readerVars,
                   requestResult, metricsVars, callVars, boundVars, historyVars>>

\* The sender goroutine's grace period ends, or the context is cancelled.
GraceOver ==
    /\ sender = "grace"
    /\ sender' = "sending"
    /\ reading' = IF reading = "none" THEN "idle" ELSE reading
    /\ UNCHANGED <<tracerVars, pc, turnVars, bufferVars, streamVars, iochanReader, req,
                   requestResult, metricsVars, callVars, boundVars, historyVars>>

\* Transport.SendStream returns.  It is assumed of the server that it reports
\* success only at the end of the stream; it may report an error at any time,
\* and the transport then forgets the server's version.
SendStream(result) ==
    /\ sender = "sending"
    /\ requestResult = "none"
    /\ result = "ok" => reading \in {"eof", "closed"}
    /\ requestResult' = result
    /\ sender' = "range"
    /\ majorServerVersion' = IF result = "ok" THEN majorServerVersion ELSE 0
    /\ UNCHANGED <<events, tstats, closing, pc, turnVars, bufferVars, streamVars,
                   readerVars, metricsVars, callVars, boundVars, historyVars>>

\* Tracer.gatherMetrics: the gatherers have run.
Gathered ==
    /\ gatherer = "running"
    /\ gatherer' = "done"
    /\ UNCHANGED <<tracerVars, pc, turnVars, bufferVars, streamVars, readerVars,
                   senderVars, configVars, metricsTimerVars, gatheringMetrics, refresher,
                   callVars, boundVars, historyVars>>

\* Tracer.maybeRefreshServerVersion obtains the version.  A refresh that fails
\* is repeated at the next tick, so it is one that is still running.
RefreshServerVersion ==
    /\ refresher = "running"
    /\ refresher' = "none"
    /\ majorServerVersion' = ServerVersion
    /\ UNCHANGED <<events, tstats, closing, pc, turnVars, bufferVars, streamVars,
                   readerVars, senderVars, configVars, metricsTimerVars, gatherVars,
                   callVars, boundVars, historyVars>>

-----------------------------------------------------------------------------
(* The callers *)

Queued(e) == at[e] \in {"channel", "buffer", "request"}

\* Flush or SendMetrics is called, and blocks on t.forceFlush or
\* t.forceSendMetrics until the loop receives.
Call(c) ==
    /\ call[c] = "idle"
    /\ call' = [call EXCEPT ![c] = "calling"]
    /\ owed' = IF c \in Flusher THEN [owed EXCEPT ![c] = {e \in Event : Queued(e)}] ELSE owed
    /\ UNCHANGED <<tracerVars, pc, turnVars, bufferVars, streamVars, readerVars,
                   senderVars, metricsVars, token, boundVars, at>>

\* The second select of Flush and SendMetrics, once the loop has received.
Told(c) ==
    /\ call[c] = "waiting"
    /\ c \in token
    /\ token' = token \ {c}
    /\ call' = [call EXCEPT ![c] = "told"]
    /\ UNCHANGED <<tracerVars, pc, turnVars, bufferVars, streamVars, readerVars,
                   senderVars, metricsVars, boundVars, historyVars>>

Abort(c) ==
    /\ c \in Abortable
    /\ call[c] = "waiting"
    /\ call' = [call EXCEPT ![c] = "aborted"]
    /\ UNCHANGED <<tracerVars, pc, turnVars, bufferVars, streamVars, readerVars,
                   senderVars, metricsVars, token, boundVars, historyVars>>

\* <-t.closed, in any of Flush, SendMetrics and Close.
SeeClosed(c) ==
    /\ call[c] \in {"calling", "waiting"}
    /\ pc = "done"
    /\ call' = [call EXCEPT ![c] = "closed"]
    /\ UNCHANGED <<tracerVars, pc, turnVars, bufferVars, streamVars, readerVars,
                   senderVars, metricsVars, token, boundVars, historyVars>>

\* Close: the select that looks at t.closing ...
CloseCheck(c) ==
    /\ call[c] = "idle"
    /\ call' = [call EXCEPT ![c] = IF closing THEN "waiting" ELSE "closing"]
    /\ UNCHANGED <<tracerVars, pc, turnVars, bufferVars, streamVars, readerVars,
                   senderVars, metricsVars, token, boundVars, historyVars>>

\* ... and, in its default case, the close; closing twice panics.
CloseClosing(c) ==
    /\ call[c] = "closing"
    /\ closing' = TRUE
    /\ call' = [call EXCEPT ![c] = IF closing THEN "panicked" ELSE "waiting"]
    /\ UNCHANGED <<events, tstats, majorServerVersion, pc, turnVars, bufferVars,
                   streamVars, readerVars, senderVars, metricsVars, token, boundVars,
                   historyVars>>

-----------------------------------------------------------------------------
(* Specification *)

\* The state after newTracer has sent the first configuration command.
Init ==
    /\ events = <<>> /\ tstats = NoStats /\ closing = FALSE /\ majorServerVersion = 0
    /\ pc = "select" /\ draining = 0 /\ flushed = None /\ sentMetrics = None
    /\ gatherMetrics = FALSE
    /\ buffer = <<>> /\ metricsBuffer = 0 /\ stats = NoStats
    /\ requestActive = FALSE /\ closeRequest = FALSE /\ flushRequest = FALSE
    /\ zlibFlushed = TRUE /\ zlibClosed = FALSE
    /\ body = <<>> /\ emitted = 0 /\ requestBytesRead = 0
    /\ requestBufCount = [t \in Tags |-> 0]
    /\ requestTimer = FALSE /\ requestTimerActive = FALSE /\ gracePeriod = -1
    /\ iochanReader = 0 /\ req = None /\ reading = "none"
    /\ sender = "range" /\ requestResult = "none"
    /\ recording \in BOOLEAN /\ metricsInterval \in Interval
    /\ metricsTimerStart = (recording /\ metricsInterval > 0)
    /\ metricsTimer = metricsTimerStart
    /\ gatheringMetrics = FALSE /\ gatherer = "none"
    /\ refresher = IF ServerVersion > 0 THEN "running" ELSE "none"
    /\ call = [c \in Caller |-> "idle"] /\ token = {}
    /\ commands = 0 /\ gathers = 0
    /\ at = [e \in Event |-> "app"]
    /\ owed = [f \in Flusher |-> {}]

Loop ==
    \/ CaseClosing \/ CaseConfigCommand \/ CaseRefreshVersion \/ CaseEvent
    \/ CaseRequestTimer \/ CaseMetricsTimer \/ CaseGatheredMetrics
    \/ \E m \in MetricsCaller : CaseForceSendMetrics(m)
    \/ \E f \in Flusher : CaseForceFlush(f)
    \/ Drain \/ Drained \/ CaseReadRequest
    \/ CaseRequestResult \/ Notify
    \/ Bottom \/ Fill \/ Finish \/ Exit

Returns(c) == Told(c) \/ SeeClosed(c)

Next ==
    \/ \E e \in Event : Enqueue(e)
    \/ Loop
    \/ GraceOver \/ SendStream("ok") \/ SendStream("error") \/ Gathered
    \/ RefreshServerVersion
    \/ \E c \in Flusher \cup MetricsCaller : Call(c) \/ Abort(c)
    \/ \E c \in Caller : Returns(c)
    \/ \E c \in Closer : CloseCheck(c) \/ CloseClosing(c)

Spec == Init /\ [][Next]_vars

\* A stream that has ended, or whose context is cancelled, gets its answer;
\* a stream that is still open may be answered early but need not be.
SendStreamEnds ==
    /\ reading \in {"eof", "closed"}
    /\ SendStream("ok") \/ SendStream("error")

\* The goroutines keep running; timers fire; the server answers the requests
\* that end, but need not ever tell its version.
Fairness ==
    /\ WF_vars(Loop)
    /\ WF_vars(GraceOver) /\ WF_vars(SendStreamEnds) /\ WF_vars(Gathered)
    /\ \A c \in Caller : WF_vars(Returns(c))
    /\ \A c \in Closer : WF_vars(CloseClosing(c))

FairSpec == Spec /\ Fairness

-----------------------------------------------------------------------------
(* Properties *)

Count(k, where) == Cardinality({e \in Event : Kind[e] = k /\ at[e] = where})
StatsType == [sent : [Kinds -> Nat], dropped : [Kinds -> Nat], errors : Nat]
Places == {"app", "channel", "buffer", "request", "acked", "failed", "dropped",
           "toolarge", "discarded"}
GracePeriods == {-1, 0, 1, 4, 9, 16, 25, 36}
Item == Event \cup {"header", "metadata", "metricset", "trailer"}

TracerType ==
    /\ events \in Seq(Event) /\ tstats \in StatsType /\ closing \in BOOLEAN
    /\ majorServerVersion \in {0, ServerVersion}
TurnType ==
    /\ pc \in {"select", "drain", "notify", "bottom", "fill", "finish", "exit", "done"}
    /\ draining \in Nat
    /\ flushed \in Flusher \cup {None} /\ sentMetrics \in MetricsCaller \cup {None}
    /\ pc = "drain" => flushed # None
    /\ gatherMetrics \in BOOLEAN
BufferType ==
    buffer \in Seq(Event) /\ metricsBuffer \in 0..MetricsBufferSize /\ stats \in StatsType
RequestType ==
    /\ requestActive \in BOOLEAN /\ closeRequest \in BOOLEAN /\ flushRequest \in BOOLEAN
    /\ gracePeriod \in GracePeriods
    /\ requestTimer \in BOOLEAN /\ requestTimerActive \in BOOLEAN
ZlibType ==
    /\ zlibFlushed \in BOOLEAN /\ zlibClosed \in BOOLEAN
    /\ body \in Seq(Item) /\ emitted \in Nat /\ requestBytesRead \in Nat
    /\ requestBufCount \in [Tags -> Nat]
ReaderType ==
    /\ iochanReader \in {0, 1} /\ req \in {0, 1, None}
    /\ reading \in {"none", "idle", "await", "eof", "closed"}
SenderType ==
    sender \in {"range", "grace", "sending"} /\ requestResult \in {"none", "ok", "error"}
MetricsType ==
    /\ recording \in BOOLEAN /\ metricsInterval \in Interval
    /\ metricsTimer \in BOOLEAN /\ metricsTimerStart \in BOOLEAN
    /\ gatheringMetrics \in BOOLEAN /\ gatherer \in {"none", "running", "done"}
    /\ refresher \in {"none", "running"}
CallType ==
    /\ call \in [Caller -> {"idle", "calling", "waiting", "told", "aborted", "closed",
                            "closing", "panicked"}]
    /\ token \subseteq Flusher \cup MetricsCaller
    /\ commands \in Nat /\ gathers \in Nat
HistoryType == at \in [Event -> Places] /\ owed \in [Flusher -> SUBSET Event]

\* Every variable has its type; in particular the grace period takes only the
\* values of the back-off sequence and no count is ever negative.
TypeOK ==
    /\ TracerType /\ TurnType /\ BufferType /\ RequestType /\ ZlibType
    /\ ReaderType /\ SenderType /\ MetricsType /\ CallType /\ HistoryType

\* No event is lost between two places or held in two: an ended event is in
\* exactly one of the channel, the ring buffer and the current request, once,
\* until it is sent, dropped, discarded or given up with its request.
Held(q, where) ==
    /\ \A i, j \in 1..Len(q) : q[i] = q[j] /\ q[i] \in Event => i = j
    /\ \A e \in Event : at[e] = where <=> \E i \in 1..Len(q) : q[i] = e
EventsConserved ==
    /\ Held(events, "channel")
    /\ Held(buffer, "buffer")
    /\ pc # "notify" => Held(body, "request")

\* The statistics are exact: an event counts as sent if and only if its request
\* succeeded, and as dropped if and only if the channel was full or the ring
\* buffer evicted it; nothing is counted twice, whatever the order of turns.
\* Tracer.Stats lags only within a turn: whenever the loop waits in its select,
\* after every path through the turn (the `continue`s included), or has
\* stopped, the loop holds no statistics it has not published.
StatsExact ==
    /\ \A k \in Kinds :
        /\ tstats.sent[k] + stats.sent[k] = Count(k, "acked")
        /\ tstats.dropped[k] + stats.dropped[k] = Count(k, "dropped")
    /\ pc \in {"select", "exit", "done", "notify"} => stats = NoStats

\* A request that succeeded, at io.EOF, was read to its end: every item written
\* to the compressor, trailer included, was handed to the transport before that.
\* So what CaseRequestResult counts as sent was really sent.
SentMeansRead ==
    requestResult = "ok" /\ reading # "closed" =>
        /\ zlibClosed
        /\ requestBytesRead = Len(body)
        /\ body[Len(body)] = "trailer"

\* The stream is well formed: metadata first, and nothing after the trailer,
\* although events keep arriving while the transport drains a closed request.
StreamWellFormed ==
    requestActive =>
        /\ Len(body) >= 2 /\ body[1] = "header" /\ body[2] = "metadata"
        /\ \A i \in 1..Len(body) : body[i] = "trailer" <=> (zlibClosed /\ i = Len(body))
        /\ requestBytesRead <= emitted /\ emitted <= Len(body)

\* The read request the loop holds belongs to the current reader, which is
\* waiting: answering a request of a reader closed by CloseRead would panic
\* (send on a closed channel).
RespondSafe == pc \notin {"exit", "done"} /\ req # None => req = iochanReader /\ reading = "await"

\* A drain `if !timer.Stop() { <-timer.C }` never blocks the loop: a timer the
\* loop believes started is running.
TimerDrainsReturn ==
    /\ metricsTimerStart => metricsTimer
    /\ requestTimerActive => requestTimer

\* Metrics never stop for good: whenever recording is on with a positive
\* interval, the loop is gathering or the timer will make it gather, whatever
\* the interleaving of commands, timer, SendMetrics and gathering; and the
\* timer runs only then.
MetricsKeepComing ==
    /\ recording /\ metricsInterval > 0 => metricsTimer \/ gatheringMetrics \/ gatherMetrics
    /\ metricsTimer => recording /\ metricsInterval > 0 /\ ~gatheringMetrics
    /\ gatheringMetrics <=> gatherer # "none"

\* At most one request at a time: the loop hands the sender a request only when
\* the sender waits for one, and the result channel never overflows.
OneRequest ==
    pc \notin {"exit", "done"} =>
        /\ requestActive <=> sender # "range" \/ requestResult # "none" \/ pc = "notify"
        /\ requestResult # "none" => sender = "range"

\* Flush's promise: when it returns because the loop said so, every event that
\* was queued when it was called has left the tracer.
FlushDelivers ==
    \A f \in Flusher : call[f] = "told" => \A e \in owed[f] : ~Queued(e)

\* SendMetrics's promise: a call is told only when the metrics gathering it
\* forced is over, not on account of metrics gathered before.
SendMetricsDelivers ==
    [][\A m \in MetricsCaller : m \in token' \ token => ~gatheringMetrics]_vars

\* Every queued event leaves the tracer: sent, dropped or given up.
EventsLeave ==
    \A e \in Event : Queued(e) ~> (~Queued(e) \/ pc = "done")

\* Every call of Flush returns.
FlushReturns ==
    \A f \in Flusher : call[f] = "calling" ~> call[f] \in {"told", "aborted", "closed"}

\* Close returns.
CloseReturns ==
    \A c \in Closer : call[c] = "closing" ~> call[c] = "closed"
=============================================================================
