-------------------------- MODULE TracerLoopProofs --------------------------
(***************************************************************************)
(* Theorems about TracerLoop, for every value of its constants.            *)
(***************************************************************************)
EXTENDS TracerLoop, FiniteSetTheorems, TLAPS

-----------------------------------------------------------------------------
(* The metrics and request timers *)

\* The inductive invariant behind TimerDrainsReturn and MetricsKeepComing: each
\* flag says exactly whether its timer runs; a gathering is requested only
\* between the select and the code below it; the timer and a gathering,
\* requested or running, exclude each other.
TimerInv ==
    /\ metricsTimer \in BOOLEAN /\ metricsTimerStart = metricsTimer
    /\ requestTimer \in BOOLEAN /\ requestTimerActive = requestTimer
    /\ recording \in BOOLEAN /\ metricsInterval \in Nat
    /\ gatheringMetrics \in BOOLEAN /\ gatherMetrics \in BOOLEAN
    /\ gatherMetrics => pc = "bottom" /\ ~gatheringMetrics /\ ~metricsTimer
    /\ MetricsKeepComing

\* The invariant holds initially.
LEMMA TimerInit == Init => TimerInv
<1> SUFFICES ASSUME Init PROVE TimerInv
  OBVIOUS
<1>1. recording \in BOOLEAN /\ metricsInterval \in Nat
  BY TracerLoopAssumption DEF Init
<1>2. CASE recording /\ metricsInterval > 0
  BY <1>1, <1>2 DEF Init, TimerInv, MetricsKeepComing
<1>3. CASE ~(recording /\ metricsInterval > 0)
  BY <1>1, <1>3 DEF Init, TimerInv, MetricsKeepComing
<1> QED
  BY <1>2, <1>3

\* Every step of the loop and of its environment preserves the invariant.
LEMMA TimerStep == TimerInv /\ [Next]_vars => TimerInv'
<1> SUFFICES ASSUME TimerInv, [Next]_vars PROVE TimerInv'
  OBVIOUS
<1> USE DEF TimerInv, MetricsKeepComing
<1>1. ASSUME NEW e \in Event, Enqueue(e) PROVE TimerInv'
  BY <1>1 DEF Enqueue, turnVars, streamVars, requestTimerVars, metricsVars, configVars,
              metricsTimerVars, gatherVars
<1>2. CASE CaseClosing
  BY <1>2 DEF CaseClosing, turnVars, streamVars, requestTimerVars, metricsVars, configVars,
              metricsTimerVars, gatherVars
<1>3. CASE CaseConfigCommand
  <2>1. ASSUME NEW r \in BOOLEAN, NEW i \in Nat, HandleConfigCommand(r, i),
               pc = "select", UNCHANGED <<pc, turnVars, gatherVars, requestTimerVars>>
        PROVE  TimerInv'
    <3> DEFINE old == IF recording THEN metricsInterval ELSE 0
               new == IF r THEN i ELSE 0
    <3>1. old \in Nat /\ new \in Nat
      BY <2>1
    <3>2. UNCHANGED <<pc, gatherMetrics, gatheringMetrics, gatherer, requestTimer,
                      requestTimerActive>> /\ recording' = r /\ metricsInterval' = i
      BY <2>1 DEF HandleConfigCommand, turnVars, gatherVars, requestTimerVars
    <3>3. CASE ~gatheringMetrics /\ new # old
      <4>1. \/ ~metricsTimer /\ new = 0
            \/ new > 0 /\ metricsTimer' = TRUE /\ metricsTimerStart' = TRUE
            \/ new = 0 /\ metricsTimer' = FALSE /\ metricsTimerStart' = FALSE
        BY <2>1, <3>1, <3>3 DEF HandleConfigCommand, IntervalChanged, metricsTimerVars
      <4>2. ASSUME ~metricsTimer, new = 0 PROVE FALSE
        BY <2>1, <3>1, <3>3, <4>2
      <4>3. CASE new > 0 /\ metricsTimer' = TRUE /\ metricsTimerStart' = TRUE
        <5>1. r = TRUE /\ i > 0
          BY <2>1, <4>3
        <5> QED
          BY <2>1, <3>2, <3>3, <4>3, <5>1
      <4>4. CASE new = 0 /\ metricsTimer' = FALSE /\ metricsTimerStart' = FALSE
        <5>1. ~(r /\ i > 0)
          BY <2>1, <4>4
        <5> QED
          BY <2>1, <3>2, <3>3, <4>4, <5>1
      <4> QED
        BY <4>1, <4>2, <4>3, <4>4
    <3>4. CASE ~(~gatheringMetrics /\ new # old)
      <4>1. metricsTimer' = metricsTimer /\ metricsTimerStart' = metricsTimerStart
        BY <2>1, <3>4 DEF HandleConfigCommand, IntervalChanged, metricsTimerVars
      <4> QED
        BY <2>1, <3>1, <3>2, <3>4, <4>1
    <3> QED
      BY <3>3, <3>4
  <2> QED
    BY <1>3, <2>1, TracerLoopAssumption DEF CaseConfigCommand, streamVars
<1>4. CASE CaseRefreshVersion
  BY <1>4 DEF CaseRefreshVersion, turnVars, streamVars, requestTimerVars, configVars,
              metricsTimerVars, gatherVars
<1>5. CASE CaseEvent
  BY <1>5 DEF CaseEvent, turnVars, requestTimerVars, metricsVars, configVars,
              metricsTimerVars, gatherVars
<1>6. CASE CaseRequestTimer
  BY <1>6 DEF CaseRequestTimer, turnVars, metricsVars, configVars, metricsTimerVars,
              gatherVars
<1>7. CASE CaseMetricsTimer
  BY <1>7 DEF CaseMetricsTimer, streamVars, requestTimerVars, configVars, gatherVars
<1>8. ASSUME NEW m \in MetricsCaller, CaseForceSendMetrics(m) PROVE TimerInv'
  BY <1>8 DEF CaseForceSendMetrics, StopTimer, streamVars, requestTimerVars, configVars,
              gatherVars
<1>9. CASE CaseGatheredMetrics
  BY <1>9 DEF CaseGatheredMetrics, turnVars, requestTimerVars, configVars
<1>10. ASSUME NEW f \in Flusher, CaseForceFlush(f) PROVE TimerInv'
  BY <1>10 DEF CaseForceFlush, streamVars, requestTimerVars, metricsVars, configVars,
               metricsTimerVars, gatherVars
<1>11. CASE Drain
  BY <1>11 DEF Drain, streamVars, requestTimerVars, metricsVars, configVars,
               metricsTimerVars, gatherVars
<1>12. CASE Drained
  BY <1>12 DEF Drained, turnVars, requestTimerVars, metricsVars, configVars,
               metricsTimerVars, gatherVars
<1>13. CASE CaseReadRequest
  BY <1>13 DEF CaseReadRequest, turnVars, streamVars, requestTimerVars, metricsVars,
               configVars, metricsTimerVars, gatherVars
<1>14. CASE CaseRequestResult
  BY <1>14 DEF CaseRequestResult, requestTimerVars, metricsVars, configVars,
               metricsTimerVars, gatherVars
<1>15. CASE Notify
  BY <1>15 DEF Notify, StopTimer, metricsVars, configVars, metricsTimerVars, gatherVars
<1>16. CASE Bottom
  BY <1>16 DEF Bottom, streamVars, requestTimerVars, configVars, metricsTimerVars
<1>17. CASE Fill
  BY <1>17 DEF Fill, turnVars, requestTimerVars, metricsVars, configVars,
               metricsTimerVars, gatherVars
<1>18. CASE Finish
  BY <1>18 DEF Finish, turnVars, requestTimerVars, metricsVars, configVars,
               metricsTimerVars, gatherVars
<1>19. CASE Exit
  BY <1>19 DEF Exit, turnVars, streamVars, requestTimerVars, metricsVars, configVars,
               metricsTimerVars, gatherVars
<1>20. CASE GraceOver \/ SendStream("ok") \/ SendStream("error") \/ RefreshServerVersion
  BY <1>20 DEF GraceOver, SendStream, RefreshServerVersion, turnVars, streamVars,
               requestTimerVars, metricsVars, configVars, metricsTimerVars, gatherVars
<1>21. CASE Gathered
  BY <1>21 DEF Gathered, turnVars, streamVars, requestTimerVars, configVars,
               metricsTimerVars
<1>22. ASSUME NEW c \in Caller,
              Call(c) \/ Abort(c) \/ Returns(c) \/ CloseCheck(c) \/ CloseClosing(c)
       PROVE  TimerInv'
  BY <1>22 DEF Call, Abort, Returns, Told, SeeClosed, CloseCheck, CloseClosing, turnVars,
               streamVars, requestTimerVars, metricsVars, configVars, metricsTimerVars,
               gatherVars
<1>23. CASE UNCHANGED vars
  BY <1>23 DEF vars, turnVars, streamVars, requestTimerVars, metricsVars, configVars,
               metricsTimerVars, gatherVars
<1> QED
  BY <1>1, <1>2, <1>3, <1>4, <1>5, <1>6, <1>7, <1>8, <1>9, <1>10, <1>11, <1>12, <1>13,
     <1>14, <1>15, <1>16, <1>17, <1>18, <1>19, <1>20, <1>21, <1>22, <1>23
     DEF Next, Loop, Caller

\* No drain of a timer channel ever blocks the loop.
THEOREM TimersDrain == Spec => []TimerDrainsReturn
<1>1. TimerInv => TimerDrainsReturn
  BY DEF TimerInv, TimerDrainsReturn
<1> QED
  BY <1>1, TimerInit, TimerStep, PTL DEF Spec

\* Periodic metrics never stop for good while they are wanted, and never come
\* when they are not.
THEOREM MetricsNeverStop == Spec => []MetricsKeepComing
<1>1. TimerInv => MetricsKeepComing
  BY DEF TimerInv
<1> QED
  BY <1>1, TimerInit, TimerStep, PTL DEF Spec
-----------------------------------------------------------------------------
(* Type correctness *)

\* TracerStats.accumulate adds counts to counts.
LEMMA AccumulateType ==
    ASSUME NEW s \in StatsType, NEW t \in StatsType
    PROVE  Accumulate(s, t) \in StatsType
  BY DEF Accumulate, StatsType, Kinds

\* The empty statistics have their type.
LEMMA NoStatsType == NoStats \in StatsType
  BY DEF NoStats, StatsType, Kinds

\* The grace period moves along its sequence and stays there.
LEMMA GracePeriodType ==
    ASSUME NEW p \in GracePeriods PROVE NextGracePeriod(p) \in GracePeriods
<1> DEFINE S == {i * i : i \in 1..6}
<1>1. CASE p = -1
  BY <1>1 DEF NextGracePeriod, GracePeriods
<1>2. CASE p # -1 /\ p \in {i * i : i \in 0..5}
  <2>1. PICK j \in 0..5 : p = j * j
    BY <1>2
  <2>2. (j + 1) * (j + 1) \in S
    BY <2>1
  <2>3. NextGracePeriod(p) = CHOOSE n \in S : \E i \in 0..5 : p = i * i /\ n = (i + 1) * (i + 1)
    BY <1>2 DEF NextGracePeriod
  <2>4. NextGracePeriod(p) \in S
    BY <2>1, <2>2, <2>3
  <2>5. S \subseteq GracePeriods
    BY DEF GracePeriods
  <2> QED
    BY <2>4, <2>5
<1>3. CASE p # -1 /\ p \notin {i * i : i \in 0..5}
  BY <1>3 DEF NextGracePeriod
<1> QED
  BY <1>1, <1>2, <1>3

\* An event received from the channel: the buffer, the statistics and the
\* whereabouts of the events keep their types.
LEMMA HandleEventType ==
    ASSUME BufferType, at \in [Event -> Places], NEW e \in Event, HandleEvent(e)
    PROVE  /\ buffer' \in Seq(Event) /\ stats' \in StatsType
           /\ at' \in [Event -> Places]
<1>1. CASE UNCHANGED <<buffer, stats>> /\ \E w \in Places : at' = [at EXCEPT ![e] = w]
  BY <1>1 DEF BufferType
<1>2. CASE WriteEvent(e) /\ ~BQ!TooLarge(e)
  <2>1. PICK k \in 0..Len(buffer) :
           /\ buffer' = Append(BQ!Without(buffer, k), e)
           /\ stats' = [stats EXCEPT !.dropped =
                  [x \in Kinds |-> @[x] + Cardinality({i \in 1..k : Kind[buffer[i]] = x})]]
           /\ at' = [x \in Event |->
                  IF x = e THEN "buffer"
                  ELSE IF \E i \in 1..k : buffer[i] = x THEN "dropped"
                  ELSE at[x]]
    BY <1>2 DEF WriteEvent
  <2>2. buffer' \in Seq(Event)
    BY <2>1 DEF BufferType, BQ!Without
  <2>3. \A x \in Kinds : Cardinality({i \in 1..k : Kind[buffer[i]] = x}) \in Nat
    <3> SUFFICES ASSUME NEW x \in Kinds
                 PROVE  Cardinality({i \in 1..k : Kind[buffer[i]] = x}) \in Nat
      OBVIOUS
    <3>1. IsFiniteSet(1..k)
      BY <2>1, FS_Interval DEF BufferType
    <3>2. IsFiniteSet({i \in 1..k : Kind[buffer[i]] = x})
      BY <3>1, FS_Subset
    <3> QED
      BY <3>2, FS_CardinalityType
  <2>4. stats' \in StatsType
    <3> DEFINE d == [x \in Kinds |->
                        stats.dropped[x] + Cardinality({i \in 1..k : Kind[buffer[i]] = x})]
    <3>1. stats.dropped \in [Kinds -> Nat]
      BY DEF BufferType, StatsType
    <3>2. d \in [Kinds -> Nat]
      BY <2>3, <3>1
    <3>3. stats' = [stats EXCEPT !.dropped = d]
      BY <2>1
    <3> HIDE DEF d
    <3> QED
      BY <3>2, <3>3 DEF BufferType, StatsType
  <2>5. at' \in [Event -> Places]
    BY <2>1 DEF Places
  <2> QED
    BY <2>2, <2>4, <2>5
<1> QED
  BY <1>1, <1>2 DEF HandleEvent, WriteEvent, Places

\* A step that leaves the variables of a group alone leaves their types alone.
LEMMA TypeFrame ==
    /\ TracerType /\ UNCHANGED <<tracerVars>> => TracerType'
    /\ TurnType /\ UNCHANGED <<pc, turnVars>> => TurnType'
    /\ BufferType /\ UNCHANGED <<bufferVars>> => BufferType'
    /\ RequestType /\ UNCHANGED <<requestVars, requestTimerVars>> => RequestType'
    /\ ZlibType /\ UNCHANGED <<zlibVars>> => ZlibType'
    /\ ReaderType /\ UNCHANGED <<readerVars>> => ReaderType'
    /\ SenderType /\ UNCHANGED <<senderVars>> => SenderType'
    /\ MetricsType /\ UNCHANGED <<metricsVars>> => MetricsType'
    /\ CallType /\ UNCHANGED <<callVars, boundVars>> => CallType'
    /\ HistoryType /\ UNCHANGED <<historyVars>> => HistoryType'
  BY DEF TracerType, TurnType, BufferType, RequestType, ZlibType, ReaderType,
         SenderType, MetricsType, CallType, HistoryType,
         tracerVars, turnVars, bufferVars, requestVars, zlibVars, requestTimerVars,
         streamVars, readerVars, senderVars, configVars, metricsTimerVars, gatherVars,
         metricsVars, callVars, boundVars, historyVars

\* Every variable has its type initially.
LEMMA TypeInit == Init => TypeOK
<1> SUFFICES ASSUME Init PROVE TypeOK
  OBVIOUS
<1>1. TracerType
  <2>1. <<>> \in Seq(Event)
    OBVIOUS
  <2> QED
    BY <2>1, NoStatsType DEF Init, TracerType
<1>2. TurnType
  BY DEF Init, TurnType
<1>3. BufferType
  BY NoStatsType, TracerLoopAssumption DEF Init, BufferType
<1>4. RequestType
  BY DEF Init, RequestType, GracePeriods
<1>5. ZlibType
  <2>1. <<>> \in Seq(Item)
    OBVIOUS
  <2> QED
    BY <2>1 DEF Init, ZlibType, Tags
<1>6. ReaderType
  BY DEF Init, ReaderType
<1>7. SenderType
  BY DEF Init, SenderType
<1>8. MetricsType
  <2>1. metricsTimerStart \in BOOLEAN
    BY DEF Init
  <2> QED
    BY <2>1 DEF Init, MetricsType
<1>9. CallType
  BY DEF Init, CallType
<1>10. HistoryType
  BY DEF Init, HistoryType, Places
<1> QED
  BY <1>1, <1>2, <1>3, <1>4, <1>5, <1>6, <1>7, <1>8, <1>9, <1>10 DEF TypeOK

\* Every step preserves the types: for each action, the groups it disturbs one
\* by one, and the frame for the others.
LEMMA TypeStep == TypeOK /\ [Next]_vars => TypeOK'
<1> SUFFICES ASSUME TypeOK, [Next]_vars PROVE TypeOK'
  OBVIOUS
<1> USE TracerLoopAssumption DEF TypeOK
<1>1. ASSUME NEW e \in Event, Enqueue(e) PROVE TypeOK'
  <2>1. tstats' \in StatsType
    <3>1. CASE UNCHANGED tstats
      BY <3>1 DEF TracerType
    <3>2. CASE tstats' = [tstats EXCEPT !.dropped[Kind[e]] = @ + 1]
      <4> DEFINE d == [tstats.dropped EXCEPT ![Kind[e]] = @ + 1]
      <4>1. d \in [Kinds -> Nat]
        BY DEF TracerType, StatsType
      <4>2. tstats' = [tstats EXCEPT !.dropped = d]
        BY <3>2
      <4> HIDE DEF d
      <4> QED
        BY <4>1, <4>2 DEF TracerType, StatsType
    <3> QED
      BY <1>1, <3>1, <3>2 DEF Enqueue
  <2>2. events' \in Seq(Event)
    <3>1. events' = Append(events, e) \/ events' = events
      BY <1>1 DEF Enqueue
    <3> QED
      BY <3>1 DEF TracerType
  <2>3. TracerType'
    BY <1>1, <2>1, <2>2 DEF Enqueue, TracerType
  <2>4. HistoryType'
    BY <1>1 DEF Enqueue, HistoryType, historyVars, Places
  <2> QED
    BY <1>1, <2>1, <2>2, <2>3, <2>4, TypeFrame
    DEF Enqueue, streamVars, metricsVars
<1>2. CASE CaseClosing
  <2>1. TurnType'
    BY <1>2 DEF CaseClosing, TurnType, turnVars
  <2>2. ReaderType'
    BY <1>2 DEF CaseClosing, ReaderType, readerVars
  <2> QED
    BY <1>2, <2>1, <2>2, TypeFrame
    DEF CaseClosing, streamVars, metricsVars
<1>3. CASE CaseConfigCommand
  <2>1. MetricsType'
    BY <1>3 DEF CaseConfigCommand, MetricsType, metricsVars, configVars,
       metricsTimerVars, gatherVars, HandleConfigCommand
  <2>2. CallType'
    BY <1>3 DEF CaseConfigCommand, CallType, callVars, boundVars
  <2> QED
    BY <1>3, <2>1, <2>2, TypeFrame
    DEF CaseConfigCommand, streamVars, metricsVars
<1>4. CASE CaseRefreshVersion
  <2>1. TurnType'
    BY <1>4 DEF CaseRefreshVersion, TurnType, turnVars
  <2>2. MetricsType'
    BY <1>4 DEF CaseRefreshVersion, MetricsType, metricsVars, configVars,
       metricsTimerVars, gatherVars
  <2> QED
    BY <1>4, <2>1, <2>2, TypeFrame
    DEF CaseRefreshVersion, streamVars, metricsVars
<1>5. CASE CaseEvent
  <2>1. Head(events) \in Event /\ Tail(events) \in Seq(Event)
    BY <1>5 DEF CaseEvent, TracerType
  <2>2. HandleEvent(Head(events))
    BY <1>5 DEF CaseEvent
  <2>3. buffer' \in Seq(Event) /\ stats' \in StatsType /\ at' \in [Event -> Places]
    BY <2>1, <2>2, HandleEventType DEF HistoryType
  <2>4. TracerType' /\ BufferType' /\ HistoryType'
    BY <1>5, <2>1, <2>3 DEF CaseEvent, TracerType, BufferType, HistoryType, tracerVars
  <2>5. TurnType' /\ RequestType'
    BY <1>5 DEF CaseEvent, TurnType, RequestType, turnVars, requestVars,
       requestTimerVars, streamVars
  <2> QED
    BY <1>5, <2>1, <2>2, <2>3, <2>4, <2>5, TypeFrame
    DEF CaseEvent, streamVars, metricsVars
<1>6. CASE CaseRequestTimer
  <2>1. TurnType'
    BY <1>6 DEF CaseRequestTimer, TurnType, turnVars
  <2>2. RequestType'
    BY <1>6 DEF CaseRequestTimer, RequestType, requestVars, requestTimerVars, streamVars
  <2> QED
    BY <1>6, <2>1, <2>2, TypeFrame
    DEF CaseRequestTimer, streamVars, metricsVars
<1>7. CASE CaseMetricsTimer
  <2>1. TurnType'
    BY <1>7 DEF CaseMetricsTimer, TurnType, turnVars
  <2>2. MetricsType'
    BY <1>7 DEF CaseMetricsTimer, MetricsType, metricsVars, configVars,
       metricsTimerVars, gatherVars
  <2> QED
    BY <1>7, <2>1, <2>2, TypeFrame
    DEF CaseMetricsTimer, streamVars, metricsVars
<1>8. CASE CaseGatheredMetrics
  <2>1. TurnType'
    BY <1>8 DEF CaseGatheredMetrics, TurnType, turnVars
  <2>2. BufferType'
    BY <1>8 DEF CaseGatheredMetrics, BufferType, bufferVars
  <2>3. RequestType'
    BY <1>8 DEF CaseGatheredMetrics, RequestType, requestVars, requestTimerVars, streamVars
  <2>4. MetricsType'
    BY <1>8 DEF CaseGatheredMetrics, MetricsType, metricsVars, configVars,
       metricsTimerVars, gatherVars
  <2> QED
    BY <1>8, <2>1, <2>2, <2>3, <2>4, TypeFrame
    DEF CaseGatheredMetrics, streamVars, metricsVars
<1>9. CASE Drain
  <2>1. Head(events) \in Event /\ Tail(events) \in Seq(Event)
    BY <1>9 DEF Drain, TracerType
  <2>2. HandleEvent(Head(events))
    BY <1>9 DEF Drain
  <2>3. buffer' \in Seq(Event) /\ stats' \in StatsType /\ at' \in [Event -> Places]
    BY <2>1, <2>2, HandleEventType DEF HistoryType
  <2>4. TracerType' /\ BufferType' /\ HistoryType'
    BY <1>9, <2>1, <2>3 DEF Drain, TracerType, BufferType, HistoryType, tracerVars
  <2>5. TurnType' /\ RequestType'
    BY <1>9 DEF Drain, TurnType, RequestType, turnVars, requestVars, requestTimerVars,
       streamVars
  <2> QED
    BY <1>9, <2>1, <2>2, <2>3, <2>4, <2>5, TypeFrame
    DEF Drain, streamVars, metricsVars
<1>10. CASE Drained
  <2>1. TurnType'
    BY <1>10 DEF Drained, TurnType, turnVars
  <2>2. RequestType'
    BY <1>10 DEF Drained, RequestType, requestVars, requestTimerVars, streamVars
  <2>3. CallType'
    BY <1>10 DEF Drained, CallType, callVars, boundVars, TurnType
  <2> QED
    BY <1>10, <2>1, <2>2, <2>3, TypeFrame
    DEF Drained, streamVars, metricsVars
<1>11. CASE CaseReadRequest
  <2>1. TurnType'
    BY <1>11 DEF CaseReadRequest, TurnType, turnVars
  <2>2. ReaderType'
    BY <1>11 DEF CaseReadRequest, ReaderType, readerVars
  <2> QED
    BY <1>11, <2>1, <2>2, TypeFrame
    DEF CaseReadRequest, streamVars, metricsVars
<1>12. CASE CaseRequestResult
  <2>1. TracerType' /\ BufferType'
    <3> DEFINE result == [NoStats EXCEPT
                !.sent = [k \in Kinds |-> IF requestResult = "ok" THEN requestBufCount[k] ELSE 0],
                !.errors = IF requestResult = "ok" THEN 0 ELSE 1]
    <3>1. result \in StatsType
      BY NoStatsType DEF StatsType, ZlibType, Tags
    <3>2. Accumulate(tstats, Accumulate(stats, result)) \in StatsType
      BY <3>1, AccumulateType DEF TracerType, BufferType
    <3> HIDE DEF result
    <3>3. tstats' = Accumulate(tstats, Accumulate(stats, result)) /\ stats' = NoStats
      BY <1>12 DEF CaseRequestResult, result
    <3> QED
      BY <1>12, <3>2, <3>3, NoStatsType DEF CaseRequestResult, TracerType, BufferType
  <2>2. RequestType'
    BY <1>12, GracePeriodType DEF CaseRequestResult, RequestType, GracePeriods,
       requestTimerVars
  <2>3. TurnType'
    BY <1>12 DEF CaseRequestResult, TellsMetrics, TurnType, turnVars
  <2>4. SenderType'
    BY <1>12 DEF CaseRequestResult, SenderType, senderVars
  <2>5. CallType'
    BY <1>12 DEF CaseRequestResult, TellsMetrics, CallType, callVars, boundVars, TurnType
  <2>6. HistoryType'
    BY <1>12 DEF CaseRequestResult, HistoryType, historyVars, Places
  <2> QED
    BY <1>12, <2>1, <2>2, <2>3, <2>4, <2>5, <2>6, TypeFrame
    DEF CaseRequestResult, streamVars, metricsVars
<1>13. CASE Notify
  <2>1. TurnType'
    BY <1>13 DEF Notify, TurnType, turnVars
  <2>2. RequestType'
    BY <1>13 DEF Notify, RequestType, requestVars, requestTimerVars, streamVars
  <2>3. ZlibType'
    BY <1>13 DEF Notify, ZlibType, zlibVars, streamVars, Tags
  <2>4. ReaderType'
    BY <1>13 DEF Notify, ReplaceReader, ReaderType, readerVars
  <2>5. CallType'
    BY <1>13 DEF Notify, CallType, callVars, boundVars, TurnType
  <2> QED
    BY <1>13, <2>1, <2>2, <2>3, <2>4, <2>5, TypeFrame
    DEF Notify, streamVars, metricsVars
<1>14. CASE Bottom
  <2>1. TracerType' /\ BufferType'
    BY <1>14, AccumulateType, NoStatsType DEF Bottom, PublishStats, TracerType, BufferType
  <2>2. ZlibType'
    <3>1. <<"header", "metadata">> \in Seq(Item)
      BY DEF Item
    <3>2. CASE UNCHANGED streamVars
      BY <3>2 DEF ZlibType, zlibVars, streamVars
    <3>3. CASE body' = <<"header", "metadata">> /\ emitted' = 1 /\ zlibFlushed' = FALSE
               /\ zlibClosed' = FALSE /\ UNCHANGED <<requestBytesRead, requestBufCount>>
      BY <3>1, <3>3 DEF ZlibType
    <3> QED
      BY <1>14, <3>2, <3>3 DEF Bottom, PublishStats
  <2>3. TurnType'
    BY <1>14 DEF Bottom, TurnType, turnVars
  <2>4. RequestType'
    BY <1>14 DEF Bottom, RequestType, requestVars, requestTimerVars, streamVars
  <2>5. ReaderType'
    BY <1>14 DEF Bottom, ReaderType, readerVars
  <2>6. SenderType'
    BY <1>14 DEF Bottom, SenderType, senderVars
  <2>7. MetricsType'
    BY <1>14 DEF Bottom, MetricsType, metricsVars, configVars, metricsTimerVars, gatherVars
  <2>8. CallType'
    BY <1>14 DEF Bottom, CallType, callVars, boundVars
  <2> QED
    BY <1>14, <2>1, <2>2, <2>3, <2>4, <2>5, <2>6, <2>7, <2>8, TypeFrame
    DEF Bottom, streamVars, metricsVars
<1>15. CASE Fill
  <2>1. BufferType' /\ ZlibType' /\ HistoryType'
    <3>1. CASE ~(~closeRequest \/ ~zlibClosed)
      BY <1>15, <3>1 DEF Fill, BufferType, ZlibType, HistoryType
    <3>2. CASE ~closeRequest \/ ~zlibClosed
      <4>1. PICK m \in 0..metricsBuffer, n \in 0..Len(buffer) :
            \E z \in emitted..(Len(body) + m + n) :
               /\ body' = body \o [i \in 1..m |-> "metricset"] \o SubSeq(buffer, 1, n)
               /\ emitted' = z
               /\ metricsBuffer' = metricsBuffer - m
               /\ buffer' = BQ!Without(buffer, n)
               /\ requestBufCount' = [t \in Tags |-> requestBufCount[t] +
                      IF t = "metricset" THEN m
                      ELSE Cardinality({i \in 1..n : Kind[buffer[i]] = t})]
               /\ at' = [e \in Event |->
                      IF \E i \in 1..n : buffer[i] = e THEN "request" ELSE at[e]]
               /\ zlibFlushed' = (zlibFlushed /\ m + n = 0)
        BY <1>15, <3>2 DEF Fill
      <4>2. m \in Nat /\ n \in Nat /\ n <= Len(buffer) /\ m <= metricsBuffer
        BY <4>1 DEF BufferType
      <4>3. BufferType'
        <5>1. buffer' \in Seq(Event)
          BY <4>1, <4>2 DEF BufferType, BQ!Without
        <5>2. stats' = stats
          BY <1>15 DEF Fill
        <5> QED
          BY <4>1, <4>2, <5>1, <5>2 DEF BufferType
      <4>4. body' \in Seq(Item)
        <5>1. [i \in 1..m |-> "metricset"] \in Seq(Item)
          BY <4>2 DEF Item
        <5>2. SubSeq(buffer, 1, n) \in Seq(Item)
          BY <4>2 DEF BufferType, Item
        <5> QED
          BY <4>1, <5>1, <5>2 DEF ZlibType
      <4>5. requestBufCount' \in [Tags -> Nat]
        <5>1. ASSUME NEW t \in Tags
              PROVE  Cardinality({i \in 1..n : Kind[buffer[i]] = t}) \in Nat
          <6>0. 1 \in Int /\ n \in Int
            BY <4>2
          <6>1. IsFiniteSet(1..n)
            BY <6>0, FS_Interval
          <6>2. IsFiniteSet({i \in 1..n : Kind[buffer[i]] = t})
            BY <6>1, FS_Subset
          <6> QED
            BY <6>2, FS_CardinalityType
        <5> DEFINE c(t) == Cardinality({i \in 1..n : Kind[buffer[i]] = t})
        <5>2. \A t \in Tags : c(t) \in Nat
          BY <5>1
        <5>3. requestBufCount' = [t \in Tags |->
                    requestBufCount[t] + IF t = "metricset" THEN m ELSE c(t)]
          BY <4>1
        <5> HIDE DEF c
        <5> QED
          BY <4>2, <5>2, <5>3 DEF ZlibType
      <4>6. emitted' \in Nat
        BY <4>1 DEF ZlibType
      <4>7. zlibFlushed' \in BOOLEAN
        BY <4>1
      <4>8. ZlibType'
        BY <1>15, <4>4, <4>5, <4>6, <4>7 DEF Fill, ZlibType
      <4>9. HistoryType'
        BY <1>15, <4>1 DEF Fill, HistoryType, Places
      <4> QED
        BY <4>3, <4>8, <4>9
    <3> QED
      BY <3>1, <3>2
  <2>2. TurnType'
    BY <1>15 DEF Fill, TurnType, turnVars
  <2>3. RequestType'
    BY <1>15 DEF Fill, RequestType, requestVars, requestTimerVars, streamVars
  <2> QED
    BY <1>15, <2>1, <2>2, <2>3, TypeFrame
    DEF Fill, streamVars, metricsVars
<1>16. CASE Finish
  <2>1. FinishedBody \in Seq(Item) /\ FinishedEmitted \in Nat
    BY DEF FinishedBody, FinishedEmitted, ZlibType, Item
  <2>2. ZlibType'
    BY <1>16, <2>1 DEF Finish, ZlibType, zlibVars
  <2>3. TurnType'
    BY <1>16 DEF Finish, TurnType, turnVars
  <2>4. RequestType'
    BY <1>16 DEF Finish, RequestType, requestVars, requestTimerVars, streamVars
  <2>5. ReaderType'
    BY <1>16 DEF Finish, ReaderType, readerVars
  <2> QED
    BY <1>16, <2>1, <2>2, <2>3, <2>4, <2>5, TypeFrame
    DEF Finish, streamVars, metricsVars
<1>17. CASE Exit
  <2>1. TurnType'
    BY <1>17 DEF Exit, TurnType, turnVars
  <2> QED
    BY <1>17, <2>1, TypeFrame
    DEF Exit, streamVars, metricsVars
<1>18. CASE GraceOver
  <2>1. ReaderType'
    BY <1>18 DEF GraceOver, ReaderType, readerVars
  <2>2. SenderType'
    BY <1>18 DEF GraceOver, SenderType, senderVars
  <2> QED
    BY <1>18, <2>1, <2>2, TypeFrame
    DEF GraceOver, streamVars, metricsVars
<1>19. CASE Gathered
  <2>1. MetricsType'
    BY <1>19 DEF Gathered, MetricsType, metricsVars, configVars, metricsTimerVars,
       gatherVars
  <2> QED
    BY <1>19, <2>1, TypeFrame
    DEF Gathered, streamVars, metricsVars
<1>20. CASE RefreshServerVersion
  <2>1. TracerType'
    BY <1>20 DEF RefreshServerVersion, TracerType, tracerVars
  <2>2. MetricsType'
    BY <1>20 DEF RefreshServerVersion, MetricsType, metricsVars, configVars,
       metricsTimerVars, gatherVars
  <2> QED
    BY <1>20, <2>1, <2>2, TypeFrame
    DEF RefreshServerVersion, streamVars, metricsVars
<1>21. ASSUME NEW m \in MetricsCaller, CaseForceSendMetrics(m) PROVE TypeOK'
  <2>1. TurnType'
    BY <1>21 DEF CaseForceSendMetrics, TurnType, turnVars
  <2>2. MetricsType'
    BY <1>21 DEF CaseForceSendMetrics, MetricsType, metricsVars, configVars,
       metricsTimerVars, gatherVars
  <2>3. CallType'
    BY <1>21 DEF CaseForceSendMetrics, CallType, callVars, boundVars, Caller
  <2> QED
    BY <1>21, <2>1, <2>2, <2>3, TypeFrame
    DEF CaseForceSendMetrics, streamVars, metricsVars
<1>22. ASSUME NEW f \in Flusher, CaseForceFlush(f) PROVE TypeOK'
  <2>1. TurnType'
    BY <1>22 DEF CaseForceFlush, TurnType, turnVars, TracerType, Caller
  <2>2. CallType'
    BY <1>22 DEF CaseForceFlush, CallType, callVars, boundVars, Caller
  <2> QED
    BY <1>22, <2>1, <2>2, TypeFrame
    DEF CaseForceFlush, streamVars, metricsVars
<1>23. CASE SendStream("ok") \/ SendStream("error")
  <2>1. TracerType'
    BY <1>23 DEF SendStream, TracerType, tracerVars
  <2>2. SenderType'
    BY <1>23 DEF SendStream, SenderType, senderVars
  <2> QED
    BY <1>23, <2>1, <2>2, TypeFrame
    DEF SendStream, streamVars, metricsVars
<1>24. ASSUME NEW c \in Flusher \cup MetricsCaller, Call(c) PROVE TypeOK'
  <2>1. CallType'
    BY <1>24 DEF Call, CallType, callVars, boundVars, Caller
  <2>2. HistoryType'
    BY <1>24 DEF Call, HistoryType, historyVars
  <2> QED
    BY <1>24, <2>1, <2>2, TypeFrame
    DEF Call, streamVars, metricsVars
<1>25. ASSUME NEW c \in Caller, Abort(c) \/ Returns(c) \/ CloseCheck(c) PROVE TypeOK'
  <2>1. CallType'
    BY <1>25 DEF Abort, Returns, Told, SeeClosed, CloseCheck, CallType, callVars,
       boundVars, Caller
  <2> QED
    BY <1>25, <2>1, TypeFrame
    DEF Abort, Returns, Told, SeeClosed, CloseCheck, streamVars, metricsVars
<1>26. ASSUME NEW c \in Caller, CloseClosing(c) PROVE TypeOK'
  <2>1. TracerType'
    BY <1>26 DEF CloseClosing, TracerType, tracerVars
  <2>2. CallType'
    BY <1>26 DEF CloseClosing, CallType, callVars, boundVars, Caller
  <2> QED
    BY <1>26, <2>1, <2>2, TypeFrame
    DEF CloseClosing, streamVars, metricsVars
<1>27. CASE UNCHANGED vars
  BY <1>27, TypeFrame DEF vars, streamVars, metricsVars
<1> QED
  BY <1>1, <1>2, <1>3, <1>4, <1>5, <1>6, <1>7, <1>8, <1>9, <1>10, <1>11, <1>12, <1>13,
     <1>14, <1>15, <1>16, <1>17, <1>18, <1>19, <1>20, <1>21, <1>22, <1>23, <1>24, <1>25,
     <1>26, <1>27
     DEF Next, Loop, Caller, Returns

\* Type correctness of the tracer loop.
THEOREM TypeCorrect == Spec => []TypeOK
  BY TypeInit, TypeStep, PTL DEF Spec

-----------------------------------------------------------------------------
(* The request stream *)

\* The inductive invariant behind OneRequest, RespondSafe, SentMeansRead and
\* StreamWellFormed.  A reader exists only during a request; the loop answers
\* only that reader; a closed compressor stays closed and wholly emitted until
\* the request is over; io.EOF is answered only after all of it was read.
ClosedStream ==
    requestActive /\ zlibClosed => closeRequest /\ emitted = Len(body)
EndOfStream ==
    /\ reading = "eof" => zlibClosed /\ requestBytesRead = Len(body)
    /\ requestResult = "ok" /\ reading # "closed" => reading = "eof"
Whereabouts ==
    /\ reading = "closed" <=> pc \in {"exit", "done"}
    /\ pc \in {"fill", "finish", "notify"} => requestActive
    /\ pc = "notify" => sender = "range" /\ requestResult = "none"
    /\ pc \notin {"exit", "done"} /\ ~requestActive =>
           reading = "none" /\ req = None /\ requestBytesRead = 0
StreamInv ==
    /\ OneRequest /\ RespondSafe /\ StreamWellFormed
    /\ ClosedStream /\ EndOfStream /\ Whereabouts

streamInvVars == <<pc, requestActive, closeRequest, zlibVars, readerVars, senderVars>>

\* Steps that leave the stream alone preserve the invariant.
LEMMA StreamFrame == StreamInv /\ UNCHANGED streamInvVars => StreamInv'
  BY DEF StreamInv, OneRequest, RespondSafe, StreamWellFormed, ClosedStream, EndOfStream,
         Whereabouts, streamInvVars, zlibVars, readerVars, senderVars

\* The invariant holds initially.
LEMMA StreamInit == Init => StreamInv
  BY DEF Init, StreamInv, OneRequest, RespondSafe, StreamWellFormed, ClosedStream,
         EndOfStream, Whereabouts

\* What concatenation does to lengths and indices.
LEMMA ConcatIndices ==
  ASSUME NEW S, NEW s \in Seq(S), NEW t \in Seq(S)
  PROVE  /\ s \o t \in Seq(S) /\ Len(s \o t) = Len(s) + Len(t)
         /\ \A i \in 1..Len(s) : (s \o t)[i] = s[i]
         /\ \A i \in (Len(s) + 1)..Len(s \o t) : (s \o t)[i] = t[i - Len(s)]
  OBVIOUS

\* Filling the request only extends an open stream with metricsets and events.
LEMMA StreamFill == TypeOK /\ StreamInv /\ Fill => StreamInv'
<1> SUFFICES ASSUME TypeOK, StreamInv, Fill PROVE StreamInv'
  OBVIOUS
<1>1. CASE closeRequest /\ zlibClosed
  BY <1>1 DEF Fill, StreamInv, OneRequest, RespondSafe, StreamWellFormed, ClosedStream,
              EndOfStream, Whereabouts, readerVars, senderVars
<1>2. CASE ~(closeRequest /\ zlibClosed)
  <2>1. ~zlibClosed /\ requestActive /\ reading # "eof" /\ pc = "fill"
    BY <1>2 DEF Fill, StreamInv, ClosedStream, EndOfStream, Whereabouts
  <2>2. PICK m \in 0..metricsBuffer, n \in 0..Len(buffer) :
        \E z \in emitted..(Len(body) + m + n) :
            body' = body \o [i \in 1..m |-> "metricset"] \o SubSeq(buffer, 1, n) /\ emitted' = z
    BY <1>2 DEF Fill
  <2> DEFINE ms == [i \in 1..m |-> "metricset"]
             es == SubSeq(buffer, 1, n)
  <2>3. m \in Nat /\ n \in Nat /\ n <= Len(buffer)
    BY <2>2 DEF TypeOK, BufferType
  <2>4. ms \in Seq(Item \ {"trailer"}) /\ Len(ms) = m
    BY <2>3 DEF Item
  <2>5. es \in Seq(Item \ {"trailer"}) /\ Len(es) = n
    BY <2>3, TracerLoopAssumption DEF TypeOK, BufferType, Item
  <2>6. body \in Seq(Item)
    BY DEF TypeOK, ZlibType
  <2> HIDE DEF ms, es
  <2>7. body' = (body \o ms) \o es
    BY <2>2 DEF ms, es
  <2> DEFINE bm == body \o ms
  <2>8. /\ bm \in Seq(Item) /\ Len(bm) = Len(body) + m
        /\ \A i \in 1..Len(body) : bm[i] = body[i]
        /\ \A i \in (Len(body) + 1)..Len(bm) : bm[i] = ms[i - Len(body)]
    <3>1. ms \in Seq(Item)
      BY <2>4
    <3> QED
      BY <2>4, <2>6, <3>1, ConcatIndices
  <2>9. \A i \in (Len(body) + 1)..Len(bm) : bm[i] # "trailer"
    BY <2>3, <2>4, <2>6, <2>8
  <2> HIDE DEF bm
  <2>10. /\ Len(body') = Len(bm) + n
         /\ \A i \in 1..Len(bm) : body'[i] = bm[i]
         /\ \A i \in (Len(bm) + 1)..Len(body') : body'[i] = es[i - Len(bm)]
    <3>1. es \in Seq(Item) /\ bm \in Seq(Item) /\ body' = bm \o es
      BY <2>5, <2>7, <2>8 DEF bm
    <3> QED
      BY <2>5, <3>1, ConcatIndices
  <2>11. \A i \in (Len(bm) + 1)..Len(body') : body'[i] # "trailer"
    BY <2>3, <2>5, <2>8, <2>10
  <2>12. /\ Len(body') = Len(body) + m + n
         /\ \A i \in 1..Len(body) : body'[i] = body[i]
         /\ \A i \in (Len(body) + 1)..Len(body') : body'[i] # "trailer"
    <3>1. Len(body) \in Nat /\ Len(bm) \in Nat /\ Len(body) <= Len(bm)
      BY <2>3, <2>6, <2>8
    <3>2. ASSUME NEW i \in (Len(body) + 1)..Len(body') PROVE body'[i] # "trailer"
      <4>1. CASE i <= Len(bm)
        <5>1. i \in (Len(body) + 1)..Len(bm) /\ i \in 1..Len(bm)
          BY <3>1, <3>2, <4>1
        <5> QED
          BY <2>9, <2>10, <5>1
      <4>2. CASE ~(i <= Len(bm))
        <5>1. i \in (Len(bm) + 1)..Len(body')
          BY <3>1, <3>2, <4>2
        <5> QED
          BY <2>11, <5>1
      <4> QED
        BY <4>1, <4>2
    <3>3. ASSUME NEW i \in 1..Len(body) PROVE body'[i] = body[i]
      <4>1. i \in 1..Len(bm)
        BY <3>1, <3>3
      <4> QED
        BY <2>8, <2>10, <3>3, <4>1
    <3>4. Len(body') = Len(body) + m + n
      BY <2>3, <2>8, <2>10, <3>1
    <3> QED
      BY <3>2, <3>3, <3>4
  <2>13. StreamWellFormed'
    <3>1. zlibClosed' = zlibClosed /\ requestBytesRead' = requestBytesRead
          /\ requestActive' = requestActive
      BY DEF Fill
    <3>2. emitted <= emitted' /\ emitted' <= Len(body')
      <4>1. emitted' \in emitted..(Len(body) + m + n)
        BY <2>2
      <4>2. emitted \in Nat /\ Len(body) + m + n \in Nat
        BY <2>3, <2>6 DEF TypeOK, ZlibType
      <4> QED
        BY <2>12, <4>1, <4>2
    <3>3. /\ Len(body) >= 2 /\ body[1] = "header" /\ body[2] = "metadata"
          /\ \A i \in 1..Len(body) : body[i] # "trailer"
          /\ requestBytesRead <= emitted
      BY <2>1 DEF StreamInv, StreamWellFormed
    <3>4. Len(body) \in Nat /\ emitted \in Nat /\ requestBytesRead \in Nat
          /\ Len(body') \in Nat /\ Len(body') >= Len(body)
      BY <2>3, <2>6, <2>12 DEF TypeOK, ZlibType
    <3>5. requestBytesRead' <= emitted'
      BY <2>2, <2>3, <3>1, <3>2, <3>3, <3>4
    <3>6. \A i \in 1..Len(body') : body'[i] # "trailer"
      BY <2>12, <3>3, <3>4
    <3> QED
      BY <2>1, <2>12, <3>1, <3>2, <3>3, <3>4, <3>5, <3>6 DEF StreamWellFormed
  <2> QED
    BY <2>1, <2>13 DEF Fill, StreamInv, OneRequest, RespondSafe, ClosedStream, EndOfStream,
                      Whereabouts, readerVars, senderVars
<1> QED
  BY <1>1, <1>2

\* Closing the compressor adds the trailer and emits everything; a read is
\* answered with io.EOF exactly when it takes the last of a closed stream.
LEMMA StreamFinish == TypeOK /\ StreamInv /\ Finish => StreamInv'
<1> SUFFICES ASSUME TypeOK, StreamInv, Finish PROVE StreamInv'
  OBVIOUS
<1>1. body \in Seq(Item) /\ emitted \in Nat /\ requestBytesRead \in Nat /\ pc = "finish"
  BY DEF TypeOK, ZlibType, Finish
<1>2. requestActive /\ reading # "closed" /\ req \in {None, iochanReader}
  BY <1>1 DEF StreamInv, Whereabouts, RespondSafe
<1>3. UNCHANGED <<requestActive, closeRequest, sender, requestResult, iochanReader>>
      /\ pc' = "select"
  BY DEF Finish, senderVars
<1>4. /\ zlibClosed' = (zlibClosed \/ Closes)
      /\ body' = FinishedBody /\ emitted' = FinishedEmitted
  BY DEF Finish
<1>5. /\ Len(body) >= 2 /\ body[1] = "header" /\ body[2] = "metadata"
      /\ \A i \in 1..Len(body) : body[i] = "trailer" <=> (zlibClosed /\ i = Len(body))
      /\ requestBytesRead <= emitted /\ emitted <= Len(body)
      /\ zlibClosed => closeRequest /\ emitted = Len(body)
  BY <1>2 DEF StreamInv, StreamWellFormed, ClosedStream
<1>6. /\ zlibClosed' => closeRequest /\ emitted' = Len(body')
      /\ emitted <= emitted' /\ emitted' <= Len(body') /\ emitted' \in Nat
      /\ Len(body') >= 2 /\ body'[1] = "header" /\ body'[2] = "metadata"
      /\ \A i \in 1..Len(body') : body'[i] = "trailer" <=> (zlibClosed' /\ i = Len(body'))
  <2>1. CASE Closes
    <3>1. body' = Append(body, "trailer") /\ emitted' = Len(body') /\ zlibClosed'
          /\ closeRequest /\ ~zlibClosed
      BY <1>4, <2>1 DEF FinishedBody, FinishedEmitted, Closes
    <3>2. /\ Len(body') = Len(body) + 1 /\ Len(body) \in Nat
          /\ \A i \in 1..Len(body) : body'[i] = body[i]
          /\ body'[Len(body) + 1] = "trailer"
      BY <1>1, <3>1
    <3> QED
      BY <1>1, <1>5, <3>1, <3>2
  <2>2. CASE ~Closes
    <3>1. body' = body /\ zlibClosed' = zlibClosed /\ emitted' \in {emitted, Len(body)}
      BY <1>4, <2>2 DEF FinishedBody, FinishedEmitted, TypeOK, ZlibType
    <3>2. Len(body) \in Nat
      BY <1>1
    <3>3. zlibClosed => emitted' = Len(body)
      BY <1>5, <3>1
    <3> QED
      BY <1>1, <1>5, <3>1, <3>2, <3>3
  <2> QED
    BY <2>1, <2>2
<1>7. CASE Answers
  <2>1. PICK n \in 1..(FinishedEmitted - requestBytesRead) :
           /\ requestBytesRead' = requestBytesRead + n
           /\ reading' = IF closeRequest /\ requestBytesRead + n = FinishedEmitted
                         THEN "eof" ELSE "idle"
           /\ req' = None
    BY <1>7 DEF Finish
  <2>2. requestBytesRead' <= emitted'
    BY <1>1, <1>4, <1>6, <2>1
  <2>3. reading = "await" /\ requestResult # "ok"
    BY <1>1, <1>2, <1>7 DEF Answers, StreamInv, RespondSafe, EndOfStream
  <2>4. closeRequest => zlibClosed'
    BY DEF Finish, Closes
  <2> QED
    BY <1>1, <1>2, <1>3, <1>4, <1>6, <2>1, <2>2, <2>3, <2>4
    DEF StreamInv, OneRequest, RespondSafe, StreamWellFormed, ClosedStream, EndOfStream,
        Whereabouts
<1>8. CASE ~Answers
  <2>1. UNCHANGED <<requestBytesRead, reading, req>>
    BY <1>8 DEF Finish
  <2>2. reading = "eof" => zlibClosed /\ body' = body /\ zlibClosed'
    BY DEF StreamInv, EndOfStream, Finish, FinishedBody, Closes
  <2>3. requestBytesRead' <= emitted'
    BY <1>1, <1>5, <1>6, <2>1
  <2> QED
    BY <1>1, <1>2, <1>3, <1>4, <1>6, <2>1, <2>2, <2>3
    DEF StreamInv, OneRequest, RespondSafe, StreamWellFormed, ClosedStream, EndOfStream,
        Whereabouts
<1> QED
  BY <1>7, <1>8

\* A step that only moves the loop from its select on, or asks for the request
\* to be closed, preserves the invariant.
LEMMA StreamTurn ==
  ASSUME StreamInv, pc \in {"select", "drain"}, pc' \in {"select", "drain", "bottom"},
         closeRequest => closeRequest',
         UNCHANGED <<requestActive, zlibVars, readerVars, senderVars>>
  PROVE  StreamInv'
  BY DEF StreamInv, OneRequest, RespondSafe, StreamWellFormed, ClosedStream, EndOfStream,
         Whereabouts, zlibVars, readerVars, senderVars

\* Every step preserves the invariant.
LEMMA StreamStep == TypeOK /\ StreamInv /\ [Next]_vars => StreamInv'
<1> SUFFICES ASSUME TypeOK, StreamInv, [Next]_vars PROVE StreamInv'
  OBVIOUS
<1>1. CASE Fill
  BY <1>1, StreamFill
<1>2. CASE Finish
  BY <1>2, StreamFinish
<1>3. CASE CaseClosing
  BY <1>3 DEF CaseClosing, streamVars, requestVars, zlibVars, senderVars, StreamInv, OneRequest,
     RespondSafe, StreamWellFormed, ClosedStream, EndOfStream, Whereabouts
<1>4. CASE CaseReadRequest
  BY <1>4 DEF CaseReadRequest, streamVars, requestVars, zlibVars, senderVars, StreamInv, OneRequest,
     RespondSafe, StreamWellFormed, ClosedStream, EndOfStream, Whereabouts
<1>5. CASE CaseRequestResult
  BY <1>5 DEF CaseRequestResult, zlibVars, readerVars, StreamInv, OneRequest,
     RespondSafe, StreamWellFormed, ClosedStream, EndOfStream, Whereabouts
<1>6. CASE Notify
  BY <1>6 DEF Notify, ReplaceReader, senderVars, StreamInv, OneRequest,
     RespondSafe, StreamWellFormed, ClosedStream, EndOfStream, Whereabouts
<1>7. CASE Bottom
  <2>1. CASE ~requestActive /\ pc' = "select" /\ UNCHANGED <<streamVars, sender, reading>>
    BY <1>7, <2>1 DEF Bottom, streamVars, requestVars, zlibVars, StreamInv,
       OneRequest, RespondSafe, StreamWellFormed, ClosedStream, EndOfStream, Whereabouts
  <2>2. CASE requestActive /\ pc' = "fill" /\ UNCHANGED <<streamVars, sender, reading>>
    BY <1>7, <2>2 DEF Bottom, streamVars, requestVars, zlibVars, StreamInv,
       OneRequest, RespondSafe, StreamWellFormed, ClosedStream, EndOfStream, Whereabouts
  <2>3. CASE /\ ~requestActive
             /\ \/ sender' = "grace" /\ UNCHANGED reading
                \/ sender' = "sending" /\ reading' = "idle"
             /\ requestActive' = TRUE
             /\ body' = <<"header", "metadata">> /\ emitted' = 1
             /\ zlibClosed' = FALSE
             /\ pc' = "fill" /\ UNCHANGED requestBytesRead
    <3>1. pc = "bottom" /\ UNCHANGED <<iochanReader, req, requestResult>>
      BY <1>7 DEF Bottom
    <3>2. reading = "none" /\ req = None /\ requestBytesRead = 0 /\ requestResult = "none"
      BY <2>3, <3>1 DEF StreamInv, Whereabouts, OneRequest
    <3>3. StreamWellFormed'
      BY <2>3, <3>2 DEF StreamWellFormed
    <3>4. OneRequest' /\ RespondSafe' /\ ClosedStream' /\ EndOfStream' /\ Whereabouts'
      BY <2>3, <3>1, <3>2 DEF OneRequest, RespondSafe, ClosedStream, EndOfStream,
                              Whereabouts
    <3> QED
      BY <3>3, <3>4 DEF StreamInv
  <2> QED
    BY <1>7, <2>1, <2>2, <2>3 DEF Bottom
<1>8. CASE Exit
  BY <1>8 DEF Exit, streamVars, requestVars, zlibVars, readerVars, senderVars, StreamInv, OneRequest,
     RespondSafe, StreamWellFormed, ClosedStream, EndOfStream, Whereabouts
<1>9. CASE GraceOver
  BY <1>9 DEF GraceOver, streamVars, requestVars, zlibVars, StreamInv, OneRequest,
     RespondSafe, StreamWellFormed, ClosedStream, EndOfStream, Whereabouts
<1>10. CASE SendStream("ok") \/ SendStream("error")
  BY <1>10 DEF SendStream, streamVars, requestVars, zlibVars, readerVars, StreamInv, OneRequest,
     RespondSafe, StreamWellFormed, ClosedStream, EndOfStream, Whereabouts
<1>11. CASE CaseRefreshVersion
  BY <1>11, StreamTurn DEF CaseRefreshVersion, streamVars, requestVars
<1>12. CASE CaseEvent
  BY <1>12, StreamTurn DEF CaseEvent
<1>13. CASE CaseMetricsTimer
  BY <1>13, StreamTurn DEF CaseMetricsTimer, streamVars, requestVars
<1>14. CASE CaseGatheredMetrics
  BY <1>14, StreamTurn DEF CaseGatheredMetrics
<1>15. CASE \E m \in MetricsCaller : CaseForceSendMetrics(m)
  BY <1>15, StreamTurn DEF CaseForceSendMetrics, streamVars, requestVars
<1>16. CASE \E f \in Flusher : CaseForceFlush(f)
  BY <1>16, StreamTurn DEF CaseForceFlush, streamVars, requestVars
<1>17. CASE CaseRequestTimer
  BY <1>17, StreamTurn DEF CaseRequestTimer
<1>18. CASE Drained
  BY <1>18, StreamTurn DEF Drained
<1>19. CASE \/ \E e \in Event : Enqueue(e)
            \/ CaseConfigCommand \/ Drain \/ Gathered \/ RefreshServerVersion
            \/ \E c \in Flusher \cup MetricsCaller : Call(c) \/ Abort(c)
            \/ \E c \in Caller : Returns(c)
            \/ \E c \in Closer : CloseCheck(c) \/ CloseClosing(c)
  BY <1>19, StreamFrame
  DEF Enqueue, CaseConfigCommand, Drain, Gathered, RefreshServerVersion, Call, Abort,
      Returns, Told, SeeClosed, CloseCheck, CloseClosing, streamInvVars, streamVars,
      requestVars
<1>20. CASE UNCHANGED vars
  BY <1>20, StreamFrame DEF vars, streamInvVars, streamVars, requestVars
<1> QED
  BY <1>1, <1>2, <1>3, <1>4, <1>5, <1>6, <1>7, <1>8, <1>9, <1>10, <1>11, <1>12, <1>13,
     <1>14, <1>15, <1>16, <1>17, <1>18, <1>19, <1>20
  DEF Next, Loop

\* A successful result means the whole stream, trailer included, was read.
LEMMA SentMeansReadLemma == TypeOK /\ StreamInv => SentMeansRead
<1> SUFFICES ASSUME TypeOK, StreamInv, requestResult = "ok", reading # "closed"
             PROVE  zlibClosed /\ requestBytesRead = Len(body) /\ body[Len(body)] = "trailer"
  BY DEF SentMeansRead
<1>1. zlibClosed /\ requestBytesRead = Len(body)
  BY DEF StreamInv, EndOfStream
<1>2. requestActive
  BY DEF StreamInv, Whereabouts, OneRequest
<1>3. Len(body) \in 1..Len(body)
  BY <1>2 DEF StreamInv, StreamWellFormed, TypeOK, ZlibType
<1> QED
  BY <1>1, <1>2, <1>3 DEF StreamInv, StreamWellFormed

\* The stream invariant, with the types it needs, holds of every behaviour.
LEMMA StreamInvariant == Spec => [](TypeOK /\ StreamInv)
  BY TypeInit, TypeStep, StreamInit, StreamStep, PTL DEF Spec

\* What the loop counts as sent was read by the transport to the last byte:
\* io.EOF is answered only after the compressor was closed and drained.
THEOREM SentWasRead == Spec => []SentMeansRead
  BY StreamInvariant, SentMeansReadLemma, PTL

\* Every request body starts with the metadata and has nothing after the zlib
\* trailer, although events arrive while a closed request is being drained.
THEOREM StreamIsWellFormed == Spec => []StreamWellFormed
<1>1. StreamInv => StreamWellFormed
  BY DEF StreamInv
<1> QED
  BY <1>1, StreamInvariant, PTL

\* The loop never answers a read of a reader that it has closed.
THEOREM RespondIsSafe == Spec => []RespondSafe
<1>1. StreamInv => RespondSafe
  BY DEF StreamInv
<1> QED
  BY <1>1, StreamInvariant, PTL

\* The loop and the sender goroutine agree on whether a request is under way.
THEOREM OneRequestAtATime == Spec => []OneRequest
<1>1. StreamInv => OneRequest
  BY DEF StreamInv
<1> QED
  BY <1>1, StreamInvariant, PTL
=============================================================================
