------------------------------ MODULE Profiling ------------------------------
(***************************************************************************)
(* profiling.go and the profiling cases of the tracer loop: the CPU and    *)
(* the heap profiler, each with a timer of the loop and a goroutine that   *)
(* captures a profile into the profiler's one buffer and sends it; and     *)
(* HTTPTransport.SendProfile (transport/http.go), whose requests share the *)
(* transport's header map.                                                 *)
(***************************************************************************)
EXTENDS Integers

CONSTANTS
    Profiler,         \* "cpu" and "heap"
    ProfileInterval,  \* the configured intervals of each profiler, 0 for none
    MaxRecordings,    \* bound: changes of recording
    NoProfiler

ASSUME ProfilingAssumption ==
    /\ ProfileInterval \in [Profiler -> Nat]
    /\ MaxRecordings \in Nat
    /\ NoProfiler \notin Profiler

VARIABLES
    recording,     \* cfg.recording
    interval,      \* interval[p]: profilingState.interval
    timerStart,    \* timerStart[p]: profilingState.timerStart is not zero
    timer,         \* timer[p]: "stopped", "running" or "fired" (a value in its channel)
    finished,      \* finished[p]: values in profilingState.finished, of capacity 1
    goroutines,    \* goroutines[p]: how many goroutines that start spawned are running
    profile,       \* profile[p]: where the (last) goroutine is
    done,          \* the loop has stopped and ctx is done
    contentType,   \* profileHeaders["Content-Type"]: whose boundary it names
    written,       \* written[p]: the boundary the headers of p's last request named
    overlapped,    \* history: overlapped[p]: p's last request overlapped another profiler's
    recordings     \* bounded

profileVars == <<recording, interval, timerStart, timer, finished, goroutines, profile, done,
                 contentType, written, overlapped, recordings>>

-----------------------------------------------------------------------------
(* The tracer loop *)

\* resetTimer: the new timerStart and the new state of the timer.
ResetTimer(p, i) ==
    IF i # 0 THEN [start |-> TRUE, timer |-> "running"]
             ELSE [start |-> FALSE, timer |-> timer[p]]

\* Mutant: updateConfig does not look whether the timer was started.
UpdatableAlways(p, i) == interval[p] # i

\* updateConfig takes a new interval only if the timer is not running.
Updatable(p, i) == interval[p] # i /\ ~timerStart[p]

\* handleTracerConfigCommand, changing recording: both profilers are updated,
\* with an interval of 0 while nothing is recorded.
UpdateConfig(rec) ==
    /\ ~done /\ recordings < MaxRecordings /\ rec # recording
    /\ recordings' = recordings + 1
    /\ recording' = rec
    /\ LET new == [p \in Profiler |-> IF rec THEN ProfileInterval[p] ELSE 0]
           updated == {p \in Profiler : Updatable(p, new[p])}
           reset == [p \in updated |-> ResetTimer(p, new[p])] IN
       /\ interval' = [p \in Profiler |-> IF p \in updated THEN new[p] ELSE interval[p]]
       /\ timerStart' = [p \in Profiler |-> IF p \in updated THEN reset[p].start
                                                            ELSE timerStart[p]]
       /\ timer' = [p \in Profiler |-> IF p \in updated THEN reset[p].timer ELSE timer[p]]
    /\ UNCHANGED <<finished, goroutines, profile, done, contentType, written, overlapped>>

TimerFires(p) ==
    /\ timer[p] = "running"
    /\ timer' = [timer EXCEPT ![p] = "fired"]
    /\ UNCHANGED <<recording, interval, timerStart, finished, goroutines, profile, done,
                   contentType, written, overlapped, recordings>>

\* case <-state.timer.C: start spawns the goroutine.
Start(p) ==
    /\ ~done /\ timer[p] = "fired"
    /\ timer' = [timer EXCEPT ![p] = "stopped"]
    /\ goroutines' = [goroutines EXCEPT ![p] = @ + 1]
    /\ profile' = [profile EXCEPT ![p] = "capturing"]
    /\ UNCHANGED <<recording, interval, timerStart, finished, done, contentType, written,
                   overlapped, recordings>>

\* Mutant: the timer is not set again.
FinishedForgets(p) ==
    /\ ~done /\ finished[p] > 0
    /\ finished' = [finished EXCEPT ![p] = @ - 1]
    /\ UNCHANGED <<recording, interval, timerStart, timer, goroutines, profile, done,
                   contentType, written, overlapped, recordings>>

\* case <-state.finished: the timer is started again, with the interval it has.
Finished(p) ==
    /\ ~done /\ finished[p] > 0
    /\ finished' = [finished EXCEPT ![p] = @ - 1]
    /\ LET reset == ResetTimer(p, interval[p]) IN
       /\ timerStart' = [timerStart EXCEPT ![p] = reset.start]
       /\ timer' = [timer EXCEPT ![p] = reset.timer]
    /\ UNCHANGED <<recording, interval, goroutines, profile, done, contentType, written,
                   overlapped, recordings>>

\* The loop returns; the goroutines see their context done.
Stop ==
    /\ ~done /\ done' = TRUE
    /\ UNCHANGED <<recording, interval, timerStart, timer, finished, goroutines, profile,
                   contentType, written, overlapped, recordings>>

-----------------------------------------------------------------------------
(* The goroutine of a profiler *)

Exit(p) ==
    /\ profile' = [profile EXCEPT ![p] = "none"]
    /\ goroutines' = [goroutines EXCEPT ![p] = @ - 1]
    /\ finished[p] < 1
    /\ finished' = [finished EXCEPT ![p] = @ + 1]

\* profile fails: it cannot start, or ctx is done while it waits.
ProfileFails(p) ==
    /\ profile[p] = "capturing"
    /\ Exit(p)
    /\ UNCHANGED <<recording, interval, timerStart, timer, done, contentType, written,
                   overlapped, recordings>>

\* profile has filled the buffer; SendProfile takes the transport's header map
\* and sets its Content-Type to that of the multipart body, with its boundary.
SendProfile(p) ==
    /\ profile[p] = "capturing"
    /\ contentType' = p
    /\ profile' = [profile EXCEPT ![p] = "sending"]
    /\ overlapped' = [q \in Profiler |->
           IF q = p THEN \E r \in Profiler \ {p} : profile[r] = "sending"
                    ELSE overlapped[q] \/ profile[q] = "sending"]
    /\ UNCHANGED <<recording, interval, timerStart, timer, finished, goroutines, done, written,
                   recordings>>

\* Mutant: the boundary is that of the last profiler that had one.
BoundaryStale(p) == IF written[p] = NoProfiler THEN contentType ELSE written[p]

\* The boundary that Client.Do finds in the headers.
Boundary(p) == contentType

\* Client.Do writes the headers and then the parts, with p's own boundary.
WriteProfile(p) ==
    /\ profile[p] = "sending"
    /\ written' = [written EXCEPT ![p] = Boundary(p)]
    /\ profile' = [profile EXCEPT ![p] = "written"]
    /\ UNCHANGED <<recording, interval, timerStart, timer, finished, goroutines, done,
                   contentType, overlapped, recordings>>

\* SendProfile returns, with an error or not.
SendProfileReturns(p) ==
    /\ profile[p] = "written"
    /\ Exit(p)
    /\ UNCHANGED <<recording, interval, timerStart, timer, done, contentType, written,
                   overlapped, recordings>>

-----------------------------------------------------------------------------

\* newProfilingState and the first configuration command, which sets recording.
ProfileInit ==
    /\ recording = FALSE
    /\ interval = [p \in Profiler |-> 0]
    /\ timerStart = [p \in Profiler |-> FALSE] /\ timer = [p \in Profiler |-> "stopped"]
    /\ finished = [p \in Profiler |-> 0] /\ goroutines = [p \in Profiler |-> 0]
    /\ profile = [p \in Profiler |-> "none"] /\ done = FALSE
    /\ contentType = NoProfiler /\ written = [p \in Profiler |-> NoProfiler]
    /\ overlapped = [p \in Profiler |-> FALSE] /\ recordings = 0

ProfileNext ==
    \/ \E rec \in BOOLEAN : UpdateConfig(rec)
    \/ Stop
    \/ \E p \in Profiler : \/ TimerFires(p) \/ Start(p) \/ Finished(p)
                           \/ ProfileFails(p) \/ SendProfile(p) \/ WriteProfile(p)
                           \/ SendProfileReturns(p)

ProfileSpec == ProfileInit /\ [][ProfileNext]_profileVars

-----------------------------------------------------------------------------
(* Properties *)

\* A profiler captures into its buffer only when no other goroutine of it still
\* sends from the buffer, however recording is switched, and the channel has
\* room for the goroutine's signal, so that a loop that has stopped leaves no
\* goroutine behind.
BufferPrivate == \A p \in Profiler : goroutines[p] + finished[p] <= 1

\* A profile is sent with the boundary of its own body, unless two profilers
\* send at the same time: they write the same header map (transport/http.go:422).
BoundaryOwn == \A p \in Profiler : profile[p] = "written" => written[p] = p \/ overlapped[p]

\* Profiles keep being taken once they were started, until the loop stops.
ProfilesKeepComing ==
    \A p \in Profiler : timerStart[p] /\ interval[p] # 0 ~> profile[p] = "capturing" \/ done

\* Profiles do not mix, neither two of one profiler nor those of two.
ProfilesSeparate == BufferPrivate /\ BoundaryOwn
=============================================================================
