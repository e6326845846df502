---------------------------- MODULE MCComponents ----------------------------
(***************************************************************************)
(* Small instances of what goroutines of the agent share or hand each      *)
(* other, and of the HTTP transport and its users; one of them at a time.  *)
(***************************************************************************)
EXTENDS RingBuffer, IOChan, Breakdown, BodyCapture, HTTPTransport, ConfigWatch, Profiling, TLC

CONSTANTS
    empty, two, three, six,  \* blocks
    tx1, k1, k2, k3,         \* breakdown metrics keys: k1 and k2 collide
    g1, g2, g3,              \* recorders
    sp1, sp2, sp3,           \* spans
    r1, r2, r3, c1, c2,      \* requests and capturers
    s1, s2, s3,              \* servers
    cpu, heap                \* profilers

MCSize == (empty :> 0) @@ (two :> 2) @@ (three :> 3) @@ (six :> 6)

MCHash == (tx1 :> 1) @@ (k1 :> 2) @@ (k2 :> 2) @@ (k3 :> 3)
MCTxKeys == (g1 :> <<tx1, k1, k3>>) @@ (g2 :> <<tx1, k2>>) @@ (g3 :> <<k1>>)

\* sp2 is a child of sp1.
MCParent == (sp1 :> TheTx) @@ (sp2 :> sp1) @@ (sp3 :> TheTx)

MCKinds == (r1 :> <<"one", "first", "second", "one">>) @@ (r2 :> <<"first", "second", "one">>)
           @@ (r3 :> <<"one">>)
MCMode == (r1 :> {"transaction", "error"}) @@ (r2 :> {"error"}) @@ (r3 :> {"error"})

MCVersion == (s1 :> 7) @@ (s2 :> 8) @@ (s3 :> 0)
MCMaxAges == {-1, 0, 10}
MCInterval == (cpu :> 1) @@ (heap :> 2)

VARIABLE part

structureVars == <<vars, ioVars, mapVars, timeVars, bodyVars>>
transportVars == <<serverVars, watchVars, profileVars>>
allVars == <<part, structureVars, transportVars>>

AllInit ==
    /\ part \in {"ring buffer", "iochan", "maps", "self-times", "bodies", "servers", "watch", "profile"}
    /\ Init /\ IOInit /\ MapInit /\ TimeInit /\ BodyInit
    /\ ServerInit /\ WatchInit /\ ProfileInit
    /\ part # "servers" => urls = CHOOSE u \in Shuffles : TRUE

Structures ==
    /\ UNCHANGED <<part, transportVars>>
    /\ \/ part = "ring buffer" /\ Next /\ UNCHANGED <<ioVars, mapVars, timeVars, bodyVars>>
       \/ part = "iochan" /\ IONext /\ UNCHANGED <<vars, mapVars, timeVars, bodyVars>>
       \/ part = "maps" /\ MapNext /\ UNCHANGED <<vars, ioVars, timeVars, bodyVars>>
       \/ part = "self-times" /\ TimeNext /\ UNCHANGED <<vars, ioVars, mapVars, bodyVars>>
       \/ part = "bodies" /\ BodyNext /\ UNCHANGED <<vars, ioVars, mapVars, timeVars>>

Transport ==
    /\ UNCHANGED <<part, structureVars>>
    /\ \/ part = "servers" /\ ServerNext /\ UNCHANGED <<watchVars, profileVars>>
       \/ part = "watch" /\ WatchNext /\ UNCHANGED <<serverVars, profileVars>>
       \/ part = "profile" /\ ProfileNext /\ UNCHANGED <<serverVars, watchVars>>

\* A Read goes on when one of the cases it waits for is ready.
ReadStep == /\ part = "iochan" /\ (ReadClosedCase \/ ReadReturn)
            /\ UNCHANGED <<part, vars, mapVars, timeVars, bodyVars, transportVars>>

\* The goroutine of a watch goes on, the tracer loop takes what it offers, and
\* the server answers in the end.
WatchStep == /\ part = "watch" /\ (WatchSend \/ WatchPoll \/ WatchGood)
             /\ UNCHANGED <<part, structureVars, serverVars, profileVars>>

\* The loop takes a change it is offered even if the poll timer keeps firing:
\* a select chooses at random among the ready cases.
WatchTaken == /\ part = "watch" /\ WatchSend
              /\ UNCHANGED <<part, structureVars, serverVars, profileVars>>

\* Timers fire, and a select of the tracer loop and the goroutine of a profiler go on.
ProfileStep(p) ==
    /\ part = "profile"
    /\ TimerFires(p) \/ Start(p) \/ Finished(p)
         \/ SendProfile(p) \/ WriteProfile(p) \/ SendProfileReturns(p)
    /\ UNCHANGED <<part, structureVars, serverVars, watchVars>>

AllSpec ==
    /\ AllInit /\ [][Structures \/ Transport]_allVars
    /\ WF_allVars(ReadStep)
    /\ WF_allVars(WatchStep) /\ SF_allVars(WatchTaken)
    /\ \A p \in Profiler : WF_allVars(ProfileStep(p))

\* Nobody waits for ever: a Read of a closed reader returns, the last central
\* configuration arrives, and profiles keep coming.
GoroutinesGoOn == ReadReturns /\ ConfigArrives /\ ProfilesKeepComing
=============================================================================
