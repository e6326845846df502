-------------------------- MODULE TransportProofs --------------------------
(***************************************************************************)
(* Theorems about the transport and the goroutines that use it, and about  *)
(* the requests that carry a trace between services, for every value of    *)
(* their constants: the reader of a request's body (IOChan), the central   *)
(* configuration watcher (ConfigWatch), the profilers (Profiling), the     *)
(* servers of an HTTPTransport (HTTPTransport), the headers of a trace     *)
(* (TraceContext) and the encoders of what is sent (Encoding).             *)
(***************************************************************************)
EXTENDS IOChan, ConfigWatch, Profiling, HTTPTransport, TraceContext, Encoding,
        FiniteSetTheorems, SequenceTheorems, WellFoundedInduction, TLAPS

-----------------------------------------------------------------------------
(* The reader *)

\* The inductive invariant behind ReaderSafe: the loop holds a request, or its
\* answer is in the channel, only while the Read that sent it waits, and never
\* both; CloseRead has taken away the request.
ReaderInv ==
    /\ readClosed \in BOOLEAN /\ reads \in Nat /\ req \in Nat
    /\ reading \in {"idle", "selecting", "waiting"}
    /\ resp = <<>> \/ resp = <<reads>>
    /\ req # 0 => ~readClosed /\ reading = "waiting" /\ req = reads /\ resp = <<>>
    /\ resp # <<>> => reading = "waiting"
    /\ ReaderSafe

\* The channel holds one answer at most, and it is taken from its head.
LEMMA OneAnswer ==
    \A n \in Nat : /\ <<n>> # <<>> /\ Head(<<n>>) = n /\ Tail(<<n>>) = <<>>
                   /\ Append(<<>>, n) = <<n>> /\ Len(<<n>>) = 1
OBVIOUS

\* Every step of the transport and of the loop preserves the invariant.
LEMMA ReaderStep == ReaderInv /\ [IONext]_ioVars => ReaderInv'
<1> SUFFICES ASSUME ReaderInv, [IONext]_ioVars PROVE ReaderInv'
  OBVIOUS
<1> USE DEF ReaderInv, ReaderSafe, ReadsOwnAnswer, NoSendOnClosed
<1>1. CASE ReadStart
  BY <1>1 DEF ReadStart
<1>2. CASE ReadClosedCase
  BY <1>2, OneAnswer DEF ReadClosedCase
<1>3. CASE ReadSendCase
  BY <1>3 DEF ReadSendCase
<1>4. CASE ReadReturn
  <2>1. CASE resp = <<>>
    BY <1>4, <2>1 DEF ReadReturn
  <2>2. CASE resp = <<reads>>
    BY <1>4, <2>2, OneAnswer DEF ReadReturn
  <2> QED
    BY <2>1, <2>2
<1>5. CASE Respond
  BY <1>5, OneAnswer DEF Respond, Forgets
<1>6. CASE CloseRead
  BY <1>6 DEF CloseRead, Cancels
<1>7. CASE UNCHANGED ioVars
  BY <1>7 DEF ioVars
<1> QED
  BY <1>1, <1>2, <1>3, <1>4, <1>5, <1>6, <1>7 DEF IONext

\* However reads, answers and CloseRead (internal/iochan/reader.go) interleave,
\* a Read returns the answer to its own request or the error of CloseRead, and
\* no answer is sent on the closed channel.
THEOREM ReaderIsSafe == IOSpec => []ReaderSafe
<1>1. IOInit => ReaderInv
  <2> SUFFICES ASSUME IOInit PROVE ReaderInv
    OBVIOUS
  <2>1. ~panicked /\ readClosed \in BOOLEAN
    BY DEF IOInit
  <2> QED
    BY <2>1 DEF IOInit, ReaderInv, ReaderSafe, ReadsOwnAnswer, NoSendOnClosed
<1>2. ReaderInv => ReaderSafe
  BY DEF ReaderInv
<1> QED
  BY <1>1, <1>2, ReaderStep, PTL DEF IOSpec

-----------------------------------------------------------------------------
(* The central configuration watcher *)

\* The inductive invariant behind WatchExact.  What is offered is what the etag
\* stands for, or came without one.  As long as every configuration came with
\* its etag, the etag is that of the newest one offered, which is newer than
\* the one received unless it is that one.
WatchInv ==
    /\ config \in Nat /\ outCh \in BOOLEAN /\ blank \in BOOLEAN
    /\ overwritten \in BOOLEAN /\ repeated \in BOOLEAN
    /\ etag \in Nat \cup {NoConfig} /\ received \in Nat \cup {NoConfig}
    /\ change \in Nat \cup {NoConfig}
    /\ change # NoConfig => outCh /\ etag \in {change, NoConfig}
    /\ etag # NoConfig => etag <= config
    /\ ~blank => /\ received # NoConfig => etag # NoConfig /\ received <= etag
                 /\ change # NoConfig => change = etag /\ received # change
    /\ WatchExact

\* An answer of the server as configRequest returns it: attributes only without
\* an error, and then those of the current configuration, which the watcher did
\* not have, or that come without an etag; five seconds of rest after an error
\* status.
Sane(r) ==
    /\ r.err \in BOOLEAN
    /\ r.attrs # NoConfig => /\ ~r.err /\ r.attrs = config
                             /\ \/ r.etag = NoConfig
                                \/ r.etag = config /\ etag # config
    /\ r.err /\ r.etag = NoConfig => r.maxAge >= MinErrorMaxAge

\* Every answer the model allows is such an answer.
LEMMA AnswersSane ==
    ASSUME WatchInv
    PROVE  \A r \in Good \cup Bad : Sane(r)
<1> USE DEF Sane, Response
<1>1. \A age \in MaxAges : age \in Int
  BY ConfigWatchAssumption
<1>2. \A r \in Good : Sane(r)
  <2>1. ASSUME NEW age \in MaxAges
        PROVE  etag # config => Sane(OK(config, age))
    BY DEF OK, WatchInv
  <2>2. ASSUME NEW age \in MaxAges PROVE Sane(NotModified(age))
    BY DEF NotModified
  <2> QED
    BY <2>1, <2>2 DEF Good
<1>3. Sane(Unanswered)
  BY DEF Unanswered, DefaultMaxAge, MinErrorMaxAge
<1>4. ASSUME NEW age \in MaxAges
      PROVE  Sane(NotModified(age)) /\ Sane(OK(NoConfig, age)) /\ Sane(Undecodable(age))
  BY ConfigWatchAssumption DEF NotModified, OK, Undecodable, WatchInv
<1>5. ASSUME NEW age \in MaxAges PROVE Sane(Failure(age))
  BY <1>1 DEF Failure, ErrorInterval, PollInterval, DefaultMaxAge, MinErrorMaxAge
<1> HIDE DEF Sane, Response
<1> QED
  BY <1>2, <1>3, <1>4, <1>5 DEF Bad

\* Taking in such an answer preserves the invariant.
LEMMA WatchAnswerStep ==
    ASSUME WatchInv, NEW r, Sane(r), poll = "asking", WatchAnswer(r)
    PROVE  WatchInv'
<1>1. UNCHANGED <<config, received, repeated>>
  BY DEF WatchAnswer
<1>2. ErrorsPaced'
  BY DEF WatchAnswer, Sane, ErrorsPaced
<1>3. CASE r.err
  <2>1. r.attrs = NoConfig
    BY <1>3 DEF Sane
  <2>2. outCh' = TRUE /\ change' = NoConfig /\ etag' = etag
    BY <1>3, <2>1 DEF WatchAnswer, Offers, NextEtag
  <2>3. blank' = blank /\ overwritten' = (overwritten \/ (outCh /\ change # NoConfig))
    BY <1>3, <2>1 DEF WatchAnswer, WatchInv
  <2> QED
    BY <1>1, <1>2, <2>2, <2>3 DEF WatchInv, WatchExact, ChangeNotLost, NotRepeated
<1>4. CASE ~r.err /\ r.attrs = NoConfig
  <2>1. UNCHANGED <<outCh, change, etag>>
    BY <1>4 DEF WatchAnswer, Offers, NextEtag
  <2>2. blank' = blank /\ overwritten' = overwritten
    BY <1>4 DEF WatchAnswer, WatchInv
  <2> QED
    BY <1>1, <1>2, <2>1, <2>2 DEF WatchInv, WatchExact, ChangeNotLost, NotRepeated
<1>5. CASE ~r.err /\ r.attrs # NoConfig
  <2>1. r.attrs = config /\ (r.etag = NoConfig \/ (r.etag = config /\ etag # config))
    BY <1>5 DEF Sane
  <2>2. outCh' = TRUE /\ change' = config /\ etag' = r.etag
    BY <1>5, <2>1 DEF WatchAnswer, Offers, NextEtag
  <2>3. blank' = (blank \/ r.etag = NoConfig) /\ overwritten' = overwritten
    BY <1>5 DEF WatchAnswer, WatchInv
  <2>4. CASE r.etag = NoConfig
    BY <1>1, <1>2, <2>2, <2>3, <2>4 DEF WatchInv, WatchExact, ChangeNotLost, NotRepeated
  <2>5. CASE r.etag = config /\ etag # config
    <3>1. config # NoConfig /\ blank' = blank
      BY <2>3, <2>5, ConfigWatchAssumption DEF WatchInv
    <3>2. ~blank /\ received # NoConfig => received <= config /\ received # config
      BY <2>5, ConfigWatchAssumption DEF WatchInv
    <3> QED
      BY <1>1, <1>2, <2>2, <2>3, <2>5, <3>1, <3>2
      DEF WatchInv, WatchExact, ChangeNotLost, NotRepeated
  <2> QED
    BY <2>1, <2>4, <2>5
<1> QED
  BY <1>3, <1>4, <1>5 DEF Sane

\* Every step of the watcher, the server and the loop preserves the invariant.
LEMMA WatchStep == WatchInv /\ [WatchNext]_watchVars => WatchInv'
<1> SUFFICES ASSUME WatchInv, [WatchNext]_watchVars PROVE WatchInv'
  OBVIOUS
<1> USE DEF WatchInv, WatchExact, ChangeNotLost, NotRepeated, ErrorsPaced
<1>1. CASE WatchSend
  <2>1. CASE change = NoConfig
    BY <1>1, <2>1 DEF WatchSend
  <2>2. CASE change # NoConfig
    <3>1. repeated' \in BOOLEAN /\ (repeated' => blank)
      BY <1>1, <2>2 DEF WatchSend
    <3>2. /\ received' = change /\ outCh' = FALSE /\ change' = NoConfig
          /\ UNCHANGED <<etag, poll, wait, config, blank, overwritten, answer>>
      BY <1>1, <2>2 DEF WatchSend
    <3>3. NotRepeated'
      BY <3>1, <3>2
    <3>4. ChangeNotLost' /\ ErrorsPaced'
      BY <2>2, <3>2
    <3>5. ~blank => etag = change /\ change \in Nat /\ change <= change
      BY <2>2
    <3> HIDE DEF WatchExact, ChangeNotLost, NotRepeated, ErrorsPaced
    <3>6. WatchExact'
      BY <3>3, <3>4 DEF WatchExact
    <3> QED
      BY <2>2, <3>1, <3>2, <3>5, <3>6
  <2> QED
    BY <2>1, <2>2
<1>2. CASE WatchPoll
  BY <1>2 DEF WatchPoll
<1>3. CASE WatchGood \/ WatchBad
  <2>1. PICK r \in Good \cup Bad : WatchAnswer(r)
    BY <1>3 DEF WatchGood, WatchBad
  <2>2. poll = "asking"
    BY <1>3 DEF WatchGood, WatchBad
  <2>3. Sane(r)
    BY AnswersSane
  <2> QED
    BY <2>1, <2>2, <2>3, WatchAnswerStep
<1>4. CASE WatchCancel
  BY <1>4 DEF WatchCancel
<1>5. CASE ChangeConfig
  BY <1>5 DEF ChangeConfig
<1>6. CASE UNCHANGED watchVars
  BY <1>6 DEF watchVars
<1> QED
  BY <1>1, <1>2, <1>3, <1>4, <1>5, <1>6 DEF WatchNext

\* WatchConfig (transport/http.go) offers the loop every configuration whose etag
\* it keeps, unless an error takes its place, does not offer one twice unless it
\* came without an etag, and polls a server in trouble every five seconds at most.
THEOREM WatchIsExact == WatchSpec => []WatchExact
<1>1. WatchInit => WatchInv
  <2> SUFFICES ASSUME WatchInit PROVE WatchInv
    OBVIOUS
  <2>1. ~outCh /\ ~repeated /\ ~blank /\ ~overwritten /\ ~answer.err
    BY DEF WatchInit, Response
  <2>2. outCh \in BOOLEAN /\ repeated \in BOOLEAN /\ blank \in BOOLEAN
          /\ overwritten \in BOOLEAN
    BY DEF WatchInit
  <2> QED
    BY <2>1, <2>2
    DEF WatchInit, WatchInv, WatchExact, ChangeNotLost, NotRepeated, ErrorsPaced
<1>2. WatchInv => WatchExact
  BY DEF WatchInv
<1> QED
  BY <1>1, <1>2, WatchStep, PTL DEF WatchSpec

-----------------------------------------------------------------------------
(* The profilers *)

\* The types of a profiler's variables.
ProfileTypes ==
    /\ interval \in [Profiler -> Nat] /\ timerStart \in [Profiler -> BOOLEAN]
    /\ timer \in [Profiler -> {"stopped", "running", "fired"}]
    /\ finished \in [Profiler -> Nat] /\ goroutines \in [Profiler -> Nat]
    /\ profile \in [Profiler -> {"none", "capturing", "sending", "written"}]
    /\ written \in [Profiler -> Profiler \cup {NoProfiler}]
    /\ contentType \in Profiler \cup {NoProfiler} /\ overlapped \in [Profiler -> BOOLEAN]

\* The inductive invariant behind BufferPrivate: a profiler whose timer is set has
\* no goroutine and no signal of one, and one whose timerStart is zero has none
\* of the three, so that neither updateConfig nor the signal sets the timer while
\* a goroutine runs.
OneGoroutine(p) ==
    /\ goroutines[p] + finished[p] <= 1
    /\ profile[p] # "none" => goroutines[p] = 1
    /\ timer[p] # "stopped" => goroutines[p] = 0 /\ finished[p] = 0
    /\ ~timerStart[p] => timer[p] = "stopped" /\ goroutines[p] = 0 /\ finished[p] = 0

\* The inductive invariant behind BoundaryOwn: the header map names the sender's
\* boundary until another profiler begins to send.
OwnBoundary(p) ==
    /\ profile[p] = "sending" => contentType = p \/ overlapped[p]
    /\ profile[p] = "written" => written[p] = p \/ overlapped[p]

ProfileInv ==
    /\ ProfileTypes
    /\ \A p \in Profiler : OneGoroutine(p) /\ OwnBoundary(p)

\* Every step of the loop and of the profilers' goroutines preserves the
\* invariant.
LEMMA ProfileStep == ProfileInv /\ [ProfileNext]_profileVars => ProfileInv'
<1> SUFFICES ASSUME ProfileInv, [ProfileNext]_profileVars PROVE ProfileInv'
  OBVIOUS
<1> USE DEF ProfileInv, ProfileTypes, OneGoroutine, OwnBoundary
<1>1. ASSUME NEW rec \in BOOLEAN, UpdateConfig(rec) PROVE ProfileInv'
  <2> DEFINE new == [p \in Profiler |-> IF rec THEN ProfileInterval[p] ELSE 0]
             updated == {p \in Profiler : Updatable(p, new[p])}
  <2>1. new \in [Profiler -> Nat]
    BY ProfilingAssumption
  <2>2. UNCHANGED <<finished, goroutines, profile, contentType, written, overlapped>>
    BY <1>1 DEF UpdateConfig
  <2> HIDE DEF new
  <2>3. interval' = [p \in Profiler |-> IF p \in updated THEN new[p] ELSE interval[p]]
    BY <1>1 DEF UpdateConfig, new
  <2>4. timerStart' = [p \in Profiler |-> IF p \in updated THEN new[p] # 0
                                                          ELSE timerStart[p]]
    BY <1>1 DEF UpdateConfig, new, ResetTimer
  <2>5. timer' = [p \in Profiler |-> IF p \in updated /\ new[p] # 0 THEN "running"
                                                                   ELSE timer[p]]
    BY <1>1 DEF UpdateConfig, new, ResetTimer
  <2>6. ProfileTypes'
    BY <2>1, <2>2, <2>3, <2>4, <2>5
  <2>7. ASSUME NEW p \in Profiler PROVE OneGoroutine(p)'
    <3>1. CASE p \in updated
      BY <2>2, <2>4, <2>5, <3>1 DEF Updatable
    <3>2. CASE p \notin updated
      BY <2>2, <2>4, <2>5, <3>2
    <3> QED
      BY <3>1, <3>2
  <2>8. ASSUME NEW p \in Profiler PROVE OwnBoundary(p)'
    BY <2>2
  <2> QED
    BY <2>6, <2>7, <2>8 DEF ProfileInv
<1>2. CASE Stop
  BY <1>2 DEF Stop
<1>3. ASSUME NEW p \in Profiler, TimerFires(p) PROVE ProfileInv'
  BY <1>3 DEF TimerFires
<1>4. ASSUME NEW p \in Profiler, Start(p) PROVE ProfileInv'
  BY <1>4 DEF Start
<1>5. ASSUME NEW p \in Profiler, Finished(p) PROVE ProfileInv'
  <2>1. finished[p] = 1 /\ goroutines[p] = 0 /\ timer[p] = "stopped"
    BY <1>5 DEF Finished
  <2>2. finished' = [finished EXCEPT ![p] = 0]
    BY <1>5, <2>1 DEF Finished
  <2>3. UNCHANGED <<interval, goroutines, profile, contentType, written, overlapped>>
    BY <1>5 DEF Finished
  <2>4. CASE interval[p] # 0
    <3>1. timerStart' = [timerStart EXCEPT ![p] = TRUE]
            /\ timer' = [timer EXCEPT ![p] = "running"]
      BY <1>5, <2>4 DEF Finished, ResetTimer
    <3> QED
      BY <2>1, <2>2, <2>3, <3>1
  <2>5. CASE interval[p] = 0
    <3>1. timerStart' = [timerStart EXCEPT ![p] = FALSE]
            /\ timer' = [timer EXCEPT ![p] = "stopped"]
      BY <1>5, <2>1, <2>5 DEF Finished, ResetTimer
    <3> QED
      BY <2>1, <2>2, <2>3, <3>1
  <2> QED
    BY <2>4, <2>5
<1>6. ASSUME NEW p \in Profiler, ProfileFails(p) \/ SendProfileReturns(p)
      PROVE  ProfileInv'
  <2>1. goroutines[p] = 1 /\ finished[p] = 0
    BY <1>6 DEF ProfileFails, SendProfileReturns
  <2>2. /\ profile' = [profile EXCEPT ![p] = "none"]
        /\ goroutines' = [goroutines EXCEPT ![p] = 0]
        /\ finished' = [finished EXCEPT ![p] = 1]
        /\ UNCHANGED <<interval, timerStart, timer, contentType, written, overlapped>>
    BY <1>6, <2>1 DEF ProfileFails, SendProfileReturns, Exit
  <2> QED
    BY <2>1, <2>2
<1>7. ASSUME NEW p \in Profiler, SendProfile(p) PROVE ProfileInv'
  <2>1. ProfileTypes' /\ \A q \in Profiler : OneGoroutine(q)'
    BY <1>7 DEF SendProfile
  <2>2. ASSUME NEW q \in Profiler PROVE OwnBoundary(q)'
    BY <1>7 DEF SendProfile
  <2> QED
    BY <2>1, <2>2 DEF ProfileInv
<1>8. ASSUME NEW p \in Profiler, WriteProfile(p) PROVE ProfileInv'
  BY <1>8 DEF WriteProfile, Boundary
<1>9. CASE UNCHANGED profileVars
  BY <1>9 DEF profileVars
<1> QED
  BY <1>1, <1>2, <1>3, <1>4, <1>5, <1>6, <1>7, <1>8, <1>9 DEF ProfileNext

\* However recording is switched and however long a profile takes (profiling.go),
\* a profiler never has two goroutines that share its buffer, and its goroutine's
\* signal has room in the channel; a profile is sent with its own boundary unless
\* another profiler sends at the same time (transport/http.go).
THEOREM ProfilesAreSeparate == ProfileSpec => []ProfilesSeparate
<1>1. ProfileInit => ProfileInv
  BY DEF ProfileInit, ProfileInv, ProfileTypes, OneGoroutine, OwnBoundary
<1>2. ProfileInv => ProfilesSeparate
  BY DEF ProfileInv, ProfilesSeparate, BufferPrivate, BoundaryOwn, OneGoroutine, OwnBoundary
<1> QED
  BY <1>1, <1>2, ProfileStep, PTL DEF ProfileSpec

-----------------------------------------------------------------------------
(* The servers *)

\* The index in the list of URLs k places before u.
Back(u, k) == IF k <= u THEN u - k ELSE u - k + NumURLs

\* The inductive invariant behind ServersAgree: the three lists are one
\* permutation of the servers; a request that is under way uses the current
\* index, and the servers that failed since the last success are the ones
\* before it, the last first.
ServerInv ==
    /\ urls \in Shuffles
    /\ urlIndex \in 0..NumURLs - 1
    /\ stream \in [pc : {"idle", "sending", "failed"}, url : 0..NumURLs - 1]
    /\ stream.pc = "sending" => stream.url = urlIndex
    /\ majorServerVersion \in Nat
    /\ refresh \in [Refresher -> [pc : {"idle", "asking"}, server : Server \cup {NoServer}]]
    /\ \A r \in Refresher : refresh[r].pc = "asking" => refresh[r].server \in Server
    /\ late \in BOOLEAN /\ moved \in BOOLEAN
    /\ failed \in Seq(Server) /\ Len(failed) <= NumURLs
    /\ \A k \in 1..Len(failed) : failed[k] = urls[1][Back(urlIndex, k) + 1]
    /\ VersionCurrent

\* There is a server.
LEMMA SomeServer == NumURLs \in Nat \ {0}
BY HTTPTransportAssumption, FS_CardinalityType, FS_EmptySet DEF NumURLs

\* A list of URLs names servers, each one once.
LEMMA ListOfServers ==
    ASSUME NEW list \in Shuffles
    PROVE  /\ list[1] \in [1..NumURLs -> Server]
           /\ \A i, j \in 1..NumURLs : i # j => list[1][i] # list[1][j]
           /\ list[2] = list[1] /\ list[3] = list[1]
<1>1. PICK a \in SetToSeqs(Server) : list = <<a, a, a>>
  BY DEF Shuffles
<1>2. /\ a \in [1..NumURLs -> Server]
      /\ \A i, j \in 1..NumURLs : i # j => a[i] # a[j]
  BY DEF SetToSeqs, NumURLs
<1> QED
  BY <1>1, <1>2

\* The next index, without %.
LEMMA NextURLIndex ==
    ASSUME NEW u \in 0..NumURLs - 1
    PROVE  NextURL(u) = IF u + 1 = NumURLs THEN 0 ELSE u + 1
BY SomeServer DEF NextURL

\* Stepping back from the next index.
LEMMA BackOfNext ==
    ASSUME NEW u \in 0..NumURLs - 1
    PROVE  /\ NextURL(u) \in 0..NumURLs - 1
           /\ Back(NextURL(u), 1) = u
           /\ \A k \in 1..NumURLs - 1 : Back(NextURL(u), k + 1) = Back(u, k)
BY SomeServer, NextURLIndex DEF Back

\* As many steps back as there are URLs lead to different indices.
LEMMA BackInjective ==
    ASSUME NEW u \in 0..NumURLs - 1
    PROVE  /\ \A k \in 1..NumURLs : Back(u, k) \in 0..NumURLs - 1
           /\ \A k, m \in 1..NumURLs : k # m => Back(u, k) # Back(u, m)
BY SomeServer DEF Back

\* A failure preserves the part of the invariant about the servers that failed.
LEMMA FailureStep ==
    ASSUME ServerInv, SendStreamFails
    PROVE  /\ failed' \in Seq(Server) /\ Len(failed') <= NumURLs
           /\ \A k \in 1..Len(failed') : failed'[k] = urls[1][Back(urlIndex', k) + 1]
<1> DEFINE s == urls[1][stream.url + 1]
           n == IF Len(failed) < NumURLs THEN Len(failed) + 1 ELSE NumURLs
<1>1. stream.url = urlIndex /\ urlIndex' = NextURL(urlIndex) /\ UNCHANGED urls
  BY DEF ServerInv, SendStreamFails
<1>2. s \in Server
  BY <1>1, ListOfServers, SomeServer DEF ServerInv
<1>3. failed' = SubSeq(<<s>> \o failed, 1, n)
  BY DEF SendStreamFails
<1> HIDE DEF s
<1>4. failed \in Seq(Server) /\ Len(failed) \in Nat /\ Len(failed) <= NumURLs
  BY DEF ServerInv
<1>5. n \in 1..NumURLs /\ n <= Len(failed) + 1
  BY <1>4, SomeServer
<1> HIDE DEF n
<1>6. /\ <<s>> \o failed \in Seq(Server) /\ Len(<<s>> \o failed) = Len(failed) + 1
      /\ \A i \in 1..Len(failed) + 1 :
            (<<s>> \o failed)[i] = IF i = 1 THEN s ELSE failed[i - 1]
  BY <1>2, <1>4
<1>7. \A i \in 1..n : (<<s>> \o failed)[i] \in Server
  BY <1>4, <1>5, <1>6, SomeServer, ElementOfSeq
<1>8. /\ failed' \in Seq(Server) /\ Len(failed') = n
      /\ \A i \in 1..n : failed'[i] = (<<s>> \o failed)[i]
  <2> DEFINE t == <<s>> \o failed
  <2> HIDE DEF t
  <2>1. \A i \in 1..n : t[i] \in Server
    BY <1>7 DEF t
  <2>2. 1 \in Int /\ n \in Int
    BY <1>5, SomeServer
  <2>3. /\ SubSeq(t, 1, n) \in Seq(Server)
        /\ Len(SubSeq(t, 1, n)) = IF 1 <= n THEN n - 1 + 1 ELSE 0
        /\ \A i \in 1..n - 1 + 1 : SubSeq(t, 1, n)[i] = t[1 + i - 1]
    BY <2>1, <2>2, SubSeqProperties
  <2> QED
    BY <1>3, <1>5, <2>3, SomeServer DEF t
<1>9. ASSUME NEW k \in 1..n PROVE failed'[k] = urls[1][Back(urlIndex', k) + 1]
  <2>1. CASE k = 1
    <3>1. failed'[k] = s
      BY <1>4, <1>5, <1>6, <1>8, <2>1, SomeServer
    <3>2. Back(urlIndex', k) = urlIndex
      BY <1>1, <2>1, BackOfNext DEF ServerInv
    <3> QED
      BY <1>1, <3>1, <3>2 DEF s
  <2>2. CASE k # 1
    <3>1. k - 1 \in 1..Len(failed) /\ k - 1 \in 1..NumURLs - 1 /\ k \in 1..Len(failed) + 1
      BY <1>4, <1>5, <2>2, SomeServer
    <3>2. failed'[k] = failed[k - 1]
      BY <1>6, <1>8, <2>2, <3>1
    <3>3. Back(urlIndex', k) = Back(urlIndex, k - 1)
      <4>1. \A j \in 1..NumURLs - 1 : Back(NextURL(urlIndex), j + 1) = Back(urlIndex, j)
        BY BackOfNext DEF ServerInv
      <4>2. Back(NextURL(urlIndex), (k - 1) + 1) = Back(urlIndex, k - 1)
        BY <3>1, <4>1
      <4>3. (k - 1) + 1 = k
        BY <3>1
      <4> QED
        BY <1>1, <4>2, <4>3
    <3> QED
      BY <3>1, <3>2, <3>3 DEF ServerInv
  <2> QED
    BY <2>1, <2>2
<1> QED
  BY <1>1, <1>5, <1>8, <1>9, SomeServer

\* Every step of the sender, of the goroutines that refresh the version and of
\* SetServerURL preserves the invariant.
LEMMA ServerStep == ServerInv /\ [ServerNext]_serverVars => ServerInv'
<1> SUFFICES ASSUME ServerInv, [ServerNext]_serverVars PROVE ServerInv'
  OBVIOUS
<1> USE DEF ServerInv, VersionCurrent, Current
<1>1. CASE SetServerURL
  <2>1. failed' \in Seq(Server) /\ Len(failed') = 0 /\ urls' \in Shuffles
    BY <1>1, EmptySeq DEF SetServerURL
  <2>2. VersionCurrent' /\ moved' \in BOOLEAN
    BY <1>1 DEF SetServerURL
  <2>3. /\ urlIndex' \in 0..NumURLs - 1 /\ stream'.pc = "idle"
        /\ UNCHANGED <<majorServerVersion, stream, refresh, late>>
    BY <1>1, SomeServer DEF SetServerURL
  <2> HIDE DEF VersionCurrent
  <2> QED
    BY <2>1, <2>2, <2>3, SomeServer
<1>2. CASE SendStream
  BY <1>2 DEF SendStream
<1>3. CASE SendStreamOK
  <2>1. failed' \in Seq(Server) /\ Len(failed') = 0
    BY <1>3, EmptySeq DEF SendStreamOK
  <2> QED
    BY <1>3, <2>1, SomeServer DEF SendStreamOK
<1>4. CASE SendStreamFails
  <2>1. /\ urlIndex' \in 0..NumURLs - 1 /\ stream'.pc = "failed"
        /\ stream' \in [pc : {"idle", "sending", "failed"}, url : 0..NumURLs - 1]
        /\ UNCHANGED <<urls, majorServerVersion, refresh, versionOf, late, moved>>
    BY <1>4, BackOfNext DEF SendStreamFails
  <2> QED
    BY <1>4, <2>1, FailureStep
<1>5. CASE InvalidateVersion
  BY <1>5 DEF InvalidateVersion
<1>6. ASSUME NEW r \in Refresher, MajorServerVersion(r) PROVE ServerInv'
  <2>1. urls[1][urlIndex + 1] \in Server
    BY ListOfServers, SomeServer
  <2> QED
    BY <1>6, <2>1 DEF MajorServerVersion
<1>7. ASSUME NEW r \in Refresher, NEW ok \in BOOLEAN, RefreshMajorServerVersion(r, ok)
      PROVE  ServerInv'
  <2>1. CASE ok /\ Version[refresh[r].server] > 0
    <3>1. refresh[r].server \in Server /\ Version[refresh[r].server] \in Nat
      BY <1>7, HTTPTransportAssumption DEF RefreshMajorServerVersion
    <3>2. late' \in BOOLEAN /\ moved' \in BOOLEAN
      BY <1>7, <2>1 DEF RefreshMajorServerVersion
    <3>3. VersionCurrent' /\ majorServerVersion' \in Nat
      BY <1>7, <2>1, <3>1 DEF RefreshMajorServerVersion
    <3>4. UNCHANGED <<urls, urlIndex, stream, failed>>
            /\ refresh' = [refresh EXCEPT ![r].pc = "idle"]
      BY <1>7 DEF RefreshMajorServerVersion
    <3> HIDE DEF VersionCurrent
    <3> QED
      BY <3>2, <3>3, <3>4
  <2>2. CASE ~(ok /\ Version[refresh[r].server] > 0)
    BY <1>7, <2>2 DEF RefreshMajorServerVersion
  <2> QED
    BY <2>1, <2>2
<1>8. CASE UNCHANGED serverVars
  BY <1>8 DEF serverVars
<1> QED
  BY <1>1, <1>2, <1>3, <1>4, <1>5, <1>6, <1>7, <1>8 DEF ServerNext

\* However requests fail and whoever refreshes the version (transport/http.go),
\* the cached version is that of the current server up to the windows
\* VersionCurrent names, consecutive failures try every server before one is
\* tried again, and the three lists of URLs agree.
THEOREM ServersDoAgree == ServerSpec => []ServersAgree
<1>1. ServerInit => ServerInv
  <2> SUFFICES ASSUME ServerInit PROVE ServerInv
    OBVIOUS
  <2>1. failed \in Seq(Server) /\ Len(failed) = 0
    BY EmptySeq DEF ServerInit
  <2>2. late \in BOOLEAN /\ moved \in BOOLEAN
    BY DEF ServerInit
  <2> QED
    BY <2>1, <2>2, SomeServer DEF ServerInit, ServerInv, VersionCurrent
<1>2. ASSUME ServerInv PROVE ServersAgree
  <2>1. EveryServerTried
    <3> SUFFICES ASSUME NEW i \in DOMAIN failed, NEW j \in DOMAIN failed, i # j
                 PROVE  failed[i] # failed[j]
      BY DEF EveryServerTried
    <3>1. i \in 1..Len(failed) /\ j \in 1..Len(failed) /\ i \in 1..NumURLs /\ j \in 1..NumURLs
      BY <1>2, SomeServer DEF ServerInv
    <3>2. /\ Back(urlIndex, i) \in 0..NumURLs - 1 /\ Back(urlIndex, j) \in 0..NumURLs - 1
          /\ Back(urlIndex, i) # Back(urlIndex, j)
      BY <1>2, <3>1, BackInjective DEF ServerInv
    <3>3. urls[1][Back(urlIndex, i) + 1] # urls[1][Back(urlIndex, j) + 1]
      <4>1. Back(urlIndex, i) + 1 \in 1..NumURLs /\ Back(urlIndex, j) + 1 \in 1..NumURLs
            /\ Back(urlIndex, i) + 1 # Back(urlIndex, j) + 1
        BY <3>2, SomeServer
      <4>2. urls \in Shuffles
        BY <1>2 DEF ServerInv
      <4> QED
        BY <4>1, <4>2, ListOfServers, Zenon
    <3> QED
      BY <1>2, <3>1, <3>3 DEF ServerInv
  <2>2. SameServer
    <3> SUFFICES ASSUME NEW i \in 1..NumURLs PROVE Cardinality({urls[k][i] : k \in 1..3}) = 1
      BY DEF SameServer
    <3>1. urls[2] = urls[1] /\ urls[3] = urls[1]
      BY <1>2, ListOfServers DEF ServerInv
    <3>2. 1..3 = {1, 2, 3}
      OBVIOUS
    <3>3. {urls[k][i] : k \in 1..3} = {urls[1][i]}
      BY <3>1, <3>2
    <3> QED
      BY <3>3, FS_Singleton
  <2> QED
    BY <1>2, <2>1, <2>2 DEF ServersAgree, ServerInv
<1> QED
  BY <1>1, <1>2, ServerStep, PTL DEF ServerSpec
-----------------------------------------------------------------------------
(* Traces *)

\* Every nonempty set of natural numbers has a least element.
LEMMA LeastElement ==
    ASSUME NEW T \in SUBSET Nat, T # {}
    PROVE  \E x \in T : \A y \in T : x <= y
<1> DEFINE R == OpToRel(<, Nat)
<1>1. IsWellFoundedOn(R, Nat)
  BY NatLessThanWellFounded
<1>2. \A x, y \in Nat : y < x => <<y, x>> \in R
  BY DEF OpToRel
<1> HIDE DEF R
<1>3. PICK x \in T : \A y \in T : ~(<<y, x>> \in R)
  BY <1>1, WFMin
<1>4. ASSUME NEW y \in T PROVE x <= y
  <2>1. x \in Nat /\ y \in Nat
    OBVIOUS
  <2>2. ~(y < x)
    BY <1>2, <1>3, <2>1, Zenon
  <2> QED
    BY <2>1, <2>2
<1> QED
  BY <1>4

Entry == [key : {"es", "v"}, value : Int \cup {BadRate}]

\* The first n steps of Others.
NextOthers(s, i, t) == IF s[i].key = "es" THEN t ELSE Append(t, s[i])
StepsOfOthers(g, s, n) == g = [i \in 0..n |-> IF i = 0 THEN <<>> ELSE NextOthers(s, i, g[i - 1])]

LEMMA OthersSteps == ASSUME NEW s, NEW m \in Nat PROVE \E g : StepsOfOthers(g, s, m)
<1> DEFINE T == {n \in Nat : ~\E g : StepsOfOthers(g, s, n)}
<1> SUFFICES ASSUME T # {} PROVE FALSE
  OBVIOUS
<1>1. PICK n \in T : \A k \in T : n <= k
  BY LeastElement
<1>2. n # 0
  <2>1. StepsOfOthers([i \in 0..0 |-> <<>>], s, 0)
    BY DEF StepsOfOthers
  <2> QED
    BY <2>1
<1>3. n - 1 \in Nat /\ ~(n <= n - 1)
  BY <1>2
<1>4. PICK g : StepsOfOthers(g, s, n - 1)
  BY <1>1, <1>3
<1> DEFINE h == [i \in 0..n |-> IF i = n THEN NextOthers(s, n, g[n - 1]) ELSE g[i]]
<1>5. \A i \in 0..n - 1 : g[i] = IF i = 0 THEN <<>> ELSE NextOthers(s, i, g[i - 1])
  BY <1>4 DEF StepsOfOthers
<1>6. \A i \in 0..n - 1 : h[i] = g[i]
  BY <1>3
<1>7. ASSUME NEW i \in 0..n PROVE h[i] = IF i = 0 THEN <<>> ELSE NextOthers(s, i, h[i - 1])
  <2>1. CASE i = n
    <3>1. h[n] = NextOthers(s, n, g[n - 1]) /\ n - 1 \in 0..n - 1
      BY <1>3
    <3>2. h[n] = NextOthers(s, n, h[n - 1])
      BY <1>6, <3>1
    <3> QED
      BY <1>2, <2>1, <3>2
  <2>2. CASE i # n
    <3>1. i \in 0..n - 1 /\ (i # 0 => i - 1 \in 0..n - 1)
      BY <1>3, <2>2
    <3> QED
      BY <1>5, <1>6, <3>1
  <2> QED
    BY <2>1, <2>2
<1>8. StepsOfOthers(h, s, n)
  <2>1. h = [i \in 0..n |-> h[i]]
    OBVIOUS
  <2> HIDE DEF h
  <2> QED
    BY <1>7, <2>1 DEF StepsOfOthers
<1> QED
  BY <1>8

LEMMA OthersLast == ASSUME NEW s, Len(s) \in Nat
                    PROVE  \E g : StepsOfOthers(g, s, Len(s)) /\ Others(s) = g[Len(s)]
<1> DEFINE f == CHOOSE g : StepsOfOthers(g, s, Len(s))
<1>1. StepsOfOthers(f, s, Len(s))
  BY OthersSteps
<1>2. Others(s) = f[Len(s)]
  BY DEF Others, StepsOfOthers, NextOthers
<1> QED
  BY <1>1, <1>2

\* What NewTraceState leaves of the entries, and how many.
LEMMA OthersIs ==
    ASSUME NEW s \in Seq(Entry)
    PROVE  /\ Others(s) \in Seq(Entry)
           /\ \A i \in 1..Len(Others(s)) : /\ Others(s)[i].key # "es"
                                           /\ \E j \in 1..Len(s) : Others(s)[i] = s[j]
           /\ Len(Others(s)) <= Len(s)
           /\ Elastic(s) # {} => Len(Others(s)) < Len(s)
<1> DEFINE P(t, n) ==
        /\ t \in Seq(Entry) /\ Len(t) \in Nat
        /\ \A i \in 1..Len(t) : t[i].key # "es" /\ \E j \in 1..Len(s) : t[i] = s[j]
        /\ Len(t) <= n
        /\ \A j \in 1..n : s[j].key = "es" => Len(t) < n
<1>1. PICK g : StepsOfOthers(g, s, Len(s)) /\ Others(s) = g[Len(s)]
  BY OthersLast
<1>2. \A i \in 0..Len(s) : g[i] = IF i = 0 THEN <<>> ELSE NextOthers(s, i, g[i - 1])
  BY <1>1 DEF StepsOfOthers
<1> DEFINE T == {n \in 0..Len(s) : ~P(g[n], n)}
<1>3. T = {}
  <2> SUFFICES ASSUME T # {} PROVE FALSE
    OBVIOUS
  <2>0. T \in SUBSET Nat
    OBVIOUS
  <2>1. PICK n \in T : \A k \in T : n <= k
    BY <2>0, LeastElement
  <2>2. CASE n = 0
    <3>1. g[0] = <<>>
      BY <1>2
    <3>2. P(<<>>, 0)
      OBVIOUS
    <3>3. n \in T /\ g[n] = <<>>
      BY <2>1, <2>2, <3>1
    <3>4. ~P(g[n], n)
      BY <3>3
    <3> HIDE DEF P
    <3> QED
      BY <2>2, <3>2, <3>3, <3>4
  <2>3. CASE n # 0
    <3>1. n \in 1..Len(s) /\ n - 1 \in 0..Len(s) /\ ~(n <= n - 1)
      BY <2>3
    <3>2. PICK t : t = g[n - 1]
      OBVIOUS
    <3>3. P(t, n - 1)
      BY <2>1, <3>1, <3>2
    <3>4. g[n] = NextOthers(s, n, t)
      BY <1>2, <2>3, <3>1, <3>2
    <3>5. CASE s[n].key = "es"
      <4>1. P(t, n)
        BY <3>1, <3>3, <3>5
      <4> QED
        BY <2>1, <3>4, <3>5, <4>1 DEF NextOthers
    <3>6. CASE s[n].key # "es"
      <4>1. s[n] \in Entry
        BY <3>1
      <4>2. /\ Append(t, s[n]) \in Seq(Entry) /\ Len(Append(t, s[n])) = Len(t) + 1
            /\ \A i \in 1..Len(t) + 1 : Append(t, s[n])[i] = IF i <= Len(t) THEN t[i] ELSE s[n]
        BY <3>3, <4>1, AppendProperties
      <4>3. P(Append(t, s[n]), n)
        BY <3>1, <3>3, <3>6, <4>2
      <4> QED
        BY <2>1, <3>4, <3>6, <4>3 DEF NextOthers
    <3> QED
      BY <3>5, <3>6
  <2> QED
    BY <2>2, <2>3
<1>4. P(Others(s), Len(s))
  <2>1. Len(s) \in 0..Len(s)
    OBVIOUS
  <2> QED
    BY <1>1, <1>3, <2>1
<1> QED
  BY <1>4 DEF Elastic

\* The place of the last elastic entry.
LEMMA LastElastic ==
    ASSUME NEW s \in Seq(Entry), Elastic(s) # {}
    PROVE  Max(Elastic(s)) \in Elastic(s)
<1> DEFINE T == {k \in Nat : \E i \in Elastic(s) : k = Len(s) - i}
<1>1. \A i \in Elastic(s) : i \in 1..Len(s) /\ Len(s) - i \in T
  <2>1. Len(s) \in Nat /\ \A i \in Elastic(s) : i \in 1..Len(s)
    BY DEF Elastic
  <2>2. \A i \in Elastic(s) : Len(s) - i \in Nat
    BY <2>1
  <2> QED
    BY <2>1, <2>2
<1>2. T \in SUBSET Nat /\ T # {}
  BY <1>1
<1>3. PICK k \in T : \A j \in T : k <= j
  BY <1>2, LeastElement
<1>4. PICK i \in Elastic(s) : k = Len(s) - i
  OBVIOUS
<1> HIDE DEF T
<1>5. ASSUME NEW j \in Elastic(s) PROVE i >= j
  <2>1. Len(s) \in Nat /\ i \in Nat /\ j \in Nat /\ Len(s) - j \in T
    BY <1>1
  <2>2. k <= Len(s) - j
    BY <1>3, <2>1
  <2> QED
    BY <1>4, <2>1, <2>2
<1> QED
  BY <1>5 DEF Max

\* What a state keeps of the entries s.
StateOf(s, state) ==
    /\ state.entries \in Seq(Entry) /\ state.haveElastic \in BOOLEAN
    /\ Elastic(s) # {} <=> state.haveElastic
    /\ Elastic(state.entries) # {} <=> state.haveElastic
    /\ Len(state.entries) <= Len(s)
    /\ \A i \in 1..Len(state.entries) : \E j \in 1..Len(s) : state.entries[i] = s[j]
    /\ state.haveElastic => Len(state.entries) > 0 /\ state.entries[1].key = "es"

LEMMA StateIs == ASSUME NEW s \in Seq(Entry) PROVE StateOf(s, NewTraceState(s))
<1>1. /\ Others(s) \in Seq(Entry) /\ Len(Others(s)) <= Len(s) /\ Len(Others(s)) \in Nat
      /\ Len(s) \in Nat
      /\ \A i \in 1..Len(Others(s)) : \E j \in 1..Len(s) : Others(s)[i] = s[j]
      /\ Elastic(s) # {} => Len(Others(s)) < Len(s)
  BY OthersIs
<1>2. CASE Elastic(s) = {}
  <2>1. NewTraceState(s).entries = Others(s) /\ NewTraceState(s).haveElastic = FALSE
    <3>1. <<>> \o Others(s) = Others(s)
      BY <1>1, ConcatEmptySeq
    <3>2. NewTraceState(s) = [entries |-> <<>> \o Others(s), haveElastic |-> FALSE]
      BY <1>2 DEF NewTraceState
    <3> QED
      BY <3>1, <3>2
  <2>2. Elastic(Others(s)) = {}
    BY <1>1, <1>2 DEF Elastic
  <2> QED
    BY <1>1, <1>2, <2>1, <2>2 DEF StateOf
<1>3. CASE Elastic(s) # {}
  <2>1. PICK j : j = Max(Elastic(s))
    OBVIOUS
  <2>2. j \in 1..Len(s) /\ s[j].key = "es" /\ s[j] \in Entry
    BY <1>3, <2>1, LastElastic DEF Elastic
  <2>3. PICK e \in Entry : e = s[j]
    BY <2>2
  <2>4. <<e>> \in Seq(Entry) /\ Len(<<e>>) = 1 /\ <<e>>[1] = e
    OBVIOUS
  <2>5. PICK t : t = <<e>> \o Others(s)
    OBVIOUS
  <2>6. /\ t \in Seq(Entry) /\ Len(t) = 1 + Len(Others(s))
        /\ \A i \in 1..1 + Len(Others(s)) : t[i] = IF i <= 1 THEN <<e>>[i] ELSE Others(s)[i - 1]
    BY <1>1, <2>4, <2>5, ConcatProperties
  <2>7. NewTraceState(s) = [entries |-> t, haveElastic |-> TRUE]
    BY <1>3, <2>1, <2>3, <2>5 DEF NewTraceState
  <2>8. NewTraceState(s).entries = t /\ NewTraceState(s).haveElastic = TRUE
    BY <2>7
  <2>9. t[1] = e
    BY <1>1, <2>4, <2>6
  <2>10. ASSUME NEW i \in 1..Len(t) PROVE \E k \in 1..Len(s) : t[i] = s[k]
    <3>1. CASE i = 1
      BY <2>2, <2>3, <2>9, <3>1
    <3>2. CASE i # 1
      <4>1. i \in 1..1 + Len(Others(s)) /\ ~(i <= 1) /\ i - 1 \in 1..Len(Others(s))
        BY <1>1, <2>6, <3>2
      <4>2. t[i] = Others(s)[i - 1]
        BY <2>6, <4>1
      <4> QED
        BY <1>1, <4>1, <4>2
    <3> QED
      BY <3>1, <3>2
  <2>11. Len(t) <= Len(s) /\ Len(t) > 0
    BY <1>1, <1>3, <2>6
  <2>12. Elastic(t) # {}
    <3>1. 1 \in Elastic(t)
      BY <2>2, <2>3, <2>6, <2>9, <2>11 DEF Elastic
    <3> QED
      BY <3>1
  <2> QED
    BY <1>3, <2>2, <2>3, <2>6, <2>8, <2>9, <2>10, <2>11, <2>12 DEF StateOf
<1> QED
  BY <1>2, <1>3

State == {state \in [entries : Seq(Entry), haveElastic : BOOLEAN] :
             /\ Elastic(state.entries) # {} <=> state.haveElastic
             /\ state.haveElastic => Len(state.entries) > 0 /\ state.entries[1].key = "es"}

LEMMA NoStateIs == NoState \in State /\ NoState.entries = <<>> /\ ~NoState.haveElastic
<1>1. NoState \in [entries : Seq(Entry), haveElastic : BOOLEAN] /\ NoState.entries = <<>>
      /\ NoState.haveElastic = FALSE
  BY DEF NoState
<1>2. Elastic(<<>>) = {}
  BY DEF Elastic
<1> QED
  BY <1>1, <1>2 DEF State

LEMMA StateType == ASSUME NEW s \in Seq(Entry) PROVE NewTraceState(s) \in State
<1>1. PICK state : state = NewTraceState(s)
  OBVIOUS
<1>2. /\ state.entries \in Seq(Entry) /\ state.haveElastic \in BOOLEAN
      /\ Elastic(state.entries) # {} <=> state.haveElastic
      /\ state.haveElastic => Len(state.entries) > 0 /\ state.entries[1].key = "es"
  BY <1>1, StateIs DEF StateOf
<1>3. state = [entries |-> state.entries, haveElastic |-> state.haveElastic]
  <2>1. PICK x, y : state = [entries |-> x, haveElastic |-> y]
    BY <1>1 DEF NewTraceState
  <2> QED
    BY <2>1
<1>4. state \in [entries : Seq(Entry), haveElastic : BOOLEAN]
  <2>1. PICK x \in Seq(Entry), y \in BOOLEAN : x = state.entries /\ y = state.haveElastic
    BY <1>2
  <2>2. state = [entries |-> x, haveElastic |-> y]
    BY <1>3, <2>1
  <2> QED
    BY <2>2
<1> QED
  BY <1>1, <1>2, <1>4 DEF State

\* A trace state is what an agent's root says: every elastic entry holds that rate.
Agrees(rate, entries) ==
    \A i \in 1..Len(entries) : entries[i].key = "es" => entries[i].value = rate

\* A state agrees with what its entries agree with.
LEMMA StateAgrees ==
    ASSUME NEW s, NEW state, NEW rate, StateOf(s, state), Agrees(rate, s)
    PROVE  Agrees(rate, state.entries)
BY DEF StateOf, Agrees

LEMMA EntryIs ==
    ASSUME NEW key \in {"es", "v"}, NEW value, value \in Int \/ value = BadRate
    PROVE  [key |-> key, value |-> value] \in Entry
BY DEF Entry

Rates == -1..10000

\* Every service samples at a rate.
LEMMA RateOf == ASSUME NEW s \in Service PROVE Rate[s] \in Rates
<1>1. \A x \in Service : Rate[x] \in -1..10000
  BY TraceContextAssumption, Z3T(30)
<1> QED
  BY <1>1 DEF Rates

\* A root's state, at this rate.
RootStateOf(rate, sampled, state) ==
    /\ state \in State
    /\ Agrees(IF sampled THEN rate ELSE 0, state.entries)
    /\ rate # -1 => state.haveElastic

LEMMA RootStateIs ==
    ASSUME NEW rate \in Rates, NEW sampled \in BOOLEAN
    PROVE  RootStateOf(rate, sampled, RootState(rate, sampled))
<1>1. CASE rate = -1
  <2>1. RootState(rate, sampled) = NoState /\ Len(<<>>) = 0
    BY <1>1 DEF RootState
  <2>2. RootState(rate, sampled) \in State /\ RootState(rate, sampled).entries = <<>>
    BY <2>1, NoStateIs
  <2>3. Agrees(IF sampled THEN rate ELSE 0, <<>>)
    BY DEF Agrees
  <2> QED
    BY <1>1, <2>2, <2>3 DEF RootStateOf
<1>2. CASE rate # -1
  <2>1. PICK r \in Int : r = IF sampled THEN rate ELSE 0
    BY DEF Rates
  <2> DEFINE e == [key |-> "es", value |-> r]
             q == <<e>>
  <2>2. e.key = "es" /\ e.value = r /\ e \in Entry
    BY <2>1, EntryIs
  <2>3. RootState(rate, sampled) = NewTraceState(q)
    BY <1>2, <2>1 DEF RootState
  <2> HIDE DEF e
  <2>4. q \in Seq(Entry) /\ Len(q) = 1 /\ q[1] = e /\ DOMAIN q = {1}
    BY <2>2
  <2> HIDE DEF q
  <2>5. Elastic(q) # {}
    BY <2>2, <2>4 DEF Elastic
  <2>6. StateOf(q, NewTraceState(q)) /\ NewTraceState(q) \in State
    BY <2>4, StateIs, StateType
  <2>7. Agrees(r, q)
    BY <2>2, <2>4 DEF Agrees
  <2>8. Agrees(r, NewTraceState(q).entries)
    BY <2>6, <2>7, StateAgrees
  <2>9. NewTraceState(q).haveElastic
    BY <2>5, <2>6 DEF StateOf
  <2> HIDE DEF q
  <2>10. Agrees(IF sampled THEN rate ELSE 0, NewTraceState(q).entries)
    BY <2>1, <2>8
  <2> QED
    BY <2>3, <2>6, <2>9, <2>10 DEF RootStateOf
<1> QED
  BY <1>1, <1>2

\* Any number of IDs and any rate: the share of the IDs that is sampled.
Shares == 0..10000

LEMMA ShareIs == ASSUME NEW rate \in Shares, NEW maxID \in Nat PROVE ShareSampled(rate, maxID)
<1> DEFINE k == (maxID * rate) \div 10000
           S == {v \in 0..maxID : RatioSampled(v, rate, maxID)}
<1>1. maxID * rate \in Nat /\ maxID * rate <= maxID * 10000
  BY DEF Shares
<1>2. k \in Nat /\ k <= maxID
  <2>1. PICK p \in Nat : p = maxID * rate
    BY <1>1
  <2>2. p <= maxID * 10000
    BY <1>1, <2>1
  <2>3. p \div 10000 \in Nat /\ p \div 10000 <= maxID
    BY <2>2
  <2> QED
    BY <2>1, <2>3
<1>3. S = 1..k
  <2> HIDE DEF k
  <2>1. \A v : RatioSampled(v, rate, maxID) <=> v > 0 /\ v - 1 < k
    BY DEF RatioSampled, k
  <2> QED
    BY <1>2, <2>1
<1>4. Cardinality(1..k) = k
  <2> HIDE DEF k
  <2>1. Cardinality(1..k) = IF 1 <= k THEN k - 1 + 1 ELSE 0
    BY <1>2, FS_Interval
  <2> QED
    BY <1>2, <2>1
<1> HIDE DEF S, k
<1>5. Cardinality(S) = k
  BY <1>3, <1>4
<1> QED
  BY <1>5 DEF S, k, ShareSampled

\* The fields of headers, requests and transactions.
IsHeader(h) ==
    /\ {"trace", "span", "sampled"} \subseteq DOMAIN h
    /\ h.trace \in Nat /\ h.span \in Nat /\ h.sampled \in BOOLEAN

IsMsg(m) ==
    /\ IsHeader(m.w3c) /\ (m.legacy = NoHeader \/ m.legacy = m.w3c)
    /\ m.tracestate = Malformed \/ m.tracestate \in Seq(Entry)

IsTx(t) ==
    /\ {"service", "trace", "id", "parent", "sampled", "state", "links", "msg"} \subseteq DOMAIN t
    /\ t.service \in Service /\ t.trace \in Nat /\ t.id \in Nat /\ t.parent \in Nat
    /\ t.sampled \in BOOLEAN /\ t.state \in State

\* A root, and the rate it was sampled at.
IsRoot(u) == u.parent = 0 /\ u.trace # 0
RootRate(u) == IF u.sampled THEN Rate[u.service] ELSE 0

\* Some request of the trace hides what the agent wrote in the tracestate.
Spoils(m) ==
    \/ m.tracestate = Malformed
    \/ Len(m.tracestate) > MaxEntries
    \/ \E i \in DOMAIN m.tracestate : m.tracestate[i].value = BadRate
Spoiled(trace) == \E m \in msgs : m.w3c.trace = trace /\ Spoils(m)

\* Entries that travel with a trace agree with its root u and show that an agent
\* with a sampler started it.
Keeps(u, trace, entries) ==
    trace = u.trace => /\ Agrees(RootRate(u), entries)
                       /\ Rate[u.service] # -1 => Elastic(entries) # {} \/ Spoiled(trace)

\* Whether the trace is sampled, as some transaction or request says.
Says(trace, sampled) ==
    \/ \E t \in txs : t.trace = trace /\ t.sampled = sampled
    \/ \E m \in msgs : m.w3c.trace = trace /\ m.w3c.sampled = sampled

\* How a transaction came out of the request that caused it.
Caused(t) ==
    t.msg # NoHeader =>
        /\ t.msg \in msgs
        /\ LET ctx == RequestContext(t.msg) IN
           t.trace # 0 /\ ctx.trace # 0 =>
               \/ t.trace = ctx.trace /\ t.parent = ctx.span /\ t.links = {}
               \/ /\ t.trace # ctx.trace /\ t.parent = 0 /\ t.links = {<<ctx.trace, ctx.span>>}
                  /\ ~Continues(t.service, ctx)

\* The inductive invariant behind TracesConsistent: what the transactions of a
\* trace agree on is what its requests carry.
TraceType ==
    /\ nextID \in Nat \ {0}
    /\ \A t \in txs : IsTx(t) /\ t.trace < nextID
    /\ \A m \in msgs : IsMsg(m) /\ m.w3c.trace < nextID
OneDecision ==
    \A trace \in 1..nextID : ~(Says(trace, TRUE) /\ Says(trace, FALSE))
RootsKept ==
    \A u \in txs : IsRoot(u) =>
        /\ \A t \in txs : Keeps(u, t.trace, t.state.entries)
        /\ \A m \in msgs : m.tracestate # Malformed => Keeps(u, m.w3c.trace, m.tracestate)
TraceInv == TraceType /\ OneDecision /\ RootsKept /\ \A t \in txs : Caused(t)

\* Requests are never taken back.
LEMMA KeepsStays ==
    ASSUME msgs \subseteq msgs', NEW u, NEW trace, NEW entries, Keeps(u, trace, entries)
    PROVE  Keeps(u, trace, entries)'
<1>1. Spoiled(trace) => Spoiled(trace)'
  BY DEF Spoiled
<1> QED
  BY <1>1 DEF Keeps

LEMMA CausedStays == ASSUME msgs \subseteq msgs', NEW t, Caused(t) PROVE Caused(t)'
BY DEF Caused

\* A new transaction belongs to no trace, to that of a request, or to a new one.
LEMMA AddTx ==
    ASSUME TraceInv, NEW t, IsTx(t), Caused(t), txs' = txs \cup {t}, msgs' = msgs,
           nextID' = nextID + 1, t.trace <= nextID,
           \/ t.trace = 0
           \/ /\ t.parent # 0 /\ t.trace # nextID /\ Says(t.trace, t.sampled)
              /\ \A u \in txs : IsRoot(u) => Keeps(u, t.trace, t.state.entries)
           \/ t.trace = nextID /\ Agrees(RootRate(t), t.state.entries)
              /\ (Rate[t.service] # -1 => Elastic(t.state.entries) # {})
    PROVE  TraceInv'
<1>1. /\ nextID \in Nat /\ nextID # 0 /\ nextID' \in Nat /\ nextID' = nextID + 1
      /\ \A x \in txs : x.trace \in Nat /\ x.trace < nextID /\ x.sampled \in BOOLEAN
      /\ \A m \in msgs : m.w3c.trace \in Nat /\ m.w3c.trace < nextID
      /\ t.trace \in Nat /\ t.sampled \in BOOLEAN
  BY DEF TraceInv, TraceType, IsTx, IsMsg, IsHeader
<1>2. TraceType'
  BY <1>1 DEF TraceInv, TraceType, IsTx, IsMsg, IsHeader
<1>3. OneDecision'
  <2> SUFFICES ASSUME NEW x \in 1..nextID', Says(x, TRUE)', Says(x, FALSE)' PROVE FALSE
    BY DEF OneDecision
  <2>1. CASE x = t.trace
    <3>1. CASE t.trace = nextID
      <4>1. \A b : Says(x, b)' => t.sampled = b
        BY <1>1, <2>1, <3>1 DEF Says
      <4> QED
        BY <4>1
    <3>2. CASE t.trace # nextID
      <4>1. x # 0 /\ x \in 1..nextID
        BY <1>1, <2>1, <3>2
      <4>2. Says(x, t.sampled)
        BY <2>1, <3>2, <4>1
      <4>3. \A b : Says(x, b)' => Says(x, b) \/ b = t.sampled
        BY DEF Says
      <4> QED
        BY <4>1, <4>2, <4>3 DEF TraceInv, OneDecision
    <3> QED
      BY <3>1, <3>2
  <2>2. CASE x # t.trace
    <3>1. \A b : Says(x, b)' => Says(x, b)
      BY <2>2 DEF Says
    <3>2. x < nextID
      BY <1>1, <3>1 DEF Says
    <3>3. x \in 1..nextID
      BY <1>1, <3>2
    <3> QED
      BY <3>1, <3>3 DEF TraceInv, OneDecision
  <2> QED
    BY <2>1, <2>2
<1>4. RootsKept'
  <2>1. ASSUME NEW u, NEW x, NEW e, Keeps(u, x, e) PROVE Keeps(u, x, e)'
    BY <2>1, KeepsStays
  <2>2. ASSUME NEW u \in txs, IsRoot(u) PROVE Keeps(u, t.trace, t.state.entries)'
    <3>1. u.trace # 0 /\ u.trace # nextID
      BY <1>1, <2>2 DEF IsRoot
    <3>2. Keeps(u, t.trace, t.state.entries)
      BY <2>2, <3>1 DEF Keeps
    <3> QED
      BY <2>1, <3>2
  <2>3. ASSUME IsRoot(t), NEW x, x \in txs \/ x = t PROVE Keeps(t, x.trace, x.state.entries)'
    <3>1. t.trace = nextID /\ Agrees(RootRate(t), t.state.entries)
          /\ (Rate[t.service] # -1 => Elastic(t.state.entries) # {})
      BY <2>3 DEF IsRoot
    <3>2. CASE x = t
      BY <3>1, <3>2 DEF Keeps
    <3>3. CASE x \in txs
      BY <1>1, <3>1, <3>3 DEF Keeps
    <3> QED
      BY <2>3, <3>2, <3>3
  <2>4. ASSUME IsRoot(t), NEW m \in msgs PROVE Keeps(t, m.w3c.trace, m.tracestate)'
    <3>1. t.trace = nextID
      BY <2>4 DEF IsRoot
    <3> QED
      BY <1>1, <3>1 DEF Keeps
  <2>5. \A u \in txs : IsRoot(u) =>
            /\ \A x \in txs : Keeps(u, x.trace, x.state.entries)'
            /\ \A m \in msgs : m.tracestate # Malformed => Keeps(u, m.w3c.trace, m.tracestate)'
    BY <2>1 DEF TraceInv, RootsKept
  <2> QED
    BY <2>2, <2>3, <2>4, <2>5 DEF RootsKept
<1>5. ASSUME NEW x \in txs' PROVE Caused(x)'
  <2>1. Caused(x)
    BY DEF TraceInv
  <2> QED
    BY <2>1, CausedStays
<1> QED
  BY <1>2, <1>3, <1>4, <1>5 DEF TraceInv

\* A new request belongs to a trace that is known, or to a new one.
LEMMA AddMsg ==
    ASSUME TraceInv, NEW m, IsMsg(m), msgs' = msgs \cup {m}, txs' = txs,
           nextID' = nextID \/ nextID' = nextID + 1, m.w3c.trace < nextID',
           \/ /\ m.w3c.trace < nextID /\ Says(m.w3c.trace, m.w3c.sampled)
              /\ \A u \in txs : IsRoot(u) /\ m.tracestate # Malformed =>
                     Keeps(u, m.w3c.trace, m.tracestate)
           \/ m.w3c.trace = nextID
    PROVE  TraceInv'
<1>1. /\ nextID \in Nat /\ nextID # 0 /\ nextID' \in Nat /\ nextID <= nextID' /\ nextID' <= nextID + 1
      /\ \A x \in txs : x.trace \in Nat /\ x.trace < nextID
      /\ \A x \in msgs : x.w3c.trace \in Nat /\ x.w3c.trace < nextID
      /\ m.w3c.trace \in Nat /\ m.w3c.sampled \in BOOLEAN
  BY DEF TraceInv, TraceType, IsTx, IsMsg, IsHeader
<1>2. TraceType'
  BY <1>1 DEF TraceInv, TraceType, IsTx, IsMsg, IsHeader
<1>3. OneDecision'
  <2> SUFFICES ASSUME NEW x \in 1..nextID', Says(x, TRUE)', Says(x, FALSE)' PROVE FALSE
    BY DEF OneDecision
  <2>1. CASE x = m.w3c.trace
    <3>1. CASE m.w3c.trace = nextID
      <4>1. \A b : Says(x, b)' => m.w3c.sampled = b
        BY <1>1, <2>1, <3>1 DEF Says
      <4> QED
        BY <4>1
    <3>2. CASE m.w3c.trace # nextID
      <4>1. x \in 1..nextID
        BY <1>1, <2>1, <3>2
      <4>2. Says(x, m.w3c.sampled)
        BY <2>1, <3>2
      <4>3. \A b : Says(x, b)' => Says(x, b) \/ b = m.w3c.sampled
        BY DEF Says
      <4> QED
        BY <1>1, <4>1, <4>2, <4>3 DEF TraceInv, OneDecision
    <3> QED
      BY <3>1, <3>2
  <2>2. CASE x # m.w3c.trace
    <3>1. \A b : Says(x, b)' => Says(x, b)
      BY <2>2 DEF Says
    <3>2. x < nextID
      BY <1>1, <3>1 DEF Says
    <3>3. x \in 1..nextID
      BY <1>1, <3>2
    <3> QED
      BY <3>1, <3>3 DEF TraceInv, OneDecision
  <2> QED
    BY <2>1, <2>2
<1>4. RootsKept'
  <2>1. ASSUME NEW u, NEW x, NEW e, Keeps(u, x, e) PROVE Keeps(u, x, e)'
    BY <2>1, KeepsStays
  <2>2. ASSUME NEW u \in txs, IsRoot(u), m.tracestate # Malformed
        PROVE  Keeps(u, m.w3c.trace, m.tracestate)'
    <3>1. u.trace # nextID
      BY <1>1
    <3>2. Keeps(u, m.w3c.trace, m.tracestate)
      BY <2>2, <3>1 DEF Keeps
    <3> QED
      BY <2>1, <3>2
  <2>3. \A u \in txs : IsRoot(u) =>
            /\ \A x \in txs : Keeps(u, x.trace, x.state.entries)'
            /\ \A x \in msgs : x.tracestate # Malformed => Keeps(u, x.w3c.trace, x.tracestate)'
    BY <2>1 DEF TraceInv, RootsKept
  <2> QED
    BY <2>2, <2>3 DEF RootsKept
<1>5. ASSUME NEW x \in txs' PROVE Caused(x)'
  <2>1. Caused(x)
    BY DEF TraceInv
  <2> QED
    BY <2>1, CausedStays
<1> QED
  BY <1>2, <1>3, <1>4, <1>5 DEF TraceInv

\* The trace context of a request is that of its standard header, if of any.
ContextOf(m, c) ==
    \/ c = NoContext
    \/ /\ c.trace = m.w3c.trace /\ c.trace # 0 /\ c.span = m.w3c.span /\ c.span # 0
       /\ c.sampled = m.w3c.sampled /\ c.state = ParseTracestateHeader(m.tracestate)

LEMMA ContextIs == ASSUME NEW m, IsMsg(m) PROVE ContextOf(m, RequestContext(m))
<1>1. CASE ~Parsable(Traceparent(m))
  BY <1>1 DEF ContextOf, RequestContext
<1>2. CASE Parsable(Traceparent(m))
  <2>1. m.legacy = NoHeader => ~Parsable(m.legacy)
    BY DEF Parsable
  <2>2. Traceparent(m) = m.w3c
    BY <1>2, <2>1 DEF Traceparent, IsMsg
  <2>3. m.w3c.trace # 0 /\ m.w3c.span # 0
    BY <1>2, <2>2 DEF Parsable
  <2>4. RequestContext(m) = [trace |-> m.w3c.trace, span |-> m.w3c.span, sampled |-> m.w3c.sampled,
                             state |-> ParseTracestateHeader(m.tracestate)]
    BY <1>2, <2>2 DEF RequestContext
  <2> QED
    BY <2>3, <2>4 DEF ContextOf
<1> QED
  BY <1>1, <1>2

LEMMA NoContextIs ==
    NoContext.trace = 0 /\ NoContext.span = 0 /\ NoContext.sampled \in BOOLEAN /\ NoContext.state = NoState
BY DEF NoContext

\* A trace context that a transaction can be started with.
IsContext(c) == c.trace \in Nat /\ c.span \in Nat /\ c.sampled \in BOOLEAN /\ c.state \in State
                /\ (c.trace # 0 => c.span # 0)

LEMMA ContextType ==
    /\ IsContext(NoContext)
    /\ \A m : IsMsg(m) => IsContext(RequestContext(m))
<1>1. IsContext(NoContext)
  BY NoContextIs, NoStateIs DEF IsContext
<1>2. ASSUME NEW m, IsMsg(m) PROVE IsContext(RequestContext(m))
  <2>1. PICK c : c = RequestContext(m)
    OBVIOUS
  <2>2. ContextOf(m, c)
    BY <1>2, <2>1, ContextIs
  <2>3. ParseTracestateHeader(m.tracestate) \in State
    BY <1>2, NoStateIs, StateType DEF ParseTracestateHeader, IsMsg
  <2>4. m.w3c.trace \in Nat /\ m.w3c.span \in Nat /\ m.w3c.sampled \in BOOLEAN
    BY <1>2 DEF IsMsg, IsHeader
  <2>5. IsContext(c)
    BY <1>1, <2>2, <2>3, <2>4 DEF ContextOf, IsContext
  <2> QED
    BY <2>1, <2>5
<1> QED
  BY <1>1, <1>2

\* What StartTransactionOptions returns: a transaction of no trace, one that
\* continues the trace, or a root.
Started(s, c, id, t) ==
    /\ IsTx(t) /\ t.service = s
    /\ \/ t.trace = 0
       \/ /\ t.trace = c.trace /\ c.trace # 0 /\ t.parent = c.span /\ t.sampled = c.sampled
          /\ t.links = {} /\ t.state = IF ValidState(c.state) THEN c.state ELSE NoState
       \/ /\ t.trace = id /\ t.parent = 0 /\ t.state = RootState(Rate[s], t.sampled)
          /\ c.trace # 0 => ~Continues(s, c) /\ t.links = {<<c.trace, c.span>>}

LEMMA StartIs ==
    ASSUME NEW s \in Service, NEW c, IsContext(c), NEW id \in Nat,
           NEW t, t \in StartTransactionOptions(s, c, id)
    PROVE  Started(s, c, id, t) /\ t.msg = NoHeader
<1>1. CASE s \notin Recording
  <2>1. t = Unrecorded(s, c)
    BY <1>1 DEF StartTransactionOptions
  <2>2. IsTx(t) /\ t.service = s /\ t.trace = 0 /\ t.msg = NoHeader
    BY <2>1, NoStateIs DEF Unrecorded, IsTx
  <2> QED
    BY <2>2 DEF Started
<1>2. CASE s \in Recording /\ c.trace # 0 /\ ~Restarts(s, c)
  <2>1. t = Continued(s, c, id)
    BY <1>2 DEF StartTransactionOptions
  <2>2. PICK x \in State : x = IF ValidState(c.state) THEN c.state ELSE NoState
    BY NoStateIs DEF IsContext
  <2>3. t = [service |-> s, trace |-> c.trace, id |-> id, parent |-> c.span, sampled |-> c.sampled,
             state |-> x, links |-> {}, msg |-> NoHeader]
    BY <2>1, <2>2 DEF Continued
  <2>4. /\ IsTx(t) /\ t.service = s /\ t.trace = c.trace /\ t.parent = c.span
        /\ t.sampled = c.sampled /\ t.links = {} /\ t.state = x /\ t.msg = NoHeader
    BY <2>3 DEF IsTx, IsContext
  <2> QED
    BY <1>2, <2>2, <2>4 DEF Started
<1>3. CASE s \in Recording /\ ~(c.trace # 0 /\ ~Restarts(s, c))
  <2>1. PICK b \in BOOLEAN : t = RootTransaction(s, c, id, b)
    BY <1>3 DEF StartTransactionOptions, SampleResults
  <2>2. PICK x : x = RootState(Rate[s], b)
    OBVIOUS
  <2>3. x \in State
    <3>1. Rate[s] \in Rates
      BY RateOf, Zenon
    <3>2. RootStateOf(Rate[s], b, x)
      BY <2>2, <3>1, RootStateIs, Zenon
    <3> QED
      BY <3>2 DEF RootStateOf
  <2>4. PICK l : l = IF Restarts(s, c) THEN {<<c.trace, c.span>>} ELSE {}
    OBVIOUS
  <2>5. t = [service |-> s, trace |-> id, id |-> id, parent |-> 0, sampled |-> b, state |-> x,
             links |-> l, msg |-> NoHeader]
    BY <2>1, <2>2, <2>4 DEF RootTransaction
  <2>6. /\ IsTx(t) /\ t.service = s /\ t.trace = id /\ t.parent = 0
        /\ t.sampled = b /\ t.links = l /\ t.state = x /\ t.msg = NoHeader
    BY <2>3, <2>5 DEF IsTx
  <2>7. c.trace # 0 => ~Continues(s, c) /\ l = {<<c.trace, c.span>>}
    BY <1>3, <2>4 DEF Restarts
  <2> QED
    BY <2>2, <2>6, <2>7 DEF Started
<1> QED
  BY <1>1, <1>2, <1>3

\* The same with the request that caused it.
LEMMA StartedBy ==
    ASSUME NEW s, NEW c, NEW id, NEW t, NEW m, Started(s, c, id, t)
    PROVE  Started(s, c, id, [t EXCEPT !.msg = m]) /\ [t EXCEPT !.msg = m].msg = m
<1> DEFINE r == [t EXCEPT !.msg = m]
<1>1. IsTx(r) /\ r.service = t.service /\ r.trace = t.trace /\ r.parent = t.parent
      /\ r.sampled = t.sampled /\ r.links = t.links /\ r.state = t.state /\ r.msg = m
  BY DEF Started, IsTx
<1> HIDE DEF r
<1>2. Started(s, c, id, r)
  BY <1>1 DEF Started
<1> QED
  BY <1>1, <1>2 DEF r

\* A root's own entries.
LEMMA RootKeeps ==
    ASSUME NEW t, IsTx(t), t.state = RootState(Rate[t.service], t.sampled)
    PROVE  /\ Agrees(RootRate(t), t.state.entries)
           /\ Rate[t.service] # -1 => Elastic(t.state.entries) # {}
<1>1. Rate[t.service] \in Rates /\ t.sampled \in BOOLEAN
  <2>1. t.service \in Service /\ t.sampled \in BOOLEAN
    BY DEF IsTx
  <2> QED
    BY <2>1, RateOf, Zenon
<1>2. /\ t.state \in State /\ Agrees(RootRate(t), t.state.entries)
      /\ Rate[t.service] # -1 => t.state.haveElastic
  <2>1. RootStateOf(Rate[t.service], t.sampled, t.state)
    BY <1>1, RootStateIs, Zenon
  <2> QED
    BY <2>1 DEF RootStateOf, RootRate
<1> QED
  BY <1>2 DEF State

\* The state a trace is continued with keeps what the tracestate kept, or the
\* tracestate is one that spoils it.
LEMMA ContinuedKeeps ==
    ASSUME NEW m \in msgs, IsMsg(m), NEW u, NEW state,
           state = IF ValidState(ParseTracestateHeader(m.tracestate))
                   THEN ParseTracestateHeader(m.tracestate) ELSE NoState,
           m.tracestate # Malformed => Keeps(u, m.w3c.trace, m.tracestate)
    PROVE  Keeps(u, m.w3c.trace, state.entries)
<1> SUFFICES ASSUME m.w3c.trace = u.trace
             PROVE  /\ Agrees(RootRate(u), state.entries)
                    /\ Rate[u.service] # -1 => Elastic(state.entries) # {} \/ Spoiled(m.w3c.trace)
  BY DEF Keeps
<1>1. NoState.entries = <<>> /\ Agrees(RootRate(u), <<>>)
  BY NoStateIs DEF Agrees
<1>2. CASE state = NoState /\ Spoils(m)
  <2>1. Spoiled(m.w3c.trace)
    BY <1>2 DEF Spoiled
  <2> QED
    BY <1>1, <1>2, <2>1
<1>3. CASE m.tracestate = Malformed
  <2>1. state = NoState
    BY <1>3 DEF ParseTracestateHeader
  <2> QED
    BY <1>2, <1>3, <2>1 DEF Spoils
<1>4. CASE m.tracestate # Malformed
  <2>1. PICK e : e = m.tracestate
    OBVIOUS
  <2>2. e \in Seq(Entry) /\ Agrees(RootRate(u), e)
        /\ (Rate[u.service] # -1 => Elastic(e) # {} \/ Spoiled(m.w3c.trace))
    BY <1>4, <2>1 DEF Keeps, IsMsg
  <2>3. PICK y : y = NewTraceState(e)
    OBVIOUS
  <2>4. StateOf(e, y) /\ Agrees(RootRate(u), y.entries)
    BY <2>2, <2>3, StateIs, StateAgrees
  <2>5. state = IF ValidState(y) THEN y ELSE NoState
    BY <1>4, <2>1, <2>3 DEF ParseTracestateHeader
  <2>6. CASE ValidState(y)
    <3>1. Elastic(e) # {} => Elastic(y.entries) # {}
      BY <2>4 DEF StateOf
    <3> QED
      BY <2>2, <2>4, <2>5, <2>6, <3>1
  <2>7. CASE ~ValidState(y)
    <3>1. Len(e) \in Nat /\ Len(y.entries) \in Nat /\ Len(y.entries) <= Len(e) /\ MaxEntries \in Nat
          /\ DOMAIN e = 1..Len(e) /\ DOMAIN y.entries = 1..Len(y.entries)
      BY <2>2, <2>4, TraceContextAssumption DEF StateOf
    <3>2. CASE ~(Len(y.entries) <= MaxEntries)
      <4>1. Len(e) > MaxEntries
        BY <3>1, <3>2
      <4> QED
        BY <1>2, <2>1, <2>5, <2>7, <4>1 DEF Spoils
    <3>3. CASE \E i \in DOMAIN y.entries : y.entries[i].value = BadRate
      <4>1. \E i \in DOMAIN e : e[i].value = BadRate
        BY <2>4, <3>1, <3>3 DEF StateOf
      <4> QED
        BY <1>2, <2>1, <2>5, <2>7, <4>1 DEF Spoils
    <3> QED
      BY <2>7, <3>2, <3>3 DEF ValidState
  <2> QED
    BY <2>6, <2>7
<1> QED
  BY <1>3, <1>4

LEMMA TraceInvInit == TraceInit => TraceInv
<1> SUFFICES ASSUME TraceInit PROVE TraceInv
  OBVIOUS
<1>1. nextID = 1 /\ txs = {} /\ msgs = {}
  BY DEF TraceInit
<1>2. \A x, b : ~Says(x, b)
  BY <1>1 DEF Says
<1>3. OneDecision
  BY <1>2, Zenon DEF OneDecision
<1>4. TraceType /\ RootsKept
  BY <1>1 DEF TraceType, RootsKept
<1> QED
  BY <1>1, <1>3, <1>4 DEF TraceInv

LEMMA BeginKeeps == ASSUME TraceInv, NEW s \in Service, Begin(s) PROVE TraceInv'
<1>1. PICK t \in StartTransactionOptions(s, NoContext, nextID) : txs' = txs \cup {t}
  BY DEF Begin
<1>2. nextID \in Nat /\ nextID # 0 /\ nextID' = nextID + 1 /\ msgs' = msgs
  BY DEF Begin, TraceInv, TraceType
<1>3. Started(s, NoContext, nextID, t) /\ t.msg = NoHeader
  BY <1>2, StartIs, ContextType
<1>4. IsTx(t) /\ t.service = s /\ Caused(t)
  BY <1>3 DEF Started, Caused
<1>5. CASE t.trace = 0
  <2>1. t.trace <= nextID
    BY <1>2, <1>5
  <2> QED
    BY <1>1, <1>2, <1>4, <1>5, <2>1, AddTx
<1>6. CASE t.trace # 0
  <2>1. t.trace = nextID /\ t.state = RootState(Rate[t.service], t.sampled)
    BY <1>3, <1>6, NoContextIs DEF Started
  <2>2. /\ Agrees(RootRate(t), t.state.entries)
        /\ Rate[t.service] # -1 => Elastic(t.state.entries) # {}
    BY <1>4, <2>1, RootKeeps
  <2>3. t.trace <= nextID
    BY <1>2, <2>1
  <2> QED
    BY <1>1, <1>2, <1>4, <2>1, <2>2, <2>3, AddTx
<1> QED
  BY <1>5, <1>6

LEMMA ReceiveKeeps == ASSUME TraceInv, NEW s \in Service, NEW m \in msgs, Receive(s, m) PROVE TraceInv'
<1>1. PICK r \in StartTransactionOptions(s, RequestContext(m), nextID) :
          txs' = txs \cup {[r EXCEPT !.msg = m]}
  BY DEF Receive
<1>2. /\ nextID \in Nat /\ nextID # 0 /\ nextID' = nextID + 1 /\ msgs' = msgs
      /\ IsMsg(m) /\ m.w3c.trace < nextID /\ m.w3c.trace \in Nat
  BY DEF Receive, TraceInv, TraceType, IsMsg, IsHeader
<1>3. PICK c : c = RequestContext(m)
  OBVIOUS
<1>4. IsContext(c) /\ ContextOf(m, c)
  BY <1>2, <1>3, ContextIs, ContextType
<1>5. Started(s, c, nextID, r)
  BY <1>1, <1>2, <1>3, <1>4, StartIs
<1>6. PICK t : t = [r EXCEPT !.msg = m]
  OBVIOUS
<1>7. Started(s, c, nextID, t) /\ t.msg = m /\ txs' = txs \cup {t}
  BY <1>1, <1>5, <1>6, StartedBy
<1>8. IsTx(t) /\ t.service = s
  BY <1>7 DEF Started
<1>9. c.trace = 0 \/ (c.trace = m.w3c.trace /\ c.trace < nextID)
  BY <1>2, <1>4, NoContextIs DEF ContextOf
<1>10. Caused(t)
  <2> SUFFICES ASSUME t.trace # 0, c.trace # 0
               PROVE  \/ t.trace = c.trace /\ t.parent = c.span /\ t.links = {}
                      \/ /\ t.trace # c.trace /\ t.parent = 0 /\ t.links = {<<c.trace, c.span>>}
                         /\ ~Continues(t.service, c)
    BY <1>3, <1>7 DEF Caused
  <2>1. c.trace # nextID
    BY <1>2, <1>9
  <2> QED
    BY <1>7, <1>8, <2>1 DEF Started
<1>11. CASE t.trace = 0
  <2>1. t.trace <= nextID
    BY <1>2, <1>11
  <2> QED
    BY <1>2, <1>7, <1>8, <1>10, <1>11, <2>1, AddTx
<1>12. CASE t.trace # 0 /\ t.trace = nextID /\ t.parent = 0 /\ t.state = RootState(Rate[s], t.sampled)
  <2>1. /\ Agrees(RootRate(t), t.state.entries)
        /\ Rate[t.service] # -1 => Elastic(t.state.entries) # {}
    BY <1>8, <1>12, RootKeeps
  <2>2. t.trace <= nextID
    BY <1>2, <1>12
  <2> QED
    BY <1>2, <1>7, <1>8, <1>10, <1>12, <2>1, <2>2, AddTx
<1>13. CASE /\ t.trace = c.trace /\ c.trace # 0 /\ t.parent = c.span /\ t.sampled = c.sampled
            /\ t.state = IF ValidState(c.state) THEN c.state ELSE NoState
  <2>1. /\ c.trace = m.w3c.trace /\ c.span # 0 /\ c.sampled = m.w3c.sampled
        /\ c.state = ParseTracestateHeader(m.tracestate)
    BY <1>4, <1>13, NoContextIs DEF ContextOf
  <2>2. Says(t.trace, t.sampled)
    BY <1>13, <2>1 DEF Says
  <2>3. ASSUME NEW u \in txs, IsRoot(u) PROVE Keeps(u, t.trace, t.state.entries)
    <3>1. m.tracestate # Malformed => Keeps(u, m.w3c.trace, m.tracestate)
      BY <2>3 DEF TraceInv, RootsKept
    <3>2. PICK state : state = t.state
      OBVIOUS
    <3>3. state = IF ValidState(ParseTracestateHeader(m.tracestate))
                  THEN ParseTracestateHeader(m.tracestate) ELSE NoState
      BY <1>13, <2>1, <3>2
    <3>4. Keeps(u, m.w3c.trace, state.entries)
      BY <1>2, <3>1, <3>3, ContinuedKeeps
    <3> QED
      BY <1>13, <2>1, <3>2, <3>4
  <2>4. t.parent # 0 /\ t.trace # nextID /\ t.trace <= nextID
    BY <1>2, <1>13, <2>1
  <2> QED
    BY <1>2, <1>7, <1>8, <1>10, <2>2, <2>3, <2>4, AddTx
<1> QED
  BY <1>7, <1>11, <1>12, <1>13 DEF Started

LEMMA TracedRequestKeeps == ASSUME TraceInv, NEW t \in txs, TracedRequest(t) PROVE TraceInv'
<1>1. PICK id : msgs' = msgs \cup {SetHeaders(t, id)} /\ id \in {nextID, t.id}
  BY DEF TracedRequest
<1>2. /\ nextID \in Nat /\ nextID # 0 /\ (nextID' = nextID \/ nextID' = nextID + 1) /\ txs' = txs
      /\ IsTx(t) /\ t.trace < nextID
  BY DEF TracedRequest, TraceInv, TraceType
<1>3. t.trace \in Nat /\ t.id \in Nat /\ t.sampled \in BOOLEAN /\ t.state.entries \in Seq(Entry)
  BY <1>2 DEF IsTx, State
<1>4. PICK h : h = [trace |-> t.trace, span |-> id, sampled |-> t.sampled]
  OBVIOUS
<1>5. IsHeader(h) /\ h.trace = t.trace /\ h.sampled = t.sampled
  BY <1>1, <1>2, <1>3, <1>4 DEF IsHeader
<1>6. PICK l : l = IF t.service \in Legacy THEN h ELSE NoHeader
  OBVIOUS
<1>7. PICK m : m = [w3c |-> h, legacy |-> l, tracestate |-> t.state.entries]
  OBVIOUS
<1>8. m.w3c = h /\ m.legacy = l /\ m.tracestate = t.state.entries
  BY <1>7
<1>9. IsMsg(m) /\ msgs' = msgs \cup {m}
  <2>1. SetHeaders(t, id) = m
    BY <1>4, <1>6, <1>7 DEF SetHeaders
  <2> QED
    BY <1>1, <1>3, <1>5, <1>6, <1>8, <2>1 DEF IsMsg
<1>10. m.w3c.trace < nextID /\ m.w3c.trace < nextID'
  BY <1>2, <1>3, <1>5, <1>8
<1>11. Says(m.w3c.trace, m.w3c.sampled)
  BY <1>5, <1>8 DEF Says
<1>12. \A u \in txs : IsRoot(u) => Keeps(u, m.w3c.trace, m.tracestate)
  BY <1>5, <1>8 DEF TraceInv, RootsKept
<1> QED
  BY <1>2, <1>9, <1>10, <1>11, <1>12, AddMsg

LEMMA ForeignBeginKeeps == ASSUME TraceInv, NEW b \in BOOLEAN, ForeignBegin(b) PROVE TraceInv'
<1>1. nextID \in Nat /\ nextID' = nextID + 1 /\ txs' = txs
  BY DEF ForeignBegin, TraceInv, TraceType
<1>2. PICK h : h = [trace |-> nextID, span |-> nextID, sampled |-> b]
  OBVIOUS
<1>3. IsHeader(h) /\ h.trace = nextID
  BY <1>1, <1>2 DEF IsHeader
<1>4. PICK e : e = <<[key |-> "v", value |-> nextID]>>
  OBVIOUS
<1>5. e \in Seq(Entry)
  <2>1. [key |-> "v", value |-> nextID] \in Entry
    BY <1>1, EntryIs
  <2> QED
    BY <1>4, <2>1
<1>6. PICK m : m = [w3c |-> h, legacy |-> NoHeader, tracestate |-> e]
  OBVIOUS
<1>7. m.w3c = h /\ IsMsg(m)
  BY <1>3, <1>5, <1>6 DEF IsMsg
<1>8. msgs' = msgs \cup {m}
  BY <1>2, <1>4, <1>6 DEF ForeignBegin
<1>9. m.w3c.trace = nextID /\ m.w3c.trace < nextID'
  BY <1>1, <1>3, <1>7
<1> QED
  BY <1>1, <1>7, <1>8, <1>9, AddMsg

\* An entry of another vendor in front changes nothing.
LEMMA VendorEntry ==
    ASSUME NEW e \in Seq(Entry), NEW x \in Entry, x.key = "v", NEW rate, Agrees(rate, e)
    PROVE  /\ <<x>> \o e \in Seq(Entry) /\ Agrees(rate, <<x>> \o e)
           /\ Elastic(e) # {} => Elastic(<<x>> \o e) # {}
<1> DEFINE q == <<x>>
<1>1. q \in Seq(Entry) /\ Len(q) = 1 /\ q[1] = x
  OBVIOUS
<1> HIDE DEF q
<1>2. PICK t : t = q \o e
  OBVIOUS
<1>3. /\ t \in Seq(Entry) /\ Len(t) = 1 + Len(e)
      /\ \A i \in 1..1 + Len(e) : t[i] = IF i <= 1 THEN q[i] ELSE e[i - 1]
  BY <1>1, <1>2, ConcatProperties
<1>4. Len(e) \in Nat /\ DOMAIN e = 1..Len(e) /\ DOMAIN t = 1..(1 + Len(e))
  BY <1>3
<1>5. t[1] = x
  BY <1>1, <1>3, <1>4
<1>6. \A i \in 1..Len(e) : t[i + 1] = e[i]
  <2> SUFFICES ASSUME NEW i \in 1..Len(e) PROVE t[i + 1] = e[i]
    OBVIOUS
  <2>1. PICK j \in Nat : j = i + 1
    OBVIOUS
  <2>2. j \in 1..1 + Len(e) /\ ~(j <= 1) /\ j - 1 = i
    BY <1>4, <2>1
  <2>3. t[j] = e[j - 1]
    BY <1>3, <2>2
  <2> QED
    BY <2>1, <2>2, <2>3
<1>7. Agrees(rate, t)
  <2> SUFFICES ASSUME NEW i \in 1..Len(t), t[i].key = "es" PROVE t[i].value = rate
    BY DEF Agrees
  <2>1. i # 1
    BY <1>5
  <2>2. PICK j \in 1..Len(e) : i = j + 1
    <3>1. i - 1 \in 1..Len(e) /\ i = (i - 1) + 1
      BY <1>3, <1>4, <2>1
    <3> QED
      BY <3>1
  <2>3. t[i] = e[j]
    BY <1>6, <2>2
  <2> QED
    BY <2>3 DEF Agrees
<1>8. Elastic(e) # {} => Elastic(t) # {}
  <2> SUFFICES ASSUME NEW i \in Elastic(e) PROVE Elastic(t) # {}
    OBVIOUS
  <2>1. i \in 1..Len(e) /\ e[i].key = "es"
    BY <1>4 DEF Elastic
  <2>2. PICK j \in Nat : j = i + 1
    BY <2>1
  <2>3. j \in DOMAIN t /\ t[j].key = "es"
    BY <1>4, <1>6, <2>1, <2>2
  <2> QED
    BY <2>3 DEF Elastic
<1> QED
  BY <1>2, <1>3, <1>7, <1>8 DEF q

LEMMA ForeignForwardKeeps ==
    ASSUME TraceInv, NEW m \in msgs, m.tracestate # Malformed, ForeignForward(m)
    PROVE  TraceInv'
<1>1. /\ nextID \in Nat /\ nextID' = nextID + 1 /\ txs' = txs
      /\ IsMsg(m) /\ m.w3c.trace < nextID /\ m.w3c.trace \in Nat
  BY DEF ForeignForward, TraceInv, TraceType, IsMsg, IsHeader
<1>2. PICK ts \in {<<[key |-> "v", value |-> nextID]>> \o m.tracestate, Malformed,
                   <<[key |-> "v", value |-> BadRate]>> \o m.tracestate} :
          msgs' = msgs \cup {[w3c |-> [m.w3c EXCEPT !.span = nextID], legacy |-> NoHeader,
                              tracestate |-> ts]}
  BY DEF ForeignForward
<1>3. PICK h : h = [m.w3c EXCEPT !.span = nextID]
  OBVIOUS
<1>4. IsHeader(h) /\ h.trace = m.w3c.trace /\ h.sampled = m.w3c.sampled
  BY <1>1, <1>3 DEF IsMsg, IsHeader
<1>5. PICK n : n = [w3c |-> h, legacy |-> NoHeader, tracestate |-> ts]
  OBVIOUS
<1>6. n.w3c = h /\ n.legacy = NoHeader /\ n.tracestate = ts /\ msgs' = msgs \cup {n}
  BY <1>2, <1>3, <1>5
<1>7. PICK e \in Seq(Entry) : e = m.tracestate
  BY <1>1 DEF IsMsg
<1>8. ASSUME ts # Malformed PROVE \E x \in Entry : x.key = "v" /\ ts = <<x>> \o e
  <2>1. [key |-> "v", value |-> nextID] \in Entry /\ [key |-> "v", value |-> BadRate] \in Entry
    BY <1>1, EntryIs
  <2> QED
    BY <1>2, <1>7, <1>8, <2>1
<1>9. ts = Malformed \/ ts \in Seq(Entry)
  <2>1. ASSUME NEW x \in Entry PROVE <<x>> \o e \in Seq(Entry)
    OBVIOUS
  <2> QED
    BY <1>8, <2>1
<1>10. IsMsg(n) /\ n.w3c.trace < nextID /\ n.w3c.trace < nextID'
  BY <1>1, <1>4, <1>6, <1>9 DEF IsMsg
<1>11. Says(n.w3c.trace, n.w3c.sampled)
  BY <1>4, <1>6 DEF Says
<1>12. ASSUME NEW u \in txs, IsRoot(u), n.tracestate # Malformed PROVE Keeps(u, n.w3c.trace, n.tracestate)
  <2>1. PICK x \in Entry : x.key = "v" /\ ts = <<x>> \o e
    BY <1>6, <1>8, <1>12
  <2>2. Keeps(u, m.w3c.trace, e)
    BY <1>7, <1>12 DEF TraceInv, RootsKept
  <2>3. CASE m.w3c.trace = u.trace
    <3>1. Agrees(RootRate(u), e) /\ (Rate[u.service] # -1 => Elastic(e) # {} \/ Spoiled(m.w3c.trace))
      BY <2>2, <2>3 DEF Keeps
    <3>2. Agrees(RootRate(u), ts) /\ (Elastic(e) # {} => Elastic(ts) # {})
      BY <2>1, <3>1, VendorEntry
    <3> QED
      BY <1>4, <1>6, <3>1, <3>2 DEF Keeps
  <2>4. CASE m.w3c.trace # u.trace
    BY <1>4, <1>6, <2>4 DEF Keeps
  <2> QED
    BY <2>3, <2>4
<1> QED
  BY <1>1, <1>6, <1>10, <1>11, <1>12, AddMsg

LEMMA TraceInvNext == TraceInv /\ [TraceNext]_traceVars => TraceInv'
<1> SUFFICES ASSUME TraceInv, [TraceNext]_traceVars PROVE TraceInv'
  OBVIOUS
<1>1. CASE UNCHANGED traceVars
  <2>1. nextID' = nextID /\ txs' = txs /\ msgs' = msgs
    BY <1>1 DEF traceVars
  <2>2. \A x, b : Says(x, b)' <=> Says(x, b)
    BY <2>1 DEF Says
  <2>3. ASSUME NEW u, NEW x, NEW e, Keeps(u, x, e) PROVE Keeps(u, x, e)'
    BY <2>1, <2>3, KeepsStays
  <2>4. ASSUME NEW t, Caused(t) PROVE Caused(t)'
    BY <2>1, <2>4, CausedStays
  <2>5. TraceType' /\ OneDecision'
    BY <2>1, <2>2 DEF TraceInv, TraceType, OneDecision
  <2>6. RootsKept'
    BY <2>1, <2>3 DEF TraceInv, RootsKept
  <2> QED
    BY <2>1, <2>4, <2>5, <2>6 DEF TraceInv
<1> QED
  BY <1>1, BeginKeeps, ReceiveKeeps, TracedRequestKeeps, ForeignBeginKeeps, ForeignForwardKeeps
     DEF TraceNext

LEMMA TraceInvImplies == TraceInv => TracesConsistent
<1> SUFFICES ASSUME TraceInv PROVE TracesConsistent
  OBVIOUS
<1>1. /\ nextID \in Nat
      /\ \A t \in txs : IsTx(t) /\ t.trace \in Nat /\ t.trace < nextID /\ t.sampled \in BOOLEAN
      /\ \A m \in msgs : IsMsg(m)
  BY DEF TraceInv, TraceType, IsTx
<1>2. SampledTogether
  <2> SUFFICES ASSUME NEW t \in txs, NEW u \in txs, t.trace = u.trace, t.trace # 0
               PROVE  t.sampled = u.sampled
    BY DEF SampledTogether
  <2>1. t.trace \in 1..nextID
    BY <1>1
  <2>2. Says(t.trace, t.sampled) /\ Says(t.trace, u.sampled)
    BY DEF Says
  <2>3. ~(Says(t.trace, TRUE) /\ Says(t.trace, FALSE))
    BY <2>1 DEF TraceInv, OneDecision
  <2> QED
    BY <1>1, <2>2, <2>3
<1>3. RateTravels
  <2> SUFFICES ASSUME NEW t \in txs, NEW u \in txs, t.trace = u.trace, u.trace # 0, u.parent = 0,
                      StateRate(t.state) # -1
               PROVE  StateRate(t.state) = RootRate(u)
    BY DEF RateTravels, RootRate
  <2>1. Agrees(RootRate(u), t.state.entries)
    BY DEF TraceInv, RootsKept, IsRoot, Keeps
  <2>2. t.state.haveElastic /\ StateRate(t.state) = t.state.entries[1].value
    BY DEF StateRate
  <2>3. Len(t.state.entries) \in Nat /\ Len(t.state.entries) > 0 /\ t.state.entries[1].key = "es"
    BY <1>1, <2>2 DEF IsTx, State
  <2>4. 1 \in 1..Len(t.state.entries)
    BY <2>3
  <2> QED
    BY <2>1, <2>2, <2>3, <2>4 DEF Agrees
<1>4. CallerKnown
  BY DEF TraceInv, Caused, CallerKnown
<1>5. AgentsTrusted
  <2> SUFFICES ASSUME NEW t \in txs, NEW u \in txs, t.msg # NoHeader,
                      Strategy[t.service] = "restart_external", t.trace # 0, u.parent = 0,
                      u.trace = RequestContext(t.msg).trace, u.trace # 0, Rate[u.service] # -1,
                      ~Spoiled(u.trace)
               PROVE  t.trace = u.trace
    BY DEF AgentsTrusted, Spoiled, Spoils
  <2>1. PICK m \in msgs : m = t.msg
    BY DEF TraceInv, Caused
  <2>2. PICK c : c = RequestContext(m)
    OBVIOUS
  <2>3. c.trace = u.trace /\ c.trace # 0
    BY <2>1, <2>2
  <2>4. c.trace = m.w3c.trace /\ c.state = ParseTracestateHeader(m.tracestate)
    BY <1>1, <2>2, <2>3, ContextIs, NoContextIs DEF ContextOf
  <2>5. m.tracestate # Malformed
    BY <2>3, <2>4 DEF Spoiled, Spoils
  <2>6. Keeps(u, m.w3c.trace, m.tracestate)
    BY <2>5 DEF TraceInv, RootsKept, IsRoot
  <2>7. Elastic(m.tracestate) # {}
    BY <2>3, <2>4, <2>6 DEF Keeps
  <2>8. c.state.haveElastic
    <3>1. StateOf(m.tracestate, NewTraceState(m.tracestate))
      BY <1>1, <2>5, StateIs DEF IsMsg
    <3> QED
      BY <2>4, <2>5, <2>7, <3>1 DEF ParseTracestateHeader, StateOf
  <2>9. Continues(t.service, c)
    BY <2>8 DEF Continues
  <2>10. Caused(t)
    BY DEF TraceInv
  <2> QED
    BY <2>1, <2>2, <2>3, <2>9, <2>10 DEF Caused
<1>6. RatioShare
  <2> SUFFICES ASSUME NEW rate \in {0, 1, 2500, 3333, 5000, 9999, 10000}, NEW maxID \in {1, 7, 20}
               PROVE  ShareSampled(rate, maxID)
    BY DEF RatioShare
  <2>1. rate \in Shares /\ maxID \in Nat
    BY DEF Shares
  <2> QED
    BY <2>1, ShareIs
<1> QED
  BY <1>2, <1>3, <1>4, <1>5, <1>6 DEF TracesConsistent

\* Whatever systems a trace passes through, whatever strategies and rates the
\* services have and whichever headers are lost on the way (transaction.go,
\* tracecontext.go, module/apmhttp), its transactions agree on whether it is
\* sampled and at which rate, each knows its caller, and a trace that an agent
\* started is continued by those who trust agents.
THEOREM TracesAreConsistent == TraceSpec => []TracesConsistent
<1> QED
  BY TraceInvInit, TraceInvNext, TraceInvImplies, PTL DEF TraceSpec

-----------------------------------------------------------------------------
(* The encoders: their tables *)

\* The types with fields, by the encoders generated for them and the three objects
\* that are written by hand.
Types ==
    {"Service", "Agent", "Framework", "Language", "Runtime", "ServiceNode", "System",
     "Process", "Container", "Kubernetes", "KubernetesNode", "KubernetesPod",
     "Cloud", "CloudInstance", "CloudMachine", "CloudAccount", "CloudProject",
     "Transaction", "OTel", "SpanCount", "DroppedSpansStats", "AggregateDuration",
     "DurationSum", "Span", "SpanContext", "SpanLink", "DestinationSpanContext",
     "ServiceSpanContext", "ServiceTargetSpanContext",
     "DestinationServiceSpanContext", "DestinationCloudSpanContext",
     "MessageSpanContext", "MessageQueueSpanContext", "DatabaseSpanContext",
     "CompositeSpan", "Context", "User", "Error", "ErrorTransaction", "Exception",
     "StacktraceFrame", "Log", "Request", "RequestSocket", "Response", "Metrics",
     "MetricsTransaction", "MetricsSpan", "FAAS", "FAASTrigger", "Value",
     "Histogram", "Metadata"}

\* The types whose encoders, written by hand, are one step.
LeafTypes == {"URL", "HTTPSpanContext", "Cookies", "StringMap", "IfaceMap", "Headers",
              "RequestBody", "ExceptionCode", "Time", "ID"}

\* What an encoder calls for a value exists.
Known(v) ==
    /\ v.form \in {"scalar", "float", "object", "leaf", "list", "map"}
    /\ v.form = "object" => v.of \in Types
    /\ v.form = "leaf" => v.of \in LeafTypes

\* An encoder has the fields that the tags name, and puts its commas in one of three
\* ways: it looks at whether a field comes first; or its first field is always there
\* and the others have a comma; or there is only one.
Tagged(p, fields) ==
    /\ \A i \in 1..Len(p) : p[i].omit = TRUE \/ p[i].omit = FALSE
    /\ \A i \in 1..Len(p) : p[i].key \in IF p[i].omit = TRUE THEN fields.omitempty ELSE fields.always
    /\ \A k \in fields.always : \E i \in 1..Len(p) : p[i].key = k /\ p[i].omit = FALSE
    /\ \A k \in fields.omitempty : \E i \in 1..Len(p) : p[i].key = k /\ p[i].omit = TRUE
Flags(p) == \A i \in 1..Len(p) : p[i].lead = "flag"
Commas(p) == p[1].lead = "none" /\ p[1].omit = FALSE /\ \A i \in 2..Len(p) : p[i].lead = "comma"
Single(p) == Len(p) = 1 /\ p[1].lead = "none"

\* What the encoders of the fields call exists.
Values(p) == Len(p) \in Nat /\ DOMAIN p = 1..Len(p) /\ \A i \in 1..Len(p) : Known(p[i].value)

\* Every encoder puts its commas in one of the three ways.
Regular(programs) ==
    \A t \in DOMAIN programs :
        /\ t \in Types /\ Values(programs[t])
        /\ Flags(programs[t]) \/ Commas(programs[t]) \/ Single(programs[t])

\* The encoders have the fields of the types with the same names.
Matches(programs, tags) ==
    /\ DOMAIN programs = DOMAIN tags
    /\ \A t \in DOMAIN programs : Tagged(programs[t], tags[t])

\* The key of each kind of write, and whether it is left out if it is empty.
LEMMA KeyOf ==
    \A key, value :
        /\ First(key, value).key = key /\ First(key, value).omit = FALSE
        /\ Always(key, value).key = key /\ Always(key, value).omit = FALSE
        /\ Only(key, value).key = key /\ Only(key, value).omit = TRUE
        /\ Maybe(key, value).key = key /\ Maybe(key, value).omit = TRUE
        /\ Flag(key, value).key = key /\ Flag(key, value).omit = TRUE
BY DEF First, Always, Only, Maybe, Flag, Write

\* What comes before each kind of write.
LEMMA LeadOf ==
    \A key, value :
        /\ First(key, value).lead = "none"
        /\ Always(key, value).lead = "comma"
        /\ Only(key, value).lead = "none"
        /\ Maybe(key, value).lead = "comma"
        /\ Flag(key, value).lead = "flag"
BY DEF First, Always, Only, Maybe, Flag, Write

\* The value of each kind of write.
LEMMA ValueOf ==
    \A key, value :
        /\ First(key, value).value = value
        /\ Always(key, value).value = value
        /\ Only(key, value).value = value
        /\ Maybe(key, value).value = value
        /\ Flag(key, value).value = value
BY DEF First, Always, Only, Maybe, Flag, Write

\* The values that the tables name.
LEMMA KnownValues ==
    /\ Known(Scalar) /\ Known(Float)
    /\ \A t : Known(List(t)) /\ Known(Map(t))
    /\ \A t \in Types : Known(Object(t))
    /\ \A t \in LeafTypes : Known(Leaf(t))
BY DEF Known, Scalar, Float, List, Map, Object, Leaf, Value

\* The encoders, table by table: each has the fields of its type and puts its commas
\* in one of the three ways.
LEMMA ServiceTable == Regular(ServiceMarshal) /\ Matches(ServiceMarshal, ServiceFields)
<1>1. ASSUME NEW p, p = ServiceMarshal.Service
      PROVE  Tagged(p, ServiceFields.Service) /\ Flags(p) /\ Values(p)
  BY <1>1, KeyOf, LeadOf, ValueOf, KnownValues
  DEF ServiceMarshal, ServiceFields, Tagged, Fields, Flags, Values, Types, LeafTypes
<1>2. ASSUME NEW p, p = ServiceMarshal.Agent
      PROVE  Tagged(p, ServiceFields.Agent) /\ Commas(p) /\ Values(p)
  BY <1>2, KeyOf, LeadOf, ValueOf, KnownValues
  DEF ServiceMarshal, ServiceFields, Tagged, Fields, Commas, Values, Types, LeafTypes
<1>3. ASSUME NEW p, p = ServiceMarshal.Framework
      PROVE  Tagged(p, ServiceFields.Framework) /\ Commas(p) /\ Values(p)
  BY <1>3, KeyOf, LeadOf, ValueOf, KnownValues
  DEF ServiceMarshal, ServiceFields, Tagged, Fields, Commas, Values, Types, LeafTypes
<1>4. ASSUME NEW p, p = ServiceMarshal.Language
      PROVE  Tagged(p, ServiceFields.Language) /\ Commas(p) /\ Values(p)
  BY <1>4, KeyOf, LeadOf, ValueOf, KnownValues
  DEF ServiceMarshal, ServiceFields, Tagged, Fields, Commas, Values, Types, LeafTypes
<1>5. ASSUME NEW p, p = ServiceMarshal.Runtime
      PROVE  Tagged(p, ServiceFields.Runtime) /\ Commas(p) /\ Values(p)
  BY <1>5, KeyOf, LeadOf, ValueOf, KnownValues
  DEF ServiceMarshal, ServiceFields, Tagged, Fields, Commas, Values, Types, LeafTypes
<1>6. ASSUME NEW p, p = ServiceMarshal.ServiceNode
      PROVE  Tagged(p, ServiceFields.ServiceNode) /\ Single(p) /\ Values(p)
  BY <1>6, KeyOf, LeadOf, ValueOf, KnownValues
  DEF ServiceMarshal, ServiceFields, Tagged, Fields, Single, Values, Types, LeafTypes
<1>7. DOMAIN ServiceMarshal
          = {"Service", "Agent", "Framework", "Language", "Runtime", "ServiceNode"}
                /\ DOMAIN ServiceFields = DOMAIN ServiceMarshal
  BY DEF ServiceMarshal, ServiceFields
<1> QED
  BY <1>1, <1>2, <1>3, <1>4, <1>5, <1>6, <1>7 DEF Regular, Matches, Types

LEMMA SystemTable == Regular(SystemMarshal) /\ Matches(SystemMarshal, SystemFields)
<1>1. ASSUME NEW p, p = SystemMarshal.System
      PROVE  Tagged(p, SystemFields.System) /\ Flags(p) /\ Values(p)
  BY <1>1, KeyOf, LeadOf, ValueOf, KnownValues
  DEF SystemMarshal, SystemFields, Tagged, Fields, Flags, Values, Types, LeafTypes
<1>2. ASSUME NEW p, p = SystemMarshal.Process
      PROVE  Tagged(p, SystemFields.Process) /\ Commas(p) /\ Values(p)
  BY <1>2, KeyOf, LeadOf, ValueOf, KnownValues
  DEF SystemMarshal, SystemFields, Tagged, Fields, Commas, Values, Types, LeafTypes
<1>3. ASSUME NEW p, p = SystemMarshal.Container
      PROVE  Tagged(p, SystemFields.Container) /\ Single(p) /\ Values(p)
  BY <1>3, KeyOf, LeadOf, ValueOf, KnownValues
  DEF SystemMarshal, SystemFields, Tagged, Fields, Single, Values, Types, LeafTypes
<1>4. ASSUME NEW p, p = SystemMarshal.Kubernetes
      PROVE  Tagged(p, SystemFields.Kubernetes) /\ Flags(p) /\ Values(p)
  BY <1>4, KeyOf, LeadOf, ValueOf, KnownValues
  DEF SystemMarshal, SystemFields, Tagged, Fields, Flags, Values, Types, LeafTypes
<1>5. ASSUME NEW p, p = SystemMarshal.KubernetesNode
      PROVE  Tagged(p, SystemFields.KubernetesNode) /\ Single(p) /\ Values(p)
  BY <1>5, KeyOf, LeadOf, ValueOf, KnownValues
  DEF SystemMarshal, SystemFields, Tagged, Fields, Single, Values, Types, LeafTypes
<1>6. ASSUME NEW p, p = SystemMarshal.KubernetesPod
      PROVE  Tagged(p, SystemFields.KubernetesPod) /\ Flags(p) /\ Values(p)
  BY <1>6, KeyOf, LeadOf, ValueOf, KnownValues
  DEF SystemMarshal, SystemFields, Tagged, Fields, Flags, Values, Types, LeafTypes
<1>7. DOMAIN SystemMarshal = {"System", "Process", "Container", "Kubernetes", "KubernetesNode",
            "KubernetesPod"} /\ DOMAIN SystemFields = DOMAIN SystemMarshal
  BY DEF SystemMarshal, SystemFields
<1> QED
  BY <1>1, <1>2, <1>3, <1>4, <1>5, <1>6, <1>7 DEF Regular, Matches, Types

LEMMA CloudTable == Regular(CloudMarshal) /\ Matches(CloudMarshal, CloudFields)
<1>1. ASSUME NEW p, p = CloudMarshal.Cloud
      PROVE  Tagged(p, CloudFields.Cloud) /\ Commas(p) /\ Values(p)
  BY <1>1, KeyOf, LeadOf, ValueOf, KnownValues
  DEF CloudMarshal, CloudFields, Tagged, Fields, Commas, Values, Types, LeafTypes
<1>2. ASSUME NEW p, p = CloudMarshal.CloudInstance
      PROVE  Tagged(p, CloudFields.CloudInstance) /\ Flags(p) /\ Values(p)
  BY <1>2, KeyOf, LeadOf, ValueOf, KnownValues
  DEF CloudMarshal, CloudFields, Tagged, Fields, Flags, Values, Types, LeafTypes
<1>3. ASSUME NEW p, p = CloudMarshal.CloudMachine
      PROVE  Tagged(p, CloudFields.CloudMachine) /\ Single(p) /\ Values(p)
  BY <1>3, KeyOf, LeadOf, ValueOf, KnownValues
  DEF CloudMarshal, CloudFields, Tagged, Fields, Single, Values, Types, LeafTypes
<1>4. ASSUME NEW p, p = CloudMarshal.CloudAccount
      PROVE  Tagged(p, CloudFields.CloudAccount) /\ Flags(p) /\ Values(p)
  BY <1>4, KeyOf, LeadOf, ValueOf, KnownValues
  DEF CloudMarshal, CloudFields, Tagged, Fields, Flags, Values, Types, LeafTypes
<1>5. ASSUME NEW p, p = CloudMarshal.CloudProject
      PROVE  Tagged(p, CloudFields.CloudProject) /\ Flags(p) /\ Values(p)
  BY <1>5, KeyOf, LeadOf, ValueOf, KnownValues
  DEF CloudMarshal, CloudFields, Tagged, Fields, Flags, Values, Types, LeafTypes
<1>6. DOMAIN CloudMarshal
          = {"Cloud", "CloudInstance", "CloudMachine", "CloudAccount", "CloudProject"}
                /\ DOMAIN CloudFields = DOMAIN CloudMarshal
  BY DEF CloudMarshal, CloudFields
<1> QED
  BY <1>1, <1>2, <1>3, <1>4, <1>5, <1>6 DEF Regular, Matches, Types

LEMMA TransactionTable == Regular(TransactionMarshal) /\ Matches(TransactionMarshal, TransactionFields)
<1>1. ASSUME NEW p, p = TransactionMarshal.Transaction
      PROVE  Tagged(p, TransactionFields.Transaction) /\ Commas(p) /\ Values(p)
  BY <1>1, KeyOf, LeadOf, ValueOf, KnownValues
  DEF TransactionMarshal, TransactionFields, Tagged, Fields, Commas, Values, Types, LeafTypes
<1>2. ASSUME NEW p, p = TransactionMarshal.OTel
      PROVE  Tagged(p, TransactionFields.OTel) /\ Commas(p) /\ Values(p)
  BY <1>2, KeyOf, LeadOf, ValueOf, KnownValues
  DEF TransactionMarshal, TransactionFields, Tagged, Fields, Commas, Values, Types, LeafTypes
<1>3. DOMAIN TransactionMarshal = {"Transaction", "OTel"} /\ DOMAIN TransactionFields
          = DOMAIN TransactionMarshal
  BY DEF TransactionMarshal, TransactionFields
<1> QED
  BY <1>1, <1>2, <1>3 DEF Regular, Matches, Types

LEMMA SpanCountTable == Regular(SpanCountMarshal) /\ Matches(SpanCountMarshal, SpanCountFields)
<1>1. ASSUME NEW p, p = SpanCountMarshal.SpanCount
      PROVE  Tagged(p, SpanCountFields.SpanCount) /\ Commas(p) /\ Values(p)
  BY <1>1, KeyOf, LeadOf, ValueOf, KnownValues
  DEF SpanCountMarshal, SpanCountFields, Tagged, Fields, Commas, Values, Types, LeafTypes
<1>2. ASSUME NEW p, p = SpanCountMarshal.DroppedSpansStats
      PROVE  Tagged(p, SpanCountFields.DroppedSpansStats) /\ Commas(p) /\ Values(p)
  BY <1>2, KeyOf, LeadOf, ValueOf, KnownValues
  DEF SpanCountMarshal, SpanCountFields, Tagged, Fields, Commas, Values, Types, LeafTypes
<1>3. ASSUME NEW p, p = SpanCountMarshal.AggregateDuration
      PROVE  Tagged(p, SpanCountFields.AggregateDuration) /\ Commas(p) /\ Values(p)
  BY <1>3, KeyOf, LeadOf, ValueOf, KnownValues
  DEF SpanCountMarshal, SpanCountFields, Tagged, Fields, Commas, Values, Types, LeafTypes
<1>4. ASSUME NEW p, p = SpanCountMarshal.DurationSum
      PROVE  Tagged(p, SpanCountFields.DurationSum) /\ Single(p) /\ Values(p)
  BY <1>4, KeyOf, LeadOf, ValueOf, KnownValues
  DEF SpanCountMarshal, SpanCountFields, Tagged, Fields, Single, Values, Types, LeafTypes
<1>5. DOMAIN SpanCountMarshal
          = {"SpanCount", "DroppedSpansStats", "AggregateDuration", "DurationSum"}
                /\ DOMAIN SpanCountFields = DOMAIN SpanCountMarshal
  BY DEF SpanCountMarshal, SpanCountFields
<1> QED
  BY <1>1, <1>2, <1>3, <1>4, <1>5 DEF Regular, Matches, Types

LEMMA SpanTable == Regular(SpanMarshal) /\ Matches(SpanMarshal, SpanFields)
<1>1. ASSUME NEW p, p = SpanMarshal.Span
      PROVE  Tagged(p, SpanFields.Span) /\ Commas(p) /\ Values(p)
  BY <1>1, KeyOf, LeadOf, ValueOf, KnownValues
  DEF SpanMarshal, SpanFields, Tagged, Fields, Commas, Values, Types, LeafTypes
<1>2. DOMAIN SpanMarshal = {"Span"} /\ DOMAIN SpanFields = DOMAIN SpanMarshal
  BY DEF SpanMarshal, SpanFields
<1> QED
  BY <1>1, <1>2 DEF Regular, Matches, Types

LEMMA SpanContextTable == Regular(SpanContextMarshal) /\ Matches(SpanContextMarshal, SpanContextFields)
<1>1. ASSUME NEW p, p = SpanContextMarshal.SpanContext
      PROVE  Tagged(p, SpanContextFields.SpanContext) /\ Flags(p) /\ Values(p)
  BY <1>1, KeyOf, LeadOf, ValueOf, KnownValues
  DEF SpanContextMarshal, SpanContextFields, Tagged, Fields, Flags, Values, Types, LeafTypes
<1>2. ASSUME NEW p, p = SpanContextMarshal.SpanLink
      PROVE  Tagged(p, SpanContextFields.SpanLink) /\ Commas(p) /\ Values(p)
  BY <1>2, KeyOf, LeadOf, ValueOf, KnownValues
  DEF SpanContextMarshal, SpanContextFields, Tagged, Fields, Commas, Values, Types, LeafTypes
<1>3. ASSUME NEW p, p = SpanContextMarshal.DestinationSpanContext
      PROVE  Tagged(p, SpanContextFields.DestinationSpanContext) /\ Flags(p) /\ Values(p)
  BY <1>3, KeyOf, LeadOf, ValueOf, KnownValues
  DEF SpanContextMarshal, SpanContextFields, Tagged, Fields, Flags, Values, Types, LeafTypes
<1>4. DOMAIN SpanContextMarshal = {"SpanContext", "SpanLink", "DestinationSpanContext"}
          /\ DOMAIN SpanContextFields = DOMAIN SpanContextMarshal
  BY DEF SpanContextMarshal, SpanContextFields
<1> QED
  BY <1>1, <1>2, <1>3, <1>4 DEF Regular, Matches, Types

LEMMA TargetTable == Regular(TargetMarshal) /\ Matches(TargetMarshal, TargetFields)
<1>1. ASSUME NEW p, p = TargetMarshal.ServiceSpanContext
      PROVE  Tagged(p, TargetFields.ServiceSpanContext) /\ Single(p) /\ Values(p)
  BY <1>1, KeyOf, LeadOf, ValueOf, KnownValues
  DEF TargetMarshal, TargetFields, Tagged, Fields, Single, Values, Types, LeafTypes
<1>2. ASSUME NEW p, p = TargetMarshal.ServiceTargetSpanContext
      PROVE  Tagged(p, TargetFields.ServiceTargetSpanContext) /\ Commas(p) /\ Values(p)
  BY <1>2, KeyOf, LeadOf, ValueOf, KnownValues
  DEF TargetMarshal, TargetFields, Tagged, Fields, Commas, Values, Types, LeafTypes
<1>3. ASSUME NEW p, p = TargetMarshal.DestinationServiceSpanContext
      PROVE  Tagged(p, TargetFields.DestinationServiceSpanContext) /\ Commas(p) /\ Values(p)
  BY <1>3, KeyOf, LeadOf, ValueOf, KnownValues
  DEF TargetMarshal, TargetFields, Tagged, Fields, Commas, Values, Types, LeafTypes
<1>4. ASSUME NEW p, p = TargetMarshal.DestinationCloudSpanContext
      PROVE  Tagged(p, TargetFields.DestinationCloudSpanContext) /\ Single(p) /\ Values(p)
  BY <1>4, KeyOf, LeadOf, ValueOf, KnownValues
  DEF TargetMarshal, TargetFields, Tagged, Fields, Single, Values, Types, LeafTypes
<1>5. ASSUME NEW p, p = TargetMarshal.MessageSpanContext
      PROVE  Tagged(p, TargetFields.MessageSpanContext) /\ Single(p) /\ Values(p)
  BY <1>5, KeyOf, LeadOf, ValueOf, KnownValues
  DEF TargetMarshal, TargetFields, Tagged, Fields, Single, Values, Types, LeafTypes
<1>6. ASSUME NEW p, p = TargetMarshal.MessageQueueSpanContext
      PROVE  Tagged(p, TargetFields.MessageQueueSpanContext) /\ Single(p) /\ Values(p)
  BY <1>6, KeyOf, LeadOf, ValueOf, KnownValues
  DEF TargetMarshal, TargetFields, Tagged, Fields, Single, Values, Types, LeafTypes
<1>7. ASSUME NEW p, p = TargetMarshal.DatabaseSpanContext
      PROVE  Tagged(p, TargetFields.DatabaseSpanContext) /\ Flags(p) /\ Values(p)
  BY <1>7, KeyOf, LeadOf, ValueOf, KnownValues
  DEF TargetMarshal, TargetFields, Tagged, Fields, Flags, Values, Types, LeafTypes
<1>8. ASSUME NEW p, p = TargetMarshal.CompositeSpan
      PROVE  Tagged(p, TargetFields.CompositeSpan) /\ Commas(p) /\ Values(p)
  BY <1>8, KeyOf, LeadOf, ValueOf, KnownValues
  DEF TargetMarshal, TargetFields, Tagged, Fields, Commas, Values, Types, LeafTypes
<1>9. DOMAIN TargetMarshal = {"ServiceSpanContext", "ServiceTargetSpanContext",
            "DestinationServiceSpanContext", "DestinationCloudSpanContext",
            "MessageSpanContext", "MessageQueueSpanContext",
            "DatabaseSpanContext", "CompositeSpan"} /\ DOMAIN TargetFields = DOMAIN TargetMarshal
  BY DEF TargetMarshal, TargetFields
<1> QED
  BY <1>1, <1>2, <1>3, <1>4, <1>5, <1>6, <1>7, <1>8, <1>9 DEF Regular, Matches, Types

LEMMA ContextTable == Regular(ContextMarshal) /\ Matches(ContextMarshal, ContextFields)
<1>1. ASSUME NEW p, p = ContextMarshal.Context
      PROVE  Tagged(p, ContextFields.Context) /\ Flags(p) /\ Values(p)
  BY <1>1, KeyOf, LeadOf, ValueOf, KnownValues
  DEF ContextMarshal, ContextFields, Tagged, Fields, Flags, Values, Types, LeafTypes
<1>2. ASSUME NEW p, p = ContextMarshal.User
      PROVE  Tagged(p, ContextFields.User) /\ Flags(p) /\ Values(p)
  BY <1>2, KeyOf, LeadOf, ValueOf, KnownValues
  DEF ContextMarshal, ContextFields, Tagged, Fields, Flags, Values, Types, LeafTypes
<1>3. DOMAIN ContextMarshal = {"Context", "User"} /\ DOMAIN ContextFields = DOMAIN ContextMarshal
  BY DEF ContextMarshal, ContextFields
<1> QED
  BY <1>1, <1>2, <1>3 DEF Regular, Matches, Types

LEMMA ErrorTable == Regular(ErrorMarshal) /\ Matches(ErrorMarshal, ErrorFields)
<1>1. ASSUME NEW p, p = ErrorMarshal.Error
      PROVE  Tagged(p, ErrorFields.Error) /\ Commas(p) /\ Values(p)
  BY <1>1, KeyOf, LeadOf, ValueOf, KnownValues
  DEF ErrorMarshal, ErrorFields, Tagged, Fields, Commas, Values, Types, LeafTypes
<1>2. ASSUME NEW p, p = ErrorMarshal.ErrorTransaction
      PROVE  Tagged(p, ErrorFields.ErrorTransaction) /\ Flags(p) /\ Values(p)
  BY <1>2, KeyOf, LeadOf, ValueOf, KnownValues
  DEF ErrorMarshal, ErrorFields, Tagged, Fields, Flags, Values, Types, LeafTypes
<1>3. DOMAIN ErrorMarshal = {"Error", "ErrorTransaction"} /\ DOMAIN ErrorFields = DOMAIN ErrorMarshal
  BY DEF ErrorMarshal, ErrorFields
<1> QED
  BY <1>1, <1>2, <1>3 DEF Regular, Matches, Types

LEMMA ExceptionTable == Regular(ExceptionMarshal) /\ Matches(ExceptionMarshal, ExceptionFields)
<1>1. ASSUME NEW p, p = ExceptionMarshal.Exception
      PROVE  Tagged(p, ExceptionFields.Exception) /\ Commas(p) /\ Values(p)
  BY <1>1, KeyOf, LeadOf, ValueOf, KnownValues
  DEF ExceptionMarshal, ExceptionFields, Tagged, Fields, Commas, Values, Types, LeafTypes
<1>2. ASSUME NEW p, p = ExceptionMarshal.StacktraceFrame
      PROVE  Tagged(p, ExceptionFields.StacktraceFrame) /\ Commas(p) /\ Values(p)
  BY <1>2, KeyOf, LeadOf, ValueOf, KnownValues
  DEF ExceptionMarshal, ExceptionFields, Tagged, Fields, Commas, Values, Types, LeafTypes
<1>3. DOMAIN ExceptionMarshal = {"Exception", "StacktraceFrame"} /\ DOMAIN ExceptionFields
          = DOMAIN ExceptionMarshal
  BY DEF ExceptionMarshal, ExceptionFields
<1> QED
  BY <1>1, <1>2, <1>3 DEF Regular, Matches, Types

LEMMA RequestTable == Regular(RequestMarshal) /\ Matches(RequestMarshal, RequestFields)
<1>1. ASSUME NEW p, p = RequestMarshal.Log
      PROVE  Tagged(p, RequestFields.Log) /\ Commas(p) /\ Values(p)
  BY <1>1, KeyOf, LeadOf, ValueOf, KnownValues
  DEF RequestMarshal, RequestFields, Tagged, Fields, Commas, Values, Types, LeafTypes
<1>2. ASSUME NEW p, p = RequestMarshal.Request
      PROVE  Tagged(p, RequestFields.Request) /\ Commas(p) /\ Values(p)
  BY <1>2, KeyOf, LeadOf, ValueOf, KnownValues
  DEF RequestMarshal, RequestFields, Tagged, Fields, Commas, Values, Types, LeafTypes
<1>3. ASSUME NEW p, p = RequestMarshal.RequestSocket
      PROVE  Tagged(p, RequestFields.RequestSocket) /\ Flags(p) /\ Values(p)
  BY <1>3, KeyOf, LeadOf, ValueOf, KnownValues
  DEF RequestMarshal, RequestFields, Tagged, Fields, Flags, Values, Types, LeafTypes
<1>4. DOMAIN RequestMarshal = {"Log", "Request", "RequestSocket"} /\ DOMAIN RequestFields
          = DOMAIN RequestMarshal
  BY DEF RequestMarshal, RequestFields
<1> QED
  BY <1>1, <1>2, <1>3, <1>4 DEF Regular, Matches, Types

LEMMA ResponseTable == Regular(ResponseMarshal) /\ Matches(ResponseMarshal, ResponseFields)
<1>1. ASSUME NEW p, p = ResponseMarshal.Response
      PROVE  Tagged(p, ResponseFields.Response) /\ Flags(p) /\ Values(p)
  BY <1>1, KeyOf, LeadOf, ValueOf, KnownValues
  DEF ResponseMarshal, ResponseFields, Tagged, Fields, Flags, Values, Types, LeafTypes
<1>2. DOMAIN ResponseMarshal = {"Response"} /\ DOMAIN ResponseFields = DOMAIN ResponseMarshal
  BY DEF ResponseMarshal, ResponseFields
<1> QED
  BY <1>1, <1>2 DEF Regular, Matches, Types

LEMMA MetricsTable == Regular(MetricsMarshal) /\ Matches(MetricsMarshal, MetricsFields)
<1>1. ASSUME NEW p, p = MetricsMarshal.Metrics
      PROVE  Tagged(p, MetricsFields.Metrics) /\ Commas(p) /\ Values(p)
  BY <1>1, KeyOf, LeadOf, ValueOf, KnownValues
  DEF MetricsMarshal, MetricsFields, Tagged, Fields, Commas, Values, Types, LeafTypes
<1>2. ASSUME NEW p, p = MetricsMarshal.MetricsTransaction
      PROVE  Tagged(p, MetricsFields.MetricsTransaction) /\ Flags(p) /\ Values(p)
  BY <1>2, KeyOf, LeadOf, ValueOf, KnownValues
  DEF MetricsMarshal, MetricsFields, Tagged, Fields, Flags, Values, Types, LeafTypes
<1>3. ASSUME NEW p, p = MetricsMarshal.MetricsSpan
      PROVE  Tagged(p, MetricsFields.MetricsSpan) /\ Flags(p) /\ Values(p)
  BY <1>3, KeyOf, LeadOf, ValueOf, KnownValues
  DEF MetricsMarshal, MetricsFields, Tagged, Fields, Flags, Values, Types, LeafTypes
<1>4. DOMAIN MetricsMarshal = {"Metrics", "MetricsTransaction", "MetricsSpan"}
          /\ DOMAIN MetricsFields = DOMAIN MetricsMarshal
  BY DEF MetricsMarshal, MetricsFields
<1> QED
  BY <1>1, <1>2, <1>3, <1>4 DEF Regular, Matches, Types

LEMMA FAASTable == Regular(FAASMarshal) /\ Matches(FAASMarshal, FAASFields)
<1>1. ASSUME NEW p, p = FAASMarshal.FAAS
      PROVE  Tagged(p, FAASFields.FAAS) /\ Commas(p) /\ Values(p)
  BY <1>1, KeyOf, LeadOf, ValueOf, KnownValues
  DEF FAASMarshal, FAASFields, Tagged, Fields, Commas, Values, Types, LeafTypes
<1>2. ASSUME NEW p, p = FAASMarshal.FAASTrigger
      PROVE  Tagged(p, FAASFields.FAASTrigger) /\ Flags(p) /\ Values(p)
  BY <1>2, KeyOf, LeadOf, ValueOf, KnownValues
  DEF FAASMarshal, FAASFields, Tagged, Fields, Flags, Values, Types, LeafTypes
<1>3. DOMAIN FAASMarshal = {"FAAS", "FAASTrigger"} /\ DOMAIN FAASFields = DOMAIN FAASMarshal
  BY DEF FAASMarshal, FAASFields
<1> QED
  BY <1>1, <1>2, <1>3 DEF Regular, Matches, Types

\* The encoders written by hand have no tags.
LEMMA MetricTable == Regular(MetricMarshal)
<1>1. ASSUME NEW p, p = MetricMarshal.Value PROVE Commas(p) /\ Values(p)
  BY <1>1, KeyOf, LeadOf, ValueOf, KnownValues DEF MetricMarshal, Commas, Values, Types, LeafTypes
<1>2. ASSUME NEW p, p = MetricMarshal.Histogram PROVE Commas(p) /\ Values(p)
  BY <1>2, KeyOf, LeadOf, ValueOf, KnownValues DEF MetricMarshal, Commas, Values, Types, LeafTypes
<1>3. DOMAIN MetricMarshal = {"Value", "Histogram"}
  BY DEF MetricMarshal
<1> QED
  BY <1>1, <1>2, <1>3 DEF Regular, Types

LEMMA MetadataTable == Regular(MetadataMarshal)
<1>1. ASSUME NEW p, p = MetadataMarshal.Metadata PROVE Commas(p) /\ Values(p)
  BY <1>1, KeyOf, LeadOf, ValueOf, KnownValues DEF MetadataMarshal, Commas, Values, Types, LeafTypes
<1>2. DOMAIN MetadataMarshal = {"Metadata"}
  BY DEF MetadataMarshal
<1> QED
  BY <1>1, <1>2 DEF Regular, Types

\* What holds of the encoders of tables holds of the tables as one.
LEMMA JoinRegular ==
    ASSUME NEW f, NEW g, NEW h, Regular(f), Regular(g), Regular(h)
    PROVE  Regular(Joined(f, g, h))
<1>1. ASSUME NEW t \in DOMAIN Joined(f, g, h)
      PROVE  \/ t \in DOMAIN f /\ Joined(f, g, h)[t] = f[t]
             \/ t \in DOMAIN g /\ Joined(f, g, h)[t] = g[t]
             \/ t \in DOMAIN h /\ Joined(f, g, h)[t] = h[t]
  BY <1>1 DEF Joined
<1> QED
  BY <1>1 DEF Regular

LEMMA JoinMatches ==
    ASSUME NEW f, NEW g, NEW h, NEW x, NEW y, NEW z, Matches(f, x), Matches(g, y), Matches(h, z)
    PROVE  Matches(Joined(f, g, h), Joined(x, y, z))
<1>1. DOMAIN f = DOMAIN x /\ DOMAIN g = DOMAIN y /\ DOMAIN h = DOMAIN z
  BY DEF Matches
<1>2. DOMAIN Joined(f, g, h) = DOMAIN Joined(x, y, z)
  BY <1>1 DEF Joined
<1>3. ASSUME NEW t \in DOMAIN Joined(f, g, h)
      PROVE  \/ t \in DOMAIN f /\ Joined(f, g, h)[t] = f[t] /\ Joined(x, y, z)[t] = x[t]
             \/ t \in DOMAIN g /\ Joined(f, g, h)[t] = g[t] /\ Joined(x, y, z)[t] = y[t]
             \/ t \in DOMAIN h /\ Joined(f, g, h)[t] = h[t] /\ Joined(x, y, z)[t] = z[t]
  BY <1>1, <1>3 DEF Joined
<1> QED
  BY <1>2, <1>3 DEF Matches

\* Every encoder puts its commas in one of the three ways.
LEMMA ProgramsRegular == Regular(Programs)
<1>1. /\ Regular(Joined(ServiceMarshal, SystemMarshal, CloudMarshal))
      /\ Regular(Joined(TransactionMarshal, SpanCountMarshal, FAASMarshal))
      /\ Regular(Joined(SpanMarshal, SpanContextMarshal, TargetMarshal))
      /\ Regular(Joined(ContextMarshal, RequestMarshal, ResponseMarshal))
      /\ Regular(Joined(ErrorMarshal, ExceptionMarshal, MetricsMarshal))
  BY JoinRegular, ServiceTable, SystemTable, CloudTable, TransactionTable, SpanCountTable, FAASTable,
     SpanTable, SpanContextTable, TargetTable, ContextTable, RequestTable, ResponseTable,
     ErrorTable, ExceptionTable, MetricsTable
<1>2. Regular(GeneratedPrograms)
  BY <1>1, JoinRegular DEF GeneratedPrograms
<1> QED
  BY <1>2, JoinRegular, MetricTable, MetadataTable DEF Programs

\* Every generated encoder has the fields of its type.
LEMMA ProgramsMatch == Matches(GeneratedPrograms, Tags)
<1>1. /\ Matches(Joined(ServiceMarshal, SystemMarshal, CloudMarshal), Joined(ServiceFields,
             SystemFields, CloudFields))
      /\ Matches(Joined(TransactionMarshal, SpanCountMarshal, FAASMarshal),
                 Joined(TransactionFields, SpanCountFields, FAASFields))
      /\ Matches(Joined(SpanMarshal, SpanContextMarshal, TargetMarshal),
                 Joined(SpanFields, SpanContextFields, TargetFields))
      /\ Matches(Joined(ContextMarshal, RequestMarshal, ResponseMarshal),
                 Joined(ContextFields, RequestFields, ResponseFields))
      /\ Matches(Joined(ErrorMarshal, ExceptionMarshal, MetricsMarshal),
                 Joined(ErrorFields, ExceptionFields, MetricsFields))
  BY JoinMatches, ServiceTable, SystemTable, CloudTable, TransactionTable, SpanCountTable, FAASTable,
     SpanTable, SpanContextTable, TargetTable, ContextTable, RequestTable, ResponseTable,
     ErrorTable, ExceptionTable, MetricsTable
<1> QED
  BY <1>1, JoinMatches DEF GeneratedPrograms, Tags

\* The encoders and the tags name the same fields.
LEMMA FieldsTagged ==
    ASSUME NEW t \in DOMAIN Tags
    PROVE  LET writes == ToSet(Programs[t]) IN
           /\ Tags[t].always = {w.key : w \in {w \in writes : ~w.omit}}
           /\ Tags[t].omitempty = {w.key : w \in {w \in writes : w.omit}}
<1> DEFINE p == Programs[t]
<1>1. t \in DOMAIN GeneratedPrograms /\ p = GeneratedPrograms[t]
  BY ProgramsMatch DEF Matches, Programs, Joined
<1>2. Tagged(p, Tags[t])
  BY <1>1, ProgramsMatch DEF Matches
<1>3. Values(p)
  BY <1>1, ProgramsRegular DEF Regular, Programs, Joined
<1> HIDE DEF p
<1>4. ToSet(p) = {p[i] : i \in 1..Len(p)}
  BY <1>3 DEF ToSet, Values
<1>5. /\ {w \in ToSet(p) : ~w.omit} = {w \in ToSet(p) : w.omit = FALSE}
      /\ {w \in ToSet(p) : w.omit} = {w \in ToSet(p) : w.omit = TRUE}
  <2>1. \A w \in ToSet(p) : w.omit = TRUE \/ w.omit = FALSE
    BY <1>2, <1>4 DEF Tagged
  <2> QED
    BY <2>1, Zenon
<1>6. Tags[t].always = {w.key : w \in {w \in ToSet(p) : w.omit = FALSE}}
  BY <1>2, <1>4 DEF Tagged
<1>7. Tags[t].omitempty = {w.key : w \in {w \in ToSet(p) : w.omit = TRUE}}
  BY <1>2, <1>4 DEF Tagged
<1> QED
  BY <1>5, <1>6, <1>7, Zenon DEF p

-----------------------------------------------------------------------------
(* Loops *)

\* What is true before a loop of n rounds, and after a round if it was before
\* it, is true after each round.
LEMMA UpTo ==
    ASSUME NEW n \in Nat, NEW T, 0 \in T, \A i \in 1..n : i - 1 \in T => i \in T
    PROVE  \A i \in 0..n : i \in T
<1> DEFINE U == {i \in 0..n : i \notin T}
<1> SUFFICES ASSUME U # {} PROVE FALSE
  OBVIOUS
<1>0. U \in SUBSET Nat
  OBVIOUS
<1>1. PICK m \in U : \A k \in U : m <= k
  BY <1>0, LeastElement, Zenon
<1>2. m # 0
  OBVIOUS
<1>3. m \in 1..n /\ m - 1 \in 0..n /\ ~(m <= m - 1)
  BY <1>2
<1> QED
  BY <1>1, <1>3

\* A loop of n rounds ends: F[i] is what round i makes of a value in S.
Closed(F, n, S) == \A i \in 1..n : \A x \in S : F[i][x] \in S
Rounds(g, F, n, S, b) == g \in [0..n -> S] /\ g[0] = b /\ \A i \in 1..n : g[i] = F[i][g[i - 1]]

\* A loop on the values of a set has a value after each round.
LEMMA Loop ==
    ASSUME NEW n \in Nat, NEW S, NEW b \in S, NEW F, Closed(F, n, S)
    PROVE  \E g : Rounds(g, F, n, S, b)
<1>0. \A i \in 1..n : \A x \in S : F[i][x] \in S
  BY DEF Closed
<1> DEFINE Is(g, m) == g \in [0..m -> S] /\ g[0] = b /\ \A i \in 1..m : g[i] = F[i][g[i - 1]]
           T == {m \in 0..n : \E g : Is(g, m)}
<1>1. 0 \in T
  <2>1. Is([i \in 0..0 |-> b], 0)
    OBVIOUS
  <2>2. 0 \in 0..n
    OBVIOUS
  <2> HIDE DEF Is
  <2> QED
    BY <2>1, <2>2
<1>2. ASSUME NEW m \in 1..n, m - 1 \in T PROVE m \in T
  <2>1. PICK g : Is(g, m - 1)
    BY <1>2
  <2> DEFINE h == [i \in 0..m |-> IF i = m THEN F[m][g[m - 1]] ELSE g[i]]
  <2>2. g[m - 1] \in S /\ F[m][g[m - 1]] \in S
    BY <1>0, <2>1
  <2>3. h \in [0..m -> S] /\ h[0] = b
    BY <2>1, <2>2
  <2>4. ASSUME NEW i \in 1..m PROVE h[i] = F[i][h[i - 1]]
    <3>1. h[i - 1] = g[i - 1]
      OBVIOUS
    <3>2. CASE i = m
      BY <3>1, <3>2
    <3>3. CASE i # m
      BY <2>1, <3>1, <3>3
    <3> QED
      BY <3>2, <3>3
  <2>5. Is(h, m)
    BY <2>3, <2>4
  <2> HIDE DEF Is, h
  <2> QED
    BY <2>5
<1> HIDE DEF T
<1>3. n \in T
  BY <1>1, <1>2, UpTo
<1> QED
  BY <1>3 DEF T, Rounds

-----------------------------------------------------------------------------
(* The parser *)

\* What may come next in an object or array, or in the document.
States == {"document", "end", "field", "field end", "next field", "array", "item", "item end",
           "object", "broken"}

\* Where the parser is in each open object and array.
Stack == Seq(States)

\* What is written.
Token == {"value", "begin object", "begin array", "key", "comma", "end object", "end array"}

\* A token leaves the parser somewhere.
LEMMA ReadTokenStack == ASSUME NEW s \in Stack, NEW t PROVE ReadToken(s, t) \in Stack
<1>1. Front(s) \in Stack
  BY DEF Front, Stack
<1>2. \A x \in States : Append(Front(s), x) \in Stack
  BY <1>1 DEF Stack
<1>3. \A x \in DOMAIN AfterValue : AfterValue[x] \in States
  <2>1. DOMAIN AfterValue = {"document", "field", "array", "item"}
    BY DEF AfterValue
  <2>2. /\ AfterValue["document"] = "end" /\ AfterValue["field"] = "field end"
        /\ AfterValue["array"] = "item end" /\ AfterValue["item"] = "item end"
    BY DEF AfterValue
  <2> QED
    BY <2>1, <2>2 DEF States
<1>4. "broken" \in States /\ "object" \in States /\ "array" \in States /\ "field" \in States
      /\ "next field" \in States /\ "item" \in States
  BY DEF States
<1>5. Broken \in Stack /\ \A q \in Stack : Append(q, "object") \in Stack /\ Append(q, "array") \in Stack
  <2>1. \A x \in States : <<x>> \in Stack /\ \A q \in Stack : Append(q, x) \in Stack
    BY DEF Stack
  <2> QED
    BY <1>4, <2>1, Zenon DEF Broken
<1> QED
  BY <1>1, <1>2, <1>3, <1>4, <1>5, Zenon DEF ReadToken

\* Reading is a loop over the tokens.
LEMMA ReadIs ==
    ASSUME NEW s \in Stack, NEW ts, Len(ts) \in Nat
    PROVE  \E g \in [0..Len(ts) -> Stack] :
              /\ g[0] = s /\ \A i \in 1..Len(ts) : g[i] = ReadToken(g[i - 1], ts[i])
              /\ ReadTokens(s, ts) = g[Len(ts)]
<1> DEFINE n == Len(ts)
           F == [i \in 1..n |-> [x \in Stack |-> ReadToken(x, ts[i])]]
           Is(h) == h = [i \in 0..n |-> IF i = 0 THEN s ELSE ReadToken(h[i - 1], ts[i])]
<1>1. \A i \in 1..n : \A x \in Stack : F[i][x] = ReadToken(x, ts[i])
  OBVIOUS
<1>2. Closed(F, n, Stack)
  BY <1>1, ReadTokenStack DEF Closed
<1> HIDE DEF F
<1>0. n \in Nat
  OBVIOUS
<1> HIDE DEF n
<1>3. PICK g : Rounds(g, F, n, Stack, s)
  BY <1>0, <1>2, Loop
<1>10. g \in [0..n -> Stack] /\ g[0] = s /\ \A i \in 1..n : g[i] = F[i][g[i - 1]]
  BY <1>3 DEF Rounds
<1>4. \A i \in 1..n : g[i] = ReadToken(g[i - 1], ts[i])
  <2>1. \A i \in 1..n : i - 1 \in 0..n
    BY <1>0
  <2> QED
    BY <1>1, <1>10, <2>1
<1>5. Is(g)
  BY <1>10, <1>4
<1> DEFINE f == CHOOSE h : Is(h)
<1>6. Is(f)
  BY <1>5, Zenon
<1>7. f[0] = s /\ \A i \in 1..n : f[i] = ReadToken(f[i - 1], ts[i])
  <2> HIDE DEF f
  <2> QED
    BY <1>0, <1>6
<1>8. \A i \in 0..n : f[i] = g[i]
  <2> HIDE DEF f
  <2> DEFINE T == {i \in 0..n : f[i] = g[i]}
  <2>1. 0 \in T
    BY <1>0, <1>10, <1>7
  <2>2. ASSUME NEW i \in 1..n, i - 1 \in T PROVE i \in T
    BY <1>0, <1>4, <1>7, <2>2
  <2> HIDE DEF T
  <2>3. \A i \in 0..n : i \in T
    BY <1>0, <2>1, <2>2, UpTo
  <2> QED
    BY <2>3 DEF T
<1>9. ReadTokens(s, ts) = f[n]
  BY DEF ReadTokens, n
<1> QED
  BY <1>0, <1>10, <1>4, <1>8, <1>9 DEF n

\* No token, one, two and three of them.
LEMMA ReadNone == ASSUME NEW s \in Stack PROVE ReadTokens(s, <<>>) = s
BY ReadIs

LEMMA ReadOne == ASSUME NEW s \in Stack, NEW a PROVE ReadTokens(s, <<a>>) = ReadToken(s, a)
<1> DEFINE ts == <<a>>
<1>1. Len(ts) = 1 /\ ts[1] = a
  OBVIOUS
<1> HIDE DEF ts
<1> QED
  BY <1>1, ReadIs DEF ts

LEMMA ReadTwo ==
    ASSUME NEW s \in Stack, NEW ts, Len(ts) = 2
    PROVE  ReadTokens(s, ts) = ReadToken(ReadToken(s, ts[1]), ts[2])
BY ReadIs

LEMMA ReadThree ==
    ASSUME NEW s \in Stack, NEW ts, Len(ts) = 3
    PROVE  ReadTokens(s, ts) = ReadToken(ReadToken(ReadToken(s, ts[1]), ts[2]), ts[3])
BY ReadIs

\* What follows is read from where reading stopped.
LEMMA ReadBoth ==
    ASSUME NEW s \in Stack, NEW us \in Seq(Token), NEW vs \in Seq(Token)
    PROVE  /\ ReadTokens(s, us) \in Stack
           /\ ReadTokens(s, us \o vs) = ReadTokens(ReadTokens(s, us), vs)
<1> DEFINE ts == us \o vs
           m == Len(us)
           n == Len(vs)
<1>1. /\ m \in Nat /\ n \in Nat /\ Len(ts) = m + n
      /\ \A i \in 1..m : ts[i] = us[i]
      /\ \A i \in 1..n : ts[m + i] = vs[i]
  OBVIOUS
<1> HIDE DEF ts, m, n
<1>2. PICK f \in [0..m -> Stack] :
        f[0] = s /\ (\A i \in 1..m : f[i] = ReadToken(f[i - 1], us[i])) /\ ReadTokens(s, us) = f[m]
  BY <1>1, ReadIs DEF m
<1>3. f[m] \in Stack
  BY <1>1, <1>2
<1>4. PICK g \in [0..n -> Stack] :
        /\ g[0] = f[m] /\ (\A i \in 1..n : g[i] = ReadToken(g[i - 1], vs[i]))
        /\ ReadTokens(f[m], vs) = g[n]
  BY <1>1, <1>3, ReadIs DEF n
<1>5. PICK h \in [0..Len(ts) -> Stack] :
        /\ h[0] = s /\ (\A i \in 1..Len(ts) : h[i] = ReadToken(h[i - 1], ts[i]))
        /\ ReadTokens(s, ts) = h[Len(ts)]
  BY <1>1, ReadIs
<1>6. \A i \in 0..m : h[i] = f[i]
  <2> DEFINE T == {i \in 0..m : h[i] = f[i]}
  <2>1. 0 \in T
    BY <1>1, <1>2, <1>5
  <2>2. ASSUME NEW i \in 1..m, i - 1 \in T PROVE i \in T
    BY <1>1, <1>2, <1>5, <2>2
  <2> HIDE DEF T
  <2>3. \A i \in 0..m : i \in T
    BY <1>1, <2>1, <2>2, UpTo
  <2> QED
    BY <2>3 DEF T
<1>7. \A i \in 0..n : h[m + i] = g[i]
  <2> DEFINE T == {i \in 0..n : h[m + i] = g[i]}
  <2>1. 0 \in T
    BY <1>1, <1>4, <1>6
  <2>2. ASSUME NEW i \in 1..n, i - 1 \in T PROVE i \in T
    <3>1. m + i \in 1..Len(ts) /\ m + (i - 1) = (m + i) - 1
      BY <1>1
    <3>2. h[m + i] = ReadToken(h[(m + i) - 1], ts[m + i])
      BY <1>5, <3>1
    <3>3. h[(m + i) - 1] = g[i - 1]
      BY <2>2, <3>1
    <3> QED
      BY <1>1, <1>4, <3>2, <3>3
  <2> HIDE DEF T
  <2>3. \A i \in 0..n : i \in T
    BY <1>1, <2>1, <2>2, UpTo
  <2> QED
    BY <2>3 DEF T
<1> QED
  BY <1>1, <1>2, <1>3, <1>4, <1>5, <1>7 DEF ts

\* One token where the parser is in state x.
LEMMA ReadTokenIs ==
    ASSUME NEW b \in Stack
    PROVE  /\ \A x \in States : Append(b, x) \in Stack
           /\ \A x \in DOMAIN AfterValue :
                /\ ReadToken(Append(b, x), "value") = Append(b, AfterValue[x])
                /\ ReadToken(Append(b, x), "begin object") = Append(Append(b, AfterValue[x]), "object")
                /\ ReadToken(Append(b, x), "begin array") = Append(Append(b, AfterValue[x]), "array")
           /\ \A x \in {"object", "next field"} : ReadToken(Append(b, x), "key") = Append(b, "field")
           /\ ReadToken(Append(b, "field end"), "comma") = Append(b, "next field")
           /\ ReadToken(Append(b, "item end"), "comma") = Append(b, "item")
           /\ \A x \in {"object", "field end"} : ReadToken(Append(b, x), "end object") = b
           /\ \A x \in {"array", "item end"} : ReadToken(Append(b, x), "end array") = b
<1>1. ASSUME NEW x \in States
      PROVE  Append(b, x) \in Stack /\ Front(Append(b, x)) = b /\ Last(Append(b, x)) = x
  BY DEF Front, Last, Stack
<1>2. /\ DOMAIN AfterValue \subseteq States
      /\ {"object", "next field", "field end", "item end", "array"} \subseteq States
  BY DEF AfterValue, States
<1>3. ASSUME NEW x \in DOMAIN AfterValue
      PROVE  /\ ReadToken(Append(b, x), "value") = Append(b, AfterValue[x])
             /\ ReadToken(Append(b, x), "begin object") = Append(Append(b, AfterValue[x]), "object")
             /\ ReadToken(Append(b, x), "begin array") = Append(Append(b, AfterValue[x]), "array")
  <2>1. Front(Append(b, x)) = b /\ Last(Append(b, x)) = x
    BY <1>1, <1>2
  <2> QED
    BY <2>1 DEF ReadToken
<1>4. ASSUME NEW x \in {"object", "next field"}
                 PROVE ReadToken(Append(b, x), "key") = Append(b, "field")
  <2>1. Front(Append(b, x)) = b /\ Last(Append(b, x)) = x
    BY <1>1, <1>2
  <2> QED
    BY <2>1 DEF ReadToken
<1>5. ReadToken(Append(b, "field end"), "comma") = Append(b, "next field")
  <2>1. Front(Append(b, "field end")) = b /\ Last(Append(b, "field end")) = "field end"
    BY <1>1, <1>2
  <2> QED
    BY <2>1 DEF ReadToken
<1>6. ReadToken(Append(b, "item end"), "comma") = Append(b, "item")
  <2>1. Front(Append(b, "item end")) = b /\ Last(Append(b, "item end")) = "item end"
    BY <1>1, <1>2
  <2> QED
    BY <2>1 DEF ReadToken
<1>7. ASSUME NEW x \in {"object", "field end"} PROVE ReadToken(Append(b, x), "end object") = b
  <2>1. Front(Append(b, x)) = b /\ Last(Append(b, x)) = x
    BY <1>1, <1>2
  <2> QED
    BY <2>1 DEF ReadToken
<1>8. ASSUME NEW x \in {"array", "item end"} PROVE ReadToken(Append(b, x), "end array") = b
  <2>1. Front(Append(b, x)) = b /\ Last(Append(b, x)) = x
    BY <1>1, <1>2
  <2> QED
    BY <2>1 DEF ReadToken
<1> QED
  BY <1>1, <1>3, <1>4, <1>5, <1>6, <1>7, <1>8

-----------------------------------------------------------------------------
(* Flattened sequences *)

\* The first i of the sequences, one after the other.
Flattened(f, seqs, T) ==
    /\ f \in [0..Len(seqs) -> Seq(T)] /\ f[0] = <<>>
    /\ \A i \in 1..Len(seqs) : f[i] = f[i - 1] \o seqs[i]

\* FlattenSeq puts the sequences one after the other.
LEMMA FlattenIs ==
    ASSUME NEW T, NEW seqs \in Seq(Seq(T))
    PROVE  \E f : Flattened(f, seqs, T) /\ FlattenSeq(seqs) = f[Len(seqs)]
<1> DEFINE n == Len(seqs)
           F == [i \in 1..n |-> [x \in Seq(T) |-> x \o seqs[i]]]
           b == <<>>
           Is(h) == h = [i \in 1..n |-> IF i = 1 THEN seqs[i] ELSE h[i - 1] \o seqs[i]]
<1>1. \A i \in 1..n : \A x \in Seq(T) : F[i][x] = x \o seqs[i]
  OBVIOUS
<1>2. n \in Nat /\ b \in Seq(T) /\ \A i \in 1..n : seqs[i] \in Seq(T)
  OBVIOUS
<1>3. \A i \in 1..n : \A x \in Seq(T) : x \o seqs[i] \in Seq(T)
  BY <1>2
<1> HIDE DEF F
<1>4. Closed(F, n, Seq(T))
  BY <1>1, <1>3 DEF Closed
<1>5. \A x \in Seq(T) : b \o x = x
  OBVIOUS
<1> HIDE DEF n, b
<1>6. PICK f : Rounds(f, F, n, Seq(T), b)
  BY <1>2, <1>4, Loop
<1>7. f \in [0..n -> Seq(T)] /\ f[0] = b /\ \A i \in 1..n : f[i] = f[i - 1] \o seqs[i]
  <2>1. f \in [0..n -> Seq(T)] /\ f[0] = b /\ \A i \in 1..n : f[i] = F[i][f[i - 1]]
    BY <1>6 DEF Rounds
  <2>2. \A i \in 1..n : f[i - 1] \in Seq(T)
    BY <1>2, <2>1
  <2> QED
    BY <1>1, <2>1, <2>2
<1>8. Flattened(f, seqs, T)
  BY <1>7 DEF Flattened, n, b
<1>9. CASE n = 0
  <2>1. seqs = <<>>
    BY <1>9 DEF n
  <2> QED
    BY <1>7, <1>8, <1>9, <2>1 DEF FlattenSeq, n, b
<1>10. CASE n # 0
  <2> DEFINE g == [i \in 1..n |-> f[i]]
             h == CHOOSE h : Is(h)
  <2>1. f[1] = seqs[1]
    <3>1. 1 \in 1..n /\ seqs[1] \in Seq(T)
      BY <1>2, <1>10
    <3>2. f[1] = f[1 - 1] \o seqs[1]
      BY <1>7, <3>1
    <3>3. f[1] = b \o seqs[1]
      <4>1. 1 - 1 = 0
        OBVIOUS
      <4> QED
        BY <1>7, <3>2, <4>1, Zenon
    <3> QED
      BY <1>5, <3>1, <3>3
  <2>2. ASSUME NEW i \in 1..n PROVE g[i] = IF i = 1 THEN seqs[i] ELSE g[i - 1] \o seqs[i]
    <3>1. CASE i = 1
      BY <2>1, <3>1
    <3>2. CASE i # 1
      <4>1. i - 1 \in 1..n
        BY <1>2, <3>2
      <4> QED
        BY <1>7, <3>2, <4>1
    <3> QED
      BY <3>1, <3>2
  <2>3. Is(g)
    <3>1. g = [i \in 1..n |-> g[i]]
      OBVIOUS
    <3> HIDE DEF g
    <3> QED
      BY <2>2, <3>1
  <2>4. Is(h)
    <3> HIDE DEF g, Is
    <3> QED
      BY <2>3, Zenon
  <2>5. \A i \in 1..n : h[i] = IF i = 1 THEN seqs[i] ELSE h[i - 1] \o seqs[i]
    <3> HIDE DEF h
    <3> QED
      BY <2>4
  <2>6. h[n] = f[n]
    <3> HIDE DEF h
    <3> DEFINE U == {i \in 0..n : i = 0 \/ h[i] = f[i]}
    <3>1. 0 \in U
      BY <1>2
    <3>2. ASSUME NEW i \in 1..n, i - 1 \in U PROVE i \in U
      <4>1. CASE i = 1
        BY <1>2, <2>1, <2>5, <4>1
      <4>2. CASE i # 1
        <5>1. i - 1 # 0 /\ h[i - 1] = f[i - 1]
          BY <1>2, <3>2, <4>2
        <5>2. h[i] = h[i - 1] \o seqs[i]
          BY <2>5, <4>2, Zenon
        <5>3. f[i] = f[i - 1] \o seqs[i]
          BY <1>7, Zenon
        <5>4. i \in 0..n
          BY <1>2
        <5> QED
          BY <5>1, <5>2, <5>3, <5>4, Zenon
      <4> QED
        BY <4>1, <4>2
    <3> HIDE DEF U
    <3>3. \A i \in 0..n : i \in U
      BY <1>2, <3>1, <3>2, UpTo
    <3>4. n \in 0..n
      BY <1>2
    <3> QED
      BY <1>10, <3>3, <3>4 DEF U
  <2>7. FlattenSeq(seqs) = h[n]
    BY <1>10 DEF FlattenSeq, n
  <2> QED
    BY <1>8, <2>6, <2>7 DEF n
<1> QED
  BY <1>9, <1>10

-----------------------------------------------------------------------------
(* Values *)

\* Fields or items, the first of them where the parser is in state `start` and the
\* others where it is in state `end`.
LEMMA ItemsRead ==
    ASSUME NEW b \in Stack, NEW seqs \in Seq(Seq(Token)), NEW start \in States, NEW end \in States,
           \A i \in 1..Len(seqs) :
              ReadTokens(Append(b, IF i = 1 THEN start ELSE end), seqs[i]) = Append(b, end)
    PROVE  /\ FlattenSeq(seqs) \in Seq(Token)
           /\ ReadTokens(Append(b, start), FlattenSeq(seqs)) = Append(b, IF Len(seqs)
                  = 0 THEN start ELSE end)
<1> DEFINE n == Len(seqs)
<1>1. PICK f : Flattened(f, seqs, Token) /\ FlattenSeq(seqs) = f[n]
  BY FlattenIs
<1>2. /\ n \in Nat /\ f \in [0..n -> Seq(Token)] /\ f[0] = <<>>
      /\ \A i \in 1..n : f[i] = f[i - 1] \o seqs[i]
      /\ \A i \in 1..n : seqs[i] \in Seq(Token)
  <2>1. \A i \in 1..n : seqs[i] \in Seq(Token)
    OBVIOUS
  <2>2. n \in Nat
    OBVIOUS
  <2> HIDE DEF n
  <2> QED
    BY <1>1, <2>1, <2>2 DEF Flattened, n
<1>3. Append(b, start) \in Stack /\ Append(b, end) \in Stack
  BY ReadTokenIs
<1> DEFINE T == {i \in 0..n : ReadTokens(Append(b, start), f[i]) = Append(b, IF i
        = 0 THEN start ELSE end)}
<1> HIDE DEF n
<1>4. 0 \in T
  <2>1. ReadTokens(Append(b, start), <<>>) = Append(b, start)
    BY <1>3, ReadNone
  <2> QED
    BY <1>2, <2>1
<1>5. ASSUME NEW i \in 1..n, i - 1 \in T PROVE i \in T
  <2>1. f[i - 1] \in Seq(Token) /\ seqs[i] \in Seq(Token) /\ f[i] = f[i - 1] \o seqs[i]
    <3>1. i - 1 \in 0..n
      BY <1>2
    <3> QED
      BY <1>2, <3>1
  <2>2. ReadTokens(Append(b, start), f[i]) = ReadTokens(ReadTokens(Append(b, start), f[i - 1]), seqs[i])
    <3>1. ReadTokens(Append(b, start), f[i - 1] \o seqs[i])
            = ReadTokens(ReadTokens(Append(b, start), f[i - 1]), seqs[i])
      BY <1>3, <2>1, ReadBoth
    <3> QED
      BY <2>1, <3>1
  <2>3. ReadTokens(Append(b, start), f[i - 1]) = Append(b, IF i = 1 THEN start ELSE end)
    <3>1. i - 1 = 0 <=> i = 1
      BY <1>2
    <3> QED
      BY <1>5, <3>1, Zenon
  <2>4. ReadTokens(Append(b, IF i = 1 THEN start ELSE end), seqs[i]) = Append(b, end)
    BY DEF n
  <2>5. i \in 0..n /\ i # 0
    BY <1>2
  <2> QED
    BY <2>2, <2>3, <2>4, <2>5
<1> HIDE DEF T
<1>6. \A i \in 0..n : i \in T
  BY <1>2, <1>4, <1>5, UpTo
<1>7. n \in 0..n
  BY <1>2
<1> QED
  BY <1>1, <1>2, <1>6, <1>7 DEF T, n

\* The tokens of a value.
Valued(ts) ==
    /\ ts \in Seq(Token)
    /\ \A b \in Stack, x \in DOMAIN AfterValue : ReadTokens(Append(b, x), ts) = Append(b, AfterValue[x])

\* Sequences of tokens.
LEMMA TokenSeqs ==
    /\ \A us, vs \in Seq(Token) : us \o vs \in Seq(Token)
    /\ \A a \in Token : <<a>> \in Seq(Token)
    /\ <<"begin object">> \in Seq(Token) /\ <<"end object">> \in Seq(Token)
    /\ <<"begin array">> \in Seq(Token) /\ <<"end array">> \in Seq(Token)
    /\ <<"comma">> \in Seq(Token) /\ <<"key">> \in Seq(Token) /\ <<"value">> \in Seq(Token)
<1>1. \A a \in Token : <<a>> \in Seq(Token)
  OBVIOUS
<1>2. "begin object" \in Token /\ "end object" \in Token /\ "begin array" \in Token /\ "end array"
          \in Token
      /\ "comma" \in Token /\ "key" \in Token /\ "value" \in Token
  BY Zenon DEF Token
<1>3. \A us, vs \in Seq(Token) : us \o vs \in Seq(Token)
  OBVIOUS
<1> QED
  BY <1>1, <1>2, <1>3, Zenon

\* Where a value may come, and where the parser is after it.
LEMMA AfterValueStates == \A x \in DOMAIN AfterValue : x \in States /\ AfterValue[x] \in States
<1>1. DOMAIN AfterValue = {"document", "field", "array", "item"}
  BY DEF AfterValue
<1>2. /\ AfterValue["document"] = "end" /\ AfterValue["field"] = "field end"
      /\ AfterValue["array"] = "item end" /\ AfterValue["item"] = "item end"
  BY DEF AfterValue
<1>3. {"document", "field", "array", "item", "end", "field end", "item end"} \subseteq States
  BY DEF States
<1> QED
  BY <1>1, <1>2, <1>3

\* A string, a number, true, false or null is a value.
LEMMA ScalarValued == Valued(<<"value">>)
<1>1. <<"value">> \in Seq(Token)
  BY DEF Token
<1>2. ASSUME NEW b \in Stack, NEW x \in DOMAIN AfterValue
      PROVE  ReadTokens(Append(b, x), <<"value">>) = Append(b, AfterValue[x])
  <2>1. Append(b, x) \in Stack
    BY AfterValueStates, ReadTokenIs
  <2>2. ReadTokens(Append(b, x), <<"value">>) = ReadToken(Append(b, x), "value")
    BY <2>1, ReadOne
  <2> QED
    BY <2>2, ReadTokenIs
<1> QED
  BY <1>1, <1>2 DEF Valued

\* An object or an array that is closed is a value.
LEMMA ObjectClosed ==
    ASSUME NEW ts \in Seq(Token),
           \A b \in Stack :
              ReadTokens(Append(b, "object"), ts) \in {Append(b, "object"), Append(b, "field end")}
    PROVE  Valued(<<"begin object">> \o ts \o <<"end object">>)
<1> DEFINE open == <<"begin object">>
           close == <<"end object">>
<1>1. open \in Seq(Token) /\ close \in Seq(Token) /\ open \o ts \in Seq(Token)
      /\ (open \o ts) \o close \in Seq(Token)
  <2>1. open \in Seq(Token) /\ close \in Seq(Token)
    BY TokenSeqs
  <2> HIDE DEF open, close
  <2> QED
    BY <2>1, TokenSeqs, Zenon
<1>2. \A s \in Stack : ReadTokens(s, open) = ReadToken(s, "begin object") /\ ReadTokens(s, close)
          = ReadToken(s, "end object")
  BY ReadOne
<1> HIDE DEF open, close
<1>3. ASSUME NEW b \in Stack, NEW x \in DOMAIN AfterValue
      PROVE  ReadTokens(Append(b, x), (open \o ts) \o close) = Append(b, AfterValue[x])
  <2> DEFINE s == Append(b, x)
             a == Append(b, AfterValue[x])
  <2>1. s \in Stack /\ a \in Stack
    BY AfterValueStates, ReadTokenIs
  <2>2. ReadTokens(s, open) = Append(a, "object")
    BY <1>2, <2>1, ReadTokenIs
  <2> HIDE DEF s, a
  <2>3. ReadTokens(s, (open \o ts) \o close) = ReadTokens(ReadTokens(ReadTokens(s, open), ts), close)
        /\ ReadTokens(ReadTokens(s, open), ts) \in Stack
    <3>1. /\ ReadTokens(s, (open \o ts) \o close) = ReadTokens(ReadTokens(s, open \o ts), close)
          /\ ReadTokens(s, open \o ts) \in Stack
      BY <1>1, <2>1, ReadBoth, Zenon
    <3>2. ReadTokens(s, open \o ts) = ReadTokens(ReadTokens(s, open), ts)
      BY <1>1, <2>1, ReadBoth, Zenon
    <3> QED
      BY <3>1, <3>2
  <2>4. ReadTokens(ReadTokens(s, open), ts) \in {Append(a, "object"), Append(a, "field end")}
    BY <2>1, <2>2
  <2> DEFINE r == ReadTokens(ReadTokens(s, open), ts)
  <2> HIDE DEF r
  <2>5. ReadTokens(r, close) = a
    <3>1. ReadTokens(r, close) = ReadToken(r, "end object")
      BY <1>2, <2>3 DEF r
    <3>2. \A y \in {"object", "field end"} : ReadToken(Append(a, y), "end object") = a
      BY <2>1, ReadTokenIs
    <3>3. r = Append(a, "object") \/ r = Append(a, "field end")
      BY <2>4 DEF r
    <3> QED
      BY <3>1, <3>2, <3>3
  <2> QED
    BY <2>3, <2>5 DEF s, a, r
<1>4. Valued((open \o ts) \o close)
  BY <1>1, <1>3 DEF Valued
<1> QED
  BY <1>4 DEF open, close

LEMMA ArrayClosed ==
    ASSUME NEW ts \in Seq(Token),
           \A b \in Stack :
              ReadTokens(Append(b, "array"), ts) \in {Append(b, "array"), Append(b, "item end")}
    PROVE  Valued(<<"begin array">> \o ts \o <<"end array">>)
<1> DEFINE open == <<"begin array">>
           close == <<"end array">>
<1>1. open \in Seq(Token) /\ close \in Seq(Token) /\ open \o ts \in Seq(Token)
      /\ (open \o ts) \o close \in Seq(Token)
  <2>1. open \in Seq(Token) /\ close \in Seq(Token)
    BY TokenSeqs
  <2> HIDE DEF open, close
  <2> QED
    BY <2>1, TokenSeqs, Zenon
<1>2. \A s \in Stack : ReadTokens(s, open) = ReadToken(s, "begin array") /\ ReadTokens(s, close)
          = ReadToken(s, "end array")
  BY ReadOne
<1> HIDE DEF open, close
<1>3. ASSUME NEW b \in Stack, NEW x \in DOMAIN AfterValue
      PROVE  ReadTokens(Append(b, x), (open \o ts) \o close) = Append(b, AfterValue[x])
  <2> DEFINE s == Append(b, x)
             a == Append(b, AfterValue[x])
  <2>1. s \in Stack /\ a \in Stack
    BY AfterValueStates, ReadTokenIs
  <2>2. ReadTokens(s, open) = Append(a, "array")
    BY <1>2, <2>1, ReadTokenIs
  <2> HIDE DEF s, a
  <2>3. ReadTokens(s, (open \o ts) \o close) = ReadTokens(ReadTokens(ReadTokens(s, open), ts), close)
        /\ ReadTokens(ReadTokens(s, open), ts) \in Stack
    <3>1. /\ ReadTokens(s, (open \o ts) \o close) = ReadTokens(ReadTokens(s, open \o ts), close)
          /\ ReadTokens(s, open \o ts) \in Stack
      BY <1>1, <2>1, ReadBoth, Zenon
    <3>2. ReadTokens(s, open \o ts) = ReadTokens(ReadTokens(s, open), ts)
      BY <1>1, <2>1, ReadBoth, Zenon
    <3> QED
      BY <3>1, <3>2
  <2>4. ReadTokens(ReadTokens(s, open), ts) \in {Append(a, "array"), Append(a, "item end")}
    BY <2>1, <2>2
  <2> DEFINE r == ReadTokens(ReadTokens(s, open), ts)
  <2> HIDE DEF r
  <2>5. ReadTokens(r, close) = a
    <3>1. ReadTokens(r, close) = ReadToken(r, "end array")
      BY <1>2, <2>3 DEF r
    <3>2. \A y \in {"array", "item end"} : ReadToken(Append(a, y), "end array") = a
      BY <2>1, ReadTokenIs
    <3>3. r = Append(a, "array") \/ r = Append(a, "item end")
      BY <2>4 DEF r
    <3> QED
      BY <3>1, <3>2, <3>3
  <2> QED
    BY <2>3, <2>5 DEF s, a, r
<1>4. Valued((open \o ts) \o close)
  BY <1>1, <1>3 DEF Valued
<1> QED
  BY <1>4 DEF open, close

\* A function on 1..n is a sequence of n.
LEMMA FunctionSeq == ASSUME NEW n \in Nat, NEW S, NEW f \in [1..n -> S] PROVE f \in Seq(S) /\ Len(f) = n
OBVIOUS

\* The states of the parser that the encoders go through.
LEMMA StatesAre ==
    /\ {"object", "field", "field end", "next field", "array", "item", "item end"} \subseteq States
    /\ "field" \in DOMAIN AfterValue /\ AfterValue["field"] = "field end"
    /\ "array" \in DOMAIN AfterValue /\ AfterValue["array"] = "item end"
    /\ "item" \in DOMAIN AfterValue /\ AfterValue["item"] = "item end"
<1>1. {"object", "field", "field end", "next field", "array", "item", "item end"} \subseteq States
  BY DEF States
<1>2. DOMAIN AfterValue = {"document", "field", "array", "item"}
  BY DEF AfterValue
<1>3. AfterValue["field"] = "field end" /\ AfterValue["array"] = "item end" /\ AfterValue["item"]
          = "item end"
  BY DEF AfterValue
<1> QED
  BY <1>1, <1>2, <1>3

\* The tokens before the value of a field, with and without a comma.
LEMMA KeyRead ==
    ASSUME NEW b \in Stack
    PROVE  /\ ReadTokens(Append(b, "object"), <<>> \o <<"key">>) = Append(b, "field")
           /\ ReadTokens(Append(b, "field end"), <<"comma">> \o <<"key">>) = Append(b, "field")
           /\ <<>> \o <<"key">> \in Seq(Token) /\ <<"comma">> \o <<"key">> \in Seq(Token)
<1> DEFINE none == <<>>
           comma == <<"comma">>
           key == <<"key">>
<1>1. none \in Seq(Token) /\ comma \in Seq(Token) /\ key \in Seq(Token)
      /\ none \o key = key /\ comma \o key \in Seq(Token)
  <2>1. comma \in Seq(Token) /\ key \in Seq(Token)
    BY TokenSeqs
  <2>2. none \in Seq(Token)
    OBVIOUS
  <2> HIDE DEF comma, key
  <2>3. none \o key = key
    BY <2>1, ConcatEmptySeq, Zenon
  <2> QED
    BY <2>1, <2>2, <2>3, TokenSeqs, Zenon
<1>2. Append(b, "object") \in Stack /\ Append(b, "field end") \in Stack /\ Append(b, "next field")
          \in Stack
  BY StatesAre, ReadTokenIs
<1>3. \A s \in Stack : ReadTokens(s, comma) = ReadToken(s, "comma") /\ ReadTokens(s, key)
          = ReadToken(s, "key")
  BY ReadOne
<1> HIDE DEF none, comma, key
<1>4. ReadTokens(Append(b, "object"), none \o key) = Append(b, "field")
  BY <1>1, <1>2, <1>3, ReadTokenIs
<1>5. ReadTokens(Append(b, "field end"), comma \o key)
          = ReadTokens(ReadTokens(Append(b, "field end"), comma), key)
  BY <1>1, <1>2, ReadBoth
<1>6. ReadTokens(Append(b, "field end"), comma \o key) = Append(b, "field")
  <2>1. ReadTokens(Append(b, "field end"), comma) = Append(b, "next field")
    BY <1>2, <1>3, ReadTokenIs
  <2>2. ReadTokens(Append(b, "next field"), key) = Append(b, "field")
    BY <1>2, <1>3, ReadTokenIs
  <2> QED
    BY <1>5, <2>1, <2>2
<1> QED
  BY <1>1, <1>4, <1>6 DEF none, comma, key

\* A field of an object with a scalar value, with and without a comma.
LEMMA PlainFieldRead ==
    ASSUME NEW b \in Stack
    PROVE  /\ ReadTokens(Append(b, "object"), <<>> \o <<"key", "value">>) = Append(b, "field end")
           /\ ReadTokens(Append(b, "field end"), <<"comma">> \o <<"key", "value">>)
                  = Append(b, "field end")
           /\ <<>> \o <<"key", "value">> \in Seq(Token) /\ <<"comma">> \o <<"key", "value">>
                  \in Seq(Token)
<1> DEFINE none == <<>>
           comma == <<"comma">>
           field == <<"key", "value">>
<1>0. field \in Seq(Token) /\ Len(field) = 2 /\ field[1] = "key" /\ field[2] = "value"
  <2>1. "key" \in Token /\ "value" \in Token
    BY DEF Token
  <2> QED
    BY <2>1
<1> HIDE DEF field
<1>1. none \in Seq(Token) /\ comma \in Seq(Token) /\ none \o field = field /\ comma \o field
          \in Seq(Token)
  <2>1. comma \in Seq(Token)
    BY TokenSeqs
  <2>2. none \in Seq(Token)
    OBVIOUS
  <2> HIDE DEF comma
  <2>3. none \o field = field
    BY <1>0, <2>1, ConcatEmptySeq, Zenon
  <2> QED
    BY <1>0, <2>1, <2>2, <2>3, TokenSeqs, Zenon
<1>2. Append(b, "object") \in Stack /\ Append(b, "field end") \in Stack /\ Append(b, "next field")
          \in Stack
  BY StatesAre, ReadTokenIs
<1>3. ReadTokens(Append(b, "field end"), comma) = Append(b, "next field")
  BY <1>2, ReadOne, ReadTokenIs
<1>4. ASSUME NEW x \in {"object", "next field"}
                 PROVE ReadTokens(Append(b, x), field) = Append(b, "field end")
  <2>1. ReadTokens(Append(b, x), field) = ReadToken(ReadToken(Append(b, x), "key"), "value")
    BY <1>0, <1>2, ReadTwo
  <2> QED
    BY <2>1, ReadTokenIs, StatesAre
<1> HIDE DEF none, comma
<1>5. ReadTokens(Append(b, "object"), none \o field) = Append(b, "field end")
  BY <1>1, <1>4
<1>6. ReadTokens(Append(b, "field end"), comma \o field)
        = ReadTokens(ReadTokens(Append(b, "field end"), comma), field)
  BY <1>0, <1>1, <1>2, ReadBoth
<1>7. ReadTokens(Append(b, "field end"), comma \o field) = Append(b, "field end")
  BY <1>3, <1>4, <1>6
<1>8. none \o field \in Seq(Token)
  BY <1>0, <1>1
<1> QED
  BY <1>1, <1>5, <1>7, <1>8 DEF none, comma, field

\* An item of an array with a scalar value, with and without a comma.
LEMMA PlainItemRead ==
    ASSUME NEW b \in Stack
    PROVE  /\ ReadTokens(Append(b, "array"), <<>> \o <<"value">>) = Append(b, "item end")
           /\ ReadTokens(Append(b, "item end"), <<"comma">> \o <<"value">>) = Append(b, "item end")
           /\ <<>> \o <<"value">> \in Seq(Token) /\ <<"comma">> \o <<"value">> \in Seq(Token)
<1> DEFINE none == <<>>
           comma == <<"comma">>
           item == <<"value">>
<1>1. none \in Seq(Token) /\ comma \in Seq(Token) /\ item \in Seq(Token)
      /\ none \o item = item /\ comma \o item \in Seq(Token)
  <2>1. comma \in Seq(Token) /\ item \in Seq(Token)
    BY TokenSeqs
  <2>2. none \in Seq(Token)
    OBVIOUS
  <2> HIDE DEF comma, item
  <2>3. none \o item = item
    BY <2>1, ConcatEmptySeq, Zenon
  <2> QED
    BY <2>1, <2>2, <2>3, TokenSeqs, Zenon
<1>2. Append(b, "array") \in Stack /\ Append(b, "item end") \in Stack /\ Append(b, "item") \in Stack
  BY StatesAre, ReadTokenIs
<1>3. ReadTokens(Append(b, "item end"), comma) = Append(b, "item")
  BY <1>2, ReadOne, ReadTokenIs
<1>4. ASSUME NEW x \in {"array", "item"} PROVE ReadTokens(Append(b, x), item) = Append(b, "item end")
  <2>1. ReadTokens(Append(b, x), item) = ReadToken(Append(b, x), "value")
    BY <1>2, ReadOne
  <2>2. x \in DOMAIN AfterValue /\ AfterValue[x] = "item end"
    BY StatesAre
  <2> QED
    BY <2>1, <2>2, ReadTokenIs
<1> HIDE DEF none, comma, item
<1>5. ReadTokens(Append(b, "array"), none \o item) = Append(b, "item end")
  BY <1>1, <1>4
<1>6. ReadTokens(Append(b, "item end"), comma \o item)
        = ReadTokens(ReadTokens(Append(b, "item end"), comma), item)
  BY <1>1, <1>2, ReadBoth
<1>7. ReadTokens(Append(b, "item end"), comma \o item) = Append(b, "item end")
  BY <1>3, <1>4, <1>6
<1> QED
  BY <1>1, <1>5, <1>7 DEF none, comma, item

\* Arrays and objects of scalars are values.
LEMMA ArrayValued == ASSUME NEW n \in Nat PROVE Valued(ArrayOf(n))
<1> DEFINE seqs == [i \in 1..n |-> Comma(i = 1) \o <<"value">>]
           ts == FlattenSeq(seqs)
           first == <<>> \o <<"value">>
           next == <<"comma">> \o <<"value">>
<1>1. first \in Seq(Token) /\ next \in Seq(Token)
      /\ \A b \in Stack : /\ ReadTokens(Append(b, "array"), first) = Append(b, "item end")
                          /\ ReadTokens(Append(b, "item end"), next) = Append(b, "item end")
  <2>1. <<>> \in Stack
    BY DEF Stack
  <2> QED
    BY <2>1, PlainItemRead, Zenon
<1>2. \A i \in 1..n : seqs[i] = IF i = 1 THEN first ELSE next
  BY DEF Comma
<1> HIDE DEF first, next
<1>3. seqs \in Seq(Seq(Token)) /\ Len(seqs) = n
  <2>1. seqs = [i \in 1..n |-> seqs[i]]
    OBVIOUS
  <2> HIDE DEF seqs
  <2>2. seqs \in [1..n -> Seq(Token)]
    BY <1>1, <1>2, <2>1
  <2> QED
    BY <2>2, FunctionSeq
<1> HIDE DEF seqs
<1>4. ASSUME NEW b \in Stack
      PROVE  ts \in Seq(Token) /\ ReadTokens(Append(b, "array"), ts)
                 \in {Append(b, "array"), Append(b, "item end")}
  <2>1. \A i \in 1..Len(seqs) : ReadTokens(Append(b, IF i = 1 THEN "array" ELSE "item end"), seqs[i])
            = Append(b, "item end")
    BY <1>1, <1>2, <1>3
  <2>2. "array" \in States /\ "item end" \in States
    BY StatesAre
  <2> QED
    BY <1>3, <2>1, <2>2, ItemsRead
<1> HIDE DEF ts
<1>5. ts \in Seq(Token)
  <2>1. <<>> \in Stack
    BY DEF Stack
  <2> QED
    BY <1>4, <2>1, Zenon
<1>6. Valued(<<"begin array">> \o ts \o <<"end array">>)
  BY <1>4, <1>5, ArrayClosed
<1> QED
  BY <1>6 DEF ArrayOf, ts, seqs

LEMMA ObjectValued == ASSUME NEW n \in Nat PROVE Valued(ObjectOf(n))
<1> DEFINE seqs == [i \in 1..n |-> Comma(i = 1) \o <<"key", "value">>]
           ts == FlattenSeq(seqs)
           first == <<>> \o <<"key", "value">>
           next == <<"comma">> \o <<"key", "value">>
<1>1. first \in Seq(Token) /\ next \in Seq(Token)
      /\ \A b \in Stack : /\ ReadTokens(Append(b, "object"), first) = Append(b, "field end")
                          /\ ReadTokens(Append(b, "field end"), next) = Append(b, "field end")
  <2>1. <<>> \in Stack
    BY DEF Stack
  <2> QED
    BY <2>1, PlainFieldRead, Zenon
<1>2. \A i \in 1..n : seqs[i] = IF i = 1 THEN first ELSE next
  BY DEF Comma
<1> HIDE DEF first, next
<1>3. seqs \in Seq(Seq(Token)) /\ Len(seqs) = n
  <2>1. seqs = [i \in 1..n |-> seqs[i]]
    OBVIOUS
  <2> HIDE DEF seqs
  <2>2. seqs \in [1..n -> Seq(Token)]
    BY <1>1, <1>2, <2>1
  <2> QED
    BY <2>2, FunctionSeq
<1> HIDE DEF seqs
<1>4. ASSUME NEW b \in Stack
      PROVE  ts \in Seq(Token) /\ ReadTokens(Append(b, "object"), ts)
                 \in {Append(b, "object"), Append(b, "field end")}
  <2>1. \A i \in 1..Len(seqs) : ReadTokens(Append(b, IF i = 1 THEN "object" ELSE "field end"),
            seqs[i]) = Append(b, "field end")
    BY <1>1, <1>2, <1>3
  <2>2. "object" \in States /\ "field end" \in States
    BY StatesAre
  <2> QED
    BY <1>3, <2>1, <2>2, ItemsRead
<1> HIDE DEF ts
<1>5. ts \in Seq(Token)
  <2>1. <<>> \in Stack
    BY DEF Stack
  <2> QED
    BY <1>4, <2>1, Zenon
<1>6. Valued(<<"begin object">> \o ts \o <<"end object">>)
  BY <1>4, <1>5, ObjectClosed
<1> QED
  BY <1>6 DEF ObjectOf, ts, seqs

\* A field with any value, with and without a comma.
LEMMA FieldRead ==
    ASSUME NEW b \in Stack, NEW w, Valued(w)
    PROVE  /\ ReadTokens(Append(b, "object"), (<<>> \o <<"key">>) \o w) = Append(b, "field end")
           /\ ReadTokens(Append(b, "field end"), (<<"comma">> \o <<"key">>) \o w)
                  = Append(b, "field end")
           /\ (<<>> \o <<"key">>) \o w \in Seq(Token) /\ (<<"comma">> \o <<"key">>) \o w \in Seq(Token)
<1> DEFINE first == <<>> \o <<"key">>
           next == <<"comma">> \o <<"key">>
<1>1. /\ ReadTokens(Append(b, "object"), first) = Append(b, "field")
      /\ ReadTokens(Append(b, "field end"), next) = Append(b, "field")
      /\ first \in Seq(Token) /\ next \in Seq(Token)
  BY KeyRead
<1> HIDE DEF first, next
<1>2. Append(b, "object") \in Stack /\ Append(b, "field end") \in Stack
  BY StatesAre, ReadTokenIs
<1>3. w \in Seq(Token) /\ ReadTokens(Append(b, "field"), w) = Append(b, "field end")
  BY StatesAre DEF Valued
<1>4. ReadTokens(Append(b, "object"), first \o w) = Append(b, "field end")
  <2>1. ReadTokens(Append(b, "object"), first \o w)
            = ReadTokens(ReadTokens(Append(b, "object"), first), w)
    BY <1>1, <1>2, <1>3, ReadBoth
  <2> QED
    BY <1>1, <1>3, <2>1
<1>5. ReadTokens(Append(b, "field end"), next \o w) = Append(b, "field end")
  <2>1. ReadTokens(Append(b, "field end"), next \o w)
            = ReadTokens(ReadTokens(Append(b, "field end"), next), w)
    BY <1>1, <1>2, <1>3, ReadBoth
  <2> QED
    BY <1>1, <1>3, <2>1
<1>6. first \o w \in Seq(Token) /\ next \o w \in Seq(Token)
  BY <1>1, <1>3, TokenSeqs, Zenon
<1> QED
  BY <1>4, <1>5, <1>6 DEF first, next

\* An object of values that may be arrays is a value.
LEMMA ObjectTokensValued ==
    ASSUME NEW n \in Nat, NEW ws, DOMAIN ws = 1..n, \A i \in 1..n : Valued(ValuesTokens(ws[i]))
    PROVE  Valued(ObjectTokens(ws))
<1> DEFINE seqs == [i \in 1..n |-> Comma(i = 1) \o <<"key">> \o ValuesTokens(ws[i])]
           ts == FlattenSeq(seqs)
           first == <<>> \o <<"key">>
           next == <<"comma">> \o <<"key">>
<1>1. \A i \in 1..n : seqs[i] = (IF i = 1 THEN first ELSE next) \o ValuesTokens(ws[i])
  BY DEF Comma
<1>2. ASSUME NEW b \in Stack, NEW i \in 1..n
      PROVE  /\ ReadTokens(Append(b, IF i = 1 THEN "object" ELSE "field end"), seqs[i])
                    = Append(b, "field end")
             /\ seqs[i] \in Seq(Token)
  <2> DEFINE w == ValuesTokens(ws[i])
  <2>1. Valued(w)
    OBVIOUS
  <2> HIDE DEF w
  <2>2. /\ ReadTokens(Append(b, "object"), first \o w) = Append(b, "field end")
        /\ ReadTokens(Append(b, "field end"), next \o w) = Append(b, "field end")
        /\ first \o w \in Seq(Token) /\ next \o w \in Seq(Token)
    BY <2>1, FieldRead
  <2>3. seqs[i] = (IF i = 1 THEN first ELSE next) \o w
    BY <1>1 DEF w
  <2> HIDE DEF first, next, seqs
  <2> QED
    BY <2>2, <2>3
<1> HIDE DEF first, next
<1>3. seqs \in Seq(Seq(Token)) /\ Len(seqs) = n
  <2>1. seqs = [i \in 1..n |-> seqs[i]]
    OBVIOUS
  <2>2. \A i \in 1..n : seqs[i] \in Seq(Token)
    <3>1. <<>> \in Stack
      BY DEF Stack
    <3> HIDE DEF seqs
    <3> QED
      BY <1>2, <3>1
  <2> HIDE DEF seqs
  <2>3. seqs \in [1..n -> Seq(Token)]
    BY <2>1, <2>2
  <2> QED
    BY <2>3, FunctionSeq
<1>4. ObjectTokens(ws) = <<"begin object">> \o ts \o <<"end object">>
  BY DEF ObjectTokens
<1> HIDE DEF seqs
<1>5. ASSUME NEW b \in Stack
      PROVE  ts \in Seq(Token) /\ ReadTokens(Append(b, "object"), ts)
                 \in {Append(b, "object"), Append(b, "field end")}
  <2>1. \A i \in 1..Len(seqs) : ReadTokens(Append(b, IF i = 1 THEN "object" ELSE "field end"),
            seqs[i]) = Append(b, "field end")
    BY <1>2, <1>3
  <2>2. "object" \in States /\ "field end" \in States
    BY StatesAre
  <2> QED
    BY <1>3, <2>1, <2>2, ItemsRead
<1> HIDE DEF ts
<1>6. ts \in Seq(Token)
  <2>1. <<>> \in Stack
    BY DEF Stack
  <2> QED
    BY <1>5, <2>1, Zenon
<1>7. Valued(<<"begin object">> \o ts \o <<"end object">>)
  BY <1>5, <1>6, ObjectClosed
<1> QED
  BY <1>4, <1>7

\* The values of a header or of a form field are a value, and are decoded as they were.
LEMMA ValuesWritten ==
    ASSUME NEW vs, Len(vs) \in Nat
    PROVE  Valued(ValuesTokens(MarshalValues(vs)))
               /\ (Len(vs) = 1 => UnmarshalValues(MarshalValues(vs)) = <<vs[1]>>)
           /\ (Len(vs) # 1 => UnmarshalValues(MarshalValues(vs)) = vs)
<1>1. CASE Len(vs) = 1
  <2>1. MarshalValues(vs) = [string |-> vs[1]]
    BY <1>1 DEF MarshalValues
  <2>2. "string" \in DOMAIN MarshalValues(vs)
    BY <2>1
  <2>3. ValuesTokens(MarshalValues(vs)) = <<"value">> /\ UnmarshalValues(MarshalValues(vs)) = <<vs[1]>>
    BY <2>1, <2>2 DEF ValuesTokens, UnmarshalValues
  <2> QED
    BY <1>1, <2>3, ScalarValued
<1>2. CASE Len(vs) # 1
  <2>1. MarshalValues(vs) = [array |-> vs]
    BY <1>2 DEF MarshalValues
  <2>2. "string" \notin DOMAIN MarshalValues(vs)
    BY <2>1
  <2>3. ValuesTokens(MarshalValues(vs)) = ArrayOf(Len(vs)) /\ UnmarshalValues(MarshalValues(vs)) = vs
    BY <2>1, <2>2 DEF ValuesTokens, UnmarshalValues
  <2> QED
    BY <1>2, <2>3, ArrayValued
<1> QED
  BY <1>1, <1>2

-----------------------------------------------------------------------------
(* Cookies *)

\* Where the last cookies with their names are.
LastOnes(v) == {i \in 1..Len(v) : ~\E j \in (i + 1)..Len(v) : v[j][1] = v[i][1]}

\* The cookies that are written are the last ones with their names.
LEMMA CookiesWritten ==
    ASSUME NEW S, NEW v \in Seq(S)
    PROVE  MarshalCookies(v) \in Seq(S) /\ ToSet(MarshalCookies(v)) = {v[i] : i \in LastOnes(v)}
<1> DEFINE n == Len(v)
           Later(i) == \E j \in (i + 1)..n : v[j][1] = v[i][1]
           F == [i \in 1..n |-> [x \in Seq(S) |-> IF Later(i) THEN x ELSE <<v[i]>> \o x]]
           b == <<>>
           Is(h) == h = [i \in 0..n |-> IF i = 0 THEN b
                                        ELSE IF Later(i) THEN h[i - 1] ELSE <<v[i]>> \o h[i - 1]]
<1>1. n \in Nat /\ b \in Seq(S) /\ \A i \in 1..n : v[i] \in S
  OBVIOUS
<1>2. ASSUME NEW i \in 1..n, NEW x \in Seq(S)
      PROVE  <<v[i]>> \o x \in Seq(S) /\ ToSet(<<v[i]>> \o x) = {v[i]} \cup ToSet(x)
  <2> DEFINE c == v[i]
             s == <<c>> \o x
  <2>1. c \in S
    BY <1>1
  <2> HIDE DEF c
  <2>2. s \in Seq(S) /\ Len(s) = Len(x) + 1 /\ s[1] = c /\ \A k \in 1..Len(x) : s[k + 1] = x[k]
    BY <2>1
  <2>3. DOMAIN s = 1..Len(x) + 1 /\ DOMAIN x = 1..Len(x) /\ Len(x) \in Nat
    BY <2>2
  <2> HIDE DEF s
  <2>4. \A k \in 1..Len(x) + 1 : k = 1 \/ (k - 1 \in 1..Len(x) /\ s[k] = x[k - 1])
    BY <2>2, <2>3
  <2>5. ToSet(s) = {c} \cup ToSet(x)
    <3>1. ASSUME NEW e \in ToSet(s) PROVE e \in {c} \cup ToSet(x)
      <4>1. PICK k \in 1..Len(x) + 1 : e = s[k]
        BY <2>3, <3>1 DEF ToSet
      <4> QED
        BY <2>2, <2>3, <2>4, <4>1 DEF ToSet
    <3>2. ASSUME NEW e \in ToSet(x) PROVE e \in ToSet(s)
      <4>1. PICK k \in 1..Len(x) : e = x[k]
        BY <2>3 DEF ToSet
      <4>2. k + 1 \in 1..Len(x) + 1 /\ e = s[k + 1]
        BY <2>2, <2>3, <4>1
      <4> QED
        BY <2>3, <4>2 DEF ToSet
    <3>3. c \in ToSet(s)
      BY <2>2, <2>3 DEF ToSet
    <3> QED
      BY <3>1, <3>2, <3>3
  <2> QED
    BY <2>2, <2>5 DEF c, s
<1>3. \A i \in 1..n : \A x \in Seq(S) : F[i][x] = IF Later(i) THEN x ELSE <<v[i]>> \o x
  OBVIOUS
<1> HIDE DEF Later, F
<1>4. Closed(F, n, Seq(S))
  BY <1>2, <1>3 DEF Closed
<1> HIDE DEF n, b
<1>5. PICK g : Rounds(g, F, n, Seq(S), b)
  BY <1>1, <1>4, Loop
<1>6. g \in [0..n -> Seq(S)] /\ g[0] = b
      /\ \A i \in 1..n : g[i] = IF Later(i) THEN g[i - 1] ELSE <<v[i]>> \o g[i - 1]
  <2>1. g \in [0..n -> Seq(S)] /\ g[0] = b /\ \A i \in 1..n : g[i] = F[i][g[i - 1]]
    BY <1>5 DEF Rounds
  <2>2. \A i \in 1..n : g[i - 1] \in Seq(S)
    BY <1>1, <2>1
  <2> QED
    BY <1>3, <2>1, <2>2
<1> DEFINE h == CHOOSE h : Is(h)
<1>7. Is(h)
  <2>1. Is(g)
    <3>1. g = [i \in 0..n |-> g[i]]
      BY <1>6
    <3>2. \A i \in 0..n : g[i] = IF i = 0 THEN b
                                ELSE IF Later(i) THEN g[i - 1] ELSE <<v[i]>> \o g[i - 1]
      <4>1. \A i \in 0..n : i = 0 \/ i \in 1..n
        BY <1>1
      <4> QED
        BY <1>6, <4>1
    <3> QED
      BY <3>1, <3>2
  <2> HIDE DEF Is
  <2> QED
    BY <2>1, Zenon
<1>8. h[0] = b /\ \A i \in 1..n : h[i] = IF Later(i) THEN h[i - 1] ELSE <<v[i]>> \o h[i - 1]
  <2> HIDE DEF h
  <2>1. \A i \in 1..n : i \in 0..n /\ i # 0
    BY <1>1
  <2>2. 0 \in 0..n
    BY <1>1
  <2> QED
    BY <1>7, <2>1, <2>2
<1>9. MarshalCookies(v) = h[n]
  BY DEF MarshalCookies, n, b, Later
<1> HIDE DEF h
<1> DEFINE T == {i \in 0..n : /\ h[i] \in Seq(S)
                              /\ ToSet(h[i]) = {v[j] : j \in {j \in 1..i : ~Later(j)}}}
<1>10. 0 \in T
  <2>1. ToSet(b) = {}
    BY DEF ToSet, b
  <2>2. {j \in 1..0 : ~Later(j)} = {}
    OBVIOUS
  <2> QED
    BY <1>1, <1>8, <2>1, <2>2
<1>11. ASSUME NEW i \in 1..n, i - 1 \in T PROVE i \in T
  <2>1. h[i - 1] \in Seq(S) /\ ToSet(h[i - 1]) = {v[j] : j \in {j \in 1..i - 1 : ~Later(j)}}
    BY <1>11
  <2>2. 1..i = (1..i - 1) \cup {i}
    BY <1>1
  <2>3. CASE Later(i)
    <3>1. {j \in 1..i : ~Later(j)} = {j \in 1..i - 1 : ~Later(j)}
      BY <2>2, <2>3
    <3>2. h[i] = h[i - 1]
      BY <1>8, <2>3
    <3> QED
      BY <2>1, <3>1, <3>2
  <2>4. CASE ~Later(i)
    <3>1. {j \in 1..i : ~Later(j)} = {j \in 1..i - 1 : ~Later(j)} \cup {i}
      BY <2>2, <2>4
    <3>2. h[i] = <<v[i]>> \o h[i - 1]
      BY <1>8, <2>4
    <3>3. h[i] \in Seq(S) /\ ToSet(h[i]) = {v[i]} \cup ToSet(h[i - 1])
      BY <1>2, <2>1, <3>2
    <3> QED
      BY <2>1, <3>1, <3>3
  <2> QED
    BY <2>3, <2>4
<1> HIDE DEF T
<1>12. \A i \in 0..n : i \in T
  BY <1>1, <1>10, <1>11, UpTo
<1>13. h[n] \in Seq(S) /\ ToSet(h[n]) = {v[j] : j \in {j \in 1..n : ~Later(j)}}
  <2>1. n \in T
    BY <1>1, <1>12
  <2> QED
    BY <2>1 DEF T
<1>14. LastOnes(v) = {j \in 1..n : ~Later(j)}
  BY DEF LastOnes, Later, n
<1> QED
  BY <1>9, <1>13, <1>14

-----------------------------------------------------------------------------
(* Objects that are written field by field *)

\* The tokens of a value that has begun and left the parser in state x.
Begun(ts, x) ==
    /\ ts \in Seq(Token)
    /\ \A b \in Stack, y \in DOMAIN AfterValue :
          ReadTokens(Append(b, y), ts) = Append(Append(b, AfterValue[y]), x)

\* An object being written, before or after its first field.
Unfinished(object) ==
    \/ object.first = TRUE /\ Begun(object.tokens, "object")
    \/ object.first = FALSE /\ Begun(object.tokens, "field end")

\* An object that has just begun.
LEMMA BeginUnfinished == Unfinished(BeginObject)
<1> DEFINE open == <<"begin object">>
<1>1. open \in Seq(Token)
  BY TokenSeqs
<1>2. \A s \in Stack : ReadTokens(s, open) = ReadToken(s, "begin object")
  BY ReadOne
<1> HIDE DEF open
<1>3. ASSUME NEW b \in Stack, NEW y \in DOMAIN AfterValue
      PROVE  ReadTokens(Append(b, y), open) = Append(Append(b, AfterValue[y]), "object")
  <2>1. Append(b, y) \in Stack
    BY AfterValueStates, ReadTokenIs
  <2> QED
    BY <1>2, <2>1, ReadTokenIs
<1>4. Begun(open, "object")
  BY <1>1, <1>3 DEF Begun
<1>5. BeginObject.first = TRUE /\ BeginObject.tokens = open
  BY DEF BeginObject, open
<1> QED
  BY <1>4, <1>5, Zenon DEF Unfinished

\* What is read after what was read.
LEMMA BegunMore ==
    ASSUME NEW ts, NEW us \in Seq(Token), NEW x \in States, NEW y \in States, Begun(ts, x),
           \A b \in Stack : ReadTokens(Append(b, x), us) = Append(b, y)
    PROVE  Begun(ts \o us, y)
<1>1. ts \in Seq(Token)
  BY DEF Begun
<1>2. ts \o us \in Seq(Token)
  BY <1>1, TokenSeqs, Zenon
<1>3. ASSUME NEW b \in Stack, NEW z \in DOMAIN AfterValue
      PROVE  ReadTokens(Append(b, z), ts \o us) = Append(Append(b, AfterValue[z]), y)
  <2>1. Append(b, z) \in Stack /\ Append(b, AfterValue[z]) \in Stack
    BY AfterValueStates, ReadTokenIs
  <2>2. ReadTokens(Append(b, z), ts \o us) = ReadTokens(ReadTokens(Append(b, z), ts), us)
    BY <1>1, <2>1, ReadBoth
  <2>3. ReadTokens(Append(b, z), ts) = Append(Append(b, AfterValue[z]), x)
    BY DEF Begun
  <2> QED
    BY <2>1, <2>2, <2>3
<1> QED
  BY <1>2, <1>3 DEF Begun

\* An object that is closed is a value.
LEMMA BegunEnd ==
    ASSUME NEW ts, NEW x \in {"object", "field end"}, Begun(ts, x)
    PROVE  Valued(ts \o <<"end object">>)
<1> DEFINE end == <<"end object">>
<1>1. ts \in Seq(Token)
  BY DEF Begun
<1>2. end \in Seq(Token) /\ \A s \in Stack : ReadTokens(s, end) = ReadToken(s, "end object")
  BY TokenSeqs, ReadOne
<1> HIDE DEF end
<1>3. ts \o end \in Seq(Token)
  BY <1>1, <1>2, TokenSeqs, Zenon
<1>4. ASSUME NEW b \in Stack, NEW z \in DOMAIN AfterValue
      PROVE  ReadTokens(Append(b, z), ts \o end) = Append(b, AfterValue[z])
  <2> DEFINE a == Append(b, AfterValue[z])
  <2>1. Append(b, z) \in Stack /\ a \in Stack
    BY AfterValueStates, ReadTokenIs
  <2>2. ReadTokens(Append(b, z), ts \o end) = ReadTokens(ReadTokens(Append(b, z), ts), end)
    BY <1>1, <1>2, <2>1, ReadBoth
  <2>3. ReadTokens(Append(b, z), ts) = Append(a, x)
    BY DEF Begun
  <2> HIDE DEF a
  <2>4. Append(a, x) \in Stack
    BY <2>1, StatesAre, ReadTokenIs
  <2>5. ReadTokens(Append(a, x), end) = a
    BY <1>2, <2>1, <2>4, ReadTokenIs
  <2> QED
    BY <2>2, <2>3, <2>5 DEF a
<1>5. Valued(ts \o end)
  BY <1>3, <1>4 DEF Valued
<1> QED
  BY <1>5 DEF end

\* A field is added, or left out; a field that was added clears "first".
LEMMA WithFieldUnfinished ==
    ASSUME NEW object, Unfinished(object), NEW present \in BOOLEAN
    PROVE  /\ Unfinished(WithField(object, present))
           /\ present \/ object.first = FALSE => WithField(object, present).first = FALSE
<1>1. CASE present = TRUE
  <2> DEFINE ts == object.tokens \o (Comma(object.first) \o <<"key", "value">>)
  <2>1. WithField(object, present) = [first |-> FALSE, tokens |-> ts]
    BY <1>1 DEF WithField
  <2>2. "field end" \in States /\ "object" \in States
    BY StatesAre
  <2>3. Begun(ts, "field end")
    <3>1. CASE object.first = TRUE /\ Begun(object.tokens, "object")
      <4> DEFINE us == <<>> \o <<"key", "value">>
      <4>1. Comma(object.first) \o <<"key", "value">> = us
        BY <3>1, Zenon DEF Comma
      <4>2. us \in Seq(Token) /\ \A b \in Stack : ReadTokens(Append(b, "object"), us)
                = Append(b, "field end")
        <5>1. <<>> \in Stack
          BY DEF Stack
        <5> QED
          BY <5>1, PlainFieldRead, Zenon
      <4> HIDE DEF us
      <4>3. Begun(object.tokens \o us, "field end")
        BY <2>2, <3>1, <4>2, BegunMore
      <4> QED
        BY <4>1, <4>3, Zenon
    <3>2. CASE object.first = FALSE /\ Begun(object.tokens, "field end")
      <4> DEFINE us == <<"comma">> \o <<"key", "value">>
      <4>1. Comma(object.first) \o <<"key", "value">> = us
        BY <3>2, Zenon DEF Comma
      <4>2. us \in Seq(Token) /\ \A b \in Stack : ReadTokens(Append(b, "field end"), us)
                = Append(b, "field end")
        <5>1. <<>> \in Stack
          BY DEF Stack
        <5> QED
          BY <5>1, PlainFieldRead, Zenon
      <4> HIDE DEF us
      <4>3. Begun(object.tokens \o us, "field end")
        BY <2>2, <3>2, <4>2, BegunMore
      <4> QED
        BY <4>1, <4>3, Zenon
    <3> QED
      BY <3>1, <3>2, Zenon DEF Unfinished
  <2> HIDE DEF ts
  <2>4. WithField(object, present).first = FALSE /\ WithField(object, present).tokens = ts
    BY <2>1
  <2> QED
    BY <2>3, <2>4, Zenon DEF Unfinished
<1>2. CASE present = FALSE
  <2>1. WithField(object, present) = object
    BY <1>2, Zenon DEF WithField
  <2> QED
    BY <1>2, <2>1, Zenon
<1> QED
  BY <1>1, <1>2

\* An object written field by field is a value when it is closed.
LEMMA UnfinishedEnd ==
    ASSUME NEW object, Unfinished(object)
    PROVE  Valued(object.tokens \o <<"end object">>)
BY BegunEnd, Zenon DEF Unfinished

\* The HTTP context of a span is a value.
LEMMA HTTPSpanContextValued ==
    ASSUME NEW h, h.status \in BOOLEAN
    PROVE  Valued(MarshalHTTPSpanContext(h))
<1>1. (h.url = "allowed") \in BOOLEAN
  OBVIOUS
<1>2. Unfinished(WithField(BeginObject, h.url = "allowed"))
  BY <1>1, BeginUnfinished, WithFieldUnfinished, Zenon
<1>3. Unfinished(WithField(WithField(BeginObject, h.url = "allowed"), h.status))
  BY <1>2, WithFieldUnfinished, Zenon
<1> QED
  BY <1>3, UnfinishedEnd, Zenon DEF MarshalHTTPSpanContext

\* A URL is a value, if its protocol has no characters that are not allowed.
LEMMA URLValued ==
    ASSUME NEW u, SchemeAllowed(u.protocol)
    PROVE  Valued(MarshalURL(u))
<1> DEFINE allowed == u.protocol # <<>> /\ SchemeAllowed(u.protocol)
           hash == WithField(BeginObject, u.hash # <<>>)
           host == WithField(hash, u.hostname # <<>>)
           path == WithField(host, u.path # <<>>)
           port == WithField(path, u.port # <<>>)
           protocol == IF u.protocol # <<>> /\ ~allowed THEN [port EXCEPT !.first = FALSE]
                       ELSE WithField(port, allowed)
           search == WithField(protocol, u.search # <<>>)
           more == IF allowed /\ u.hostname # <<>> THEN <<"comma", "key", "value">> ELSE <<>>
           url == <<"comma", "key", "value">>
<1>1. MarshalURL(u) = (search.tokens \o more) \o <<"end object">>
  BY DEF MarshalURL
<1>2. /\ (u.hash # <<>>) \in BOOLEAN /\ (u.hostname # <<>>) \in BOOLEAN /\ (u.path # <<>>) \in BOOLEAN
      /\ (u.port # <<>>) \in BOOLEAN /\ allowed \in BOOLEAN /\ (u.search # <<>>) \in BOOLEAN
  OBVIOUS
<1>3. Unfinished(hash)
  BY <1>2, BeginUnfinished, WithFieldUnfinished, Zenon
<1> HIDE DEF hash
<1>4. Unfinished(host) /\ (u.hostname # <<>> => host.first = FALSE)
  BY <1>2, <1>3, WithFieldUnfinished, Zenon
<1> HIDE DEF host
<1>5. Unfinished(path) /\ (u.hostname # <<>> => path.first = FALSE)
  BY <1>2, <1>4, WithFieldUnfinished, Zenon
<1> HIDE DEF path
<1>6. Unfinished(port) /\ (u.hostname # <<>> => port.first = FALSE)
  BY <1>2, <1>5, WithFieldUnfinished, Zenon
<1> HIDE DEF port
<1>7. protocol = WithField(port, allowed)
  BY Zenon
<1> HIDE DEF protocol
<1>8. Unfinished(protocol) /\ (u.hostname # <<>> => protocol.first = FALSE)
  BY <1>2, <1>6, <1>7, WithFieldUnfinished, Zenon
<1>9. Unfinished(search) /\ (u.hostname # <<>> => search.first = FALSE)
  BY <1>2, <1>8, WithFieldUnfinished, Zenon
<1> HIDE DEF search
<1>10. CASE allowed /\ u.hostname # <<>>
  <2>1. more = url
    BY <1>10, Zenon
  <2>2. url \in Seq(Token) /\ Len(url) = 3 /\ url[1] = "comma" /\ url[2] = "key" /\ url[3] = "value"
    <3>1. "comma" \in Token /\ "key" \in Token /\ "value" \in Token
      BY DEF Token
    <3> QED
      BY <3>1
  <2> HIDE DEF more, url
  <2>3. ASSUME NEW b \in Stack PROVE ReadTokens(Append(b, "field end"), url) = Append(b, "field end")
    <3>1. Append(b, "field end") \in Stack
      BY StatesAre, ReadTokenIs
    <3>2. ReadTokens(Append(b, "field end"), url)
            = ReadToken(ReadToken(ReadToken(Append(b, "field end"), "comma"), "key"), "value")
      BY <2>2, <3>1, ReadThree
    <3>3. ReadToken(ReadToken(Append(b, "field end"), "comma"), "key") = Append(b, "field")
      BY ReadTokenIs
    <3>4. ReadToken(Append(b, "field"), "value") = Append(b, "field end")
      <4>1. "field" \in DOMAIN AfterValue /\ AfterValue["field"] = "field end"
        BY StatesAre
      <4>2. \A x \in DOMAIN AfterValue : ReadToken(Append(b, x), "value") = Append(b, AfterValue[x])
        BY ReadTokenIs, Zenon
      <4> QED
        BY <4>1, <4>2
    <3> QED
      BY <3>2, <3>3, <3>4
  <2>4. Begun(search.tokens, "field end")
    <3>1. search.first = FALSE
      BY <1>9, <1>10, Zenon
    <3> QED
      BY <1>9, <3>1, Zenon DEF Unfinished
  <2>5. Begun(search.tokens \o url, "field end")
    BY <2>2, <2>3, <2>4, StatesAre, BegunMore
  <2>6. Valued((search.tokens \o url) \o <<"end object">>)
    BY <2>5, BegunEnd
  <2> QED
    BY <1>1, <2>1, <2>6, Zenon
<1>11. CASE ~(allowed /\ u.hostname # <<>>)
  <2>1. more = <<>>
    BY <1>11, Zenon
  <2>2. search.tokens \in Seq(Token)
    BY <1>9, Zenon DEF Unfinished, Begun
  <2> DEFINE ts == search.tokens
  <2>3. ts \o <<>> = ts
    <3> HIDE DEF ts
    <3>1. ts \in Seq(Token)
      BY <2>2 DEF ts
    <3> QED
      BY <3>1, ConcatEmptySeq, Zenon
  <2>4. Valued(search.tokens \o <<"end object">>)
    BY <1>9, UnfinishedEnd, Zenon
  <2> HIDE DEF more
  <2> QED
    BY <1>1, <2>1, <2>3, <2>4, Zenon
<1> QED
  BY <1>10, <1>11

-----------------------------------------------------------------------------
(* The values of the encoders written by hand *)

\* The values of each type, one by one.
LEMMA LeafValuesAre ==
    /\ LeafValues["URL"] = URLs /\ LeafValues["HTTPSpanContext"] = HTTPSpanContexts
    /\ LeafValues["Cookies"] = PairsOf({1, 2})
    /\ LeafValues["StringMap"] = DistinctPairs({1}) /\ LeafValues["IfaceMap"] = DistinctPairs({1})
    /\ LeafValues["Headers"] = DistinctPairs(Lists) /\ LeafValues["RequestBody"] = RequestBodies
    /\ LeafValues["ExceptionCode"] = {"string", "number", "odd number"}
    /\ LeafValues["Time"] = Times /\ LeafValues["ID"] = IDs
BY DEF LeafValues

\* Lists of pairs are sequences.
LEMMA PairsAre ==
    ASSUME NEW values, NEW ps \in PairsOf(values)
    PROVE  ps \in Seq(Names \X values) /\ Len(ps) \in Names /\ ps \in [1..Len(ps) -> Names \X values]
<1>1. PICK n \in Names : ps \in [1..n -> Names \X values]
  BY DEF PairsOf
<1>2. n \in Nat
  BY DEF Names
<1>3. ps \in Seq(Names \X values) /\ Len(ps) = n
  BY <1>1, <1>2, FunctionSeq
<1> QED
  BY <1>1, <1>3

\* Lists of values are sequences.
LEMMA ListsAre == ASSUME NEW vs \in Lists PROVE Len(vs) \in Nat /\ vs \in Seq(Nat)
<1>1. PICK n \in 0..MaxItems : vs = [i \in 1..n |-> i]
  BY DEF Lists
<1>2. n \in Nat /\ vs \in [1..n -> Nat]
  BY <1>1
<1> QED
  BY <1>2, FunctionSeq

\* Headers and forms are values.
LEMMA HeadersValued ==
    ASSUME NEW v \in PairsOf(Lists)
    PROVE  Valued(ObjectTokens([i \in DOMAIN v |-> MarshalHeaders(v)[i][2]]))
<1> DEFINE n == Len(v)
           ws == [i \in DOMAIN v |-> MarshalHeaders(v)[i][2]]
<1>1. n \in Nat /\ DOMAIN v = 1..n /\ \A i \in 1..n : v[i] \in Names \X Lists
  <2>1. n \in Names /\ v \in [1..n -> Names \X Lists]
    BY PairsAre
  <2>2. n \in Nat
    BY <2>1 DEF Names
  <2> HIDE DEF n
  <2> QED
    BY <2>1, <2>2
<1>2. DOMAIN ws = 1..n
  BY <1>1
<1>3. ASSUME NEW i \in 1..n PROVE Valued(ValuesTokens(ws[i]))
  <2>1. ws[i] = MarshalValues(v[i][2])
    BY <1>1 DEF MarshalHeaders
  <2>2. v[i][2] \in Lists
    BY <1>1
  <2> HIDE DEF ws
  <2> QED
    BY <2>1, <2>2, ListsAre, ValuesWritten
<1> HIDE DEF ws, n
<1>4. Valued(ObjectTokens(ws))
  BY <1>1, <1>2, <1>3, ObjectTokensValued
<1> QED
  BY <1>4 DEF ws

LEMMA FormValued ==
    ASSUME NEW n \in Names, NEW form \in [1..n -> Lists]
    PROVE  Valued(ObjectTokens(MarshalForm(form)))
<1> DEFINE ws == MarshalForm(form)
<1>1. n \in Nat
  BY DEF Names
<1>2. DOMAIN ws = 1..n /\ \A i \in 1..n : ws[i] = MarshalValues(form[i]) /\ form[i] \in Lists
  BY DEF MarshalForm
<1> HIDE DEF ws
<1>3. \A i \in 1..n : Valued(ValuesTokens(ws[i]))
  BY <1>2, ListsAre, ValuesWritten
<1>4. Valued(ObjectTokens(ws))
  BY <1>1, <1>2, <1>3, ObjectTokensValued
<1> QED
  BY <1>4 DEF ws

\* What the encoder of a leaf writes without an error is a value, if protocols have no
\* characters that are not allowed.
LEMMA LeafValued ==
    ASSUME ~OddSchemes, NEW type \in LeafTypes, NEW v \in LeafValues[type], ~IsOdd(type, v)
    PROVE  Valued(LeafTokens(type, v))
<1>1. CASE type = "URL"
  <2>1. v \in URLs
    BY <1>1, LeafValuesAre
  <2>2. SchemeAllowed(v.protocol)
    BY <2>1, Zenon DEF URLs
  <2>3. LeafTokens(type, v) = MarshalURL(v)
    BY <1>1 DEF LeafTokens
  <2> QED
    BY <2>2, <2>3, URLValued
<1>2. CASE type = "HTTPSpanContext"
  <2>1. v \in HTTPSpanContexts
    BY <1>2, LeafValuesAre
  <2>2. v.status \in BOOLEAN
    BY <2>1 DEF HTTPSpanContexts
  <2>3. LeafTokens(type, v) = MarshalHTTPSpanContext(v)
    BY <1>2 DEF LeafTokens
  <2> QED
    BY <2>2, <2>3, HTTPSpanContextValued
<1>3. CASE type = "Cookies"
  <2>1. v \in PairsOf({1, 2})
    BY <1>3, LeafValuesAre
  <2>2. v \in Seq(Names \X {1, 2})
    BY <2>1, PairsAre
  <2>3. MarshalCookies(v) \in Seq(Names \X {1, 2})
    BY <2>2, CookiesWritten
  <2>4. Len(MarshalCookies(v)) \in Nat
    BY <2>3
  <2>5. LeafTokens(type, v) = ObjectOf(Len(MarshalCookies(v)))
    BY <1>3 DEF LeafTokens
  <2> QED
    BY <2>4, <2>5, ObjectValued
<1>4. CASE type = "Headers"
  <2>1. v \in PairsOf(Lists)
    BY <1>4, LeafValuesAre DEF DistinctPairs
  <2>2. LeafTokens(type, v) = ObjectTokens([i \in DOMAIN v |-> MarshalHeaders(v)[i][2]])
    BY <1>4, Zenon DEF LeafTokens
  <2> QED
    BY <2>1, <2>2, HeadersValued, Zenon
<1>5. CASE type \in {"StringMap", "IfaceMap"}
  <2>1. v \in PairsOf({1})
    BY <1>5, LeafValuesAre DEF DistinctPairs
  <2>2. Len(v) \in Nat
    BY <2>1, PairsAre DEF Names
  <2>3. LeafTokens(type, v) = ObjectOf(Len(v))
    BY <1>5 DEF LeafTokens
  <2> QED
    BY <2>2, <2>3, ObjectValued
<1>6. CASE type = "RequestBody"
  <2>1. v \in RequestBodies
    BY <1>6, LeafValuesAre
  <2>2. CASE v = [raw |-> "s"]
    <3>1. "raw" \in DOMAIN v
      BY <2>2
    <3>2. LeafTokens(type, v) = <<"value">>
      BY <1>6, <3>1 DEF LeafTokens
    <3> QED
      BY <3>2, ScalarValued
  <2>3. CASE v # [raw |-> "s"]
    <3>1. PICK n \in Names : v \in [form : [1..n -> Lists]]
      BY <2>1, <2>3 DEF RequestBodies
    <3>2. "raw" \notin DOMAIN v /\ v.form \in [1..n -> Lists]
      BY <3>1
    <3>3. LeafTokens(type, v) = ObjectTokens(MarshalForm(v.form))
      BY <1>6, <3>2 DEF LeafTokens
    <3> QED
      BY <3>2, <3>3, FormValued
  <2> QED
    BY <2>2, <2>3
<1>7. CASE type \in {"ExceptionCode", "Time", "ID"}
  <2>1. LeafTokens(type, v) = <<"value">>
    BY <1>7 DEF LeafTokens
  <2> QED
    BY <2>1, ScalarValued
<1> QED
  BY <1>1, <1>2, <1>3, <1>4, <1>5, <1>6, <1>7 DEF LeafTypes

-----------------------------------------------------------------------------
(* The encoders in execution *)

\* The encoders of three tables.
DomainsOf(f, g, h) == DOMAIN f \cup DOMAIN g \cup DOMAIN h

LEMMA JoinDomain == ASSUME NEW f, NEW g, NEW h PROVE DOMAIN Joined(f, g, h) = DomainsOf(f, g, h)
BY DEF Joined, DomainsOf

\* Every type that is encoded has an encoder.
LEMMA ProgramsDomain == DOMAIN Programs = Types
<1>1. DOMAIN ServiceMarshal = {"Service", "Agent", "Framework", "Language", "Runtime", "ServiceNode"}
  BY DEF ServiceMarshal
<1>2. DOMAIN SystemMarshal
          = {"System", "Process", "Container", "Kubernetes", "KubernetesNode", "KubernetesPod"}
  BY DEF SystemMarshal
<1>3. DOMAIN CloudMarshal = {"Cloud", "CloudInstance", "CloudMachine", "CloudAccount", "CloudProject"}
  BY DEF CloudMarshal
<1>4. DOMAIN TransactionMarshal = {"Transaction", "OTel"}
  BY DEF TransactionMarshal
<1>5. DOMAIN SpanCountMarshal = {"SpanCount", "DroppedSpansStats", "AggregateDuration", "DurationSum"}
  BY DEF SpanCountMarshal
<1>6. DOMAIN SpanMarshal = {"Span"}
  BY DEF SpanMarshal
<1>7. DOMAIN SpanContextMarshal = {"SpanContext", "SpanLink", "DestinationSpanContext"}
  BY DEF SpanContextMarshal
<1>8. DOMAIN TargetMarshal
          = {"ServiceSpanContext", "ServiceTargetSpanContext", "DestinationServiceSpanContext",
                "DestinationCloudSpanContext", "MessageSpanContext", "MessageQueueSpanContext",
                      "DatabaseSpanContext", "CompositeSpan"}
  BY DEF TargetMarshal
<1>9. DOMAIN ContextMarshal = {"Context", "User"}
  BY DEF ContextMarshal
<1>10. DOMAIN ErrorMarshal = {"Error", "ErrorTransaction"}
  BY DEF ErrorMarshal
<1>11. DOMAIN ExceptionMarshal = {"Exception", "StacktraceFrame"}
  BY DEF ExceptionMarshal
<1>12. DOMAIN RequestMarshal = {"Log", "Request", "RequestSocket"}
  BY DEF RequestMarshal
<1>13. DOMAIN ResponseMarshal = {"Response"}
  BY DEF ResponseMarshal
<1>14. DOMAIN MetricsMarshal = {"Metrics", "MetricsTransaction", "MetricsSpan"}
  BY DEF MetricsMarshal
<1>15. DOMAIN FAASMarshal = {"FAAS", "FAASTrigger"}
  BY DEF FAASMarshal
<1>16. DOMAIN MetricMarshal = {"Value", "Histogram"}
  BY DEF MetricMarshal
<1>17. DOMAIN MetadataMarshal = {"Metadata"}
  BY DEF MetadataMarshal
<1> DEFINE a == Joined(ServiceMarshal, SystemMarshal, CloudMarshal)
           b == Joined(TransactionMarshal, SpanCountMarshal, FAASMarshal)
           c == Joined(SpanMarshal, SpanContextMarshal, TargetMarshal)
           d == Joined(a, b, c)
           e == Joined(ContextMarshal, RequestMarshal, ResponseMarshal)
           f == Joined(ErrorMarshal, ExceptionMarshal, MetricsMarshal)
<1>18. /\ DOMAIN a = DomainsOf(ServiceMarshal, SystemMarshal, CloudMarshal)
      /\ DOMAIN b = DomainsOf(TransactionMarshal, SpanCountMarshal, FAASMarshal)
      /\ DOMAIN c = DomainsOf(SpanMarshal, SpanContextMarshal, TargetMarshal)
      /\ DOMAIN e = DomainsOf(ContextMarshal, RequestMarshal, ResponseMarshal)
      /\ DOMAIN f = DomainsOf(ErrorMarshal, ExceptionMarshal, MetricsMarshal)
  BY JoinDomain, Zenon
<1> HIDE DEF a, b, c, e, f
<1>19. DOMAIN d = DomainsOf(a, b, c)
  BY JoinDomain, Zenon
<1> HIDE DEF d
<1>20. DOMAIN GeneratedPrograms = DomainsOf(d, e, f)
  <2>1. GeneratedPrograms = Joined(d, e, f)
    BY Zenon DEF GeneratedPrograms, a, b, c, d, e, f
  <2> QED
    BY <2>1, JoinDomain, Zenon
<1>21. DOMAIN Programs = DomainsOf(GeneratedPrograms, MetricMarshal, MetadataMarshal)
  <2>1. Programs = Joined(GeneratedPrograms, MetricMarshal, MetadataMarshal)
    BY Zenon DEF Programs
  <2> QED
    BY <2>1, JoinDomain, Zenon
<1>22. DOMAIN Programs \subseteq Types
  BY ProgramsRegular DEF Regular
<1>23. Types \subseteq DOMAIN Programs
  BY <1>1, <1>2, <1>3, <1>4, <1>5, <1>6, <1>7, <1>8, <1>9, <1>10, <1>11, <1>12, <1>13, <1>14, <1>15,
        <1>16, <1>17, <1>18, <1>19, <1>20, <1>21 DEF Types, DomainsOf
<1> QED
  BY <1>22, <1>23

\* What a frame is about: the type of the items of a list or a map.
Ofs == {Programs[t][i].value.of : t \in Types, i \in Nat} \cup {"none"}

\* The encoders and loops that are executed.
FrameSet == [type : Types \cup {"list", "map"}, of : Ofs, pc : Nat \ {0}, first : {TRUE, FALSE}]

\* What the parser is in when the frame's encoder is about to write.
FrameState(f) == IF f.type = "list" THEN (IF f.first = TRUE THEN "array" ELSE "item end")
              ELSE (IF f.first = TRUE THEN "object" ELSE "field end")

\* The object around the event, which was begun in the document, after its key.
Around == Append(Append(<<>>, "end"), "field end")

\* The parser is where the frames are.
Shape(fs) == Around \o [i \in 1..Len(fs) |-> FrameState(fs[i])]

\* Frames that are pushed and popped.
LEMMA FrameList ==
    ASSUME NEW fs \in Seq(FrameSet)
    PROVE  /\ \A f \in FrameSet : /\ Append(fs, f) \in Seq(FrameSet) /\ Append(fs, f) # <<>>
                                  /\ Front(Append(fs, f)) = fs /\ Last(Append(fs, f)) = f
           /\ Front(fs) \in Seq(FrameSet)
           /\ fs # <<>> => Last(fs) \in FrameSet /\ fs = Append(Front(fs), Last(fs))
<1>1. ASSUME NEW f \in FrameSet
      PROVE  /\ Append(fs, f) \in Seq(FrameSet) /\ Append(fs, f) # <<>>
             /\ Front(Append(fs, f)) = fs /\ Last(Append(fs, f)) = f
  BY DEF Front, Last
<1>2. Front(fs) \in Seq(FrameSet)
  BY DEF Front
<1>3. fs # <<>> => Last(fs) \in FrameSet /\ fs = Append(Front(fs), Last(fs))
  BY DEF Front, Last
<1> QED
  BY <1>1, <1>2, <1>3

\* The parser is in one of its states.
LEMMA FrameStateIs == ASSUME NEW f \in FrameSet PROVE FrameState(f) \in States
BY DEF FrameState, States

\* A frame that is pushed pushes its state.
LEMMA ShapeIs ==
    ASSUME NEW fs \in Seq(FrameSet)
    PROVE  /\ Shape(fs) \in Stack
           /\ \A f \in FrameSet : Shape(Append(fs, f)) = Append(Shape(fs), FrameState(f))
<1> DEFINE q == [i \in 1..Len(fs) |-> FrameState(fs[i])]
           a == Around
<1>1. a \in Stack
  <2>1. "end" \in States /\ "field end" \in States
    BY DEF States
  <2>2. <<>> \in Stack /\ \A s \in Stack, x \in States : Append(s, x) \in Stack
    BY DEF Stack
  <2> QED
    BY <2>1, <2>2, Zenon DEF Around
<1>2. q \in Stack
  BY FrameStateIs DEF Stack
<1>3. ASSUME NEW f \in FrameSet PROVE Shape(Append(fs, f)) = Append(Shape(fs), FrameState(f))
  <2> DEFINE r == [i \in 1..Len(Append(fs, f)) |-> FrameState(Append(fs, f)[i])]
             x == FrameState(f)
  <2>1. x \in States
    BY FrameStateIs
  <2>2. r = Append(q, x)
    OBVIOUS
  <2>3. Shape(fs) = a \o q /\ Shape(Append(fs, f)) = a \o r
    BY DEF Shape
  <2> HIDE DEF a, q, r, x
  <2>4. a \o Append(q, x) = Append(a \o q, x)
    BY <1>1, <1>2, <2>1 DEF Stack
  <2> QED
    BY <2>2, <2>3, <2>4 DEF x
<1>4. Shape(fs) \in Stack
  <2>1. Shape(fs) = a \o q
    BY DEF Shape
  <2> HIDE DEF a, q
  <2> QED
    BY <1>1, <1>2, <2>1 DEF Stack
<1> QED
  BY <1>3, <1>4

\* Where an encoder is fits its commas: no field comes before the first, and one
\* has been written after the first of an encoder whose first is always there.
Placed(f) ==
    f.type \in Types => /\ f.pc = 1 => f.first = TRUE
                        /\ Commas(Programs[f.type]) /\ f.pc > 1 => f.first = FALSE
AllPlaced(fs) == \A i \in 1..Len(fs) : Placed(fs[i])

\* The frame after a field or an item was written.
After(f) == [f EXCEPT !.pc = @ + 1, !.first = FALSE]

\* The frame after a field was left out.
Skipped(f) == [f EXCEPT !.pc = @ + 1]

\* Frames that are pushed and popped fit their commas.
LEMMA PlacedList ==
    ASSUME NEW fs \in Seq(FrameSet)
    PROVE  /\ \A f \in FrameSet : AllPlaced(fs) /\ Placed(f) => AllPlaced(Append(fs, f))
           /\ AllPlaced(fs) => AllPlaced(Front(fs))
           /\ AllPlaced(fs) /\ fs # <<>> => Placed(Last(fs))
<1>1. ASSUME NEW f \in FrameSet, AllPlaced(fs), Placed(f) PROVE AllPlaced(Append(fs, f))
  <2>1. ASSUME NEW i \in 1..Len(Append(fs, f))
                   PROVE Append(fs, f)[i] = f \/ (i \in 1..Len(fs) /\ Append(fs, f)[i] = fs[i])
    OBVIOUS
  <2> QED
    BY <1>1, <2>1 DEF AllPlaced
<1>2. ASSUME AllPlaced(fs) PROVE AllPlaced(Front(fs))
  <2>1. ASSUME NEW i \in 1..Len(Front(fs)) PROVE i \in 1..Len(fs) /\ Front(fs)[i] = fs[i]
    BY DEF Front
  <2> QED
    BY <1>2, <2>1 DEF AllPlaced
<1>3. ASSUME AllPlaced(fs), fs # <<>> PROVE Placed(Last(fs))
  <2>1. Len(fs) \in 1..Len(fs)
    BY <1>3
  <2> QED
    BY <1>3, <2>1 DEF AllPlaced, Last
<1> QED
  BY <1>1, <1>2, <1>3

\* Frames with components in given sets.
FramesOf(A, B, C, D) == [type : A, of : B, pc : C, first : D]

\* Frames that are changed are frames.
LEMMA FrameChanged ==
    ASSUME NEW A, NEW B, NEW C, NEW D, NEW f \in FramesOf(A, B, C, D), NEW p \in C, NEW x \in D
    PROVE  [f EXCEPT !.pc = p, !.first = x] \in FramesOf(A, B, C, D) /\ [f EXCEPT !.pc = p]
               \in FramesOf(A, B, C, D)
BY DEF FramesOf

\* A frame that has written a field or an item fits its commas.
LEMMA FrameAfter ==
    ASSUME NEW f \in FrameSet
    PROVE  /\ After(f) \in FrameSet /\ Placed(After(f)) /\ Skipped(f) \in FrameSet
           /\ FrameState(After(f)) = IF f.type = "list" THEN "item end" ELSE "field end"
<1>0. f.type \in Types \cup {"list", "map"} /\ f.of \in Ofs /\ f.pc \in Nat \ {0} /\ f.first
          \in {TRUE, FALSE}
  BY DEF FrameSet
<1>1. After(f) \in FrameSet /\ Skipped(f) \in FrameSet
  <2>1. f.pc + 1 \in Nat \ {0} /\ FALSE \in {TRUE, FALSE}
    BY <1>0
  <2>2. FrameSet = FramesOf(Types \cup {"list", "map"}, Ofs, Nat \ {0}, {TRUE, FALSE})
    BY Zenon DEF FrameSet, FramesOf
  <2>3. [f EXCEPT !.pc = f.pc + 1, !.first = FALSE] \in FrameSet /\ [f EXCEPT !.pc = f.pc + 1]
            \in FrameSet
    BY <2>1, <2>2, FrameChanged, Zenon
  <2> QED
    BY <2>3, Zenon DEF After, Skipped
<1>2. After(f).type = f.type /\ After(f).pc = f.pc + 1 /\ After(f).first = FALSE
  BY DEF After, FrameSet
<1> HIDE DEF After
<1>3. After(f).pc # 1 /\ After(f).first # TRUE
  <2>1. f.pc \in Nat \ {0}
    BY <1>0
  <2>2. f.pc + 1 # 1
    BY <2>1
  <2> QED
    BY <1>2, <2>2
<1> QED
  BY <1>1, <1>2, <1>3 DEF Placed, FrameState

\* A new frame fits its commas.
LEMMA FrameNew ==
    ASSUME NEW t \in Types \cup {"list", "map"}, NEW o \in Ofs
    PROVE  /\ Frame(t, o) \in FrameSet /\ Placed(Frame(t, o))
           /\ FrameState(Frame(t, o)) = IF t = "list" THEN "array" ELSE "object"
<1>1. Frame(t, o) \in FrameSet
  BY DEF Frame, FrameSet
<1>2. Frame(t, o).type = t /\ Frame(t, o).pc = 1 /\ Frame(t, o).first = TRUE
  BY DEF Frame
<1> HIDE DEF Frame
<1>3. ~(Frame(t, o).pc > 1)
  BY <1>2
<1>4. Placed(Frame(t, o))
  BY <1>2, <1>3 DEF Placed
<1>5. FrameState(Frame(t, o)) = IF t = "list" THEN "array" ELSE "object"
  BY <1>2 DEF FrameState
<1> QED
  BY <1>1, <1>4, <1>5

\* Tokens after which a value may come, and the frame is the next one.
Leads(ts, f) ==
    /\ ts \in Seq(Token)
    /\ \E x \in DOMAIN AfterValue :
          /\ AfterValue[x] = FrameState(After(f))
          /\ \A b \in Stack : ReadTokens(Append(b, FrameState(f)), ts) = Append(b, x)

\* A value, an object or an array may come after what leads to it.
LEMMA LeadsOn ==
    ASSUME NEW f \in FrameSet, NEW ts, Leads(ts, f), NEW b \in Stack
    PROVE  /\ \A us : Valued(us) => ReadTokens(Append(b, FrameState(f)), ts \o us)
                  = Append(b, FrameState(After(f)))
           /\ ReadTokens(Append(b, FrameState(f)), ts \o <<"begin object">>)
                = Append(Append(b, FrameState(After(f))), "object")
           /\ ReadTokens(Append(b, FrameState(f)), ts \o <<"begin array">>)
                = Append(Append(b, FrameState(After(f))), "array")
<1>1. PICK x \in DOMAIN AfterValue :
        /\ AfterValue[x] = FrameState(After(f))
        /\ ReadTokens(Append(b, FrameState(f)), ts) = Append(b, x)
  BY DEF Leads
<1>2. ts \in Seq(Token) /\ Append(b, FrameState(f)) \in Stack /\ Append(b, x) \in Stack
  BY FrameStateIs, AfterValueStates, ReadTokenIs DEF Leads
<1>3. ASSUME NEW us \in Seq(Token)
      PROVE  ReadTokens(Append(b, FrameState(f)), ts \o us) = ReadTokens(Append(b, x), us)
  <2>1. ReadTokens(Append(b, FrameState(f)), ts \o us)
            = ReadTokens(ReadTokens(Append(b, FrameState(f)), ts), us)
    BY <1>2, ReadBoth, Zenon
  <2> QED
    BY <1>1, <2>1, Zenon
<1>4. ASSUME NEW us, Valued(us)
      PROVE  ReadTokens(Append(b, FrameState(f)), ts \o us) = Append(b, FrameState(After(f)))
  BY <1>1, <1>3, <1>4 DEF Valued
<1>5. ReadTokens(Append(b, FrameState(f)), ts \o <<"begin object">>)
        = Append(Append(b, FrameState(After(f))), "object")
  <2> DEFINE open == <<"begin object">>
  <2>1. open \in Seq(Token) /\ ReadTokens(Append(b, x), open) = ReadToken(Append(b, x), "begin object")
    BY <1>2, TokenSeqs, ReadOne
  <2> HIDE DEF open
  <2>2. ReadTokens(Append(b, FrameState(f)), ts \o open)
            = Append(Append(b, FrameState(After(f))), "object")
    BY <1>1, <1>3, <2>1, ReadTokenIs
  <2> QED
    BY <2>2 DEF open
<1>6. ReadTokens(Append(b, FrameState(f)), ts \o <<"begin array">>)
        = Append(Append(b, FrameState(After(f))), "array")
  <2> DEFINE open == <<"begin array">>
  <2>1. open \in Seq(Token) /\ ReadTokens(Append(b, x), open) = ReadToken(Append(b, x), "begin array")
    BY <1>2, TokenSeqs, ReadOne
  <2> HIDE DEF open
  <2>2. ReadTokens(Append(b, FrameState(f)), ts \o open)
            = Append(Append(b, FrameState(After(f))), "array")
    BY <1>1, <1>3, <2>1, ReadTokenIs
  <2> QED
    BY <2>2 DEF open
<1> QED
  BY <1>4, <1>5, <1>6

\* A key, and a comma if it is not the first.
LEMMA KeyLeads ==
    ASSUME NEW f \in FrameSet, f.type # "list"
    PROVE  Leads(Comma(f.first) \o <<"key">>, f)
<1>1. FrameState(After(f)) = "field end"
  BY FrameAfter
<1>2. CASE f.first = TRUE
  <2> DEFINE ts == <<>> \o <<"key">>
  <2>1. Comma(f.first) \o <<"key">> = ts
    BY <1>2, Zenon DEF Comma
  <2>2. ts \in Seq(Token) /\ \A b \in Stack : ReadTokens(Append(b, "object"), ts) = Append(b, "field")
    <3>1. <<>> \in Stack
      BY DEF Stack
    <3> QED
      BY <3>1, KeyRead, Zenon
  <2> HIDE DEF ts
  <2>3. FrameState(f) = "object"
    BY <1>2 DEF FrameState
  <2>4. Leads(ts, f)
    BY <1>1, <2>2, <2>3, StatesAre DEF Leads
  <2> QED
    BY <2>1, <2>4, Zenon
<1>3. CASE f.first = FALSE
  <2> DEFINE ts == <<"comma">> \o <<"key">>
  <2>1. Comma(f.first) \o <<"key">> = ts
    BY <1>3, Zenon DEF Comma
  <2>2. ts \in Seq(Token) /\ \A b \in Stack : ReadTokens(Append(b, "field end"), ts)
            = Append(b, "field")
    <3>1. <<>> \in Stack
      BY DEF Stack
    <3> QED
      BY <3>1, KeyRead, Zenon
  <2> HIDE DEF ts
  <2>3. FrameState(f) = "field end"
    BY <1>3 DEF FrameState
  <2>4. Leads(ts, f)
    BY <1>1, <2>2, <2>3, StatesAre DEF Leads
  <2> QED
    BY <2>1, <2>4, Zenon
<1>4. f.first = TRUE \/ f.first = FALSE
  BY DEF FrameSet
<1> QED
  BY <1>2, <1>3, <1>4

\* The items of a list have no keys.
LEMMA ItemLeads ==
    ASSUME NEW f \in FrameSet, f.type = "list"
    PROVE  Leads(Comma(f.first) \o <<>>, f)
<1>1. FrameState(After(f)) = "item end"
  BY FrameAfter
<1>2. CASE f.first = TRUE
  <2> DEFINE ts == <<>>
  <2>1. Comma(f.first) \o <<>> = ts
    <3>1. Comma(f.first) = <<>>
      BY <1>2, Zenon DEF Comma
    <3>2. <<>> \o <<>> = <<>>
      OBVIOUS
    <3> QED
      BY <3>1, <3>2, Zenon
  <2>2. ts \in Seq(Token) /\ \A b \in Stack : ReadTokens(Append(b, "array"), ts) = Append(b, "array")
    <3>1. \A b \in Stack : Append(b, "array") \in Stack
      BY StatesAre, ReadTokenIs
    <3>2. \A b \in Stack : ReadTokens(Append(b, "array"), <<>>) = Append(b, "array")
      BY <3>1, ReadNone, Zenon
    <3>3. ts \in Seq(Token)
      OBVIOUS
    <3> QED
      BY <3>2, <3>3, Zenon
  <2> HIDE DEF ts
  <2>3. FrameState(f) = "array"
    BY <1>2 DEF FrameState
  <2>4. Leads(ts, f)
    BY <1>1, <2>2, <2>3, StatesAre DEF Leads
  <2> QED
    BY <2>1, <2>4, Zenon
<1>3. CASE f.first = FALSE
  <2> DEFINE ts == <<"comma">>
  <2>0. ts \in Seq(Token)
    BY TokenSeqs
  <2>1. Comma(f.first) \o <<>> = ts
    <3>1. Comma(f.first) = ts
      BY <1>3, Zenon DEF Comma
    <3> HIDE DEF ts
    <3>2. ts \o <<>> = ts
      BY <2>0, ConcatEmptySeq, Zenon
    <3> QED
      BY <3>1, <3>2, Zenon
  <2>2. \A b \in Stack : ReadTokens(Append(b, "item end"), ts) = Append(b, "item")
    <3>1. \A b \in Stack : Append(b, "item end") \in Stack
      BY StatesAre, ReadTokenIs
    <3>2. \A b \in Stack : ReadTokens(Append(b, "item end"), ts)
              = ReadToken(Append(b, "item end"), "comma")
      BY <3>1, ReadOne
    <3>3. \A b \in Stack : ReadToken(Append(b, "item end"), "comma") = Append(b, "item")
      BY ReadTokenIs, Zenon
    <3> QED
      BY <3>2, <3>3, Zenon
  <2> HIDE DEF ts
  <2>3. FrameState(f) = "item end"
    BY <1>3 DEF FrameState
  <2>4. Leads(ts, f)
    BY <1>1, <2>0, <2>2, <2>3, StatesAre DEF Leads
  <2> QED
    BY <2>1, <2>4, Zenon
<1>4. f.first = TRUE \/ f.first = FALSE
  BY DEF FrameSet
<1> QED
  BY <1>2, <1>3, <1>4

-----------------------------------------------------------------------------
(* Writing the next field or item *)

\* The frames after a field or an item was written.
WrittenOf(fs) == Append(Front(fs), After(Last(fs)))

\* The field that an encoder is about to write.
LEMMA FieldIs ==
    ASSUME NEW f \in FrameSet, f.type \notin {"list", "map"}, f.pc <= Len(Programs[f.type])
    PROVE  /\ f.type \in Types /\ f.pc \in 1..Len(Programs[f.type])
           /\ Known(Programs[f.type][f.pc].value)
           /\ \/ Flags(Programs[f.type]) \/ Commas(Programs[f.type]) \/ Single(Programs[f.type])
<1>1. f.type \in Types /\ f.pc \in Nat \ {0}
  BY DEF FrameSet
<1>2. Values(Programs[f.type])
      /\ (Flags(Programs[f.type]) \/ Commas(Programs[f.type]) \/ Single(Programs[f.type]))
  BY <1>1, ProgramsRegular, ProgramsDomain DEF Regular
<1>3. f.pc \in 1..Len(Programs[f.type]) /\ Known(Programs[f.type][f.pc].value)
  BY <1>1, <1>2 DEF Values
<1> QED
  BY <1>1, <1>2, <1>3

\* What is written before a field leads to its value, whatever fields were left out:
\* the encoder puts a comma exactly if a field came before.
LEMMA PrefixLeads ==
    ASSUME frames \in Seq(FrameSet), AllPlaced(frames), InObject
    PROVE  Leads(Prefix, Top) /\ Top \in FrameSet /\ Known(Op.value)
<1> DEFINE f == Top
           p == Programs[Top.type]
<1>1. f \in FrameSet /\ Placed(f) /\ f.type \notin {"list", "map"} /\ f.pc <= Len(p)
  <2>1. frames # <<>> /\ ~IsLoop(Top) /\ Top.pc <= Len(Programs[Top.type])
    BY Zenon DEF InObject, Running
  <2>2. Top \in FrameSet /\ Placed(Top)
    BY <2>1, FrameList, PlacedList, Zenon DEF Top
  <2> QED
    BY <2>1, <2>2, Zenon DEF IsLoop
<1>2. /\ f.type \in Types /\ f.pc \in 1..Len(p) /\ Known(p[f.pc].value)
      /\ \/ Flags(p) \/ Commas(p) \/ Single(p)
  BY <1>1, FieldIs, Zenon
<1>3. Op = p[f.pc]
  BY Zenon DEF Op
<1>4. Prefix = (CASE Op.lead = "none"  -> <<>>
                  [] Op.lead = "comma" -> <<"comma">>
                  [] Op.lead = "flag"  -> Comma(f.first)) \o <<"key">>
  BY Zenon DEF Prefix
<1> HIDE DEF f, p
<1>5. CASE Op.lead = "flag"
  <2>1. Prefix = Comma(f.first) \o <<"key">>
    BY <1>4, <1>5
  <2> QED
    BY <1>1, <1>2, <1>3, <2>1, KeyLeads, Zenon DEF f
<1>6. CASE Op.lead = "none" /\ f.first = TRUE
  <2>1. Prefix = <<>> \o <<"key">>
    BY <1>4, <1>6
  <2>2. Comma(f.first) = <<>>
    BY <1>6, Zenon DEF Comma
  <2>3. f.type # "list"
    BY <1>1
  <2> QED
    BY <1>1, <1>2, <1>3, <2>1, <2>2, <2>3, KeyLeads, Zenon DEF f
<1>7. CASE Op.lead = "comma" /\ f.first = FALSE
  <2>1. Prefix = <<"comma">> \o <<"key">>
    BY <1>4, <1>7
  <2>2. Comma(f.first) = <<"comma">>
    BY <1>7, Zenon DEF Comma
  <2>3. f.type # "list"
    BY <1>1
  <2> QED
    BY <1>1, <1>2, <1>3, <2>1, <2>2, <2>3, KeyLeads, Zenon DEF f
<1>8. Op.lead = "flag" \/ (Op.lead = "none" /\ f.first = TRUE) \/ (Op.lead = "comma" /\ f.first = FALSE)
  <2>1. CASE Flags(p)
    BY <2>1, <1>2, <1>3 DEF Flags
  <2>2. CASE Commas(p)
    <3>1. CASE f.pc = 1
      BY <2>2, <3>1, <1>1, <1>2, <1>3 DEF Commas, Placed
    <3>2. CASE f.pc # 1
      <4>1. f.pc > 1 /\ f.pc \in 2..Len(p)
        BY <3>2, <1>2
      <4>2. f.first = FALSE
        BY <4>1, <2>2, <1>1, <1>2 DEF Placed, p, f
      <4> QED
        BY <2>2, <4>1, <4>2, <1>3 DEF Commas
    <3> QED
      BY <3>1, <3>2
  <2>3. CASE Single(p)
    BY <2>3, <1>1, <1>2, <1>3 DEF Single, Placed
  <2> QED
    BY <2>1, <2>2, <2>3, <1>2
<1> QED
  BY <1>1, <1>2, <1>3, <1>5, <1>6, <1>7, <1>8, Zenon DEF f

\* What is written before an item leads to it.
LEMMA ItemPrefixLeads ==
    ASSUME frames \in Seq(FrameSet), Running, IsLoop(Top)
    PROVE  Leads(ItemPrefix, Top) /\ Top \in FrameSet
<1>1. Top \in FrameSet
  BY FrameList, Zenon DEF Top, Running
<1>2. CASE Top.type = "map"
  <2>1. ItemPrefix = Comma(Top.first) \o <<"key">>
    BY <1>2, Zenon DEF ItemPrefix
  <2>2. Top.type # "list"
    BY <1>2
  <2> QED
    BY <1>1, <2>1, <2>2, KeyLeads, Zenon
<1>3. CASE Top.type = "list"
  <2>1. Top.type # "map"
    BY <1>3
  <2>2. ItemPrefix = Comma(Top.first) \o <<>>
    BY <2>1, Zenon DEF ItemPrefix
  <2> QED
    BY <1>1, <1>3, <2>2, ItemLeads, Zenon
<1> QED
  BY <1>1, <1>2, <1>3 DEF IsLoop

\* What is written after tokens that lead to a value.
LEMMA WrittenRead ==
    ASSUME NEW fs \in Seq(FrameSet), fs # <<>>, AllPlaced(fs), NEW ts, Leads(ts, Last(fs))
    PROVE  /\ WrittenOf(fs) \in Seq(FrameSet) /\ AllPlaced(WrittenOf(fs))
           /\ \A us : Valued(us) => ReadTokens(Shape(fs), ts \o us) = Shape(WrittenOf(fs))
           /\ \A t \in Types \cup {"list", "map"} : \A o \in Ofs :
                /\ Append(WrittenOf(fs), Frame(t, o)) \in Seq(FrameSet)
                /\ AllPlaced(Append(WrittenOf(fs), Frame(t, o)))
                /\ ReadTokens(Shape(fs),
                       ts \o (IF t = "list" THEN <<"begin array">> ELSE <<"begin object">>))
                     = Shape(Append(WrittenOf(fs), Frame(t, o)))
<1> DEFINE f == Last(fs)
           b == Shape(Front(fs))
           ws == WrittenOf(fs)
<1>1. f \in FrameSet /\ fs = Append(Front(fs), f) /\ Front(fs) \in Seq(FrameSet) /\ AllPlaced(Front(fs))
  BY FrameList, PlacedList, Zenon
<1>2. After(f) \in FrameSet /\ Placed(After(f))
  BY <1>1, FrameAfter, Zenon
<1>3. ws \in Seq(FrameSet) /\ AllPlaced(ws)
  BY <1>1, <1>2, FrameList, PlacedList, Zenon DEF WrittenOf
<1>4. b \in Stack /\ Shape(fs) = Append(b, FrameState(f)) /\ Shape(ws) = Append(b, FrameState(After(f)))
  BY <1>1, <1>2, ShapeIs, Zenon DEF WrittenOf
<1>5. /\ \A us : Valued(us) => ReadTokens(Shape(fs), ts \o us) = Shape(ws)
      /\ ReadTokens(Shape(fs), ts \o <<"begin object">>) = Append(Shape(ws), "object")
      /\ ReadTokens(Shape(fs), ts \o <<"begin array">>) = Append(Shape(ws), "array")
  <2>1. Leads(ts, f)
    OBVIOUS
  <2> HIDE DEF f, b, ws
  <2>2. /\ \A us : Valued(us) => ReadTokens(Append(b, FrameState(f)), ts \o us)
               = Append(b, FrameState(After(f)))
        /\ ReadTokens(Append(b, FrameState(f)), ts \o <<"begin object">>)
             = Append(Append(b, FrameState(After(f))), "object")
        /\ ReadTokens(Append(b, FrameState(f)), ts \o <<"begin array">>)
             = Append(Append(b, FrameState(After(f))), "array")
    BY <1>1, <1>4, <2>1, LeadsOn
  <2> QED
    BY <1>4, <2>2, Zenon
<1> HIDE DEF f, b, ws
<1>6. ASSUME NEW t \in Types \cup {"list", "map"}, NEW o \in Ofs
      PROVE  /\ Append(ws, Frame(t, o)) \in Seq(FrameSet)
             /\ AllPlaced(Append(ws, Frame(t, o)))
             /\ ReadTokens(Shape(fs),
                    ts \o (IF t = "list" THEN <<"begin array">> ELSE <<"begin object">>))
                     = Shape(Append(ws, Frame(t, o)))
  <2>1. Frame(t, o) \in FrameSet /\ Placed(Frame(t, o))
        /\ FrameState(Frame(t, o)) = IF t = "list" THEN "array" ELSE "object"
    BY FrameNew, Zenon
  <2>2. Append(ws, Frame(t, o)) \in Seq(FrameSet) /\ AllPlaced(Append(ws, Frame(t, o)))
        /\ Shape(Append(ws, Frame(t, o))) = Append(Shape(ws), FrameState(Frame(t, o)))
    BY <1>3, <2>1, FrameList, PlacedList, ShapeIs, Zenon
  <2>3. CASE t = "list"
    BY <2>1, <2>2, <2>3, <1>5, Zenon
  <2>4. CASE t # "list"
    BY <2>1, <2>2, <2>4, <1>5, Zenon
  <2> QED
    BY <2>2, <2>3, <2>4, Zenon
<1> QED
  BY <1>3, <1>5, <1>6, Zenon DEF ws

-----------------------------------------------------------------------------
(* The encoder *)

\* The parser's stack while no encoder has returned an error.
Expected(p, fs) == IF p = "idle" THEN <<"document">> ELSE IF p
      = "encoding" THEN Shape(fs) ELSE <<"end">>

\* The leaf is a value of its type.
LeafKnown(l) == l = NoLeaf \/ \E t \in LeafTypes : \E v \in LeafValues[t] : l
      = [type |-> t, value |-> v]

\* The inductive invariant behind EncodingFaithful: while no encoder has returned an
\* error, the parser is where the frames are, and every frame fits its commas.
EncInv ==
    /\ phase \in {"idle", "encoding", "written"}
    /\ frames \in Seq(FrameSet) /\ AllPlaced(frames)
    /\ frames # <<>> => phase = "encoding"
    /\ encodeFailed \in {TRUE, FALSE}
    /\ encodeFailed = FALSE => json = Expected(phase, frames)
    /\ LeafKnown(leaf)

\* Nothing is left of the event but the object around it.
LEMMA NoFrames ==
    /\ <<>> \in Seq(FrameSet) /\ AllPlaced(<<>>)
    /\ Shape(<<>>) = Append(Append(<<>>, "end"), "field end")
<1> DEFINE q == [i \in 1..Len(<<>>) |-> FrameState(<<>>[i])]
           e == <<>>
<1>1. e \in Seq(FrameSet) /\ AllPlaced(e)
  BY DEF AllPlaced
<1>2. q = e
  OBVIOUS
<1>3. Shape(<<>>) = Around \o q
  BY DEF Shape
<1> HIDE DEF q
<1>4. Around \in Stack
  <2>1. "end" \in States /\ "field end" \in States
    BY DEF States
  <2>2. <<>> \in Stack /\ \A s \in Stack, x \in States : Append(s, x) \in Stack
    BY DEF Stack
  <2> QED
    BY <2>1, <2>2, Zenon DEF Around
<1> HIDE DEF e
<1>5. Around \o e = Around
  <2> DEFINE a == Around
  <2>1. a \in Stack
    BY <1>4, Zenon
  <2> HIDE DEF a
  <2>2. a \o <<>> = a
    BY <2>1, ConcatEmptySeq DEF Stack
  <2> QED
    BY <2>2, Zenon DEF a, e
<1> QED
  BY <1>1, <1>2, <1>3, <1>5, Zenon DEF Around, e

\* The object around an event.
LEMMA BlockRead ==
    /\ \A f \in FrameSet : FrameState(f) = "object" =>
          ReadTokens(<<"document">>, <<"begin object", "key", "begin object">>) = Shape(Append(<<>>, f))
    /\ ReadTokens(Shape(<<>>), <<"end object">>) = <<"end">>
<1> DEFINE e == <<>>
           ts == <<"begin object", "key", "begin object">>
           document == <<"document">>
           ended == <<"end">>
           end == <<"end object">>
<1>1. Len(ts) = 3 /\ ts[1] = "begin object" /\ ts[2] = "key" /\ ts[3] = "begin object"
  OBVIOUS
<1>2. e \in Stack /\ Append(e, "document") = document /\ Append(e, "end") = ended
  BY DEF Stack
<1>3. \A s \in Stack : ReadTokens(s, end) = ReadToken(s, "end object")
  BY ReadOne
<1>4. {"document", "end", "object", "field", "field end"} \subseteq States
  BY DEF States
<1>5. /\ "document" \in DOMAIN AfterValue /\ AfterValue["document"] = "end"
      /\ "field" \in DOMAIN AfterValue /\ AfterValue["field"] = "field end"
  BY DEF AfterValue
<1> HIDE DEF ts, document, ended, end
<1>6. Shape(e) = Append(Append(e, "end"), "field end") /\ e \in Seq(FrameSet)
  BY NoFrames, Zenon
<1>7. \A f \in FrameSet : Shape(Append(e, f)) = Append(Shape(e), FrameState(f))
  BY <1>6, ShapeIs, Zenon
<1> HIDE DEF e
<1> DEFINE doc == Append(e, "end")
<1>8. doc \in Stack /\ Append(e, "document") \in Stack /\ Append(doc, "field end") \in Stack
  BY <1>2, <1>4, ReadTokenIs
<1>9. /\ ReadToken(Append(e, "document"), "begin object") = Append(doc, "object")
      /\ ReadToken(Append(doc, "object"), "key") = Append(doc, "field")
      /\ ReadToken(Append(doc, "field"), "begin object") = Append(Append(doc, "field end"), "object")
      /\ ReadToken(Append(doc, "field end"), "end object") = doc
  <2>1. "object" \in {"object", "next field"} /\ "field end" \in {"object", "field end"}
    OBVIOUS
  <2>2. ReadToken(Append(e, "document"), "begin object")
            = Append(Append(e, AfterValue["document"]), "object")
    BY <1>2, <1>5, ReadTokenIs, Zenon
  <2>3. ReadToken(Append(doc, "field"), "begin object")
            = Append(Append(doc, AfterValue["field"]), "object")
    BY <1>5, <1>8, ReadTokenIs, Zenon
  <2>4. ReadToken(Append(doc, "object"), "key") = Append(doc, "field")
    BY <2>1, <1>8, ReadTokenIs, Zenon
  <2>5. ReadToken(Append(doc, "field end"), "end object") = doc
    BY <2>1, <1>8, ReadTokenIs, Zenon
  <2> QED
    BY <1>5, <2>2, <2>3, <2>4, <2>5, Zenon
<1>10. ReadTokens(Append(e, "document"), ts) = Append(Append(doc, "field end"), "object")
  <2>1. ReadTokens(Append(e, "document"), ts)
          = ReadToken(ReadToken(ReadToken(Append(e, "document"), ts[1]), ts[2]), ts[3])
    BY <1>1, <1>8, ReadThree, Zenon
  <2> QED
    BY <2>1, <1>1, <1>9, Zenon
<1>11. ASSUME NEW f \in FrameSet, FrameState(f) = "object"
       PROVE  ReadTokens(document, ts) = Shape(Append(e, f))
  BY <1>2, <1>6, <1>7, <1>10, <1>11, Zenon
<1>12. ReadTokens(Shape(e), end) = ended
  BY <1>2, <1>3, <1>6, <1>8, <1>9, Zenon
<1> QED
  BY <1>11, <1>12, Zenon DEF e, ts, document, end, ended

\* The writer begins with an empty document.
LEMMA EncInitInv == EncInit => EncInv
<1> SUFFICES ASSUME EncInit PROVE EncInv
  OBVIOUS
<1>1. phase = "idle" /\ frames = <<>> /\ json = <<"document">> /\ encodeFailed = FALSE /\ leaf = NoLeaf
  BY Zenon DEF EncInit
<1>2. json = Expected(phase, frames)
  BY <1>1, Zenon DEF Expected
<1>3. frames \in Seq(FrameSet) /\ AllPlaced(frames) /\ LeafKnown(leaf)
  BY <1>1, NoFrames, Zenon DEF LeafKnown
<1> QED
  BY <1>1, <1>2, <1>3 DEF EncInv

\* The object around an event is begun.
LEMMA WriteEventInv == ASSUME EncInv, NEW tag \in DOMAIN EventType, WriteEvent(tag) PROVE EncInv'
<1> DEFINE f == Frame(EventType[tag], "none")
<1>1. /\ phase = "idle" /\ phase' = "encoding" /\ frames' = <<f>> /\ encodeFailed' = encodeFailed
             /\ leaf' = leaf
      /\ json' = ReadTokens(json, <<"begin object", "key", "begin object">>)
  BY Zenon DEF WriteEvent, Output
<1>2. EventType[tag] \in Types /\ EventType[tag] # "list"
  BY DEF EventType, Types
<1>3. f \in FrameSet /\ Placed(f) /\ FrameState(f) = "object"
  <2>1. "none" \in Ofs
    BY DEF Ofs
  <2> QED
    BY <1>2, <2>1, FrameNew
<1> HIDE DEF f
<1>4. <<f>> = Append(<<>>, f)
  OBVIOUS
<1>5. Append(<<>>, f) \in Seq(FrameSet) /\ AllPlaced(Append(<<>>, f))
  BY <1>3, NoFrames, FrameList, PlacedList, Zenon
<1>6. ASSUME encodeFailed' = FALSE PROVE json' = Expected(phase', frames')
  <2>1. json = <<"document">>
    BY <1>1, <1>6, Zenon DEF EncInv, Expected
  <2>2. json' = Shape(Append(<<>>, f))
    BY <1>1, <1>3, <2>1, BlockRead, Zenon
  <2>3. phase' # "idle"
    BY <1>1
  <2> QED
    BY <1>1, <1>4, <2>2, <2>3, Zenon DEF Expected
<1>7. frames' \in Seq(FrameSet) /\ AllPlaced(frames)'
  BY <1>1, <1>4, <1>5, Zenon
<1>8. phase' = "encoding" /\ encodeFailed' \in {TRUE, FALSE} /\ LeafKnown(leaf)'
  BY <1>1, Zenon DEF EncInv
<1> QED
  BY <1>6, <1>7, <1>8 DEF EncInv

\* What the object's encoder is about to write, and where it goes on.
LEMMA RunningIs ==
    ASSUME EncInv, Running
    PROVE  /\ Top \in FrameSet /\ Placed(Top) /\ phase = "encoding" /\ Written = WrittenOf(frames)
           /\ Front(frames) \in Seq(FrameSet) /\ AllPlaced(Front(frames)) /\ Shape(Front(frames))
                  \in Stack
           /\ frames = Append(Front(frames), Top)
           /\ frames \in Seq(FrameSet) /\ AllPlaced(frames) /\ frames # <<>>
           /\ \A fs : Expected("encoding", fs) = Shape(fs)
<1>1. frames # <<>> /\ frames \in Seq(FrameSet) /\ AllPlaced(frames) /\ phase = "encoding"
  BY Zenon DEF EncInv, Running
<1>2. Top \in FrameSet /\ Placed(Top) /\ frames = Append(Front(frames), Top)
      /\ Front(frames) \in Seq(FrameSet) /\ AllPlaced(Front(frames))
  BY <1>1, FrameList, PlacedList, Zenon DEF Top
<1>3. Shape(Front(frames)) \in Stack
  BY <1>2, ShapeIs, Zenon
<1>4. Written = WrittenOf(frames)
  BY Zenon DEF Written, WrittenOf, Top, After
<1>5. \A fs : Expected("encoding", fs) = Shape(fs)
  <2>1. "encoding" # "idle"
    OBVIOUS
  <2> QED
    BY <2>1, Zenon DEF Expected
<1> QED
  BY <1>1, <1>2, <1>3, <1>4, <1>5, Zenon

\* The steps of an encoder: what they have to show.
LEMMA EncStep ==
    ASSUME EncInv, Running, phase' = phase, frames' \in Seq(FrameSet), AllPlaced(frames'),
           encodeFailed' \in {TRUE, FALSE},
           encodeFailed' = FALSE => encodeFailed = FALSE,
           encodeFailed' = FALSE /\ json = Shape(frames) => json' = Shape(frames'),
           LeafKnown(leaf')
    PROVE  EncInv'
<1>1. phase = "encoding" /\ \A fs : Expected("encoding", fs) = Shape(fs)
  BY RunningIs, Zenon
<1>2. encodeFailed = FALSE => json = Shape(frames)
  BY <1>1, Zenon DEF EncInv
<1>3. encodeFailed' = FALSE => json' = Expected(phase', frames')
  BY <1>1, <1>2, Zenon
<1>4. phase' = "encoding"
  BY <1>1, Zenon
<1> QED
  BY <1>3, <1>4 DEF EncInv

\* No leaf was written.
LEMMA LeafNone == LeafKnown(NoLeaf)
BY Zenon DEF LeafKnown

\* An object is written by a frame.
LEMMA ObjectRunning == InObject => Running
BY Zenon DEF InObject

\* A field that is left out writes nothing, and was not the first of an encoder whose
\* first is always there.
LEMMA OmitFieldInv == ASSUME EncInv, OmitField PROVE EncInv'
<1>1. /\ InObject /\ Op.omit
      /\ frames' = Append(Front(frames), Skipped(Top)) /\ leaf' = NoLeaf
      /\ json' = json /\ encodeFailed' = encodeFailed /\ phase' = phase
  BY Zenon DEF OmitField, Skipped
<1>2. Running
  BY <1>1, ObjectRunning, Zenon
<1> DEFINE f == Top
           g == Skipped(f)
           p == Programs[Top.type]
<1>3. /\ f \in FrameSet /\ Placed(f) /\ Front(frames) \in Seq(FrameSet) /\ AllPlaced(Front(frames))
      /\ frames = Append(Front(frames), f)
  BY <1>2, RunningIs, Zenon
<1>4. f.type \notin {"list", "map"} /\ f.pc <= Len(p)
  BY <1>1, Zenon DEF InObject, IsLoop
<1>5. /\ f.type \in Types /\ f.pc \in 1..Len(p)
      /\ \/ Flags(p) \/ Commas(p) \/ Single(p)
  BY <1>3, <1>4, FieldIs, Zenon
<1>6. Op = p[f.pc]
  BY Zenon DEF Op
<1>7. g \in FrameSet
  BY <1>3, FrameAfter, Zenon
<1>8. g.type = f.type /\ g.pc = f.pc + 1 /\ g.first = f.first
  BY <1>3 DEF Skipped, FrameSet
<1> HIDE DEF f, g
<1>9. ASSUME Commas(p) PROVE f.first = FALSE
  <2>1. f.pc # 1
    <3>1. p[1].omit = FALSE
      BY <1>9, Zenon DEF Commas
    <3>2. ASSUME f.pc = 1 PROVE FALSE
      BY <1>1, <1>6, <3>1, <3>2, Zenon
    <3> QED
      BY <3>2
  <2>2. f.pc > 1
    BY <1>5, <2>1
  <2> QED
    BY <1>3, <1>5, <1>9, <2>2 DEF Placed, f
<1>10. Placed(g)
  <2>1. g.pc # 1
    BY <1>5, <1>8
  <2>2. ASSUME Commas(Programs[g.type]) PROVE g.first = FALSE
    BY <1>8, <1>9, <2>2, Zenon DEF f
  <2> QED
    BY <2>1, <2>2 DEF Placed
<1>11. FrameState(g) = FrameState(f)
  BY <1>8, Zenon DEF FrameState
<1>12. /\ Append(Front(frames), g) \in Seq(FrameSet) /\ AllPlaced(Append(Front(frames), g))
       /\ Shape(Append(Front(frames), g)) = Append(Shape(Front(frames)), FrameState(g))
       /\ Shape(Append(Front(frames), f)) = Append(Shape(Front(frames)), FrameState(f))
  BY <1>3, <1>7, <1>10, FrameList, PlacedList, ShapeIs, Zenon
<1>13. frames' = Append(Front(frames), g)
  BY <1>1, Zenon DEF f, g
<1>14. frames' \in Seq(FrameSet) /\ AllPlaced(frames') /\ Shape(frames') = Shape(frames)
  BY <1>3, <1>11, <1>12, <1>13, Zenon
<1>15. LeafKnown(leaf') /\ encodeFailed' \in {TRUE, FALSE}
  BY <1>1, LeafNone, Zenon DEF EncInv
<1> QED
  BY <1>1, <1>2, <1>14, <1>15, EncStep, Zenon

\* A value after what leads to it.
LEMMA ValueInv ==
    ASSUME EncInv, Running, phase' = phase, NEW ts, Leads(ts, Top), NEW us,
               Valued(us) \/ encodeFailed' = TRUE,
           frames' = Written, json' = ReadTokens(json, ts \o us), LeafKnown(leaf'),
           encodeFailed' \in {TRUE, FALSE}, encodeFailed' = FALSE => encodeFailed = FALSE
    PROVE  EncInv'
<1>1. /\ Written = WrittenOf(frames) /\ frames \in Seq(FrameSet) /\ AllPlaced(frames) /\ frames # <<>>
  BY RunningIs, Zenon
<1>2. /\ WrittenOf(frames) \in Seq(FrameSet) /\ AllPlaced(WrittenOf(frames))
      /\ Valued(us) => ReadTokens(Shape(frames), ts \o us) = Shape(WrittenOf(frames))
  BY <1>1, WrittenRead, Zenon DEF Top
<1>3. TRUE # FALSE
  OBVIOUS
<1>4. encodeFailed' = FALSE /\ json = Shape(frames) => json' = Shape(frames')
  BY <1>1, <1>2, <1>3, Zenon
<1> QED
  BY <1>1, <1>2, <1>4, EncStep, Zenon

\* The beginning of an object or an array after what leads to it.
LEMMA BeginInv ==
    ASSUME EncInv, Running, phase' = phase, NEW ts, Leads(ts, Top),
           NEW t \in Types \cup {"list", "map"}, NEW o \in Ofs,
           frames' = Append(Written, Frame(t, o)), encodeFailed' = encodeFailed, leaf' = NoLeaf,
           json' = ReadTokens(json,
                 ts \o (IF t = "list" THEN <<"begin array">> ELSE <<"begin object">>))
    PROVE  EncInv'
<1>1. /\ Written = WrittenOf(frames) /\ frames \in Seq(FrameSet) /\ AllPlaced(frames) /\ frames # <<>>
  BY RunningIs, Zenon
<1>2. /\ Append(WrittenOf(frames), Frame(t, o)) \in Seq(FrameSet)
      /\ AllPlaced(Append(WrittenOf(frames), Frame(t, o)))
      /\ ReadTokens(Shape(frames), ts \o (IF t = "list" THEN <<"begin array">> ELSE <<"begin object">>))
           = Shape(Append(WrittenOf(frames), Frame(t, o)))
  BY <1>1, WrittenRead, Zenon DEF Top
<1>3. LeafKnown(leaf') /\ encodeFailed' \in {TRUE, FALSE}
  BY LeafNone, Zenon DEF EncInv
<1> QED
  BY <1>1, <1>2, <1>3, EncStep, Zenon

\* An encoder that returns an error, and what it has called.
LEMMA FailedInv ==
    ASSUME EncInv, Running, phase' = phase, encodeFailed' = TRUE, leaf' = NoLeaf,
           frames' \in {Front(frames), Front(Front(frames))}
    PROVE  EncInv'
<1>1. Front(frames) \in Seq(FrameSet) /\ AllPlaced(Front(frames))
  BY RunningIs, Zenon
<1>2. Front(Front(frames)) \in Seq(FrameSet) /\ AllPlaced(Front(Front(frames)))
  BY <1>1, FrameList, PlacedList, Zenon
<1>3. frames' \in Seq(FrameSet) /\ AllPlaced(frames')
  BY <1>1, <1>2, Zenon
<1>4. TRUE # FALSE
  OBVIOUS
<1>5. encodeFailed' # FALSE /\ encodeFailed' \in {TRUE, FALSE}
  BY <1>4, Zenon
<1> QED
  BY <1>3, <1>5, EncStep, LeafNone, Zenon

\* The end of an object or an array is where it may come.
LEMMA CloseInv == ASSUME EncInv, Close PROVE EncInv'
<1>1. /\ Running /\ frames' = Front(frames) /\ leaf' = NoLeaf /\ encodeFailed' = encodeFailed
             /\ phase' = phase
      /\ json' = ReadTokens(json, IF Top.type = "list" THEN <<"end array">> ELSE <<"end object">>)
  BY Zenon DEF Close, Output
<1> DEFINE b == Shape(Front(frames))
           x == FrameState(Top)
           array == <<"end array">>
           object == <<"end object">>
<1>2. /\ Top \in FrameSet /\ Front(frames) \in Seq(FrameSet) /\ AllPlaced(Front(frames)) /\ b \in Stack
      /\ frames = Append(Front(frames), Top)
  BY <1>1, RunningIs, Zenon
<1>3. Shape(frames) = Append(b, x)
  BY <1>2, ShapeIs, Zenon
<1>4. IF Top.type = "list" THEN x \in {"array", "item end"} ELSE x \in {"object", "field end"}
  BY DEF FrameState
<1>5. x \in States /\ Append(b, x) \in Stack
  BY <1>2, FrameStateIs, ReadTokenIs
<1>6. ReadTokens(Append(b, x), array) = ReadToken(Append(b, x), "end array")
      /\ ReadTokens(Append(b, x), object) = ReadToken(Append(b, x), "end object")
  BY <1>5, ReadOne
<1> HIDE DEF b, x, array, object
<1>7. CASE Top.type = "list"
  <2>1. ReadTokens(Append(b, x), array) = b
    BY <1>2, <1>4, <1>6, <1>7, ReadTokenIs, Zenon
  <2>2. json' = ReadTokens(json, array)
    BY <1>1, <1>7, Zenon DEF array
  <2>3. json = Shape(frames) => json' = Shape(frames')
    BY <1>1, <1>3, <2>1, <2>2, Zenon DEF b
  <2> QED
    BY <1>1, <1>2, <2>3, EncStep, LeafNone, Zenon DEF EncInv
<1>8. CASE Top.type # "list"
  <2>1. ReadTokens(Append(b, x), object) = b
    BY <1>2, <1>4, <1>6, <1>8, ReadTokenIs, Zenon
  <2>2. json' = ReadTokens(json, object)
    BY <1>1, <1>8, Zenon DEF object
  <2>3. json = Shape(frames) => json' = Shape(frames')
    BY <1>1, <1>3, <2>1, <2>2, Zenon DEF b
  <2> QED
    BY <1>1, <1>2, <2>3, EncStep, LeafNone, Zenon DEF EncInv
<1> QED
  BY <1>7, <1>8

\* What the current field is about.
LEMMA OfsAre == ASSUME EncInv, InObject PROVE Op.value.of \in Ofs /\ "none" \in Ofs
<1>1. Running /\ ~IsLoop(Top) /\ Top.pc <= Len(Programs[Top.type])
  BY Zenon DEF InObject
<1>2. Top \in FrameSet /\ Top.type \notin {"list", "map"}
  BY <1>1, RunningIs, Zenon DEF IsLoop
<1>3. Top.type \in Types /\ Top.pc \in Nat
  BY <1>2 DEF FrameSet
<1> DEFINE t == Top.type
           i == Top.pc
<1>4. Op.value.of = Programs[t][i].value.of
  BY Zenon DEF Op
<1> HIDE DEF t, i
<1>5. Programs[t][i].value.of \in Ofs
  BY <1>3 DEF Ofs, t, i
<1>6. "none" \in Ofs
  BY DEF Ofs
<1> QED
  BY <1>4, <1>5, <1>6, Zenon

\* What is written before the current field leads to its value.
LEMMA InObjectLeads == ASSUME EncInv, InObject PROVE Running /\ Leads(Prefix, Top) /\ Known(Op.value)
<1>1. frames \in Seq(FrameSet) /\ AllPlaced(frames)
  BY Zenon DEF EncInv
<1> QED
  BY <1>1, ObjectRunning, PrefixLeads, Zenon

\* An error that was returned is not forgotten.
LEMMA FailedStays ==
    ASSUME EncInv
    PROVE  /\ encodeFailed \in {TRUE, FALSE}
           /\ encodeFailed' = encodeFailed => encodeFailed' \in {TRUE, FALSE}
                  /\ (encodeFailed' = FALSE => encodeFailed = FALSE)
BY Zenon DEF EncInv

\* The steps of an encoder preserve the invariant, action by action.
LEMMA ScalarFieldInv == ASSUME EncInv, ScalarField PROVE EncInv'
<1>1. /\ InObject /\ frames' = Written /\ json' = ReadTokens(json, Prefix \o <<"value">>) /\ leaf'
             = NoLeaf
      /\ encodeFailed' = encodeFailed /\ phase' = phase
  BY Zenon DEF ScalarField, Output
<1>2. Running /\ Leads(Prefix, Top)
  BY <1>1, InObjectLeads, Zenon
<1>3. LeafKnown(leaf') /\ encodeFailed' \in {TRUE, FALSE}
          /\ (encodeFailed' = FALSE => encodeFailed = FALSE)
  BY <1>1, LeafNone, FailedStays, Zenon
<1> QED
  BY <1>1, <1>2, <1>3, ScalarValued, ValueInv, Zenon

LEMMA BadFloatFieldInv == ASSUME EncInv, BadFloatField PROVE EncInv'
<1>1. /\ InObject /\ frames' = Front(frames) /\ encodeFailed' = TRUE /\ leaf' = NoLeaf /\ phase' = phase
  BY Zenon DEF BadFloatField
<1>2. frames' \in {Front(frames), Front(Front(frames))}
  BY <1>1, Zenon
<1> QED
  BY <1>1, <1>2, ObjectRunning, FailedInv, Zenon

LEMMA ObjectFieldInv == ASSUME EncInv, ObjectField PROVE EncInv'
<1> DEFINE t == Op.value.of
<1>1. /\ InObject /\ Op.value.form = "object" /\ frames' = Append(Written, Frame(t, "none"))
      /\ json' = ReadTokens(json, Prefix \o <<"begin object">>) /\ leaf' = NoLeaf
      /\ encodeFailed' = encodeFailed /\ phase' = phase
  BY Zenon DEF ObjectField, Output
<1>2. Running /\ Leads(Prefix, Top) /\ Known(Op.value)
  BY <1>1, InObjectLeads, Zenon
<1>3. t \in Types /\ "none" \in Ofs
  BY <1>1, <1>2, OfsAre, Zenon DEF Known
<1> HIDE DEF t
<1>4. t # "list" /\ t \in Types \cup {"list", "map"}
  BY <1>3 DEF Types
<1>5. json' = ReadTokens(json, Prefix \o (IF t = "list" THEN <<"begin array">> ELSE <<"begin object">>))
  BY <1>1, <1>4, Zenon
<1> QED
  BY <1>1, <1>2, <1>3, <1>4, <1>5, BeginInv, Zenon

LEMMA LoopFieldInv == ASSUME EncInv, LoopField PROVE EncInv'
<1> DEFINE t == Op.value.form
           o == Op.value.of
<1>1. /\ InObject /\ t \in {"list", "map"} /\ frames' = Append(Written, Frame(t, o))
      /\ json' = ReadTokens(json,
             Prefix \o (IF t = "list" THEN <<"begin array">> ELSE <<"begin object">>))
      /\ leaf' = NoLeaf /\ encodeFailed' = encodeFailed /\ phase' = phase
  BY Zenon DEF LoopField, Output
<1>2. Running /\ Leads(Prefix, Top)
  BY <1>1, InObjectLeads, Zenon
<1>3. o \in Ofs
  BY <1>1, OfsAre, Zenon
<1> HIDE DEF t, o
<1>4. t \in Types \cup {"list", "map"}
  BY <1>1
<1> QED
  BY <1>1, <1>2, <1>3, <1>4, BeginInv, Zenon

LEMMA LeafFieldInv == ASSUME ~OddSchemes, EncInv, LeafField PROVE EncInv'
<1> DEFINE t == Op.value.of
<1>1. PICK v \in LeafValues[t] :
        /\ InObject /\ Op.value.form = "leaf" /\ frames' = Written
        /\ json' = ReadTokens(json, Prefix \o LeafTokens(t, v)) /\ leaf' = [type |-> t, value |-> v]
        /\ encodeFailed' = (encodeFailed \/ IsOdd(t, v)) /\ phase' = phase
  BY Zenon DEF LeafField, Output
<1>2. Running /\ Leads(Prefix, Top) /\ Known(Op.value)
  BY <1>1, InObjectLeads, Zenon
<1>3. t \in LeafTypes
  BY <1>1, <1>2, Zenon DEF Known
<1> HIDE DEF t
<1>4. LeafKnown(leaf')
  BY <1>1, <1>3, Zenon DEF LeafKnown
<1>5. CASE IsOdd(t, v)
  <2>1. encodeFailed' = TRUE
    BY <1>1, <1>5, Zenon
  <2>2. encodeFailed' \in {TRUE, FALSE} /\ encodeFailed' # FALSE
    BY <2>1
  <2> QED
    BY <1>1, <1>2, <1>4, <2>1, <2>2, ValueInv, Zenon
<1>6. CASE ~IsOdd(t, v)
  <2>1. Valued(LeafTokens(t, v))
    BY <1>3, <1>6, LeafValued, Zenon
  <2>2. encodeFailed' = encodeFailed
    <3>1. encodeFailed \in {TRUE, FALSE}
      BY FailedStays, Zenon
    <3> QED
      BY <1>1, <1>6, <3>1, Zenon
  <2>3. encodeFailed' \in {TRUE, FALSE} /\ (encodeFailed' = FALSE => encodeFailed = FALSE)
    BY <2>2, FailedStays, Zenon
  <2> QED
    BY <1>1, <1>2, <1>4, <2>1, <2>3, ValueInv, Zenon
<1> QED
  BY <1>5, <1>6

LEMMA ObjectItemInv == ASSUME EncInv, NEW type \in DOMAIN Programs, ObjectItem(type) PROVE EncInv'
<1>1. /\ Running /\ IsLoop(Top) /\ frames' = Append(Written, Frame(type, "none"))
      /\ json' = ReadTokens(json, ItemPrefix \o <<"begin object">>) /\ leaf' = NoLeaf
      /\ encodeFailed' = encodeFailed /\ phase' = phase
  BY Zenon DEF ObjectItem, Output
<1>2. Leads(ItemPrefix, Top)
  BY <1>1, RunningIs, ItemPrefixLeads, Zenon
<1>3. type \in Types /\ "none" \in Ofs
  <2>1. "none" \in Ofs
    BY DEF Ofs
  <2> QED
    BY <2>1, ProgramsDomain, Zenon
<1>4. type # "list" /\ type \in Types \cup {"list", "map"}
  BY <1>3 DEF Types
<1>5. json' = ReadTokens(json,
          ItemPrefix \o (IF type = "list" THEN <<"begin array">> ELSE <<"begin object">>))
  BY <1>1, <1>4, Zenon
<1> QED
  BY <1>1, <1>2, <1>3, <1>4, <1>5, BeginInv, Zenon

LEMMA ScalarItemInv == ASSUME EncInv, NEW err \in BOOLEAN, ScalarItem(err) PROVE EncInv'
<1>1. /\ Running /\ IsLoop(Top) /\ frames' = Written /\ json'
             = ReadTokens(json, ItemPrefix \o <<"value">>)
      /\ encodeFailed' = (encodeFailed \/ err) /\ leaf' = NoLeaf /\ phase' = phase
  BY Zenon DEF ScalarItem, Output
<1>2. Leads(ItemPrefix, Top)
  BY <1>1, RunningIs, ItemPrefixLeads, Zenon
<1>3. encodeFailed' \in {TRUE, FALSE} /\ (encodeFailed' = FALSE => encodeFailed = FALSE)
  <2>1. encodeFailed \in {TRUE, FALSE}
    BY FailedStays, Zenon
  <2>2. err = TRUE \/ err = FALSE
    OBVIOUS
  <2> QED
    BY <1>1, <2>1, <2>2
<1> QED
  BY <1>1, <1>2, <1>3, LeafNone, ScalarValued, ValueInv, Zenon

LEMMA BadFloatItemInv == ASSUME EncInv, BadFloatItem PROVE EncInv'
<1>1. /\ Running /\ frames' = Front(Front(frames)) /\ encodeFailed' = TRUE /\ leaf' = NoLeaf
             /\ phase' = phase
  BY Zenon DEF BadFloatItem
<1>2. frames' \in {Front(frames), Front(Front(frames))}
  BY <1>1, Zenon
<1> QED
  BY <1>1, <1>2, FailedInv, Zenon

LEMMA WriteBlockInv == ASSUME EncInv, WriteBlock PROVE EncInv'
<1>1. /\ phase = "encoding" /\ frames = <<>> /\ phase' = "written" /\ json'
             = ReadTokens(json, <<"end object">>)
      /\ frames' = frames /\ encodeFailed' = encodeFailed /\ leaf' = leaf
  BY Zenon DEF WriteBlock, Output
<1>2. "encoding" # "idle" /\ "written" # "idle" /\ "written" # "encoding"
  OBVIOUS
<1>3. ASSUME encodeFailed' = FALSE PROVE json' = Expected(phase', frames')
  <2>1. json = Shape(<<>>)
    BY <1>1, <1>2, <1>3, Zenon DEF EncInv, Expected
  <2>2. json' = <<"end">>
    BY <1>1, <2>1, BlockRead, Zenon
  <2> QED
    BY <1>1, <1>2, <2>2, Zenon DEF Expected
<1>4. frames' = <<>> /\ frames' \in Seq(FrameSet) /\ AllPlaced(frames') /\ encodeFailed'
          \in {TRUE, FALSE} /\ LeafKnown(leaf')
  BY <1>1, Zenon DEF EncInv
<1> QED
  BY <1>1, <1>3, <1>4 DEF EncInv

LEMMA ResetWriterInv == ASSUME EncInv, ResetWriter PROVE EncInv'
<1>1. /\ phase = "written" /\ phase' = "idle" /\ json' = <<"document">> /\ encodeFailed' = FALSE
      /\ frames' = frames /\ leaf' = leaf
  BY Zenon DEF ResetWriter
<1>2. frames = <<>>
  BY <1>1 DEF EncInv
<1>3. json' = Expected(phase', frames')
  BY <1>1, Zenon DEF Expected
<1>4. frames' = <<>> /\ frames' \in Seq(FrameSet) /\ AllPlaced(frames') /\ LeafKnown(leaf')
  BY <1>1, <1>2, Zenon DEF EncInv
<1> QED
  BY <1>1, <1>3, <1>4 DEF EncInv

\* Every step preserves the invariant.
LEMMA EncNextInv == ASSUME ~OddSchemes, EncInv, [EncNext]_encVars PROVE EncInv'
<1>1. CASE UNCHANGED encVars
  BY <1>1 DEF EncInv, encVars
<1>2. CASE EncNext
  BY <1>2, WriteEventInv, OmitFieldInv, ScalarFieldInv, BadFloatFieldInv, ObjectFieldInv, LeafFieldInv,
     LoopFieldInv, ObjectItemInv, ScalarItemInv, BadFloatItemInv, CloseInv, WriteBlockInv,
           ResetWriterInv,
     Zenon DEF EncNext
<1> QED
  BY <1>1, <1>2

\* A block is a JSON document unless an encoder returned an error, and the encoders have
\* the fields that the tags name (FieldsAsTagged, MalformedOnlyOnError).
LEMMA BlocksAreWellFormed == EncInv => FieldsAsTagged /\ MalformedOnlyOnError
<1> SUFFICES ASSUME EncInv PROVE FieldsAsTagged /\ MalformedOnlyOnError
  OBVIOUS
<1>1. FieldsAsTagged
  BY FieldsTagged, Zenon DEF FieldsAsTagged
<1>2. ASSUME phase = "written", json # <<"end">> PROVE encodeFailed
  <2>1. "written" # "idle" /\ "written" # "encoding"
    OBVIOUS
  <2>2. encodeFailed # FALSE
    BY <1>2, <2>1, Zenon DEF EncInv, Expected
  <2> QED
    BY <2>2, Zenon DEF EncInv
<1> QED
  BY <1>1, <1>2, Zenon DEF MalformedOnlyOnError

-----------------------------------------------------------------------------
(* What is decoded *)

\* The pairs with names before the name of a pair.
PairsBefore(P, p) == {q \in P : q[1] < p[1]}

\* A finite set of pairs with different names.
Named(P) == IsFiniteSet(P) /\ (\A p \in P : p[1] \in Nat) /\ \A p, q \in P : p[1] = q[1] => p = q

\* A list of all of the pairs.
SortedList(c, P) ==
    /\ DOMAIN c = 1..Cardinality(P)
    /\ \A k \in DOMAIN c : c[k] \in P
    /\ \A p \in P : \E k \in DOMAIN c : c[k] = p

\* Pairs with different names have different numbers of pairs before them.
LEMMA RanksDiffer ==
    ASSUME NEW P, Named(P), NEW p \in P
    PROVE  /\ Cardinality(PairsBefore(P, p)) \in 0..(Cardinality(P) - 1)
           /\ \A q \in P : q[1] < p[1]
                  => Cardinality(PairsBefore(P, q)) < Cardinality(PairsBefore(P, p))
<1>1. \A q \in P : /\ PairsBefore(P, q) \in SUBSET P /\ IsFiniteSet(PairsBefore(P, q))
                   /\ Cardinality(PairsBefore(P, q)) \in Nat
                          /\ Cardinality(PairsBefore(P, q)) <= Cardinality(P)
                   /\ q \notin PairsBefore(P, q)
  <2>1. ASSUME NEW q \in P PROVE PairsBefore(P, q) \in SUBSET P /\ q \notin PairsBefore(P, q)
    BY DEF PairsBefore, Named
  <2>2. IsFiniteSet(P)
    BY DEF Named
  <2> QED
    BY <2>1, <2>2, FS_Subset, FS_CardinalityType
<1>2. Cardinality(P) \in Nat
  BY FS_CardinalityType DEF Named
<1>3. Cardinality(PairsBefore(P, p)) # Cardinality(P)
  <2>1. PairsBefore(P, p) # P
    BY <1>1
  <2> QED
    BY <1>1, <2>1, FS_Subset DEF Named
<1>4. ASSUME NEW q \in P, q[1] < p[1]
      PROVE  Cardinality(PairsBefore(P, q)) < Cardinality(PairsBefore(P, p))
  <2>1. PairsBefore(P, q) \in SUBSET PairsBefore(P, p)
    BY <1>4 DEF PairsBefore, Named
  <2>2. q \in PairsBefore(P, p)
    BY <1>4 DEF PairsBefore
  <2>3. PairsBefore(P, q) # PairsBefore(P, p)
    BY <1>1, <2>2
  <2>4. /\ Cardinality(PairsBefore(P, q)) <= Cardinality(PairsBefore(P, p))
        /\ Cardinality(PairsBefore(P, p)) # Cardinality(PairsBefore(P, q))
    BY <1>1, <2>1, <2>3, FS_Subset, Zenon
  <2> QED
    BY <1>1, <2>4
<1> QED
  BY <1>1, <1>2, <1>3, <1>4

\* Every pair has a place in the sorted list.
LEMMA SortedIs ==
    ASSUME NEW pairs, Named(ToSet(pairs))
    PROVE  SortedList(UnmarshalSorted(pairs), ToSet(pairs))
<1> DEFINE P == ToSet(pairs)
           n == Cardinality(P)
           R == [p \in P |-> Cardinality(PairsBefore(P, p))]
           c == UnmarshalSorted(pairs)
<1>1. IsFiniteSet(P) /\ n \in Nat
  BY FS_CardinalityType DEF Named
<1>2. R \in Injection(P, 0..(n - 1))
  <2>1. R \in [P -> 0..(n - 1)]
    BY RanksDiffer
  <2>2. ASSUME NEW p \in P, NEW q \in P, R[p] = R[q] PROVE p = q
    <3>1. Cardinality(PairsBefore(P, p)) \in Int /\ Cardinality(PairsBefore(P, q)) \in Int
      BY <1>1, RanksDiffer
    <3>2. Cardinality(PairsBefore(P, p)) = Cardinality(PairsBefore(P, q))
      BY <2>2
    <3>3. ~(q[1] < p[1]) /\ ~(p[1] < q[1])
      BY <3>1, <3>2, RanksDiffer
    <3>4. p[1] \in Nat /\ q[1] \in Nat
      BY DEF Named
    <3>5. p[1] = q[1]
      BY <3>3, <3>4
    <3> QED
      BY <3>5 DEF Named
  <2> QED
    BY <2>1, <2>2 DEF Injection, IsInjective
<1>3. IsFiniteSet(0..(n - 1)) /\ Cardinality(0..(n - 1)) = n
  <2>1. 0 \in Int /\ n - 1 \in Int
    BY <1>1
  <2>2. IsFiniteSet(0..(n - 1)) /\ Cardinality(0..(n - 1)) = IF 0 > n - 1 THEN 0 ELSE (n - 1) - 0 + 1
    BY <2>1, FS_Interval, Zenon
  <2> QED
    BY <1>1, <2>2
<1>4. R \in Surjection(P, 0..(n - 1))
  BY <1>2, <1>3, FS_Injection, Zenon
<1>5. c = [k \in 1..n |-> CHOOSE p \in P : Cardinality(PairsBefore(P, p)) = k - 1]
  BY Zenon DEF UnmarshalSorted, PairsBefore
<1>6. \A k \in 1..n : \E p \in P : R[p] = k - 1
  <2>1. \A k \in 1..n : k - 1 \in 0..(n - 1)
    BY <1>1
  <2> QED
    BY <1>4, <2>1, Zenon DEF Surjection
<1>7. \A k \in 1..n : \E p \in P : Cardinality(PairsBefore(P, p)) = k - 1
  BY <1>6
<1>8. \A k \in 1..n : c[k] \in P /\ Cardinality(PairsBefore(P, c[k])) = k - 1
  <2> HIDE DEF P, n
  <2> QED
    BY <1>5, <1>7
<1>9. ASSUME NEW p \in P PROVE \E k \in 1..n : c[k] = p
  <2>1. Cardinality(PairsBefore(P, p)) \in 0..(n - 1)
    BY RanksDiffer
  <2> DEFINE k == Cardinality(PairsBefore(P, p)) + 1
  <2>2. k \in 1..n /\ k - 1 = Cardinality(PairsBefore(P, p))
    BY <1>1, <2>1
  <2>3. R[c[k]] = R[p] /\ c[k] \in P
    BY <1>8, <2>2
  <2>4. c[k] = p
    BY <1>2, <2>3 DEF Injection, IsInjective
  <2> QED
    BY <2>2, <2>4
<1>10. DOMAIN c = 1..n
  BY <1>5
<1> QED
  BY <1>8, <1>9, <1>10, Zenon DEF SortedList

\* The pairs of a list, if no two have the same name.
LEMMA ListNamed ==
    ASSUME NEW values, NEW ps \in Seq(Names \X values),
           \A i, j \in 1..Len(ps) : ps[i][1] = ps[j][1] => i = j
    PROVE  Named(ToSet(ps)) /\ ToSet(ps) = {ps[i] : i \in 1..Len(ps)}
<1>1. ToSet(ps) = {ps[i] : i \in 1..Len(ps)}
  BY DEF ToSet
<1>2. IsFiniteSet(ToSet(ps))
  <2> DEFINE f == [i \in 1..Len(ps) |-> ps[i]]
  <2>1. f \in Surjection(1..Len(ps), ToSet(ps))
    BY <1>1 DEF Surjection
  <2>2. IsFiniteSet(1..Len(ps))
    BY FS_Interval
  <2> QED
    BY <2>1, <2>2, FS_Surjection
<1>3. \A i \in 1..Len(ps) : ps[i][1] \in Nat
  <2>1. \A i \in 1..Len(ps) : ps[i] \in Names \X values
    OBVIOUS
  <2>2. Names \subseteq Nat
    BY DEF Names
  <2> QED
    BY <2>1, <2>2
<1>4. \A p, q \in ToSet(ps) : p[1] = q[1] => p = q
  BY <1>1
<1> QED
  BY <1>1, <1>2, <1>3, <1>4 DEF Named

\* Of the cookies with a name the last one is decoded.
LEMMA CookiesRoundTrip ==
    ASSUME NEW v \in PairsOf({1, 2})
    PROVE  LET c == UnmarshalSorted(MarshalCookies(v)) IN
           /\ {c[i][1] : i \in DOMAIN c} = {v[i][1] : i \in DOMAIN v}
           /\ \A i \in DOMAIN c : c[i] = v[Max({j \in DOMAIN v : v[j][1] = c[i][1]})]
<1> DEFINE n == Len(v)
           L == LastOnes(v)
           m == MarshalCookies(v)
           P == ToSet(m)
           c == UnmarshalSorted(m)
<1>1. n \in Nat /\ DOMAIN v = 1..n /\ v \in Seq(Names \X {1, 2}) /\ \A i \in 1..n : v[i][1] \in Nat
  <2>1. n \in Names /\ v \in [1..n -> Names \X {1, 2}] /\ v \in Seq(Names \X {1, 2})
    BY PairsAre, Zenon
  <2>2. Names \subseteq Nat
    BY DEF Names
  <2> HIDE DEF n
  <2> QED
    BY <2>1, <2>2
<1>2. m \in Seq(Names \X {1, 2}) /\ P = {v[i] : i \in L}
  BY <1>1, CookiesWritten
<1>3. L = {i \in 1..n : ~\E j \in (i + 1)..n : v[j][1] = v[i][1]}
  BY DEF LastOnes
<1>4. IsFiniteSet(P)
  <2> HIDE DEF n, L
  <2>1. L \in SUBSET (1..n)
    BY <1>3
  <2>2. IsFiniteSet(L)
    <3>1. IsFiniteSet(1..n)
      BY <1>1, FS_Interval
    <3> QED
      BY <2>1, <3>1, FS_Subset
  <2> DEFINE f == [i \in L |-> v[i]]
  <2>3. f \in Surjection(L, P)
    BY <1>2 DEF Surjection
  <2> QED
    BY <2>2, <2>3, FS_Surjection
<1> HIDE DEF n, L, m, P, c
<1>5. \A p \in P : p[1] \in Nat
  BY <1>1, <1>2, <1>3
<1>6. ASSUME NEW i \in L, NEW j \in 1..n, v[j][1] = v[i][1] PROVE j <= i
  <2>1. i \in 1..n /\ ~(j \in (i + 1)..n)
    BY <1>3, <1>6
  <2> QED
    BY <1>1, <2>1
<1>7. \A p, q \in P : p[1] = q[1] => p = q
  <2>1. ASSUME NEW i \in L, NEW j \in L, v[i][1] = v[j][1] PROVE i = j
    <3>1. i \in 1..n /\ j \in 1..n
      BY <1>3
    <3>2. j <= i /\ i <= j
      BY <1>6, <2>1, <3>1
    <3> QED
      BY <3>1, <3>2
  <2> QED
    BY <1>2, <2>1
<1>8. SortedList(c, P)
  BY <1>4, <1>5, <1>7, SortedIs, Zenon DEF Named, P, c
<1>9. ASSUME NEW i \in 1..n PROVE \E l \in L : v[l][1] = v[i][1]
  <2> DEFINE T == {k \in 0..n : \E j \in 1..n : k = n - j /\ v[j][1] = v[i][1]}
  <2>1. n - i \in T
    <3>1. n - i \in 0..n
      BY <1>1
    <3>2. \E j \in 1..n : n - i = n - j /\ v[j][1] = v[i][1]
      BY Zenon
    <3> QED
      BY <3>1, <3>2, Zenon
  <2>2. T \in SUBSET Nat /\ T # {}
    <3>1. \A k \in 0..n : k \in Nat
      BY <1>1
    <3>2. \A k \in T : k \in 0..n
      BY Zenon
    <3> HIDE DEF T
    <3>3. T \in SUBSET Nat
      BY <3>1, <3>2, Zenon
    <3> QED
      BY <2>1, <3>3, Zenon
  <2>3. PICK k \in T : \A y \in T : k <= y
    BY <2>2, LeastElement, Zenon
  <2>4. PICK j \in 1..n : k = n - j /\ v[j][1] = v[i][1]
    BY <2>3
  <2>5. ASSUME NEW h \in (j + 1)..n, v[h][1] = v[j][1] PROVE FALSE
    <3>1. h \in 1..n /\ n - h \in T
      BY <1>1, <2>4, <2>5
    <3>2. k <= n - h
      BY <2>3, <3>1
    <3> QED
      BY <1>1, <2>4, <2>5, <3>2
  <2>6. j \in L
    BY <1>3, <2>5
  <2> QED
    BY <2>4, <2>6
<1>10. {c[i][1] : i \in DOMAIN c} = {v[i][1] : i \in DOMAIN v}
  <2>1. ASSUME NEW i \in DOMAIN c PROVE \E j \in DOMAIN v : c[i][1] = v[j][1]
    BY <1>1, <1>2, <1>3, <1>8 DEF SortedList
  <2>2. ASSUME NEW j \in DOMAIN v PROVE \E i \in DOMAIN c : c[i][1] = v[j][1]
    <3>1. PICK l \in L : v[l][1] = v[j][1]
      BY <1>1, <1>9
    <3>2. v[l] \in P
      BY <1>2
    <3> QED
      BY <1>8, <3>1, <3>2 DEF SortedList
  <2> QED
    BY <2>1, <2>2
<1>11. ASSUME NEW i \in DOMAIN c PROVE c[i] = v[Max({j \in DOMAIN v : v[j][1] = c[i][1]})]
  <2>1. PICK l \in L : c[i] = v[l]
    BY <1>2, <1>8 DEF SortedList
  <2> DEFINE J == {j \in DOMAIN v : v[j][1] = c[i][1]}
  <2>2. l \in J /\ J \subseteq Nat
    BY <1>1, <1>3, <2>1
  <2>3. \A j \in J : l >= j
    <3>1. ASSUME NEW j \in J PROVE l >= j
      <4>1. j \in 1..n /\ v[j][1] = v[l][1]
        BY <1>1, <2>1
      <4>2. j <= l
        BY <1>6, <4>1
      <4> QED
        BY <2>2, <4>1, <4>2
    <3> QED
      BY <3>1
  <2>4. Max(J) = l
    <3> HIDE DEF J
    <3>1. \A x, y \in Nat : x >= y /\ y >= x => x = y
      OBVIOUS
    <3>2. Max(J) \in J /\ \A j \in J : Max(J) >= j
      BY <2>2, <2>3, Zenon DEF Max
    <3> QED
      BY <2>2, <2>3, <3>1, <3>2
  <2> QED
    BY <2>1, <2>4
<1> QED
  BY <1>10, <1>11, Zenon DEF c, m

\* A list of values is what is decoded.
LEMMA ValuesRoundTrip == ASSUME NEW vs \in Lists PROVE UnmarshalValues(MarshalValues(vs)) = vs
<1>1. Len(vs) \in Nat /\ vs \in Seq(Nat)
  BY ListsAre
<1>2. CASE Len(vs) = 1
  <2>1. UnmarshalValues(MarshalValues(vs)) = <<vs[1]>>
    BY <1>2, ValuesWritten
  <2>2. vs = <<vs[1]>>
    BY <1>1, <1>2
  <2> QED
    BY <2>1, <2>2, Zenon
<1>3. CASE Len(vs) # 1
  BY <1>1, <1>3, ValuesWritten, Zenon
<1> QED
  BY <1>2, <1>3

\* The headers that were written are decoded.
LEMMA HeadersRoundTrip ==
    ASSUME NEW v \in DistinctPairs(Lists)
    PROVE  ToSet(UnmarshalHeaders(MarshalHeaders(v))) = ToSet(v)
<1> DEFINE n == Len(v)
           pairs == MarshalHeaders(v)
           ps == [i \in DOMAIN pairs |-> <<pairs[i][1], UnmarshalValues(pairs[i][2])>>]
           c == UnmarshalSorted(ps)
<1>1. v \in PairsOf(Lists) /\ \A i, j \in DOMAIN v : v[i][1] = v[j][1] => i = j
  BY DEF DistinctPairs
<1>2. n \in Nat /\ DOMAIN v = 1..n /\ v \in Seq(Names \X Lists) /\ \A i \in 1..n : v[i]
          \in Names \X Lists
  <2>1. n \in Names /\ v \in [1..n -> Names \X Lists] /\ v \in Seq(Names \X Lists)
    BY <1>1, PairsAre, Zenon
  <2>2. Names \subseteq Nat
    BY DEF Names
  <2> HIDE DEF n
  <2> QED
    BY <2>1, <2>2
<1>3. DOMAIN pairs = 1..n /\ \A i \in 1..n : pairs[i] = <<v[i][1], MarshalValues(v[i][2])>>
  <2> HIDE DEF n
  <2> QED
    BY <1>2 DEF MarshalHeaders
<1> HIDE DEF n, pairs
<1>4. ASSUME NEW i \in 1..n PROVE ps[i] = v[i]
  <2>1. pairs[i][1] = v[i][1] /\ pairs[i][2] = MarshalValues(v[i][2])
    BY <1>3
  <2>2. v[i][2] \in Lists /\ v[i] = <<v[i][1], v[i][2]>>
    BY <1>2
  <2>3. UnmarshalValues(pairs[i][2]) = v[i][2]
    BY <2>1, <2>2, ValuesRoundTrip, Zenon
  <2>4. ps[i] = <<pairs[i][1], UnmarshalValues(pairs[i][2])>>
    BY <1>3
  <2> QED
    BY <2>1, <2>2, <2>3, <2>4, Zenon
<1>5. ps = v
  <2>1. DOMAIN ps = 1..n /\ DOMAIN v = 1..n
    BY <1>2, <1>3
  <2>2. v = [i \in 1..n |-> v[i]]
    BY <1>2
  <2>3. ps = [i \in 1..n |-> ps[i]]
    BY <1>3
  <2> HIDE DEF ps
  <2> QED
    BY <1>4, <2>2, <2>3
<1>6. UnmarshalHeaders(pairs) = c
  BY Zenon DEF UnmarshalHeaders
<1> HIDE DEF ps
<1>7. Named(ToSet(v))
  BY <1>1, <1>2, ListNamed DEF n
<1>8. SortedList(UnmarshalSorted(v), ToSet(v))
  BY <1>7, SortedIs, Zenon
<1>9. ToSet(UnmarshalSorted(v)) = ToSet(v)
  <2> DEFINE d == UnmarshalSorted(v)
             P == ToSet(v)
  <2> HIDE DEF d, P
  <2>1. SortedList(d, P)
    BY <1>8 DEF d, P
  <2>2. ToSet(d) = {d[i] : i \in DOMAIN d}
    BY DEF ToSet
  <2>3. ToSet(d) = P
    BY <2>1, <2>2 DEF SortedList
  <2> QED
    BY <2>3 DEF d, P
<1> QED
  BY <1>5, <1>6, <1>9, Zenon DEF pairs

\* The keys of a form that have values are decoded with them.
LEMMA FormRoundTrip ==
    ASSUME NEW n \in Names, NEW form \in [1..n -> Lists]
    PROVE  LET decoded == UnmarshalForm(MarshalForm(form)) IN
           /\ \A k \in DOMAIN decoded : decoded[k] = form[k]
           /\ \A k \in DOMAIN form \ DOMAIN decoded : form[k] = <<>>
<1> DEFINE w == MarshalForm(form)
           decoded == UnmarshalForm(w)
<1>1. DOMAIN w = 1..n /\ DOMAIN form = 1..n /\ \A k \in 1..n : w[k] = MarshalValues(form[k])
  BY DEF MarshalForm
<1>2. decoded = [k \in {k \in DOMAIN w : UnmarshalValues(w[k]) # <<>>} |-> UnmarshalValues(w[k])]
  BY Zenon DEF UnmarshalForm
<1> HIDE DEF w, decoded
<1>3. \A k \in 1..n : UnmarshalValues(w[k]) = form[k]
  BY <1>1, ValuesRoundTrip
<1>4. /\ \A k \in DOMAIN decoded : decoded[k] = form[k]
      /\ \A k \in DOMAIN form \ DOMAIN decoded : form[k] = <<>>
  BY <1>1, <1>2, <1>3
<1> QED
  BY <1>4 DEF decoded, w

\* To the microsecond.
LEMMA TimeRoundTrip ==
    ASSUME NEW ns \in Nat
    PROVE  0 <= ns - UnmarshalTime(MarshalTime(ns)) /\ ns - UnmarshalTime(MarshalTime(ns)) < 1000
<1> DEFINE us == ns \div 1000
           s == us \div 1000000
           r == us % 1000000
<1>1. us \in Nat /\ 0 <= ns - us * 1000 /\ ns - us * 1000 < 1000
  OBVIOUS
<1> HIDE DEF us
<1>2. s \in Nat /\ r \in Nat /\ us = s * 1000000 + r
  BY <1>1, SMT
<1>3. UnmarshalTime(MarshalTime(ns)) = s * 1000000000 + r * 1000
  BY SMT DEF UnmarshalTime, MarshalTime, us
<1> HIDE DEF s, r
<1>4. UnmarshalTime(MarshalTime(ns)) = us * 1000
  BY <1>1, <1>2, <1>3, SMT
<1> QED
  BY <1>1, <1>4, SMT

\* One sequence after another.
Concatenation(z, x, y) ==
    /\ Len(z) = Len(x) + Len(y)
    /\ \A i \in 1..Len(x) : z[i] = x[i]
    /\ \A i \in 1..Len(y) : z[Len(x) + i] = y[i]

LEMMA Concatenated ==
    ASSUME NEW T, NEW x \in Seq(T), NEW y \in Seq(T)
    PROVE  Concatenation(x \o y, x, y)
<1> DEFINE z == x \o y
<1>1. /\ Len(z) = Len(x) + Len(y)
      /\ \A i \in 1..Len(x) : z[i] = x[i]
      /\ \A i \in 1..Len(y) : z[Len(x) + i] = y[i]
  OBVIOUS
<1> HIDE DEF z
<1>2. Concatenation(z, x, y)
  BY <1>1, Zenon DEF Concatenation
<1> QED
  BY <1>2 DEF z

\* Two digits for each byte are the byte.
LEMMA IDRoundTrip ==
    ASSUME NEW id \in IDs
    PROVE  UnmarshalID(WriteHex(id)) = id
<1> DEFINE seqs == [i \in DOMAIN id |-> <<id[i] \div 16, id[i] % 16>>]
           ds == WriteHex(id)
<1>1. id \in [1..2 -> Nat] /\ DOMAIN id = 1..2
  BY DEF IDs
<1>2. seqs \in Seq(Seq(Nat)) /\ Len(seqs) = 2
      /\ \A i \in 1..2 : seqs[i] \in Seq(Nat) /\ Len(seqs[i]) = 2 /\ seqs[i][1] = id[i] \div 16
             /\ seqs[i][2] = id[i] % 16
  <2>1. \A i \in 1..2 : id[i] \div 16 \in Nat /\ id[i] % 16 \in Nat
    BY <1>1
  <2>2. seqs \in [1..2 -> Seq(Nat)]
    BY <1>1, <2>1
  <2>3. 2 \in Nat
    OBVIOUS
  <2>4. seqs \in Seq(Seq(Nat)) /\ Len(seqs) = 2
    BY <2>2, <2>3, FunctionSeq
  <2> QED
    BY <1>1, <2>2, <2>4
<1>3. ds = FlattenSeq(seqs)
  BY Zenon DEF WriteHex
<1> HIDE DEF seqs, ds
<1>4. PICK f : Flattened(f, seqs, Nat) /\ ds = f[2]
  <2>1. PICK f : Flattened(f, seqs, Nat) /\ FlattenSeq(seqs) = f[Len(seqs)]
    BY <1>2, FlattenIs, Zenon
  <2> QED
    BY <1>2, <1>3, <2>1, Zenon
<1>5. f[0] = <<>> /\ f[1] = f[0] \o seqs[1] /\ f[2] = f[1] \o seqs[2]
  <2>1. \A i \in 1..2 : f[i] = f[i - 1] \o seqs[i]
    BY <1>2, <1>4, Zenon DEF Flattened
  <2>2. f[1] = f[1 - 1] \o seqs[1] /\ f[2] = f[2 - 1] \o seqs[2]
    <3>1. 1 \in 1..2 /\ 2 \in 1..2
      OBVIOUS
    <3> QED
      BY <2>1, <3>1, Zenon
  <2>3. 1 - 1 = 0 /\ 2 - 1 = 1
    OBVIOUS
  <2> QED
    BY <1>4, <2>2, <2>3, Zenon DEF Flattened
<1>6. /\ Len(ds) = 4 /\ ds[1] = seqs[1][1] /\ ds[2] = seqs[1][2] /\ ds[3] = seqs[2][1] /\ ds[4]
             = seqs[2][2]
  <2>1. seqs[1] \in Seq(Nat) /\ Len(seqs[1]) = 2 /\ seqs[2] \in Seq(Nat) /\ Len(seqs[2]) = 2
    BY <1>2
  <2> DEFINE a == seqs[1]
             b == seqs[2]
  <2> HIDE DEF a, b
  <2>2. f[1] = a
    <3>1. <<>> \o a = a
      BY <2>1, ConcatEmptySeq DEF a
    <3> QED
      BY <1>5, <3>1, Zenon DEF a
  <2>3. ds = a \o b
    BY <1>4, <1>5, <2>2, Zenon DEF b
  <2>4. Len(a \o b) = 4 /\ (a \o b)[1] = a[1] /\ (a \o b)[2] = a[2] /\ (a \o b)[3] = b[1]
            /\ (a \o b)[4] = b[2]
    <3>1. \A x, y \in Seq(Nat) : Len(x) = 2 /\ Len(y) = 2 =>
             /\ Len(x \o y) = 4 /\ (x \o y)[1] = x[1] /\ (x \o y)[2] = x[2]
             /\ (x \o y)[3] = y[1] /\ (x \o y)[4] = y[2]
      <4> SUFFICES ASSUME NEW x \in Seq(Nat), NEW y \in Seq(Nat), Len(x) = 2, Len(y) = 2
                   PROVE  /\ Len(x \o y) = 4 /\ (x \o y)[1] = x[1] /\ (x \o y)[2] = x[2]
                          /\ (x \o y)[3] = y[1] /\ (x \o y)[4] = y[2]
        BY Zenon
      <4> DEFINE z == x \o y
      <4>1. Concatenation(z, x, y)
        BY Concatenated, Zenon
      <4> HIDE DEF z
      <4>2. Len(z) = 4 /\ z[1] = x[1] /\ z[2] = x[2] /\ z[2 + 1] = y[1] /\ z[2 + 2] = y[2]
        BY <4>1 DEF Concatenation
      <4> QED
        BY <4>2 DEF z
    <3> QED
      BY <2>1, <3>1, Zenon DEF a, b
  <2> QED
    BY <2>3, <2>4 DEF a, b
<1>7. UnmarshalID(ds) = [i \in 1..2 |-> ds[2 * i - 1] * 16 + ds[2 * i]]
  BY <1>6 DEF UnmarshalID
<1>8. \A i \in 1..2 : ds[2 * i - 1] * 16 + ds[2 * i] = id[i]
  <2>1. \A x \in Nat : (x \div 16) * 16 + (x % 16) = x
    OBVIOUS
  <2> DEFINE x == id[1]
             y == id[2]
  <2>0. x \in Nat /\ y \in Nat /\ ds[1] = x \div 16 /\ ds[2] = x % 16 /\ ds[3] = y \div 16 /\ ds[4]
            = y % 16
    BY <1>1, <1>2, <1>6
  <2> HIDE DEF x, y
  <2>4. 2 * 1 - 1 = 1 /\ 2 * 1 = 2 /\ 2 * 2 - 1 = 3 /\ 2 * 2 = 4
    OBVIOUS
  <2>2. ds[2 * 1 - 1] * 16 + ds[2 * 1] = id[1]
    BY <2>0, <2>1, <2>4, Zenon DEF x
  <2>3. ds[2 * 2 - 1] * 16 + ds[2 * 2] = id[2]
    BY <2>0, <2>1, <2>4, Zenon DEF y
  <2> QED
    BY <2>2, <2>3
<1>9. id = [i \in 1..2 |-> id[i]]
  BY <1>1
<1> QED
  BY <1>7, <1>8, <1>9 DEF ds

-----------------------------------------------------------------------------
(* The full URL *)

\* Sequences of one length with the same elements.
LEMMA SameSequence ==
    ASSUME NEW T, NEW x \in Seq(T), NEW y \in Seq(T), Len(x) = Len(y), \A i \in 1..Len(x) : x[i] = y[i]
    PROVE  x = y
OBVIOUS

\* The first n of a sequence, or all of them.
Beginning(r, s, n, T) ==
    /\ r \in Seq(T)
    /\ Len(r) = IF Len(s) < n THEN Len(s) ELSE n
    /\ \A i \in 1..Len(r) : r[i] = s[i]

\* TruncateRunes returns the first n of a sequence, or all of them.
LEMMA TruncateIs ==
    ASSUME NEW T, NEW s \in Seq(T), NEW n \in Nat
    PROVE  Beginning(TruncateRunes(s, n), s, n, T)
<1> DEFINE m == IF Len(s) < n THEN Len(s) ELSE n
           r == SubSeq(s, 1, m)
<1>1. m \in Nat /\ m <= Len(s) /\ Len(s) \in Nat
  OBVIOUS
<1>2. TruncateRunes(s, n) = r
  BY Zenon DEF TruncateRunes
<1>3. m = IF Len(s) < n THEN Len(s) ELSE n
  OBVIOUS
<1> HIDE DEF m
<1>4. r \in Seq(T) /\ Len(r) = m /\ \A i \in 1..m : r[i] = s[i]
  BY <1>1
<1> HIDE DEF r
<1> QED
  BY <1>2, <1>3, <1>4 DEF Beginning

\* What is cut to what the limit leaves is cut as a whole.
LEMMA CutTogether ==
    ASSUME NEW T, NEW w \in Seq(T), NEW y \in Seq(T), NEW m \in Nat, NEW x, x = TruncateRunes(w, m)
    PROVE  x \o TruncateRunes(y, m - Len(x)) = TruncateRunes(w \o y, m)
<1> DEFINE k == m - Len(x)
           c == TruncateRunes(y, k)
           z == x \o c
           wy == w \o y
           r == TruncateRunes(wy, m)
<1>1. Beginning(x, w, m, T)
  BY TruncateIs, Zenon
<1>2. x \in Seq(T) /\ Len(x) \in Nat /\ Len(w) \in Nat /\ Len(y) \in Nat
      /\ (Len(x) = IF Len(w) < m THEN Len(w) ELSE m) /\ \A i \in 1..Len(x) : x[i] = w[i]
  BY <1>1 DEF Beginning
<1>3. k \in Nat /\ Len(x) + k = m /\ (k = 0 \/ Len(x) = Len(w))
  BY <1>2
<1> HIDE DEF k
<1>4. Beginning(c, y, k, T)
  BY <1>3, TruncateIs, Zenon
<1>5. c \in Seq(T) /\ (Len(c) = IF Len(y) < k THEN Len(y) ELSE k) /\ \A i \in 1..Len(c) : c[i] = y[i]
  BY <1>4, Zenon DEF Beginning
<1>6. wy \in Seq(T) /\ Concatenation(wy, w, y)
  <2>1. wy \in Seq(T)
    OBVIOUS
  <2> QED
    BY <2>1, Concatenated, Zenon
<1> HIDE DEF wy, c
<1>7. Beginning(r, wy, m, T)
  BY <1>6, TruncateIs, Zenon
<1>8. z \in Seq(T) /\ Concatenation(z, x, c)
  <2>1. z \in Seq(T)
    BY <1>2, <1>5
  <2> QED
    BY <1>2, <1>5, <2>1, Concatenated, Zenon
<1> HIDE DEF z, r
<1>9. r \in Seq(T) /\ Len(wy) = Len(w) + Len(y) /\ (Len(r) = IF Len(wy) < m THEN Len(wy) ELSE m)
      /\ Len(z) = Len(x) + Len(c) /\ Len(c) \in Nat
  BY <1>5, <1>6, <1>7, <1>8 DEF Beginning, Concatenation
<1>10. Len(z) = Len(r)
  <2> DEFINE lx == Len(x)
             lw == Len(w)
             ly == Len(y)
             lc == Len(c)
             lz == Len(z)
             lr == Len(r)
             lwy == Len(wy)
  <2>1. /\ lx \in Nat /\ lw \in Nat /\ ly \in Nat /\ lc \in Nat /\ k \in Nat
        /\ lx = IF lw < m THEN lw ELSE m
        /\ lc = IF ly < k THEN ly ELSE k
        /\ lz = lx + lc /\ lwy = lw + ly /\ lx + k = m
        /\ lr = IF lwy < m THEN lwy ELSE m
    BY <1>2, <1>3, <1>5, <1>9, Zenon
  <2> HIDE DEF lx, lw, ly, lc, lz, lr, lwy
  <2>2. lz = lr
    BY <2>1
  <2> QED
    BY <2>2 DEF lz, lr
<1>11. ASSUME NEW i \in 1..Len(z) PROVE z[i] = r[i]
  <2>1. r[i] = wy[i]
    BY <1>7, <1>10 DEF Beginning
  <2>2. CASE i \in 1..Len(x)
    <3>1. z[i] = x[i] /\ x[i] = w[i] /\ i \in 1..Len(w)
      BY <1>2, <1>8, <2>2 DEF Concatenation
    <3>2. wy[i] = w[i]
      BY <1>6, <3>1 DEF Concatenation
    <3> QED
      BY <2>1, <3>1, <3>2
  <2>3. CASE i \notin 1..Len(x)
    <3> DEFINE j == i - Len(x)
    <3>1. j \in 1..Len(c) /\ j \in 1..Len(y) /\ Len(x) = Len(w) /\ i = Len(x) + j
      <4> DEFINE lx == Len(x)
                 lw == Len(w)
                 ly == Len(y)
                 lc == Len(c)
                 lz == Len(z)
      <4>1. /\ lx \in Nat /\ lw \in Nat /\ ly \in Nat /\ lc \in Nat /\ k \in Nat
            /\ lc = IF ly < k THEN ly ELSE k
            /\ lz = lx + lc /\ (k = 0 \/ lx = lw)
            /\ i \in 1..lz /\ i \notin 1..lx
        BY <1>2, <1>3, <1>5, <1>9, <2>3, Zenon
      <4> HIDE DEF lx, lw, ly, lc, lz
      <4>2. i - lx \in 1..lc /\ i - lx \in 1..ly /\ lx = lw /\ i = lx + (i - lx)
        BY <4>1
      <4> QED
        BY <4>2 DEF lx, lw, ly, lc
    <3> HIDE DEF j
    <3>2. z[Len(x) + j] = c[j] /\ c[j] = y[j] /\ wy[Len(w) + j] = y[j]
      BY <1>5, <1>6, <1>8, <3>1, Zenon DEF Concatenation
    <3> QED
      BY <2>1, <3>1, <3>2, Zenon
  <2> QED
    BY <2>2, <2>3
<1>12. z = r
  BY <1>8, <1>9, <1>10, <1>11, SameSequence, Zenon
<1> QED
  BY <1>12, Zenon DEF z, r, c, wy, k

\* The parts of a URL, each cut to what the limit leaves.
PartsCut(scheme, parts) ==
    LET url[i \in 0..Len(parts)] ==
            IF i = 0 THEN scheme
            ELSE url[i - 1] \o TruncateRunes(parts[i], MaxRunes - Len(url[i - 1]))
    IN url[Len(parts)]

\* The parts cut one by one are the whole one cut at the limit.
LEMMA PartsCutTogether ==
    ASSUME NEW T, NEW scheme \in Seq(T), Len(scheme) < MaxRunes, NEW parts \in Seq(Seq(T))
    PROVE  PartsCut(scheme, parts) = TruncateRunes(scheme \o FlattenSeq(parts), MaxRunes)
<1> DEFINE n == Len(parts)
           m == MaxRunes
           S == {x \in Seq(T) : Len(x) <= m}
           Cut(i, x) == x \o TruncateRunes(parts[i], m - Len(x))
           F == [i \in 1..n |-> [x \in S |-> Cut(i, x)]]
           Is(h) == h = [i \in 0..n |-> IF i = 0 THEN scheme ELSE Cut(i, h[i - 1])]
<1>1. n \in Nat /\ m \in Nat /\ scheme \in S /\ \A i \in 1..n : parts[i] \in Seq(T)
  BY EncodingAssumption
<1>2. PartsCut(scheme, parts) = (CHOOSE h : Is(h))[n]
  BY Zenon DEF PartsCut
<1>3. ASSUME NEW i \in 1..n, NEW x \in S PROVE Cut(i, x) \in S
  <2> DEFINE k == m - Len(x)
             c == TruncateRunes(parts[i], k)
  <2>1. x \in Seq(T) /\ Len(x) \in Nat /\ Len(x) + k = m /\ k \in Nat /\ parts[i] \in Seq(T)
    BY <1>1
  <2>2. Beginning(c, parts[i], k, T)
    BY <2>1, TruncateIs, Zenon
  <2>3. c \in Seq(T) /\ Len(c) \in Nat /\ Len(c) <= k
    BY <2>1, <2>2 DEF Beginning
  <2> HIDE DEF c
  <2>4. x \o c \in Seq(T) /\ Len(x \o c) = Len(x) + Len(c)
    BY <2>1, <2>3
  <2>5. x \o c \in S
    BY <2>1, <2>3, <2>4
  <2> QED
    BY <2>5 DEF c
<1>4. \A i \in 1..n : \A x \in S : F[i][x] = Cut(i, x)
  OBVIOUS
<1> HIDE DEF F, Cut, S
<1>5. Closed(F, n, S)
  BY <1>3, <1>4 DEF Closed
<1> HIDE DEF n, m
<1>6. PICK g : Rounds(g, F, n, S, scheme)
  BY <1>1, <1>5, Loop
<1>7. g \in [0..n -> S] /\ g[0] = scheme /\ \A i \in 1..n : g[i] = Cut(i, g[i - 1])
  <2>1. g \in [0..n -> S] /\ g[0] = scheme /\ \A i \in 1..n : g[i] = F[i][g[i - 1]]
    BY <1>6 DEF Rounds
  <2>2. \A i \in 1..n : g[i - 1] \in S
    BY <1>1, <2>1
  <2> QED
    BY <1>4, <2>1, <2>2
<1> DEFINE h == CHOOSE h : Is(h)
<1>8. Is(h)
  <2>1. Is(g)
    <3>1. g = [i \in 0..n |-> g[i]]
      BY <1>7
    <3>2. \A i \in 0..n : g[i] = IF i = 0 THEN scheme ELSE Cut(i, g[i - 1])
      <4>1. \A i \in 0..n : i = 0 \/ i \in 1..n
        BY <1>1
      <4> QED
        BY <1>7, <4>1
    <3> QED
      BY <3>1, <3>2
  <2> HIDE DEF Is
  <2> QED
    BY <2>1, Zenon
<1>9. h[0] = scheme /\ \A i \in 1..n : h[i] = Cut(i, h[i - 1])
  <2> HIDE DEF h
  <2>1. \A i \in 1..n : i \in 0..n /\ i # 0
    BY <1>1
  <2>2. 0 \in 0..n
    BY <1>1
  <2> QED
    BY <1>8, <2>1, <2>2
<1>10. PartsCut(scheme, parts) = h[n]
  BY <1>2, Zenon
<1> HIDE DEF h
<1>11. PICK f : Flattened(f, parts, T) /\ FlattenSeq(parts) = f[n]
  BY FlattenIs, Zenon DEF n
<1>12. f \in [0..n -> Seq(T)] /\ f[0] = <<>> /\ \A i \in 1..n : f[i] = f[i - 1] \o parts[i]
  BY <1>11, Zenon DEF Flattened, n
<1> DEFINE U == {i \in 0..n : h[i] = TruncateRunes(scheme \o f[i], m)}
<1>13. 0 \in U
  <2> DEFINE r == TruncateRunes(scheme, m)
  <2>1. Beginning(r, scheme, m, T)
    BY <1>1, TruncateIs, Zenon
  <2>2. Len(scheme) < m /\ Len(scheme) \in Nat
    BY DEF m
  <2>3. r \in Seq(T) /\ Len(r) = Len(scheme) /\ \A i \in 1..Len(r) : r[i] = scheme[i]
    BY <2>1, <2>2 DEF Beginning
  <2>4. r = scheme
    BY <2>3, SameSequence, Zenon
  <2>5. scheme \o f[0] = scheme
    BY <1>12, ConcatEmptySeq, Zenon
  <2>6. 0 \in 0..n
    BY <1>1
  <2> QED
    BY <1>9, <2>4, <2>5, <2>6, Zenon
<1>14. ASSUME NEW i \in 1..n, i - 1 \in U PROVE i \in U
  <2> DEFINE w == scheme \o f[i - 1]
             y == parts[i]
             x == h[i - 1]
  <2>1. i - 1 \in 0..n /\ i \in 0..n
    BY <1>1
  <2>2. f[i - 1] \in Seq(T) /\ y \in Seq(T) /\ f[i] = f[i - 1] \o y
    BY <1>1, <1>12, <2>1
  <2>3. w \in Seq(T) /\ scheme \o f[i] = w \o y
    <3> DEFINE e == f[i - 1]
    <3>1. e \in Seq(T)
      BY <2>2
    <3> HIDE DEF e, y
    <3>2. (scheme \o e) \o y = scheme \o (e \o y)
      <4>1. scheme \in Seq(T) /\ e \in Seq(T) /\ y \in Seq(T)
        BY <2>2, <3>1, Zenon
      <4> QED
        BY <4>1, ConcatAssociative
    <3>3. scheme \o e \in Seq(T)
      BY <3>1
    <3> QED
      BY <2>2, <3>2, <3>3, Zenon DEF e
  <2>4. x = TruncateRunes(w, m)
    BY <1>14, Zenon
  <2> HIDE DEF w, y, x
  <2>5. x \o TruncateRunes(y, m - Len(x)) = TruncateRunes(w \o y, m)
    <3>1. m \in Nat /\ w \in Seq(T) /\ y \in Seq(T)
      BY <1>1, <2>2, <2>3, Zenon
    <3> QED
      BY <2>4, <3>1, CutTogether, ZenonT(30)
  <2>6. h[i] = x \o TruncateRunes(y, m - Len(x))
    BY <1>9, Zenon DEF x, y, Cut
  <2> QED
    BY <2>1, <2>3, <2>5, <2>6, Zenon
<1> HIDE DEF U
<1>15. \A i \in 0..n : i \in U
  BY <1>1, <1>13, <1>14, UpTo
<1>16. n \in U
  BY <1>1, <1>15
<1> QED
  BY <1>10, <1>11, <1>16, Zenon DEF U, m

\* The limit leaves nothing for the rest.
LEMMA CutAtOnce ==
    ASSUME NEW T, NEW scheme \in Seq(T), NEW rest \in Seq(T), NEW m \in Nat, Len(scheme) >= m
    PROVE  SubSeq(scheme, 1, m) = TruncateRunes(scheme \o rest, m)
<1> DEFINE x == TruncateRunes(scheme, m)
           c == TruncateRunes(rest, m - Len(x))
<1>1. Len(scheme) \in Nat
  OBVIOUS
<1>2. x = SubSeq(scheme, 1, m)
  <2>1. ~(Len(scheme) < m)
    BY <1>1
  <2> QED
    BY <2>1, Zenon DEF TruncateRunes
<1>3. Beginning(x, scheme, m, T)
  BY TruncateIs, Zenon
<1>4. x = TruncateRunes(scheme, m)
  BY Zenon
<1> HIDE DEF x
<1>5. x \o c = TruncateRunes(scheme \o rest, m)
  BY <1>4, CutTogether, ZenonT(30)
<1>6. Len(x) = m /\ x \in Seq(T)
  BY <1>1, <1>3 DEF Beginning
<1>7. m - Len(x) = 0 /\ 0 \in Nat
  BY <1>6
<1>8. Beginning(c, rest, 0, T)
  BY <1>7, TruncateIs, Zenon
<1>9. c = <<>>
  <2> HIDE DEF c
  <2>1. Len(rest) \in Nat
    OBVIOUS
  <2> QED
    BY <1>8, <2>1 DEF Beginning
<1> HIDE DEF c
<1>10. x \o c = x
  BY <1>6, <1>9, ConcatEmptySeq, Zenon
<1> QED
  BY <1>2, <1>5, <1>10, Zenon

\* The full URL of characters of a set is cut as a whole.
LEMMA FullURLIs ==
    ASSUME NEW u, NEW T, NEW scheme \in Seq(T), scheme = MarshalScheme(u.protocol) \o <<":", "/", "/">>,
           FullURLParts(u) \in Seq(Seq(T))
    PROVE  MarshalFullURL(u) = TruncateRunes(scheme \o FlattenSeq(FullURLParts(u)), MaxRunes)
<1> DEFINE parts == FullURLParts(u)
           rest == FlattenSeq(parts)
           m == MaxRunes
<1>1. MarshalFullURL(u)
          = IF Len(scheme) >= MaxRunes THEN SubSeq(scheme, 1, MaxRunes) ELSE PartsCut(scheme, parts)
  <2>1. MarshalFullURL(u)
          = IF Len(MarshalScheme(u.protocol) \o <<":", "/", "/">>) >= MaxRunes
            THEN SubSeq(MarshalScheme(u.protocol) \o <<":", "/", "/">>, 1, MaxRunes)
            ELSE PartsCut(MarshalScheme(u.protocol) \o <<":", "/", "/">>, FullURLParts(u))
    BY Zenon DEF MarshalFullURL, PartsCut
  <2> QED
    BY <2>1, Zenon
<1>2. m \in Nat /\ Len(scheme) \in Nat
  BY EncodingAssumption
<1>3. rest \in Seq(T)
  <2>1. PICK f : Flattened(f, parts, T) /\ rest = f[Len(parts)]
    BY FlattenIs, Zenon
  <2>2. Len(parts) \in 0..Len(parts)
    <3> DEFINE n == Len(parts)
    <3>1. n \in Nat
      <4> HIDE DEF parts
      <4> QED
        BY DEF parts
    <3> HIDE DEF n
    <3>2. n \in 0..n
      BY <3>1
    <3> QED
      BY <3>2, Zenon DEF n
  <2> HIDE DEF parts, rest
  <2> QED
    BY <2>1, <2>2 DEF Flattened
<1> HIDE DEF parts, rest, m
<1>4. CASE Len(scheme) < m
  <2>1. ~(Len(scheme) >= m)
    BY <1>2, <1>4
  <2>2. MarshalFullURL(u) = PartsCut(scheme, parts)
    BY <1>1, <2>1, Zenon DEF m
  <2> QED
    BY <1>4, <2>2, PartsCutTogether, ZenonT(30) DEF m, rest, parts
<1>5. CASE Len(scheme) >= m
  <2>1. MarshalFullURL(u) = SubSeq(scheme, 1, m)
    BY <1>1, <1>5, Zenon DEF m
  <2>2. SubSeq(scheme, 1, m) = TruncateRunes(scheme \o rest, m)
    BY <1>2, <1>3, <1>5, CutAtOnce, Zenon
  <2> QED
    BY <2>1, <2>2, Zenon DEF m, rest, parts
<1>6. Len(scheme) < m \/ Len(scheme) >= m
  BY <1>2
<1> QED
  BY <1>4, <1>5, <1>6

\* The characters of the parts of a URL.
Characters == {"a", "b", "c", "h", "p", "q", "s", "t", "x", "H", "0", "1", "8", "_", "=",
               ":", "/", "[", "]", "?", "#"}

\* Short sequences.
LEMMA Strings ==
    ASSUME NEW T
    PROVE  /\ <<>> \in Seq(T)
           /\ \A a \in T : <<a>> \in Seq(T)
           /\ \A a, b \in T : <<a, b>> \in Seq(T)
           /\ \A a, b, c \in T : <<a, b, c>> \in Seq(T)
           /\ \A a, b, c, d, e, f, g \in T : <<a, b, c, d, e, f, g>> \in Seq(T)
           /\ \A x, y \in Seq(T) : x \o y \in Seq(T)
<1>1. \A a, b, c, d, e, f, g \in T : <<a, b, c, d, e, f, g>> \in Seq(T)
  OBVIOUS
<1>2. \A x, y \in Seq(T) : x \o y \in Seq(T)
  OBVIOUS
<1> QED
  BY <1>1, <1>2

\* URLs with parts in given sets.
URLsOf(hash, hostname, path, port, protocol, search) ==
    [hash : hash, hostname : hostname, path : path, port : port, protocol : protocol, search : search]

\* The parts of such a URL.
LEMMA URLsOfAre ==
    ASSUME NEW A, NEW B, NEW C, NEW D, NEW E, NEW F, NEW u \in URLsOf(A, B, C, D, E, F)
    PROVE  u.hash \in A /\ u.hostname \in B /\ u.path \in C /\ u.port \in D /\ u.protocol \in E
               /\ u.search \in F
BY DEF URLsOf

\* The parts of the URLs that are encoded are sequences of characters.
LEMMA RunesAre ==
    ASSUME NEW u \in Runes
    PROVE  /\ u.hash \in Seq(Characters) /\ u.hostname \in Seq(Characters) /\ u.path \in Seq(Characters)
           /\ u.port \in Seq(Characters) /\ u.protocol \in Seq(Characters) /\ u.search
                  \in Seq(Characters)
<1> DEFINE hash == {<<>>, <<"x", "x">>}
           hostname == {<<>>, <<"a", "b", "c">>, <<":", "1">>}
           path == {<<>>, <<"/">>, <<"p", "q">>}
           port == {<<>>, <<"8", "0">>}
           protocol == {<<>>, <<"H", "t">>, <<"h", "_">>, <<"h", "t", "t", "p", "s", "s", "s">>}
           search == {<<>>, <<"s", "=">>}
<1>1. u \in URLsOf(hash, hostname, path, port, protocol, search)
  BY Zenon DEF Runes, URLsOf
<1> HIDE DEF hash, hostname, path, port, protocol, search
<1>2. /\ u.hash \in hash /\ u.hostname \in hostname /\ u.path \in path
      /\ u.port \in port /\ u.protocol \in protocol /\ u.search \in search
  BY <1>1, URLsOfAre, ZenonT(30)
<1>3. /\ "a" \in Characters /\ "b" \in Characters /\ "c" \in Characters /\ "h" \in Characters
      /\ "p" \in Characters /\ "q" \in Characters /\ "s" \in Characters /\ "t" \in Characters
      /\ "x" \in Characters /\ "H" \in Characters /\ "0" \in Characters /\ "1" \in Characters
      /\ "8" \in Characters /\ "_" \in Characters /\ "=" \in Characters /\ ":" \in Characters
             /\ "/" \in Characters
  BY Zenon DEF Characters
<1>4. /\ <<"x", "x">> \in Seq(Characters) /\ <<":", "1">> \in Seq(Characters)
      /\ <<"p", "q">> \in Seq(Characters) /\ <<"8", "0">> \in Seq(Characters)
      /\ <<"H", "t">> \in Seq(Characters) /\ <<"h", "_">> \in Seq(Characters)
      /\ <<"s", "=">> \in Seq(Characters) /\ <<"/">> \in Seq(Characters) /\ <<>> \in Seq(Characters)
  BY <1>3, Strings, Zenon
<1>5. <<"a", "b", "c">> \in Seq(Characters)
  BY <1>3, Strings, Zenon
<1>6. <<"h", "t", "t", "p", "s", "s", "s">> \in Seq(Characters)
  BY <1>3, Strings, Zenon
<1> QED
  BY <1>2, <1>4, <1>5, <1>6, Zenon DEF hash, hostname, path, port, protocol, search

\* A sequence of eleven.
LEMMA Eleven ==
    ASSUME NEW S, NEW a \in S, NEW b \in S, NEW c \in S, NEW d \in S, NEW e \in S, NEW f \in S,
           NEW g \in S, NEW h \in S, NEW i \in S, NEW j \in S, NEW k \in S
    PROVE  <<a, b, c, d, e, f, g, h, i, j, k>> \in Seq(S)
OBVIOUS

\* What follows the scheme is a list of sequences of characters.
LEMMA FullURLPartsAre ==
    ASSUME NEW u \in Runes
    PROVE  FullURLParts(u) \in Seq(Seq(Characters))
<1> DEFINE If(condition, s) == IF condition THEN s ELSE <<>>
           S == Seq(Characters)
           a == If(":" \in ToSet(u.hostname), <<"[">>)
           b == If(":" \in ToSet(u.hostname), <<"]">>)
           c == If(u.port # <<>>, <<":">>)
           d == If(u.path # <<>> /\ Head(u.path) # "/", <<"/">>)
           e == If(u.search # <<>>, <<"?">>)
           f == If(u.hash # <<>>, <<"#">>)
<1>1. /\ ":" \in Characters /\ "/" \in Characters /\ "[" \in Characters /\ "]" \in Characters
      /\ "?" \in Characters /\ "#" \in Characters
  BY Zenon DEF Characters
<1>2. /\ <<":">> \in S /\ <<"/">> \in S /\ <<"[">> \in S /\ <<"]">> \in S /\ <<"?">> \in S
             /\ <<"#">> \in S
      /\ <<>> \in S
  BY <1>1, Strings, Zenon
<1>3. a \in S /\ b \in S /\ c \in S /\ d \in S /\ e \in S /\ f \in S
  BY <1>2, Zenon
<1>4. FullURLParts(u) = <<a, u.hostname, b, c, u.port, d, u.path, e, u.search, f, u.hash>>
  BY Zenon DEF FullURLParts
<1>5. /\ u.hash \in S /\ u.hostname \in S /\ u.path \in S
      /\ u.port \in S /\ u.protocol \in S /\ u.search \in S
  BY RunesAre, Zenon
<1> HIDE DEF a, b, c, d, e, f, S
<1>6. <<a, u.hostname, b, c, u.port, d, u.path, e, u.search, f, u.hash>> \in Seq(S)
  BY <1>3, <1>5, Eleven, Zenon
<1> QED
  BY <1>4, <1>6, Zenon DEF S

\* A scheme in lower case is a sequence of characters.
LEMMA MarshalSchemeIs ==
    ASSUME NEW T, "h" \in T, NEW scheme \in Seq(T)
    PROVE  MarshalScheme(scheme) \in Seq(T)
BY DEF MarshalScheme

\* The full URL of any of the URLs is the whole one, cut at the limit as a whole.
LEMMA FullURLHolds ==
    ASSUME NEW u \in Runes
    PROVE  LET whole == MarshalScheme(u.protocol) \o <<":", "/", "/">> \o FlattenSeq(FullURLParts(u)) IN
           MarshalFullURL(u) = TruncateRunes(whole, MaxRunes)
<1> DEFINE scheme == MarshalScheme(u.protocol) \o <<":", "/", "/">>
           parts == FullURLParts(u)
<1>1. ":" \in Characters /\ "/" \in Characters /\ "h" \in Characters
  BY Zenon DEF Characters
<1>2. u.protocol \in Seq(Characters)
  BY RunesAre, Zenon
<1>3. MarshalScheme(u.protocol) \in Seq(Characters)
  BY <1>1, <1>2, MarshalSchemeIs, Zenon
<1>4. scheme \in Seq(Characters)
  <2>1. <<":", "/", "/">> \in Seq(Characters)
    BY <1>1, Strings, Zenon
  <2> QED
    BY <1>3, <2>1, Strings, Zenon
<1>5. parts \in Seq(Seq(Characters))
  BY FullURLPartsAre, Zenon
<1>6. scheme = MarshalScheme(u.protocol) \o <<":", "/", "/">>
  BY Zenon
<1> HIDE DEF scheme
<1>7. MarshalFullURL(u) = TruncateRunes(scheme \o FlattenSeq(FullURLParts(u)), MaxRunes)
  BY <1>4, <1>5, <1>6, FullURLIs, Zenon
<1> QED
  BY <1>7, Zenon DEF scheme

\* The value that was written is one of its type.
LEMMA LeafIs ==
    ASSUME LeafKnown(leaf), leaf.type \in LeafTypes
    PROVE  leaf.value \in LeafValues[leaf.type]
<1>1. CASE leaf = NoLeaf
  <2>1. leaf.type = "none"
    BY <1>1 DEF NoLeaf
  <2> QED
    BY <2>1 DEF LeafTypes
<1>2. CASE \E t \in LeafTypes : \E v \in LeafValues[t] : leaf = [type |-> t, value |-> v]
  <2>1. PICK t \in LeafTypes : \E v \in LeafValues[t] : leaf = [type |-> t, value |-> v]
    BY <1>2, Zenon
  <2>2. PICK v \in LeafValues[t] : leaf = [type |-> t, value |-> v]
    BY <2>1, Zenon
  <2>3. leaf.type = t /\ leaf.value = v
    BY <2>2
  <2> QED
    BY <2>3, Zenon
<1> QED
  BY <1>1, <1>2, Zenon DEF LeafKnown

\* The types of which RoundTrips and FullURLExact say something.
LEMMA LeafTypesAre ==
    {"URL", "Cookies", "Headers", "RequestBody", "Time", "ID"} \subseteq LeafTypes
BY DEF LeafTypes

\* The full URL that is written is the whole one, cut at the limit (FullURLExact).
LEMMA FullURLIsExact == LeafKnown(leaf) => FullURLExact
<1> SUFFICES ASSUME LeafKnown(leaf), leaf.type = "URL" PROVE leaf.value \in Runes
  BY FullURLHolds, Zenon DEF FullURLExact
<1>1. leaf.type \in LeafTypes
  BY LeafTypesAre
<1>2. leaf.value \in URLs
  BY <1>1, LeafIs, LeafValuesAre, Zenon
<1> QED
  BY <1>2, Zenon DEF URLs

\* What is decoded from what was written is what was encoded (RoundTrips).
LEMMA ValuesRead == LeafKnown(leaf) => RoundTrips
<1> SUFFICES ASSUME LeafKnown(leaf) PROVE RoundTrips
  OBVIOUS
<1> DEFINE v == leaf.value
<1>1. ASSUME leaf.type = "Cookies" PROVE v \in PairsOf({1, 2})
  BY <1>1, LeafIs, LeafTypesAre, LeafValuesAre
<1>2. ASSUME leaf.type = "Headers" PROVE v \in DistinctPairs(Lists)
  BY <1>2, LeafIs, LeafTypesAre, LeafValuesAre
<1>3. ASSUME leaf.type = "RequestBody", "form" \in DOMAIN v
      PROVE  \E n \in Names : v.form \in [1..n -> Lists]
  <2>1. v \in RequestBodies
    BY <1>3, LeafIs, LeafTypesAre, LeafValuesAre
  <2> HIDE DEF v
  <2>2. CASE v \in {[raw |-> "s"]}
    <3>1. DOMAIN v = {"raw"}
      BY <2>2
    <3> QED
      BY <1>3, <3>1
  <2>3. CASE v \in [form : UNION {[1..n -> Lists] : n \in Names}]
    <3>1. v.form \in UNION {[1..n -> Lists] : n \in Names}
      BY <2>3
    <3> QED
      BY <3>1
  <2> QED
    BY <2>1, <2>2, <2>3, Zenon DEF RequestBodies
<1>4. ASSUME leaf.type = "Time" PROVE v \in Nat
  <2>1. v \in Times
    BY <1>4, LeafIs, LeafTypesAre, LeafValuesAre
  <2> HIDE DEF v
  <2>2. Times \subseteq Nat
    BY SMT DEF Times
  <2> QED
    BY <2>1, <2>2, Zenon
<1>5. ASSUME leaf.type = "ID" PROVE v \in IDs
  BY <1>5, LeafIs, LeafTypesAre, LeafValuesAre
<1> HIDE DEF v
<1>6. leaf.type = "Cookies" =>
        LET c == UnmarshalSorted(MarshalCookies(v)) IN
        /\ {c[i][1] : i \in DOMAIN c} = {v[i][1] : i \in DOMAIN v}
        /\ \A i \in DOMAIN c : c[i] = v[Max({j \in DOMAIN v : v[j][1] = c[i][1]})]
  BY <1>1, CookiesRoundTrip, Zenon
<1>7. leaf.type = "Headers" => ToSet(UnmarshalHeaders(MarshalHeaders(v))) = ToSet(v)
  BY <1>2, HeadersRoundTrip, Zenon
<1>8. leaf.type = "RequestBody" /\ "form" \in DOMAIN v =>
        LET form == UnmarshalForm(MarshalForm(v.form)) IN
        /\ \A k \in DOMAIN form : form[k] = v.form[k]
        /\ \A k \in DOMAIN v.form \ DOMAIN form : v.form[k] = <<>>
  BY <1>3, FormRoundTrip, Zenon
<1>9. leaf.type = "Time" =>
        0 <= v - UnmarshalTime(MarshalTime(v)) /\ v - UnmarshalTime(MarshalTime(v)) < 1000
  BY <1>4, TimeRoundTrip, ZenonT(30)
<1>10. leaf.type = "ID" => UnmarshalID(WriteHex(v)) = v
  BY <1>5, IDRoundTrip, Zenon
<1> QED
  BY <1>6, <1>7, <1>8, <1>9, <1>10, Zenon DEF RoundTrips, v

\* The line written for an event says what the event says: the encoders and the types
\* name the same fields, a block is a JSON document unless an encoder returned an
\* error, what is decoded is what was encoded, and the full URL is cut as a whole
\* (model/marshal_fastjson.go, model/marshal.go, model/model.go), for protocols whose
\* characters are allowed.
THEOREM EncodingsAreFaithful == ~OddSchemes => (EncSpec => []EncodingFaithful)
<1> SUFFICES ASSUME ~OddSchemes PROVE EncSpec => []EncodingFaithful
  OBVIOUS
<1>1. EncInit => EncInv
  BY EncInitInv
<1>2. EncInv /\ [EncNext]_encVars => EncInv'
  BY EncNextInv
<1>3. EncInv => EncodingFaithful
  BY BlocksAreWellFormed, ValuesRead, FullURLIsExact, Zenon DEF EncInv, EncodingFaithful
<1> QED
  BY <1>1, <1>2, <1>3, PTL DEF EncSpec
=============================================================================
