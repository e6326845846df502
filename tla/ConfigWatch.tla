----------------------------- MODULE ConfigWatch -----------------------------
(***************************************************************************)
(* transport/http.go: the goroutine of HTTPTransport.WatchConfig, which    *)
(* polls the server for the central configuration and offers what it       *)
(* learns to the tracer loop, and the server's answers as configRequest    *)
(* reads them.  Configurations are numbered in the order they are made;    *)
(* the number is also the etag.                                            *)
(***************************************************************************)
EXTENDS Integers

CONSTANTS
    MaxConfigs,   \* bound: changes of the central configuration
    MaxBad,       \* bound: answers other than 200 with a body, an etag, and 304
    MaxAges,      \* the values of max-age in answers, -1 standing for none that
                  \* parseCacheControl accepts
    NoConfig      \* no attributes, and no etag

ASSUME ConfigWatchAssumption ==
    /\ MaxConfigs \in Nat /\ MaxBad \in Nat
    /\ MaxAges \subseteq Nat \cup {-1}
    /\ NoConfig \notin Nat

\* Seconds.
DefaultMaxAge == 300
MinErrorMaxAge == 5

VARIABLES
    etag, outCh, change,  \* variables of the goroutine; outCh: the channel out is not nil
    poll,         \* "waiting" in the select, "asking", or "done"
    wait,         \* what the timer was last set to
    config,       \* the server's current configuration
    received,     \* history: the configuration the tracer loop received last
    repeated,     \* history: it received the same configuration twice
    blank,        \* history: an answer held a configuration but no etag
    overwritten,  \* history: a change was replaced by a later error before it was received
    answer,       \* history: the last answer
    bad           \* bounded

watchVars == <<etag, outCh, change, poll, wait, config, received, repeated, blank,
               overwritten, answer, bad>>

-----------------------------------------------------------------------------
(* configRequest *)

\* What configRequest makes of an answer: an error or not, attributes or nil
\* (NoConfig), the etag and the time until the next poll.
Response(err, attrs, tag, maxAge) ==
    [err |-> err, attrs |-> attrs, etag |-> tag, maxAge |-> maxAge]

\* parseCacheControl and what configRequest does with its -1.
PollInterval(age) == IF age < 0 THEN DefaultMaxAge ELSE age

\* Mutant: errors are polled again as soon as the server says.
ErrorIntervalAny(age) == PollInterval(age)

\* The time to wait after a status that is an error.
ErrorInterval(age) ==
    IF PollInterval(age) < MinErrorMaxAge THEN MinErrorMaxAge ELSE PollInterval(age)

\* Client.Do fails.
Unanswered == Response(TRUE, NoConfig, NoConfig, DefaultMaxAge)

\* 304, 403 and 404: nothing new.
NotModified(age) == Response(FALSE, NoConfig, etag, PollInterval(age))

\* 200 with a body that can be decoded, an empty one included; tag is NoConfig
\* when the Etag header cannot be unquoted.
OK(tag, age) == Response(FALSE, config, tag, PollInterval(age))

\* 200 with any other body.
Undecodable(age) == Response(TRUE, NoConfig, config, PollInterval(age))

\* Any other status.
Failure(age) == Response(TRUE, NoConfig, NoConfig, ErrorInterval(age))

\* What a server with Kibana answers: 304 to the etag of the current
\* configuration, which the request names unless it is empty.
Good == {IF etag = config THEN NotModified(age) ELSE OK(config, age) : age \in MaxAges}

\* What it may answer otherwise.
Bad == {Unanswered} \cup UNION {{NotModified(age), OK(NoConfig, age), Undecodable(age),
                                 Failure(age)} : age \in MaxAges}

-----------------------------------------------------------------------------
(* WatchConfig *)

\* case out <- change: the tracer loop receives it.
WatchSend ==
    /\ poll = "waiting" /\ outCh
    /\ outCh' = FALSE
    /\ change' = NoConfig
    /\ IF change = NoConfig
       THEN UNCHANGED <<received, repeated>>
       ELSE received' = change /\ repeated' = (received = change)
    /\ UNCHANGED <<etag, poll, wait, config, blank, overwritten, answer, bad>>

\* case <-timer.C, and the request with the etag in If-None-Match.
WatchPoll ==
    /\ poll = "waiting"
    /\ poll' = "asking"
    /\ UNCHANGED <<etag, outCh, change, wait, config, received, repeated, blank, overwritten,
                   answer, bad>>

\* Mutant: only errors are.
OffersErrors(resp) == resp.err

\* Whether the loop is told: errors, and attributes.
Offers(resp) == resp.err \/ resp.attrs # NoConfig

\* Mutant: the etag is not kept.
NextEtagNone(resp) == NoConfig

\* Mutant: the etag of any answer is kept, an error's too.
NextEtagAny(resp) == resp.etag

\* The etag is that of the last attributes.
NextEtag(resp) == IF ~resp.err /\ resp.attrs # NoConfig THEN resp.etag ELSE etag

\* The rest of the iteration, the context not being done.
WatchAnswer(resp) ==
    /\ etag' = NextEtag(resp)
    /\ IF Offers(resp)
       THEN outCh' = TRUE /\ change' = resp.attrs
       ELSE UNCHANGED <<outCh, change>>
    /\ wait' = resp.maxAge
    /\ poll' = "waiting"
    /\ blank' = (blank \/ (resp.attrs # NoConfig /\ resp.etag = NoConfig))
    /\ overwritten' = (overwritten \/ (outCh /\ change # NoConfig /\ resp.err))
    /\ answer' = resp
    /\ UNCHANGED <<config, received, repeated>>

WatchGood == poll = "asking" /\ (\E resp \in Good : WatchAnswer(resp)) /\ UNCHANGED bad

WatchBad ==
    /\ poll = "asking"
    /\ bad < MaxBad
    /\ bad' = bad + 1
    /\ \E resp \in Bad : WatchAnswer(resp)

\* The context is done: a poll under way fails and is not reported.  The
\* channel is closed.
WatchCancel ==
    /\ poll # "done"
    /\ poll' = "done"
    /\ outCh' = FALSE /\ change' = NoConfig
    /\ UNCHANGED <<etag, wait, config, received, repeated, blank, overwritten, answer, bad>>

\* Someone changes the configuration in Kibana.
ChangeConfig ==
    /\ config < MaxConfigs
    /\ config' = config + 1
    /\ UNCHANGED <<etag, outCh, change, poll, wait, received, repeated, blank, overwritten,
                   answer, bad>>

WatchInit ==
    /\ etag = NoConfig /\ outCh = FALSE /\ change = NoConfig /\ poll = "waiting" /\ wait = 0
    /\ config = 0 /\ received = NoConfig /\ repeated = FALSE /\ blank = FALSE
    /\ overwritten = FALSE /\ answer = Response(FALSE, NoConfig, NoConfig, 0) /\ bad = 0

WatchNext ==
    \/ WatchSend \/ WatchPoll \/ WatchGood \/ WatchBad \/ WatchCancel \/ ChangeConfig

WatchSpec == WatchInit /\ [][WatchNext]_watchVars

-----------------------------------------------------------------------------
(* Properties *)

\* A configuration the goroutine has the etag of, and so will not be sent
\* again, has been received, is being offered, or was overwritten by an error
\* that came before the loop received it (http.go:502).
ChangeNotLost ==
    etag # NoConfig /\ poll # "done" =>
        received = etag \/ (outCh /\ change = etag) \/ overwritten

\* The loop is not given a configuration again that it already has, unless the
\* server left out an etag.
NotRepeated == repeated => blank

\* After an answer with an error status the server is left alone for five
\* seconds at least, whatever it says.  (A body that cannot be decoded is an
\* error too, but not slowed down.)
ErrorsPaced == answer.err /\ answer.etag = NoConfig => wait >= MinErrorMaxAge

\* The last configuration arrives, unless the watch is stopped or an error took
\* its place.
ConfigArrives == (config = MaxConfigs) ~> (received = MaxConfigs \/ poll = "done" \/ overwritten)

\* The tracer loop is given every change, once, and a server in trouble is not
\* asked too often.
WatchExact == ChangeNotLost /\ NotRepeated /\ ErrorsPaced
=============================================================================
