---------------------------- MODULE HTTPTransport ----------------------------
(***************************************************************************)
(* transport/http.go: the servers of an HTTPTransport.  The sender streams *)
(* events to the current server and moves on to the next one when a        *)
(* request fails; goroutines that run maybeRefreshServerVersion ask the    *)
(* current server for its version, which is cached.                        *)
(*                                                                         *)
(* A request is two steps, sending it and using its answer; in between     *)
(* everything else may happen.                                             *)
(***************************************************************************)
EXTENDS Integers, Sequences, FiniteSets, SequencesExt

CONSTANTS
    Server,       \* the servers whose URLs are configured
    Version,      \* Version[s]: the major version parseMajorVersion finds in what
                  \* server s says its version is, 0 if it finds none
    Refresher,    \* goroutines running maybeRefreshServerVersion
    NoServer      \* no server

ASSUME HTTPTransportAssumption ==
    /\ IsFiniteSet(Server) /\ Server # {} /\ NoServer \notin Server
    /\ Version \in [Server -> Nat]

NumURLs == Cardinality(Server)

VARIABLES
    urls,         \* the three lists of URLs, each as the servers they point to
    urlIndex, majorServerVersion,
    stream,       \* SendStream: its pc and its local variable urlIndex
    refresh,      \* refresh[r]: MajorServerVersion in goroutine r: pc and server asked
    versionOf,    \* history: the server whose version is cached
    late,         \* history: it was stored when that server was not the current one
    moved,        \* history: it was stored before the last SetServerURL
    failed        \* history: the servers that failed since the last success, in order

serverVars == <<urls, urlIndex, majorServerVersion, stream, refresh, versionOf, late,
                moved, failed>>

-----------------------------------------------------------------------------
(* Construction *)

\* Mutant: the lists are shuffled one by one.
ShufflesApart == {<<a, b, b>> : a \in SetToSeqs(Server), b \in SetToSeqs(Server)}

\* SetServerURL exchanges the same elements of the intake, configuration and
\* profile URLs; Fisher and Yates' algorithm reaches every permutation.
Shuffles == {<<a, a, a>> : a \in SetToSeqs(Server)}

\* SetServerURL on a transport that no goroutine is using.  The version of the
\* last server stays.
SetServerURL ==
    /\ stream.pc = "idle" /\ \A r \in Refresher : refresh[r].pc = "idle"
    /\ urls' \in Shuffles
    /\ urlIndex' = 0
    /\ moved' = (majorServerVersion # 0)
    /\ failed' = <<>>
    /\ UNCHANGED <<majorServerVersion, stream, refresh, versionOf, late>>

Current == urls[1][urlIndex + 1]

-----------------------------------------------------------------------------
(* SendStream *)

SendStream ==
    /\ stream.pc = "idle"
    /\ stream' = [pc |-> "sending", url |-> urlIndex]
    /\ UNCHANGED <<urls, urlIndex, majorServerVersion, refresh, versionOf, late, moved,
                   failed>>

\* The server answers 200 or 202.
SendStreamOK ==
    /\ stream.pc = "sending"
    /\ stream' = [stream EXCEPT !.pc = "idle"]
    /\ failed' = <<>>
    /\ UNCHANGED <<urls, urlIndex, majorServerVersion, refresh, versionOf, late, moved>>

\* Mutant: the first two servers take turns.
NextURLToggles(u) == IF u = 0 /\ NumURLs > 1 THEN 1 ELSE 0

NextURL(u) == (u + 1) % NumURLs

\* No answer, or another status.  Two atomic stores, first the next URL ...
SendStreamFails ==
    /\ stream.pc = "sending"
    /\ urlIndex' = NextURL(stream.url)
    /\ stream' = [stream EXCEPT !.pc = "failed"]
    /\ failed' = SubSeq(<<urls[1][stream.url + 1]>> \o failed, 1,
                        IF Len(failed) < NumURLs THEN Len(failed) + 1 ELSE NumURLs)
    /\ UNCHANGED <<urls, majorServerVersion, refresh, versionOf, late, moved>>

\* Mutant: the version of the last server is kept.
InvalidateVersionNot ==
    /\ stream.pc = "failed"
    /\ stream' = [stream EXCEPT !.pc = "idle"]
    /\ UNCHANGED <<urls, urlIndex, majorServerVersion, refresh, versionOf, late, moved,
                   failed>>

\* ... then the version, which was that of the server at the last URL.
InvalidateVersion ==
    /\ stream.pc = "failed"
    /\ majorServerVersion' = 0
    /\ versionOf' = NoServer
    /\ late' = FALSE /\ moved' = FALSE
    /\ stream' = [stream EXCEPT !.pc = "idle"]
    /\ UNCHANGED <<urls, urlIndex, refresh, failed>>

-----------------------------------------------------------------------------
(* MajorServerVersion *)

\* The version is asked for when none is cached ...
MajorServerVersion(r) ==
    /\ refresh[r].pc = "idle"
    /\ majorServerVersion = 0
    /\ refresh' = [refresh EXCEPT ![r] = [pc |-> "asking", server |-> Current]]
    /\ UNCHANGED <<urls, urlIndex, majorServerVersion, stream, versionOf, late, moved,
                   failed>>

\* ... and stored, if there is an answer, it can be decoded and it holds a
\* version.
RefreshMajorServerVersion(r, ok) ==
    /\ refresh[r].pc = "asking"
    /\ refresh' = [refresh EXCEPT ![r].pc = "idle"]
    /\ LET s == refresh[r].server IN
       IF ok /\ Version[s] > 0
       THEN /\ majorServerVersion' = Version[s]
            /\ versionOf' = s
            /\ late' = (s # Current)
            /\ moved' = FALSE
       ELSE UNCHANGED <<majorServerVersion, versionOf, late, moved>>
    /\ UNCHANGED <<urls, urlIndex, stream, failed>>

-----------------------------------------------------------------------------

\* A transport that newHTTPTransportOptions has just made.
ServerInit ==
    /\ urls \in Shuffles
    /\ urlIndex = 0 /\ majorServerVersion = 0
    /\ stream = [pc |-> "idle", url |-> 0]
    /\ refresh = [r \in Refresher |-> [pc |-> "idle", server |-> NoServer]]
    /\ versionOf = NoServer /\ late = FALSE /\ moved = FALSE /\ failed = <<>>

ServerNext ==
    \/ SetServerURL
    \/ SendStream \/ SendStreamOK \/ SendStreamFails \/ InvalidateVersion
    \/ \E r \in Refresher : \/ MajorServerVersion(r)
                            \/ \E ok \in BOOLEAN : RefreshMajorServerVersion(r, ok)

ServerSpec == ServerInit /\ [][ServerNext]_serverVars

-----------------------------------------------------------------------------
(* Properties *)

\* The cached version is that of the current server, except between the two
\* stores of a failing SendStream, after an answer that came when the current
\* server had already changed (until the next failure: http.go stores it
\* without looking), and after SetServerURL (which does not clear it).  The
\* tracer drops unsampled transactions by this version.
VersionCurrent ==
    majorServerVersion # 0 =>
        \/ versionOf = Current /\ majorServerVersion = Version[Current]
        \/ stream.pc = "failed" \/ late \/ moved

\* Consecutive failures try every server before one is tried again: "the
\* following request will be sent to the next URL in the list".
EveryServerTried == \A i, j \in DOMAIN failed : i # j => failed[i] # failed[j]

\* The event, configuration and profile requests of the same urlIndex go to the
\* same server, whatever the shuffle.
SameServer == \A i \in 1..NumURLs : Cardinality({urls[k][i] : k \in 1..3}) = 1

\* Whoever asks, and whenever requests fail, the servers are used in turn and the
\* version in the cache is that of the server in use.
ServersAgree == VersionCurrent /\ EveryServerTried /\ SameServer
=============================================================================
