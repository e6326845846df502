----------------------------- MODULE BodyCapture -----------------------------
(***************************************************************************)
(* capturebody.go: request bodies are read through a BodyCapturer, which   *)
(* keeps the first bytes; transactions and errors copy them, truncated to  *)
(* stringLengthLimit characters, reading on if the handler has not read    *)
(* far enough.  Capturers are pooled.                                      *)
(*                                                                         *)
(* A byte is [req, kind], kind being "one" for a character of one byte,    *)
(* "first" or "second" for the bytes of a longer one.                      *)
(***************************************************************************)
EXTENDS Integers, Sequences, FiniteSets, FiniteSetsExt

CONSTANTS
    Req,                \* requests
    Kinds,              \* Kinds[r]: the kinds of the bytes of r's body
    Mode,               \* Mode[r]: capture_body when r arrives: what it is captured for
    Capturer,           \* capturers that the pool can hold or make
    StringLengthLimit,
    NoReq, NoCapturer

\* Bodies are of whole characters.
ASSUME BodyCaptureAssumption ==
    /\ StringLengthLimit \in Nat /\ NoReq \notin Req /\ NoCapturer \notin Capturer
    /\ \A r \in Req :
        /\ Kinds[r] \in Seq({"one", "first", "second"})
        /\ \A i \in 1..Len(Kinds[r]) :
            /\ Kinds[r][i] = "second" <=> i > 1 /\ Kinds[r][i - 1] = "first"
            /\ Kinds[r][i] = "first" => i < Len(Kinds[r])

UTFMax == 2

\* The body of r.
Body(r) == [i \in DOMAIN Kinds[r] |-> [req |-> r, kind |-> Kinds[r][i]]]

VARIABLES
    pool,       \* how often each capturer is in the pool or could still be made
    cap,        \* cap[c]: [originalBody (whose), buffer]
    bc,         \* bc[r]: the capturer of r's req.Body and context
    phase,      \* phase[r]: "new", "handling" or "done" (discarded)
    taken,      \* taken[r]: how many bytes of r's body have been read
    raw,        \* raw[r]: the body last set in a context for r: its bytes and for what
    split       \* history: split[r]: a Read by r's handler ended inside a character

bodyVars == <<pool, cap, bc, phase, taken, raw, split>>

-----------------------------------------------------------------------------

\* A byte that ends a character of two bytes, both there.
Second(b, i) == i > 1 /\ b[i].kind = "second" /\ b[i - 1].kind = "first"

\* Where `range` over a string finds its runes: a byte that is not part of a
\* whole character is a rune of its own.
RuneStarts(b) == {i \in DOMAIN b : ~Second(b, i)}

\* apmstrings.Truncate
Truncate(b, n) ==
    LET over == {i \in RuneStarts(b) : Cardinality({j \in RuneStarts(b) : j < i}) = n} IN
    IF over = {} THEN b ELSE SubSeq(b, 1, Min(over) - 1)

NumRunes(b) == Cardinality(RuneStarts(b))

\* limitedBuffer.Write
BufferWrite(buffer, bytes) ==
    LET rem == StringLengthLimit * UTFMax - Len(buffer) IN
    buffer \o SubSeq(bytes, 1, IF Len(bytes) > rem THEN rem ELSE Len(bytes))

-----------------------------------------------------------------------------

\* CaptureHTTPRequestBody of a request that has a body, when it is captured for
\* something.
CaptureHTTPRequestBody(r) ==
    /\ phase[r] = "new" /\ Mode[r] # {}
    /\ \E c \in Capturer :
        /\ pool[c] > 0
        /\ pool' = [pool EXCEPT ![c] = @ - 1]
        /\ cap' = [cap EXCEPT ![c] = [originalBody |-> r, buffer |-> <<>>]]
        /\ bc' = [bc EXCEPT ![r] = c]
    /\ phase' = [phase EXCEPT ![r] = "handling"]
    /\ UNCHANGED <<taken, raw, split>>

\* A Read of req.Body of r, by its handler or, once r is done, by a goroutine of
\* it that goes on; it may return fewer bytes than there are.
Read(r) ==
    /\ phase[r] \in {"handling", "done"} /\ bc[r] # NoCapturer
    /\ LET c == bc[r]
           o == cap[c].originalBody IN
       \E n \in 1..(Len(Body(o)) - taken[o]) :
        /\ taken' = [taken EXCEPT ![o] = @ + n]
        /\ cap' = [cap EXCEPT ![c].buffer =
                       BufferWrite(@, SubSeq(Body(o), taken[o] + 1, taken[o] + n))]
        /\ split' = [split EXCEPT ![o] =
               taken[o] + n < Len(Body(o)) /\ Second(Body(o), taken[o] + n + 1)]
    /\ UNCHANGED <<pool, bc, phase, raw>>

\* Mutant: as many bytes as characters are missing.
RemainingRunes(b) == StringLengthLimit - NumRunes(Truncate(b, StringLengthLimit))

\* What setContext still reads: as many bytes as the missing characters may have.
Remaining(b) == UTFMax * (StringLengthLimit - NumRunes(Truncate(b, StringLengthLimit)))

\* Context.SetHTTPRequestBody for the transaction or an error of r, and the
\* part of setContext that is about bodies that are no forms.  All of the
\* remaining body is taken, as far as it is needed, unless it ends in an error.
SetHTTPRequestBody(r, what) ==
    /\ phase[r] \in {"handling", "done"} /\ bc[r] # NoCapturer /\ what \in Mode[r]
    /\ LET c == bc[r]
           o == cap[c].originalBody
           n == Min({Remaining(cap[c].buffer), Len(Body(o)) - taken[o]})
           buffer == BufferWrite(cap[c].buffer, SubSeq(Body(o), taken[o] + 1, taken[o] + n)) IN
       /\ taken' = [taken EXCEPT ![o] = @ + n]
       /\ cap' = [cap EXCEPT ![c].buffer = buffer]
       /\ raw' = [raw EXCEPT ![r] = [bytes |-> Truncate(buffer, StringLengthLimit),
                                     late |-> phase[r] = "done", cut |-> split[o]]]
    /\ UNCHANGED <<pool, bc, phase, split>>

\* Mutant: the capturer is put back when the context is set, too.
PutsTwice(c) == [pool EXCEPT ![c] = @ + 2]

Puts(c) == [pool EXCEPT ![c] = @ + 1]

\* Discard.  The request the handler was given is a copy and keeps its Body.
Discard(r) ==
    /\ phase[r] = "handling"
    /\ pool' = Puts(bc[r])
    /\ phase' = [phase EXCEPT ![r] = "done"]
    /\ UNCHANGED <<cap, bc, taken, raw, split>>

BodyInit ==
    /\ pool = [c \in Capturer |-> 1]
    /\ cap = [c \in Capturer |-> [originalBody |-> NoReq, buffer |-> <<>>]]
    /\ bc = [r \in Req |-> NoCapturer] /\ phase = [r \in Req |-> "new"]
    /\ taken = [r \in Req |-> 0]
    /\ raw = [r \in Req |-> [bytes |-> <<>>, late |-> FALSE, cut |-> FALSE]]
    /\ split = [r \in Req |-> FALSE]

BodyNext == \E r \in Req :
    \/ CaptureHTTPRequestBody(r) \/ Read(r) \/ Discard(r)
    \/ \E what \in {"transaction", "error"} : SetHTTPRequestBody(r, what)

BodySpec == BodyInit /\ [][BodyNext]_bodyVars

-----------------------------------------------------------------------------
(* Properties *)

\* Two requests being handled never share a capturer.
CapturersPrivate ==
    \A q, r \in Req : phase[q] = "handling" /\ phase[r] = "handling" /\ bc[q] = bc[r]
                      => q = r \/ bc[q] = NoCapturer

\* The bytes of the first n characters of b, whose characters are whole.
FirstChars(b, n) ==
    LET next == {i \in DOMAIN b : /\ b[i].kind # "second"
                                  /\ Cardinality({j \in 1..(i - 1) : b[j].kind # "second"}) = n}
    IN SubSeq(b, 1, Min(next \cup {Len(b) + 1}) - 1)

\* The body reported for a request is the beginning of its own body, as many
\* whole characters as the limit allows, however the handler read it, and also if
\* goroutines of earlier requests read from its capturer; unless it was set after
\* Discard (an error reported late through a context that still holds the
\* capturer: gocontext.go:145), or while a read of the handler's ended inside a
\* character, whose first byte then counts as a character.
BodyExact ==
    \A r \in Req : raw[r].bytes # <<>> /\ ~raw[r].late /\ ~raw[r].cut =>
        raw[r].bytes = FirstChars(Body(r), StringLengthLimit)

\* What is reported as the body of a request is the beginning of that request's
\* body, although capturers are shared by all requests.
BodiesExact == CapturersPrivate /\ BodyExact
=============================================================================
