------------------------------- MODULE IOChan -------------------------------
(***************************************************************************)
(* internal/iochan/reader.go: a Reader, between the transport that reads   *)
(* (the producer of read requests) and the tracer loop that answers and    *)
(* closes.  A step is one channel operation or one critical section.       *)
(***************************************************************************)
EXTENDS Integers, Sequences

CONSTANT
    MaxReads      \* bound: calls of Read

VARIABLES
    readClosed, resp,  \* the channel resp, of capacity 1: closed, and its values
    reading,      \* the current Read: "idle", "selecting" or "waiting"
    reads,     \* number of Reads begun
    req,       \* the read request the consumer holds, 0 if none: which Read sent it
    got,       \* history: what the last Read returned: which Read it was an answer
               \* to, 0 for readErr, -1 before the first
    panicked   \* history: a send on a closed channel

ioVars == <<readClosed, resp, reading, reads, req, got, panicked>>

-----------------------------------------------------------------------------

ReadStart ==
    /\ reading = "idle" /\ reads < MaxReads
    /\ reads' = reads + 1
    /\ reading' = "selecting"
    /\ UNCHANGED <<readClosed, resp, req, got, panicked>>

\* The first case of Read's select: a value, or resp is closed.
ReadClosedCase ==
    /\ reading = "selecting" /\ (readClosed \/ resp # <<>>)
    /\ resp' = IF resp # <<>> THEN Tail(resp) ELSE resp
    /\ reading' = "idle" /\ got' = 0
    /\ UNCHANGED <<readClosed, reads, req, panicked>>

\* Its second case: the loop receives the request.  It never receives from a
\* reader it has closed.
ReadSendCase ==
    /\ reading = "selecting" /\ ~readClosed
    /\ reading' = "waiting"
    /\ req' = reads
    /\ UNCHANGED <<readClosed, resp, reads, got, panicked>>

\* Mutant: only an answer ends the wait.
ReadReturnWaits ==
    /\ reading = "waiting" /\ resp # <<>>
    /\ resp' = Tail(resp)
    /\ got' = Head(resp)
    /\ reading' = "idle"
    /\ UNCHANGED <<readClosed, reads, req, panicked>>

\* resp, ok := <-r.resp
ReadReturn ==
    /\ reading = "waiting" /\ (readClosed \/ resp # <<>>)
    /\ resp' = IF resp # <<>> THEN Tail(resp) ELSE resp
    /\ got' = IF resp # <<>> THEN Head(resp) ELSE 0
    /\ reading' = "idle"
    /\ UNCHANGED <<readClosed, reads, req, panicked>>

-----------------------------------------------------------------------------

\* Mutant: the request is kept after it was answered.
ForgetsNot(r) == r

\* The loop answers a request once: it then sets req.Buf to nil.
Forgets(r) == 0

\* Respond blocks while resp is full; it panics if resp is closed.
Respond ==
    /\ req # 0
    /\ Len(resp) < 1 \/ readClosed
    /\ IF readClosed THEN panicked' = TRUE /\ UNCHANGED resp
                     ELSE resp' = Append(resp, req) /\ UNCHANGED panicked
    /\ req' = Forgets(req)
    /\ UNCHANGED <<readClosed, reading, reads, got>>

\* Mutant: the request is kept when the reader is closed.
CancelsNot(r) == r

\* req.Buf = nil: "req will be canceled by CloseRead".
Cancels(r) == 0

\* CloseRead, which may be called again; the request the loop holds is dropped.
CloseRead ==
    /\ readClosed' = TRUE
    /\ req' = Cancels(req)
    /\ UNCHANGED <<resp, reading, reads, got, panicked>>

IOInit ==
    /\ readClosed = FALSE /\ resp = <<>> /\ reading = "idle" /\ reads = 0
    /\ req = 0 /\ got = -1 /\ panicked = FALSE

IONext == ReadStart \/ ReadClosedCase \/ ReadSendCase \/ ReadReturn
          \/ Respond \/ CloseRead

IOSpec == IOInit /\ [][IONext]_ioVars

-----------------------------------------------------------------------------
(* Properties *)

\* A Read returns the answer to its own request or the error of CloseRead:
\* never the answer to an earlier one, even if that was given and not received.
ReadsOwnAnswer == reading = "idle" => got \in {-1, 0, reads}

\* An answer is never sent on a channel that CloseRead has closed.
NoSendOnClosed == ~panicked

\* "any waiting or future Reads return" once the reader is closed.
ReadReturns == (reading # "idle" /\ readClosed) ~> reading = "idle"

\* What the tracer loop relies on: its answers reach the Read they are for or
\* nobody, and answering is safe at any time.
ReaderSafe == ReadsOwnAnswer /\ NoSendOnClosed
=============================================================================
