---------------------------- MODULE ErrorCapture ----------------------------
(***************************************************************************)
(* Errors: NewError and NewErrorLog turn a Go error, whose causes form a   *)
(* graph that may have cycles, into a tree of exceptions; SetTransaction   *)
(* and SetSpan link it to a transaction that another goroutine may end     *)
(* meanwhile; Send hands it to the tracer's loop, which builds the model   *)
(* of it and puts the ErrorData back into a pool.                          *)
(*                                                                         *)
(* There is one ErrorData and one TransactionData, each used again and     *)
(* again as sync.Pool allows.  Messages, types, codes and attributes of    *)
(* exceptions are left out; a frame is a function and whether it is a      *)
(* library's.                                                              *)
(***************************************************************************)
EXTENDS Integers, Sequences, FiniteSets, SequencesExt, FiniteSetsExt

CONSTANTS
    PointerErr,         \* errors that are pointers: the only ones with causes
    ValueErr,           \* errors that are values
    MaxErrorTreeNodes,  \* maxErrorTreeNodes
    StackTraceLimit,    \* stack_trace_limit
    MaxErrors,          \* errors reported, one after the other
    MaxTransactions,    \* transactions, one after the other
    NoErr               \* no error value

ASSUME ErrorBounds ==
    /\ {MaxErrorTreeNodes, MaxErrors, MaxTransactions} \subseteq Nat \ {0}
    /\ StackTraceLimit \in Nat /\ NoErr \notin PointerErr \cup ValueErr

ErrValue == PointerErr \cup ValueErr

\* The functions of frames.
Function == ErrValue \cup {"lib", "apm", "caller"}

StackFrame(fn, library) == [fn |-> fn, library |-> library]

\* What an error's StackTrace method returns, if it has one: a library's frame
\* in front of one of the application, or either of them.
Stacks(n) == {<<>>, <<StackFrame(n, FALSE)>>, <<StackFrame("lib", TRUE), StackFrame(n, FALSE)>>}

\* Errors as the program makes them: what Unwrap or Cause returns, and whether
\* an ErrorDetailer for the type (net.OpError, os.PathError...) adds the causes
\* once more.
ErrorGraphs ==
    [causes : [PointerErr -> UNION {[1..k -> ErrValue] : k \in 0..2}],
     detailed : SUBSET {CHOOSE n \in PointerErr : TRUE},
     stack : {f \in [ErrValue -> UNION {Stacks(n) : n \in ErrValue}] :
                 \A n \in ErrValue : f[n] \in IF n \in ValueErr THEN {<<>>} ELSE Stacks(n)}]

\* Errors without causes and stack traces.
PlainGraph == [causes |-> [n \in PointerErr |-> <<>>], detailed |-> {},
               stack |-> [n \in ErrValue |-> <<>>]]

-----------------------------------------------------------------------------
(* From an error to exceptions *)

\* AppendErrorStacktrace, and AppendStacktrace of the frames of the caller.
Limited(frames) == SubSeq(frames, 1, Min({Len(frames), StackTraceLimit}))

CallerFrames == <<StackFrame("apm", TRUE), StackFrame("caller", FALSE)>>

\* ErrorDetails.Cause
Causes(g, n) ==
    IF n \in ValueErr THEN <<>>
    ELSE g.causes[n] \o (IF n \in g.detailed THEN g.causes[n] ELSE <<>>)

\* Mutant: the limit is checked after the error has been counted.
MayDescendMore(count) == count <= MaxErrorTreeNodes

\* The check in front of each cause.
MayDescend(count) == count < MaxErrorTreeNodes

\* An error with a pointer that has been met before.
Repeated(b, n) == n \in PointerErr /\ n \in b.seen

\* exceptionDataBuilder.init for the error n, with the builder's state b.
InitException(g, b0, n0) ==
    LET init[b \in [count : Nat, seen : SUBSET PointerErr], n \in ErrValue] ==
            LET counted == [b EXCEPT !.count = @ + 1]
                entered == [counted EXCEPT !.seen = IF n \in PointerErr THEN @ \cup {n} ELSE @]
                Descend(acc, c) ==
                    IF ~MayDescend(acc.b.count) THEN acc
                    ELSE LET r == init[acc.b, c] IN
                         [b |-> r.b, cause |-> IF r.ok THEN Append(acc.cause, r.exception) ELSE acc.cause]
                all == FoldLeft(Descend, [b |-> entered, cause |-> <<>>], Causes(g, n))
            IN IF Repeated(b, n) THEN [ok |-> FALSE, b |-> counted]
               ELSE [ok |-> TRUE, b |-> all.b,
                     exception |-> [err |-> n, stack |-> Limited(g.stack[n]), cause |-> all.cause]]
    IN init[b0, n0]

NoException == [err |-> NoErr, stack |-> <<>>, cause |-> <<>>]

Exception(g, n) ==
    IF n = NoErr THEN NoException
    ELSE InitException(g, [count |-> 0, seen |-> {}], n).exception

\* The trees of exceptions that are depth high at most, one pointer below another
\* being a different one.
Trees[depth \in Nat] ==
    [err : ErrValue \cup {NoErr}, stack : Seq([fn : Function, library : BOOLEAN]),
     cause : IF depth = 0 THEN {<<>>} ELSE Seq(Trees[depth - 1])]
Tree == Trees[Cardinality(PointerErr) + 1]

\* The exceptions of a tree, an exception before its causes.
Exceptions(x) ==
    LET all[y \in Tree] == <<y>> \o FlattenSeq([i \in DOMAIN y.cause |-> all[y.cause[i]]])
    IN all[x]

-----------------------------------------------------------------------------
(* The model of an error *)

\* Mutant: the frames of the causes come first.
ModelFramesCausesFirst(x) ==
    LET frames[y \in Tree] == FlattenSeq([i \in DOMAIN y.cause |-> frames[y.cause[i]]]) \o y.stack
    IN frames[x]

\* appendModelErrorStacktraceFrames: the frames of all exceptions in one array.
ModelFrames(x) ==
    LET frames[y \in Tree] == y.stack \o FlattenSeq([i \in DOMAIN y.cause |-> frames[y.cause[i]]])
    IN frames[x]

\* Mutant: the first frame, also of a library.
FirstFrame(frames) == IF frames = <<>> THEN "" ELSE frames[1].fn

\* stacktraceCulprit: the first frame that is not of a library.
StacktraceCulprit(frames) ==
    LET own == SelectSeq(frames, LAMBDA f : ~f.library) IN IF own = <<>> THEN "" ELSE own[1].fn

\* buildException: an exception takes the next frames of the array; the culprit
\* is set once its causes have been built.
BuildException(frames, s0, x0) ==
    LET build[s \in [offset : Nat, culprit : Function \cup {"", "explicit"}], x \in Tree] ==
            LET n == Len(x.stack)
                mine == SubSeq(frames, s.offset + 1, s.offset + n)
                Cause(acc, c) == LET r == build[acc.s, c] IN [s |-> r.s, out |-> acc.out \o r.out]
                built == FoldLeft(Cause, [s |-> [s EXCEPT !.offset = @ + n], out |-> <<>>], x.cause)
            IN [s |-> [built.s EXCEPT !.culprit = IF @ = "" THEN StacktraceCulprit(mine) ELSE @],
                out |-> <<[err |-> x.err, stack |-> mine]>> \o built.out]
    IN build[s0, x0]

\* buildModelError; the exceptions of the model as a sequence.
BuildModelError(e) ==
    LET frames == ModelFrames(e.exception) \o e.logStack
        built == IF e.exception.err = NoErr
                 THEN [s |-> [offset |-> 0, culprit |-> e.culprit], out |-> <<>>]
                 ELSE BuildException(frames, [offset |-> 0, culprit |-> e.culprit], e.exception)
        logStack == SubSeq(frames, built.s.offset + 1, built.s.offset + Len(e.logStack))
    IN [nr |-> e.nr, exceptions |-> built.out, isLog |-> e.isLog,
        logStack |-> IF e.isLog THEN logStack ELSE <<>>,
        culprit |-> IF built.s.culprit # "" \/ ~e.isLog THEN built.s.culprit
                    ELSE StacktraceCulprit(logStack),
        custom |-> e.custom, parent |-> e.parent, of |-> e]

-----------------------------------------------------------------------------
(* The life of errors and transactions *)

VARIABLES
    errData,    \* the ErrorData
    txnData,    \* the TransactionData: which transaction has it, and its custom context;
                \* `linked` is the last transaction that an error was linked to
    reported    \* the model of the error written last, if any

errorVars == <<errData, txnData, reported>>

Unset ==
    [phase |-> "pooled", nr |-> 0, recording |-> FALSE, isLog |-> FALSE, exception |-> NoException,
     logStack |-> <<>>, culprit |-> "", custom |-> <<>>, parent |-> "", tx |-> 0, snapshot |-> 0,
     cause |-> NoErr, graph |-> <<>>]

\* ErrorData.reset: what is kept are arrays without elements.
ErrReset(e) == [Unset EXCEPT !.nr = e.nr]

\* newError, then what NewError does: the exceptions, and the caller's stack
\* trace if the error has none.
NewError(g, n) ==
    /\ errData.phase = "pooled" /\ errData.nr < MaxErrors
    /\ \E recording \in BOOLEAN :
        LET x == Exception(g, n) IN
        errData' = [errData EXCEPT !.phase = "open", !.nr = @ + 1, !.recording = recording,
            !.cause = n, !.graph = IF recording THEN <<g>> ELSE <<>>,
            !.exception = IF ~recording THEN @
                          ELSE IF x.stack # <<>> THEN x
                          ELSE [x EXCEPT !.stack = Limited(CallerFrames)]]
    /\ UNCHANGED <<txnData, reported>>

\* newError and NewErrorLog, whose record may have an error; there is no stack
\* trace.
NewErrorLog(g, n) ==
    /\ errData.phase = "pooled" /\ errData.nr < MaxErrors
    /\ \E recording \in BOOLEAN :
        errData' = [errData EXCEPT !.phase = "open", !.nr = @ + 1, !.recording = recording,
            !.cause = n, !.graph = IF recording /\ n # NoErr THEN <<g>> ELSE <<>>,
            !.isLog = recording,
            !.exception = IF recording THEN Exception(g, n) ELSE @]
    /\ UNCHANGED <<txnData, reported>>

\* SetStacktrace, of the log record if there is one.
SetStacktrace ==
    /\ errData.phase = "open" /\ errData.logStack = <<>>
    /\ errData' = IF errData.isLog THEN [errData EXCEPT !.logStack = Limited(CallerFrames)]
                  ELSE [errData EXCEPT !.exception.stack = Limited(CallerFrames)]
    /\ UNCHANGED <<txnData, reported>>

\* The user sets Culprit.
SetCulprit ==
    /\ errData.phase = "open" /\ errData.culprit = ""
    /\ errData' = [errData EXCEPT !.culprit = "explicit"]
    /\ UNCHANGED <<txnData, reported>>

Custom(who, nr) == [who |-> who, nr |-> nr]

\* Context.SetCustom of the error, at most once.
SetErrorCustom ==
    /\ errData.phase = "open"
    /\ \A i \in DOMAIN errData.custom : errData.custom[i] # Custom("error", errData.nr)
    /\ errData' = [errData EXCEPT !.custom = Append(@, Custom("error", errData.nr))]
    /\ UNCHANGED <<txnData, reported>>

\* The first half of SetTransaction and SetSpan, under the transaction's lock:
\* the custom context of a transaction that has not ended is kept as a slice,
\* and the transaction has captured an error.  Each is called once, SetSpan last
\* as its comment asks.
ReadTransaction(parent) ==
    /\ errData.phase = "open" /\ txnData.nr > 0
    /\ errData.parent = "" \/ (errData.parent = "transaction" /\ parent = "span")
    /\ errData.tx # 0 => errData.tx = txnData.nr
    /\ errData' = [errData EXCEPT !.phase = "linking", !.parent = parent, !.tx = txnData.nr,
                       !.snapshot = IF txnData.state = "open" THEN txnData.len ELSE 0]
    /\ txnData' = IF txnData.state = "open"
                  THEN [txnData EXCEPT !.captured = TRUE, !.linked = txnData.nr] ELSE txnData
    /\ UNCHANGED reported

\* Mutant: the transaction's custom context is left behind the error's.
MergedAfter(own, theirs) == own \o theirs

\* What setSpanData leaves in Custom: the transaction's in front.
Merged(own, theirs) == theirs \o own

\* The second half, setSpanData, without the lock: what the slice's array holds
\* by now.
SetSpanData ==
    /\ errData.phase = "linking"
    /\ errData' = [errData EXCEPT !.phase = "open", !.snapshot = 0,
                       !.custom = Merged(@, SubSeq(txnData.array, 1, errData.snapshot))]
    /\ UNCHANGED <<txnData, reported>>

\* Send: the error is enqueued, or the queue is full and it is dropped; one of a
\* tracer that does not record is reset.
Send ==
    /\ errData.phase = "open"
    /\ \/ errData.recording /\ errData' = [errData EXCEPT !.phase = "queued"]
       \/ errData' = ErrReset(errData)
    /\ UNCHANGED <<txnData, reported>>

\* writeError of the tracer's loop.
WriteError ==
    /\ errData.phase = "queued"
    /\ reported' = <<BuildModelError(errData)>>
    /\ errData' = ErrReset(errData)
    /\ UNCHANGED txnData

\* A transaction is started with the TransactionData that the pool returns.
TxnStart ==
    /\ txnData.state = "pooled" /\ txnData.nr < MaxTransactions
    /\ txnData' = [txnData EXCEPT !.state = "open", !.nr = @ + 1]
    /\ UNCHANGED <<errData, reported>>

\* Context.SetCustom of the transaction.
TxnSetCustom ==
    /\ txnData.state = "open" /\ txnData.len = 0
    /\ txnData' = [txnData EXCEPT !.len = 1, !.array = <<Custom("transaction", txnData.nr)>>]
    /\ UNCHANGED <<errData, reported>>

\* Transaction.End
TxnEnd ==
    /\ txnData.state = "open"
    /\ txnData' = [txnData EXCEPT !.state = "queued",
                       !.outcome = IF txnData.captured THEN "failure" ELSE "success"]
    /\ UNCHANGED <<errData, reported>>

\* Mutant: errorCaptured is kept.
TxnResetKeeps(t) == [t EXCEPT !.state = "pooled", !.len = 0, !.outcome = ""]

\* TransactionData.reset: the array of the custom context is kept.
TxnReset(t) == [t EXCEPT !.state = "pooled", !.len = 0, !.outcome = "", !.captured = FALSE]

\* The tracer's loop has written the transaction.
TxnWritten ==
    /\ txnData.state = "queued"
    /\ txnData' = TxnReset(txnData)
    /\ UNCHANGED <<errData, reported>>

ErrorInit ==
    /\ errData = Unset
    /\ txnData = [state |-> "pooled", nr |-> 0, len |-> 0, array |-> <<>>, captured |-> FALSE,
                  outcome |-> "", linked |-> 0]
    /\ reported = <<>>

\* Errors without a transaction, of any shape.
CaptureNext ==
    \/ /\ errData.nr = 0
       /\ \E g \in ErrorGraphs, n \in ErrValue : NewError(g, n) \/ NewErrorLog(g, n)
    \/ SetStacktrace \/ SetCulprit \/ Send \/ WriteError

\* Errors without causes, and the transactions they are linked to.
LinkNext ==
    \/ \E n \in ValueErr : NewError(PlainGraph, n)
    \/ NewErrorLog(PlainGraph, NoErr)
    \/ SetErrorCustom
    \/ \E parent \in {"transaction", "span"} : ReadTransaction(parent)
    \/ SetSpanData \/ Send \/ WriteError
    \/ TxnStart \/ TxnSetCustom \/ TxnEnd \/ TxnWritten

\* Any errors and transactions.
ErrorNext == CaptureNext \/ LinkNext
ErrorSpec == ErrorInit /\ [][ErrorNext]_errorVars

-----------------------------------------------------------------------------
(* Properties *)

\* The errors that can be reached from a set of errors.
Reach(g, errs) ==
    LET reach[found \in SUBSET ErrValue] ==
            LET more == found \cup UNION {ToSet(Causes(g, n)) : n \in found} IN
            IF more = found THEN found ELSE reach[more]
    IN reach[errs]

\* However the causes of an error form cycles and share each other, the report
\* has at most maxErrorTreeNodes exceptions, one per pointer; and if there are few
\* enough ways to a cause, every error that can be reached is in it.
TreeBounded ==
    \A k \in DOMAIN reported : LET m == reported[k] IN
        /\ Len(m.exceptions) <= MaxErrorTreeNodes
        /\ \A i, j \in DOMAIN m.exceptions :
               m.exceptions[i].err = m.exceptions[j].err /\ m.exceptions[i].err \in PointerErr => i = j
        /\ \A h \in DOMAIN m.of.graph :
               LET g == m.of.graph[h]
                   all == Reach(g, {m.of.cause})
                   ways == FoldSet(LAMBDA n, sum : sum + Len(Causes(g, n)), 1, all)
               IN ways <= MaxErrorTreeNodes => {m.exceptions[i].err : i \in DOMAIN m.exceptions} = all

\* The frames of all exceptions pass through one array, yet every exception is
\* reported with the stack trace of its own error, the first one with the
\* caller's if it has none, and a log record with its own.
StacksKept ==
    \A k \in DOMAIN reported : LET m == reported[k] IN
        /\ m.logStack = m.of.logStack
        /\ \A i \in DOMAIN m.exceptions, h \in DOMAIN m.of.graph :
            \/ m.exceptions[i].stack = Limited(m.of.graph[h].stack[m.exceptions[i].err])
            \/ i = 1 /\ m.exceptions[i].stack = Limited(CallerFrames)

\* A culprit that the user set stays; any other is a function of the application
\* in the stack trace of an exception none of whose causes has one, or in the
\* log record's if no exception has one; and there is one if there is a function
\* of the application at all.
CulpritInnermost ==
    \A k \in DOMAIN reported :
        LET m == reported[k]
            Blamed(x) == StacktraceCulprit(x.stack)
            all == ToSet(Exceptions(m.of.exception))
        IN IF m.of.culprit # "" THEN m.culprit = m.of.culprit
           ELSE IF \A x \in all : Blamed(x) = ""
           THEN m.culprit = StacktraceCulprit(m.of.logStack)
           ELSE \E x \in all :
                   /\ m.culprit = Blamed(x) /\ m.culprit \in ErrValue \cup {"caller"}
                   /\ \A y \in ToSet(Tail(Exceptions(x))) : Blamed(y) = ""

\* Custom context set on the error comes last, where it takes precedence over the
\* transaction's, also if the error is linked to both a transaction and a span;
\* and none is left from an earlier error with the same ErrorData.
CustomPrecedence ==
    \A k \in DOMAIN reported : LET c == reported[k].custom IN
        \A i \in DOMAIN c : c[i].who = "error" => i = Len(c) /\ c[i].nr = reported[k].nr

\* A transaction is a failure by default exactly if an error was linked to it, or
\* to a span of it, before it ended; not because of an earlier transaction.
OutcomeOfErrors ==
    txnData.state = "queued" => (txnData.outcome = "failure" <=> txnData.linked = txnData.nr)

\* The report of an error shows the error: its causes, where each comes from,
\* and who is to blame.
ReportFaithful == TreeBounded /\ StacksKept /\ CulpritInnermost

\* Errors and transactions that use the same pooled data do not mix.
PooledDataSeparate == CustomPrecedence /\ OutcomeOfErrors
=============================================================================
