----------------------------- MODULE BlockQueue -----------------------------
(***************************************************************************)
(* What internal/ringbuffer promises its users: a first-in first-out queue *)
(* of blocks that never holds more than Cap bytes.  Writing a block that   *)
(* does not fit evicts the oldest blocks, and no more of them than needed; *)
(* a block that could never fit is refused.  RingBuffer implements this    *)
(* specification, and TracerLoop uses its eviction rule.                   *)
(***************************************************************************)
EXTENDS Integers, Sequences

CONSTANTS
    Block,   \* the blocks that callers write
    Bytes,   \* Bytes[b]: the bytes block b occupies, its header included
    Cap      \* Buffer.Cap()

VARIABLES
    queue,   \* the blocks held, oldest first
    out      \* what the last operation handed out: evicted or taken blocks

vars == <<queue, out>>

-----------------------------------------------------------------------------

\* Bytes occupied by the blocks of q (Buffer.Len for a buffer holding q).
Used(q) ==
    LET upto[i \in 0..Len(q)] ==
            IF i = 0 THEN 0 ELSE upto[i - 1] + Bytes[q[i]]
    IN  upto[Len(q)]

\* Mutant: the last of the k blocks is left behind.
WithoutFewer(q, k) == IF k = 0 THEN q ELSE SubSeq(q, k, Len(q))

\* What is left of q once its k oldest blocks are evicted.
Without(q, k) == SubSeq(q, k + 1, Len(q))

\* Block b fits next to the blocks of q.
Fits(q, b) == Bytes[b] <= Cap - Used(q)

\* Making room for b in q evicts exactly the k oldest blocks: the loop of
\* WriteBlock runs while b does not fit, so k is the least number that helps.
Evicts(q, b, k) ==
    /\ Fits(Without(q, k), b)
    /\ \A j \in 0..(k - 1) : ~Fits(Without(q, j), b)

TooLarge(b) == Bytes[b] > Cap

-----------------------------------------------------------------------------

Init == queue = <<>> /\ out = <<>>

\* Buffer.WriteBlock refuses a block larger than the whole buffer.
Refuse ==
    /\ \E b \in Block : TooLarge(b)
    /\ out' = <<>>
    /\ UNCHANGED queue

\* Buffer.WriteBlock: evict, oldest first, what stands in the way; append.
Put ==
    \E b \in Block : \E k \in 0..Len(queue) :
        /\ ~TooLarge(b)
        /\ Evicts(queue, b, k)
        /\ queue' = Append(Without(queue, k), b)
        /\ out' = SubSeq(queue, 1, k)

\* Buffer.WriteBlockTo: hand out the oldest block; nothing when empty.
Take ==
    \/ queue = <<>> /\ out' = <<>> /\ UNCHANGED queue
    \/ queue # <<>> /\ out' = <<Head(queue)>> /\ queue' = Tail(queue)

Next == Refuse \/ Put \/ Take

Spec == Init /\ [][Next]_vars
=============================================================================
