----------------------------- MODULE RingBuffer -----------------------------
(***************************************************************************)
(* internal/ringbuffer/buffer.go: blocks of bytes, each behind a header,   *)
(* laid out in a circular array.  A cell of the array stands for a byte    *)
(* and remembers which byte of which block was copied into it, so what is  *)
(* read back can be compared with what was written.                        *)
(*                                                                         *)
(* WriteBlock is its steps: the size test, one eviction per turn of its    *)
(* loop, the copy.  The buffer has one user (the tracer loop), so nothing  *)
(* else happens between them.                                              *)
(***************************************************************************)
EXTENDS Integers, Sequences

CONSTANTS
    Block,             \* blocks callers may write
    Size,              \* Size[b]: the number of payload bytes, len(p)
    Cap,               \* len(b.buf)
    BlockHeaderSize    \* bytes of a block header (5 in the code)

ASSUME RingBufferAssumption ==
    /\ Cap \in Nat \ {0}
    /\ BlockHeaderSize \in Nat \ {0}
    /\ Size \in [Block -> Nat]

VARIABLES
    buf, len, write, read,   \* the fields of Buffer
    writing,                 \* <<b>> while WriteBlock(b) runs, else <<>>
    blocks,                  \* history: the blocks held, oldest first
    evicted,                 \* history: blocks evicted by the running WriteBlock
    out                      \* history: what the last operation handed out

vars == <<buf, len, write, read, writing, blocks, evicted, out>>

-----------------------------------------------------------------------------

\* Byte i of the header of block b, and byte i of its payload.
HeaderByte(b, i) == <<"header", b, i>>
PayloadByte(b, i) == <<"payload", b, i>>
Header(b) == [i \in 1..BlockHeaderSize |-> HeaderByte(b, i)]
Payload(b) == [i \in 1..Size[b] |-> PayloadByte(b, i)]

Least(x, y) == IF x < y THEN x ELSE y

\* Mutant: an index that reaches the end of the array is not wrapped.
AfterNoModulo(i, n) ==
    IF Cap - i < n THEN Least(n - (Cap - i), Cap) ELSE i + n

\* The index after n bytes are copied to or from the array at index i: a copy
\* that reaches the end of the array goes on at its start.
After(i, n) ==
    IF Cap - i < n THEN Least(n - (Cap - i), Cap) ELSE (i + n) % Cap

\* Mutant: the second piece of the copy is left out.
CopyToFirstPiece(mem, i, data) ==
    [j \in 0..(Cap - 1) |->
        IF i <= j /\ j < i + Len(data) THEN data[j - i + 1] ELSE mem[j]]

\* The array after data is copied into it at index i, in at most two pieces.
CopyTo(mem, i, data) ==
    LET n == Least(Len(data), Cap - i)
        m == Least(Len(data) - n, Cap)
    IN  [j \in 0..(Cap - 1) |->
            IF n < Len(data) /\ j < m THEN data[n + j + 1]
            ELSE IF i <= j /\ j < i + n THEN data[j - i + 1]
            ELSE mem[j]]

\* n bytes read from the array at index i, in at most two pieces.
CopyFrom(i, n) ==
    [j \in 1..n |-> IF i + j - 1 < Cap THEN buf[i + j - 1] ELSE buf[i + j - 1 - Cap]]

-----------------------------------------------------------------------------

\* The header at the read index is that of block b: its tag and its size are
\* decoded from BlockHeaderSize bytes, which may wrap around.
HeaderIs(b) == CopyFrom(read, BlockHeaderSize) = Header(b)

\* Mutant: the header's bytes stay accounted for.
ConsumePayloadOnly(b) ==
    /\ read' = After(After(read, BlockHeaderSize), Size[b])
    /\ len' = len - Size[b]

\* WriteBlockTo with a writer that does not fail: consume the header, hand out
\* the payload, which may wrap around.
Consume(b) ==
    LET start == After(read, BlockHeaderSize)
        size == Size[b]
        wraps == start + size > Cap
    IN  /\ read' = IF wraps THEN (size - (Cap - start)) % Cap
                            ELSE (start + size) % Cap
        /\ len' = len - BlockHeaderSize - size

\* The bytes WriteBlockTo hands to its writer.
Handed(b) == CopyFrom(After(read, BlockHeaderSize), Size[b])

\* WriteBlockTo, with the writers the tracer gives it, which never fail: a
\* zlib.Writer over a bytes.Buffer, and ioutil.Discard for evicted blocks.
WriteBlockTo ==
    /\ writing = <<>>
    /\ IF len = 0
       THEN out' = <<>> /\ UNCHANGED <<len, read, blocks>>
       ELSE \E b \in Block : /\ HeaderIs(b)
                            /\ Consume(b)
                            /\ blocks' = Tail(blocks)
                            /\ out' = <<<<b, Handed(b)>>>>
    /\ UNCHANGED <<buf, write, writing, evicted>>

\* WriteBlock refuses a block that is larger than the buffer.
WriteBlockTooLarge(b) ==
    /\ writing = <<>>
    /\ Size[b] + BlockHeaderSize > Cap
    /\ out' = <<>>
    /\ UNCHANGED <<buf, len, write, read, writing, blocks, evicted>>

WriteBlock(b) ==
    /\ writing = <<>>
    /\ Size[b] + BlockHeaderSize <= Cap
    /\ writing' = <<b>>
    /\ UNCHANGED <<buf, len, write, read, blocks, evicted, out>>

\* Mutant: a block that fits exactly is taken not to fit.
HasRoomToSpare(b) == Size[b] + BlockHeaderSize < Cap - len

\* The condition that ends WriteBlock's loop.
HasRoom(b) == Size[b] + BlockHeaderSize <= Cap - len

\* A turn of WriteBlock's loop: too little room, so the oldest block goes to
\* ioutil.Discard and to the Evicted callback.
Evict ==
    /\ writing # <<>>
    /\ ~HasRoom(writing[1])
    /\ len # 0
    /\ \E b \in Block : /\ HeaderIs(b)
                       /\ Consume(b)
                       /\ evicted' = Append(evicted, <<b, Handed(b)>>)
                       /\ blocks' = Tail(blocks)
    /\ UNCHANGED <<buf, write, writing, out>>

\* The rest of WriteBlock: header and payload are copied in.
Copy ==
    /\ writing # <<>>
    /\ HasRoom(writing[1])
    /\ LET b == writing[1]
           start == After(write, BlockHeaderSize)
       IN  /\ buf' = CopyTo(CopyTo(buf, write, Header(b)), start, Payload(b))
           /\ write' = After(start, Size[b])
           /\ len' = len + Size[b] + BlockHeaderSize
           /\ blocks' = Append(blocks, b)
    /\ writing' = <<>>
    /\ out' = evicted
    /\ evicted' = <<>>
    /\ UNCHANGED read

Init ==
    /\ buf = [i \in 0..(Cap - 1) |-> <<>>]
    /\ len = 0 /\ write = 0 /\ read = 0
    /\ writing = <<>>
    /\ blocks = <<>> /\ evicted = <<>> /\ out = <<>>

Next ==
    \/ WriteBlockTo
    \/ \E b \in Block : WriteBlock(b) \/ WriteBlockTooLarge(b)
    \/ Evict
    \/ Copy

Spec == Init /\ [][Next]_vars

-----------------------------------------------------------------------------
(* Properties *)

\* The indices stay inside the array and len inside its size.
TypeOK ==
    /\ len \in 0..Cap
    /\ write \in 0..(Cap - 1)
    /\ read \in 0..(Cap - 1)
    /\ Len(writing) \in 0..1

\* "Len returns the number of bytes currently in the buffer": the bytes from
\* the read index up to the write index, around the end of the array.
IndicesAgree == write = (read + len) % Cap

\* Every block held is intact in the array: its header and its payload stand
\* where WriteBlockTo will look for them, whatever wrapped around.
BlockBytes(b) == BlockHeaderSize + Size[b]
Offset(k) ==
    LET upto[i \in 0..(k - 1)] ==
            IF i = 0 THEN 0 ELSE upto[i - 1] + BlockBytes(blocks[i])
    IN  upto[k - 1]
BlocksIntact ==
    /\ len = Offset(Len(blocks) + 1)
    /\ \A k \in 1..Len(blocks) : \A i \in 1..BlockBytes(blocks[k]) :
           buf[(read + Offset(k) + i - 1) % Cap] =
               IF i <= BlockHeaderSize
               THEN HeaderByte(blocks[k], i)
               ELSE PayloadByte(blocks[k], i - BlockHeaderSize)

\* The blocks handed out by an operation, each with exactly the bytes that
\* were written for it; a block with any other bytes is no block at all.
Delivered(s) ==
    [i \in 1..Len(s) |-> IF s[i][2] = Payload(s[i][1]) THEN s[i][1] ELSE <<>>]

\* The ring buffer is the abstract queue: first in, first out, whole blocks
\* only, and no eviction that the new block does not need.  A write takes
\* effect with its copy, so until then what it evicted still counts.
Queue == INSTANCE BlockQueue WITH
             Bytes <- [b \in Block |-> BlockBytes(b)],
             queue <- Delivered(evicted) \o blocks,
             out <- Delivered(out)
ImplementsQueue == Queue!Spec

\* The array holds the blocks that were written, where the indices say.
ArrayIntact == TypeOK /\ IndicesAgree /\ BlocksIntact
=============================================================================
