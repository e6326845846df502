-------------------------- MODULE RingBufferProofs --------------------------
(***************************************************************************)
(* Theorems about RingBuffer, for every value of its constants: the array  *)
(* holds the blocks that were written, and the ring buffer implements the  *)
(* abstract queue of BlockQueue.                                           *)
(*                                                                         *)
(* Offsets in the array are sums over the blocks held.  What they are is   *)
(* proved by induction, in the form that every nonempty set of natural     *)
(* numbers has a least element.                                            *)
(***************************************************************************)
EXTENDS RingBuffer, WellFoundedInduction, SequenceTheorems, TLAPS

-----------------------------------------------------------------------------
(* Sums *)

\* Every nonempty set of natural numbers has a least element.
LEMMA LeastElement ==
    ASSUME NEW T \in SUBSET Nat, T # {}
    PROVE  \E x \in T : \A y \in T : x <= y
<1> DEFINE R == OpToRel(<, Nat)
<1>1. IsWellFoundedOn(R, Nat)
  BY NatLessThanWellFounded
<1>2. \A x, y \in Nat : y < x => <<y, x>> \in R
  BY DEF OpToRel
<1> HIDE DEF R
<1>3. PICK x \in T : \A y \in T : ~(<<y, x>> \in R)
  BY <1>1, WFMin
<1>4. ASSUME NEW y \in T PROVE x <= y
  <2>1. x \in Nat /\ y \in Nat
    OBVIOUS
  <2>2. ~(y < x)
    BY <1>2, <1>3, <2>1, Zenon
  <2> QED
    BY <2>1, <2>2
<1> QED
  BY <1>4

\* s holds the running sums of the bytes of the first n blocks of q.
Sums(s, q, n) ==
    /\ s \in [0..n -> Nat] /\ s[0] = 0
    /\ \A i \in 1..n : s[i] = s[i - 1] + BlockBytes(q[i])

\* One step of their recursive definition.
SumStep(h, q, n) == [i \in 0..n |-> IF i = 0 THEN 0 ELSE h[i - 1] + BlockBytes(q[i])]

\* A solution of the recursive definition is the running sums.
LEMMA SumsUnique ==
    ASSUME NEW n \in Nat, NEW q, NEW f, f = SumStep(f, q, n), NEW s, Sums(s, q, n)
    PROVE  f[n] = s[n]
<1> DEFINE T == {i \in 0..n : f[i] # s[i]}
<1> SUFFICES ASSUME T # {} PROVE FALSE
  OBVIOUS
<1>1. T \in SUBSET Nat
  OBVIOUS
<1> HIDE DEF T
<1>2. PICK x \in T : \A y \in T : x <= y
  BY <1>1, LeastElement
<1>3. x \in 0..n /\ f[x] # s[x]
  BY <1>2 DEF T
<1>4. x # 0
  BY <1>3 DEF Sums, SumStep
<1>5. x - 1 \in 0..n /\ ~(x <= x - 1) /\ x \in 1..n
  BY <1>3, <1>4
<1>6. f[x - 1] = s[x - 1]
  BY <1>2, <1>5 DEF T
<1>7. f[x] = f[x - 1] + BlockBytes(q[x])
  BY <1>3, <1>4 DEF SumStep
<1> QED
  BY <1>3, <1>5, <1>6, <1>7 DEF Sums

\* The recursive definition has a solution, the running sums.
LEMMA SumsSolve ==
    ASSUME NEW n \in Nat, NEW q, NEW s, Sums(s, q, n)
    PROVE  (CHOOSE h : h = SumStep(h, q, n))[n] = s[n]
<1>1. s = SumStep(s, q, n)
  BY DEF Sums, SumStep
<1> DEFINE f == CHOOSE h : h = SumStep(h, q, n)
<1>2. f = SumStep(f, q, n)
  BY <1>1
<1> HIDE DEF f
<1>3. f[n] = s[n]
  BY <1>2, SumsUnique
<1> QED
  BY <1>3 DEF f

\* Every sequence of blocks has its running sums.
LEMMA SumsExist ==
    ASSUME NEW q \in Seq(Block)
    PROVE  \E s : Sums(s, q, Len(q))
<1> DEFINE T == {n \in 0..Len(q) : ~\E s : Sums(s, q, n)}
<1>1. Len(q) \in Nat /\ \A i \in 1..Len(q) : q[i] \in Block /\ BlockBytes(q[i]) \in Nat
  BY RingBufferAssumption DEF BlockBytes
<1> SUFFICES ASSUME T # {} PROVE FALSE
  BY <1>1
<1>2. T \in SUBSET Nat
  BY <1>1
<1> HIDE DEF T
<1>3. PICK x \in T : \A y \in T : x <= y
  BY <1>2, LeastElement
<1>4. x \in 0..Len(q) /\ ~\E s : Sums(s, q, x)
  BY <1>3 DEF T
<1>5. x # 0
  <2> SUFFICES ASSUME x = 0 PROVE FALSE
    OBVIOUS
  <2>1. Sums([i \in 0..0 |-> 0], q, 0)
    BY DEF Sums
  <2> QED
    BY <1>4, <2>1
<1>6. x - 1 \in 0..Len(q) /\ ~(x <= x - 1) /\ x \in 1..Len(q) /\ x \in Nat
  BY <1>1, <1>4, <1>5
<1>7. PICK s : Sums(s, q, x - 1)
  BY <1>3, <1>6 DEF T
<1> DEFINE t == [i \in 0..x |-> IF i = x THEN s[x - 1] + BlockBytes(q[x]) ELSE s[i]]
<1>8. Sums(t, q, x)
  <2>1. s[x - 1] \in Nat /\ BlockBytes(q[x]) \in Nat /\ s[0] = 0
    BY <1>1, <1>6, <1>7 DEF Sums
  <2>2. \A i \in 0..x : i # x => i \in 0..(x - 1)
    BY <1>6
  <2>3. t \in [0..x -> Nat] /\ t[0] = 0
    BY <1>5, <1>6, <1>7, <2>1, <2>2 DEF Sums
  <2>4. ASSUME NEW i \in 1..x PROVE t[i] = t[i - 1] + BlockBytes(q[i])
    <3>1. i \in 0..x /\ i - 1 \in 0..x /\ i - 1 # x
      BY <1>6
    <3>2. i # x => i \in 1..(x - 1)
      BY <1>6
    <3> QED
      BY <1>6, <1>7, <3>1, <3>2 DEF Sums
  <2> QED
    BY <2>3, <2>4 DEF Sums
<1> QED
  BY <1>4, <1>8

-----------------------------------------------------------------------------
(* Cells of the array *)

\* The index that x bytes from index 0 on reach, going around at most once.
Cell(x) == IF x < Cap THEN x ELSE x - Cap

\* The remainder is that index.
LEMMA CellMod ==
    ASSUME NEW x \in 0..(2 * Cap - 1)
    PROVE  x % Cap = Cell(x) /\ Cell(x) \in 0..(Cap - 1)
BY RingBufferAssumption DEF Cell

\* Going on from a cell.
LEMMA CellCell ==
    ASSUME NEW x \in Nat, NEW y \in Nat, x + y <= 2 * Cap - 1
    PROVE  Cell(Cell(x) + y) = Cell(x + y)
BY RingBufferAssumption DEF Cell

\* No two of the Cap offsets from an index are the same cell.
LEMMA CellInjective ==
    ASSUME NEW r \in 0..(Cap - 1), NEW x \in 0..(Cap - 1), NEW y \in 0..(Cap - 1),
           Cell(r + x) = Cell(r + y)
    PROVE  x = y
BY RingBufferAssumption DEF Cell

\* The index after a copy.
LEMMA AfterIs ==
    ASSUME NEW i \in 0..(Cap - 1), NEW n \in 0..Cap
    PROVE  After(i, n) = Cell(i + n) /\ After(i, n) \in 0..(Cap - 1)
<1>1. Cap \in Nat \ {0}
  BY RingBufferAssumption
<1>2. CASE Cap - i < n
  BY <1>1, <1>2 DEF After, Least, Cell
<1>3. CASE ~(Cap - i < n)
  <2>1. i + n \in 0..(2 * Cap - 1)
    BY <1>1
  <2>2. (i + n) % Cap = Cell(i + n) /\ Cell(i + n) \in 0..(Cap - 1)
    BY <2>1, CellMod
  <2> QED
    BY <1>3, <2>2 DEF After
<1> QED
  BY <1>2, <1>3

\* c is the array mem with the n bytes of data in the cells from index i on.
Copied(c, mem, i, data, n) ==
    /\ \A m \in 1..n : c[Cell(i + m - 1)] = data[m]
    /\ \A j \in 0..(Cap - 1) : (\A m \in 1..n : Cell(i + m - 1) # j) => c[j] = mem[j]

\* A copy writes the cells from its index on, and no others.
LEMMA CopyToIs ==
    ASSUME NEW mem, NEW i \in 0..(Cap - 1), NEW data, NEW n \in 0..Cap, Len(data) = n
    PROVE  Copied(CopyTo(mem, i, data), mem, i, data, n)
<1> DEFINE first == Least(n, Cap - i)
           rest == Least(n - first, Cap)
           c == CopyTo(mem, i, data)
<1>1. Cap \in Nat \ {0}
  BY RingBufferAssumption
<1>2. /\ first \in 0..n /\ rest = n - first
      /\ n <= Cap - i => first = n
      /\ n > Cap - i => first = Cap - i
  BY <1>1 DEF Least
<1>3. \A j \in 0..(Cap - 1) :
          c[j] = IF first < n /\ j < rest THEN data[first + j + 1]
                 ELSE IF i <= j /\ j < i + first THEN data[j - i + 1]
                 ELSE mem[j]
  BY DEF CopyTo
<1> HIDE DEF first, rest, c
<1>4. ASSUME NEW m \in 1..n PROVE c[Cell(i + m - 1)] = data[m]
  <2>1. CASE i + m - 1 < Cap
    <3>1. Cell(i + m - 1) = i + m - 1 /\ i + m - 1 \in 0..(Cap - 1)
      BY <1>1, <2>1 DEF Cell
    <3>2. ~(first < n /\ i + m - 1 < rest) /\ i <= i + m - 1 /\ i + m - 1 < i + first
          /\ (i + m - 1) - i + 1 = m
      BY <1>1, <1>2, <2>1
    <3> QED
      BY <1>3, <3>1, <3>2
  <2>2. CASE ~(i + m - 1 < Cap)
    <3>1. Cell(i + m - 1) = i + m - 1 - Cap /\ i + m - 1 - Cap \in 0..(Cap - 1)
      BY <1>1, <2>2 DEF Cell
    <3>2. first < n /\ i + m - 1 - Cap < rest /\ first + (i + m - 1 - Cap) + 1 = m
      BY <1>1, <1>2, <2>2
    <3> QED
      BY <1>3, <3>1, <3>2
  <2> QED
    BY <2>1, <2>2
<1>5. ASSUME NEW j \in 0..(Cap - 1), \A m \in 1..n : Cell(i + m - 1) # j
      PROVE  c[j] = mem[j]
  <2>1. ~(first < n /\ j < rest)
    <3> SUFFICES ASSUME first < n, j < rest PROVE FALSE
      OBVIOUS
    <3>1. first + j + 1 \in 1..n /\ i + (first + j + 1) - 1 = j + Cap
      BY <1>1, <1>2
    <3>2. Cell(j + Cap) = j
      BY <1>1 DEF Cell
    <3> QED
      BY <1>5, <3>1, <3>2
  <2>2. ~(i <= j /\ j < i + first)
    <3> SUFFICES ASSUME i <= j, j < i + first PROVE FALSE
      OBVIOUS
    <3>1. j - i + 1 \in 1..n /\ i + (j - i + 1) - 1 = j
      BY <1>1, <1>2
    <3>2. Cell(j) = j
      BY <1>1 DEF Cell
    <3> QED
      BY <1>5, <3>1, <3>2
  <2> QED
    BY <1>3, <2>1, <2>2
<1> QED
  BY <1>4, <1>5 DEF c, Copied

\* What is read back from the array.
LEMMA CopyFromIs ==
    ASSUME NEW i \in 0..(Cap - 1), NEW n \in 0..Cap
    PROVE  CopyFrom(i, n) = [j \in 1..n |-> buf[Cell(i + j - 1)]]
BY RingBufferAssumption DEF CopyFrom, Cell

-----------------------------------------------------------------------------
(* The array *)

\* Byte i of block b with its header.
BlockByte(b, i) == IF i <= BlockHeaderSize THEN HeaderByte(b, i)
                   ELSE PayloadByte(b, i - BlockHeaderSize)

\* The blocks q, of n bytes together, are in the array a from index r on; s are
\* their running sums.
Layout(s, q, n, a, r) ==
    /\ Sums(s, q, Len(q)) /\ n = s[Len(q)]
    /\ \A i, j \in 0..Len(q) : i <= j => s[i] <= s[j]
    /\ \A k \in 1..Len(q) : \A i \in 1..BlockBytes(q[k]) :
           a[Cell(r + s[k - 1] + i - 1)] = BlockByte(q[k], i)

\* The inductive invariant behind ArrayIntact.
RingInv ==
    /\ TypeOK
    /\ writing = <<>> \/ \E b \in Block : writing = <<b>> /\ BlockBytes(b) <= Cap
    /\ blocks \in Seq(Block)
    /\ write = Cell(read + len)
    /\ \E s : Layout(s, blocks, len, buf, read)

\* The numbers of bytes.
LEMMA BytesType ==
    /\ Cap \in Nat \ {0} /\ BlockHeaderSize \in Nat \ {0}
    /\ \A b \in Block : /\ Size[b] \in Nat /\ BlockBytes(b) \in Nat
                        /\ BlockBytes(b) = BlockHeaderSize + Size[b]
                        /\ BlockBytes(b) >= 1
BY RingBufferAssumption DEF BlockBytes

\* The layout loses its first block.
LEMMA LayoutTail ==
    ASSUME NEW q \in Seq(Block), q # <<>>, NEW s, NEW n \in 0..Cap, NEW a,
           NEW r \in 0..(Cap - 1), Layout(s, q, n, a, r)
    PROVE  /\ BlockBytes(q[1]) <= n
           /\ \E t : Layout(t, Tail(q), n - BlockBytes(q[1]), a, Cell(r + BlockBytes(q[1])))
<1>1. /\ Len(q) \in Nat /\ Len(q) >= 1 /\ q[1] \in Block
      /\ \A i \in 1..Len(q) : q[i] \in Block
  OBVIOUS
<1>2. /\ Tail(q) \in Seq(Block) /\ Len(Tail(q)) = Len(q) - 1
      /\ \A k \in 1..(Len(q) - 1) : Tail(q)[k] = q[k + 1]
  BY <1>1
<1> DEFINE one == BlockBytes(q[1])
           t == [i \in 0..(Len(q) - 1) |-> s[i + 1] - one]
           last == Len(q)
<1>3. /\ s \in [0..last -> Nat] /\ s[0] = 0 /\ n = s[last]
      /\ \A i \in 1..last : s[i] = s[i - 1] + BlockBytes(q[i])
      /\ \A i, j \in 0..last : i <= j => s[i] <= s[j]
      /\ \A k \in 1..last : \A i \in 1..BlockBytes(q[k]) :
             a[Cell(r + s[k - 1] + i - 1)] = BlockByte(q[k], i)
  BY DEF Layout, Sums
<1>4. Cap \in Nat \ {0} /\ one \in Nat /\ one >= 1
  BY <1>1, BytesType
<1>5. s[1] = one
  <2>1. 1 \in 1..last /\ 1 - 1 = 0
    BY <1>1
  <2>2. s[1] = s[1 - 1] + one
    BY <1>3, <2>1
  <2> QED
    BY <1>3, <1>4, <2>2
<1>6. one <= n /\ n <= Cap
  <2>1. 1 \in 0..last /\ last \in 0..last /\ 1 <= last
    BY <1>1
  <2> QED
    BY <1>3, <1>5, <2>1
<1> HIDE DEF one, last
<1>7. ASSUME NEW i \in 0..(last - 1)
      PROVE  /\ i + 1 \in 1..last /\ i + 1 \in 0..last
             /\ s[i + 1] \in Nat /\ s[i + 1] >= one /\ s[i + 1] <= n
             /\ t[i] = s[i + 1] - one /\ t[i] \in Nat
  <2>1. i + 1 \in 1..last /\ i + 1 \in 0..last /\ 1 \in 0..last /\ last \in 0..last
        /\ 1 <= i + 1 /\ i + 1 <= last /\ i \in 0..(Len(q) - 1)
    BY <1>1 DEF last
  <2>2. s[i + 1] \in Nat /\ s[i + 1] >= one /\ s[i + 1] <= n
    BY <1>3, <1>4, <1>5, <2>1
  <2>3. t[i] = s[i + 1] - one
    BY <2>1
  <2> QED
    BY <1>4, <2>1, <2>2, <2>3
<1>8. t \in [0..(last - 1) -> Nat]
  <2>1. t = [i \in 0..(last - 1) |-> t[i]]
    BY DEF last
  <2> HIDE DEF t
  <2> QED
    BY <1>7, <2>1
<1>9. last \in Nat /\ last >= 1 /\ Len(Tail(q)) = last - 1
  BY <1>1, <1>2 DEF last
<1> HIDE DEF t
<1>10. t[0] = 0
  BY <1>4, <1>5, <1>7, <1>9
<1>11. ASSUME NEW i \in 1..(last - 1) PROVE t[i] = t[i - 1] + BlockBytes(Tail(q)[i])
  <2>1. i \in 0..(last - 1) /\ i - 1 \in 0..(last - 1) /\ i + 1 \in 1..last
        /\ (i + 1) - 1 = i /\ (i - 1) + 1 = i /\ i \in 1..(Len(q) - 1)
    BY <1>9 DEF last
  <2>2. t[i] = s[i + 1] - one /\ t[i - 1] = s[i] - one /\ s[i] \in Nat /\ s[i + 1] \in Nat
    BY <1>7, <2>1
  <2>3. s[i + 1] = s[i] + BlockBytes(q[i + 1])
    BY <1>3, <2>1
  <2>4. Tail(q)[i] = q[i + 1] /\ BlockBytes(q[i + 1]) \in Nat
    BY <1>1, <1>2, <2>1, BytesType DEF last
  <2> DEFINE u == s[i + 1]
             v == s[i]
             w == BlockBytes(q[i + 1])
  <2>5. u = v + w /\ u \in Nat /\ v \in Nat /\ w \in Nat
    BY <2>2, <2>3, <2>4
  <2>6. t[i] = u - one /\ t[i - 1] = v - one /\ BlockBytes(Tail(q)[i]) = w
    BY <2>2, <2>4
  <2> HIDE DEF u, v, w
  <2>7. u - one = (v - one) + w
    BY <1>4, <2>5
  <2> QED
    BY <2>6, <2>7
<1>12. Sums(t, Tail(q), Len(Tail(q)))
  BY <1>8, <1>9, <1>10, <1>11 DEF Sums
<1>13. n - one = t[Len(Tail(q))]
  <2>1. last - 1 \in 0..(last - 1) /\ (last - 1) + 1 = last
    BY <1>9
  <2> QED
    BY <1>3, <1>7, <1>9, <2>1
<1>14. ASSUME NEW i \in 0..(last - 1), NEW j \in 0..(last - 1), i <= j PROVE t[i] <= t[j]
  <2>1. i + 1 <= j + 1
    BY <1>9, <1>14
  <2>2. s[i + 1] <= s[j + 1]
    BY <1>3, <1>7, <2>1
  <2> QED
    BY <1>4, <1>7, <2>2
<1>15. ASSUME NEW k \in 1..(last - 1), NEW i \in 1..BlockBytes(Tail(q)[k])
       PROVE  a[Cell(Cell(r + one) + t[k - 1] + i - 1)] = BlockByte(Tail(q)[k], i)
  <2>1. k \in 0..(last - 1) /\ k - 1 \in 0..(last - 1) /\ k + 1 \in 1..last
        /\ (k + 1) - 1 = k /\ (k - 1) + 1 = k /\ k \in 1..(Len(q) - 1)
    BY <1>9 DEF last
  <2>2. Tail(q)[k] = q[k + 1] /\ BlockBytes(q[k + 1]) \in Nat
    BY <1>1, <1>2, <2>1, BytesType DEF last
  <2>3. t[k - 1] = s[k] - one /\ s[k] \in Nat /\ s[k] >= one /\ s[k + 1] <= n
        /\ s[k + 1] = s[k] + BlockBytes(q[k + 1])
    BY <1>3, <1>7, <2>1
  <2>4. i \in 1..BlockBytes(q[k + 1]) /\ i \in Nat /\ i >= 1 /\ i <= BlockBytes(q[k + 1])
    <3>1. i \in 1..BlockBytes(q[k + 1])
      BY <2>2
    <3> QED
      BY <2>2, <3>1
  <2>5. a[Cell(r + s[k] + i - 1)] = BlockByte(q[k + 1], i)
    BY <1>3, <2>1, <2>4
  <2> DEFINE x == r + one
             y == s[k] - one + i - 1
  <2>6. x \in Nat /\ y \in Nat /\ x + y <= 2 * Cap - 1 /\ x + y = r + s[k] + i - 1
    <3> DEFINE u == s[k]
               v == s[k + 1]
               w == BlockBytes(q[k + 1])
    <3>1. u \in Nat /\ w \in Nat /\ v = u + w /\ u >= one /\ v <= n /\ i \in Nat /\ i >= 1 /\ i <= w
      BY <2>2, <2>3, <2>4
    <3> HIDE DEF u, v, w
    <3>2. r + one \in Nat /\ u - one + i - 1 \in Nat
          /\ (r + one) + (u - one + i - 1) = r + u + i - 1
          /\ r + u + i - 1 <= 2 * Cap - 1
      BY <1>4, <1>6, <3>1
    <3> QED
      BY <3>2 DEF u
  <2>7. Cell(r + one) + t[k - 1] + i - 1 = Cell(x) + y
    <3> DEFINE u == s[k]
               c == Cell(x)
    <3>1. u \in Nat /\ t[k - 1] = u - one /\ i \in Nat /\ c \in Int
      BY <1>4, <2>3, <2>4, <2>6 DEF Cell
    <3> HIDE DEF u, c
    <3>2. c + (u - one) + i - 1 = c + (u - one + i - 1)
      BY <1>4, <3>1
    <3> QED
      BY <3>1, <3>2 DEF u, c
  <2> HIDE DEF y
  <2>8. Cell(Cell(x) + y) = Cell(x + y)
    BY <2>6, CellCell
  <2> QED
    BY <2>2, <2>5, <2>6, <2>7, <2>8
<1>16. Layout(t, Tail(q), n - one, a, Cell(r + one))
  BY <1>9, <1>12, <1>13, <1>14, <1>15 DEF Layout
<1> QED
  BY <1>6, <1>16 DEF one

\* Consuming the block whose header is at the read index consumes the oldest
\* block, and hands out its payload.
LEMMA ConsumeIs ==
    ASSUME RingInv, len # 0, NEW b \in Block, HeaderIs(b), Consume(b),
           blocks' = Tail(blocks), UNCHANGED <<buf, write, writing>>
    PROVE  /\ blocks # <<>> /\ b = Head(blocks) /\ Handed(b) = Payload(b)
           /\ RingInv'
<1>1. /\ len \in 0..Cap /\ read \in 0..(Cap - 1) /\ blocks \in Seq(Block)
      /\ write = Cell(read + len)
  BY DEF RingInv, TypeOK
<1>2. PICK s : Layout(s, blocks, len, buf, read)
  BY DEF RingInv
<1>3. /\ Cap \in Nat \ {0} /\ BlockHeaderSize \in Nat \ {0}
      /\ Size[b] \in Nat /\ BlockBytes(b) = BlockHeaderSize + Size[b]
  BY BytesType
<1>4. blocks # <<>>
  <2> SUFFICES ASSUME blocks = <<>> PROVE FALSE
    OBVIOUS
  <2>1. Len(blocks) = 0
    OBVIOUS
  <2> QED
    BY <1>2, <2>1 DEF Layout, Sums
<1> DEFINE o == blocks[1]
<1>5. o \in Block /\ o = Head(blocks) /\ Len(blocks) \in Nat /\ 1 \in 1..Len(blocks)
  BY <1>1, <1>4
<1>6. /\ BlockBytes(o) <= len
      /\ \E t : Layout(t, Tail(blocks), len - BlockBytes(o), buf, Cell(read + BlockBytes(o)))
  BY <1>1, <1>2, <1>4, LayoutTail
<1>7. BlockBytes(o) = BlockHeaderSize + Size[o] /\ Size[o] \in Nat
  BY <1>5, BytesType
<1>8. \A i \in 1..BlockBytes(o) : buf[Cell(read + i - 1)] = BlockByte(o, i)
  <2>1. s[1 - 1] = 0
    BY <1>2 DEF Layout, Sums
  <2>2. \A i \in 1..BlockBytes(o) : buf[Cell(read + 0 + i - 1)] = BlockByte(o, i)
    BY <1>2, <1>5, <2>1 DEF Layout
  <2>3. \A i \in Int : read + 0 + i - 1 = read + i - 1
    BY <1>1, <1>3
  <2> QED
    BY <1>7, <1>3, <2>2, <2>3
<1> HIDE DEF o
<1>9. o = b
  <2>1. BlockHeaderSize \in 0..Cap /\ 1 \in 1..BlockHeaderSize /\ 1 \in 1..BlockBytes(o)
    BY <1>1, <1>3, <1>6, <1>7
  <2>2. CopyFrom(read, BlockHeaderSize)[1] = buf[Cell(read + 1 - 1)]
    BY <1>1, <2>1, CopyFromIs
  <2>3. buf[Cell(read + 1 - 1)] = <<"header", o, 1>>
    <3>1. buf[Cell(read + 1 - 1)] = BlockByte(o, 1)
      BY <1>8, <2>1
    <3>2. 1 <= BlockHeaderSize
      BY <1>3
    <3> QED
      BY <3>1, <3>2 DEF BlockByte, HeaderByte
  <2>4. Header(b)[1] = <<"header", b, 1>>
    BY <2>1 DEF Header, HeaderByte
  <2>5. <<"header", o, 1>> = <<"header", b, 1>>
    BY <2>2, <2>3, <2>4 DEF HeaderIs
  <2> QED
    BY <2>5
<1> DEFINE start == After(read, BlockHeaderSize)
<1>10. /\ start = Cell(read + BlockHeaderSize) /\ start \in 0..(Cap - 1)
       /\ BlockHeaderSize \in 0..Cap /\ Size[b] \in 0..Cap
  <2>1. BlockHeaderSize \in 0..Cap /\ Size[b] \in 0..Cap
    BY <1>1, <1>3, <1>6, <1>7, <1>9
  <2> QED
    BY <1>1, <2>1, AfterIs
<1>11. Handed(b) = Payload(b)
  <2>1. Handed(b) = [j \in 1..Size[b] |-> buf[Cell(start + j - 1)]]
    BY <1>10, CopyFromIs DEF Handed
  <2>2. ASSUME NEW j \in 1..Size[b] PROVE buf[Cell(start + j - 1)] = PayloadByte(b, j)
    <3>1. /\ BlockHeaderSize + j \in 1..BlockBytes(o) /\ ~(BlockHeaderSize + j <= BlockHeaderSize)
          /\ (BlockHeaderSize + j) - BlockHeaderSize = j
      BY <1>3, <1>7, <1>9
    <3>2. buf[Cell(read + (BlockHeaderSize + j) - 1)] = PayloadByte(b, j)
      BY <1>8, <1>9, <3>1 DEF BlockByte
    <3> DEFINE x == read + BlockHeaderSize
               y == j - 1
    <3>3. /\ x \in Nat /\ y \in Nat /\ x + y <= 2 * Cap - 1
          /\ x + y = read + (BlockHeaderSize + j) - 1
      BY <1>1, <1>3, <1>6, <1>7, <1>9
    <3>4. start + j - 1 = Cell(x) + y
      BY <1>10, <1>3
    <3> HIDE DEF x, y
    <3>5. Cell(Cell(x) + y) = Cell(x + y)
      BY <3>3, CellCell
    <3> QED
      BY <3>2, <3>3, <3>4, <3>5
  <2> QED
    BY <2>1, <2>2 DEF Payload
<1>12. read' = Cell(read + BlockBytes(b)) /\ read' \in 0..(Cap - 1)
  <2> DEFINE x == read + BlockHeaderSize
             y == Size[b]
  <2>1. x \in Nat /\ y \in Nat /\ x + y <= 2 * Cap - 1 /\ x + y = read + BlockBytes(b)
    BY <1>1, <1>3, <1>6, <1>9
  <2>2. Cell(start + y) = Cell(x + y)
    <3> HIDE DEF x, y
    <3>1. Cell(Cell(x) + y) = Cell(x + y)
      BY <2>1, CellCell
    <3> QED
      BY <1>10, <3>1 DEF x
  <2>3. CASE start + y > Cap
    <3>1. y - (Cap - start) \in 0..(2 * Cap - 1) /\ y - (Cap - start) < Cap
          /\ y - (Cap - start) = start + y - Cap
      BY <1>3, <1>10, <2>3
    <3>2. (y - (Cap - start)) % Cap = Cell(y - (Cap - start))
          /\ Cell(y - (Cap - start)) \in 0..(Cap - 1)
      BY <3>1, CellMod
    <3>3. Cell(y - (Cap - start)) = Cell(start + y)
      BY <1>3, <1>10, <2>3, <3>1 DEF Cell
    <3>4. read' = (y - (Cap - start)) % Cap
      BY <2>3 DEF Consume
    <3> QED
      BY <2>1, <2>2, <3>2, <3>3, <3>4
  <2>4. CASE ~(start + y > Cap)
    <3>1. start + y \in 0..(2 * Cap - 1)
      BY <1>3, <1>10, <2>4
    <3>2. (start + y) % Cap = Cell(start + y) /\ Cell(start + y) \in 0..(Cap - 1)
      BY <3>1, CellMod
    <3>3. read' = (start + y) % Cap
      BY <2>4 DEF Consume
    <3> QED
      BY <2>1, <2>2, <3>2, <3>3
  <2> QED
    BY <2>3, <2>4
<1>13. len' = len - BlockBytes(b) /\ len' \in 0..Cap
  BY <1>1, <1>3, <1>6, <1>9 DEF Consume
<1>14. write = Cell(read' + len')
  <2> DEFINE x == read + BlockBytes(b)
             y == len - BlockBytes(b)
  <2>1. x \in Nat /\ y \in Nat /\ x + y <= 2 * Cap - 1 /\ x + y = read + len
    BY <1>1, <1>3, <1>6, <1>9
  <2>2. read' + len' = Cell(x) + y
    BY <1>12, <1>13
  <2> HIDE DEF x, y
  <2>3. Cell(Cell(x) + y) = Cell(x + y)
    BY <2>1, CellCell
  <2> QED
    BY <1>1, <2>1, <2>2, <2>3
<1>15. \E t : Layout(t, blocks', len', buf', read')
  BY <1>6, <1>9, <1>12, <1>13
<1>16. Tail(blocks) \in Seq(Block)
  BY <1>1, <1>4
<1>17. RingInv'
  BY <1>1, <1>12, <1>13, <1>14, <1>15, <1>16 DEF RingInv, TypeOK
<1> QED
  BY <1>4, <1>5, <1>9, <1>11, <1>17

\* The layout gains a block, whose bytes are written behind the others.
LEMMA LayoutAppend ==
    ASSUME NEW q \in Seq(Block), NEW s, NEW n \in 0..Cap, NEW a, NEW r \in 0..(Cap - 1),
           Layout(s, q, n, a, r), NEW b \in Block, n + BlockBytes(b) <= Cap, NEW c,
           \A m \in 1..BlockBytes(b) : c[Cell(r + n + m - 1)] = BlockByte(b, m),
           \A j \in 0..(Cap - 1) :
               (\A m \in 1..BlockBytes(b) : Cell(r + n + m - 1) # j) => c[j] = a[j]
    PROVE  \E t : Layout(t, Append(q, b), n + BlockBytes(b), c, r)
<1> DEFINE last == Len(q)
           new == Append(q, b)
           t == [i \in 0..(last + 1) |-> IF i = last + 1 THEN n + BlockBytes(b) ELSE s[i]]
<1>1. /\ last \in Nat /\ Len(new) = last + 1 /\ new[last + 1] = b
      /\ \A i \in 1..last : new[i] = q[i] /\ q[i] \in Block
  OBVIOUS
<1>2. /\ Cap \in Nat \ {0} /\ BlockBytes(b) \in Nat /\ BlockBytes(b) >= 1
      /\ \A i \in 1..last : BlockBytes(q[i]) \in Nat
  BY <1>1, BytesType
<1>3. /\ s \in [0..last -> Nat] /\ s[0] = 0 /\ n = s[last]
      /\ \A i \in 1..last : s[i] = s[i - 1] + BlockBytes(q[i])
      /\ \A i, j \in 0..last : i <= j => s[i] <= s[j]
      /\ \A k \in 1..last : \A i \in 1..BlockBytes(q[k]) :
             a[Cell(r + s[k - 1] + i - 1)] = BlockByte(q[k], i)
  BY DEF Layout, Sums
<1> HIDE DEF last, new
<1>4. /\ t[last + 1] = n + BlockBytes(b)
      /\ \A i \in 0..last : t[i] = s[i] /\ t[i] \in Nat /\ t[i] <= n
  <2>1. last + 1 \in 0..(last + 1) /\ last \in 0..last
        /\ \A i \in 0..last : i \in 0..(last + 1) /\ i # last + 1 /\ i <= last
    BY <1>1
  <2> QED
    BY <1>3, <2>1
<1>5. t \in [0..(last + 1) -> Nat]
  <2>1. \A i \in 0..(last + 1) : i = last + 1 \/ i \in 0..last
    BY <1>1
  <2>2. \A i \in 0..(last + 1) : t[i] \in Nat
    <3>1. n + BlockBytes(b) \in Nat
      BY <1>2
    <3> QED
      BY <1>4, <2>1, <3>1
  <2>3. t = [i \in 0..(last + 1) |-> t[i]]
    OBVIOUS
  <2> HIDE DEF t
  <2> QED
    BY <2>2, <2>3
<1> HIDE DEF t
<1>6. ASSUME NEW i \in 1..(last + 1) PROVE t[i] = t[i - 1] + BlockBytes(new[i])
  <2>1. i - 1 \in 0..last /\ (i # last + 1 => i \in 1..last /\ i \in 0..last)
    BY <1>1
  <2>2. CASE i = last + 1
    <3>1. i - 1 = last /\ last \in 0..last
      BY <1>1, <2>2
    <3> QED
      BY <1>1, <1>3, <1>4, <2>2, <3>1
  <2>3. CASE i # last + 1
    BY <1>1, <1>3, <1>4, <2>1, <2>3
  <2> QED
    BY <2>2, <2>3
<1>7. Sums(t, new, Len(new))
  <2>1. t[0] = 0
    <3>1. 0 \in 0..last
      BY <1>1
    <3> QED
      BY <1>3, <1>4, <3>1
  <2> QED
    BY <1>1, <1>5, <1>6, <2>1 DEF Sums
<1>8. ASSUME NEW i \in 0..(last + 1), NEW j \in 0..(last + 1), i <= j PROVE t[i] <= t[j]
  <2>1. i = last + 1 => j = last + 1
    BY <1>1, <1>8
  <2>2. (i # last + 1 => i \in 0..last) /\ (j # last + 1 => j \in 0..last)
    BY <1>1
  <2>3. CASE j = last + 1
    <3>1. CASE i = last + 1
      BY <1>2, <1>4, <2>3, <3>1
    <3>2. CASE i # last + 1
      <4>1. t[i] \in Nat /\ t[i] <= n
        BY <1>4, <2>2, <3>2
      <4> QED
        BY <1>2, <1>4, <2>3, <4>1
    <3> QED
      BY <3>1, <3>2
  <2>4. CASE j # last + 1
    BY <1>3, <1>4, <1>8, <2>1, <2>2, <2>4
  <2> QED
    BY <2>3, <2>4
<1>9. ASSUME NEW k \in 1..(last + 1), NEW i \in 1..BlockBytes(new[k])
      PROVE  c[Cell(r + t[k - 1] + i - 1)] = BlockByte(new[k], i)
  <2>1. CASE k = last + 1
    <3>1. k - 1 = last /\ last \in 0..last
      BY <1>1, <2>1
    <3>2. new[k] = b /\ t[k - 1] = n
      BY <1>1, <1>3, <1>4, <2>1, <3>1
    <3> QED
      BY <3>2
  <2>2. CASE k # last + 1
    <3>1. k \in 1..last /\ k - 1 \in 0..last /\ k \in 0..last
      BY <1>1, <2>2
    <3>2. new[k] = q[k] /\ t[k - 1] = s[k - 1]
      BY <1>1, <1>4, <3>1
    <3> DEFINE x == s[k - 1] + i - 1
               w == BlockBytes(q[k])
               u == s[k - 1]
    <3>3. u \in Nat /\ w \in Nat /\ u + w <= n /\ i \in 1..w
      BY <1>2, <1>3, <1>4, <3>1, <3>2
    <3>4. x \in 0..(Cap - 1) /\ x < n /\ r + s[k - 1] + i - 1 = r + x
      <4> HIDE DEF u, w
      <4>1. u + i - 1 \in 0..(Cap - 1) /\ u + i - 1 < n /\ r + u + i - 1 = r + (u + i - 1)
        BY <1>2, <3>3
      <4> QED
        BY <4>1 DEF u
    <3>5. a[Cell(r + x)] = BlockByte(q[k], i)
      BY <1>3, <3>1, <3>2, <3>4
    <3> HIDE DEF x
    <3>6. Cell(r + x) \in 0..(Cap - 1)
      BY <1>2, <3>4 DEF Cell
    <3>7. ASSUME NEW m \in 1..BlockBytes(b) PROVE Cell(r + n + m - 1) # Cell(r + x)
      <4> DEFINE y == n + m - 1
      <4>1. y \in 0..(Cap - 1) /\ r + n + m - 1 = r + y /\ y # x
        BY <1>2, <3>4
      <4> HIDE DEF y
      <4>2. Cell(r + y) # Cell(r + x)
        BY <3>4, <4>1, CellInjective
      <4> QED
        BY <4>1, <4>2
    <3>8. c[Cell(r + x)] = a[Cell(r + x)]
      BY <3>6, <3>7
    <3> QED
      BY <3>2, <3>4, <3>5, <3>8
  <2> QED
    BY <2>1, <2>2
<1>10. n + BlockBytes(b) = t[Len(new)]
  BY <1>1, <1>4
<1>11. Layout(t, new, n + BlockBytes(b), c, r)
  BY <1>1, <1>7, <1>8, <1>9, <1>10 DEF Layout
<1> QED
  BY <1>11 DEF new

\* c is the array a with block b from index w on.
BlockPut(c, a, w, b) ==
    /\ \A m \in 1..BlockBytes(b) : c[Cell(w + m - 1)] = BlockByte(b, m)
    /\ \A j \in 0..(Cap - 1) : (\A m \in 1..BlockBytes(b) : Cell(w + m - 1) # j) => c[j] = a[j]

\* What the two copies of WriteBlock write.
LEMMA BlockCopied ==
    ASSUME NEW b \in Block, BlockBytes(b) <= Cap, NEW a, NEW w \in 0..(Cap - 1), NEW c,
           c = CopyTo(CopyTo(a, w, Header(b)), After(w, BlockHeaderSize), Payload(b))
    PROVE  BlockPut(c, a, w, b)
<1> DEFINE hs == BlockHeaderSize
           size == Size[b]
           start == After(w, hs)
           mid == CopyTo(a, w, Header(b))
<1>1. /\ Cap \in Nat \ {0} /\ hs \in Nat \ {0} /\ size \in Nat
      /\ BlockBytes(b) = hs + size /\ hs \in 0..Cap /\ size \in 0..Cap
  BY BytesType
<1>2. Len(Header(b)) = hs /\ \A i \in 1..hs : Header(b)[i] = HeaderByte(b, i)
  BY <1>1 DEF Header
<1>3. Len(Payload(b)) = size /\ \A i \in 1..size : Payload(b)[i] = PayloadByte(b, i)
  BY <1>1 DEF Payload
<1>4. start = Cell(w + hs) /\ start \in 0..(Cap - 1)
  BY <1>1, AfterIs
<1>5. /\ \A m \in 1..hs : mid[Cell(w + m - 1)] = Header(b)[m]
      /\ \A j \in 0..(Cap - 1) :
             (\A m \in 1..hs : Cell(w + m - 1) # j) => mid[j] = a[j]
  <2>1. Copied(mid, a, w, Header(b), hs)
    BY <1>1, <1>2, CopyToIs
  <2> QED
    BY <2>1 DEF Copied
<1>6. c = CopyTo(mid, start, Payload(b))
  OBVIOUS
<1> HIDE DEF mid, start
<1>7. /\ \A m \in 1..size : c[Cell(start + m - 1)] = Payload(b)[m]
      /\ \A j \in 0..(Cap - 1) :
             (\A m \in 1..size : Cell(start + m - 1) # j) => c[j] = mid[j]
  <2>1. Copied(c, mid, start, Payload(b), size)
    BY <1>1, <1>3, <1>4, <1>6, CopyToIs
  <2> QED
    BY <2>1 DEF Copied
<1>8. ASSUME NEW m \in 1..size PROVE Cell(start + m - 1) = Cell(w + (hs + m) - 1)
  <2> DEFINE x == w + hs
             y == m - 1
  <2>1. x \in Nat /\ y \in Nat /\ x + y <= 2 * Cap - 1 /\ x + y = w + (hs + m) - 1
    BY <1>1
  <2>2. start + m - 1 = Cell(x) + y
    BY <1>1, <1>4
  <2> HIDE DEF x, y
  <2>3. Cell(Cell(x) + y) = Cell(x + y)
    BY <2>1, CellCell
  <2> QED
    BY <2>1, <2>2, <2>3
<1> HIDE DEF hs, size
<1>9. ASSUME NEW m \in 1..BlockBytes(b) PROVE c[Cell(w + m - 1)] = BlockByte(b, m)
  <2>1. CASE m <= hs
    <3>1. m \in 1..hs /\ m - 1 \in 0..(Cap - 1) /\ w + m - 1 = w + (m - 1)
      BY <1>1, <2>1
    <3>2. ASSUME NEW i \in 1..size PROVE Cell(start + i - 1) # Cell(w + m - 1)
      <4> DEFINE x == hs + i - 1
                 y == m - 1
      <4>1. x \in 0..(Cap - 1) /\ y \in 0..(Cap - 1) /\ x # y
            /\ w + (hs + i) - 1 = w + x /\ w + m - 1 = w + y
        BY <1>1, <2>1, <3>1
      <4> HIDE DEF x, y
      <4>2. Cell(w + x) # Cell(w + y)
        BY <4>1, CellInjective
      <4> QED
        BY <1>8, <4>1, <4>2
    <3>3. Cell(w + m - 1) \in 0..(Cap - 1)
      BY <1>1, <3>1 DEF Cell
    <3>4. c[Cell(w + m - 1)] = mid[Cell(w + m - 1)]
      BY <1>7, <3>2, <3>3
    <3> QED
      BY <1>2, <1>5, <2>1, <3>1, <3>4 DEF BlockByte, hs
  <2>2. CASE ~(m <= hs)
    <3>1. m - hs \in 1..size /\ hs + (m - hs) = m
      BY <1>1, <2>2
    <3>2. Cell(start + (m - hs) - 1) = Cell(w + m - 1)
      BY <1>8, <3>1
    <3>3. c[Cell(w + m - 1)] = PayloadByte(b, m - hs)
      BY <1>3, <1>7, <3>1, <3>2
    <3> QED
      BY <2>2, <3>3 DEF BlockByte, hs
  <2> QED
    BY <2>1, <2>2
<1>10. ASSUME NEW j \in 0..(Cap - 1), \A m \in 1..BlockBytes(b) : Cell(w + m - 1) # j
       PROVE  c[j] = a[j]
  <2>1. \A m \in 1..hs : Cell(w + m - 1) # j
    BY <1>1, <1>10
  <2>2. ASSUME NEW m \in 1..size PROVE Cell(start + m - 1) # j
    <3>1. hs + m \in 1..BlockBytes(b)
      BY <1>1
    <3> QED
      BY <1>8, <1>10, <3>1
  <2> QED
    BY <1>5, <1>7, <2>1, <2>2
<1> QED
  BY <1>9, <1>10 DEF BlockPut

-----------------------------------------------------------------------------
(* The array is intact *)

\* The invariant holds initially.
LEMMA RingInit == Init => RingInv
<1> SUFFICES ASSUME Init PROVE RingInv
  OBVIOUS
<1>1. Cap \in Nat \ {0}
  BY BytesType
<1>2. Sums([i \in 0..0 |-> 0], <<>>, 0)
  BY DEF Sums
<1>3. Layout([i \in 0..0 |-> 0], blocks, len, buf, read)
  BY <1>2 DEF Init, Layout
<1> QED
  BY <1>1, <1>3 DEF Init, RingInv, TypeOK, Cell

\* WriteBlock's copy puts its block behind the others.
LEMMA CopyIs ==
    ASSUME RingInv, Copy
    PROVE  \E b \in Block :
               /\ writing = <<b>> /\ BlockBytes(b) <= Cap - len /\ blocks' = Append(blocks, b)
               /\ RingInv'
<1>1. /\ len \in 0..Cap /\ read \in 0..(Cap - 1) /\ write \in 0..(Cap - 1)
      /\ blocks \in Seq(Block) /\ write = Cell(read + len)
  BY DEF RingInv, TypeOK
<1>2. PICK b \in Block : writing = <<b>> /\ BlockBytes(b) <= Cap
  BY DEF RingInv, Copy
<1>3. writing[1] = b
  BY <1>2
<1>4. /\ Cap \in Nat \ {0} /\ BlockHeaderSize \in Nat \ {0} /\ Size[b] \in Nat
      /\ BlockBytes(b) = BlockHeaderSize + Size[b] /\ BlockBytes(b) \in Nat
  BY BytesType
<1>5. BlockBytes(b) <= Cap - len
  BY <1>3, <1>4 DEF Copy, HasRoom
<1>6. PICK s : Layout(s, blocks, len, buf, read)
  BY DEF RingInv
<1>7. /\ buf' = CopyTo(CopyTo(buf, write, Header(b)), After(write, BlockHeaderSize), Payload(b))
      /\ write' = After(After(write, BlockHeaderSize), Size[b])
      /\ len' = len + Size[b] + BlockHeaderSize
      /\ blocks' = Append(blocks, b)
      /\ writing' = <<>> /\ read' = read
  BY <1>3 DEF Copy
<1> DEFINE c == buf'
<1>8. /\ \A m \in 1..BlockBytes(b) : c[Cell(write + m - 1)] = BlockByte(b, m)
      /\ \A j \in 0..(Cap - 1) :
             (\A m \in 1..BlockBytes(b) : Cell(write + m - 1) # j) => c[j] = buf[j]
  <2>1. c = CopyTo(CopyTo(buf, write, Header(b)), After(write, BlockHeaderSize), Payload(b))
    BY <1>7
  <2> HIDE DEF c
  <2>2. BlockPut(c, buf, write, b)
    BY <1>1, <1>2, <2>1, BlockCopied
  <2> QED
    BY <2>2 DEF BlockPut
<1>9. ASSUME NEW m \in 1..BlockBytes(b)
      PROVE  Cell(write + m - 1) = Cell(read + len + m - 1)
  <2> DEFINE x == read + len
             y == m - 1
  <2>1. x \in Nat /\ y \in Nat /\ x + y <= 2 * Cap - 1 /\ x + y = read + len + m - 1
    BY <1>1, <1>4, <1>5
  <2>2. write + m - 1 = Cell(x) + y
    BY <1>1
  <2> HIDE DEF x, y
  <2>3. Cell(Cell(x) + y) = Cell(x + y)
    BY <2>1, CellCell
  <2> QED
    BY <2>1, <2>2, <2>3
<1>10. \E t : Layout(t, Append(blocks, b), len + BlockBytes(b), c, read)
  <2>1. len + BlockBytes(b) <= Cap
    BY <1>1, <1>4, <1>5
  <2>2. \A m \in 1..BlockBytes(b) : c[Cell(read + len + m - 1)] = BlockByte(b, m)
    BY <1>8, <1>9
  <2>3. \A j \in 0..(Cap - 1) :
            (\A m \in 1..BlockBytes(b) : Cell(read + len + m - 1) # j) => c[j] = buf[j]
    BY <1>8, <1>9
  <2> HIDE DEF c
  <2> QED
    BY <1>1, <1>6, <2>1, <2>2, <2>3, LayoutAppend
<1>11. len' = len + BlockBytes(b) /\ len' \in 0..Cap
  <2> DEFINE size == Size[b]
  <2>1. len' = len + size + BlockHeaderSize /\ size \in Nat
        /\ BlockBytes(b) = BlockHeaderSize + size
    BY <1>4, <1>7
  <2> HIDE DEF size
  <2> QED
    BY <1>1, <1>4, <1>5, <2>1
<1>12. write' = Cell(read + len') /\ write' \in 0..(Cap - 1)
  <2> DEFINE x == read + len
             hs == BlockHeaderSize
             size == Size[b]
             start == After(write, hs)
  <2>1. /\ x \in Nat /\ hs \in Nat /\ size \in Nat /\ hs \in 0..Cap /\ size \in 0..Cap
        /\ x + hs + size <= 2 * Cap - 1 /\ x + hs + size = read + len' /\ write = Cell(x)
    <3>1. hs \in Nat /\ size \in Nat /\ BlockBytes(b) = hs + size
          /\ BlockBytes(b) <= Cap - len /\ len' = len + BlockBytes(b)
      BY <1>4, <1>5, <1>11
    <3> HIDE DEF hs, size
    <3> QED
      BY <1>1, <1>4, <3>1
  <2>2. start = Cell(write + hs) /\ start \in 0..(Cap - 1)
    BY <1>1, <2>1, AfterIs
  <2>3. write' = Cell(start + size) /\ write' \in 0..(Cap - 1)
    BY <1>7, <2>1, <2>2, AfterIs
  <2> HIDE DEF x, hs, size, start
  <2>4. Cell(Cell(x) + hs) = Cell(x + hs)
    BY <1>4, <2>1, CellCell
  <2>5. x + hs \in Nat
    BY <2>1
  <2>6. Cell(Cell(x + hs) + size) = Cell(x + hs + size)
    BY <2>1, <2>5, CellCell
  <2> QED
    BY <2>1, <2>2, <2>3, <2>4, <2>6
<1>13. Append(blocks, b) \in Seq(Block)
  BY <1>1
<1>14. RingInv'
  BY <1>1, <1>7, <1>10, <1>11, <1>12, <1>13 DEF RingInv, TypeOK
<1> QED
  BY <1>2, <1>5, <1>7, <1>14

\* Every step preserves the invariant.
LEMMA RingStep == RingInv /\ [Next]_vars => RingInv'
<1> SUFFICES ASSUME RingInv, [Next]_vars PROVE RingInv'
  OBVIOUS
<1>1. CASE WriteBlockTo
  <2>1. CASE len = 0
    BY <1>1, <2>1 DEF WriteBlockTo, RingInv, TypeOK
  <2>2. CASE len # 0
    <3>1. PICK b \in Block : /\ HeaderIs(b) /\ Consume(b) /\ blocks' = Tail(blocks)
                            /\ UNCHANGED <<buf, write, writing>>
      BY <1>1, <2>2 DEF WriteBlockTo
    <3> QED
      BY <2>2, <3>1, ConsumeIs
  <2> QED
    BY <2>1, <2>2
<1>2. ASSUME NEW b \in Block, WriteBlock(b) PROVE RingInv'
  <2>1. BlockBytes(b) <= Cap /\ writing' = <<b>>
    BY <1>2, BytesType DEF WriteBlock
  <2> QED
    BY <1>2, <2>1 DEF WriteBlock, RingInv, TypeOK
<1>3. ASSUME NEW b \in Block, WriteBlockTooLarge(b) PROVE RingInv'
  BY <1>3 DEF WriteBlockTooLarge, RingInv, TypeOK
<1>4. CASE Evict
  <2>1. PICK b \in Block : /\ HeaderIs(b) /\ Consume(b) /\ blocks' = Tail(blocks)
                          /\ UNCHANGED <<buf, write, writing>> /\ len # 0
    BY <1>4 DEF Evict
  <2> QED
    BY <2>1, ConsumeIs
<1>5. CASE Copy
  BY <1>5, CopyIs
<1>6. CASE UNCHANGED vars
  BY <1>6 DEF vars, RingInv, TypeOK
<1> QED
  BY <1>1, <1>2, <1>3, <1>4, <1>5, <1>6 DEF Next

\* The offset of a block, as its recursive definition gives it, is a running sum.
LEMMA OffsetIs ==
    ASSUME NEW s, blocks \in Seq(Block), Sums(s, blocks, Len(blocks)),
           NEW k \in 1..(Len(blocks) + 1)
    PROVE  Offset(k) = s[k - 1]
<1> DEFINE n == k - 1
           t == [i \in 0..n |-> s[i]]
<1>1. n \in Nat /\ n \in 0..n /\ \A i \in 0..n : i \in 0..Len(blocks)
        /\ (i # 0 => i \in 1..Len(blocks) /\ i - 1 \in 0..n)
  OBVIOUS
<1>2. Sums(t, blocks, n)
  BY <1>1 DEF Sums
<1>3. Offset(k) = (CHOOSE h : h = SumStep(h, blocks, n))[n]
  BY DEF Offset, SumStep
<1> HIDE DEF n
<1>4. (CHOOSE h : h = SumStep(h, blocks, n))[n] = t[n]
  BY <1>1, <1>2, SumsSolve
<1> QED
  BY <1>1, <1>3, <1>4 DEF n

\* The invariant implies the property.
LEMMA RingInvIntact == RingInv => ArrayIntact
<1> SUFFICES ASSUME RingInv PROVE ArrayIntact
  OBVIOUS
<1>1. /\ len \in 0..Cap /\ read \in 0..(Cap - 1) /\ blocks \in Seq(Block)
      /\ write = Cell(read + len) /\ Cap \in Nat \ {0} /\ Len(blocks) \in Nat
  BY BytesType DEF RingInv, TypeOK
<1>2. PICK s : Layout(s, blocks, len, buf, read)
  BY DEF RingInv
<1>3. Sums(s, blocks, Len(blocks)) /\ len = s[Len(blocks)]
  BY <1>2 DEF Layout
<1>4. IndicesAgree
  <2>1. read + len \in 0..(2 * Cap - 1)
    BY <1>1
  <2> QED
    BY <1>1, <2>1, CellMod DEF IndicesAgree
<1>5. len = Offset(Len(blocks) + 1)
  <2>1. Len(blocks) + 1 \in 1..(Len(blocks) + 1) /\ (Len(blocks) + 1) - 1 = Len(blocks)
    BY <1>1
  <2> QED
    BY <1>1, <1>3, <2>1, OffsetIs
<1>6. ASSUME NEW k \in 1..Len(blocks), NEW i \in 1..BlockBytes(blocks[k])
      PROVE  buf[(read + Offset(k) + i - 1) % Cap] = BlockByte(blocks[k], i)
  <2>1. k \in 1..(Len(blocks) + 1) /\ k - 1 \in 0..Len(blocks) /\ k \in 0..Len(blocks)
        /\ Len(blocks) \in 0..Len(blocks) /\ k <= Len(blocks) /\ blocks[k] \in Block
    BY <1>1
  <2>2. Offset(k) = s[k - 1]
    BY <1>1, <1>3, <2>1, OffsetIs
  <2> DEFINE u == s[k - 1]
             w == BlockBytes(blocks[k])
  <2>3. u \in Nat /\ w \in Nat /\ s[k] = u + w /\ s[k] <= len
    BY <1>2, <1>3, <2>1, BytesType DEF Layout, Sums
  <2>4. buf[Cell(read + u + i - 1)] = BlockByte(blocks[k], i)
    BY <1>2 DEF Layout
  <2>5. i \in 1..w
    OBVIOUS
  <2> HIDE DEF u, w
  <2>6. read + u + i - 1 \in 0..(2 * Cap - 1)
    BY <1>1, <2>3, <2>5
  <2>7. (read + u + i - 1) % Cap = Cell(read + u + i - 1)
    BY <2>6, CellMod
  <2> QED
    BY <2>2, <2>4, <2>7 DEF u
<1>7. BlocksIntact
  BY <1>5, <1>6 DEF BlocksIntact, BlockByte
<1>8. TypeOK
  BY DEF RingInv
<1> QED
  BY <1>4, <1>7, <1>8 DEF ArrayIntact

\* The array of the ring buffer holds every block that was written and not yet
\* taken or evicted, whole and where WriteBlockTo looks for it, whatever wraps
\* around, for every size of the buffer and of the blocks (ringbuffer/buffer.go).
THEOREM ArrayIsIntact == Spec => []ArrayIntact
<1>1. Spec => []RingInv
  BY RingInit, RingStep, PTL DEF Spec
<1> QED
  BY <1>1, RingInvIntact, PTL

-----------------------------------------------------------------------------
(* The refinement *)

\* What is handed out: a block with the bytes written for it.
Whole == {<<b, Payload(b)>> : b \in Block}

\* The queue: until the running WriteBlock copies, what it evicted counts.
Held == Delivered(evicted) \o blocks

\* The block being written fits only without all the blocks evicted for it.
EvictionsNeeded(q, k, b) == \A j \in 0..(k - 1) : ~Queue!Fits(Queue!Without(q, j), b)

\* The inductive invariant behind the refinement.
QueueInv ==
    /\ RingInv
    /\ evicted \in Seq(Whole)
    /\ writing = <<>> => evicted = <<>>
    /\ writing # <<>> => EvictionsNeeded(Held, Len(evicted), writing[1])

\* The bytes the queue of the abstract specification takes are the running sum.
LEMMA UsedIs ==
    ASSUME NEW q \in Seq(Block), NEW s, Sums(s, q, Len(q))
    PROVE  Queue!Used(q) = s[Len(q)]
<1> DEFINE n == Len(q)
           G(h) == [i \in 0..n |-> IF i = 0 THEN 0
                                   ELSE h[i - 1] + [b \in Block |-> BlockBytes(b)][q[i]]]
           f == CHOOSE h : h = G(h)
<1>1. n \in Nat /\ \A i \in 0..n : i # 0 => q[i] \in Block
  OBVIOUS
<1>2. Queue!Used(q) = f[n]
  BY DEF Queue!Used
<1>3. ASSUME NEW h PROVE G(h) = SumStep(h, q, n)
  BY <1>1 DEF SumStep
<1>4. s = SumStep(s, q, n)
  BY DEF Sums, SumStep
<1>5. s = G(s)
  BY <1>3, <1>4, Zenon
<1>6. f = G(f)
  BY <1>5, Zenon
<1> HIDE DEF f, G
<1>7. f = SumStep(f, q, n)
  BY <1>3, <1>6, Zenon
<1>8. f[n] = s[n]
  BY <1>1, <1>7, SumsUnique
<1> QED
  BY <1>2, <1>8

\* Used and len agree.
LEMMA UsedIsLen == ASSUME RingInv PROVE Queue!Used(blocks) = len
<1>1. PICK s : Layout(s, blocks, len, buf, read)
  BY DEF RingInv
<1>2. blocks \in Seq(Block) /\ Sums(s, blocks, Len(blocks)) /\ len = s[Len(blocks)]
  BY <1>1 DEF RingInv, Layout
<1> QED
  BY <1>2, UsedIs

\* The blocks handed out whole.
LEMMA DeliveredIs ==
    ASSUME NEW s \in Seq(Whole)
    PROVE  /\ Delivered(s) \in Seq(Block) /\ Len(Delivered(s)) = Len(s)
           /\ \A i \in 1..Len(s) : Delivered(s)[i] = s[i][1]
<1>1. Len(s) \in Nat
  OBVIOUS
<1>2. ASSUME NEW i \in 1..Len(s)
      PROVE  s[i][1] \in Block /\ s[i][2] = Payload(s[i][1])
  <2>1. s[i] \in Whole
    OBVIOUS
  <2>2. PICK b \in Block : s[i] = <<b, Payload(b)>>
    BY <2>1 DEF Whole
  <2> QED
    BY <2>2
<1>3. Delivered(s) = [i \in 1..Len(s) |-> s[i][1]]
  BY <1>2 DEF Delivered
<1> QED
  BY <1>1, <1>2, <1>3

\* One more of them.
LEMMA DeliveredAppend ==
    ASSUME NEW s \in Seq(Whole), NEW b \in Block
    PROVE  /\ Append(s, <<b, Payload(b)>>) \in Seq(Whole)
           /\ Delivered(Append(s, <<b, Payload(b)>>)) = Append(Delivered(s), b)
<1> DEFINE w == <<b, Payload(b)>>
           t == Append(s, w)
<1>1. w \in Whole /\ w[1] = b
  BY DEF Whole
<1> HIDE DEF w
<1>2. /\ t \in Seq(Whole) /\ Len(t) = Len(s) + 1 /\ t[Len(s) + 1] = w /\ Len(s) \in Nat
      /\ \A i \in 1..Len(s) : t[i] = s[i]
  BY <1>1, AppendProperties
<1> HIDE DEF t
<1>3. /\ Delivered(t) \in Seq(Block) /\ Len(Delivered(t)) = Len(s) + 1
      /\ \A i \in 1..(Len(s) + 1) : Delivered(t)[i] = t[i][1]
  BY <1>2, DeliveredIs
<1>4. /\ Delivered(s) \in Seq(Block) /\ Len(Delivered(s)) = Len(s)
      /\ \A i \in 1..Len(s) : Delivered(s)[i] = s[i][1]
  BY DeliveredIs
<1> DEFINE d == Delivered(s)
           a == Append(d, b)
<1>5. /\ a \in Seq(Block) /\ Len(a) = Len(s) + 1 /\ a[Len(s) + 1] = b
      /\ \A i \in 1..Len(s) : a[i] = d[i]
  BY <1>4, AppendProperties
<1> HIDE DEF a
<1>6. ASSUME NEW i \in 1..(Len(s) + 1) PROVE Delivered(t)[i] = a[i]
  <2>1. CASE i = Len(s) + 1
    BY <1>1, <1>2, <1>3, <1>5, <2>1
  <2>2. CASE i # Len(s) + 1
    <3>1. i \in 1..Len(s)
      BY <1>2, <2>2
    <3> QED
      BY <1>2, <1>3, <1>4, <1>5, <3>1
  <2> QED
    BY <2>1, <2>2
<1>7. Delivered(t) = a
  BY <1>2, <1>3, <1>5, <1>6, SeqEqual
<1> QED
  BY <1>2, <1>7 DEF t, a, w

\* A block that moves from the front of the one sequence to the end of the other.
LEMMA MoveHead ==
    ASSUME NEW p \in Seq(Block), NEW q \in Seq(Block), q # <<>>
    PROVE  Append(p, Head(q)) \o Tail(q) = p \o q
<1>1. Head(q) \in Block /\ Tail(q) \in Seq(Block) /\ <<Head(q)>> \in Seq(Block)
  BY HeadTailProperties
<1>2. Append(p, Head(q)) = p \o <<Head(q)>>
  BY <1>1, AppendIsConcat
<1>3. <<Head(q)>> \o Tail(q) = q
  BY <1>1
<1> QED
  BY <1>1, <1>2, <1>3, ConcatAssociative

\* The two parts of a concatenation.
LEMMA ConcatParts ==
    ASSUME NEW p \in Seq(Block), NEW q \in Seq(Block)
    PROVE  /\ SubSeq(p \o q, 1, Len(p)) = p
           /\ Queue!Without(p \o q, Len(p)) = q
           /\ Len(p) \in 0..Len(p \o q) /\ p \o q \in Seq(Block)
<1> DEFINE c == p \o q
           n == Len(p)
           m == Len(q)
<1>1. /\ n \in Nat /\ m \in Nat /\ c \in Seq(Block) /\ Len(c) = n + m
      /\ \A i \in 1..(n + m) : c[i] = IF i <= n THEN p[i] ELSE q[i - n]
  BY ConcatProperties, LenProperties
<1>2. \A i \in 1..(n + m) : c[i] \in Block
  BY <1>1, ElementOfSeq
<1> HIDE DEF c, n, m
<1>3. /\ SubSeq(c, 1, n) \in Seq(Block) /\ Len(SubSeq(c, 1, n)) = n
      /\ \A i \in 1..n : SubSeq(c, 1, n)[i] = c[i]
  <2>1. \A i \in 1..n : c[i] \in Block
    BY <1>1, <1>2
  <2>2. /\ SubSeq(c, 1, n) \in Seq(Block)
        /\ Len(SubSeq(c, 1, n)) = IF 1 <= n THEN n - 1 + 1 ELSE 0
        /\ \A i \in 1..(n - 1 + 1) : SubSeq(c, 1, n)[i] = c[1 + i - 1]
    BY <1>1, <2>1, SubSeqProperties
  <2> HIDE DEF n
  <2> DEFINE d == SubSeq(c, 1, n)
  <2>3. d \in Seq(Block) /\ Len(d) = n
    BY <1>1, <2>2
  <2>4. ASSUME NEW i \in 1..n PROVE d[i] = c[i]
    <3>1. i \in 1..(n - 1 + 1) /\ 1 + i - 1 = i
      BY <1>1
    <3> QED
      BY <2>2, <3>1
  <2> QED
    BY <2>3, <2>4
<1>4. SubSeq(c, 1, n) = p
  <2>1. \A i \in 1..n : c[i] = p[i]
    BY <1>1
  <2> QED
    BY <1>3, <2>1, SeqEqual DEF n
<1>5. /\ SubSeq(c, n + 1, n + m) \in Seq(Block) /\ Len(SubSeq(c, n + 1, n + m)) = m
      /\ \A i \in 1..m : SubSeq(c, n + 1, n + m)[i] = q[i]
  <2> DEFINE lo == n + 1
             hi == n + m
             d == SubSeq(c, lo, hi)
  <2>1. lo \in Int /\ hi \in Int /\ \A i \in lo..hi : c[i] \in Block
    BY <1>1, <1>2
  <2>2. (lo <= hi => hi - lo + 1 = m) /\ (~(lo <= hi) => 0 = m) /\ hi - lo + 1 = m
        /\ \A i \in 1..m : lo + i - 1 \in 1..(n + m) /\ ~(lo + i - 1 <= n) /\ (lo + i - 1) - n = i
    BY <1>1
  <2> HIDE DEF lo, hi
  <2>3. /\ d \in Seq(Block) /\ Len(d) = IF lo <= hi THEN hi - lo + 1 ELSE 0
        /\ \A i \in 1..(hi - lo + 1) : d[i] = c[lo + i - 1]
    BY <2>1, SubSeqProperties
  <2> HIDE DEF d
  <2>4. Len(d) = m
    BY <2>2, <2>3
  <2>5. ASSUME NEW i \in 1..m PROVE d[i] = q[i]
    <3>1. d[i] = c[lo + i - 1]
      BY <2>2, <2>3
    <3> QED
      BY <1>1, <2>2, <3>1
  <2>6. SubSeq(c, n + 1, n + m) = d
    BY DEF d, lo, hi
  <2> QED
    BY <2>3, <2>4, <2>5, <2>6
<1>6. SubSeq(c, n + 1, n + m) = q
  BY <1>5, SeqEqual DEF m
<1>7. Queue!Without(c, n) = q
  BY <1>1, <1>6 DEF Queue!Without
<1>8. n \in 0..Len(c)
  BY <1>1
<1> QED
  BY <1>1, <1>4, <1>7, <1>8 DEF c, n

\* What was evicted and what is held, as the abstract queue.
LEMMA HeldIs ==
    ASSUME QueueInv
    PROVE  /\ Held \in Seq(Block) /\ Len(evicted) \in 0..Len(Held)
           /\ SubSeq(Held, 1, Len(evicted)) = Delivered(evicted)
           /\ Queue!Without(Held, Len(evicted)) = blocks
           /\ evicted = <<>> => Held = blocks
<1>1. evicted \in Seq(Whole) /\ blocks \in Seq(Block)
  BY DEF QueueInv, RingInv
<1>2. Delivered(evicted) \in Seq(Block) /\ Len(Delivered(evicted)) = Len(evicted)
  BY <1>1, DeliveredIs
<1> DEFINE p == Delivered(evicted)
<1> HIDE DEF p
<1>3. p \in Seq(Block) /\ Len(p) = Len(evicted) /\ Held = p \o blocks
  BY <1>2 DEF p, Held
<1>4. evicted = <<>> => Held = blocks
  <2> SUFFICES ASSUME evicted = <<>> PROVE Held = blocks
    OBVIOUS
  <2>1. p = <<>>
    BY <1>3
  <2> QED
    BY <1>1, <1>3, <2>1, ConcatEmptySeq
<1>5. /\ SubSeq(p \o blocks, 1, Len(p)) = p /\ Queue!Without(p \o blocks, Len(p)) = blocks
      /\ Len(p) \in 0..Len(p \o blocks) /\ p \o blocks \in Seq(Block)
  BY <1>1, <1>3, ConcatParts
<1> QED
  BY <1>3, <1>4, <1>5 DEF p

\* The buffer is empty exactly when it holds no block.
LEMMA EmptyIs == ASSUME RingInv, len = 0 PROVE blocks = <<>>
<1> SUFFICES ASSUME blocks # <<>> PROVE FALSE
  OBVIOUS
<1>1. /\ blocks \in Seq(Block) /\ len \in 0..Cap /\ read \in 0..(Cap - 1)
  BY DEF RingInv, TypeOK
<1>2. PICK s : Layout(s, blocks, len, buf, read)
  BY DEF RingInv
<1>3. BlockBytes(blocks[1]) <= len
  BY <1>1, <1>2, LayoutTail
<1>4. blocks[1] \in Block
  BY <1>1
<1> QED
  BY <1>3, <1>4, BytesType

\* The fit of the abstract specification is the test of WriteBlock's loop.
LEMMA FitsIs ==
    ASSUME RingInv, NEW b \in Block
    PROVE  /\ Queue!Fits(blocks, b) <=> HasRoom(b)
           /\ Queue!Fits(blocks, b) <=> BlockBytes(b) <= Cap - len
           /\ Queue!TooLarge(b) <=> BlockBytes(b) > Cap
<1>1. Queue!Used(blocks) = len
  BY UsedIsLen
<1>2. [c \in Block |-> BlockBytes(c)][b] = BlockBytes(b)
  OBVIOUS
<1>3. BlockBytes(b) = Size[b] + BlockHeaderSize
  BY RingBufferAssumption DEF BlockBytes
<1> QED
  BY <1>1, <1>2, <1>3 DEF Queue!Fits, Queue!TooLarge, HasRoom

\* An eviction moves a block from the ones held to the ones evicted.
LEMMA EvictIs ==
    ASSUME QueueInv, Evict
    PROVE  QueueInv' /\ Held' = Held
<1>1. PICK b \in Block : /\ HeaderIs(b) /\ Consume(b) /\ blocks' = Tail(blocks)
                        /\ evicted' = Append(evicted, <<b, Handed(b)>>)
                        /\ UNCHANGED <<buf, write, writing>> /\ len # 0
                        /\ writing # <<>> /\ ~HasRoom(writing[1])
  BY DEF Evict
<1>2. RingInv
  BY DEF QueueInv
<1>3. blocks # <<>> /\ b = Head(blocks) /\ Handed(b) = Payload(b) /\ RingInv'
  BY <1>1, <1>2, ConsumeIs
<1>4. evicted \in Seq(Whole) /\ blocks \in Seq(Block) /\ Delivered(evicted) \in Seq(Block)
      /\ Len(evicted) \in Nat
  BY DeliveredIs DEF QueueInv, RingInv
<1>5. evicted' = Append(evicted, <<b, Payload(b)>>)
  BY <1>1, <1>3
<1>6. evicted' \in Seq(Whole) /\ Delivered(evicted') = Append(Delivered(evicted), b)
  BY <1>4, <1>5, DeliveredAppend
<1>7. Len(evicted') = Len(evicted) + 1
  BY <1>4, <1>6, <1>5, DeliveredIs, AppendProperties
<1>8. Held' = Held
  <2> DEFINE p == Delivered(evicted)
  <2>1. Held' = Delivered(evicted') \o blocks'
    BY DEF Held, Delivered, Payload, PayloadByte
  <2>2. Held = p \o blocks
    BY DEF Held
  <2> HIDE DEF p
  <2>3. Append(p, Head(blocks)) \o Tail(blocks) = p \o blocks
    BY <1>3, <1>4, MoveHead DEF p
  <2> QED
    BY <1>1, <1>3, <1>6, <2>1, <2>2, <2>3 DEF p
<1>9. PICK w \in Block : writing = <<w>>
  BY <1>1, <1>2 DEF RingInv
<1>10. writing[1] = w /\ writing' = writing
  BY <1>1, <1>9
<1>11. ~Queue!Fits(blocks, w)
  BY <1>1, <1>2, <1>9, <1>10, FitsIs
<1>12. Queue!Without(Held, Len(evicted)) = blocks
  BY HeldIs
<1>13. EvictionsNeeded(Held, Len(evicted), w)
  BY <1>1, <1>10 DEF QueueInv
<1>14. EvictionsNeeded(Held, Len(evicted) + 1, w)
  <2> DEFINE n == Len(evicted)
  <2> HIDE DEF n
  <2> SUFFICES ASSUME NEW j \in 0..n PROVE ~Queue!Fits(Queue!Without(Held, j), w)
    BY <1>4 DEF EvictionsNeeded, n
  <2>1. CASE j = n
    BY <1>11, <1>12, <2>1 DEF n
  <2>2. CASE j # n
    <3>1. j \in 0..(n - 1)
      BY <1>4, <2>2 DEF n
    <3> QED
      BY <1>13, <3>1 DEF EvictionsNeeded, n
  <2> QED
    BY <2>1, <2>2
<1>15. writing' # <<>> /\ EvictionsNeeded(Held, Len(evicted'), writing'[1])
  BY <1>1, <1>7, <1>10, <1>14
<1> QED
  BY <1>3, <1>6, <1>8, <1>15 DEF QueueInv, Whole, EvictionsNeeded

\* A copy is a Put of the abstract queue, with the evictions it needed.
LEMMA CopyPuts ==
    ASSUME QueueInv, Copy
    PROVE  QueueInv' /\ Queue!Put
<1>1. RingInv
  BY DEF QueueInv
<1>2. PICK b \in Block : /\ writing = <<b>> /\ BlockBytes(b) <= Cap - len
                        /\ blocks' = Append(blocks, b) /\ RingInv'
  BY <1>1, CopyIs
<1>3. writing' = <<>> /\ out' = evicted /\ evicted' = <<>>
  BY DEF Copy
<1>4. QueueInv'
  BY <1>2, <1>3 DEF QueueInv
<1> DEFINE k == Len(evicted)
<1>5. /\ k \in 0..Len(Held) /\ SubSeq(Held, 1, k) = Delivered(evicted)
      /\ Queue!Without(Held, k) = blocks
  BY HeldIs
<1>6. writing # <<>> /\ writing[1] = b
  BY <1>2
<1>7. EvictionsNeeded(Held, k, b)
  BY <1>6 DEF QueueInv
<1>8. Queue!Fits(blocks, b) /\ ~Queue!TooLarge(b)
  <2>1. Queue!Fits(blocks, b)
    BY <1>1, <1>2, FitsIs
  <2>2. BlockBytes(b) <= Cap /\ BlockBytes(b) \in Nat /\ Cap \in Nat
    <3>1. \E c \in Block : writing = <<c>> /\ BlockBytes(c) <= Cap
      BY <1>1, <1>2 DEF RingInv
    <3> QED
      BY <1>2, <3>1, BytesType
  <2>3. ~Queue!TooLarge(b)
    BY <1>1, <2>2, FitsIs
  <2> QED
    BY <2>1, <2>3
<1>9. Held' = Append(blocks, b)
  <2>1. blocks \in Seq(Block) /\ Append(blocks, b) \in Seq(Block)
    BY <1>1 DEF RingInv
  <2>2. Delivered(evicted') = <<>>
    BY <1>3 DEF Delivered
  <2>3. Held' = Delivered(evicted') \o blocks'
    BY DEF Held, Delivered, Payload, PayloadByte
  <2> QED
    BY <1>2, <2>1, <2>2, <2>3, ConcatEmptySeq
<1>10. Delivered(out') = SubSeq(Held, 1, k)
  BY <1>3, <1>5
<1>11. Delivered(out)' = SubSeq(Held, 1, k)
  BY <1>10 DEF Delivered, Payload, PayloadByte
<1> HIDE DEF k
<1>12. Queue!Evicts(Held, b, k)
  BY <1>5, <1>7, <1>8 DEF Queue!Evicts, EvictionsNeeded
<1>13. Held' = Append(Queue!Without(Held, k), b)
  BY <1>5, <1>9
<1> QED
  BY <1>4, <1>5, <1>8, <1>11, <1>12, <1>13 DEF Queue!Put, Held

\* A WriteBlockTo is a Take of the abstract queue.
LEMMA WriteBlockToTakes ==
    ASSUME QueueInv, WriteBlockTo
    PROVE  QueueInv' /\ Queue!Take
<1>1. RingInv /\ evicted = <<>> /\ evicted \in Seq(Whole)
  BY DEF QueueInv, WriteBlockTo
<1>2. Held = blocks
  BY <1>1, HeldIs
<1>3. evicted' = evicted /\ writing' = writing /\ writing = <<>>
  BY DEF WriteBlockTo
<1>4. RingInv'
  BY <1>1, RingStep DEF Next
<1>5. QueueInv'
  BY <1>1, <1>3, <1>4 DEF QueueInv
<1>6. Held' = blocks'
  <2>1. Delivered(evicted') = <<>>
    BY <1>1, <1>3 DEF Delivered
  <2>2. Held' = Delivered(evicted') \o blocks' /\ blocks' \in Seq(Block)
    BY <1>4 DEF Held, Delivered, Payload, PayloadByte, RingInv
  <2> QED
    BY <2>1, <2>2, ConcatEmptySeq
<1>7. CASE len = 0
  <2>1. blocks = <<>> /\ out' = <<>> /\ blocks' = blocks
    BY <1>1, <1>7, EmptyIs DEF WriteBlockTo
  <2>2. Delivered(out)' = <<>>
    BY <2>1 DEF Delivered
  <2>3. Held = <<>> /\ Held' = Held
    BY <1>2, <1>6, <2>1
  <2> QED
    BY <1>5, <2>2, <2>3 DEF Queue!Take, Held
<1>8. CASE len # 0
  <2>1. PICK b \in Block : /\ HeaderIs(b) /\ Consume(b) /\ blocks' = Tail(blocks)
                          /\ out' = <<<<b, Handed(b)>>>>
                          /\ UNCHANGED <<buf, write, writing>>
    BY <1>8 DEF WriteBlockTo
  <2>2. blocks # <<>> /\ b = Head(blocks) /\ Handed(b) = Payload(b)
    BY <1>1, <1>8, <2>1, ConsumeIs
  <2>3. Delivered(out') = <<b>>
    BY <2>1, <2>2 DEF Delivered
  <2>4. Delivered(out)' = <<Head(Held)>> /\ Held # <<>> /\ Held' = Tail(Held)
    BY <1>2, <1>6, <2>1, <2>2, <2>3 DEF Delivered, Payload, PayloadByte
  <2> QED
    BY <1>5, <2>4 DEF Queue!Take, Held
<1> QED
  BY <1>7, <1>8

\* Every step preserves the invariant and is one of the abstract queue's or none.
LEMMA QueueStep == QueueInv /\ [Next]_vars => QueueInv' /\ [Queue!Next]_(Queue!vars)
<1> SUFFICES ASSUME QueueInv, [Next]_vars PROVE QueueInv' /\ [Queue!Next]_(Queue!vars)
  OBVIOUS
<1>1. CASE WriteBlockTo
  BY <1>1, WriteBlockToTakes DEF Queue!Next
<1>2. ASSUME NEW b \in Block, WriteBlock(b) PROVE QueueInv' /\ UNCHANGED Queue!vars
  <2>1. /\ writing = <<>> /\ writing' = <<b>> /\ evicted' = evicted /\ blocks' = blocks
        /\ out' = out
    BY <1>2 DEF WriteBlock
  <2>2. RingInv'
    BY <1>2, RingStep DEF QueueInv, Next
  <2>3. evicted = <<>> /\ evicted' \in Seq(Whole)
    BY <2>1 DEF QueueInv
  <2>4. \A h, w : EvictionsNeeded(h, Len(evicted), w)
    BY <2>3 DEF EvictionsNeeded
  <2>5. QueueInv'
    BY <2>1, <2>2, <2>3, <2>4 DEF QueueInv
  <2>6. UNCHANGED Queue!vars
    BY <2>1 DEF Queue!vars, Delivered, Payload, PayloadByte
  <2> QED
    BY <2>5, <2>6
<1>3. ASSUME NEW b \in Block, WriteBlockTooLarge(b) PROVE QueueInv' /\ Queue!Refuse
  <2>1. UNCHANGED <<buf, len, write, read, writing, blocks, evicted>> /\ out' = <<>>
    BY <1>3 DEF WriteBlockTooLarge
  <2>2. RingInv'
    BY <1>3, RingStep DEF QueueInv, Next
  <2>3. QueueInv'
    BY <2>1, <2>2 DEF QueueInv, Held, Delivered, Payload, PayloadByte, EvictionsNeeded
  <2>4. Queue!TooLarge(b)
    <3>1. BlockBytes(b) > Cap
      BY <1>3, BytesType DEF WriteBlockTooLarge
    <3>2. [c \in Block |-> BlockBytes(c)][b] = BlockBytes(b)
      OBVIOUS
    <3> QED
      BY <3>1, <3>2 DEF Queue!TooLarge
  <2>5. Delivered(out)' = <<>>
    BY <2>1 DEF Delivered
  <2>6. Held' = Held
    BY <2>1 DEF Held, Delivered, Payload, PayloadByte
  <2> QED
    BY <2>3, <2>4, <2>5, <2>6 DEF Queue!Refuse, Held
<1>4. CASE Evict
  <2>1. out' = out
    BY <1>4 DEF Evict
  <2>2. QueueInv' /\ Held' = Held
    BY <1>4, EvictIs
  <2>3. UNCHANGED Queue!vars
    BY <2>1, <2>2 DEF Queue!vars, Held, Delivered, Payload, PayloadByte
  <2> QED
    BY <2>2, <2>3
<1>5. CASE Copy
  BY <1>5, CopyPuts DEF Queue!Next
<1>6. CASE UNCHANGED vars
  <2>1. UNCHANGED <<buf, len, write, read, writing, blocks, evicted, out>>
    BY <1>6 DEF vars
  <2>2. RingInv'
    BY <1>6, RingStep DEF QueueInv
  <2>3. QueueInv'
    BY <2>1, <2>2 DEF QueueInv, Held, Delivered, Payload, PayloadByte, EvictionsNeeded
  <2>4. UNCHANGED Queue!vars
    BY <2>1 DEF Queue!vars, Delivered, Payload, PayloadByte
  <2> QED
    BY <2>3, <2>4
<1> QED
  BY <1>1, <1>2, <1>3, <1>4, <1>5, <1>6 DEF Next, Queue!Next

\* The ring buffer implements BlockQueue for every size of the buffer, of its
\* headers and of the blocks: WriteBlockTo hands out the oldest block with the
\* bytes written for it, and WriteBlock evicts the oldest blocks and no more of
\* them than the new one needs (ringbuffer/buffer.go).
THEOREM RingBufferIsAQueue == Spec => ImplementsQueue
<1>1. Init => QueueInv /\ Queue!Init
  <2> SUFFICES ASSUME Init PROVE QueueInv /\ Queue!Init
    OBVIOUS
  <2>1. evicted = <<>> /\ blocks = <<>> /\ out = <<>> /\ writing = <<>>
    BY DEF Init
  <2>2. Delivered(evicted) = <<>> /\ Delivered(out) = <<>>
    BY <2>1 DEF Delivered
  <2>3. QueueInv
    BY <2>1, RingInit DEF QueueInv
  <2> QED
    BY <2>1, <2>2, <2>3 DEF Queue!Init
<1>2. QueueInv /\ [Next]_vars => QueueInv' /\ [Queue!Next]_(Queue!vars)
  BY QueueStep
<1> QED
  BY <1>1, <1>2, PTL DEF Spec, ImplementsQueue, Queue!Spec
=============================================================================
