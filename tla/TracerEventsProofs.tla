------------------------- MODULE TracerEventsProofs -------------------------
(***************************************************************************)
(* Theorems about the events in TracerLoop, for every value of its         *)
(* constants: no event is lost or held twice, the statistics are exact,    *)
(* and a Flush delivers when nothing else closes its request.              *)
(***************************************************************************)
EXTENDS TracerLoopProofs, SequenceTheorems

-----------------------------------------------------------------------------
(* Queues of events *)

\* Held, for a given function from events to places.
HeldBy(q, a, w) ==
    /\ \A i, j \in 1..Len(q) : q[i] = q[j] /\ q[i] \in Event => i = j
    /\ \A e \in Event : a[e] = w <=> \E i \in 1..Len(q) : q[i] = e

\* a and b put the same events into place w.
SamePlace(a, b, w) == \A e \in Event : a[e] = w <=> b[e] = w

\* A queue whose events stay.
LEMMA HeldSame ==
    ASSUME NEW q, NEW a, NEW b, NEW w, HeldBy(q, a, w), SamePlace(a, b, w)
    PROVE  HeldBy(q, b, w)
BY DEF HeldBy, SamePlace

\* The empty queue.
LEMMA HeldEmpty ==
    ASSUME NEW a, NEW w, \A e \in Event : a[e] # w
    PROVE  HeldBy(<<>>, a, w)
BY DEF HeldBy

\* A queue to whose end the event e comes.
LEMMA HeldAppend ==
    ASSUME NEW S, Event \subseteq S, NEW q \in Seq(S), NEW a, NEW b, NEW w,
           NEW e \in Event, HeldBy(q, a, w), a[e] # w, b[e] = w,
           \A x \in Event \ {e} : a[x] = w <=> b[x] = w
    PROVE  HeldBy(Append(q, e), b, w)
<1> DEFINE r == Append(q, e)
<1>1. /\ Len(r) = Len(q) + 1 /\ Len(q) \in Nat
      /\ \A i \in 1..Len(q) : r[i] = q[i]
      /\ r[Len(q) + 1] = e
  BY AppendProperties
<1> HIDE DEF r
<1>2. \A i \in 1..Len(q) : q[i] # e
  BY DEF HeldBy
<1>3. ASSUME NEW i \in 1..Len(r), NEW j \in 1..Len(r), r[i] = r[j], r[i] \in Event
      PROVE  i = j
  <2>1. CASE i \in 1..Len(q) /\ j \in 1..Len(q)
    BY <1>1, <1>3, <2>1 DEF HeldBy
  <2>2. CASE ~(i \in 1..Len(q) /\ j \in 1..Len(q))
    BY <1>1, <1>2, <1>3, <2>2
  <2> QED
    BY <2>1, <2>2
<1>4. ASSUME NEW x \in Event PROVE b[x] = w <=> \E i \in 1..Len(r) : r[i] = x
  <2>1. Len(q) + 1 \in 1..Len(r) /\ \A i \in 1..Len(q) : i \in 1..Len(r)
    BY <1>1
  <2>2. CASE x = e
    BY <1>1, <2>1, <2>2
  <2>3. CASE x # e
    <3>1. b[x] = w <=> \E i \in 1..Len(q) : q[i] = x
      BY <2>3 DEF HeldBy
    <3>2. \A i \in 1..Len(r) : r[i] = x => i \in 1..Len(q)
      BY <1>1, <2>3
    <3> QED
      BY <1>1, <2>1, <3>1, <3>2
  <2> QED
    BY <2>2, <2>3
<1> QED
  BY <1>3, <1>4 DEF HeldBy, r

\* A queue that loses its k oldest events.
LEMMA HeldDrop ==
    ASSUME NEW q \in Seq(Event), NEW k \in 0..Len(q), NEW a, NEW b, NEW w, HeldBy(q, a, w),
           \A x \in Event : b[x] = w <=> a[x] = w /\ ~\E i \in 1..k : q[i] = x
    PROVE  HeldBy(SubSeq(q, k + 1, Len(q)), b, w)
<1> DEFINE r == SubSeq(q, k + 1, Len(q))
<1>1. Len(q) \in Nat /\ k \in Nat /\ k <= Len(q) /\ \A i \in 1..Len(q) : q[i] \in Event
  BY LenProperties
<1>2. Len(r) = Len(q) - k /\ \A i \in 1..Len(r) : r[i] = q[i + k]
  <2>1. k + 1 \in Int /\ Len(q) \in Int /\ \A i \in (k + 1)..Len(q) : q[i] \in Event
    BY <1>1
  <2>2. /\ Len(r) = IF k + 1 <= Len(q) THEN Len(q) - (k + 1) + 1 ELSE 0
        /\ \A i \in 1..Len(q) - (k + 1) + 1 : r[i] = q[(k + 1) + i - 1]
    BY <2>1, SubSeqProperties
  <2>3. Len(r) = Len(q) - k /\ Len(q) - (k + 1) + 1 = Len(q) - k
    BY <1>1, <2>2
  <2>4. \A i \in Int : (k + 1) + i - 1 = i + k
    BY <1>1
  <2> HIDE DEF r
  <2>5. ASSUME NEW i \in 1..Len(r) PROVE r[i] = q[i + k]
    <3>1. i \in 1..Len(q) - (k + 1) + 1 /\ (k + 1) + i - 1 = i + k
      BY <1>1, <2>3, <2>4
    <3> QED
      BY <2>2, <3>1
  <2> QED
    BY <2>3, <2>5
<1> HIDE DEF r
<1>3. ASSUME NEW i \in 1..Len(r), NEW j \in 1..Len(r), r[i] = r[j], r[i] \in Event
      PROVE  i = j
  <2>1. i + k \in 1..Len(q) /\ j + k \in 1..Len(q) /\ q[i + k] = q[j + k]
    BY <1>1, <1>2, <1>3
  <2>2. i + k = j + k
    BY <1>1, <2>1 DEF HeldBy
  <2> QED
    BY <1>1, <1>2, <2>2
<1>4. ASSUME NEW x \in Event PROVE b[x] = w <=> \E i \in 1..Len(r) : r[i] = x
  <2>1. ASSUME b[x] = w PROVE \E i \in 1..Len(r) : r[i] = x
    <3>1. PICK j \in 1..Len(q) : q[j] = x
      BY <2>1 DEF HeldBy
    <3>2. j \notin 1..k
      BY <2>1, <3>1
    <3>3. j - k \in 1..Len(r) /\ (j - k) + k = j
      BY <1>1, <1>2, <3>1, <3>2
    <3> QED
      BY <1>2, <3>1, <3>3
  <2>2. ASSUME NEW j \in 1..Len(r), r[j] = x PROVE b[x] = w
    <3>1. j + k \in 1..Len(q) /\ q[j + k] = x
      BY <1>1, <1>2, <2>2
    <3>2. a[x] = w
      BY <3>1 DEF HeldBy
    <3>3. ASSUME NEW i \in 1..k, q[i] = x PROVE FALSE
      <4>1. i \in 1..Len(q) /\ i # j + k
        BY <1>1, <1>2, <2>2, <3>3
      <4> QED
        BY <1>1, <3>1, <3>3, <4>1 DEF HeldBy
    <3> QED
      BY <3>2, <3>3
  <2> QED
    BY <2>1, <2>2
<1> QED
  BY <1>3, <1>4 DEF HeldBy, r

\* A queue to whose end items come that are no events.
LEMMA HeldOther ==
    ASSUME NEW S, NEW q \in Seq(S), NEW t \in Seq(S), NEW a, NEW w, HeldBy(q, a, w),
           \A i \in 1..Len(t) : t[i] \notin Event
    PROVE  HeldBy(q \o t, a, w)
<1> DEFINE r == q \o t
<1>1. /\ Len(r) = Len(q) + Len(t) /\ Len(q) \in Nat /\ Len(t) \in Nat
      /\ \A i \in 1..Len(q) : r[i] = q[i]
      /\ \A i \in (Len(q) + 1)..Len(r) : r[i] = t[i - Len(q)]
  BY ConcatIndices
<1> HIDE DEF r
<1>2. \A i \in 1..Len(r) : r[i] \in Event => i \in 1..Len(q) /\ r[i] = q[i]
  <2> SUFFICES ASSUME NEW i \in 1..Len(r), r[i] \in Event, i \notin 1..Len(q) PROVE FALSE
    BY <1>1
  <2>1. i \in (Len(q) + 1)..Len(r) /\ i - Len(q) \in 1..Len(t)
    BY <1>1
  <2> QED
    BY <1>1, <2>1
<1>3. \A i \in 1..Len(q) : i \in 1..Len(r)
  BY <1>1
<1>4. ASSUME NEW i \in 1..Len(r), NEW j \in 1..Len(r), r[i] = r[j], r[i] \in Event
      PROVE  i = j
  BY <1>2, <1>4 DEF HeldBy
<1>5. ASSUME NEW x \in Event PROVE a[x] = w <=> \E i \in 1..Len(r) : r[i] = x
  BY <1>1, <1>2, <1>3 DEF HeldBy
<1> QED
  BY <1>4, <1>5 DEF HeldBy, r

\* A queue to whose end the events of t come, none of which it held.
LEMMA HeldConcat ==
    ASSUME NEW S, NEW q \in Seq(S), NEW t \in Seq(S), NEW a, NEW b, NEW w, HeldBy(q, a, w),
           \A i \in 1..Len(t) : t[i] \in Event /\ a[t[i]] # w,
           \A i, j \in 1..Len(t) : t[i] = t[j] => i = j,
           \A x \in Event : b[x] = w <=> a[x] = w \/ \E i \in 1..Len(t) : t[i] = x
    PROVE  HeldBy(q \o t, b, w)
<1> DEFINE r == q \o t
<1>1. /\ Len(r) = Len(q) + Len(t) /\ Len(q) \in Nat /\ Len(t) \in Nat
      /\ \A i \in 1..Len(q) : r[i] = q[i]
      /\ \A i \in (Len(q) + 1)..Len(r) : r[i] = t[i - Len(q)]
  BY ConcatIndices
<1> HIDE DEF r
<1>2. \A i \in 1..Len(r) : i \in 1..Len(q) \/ (i \in (Len(q) + 1)..Len(r) /\ i - Len(q) \in 1..Len(t))
  BY <1>1
<1>3. ASSUME NEW i \in 1..Len(q), NEW j \in 1..Len(t), q[i] = t[j] PROVE FALSE
  BY <1>3 DEF HeldBy
<1>4. ASSUME NEW i \in 1..Len(r), NEW j \in 1..Len(r), r[i] = r[j], r[i] \in Event
      PROVE  i = j
  <2>1. CASE i \in 1..Len(q) /\ j \in 1..Len(q)
    BY <1>1, <1>4, <2>1 DEF HeldBy
  <2>2. CASE i \in 1..Len(q) /\ j \notin 1..Len(q)
    BY <1>1, <1>2, <1>3, <1>4, <2>2
  <2>3. CASE i \notin 1..Len(q) /\ j \in 1..Len(q)
    BY <1>1, <1>2, <1>3, <1>4, <2>3
  <2>4. CASE i \notin 1..Len(q) /\ j \notin 1..Len(q)
    <3>1. i - Len(q) = j - Len(q)
      BY <1>1, <1>2, <1>4, <2>4
    <3> QED
      BY <1>1, <3>1
  <2> QED
    BY <2>1, <2>2, <2>3, <2>4
<1>5. ASSUME NEW x \in Event PROVE b[x] = w <=> \E i \in 1..Len(r) : r[i] = x
  <2>1. ASSUME a[x] = w PROVE \E i \in 1..Len(r) : r[i] = x
    <3>1. PICK i \in 1..Len(q) : q[i] = x
      BY <2>1 DEF HeldBy
    <3>2. i \in 1..Len(r) /\ r[i] = x
      BY <1>1, <3>1
    <3> QED
      BY <3>2
  <2>2. ASSUME NEW i \in 1..Len(t), t[i] = x PROVE \E j \in 1..Len(r) : r[j] = x
    <3>1. i + Len(q) \in (Len(q) + 1)..Len(r) /\ (i + Len(q)) - Len(q) = i
            /\ i + Len(q) \in 1..Len(r)
      BY <1>1
    <3> QED
      BY <1>1, <2>2, <3>1
  <2>3. ASSUME NEW i \in 1..Len(r), r[i] = x PROVE b[x] = w
    <3>1. CASE i \in 1..Len(q)
      BY <1>1, <2>3, <3>1 DEF HeldBy
    <3>2. CASE i \notin 1..Len(q)
      BY <1>1, <1>2, <2>3, <3>2
    <3> QED
      BY <3>1, <3>2
  <2> QED
    BY <2>1, <2>2, <2>3
<1> QED
  BY <1>4, <1>5 DEF HeldBy, r

-----------------------------------------------------------------------------
(* Counting events *)

\* The events of kind k in place w, for a given function from events to places.
Those(k, a, w) == {e \in Event : Kind[e] = k /\ a[e] = w}

\* They are finitely many.
LEMMA ThoseFinite ==
    ASSUME NEW k, NEW a, NEW w
    PROVE  IsFiniteSet(Those(k, a, w)) /\ Cardinality(Those(k, a, w)) \in Nat
<1>1. Those(k, a, w) \in SUBSET Event
  BY DEF Those
<1>2. IsFiniteSet(Those(k, a, w))
  BY <1>1, TracerLoopAssumption, FS_Subset
<1> QED
  BY <1>2, FS_CardinalityType

\* One event comes to place w.
LEMMA CountOne ==
    ASSUME NEW k, NEW a, NEW b, NEW w, NEW e \in Event, a[e] # w, b[e] = w,
           \A x \in Event \ {e} : a[x] = w <=> b[x] = w
    PROVE  Cardinality(Those(k, b, w)) =
               Cardinality(Those(k, a, w)) + (IF Kind[e] = k THEN 1 ELSE 0)
<1>1. IsFiniteSet(Those(k, a, w)) /\ Cardinality(Those(k, a, w)) \in Nat
  BY ThoseFinite
<1>2. CASE Kind[e] = k
  <2>1. Those(k, b, w) = Those(k, a, w) \cup {e} /\ e \notin Those(k, a, w)
    BY <1>2 DEF Those
  <2>2. Cardinality(Those(k, a, w) \cup {e}) = Cardinality(Those(k, a, w)) + 1
    BY <1>1, <2>1, FS_AddElement
  <2> QED
    BY <1>2, <2>1, <2>2
<1>3. CASE Kind[e] # k
  <2>1. Those(k, b, w) = Those(k, a, w)
    BY <1>3 DEF Those
  <2> QED
    BY <1>1, <1>3, <2>1
<1> QED
  BY <1>2, <1>3

\* The events of two places come together.
LEMMA CountUnion ==
    ASSUME NEW k, NEW a, NEW b, NEW v, NEW w, v # w,
           \A x \in Event : b[x] = w <=> a[x] = w \/ a[x] = v
    PROVE  Cardinality(Those(k, b, w)) =
               Cardinality(Those(k, a, w)) + Cardinality(Those(k, a, v))
<1>1. /\ IsFiniteSet(Those(k, a, w)) /\ Cardinality(Those(k, a, w)) \in Nat
      /\ IsFiniteSet(Those(k, a, v)) /\ Cardinality(Those(k, a, v)) \in Nat
  BY ThoseFinite
<1>2. Those(k, b, w) = Those(k, a, w) \cup Those(k, a, v)
  BY DEF Those
<1>3. Those(k, a, w) \cap Those(k, a, v) = {}
  BY DEF Those
<1>4. Cardinality(Those(k, a, w) \cap Those(k, a, v)) = 0
  BY <1>3, FS_EmptySet
<1>5. Cardinality(Those(k, a, w) \cup Those(k, a, v)) =
          Cardinality(Those(k, a, w)) + Cardinality(Those(k, a, v))
              - Cardinality(Those(k, a, w) \cap Those(k, a, v))
  BY <1>1, FS_Union
<1> QED
  BY <1>1, <1>2, <1>4, <1>5

\* The indices, among the n oldest events of queue q, of those of kind k.
Oldest(q, n, k) == {i \in 1..n : Kind[q[i]] = k}

\* The n oldest events of queue q come to place w.
Come(a, b, q, n, w) ==
    \A x \in Event : b[x] = w <=> a[x] = w \/ \E i \in 1..n : q[i] = x

\* When they come from the queue's own place v, they are counted by their indices.
LEMMA CountPrefix ==
    ASSUME NEW k, NEW a, NEW b, NEW v, NEW w, NEW q \in Seq(Event), NEW n \in 0..Len(q),
           HeldBy(q, a, v), v # w, Come(a, b, q, n, w)
    PROVE  /\ Cardinality(Oldest(q, n, k)) \in Nat
           /\ Cardinality(Those(k, b, w)) =
                  Cardinality(Those(k, a, w)) + Cardinality(Oldest(q, n, k))
<1> DEFINE I == {i \in 1..n : Kind[q[i]] = k}
           E == {q[i] : i \in I}
           f == [i \in I |-> q[i]]
<1>1. /\ Len(q) \in Nat /\ n \in Nat /\ n <= Len(q) /\ \A i \in 1..n : i \in 1..Len(q)
      /\ \A i \in 1..Len(q) : q[i] \in Event /\ a[q[i]] = v
  BY LenProperties DEF HeldBy
<1>2. IsFiniteSet(I) /\ Cardinality(I) \in Nat
  <2>1. IsFiniteSet(1..n)
    <3>1. 1 \in Int /\ n \in Int
      BY <1>1
    <3> QED
      BY <3>1, FS_Interval
  <2>2. IsFiniteSet(I)
    BY <2>1, FS_Subset
  <2> QED
    BY <2>2, FS_CardinalityType
<1>3. IsFiniteSet(E) /\ Cardinality(E) = Cardinality(I)
  <2>1. f \in Bijection(I, E)
    <3>1. f \in [I -> E]
      OBVIOUS
    <3>2. \A i, j \in I : f[i] = f[j] => i = j
      BY <1>1 DEF HeldBy
    <3>3. \A e \in E : \E i \in I : f[i] = e
      OBVIOUS
    <3> QED
      BY <3>1, <3>2, <3>3 DEF Bijection, Injection, Surjection, IsInjective
  <2>2. ExistsBijection(I, E)
    BY <2>1 DEF ExistsBijection
  <2> HIDE DEF I, E
  <2> QED
    BY <1>2, <2>2, FS_Bijection
<1>4. Those(k, b, w) = Those(k, a, w) \cup E
  BY <1>1 DEF Those, Come
<1>5. Those(k, a, w) \cap E = {}
  BY <1>1 DEF Those
<1>6. IsFiniteSet(Those(k, a, w)) /\ Cardinality(Those(k, a, w)) \in Nat
  BY ThoseFinite
<1> HIDE DEF I, E
<1>7. Cardinality(Those(k, a, w) \cup E) =
          Cardinality(Those(k, a, w)) + Cardinality(E) - Cardinality(Those(k, a, w) \cap E)
  BY <1>3, <1>6, FS_Union
<1>8. Cardinality(Those(k, a, w) \cap E) = 0
  BY <1>5, FS_EmptySet
<1>9. Cardinality(Those(k, b, w)) = Cardinality(Those(k, a, w)) + Cardinality(I)
  BY <1>2, <1>3, <1>4, <1>6, <1>7, <1>8
<1> QED
  BY <1>2, <1>9 DEF I, Oldest

-----------------------------------------------------------------------------
(* The invariants *)

\* The inductive invariant behind EventsConserved: what a request held has left it
\* when its result has arrived, and between two requests the body is empty.
ConservedInv ==
    /\ HeldBy(events, at, "channel")
    /\ HeldBy(buffer, at, "buffer")
    /\ pc # "notify" => HeldBy(body, at, "request")
    /\ pc = "notify" => \A e \in Event : at[e] # "request"
    /\ ~requestActive => body = <<>>

\* The inductive invariant behind StatsExact: the events of the request are counted
\* as they are written, and the loop leaves a Flush with nothing to send only
\* when it has evicted nothing.
StatsInv ==
    /\ \A k \in Kinds :
        /\ tstats.sent[k] + stats.sent[k] = Cardinality(Those(k, at, "acked"))
        /\ tstats.dropped[k] + stats.dropped[k] = Cardinality(Those(k, at, "dropped"))
    /\ pc # "notify" =>
           \A k \in Kinds : requestBufCount[k] = Cardinality(Those(k, at, "request"))
    /\ pc \notin {"drain", "bottom"} => stats = NoStats
    /\ pc = "drain" => stats = NoStats \/ buffer # <<>>

\* The invariants hold initially.
LEMMA EventsInit == Init => ConservedInv /\ StatsInv
<1> SUFFICES ASSUME Init PROVE ConservedInv /\ StatsInv
  OBVIOUS
<1>1. \A e \in Event : at[e] = "app"
  BY DEF Init
<1>2. ConservedInv
  BY <1>1, HeldEmpty DEF Init, ConservedInv
<1>3. \A k, w : w # "app" => Those(k, at, w) = {}
  BY <1>1 DEF Those
<1>4. \A k : Cardinality(Those(k, at, "acked")) = 0 /\ Cardinality(Those(k, at, "dropped")) = 0
               /\ Cardinality(Those(k, at, "request")) = 0
  BY <1>3, FS_EmptySet
<1>5. \A k \in Kinds : /\ tstats.sent[k] = 0 /\ tstats.dropped[k] = 0
                       /\ stats.sent[k] = 0 /\ stats.dropped[k] = 0
                       /\ requestBufCount[k] = 0
  BY DEF Init, NoStats, Tags
<1>6. StatsInv
  BY <1>4, <1>5 DEF Init, StatsInv
<1> QED
  BY <1>2, <1>6

\* What HandleEvent does with the event it is given, e: the event leaves the
\* channel, and what it evicts from the buffer is counted as dropped.
LEMMA HandleEventIs ==
    ASSUME TypeOK, ConservedInv, events # <<>>, HandleEvent(Head(events)),
           events' = Tail(events)
    PROVE  /\ HeldBy(events', at', "channel") /\ HeldBy(buffer', at', "buffer")
           /\ SamePlace(at, at', "request") /\ SamePlace(at, at', "acked")
           /\ stats' \in StatsType /\ stats'.sent = stats.sent
           /\ \A k \in Kinds : stats'.dropped[k] + Cardinality(Those(k, at, "dropped")) =
                  stats.dropped[k] + Cardinality(Those(k, at', "dropped"))
           /\ (stats' = stats /\ buffer' = buffer) \/ buffer' # <<>>
<1> DEFINE e == Head(events)
<1>1. /\ events \in Seq(Event) /\ buffer \in Seq(Event) /\ stats \in StatsType
      /\ at \in [Event -> Places]
  BY DEF TypeOK, TracerType, BufferType, HistoryType
<1>2. e \in Event /\ Len(events) \in Nat \ {0} /\ events[1] = e
  BY <1>1
<1>3. at[e] = "channel"
  BY <1>2 DEF ConservedInv, HeldBy
<1>4. events' = SubSeq(events, 1 + 1, Len(events)) /\ 1 \in 0..Len(events)
  BY <1>1, <1>2, TailIsSubSeq
<1>5. stats' \in StatsType
  BY <1>1, <1>2, HandleEventType DEF TypeOK
<1> HIDE DEF e
<1>6. ASSUME \A x \in Event : at'[x] = "channel" <=> at[x] = "channel" /\ x # e
      PROVE  HeldBy(events', at', "channel")
  <2>1. \A x \in Event :
           at'[x] = "channel" <=> at[x] = "channel" /\ ~\E i \in 1..1 : events[i] = x
    BY <1>2, <1>6
  <2>2. HeldBy(events, at, "channel")
    BY DEF ConservedInv
  <2>3. HeldBy(SubSeq(events, 1 + 1, Len(events)), at', "channel")
    <3> DEFINE b == at'
    <3>1. \A x \in Event :
             b[x] = "channel" <=> at[x] = "channel" /\ ~\E i \in 1..1 : events[i] = x
      BY <2>1
    <3> HIDE DEF b
    <3>2. HeldBy(SubSeq(events, 1 + 1, Len(events)), b, "channel")
      BY <1>1, <1>4, <2>2, <3>1, HeldDrop
    <3> QED
      BY <3>2 DEF b
  <2> QED
    BY <1>4, <2>3
<1>7. CASE UNCHANGED <<buffer, stats>> /\ \E w \in {"toolarge", "discarded"} :
               at' = [at EXCEPT ![e] = w]
  <2>1. /\ \A x \in Event : at'[x] = "channel" <=> at[x] = "channel" /\ x # e
        /\ SamePlace(at, at', "request") /\ SamePlace(at, at', "acked")
        /\ SamePlace(at, at', "buffer") /\ SamePlace(at, at', "dropped")
    BY <1>1, <1>2, <1>3, <1>7 DEF SamePlace
  <2>2. HeldBy(buffer', at', "buffer")
    BY <1>7, <2>1, HeldSame DEF ConservedInv
  <2>3. \A k : Those(k, at', "dropped") = Those(k, at, "dropped")
    BY <2>1 DEF Those, SamePlace
  <2> QED
    BY <1>5, <1>6, <1>7, <2>1, <2>2, <2>3
<1>8. CASE WriteEvent(e) /\ ~BQ!TooLarge(e)
  <2>1. PICK n \in 0..Len(buffer) :
           /\ buffer' = Append(SubSeq(buffer, n + 1, Len(buffer)), e)
           /\ stats' = [stats EXCEPT !.dropped =
                  [x \in Kinds |-> @[x] + Cardinality({i \in 1..n : Kind[buffer[i]] = x})]]
           /\ at' = [x \in Event |->
                  IF x = e THEN "buffer"
                  ELSE IF \E i \in 1..n : buffer[i] = x THEN "dropped"
                  ELSE at[x]]
    BY <1>8 DEF WriteEvent, BQ!Without
  <2> DEFINE mid == [x \in Event |->
                        IF \E i \in 1..n : buffer[i] = x THEN "dropped" ELSE at[x]]
             rest == SubSeq(buffer, n + 1, Len(buffer))
  <2>2. \A i \in 1..n : i \in 1..Len(buffer) /\ buffer[i] \in Event /\ at[buffer[i]] = "buffer"
    BY <1>1, <2>1 DEF ConservedInv, HeldBy
  <2>3. /\ \A x \in Event : at'[x] = "channel" <=> at[x] = "channel" /\ x # e
        /\ SamePlace(at, at', "request") /\ SamePlace(at, at', "acked")
    BY <1>2, <1>3, <2>1, <2>2 DEF SamePlace
  <2>4. HeldBy(buffer', at', "buffer") /\ buffer' # <<>>
    <3>1. \A x \in Event :
              mid[x] = "buffer" <=> at[x] = "buffer" /\ ~\E i \in 1..n : buffer[i] = x
      OBVIOUS
    <3>2. mid[e] # "buffer" /\ at'[e] = "buffer"
            /\ \A x \in Event \ {e} : mid[x] = "buffer" <=> at'[x] = "buffer"
      BY <1>2, <1>3, <2>1, <2>2
    <3> HIDE DEF mid
    <3>3. HeldBy(rest, mid, "buffer")
      BY <1>1, <2>1, <3>1, HeldDrop DEF ConservedInv
    <3>4. rest \in Seq(Event)
      BY <1>1, <2>1
    <3> HIDE DEF rest
    <3>5. HeldBy(Append(rest, e), at', "buffer")
      BY <1>2, <3>2, <3>3, <3>4, HeldAppend
    <3>6. Append(rest, e) # <<>>
      BY <1>2, <3>4, AppendProperties
    <3> QED
      BY <2>1, <3>5, <3>6 DEF rest
  <2>5. ASSUME NEW k \in Kinds
        PROVE  stats'.dropped[k] + Cardinality(Those(k, at, "dropped")) =
                  stats.dropped[k] + Cardinality(Those(k, at', "dropped"))
    <3>1. Come(at, at', buffer, n, "dropped")
      BY <1>2, <1>3, <2>1, <2>2 DEF Come
    <3>2. HeldBy(buffer, at, "buffer") /\ n \in 0..Len(buffer) /\ buffer \in Seq(Event)
      BY <1>1 DEF ConservedInv
    <3> DEFINE d == Cardinality(Oldest(buffer, n, k))
               c == Cardinality(Those(k, at, "dropped"))
               c2 == Cardinality(Those(k, at', "dropped"))
    <3>4. d \in Nat /\ c2 = c + d
      BY <3>1, <3>2, CountPrefix
    <3>5. stats'.dropped[k] = stats.dropped[k] + d /\ stats.dropped[k] \in Nat
      BY <1>1, <2>1 DEF StatsType, Oldest
    <3>6. c \in Nat
      BY ThoseFinite
    <3> HIDE DEF c, d, c2
    <3>7. stats'.dropped[k] + c = stats.dropped[k] + c2
      BY <3>4, <3>5, <3>6
    <3> QED
      BY <3>7 DEF c, c2
  <2>6. stats'.sent = stats.sent
    BY <1>1, <2>1 DEF StatsType
  <2> QED
    BY <1>5, <1>6, <2>3, <2>4, <2>5, <2>6
<1>9. HandleEvent(e)
  BY DEF e
<1> QED
  BY <1>7, <1>8, <1>9 DEF HandleEvent, WriteEvent

-----------------------------------------------------------------------------
(* The steps *)

eventVars == <<events, buffer, body, at, requestActive, tstats, stats, requestBufCount>>

\* Steps that leave the events and the statistics alone, and the loop where it
\* stands or outside the turns that count.
LEMMA EventsFrame ==
    ASSUME ConservedInv, StatsInv, UNCHANGED eventVars,
           pc' = pc \/ (pc \in {"select", "exit"} /\ pc' # "notify")
    PROVE  ConservedInv' /\ StatsInv'
<1>1. ConservedInv'
  BY DEF ConservedInv, HeldBy, eventVars
<1>2. StatsInv'
  BY DEF StatsInv, Those, eventVars
<1> QED
  BY <1>1, <1>2

\* An event the application ends comes to the channel or is counted as dropped.
LEMMA EventsEnqueue ==
    ASSUME TypeOK, ConservedInv, StatsInv, NEW e \in Event, Enqueue(e)
    PROVE  ConservedInv' /\ StatsInv'
<1>1. /\ events \in Seq(Event) /\ tstats \in StatsType /\ stats \in StatsType
      /\ at \in [Event -> Places] /\ Kind[e] \in Kinds
  BY TracerLoopAssumption DEF TypeOK, TracerType, BufferType, HistoryType
<1>2. at[e] = "app" /\ UNCHANGED <<pc, buffer, body, requestActive, stats, requestBufCount>>
  BY DEF Enqueue, bufferVars, streamVars, requestVars, zlibVars
<1> DEFINE b == at'
<1>3. CASE events' = Append(events, e) /\ b = [at EXCEPT ![e] = "channel"] /\ UNCHANGED tstats
  <2>1. /\ SamePlace(at, b, "buffer") /\ SamePlace(at, b, "request")
        /\ SamePlace(at, b, "acked") /\ SamePlace(at, b, "dropped")
    BY <1>1, <1>2, <1>3 DEF SamePlace
  <2>2. HeldBy(Append(events, e), b, "channel")
    <3>1. /\ HeldBy(events, at, "channel") /\ at[e] # "channel" /\ b[e] = "channel"
          /\ \A x \in Event \ {e} : at[x] = "channel" <=> b[x] = "channel"
      BY <1>1, <1>2, <1>3 DEF ConservedInv
    <3> HIDE DEF b
    <3> QED
      BY <1>1, <3>1, HeldAppend
  <2> HIDE DEF b
  <2>3. HeldBy(buffer, b, "buffer") /\ (pc # "notify" => HeldBy(body, b, "request"))
    BY <2>1, HeldSame DEF ConservedInv
  <2>4. \A k : /\ Those(k, b, "acked") = Those(k, at, "acked")
               /\ Those(k, b, "dropped") = Those(k, at, "dropped")
               /\ Those(k, b, "request") = Those(k, at, "request")
    BY <2>1 DEF Those, SamePlace
  <2>5. ConservedInv'
    BY <1>2, <1>3, <2>1, <2>2, <2>3 DEF ConservedInv, SamePlace, b
  <2>6. StatsInv'
    BY <1>2, <1>3, <2>4 DEF StatsInv, b
  <2> QED
    BY <2>5, <2>6
<1>4. CASE /\ tstats' = [tstats EXCEPT !.dropped[Kind[e]] = @ + 1]
           /\ b = [at EXCEPT ![e] = "dropped"] /\ UNCHANGED events
  <2>1. /\ SamePlace(at, b, "buffer") /\ SamePlace(at, b, "request")
        /\ SamePlace(at, b, "acked") /\ SamePlace(at, b, "channel")
    BY <1>1, <1>2, <1>4 DEF SamePlace
  <2>2. /\ at[e] # "dropped" /\ b[e] = "dropped"
        /\ \A x \in Event \ {e} : at[x] = "dropped" <=> b[x] = "dropped"
    BY <1>1, <1>2, <1>4
  <2> HIDE DEF b
  <2>3. /\ HeldBy(buffer, b, "buffer") /\ (pc # "notify" => HeldBy(body, b, "request"))
        /\ HeldBy(events, b, "channel")
    BY <2>1, HeldSame DEF ConservedInv
  <2>4. \A k : /\ Those(k, b, "acked") = Those(k, at, "acked")
               /\ Those(k, b, "request") = Those(k, at, "request")
    BY <2>1 DEF Those, SamePlace
  <2>5. ASSUME NEW k \in Kinds
        PROVE  /\ tstats'.sent[k] = tstats.sent[k]
               /\ tstats'.dropped[k] + stats.dropped[k] = Cardinality(Those(k, b, "dropped"))
    <3>1. Cardinality(Those(k, b, "dropped")) =
              Cardinality(Those(k, at, "dropped")) + (IF Kind[e] = k THEN 1 ELSE 0)
      BY <2>2, CountOne
    <3>2. /\ tstats'.sent[k] = tstats.sent[k]
          /\ tstats'.dropped[k] = tstats.dropped[k] + (IF Kind[e] = k THEN 1 ELSE 0)
          /\ tstats.dropped[k] \in Nat /\ stats.dropped[k] \in Nat
      BY <1>1, <1>4 DEF StatsType
    <3>3. tstats.dropped[k] + stats.dropped[k] = Cardinality(Those(k, at, "dropped"))
      BY DEF StatsInv
    <3> QED
      BY <3>1, <3>2, <3>3
  <2>6. ConservedInv'
    BY <1>2, <1>4, <2>1, <2>3 DEF ConservedInv, SamePlace, b
  <2>7. StatsInv'
    BY <1>2, <1>4, <2>4, <2>5 DEF StatsInv, b
  <2> QED
    BY <2>6, <2>7
<1> QED
  BY <1>3, <1>4 DEF Enqueue

\* The loop takes an event from the channel, in its own case or draining.
LEMMA EventsHandle ==
    ASSUME TypeOK, ConservedInv, StatsInv, CaseEvent \/ Drain
    PROVE  ConservedInv' /\ StatsInv'
<1>1. /\ events # <<>> /\ HandleEvent(Head(events)) /\ events' = Tail(events)
      /\ UNCHANGED <<tstats, body, requestActive, requestBufCount>>
      /\ \/ pc = "select" /\ pc' = "bottom"
         \/ pc = "drain" /\ pc' = "drain"
  BY DEF CaseEvent, Drain, zlibVars, streamVars, requestVars
<1>2. /\ HeldBy(events', at', "channel") /\ HeldBy(buffer', at', "buffer")
      /\ SamePlace(at, at', "request") /\ SamePlace(at, at', "acked")
      /\ stats' \in StatsType /\ stats'.sent = stats.sent
      /\ \A k \in Kinds : stats'.dropped[k] + Cardinality(Those(k, at, "dropped")) =
             stats.dropped[k] + Cardinality(Those(k, at', "dropped"))
      /\ (stats' = stats /\ buffer' = buffer) \/ buffer' # <<>>
  BY <1>1, HandleEventIs
<1> DEFINE b == at'
<1>3. HeldBy(body, b, "request")
  BY <1>1, <1>2, HeldSame DEF ConservedInv
<1>4. \A k : /\ Those(k, b, "acked") = Those(k, at, "acked")
             /\ Those(k, b, "request") = Those(k, at, "request")
  BY <1>2 DEF Those, SamePlace
<1>5. ASSUME NEW k \in Kinds
      PROVE  tstats.dropped[k] + stats'.dropped[k] = Cardinality(Those(k, b, "dropped"))
  <2>1. /\ tstats.dropped[k] \in Nat /\ stats.dropped[k] \in Nat /\ stats'.dropped[k] \in Nat
        /\ Cardinality(Those(k, at, "dropped")) \in Nat
        /\ Cardinality(Those(k, b, "dropped")) \in Nat
    BY <1>2, ThoseFinite DEF TypeOK, TracerType, BufferType, StatsType
  <2>2. /\ tstats.dropped[k] + stats.dropped[k] = Cardinality(Those(k, at, "dropped"))
        /\ stats'.dropped[k] + Cardinality(Those(k, at, "dropped")) =
             stats.dropped[k] + Cardinality(Those(k, b, "dropped"))
    BY <1>2 DEF StatsInv
  <2> HIDE DEF b
  <2> QED
    BY <2>1, <2>2
<1> HIDE DEF b
<1>6. ConservedInv'
  BY <1>1, <1>2, <1>3 DEF ConservedInv, b
<1>7. StatsInv'
  BY <1>1, <1>2, <1>4, <1>5 DEF StatsInv, b
<1> QED
  BY <1>6, <1>7

\* A Flush that has drained the channel.
LEMMA EventsDrained ==
    ASSUME ConservedInv, StatsInv, Drained
    PROVE  ConservedInv' /\ StatsInv'
<1>1. /\ UNCHANGED eventVars /\ pc = "drain"
      /\ \/ pc' = "bottom"
         \/ pc' = "select" /\ buffer = <<>>
  BY DEF Drained, NothingToSend, eventVars, tracerVars, bufferVars, zlibVars, historyVars
<1>2. ConservedInv'
  BY <1>1 DEF ConservedInv, HeldBy, eventVars
<1>3. StatsInv'
  BY <1>1 DEF StatsInv, Those, eventVars
<1> QED
  BY <1>2, <1>3

\* The result of the request has arrived: its events are sent or given up, and
\* those sent are the ones counted as they were written.
LEMMA EventsResult ==
    ASSUME TypeOK, ConservedInv, StatsInv, CaseRequestResult
    PROVE  ConservedInv' /\ StatsInv'
<1> DEFINE ok == requestResult = "ok"
           b == at'
<1>1. /\ tstats \in StatsType /\ stats = NoStats /\ requestBufCount \in [Tags -> Nat]
      /\ at \in [Event -> Places]
      /\ pc = "select" /\ pc' = "notify" /\ stats' = NoStats
      /\ UNCHANGED <<events, buffer, body, requestActive, requestBufCount>>
  BY DEF CaseRequestResult, TypeOK, TracerType, ZlibType, HistoryType, StatsInv, zlibVars
<1>2. \A e \in Event : at[e] = "request" <=> \E i \in 1..Len(body) : body[i] = e
  BY <1>1 DEF ConservedInv, HeldBy
<1>3. b = [e \in Event |-> IF \E i \in 1..Len(body) : body[i] = e
                           THEN IF ok THEN "acked" ELSE "failed"
                           ELSE at[e]]
  BY DEF CaseRequestResult
<1>4. \A e \in Event : b[e] = IF at[e] = "request" THEN IF ok THEN "acked" ELSE "failed"
                                                   ELSE at[e]
  BY <1>2, <1>3
<1>5. /\ tstats'.sent = [k \in Kinds |->
             tstats.sent[k] + (0 + (IF ok THEN requestBufCount[k] ELSE 0))]
      /\ tstats'.dropped = [k \in Kinds |-> tstats.dropped[k] + (0 + 0)]
  BY <1>1 DEF CaseRequestResult, Accumulate, NoStats
<1> HIDE DEF b, ok
<1>6. ConservedInv'
  <2>1. /\ SamePlace(at, b, "channel") /\ SamePlace(at, b, "buffer")
        /\ \A e \in Event : b[e] # "request"
    BY <1>4 DEF SamePlace
  <2>2. HeldBy(events, b, "channel") /\ HeldBy(buffer, b, "buffer")
    BY <2>1, HeldSame DEF ConservedInv
  <2> QED
    BY <1>1, <2>1, <2>2 DEF ConservedInv, b
<1>7. StatsInv'
  <2>1. ASSUME NEW k \in Kinds
        PROVE  /\ tstats'.sent[k] + stats'.sent[k] = Cardinality(Those(k, b, "acked"))
               /\ tstats'.dropped[k] + stats'.dropped[k] = Cardinality(Those(k, b, "dropped"))
    <3>1. /\ tstats.sent[k] \in Nat /\ tstats.dropped[k] \in Nat /\ requestBufCount[k] \in Nat
          /\ stats.sent[k] = 0 /\ stats.dropped[k] = 0
          /\ stats'.sent[k] = 0 /\ stats'.dropped[k] = 0
      BY <1>1 DEF StatsType, NoStats, Tags
    <3>2. /\ tstats.sent[k] + stats.sent[k] = Cardinality(Those(k, at, "acked"))
          /\ tstats.dropped[k] + stats.dropped[k] = Cardinality(Those(k, at, "dropped"))
          /\ requestBufCount[k] = Cardinality(Those(k, at, "request"))
      BY <1>1 DEF StatsInv
    <3>3. Those(k, b, "dropped") = Those(k, at, "dropped")
      BY <1>4 DEF Those
    <3>4. CASE ok
      <4>1. \A x \in Event : b[x] = "acked" <=> at[x] = "acked" \/ at[x] = "request"
        BY <1>4, <3>4
      <4>2. Cardinality(Those(k, b, "acked")) =
                Cardinality(Those(k, at, "acked")) + Cardinality(Those(k, at, "request"))
        BY <4>1, CountUnion
      <4> QED
        BY <1>5, <3>1, <3>2, <3>3, <3>4, <4>2
    <3>5. CASE ~ok
      <4>1. Those(k, b, "acked") = Those(k, at, "acked")
        BY <1>4, <3>5 DEF Those
      <4> QED
        BY <1>5, <3>1, <3>2, <3>3, <3>5, <4>1
    <3> QED
      BY <3>4, <3>5
  <2> QED
    BY <1>1, <2>1 DEF StatsInv, b
<1> QED
  BY <1>6, <1>7

\* The request's variables are reset: its events have left it.
LEMMA EventsNotify ==
    ASSUME ConservedInv, StatsInv, Notify
    PROVE  ConservedInv' /\ StatsInv'
<1>1. /\ pc = "notify" /\ pc' = "bottom" /\ body' = <<>>
      /\ requestBufCount' = [t \in Tags |-> 0]
      /\ UNCHANGED <<events, buffer, at, tstats, stats>>
  BY DEF Notify, tracerVars, bufferVars, historyVars
<1>2. \A e \in Event : at[e] # "request"
  BY <1>1 DEF ConservedInv
<1>3. HeldBy(<<>>, at, "request")
  BY <1>2, HeldEmpty
<1>4. \A k : Those(k, at, "request") = {}
  BY <1>2 DEF Those
<1>5. \A k \in Kinds : requestBufCount'[k] = Cardinality(Those(k, at, "request"))
  BY <1>1, <1>4, FS_EmptySet DEF Tags
<1>6. ConservedInv'
  BY <1>1, <1>3 DEF ConservedInv
<1>7. StatsInv'
  BY <1>1, <1>5 DEF StatsInv
<1> QED
  BY <1>6, <1>7

\* The statistics are published and a request may be started, with no events yet.
LEMMA EventsBottom ==
    ASSUME TypeOK, ConservedInv, StatsInv, Bottom
    PROVE  ConservedInv' /\ StatsInv'
<1>1. /\ pc = "bottom" /\ pc' \in {"select", "fill"}
      /\ tstats' = Accumulate(tstats, stats) /\ stats' = NoStats
      /\ UNCHANGED <<events, buffer, at, requestBufCount>>
      /\ \/ UNCHANGED <<body, requestActive>>
         \/ ~requestActive /\ requestActive' = TRUE /\ body' = <<"header", "metadata">>
  BY DEF Bottom, PublishStats, streamVars, requestVars, zlibVars, historyVars
<1>2. HeldBy(body', at, "request")
  <2>1. CASE body' = body
    BY <1>1, <2>1 DEF ConservedInv
  <2>2. CASE ~requestActive /\ body' = <<"header", "metadata">>
    <3> DEFINE new == <<"header", "metadata">>
    <3>1. body = <<>> /\ HeldBy(<<>>, at, "request")
      BY <1>1, <2>2 DEF ConservedInv
    <3>2. \A i \in 1..Len(new) : new[i] \notin Event
      BY TracerLoopAssumption
    <3>3. <<>> \in Seq(Item) /\ new \in Seq(Item)
      BY DEF Item
    <3>4. <<>> \o new = new
      BY <3>3
    <3> HIDE DEF new
    <3>5. HeldBy(<<>> \o new, at, "request")
      BY <3>1, <3>2, <3>3, HeldOther
    <3> QED
      BY <2>2, <3>4, <3>5 DEF new
  <2> QED
    BY <1>1, <2>1, <2>2
<1>3. ConservedInv'
  BY <1>1, <1>2 DEF ConservedInv
<1>4. ASSUME NEW k \in Kinds
      PROVE  /\ tstats'.sent[k] + stats'.sent[k] = tstats.sent[k] + stats.sent[k]
             /\ tstats'.dropped[k] + stats'.dropped[k] = tstats.dropped[k] + stats.dropped[k]
  BY <1>1 DEF Accumulate, NoStats, TypeOK, TracerType, BufferType, StatsType
<1>5. StatsInv'
  BY <1>1, <1>4 DEF StatsInv
<1> QED
  BY <1>3, <1>5

\* The request takes the oldest events of the buffer, and counts them.
LEMMA EventsFill ==
    ASSUME TypeOK, StreamInv, ConservedInv, StatsInv, Fill
    PROVE  ConservedInv' /\ StatsInv'
<1>1. /\ pc = "fill" /\ pc' = "finish" /\ requestActive
      /\ UNCHANGED <<events, tstats, stats, requestActive>>
      /\ buffer \in Seq(Event) /\ body \in Seq(Item) /\ requestBufCount \in [Tags -> Nat]
      /\ at \in [Event -> Places] /\ metricsBuffer \in Nat
  BY TracerLoopAssumption
     DEF Fill, tracerVars, TypeOK, BufferType, ZlibType, HistoryType,
         StreamInv, Whereabouts
<1>2. CASE closeRequest /\ zlibClosed
  <2>1. UNCHANGED eventVars /\ pc # "notify" /\ pc' # "notify"
    BY <1>1, <1>2 DEF Fill, eventVars
  <2>2. ConservedInv'
    BY <2>1 DEF ConservedInv, HeldBy, eventVars
  <2>3. StatsInv'
    BY <1>1, <2>1 DEF StatsInv, Those, eventVars
  <2> QED
    BY <2>2, <2>3
<1>3. CASE ~(closeRequest /\ zlibClosed)
  <2>1. PICK m \in 0..metricsBuffer, n \in 0..Len(buffer) :
          /\ body' = body \o [i \in 1..m |-> "metricset"] \o SubSeq(buffer, 1, n)
          /\ buffer' = SubSeq(buffer, n + 1, Len(buffer))
          /\ requestBufCount' = [t \in Tags |-> requestBufCount[t] +
                 IF t = "metricset" THEN m
                 ELSE Cardinality({i \in 1..n : Kind[buffer[i]] = t})]
          /\ at' = [e \in Event |->
                 IF \E i \in 1..n : buffer[i] = e THEN "request" ELSE at[e]]
    BY <1>3 DEF Fill, BQ!Without
  <2> DEFINE ms == [i \in 1..m |-> "metricset"]
             es == SubSeq(buffer, 1, n)
             b == at'
  <2>2. m \in Nat /\ n \in Nat /\ n <= Len(buffer) /\ Len(buffer) \in Nat
    BY <1>1
  <2>3. ms \in Seq(Item) /\ Len(ms) = m /\ \A i \in 1..Len(ms) : ms[i] \notin Event
    BY <2>2, TracerLoopAssumption DEF Item
  <2>4. es \in Seq(Item) /\ Len(es) = n /\ \A i \in 1..n : es[i] = buffer[i]
    BY <1>1, <2>2 DEF Item
  <2>5. /\ \A i \in 1..n : i \in 1..Len(buffer)
        /\ \A i \in 1..Len(buffer) : buffer[i] \in Event /\ at[buffer[i]] = "buffer"
        /\ \A i, j \in 1..Len(buffer) : buffer[i] = buffer[j] => i = j
    BY <1>1, <2>2 DEF ConservedInv, HeldBy
  <2>6. /\ HeldBy(body, at, "request") /\ HeldBy(buffer, at, "buffer")
        /\ HeldBy(events, at, "channel")
    BY <1>1 DEF ConservedInv
  <2>7. \A e \in Event : b[e] = IF \E i \in 1..n : buffer[i] = e THEN "request" ELSE at[e]
    BY <2>1
  <2>8. body' = (body \o ms) \o es
    BY <2>1
  <2> HIDE DEF ms, es, b
  <2>9. HeldBy((body \o ms) \o es, b, "request")
    <3>1. HeldBy(body \o ms, at, "request")
      BY <1>1, <2>3, <2>6, HeldOther
    <3>2. body \o ms \in Seq(Item)
      BY <1>1, <2>3
    <3>3. \A i \in 1..Len(es) : es[i] \in Event /\ at[es[i]] # "request"
      BY <2>4, <2>5
    <3>4. \A i, j \in 1..Len(es) : es[i] = es[j] => i = j
      BY <2>4, <2>5
    <3>5. \A x \in Event :
              b[x] = "request" <=> at[x] = "request" \/ \E i \in 1..Len(es) : es[i] = x
      BY <2>4, <2>7
    <3> QED
      BY <2>4, <3>1, <3>2, <3>3, <3>4, <3>5, HeldConcat
  <2>10. HeldBy(SubSeq(buffer, n + 1, Len(buffer)), b, "buffer")
    <3>1. \A x \in Event :
              b[x] = "buffer" <=> at[x] = "buffer" /\ ~\E i \in 1..n : buffer[i] = x
      BY <2>7
    <3>2. n \in 0..Len(buffer) /\ buffer \in Seq(Event)
      BY <1>1
    <3> QED
      BY <2>6, <3>1, <3>2, HeldDrop
  <2>11. HeldBy(events, b, "channel")
    <3>1. SamePlace(at, b, "channel")
      BY <2>5, <2>7 DEF SamePlace
    <3> QED
      BY <2>6, <3>1, HeldSame
  <2>12. ConservedInv'
    BY <1>1, <2>1, <2>8, <2>9, <2>10, <2>11 DEF ConservedInv, b
  <2>13. \A k : /\ Those(k, b, "acked") = Those(k, at, "acked")
                /\ Those(k, b, "dropped") = Those(k, at, "dropped")
    BY <2>5, <2>7 DEF Those
  <2>14. ASSUME NEW k \in Kinds
         PROVE  requestBufCount'[k] = Cardinality(Those(k, b, "request"))
    <3>1. Come(at, b, buffer, n, "request") /\ n \in 0..Len(buffer) /\ buffer \in Seq(Event)
      BY <1>1, <2>7 DEF Come
    <3>2. Cardinality(Those(k, b, "request")) =
              Cardinality(Those(k, at, "request")) + Cardinality(Oldest(buffer, n, k))
      BY <2>6, <3>1, CountPrefix
    <3>3. requestBufCount'[k] = requestBufCount[k] + Cardinality(Oldest(buffer, n, k))
      BY <2>1 DEF Oldest, Tags, Kinds
    <3>4. requestBufCount[k] = Cardinality(Those(k, at, "request"))
      BY <1>1 DEF StatsInv
    <3> QED
      BY <3>2, <3>3, <3>4
  <2>15. StatsInv'
    BY <1>1, <2>13, <2>14 DEF StatsInv, b
  <2> QED
    BY <2>12, <2>15
<1> QED
  BY <1>2, <1>3

\* Closing the compressor adds the trailer, which is no event.
LEMMA EventsFinish ==
    ASSUME TypeOK, StreamInv, ConservedInv, StatsInv, Finish
    PROVE  ConservedInv' /\ StatsInv'
<1>1. /\ pc = "finish" /\ pc' = "select" /\ requestActive /\ body \in Seq(Item)
      /\ UNCHANGED <<events, buffer, at, requestActive, tstats, stats, requestBufCount>>
      /\ body' = body \/ body' = Append(body, "trailer")
  BY DEF Finish, FinishedBody, tracerVars, bufferVars, historyVars, StreamInv, Whereabouts,
         TypeOK, ZlibType
<1>2. HeldBy(body', at, "request")
  <2>1. CASE body' = body
    BY <1>1, <2>1 DEF ConservedInv
  <2>2. CASE body' = Append(body, "trailer")
    <3> DEFINE new == <<"trailer">>
    <3>1. new \in Seq(Item) /\ \A i \in 1..Len(new) : new[i] \notin Event
      BY TracerLoopAssumption DEF Item
    <3>2. Append(body, "trailer") = body \o new
      BY <1>1 DEF Item
    <3> HIDE DEF new
    <3>3. HeldBy(body \o new, at, "request")
      BY <1>1, <3>1, HeldOther DEF ConservedInv
    <3> QED
      BY <2>2, <3>2, <3>3
  <2> QED
    BY <1>1, <2>1, <2>2
<1>3. ConservedInv'
  BY <1>1, <1>2 DEF ConservedInv
<1>4. StatsInv'
  BY <1>1 DEF StatsInv
<1> QED
  BY <1>3, <1>4

\* Every step preserves the invariants.
LEMMA EventsStep ==
    ASSUME TypeOK, StreamInv, ConservedInv, StatsInv, [Next]_vars
    PROVE  ConservedInv' /\ StatsInv'
<1> USE DEF eventVars, tracerVars, turnVars, bufferVars, streamVars, requestVars, zlibVars,
            historyVars
<1>1. ASSUME NEW e \in Event, Enqueue(e) PROVE ConservedInv' /\ StatsInv'
  BY <1>1, EventsEnqueue
<1>2. CASE CaseClosing \/ CaseConfigCommand \/ CaseRefreshVersion \/ Exit
  BY <1>2, EventsFrame DEF CaseClosing, CaseConfigCommand, CaseRefreshVersion, Exit
<1>3. CASE CaseEvent \/ Drain
  BY <1>3, EventsHandle
<1>4. CASE CaseRequestTimer \/ CaseMetricsTimer \/ CaseGatheredMetrics \/ CaseReadRequest
  BY <1>4, EventsFrame DEF CaseRequestTimer, CaseMetricsTimer, CaseGatheredMetrics,
                           CaseReadRequest
<1>5. ASSUME NEW m \in MetricsCaller, CaseForceSendMetrics(m) PROVE ConservedInv' /\ StatsInv'
  BY <1>5, EventsFrame DEF CaseForceSendMetrics
<1>6. ASSUME NEW f \in Flusher, CaseForceFlush(f) PROVE ConservedInv' /\ StatsInv'
  BY <1>6, EventsFrame DEF CaseForceFlush
<1>7. CASE Drained
  BY <1>7, EventsDrained
<1>8. CASE CaseRequestResult
  BY <1>8, EventsResult
<1>9. CASE Notify
  BY <1>9, EventsNotify
<1>10. CASE Bottom
  BY <1>10, EventsBottom
<1>11. CASE Fill
  BY <1>11, EventsFill
<1>12. CASE Finish
  BY <1>12, EventsFinish
<1>13. CASE GraceOver \/ SendStream("ok") \/ SendStream("error") \/ Gathered
            \/ RefreshServerVersion
  BY <1>13, EventsFrame DEF GraceOver, SendStream, Gathered, RefreshServerVersion
<1>14. ASSUME NEW c \in Flusher \cup MetricsCaller, Call(c) \/ Abort(c)
       PROVE  ConservedInv' /\ StatsInv'
  BY <1>14, EventsFrame DEF Call, Abort
<1>15. ASSUME NEW c \in Caller, Returns(c) PROVE ConservedInv' /\ StatsInv'
  BY <1>15, EventsFrame DEF Returns, Told, SeeClosed
<1>16. ASSUME NEW c \in Closer, CloseCheck(c) \/ CloseClosing(c)
       PROVE  ConservedInv' /\ StatsInv'
  BY <1>16, EventsFrame DEF CloseCheck, CloseClosing
<1>17. CASE UNCHANGED vars
  BY <1>17, EventsFrame DEF vars
<1> QED
  BY <1>1, <1>2, <1>3, <1>4, <1>5, <1>6, <1>7, <1>8, <1>9, <1>10, <1>11, <1>12, <1>13,
     <1>14, <1>15, <1>16, <1>17 DEF Next, Loop

\* Hence they hold of every state.
LEMMA EventsInvariant == Spec => [](ConservedInv /\ StatsInv)
<1>1. TypeOK /\ StreamInv /\ ConservedInv /\ StatsInv /\ [Next]_vars
        => ConservedInv' /\ StatsInv'
  BY EventsStep
<1> QED
  BY <1>1, EventsInit, StreamInvariant, PTL DEF Spec

\* No event is lost between the channel, the ring buffer and the request, nor held
\* in two of them: whatever the interleaving of ends, turns of the loop, Flush
\* calls and results (Tracer.loop, tracer.go).
THEOREM EventsAreConserved == Spec => []EventsConserved
<1>1. ConservedInv => EventsConserved
  BY DEF ConservedInv, EventsConserved, HeldBy, Held
<1> QED
  BY <1>1, EventsInvariant, PTL

\* The statistics Tracer.Stats returns count each event that was sent, and each
\* that was dropped at the full channel or evicted from the ring buffer, exactly
\* once; the loop waits or stops only when it has published them.
THEOREM StatsAreExact == Spec => []StatsExact
<1>1. StatsInv => StatsExact
  BY DEF StatsInv, StatsExact, Those, Count
<1> QED
  BY <1>1, EventsInvariant, PTL

-----------------------------------------------------------------------------
(* What a Flush delivers *)

\* The call of Flush that the loop serves waits for e.
Owes(e) == flushed # None /\ e \in owed[flushed]

\* A Flush that was told owes nothing.
FlushTold ==
    \A f \in Flusher : call[f] = "told" \/ f \in token => \A e \in owed[f] : ~Queued(e)

\* A call that the loop has not received is not told, and no event comes back to
\* the application.
FlushCalled ==
    \A f \in Flusher :
        /\ call[f] \in {"idle", "calling"} => f \notin token /\ flushed # f
        /\ \A e \in owed[f] : at[e] # "app"

\* What the Flush that is served waits for: the events it drains are the next ones
\* of the channel, then in a request that can take them, and at the end of the turn
\* in the request.
FlushServed ==
    /\ pc = "drain" => ~closeRequest
    /\ \A e \in Event : Owes(e) =>
        /\ pc = "drain" /\ at[e] = "channel" =>
               \E i \in 1..draining : i <= Len(events) /\ events[i] = e
        /\ pc \in {"bottom", "fill"} =>
               at[e] # "channel" /\ (at[e] = "buffer" /\ requestActive => ~zlibClosed)
        /\ pc \in {"finish", "select", "exit", "done"} => at[e] \notin {"channel", "buffer"}
        /\ pc = "notify" => ~Queued(e)

\* The inductive invariant behind FlushDelivers.
FlushInv == FlushTold /\ FlushCalled /\ FlushServed

\* No other reason closes the request of a Flush: the loop receives it while the
\* request is open, and what is in the buffer fits into the request.
FlushUndisturbed ==
    /\ \A f \in Flusher : CaseForceFlush(f) => ~closeRequest
    /\ Fill /\ flushed # None /\ ~zlibClosed => buffer' = <<>>

\* Nobody has called yet.
LEMMA FlushInit == Init => FlushInv
<1> SUFFICES ASSUME Init PROVE FlushInv
  OBVIOUS
<1>1. /\ flushed = None /\ token = {} /\ pc = "select"
      /\ \A f \in Flusher : call[f] = "idle" /\ owed[f] = {} /\ f # None
  BY TracerLoopAssumption DEF Init, Caller
<1>2. FlushTold /\ FlushCalled
  BY <1>1 DEF FlushTold, FlushCalled
<1>3. FlushServed
  BY <1>1 DEF FlushServed, Owes
<1> QED
  BY <1>2, <1>3 DEF FlushInv

\* Steps that leave the events where they are, and the loop where it stands or at
\* the end of a turn.
LEMMA FlushFrame ==
    ASSUME TypeOK, FlushInv, UNCHANGED <<events, draining, flushed, at, owed>>,
           token' \subseteq token \cup MetricsCaller,
           \A f \in Flusher :
               /\ call'[f] = "told" => call[f] = "told" \/ f \in token
               /\ call'[f] \in {"idle", "calling"} => call[f] \in {"idle", "calling"},
           \/ pc' = pc /\ UNCHANGED <<requestActive, closeRequest, zlibClosed>>
           \/ pc \in {"select", "exit", "finish"} /\ pc' \in {"bottom", "select", "exit", "done"}
    PROVE  FlushInv'
<1>1. /\ FlushTold /\ FlushCalled /\ FlushServed
      /\ owed \in [Flusher -> SUBSET Event] /\ flushed \in Flusher \cup {None}
  BY DEF FlushInv, TypeOK, HistoryType, TurnType
<1>2. \A e \in Event : Queued(e)' = Queued(e)
  BY DEF Queued
<1>3. \A f \in Flusher : f \in token' => f \in token
  BY TracerLoopAssumption
<1>4. FlushTold'
  <2> SUFFICES ASSUME NEW f \in Flusher, call'[f] = "told" \/ f \in token', NEW e \in owed[f]
               PROVE  ~Queued(e)'
    BY DEF FlushTold
  <2> QED
    BY <1>1, <1>2, <1>3 DEF FlushTold
<1>5. FlushCalled'
  BY <1>1, <1>3 DEF FlushCalled
<1>6. \A e \in Event : Owes(e)' <=> Owes(e)
  BY DEF Owes
<1>7. FlushServed'
  <2>1. CASE pc' = pc /\ UNCHANGED <<requestActive, closeRequest, zlibClosed>>
    BY <1>1, <1>2, <1>6, <2>1 DEF FlushServed
  <2>2. CASE pc \in {"select", "exit", "finish"} /\ pc' \in {"bottom", "select", "exit", "done"}
    BY <1>1, <1>6, <2>2 DEF FlushServed
  <2> QED
    BY <2>1, <2>2
<1> QED
  BY <1>4, <1>5, <1>7 DEF FlushInv

\* An event that is ended was waited for by nobody.
LEMMA FlushEnqueue ==
    ASSUME TypeOK, FlushInv, NEW a \in Event, Enqueue(a)
    PROVE  FlushInv'
<1>1. /\ FlushTold /\ FlushCalled /\ FlushServed
      /\ owed \in [Flusher -> SUBSET Event] /\ flushed \in Flusher \cup {None}
      /\ at \in [Event -> Places] /\ events \in Seq(Event) /\ draining \in Nat
  BY DEF FlushInv, TypeOK, HistoryType, TurnType, TracerType
<1>2. /\ at[a] = "app" /\ \A e \in Event : e # a => at'[e] = at[e]
      /\ UNCHANGED <<owed, flushed, call, token, pc, draining, closeRequest, requestActive,
                     zlibClosed>>
      /\ events' = events \/ events' = Append(events, a)
  BY <1>1 DEF Enqueue, turnVars, callVars, streamVars, requestVars, zlibVars
<1>3. \A f \in Flusher : \A e \in owed[f] : e \in Event /\ e # a
  BY <1>1, <1>2 DEF FlushCalled
<1>4. \A f \in Flusher : \A e \in owed[f] : at'[e] = at[e] /\ Queued(e)' = Queued(e)
  BY <1>2, <1>3 DEF Queued
<1>5. FlushTold'
  BY <1>1, <1>2, <1>4 DEF FlushTold
<1>6. FlushCalled'
  BY <1>1, <1>2, <1>4 DEF FlushCalled
<1>7. \A e \in Event : Owes(e)' => Owes(e) /\ at'[e] = at[e] /\ Queued(e)' = Queued(e)
  BY <1>1, <1>2, <1>4 DEF Owes
<1>8. \A i \in 1..Len(events) : i <= Len(events') /\ events'[i] = events[i]
  BY <1>1, <1>2
<1>9. ASSUME NEW e \in Event, Owes(e)', pc' = "drain", at'[e] = "channel"
      PROVE  \E i \in 1..draining' : i <= Len(events') /\ events'[i] = e
  <2>1. PICK i \in 1..draining : i <= Len(events) /\ events[i] = e
    BY <1>1, <1>2, <1>7, <1>9 DEF FlushServed
  <2>2. i \in 1..Len(events)
    BY <1>1, <2>1
  <2> QED
    BY <1>2, <1>8, <2>1, <2>2
<1>10. FlushServed'
  <2>1. pc' = "drain" => ~closeRequest'
    BY <1>1, <1>2 DEF FlushServed
  <2> SUFFICES ASSUME NEW e \in Event, Owes(e)'
               PROVE  /\ pc' \in {"bottom", "fill"} => at'[e] # "channel"
                             /\ (at'[e] = "buffer" /\ requestActive' => ~zlibClosed')
                      /\ pc' \in {"finish", "select", "exit", "done"} =>
                             at'[e] \notin {"channel", "buffer"}
                      /\ pc' = "notify" => ~Queued(e)'
    BY <1>9, <2>1 DEF FlushServed
  <2> QED
    BY <1>1, <1>2, <1>7 DEF FlushServed
<1> QED
  BY <1>5, <1>6, <1>10 DEF FlushInv

\* What HandleEvent does with events other than the one it is given.
LEMMA HandledAt ==
    ASSUME TypeOK, NEW a \in Event, HandleEvent(a)
    PROVE  /\ at'[a] \in {"discarded", "toolarge", "buffer"}
           /\ \A e \in Event : e # a => at'[e] = at[e] \/ at'[e] = "dropped"
<1>1. at \in [Event -> Places]
  BY DEF TypeOK, HistoryType
<1>2. CASE MaybeDropTransaction(a)
  BY <1>1, <1>2 DEF HandleEvent
<1>3. CASE ~MaybeDropTransaction(a) /\ BQ!TooLarge(a)
  BY <1>1, <1>3 DEF HandleEvent, WriteEvent
<1>4. CASE ~MaybeDropTransaction(a) /\ ~BQ!TooLarge(a)
  <2>1. PICK k \in 0..Len(buffer) :
            at' = [x \in Event |->
                    IF x = a THEN "buffer"
                    ELSE IF \E i \in 1..k : buffer[i] = x THEN "dropped"
                    ELSE at[x]]
    BY <1>4 DEF HandleEvent, WriteEvent
  <2> QED
    BY <2>1
<1> QED
  BY <1>2, <1>3, <1>4

\* The loop takes an event from the channel: the events that the Flush it serves
\* waits for move up.
LEMMA FlushHandle ==
    ASSUME TypeOK, ConservedInv, FlushInv, CaseEvent \/ Drain
    PROVE  FlushInv'
<1> DEFINE a == Head(events)
<1>1. /\ FlushTold /\ FlushCalled /\ FlushServed
      /\ owed \in [Flusher -> SUBSET Event] /\ flushed \in Flusher \cup {None}
      /\ at \in [Event -> Places] /\ events \in Seq(Event) /\ draining \in Nat
  BY DEF FlushInv, TypeOK, HistoryType, TurnType, TracerType
<1>2. /\ events # <<>> /\ HandleEvent(a) /\ events' = Tail(events)
      /\ UNCHANGED <<owed, flushed, call, token, closeRequest>>
      /\ \/ pc = "select" /\ pc' = "bottom"
         \/ pc = "drain" /\ pc' = "drain" /\ draining' = draining - 1 /\ draining > 0
  BY DEF CaseEvent, Drain, turnVars, callVars, streamVars, requestVars
<1>3. /\ a \in Event /\ events[1] = a /\ Len(events) \in Nat \ {0}
      /\ Len(events') = Len(events) - 1
      /\ \A i \in 1..Len(events') : i + 1 \in 1..Len(events) /\ events'[i] = events[i + 1]
  BY <1>1, <1>2
<1>4. at[a] = "channel" /\ Queued(a)
  BY <1>3 DEF ConservedInv, HeldBy, Queued
<1>5. HeldBy(events', at', "channel")
  BY <1>2, HandleEventIs
<1>6. /\ at'[a] \in {"discarded", "toolarge", "buffer"}
      /\ \A e \in Event : e # a => at'[e] = at[e] \/ at'[e] = "dropped"
  BY <1>2, <1>3, HandledAt
<1> HIDE DEF a
<1>7. \A e \in Event : /\ at'[e] = "app" => at[e] = "app"
                       /\ Queued(e)' => Queued(e)
  BY <1>4, <1>6 DEF Queued
<1>8. FlushTold'
  <2> SUFFICES ASSUME NEW f \in Flusher, call'[f] = "told" \/ f \in token', NEW e \in owed'[f]
               PROVE  ~Queued(e)'
    BY DEF FlushTold
  <2> QED
    BY <1>1, <1>2, <1>7 DEF FlushTold
<1>9. FlushCalled'
  <2> SUFFICES ASSUME NEW f \in Flusher
               PROVE  /\ call'[f] \in {"idle", "calling"} => f \notin token' /\ flushed' # f
                      /\ \A e \in owed'[f] : at'[e] # "app"
    BY DEF FlushCalled
  <2> QED
    BY <1>1, <1>2, <1>7 DEF FlushCalled
<1>10. \A e \in Event : Owes(e)' <=> Owes(e)
  BY <1>2 DEF Owes
<1>11. ASSUME pc = "select" /\ pc' = "bottom" PROVE FlushServed'
  <2> SUFFICES ASSUME NEW e \in Event, Owes(e)
               PROVE  at'[e] # "channel" /\ at'[e] # "buffer"
    BY <1>10, <1>11 DEF FlushServed
  <2>1. at[e] \notin {"channel", "buffer"}
    BY <1>1, <1>11 DEF FlushServed
  <2> QED
    BY <1>4, <1>6, <2>1
<1>12. ASSUME pc = "drain" /\ pc' = "drain" /\ draining' = draining - 1 /\ draining > 0
       PROVE  FlushServed'
  <2>1. ~closeRequest'
    BY <1>1, <1>2, <1>12 DEF FlushServed
  <2> SUFFICES ASSUME NEW e \in Event, Owes(e), at'[e] = "channel"
               PROVE  \E i \in 1..draining' : i <= Len(events') /\ events'[i] = e
    BY <1>10, <1>12, <2>1 DEF FlushServed
  <2>2. PICK j \in 1..Len(events') : events'[j] = e
    BY <1>5 DEF HeldBy
  <2>3. j + 1 \in 1..Len(events) /\ events[j + 1] = e
    BY <1>3, <2>2
  <2>4. at[e] = "channel"
    BY <2>3 DEF ConservedInv, HeldBy
  <2>5. PICK i \in 1..draining : i <= Len(events) /\ events[i] = e
    BY <1>1, <1>12, <2>4 DEF FlushServed
  <2>6. i \in 1..Len(events)
    BY <1>1, <2>5
  <2>7. i = j + 1
    BY <2>3, <2>5, <2>6 DEF ConservedInv, HeldBy
  <2>8. j \in 1..draining' /\ j <= Len(events')
    BY <1>1, <1>3, <1>12, <2>2, <2>7
  <2> QED
    BY <2>2, <2>8
<1> QED
  BY <1>2, <1>8, <1>9, <1>11, <1>12 DEF FlushInv

\* A call waits for what is queued when it begins.
LEMMA FlushCall ==
    ASSUME TypeOK, FlushInv, NEW c \in Flusher \cup MetricsCaller, Call(c)
    PROVE  FlushInv'
<1>1. /\ FlushTold /\ FlushCalled /\ FlushServed /\ call[c] = "idle" /\ c \in Caller
      /\ owed \in [Flusher -> SUBSET Event] /\ flushed \in Flusher \cup {None}
      /\ call \in [Caller -> {"idle", "calling", "waiting", "told", "aborted", "closed",
                              "closing", "panicked"}]
  BY DEF FlushInv, TypeOK, HistoryType, TurnType, CallType, Call, Caller
<1>2. /\ UNCHANGED <<events, draining, flushed, at, token, pc, requestActive, closeRequest,
                     zlibClosed>>
      /\ \A f \in Caller : call'[f] = IF f = c THEN "calling" ELSE call[f]
      /\ \A f \in Flusher : owed'[f] = IF f = c THEN {e \in Event : Queued(e)} ELSE owed[f]
  BY <1>1 DEF Call, tracerVars, turnVars, streamVars, requestVars, zlibVars
<1>3. Flusher \subseteq Caller /\ \A e \in Event : Queued(e)' = Queued(e)
  BY <1>2 DEF Queued, Caller
<1>4. c \in Flusher => c \notin token /\ flushed # c
  BY <1>1 DEF FlushCalled
<1>5. FlushTold'
  <2> SUFFICES ASSUME NEW f \in Flusher, call'[f] = "told" \/ f \in token', NEW e \in owed'[f]
               PROVE  ~Queued(e)'
    BY DEF FlushTold
  <2>1. f # c /\ e \in owed[f] /\ (call[f] = "told" \/ f \in token)
    BY <1>2, <1>3, <1>4
  <2>2. ~Queued(e) /\ e \in Event
    BY <1>1, <2>1 DEF FlushTold
  <2> QED
    BY <1>3, <2>2
<1>6. FlushCalled'
  <2> SUFFICES ASSUME NEW f \in Flusher
               PROVE  /\ call'[f] \in {"idle", "calling"} => f \notin token' /\ flushed' # f
                      /\ \A e \in owed'[f] : at'[e] # "app"
    BY DEF FlushCalled
  <2>1. CASE f = c
    BY <1>2, <1>4, <2>1 DEF Queued
  <2>2. CASE f # c
    BY <1>1, <1>2, <1>3, <2>2 DEF FlushCalled
  <2> QED
    BY <2>1, <2>2
<1>7. \A e \in Event : Owes(e)' <=> Owes(e)
  <2>1. flushed # None => owed'[flushed] = owed[flushed]
    BY <1>1, <1>2, <1>4
  <2> QED
    BY <1>2, <2>1 DEF Owes
<1>8. FlushServed'
  BY <1>1, <1>2, <1>3, <1>7 DEF FlushServed
<1> QED
  BY <1>5, <1>6, <1>8 DEF FlushInv

\* The loop receives a call of Flush, and will drain all that is in the channel.
LEMMA FlushReceived ==
    ASSUME TypeOK, ConservedInv, FlushInv, FlushUndisturbed,
           NEW f \in Flusher, CaseForceFlush(f)
    PROVE  FlushInv'
<1>1. /\ FlushTold /\ FlushCalled /\ FlushServed /\ call[f] = "calling" /\ ~closeRequest
      /\ owed \in [Flusher -> SUBSET Event] /\ events \in Seq(Event)
      /\ call \in [Caller -> {"idle", "calling", "waiting", "told", "aborted", "closed",
                              "closing", "panicked"}]
  BY DEF FlushInv, TypeOK, HistoryType, TracerType, CallType, CaseForceFlush,
         FlushUndisturbed
<1>2. /\ UNCHANGED <<events, at, owed, token, closeRequest>> /\ pc' = "drain"
      /\ flushed' = f /\ draining' = Len(events)
      /\ \A g \in Caller : call'[g] = IF g = f THEN "waiting" ELSE call[g]
  BY <1>1 DEF CaseForceFlush, tracerVars, streamVars, requestVars, historyVars
<1>3. Flusher \subseteq Caller /\ \A e \in Event : Queued(e)' = Queued(e)
  BY <1>2 DEF Queued, Caller
<1>4. FlushTold'
  <2> SUFFICES ASSUME NEW g \in Flusher, call'[g] = "told" \/ g \in token', NEW e \in owed[g]
               PROVE  ~Queued(e)'
    BY <1>2 DEF FlushTold
  <2> QED
    BY <1>1, <1>2, <1>3 DEF FlushTold
<1>5. FlushCalled'
  BY <1>1, <1>2, <1>3 DEF FlushCalled
<1>6. ASSUME NEW e \in Event, at[e] = "channel"
      PROVE  \E i \in 1..draining' : i <= Len(events') /\ events'[i] = e
  <2>1. PICK i \in 1..Len(events) : events[i] = e
    BY <1>6 DEF ConservedInv, HeldBy
  <2> QED
    BY <1>1, <1>2, <2>1
<1>7. FlushServed'
  BY <1>1, <1>2, <1>6 DEF FlushServed
<1> QED
  BY <1>4, <1>5, <1>7 DEF FlushInv

\* All of the channel is drained: with nothing to send, nothing is queued that the
\* call waits for; otherwise the request can take what is in the buffer.
LEMMA FlushDrained ==
    ASSUME TypeOK, StreamInv, ConservedInv, FlushInv, Drained
    PROVE  FlushInv'
<1>1. /\ FlushTold /\ FlushCalled /\ FlushServed
      /\ owed \in [Flusher -> SUBSET Event] /\ flushed \in Flusher \cup {None}
      /\ at \in [Event -> Places]
  BY DEF FlushInv, TypeOK, HistoryType, TurnType
<1>2. /\ pc = "drain" /\ draining = 0 /\ flushed \in Flusher /\ ~closeRequest
      /\ UNCHANGED <<events, at, owed, flushed, call, requestActive, zlibClosed, buffer, body>>
      /\ \/ NothingToSend /\ token' = token \cup {flushed} /\ pc' = "select"
         \/ UNCHANGED token /\ pc' = "bottom"
  BY <1>1 DEF Drained, TypeOK, TurnType, FlushServed, tracerVars, turnVars, bufferVars,
              zlibVars, historyVars
<1>3. \A e \in Event : Queued(e)' = Queued(e) /\ (Owes(e)' <=> Owes(e))
  BY <1>2 DEF Queued, Owes
<1>4. ASSUME NEW e \in owed[flushed] PROVE e \in Event /\ Owes(e) /\ at[e] # "channel"
  <2>1. e \in Event /\ Owes(e)
    BY <1>1, <1>2, TracerLoopAssumption DEF Owes, Caller
  <2>2. \A i \in 1..draining : FALSE
    BY <1>2
  <2> QED
    BY <1>1, <1>2, <2>1, <2>2 DEF FlushServed
<1>5. \A e \in Event : Owes(e) => e \in owed[flushed]
  BY DEF Owes
<1>6. ASSUME NothingToSend, NEW e \in Event PROVE at[e] \notin {"buffer", "request"}
  BY <1>2, <1>6 DEF NothingToSend, ConservedInv, HeldBy
<1>7. FlushCalled'
  <2> SUFFICES ASSUME NEW f \in Flusher
               PROVE  /\ call'[f] \in {"idle", "calling"} => f \notin token' /\ flushed' # f
                      /\ \A e \in owed'[f] : at'[e] # "app"
    BY DEF FlushCalled
  <2> QED
    BY <1>1, <1>2 DEF FlushCalled
<1>8. FlushTold'
  <2> SUFFICES ASSUME NEW f \in Flusher, call'[f] = "told" \/ f \in token', NEW e \in owed[f]
               PROVE  ~Queued(e)'
    BY <1>2 DEF FlushTold
  <2>1. CASE call[f] = "told" \/ f \in token
    BY <1>1, <1>3, <2>1 DEF FlushTold
  <2>2. CASE ~(call[f] = "told" \/ f \in token)
    <3>1. f = flushed /\ NothingToSend
      BY <1>2, <2>2
    <3> QED
      BY <1>3, <1>4, <1>6, <3>1 DEF Queued
  <2> QED
    BY <2>1, <2>2
<1>9. FlushServed'
  <2> SUFFICES ASSUME NEW e \in Event, Owes(e)
               PROVE  /\ pc' = "bottom" => at[e] # "channel"
                             /\ (at[e] = "buffer" /\ requestActive => ~zlibClosed)
                      /\ pc' = "select" => at[e] \notin {"channel", "buffer"}
    BY <1>2, <1>3 DEF FlushServed
  <2>1. at[e] # "channel"
    BY <1>4, <1>5
  <2>2. requestActive => ~zlibClosed
    BY <1>2 DEF StreamInv, ClosedStream
  <2> QED
    BY <1>2, <1>6, <2>1, <2>2
<1> QED
  BY <1>7, <1>8, <1>9 DEF FlushInv

\* The result of the request: the events of the request have left the tracer, so
\* that the call waits for nothing any more.
LEMMA FlushResult ==
    ASSUME TypeOK, ConservedInv, FlushInv, CaseRequestResult
    PROVE  FlushInv'
<1>1. /\ FlushTold /\ FlushCalled /\ FlushServed
      /\ owed \in [Flusher -> SUBSET Event] /\ flushed \in Flusher \cup {None}
      /\ at \in [Event -> Places] /\ sentMetrics \in MetricsCaller \cup {None}
  BY DEF FlushInv, TypeOK, HistoryType, TurnType
<1>2. /\ pc = "select" /\ pc' = "notify" /\ UNCHANGED <<owed, flushed, call>>
      /\ token' \subseteq token \cup MetricsCaller
      /\ \A e \in Event : at'[e] = IF at[e] = "request"
                                   THEN IF requestResult = "ok" THEN "acked" ELSE "failed"
                                   ELSE at[e]
  <2>1. pc = "select" /\ pc' = "notify" /\ UNCHANGED <<owed, flushed, call>>
    BY DEF CaseRequestResult
  <2>2. token' \subseteq token \cup MetricsCaller
    BY <1>1 DEF CaseRequestResult, TellsMetrics
  <2>3. \A e \in Event : at[e] = "request" <=> \E i \in 1..Len(body) : body[i] = e
    BY <2>1 DEF ConservedInv, HeldBy
  <2>4. at' = [e \in Event |-> IF \E i \in 1..Len(body) : body[i] = e
                               THEN IF requestResult = "ok" THEN "acked" ELSE "failed"
                               ELSE at[e]]
    BY DEF CaseRequestResult
  <2> QED
    BY <2>1, <2>2, <2>3, <2>4
<1>3. \A f \in Flusher : f \in token' => f \in token
  BY <1>2, TracerLoopAssumption
<1>4. \A e \in Event : /\ at'[e] = "app" => at[e] = "app"
                       /\ Queued(e)' => at[e] \in {"channel", "buffer"} /\ Queued(e)
  BY <1>2 DEF Queued
<1>5. FlushTold'
  <2> SUFFICES ASSUME NEW f \in Flusher, call'[f] = "told" \/ f \in token', NEW e \in owed[f]
               PROVE  ~Queued(e)'
    BY <1>2 DEF FlushTold
  <2> QED
    BY <1>1, <1>2, <1>3, <1>4 DEF FlushTold
<1>6. FlushCalled'
  <2> SUFFICES ASSUME NEW f \in Flusher
               PROVE  /\ call'[f] \in {"idle", "calling"} => f \notin token' /\ flushed' # f
                      /\ \A e \in owed'[f] : at'[e] # "app"
    BY DEF FlushCalled
  <2> QED
    BY <1>1, <1>2, <1>3, <1>4 DEF FlushCalled
<1>7. \A e \in Event : Owes(e)' <=> Owes(e)
  BY <1>2 DEF Owes
<1>8. FlushServed'
  <2> SUFFICES ASSUME NEW e \in Event, Owes(e) PROVE ~Queued(e)'
    BY <1>2, <1>7 DEF FlushServed
  <2> QED
    BY <1>1, <1>2, <1>4 DEF FlushServed
<1> QED
  BY <1>5, <1>6, <1>8 DEF FlushInv

\* The call is told.
LEMMA FlushNotify ==
    ASSUME TypeOK, FlushInv, Notify
    PROVE  FlushInv'
<1>1. /\ FlushTold /\ FlushCalled /\ FlushServed
      /\ owed \in [Flusher -> SUBSET Event] /\ flushed \in Flusher \cup {None}
  BY DEF FlushInv, TypeOK, HistoryType, TurnType
<1>2. /\ pc = "notify" /\ pc' = "bottom" /\ flushed' = None
      /\ UNCHANGED <<owed, call, at>>
      /\ token' = IF flushed = None THEN token ELSE token \cup {flushed}
  BY DEF Notify, historyVars
<1>3. \A e \in Event : Queued(e)' = Queued(e)
  BY <1>2 DEF Queued
<1>4. FlushTold'
  <2> SUFFICES ASSUME NEW f \in Flusher, call'[f] = "told" \/ f \in token', NEW e \in owed[f]
               PROVE  ~Queued(e)'
    BY <1>2 DEF FlushTold
  <2>1. e \in Event
    BY <1>1
  <2>2. CASE call[f] = "told" \/ f \in token
    BY <1>1, <1>3, <2>1, <2>2 DEF FlushTold
  <2>3. CASE ~(call[f] = "told" \/ f \in token)
    <3>1. flushed = f /\ flushed # None
      BY <1>2, <2>3
    <3>2. Owes(e)
      BY <3>1 DEF Owes
    <3> QED
      BY <1>1, <1>2, <1>3, <2>1, <3>2 DEF FlushServed
  <2> QED
    BY <2>2, <2>3
<1>5. FlushCalled'
  <2> SUFFICES ASSUME NEW f \in Flusher
               PROVE  /\ call'[f] \in {"idle", "calling"} => f \notin token' /\ flushed' # f
                      /\ \A e \in owed'[f] : at'[e] # "app"
    BY DEF FlushCalled
  <2>1. f # None
    BY TracerLoopAssumption DEF Caller
  <2> QED
    BY <1>1, <1>2, <2>1 DEF FlushCalled
<1>6. FlushServed'
  BY <1>2 DEF FlushServed, Owes
<1> QED
  BY <1>4, <1>5, <1>6 DEF FlushInv

\* The rest of the turn moves what the call waits for into the request.
LEMMA FlushFill ==
    ASSUME TypeOK, StreamInv, ConservedInv, ConservedInv', FlushInv, FlushUndisturbed, Fill
    PROVE  FlushInv'
<1>1. /\ FlushTold /\ FlushCalled /\ FlushServed
      /\ owed \in [Flusher -> SUBSET Event] /\ flushed \in Flusher \cup {None}
      /\ at \in [Event -> Places] /\ buffer \in Seq(Event)
  BY DEF FlushInv, TypeOK, HistoryType, TurnType, BufferType
<1>2. /\ pc = "fill" /\ pc' = "finish" /\ requestActive
      /\ UNCHANGED <<events, owed, flushed, call, token, zlibClosed>>
  BY DEF Fill, StreamInv, Whereabouts, tracerVars, turnVars, callVars
<1>3. \/ closeRequest /\ zlibClosed /\ UNCHANGED <<at, buffer>>
      \/ /\ ~(closeRequest /\ zlibClosed)
         /\ \E n \in 0..Len(buffer) :
                at' = [e \in Event |->
                       IF \E i \in 1..n : buffer[i] = e THEN "request" ELSE at[e]]
  BY DEF Fill
<1>4. \A e \in Event : at'[e] = at[e] \/ (at[e] = "buffer" /\ at'[e] = "request")
  <2>1. CASE closeRequest /\ zlibClosed /\ UNCHANGED <<at, buffer>>
    BY <2>1
  <2>2. CASE \E n \in 0..Len(buffer) :
                at' = [e \in Event |->
                       IF \E i \in 1..n : buffer[i] = e THEN "request" ELSE at[e]]
    <3>1. PICK n \in 0..Len(buffer) :
              at' = [e \in Event |->
                       IF \E i \in 1..n : buffer[i] = e THEN "request" ELSE at[e]]
      BY <2>2
    <3>2. ASSUME NEW i \in 1..n, buffer[i] \in Event PROVE at[buffer[i]] = "buffer"
      <4>1. i \in 1..Len(buffer)
        BY <1>1, <3>1
      <4> QED
        BY <3>2, <4>1 DEF ConservedInv, HeldBy
    <3> QED
      BY <3>1, <3>2
  <2> QED
    BY <1>3, <2>1, <2>2
<1>5. \A e \in Event : /\ at'[e] = "app" => at[e] = "app"
                       /\ Queued(e)' => Queued(e)
  BY <1>4 DEF Queued
<1>6. FlushTold'
  <2> SUFFICES ASSUME NEW f \in Flusher, call'[f] = "told" \/ f \in token', NEW e \in owed[f]
               PROVE  ~Queued(e)'
    BY <1>2 DEF FlushTold
  <2> QED
    BY <1>1, <1>2, <1>5 DEF FlushTold
<1>7. FlushCalled'
  <2> SUFFICES ASSUME NEW f \in Flusher
               PROVE  /\ call'[f] \in {"idle", "calling"} => f \notin token' /\ flushed' # f
                      /\ \A e \in owed'[f] : at'[e] # "app"
    BY DEF FlushCalled
  <2> QED
    BY <1>1, <1>2, <1>5 DEF FlushCalled
<1>8. \A e \in Event : Owes(e)' <=> Owes(e)
  BY <1>2 DEF Owes
<1>9. FlushServed'
  <2> SUFFICES ASSUME NEW e \in Event, Owes(e) PROVE at'[e] \notin {"channel", "buffer"}
    BY <1>2, <1>8 DEF FlushServed
  <2>1. at[e] # "channel" /\ (at[e] = "buffer" => ~zlibClosed)
    BY <1>1, <1>2 DEF FlushServed
  <2>2. CASE zlibClosed
    BY <1>4, <2>1, <2>2
  <2>3. CASE ~zlibClosed
    <3>1. buffer' = <<>>
      BY <2>3 DEF FlushUndisturbed, Owes
    <3>2. at'[e] # "buffer"
      BY <3>1 DEF ConservedInv, HeldBy
    <3> QED
      BY <1>4, <2>1, <3>2
  <2> QED
    BY <2>2, <2>3
<1> QED
  BY <1>6, <1>7, <1>9 DEF FlushInv

\* A turn that starts a request, or has nothing to send.
LEMMA FlushBottom ==
    ASSUME TypeOK, ConservedInv, FlushInv, Bottom
    PROVE  FlushInv'
<1>1. /\ FlushTold /\ FlushCalled /\ FlushServed
      /\ owed \in [Flusher -> SUBSET Event] /\ flushed \in Flusher \cup {None}
  BY DEF FlushInv, TypeOK, HistoryType, TurnType
<1>2. /\ pc = "bottom" /\ UNCHANGED <<owed, flushed, call, token, at>>
      /\ \/ buffer = <<>> /\ pc' = "select"
         \/ pc' = "fill" /\ requestActive /\ UNCHANGED <<requestActive, zlibClosed>>
         \/ pc' = "fill" /\ ~zlibClosed'
  BY DEF Bottom, streamVars, requestVars, zlibVars, callVars, historyVars
<1>3. \A e \in Event : Queued(e)' = Queued(e) /\ (Owes(e)' <=> Owes(e))
  BY <1>2 DEF Queued, Owes
<1>4. FlushTold'
  <2> SUFFICES ASSUME NEW f \in Flusher, call'[f] = "told" \/ f \in token', NEW e \in owed[f]
               PROVE  ~Queued(e)'
    BY <1>2 DEF FlushTold
  <2> QED
    BY <1>1, <1>2, <1>3 DEF FlushTold
<1>5. FlushCalled'
  BY <1>1, <1>2 DEF FlushCalled
<1>6. FlushServed'
  <2> SUFFICES ASSUME NEW e \in Event, Owes(e)
               PROVE  /\ at[e] # "channel"
                      /\ pc' = "fill" => (at[e] = "buffer" /\ requestActive' => ~zlibClosed')
                      /\ pc' = "select" => at[e] # "buffer"
    BY <1>2, <1>3 DEF FlushServed
  <2>1. at[e] # "channel" /\ (at[e] = "buffer" /\ requestActive => ~zlibClosed)
    BY <1>1, <1>2 DEF FlushServed
  <2>2. buffer = <<>> => at[e] # "buffer"
    BY DEF ConservedInv, HeldBy
  <2> QED
    BY <1>2, <2>1, <2>2
<1> QED
  BY <1>4, <1>5, <1>6 DEF FlushInv

\* Every step that does not disturb a Flush preserves the invariant.
LEMMA FlushStep ==
    ASSUME TypeOK, StreamInv, ConservedInv, ConservedInv', FlushInv,
           [Next]_vars, [FlushUndisturbed]_vars
    PROVE  FlushInv'
<1> USE DEF tracerVars, turnVars, callVars, streamVars, requestVars, zlibVars, historyVars
<1>0. /\ call \in [Caller -> {"idle", "calling", "waiting", "told", "aborted", "closed",
                              "closing", "panicked"}]
      /\ Flusher \subseteq Caller
  BY DEF TypeOK, CallType, Caller
<1>1. ASSUME NEW e \in Event, Enqueue(e) PROVE FlushInv'
  BY <1>1, FlushEnqueue
<1>2. CASE CaseClosing \/ CaseConfigCommand \/ CaseRefreshVersion \/ Exit
  BY <1>2, FlushFrame DEF CaseClosing, CaseConfigCommand, CaseRefreshVersion, Exit
<1>3. CASE CaseEvent \/ Drain
  BY <1>3, FlushHandle
<1>4. CASE CaseRequestTimer \/ CaseMetricsTimer \/ CaseGatheredMetrics \/ CaseReadRequest
  BY <1>4, FlushFrame DEF CaseRequestTimer, CaseMetricsTimer, CaseGatheredMetrics,
                          CaseReadRequest
<1>5. ASSUME NEW m \in MetricsCaller, CaseForceSendMetrics(m) PROVE FlushInv'
  <2>1. \A f \in Flusher : call'[f] = call[f] \/ call'[f] = "waiting"
    BY <1>0, <1>5 DEF CaseForceSendMetrics
  <2> QED
    BY <1>5, <2>1, FlushFrame DEF CaseForceSendMetrics
<1>6. ASSUME NEW f \in Flusher, CaseForceFlush(f) PROVE FlushInv'
  <2>1. FlushUndisturbed
    BY <1>6 DEF CaseForceFlush, vars
  <2> QED
    BY <1>6, <2>1, FlushReceived
<1>7. CASE Drained
  BY <1>7, FlushDrained
<1>8. CASE CaseRequestResult
  BY <1>8, FlushResult
<1>9. CASE Notify
  BY <1>9, FlushNotify
<1>10. CASE Bottom
  BY <1>10, FlushBottom
<1>11. CASE Fill
  <2>1. FlushUndisturbed
    BY <1>11 DEF Fill, vars
  <2> QED
    BY <1>11, <2>1, FlushFill
<1>12. CASE Finish
  BY <1>12, FlushFrame DEF Finish
<1>13. CASE GraceOver \/ SendStream("ok") \/ SendStream("error") \/ Gathered
            \/ RefreshServerVersion
  BY <1>13, FlushFrame DEF GraceOver, SendStream, Gathered, RefreshServerVersion
<1>14. ASSUME NEW c \in Flusher \cup MetricsCaller, Call(c) PROVE FlushInv'
  BY <1>14, FlushCall
<1>15. ASSUME NEW c \in Caller, Abort(c) \/ Returns(c) \/ CloseCheck(c) \/ CloseClosing(c)
       PROVE  FlushInv'
  <2>1. \A f \in Flusher :
            /\ call'[f] = "told" => call[f] = "told" \/ f \in token
            /\ call'[f] \in {"idle", "calling"} => call[f] \in {"idle", "calling"}
    BY <1>0, <1>15 DEF Abort, Returns, Told, SeeClosed, CloseCheck, CloseClosing
  <2>2. /\ token' \subseteq token /\ pc' = pc
        /\ UNCHANGED <<events, draining, flushed, at, owed, requestActive, closeRequest,
                       zlibClosed>>
    BY <1>15 DEF Abort, Returns, Told, SeeClosed, CloseCheck, CloseClosing
  <2> QED
    BY <2>1, <2>2, FlushFrame
<1>16. CASE UNCHANGED vars
  BY <1>16, FlushFrame DEF vars
<1> QED
  BY <1>1, <1>2, <1>3, <1>4, <1>5, <1>6, <1>7, <1>8, <1>9, <1>10, <1>11, <1>12, <1>13,
     <1>14, <1>15, <1>16 DEF Next, Loop, Caller

\* A Flush that is told has delivered what was queued when it was called
\* (Tracer.Flush, tracer.go), if nothing else closes the request it is served
\* with: not the size or the timer of the request, a SendMetrics, another
\* Flush.  Those are the ways in which the promise fails.
THEOREM FlushDoesDeliver == Spec /\ [][FlushUndisturbed]_vars => []FlushDelivers
<1>1. TypeOK /\ StreamInv /\ ConservedInv /\ ConservedInv' /\ FlushInv
        /\ [Next]_vars /\ [FlushUndisturbed]_vars => FlushInv'
  BY FlushStep
<1>2. FlushInv => FlushDelivers
  BY DEF FlushInv, FlushTold, FlushDelivers
<1> QED
  BY <1>1, <1>2, FlushInit, StreamInvariant, EventsInvariant, PTL DEF Spec
=============================================================================
