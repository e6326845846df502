------------------------ MODULE SpanLifecycleProofs ------------------------
(***************************************************************************)
(* Theorems about SpanLifecycle, for every value of its constants: what a  *)
(* transaction reports about the number of its spans is exact, composites  *)
(* are what they say, no parent is missing, and cached spans are flushed.  *)
(*                                                                         *)
(* Sums are proved as cardinalities: a sum of natural numbers is the       *)
(* number of their units.                                                  *)
(***************************************************************************)
EXTENDS SpanLifecycle, FiniteSetTheorems, WellFoundedInduction, TLAPS

-----------------------------------------------------------------------------
(* Counting *)

\* Every nonempty set of natural numbers has a least element.
LEMMA LeastElement ==
    ASSUME NEW T \in SUBSET Nat, T # {}
    PROVE  \E x \in T : \A y \in T : x <= y
<1> DEFINE R == OpToRel(<, Nat)
<1>1. IsWellFoundedOn(R, Nat)
  BY NatLessThanWellFounded
<1>2. \A x, y \in Nat : y < x => <<y, x>> \in R
  BY DEF OpToRel
<1> HIDE DEF R
<1>3. PICK x \in T : \A y \in T : ~(<<y, x>> \in R)
  BY <1>1, WFMin
<1>4. ASSUME NEW y \in T PROVE x <= y
  <2>1. x \in Nat /\ y \in Nat
    OBVIOUS
  <2>2. ~(y < x)
    BY <1>2, <1>3, <2>1, Zenon
  <2> QED
    BY <2>1, <2>2
<1> QED
  BY <1>4

\* The units of the numbers d[k], for k in S.
Units(d, S) == UNION {{k} \X (1..d[k]) : k \in S}

\* Some of the units of one number.
Row(k, a, n) == {k} \X ((a + 1)..(a + n))

\* There are n of them.
LEMMA RowIs ==
    ASSUME NEW k, NEW a \in Nat, NEW n \in Nat
    PROVE  IsFiniteSet(Row(k, a, n)) /\ Cardinality(Row(k, a, n)) = n
<1> DEFINE T == (a + 1)..(a + n)
<1>1. IsFiniteSet(T) /\ Cardinality(T) = n
  <2>1. a + 1 \in Int /\ a + n \in Int
    OBVIOUS
  <2>2. IsFiniteSet(T) /\ Cardinality(T) = IF a + 1 > a + n THEN 0 ELSE (a + n) - (a + 1) + 1
    BY <2>1, FS_Interval
  <2> QED
    BY <2>2
<1>2. IsFiniteSet({k}) /\ Cardinality({k}) = 1
  BY FS_Singleton
<1> HIDE DEF T
<1>3. IsFiniteSet({k} \X T) /\ Cardinality({k} \X T) = 1 * n
  BY <1>1, <1>2, FS_Product
<1> QED
  BY <1>3 DEF T, Row

\* Two sets with nothing in common.
LEMMA DisjointUnion ==
    ASSUME NEW S, NEW T, IsFiniteSet(S), IsFiniteSet(T), S \cap T = {}
    PROVE  IsFiniteSet(S \cup T) /\ Cardinality(S \cup T) = Cardinality(S) + Cardinality(T)
<1>1. /\ IsFiniteSet(S \cup T)
      /\ Cardinality(S \cup T) = Cardinality(S) + Cardinality(T) - Cardinality(S \cap T)
  BY FS_Union
<1>2. Cardinality(S \cap T) = 0 /\ Cardinality(S) \in Nat /\ Cardinality(T) \in Nat
  BY FS_EmptySet, FS_CardinalityType
<1> QED
  BY <1>1, <1>2

\* One of the numbers grows.
LEMMA UnitsMore ==
    ASSUME NEW S, NEW d, NEW e, NEW k \in S, NEW n \in Nat, d[k] \in Nat,
           e[k] = d[k] + n, \A j \in S \ {k} : e[j] = d[j], IsFiniteSet(Units(d, S))
    PROVE  /\ IsFiniteSet(Units(e, S))
           /\ Cardinality(Units(e, S)) = Cardinality(Units(d, S)) + n
<1> DEFINE row == Row(k, d[k], n)
<1>1. IsFiniteSet(row) /\ Cardinality(row) = n
  BY RowIs
<1>2. Units(e, S) = Units(d, S) \cup row
  <2>1. 1..e[k] = (1..d[k]) \cup ((d[k] + 1)..(d[k] + n))
    OBVIOUS
  <2>2. {k} \X (1..e[k]) = ({k} \X (1..d[k])) \cup row
    BY <2>1, Zenon DEF Row
  <2>3. \A j \in S : j # k => {j} \X (1..e[j]) = {j} \X (1..d[j])
    OBVIOUS
  <2> HIDE DEF row
  <2>4. ASSUME NEW u \in Units(e, S) PROVE u \in Units(d, S) \cup row
    <3>1. PICK j \in S : u \in {j} \X (1..e[j])
      BY DEF Units
    <3> QED
      BY <2>2, <2>3, <3>1 DEF Units
  <2>5. ASSUME NEW u \in Units(d, S) \cup row PROVE u \in Units(e, S)
    <3>1. CASE u \in row
      BY <2>2, <3>1 DEF Units
    <3>2. CASE u \in Units(d, S)
      <4>1. PICK j \in S : u \in {j} \X (1..d[j])
        BY <3>2 DEF Units
      <4> QED
        BY <2>2, <2>3, <4>1 DEF Units
    <3> QED
      BY <3>1, <3>2
  <2> QED
    BY <2>4, <2>5
<1>3. Units(d, S) \cap row = {}
  <2> SUFFICES ASSUME NEW u \in Units(d, S), u \in row PROVE FALSE
    OBVIOUS
  <2>1. PICK j \in S : u \in {j} \X (1..d[j])
    BY DEF Units
  <2>2. u[1] = j /\ u[2] \in 1..d[j] /\ u[1] = k /\ u[2] \in (d[k] + 1)..(d[k] + n)
    BY <2>1 DEF Row
  <2> QED
    BY <2>2
<1> HIDE DEF row
<1> QED
  BY <1>1, <1>2, <1>3, DisjointUnion

\* One more number.
LEMMA UnitsAdd ==
    ASSUME NEW S, NEW d, NEW k, k \notin S, d[k] \in Nat, IsFiniteSet(Units(d, S))
    PROVE  /\ IsFiniteSet(Units(d, S \cup {k}))
           /\ Cardinality(Units(d, S \cup {k})) = Cardinality(Units(d, S)) + d[k]
<1> DEFINE row == Row(k, 0, d[k])
<1>1. IsFiniteSet(row) /\ Cardinality(row) = d[k]
  <2>1. 0 \in Nat
    OBVIOUS
  <2> QED
    BY <2>1, RowIs
<1>2. Units(d, S \cup {k}) = Units(d, S) \cup row
  <2>1. row = {k} \X (1..d[k])
    BY DEF Row
  <2> QED
    BY <2>1, Zenon DEF Units
<1>3. Units(d, S) \cap row = {}
  <2> SUFFICES ASSUME NEW u \in Units(d, S), u \in row PROVE FALSE
    OBVIOUS
  <2>1. PICK j \in S : u \in {j} \X (1..d[j])
    BY DEF Units
  <2>2. u[1] = j /\ u[1] = k
    BY <2>1 DEF Row
  <2> QED
    BY <2>2
<1> HIDE DEF row
<1> QED
  BY <1>1, <1>2, <1>3, DisjointUnion

\* The units of finitely many numbers are finitely many.
LEMMA UnitsFinite ==
    ASSUME NEW S, IsFiniteSet(S), NEW d, \A k \in S : d[k] \in Nat
    PROVE  IsFiniteSet(Units(d, S))
<1> DEFINE R == UNION {1..d[k] : k \in S}
           M == {1..d[k] : k \in S}
<1>1. IsFiniteSet(M)
  <2>1. [k \in S |-> 1..d[k]] \in Surjection(S, M)
    BY DEF Surjection
  <2> QED
    BY <2>1, FS_Surjection
<1>2. \A T \in M : IsFiniteSet(T)
  BY FS_Interval
<1>3. IsFiniteSet(R)
  BY <1>1, <1>2, FS_UNION
<1>4. IsFiniteSet(S \X R)
  BY <1>3, FS_Product
<1>5. Units(d, S) \subseteq S \X R
  BY DEF Units
<1> QED
  BY <1>4, <1>5, FS_Subset

\* There are finitely many spans.
LEMMA SpansFinite == IsFiniteSet(Span) /\ Span \subseteq Nat
<1>1. NumSpans \in Nat /\ 1 \in Int /\ NumSpans \in Int
  BY SpanLifecycleAssumption
<1>2. IsFiniteSet(1..NumSpans)
  BY <1>1, FS_Interval
<1> QED
  BY <1>1, <1>2 DEF Span

\* The durations of spans.
Durations(sp) == [s \in Span |-> sp[s].duration]

\* Their sum, as the model's fold gives it.
LEMMA SumSpansIs ==
    ASSUME NEW S \in SUBSET Span, \A s \in Span : span[s].duration \in Nat
    PROVE  SumSpans(S) = Cardinality(Units(Durations(span), S))
<1> DEFINE d == Durations(span)
           G(h) == [s \in SUBSET S |-> IF s = {} THEN 0
                        ELSE span[CHOOSE x \in s : TRUE].duration + h[s \ {CHOOSE x \in s : TRUE}]]
           f == CHOOSE h : h = G(h)
           g == [s \in SUBSET S |-> Cardinality(Units(d, s))]
           T == {n \in Nat : \E s \in SUBSET S : Cardinality(s) = n /\ f[s] # g[s]}
<1>1. SumSpans(S) = f[S]
  BY DEF SumSpans, MapThenSumSet, MapThenFoldSet
<1>2. IsFiniteSet(S)
  BY SpansFinite, FS_Subset
<1>3. ASSUME NEW s \in SUBSET S
      PROVE  /\ IsFiniteSet(s) /\ IsFiniteSet(Units(d, s)) /\ g[s] = Cardinality(Units(d, s))
             /\ \A x \in s : d[x] = span[x].duration /\ d[x] \in Nat
  <2>1. IsFiniteSet(s)
    BY <1>2, FS_Subset
  <2>2. \A x \in s : d[x] = span[x].duration /\ d[x] \in Nat
    BY DEF Durations
  <2> HIDE DEF d
  <2>3. IsFiniteSet(Units(d, s))
    BY <2>1, <2>2, UnitsFinite
  <2> QED
    BY <2>1, <2>2, <2>3
<1> HIDE DEF d
<1>4. ASSUME NEW s \in SUBSET S, s # {}
      PROVE  LET x == CHOOSE x \in s : TRUE IN
             x \in s /\ s \ {x} \in SUBSET S /\ g[s] = d[x] + g[s \ {x}]
  <2> DEFINE x == CHOOSE y \in s : TRUE
  <2>1. x \in s
    BY <1>4
  <2> HIDE DEF x
  <2> DEFINE r == s \ {x}
  <2>2. r \in SUBSET S /\ x \notin r /\ r \cup {x} = s /\ d[x] \in Nat
    BY <1>3, <2>1
  <2> HIDE DEF r
  <2>3. IsFiniteSet(Units(d, r)) /\ g[r] = Cardinality(Units(d, r)) /\ g[s] = Cardinality(Units(d, s))
    BY <1>3, <2>2
  <2>4. Cardinality(Units(d, r \cup {x})) = Cardinality(Units(d, r)) + d[x]
    BY <2>2, <2>3, UnitsAdd
  <2>5. Cardinality(Units(d, r)) \in Nat
    BY <2>3, FS_CardinalityType
  <2>6. g[s] = d[x] + g[r]
    <3> DEFINE m == Cardinality(Units(d, r))
    <3>1. g[s] = m + d[x]
      BY <2>2, <2>3, <2>4, Zenon
    <3>2. g[r] = m /\ m \in Nat /\ d[x] \in Nat
      BY <2>2, <2>3, <2>5, Zenon
    <3> HIDE DEF g, m
    <3> QED
      BY <3>1, <3>2
  <2> QED
    BY <2>1, <2>2, <2>6 DEF x, r
<1>5. g[{}] = 0
  <2>1. {} \in SUBSET S /\ Units(d, {}) = {}
    BY DEF Units
  <2> QED
    BY <2>1, FS_EmptySet
<1>6. g = G(g)
  <2>1. \A s \in SUBSET S :
            g[s] = IF s = {} THEN 0 ELSE span[CHOOSE x \in s : TRUE].duration
                                         + g[s \ {CHOOSE x \in s : TRUE}]
    BY <1>3, <1>4, <1>5
  <2>2. g = [s \in SUBSET S |-> g[s]]
    OBVIOUS
  <2> HIDE DEF g
  <2> QED
    BY <2>1, <2>2
<1>7. f = G(f)
  BY <1>6, Zenon
<1> HIDE DEF f
<1>8. T = {}
  <2> SUFFICES ASSUME T # {} PROVE FALSE
    OBVIOUS
  <2> HIDE DEF g, T
  <2>1. T \in SUBSET Nat
    BY DEF T
  <2>2. PICK n \in T : \A m \in T : n <= m
    BY <2>1, LeastElement
  <2>3. PICK s \in SUBSET S : Cardinality(s) = n /\ f[s] # g[s]
    BY <2>2 DEF T
  <2>4. f[s] = IF s = {} THEN 0 ELSE span[CHOOSE x \in s : TRUE].duration
                                     + f[s \ {CHOOSE x \in s : TRUE}]
    BY <1>7
  <2>5. s # {}
    BY <1>5, <2>3, <2>4
  <2> DEFINE x == CHOOSE y \in s : TRUE
             r == s \ {x}
  <2>6. x \in s /\ r \in SUBSET S /\ g[s] = d[x] + g[r] /\ f[s] = d[x] + f[r]
    BY <1>3, <1>4, <2>4, <2>5
  <2> HIDE DEF x
  <2>7. Cardinality(r) = n - 1 /\ n \in Nat /\ n - 1 \in Nat
    <3>1. IsFiniteSet(s) /\ n \in Nat
      BY <1>3, <2>2 DEF T
    <3>2. Cardinality(r) = n - 1 /\ IsFiniteSet(r)
      BY <2>3, <2>6, <3>1, FS_RemoveElement
    <3> QED
      BY <3>1, <3>2, FS_CardinalityType
  <2> HIDE DEF r
  <2>8. f[r] = g[r]
    <3> SUFFICES ASSUME f[r] # g[r] PROVE FALSE
      OBVIOUS
    <3>1. n - 1 \in T
      BY <2>6, <2>7 DEF T
    <3> QED
      BY <2>2, <2>7, <3>1
  <2> QED
    BY <2>3, <2>6, <2>8
<1>9. f[S] = g[S]
  <2>1. Cardinality(S) \in Nat /\ S \in SUBSET S
    BY <1>2, FS_CardinalityType
  <2> QED
    BY <1>8, <2>1
<1>10. g[S] = Cardinality(Units(d, S))
  BY <1>3
<1> HIDE DEF g
<1> QED
  BY <1>1, <1>9, <1>10 DEF d

-----------------------------------------------------------------------------
(* The inductive invariant *)

TxType ==
    [data : BOOLEAN, recording : BOOLEAN, sampled : BOOLEAN, maxSpans : MaxSpans,
     spansCreated : Nat, spansDropped : Nat, cache : Span \cup {None},
     stats : [StatsKey -> Nat], sent : BOOLEAN]

\* The worlds that the functions of the model go through.
World == [tx : TxType, span : [Span -> SpanType]]

Used(r) == r.phase # "unused"

\* What a span is from its start on: only spans that were let through have an ID
\* of their own, and only they are compressed or dropped for being fast.
Identities(w) ==
    \A s \in Span :
        LET r == w.span[s] IN
        /\ ~Used(r) => r = Unused
        /\ r.enabled => r.id = s
        /\ r.tx /\ r.tracer => r.id = s
        /\ r.id \in Span => Used(w.span[r.id])
        /\ r.tx /\ r.id = s => w.tx.sampled
        /\ w.tx.data /\ Used(r) => r.tx
        /\ r.parent # None => r.tx
        /\ r.exit => r.type \in {x.type : x \in Shapes}

\* Only compressed spans are part of another.
Fates(w) ==
    \A s \in Span :
        LET r == w.span[s] IN (r.into # None) <=> (r.fate = "compressed")

\* A cache holds a cached span, and no two hold the same.
Caches(w) ==
    /\ w.tx.cache # None => w.tx.data /\ w.span[w.tx.cache].fate = "cached"
    /\ \A h \in Span : w.span[h].cache # None =>
           /\ w.span[w.span[h].cache].fate = "cached"
           /\ w.tx.cache # w.span[h].cache
           /\ \A g \in Span : w.span[g].cache = w.span[h].cache => g = h

LetThrough(sp) == {s \in Span : sp[s].tx /\ sp[s].id = s}
Counted(sp) == {s \in LetThrough(sp) : sp[s].fate \notin {"compressed", "fast"}}
NotLet(sp) == {s \in Span : (sp[s].tx /\ sp[s].id # s) \/ sp[s].fate = "fast"}
UnderWay(sp) == {s \in LetThrough(sp) : sp[s].fate \in {"none", "cached", "enqueued"}}

\* The counts are exact while they matter, and the limit holds.
Counts(w) ==
    /\ w.tx.data /\ w.tx.sampled => /\ w.tx.spansCreated = Cardinality(Counted(w.span))
                                    /\ w.tx.spansDropped = Cardinality(NotLet(w.span))
    /\ w.tx.maxSpans >= 0 =>
           /\ w.tx.data /\ w.tx.sampled => w.tx.spansCreated <= w.tx.maxSpans
           /\ Cardinality(UnderWay(w.span)) <= w.tx.maxSpans

MembersOf(sp, c) == {s \in Span : sp[s].into = c}
MaxOf(strategy) == IF strategy = "exact_match" THEN ExactMatchMax ELSE SameKindMax
SumOf(sp, S) == Cardinality(Units(Durations(sp), S))

\* The member m belongs into the composite r.
Belongs(m, r) ==
    /\ m.parentID = r.parentID /\ m.type = r.type
    /\ m.exit /\ m.ok /\ m.duration <= MaxOf(r.strategy)
    /\ r.strategy = "exact_match" => m.name = r.name

\* A composite is what it says.
CompositeOf(sp, c) ==
    LET members == MembersOf(sp, c)
        r == sp[c]
    IN  /\ r.count = IF members = {} THEN 0 ELSE Cardinality(members) + 1
        /\ r.fate = "none" => members = {}
        /\ r.fate = "cached" /\ members # {} =>
               r.sum = SumOf(sp, members \cup {c}) /\ r.duration <= MaxOf(r.strategy)
        /\ \A m \in members : Belongs(sp[m], r)
Composites(w) == \A c \in Span : CompositeOf(w.span, c)

\* The calls that dropped spans stand for.
DroppedOf(sp) == {s \in Span : sp[s].fate \in {"fast", "aggregated"} /\ sp[s].tx}
CallsOf(sp) == DroppedOf(sp) \cup {s \in Span : sp[s].into \in DroppedOf(sp)}
KeysOf(stats) == {k \in StatsKey : stats[k] > 0}

\* The statistics count them as long as there is room.
Statistics(w) ==
    /\ IsFiniteSet(Units(w.tx.stats, StatsKey)) /\ IsFiniteSet(KeysOf(w.tx.stats))
    /\ Cardinality(Units(w.tx.stats, StatsKey)) <= Cardinality(CallsOf(w.span))
    /\ Cardinality(KeysOf(w.tx.stats)) < MaxDroppedSpanStats =>
           Cardinality(Units(w.tx.stats, StatsKey)) = Cardinality(CallsOf(w.span))

\* What holds of every world that the steps of the model go through.
WorldInv(w) ==
    /\ w \in World
    /\ Identities(w) /\ Fates(w) /\ Caches(w) /\ Counts(w) /\ Composites(w) /\ Statistics(w)

\* A span has a fate once it has ended, none has started in the future, and none
\* has ended before its start.  The span e is being ended.
Phases(sp, e) ==
    \A s \in Span :
        /\ s # e => (sp[s].phase = "ended" <=> sp[s].fate # "none")
        /\ sp[s].timestamp <= now /\ sp[s].duration >= 0

\* A span that others name as their parent has been propagated, which keeps it
\* from being compressed, dropped for being fast, or cached.
Parents(w) ==
    \A s \in Span :
        LET r == w.span[s] IN
        /\ \A p \in Span \ {s} : p \in {r.parentID, r.id} =>
               w.span[p].propagated /\ w.span[p].fate \notin {"compressed", "fast"}
        /\ r.parentID # s
        /\ r.parent # None =>
               /\ w.span[r.parent].propagated
               /\ w.span[r.parent].fate \notin {"cached", "compressed", "discarded"}
        /\ r.fate = "discarded" => ~w.tx.data
        /\ r.fate \in {"fast", "aggregated", "enqueued", "dropped"} => ~r.data

Keeps(sp, r) ==
    \/ r.parent # None /\ sp[r.parent].exit /\ r.type # sp[r.parent].type
    \/ ~r.enabled

\* A cached span is in a cache that will be flushed, or in one that is kept.  The
\* span c has been taken from its cache, to be ended.
Held(w, c) ==
    \A s \in Span : s # c /\ w.span[s].fate = "cached" =>
        \/ w.tx.data /\ w.tx.cache = s
        \/ \E h \in Span : /\ w.span[h].cache = s
                           /\ w.span[h].phase # "ended" \/ Keeps(w.span, w.span[h])

\* What holds within a step that ends the span s and has taken c from its cache.
StepInv(w, s, c) ==
    /\ WorldInv(w) /\ Phases(w.span, s)
    /\ ~LateChildren => Parents(w) /\ Held(w, c)

\* The inductive invariant.
SpanInv == now \in 0..MaxTime /\ StepInv(world, None, None)

-----------------------------------------------------------------------------
(* Ending a span *)

\* The fates of a span that has been ended, and of one that the transaction's
\* statistics count.
Ends == {"fast", "aggregated", "enqueued", "dropped"}
Fallen == {"fast", "aggregated"}

\* What Finish makes of a span, by its fate.
Done(r, f) ==
    [r EXCEPT !.tracer = (f = "enqueued"), !.data = FALSE, !.timestamp = 0,
              !.duration = 0, !.sum = 0, !.last = 0, !.fate = f]

\* What it makes of the transaction.
TxDone(t, r, f) ==
    [t EXCEPT !.spansCreated = IF f = "fast" THEN @ - 1 ELSE @,
              !.spansDropped = IF f = "fast" THEN @ + 1 ELSE @,
              !.stats = IF f \in Fallen THEN AddStats(@, <<r.type, r.ok>>, Represents(r))
                        ELSE @]

\* The span r may have the fate f.
MayEnd(t, r, f) ==
    /\ f \in Ends
    /\ f = "fast" => r.tx /\ t.data /\ r.tracer /\ Eligible(r)
    /\ f = "aggregated" => r.tx /\ t.data /\ r.exit
    /\ (f = "enqueued" => r.tracer)
    /\ r.tracer => f \in {"fast", "enqueued"}

\* The world v is the world w once s has ended with fate f.
Finished(w, v, s, f) ==
    /\ MayEnd(w.tx, w.span[s], f)
    /\ v = [tx |-> TxDone(w.tx, w.span[s], f),
            span |-> [w.span EXCEPT ![s] = Done(w.span[s], f)]]

\* That is what Finish does, of a span whose duration may have been set before.
LEMMA FinishIs ==
    ASSUME NEW w \in World, NEW x \in World, NEW s \in Span, NEW d \in Int, NEW dest \in BOOLEAN,
           x = w \/ x = [w EXCEPT !.span[s].duration = d],
           dest \/ ~w.span[s].tracer
    PROVE  \E f \in Ends : Finished(w, Finish(x, s, dest), s, f)
<1> DEFINE r == w.span[s]
           q == x.span[s]
           fast == Fast(x, q)
           dropped == ~q.tracer \/ fast
           aggregated == dropped /\ q.tx /\ x.tx.data /\ q.exit /\ dest
           f == IF fast THEN "fast" ELSE IF ~dropped THEN "enqueued"
                ELSE IF aggregated THEN "aggregated" ELSE "dropped"
           v == Finish(x, s, dest)
<1>1. /\ w.span \in [Span -> SpanType] /\ w.tx \in TxType
      /\ x.span \in [Span -> SpanType] /\ x.tx \in TxType
  BY DEF World
<1>2. x.tx = w.tx /\ x = [tx |-> x.tx, span |-> x.span] /\ r \in SpanType /\ q \in SpanType
  BY <1>1 DEF World
<1>3. x.span = w.span \/ x.span = [w.span EXCEPT ![s] = [r EXCEPT !.duration = d]]
  BY <1>1 DEF World
<1>4. q = r \/ q = [r EXCEPT !.duration = d]
  BY <1>1, <1>3
<1>5. MayEnd(w.tx, r, f)
  BY <1>2, <1>4 DEF MayEnd, Ends, Fast, Eligible, SpanType
<1>6. v.span = [x.span EXCEPT ![s] = Done(q, f)]
  BY <1>2 DEF Finish, Done, Fast, Eligible, SpanType
<1>7. Done(q, f) = Done(r, f)
  BY <1>2, <1>4 DEF Done, SpanType
<1>8. v.span = [w.span EXCEPT ![s] = Done(r, f)]
  BY <1>1, <1>3, <1>6, <1>7
<1>9. v.tx = TxDone(w.tx, r, f)
  <2>1. aggregated <=> f \in Fallen
    BY <1>2, <1>4 DEF Fallen, Fast, Eligible, SpanType
  <2>2. q.type = r.type /\ q.ok = r.ok /\ Represents(q) = Represents(r)
    BY <1>2, <1>4 DEF Represents, SpanType
  <2> QED
    BY <1>1, <1>2, <2>1, <2>2 DEF Finish, TxDone, DropFastExitSpan, TxType
<1>10. v = [tx |-> v.tx, span |-> v.span]
  BY DEF Finish
<1> HIDE DEF v, r
<1>11. v = [tx |-> TxDone(w.tx, r, f), span |-> [w.span EXCEPT ![s] = Done(r, f)]]
  BY <1>8, <1>9, <1>10
<1> HIDE DEF f
<1>12. f \in Ends
  BY <1>5 DEF MayEnd
<1> QED
  BY <1>5, <1>11, <1>12 DEF Finished, v, r

\* Of the fields of an ended span, few are new.
LEMMA DoneFields ==
    ASSUME NEW r \in SpanType, NEW f \in Ends
    PROVE  LET q == Done(r, f) IN
              /\ q \in SpanType
              /\ q.phase = r.phase /\ q.tx = r.tx /\ q.parent = r.parent
              /\ q.parentID = r.parentID /\ q.id = r.id /\ q.type = r.type /\ q.name = r.name
              /\ q.exit = r.exit /\ q.enabled = r.enabled /\ q.propagated = r.propagated
              /\ q.ok = r.ok /\ q.strategy = r.strategy /\ q.count = r.count
              /\ q.cache = r.cache /\ q.into = r.into
              /\ (q.tracer <=> f = "enqueued")
              /\ q.fate = f /\ q.duration = 0
              /\ q.data = FALSE /\ q.timestamp = 0
<1> DEFINE b == (f = "enqueued")
           r1 == [r EXCEPT !.tracer = b, !.data = FALSE]
           r2 == [r1 EXCEPT !.timestamp = 0]
           r3 == [r2 EXCEPT !.duration = 0]
           r4 == [r3 EXCEPT !.sum = 0]
           r5 == [r4 EXCEPT !.last = 0]
           r6 == [r5 EXCEPT !.fate = f]
<1>1. Done(r, f) \in SpanType
  <2>1. b \in BOOLEAN /\ Done(r, f) = r6
    BY DEF Done
  <2> HIDE DEF b
  <2>2. r1 \in SpanType
    BY <2>1 DEF SpanType
  <2> HIDE DEF r1
  <2>3. r2 \in SpanType
    BY <2>2 DEF SpanType
  <2> HIDE DEF r2
  <2>4. r3 \in SpanType
    BY <2>3 DEF SpanType
  <2> HIDE DEF r3
  <2>5. r4 \in SpanType
    BY <2>4 DEF SpanType
  <2> HIDE DEF r4
  <2>6. r5 \in SpanType
    BY <2>5 DEF SpanType
  <2> HIDE DEF r5
  <2>7. r6 \in SpanType
    BY <2>6 DEF SpanType, Ends
  <2> QED
    BY <2>1, <2>7
<1>2. Done(r, f).tracer <=> f = "enqueued"
  <2>1. Done(r, f).tracer = b
    BY DEF Done, SpanType
  <2> QED
    BY <2>1
<1> QED
  BY <1>1, <1>2 DEF Done, SpanType

\* What Finished leaves as it was.
LEMMA FinishedFields ==
    ASSUME NEW w, WorldInv(w), NEW v, NEW s \in Span, NEW f \in Ends, Finished(w, v, s, f)
    PROVE  /\ w.span \in [Span -> SpanType] /\ w.tx \in TxType
           /\ v.span \in [Span -> SpanType]
           /\ v.span[s] = Done(w.span[s], f)
           /\ \A x \in Span : x # s => v.span[x] = w.span[x]
           /\ v.tx = TxDone(w.tx, w.span[s], f)
           /\ v = [tx |-> v.tx, span |-> v.span]
<1>1. w.span \in [Span -> SpanType] /\ w.tx \in TxType
  BY DEF WorldInv, World
<1>2. w.span[s] \in SpanType
  BY <1>1
<1>3. Done(w.span[s], f) \in SpanType
  BY <1>2, DoneFields
<1>4. v.span = [w.span EXCEPT ![s] = Done(w.span[s], f)] /\ v.tx = TxDone(w.tx, w.span[s], f)
  BY DEF Finished
<1>5. v = [tx |-> v.tx, span |-> v.span]
  BY DEF Finished
<1> QED
  BY <1>1, <1>3, <1>4, <1>5

\* The span s may be ended: it is in no cache and has no fate, or is cached.
Endable(w, s) ==
    /\ Used(w.span[s]) /\ w.span[s].fate \in {"none", "cached"}
    /\ w.tx.cache # s /\ \A h \in Span : w.span[h].cache # s

\* Ending a span keeps the number of spans counted, and the limit.
LEMMA FinishedCounts ==
    ASSUME NEW w, WorldInv(w), NEW v, NEW s \in Span, NEW f \in Ends,
           Finished(w, v, s, f), Endable(w, s)
    PROVE  Counts(v) /\ v.tx.spansCreated \in Nat /\ v.tx.spansDropped \in Nat
<1> DEFINE r == w.span[s]
           A == Counted(w.span)
           A1 == Counted(v.span)
           B == NotLet(w.span)
           B1 == NotLet(v.span)
           U == UnderWay(w.span)
           U1 == UnderWay(v.span)
<1>1. /\ w.span \in [Span -> SpanType] /\ w.tx \in TxType
      /\ v.span[s] = Done(r, f) /\ \A x \in Span : x # s => v.span[x] = w.span[x]
      /\ v.tx = TxDone(w.tx, r, f)
  BY FinishedFields
<1>2. r \in SpanType
  BY <1>1
<1>3. /\ v.span[s].tx = r.tx /\ v.span[s].id = r.id /\ v.span[s].fate = f
  <2>1. v.span[s] = Done(r, f)
    BY <1>1
  <2> HIDE DEF r
  <2>2. Done(r, f).tx = r.tx /\ Done(r, f).id = r.id /\ Done(r, f).fate = f
    BY <1>2, DoneFields
  <2> QED
    BY <2>1, <2>2
<1>4. /\ v.tx.data = w.tx.data /\ v.tx.sampled = w.tx.sampled /\ v.tx.maxSpans = w.tx.maxSpans
      /\ f = "fast" => /\ v.tx.spansCreated = w.tx.spansCreated - 1
                       /\ v.tx.spansDropped = w.tx.spansDropped + 1
      /\ f # "fast" => /\ v.tx.spansCreated = w.tx.spansCreated
                       /\ v.tx.spansDropped = w.tx.spansDropped
      /\ w.tx.spansCreated \in Nat /\ w.tx.spansDropped \in Nat /\ w.tx.maxSpans \in Int
  BY <1>1, SpanLifecycleAssumption DEF TxDone, TxType
<1>5. /\ r.fate \in {"none", "cached"} /\ f \in Ends
      /\ f = "fast" => r.tx /\ r.id = s /\ w.tx.data /\ w.tx.sampled
  <2>1. Identities(w) /\ MayEnd(w.tx, r, f)
    BY DEF WorldInv, Finished
  <2> QED
    BY <2>1 DEF Identities, MayEnd, Endable
<1>6. /\ IsFiniteSet(A) /\ IsFiniteSet(A1) /\ IsFiniteSet(B) /\ IsFiniteSet(U)
      /\ Cardinality(A) \in Nat /\ Cardinality(B) \in Nat /\ Cardinality(U) \in Nat
  <2>1. A \subseteq Span /\ A1 \subseteq Span /\ B \subseteq Span /\ U \subseteq Span
    BY DEF Counted, LetThrough, NotLet, UnderWay
  <2> QED
    BY <2>1, SpansFinite, FS_Subset, FS_CardinalityType
<1>7. U1 \subseteq U
  BY <1>1, <1>3, <1>5 DEF UnderWay, LetThrough, Ends
<1>8. IsFiniteSet(U1) /\ Cardinality(U1) <= Cardinality(U) /\ Cardinality(U1) \in Nat
  BY <1>6, <1>7, FS_Subset, FS_CardinalityType
<1>9. CASE f = "fast"
  <2>1. s \in A /\ A1 = A \ {s} /\ s \notin B /\ B1 = B \cup {s}
    BY <1>1, <1>3, <1>5, <1>9 DEF Counted, LetThrough, NotLet
  <2>2. Cardinality(A1) = Cardinality(A) - 1 /\ Cardinality(B1) = Cardinality(B) + 1
    BY <1>6, <2>1, FS_RemoveElement, FS_AddElement
  <2>3. Cardinality(A1) \in Nat
    BY <1>6, FS_CardinalityType
  <2> HIDE DEF A, A1, B, B1, U, U1, r
  <2>4. /\ w.tx.spansCreated = Cardinality(A) /\ w.tx.spansDropped = Cardinality(B)
        /\ w.tx.maxSpans >= 0 => /\ w.tx.spansCreated <= w.tx.maxSpans
                                 /\ Cardinality(U) <= w.tx.maxSpans
    BY <1>5, <1>9 DEF WorldInv, Counts, A, B, U
  <2>5. /\ v.tx.spansCreated = Cardinality(A1) /\ v.tx.spansDropped = Cardinality(B1)
        /\ v.tx.spansCreated \in Nat /\ v.tx.spansDropped \in Nat
        /\ w.tx.maxSpans >= 0 => /\ v.tx.spansCreated <= w.tx.maxSpans
                                 /\ Cardinality(U1) <= w.tx.maxSpans
    BY <1>4, <1>6, <1>8, <1>9, <2>2, <2>3, <2>4
  <2> QED
    BY <1>4, <2>5 DEF Counts, A1, B1, U1
<1>10. CASE f # "fast"
  <2>1. A1 = A /\ B1 = B
    BY <1>1, <1>3, <1>5, <1>10 DEF Counted, LetThrough, NotLet, Ends
  <2> HIDE DEF A, A1, B, B1, U, U1, r
  <2>2. Counts(w)
    BY DEF WorldInv
  <2>3. w.tx.maxSpans >= 0 => Cardinality(U1) <= w.tx.maxSpans
    BY <1>4, <1>6, <1>8, <2>2 DEF Counts, U
  <2> QED
    BY <1>4, <1>10, <2>1, <2>2, <2>3 DEF Counts, A, A1, B, B1, U, U1
<1> QED
  BY <1>9, <1>10

\* Two spans with the same identity.
Alike(q, r) ==
    /\ q.phase = r.phase /\ q.tx = r.tx /\ q.parent = r.parent /\ q.parentID = r.parentID
    /\ q.id = r.id /\ q.type = r.type /\ q.name = r.name /\ q.exit = r.exit
    /\ q.enabled = r.enabled /\ q.ok = r.ok

\* The span r has become q, with the given fate; it may have been ended.
SpanKept(r, q, fate, ended) ==
    /\ Alike(q, r) /\ q.cache = r.cache /\ q.into = r.into
    /\ q.strategy = r.strategy /\ q.count = r.count /\ q.fate = fate
    /\ q.tracer => r.tracer
    /\ q.propagated = r.propagated
    /\ ended => q.duration = 0 /\ q.timestamp = 0 /\ ~q.data
    /\ ~ended => q = r
SpansKept(sp, sp1, s, f) ==
    \A x \in Span : SpanKept(sp[x], sp1[x], IF x = s THEN f ELSE sp[x].fate, x = s)

\* An ended span keeps its identity, and its part in composites.
LEMMA FinishedSpans ==
    ASSUME NEW w, WorldInv(w), NEW v, NEW s \in Span, NEW f \in Ends,
           Finished(w, v, s, f), Endable(w, s)
    PROVE  /\ SpansKept(w.span, v.span, s, f)
           /\ v \in World
           /\ v.tx.data = w.tx.data /\ v.tx.sampled = w.tx.sampled /\ v.tx.cache = w.tx.cache
           /\ v.tx.maxSpans = w.tx.maxSpans /\ v.tx.stats \in [StatsKey -> Nat]
<1>1. /\ w.span \in [Span -> SpanType] /\ w.tx \in TxType
      /\ v.span \in [Span -> SpanType]
      /\ v.span[s] = Done(w.span[s], f) /\ \A x \in Span : x # s => v.span[x] = w.span[x]
      /\ v.tx = TxDone(w.tx, w.span[s], f)
  BY FinishedFields
<1>2. /\ MayEnd(w.tx, w.span[s], f) /\ Identities(w)
      /\ v = [tx |-> v.tx, span |-> v.span]
  BY DEF Finished, WorldInv
<1>3. ASSUME NEW x \in Span
      PROVE  SpanKept(w.span[x], v.span[x], IF x = s THEN f ELSE w.span[x].fate, x = s)
  <2>1. CASE x # s
    BY <1>1, <2>1 DEF SpanKept, Alike
  <2>2. CASE x = s
    <3> DEFINE r == w.span[s]
               q == Done(r, f)
    <3>1. r \in SpanType /\ v.span[s] = q /\ MayEnd(w.tx, r, f)
      BY <1>1, <1>2
    <3> HIDE DEF r
    <3>2. /\ Alike(q, r) /\ q.cache = r.cache /\ q.into = r.into
          /\ q.strategy = r.strategy /\ q.count = r.count /\ q.fate = f /\ q.duration = 0
          /\ q.propagated = r.propagated /\ q.timestamp = 0 /\ q.data = FALSE
      BY <3>1, DoneFields DEF Alike
    <3>3. q.tracer <=> f = "enqueued"
      BY <3>1, DoneFields
    <3>4. f = "enqueued" => r.tracer
      BY <3>1 DEF MayEnd
    <3> HIDE DEF q
    <3> QED
      BY <2>2, <3>1, <3>2, <3>3, <3>4 DEF SpanKept, r
  <2> QED
    BY <2>1, <2>2
<1>4. v.tx.stats \in [StatsKey -> Nat]
  <2> DEFINE r == w.span[s]
             key == <<r.type, r.ok>>
             n == Represents(r)
  <2>1. r \in SpanType
    BY <1>1
  <2>2. w.tx.stats \in [StatsKey -> Nat]
    BY <1>1 DEF TxType
  <2>3. n \in Nat
    BY <2>1 DEF Represents, SpanType
  <2> HIDE DEF n, key
  <2>4. AddStats(w.tx.stats, key, n) \in [StatsKey -> Nat]
    <3> DEFINE st == w.tx.stats
    <3>1. \A k \in StatsKey : st[k] + n \in Nat
      BY <2>2, <2>3
    <3> HIDE DEF st
    <3>2. [st EXCEPT ![key] = @ + n] \in [StatsKey -> Nat]
      BY <2>2, <3>1 DEF st
    <3> QED
      BY <2>2, <3>2 DEF AddStats, st
  <2>5. v.tx.stats = IF f \in Fallen THEN AddStats(w.tx.stats, key, n) ELSE w.tx.stats
    BY <1>1 DEF TxDone, TxType, n, key
  <2> QED
    BY <2>2, <2>4, <2>5
<1>5. /\ v.tx.data = w.tx.data /\ v.tx.sampled = w.tx.sampled /\ v.tx.cache = w.tx.cache
      /\ v.tx.maxSpans = w.tx.maxSpans /\ v.tx.recording = w.tx.recording
      /\ v.tx.sent = w.tx.sent
      /\ v.tx = [data |-> v.tx.data, recording |-> v.tx.recording, sampled |-> v.tx.sampled,
                 maxSpans |-> v.tx.maxSpans, spansCreated |-> v.tx.spansCreated,
                 spansDropped |-> v.tx.spansDropped, cache |-> v.tx.cache,
                 stats |-> v.tx.stats, sent |-> v.tx.sent]
  <2> DEFINE a == v.tx.spansCreated
  <2> QED
    BY <1>1 DEF TxDone, TxType
<1>6. v.tx.spansCreated \in Nat /\ v.tx.spansDropped \in Nat
  BY FinishedCounts
<1>7. v \in World
  <2>1. v.tx \in TxType
    BY <1>1, <1>4, <1>5, <1>6 DEF TxType
  <2> QED
    BY <1>1, <1>2, <2>1 DEF World
<1> QED
  BY <1>3, <1>4, <1>5, <1>7 DEF SpansKept

\* Ending a span leaves composites what they say.
LEMMA FinishedComposites ==
    ASSUME NEW w, WorldInv(w), NEW v, NEW s \in Span, NEW f \in Ends,
           Finished(w, v, s, f), Endable(w, s)
    PROVE  Composites(v)
<1> SUFFICES ASSUME NEW c \in Span PROVE CompositeOf(v.span, c)
  BY DEF Composites
<1> DEFINE M == MembersOf(w.span, c)
<1>1. /\ \A x \in Span :
             LET q == v.span[x]
                 r == w.span[x]
             IN  /\ Alike(q, r) /\ q.into = r.into
                 /\ q.strategy = r.strategy /\ q.count = r.count
                 /\ q.fate = (IF x = s THEN f ELSE r.fate)
                 /\ x # s => q = r
  <2>1. SpansKept(w.span, v.span, s, f)
    BY FinishedSpans
  <2> QED
    BY <2>1 DEF SpansKept, SpanKept
<1>2. CompositeOf(w.span, c) /\ Fates(w)
  BY DEF WorldInv, Composites
<1>3. s \notin M
  <2>1. w.span[s].into = None
    BY <1>2 DEF Fates, Endable
  <2>2. c # None
    BY SpansFinite, SpanLifecycleAssumption
  <2> QED
    BY <2>1, <2>2 DEF MembersOf
<1>4. MembersOf(v.span, c) = M
  BY <1>1 DEF MembersOf
<1>5. M \subseteq Span
  BY DEF MembersOf
<1>6. c # s => SumOf(v.span, M \cup {c}) = SumOf(w.span, M \cup {c})
  <2> SUFFICES ASSUME c # s
               PROVE  Units(Durations(v.span), M \cup {c}) = Units(Durations(w.span), M \cup {c})
    BY DEF SumOf
  <2>1. \A x \in M \cup {c} : Durations(v.span)[x] = Durations(w.span)[x]
    BY <1>1, <1>3, <1>5 DEF Durations
  <2> HIDE DEF M
  <2> QED
    BY <2>1, Zenon DEF Units
<1>7. \A m \in M : Belongs(v.span[m], v.span[c])
  <2> SUFFICES ASSUME NEW m \in M PROVE Belongs(v.span[m], v.span[c])
    OBVIOUS
  <2>1. v.span[m] = w.span[m] /\ Belongs(w.span[m], w.span[c])
    BY <1>1, <1>2, <1>3, <1>5 DEF CompositeOf
  <2>2. Alike(v.span[c], w.span[c]) /\ v.span[c].strategy = w.span[c].strategy
    BY <1>1
  <2> HIDE DEF M
  <2> QED
    BY <2>1, <2>2 DEF Belongs, Alike
<1> HIDE DEF M
<1>8. CASE c = s
  BY <1>1, <1>2, <1>4, <1>7, <1>8 DEF CompositeOf, M, Ends
<1>9. CASE c # s
  <2>1. v.span[c] = w.span[c]
    BY <1>1, <1>9
  <2> QED
    BY <1>2, <1>4, <1>6, <1>7, <1>9, <2>1 DEF CompositeOf, M
<1> QED
  BY <1>8, <1>9

\* The calls that a span stands for: its own, and those compressed into it.
Calls(sp, s) == {s} \cup MembersOf(sp, s)

\* A span that has no fate yet, or is cached, stands for as many as it says, and
\* none of them is counted.
LEMMA RepresentsCalls ==
    ASSUME NEW w, WorldInv(w), NEW s \in Span, w.span[s].fate \in {"none", "cached"}
    PROVE  /\ Cardinality(Calls(w.span, s)) = Represents(w.span[s])
           /\ IsFiniteSet(Calls(w.span, s)) /\ Calls(w.span, s) \cap CallsOf(w.span) = {}
           /\ w.span[s].into = None
<1> DEFINE M == MembersOf(w.span, s)
           r == w.span[s]
<1>1. Fates(w) /\ CompositeOf(w.span, s) /\ s # None
  BY SpansFinite, SpanLifecycleAssumption DEF WorldInv, Composites
<1>2. r.into = None /\ s \notin M /\ M \subseteq Span
  BY <1>1 DEF Fates, MembersOf
<1>3. IsFiniteSet(M) /\ IsFiniteSet(M \cup {s}) /\ Cardinality(M) \in Nat
      /\ Cardinality(M \cup {s}) = Cardinality(M) + 1
  BY <1>2, SpansFinite, FS_Subset, FS_AddElement, FS_CardinalityType
<1>4. r.count = IF M = {} THEN 0 ELSE Cardinality(M) + 1
  BY <1>1 DEF CompositeOf
<1>5. M # {} => Cardinality(M) > 0
  BY <1>3, FS_EmptySet
<1>6. Cardinality({}) = 0
  BY FS_EmptySet
<1>7. Calls(w.span, s) = M \cup {s}
  BY DEF Calls
<1>8. \A m \in M : w.span[m].fate = "compressed" /\ w.span[m].into = s
  BY <1>1 DEF Fates, MembersOf
<1>9. (M \cup {s}) \cap CallsOf(w.span) = {}
  <2> SUFFICES ASSUME NEW x \in M \cup {s}, x \in CallsOf(w.span) PROVE FALSE
    OBVIOUS
  <2>1. s \notin DroppedOf(w.span) /\ None \notin DroppedOf(w.span)
    BY SpansFinite, SpanLifecycleAssumption DEF DroppedOf
  <2>2. x \notin DroppedOf(w.span)
    BY <1>8, <2>1 DEF DroppedOf
  <2>3. w.span[x].into \in DroppedOf(w.span)
    BY <2>2 DEF CallsOf
  <2> QED
    BY <1>2, <1>8, <2>1, <2>3
<1> HIDE DEF M
<1>10. Represents(r) = Cardinality(M) + 1
  <2> HIDE DEF r
  <2> QED
    BY <1>3, <1>4, <1>5, <1>6 DEF Represents
<1> QED
  BY <1>2, <1>3, <1>7, <1>9, <1>10

\* Calls are added to the statistics if there is room for their key.
LEMMA AddStatsCounts ==
    ASSUME NEW st \in [StatsKey -> Nat], NEW key \in StatsKey, NEW n \in Nat, n > 0,
           IsFiniteSet(Units(st, StatsKey)), IsFiniteSet(KeysOf(st))
    PROVE  LET st1 == AddStats(st, key, n)
               before == Cardinality(Units(st, StatsKey))
               after == Cardinality(Units(st1, StatsKey))
           IN  /\ IsFiniteSet(Units(st1, StatsKey)) /\ IsFiniteSet(KeysOf(st1))
               /\ before \in Nat /\ after \in Nat /\ after <= before + n
               /\ Cardinality(KeysOf(st1)) < MaxDroppedSpanStats =>
                      /\ Cardinality(KeysOf(st)) < MaxDroppedSpanStats
                      /\ after = before + n
<1> DEFINE st1 == AddStats(st, key, n)
           more == [st EXCEPT ![key] = @ + n]
           room == Cardinality(KeysOf(st)) < MaxDroppedSpanStats
<1>1. st1 = IF st[key] > 0 \/ room THEN more ELSE st
  BY DEF AddStats, KeysOf
<1>2. Cardinality(Units(st, StatsKey)) \in Nat /\ Cardinality(KeysOf(st)) \in Nat
      /\ MaxDroppedSpanStats \in Nat
  BY FS_CardinalityType, SpanLifecycleAssumption
<1>3. CASE st[key] > 0 \/ room
  <2>1. more[key] = st[key] + n /\ st[key] \in Nat /\ \A k \in StatsKey \ {key} : more[k] = st[k]
    OBVIOUS
  <2> HIDE DEF more
  <2>2. /\ IsFiniteSet(Units(more, StatsKey))
        /\ Cardinality(Units(more, StatsKey)) = Cardinality(Units(st, StatsKey)) + n
    BY <2>1, UnitsMore
  <2>3. KeysOf(more) = KeysOf(st) \cup {key}
    BY <2>1 DEF KeysOf
  <2>4. IsFiniteSet(KeysOf(more))
        /\ Cardinality(KeysOf(more)) = IF st[key] > 0 THEN Cardinality(KeysOf(st))
                                       ELSE Cardinality(KeysOf(st)) + 1
    <3>1. key \in KeysOf(st) <=> st[key] > 0
      BY DEF KeysOf
    <3> QED
      BY <2>3, <3>1, FS_AddElement
  <2> QED
    BY <1>1, <1>2, <1>3, <2>2, <2>4
<1>4. CASE ~(st[key] > 0 \/ room)
  BY <1>1, <1>2, <1>4
<1> QED
  BY <1>3, <1>4

\* Ending a span leaves the statistics on dropped spans exact.
LEMMA FinishedStatistics ==
    ASSUME NEW w, WorldInv(w), NEW v, NEW s \in Span, NEW f \in Ends,
           Finished(w, v, s, f), Endable(w, s)
    PROVE  Statistics(v)
<1> DEFINE r == w.span[s]
           C == CallsOf(w.span)
           C1 == CallsOf(v.span)
           key == <<r.type, r.ok>>
           n == Represents(r)
           st == w.tx.stats
<1>1. SpansKept(w.span, v.span, s, f)
  BY FinishedSpans
<1>2. /\ \A x \in Span :
             /\ v.span[x].tx = w.span[x].tx /\ v.span[x].into = w.span[x].into
             /\ v.span[x].fate = (IF x = s THEN f ELSE w.span[x].fate)
  BY <1>1 DEF SpansKept, SpanKept, Alike
<1>3. r.fate \in {"none", "cached"} /\ Identities(w) /\ Statistics(w) /\ MayEnd(w.tx, r, f)
      /\ r \in SpanType /\ st \in [StatsKey -> Nat]
      /\ v.tx.stats = IF f \in Fallen THEN AddStats(st, key, n) ELSE st
  <2>1. w.span \in [Span -> SpanType] /\ w.tx \in TxType /\ v.tx = TxDone(w.tx, w.span[s], f)
    BY FinishedFields
  <2> QED
    BY <2>1 DEF WorldInv, Endable, Finished, TxDone, TxType
<1>4. /\ Cardinality(Calls(w.span, s)) = n
      /\ IsFiniteSet(Calls(w.span, s)) /\ Calls(w.span, s) \cap C = {} /\ r.into = None
  BY <1>3, RepresentsCalls
<1>5. IsFiniteSet(C) /\ Cardinality(C) \in Nat
  <2>1. C \subseteq Span
    BY DEF CallsOf, DroppedOf
  <2> QED
    BY <2>1, SpansFinite, FS_Subset, FS_CardinalityType
<1>6. CASE f \notin Fallen
  <2>1. DroppedOf(v.span) = DroppedOf(w.span)
    BY <1>2, <1>3, <1>6 DEF DroppedOf, Fallen
  <2>2. C1 = C
    BY <1>2, <2>1 DEF CallsOf
  <2> QED
    BY <1>3, <1>6, <2>2 DEF Statistics
<1>7. CASE f \in Fallen
  <2>1. r.tx /\ r.exit
    BY <1>3, <1>7 DEF MayEnd, Fallen, Eligible
  <2>2. DroppedOf(v.span) = DroppedOf(w.span) \cup {s}
    BY <1>2, <1>3, <1>7, <2>1 DEF DroppedOf, Fallen
  <2>3. C1 = C \cup Calls(w.span, s)
    BY <1>2, <2>2 DEF CallsOf, Calls, MembersOf
  <2>4. Cardinality(C1) = Cardinality(C) + n
    <3> HIDE DEF C, C1, n
    <3>1. C \cap Calls(w.span, s) = {}
      BY <1>4
    <3> QED
      BY <1>4, <1>5, <2>3, <3>1, DisjointUnion
  <2>5. n \in Nat /\ n > 0 /\ key \in StatsKey
    BY <1>3, <2>1 DEF Represents, SpanType, Identities, StatsKey
  <2> HIDE DEF r, C, C1, key, n, st
  <2> DEFINE st1 == AddStats(st, key, n)
             before == Cardinality(Units(st, StatsKey))
             after == Cardinality(Units(st1, StatsKey))
  <2>6. /\ IsFiniteSet(Units(st1, StatsKey)) /\ IsFiniteSet(KeysOf(st1))
        /\ before \in Nat /\ after \in Nat /\ after <= before + n
        /\ Cardinality(KeysOf(st1)) < MaxDroppedSpanStats =>
               /\ Cardinality(KeysOf(st)) < MaxDroppedSpanStats
               /\ after = before + n
    <3>1. IsFiniteSet(Units(st, StatsKey)) /\ IsFiniteSet(KeysOf(st))
      BY <1>3 DEF Statistics, st
    <3> QED
      BY <1>3, <2>5, <3>1, AddStatsCounts
  <2>7. /\ before <= Cardinality(C)
        /\ Cardinality(KeysOf(st)) < MaxDroppedSpanStats => before = Cardinality(C)
    BY <1>3 DEF Statistics, st, C
  <2>8. v.tx.stats = st1
    BY <1>3, <1>7
  <2> HIDE DEF before, after, st1
  <2>9. /\ after <= Cardinality(C1)
        /\ Cardinality(KeysOf(st1)) < MaxDroppedSpanStats => after = Cardinality(C1)
    BY <1>5, <2>4, <2>5, <2>6, <2>7
  <2> QED
    BY <2>6, <2>8, <2>9 DEF Statistics, after, C1
<1> QED
  BY <1>6, <1>7

\* Ending a span that may be ended keeps the invariant of worlds.
LEMMA FinishedKeeps ==
    ASSUME NEW w, WorldInv(w), NEW v, NEW s \in Span, NEW f \in Ends,
           Finished(w, v, s, f), Endable(w, s)
    PROVE  WorldInv(v)
<1>1. /\ SpansKept(w.span, v.span, s, f) /\ v \in World
      /\ v.tx.data = w.tx.data /\ v.tx.sampled = w.tx.sampled /\ v.tx.cache = w.tx.cache
  BY FinishedSpans
<1>2. Identities(w) /\ Fates(w) /\ Caches(w)
  BY DEF WorldInv
<1>3. ASSUME NEW x \in Span
      PROVE  LET q == v.span[x]
                 r == w.span[x]
             IN  /\ Alike(q, r) /\ q.cache = r.cache /\ q.into = r.into
                 /\ q.fate = (IF x = s THEN f ELSE r.fate)
                 /\ q.tracer => r.tracer
                 /\ x # s => q = r
  BY <1>1 DEF SpansKept, SpanKept
<1>4. w.span[s].into = None
  BY RepresentsCalls DEF Endable
<1>5. Identities(v)
  <2> SUFFICES ASSUME NEW x \in Span
               PROVE  LET r == v.span[x] IN
                      /\ ~Used(r) => r = Unused
                      /\ r.enabled => r.id = x
                      /\ r.tx /\ r.tracer => r.id = x
                      /\ r.id \in Span => Used(v.span[r.id])
                      /\ r.tx /\ r.id = x => v.tx.sampled
                      /\ v.tx.data /\ Used(r) => r.tx
                      /\ r.parent # None => r.tx
                      /\ r.exit => r.type \in {y.type : y \in Shapes}
    BY DEF Identities
  <2>1. Used(w.span[s])
    BY DEF Endable
  <2> QED
    BY <1>1, <1>2, <1>3, <2>1 DEF Identities, Alike, Used
<1>6. Fates(v)
  BY <1>2, <1>3, <1>4 DEF Fates, Alike, Endable, Ends
<1>7. Caches(v)
  <2>1. w.tx.cache \in Span \cup {None} /\ \A h \in Span : w.span[h].cache \in Span \cup {None}
    BY DEF WorldInv, World, TxType, SpanType
  <2> QED
    BY <1>1, <1>2, <1>3, <2>1 DEF Caches, Endable
<1> QED
  BY <1>1, <1>5, <1>6, <1>7, FinishedCounts, FinishedComposites, FinishedStatistics DEF WorldInv

-----------------------------------------------------------------------------
(* Caching and compressing a span *)

\* What the type invariant says of a world's parts.
LEMMA WorldParts ==
    ASSUME NEW w, WorldInv(w)
    PROVE  /\ w.span \in [Span -> SpanType] /\ w.tx \in TxType
           /\ w = [tx |-> w.tx, span |-> w.span]
           /\ \A s \in Span : w.span[s] \in SpanType
BY DEF WorldInv, World

\* The worlds w and v differ in their caches and fates, and where said.
Recached(w, v, tcache, cache, fate) ==
    /\ v.tx = [w.tx EXCEPT !.cache = tcache]
    /\ v = [tx |-> v.tx, span |-> v.span]
    /\ v.span \in [Span -> SpanType]
    /\ \A x \in Span : v.span[x] = [w.span[x] EXCEPT !.cache = cache[x], !.fate = fate[x]]

\* Only spans with no fate become cached, and only spans in use change.
MayRecache(sp, cache, fate) ==
    \A x \in Span : /\ fate[x] # sp[x].fate => sp[x].fate = "none" /\ fate[x] = "cached"
                    /\ cache[x] # sp[x].cache \/ fate[x] # sp[x].fate => Used(sp[x])

\* Changing caches and nothing else keeps the invariant, if caches stay sound.
LEMMA RecachedKeeps ==
    ASSUME NEW w, WorldInv(w), NEW v, NEW tcache \in Span \cup {None},
           NEW cache \in [Span -> Span \cup {None}], NEW fate,
           Recached(w, v, tcache, cache, fate),
           MayRecache(w.span, cache, fate), Caches(v)
    PROVE  WorldInv(v)
<1>1. /\ w.span \in [Span -> SpanType] /\ w.tx \in TxType
      /\ \A s \in Span : w.span[s] \in SpanType
  BY WorldParts
<1>2. /\ v.tx \in TxType /\ v.tx.data = w.tx.data /\ v.tx.sampled = w.tx.sampled
      /\ v.tx.maxSpans = w.tx.maxSpans /\ v.tx.spansCreated = w.tx.spansCreated
      /\ v.tx.spansDropped = w.tx.spansDropped /\ v.tx.stats = w.tx.stats
  BY <1>1 DEF Recached, TxType
<1>3. ASSUME NEW x \in Span
      PROVE  LET q == v.span[x]
                 r == w.span[x]
             IN  /\ Alike(q, r) /\ q.into = r.into /\ q.strategy = r.strategy
                 /\ q.count = r.count /\ q.sum = r.sum /\ q.duration = r.duration
                 /\ q.tracer = r.tracer /\ q.fate = fate[x]
                 /\ ~Used(r) => q = r
  <2>1. w.span[x] \in SpanType /\ v.span[x] = [w.span[x] EXCEPT !.cache = cache[x], !.fate = fate[x]]
    BY <1>1 DEF Recached
  <2>2. ~Used(w.span[x]) => cache[x] = w.span[x].cache /\ fate[x] = w.span[x].fate
    BY DEF MayRecache
  <2> DEFINE r == w.span[x]
             q == v.span[x]
  <2>3. [r EXCEPT !.cache = r.cache, !.fate = r.fate] = r
    BY <2>1 DEF SpanType
  <2>4. ~Used(r) => q = r
    <3> HIDE DEF q
    <3> QED
      BY <2>1, <2>2, <2>3 DEF q
  <2>5. /\ Alike(q, r) /\ q.into = r.into /\ q.strategy = r.strategy
        /\ q.count = r.count /\ q.sum = r.sum /\ q.duration = r.duration
        /\ q.tracer = r.tracer /\ q.fate = fate[x]
    BY <2>1 DEF Alike, SpanType
  <2> QED
    BY <2>4, <2>5
<1>4. ASSUME NEW x \in Span, fate[x] # w.span[x].fate
      PROVE  w.span[x].fate = "none" /\ fate[x] = "cached"
  BY <1>4 DEF MayRecache
<1>5. Identities(w) /\ Fates(w) /\ Counts(w) /\ Composites(w) /\ Statistics(w)
  BY DEF WorldInv
<1>6. v \in World
  BY <1>2 DEF World, Recached
<1>7. Identities(v)
  <2> SUFFICES ASSUME NEW x \in Span
               PROVE  LET r == v.span[x] IN
                      /\ ~Used(r) => r = Unused
                      /\ r.enabled => r.id = x
                      /\ r.tx /\ r.tracer => r.id = x
                      /\ r.id \in Span => Used(v.span[r.id])
                      /\ r.tx /\ r.id = x => v.tx.sampled
                      /\ v.tx.data /\ Used(r) => r.tx
                      /\ r.parent # None => r.tx
                      /\ r.exit => r.type \in {y.type : y \in Shapes}
    BY DEF Identities
  <2> QED
    BY <1>2, <1>3, <1>5 DEF Identities, Alike, Used
<1>8. Fates(v)
  BY <1>3, <1>4, <1>5 DEF Fates
<1>9. /\ Counted(v.span) = Counted(w.span) /\ NotLet(v.span) = NotLet(w.span)
      /\ UnderWay(v.span) = UnderWay(w.span)
  BY <1>3, <1>4 DEF Counted, NotLet, UnderWay, LetThrough, Alike
<1>10. Counts(v)
  BY <1>2, <1>5, <1>9 DEF Counts
<1>11. Durations(v.span) = Durations(w.span)
  BY <1>3 DEF Durations
<1>12. Composites(v)
  <2> SUFFICES ASSUME NEW c \in Span PROVE CompositeOf(v.span, c)
    BY DEF Composites
  <2> DEFINE M == MembersOf(w.span, c)
  <2>1. MembersOf(v.span, c) = M
    BY <1>3 DEF MembersOf
  <2>2. SumOf(v.span, M \cup {c}) = SumOf(w.span, M \cup {c})
    BY <1>11 DEF SumOf
  <2>3. \A m \in M : Belongs(v.span[m], v.span[c]) <=> Belongs(w.span[m], w.span[c])
    BY <1>3 DEF MembersOf, Belongs, Alike
  <2>4. /\ v.span[c].fate = "cached" => w.span[c].fate = "cached" \/ w.span[c].fate = "none"
        /\ v.span[c].fate = "none" => w.span[c].fate = "none"
    BY <1>3, <1>4
  <2>5. CompositeOf(w.span, c)
    BY <1>5 DEF Composites
  <2> QED
    BY <1>3, <2>1, <2>2, <2>3, <2>4, <2>5 DEF CompositeOf
<1>13. Statistics(v)
  <2>1. DroppedOf(v.span) = DroppedOf(w.span)
    BY <1>3, <1>4 DEF DroppedOf, Alike
  <2>2. CallsOf(v.span) = CallsOf(w.span)
    BY <1>3, <2>1 DEF CallsOf
  <2> QED
    BY <1>2, <1>5, <2>2 DEF Statistics
<1> QED
  BY <1>6, <1>7, <1>8, <1>10, <1>12, <1>13 DEF WorldInv

Holder == Span \cup {Tx}

\* Every cache but h's.
CachesBut(w, h, c) == [x \in Span |-> IF x = h THEN c ELSE w.span[x].cache]
TxCacheBut(w, h, c) == IF h = Tx THEN c ELSE w.tx.cache

\* What h's cache holds is a cached span, and in no other cache.
LEMMA CacheHolds ==
    ASSUME NEW w, WorldInv(w), NEW h \in Holder
    PROVE  LET c == Cache(w, h) IN
           /\ c \in Span \cup {None}
           /\ c # None =>
                 /\ c \in Span /\ w.span[c].fate = "cached" /\ Used(w.span[c])
                 /\ h # Tx => w.tx.cache # c
                 /\ \A x \in Span : x # h => w.span[x].cache # c
<1>1. /\ w.span \in [Span -> SpanType] /\ w.tx \in TxType
      /\ \A s \in Span : w.span[s] \in SpanType
  BY WorldParts
<1>2. w.tx.cache \in Span \cup {None} /\ \A x \in Span : w.span[x].cache \in Span \cup {None}
  BY <1>1 DEF TxType, SpanType
<1>3. Caches(w) /\ Identities(w) /\ Tx \notin Span
  BY SpansFinite, SpanLifecycleAssumption DEF WorldInv
<1>4. Unused.fate = "none"
  BY DEF Unused
<1> QED
  BY <1>2, <1>3, <1>4 DEF Cache, Caches, Identities, Holder

FatesOf(w) == [x \in Span |-> w.span[x].fate]

\* What SetCache does.
LEMMA SetCacheIs ==
    ASSUME NEW w, WorldInv(w), NEW h \in Holder, NEW c \in Span \cup {None}
    PROVE  Recached(w, SetCache(w, h, c), TxCacheBut(w, h, c), CachesBut(w, h, c), FatesOf(w))
<1> DEFINE v == SetCache(w, h, c)
           cache == CachesBut(w, h, c)
           tcache == TxCacheBut(w, h, c)
           fate == FatesOf(w)
<1>1. /\ w.span \in [Span -> SpanType] /\ w.tx \in TxType
      /\ w = [tx |-> w.tx, span |-> w.span]
      /\ \A s \in Span : w.span[s] \in SpanType
  BY WorldParts
<1>2. Tx \notin Span /\ None \notin Span
  BY SpansFinite, SpanLifecycleAssumption
<1>3. \A x \in Span : [w.span[x] EXCEPT !.cache = w.span[x].cache, !.fate = w.span[x].fate]
                      = w.span[x]
  BY <1>1 DEF SpanType
<1>4. \A x \in Span : [w.span[x] EXCEPT !.cache = c] \in SpanType
  BY <1>1 DEF SpanType
<1>5. \A x \in Span : [w.span[x] EXCEPT !.cache = c, !.fate = w.span[x].fate]
                      = [w.span[x] EXCEPT !.cache = c]
  BY <1>1 DEF SpanType
<1>6. CASE h = Tx
  <2>1. v.tx = [w.tx EXCEPT !.cache = c] /\ v.span = w.span
        /\ v = [tx |-> v.tx, span |-> v.span] /\ tcache = c
    BY <1>1, <1>6 DEF SetCache, TxCacheBut
  <2>2. \A x \in Span : cache[x] = w.span[x].cache /\ fate[x] = w.span[x].fate
    BY <1>2, <1>6 DEF CachesBut, FatesOf
  <2> HIDE DEF v, cache, tcache, fate
  <2>3. Recached(w, v, tcache, cache, fate)
    BY <1>1, <1>3, <2>1, <2>2 DEF Recached
  <2> QED
    BY <2>3 DEF v, cache, tcache, fate
<1>7. CASE h # Tx
  <2>1. /\ v.span = [w.span EXCEPT ![h] = [w.span[h] EXCEPT !.cache = c]]
        /\ v.tx = w.tx /\ v = [tx |-> v.tx, span |-> v.span] /\ tcache = w.tx.cache /\ h \in Span
    BY <1>1, <1>7 DEF SetCache, TxCacheBut, Holder
  <2>2. w.tx = [w.tx EXCEPT !.cache = w.tx.cache]
    BY <1>1 DEF TxType
  <2>3. \A x \in Span : /\ fate[x] = w.span[x].fate
                        /\ cache[x] = IF x = h THEN c ELSE w.span[x].cache
    BY DEF CachesBut, FatesOf
  <2> HIDE DEF v, cache, tcache, fate
  <2>4. v.span \in [Span -> SpanType]
    BY <1>1, <1>4, <2>1
  <2>5. ASSUME NEW x \in Span
        PROVE  v.span[x] = [w.span[x] EXCEPT !.cache = cache[x], !.fate = fate[x]]
    <3>1. CASE x = h
      BY <1>1, <1>5, <2>1, <2>3, <3>1
    <3>2. CASE x # h
      BY <1>1, <1>3, <2>1, <2>3, <3>2
    <3> QED
      BY <3>1, <3>2
  <2>6. Recached(w, v, tcache, cache, fate)
    BY <2>1, <2>2, <2>4, <2>5 DEF Recached
  <2> QED
    BY <2>6 DEF v, cache, tcache, fate
<1> QED
  BY <1>6, <1>7

\* The fields that Recached is about, and some it leaves alone.
RecachedKept(r, q, cache, fate) ==
    /\ Alike(q, r) /\ q.cache = cache /\ q.fate = fate
    /\ q.propagated = r.propagated /\ q.data = r.data
    /\ q.timestamp = r.timestamp /\ q.duration = r.duration

\* What such a world has of its spans and its transaction.
LEMMA RecachedFields ==
    ASSUME NEW w, WorldInv(w), NEW v, NEW tcache, NEW cache, NEW fate,
           Recached(w, v, tcache, cache, fate)
    PROVE  /\ v.tx.cache = tcache /\ v.tx.data = w.tx.data
           /\ \A x \in Span : RecachedKept(w.span[x], v.span[x], cache[x], fate[x])
<1>1. /\ w.tx \in TxType /\ \A s \in Span : w.span[s] \in SpanType
  BY WorldParts
<1>2. v.tx.cache = tcache /\ v.tx.data = w.tx.data
  BY <1>1 DEF Recached, TxType
<1>3. ASSUME NEW x \in Span
      PROVE  RecachedKept(w.span[x], v.span[x], cache[x], fate[x])
  <2>1. v.span[x] = [w.span[x] EXCEPT !.cache = cache[x], !.fate = fate[x]]
    BY DEF Recached
  <2> QED
    BY <1>1, <2>1 DEF RecachedKept, Alike, SpanType
<1> QED
  BY <1>2, <1>3

\* Emptying a cache makes way for the end of the span that was in it.
LEMMA UncachedKeeps ==
    ASSUME NEW w, WorldInv(w), NEW h \in Holder, Cache(w, h) # None
    PROVE  WorldInv(SetCache(w, h, None)) /\ Endable(SetCache(w, h, None), Cache(w, h))
<1> DEFINE v == SetCache(w, h, None)
           c == Cache(w, h)
           cache == CachesBut(w, h, None)
           tcache == TxCacheBut(w, h, None)
           fate == FatesOf(w)
<1>1. /\ w.tx.cache \in Span \cup {None} /\ \A x \in Span : w.span[x].cache \in Span \cup {None}
  BY WorldParts DEF TxType, SpanType
<1>2. /\ c \in Span /\ w.span[c].fate = "cached" /\ Used(w.span[c])
      /\ h # Tx => w.tx.cache # c
      /\ \A x \in Span : x # h => w.span[x].cache # c
  BY CacheHolds
<1>3. Tx \notin Span /\ None \notin Span
  BY SpansFinite, SpanLifecycleAssumption
<1>4. /\ \A x \in Span : /\ fate[x] = w.span[x].fate
                         /\ cache[x] = IF x = h THEN None ELSE w.span[x].cache
      /\ tcache = IF h = Tx THEN None ELSE w.tx.cache
      /\ tcache \in Span \cup {None} /\ cache \in [Span -> Span \cup {None}]
  BY <1>1 DEF CachesBut, TxCacheBut, FatesOf
<1>5. Recached(w, v, tcache, cache, fate)
  BY SetCacheIs
<1> HIDE DEF v, cache, tcache, fate
<1>6. /\ \A x \in Span : v.span[x].cache = cache[x] /\ v.span[x].fate = fate[x]
                         /\ v.span[x].phase = w.span[x].phase
      /\ v.tx.cache = tcache /\ v.tx.data = w.tx.data
  BY <1>5, RecachedFields DEF RecachedKept, Alike
<1>7. Caches(v)
  <2>1. Caches(w)
    BY DEF WorldInv
  <2> HIDE DEF c
  <2> QED
    BY <1>1, <1>4, <1>6, <2>1 DEF Caches
<1>8. MayRecache(w.span, cache, fate)
  <2>1. Unused.cache = None
    BY DEF Unused
  <2>2. Identities(w)
    BY DEF WorldInv
  <2> QED
    BY <1>4, <2>1, <2>2 DEF Identities, MayRecache
<1>9. WorldInv(v)
  BY <1>4, <1>5, <1>7, <1>8, RecachedKeeps
<1>10. Endable(v, c)
  <2>1. tcache # c /\ \A x \in Span : cache[x] # c
    BY <1>2, <1>3, <1>4
  <2> HIDE DEF c
  <2> QED
    BY <1>2, <1>4, <1>6, <2>1 DEF Endable, Used
<1> QED
  BY <1>9, <1>10 DEF v, c

\* A span with no fate is put into a cache; what was in it may be ended.
Cached(w, h, s) == [SetCache(w, h, s) EXCEPT !.span[s].fate = "cached"]

\* Caching a span keeps what holds of every world.
LEMMA CachedKeeps ==
    ASSUME NEW w, WorldInv(w), NEW h \in Holder, NEW s \in Span, w.span[s].fate = "none",
           Used(w.span[s]), h = Tx => w.tx.data, h \in Span => Used(w.span[h])
    PROVE  /\ WorldInv(Cached(w, h, s))
           /\ Cache(w, h) # None => Endable(Cached(w, h, s), Cache(w, h))
           /\ Recached(w, Cached(w, h, s), TxCacheBut(w, h, s), CachesBut(w, h, s),
                       [FatesOf(w) EXCEPT ![s] = "cached"])
<1> DEFINE u == SetCache(w, h, s)
           v == Cached(w, h, s)
           c == Cache(w, h)
           cache == CachesBut(w, h, s)
           tcache == TxCacheBut(w, h, s)
           fate == [FatesOf(w) EXCEPT ![s] = "cached"]
<1>1. /\ w.tx.cache \in Span \cup {None} /\ \A x \in Span : w.span[x].cache \in Span \cup {None}
      /\ \A x \in Span : w.span[x] \in SpanType
  BY WorldParts DEF TxType, SpanType
<1>2. /\ c \in Span \cup {None}
      /\ c # None => /\ c \in Span /\ w.span[c].fate = "cached" /\ Used(w.span[c])
                     /\ h # Tx => w.tx.cache # c
                     /\ \A x \in Span : x # h => w.span[x].cache # c
  BY CacheHolds
<1>3. Tx \notin Span /\ None \notin Span
  BY SpansFinite, SpanLifecycleAssumption
<1>4. /\ \A x \in Span : /\ fate[x] = IF x = s THEN "cached" ELSE w.span[x].fate
                         /\ cache[x] = IF x = h THEN s ELSE w.span[x].cache
                         /\ FatesOf(w)[x] = w.span[x].fate
      /\ tcache = IF h = Tx THEN s ELSE w.tx.cache
      /\ tcache \in Span \cup {None} /\ cache \in [Span -> Span \cup {None}]
  BY <1>1 DEF CachesBut, TxCacheBut, FatesOf
<1>5. Recached(w, u, tcache, cache, FatesOf(w))
  BY SetCacheIs
<1>6. /\ v.tx = u.tx /\ v = [tx |-> v.tx, span |-> v.span]
      /\ v.span = [u.span EXCEPT ![s] = [u.span[s] EXCEPT !.fate = "cached"]]
  <2>1. u = [tx |-> u.tx, span |-> u.span]
    BY <1>5 DEF Recached
  <2> HIDE DEF u
  <2> QED
    BY <2>1 DEF Cached, u
<1> HIDE DEF u, v, cache, tcache, fate
<1>7. Recached(w, v, tcache, cache, fate)
  <2>1. u.span \in [Span -> SpanType] /\ u.tx = [w.tx EXCEPT !.cache = tcache]
        /\ \A x \in Span : u.span[x] = [w.span[x] EXCEPT !.cache = cache[x],
                                                         !.fate = w.span[x].fate]
    BY <1>4, <1>5 DEF Recached
  <2>2. u.span[s] \in SpanType
    BY <2>1
  <2>3. [u.span[s] EXCEPT !.fate = "cached"] \in SpanType
    BY <2>2 DEF SpanType
  <2>4. v.span \in [Span -> SpanType]
    BY <1>6, <2>1, <2>3
  <2>5. [u.span[s] EXCEPT !.fate = "cached"]
        = [w.span[s] EXCEPT !.cache = cache[s], !.fate = "cached"]
    BY <2>1
  <2>6. ASSUME NEW x \in Span
        PROVE  v.span[x] = [w.span[x] EXCEPT !.cache = cache[x], !.fate = fate[x]]
    <3>1. CASE x = s
      BY <1>4, <1>6, <2>1, <2>5, <3>1
    <3>2. CASE x # s
      <4>1. v.span[x] = u.span[x]
        BY <1>6, <2>1, <3>2
      <4>2. fate[x] = w.span[x].fate
        BY <1>4, <3>2
      <4> QED
        BY <2>1, <4>1, <4>2
    <3> QED
      BY <3>1, <3>2
  <2> QED
    BY <1>6, <2>1, <2>4, <2>6 DEF Recached
<1>8. /\ \A x \in Span : v.span[x].cache = cache[x] /\ v.span[x].fate = fate[x]
                         /\ v.span[x].phase = w.span[x].phase
      /\ v.tx.cache = tcache /\ v.tx.data = w.tx.data
  BY <1>7, RecachedFields DEF RecachedKept, Alike
<1>9. Caches(v)
  <2>1. Caches(w)
    BY DEF WorldInv
  <2>2. w.tx.cache # s /\ \A x \in Span : w.span[x].cache # s
    BY <1>3, <2>1 DEF Caches
  <2> HIDE DEF c
  <2> QED
    BY <1>1, <1>3, <1>4, <1>8, <2>1, <2>2 DEF Caches
<1>10. MayRecache(w.span, cache, fate)
  BY <1>4 DEF MayRecache
<1>11. WorldInv(v)
  BY <1>4, <1>7, <1>9, <1>10, RecachedKeeps
<1>12. c # None => Endable(v, c)
  <2> SUFFICES ASSUME c # None PROVE Endable(v, c)
    OBVIOUS
  <2>1. c # s
    BY <1>2
  <2>2. tcache # c /\ \A x \in Span : cache[x] # c
    BY <1>2, <1>3, <1>4, <2>1
  <2> HIDE DEF c
  <2> QED
    BY <1>2, <1>4, <1>8, <2>1, <2>2 DEF Endable, Used
<1> QED
  BY <1>7, <1>11, <1>12 DEF v, c, cache, tcache, fate

\* The span q may be compressed into r with strategy st.
MayCompress(r, q, st) ==
    /\ st \in {"exact_match", "same_kind"} /\ r.type = q.type /\ r.parentID = q.parentID
    /\ r.duration <= MaxOf(st) /\ q.duration <= MaxOf(st)
    /\ st = "exact_match" => r.name = q.name
    /\ r.count > 0 => r.strategy = st
    /\ q.exit /\ q.ok

\* A strategy is only chosen for spans that it is meant for.
LEMMA StrategyMayCompress ==
    ASSUME NEW r \in SpanType, NEW q \in SpanType, Siblings(r, q), Eligible(q),
           Strategy(r, q) # "none"
    PROVE  MayCompress(r, q, Strategy(r, q))
BY DEF Siblings, Eligible, Strategy, MayCompress, MaxOf, IsSameKind, IsExactMatch,
       DurationLowerOrEq, SpanType

\* What Composite makes of a span.
LEMMA CompositeFields ==
    ASSUME NEW r \in SpanType, NEW q \in SpanType, r.duration >= 0, q.duration >= 0,
           NEW st \in {"exact_match", "same_kind"}
    PROVE  LET m == Composite(r, q, st) IN
           /\ m \in SpanType
           /\ Alike(m, r) /\ m.cache = r.cache /\ m.into = r.into /\ m.fate = r.fate
           /\ m.tracer = r.tracer /\ m.duration = r.duration /\ m.timestamp = r.timestamp
           /\ m.propagated = r.propagated /\ m.data = r.data
           /\ m.strategy = (IF r.count = 0 THEN st ELSE r.strategy)
           /\ m.count = (IF r.count = 0 THEN 2 ELSE r.count + 1)
           /\ m.sum = (IF r.count = 0 THEN r.duration ELSE r.sum) + q.duration
<1> DEFINE a == IF r.count = 0 THEN st ELSE r.strategy
           b == IF r.count = 0 THEN 2 ELSE r.count + 1
           d == (IF r.count = 0 THEN r.duration ELSE r.sum) + q.duration
           e == IF q.timestamp + q.duration > r.last THEN q.timestamp + q.duration ELSE r.last
           r1 == [r EXCEPT !.strategy = a]
           r2 == [r1 EXCEPT !.count = b]
           r3 == [r2 EXCEPT !.sum = d]
           r4 == [r3 EXCEPT !.last = e]
<1>1. /\ a \in {"none", "exact_match", "same_kind"} /\ b \in Nat /\ d \in Nat /\ e \in Nat
  BY DEF SpanType
<1>2. Composite(r, q, st) = r4
  BY DEF Composite, SpanType
<1> HIDE DEF a, b, d, e
<1>3. r1 \in SpanType
  BY <1>1 DEF SpanType
<1>4. r2 \in SpanType
  <2> HIDE DEF r1
  <2> QED
    BY <1>1, <1>3 DEF SpanType
<1>5. r3 \in SpanType
  <2> HIDE DEF r2
  <2> QED
    BY <1>1, <1>4 DEF SpanType
<1>6. r4 \in SpanType
  <2> HIDE DEF r3
  <2> QED
    BY <1>1, <1>5 DEF SpanType
<1>7. r4.strategy = a /\ r4.count = b /\ r4.sum = d
  BY DEF SpanType
<1>8. /\ Alike(r4, r) /\ r4.cache = r.cache /\ r4.into = r.into /\ r4.fate = r.fate
      /\ r4.tracer = r.tracer /\ r4.duration = r.duration /\ r4.timestamp = r.timestamp
      /\ r4.propagated = r.propagated /\ r4.data = r.data
  BY DEF Alike, SpanType
<1> HIDE DEF r4
<1> QED
  BY <1>2, <1>6, <1>7, <1>8 DEF a, b, d

\* The world after s has been compressed into c.
Compressed(w, c, s, st) ==
    [w EXCEPT !.span[c] = Composite(w.span[c], w.span[s], st),
              !.span[s].fate = "compressed", !.span[s].into = c,
              !.tx.spansCreated = IF w.span[s].tx /\ w.tx.data THEN @ - 1 ELSE @]

\* The span s may be compressed into c, with strategy st.
Compressible(w, c, s, st) ==
    /\ w.span[c].fate = "cached" /\ w.span[s].fate = "none" /\ Used(w.span[s])
    /\ w.span[s].enabled /\ MayCompress(w.span[c], w.span[s], st)
    /\ \A x \in Span : w.span[x].duration >= 0

\* What that comes to.
CompressedTo(w, v, c, s, st) ==
    /\ v.span = [w.span EXCEPT ![c] = Composite(w.span[c], w.span[s], st),
                               ![s] = [w.span[s] EXCEPT !.fate = "compressed", !.into = c]]
    /\ v.span \in [Span -> SpanType]
    /\ v.tx = [w.tx EXCEPT !.spansCreated = IF w.span[s].tx /\ w.tx.data THEN @ - 1 ELSE @]
    /\ v = [tx |-> v.tx, span |-> v.span]
    /\ s # c

\* The spans of a world in which one was compressed into another.
LEMMA CompressedSpans ==
    ASSUME NEW w, WorldInv(w), NEW c \in Span, NEW s \in Span, NEW st,
           Compressible(w, c, s, st)
    PROVE  CompressedTo(w, Compressed(w, c, s, st), c, s, st)
<1> DEFINE v == Compressed(w, c, s, st)
           r == w.span[c]
           q == w.span[s]
           m == Composite(r, q, st)
           q1 == [q EXCEPT !.fate = "compressed", !.into = c]
<1>1. /\ w.span \in [Span -> SpanType] /\ w.tx \in TxType
      /\ w = [tx |-> w.tx, span |-> w.span] /\ r \in SpanType /\ q \in SpanType
  BY WorldParts
<1>2. s # c
  BY DEF Compressible
<1>3. m \in SpanType
  <2>1. r.duration >= 0 /\ q.duration >= 0 /\ st \in {"exact_match", "same_kind"}
    BY DEF Compressible, MayCompress
  <2> HIDE DEF r, q
  <2> QED
    BY <1>1, <2>1, CompositeFields
<1>4. q1 \in SpanType
  <2> DEFINE q0 == [q EXCEPT !.fate = "compressed"]
  <2>1. q0 \in SpanType
    BY <1>1 DEF SpanType
  <2>2. q1 = [q0 EXCEPT !.into = c]
    OBVIOUS
  <2> HIDE DEF q0
  <2>3. [q0 EXCEPT !.into = c] \in SpanType
    BY <2>1 DEF SpanType
  <2> QED
    BY <2>2, <2>3
<1>5. v.span = [w.span EXCEPT ![c] = m, ![s] = q1]
  <2> HIDE DEF m
  <2>1. v.span = [w.span EXCEPT ![c] = m, ![s].fate = "compressed", ![s].into = c]
    BY <1>1 DEF Compressed, m
  <2> QED
    BY <1>1, <1>2, <2>1
<1>6. v.span \in [Span -> SpanType]
  <2> HIDE DEF m, q1, v
  <2> QED
    BY <1>1, <1>3, <1>4, <1>5
<1>7. /\ v.tx = [w.tx EXCEPT !.spansCreated = IF w.span[s].tx /\ w.tx.data THEN @ - 1 ELSE @]
      /\ v = [tx |-> v.tx, span |-> v.span]
  <2> DEFINE n == IF w.span[s].tx /\ w.tx.data THEN w.tx.spansCreated - 1 ELSE w.tx.spansCreated
             sp == [w.span EXCEPT ![c] = m, ![s].fate = "compressed", ![s].into = c]
  <2>1. v = [w EXCEPT !.span = sp, !.tx = [w.tx EXCEPT !.spansCreated = n]]
    BY <1>1 DEF Compressed
  <2>2. [w.tx EXCEPT !.spansCreated = n]
        = [w.tx EXCEPT !.spansCreated = IF w.span[s].tx /\ w.tx.data THEN @ - 1 ELSE @]
    OBVIOUS
  <2> HIDE DEF v, sp, n
  <2>3. v.tx = [w.tx EXCEPT !.spansCreated = n] /\ v = [tx |-> v.tx, span |-> v.span]
    BY <1>1, <2>1
  <2> QED
    BY <2>2, <2>3
<1> QED
  BY <1>2, <1>5, <1>6, <1>7 DEF CompressedTo

\* The span r of the world has become q, by compressing s into c.
CompressedKept(r, q, x, c, s) ==
    /\ Alike(q, r) /\ q.cache = r.cache /\ q.tracer = r.tracer /\ q.duration = r.duration
    /\ q.timestamp = r.timestamp /\ q.propagated = r.propagated /\ q.data = r.data
    /\ q.into = (IF x = s THEN c ELSE r.into)
    /\ q.fate = (IF x = s THEN "compressed" ELSE r.fate)
    /\ x # c => q.strategy = r.strategy /\ q.count = r.count /\ q.sum = r.sum
    /\ x \notin {c, s} => q = r

\* Its fields, but for those that compression sets.
LEMMA CompressedFields ==
    ASSUME NEW w, WorldInv(w), NEW c \in Span, NEW s \in Span, NEW st,
           Compressible(w, c, s, st)
    PROVE  LET v == Compressed(w, c, s, st)
               r == w.span[c]
               q == w.span[s]
           IN  /\ \A x \in Span : CompressedKept(w.span[x], v.span[x], x, c, s)
               /\ v.span[c].strategy = (IF r.count = 0 THEN st ELSE r.strategy)
               /\ v.span[c].count = (IF r.count = 0 THEN 2 ELSE r.count + 1)
               /\ v.span[c].sum = (IF r.count = 0 THEN r.duration ELSE r.sum) + q.duration
<1> DEFINE v == Compressed(w, c, s, st)
           r == w.span[c]
           q == w.span[s]
           m == Composite(r, q, st)
           q1 == [q EXCEPT !.fate = "compressed", !.into = c]
<1>1. /\ w.span \in [Span -> SpanType] /\ r \in SpanType /\ q \in SpanType
  BY WorldParts
<1>2. v.span = [w.span EXCEPT ![c] = m, ![s] = q1] /\ s # c
  <2>1. CompressedTo(w, Compressed(w, c, s, st), c, s, st)
    BY CompressedSpans
  <2> QED
    BY <2>1 DEF CompressedTo
<1>3. r.duration >= 0 /\ q.duration >= 0 /\ st \in {"exact_match", "same_kind"}
  BY DEF Compressible, MayCompress
<1>4. /\ Alike(m, r) /\ m.cache = r.cache /\ m.into = r.into /\ m.fate = r.fate
      /\ m.tracer = r.tracer /\ m.duration = r.duration /\ m.timestamp = r.timestamp
      /\ m.propagated = r.propagated /\ m.data = r.data
      /\ m.strategy = (IF r.count = 0 THEN st ELSE r.strategy)
      /\ m.count = (IF r.count = 0 THEN 2 ELSE r.count + 1)
      /\ m.sum = (IF r.count = 0 THEN r.duration ELSE r.sum) + q.duration
  <2> HIDE DEF r, q
  <2> QED
    BY <1>1, <1>3, CompositeFields
<1>5. /\ Alike(q1, q) /\ q1.cache = q.cache /\ q1.tracer = q.tracer /\ q1.duration = q.duration
      /\ q1.timestamp = q.timestamp /\ q1.propagated = q.propagated /\ q1.data = q.data
      /\ q1.into = c /\ q1.fate = "compressed"
      /\ q1.strategy = q.strategy /\ q1.count = q.count /\ q1.sum = q.sum
  <2> HIDE DEF q
  <2> QED
    BY <1>1 DEF Alike, SpanType
<1> HIDE DEF v, m, q1
<1>6. v.span[c] = m /\ v.span[s] = q1 /\ \A x \in Span \ {c, s} : v.span[x] = w.span[x]
  BY <1>1, <1>2
<1>7. ASSUME NEW x \in Span PROVE CompressedKept(w.span[x], v.span[x], x, c, s)
  <2>1. CASE x = c
    BY <1>2, <1>4, <1>6, <2>1 DEF CompressedKept
  <2>2. CASE x = s
    BY <1>2, <1>5, <1>6, <2>2 DEF CompressedKept
  <2>3. CASE x \notin {c, s}
    BY <1>6, <2>3 DEF CompressedKept, Alike
  <2> QED
    BY <2>1, <2>2, <2>3
<1> QED
  BY <1>4, <1>6, <1>7 DEF v

\* Compressing a span keeps the number of spans counted, and the limit.
LEMMA CompressedCounts ==
    ASSUME NEW w, WorldInv(w), NEW c \in Span, NEW s \in Span, NEW st,
           Compressible(w, c, s, st)
    PROVE  LET v == Compressed(w, c, s, st) IN
           /\ Counts(v) /\ v.tx.spansCreated \in Nat
           /\ v.tx.spansDropped = w.tx.spansDropped /\ v.tx.cache = w.tx.cache
           /\ v.tx.data = w.tx.data /\ v.tx.sampled = w.tx.sampled
           /\ v.tx.maxSpans = w.tx.maxSpans /\ v.tx.stats = w.tx.stats
           /\ v.tx \in TxType
<1> DEFINE v == Compressed(w, c, s, st)
           r == w.span[s]
           n == IF r.tx /\ w.tx.data THEN w.tx.spansCreated - 1 ELSE w.tx.spansCreated
           A == Counted(w.span)
           A1 == Counted(v.span)
           B == NotLet(w.span)
           B1 == NotLet(v.span)
           U == UnderWay(w.span)
           U1 == UnderWay(v.span)
<1>1. /\ w.tx \in TxType /\ v.tx = [w.tx EXCEPT !.spansCreated = n]
      /\ w.tx.spansCreated \in Nat /\ w.tx.spansDropped \in Nat /\ w.tx.maxSpans \in Int
  <2>1. w.tx \in TxType
    BY WorldParts
  <2>2. v.tx = [w.tx EXCEPT !.spansCreated = n]
    <3>1. CompressedTo(w, Compressed(w, c, s, st), c, s, st)
      BY CompressedSpans
    <3> QED
      BY <3>1 DEF CompressedTo
  <2> QED
    BY <2>1, <2>2, SpanLifecycleAssumption DEF TxType
<1>2. /\ v.tx.spansCreated = n
      /\ v.tx.spansDropped = w.tx.spansDropped /\ v.tx.cache = w.tx.cache
      /\ v.tx.data = w.tx.data /\ v.tx.sampled = w.tx.sampled
      /\ v.tx.maxSpans = w.tx.maxSpans /\ v.tx.stats = w.tx.stats
  <2> HIDE DEF v, n
  <2> QED
    BY <1>1 DEF TxType
<1>3. \A x \in Span : /\ v.span[x].tx = w.span[x].tx /\ v.span[x].id = w.span[x].id
                      /\ v.span[x].fate = (IF x = s THEN "compressed" ELSE w.span[x].fate)
  <2>1. \A x \in Span : CompressedKept(w.span[x], v.span[x], x, c, s)
    BY CompressedFields
  <2> HIDE DEF v
  <2> QED
    BY <2>1 DEF CompressedKept, Alike
<1>4. r.fate = "none" /\ r.id = s /\ (r.tx => w.tx.sampled)
  BY DEF Compressible, WorldInv, Identities
<1>5. /\ IsFiniteSet(A) /\ IsFiniteSet(U)
      /\ Cardinality(A) \in Nat /\ Cardinality(U) \in Nat
  <2>1. A \subseteq Span /\ U \subseteq Span
    BY DEF Counted, LetThrough, UnderWay
  <2> QED
    BY <2>1, SpansFinite, FS_Subset, FS_CardinalityType
<1>6. U1 \subseteq U /\ B1 = B
  BY <1>3, <1>4 DEF UnderWay, LetThrough, NotLet
<1>7. Cardinality(U1) <= Cardinality(U) /\ Cardinality(U1) \in Nat
  BY <1>5, <1>6, FS_Subset, FS_CardinalityType
<1>8. A1 = (IF r.tx THEN A \ {s} ELSE A) /\ (s \in A <=> r.tx)
  BY <1>3, <1>4 DEF Counted, LetThrough
<1>9. Cardinality(A1) = (IF r.tx THEN Cardinality(A) - 1 ELSE Cardinality(A))
      /\ Cardinality(A1) \in Nat
  <2>1. IsFiniteSet(A \ {s}) /\ (r.tx => Cardinality(A \ {s}) = Cardinality(A) - 1)
    BY <1>5, <1>8, FS_RemoveElement
  <2> QED
    BY <1>5, <1>8, <2>1, FS_CardinalityType
<1>10. Counts(w)
  BY DEF WorldInv
<1> HIDE DEF v, r, A, A1, B, B1, U, U1
<1>11. n \in Nat
  <2>1. r.tx /\ w.tx.data => w.tx.spansCreated = Cardinality(A)
    BY <1>4, <1>10 DEF Counts, A
  <2> QED
    BY <1>1, <1>5, <1>9, <2>1
<1>12. w.tx.data /\ w.tx.sampled => /\ n = Cardinality(A1) /\ w.tx.spansDropped = Cardinality(B1)
                                    /\ n <= w.tx.spansCreated
  <2> SUFFICES ASSUME w.tx.data /\ w.tx.sampled
               PROVE  /\ n = Cardinality(A1) /\ w.tx.spansDropped = Cardinality(B1)
                      /\ n <= w.tx.spansCreated
    OBVIOUS
  <2>1. w.tx.spansCreated = Cardinality(A) /\ w.tx.spansDropped = Cardinality(B)
    BY <1>10 DEF Counts, A, B
  <2> QED
    BY <1>5, <1>6, <1>9, <2>1
<1>13. w.tx.maxSpans >= 0 => /\ w.tx.data /\ w.tx.sampled => w.tx.spansCreated <= w.tx.maxSpans
                             /\ Cardinality(U1) <= w.tx.maxSpans
  BY <1>1, <1>5, <1>7, <1>10 DEF Counts, U
<1> HIDE DEF n
<1>14. Counts(v)
  BY <1>1, <1>2, <1>11, <1>12, <1>13 DEF Counts, A1, B1, U1
<1>15. v.tx \in TxType
  BY <1>1, <1>11 DEF TxType
<1> QED
  BY <1>2, <1>11, <1>14, <1>15 DEF v

\* Compressing a span makes the composite what it says.
LEMMA CompressedComposites ==
    ASSUME NEW w, WorldInv(w), NEW c \in Span, NEW s \in Span, NEW st,
           Compressible(w, c, s, st)
    PROVE  Composites(Compressed(w, c, s, st))
<1> DEFINE v == Compressed(w, c, s, st)
           r == w.span[c]
           q == w.span[s]
<1>1. /\ \A x \in Span : CompressedKept(w.span[x], v.span[x], x, c, s)
      /\ v.span[c].strategy = (IF r.count = 0 THEN st ELSE r.strategy)
      /\ v.span[c].count = (IF r.count = 0 THEN 2 ELSE r.count + 1)
      /\ v.span[c].sum = (IF r.count = 0 THEN r.duration ELSE r.sum) + q.duration
      /\ s # c
  <2>1. CompressedTo(w, Compressed(w, c, s, st), c, s, st)
    BY CompressedSpans
  <2> QED
    BY CompressedFields, <2>1 DEF CompressedTo
<1> HIDE DEF v
<1>2. Composites(w) /\ Fates(w) /\ None \notin Span
  BY SpansFinite, SpanLifecycleAssumption DEF WorldInv
<1>3. q.into = None /\ r.into = None
  BY <1>2 DEF Fates, Compressible
<1>4. \A x \in Span : Durations(v.span)[x] = Durations(w.span)[x]
                      /\ w.span[x].duration \in Nat /\ w.span[x] \in SpanType
  BY <1>1, WorldParts DEF CompressedKept, Durations, Compressible, SpanType
<1>5. Durations(v.span) = Durations(w.span)
  BY <1>4 DEF Durations
<1> SUFFICES ASSUME NEW x \in Span PROVE CompositeOf(v.span, x)
  BY DEF Composites, v
<1> DEFINE M == MembersOf(w.span, x)
<1>6. CompositeOf(w.span, x)
  BY <1>2 DEF Composites
<1>7. M \subseteq Span /\ s \notin M /\ c \notin M /\ IsFiniteSet(M) /\ Cardinality(M) \in Nat
  <2>1. M \subseteq Span /\ s \notin M /\ c \notin M
    BY <1>2, <1>3 DEF MembersOf
  <2> QED
    BY <2>1, SpansFinite, FS_Subset, FS_CardinalityType
<1>8. MembersOf(v.span, x) = IF x = c THEN M \cup {s} ELSE M
  BY <1>1, <1>2, <1>3 DEF MembersOf, CompressedKept
<1>9. CASE x # c
  <2>1. \A m \in M : v.span[m] = w.span[m]
    BY <1>1, <1>7 DEF CompressedKept
  <2>2. /\ Alike(v.span[x], w.span[x]) /\ v.span[x].duration = w.span[x].duration
        /\ v.span[x].strategy = w.span[x].strategy /\ v.span[x].count = w.span[x].count
        /\ v.span[x].sum = w.span[x].sum
        /\ v.span[x].fate = (IF x = s THEN "compressed" ELSE w.span[x].fate)
    BY <1>1, <1>9 DEF CompressedKept
  <2> HIDE DEF M
  <2>3. \A m \in M : Belongs(v.span[m], v.span[x]) <=> Belongs(w.span[m], w.span[x])
    BY <2>1, <2>2 DEF Belongs, Alike
  <2>4. SumOf(v.span, M \cup {x}) = SumOf(w.span, M \cup {x})
    BY <1>5 DEF SumOf
  <2>5. w.span[s].fate = "none"
    BY DEF Compressible
  <2> QED
    BY <1>6, <1>8, <1>9, <2>2, <2>3, <2>4, <2>5 DEF CompositeOf, M
<1>10. CASE x = c
  <2> DEFINE M1 == M \cup {s}
             d == Durations(w.span)
  <2>1. /\ r.count = (IF M = {} THEN 0 ELSE Cardinality(M) + 1) /\ r.fate = "cached"
        /\ M # {} => r.sum = SumOf(w.span, M \cup {c})
        /\ \A m \in M : Belongs(w.span[m], r)
    BY <1>6, <1>10 DEF CompositeOf, Compressible
  <2>2. IsFiniteSet(M1) /\ Cardinality(M1) = Cardinality(M) + 1
    BY <1>7, FS_AddElement
  <2>3. v.span[c].count = Cardinality(M1) + 1
    <3>1. M # {} => Cardinality(M) > 0
      BY <1>7, FS_EmptySet
    <3>2. M = {} => Cardinality(M) = 0
      BY FS_EmptySet
    <3> HIDE DEF M, M1, r
    <3> QED
      BY <1>1, <1>7, <2>1, <2>2, <3>1, <3>2
  <2>4. M = {} <=> r.count = 0
    BY <1>7, <2>1
  <2>5. MayCompress(r, q, st)
    BY DEF Compressible
  <2>6. v.span[c].strategy = st
    <3>1. M # {} => r.count > 0
      BY <1>7, <2>1
    <3> QED
      BY <1>1, <2>4, <2>5, <3>1 DEF MayCompress
  <2>7. v.span[c].sum = SumOf(v.span, M1 \cup {c})
    <3> DEFINE a == IF r.count = 0 THEN r.duration ELSE r.sum
    <3>1. SumOf(v.span, M1 \cup {c}) = Cardinality(Units(d, (M \cup {c}) \cup {s}))
      <4>1. M1 \cup {c} = (M \cup {c}) \cup {s}
        OBVIOUS
      <4> QED
        BY <1>5, <4>1 DEF SumOf
    <3>2. /\ \A y \in Span : d[y] = w.span[y].duration /\ d[y] \in Nat
          /\ IsFiniteSet(M \cup {c})
      BY <1>4, <1>7, FS_AddElement DEF Durations
    <3>3. IsFiniteSet(Units(d, M \cup {c}))
      <4> HIDE DEF d, M
      <4>1. \A y \in M \cup {c} : d[y] \in Nat
        BY <1>7, <3>2
      <4> QED
        BY <3>2, <4>1, UnitsFinite
    <3>4. Cardinality(Units(d, (M \cup {c}) \cup {s})) = Cardinality(Units(d, M \cup {c})) + d[s]
      <4>1. s \notin M \cup {c} /\ d[s] \in Nat
        BY <1>1, <1>7, <3>2
      <4> HIDE DEF d, M
      <4> QED
        BY <3>3, <4>1, UnitsAdd
    <3>5. a = Cardinality(Units(d, M \cup {c}))
      <4>1. CASE M # {}
        BY <2>1, <2>4, <4>1 DEF SumOf
      <4>2. CASE M = {}
        <5>1. Units(d, {}) = {}
          BY DEF Units
        <5>2. IsFiniteSet({}) /\ Cardinality({}) = 0
          BY FS_EmptySet
        <5>3. d[c] \in Nat /\ d[c] = r.duration
          BY <3>2
        <5> HIDE DEF d
        <5>4. Cardinality(Units(d, {} \cup {c})) = Cardinality(Units(d, {})) + d[c]
          BY <5>1, <5>2, <5>3, UnitsAdd
        <5> QED
          BY <2>4, <4>2, <5>1, <5>2, <5>3, <5>4
      <4> QED
        BY <4>1, <4>2
    <3> QED
      BY <1>1, <3>1, <3>2, <3>4, <3>5
  <2>8. Alike(v.span[c], r) /\ v.span[c].duration = r.duration /\ v.span[c].fate = "cached"
    BY <1>1, <2>1 DEF CompressedKept
  <2>9. ASSUME NEW m \in M1 PROVE Belongs(v.span[m], v.span[c])
    <3>1. CASE m = s
      <4>1. Alike(v.span[s], q) /\ v.span[s].duration = q.duration
        BY <1>1 DEF CompressedKept
      <4> QED
        BY <2>5, <2>6, <2>8, <3>1, <4>1 DEF MayCompress, Belongs, Alike
    <3>2. CASE m \in M
      <4>1. v.span[m] = w.span[m]
        BY <1>1, <1>7, <3>2 DEF CompressedKept
      <4>2. Belongs(w.span[m], r) /\ r.strategy = st
        <5>1. r.count > 0
          BY <1>7, <2>1, <3>2
        <5> QED
          BY <2>1, <2>5, <3>2, <5>1 DEF MayCompress
      <4> QED
        BY <2>6, <2>8, <4>1, <4>2 DEF Belongs, Alike
    <3> QED
      BY <3>1, <3>2
  <2>10. MembersOf(v.span, c) = M1 /\ M1 # {}
    BY <1>8, <1>10
  <2>11. v.span[c].duration <= MaxOf(v.span[c].strategy)
    BY <2>5, <2>6, <2>8 DEF MayCompress
  <2> HIDE DEF M1
  <2> QED
    BY <1>10, <2>3, <2>7, <2>8, <2>9, <2>10, <2>11 DEF CompositeOf
<1> QED
  BY <1>9, <1>10

\* Compressing a span that may be compressed keeps the invariant of worlds.
LEMMA CompressedKeeps ==
    ASSUME NEW w, WorldInv(w), NEW c \in Span, NEW s \in Span, NEW st,
           Compressible(w, c, s, st)
    PROVE  WorldInv(Compressed(w, c, s, st))
<1> DEFINE v == Compressed(w, c, s, st)
<1>1. /\ \A x \in Span : CompressedKept(w.span[x], v.span[x], x, c, s)
  BY CompressedFields
<1>2. /\ Counts(v) /\ v.tx \in TxType
      /\ v.tx.cache = w.tx.cache /\ v.tx.data = w.tx.data
      /\ v.tx.sampled = w.tx.sampled /\ v.tx.stats = w.tx.stats
  BY CompressedCounts
<1>3. v.span \in [Span -> SpanType] /\ v = [tx |-> v.tx, span |-> v.span] /\ s # c
  <2>1. CompressedTo(w, Compressed(w, c, s, st), c, s, st)
    BY CompressedSpans
  <2> QED
    BY <2>1 DEF CompressedTo
<1>4. Composites(v)
  BY CompressedComposites
<1> HIDE DEF v
<1>5. v \in World
  BY <1>2, <1>3 DEF World
<1>6. /\ Identities(w) /\ Fates(w) /\ Caches(w) /\ Statistics(w)
      /\ w.tx.cache \in Span \cup {None} /\ \A h \in Span : w.span[h].cache \in Span \cup {None}
      /\ None \notin Span
  BY WorldParts, SpansFinite, SpanLifecycleAssumption DEF WorldInv, TxType, SpanType
<1>7. /\ w.span[c].fate = "cached" /\ w.span[s].fate = "none" /\ Used(w.span[s])
      /\ Unused.fate = "none"
  BY DEF Compressible, Unused
<1>8. Identities(v)
  <2> SUFFICES ASSUME NEW x \in Span
               PROVE  LET r == v.span[x] IN
                      /\ ~Used(r) => r = Unused
                      /\ r.enabled => r.id = x
                      /\ r.tx /\ r.tracer => r.id = x
                      /\ r.id \in Span => Used(v.span[r.id])
                      /\ r.tx /\ r.id = x => v.tx.sampled
                      /\ v.tx.data /\ Used(r) => r.tx
                      /\ r.parent # None => r.tx
                      /\ r.exit => r.type \in {y.type : y \in Shapes}
    BY DEF Identities
  <2>1. Used(w.span[c])
    BY <1>6, <1>7 DEF Identities
  <2> QED
    BY <1>1, <1>2, <1>6, <1>7, <2>1 DEF Identities, CompressedKept, Alike, Used
<1>9. Fates(v)
  BY <1>1, <1>6 DEF Fates, CompressedKept
<1>10. Caches(v)
  BY <1>1, <1>2, <1>6, <1>7 DEF Caches, CompressedKept
<1>11. Statistics(v)
  <2>1. DroppedOf(v.span) = DroppedOf(w.span)
    BY <1>1, <1>7 DEF DroppedOf, CompressedKept, Alike
  <2>2. c \notin DroppedOf(w.span) /\ None \notin DroppedOf(w.span) /\ w.span[s].into = None
    BY <1>6, <1>7 DEF DroppedOf, Fates
  <2>3. CallsOf(v.span) = CallsOf(w.span)
    BY <1>1, <2>1, <2>2 DEF CallsOf, CompressedKept
  <2> QED
    BY <1>2, <1>6, <2>3 DEF Statistics
<1> QED
  BY <1>2, <1>4, <1>5, <1>8, <1>9, <1>10, <1>11 DEF WorldInv, v

-----------------------------------------------------------------------------
(* The parts of a step keep its invariant *)

\* What changes of spans, apart from their caches, leaves their parents as they
\* have to be: only spans that were not propagated gain a fate to be wary of.
SameBut(w, v) ==
    \A x \in Span :
        LET q == v.span[x]
            r == w.span[x]
        IN  /\ Alike(q, r) /\ q.propagated = r.propagated /\ (q.data => r.data)
            /\ q.fate # r.fate =>
                   /\ q.fate # "discarded" /\ (q.fate \in Ends => ~q.data)
                   /\ q.fate \in {"cached", "compressed", "fast"} => ~r.propagated

\* Spans that keep their parents, and what makes them fit to be parents.
LEMMA ParentsKept ==
    ASSUME NEW w, NEW v, Parents(w), SameBut(w, v), v.tx.data = w.tx.data,
           \A x \in Span : w.span[x].parent \in Span \cup {None}
    PROVE  Parents(v)
<1> SUFFICES ASSUME NEW x \in Span
             PROVE  LET r == v.span[x] IN
                    /\ \A p \in Span \ {x} : p \in {r.parentID, r.id} =>
                           v.span[p].propagated /\ v.span[p].fate \notin {"compressed", "fast"}
                    /\ r.parentID # x
                    /\ r.parent # None =>
                           /\ v.span[r.parent].propagated
                           /\ v.span[r.parent].fate \notin {"cached", "compressed", "discarded"}
                    /\ r.fate = "discarded" => ~v.tx.data
                    /\ r.fate \in {"fast", "aggregated", "enqueued", "dropped"} => ~r.data
  BY DEF Parents
<1> DEFINE r == w.span[x]
           q == v.span[x]
<1>1. /\ q.parentID = r.parentID /\ q.id = r.id /\ q.parent = r.parent
      /\ r.parent \in Span \cup {None}
  BY DEF SameBut, Alike
<1>2. ASSUME NEW p \in Span \ {x}, p \in {q.parentID, q.id}
      PROVE  v.span[p].propagated /\ v.span[p].fate \notin {"compressed", "fast"}
  <2>1. w.span[p].propagated /\ w.span[p].fate \notin {"compressed", "fast"}
    BY <1>1, <1>2 DEF Parents
  <2> QED
    BY <2>1 DEF SameBut
<1>3. q.parentID # x
  BY <1>1 DEF Parents
<1>4. ASSUME q.parent # None
      PROVE  /\ v.span[q.parent].propagated
             /\ v.span[q.parent].fate \notin {"cached", "compressed", "discarded"}
  <2>1. /\ q.parent \in Span /\ w.span[q.parent].propagated
        /\ w.span[q.parent].fate \notin {"cached", "compressed", "discarded"}
    BY <1>1, <1>4 DEF Parents
  <2> QED
    BY <2>1 DEF SameBut
<1>5. q.fate = "discarded" => ~v.tx.data
  BY DEF SameBut, Parents
<1>6. q.fate \in {"fast", "aggregated", "enqueued", "dropped"} => ~q.data
  BY DEF SameBut, Parents, Ends
<1> QED
  BY <1>2, <1>3, <1>4, <1>5, <1>6

\* Whether a span keeps its cache does not change.
LEMMA KeepsKept ==
    ASSUME NEW w, NEW v, \A x \in Span : Alike(v.span[x], w.span[x]), NEW h \in Span,
           w.span[h].parent \in Span \cup {None}
    PROVE  Keeps(v.span, v.span[h]) <=> Keeps(w.span, w.span[h])
BY DEF Keeps, Alike

\* Ending a span, the one that the step ends or one that was cached.
LEMMA FinishedStep ==
    ASSUME NEW w, NEW s, NEW c, StepInv(w, s, c), NEW v, NEW x \in Span, NEW f \in Ends,
           Finished(w, v, x, f), Endable(w, x), x = s \/ w.span[x].fate = "cached", now \in Nat
    PROVE  /\ StepInv(v, s, IF x = c THEN None ELSE c)
           /\ v.span[x].fate = f /\ \A y \in Span \ {x} : v.span[y] = w.span[y]
           /\ v.span[x].cache = w.span[x].cache /\ v.span[x].phase = w.span[x].phase
           /\ v.tx.cache = w.tx.cache
<1>1. WorldInv(w) /\ Phases(w.span, s) /\ (~LateChildren => Parents(w) /\ Held(w, c))
  BY DEF StepInv
<1>2. WorldInv(v)
  BY <1>1, FinishedKeeps
<1>3. /\ SpansKept(w.span, v.span, x, f)
      /\ v.tx.data = w.tx.data /\ v.tx.cache = w.tx.cache
  BY <1>1, FinishedSpans
<1>4. /\ v.span[x].fate = f /\ \A y \in Span \ {x} : v.span[y] = w.span[y]
      /\ v.span[x].cache = w.span[x].cache /\ v.span[x].phase = w.span[x].phase
      /\ ~v.span[x].data /\ v.span[x].propagated = w.span[x].propagated
      /\ \A y \in Span : Alike(v.span[y], w.span[y]) /\ v.span[y].cache = w.span[y].cache
      /\ v.span[x].timestamp = 0 /\ v.span[x].duration = 0
  BY <1>3 DEF SpansKept, SpanKept, Alike
<1>5. \A y \in Span : w.span[y].parent \in Span \cup {None}
  BY <1>1, WorldParts DEF SpanType
<1>6. Phases(v.span, s)
  <2>1. x = s \/ v.span[x].phase = "ended"
    BY <1>1, <1>4 DEF Phases
  <2> QED
    BY <1>1, <1>4, <2>1 DEF Phases, Ends
<1>7. f = "fast" => ~w.span[x].propagated
  BY DEF Finished, MayEnd, Eligible
<1>8. ASSUME ~LateChildren PROVE Parents(v)
  <2>1. SameBut(w, v)
    BY <1>4, <1>7 DEF SameBut, Alike, Ends
  <2> QED
    BY <1>1, <1>3, <1>5, <1>8, <2>1, ParentsKept
<1>9. ASSUME ~LateChildren PROVE Held(v, IF x = c THEN None ELSE c)
  <2> SUFFICES ASSUME NEW y \in Span, y # (IF x = c THEN None ELSE c), v.span[y].fate = "cached"
               PROVE  \/ v.tx.data /\ v.tx.cache = y
                      \/ \E h \in Span : /\ v.span[h].cache = y
                                         /\ v.span[h].phase # "ended" \/ Keeps(v.span, v.span[h])
    BY DEF Held
  <2>1. y # x /\ w.span[y].fate = "cached" /\ y # c
    BY <1>4 DEF Ends
  <2>2. \/ w.tx.data /\ w.tx.cache = y
        \/ \E h \in Span : /\ w.span[h].cache = y
                           /\ w.span[h].phase # "ended" \/ Keeps(w.span, w.span[h])
    BY <1>1, <1>9, <2>1 DEF Held
  <2>3. \A h \in Span : Keeps(v.span, v.span[h]) <=> Keeps(w.span, w.span[h])
    BY <1>4, <1>5, KeepsKept
  <2> QED
    BY <1>3, <1>4, <2>2, <2>3 DEF Alike
<1> QED
  BY <1>2, <1>3, <1>4, <1>6, <1>8, <1>9 DEF StepInv

\* Emptying a cache for its span to be ended.
LEMMA UncachedStep ==
    ASSUME NEW w, NEW s, StepInv(w, s, None), NEW h \in Holder, Cache(w, h) # None
    PROVE  LET v == SetCache(w, h, None)
               c == Cache(w, h)
           IN  /\ StepInv(v, s, c) /\ Endable(v, c)
               /\ c \in Span /\ w.span[c].fate = "cached" /\ v.span[c].fate = "cached"
               /\ h # Tx => v.span[h].cache = None
               /\ h = Tx => v.tx.cache = None
               /\ \A x \in Span : RecachedKept(w.span[x], v.span[x],
                                               CachesBut(w, h, None)[x], w.span[x].fate)
<1> DEFINE v == SetCache(w, h, None)
           c == Cache(w, h)
<1>1. WorldInv(w) /\ Phases(w.span, s) /\ (~LateChildren => Parents(w) /\ Held(w, None))
  BY DEF StepInv
<1>2. WorldInv(v) /\ Endable(v, c)
  BY <1>1, UncachedKeeps
<1>3. c \in Span /\ w.span[c].fate = "cached"
  BY <1>1, CacheHolds
<1>4. /\ v.tx.cache = (IF h = Tx THEN None ELSE w.tx.cache) /\ v.tx.data = w.tx.data
      /\ \A x \in Span : RecachedKept(w.span[x], v.span[x], CachesBut(w, h, None)[x],
                                      w.span[x].fate)
  <2>1. Recached(w, v, TxCacheBut(w, h, None), CachesBut(w, h, None), FatesOf(w))
    BY <1>1, SetCacheIs
  <2> HIDE DEF v
  <2>2. /\ v.tx.cache = TxCacheBut(w, h, None) /\ v.tx.data = w.tx.data
        /\ \A x \in Span : RecachedKept(w.span[x], v.span[x], CachesBut(w, h, None)[x],
                                        FatesOf(w)[x])
    BY <1>1, <2>1, RecachedFields
  <2>3. \A x \in Span : FatesOf(w)[x] = w.span[x].fate
    BY DEF FatesOf
  <2> QED
    BY <2>2, <2>3 DEF TxCacheBut
<1>5. \A x \in Span : w.span[x].parent \in Span \cup {None}
  BY <1>1, WorldParts DEF SpanType
<1> HIDE DEF v, c
<1>6. \A x \in Span : /\ Alike(v.span[x], w.span[x]) /\ v.span[x].propagated = w.span[x].propagated
                      /\ v.span[x].data = w.span[x].data /\ v.span[x].fate = w.span[x].fate
                      /\ v.span[x].timestamp = w.span[x].timestamp
                      /\ v.span[x].duration = w.span[x].duration
                      /\ v.span[x].cache = (IF x = h THEN None ELSE w.span[x].cache)
  BY <1>4 DEF RecachedKept, CachesBut
<1>7. Phases(v.span, s)
  BY <1>1, <1>6 DEF Phases, Alike
<1>8. ASSUME ~LateChildren PROVE Parents(v)
  <2>1. SameBut(w, v)
    BY <1>6 DEF SameBut
  <2> QED
    BY <1>1, <1>4, <1>5, <1>8, <2>1, ParentsKept
<1>9. ASSUME ~LateChildren PROVE Held(v, c)
  <2> SUFFICES ASSUME NEW y \in Span, y # c, v.span[y].fate = "cached"
               PROVE  \/ v.tx.data /\ v.tx.cache = y
                      \/ \E g \in Span : /\ v.span[g].cache = y
                                         /\ v.span[g].phase # "ended" \/ Keeps(v.span, v.span[g])
    BY DEF Held
  <2>1. y # None
    BY SpansFinite, SpanLifecycleAssumption
  <2>2. \/ w.tx.data /\ w.tx.cache = y
        \/ \E g \in Span : /\ w.span[g].cache = y
                           /\ w.span[g].phase # "ended" \/ Keeps(w.span, w.span[g])
    BY <1>1, <1>6, <1>9, <2>1 DEF Held
  <2>3. \A g \in Span : Keeps(v.span, v.span[g]) <=> Keeps(w.span, w.span[g])
    BY <1>5, <1>6, KeepsKept
  <2>4. /\ h = Tx => w.tx.cache # y
        /\ \A g \in Span : g = h => w.span[g].cache # y
    BY SpansFinite, SpanLifecycleAssumption DEF c, Cache
  <2> QED
    BY <1>4, <1>6, <2>2, <2>3, <2>4 DEF Alike
<1>10. h # Tx => h \in Span
  BY DEF Holder
<1> QED
  BY <1>1, <1>2, <1>3, <1>4, <1>6, <1>7, <1>8, <1>9, <1>10 DEF StepInv, v, c

\* Caching the span that the step ends; what was cached there is to be ended.
LEMMA CachedStep ==
    ASSUME NEW w, NEW s \in Span, StepInv(w, s, None), NEW h \in Holder,
           w.span[s].fate = "none", Used(w.span[s]), ~w.span[s].propagated,
           h = Tx => w.tx.data,
           h \in Span => /\ Used(w.span[h]) /\ h # s
                         /\ ~LateChildren => w.span[h].phase # "ended"
    PROVE  LET v == Cached(w, h, s)
               c == Cache(w, h)
           IN  /\ StepInv(v, s, c)
               /\ c # None => Endable(v, c) /\ c \in Span /\ v.span[c].fate = "cached" /\ c # s
               /\ v.span[s].fate = "cached" /\ v.span[s].cache = w.span[s].cache
               /\ v.span[s].phase = w.span[s].phase
               /\ v.span \in [Span -> SpanType]
<1> DEFINE v == Cached(w, h, s)
           c == Cache(w, h)
<1>1. WorldInv(w) /\ Phases(w.span, s) /\ (~LateChildren => Parents(w) /\ Held(w, None))
  BY DEF StepInv
<1>2. c \in Span \cup {None} /\ (c # None => c \in Span /\ w.span[c].fate = "cached" /\ c # s)
  BY <1>1, CacheHolds
<1>3. /\ WorldInv(v) /\ (c # None => Endable(v, c))
      /\ Recached(w, v, TxCacheBut(w, h, s), CachesBut(w, h, s),
                  [FatesOf(w) EXCEPT ![s] = "cached"])
  BY <1>1, CachedKeeps
<1>4. \A x \in Span : w.span[x].parent \in Span \cup {None}
  BY <1>1, WorldParts DEF SpanType
<1> HIDE DEF v, c
<1>5. v.span \in [Span -> SpanType]
  BY <1>3, WorldParts
<1>6. /\ v.tx.cache = (IF h = Tx THEN s ELSE w.tx.cache) /\ v.tx.data = w.tx.data
      /\ \A x \in Span : /\ Alike(v.span[x], w.span[x])
                         /\ v.span[x].propagated = w.span[x].propagated
                         /\ v.span[x].data = w.span[x].data
                         /\ v.span[x].fate = (IF x = s THEN "cached" ELSE w.span[x].fate)
                         /\ v.span[x].timestamp = w.span[x].timestamp
                         /\ v.span[x].duration = w.span[x].duration
                         /\ v.span[x].cache = (IF x = h THEN s ELSE w.span[x].cache)
  <2> DEFINE fate == [FatesOf(w) EXCEPT ![s] = "cached"]
  <2>1. \A x \in Span : fate[x] = (IF x = s THEN "cached" ELSE w.span[x].fate)
    BY DEF FatesOf
  <2> HIDE DEF fate
  <2>2. /\ v.tx.cache = TxCacheBut(w, h, s) /\ v.tx.data = w.tx.data
        /\ \A x \in Span : RecachedKept(w.span[x], v.span[x], CachesBut(w, h, s)[x], fate[x])
    BY <1>1, <1>3, RecachedFields DEF fate
  <2> QED
    BY <2>1, <2>2 DEF TxCacheBut, CachesBut, RecachedKept
<1>7. Phases(v.span, s)
  BY <1>1, <1>6 DEF Phases, Alike
<1>8. ASSUME ~LateChildren PROVE Parents(v)
  <2>1. SameBut(w, v)
    BY <1>6 DEF SameBut, Ends
  <2> QED
    BY <1>1, <1>4, <1>6, <1>8, <2>1, ParentsKept
<1>9. ASSUME ~LateChildren PROVE Held(v, c)
  <2> SUFFICES ASSUME NEW y \in Span, y # c, v.span[y].fate = "cached"
               PROVE  \/ v.tx.data /\ v.tx.cache = y
                      \/ \E g \in Span : /\ v.span[g].cache = y
                                         /\ v.span[g].phase # "ended" \/ Keeps(v.span, v.span[g])
    BY DEF Held
  <2>1. CASE y = s
    <3>1. CASE h = Tx
      BY <1>6, <2>1, <3>1
    <3>2. CASE h \in Span
      BY <1>6, <1>9, <2>1, <3>2 DEF Alike
    <3> QED
      BY <3>1, <3>2 DEF Holder
  <2>2. CASE y # s
    <3>1. y # None
      BY SpansFinite, SpanLifecycleAssumption
    <3>2. \/ w.tx.data /\ w.tx.cache = y
          \/ \E g \in Span : /\ w.span[g].cache = y
                             /\ w.span[g].phase # "ended" \/ Keeps(w.span, w.span[g])
      BY <1>1, <1>6, <1>9, <2>2, <3>1 DEF Held
    <3>3. \A g \in Span : Keeps(v.span, v.span[g]) <=> Keeps(w.span, w.span[g])
      BY <1>4, <1>6, KeepsKept
    <3>4. /\ h = Tx => w.tx.cache # y
          /\ \A g \in Span : g = h => w.span[g].cache # y
      BY SpansFinite, SpanLifecycleAssumption DEF c, Cache
    <3> QED
      BY <1>6, <3>2, <3>3, <3>4 DEF Alike
  <2> QED
    BY <2>1, <2>2
<1>10. h # s
  BY SpansFinite, SpanLifecycleAssumption DEF Holder
<1> QED
  BY <1>2, <1>3, <1>5, <1>6, <1>7, <1>8, <1>9, <1>10 DEF StepInv, Alike, v, c

\* Compressing the span that the step ends.
LEMMA CompressedStep ==
    ASSUME NEW w, NEW s \in Span, StepInv(w, s, None), NEW c \in Span, NEW st,
           Compressible(w, c, s, st), ~w.span[s].propagated
    PROVE  LET v == Compressed(w, c, s, st) IN
           /\ StepInv(v, s, None)
           /\ v.span[s].fate = "compressed" /\ v.span[s].cache = w.span[s].cache
           /\ v.span[s].phase = w.span[s].phase
           /\ v.span \in [Span -> SpanType]
<1> DEFINE v == Compressed(w, c, s, st)
<1>1. WorldInv(w) /\ Phases(w.span, s) /\ (~LateChildren => Parents(w) /\ Held(w, None))
  BY DEF StepInv
<1>2. WorldInv(v)
  BY <1>1, CompressedKeeps
<1>3. /\ \A x \in Span : CompressedKept(w.span[x], v.span[x], x, c, s)
  BY <1>1, CompressedFields
<1>4. v.tx.cache = w.tx.cache /\ v.tx.data = w.tx.data
  BY <1>1, CompressedCounts
<1>5. v.span \in [Span -> SpanType]
  BY <1>2, WorldParts
<1>6. \A x \in Span : w.span[x].parent \in Span \cup {None}
  BY <1>1, WorldParts DEF SpanType
<1> HIDE DEF v
<1>7. \A x \in Span : /\ Alike(v.span[x], w.span[x])
                      /\ v.span[x].propagated = w.span[x].propagated
                      /\ v.span[x].data = w.span[x].data
                      /\ v.span[x].fate = (IF x = s THEN "compressed" ELSE w.span[x].fate)
                      /\ v.span[x].timestamp = w.span[x].timestamp
                      /\ v.span[x].duration = w.span[x].duration
                      /\ v.span[x].cache = w.span[x].cache
  BY <1>3 DEF CompressedKept
<1>8. Phases(v.span, s)
  BY <1>1, <1>7 DEF Phases, Alike
<1>9. ASSUME ~LateChildren PROVE Parents(v)
  <2>1. SameBut(w, v)
    BY <1>7 DEF SameBut, Ends
  <2> QED
    BY <1>1, <1>4, <1>6, <1>9, <2>1, ParentsKept
<1>10. ASSUME ~LateChildren PROVE Held(v, None)
  <2> SUFFICES ASSUME NEW y \in Span, y # None, v.span[y].fate = "cached"
               PROVE  \/ v.tx.data /\ v.tx.cache = y
                      \/ \E g \in Span : /\ v.span[g].cache = y
                                         /\ v.span[g].phase # "ended" \/ Keeps(v.span, v.span[g])
    BY DEF Held
  <2>1. \/ w.tx.data /\ w.tx.cache = y
        \/ \E g \in Span : /\ w.span[g].cache = y
                           /\ w.span[g].phase # "ended" \/ Keeps(w.span, w.span[g])
    BY <1>1, <1>7, <1>10 DEF Held
  <2>2. \A g \in Span : Keeps(v.span, v.span[g]) <=> Keeps(w.span, w.span[g])
    BY <1>6, <1>7, KeepsKept
  <2> QED
    BY <1>4, <1>7, <2>1, <2>2 DEF Alike
<1> QED
  BY <1>2, <1>5, <1>7, <1>8, <1>9, <1>10 DEF StepInv, Alike, v

-----------------------------------------------------------------------------
(* Steps that end spans *)

\* The world x is w, or w with another duration of its span c.
Retimed(w, x, c) == x = w \/ \E d \in Int : x = [w EXCEPT !.span[c].duration = d]

\* A world with another duration is a world.
LEMMA RetimedWorld ==
    ASSUME NEW w \in World, NEW c \in Span, NEW x, Retimed(w, x, c)
    PROVE  x \in World
<1> SUFFICES ASSUME NEW d \in Int, x = [w EXCEPT !.span[c].duration = d] PROVE x \in World
  BY DEF Retimed
<1> DEFINE r == [w.span[c] EXCEPT !.duration = d]
<1>1. w.span \in [Span -> SpanType] /\ w.tx \in TxType /\ w.span[c] \in SpanType
  BY DEF World
<1>2. r \in SpanType
  BY <1>1 DEF SpanType
<1>3. x = [w EXCEPT !.span = [w.span EXCEPT ![c] = r]]
  BY <1>1 DEF World
<1> HIDE DEF r
<1>4. [w.span EXCEPT ![c] = r] \in [Span -> SpanType]
  BY <1>1, <1>2
<1> QED
  BY <1>1, <1>3, <1>4 DEF World

\* Evict empties the cache and may set the duration of the span in it.
LEMMA EvictIs ==
    ASSUME NEW w, WorldInv(w), NEW h \in Holder
    PROVE  IF Cache(w, h) = None THEN Evict(w, h) = SetCache(w, h, None)
           ELSE Retimed(SetCache(w, h, None), Evict(w, h), Cache(w, h))
<1>1. CASE Cache(w, h) = None
  BY <1>1 DEF Evict
<1>2. CASE Cache(w, h) # None
  <2> DEFINE c == Cache(w, h)
             d == w.span[c].last - w.span[c].timestamp
  <2>1. c \in Span
    BY <1>2, CacheHolds
  <2>2. d \in Int
    BY <2>1, WorldParts DEF SpanType
  <2> HIDE DEF c
  <2> QED
    BY <1>2, <2>2 DEF Evict, Retimed, c
<1> QED
  BY <1>1, <1>2

\* Emptying an empty cache changes nothing.
LEMMA EmptyIs ==
    ASSUME NEW w, WorldInv(w), NEW h \in Holder, Cache(w, h) = None
    PROVE  SetCache(w, h, None) = w
<1>1. /\ w.span \in [Span -> SpanType] /\ w.tx \in TxType
      /\ w = [tx |-> w.tx, span |-> w.span]
  BY WorldParts
<1>2. CASE h = Tx
  <2>1. w.tx.cache = None
    BY <1>2 DEF Cache
  <2>2. [w.tx EXCEPT !.cache = None] = w.tx
    BY <1>1, <2>1 DEF TxType
  <2>3. SetCache(w, h, None) = [w EXCEPT !.tx = [w.tx EXCEPT !.cache = None]]
    BY <1>1, <1>2 DEF SetCache
  <2> QED
    BY <1>1, <2>2, <2>3
<1>3. CASE h # Tx
  <2>1. h \in Span /\ w.span[h].cache = None /\ w.span[h] \in SpanType
    BY <1>1, <1>3 DEF Cache, Holder
  <2>2. [w.span[h] EXCEPT !.cache = None] = w.span[h]
    BY <2>1 DEF SpanType
  <2>3. SetCache(w, h, None) = [w EXCEPT !.span = [w.span EXCEPT ![h] = [w.span[h] EXCEPT !.cache = None]]]
    BY <1>1, <1>3 DEF SetCache
  <2>4. [w.span EXCEPT ![h] = w.span[h]] = w.span
    BY <1>1
  <2> QED
    BY <1>1, <2>2, <2>3, <2>4
<1> QED
  BY <1>2, <1>3

\* The span that was in a cache is replaced by s.
LEMMA CachedIs ==
    ASSUME NEW w, WorldInv(w), NEW h \in Holder, NEW s \in Span, w.span[s].fate = "none"
    PROVE  LET v == [SetCache(Evict(w, h), h, s) EXCEPT !.span[s].fate = "cached"] IN
           IF Cache(w, h) = None THEN v = Cached(w, h, s)
           ELSE Retimed(Cached(w, h, s), v, Cache(w, h))
<1> DEFINE v == [SetCache(Evict(w, h), h, s) EXCEPT !.span[s].fate = "cached"]
           c == Cache(w, h)
           d == w.span[c].last - w.span[c].timestamp
<1>1. /\ w.span \in [Span -> SpanType] /\ w.tx \in TxType
      /\ w = [tx |-> w.tx, span |-> w.span]
      /\ \A x \in Span : w.span[x] \in SpanType
  BY WorldParts
<1>2. CASE c = None
  <2>1. Evict(w, h) = w
    BY <1>2, EvictIs, EmptyIs
  <2> QED
    BY <1>2, <2>1 DEF Cached
<1>3. CASE c # None
  <2>1. c \in Span /\ c # s
    BY <1>3, CacheHolds
  <2>2. d \in Int
    BY <1>1, <2>1 DEF SpanType
  <2>3. CASE ~(w.span[c].count > 0)
    <3>1. Evict(w, h) = SetCache(w, h, None)
      BY <2>3 DEF Evict
    <3>2. SetCache(SetCache(w, h, None), h, s) = SetCache(w, h, s)
      BY <1>1 DEF SetCache, Holder
    <3> QED
      BY <1>3, <3>1, <3>2 DEF Cached, Retimed
  <2>4. CASE w.span[c].count > 0
    <3>1. Evict(w, h) = [SetCache(w, h, None) EXCEPT !.span[c].duration = d]
      BY <1>3, <2>4 DEF Evict
    <3> HIDE DEF c, d
    <3>2. SetCache([SetCache(w, h, None) EXCEPT !.span[c].duration = d], h, s)
          = [SetCache(w, h, s) EXCEPT !.span[c].duration = d]
      <4>1. CASE h = Tx
        BY <1>1, <4>1 DEF SetCache
      <4>2. CASE h # Tx
        <5> DEFINE r == w.span[h]
                   f0 == [w.span EXCEPT ![h] = [r EXCEPT !.cache = None]]
                   f1 == [f0 EXCEPT ![c] = [f0[c] EXCEPT !.duration = d]]
                   f2 == [f1 EXCEPT ![h] = [f1[h] EXCEPT !.cache = s]]
                   g1 == [w.span EXCEPT ![h] = [r EXCEPT !.cache = s]]
                   g2 == [g1 EXCEPT ![c] = [g1[c] EXCEPT !.duration = d]]
        <5>1. h \in Span
          BY <4>2 DEF Holder
        <5>2. [[[r EXCEPT !.cache = None] EXCEPT !.duration = d] EXCEPT !.cache = s]
              = [[r EXCEPT !.cache = s] EXCEPT !.duration = d]
          OBVIOUS
        <5>3. f2 = g2
          <6>1. CASE h = c
            <7>1. f2 = [w.span EXCEPT ![h] = [[[r EXCEPT !.cache = None] EXCEPT !.duration = d]
                                               EXCEPT !.cache = s]]
              BY <1>1, <5>1, <6>1
            <7>2. g2 = [w.span EXCEPT ![h] = [[r EXCEPT !.cache = s] EXCEPT !.duration = d]]
              BY <1>1, <5>1, <6>1
            <7> QED
              BY <5>2, <7>1, <7>2
          <6>2. CASE h # c
            <7>1. [[r EXCEPT !.cache = None] EXCEPT !.cache = s] = [r EXCEPT !.cache = s]
              OBVIOUS
            <7>2. f2 = [w.span EXCEPT ![h] = [[r EXCEPT !.cache = None] EXCEPT !.cache = s],
                                      ![c] = [w.span[c] EXCEPT !.duration = d]]
              BY <1>1, <2>1, <5>1, <6>2
            <7>3. g2 = [w.span EXCEPT ![h] = [r EXCEPT !.cache = s],
                                      ![c] = [w.span[c] EXCEPT !.duration = d]]
              BY <1>1, <2>1, <5>1, <6>2
            <7> QED
              BY <7>1, <7>2, <7>3
          <6> QED
            BY <6>1, <6>2
        <5>4. SetCache([SetCache(w, h, None) EXCEPT !.span[c].duration = d], h, s)
              = [w EXCEPT !.span = f2]
          BY <1>1, <4>2 DEF SetCache
        <5>5. [SetCache(w, h, s) EXCEPT !.span[c].duration = d] = [w EXCEPT !.span = g2]
          BY <1>1, <4>2 DEF SetCache
        <5> HIDE DEF f2, g2
        <5> QED
          BY <5>3, <5>4, <5>5
      <4> QED
        BY <4>1, <4>2
    <3>3. SetCache(w, h, s).span \in [Span -> SpanType]
      <4>1. Recached(w, SetCache(w, h, s), TxCacheBut(w, h, s), CachesBut(w, h, s), FatesOf(w))
        BY SetCacheIs
      <4> QED
        BY <4>1 DEF Recached
    <3> DEFINE u == SetCache(w, h, s)
    <3> HIDE DEF u
    <3>4. [[u EXCEPT !.span[c].duration = d] EXCEPT !.span[s].fate = "cached"]
          = [[u EXCEPT !.span[s].fate = "cached"] EXCEPT !.span[c].duration = d]
      <4> DEFINE a == [u.span EXCEPT ![c].duration = d]
                 b == [u.span EXCEPT ![s].fate = "cached"]
      <4>1. c # s /\ c \in Span /\ s \in Span /\ u.span \in [Span -> SpanType]
        BY <2>1, <3>3 DEF u
      <4>2. [a EXCEPT ![s].fate = "cached"] = [b EXCEPT ![c].duration = d]
        BY <4>1
      <4>3. [[u EXCEPT !.span[c].duration = d] EXCEPT !.span[s].fate = "cached"]
            = [u EXCEPT !.span = [a EXCEPT ![s].fate = "cached"]]
        OBVIOUS
      <4>4. [[u EXCEPT !.span[s].fate = "cached"] EXCEPT !.span[c].duration = d]
            = [u EXCEPT !.span = [b EXCEPT ![c].duration = d]]
        OBVIOUS
      <4> QED
        BY <4>2, <4>3, <4>4
    <3>5. v = [Cached(w, h, s) EXCEPT !.span[c].duration = d]
      BY <3>1, <3>2, <3>4 DEF Cached, u, c, d
    <3> QED
      BY <1>3, <2>2, <3>5 DEF Retimed, c
  <2> QED
    BY <2>3, <2>4
<1> QED
  BY <1>2, <1>3

\* Ending what was taken from a cache.
LEMMA FlushedStep ==
    ASSUME NEW w, NEW s, NEW c \in Span, StepInv(w, s, c), Endable(w, c),
           w.span[c].fate = "cached", NEW x, Retimed(w, x, c), now \in Nat
    PROVE  LET v == Finish(x, c, TRUE) IN
           /\ StepInv(v, s, None) /\ \A y \in Span \ {c} : v.span[y] = w.span[y]
           /\ v.tx.cache = w.tx.cache
<1>1. w \in World
  BY DEF StepInv, WorldInv
<1>2. x \in World
  BY <1>1, RetimedWorld
<1>3. PICK f \in Ends : Finished(w, Finish(x, c, TRUE), c, f)
  <2>1. CASE x = w
    <3>1. 0 \in Int
      OBVIOUS
    <3> QED
      BY <1>1, <1>2, <2>1, <3>1, FinishIs
  <2>2. CASE x # w
    <3>1. PICK d \in Int : x = [w EXCEPT !.span[c].duration = d]
      BY <2>2 DEF Retimed
    <3> QED
      BY <1>1, <1>2, <3>1, FinishIs
  <2> QED
    BY <2>1, <2>2
<1> DEFINE v == Finish(x, c, TRUE)
<1> HIDE DEF v
<1>4. /\ StepInv(v, s, IF c = c THEN None ELSE c)
      /\ \A y \in Span \ {c} : v.span[y] = w.span[y]
      /\ v.tx.cache = w.tx.cache
  <2>1. Finished(w, v, c, f)
    BY <1>3 DEF v
  <2>2. c = s \/ w.span[c].fate = "cached"
    OBVIOUS
  <2> QED
    BY <2>1, <2>2, FinishedStep
<1> QED
  BY <1>4 DEF v

\* The span that the step ends has become v's, and is ready to be "ended".
Closable(v, s) ==
    /\ StepInv(v, s, None)
    /\ v.span[s].phase = "ending" /\ v.span[s].fate # "none"
    /\ v.span[s].cache = None \/ Keeps(v.span, v.span[s])

\* Ending the span that the step ends.
LEMMA OwnEnd ==
    ASSUME NEW w, NEW s \in Span, StepInv(w, s, None), w.span[s].fate = "none",
           w.span[s].phase = "ending", NEW dest \in BOOLEAN, dest \/ ~w.span[s].tracer,
           w.span[s].cache = None \/ Keeps(w.span, w.span[s]), now \in Nat
    PROVE  Closable(Finish(w, s, dest), s)
<1>1. WorldInv(w) /\ w \in World
  BY DEF StepInv, WorldInv
<1>2. PICK f \in Ends : Finished(w, Finish(w, s, dest), s, f)
  <2>1. 0 \in Int
    OBVIOUS
  <2> QED
    BY <1>1, <2>1, FinishIs
<1>3. Endable(w, s)
  <2>1. Caches(w)
    BY <1>1 DEF WorldInv
  <2>2. s # None
    BY SpansFinite, SpanLifecycleAssumption
  <2> QED
    BY <2>1, <2>2 DEF Endable, Caches, Used
<1> DEFINE v == Finish(w, s, dest)
<1> HIDE DEF v
<1>4. SpansKept(w.span, v.span, s, f)
  BY <1>1, <1>2, <1>3, FinishedSpans DEF v
<1>5. /\ StepInv(v, s, IF s = None THEN None ELSE None) /\ v.span[s].fate = f
      /\ v.span[s].cache = w.span[s].cache /\ v.span[s].phase = w.span[s].phase
  BY <1>2, <1>3, FinishedStep DEF v
<1>6. \A x \in Span : Alike(v.span[x], w.span[x])
  BY <1>4 DEF SpansKept, SpanKept
<1>7. Keeps(v.span, v.span[s]) <=> Keeps(w.span, w.span[s])
  <2>1. w.span[s].parent \in Span \cup {None}
    BY <1>1, WorldParts DEF SpanType
  <2> QED
    BY <1>6, <2>1, KeepsKept
<1> QED
  BY <1>5, <1>7 DEF Closable, Ends, v

\* Two worlds that differ in what their spans go through: their phases, times,
\* and whether they were propagated; or that the transaction has ended.
TouchedSpan(r, q) ==
    /\ ~Used(r) => q = r
    /\ Used(r) => Used(q)
    /\ q.tx = r.tx /\ q.parent = r.parent /\ q.parentID = r.parentID /\ q.id = r.id
    /\ q.type = r.type /\ q.name = r.name /\ q.exit = r.exit /\ q.enabled = r.enabled
    /\ q.ok = r.ok /\ q.cache = r.cache /\ q.into = r.into /\ q.strategy = r.strategy
    /\ q.count = r.count /\ q.sum = r.sum /\ (q.tracer => r.tracer)
    /\ r.fate # "none" => q.duration = r.duration
Touched(w, v) ==
    /\ v \in World
    /\ \A x \in Span : /\ TouchedSpan(w.span[x], v.span[x])
                       /\ v.span[x].fate # w.span[x].fate =>
                              /\ w.span[x].fate = "cached" /\ v.span[x].fate = "discarded"
                              /\ Endable(w, x)
    /\ v.tx.sampled = w.tx.sampled /\ v.tx.maxSpans = w.tx.maxSpans
    /\ v.tx.spansCreated = w.tx.spansCreated /\ v.tx.spansDropped = w.tx.spansDropped
    /\ v.tx.stats = w.tx.stats /\ v.tx.cache = w.tx.cache /\ (v.tx.data => w.tx.data)
    /\ v.tx.cache # None => v.tx.data = w.tx.data

\* Touching spans keeps what holds of every world.
LEMMA TouchedKeeps ==
    ASSUME NEW w, WorldInv(w), NEW v, Touched(w, v)
    PROVE  WorldInv(v)
<1>1. /\ v.tx.sampled = w.tx.sampled /\ v.tx.maxSpans = w.tx.maxSpans
      /\ v.tx.spansCreated = w.tx.spansCreated /\ v.tx.spansDropped = w.tx.spansDropped
      /\ v.tx.stats = w.tx.stats /\ v.tx.cache = w.tx.cache /\ (v.tx.data => w.tx.data)
      /\ v.tx.cache # None => v.tx.data = w.tx.data
      /\ v \in World
  BY DEF Touched
<1>2. ASSUME NEW x \in Span
      PROVE  /\ TouchedSpan(w.span[x], v.span[x])
             /\ v.span[x].fate # w.span[x].fate =>
                    /\ w.span[x].fate = "cached" /\ v.span[x].fate = "discarded"
                    /\ Endable(w, x)
  BY DEF Touched
<1>3. /\ Identities(w) /\ Fates(w) /\ Caches(w) /\ Counts(w) /\ Composites(w) /\ Statistics(w)
      /\ \A x \in Span : w.span[x].cache \in Span \cup {None}
      /\ w.tx.cache \in Span \cup {None} /\ v.tx.maxSpans \in Int
  BY WorldParts, SpanLifecycleAssumption, <1>1 DEF WorldInv, TxType, SpanType
<1>4. Identities(v)
  <2> SUFFICES ASSUME NEW x \in Span
               PROVE  LET r == v.span[x] IN
                      /\ ~Used(r) => r = Unused
                      /\ r.enabled => r.id = x
                      /\ r.tx /\ r.tracer => r.id = x
                      /\ r.id \in Span => Used(v.span[r.id])
                      /\ r.tx /\ r.id = x => v.tx.sampled
                      /\ v.tx.data /\ Used(r) => r.tx
                      /\ r.parent # None => r.tx
                      /\ r.exit => r.type \in {y.type : y \in Shapes}
    BY DEF Identities
  <2>1. TouchedSpan(w.span[x], v.span[x])
    BY <1>2
  <2>2. v.span[x].id \in Span => TouchedSpan(w.span[v.span[x].id], v.span[v.span[x].id])
    BY <1>2
  <2> QED
    BY <1>1, <1>3, <2>1, <2>2 DEF Identities, TouchedSpan
<1>5. Fates(v)
  <2> SUFFICES ASSUME NEW x \in Span
               PROVE  (v.span[x].into # None) <=> (v.span[x].fate = "compressed")
    BY DEF Fates
  <2> QED
    BY <1>2, <1>3 DEF Fates, TouchedSpan
<1>6. Caches(v)
  <2>1. \A x \in Span : /\ v.span[x].cache = w.span[x].cache
                        /\ v.span[x].fate # w.span[x].fate => Endable(w, x)
    BY <1>2 DEF TouchedSpan
  <2> QED
    BY <1>1, <1>3, <2>1 DEF Caches, Endable
<1>7. /\ Counted(v.span) = Counted(w.span) /\ NotLet(v.span) = NotLet(w.span)
      /\ UnderWay(v.span) \subseteq UnderWay(w.span)
  BY <1>2 DEF Counted, NotLet, UnderWay, LetThrough, TouchedSpan
<1>8. Counts(v)
  <2>1. IsFiniteSet(UnderWay(w.span))
    <3>1. UnderWay(w.span) \subseteq Span
      BY DEF UnderWay, LetThrough
    <3> QED
      BY <3>1, SpansFinite, FS_Subset
  <2>2. /\ Cardinality(UnderWay(v.span)) <= Cardinality(UnderWay(w.span))
        /\ Cardinality(UnderWay(v.span)) \in Nat /\ Cardinality(UnderWay(w.span)) \in Nat
    BY <1>7, <2>1, FS_Subset, FS_CardinalityType
  <2>3. v.tx.maxSpans >= 0 => Cardinality(UnderWay(v.span)) <= v.tx.maxSpans
    BY <1>1, <1>3, <2>2 DEF Counts
  <2> QED
    BY <1>1, <1>3, <1>7, <2>3 DEF Counts
<1>9. Composites(v)
  <2> SUFFICES ASSUME NEW c \in Span PROVE CompositeOf(v.span, c)
    BY DEF Composites
  <2> DEFINE M == MembersOf(w.span, c)
  <2>1. MembersOf(v.span, c) = M /\ M \subseteq Span
    BY <1>2 DEF MembersOf, TouchedSpan
  <2>2. \A m \in M : w.span[m].fate = "compressed"
    <3>1. c # None
      BY SpansFinite, SpanLifecycleAssumption
    <3> QED
      BY <1>3, <3>1 DEF Fates, MembersOf
  <2>3. CompositeOf(w.span, c)
    BY <1>3 DEF Composites
  <2>4. TouchedSpan(w.span[c], v.span[c])
        /\ (v.span[c].fate # w.span[c].fate =>
                w.span[c].fate = "cached" /\ v.span[c].fate = "discarded")
    BY <1>2
  <2>5. \A m \in M : Belongs(v.span[m], v.span[c])
    <3> SUFFICES ASSUME NEW m \in M PROVE Belongs(v.span[m], v.span[c])
      OBVIOUS
    <3>1. TouchedSpan(w.span[m], v.span[m]) /\ w.span[m].fate = "compressed"
      BY <1>2, <2>1, <2>2
    <3>2. Belongs(w.span[m], w.span[c])
      BY <2>3 DEF CompositeOf
    <3> HIDE DEF M
    <3> QED
      BY <2>4, <3>1, <3>2 DEF Belongs, TouchedSpan
  <2>6. w.span[c].fate = "cached" => SumOf(v.span, M \cup {c}) = SumOf(w.span, M \cup {c})
    <3> SUFFICES ASSUME w.span[c].fate = "cached"
                 PROVE  Units(Durations(v.span), M \cup {c}) = Units(Durations(w.span), M \cup {c})
      BY DEF SumOf
    <3>1. \A x \in M \cup {c} : w.span[x].fate # "none" /\ x \in Span
      BY <2>1, <2>2
    <3>2. \A x \in M \cup {c} : Durations(v.span)[x] = Durations(w.span)[x]
      BY <1>2, <3>1 DEF Durations, TouchedSpan
    <3> HIDE DEF M
    <3> QED
      BY <3>2, Zenon DEF Units
  <2> HIDE DEF M
  <2> QED
    BY <2>1, <2>3, <2>4, <2>5, <2>6 DEF CompositeOf, M, TouchedSpan
<1>10. Statistics(v)
  <2>1. DroppedOf(v.span) = DroppedOf(w.span)
    BY <1>2 DEF DroppedOf, TouchedSpan
  <2>2. CallsOf(v.span) = CallsOf(w.span)
    BY <1>2, <2>1 DEF CallsOf, TouchedSpan
  <2> QED
    BY <1>1, <1>3, <2>2 DEF Statistics
<1> QED
  BY <1>1, <1>4, <1>5, <1>6, <1>8, <1>9, <1>10 DEF WorldInv

\* The last part of End: the span that was ended is marked as such.
LEMMA EndedStep ==
    ASSUME now \in 0..MaxTime, NEW s \in Span, NEW v, Closable(v, s),
           span' = [v.span EXCEPT ![s].phase = "ended"], tx' = v.tx, now' = now
    PROVE  SpanInv'
<1> DEFINE u == [tx |-> tx', span |-> span']
           q == [v.span[s] EXCEPT !.phase = "ended"]
<1>1. /\ WorldInv(v) /\ Phases(v.span, s) /\ (~LateChildren => Parents(v) /\ Held(v, None))
      /\ v.span[s].phase = "ending" /\ v.span[s].fate # "none"
      /\ v.span[s].cache = None \/ Keeps(v.span, v.span[s])
  BY DEF Closable, StepInv
<1>2. /\ v.span \in [Span -> SpanType] /\ v.tx \in TxType
      /\ \A x \in Span : v.span[x] \in SpanType /\ v.span[x].parent \in Span \cup {None}
  BY <1>1, WorldParts DEF SpanType
<1>3. q \in SpanType
  BY <1>2 DEF SpanType
<1>4. /\ u.span = [v.span EXCEPT ![s] = q] /\ u.tx = v.tx /\ u \in World
  BY <1>2, <1>3 DEF World
<1>5. /\ TouchedSpan(v.span[s], q) /\ q.fate = v.span[s].fate /\ q.phase = "ended"
      /\ q.propagated = v.span[s].propagated /\ q.data = v.span[s].data
      /\ q.timestamp = v.span[s].timestamp /\ q.duration = v.span[s].duration
  <2>1. v.span[s] \in SpanType /\ v.span[s].phase = "ending"
    BY <1>1, <1>2
  <2> QED
    BY <2>1 DEF TouchedSpan, SpanType, Used
<1>6. \A x \in Span : /\ u.span[x] = (IF x = s THEN q ELSE v.span[x])
                      /\ TouchedSpan(v.span[x], u.span[x])
                      /\ u.span[x].fate = v.span[x].fate
                      /\ u.span[x].propagated = v.span[x].propagated
                      /\ u.span[x].data = v.span[x].data
                      /\ u.span[x].timestamp = v.span[x].timestamp
                      /\ u.span[x].duration = v.span[x].duration
  <2>1. \A x \in Span : TouchedSpan(v.span[x], v.span[x])
    BY DEF TouchedSpan
  <2> HIDE DEF u, q
  <2> QED
    BY <1>2, <1>4, <1>5, <2>1
<1>7. u.span[s].phase = "ended" /\ \A x \in Span \ {s} : u.span[x] = v.span[x]
  BY <1>5, <1>6
<1> HIDE DEF u, q
<1>8. WorldInv(u)
  <2>1. Touched(v, u)
    BY <1>4, <1>6 DEF Touched
  <2> QED
    BY <1>1, <2>1, TouchedKeeps
<1>9. Phases(u.span, None)
  BY <1>1, <1>6, <1>7 DEF Phases
<1>10. ASSUME ~LateChildren PROVE Parents(u)
  <2> SUFFICES ASSUME NEW x \in Span
               PROVE  LET r == u.span[x] IN
                      /\ \A p \in Span \ {x} : p \in {r.parentID, r.id} =>
                             u.span[p].propagated /\ u.span[p].fate \notin {"compressed", "fast"}
                      /\ r.parentID # x
                      /\ r.parent # None =>
                             /\ u.span[r.parent].propagated
                             /\ u.span[r.parent].fate \notin {"cached", "compressed", "discarded"}
                      /\ r.fate = "discarded" => ~u.tx.data
                      /\ r.fate \in {"fast", "aggregated", "enqueued", "dropped"} => ~r.data
    BY DEF Parents
  <2>1. Parents(v)
    BY <1>1, <1>10
  <2> QED
    BY <1>2, <1>4, <1>6, <2>1 DEF Parents, TouchedSpan
<1>11. ASSUME ~LateChildren PROVE Held(u, None)
  <2> SUFFICES ASSUME NEW y \in Span, y # None, u.span[y].fate = "cached"
               PROVE  \/ u.tx.data /\ u.tx.cache = y
                      \/ \E g \in Span : /\ u.span[g].cache = y
                                         /\ u.span[g].phase # "ended" \/ Keeps(u.span, u.span[g])
    BY DEF Held
  <2>1. \A g \in Span : Keeps(u.span, u.span[g]) <=> Keeps(v.span, v.span[g])
    BY <1>2, <1>6 DEF Keeps, TouchedSpan
  <2>2. \/ v.tx.data /\ v.tx.cache = y
        \/ \E g \in Span : /\ v.span[g].cache = y
                           /\ v.span[g].phase # "ended" \/ Keeps(v.span, v.span[g])
    BY <1>1, <1>6, <1>11 DEF Held
  <2>3. CASE v.tx.data /\ v.tx.cache = y
    BY <1>4, <2>3
  <2>4. ASSUME NEW g \in Span, v.span[g].cache = y,
               v.span[g].phase # "ended" \/ Keeps(v.span, v.span[g])
        PROVE  \E h \in Span : /\ u.span[h].cache = y
                               /\ u.span[h].phase # "ended" \/ Keeps(u.span, u.span[h])
    <3>1. u.span[g].cache = y
      BY <1>6, <2>4 DEF TouchedSpan
    <3>2. CASE g = s
      BY <1>1, <2>1, <2>4, <3>1, <3>2
    <3>3. CASE g # s
      BY <1>7, <2>1, <2>4, <3>1, <3>3
    <3> QED
      BY <3>2, <3>3
  <2> QED
    BY <2>2, <2>3, <2>4
<1>12. StepInv(u, None, None)
  BY <1>8, <1>9, <1>10, <1>11 DEF StepInv
<1>13. world' = u
  BY DEF world, u
<1>14. StepInv(world, None, None)'
  BY <1>12, <1>13 DEF StepInv, Phases
<1> QED
  BY <1>14 DEF SpanInv

\* What a span has, before it is ended, in the way of a cache's owner.
LEMMA AttemptStep ==
    ASSUME SpanInv, NEW s \in Span, span[s].phase = "ending", ParentUnlocked(s), now \in Nat
    PROVE  LET a == AttemptCompress(world, s)
               flushed == Flush(a)
           IN  Closable(IF a.cached THEN flushed ELSE Finish(flushed, s, TRUE), s)
<1> DEFINE r == span[s]
           a == AttemptCompress(world, s)
           flushed == Flush(a)
           w == IF a.cached THEN flushed ELSE Finish(flushed, s, TRUE)
<1>1. /\ StepInv(world, None, None) /\ WorldInv(world) /\ Phases(span, None)
      /\ world.span = span /\ world.tx = tx
      /\ span \in [Span -> SpanType] /\ tx \in TxType /\ r \in SpanType
      /\ \A x \in Span : span[x] \in SpanType
      /\ ~LateChildren => Parents(world)
      /\ Tx \notin Span /\ None \notin Span
  <2>1. StepInv(world, None, None) /\ world.span = span /\ world.tx = tx
    BY DEF SpanInv, world
  <2>2. WorldInv(world) /\ Phases(span, None) /\ (~LateChildren => Parents(world))
    BY <2>1 DEF StepInv
  <2> QED
    BY <2>1, <2>2, WorldParts, SpansFinite, SpanLifecycleAssumption
<1>2. r.fate = "none" /\ Used(r) /\ s # None /\ s \in Holder
  BY <1>1 DEF Phases, Used, Holder
<1>3. StepInv(world, s, None)
  BY <1>1 DEF StepInv, Phases
<1>4. ASSUME a = [w |-> world, evicted |-> None, cached |-> FALSE],
             r.cache = None \/ Keeps(span, r)
      PROVE  Closable(w, s)
  <2>1. flushed = world /\ a.cached = FALSE
    BY <1>4 DEF Flush
  <2> HIDE DEF a, flushed
  <2>2. Closable(Finish(world, s, TRUE), s)
    BY <1>1, <1>2, <1>3, <1>4, OwnEnd
  <2> QED
    BY <2>1, <2>2
<1>5. ASSUME NEW h \in Holder, a = [w |-> Evict(world, h), evicted |-> Cache(world, h), cached |-> FALSE],
             h = s \/ r.cache = None
      PROVE  Closable(w, s)
  <2> DEFINE c == Cache(world, h)
             u == SetCache(world, h, None)
  <2>1. a.w = Evict(world, h) /\ a.evicted = c /\ a.cached = FALSE
    BY <1>5
  <2> HIDE DEF a, r, c
  <2>2. CASE c = None
    <3>1. Evict(world, h) = world
      BY <1>1, <2>2, EvictIs, EmptyIs DEF c
    <3>2. flushed = world
      BY <2>1, <2>2, <3>1 DEF Flush
    <3>3. r.cache = None
      BY <1>1, <1>5, <2>2 DEF c, r, Cache
    <3> HIDE DEF flushed
    <3>4. Closable(Finish(world, s, TRUE), s)
      BY <1>1, <1>2, <1>3, <3>3, OwnEnd DEF r
    <3> QED
      BY <2>1, <3>2, <3>4
  <2>3. CASE c # None
    <3>1. /\ StepInv(u, s, c) /\ Endable(u, c) /\ c \in Span /\ span[c].fate = "cached"
          /\ u.span[c].fate = "cached"
          /\ \A x \in Span : RecachedKept(span[x], u.span[x], CachesBut(world, h, None)[x],
                                          span[x].fate)
      BY <1>1, <1>3, <2>3, UncachedStep DEF c
    <3>2. Retimed(u, Evict(world, h), c)
      BY <1>1, <2>3, EvictIs DEF c
    <3>3. flushed = Finish(Evict(world, h), c, TRUE)
      BY <2>1, <2>3 DEF Flush
    <3> HIDE DEF flushed, u
    <3>4. /\ StepInv(flushed, s, None) /\ \A y \in Span \ {c} : flushed.span[y] = u.span[y]
      BY <3>1, <3>2, <3>3, FlushedStep
    <3>5. c # s
      BY <1>2, <3>1 DEF r
    <3>6. /\ flushed.span[s].fate = "none" /\ flushed.span[s].phase = "ending"
          /\ flushed.span[s].cache = None
      <4>1. RecachedKept(span[s], u.span[s], CachesBut(world, h, None)[s], span[s].fate)
        BY <3>1
      <4>2. CachesBut(world, h, None)[s] = None
        BY <1>1, <1>5 DEF CachesBut, r
      <4> QED
        BY <1>2, <3>4, <3>5, <4>1, <4>2 DEF RecachedKept, Alike, r
    <3>7. Closable(Finish(flushed, s, TRUE), s)
      BY <3>4, <3>6, OwnEnd
    <3> QED
      BY <2>1, <3>7
  <2> QED
    BY <2>2, <2>3
<1>6. ASSUME NEW h \in Holder, r.enabled, r.cache = None, a = CompressOrEvict(world, h, s),
             h = Tx => tx.data,
             h # Tx => h = r.parent /\ span[h].data
      PROVE  Closable(w, s)
  <2> DEFINE c == Cache(world, h)
             strategy == IF c # None /\ Siblings(span[c], r) THEN Strategy(span[c], r) ELSE "none"
             cached == [SetCache(Evict(world, h), h, s) EXCEPT !.span[s].fate = "cached"]
  <2>1. CASE ~Eligible(r)
    <3>1. a = [w |-> Evict(world, h), evicted |-> Cache(world, h), cached |-> FALSE]
      BY <1>1, <1>6, <2>1 DEF CompressOrEvict
    <3> QED
      BY <1>5, <1>6, <3>1
  <2>2. CASE Eligible(r) /\ strategy = "none"
    <3>1. a = [w |-> cached, evicted |-> c, cached |-> TRUE]
      BY <1>1, <1>6, <2>2 DEF CompressOrEvict
    <3>2. ~r.propagated
      BY <2>2 DEF Eligible
    <3>3. h \in Span => /\ Used(span[h]) /\ h # s /\ (~LateChildren => span[h].phase # "ended")
      <4> SUFFICES ASSUME h \in Span
                   PROVE  Used(span[h]) /\ h # s /\ (~LateChildren => span[h].phase # "ended")
        OBVIOUS
      <4>1. h = r.parent /\ span[h].data /\ h # None
        BY <1>1, <1>6
      <4>2. span[h].phase # "ending"
        BY <4>1 DEF ParentUnlocked
      <4>3. Used(span[h])
        <5>1. ~Used(span[h]) => span[h] = Unused
          BY <1>1 DEF WorldInv, Identities
        <5>2. Unused.data = FALSE
          BY DEF Unused
        <5> QED
          BY <4>1, <5>1, <5>2
      <4>4. ASSUME ~LateChildren, span[h].phase = "ended" PROVE FALSE
        <5>1. /\ span[h].fate \notin {"cached", "compressed", "discarded"}
              /\ span[h].fate \in {"fast", "aggregated", "enqueued", "dropped"} => ~span[h].data
          BY <1>1, <4>1, <4>4 DEF Parents
        <5>2. span[h].fate # "none"
          BY <1>1, <4>4 DEF Phases
        <5>3. span[h].fate \in {"none", "cached", "compressed", "enqueued", "fast", "aggregated",
                                "dropped", "discarded"}
          BY <1>1 DEF SpanType
        <5> QED
          BY <4>1, <5>1, <5>2, <5>3
      <4> QED
        BY <4>2, <4>3, <4>4
    <3> DEFINE u == Cached(world, h, s)
    <3>4. /\ StepInv(u, s, c)
          /\ c # None => Endable(u, c) /\ c \in Span /\ u.span[c].fate = "cached" /\ c # s
          /\ u.span[s].fate = "cached" /\ u.span[s].cache = span[s].cache
          /\ u.span[s].phase = span[s].phase
      BY <1>1, <1>2, <1>3, <1>6, <3>2, <3>3, CachedStep
    <3>5. IF c = None THEN cached = u ELSE Retimed(u, cached, c)
      BY <1>1, <1>2, CachedIs
    <3>6. a.w = cached /\ a.evicted = c /\ a.cached = TRUE
      BY <3>1
    <3> HIDE DEF a, c, u, cached, r
    <3>7. w = flushed
      BY <3>6
    <3>8. CASE c = None
      <4>1. flushed = u
        BY <3>5, <3>6, <3>8 DEF Flush
      <4> QED
        BY <1>6, <3>4, <3>7, <3>8, <4>1 DEF Closable, r
    <3>9. CASE c # None
      <4>1. flushed = Finish(cached, c, TRUE)
        BY <3>6, <3>9 DEF Flush
      <4> HIDE DEF flushed
      <4>2. /\ StepInv(flushed, s, None) /\ \A y \in Span \ {c} : flushed.span[y] = u.span[y]
        <5>1. /\ StepInv(u, s, c) /\ Endable(u, c) /\ c \in Span /\ u.span[c].fate = "cached"
              /\ Retimed(u, cached, c)
          BY <3>4, <3>5, <3>9
        <5> QED
          BY <4>1, <5>1, FlushedStep
      <4> QED
        BY <1>6, <3>4, <3>7, <3>9, <4>2 DEF Closable, r
    <3> QED
      BY <3>8, <3>9
  <2>3. CASE Eligible(r) /\ strategy # "none"
    <3>1. a = [w |-> Compressed(world, c, s, strategy), evicted |-> None, cached |-> TRUE]
      BY <1>1, <1>6, <2>3 DEF CompressOrEvict, Compressed
    <3>2. c # None /\ Siblings(span[c], r) /\ strategy = Strategy(span[c], r)
      BY <2>3
    <3>3. c \in Span /\ span[c].fate = "cached"
      BY <1>1, <3>2, CacheHolds
    <3> HIDE DEF strategy, c
    <3>4. Compressible(world, c, s, strategy) /\ ~r.propagated
      <4>1. MayCompress(span[c], r, strategy)
        BY <1>1, <2>3, <3>2, <3>3, StrategyMayCompress
      <4> QED
        BY <1>1, <1>2, <1>6, <2>3, <3>3, <4>1 DEF Compressible, Phases, Eligible
    <3> DEFINE u == Compressed(world, c, s, strategy)
    <3>5. /\ StepInv(u, s, None)
          /\ u.span[s].fate = "compressed" /\ u.span[s].cache = span[s].cache
          /\ u.span[s].phase = span[s].phase
      BY <1>1, <1>3, <3>3, <3>4, CompressedStep
    <3>6. a.w = u /\ a.evicted = None /\ a.cached = TRUE
      BY <3>1
    <3> HIDE DEF a, u
    <3>7. w = u
      BY <3>6 DEF Flush
    <3> QED
      BY <1>6, <3>5, <3>7 DEF Closable
  <2> QED
    BY <2>1, <2>2, <2>3
<1>7. a = LET no == [w |-> world, evicted |-> None, cached |-> FALSE] IN
          IF ~r.enabled THEN no
          ELSE IF r.cache # None
          THEN [w |-> Evict(world, s), evicted |-> r.cache, cached |-> FALSE]
          ELSE IF r.parent # None
          THEN IF span[r.parent].data THEN CompressOrEvict(world, r.parent, s) ELSE no
          ELSE IF r.tx /\ tx.data THEN CompressOrEvict(world, Tx, s)
          ELSE no
  BY <1>1 DEF AttemptCompress
<1> HIDE DEF a, w, flushed
<1>8. CASE ~r.enabled
  BY <1>4, <1>7, <1>8 DEF Keeps, a, w, flushed
<1>9. CASE r.enabled /\ r.cache # None
  <2>1. Cache(world, s) = r.cache
    BY <1>1 DEF Cache
  <2> QED
    BY <1>2, <1>5, <1>7, <1>9, <2>1 DEF a, w, flushed
<1>10. CASE r.enabled /\ r.cache = None /\ r.parent # None /\ span[r.parent].data
  <2>1. r.parent \in Span
    BY <1>1, <1>10 DEF SpanType
  <2> QED
    BY <1>1, <1>6, <1>7, <1>10, <2>1 DEF Holder, a, w, flushed
<1>11. CASE r.enabled /\ r.cache = None /\ r.parent = None /\ r.tx /\ tx.data
  BY <1>6, <1>7, <1>11 DEF Holder, a, w, flushed
<1>12. CASE /\ r.enabled /\ r.cache = None
            /\ ~(r.parent # None /\ span[r.parent].data)
            /\ ~(r.parent = None /\ r.tx /\ tx.data)
  BY <1>4, <1>7, <1>12 DEF a, w, flushed
<1>13. Closable(w, s)
  <2>1. CASE r.enabled /\ r.cache = None /\ r.parent # None
    BY <1>10, <1>12, <2>1 DEF a, w, flushed
  <2>2. CASE r.enabled /\ r.cache = None /\ r.parent = None
    BY <1>11, <1>12, <2>2 DEF a, w, flushed
  <2> QED
    BY <1>8, <1>9, <2>1, <2>2 DEF a, w, flushed
<1> QED
  BY <1>13 DEF a, w, flushed

\* What a touched span may go through within a step.
TouchedMore(r, q) ==
    /\ r.propagated => q.propagated
    /\ q.data => r.data
    /\ q.timestamp = r.timestamp /\ q.duration >= 0
    /\ q.phase = "ended" <=> r.phase = "ended"

\* Touching spans, or discarding the span taken from the transaction's cache.
LEMMA TouchedStep ==
    ASSUME NEW w, NEW s, NEW c, StepInv(w, s, c), NEW v, Touched(w, v),
           \A x \in Span : TouchedMore(w.span[x], v.span[x]),
           \A x \in Span : v.span[x].fate # w.span[x].fate => ~v.tx.data,
           c = None \/ (c \in Span /\ v.span[c].fate # "cached")
    PROVE  StepInv(v, s, None)
<1>1. WorldInv(w) /\ Phases(w.span, s) /\ (~LateChildren => Parents(w) /\ Held(w, c))
  BY DEF StepInv
<1>2. WorldInv(v)
  BY <1>1, TouchedKeeps
<1>3. /\ \A x \in Span : /\ TouchedSpan(w.span[x], v.span[x]) /\ TouchedMore(w.span[x], v.span[x])
                         /\ v.span[x].fate # w.span[x].fate =>
                                /\ w.span[x].fate = "cached" /\ v.span[x].fate = "discarded"
                                /\ ~v.tx.data
      /\ v.tx.cache = w.tx.cache /\ (v.tx.data => w.tx.data)
      /\ v.tx.cache # None => v.tx.data = w.tx.data
      /\ None \notin Span
  BY SpansFinite, SpanLifecycleAssumption DEF Touched
<1>4. \A x \in Span : w.span[x].parent \in Span \cup {None}
  BY <1>1, WorldParts DEF SpanType
<1>5. Phases(v.span, s)
  BY <1>1, <1>3 DEF Phases, TouchedMore
<1>6. ASSUME ~LateChildren PROVE Parents(v)
  <2> SUFFICES ASSUME NEW x \in Span
               PROVE  LET r == v.span[x] IN
                      /\ \A p \in Span \ {x} : p \in {r.parentID, r.id} =>
                             v.span[p].propagated /\ v.span[p].fate \notin {"compressed", "fast"}
                      /\ r.parentID # x
                      /\ r.parent # None =>
                             /\ v.span[r.parent].propagated
                             /\ v.span[r.parent].fate \notin {"cached", "compressed", "discarded"}
                      /\ r.fate = "discarded" => ~v.tx.data
                      /\ r.fate \in {"fast", "aggregated", "enqueued", "dropped"} => ~r.data
    BY DEF Parents
  <2>1. Parents(w)
    BY <1>1, <1>6
  <2> QED
    BY <1>3, <1>4, <2>1 DEF Parents, TouchedSpan, TouchedMore
<1>7. ASSUME ~LateChildren PROVE Held(v, None)
  <2> SUFFICES ASSUME NEW y \in Span, y # None, v.span[y].fate = "cached"
               PROVE  \/ v.tx.data /\ v.tx.cache = y
                      \/ \E g \in Span : /\ v.span[g].cache = y
                                         /\ v.span[g].phase # "ended" \/ Keeps(v.span, v.span[g])
    BY DEF Held
  <2>1. y # c /\ w.span[y].fate = "cached"
    BY <1>3
  <2>2. \/ w.tx.data /\ w.tx.cache = y
        \/ \E g \in Span : /\ w.span[g].cache = y
                           /\ w.span[g].phase # "ended" \/ Keeps(w.span, w.span[g])
    BY <1>1, <1>7, <2>1 DEF Held
  <2>3. \A g \in Span : /\ Keeps(v.span, v.span[g]) <=> Keeps(w.span, w.span[g])
                        /\ v.span[g].cache = w.span[g].cache
                        /\ v.span[g].phase = "ended" <=> w.span[g].phase = "ended"
    BY <1>3, <1>4 DEF Keeps, TouchedSpan, TouchedMore
  <2> QED
    BY <1>3, <2>2, <2>3
<1> QED
  BY <1>2, <1>5, <1>6, <1>7 DEF StepInv

\* The invariant of the next state.
LEMMA NextStep ==
    ASSUME now' \in 0..MaxTime, now' = now, NEW v, StepInv(v, None, None),
           v = [tx |-> tx', span |-> span']
    PROVE  SpanInv'
<1>1. world' = v
  BY DEF world
<1>2. StepInv(world, None, None)'
  BY <1>1 DEF StepInv, Phases
<1> QED
  BY <1>2 DEF SpanInv

\* What the invariant says of the spans and the transaction.
LEMMA InvParts ==
    ASSUME SpanInv
    PROVE  /\ now \in 0..MaxTime /\ now \in Nat
           /\ StepInv(world, None, None) /\ WorldInv(world) /\ Phases(span, None)
           /\ world.span = span /\ world.tx = tx /\ world \in World
           /\ span \in [Span -> SpanType] /\ tx \in TxType
           /\ \A x \in Span : span[x] \in SpanType
           /\ Tx \notin Span /\ None \notin Span /\ Tx # None
<1>1. StepInv(world, None, None) /\ world.span = span /\ world.tx = tx /\ now \in 0..MaxTime
  BY DEF SpanInv, world
<1>2. WorldInv(world) /\ Phases(span, None)
  BY <1>1 DEF StepInv
<1>3. now \in Nat /\ world \in World
  BY <1>1, <1>2, SpanLifecycleAssumption DEF WorldInv
<1> QED
  BY <1>1, <1>2, <1>3, WorldParts, SpansFinite, SpanLifecycleAssumption

\* The rest of End, with compression, keeps the invariant.
LEMMA EndLockedStep ==
    ASSUME SpanInv, NEW s \in Span, EndLocked(s)
    PROVE  SpanInv'
<1> DEFINE a == AttemptCompress(world, s)
           flushed == Flush(a)
           w == IF a.cached THEN flushed ELSE Finish(flushed, s, TRUE)
<1>1. now \in 0..MaxTime /\ now \in Nat
  BY InvParts
<1>2. Closable(w, s)
  BY <1>1, AttemptStep DEF EndLocked
<1>3. span' = [w.span EXCEPT ![s].phase = "ended"] /\ tx' = w.tx /\ now' = now
  BY DEF EndLocked
<1> HIDE DEF w
<1> QED
  BY <1>1, <1>2, <1>3, EndedStep

\* The rest of End of a mismatched span keeps the invariant.
LEMMA EndMismatchedStep ==
    ASSUME SpanInv, NEW s \in Span, EndMismatched(s)
    PROVE  SpanInv'
<1> DEFINE u == [world EXCEPT !.span[s].tracer = FALSE]
           q == [span[s] EXCEPT !.tracer = FALSE]
<1>1. /\ now \in 0..MaxTime /\ now \in Nat
      /\ StepInv(world, None, None) /\ Phases(span, None)
      /\ world.span = span /\ world.tx = tx
      /\ span \in [Span -> SpanType] /\ tx \in TxType
      /\ \A x \in Span : span[x] \in SpanType
      /\ None \notin Span
  BY InvParts
<1>2. PICK dest \in BOOLEAN :
          LET w == Finish(u, s, dest)
          IN  span' = [w.span EXCEPT ![s].phase = "ended"] /\ tx' = w.tx
  BY DEF EndMismatched
<1>3. span[s].phase = "ending" /\ Mismatched(span[s]) /\ now' = now
  BY DEF EndMismatched
<1>4. q \in SpanType
  <2>1. span[s] \in SpanType
    BY <1>1
  <2> QED
    BY <2>1 DEF SpanType
<1>5. /\ u.span = [span EXCEPT ![s] = q] /\ u.tx = tx /\ u = [tx |-> u.tx, span |-> u.span]
  <2>1. u = [world EXCEPT !.span = [world.span EXCEPT ![s] = [world.span[s] EXCEPT !.tracer = FALSE]]]
    BY <1>1 DEF world
  <2>2. u = [world EXCEPT !.span = [span EXCEPT ![s] = q]]
    BY <1>1, <2>1
  <2> HIDE DEF q
  <2> DEFINE f == [span EXCEPT ![s] = q]
  <2> HIDE DEF f
  <2>3. u = [tx |-> tx, span |-> f]
    BY <2>2 DEF world, f
  <2> QED
    BY <2>3 DEF f
<1>6. /\ u \in World
      /\ \A x \in Span : u.span[x] = (IF x = s THEN q ELSE span[x])
  BY <1>1, <1>4, <1>5 DEF World
<1>7. /\ TouchedSpan(span[s], q) /\ TouchedMore(span[s], q) /\ q.fate = span[s].fate
      /\ q.tracer = FALSE /\ q.phase = span[s].phase
  <2>1. span[s] \in SpanType /\ span[s].phase = "ending" /\ span[s].duration >= 0
    BY <1>1, <1>3 DEF Phases
  <2> QED
    BY <2>1 DEF TouchedSpan, TouchedMore, SpanType, Used
<1>8. \A x \in Span : /\ TouchedSpan(span[x], span[x])
                      /\ TouchedMore(span[x], span[x])
  BY <1>1 DEF TouchedSpan, TouchedMore, Phases
<1> HIDE DEF u, q
<1>9. StepInv(u, s, None)
  <2>1. Touched(world, u) /\ \A x \in Span : /\ TouchedMore(world.span[x], u.span[x])
                                             /\ u.span[x].fate = world.span[x].fate
    BY <1>1, <1>5, <1>6, <1>7, <1>8 DEF Touched
  <2>2. StepInv(world, s, None)
    BY <1>1 DEF StepInv, Phases
  <2> QED
    BY <2>1, <2>2, TouchedStep
<1>10. /\ u.span[s].fate = "none" /\ u.span[s].phase = "ending" /\ ~u.span[s].tracer
       /\ Keeps(u.span, u.span[s])
  <2>1. span[s].parent \in Span \cup {None} /\ span[s].fate = "none"
    BY <1>1, <1>3 DEF SpanType, Phases
  <2> QED
    BY <1>3, <1>6, <1>7, <2>1 DEF Keeps, Mismatched, TouchedSpan
<1>11. Closable(Finish(u, s, dest), s)
  BY <1>1, <1>9, <1>10, OwnEnd
<1> QED
  BY <1>1, <1>2, <1>3, <1>11, EndedStep

\* Handing out a trace context keeps the invariant.
LEMMA TraceContextStep ==
    ASSUME SpanInv, NEW s \in Span, TraceContext(s)
    PROVE  SpanInv'
<1> DEFINE q == [span[s] EXCEPT !.propagated = TRUE]
           u == [tx |-> tx', span |-> span']
<1>1. /\ now \in 0..MaxTime
      /\ StepInv(world, None, None) /\ Phases(span, None)
      /\ world.span = span /\ world.tx = tx
      /\ span \in [Span -> SpanType] /\ tx \in TxType
      /\ \A x \in Span : span[x] \in SpanType
  BY InvParts
<1>2. /\ Used(span[s]) /\ span' = [span EXCEPT ![s] = q] /\ tx' = tx /\ now' = now
  BY DEF TraceContext, Used
<1>3. q \in SpanType
  <2>1. span[s] \in SpanType
    BY <1>1
  <2> QED
    BY <2>1 DEF SpanType
<1>4. TouchedSpan(span[s], q) /\ TouchedMore(span[s], q) /\ q.fate = span[s].fate
  <2>1. span[s] \in SpanType /\ span[s].duration >= 0
    BY <1>1 DEF Phases
  <2> QED
    BY <1>2, <2>1 DEF TouchedSpan, TouchedMore, SpanType, Used
<1>5. \A x \in Span : /\ TouchedSpan(span[x], span[x])
                      /\ TouchedMore(span[x], span[x])
  BY <1>1 DEF TouchedSpan, TouchedMore, Phases
<1> HIDE DEF q
<1>6. /\ u \in World /\ u.tx = tx
      /\ \A x \in Span : u.span[x] = (IF x = s THEN q ELSE span[x])
  BY <1>1, <1>2, <1>3 DEF World
<1> HIDE DEF u
<1>7. Touched(world, u) /\ \A x \in Span : /\ TouchedMore(world.span[x], u.span[x])
                                           /\ u.span[x].fate = world.span[x].fate
  BY <1>1, <1>4, <1>5, <1>6 DEF Touched
<1>8. StepInv(u, None, None)
  BY <1>1, <1>7, TouchedStep
<1> QED
  BY <1>1, <1>2, <1>8, NextStep DEF u

\* The first step of End keeps the invariant.
LEMMA EndStep ==
    ASSUME SpanInv, NEW s \in Span, End(s)
    PROVE  SpanInv'
<1> DEFINE d == now - span[s].timestamp
           q == [span[s] EXCEPT !.phase = "ending", !.duration = d]
           u == [tx |-> tx', span |-> span']
<1>1. /\ now \in 0..MaxTime /\ now \in Nat
      /\ StepInv(world, None, None) /\ Phases(span, None)
      /\ world.span = span /\ world.tx = tx
      /\ span \in [Span -> SpanType] /\ tx \in TxType
      /\ \A x \in Span : span[x] \in SpanType
      /\ None \notin Span
  BY InvParts
<1>2. /\ span[s].phase = "live" /\ span' = [span EXCEPT ![s] = q] /\ tx' = tx /\ now' = now
  BY DEF End
<1>3. span[s].fate = "none" /\ d \in Int /\ d >= 0 /\ span[s] \in SpanType
  BY <1>1, <1>2 DEF Phases, SpanType
<1> HIDE DEF d
<1>4. q \in SpanType
  <2> DEFINE q0 == [span[s] EXCEPT !.phase = "ending"]
  <2>1. q0 \in SpanType
    BY <1>3 DEF SpanType
  <2>2. q = [q0 EXCEPT !.duration = d]
    OBVIOUS
  <2> HIDE DEF q0
  <2>3. [q0 EXCEPT !.duration = d] \in SpanType
    BY <1>3, <2>1 DEF SpanType
  <2> QED
    BY <2>2, <2>3
<1>5. TouchedSpan(span[s], q) /\ TouchedMore(span[s], q) /\ q.fate = span[s].fate
  BY <1>2, <1>3 DEF TouchedSpan, TouchedMore, SpanType, Used
<1>6. \A x \in Span : /\ TouchedSpan(span[x], span[x])
                      /\ TouchedMore(span[x], span[x])
  BY <1>1 DEF TouchedSpan, TouchedMore, Phases
<1> HIDE DEF q
<1>7. /\ u \in World /\ u.tx = tx
      /\ \A x \in Span : u.span[x] = (IF x = s THEN q ELSE span[x])
  BY <1>1, <1>2, <1>4 DEF World
<1> HIDE DEF u
<1>8. Touched(world, u) /\ \A x \in Span : /\ TouchedMore(world.span[x], u.span[x])
                                           /\ u.span[x].fate = world.span[x].fate
  BY <1>1, <1>5, <1>6, <1>7 DEF Touched
<1>9. StepInv(u, None, None)
  BY <1>1, <1>8, TouchedStep
<1> QED
  BY <1>1, <1>2, <1>9, NextStep DEF u

\* The transaction ends with an empty cache.
LEMMA TransactionEnded ==
    ASSUME NEW w, StepInv(w, None, None), w.tx.cache = None, now \in 0..MaxTime, NEW b \in BOOLEAN,
           tx' = [w.tx EXCEPT !.data = FALSE, !.sent = b], span' = w.span, now' = now
    PROVE  SpanInv'
<1> DEFINE t == [w.tx EXCEPT !.data = FALSE]
           t1 == [t EXCEPT !.sent = b]
           u == [tx |-> t1, span |-> w.span]
<1>1. /\ WorldInv(w) /\ Phases(w.span, None) /\ w.span \in [Span -> SpanType] /\ w.tx \in TxType
      /\ \A x \in Span : w.span[x] \in SpanType
  BY WorldParts DEF StepInv
<1>2. tx' = t1
  OBVIOUS
<1>3. /\ t \in TxType /\ t.data = FALSE /\ t.cache = None /\ t.sampled = w.tx.sampled
      /\ t.maxSpans = w.tx.maxSpans /\ t.spansCreated = w.tx.spansCreated
      /\ t.spansDropped = w.tx.spansDropped /\ t.stats = w.tx.stats
  BY <1>1 DEF TxType
<1> HIDE DEF t
<1>4. /\ t1 \in TxType /\ t1.data = FALSE /\ t1.cache = None /\ t1.sampled = w.tx.sampled
      /\ t1.maxSpans = w.tx.maxSpans /\ t1.spansCreated = w.tx.spansCreated
      /\ t1.spansDropped = w.tx.spansDropped /\ t1.stats = w.tx.stats
  BY <1>3 DEF TxType
<1> HIDE DEF t1
<1>5. u \in World /\ u.span = w.span /\ u.tx = t1 /\ u = [tx |-> tx', span |-> span']
  BY <1>1, <1>2, <1>4 DEF World
<1>6. \A x \in Span : TouchedSpan(w.span[x], w.span[x]) /\ TouchedMore(w.span[x], w.span[x])
  BY <1>1 DEF TouchedSpan, TouchedMore, Phases
<1> HIDE DEF u
<1>7. Touched(w, u)
  BY <1>4, <1>5, <1>6 DEF Touched
<1>8. StepInv(u, None, None)
  BY <1>5, <1>6, <1>7, TouchedStep
<1> QED
  BY <1>5, <1>8, NextStep

\* Ending the transaction keeps the invariant.
LEMMA EndTransactionStep ==
    ASSUME SpanInv, EndTransaction
    PROVE  SpanInv'
<1> DEFINE c == tx.cache
           u == SetCache(world, Tx, None)
           e == Evict(world, Tx)
           w == Flush([w |-> e, evicted |-> tx.cache])
<1>1. /\ now \in 0..MaxTime /\ now \in Nat
      /\ StepInv(world, None, None) /\ WorldInv(world)
      /\ world.span = span /\ world.tx = tx /\ tx \in TxType /\ Tx # None
  BY InvParts
<1>2. span' = w.span /\ tx' = [w.tx EXCEPT !.data = FALSE, !.sent = tx.recording] /\ now' = now
  BY DEF EndTransaction
<1>3. Tx \in Holder /\ Cache(world, Tx) = c
  BY <1>1 DEF Holder, Cache
<1>4. StepInv(w, None, None) /\ w.tx.cache = None
  <2>1. CASE c = None
    <3>1. e = world
      BY <1>1, <1>3, <2>1, EvictIs, EmptyIs
    <3>2. w = world
      BY <2>1, <3>1 DEF Flush
    <3> QED
      BY <1>1, <2>1, <3>2
  <2>2. CASE c # None
    <3> HIDE DEF c
    <3>1. /\ StepInv(u, None, c) /\ Endable(u, c) /\ c \in Span /\ u.span[c].fate = "cached"
          /\ u.tx.cache = None
      BY <1>1, <1>3, <2>2, UncachedStep
    <3>2. Retimed(u, e, c)
      BY <1>1, <1>3, <2>2, EvictIs
    <3>3. w = Finish(e, c, TRUE)
      BY <2>2 DEF Flush, c
    <3> HIDE DEF u, e, w
    <3> QED
      BY <1>1, <3>1, <3>2, <3>3, FlushedStep
  <2> QED
    BY <2>1, <2>2
<1>5. tx.recording \in BOOLEAN
  BY <1>1 DEF TxType
<1> HIDE DEF w
<1> QED
  BY <1>1, <1>2, <1>4, <1>5, TransactionEnded, Zenon

\* Discarding the transaction keeps the invariant.
LEMMA DiscardStep ==
    ASSUME SpanInv, Discard
    PROVE  SpanInv'
<1> DEFINE c == tx.cache
           u == SetCache(world, Tx, None)
           q == [span[c] EXCEPT !.fate = "discarded"]
           t == [tx EXCEPT !.data = FALSE]
           t1 == [t EXCEPT !.cache = None]
           v == [tx |-> tx', span |-> span']
<1>1. /\ now \in 0..MaxTime /\ now \in Nat
      /\ StepInv(world, None, None) /\ WorldInv(world) /\ Phases(span, None)
      /\ world.span = span /\ world.tx = tx /\ world \in World
      /\ span \in [Span -> SpanType] /\ tx \in TxType
      /\ \A x \in Span : span[x] \in SpanType
      /\ Tx \notin Span /\ None \notin Span /\ Tx # None
  BY InvParts
<1>2. tx' = [tx EXCEPT !.data = FALSE, !.cache = None] /\ now' = now
  BY DEF Discard
<1>3. Tx \in Holder /\ Cache(world, Tx) = c
  BY <1>1 DEF Holder, Cache
<1>4. /\ t1 \in TxType /\ t1.data = FALSE /\ t1.cache = None /\ t1.sampled = tx.sampled
      /\ t1.maxSpans = tx.maxSpans /\ t1.spansCreated = tx.spansCreated
      /\ t1.spansDropped = tx.spansDropped /\ t1.stats = tx.stats
  <2>1. /\ t \in TxType /\ t.data = FALSE /\ t.sampled = tx.sampled
        /\ t.maxSpans = tx.maxSpans /\ t.spansCreated = tx.spansCreated
        /\ t.spansDropped = tx.spansDropped /\ t.stats = tx.stats
    BY <1>1 DEF TxType
  <2> HIDE DEF t
  <2> QED
    BY <2>1 DEF TxType
<1>5. tx' = t1
  BY <1>2
<1> HIDE DEF t, t1
<1>6. \A x \in Span : TouchedSpan(span[x], span[x]) /\ TouchedMore(span[x], span[x])
  BY <1>1 DEF TouchedSpan, TouchedMore, Phases
<1>7. CASE c = None
  <2>1. span' = span
    BY <1>7 DEF Discard
  <2>2. v \in World /\ v.tx = t1 /\ v.span = span
    BY <1>1, <1>4, <1>5, <2>1 DEF World
  <2> HIDE DEF v
  <2>3. Touched(world, v)
    BY <1>1, <1>4, <1>6, <1>7, <2>2 DEF Touched
  <2>4. StepInv(v, None, None)
    BY <1>1, <1>6, <2>2, <2>3, TouchedStep
  <2> QED
    BY <1>1, <1>2, <2>4, NextStep DEF v
<1>8. CASE c # None
  <2>1. span' = [span EXCEPT ![c] = q]
    BY <1>8 DEF Discard
  <2> HIDE DEF c
  <2>2. /\ StepInv(u, None, c) /\ Endable(u, c) /\ c \in Span /\ u.span[c].fate = "cached"
        /\ u.tx.cache = None
    BY <1>1, <1>3, <1>8, UncachedStep
  <2>3. u = [world EXCEPT !.tx = [tx EXCEPT !.cache = None]]
    BY <1>1 DEF SetCache
  <2>4. /\ u.span = span /\ u.tx.sampled = tx.sampled
        /\ u.tx.maxSpans = tx.maxSpans /\ u.tx.spansCreated = tx.spansCreated
        /\ u.tx.spansDropped = tx.spansDropped /\ u.tx.stats = tx.stats
    BY <1>1, <2>3 DEF World, TxType
  <2> HIDE DEF u
  <2>5. span[c] \in SpanType /\ span[c].fate = "cached" /\ span[c].phase = "ended"
    BY <1>1, <2>2, <2>4 DEF Phases
  <2>6. /\ q \in SpanType /\ TouchedSpan(span[c], q) /\ TouchedMore(span[c], q)
        /\ q.fate = "discarded"
    <3>1. span[c].duration >= 0
      BY <1>1, <2>2 DEF Phases
    <3> QED
      BY <2>5, <3>1 DEF SpanType, TouchedSpan, TouchedMore, Used
  <2> HIDE DEF q
  <2>7. /\ v \in World /\ v.tx = t1
        /\ \A x \in Span : v.span[x] = (IF x = c THEN q ELSE span[x])
    BY <1>1, <1>4, <1>5, <2>1, <2>6 DEF World
  <2> HIDE DEF v
  <2>8. /\ Touched(u, v)
        /\ \A x \in Span : TouchedMore(u.span[x], v.span[x])
        /\ \A x \in Span : v.span[x].fate # u.span[x].fate => ~v.tx.data
        /\ v.span[c].fate # "cached"
    BY <1>4, <1>6, <2>2, <2>4, <2>5, <2>6, <2>7 DEF Touched
  <2>9. StepInv(v, None, None)
    BY <2>2, <2>8, TouchedStep
  <2> QED
    BY <1>1, <1>2, <2>9, NextStep DEF v
<1> QED
  BY <1>7, <1>8

-----------------------------------------------------------------------------
(* Steps that start spans *)

\* What every span has when it starts.
Begins(r) ==
    /\ r \in SpanType /\ r.phase = "live" /\ r.fate = "none" /\ r.into = None
    /\ r.cache = None /\ r.count = 0 /\ r.duration = 0 /\ r.timestamp <= now
    /\ r.exit => r.type \in {x.type : x \in Shapes}

\* The span that startSpan makes.
LEMMA StartedIs ==
    ASSUME NEW shape \in Shapes, NEW id \in Span \cup {Tx, None}, now \in Nat
    PROVE  LET r == Started(shape, id) IN
           /\ Begins(r) /\ r.parent = None /\ r.parentID = id /\ r.id = id
           /\ r.tx = FALSE /\ r.enabled = FALSE
<1> DEFINE u1 == [Unused EXCEPT !.phase = "live", !.data = TRUE, !.tracer = TRUE]
           u2 == [u1 EXCEPT !.parentID = id, !.id = id]
           u3 == [u2 EXCEPT !.type = shape.type, !.name = shape.name]
           u4 == [u3 EXCEPT !.exit = shape.exit, !.ok = shape.ok]
           u5 == [u4 EXCEPT !.timestamp = now]
<1>1. /\ shape.exit \in BOOLEAN /\ shape.ok \in BOOLEAN
      /\ shape.type \in {x.type : x \in Shapes} /\ shape.name \in {x.name : x \in Shapes}
  BY SpanLifecycleAssumption
<1>2. Unused \in SpanType
  BY DEF Unused, SpanType
<1>3. u1 \in SpanType
  BY <1>2 DEF SpanType
<1>4. Started(shape, id) = u5
  BY DEF Started
<1> HIDE DEF u1
<1>5. u2 \in SpanType
  BY <1>3 DEF SpanType
<1> HIDE DEF u2
<1>6. u3 \in SpanType
  BY <1>1, <1>5 DEF SpanType
<1> HIDE DEF u3
<1>7. u4 \in SpanType
  BY <1>1, <1>6 DEF SpanType
<1> HIDE DEF u4
<1>8. u5 \in SpanType
  BY <1>7 DEF SpanType
<1>9. LET r == Started(shape, id) IN
      /\ r.phase = "live" /\ r.fate = "none" /\ r.into = None
      /\ r.cache = None /\ r.count = 0 /\ r.duration = 0 /\ r.timestamp = now
      /\ r.parent = None /\ r.parentID = id /\ r.id = id /\ r.type = shape.type
      /\ (r.tx <=> FALSE) /\ (r.enabled <=> FALSE)
  BY DEF Started, Unused
<1> QED
  BY <1>1, <1>4, <1>8, <1>9 DEF Begins, SpanType

\* What StartSpanOptions makes of it: a span that is refused or not sampled, one
\* that is let through, and, outside of the transaction, one of its own and an
\* empty one.
StartedKinds(refused, let, outside, empty, s, parent, id) ==
    /\ Begins(refused) /\ refused.tx = TRUE /\ refused.tracer = FALSE
    /\ refused.parent = parent /\ refused.parentID = id /\ refused.id = id
    /\ refused.enabled = FALSE
    /\ Begins(let) /\ let.tx = TRUE /\ let.parent = parent /\ let.parentID = id
    /\ let.id = s
    /\ Begins(outside) /\ outside.tx = FALSE /\ outside.parent = None
    /\ outside.parentID = id /\ outside.id = s
    /\ Begins(empty) /\ empty.tx = FALSE /\ empty.parent = None
    /\ empty.parentID = None /\ empty.id = None /\ empty.enabled = FALSE

\* StartSpanOptions makes these.
LEMMA StartedOf ==
    ASSUME NEW s \in Span, NEW shape \in Shapes, NEW parent \in Span \cup {None},
           NEW id \in Span \cup {Tx, None}, now \in Nat
    PROVE  LET r == [Started(shape, id) EXCEPT !.tx = TRUE, !.parent = parent]
               refused == [r EXCEPT !.tracer = FALSE]
               let == [r EXCEPT !.id = s, !.enabled = CompressionEnabled]
               outside == [Started(shape, id) EXCEPT !.id = s, !.enabled = CompressionEnabled]
               empty == [Unused EXCEPT !.phase = "live", !.data = TRUE]
           IN  StartedKinds(refused, let, outside, empty, s, parent, id)
<1> DEFINE q == Started(shape, id)
           r == [q EXCEPT !.tx = TRUE, !.parent = parent]
           refused == [r EXCEPT !.tracer = FALSE]
           let == [r EXCEPT !.id = s, !.enabled = CompressionEnabled]
           outside == [q EXCEPT !.id = s, !.enabled = CompressionEnabled]
           empty == [Unused EXCEPT !.phase = "live", !.data = TRUE]
<1>1. /\ Begins(q) /\ q.parent = None /\ q.parentID = id /\ q.id = id
      /\ q.tx = FALSE /\ q.enabled = FALSE
  BY StartedIs
<1> HIDE DEF q
<1>2. CompressionEnabled \in BOOLEAN
  BY SpanLifecycleAssumption
<1>3. Begins(r) /\ r.tx = TRUE /\ r.parent = parent /\ r.parentID = id /\ r.id = id
      /\ r.enabled = FALSE
  <2>1. r \in SpanType
    BY <1>1 DEF Begins, SpanType
  <2>2. /\ r.phase = q.phase /\ r.fate = q.fate /\ r.into = q.into
        /\ r.cache = q.cache /\ r.count = q.count
        /\ r.duration = q.duration /\ r.timestamp = q.timestamp
        /\ r.type = q.type /\ r.exit = q.exit
        /\ r.tx = TRUE /\ r.parent = parent /\ r.parentID = id /\ r.id = id
        /\ r.enabled = FALSE
    BY <1>1 DEF Begins, SpanType
  <2> HIDE DEF r
  <2> QED
    BY <1>1, <2>1, <2>2 DEF Begins
<1>4. Begins(outside) /\ outside.tx = FALSE /\ outside.parent = None
      /\ outside.parentID = id /\ outside.id = s
  <2>1. outside \in SpanType
    BY <1>1, <1>2 DEF Begins, SpanType
  <2>2. /\ outside.phase = q.phase /\ outside.fate = q.fate /\ outside.into = q.into
        /\ outside.cache = q.cache /\ outside.count = q.count
        /\ outside.duration = q.duration /\ outside.timestamp = q.timestamp
        /\ outside.type = q.type /\ outside.exit = q.exit
        /\ outside.tx = FALSE /\ outside.parent = None /\ outside.parentID = id
        /\ outside.id = s
    BY <1>1, <1>2 DEF Begins, SpanType
  <2> HIDE DEF outside
  <2> QED
    BY <1>1, <1>2, <2>1, <2>2 DEF Begins
<1>5. /\ Begins(empty) /\ empty.tx = FALSE /\ empty.parent = None
      /\ empty.parentID = None /\ empty.id = None /\ empty.enabled = FALSE
  <2>1. Unused \in SpanType
    BY DEF Unused, SpanType
  <2>2. empty \in SpanType
    BY <2>1 DEF SpanType
  <2>3. /\ empty.phase = "live" /\ empty.fate = "none" /\ empty.into = None
        /\ empty.cache = None /\ empty.count = 0 /\ empty.duration = 0 /\ empty.timestamp = 0
        /\ (empty.tx <=> FALSE) /\ empty.parent = None /\ empty.parentID = None
        /\ empty.id = None /\ (empty.enabled <=> FALSE) /\ (empty.exit <=> FALSE)
    BY DEF Unused
  <2> HIDE DEF empty
  <2> QED
    BY <2>2, <2>3 DEF Begins, SpanType
<1> HIDE DEF r
<1>6. Begins(refused) /\ refused.tx = TRUE /\ refused.tracer = FALSE
      /\ refused.parent = parent /\ refused.parentID = id /\ refused.id = id
      /\ refused.enabled = FALSE
  <2>1. refused \in SpanType
    BY <1>3 DEF Begins, SpanType
  <2>2. /\ refused.phase = r.phase /\ refused.fate = r.fate /\ refused.into = r.into
        /\ refused.cache = r.cache /\ refused.count = r.count
        /\ refused.duration = r.duration /\ refused.timestamp = r.timestamp
        /\ refused.type = r.type /\ refused.exit = r.exit
        /\ refused.tx = TRUE /\ refused.tracer = FALSE /\ refused.parent = parent
        /\ refused.parentID = id /\ refused.id = id /\ refused.enabled = FALSE
    BY <1>3 DEF Begins, SpanType
  <2> HIDE DEF refused
  <2> QED
    BY <1>3, <2>1, <2>2 DEF Begins
<1>7. Begins(let) /\ let.tx = TRUE /\ let.parent = parent /\ let.parentID = id /\ let.id = s
  <2>1. let \in SpanType
    BY <1>2, <1>3 DEF Begins, SpanType
  <2>2. /\ let.phase = r.phase /\ let.fate = r.fate /\ let.into = r.into
        /\ let.cache = r.cache /\ let.count = r.count
        /\ let.duration = r.duration /\ let.timestamp = r.timestamp
        /\ let.type = r.type /\ let.exit = r.exit
        /\ let.tx = TRUE /\ let.parent = parent /\ let.parentID = id /\ let.id = s
    BY <1>2, <1>3 DEF Begins, SpanType
  <2> HIDE DEF let
  <2> QED
    BY <1>2, <1>3, <2>1, <2>2 DEF Begins
<1> QED
  BY <1>4, <1>5, <1>6, <1>7 DEF q, r, StartedKinds

\* The span r may start as s: what it has of identities.
Fresh(w, r, s) ==
    /\ Begins(r)
    /\ r.enabled => r.id = s
    /\ r.tx /\ r.tracer => r.id = s
    /\ r.id \in Span => r.id = s \/ Used(w.span[r.id])
    /\ w.tx.data => r.tx
    /\ r.parent # None => r.tx

\* How the transaction t that starts it counts it.
Admits(w, t, r, s) ==
    /\ t \in TxType /\ t.data = w.tx.data /\ t.sampled = w.tx.sampled
    /\ t.maxSpans = w.tx.maxSpans /\ t.cache = w.tx.cache /\ t.stats = w.tx.stats
    /\ \/ /\ ~w.tx.data \/ ~w.tx.sampled
          /\ ~(r.tx /\ r.id = s)
          /\ t.spansCreated = w.tx.spansCreated /\ t.spansDropped = w.tx.spansDropped
       \/ /\ r.tx /\ r.id # s
          /\ t.spansCreated = w.tx.spansCreated /\ t.spansDropped = w.tx.spansDropped + 1
       \/ /\ r.tx /\ r.id = s /\ w.tx.data /\ w.tx.sampled
          /\ w.tx.maxSpans >= 0 => w.tx.spansCreated < w.tx.maxSpans
          /\ t.spansCreated = w.tx.spansCreated + 1 /\ t.spansDropped = w.tx.spansDropped

\* A span that starts is counted.
LEMMA StartedCounts ==
    ASSUME NEW w, WorldInv(w), NEW s \in Span, ~Used(w.span[s]), NEW r, Fresh(w, r, s),
           NEW v, Admits(w, v.tx, r, s), v.span = [w.span EXCEPT ![s] = r]
    PROVE  Counts(v)
<1> DEFINE A == Counted(w.span)
           A1 == Counted(v.span)
           B == NotLet(w.span)
           B1 == NotLet(v.span)
           U == UnderWay(w.span)
           U1 == UnderWay(v.span)
<1>1. /\ w.span \in [Span -> SpanType] /\ w.tx \in TxType /\ Counts(w)
      /\ w.span[s] = Unused /\ r.fate = "none"
      /\ v.span[s] = r /\ \A x \in Span : x # s => v.span[x] = w.span[x]
  BY WorldParts DEF WorldInv, Identities, Fresh, Begins
<1>2. w.span[s].tx = FALSE /\ w.span[s].fate = "none"
  BY <1>1 DEF Unused
<1>3. /\ s \notin A /\ s \notin B /\ s \notin U
      /\ A1 = (IF r.tx /\ r.id = s THEN A \cup {s} ELSE A)
      /\ U1 = (IF r.tx /\ r.id = s THEN U \cup {s} ELSE U)
      /\ B1 = (IF r.tx /\ r.id # s THEN B \cup {s} ELSE B)
  BY <1>1, <1>2 DEF Counted, LetThrough, NotLet, UnderWay
<1>4. /\ IsFiniteSet(A) /\ IsFiniteSet(B) /\ IsFiniteSet(U) /\ U \subseteq A
      /\ Cardinality(A) \in Nat /\ Cardinality(B) \in Nat /\ Cardinality(U) \in Nat
      /\ Cardinality(U) <= Cardinality(A)
  <2>1. A \subseteq Span /\ B \subseteq Span /\ U \subseteq A
    BY DEF Counted, LetThrough, NotLet, UnderWay
  <2>2. IsFiniteSet(A) /\ IsFiniteSet(B)
    BY <2>1, SpansFinite, FS_Subset
  <2> HIDE DEF A, B, U
  <2> QED
    BY <2>1, <2>2, FS_Subset, FS_CardinalityType
<1>5. /\ Cardinality(A1) = Cardinality(A) + (IF r.tx /\ r.id = s THEN 1 ELSE 0)
      /\ Cardinality(U1) = Cardinality(U) + (IF r.tx /\ r.id = s THEN 1 ELSE 0)
      /\ Cardinality(B1) = Cardinality(B) + (IF r.tx /\ r.id # s THEN 1 ELSE 0)
  <2> HIDE DEF A, A1, B, B1, U, U1
  <2>1. /\ Cardinality(A \cup {s}) = Cardinality(A) + 1
        /\ Cardinality(B \cup {s}) = Cardinality(B) + 1
        /\ Cardinality(U \cup {s}) = Cardinality(U) + 1
    BY <1>3, <1>4, FS_AddElement
  <2> QED
    BY <1>3, <1>4, <2>1
<1>6. /\ w.tx.data /\ w.tx.sampled => /\ w.tx.spansCreated = Cardinality(A)
                                      /\ w.tx.spansDropped = Cardinality(B)
      /\ w.tx.maxSpans >= 0 =>
             /\ w.tx.data /\ w.tx.sampled => w.tx.spansCreated <= w.tx.maxSpans
             /\ Cardinality(U) <= w.tx.maxSpans
      /\ w.tx.spansCreated \in Nat /\ w.tx.spansDropped \in Nat /\ w.tx.maxSpans \in Int
  BY <1>1, SpanLifecycleAssumption DEF Counts, TxType
<1>7. /\ v.tx.data = w.tx.data /\ v.tx.sampled = w.tx.sampled /\ v.tx.maxSpans = w.tx.maxSpans
  BY DEF Admits
<1> HIDE DEF A, A1, B, B1, U, U1
<1>8. CASE /\ ~w.tx.data \/ ~w.tx.sampled
           /\ ~(r.tx /\ r.id = s)
           /\ v.tx.spansCreated = w.tx.spansCreated /\ v.tx.spansDropped = w.tx.spansDropped
  BY <1>4, <1>5, <1>6, <1>7, <1>8 DEF Counts, A1, B1, U1
<1>9. CASE /\ r.tx /\ r.id # s
           /\ v.tx.spansCreated = w.tx.spansCreated /\ v.tx.spansDropped = w.tx.spansDropped + 1
  BY <1>4, <1>5, <1>6, <1>7, <1>9 DEF Counts, A1, B1, U1
<1>10. CASE /\ r.tx /\ r.id = s /\ w.tx.data /\ w.tx.sampled
            /\ w.tx.maxSpans >= 0 => w.tx.spansCreated < w.tx.maxSpans
            /\ v.tx.spansCreated = w.tx.spansCreated + 1 /\ v.tx.spansDropped = w.tx.spansDropped
  BY <1>4, <1>5, <1>6, <1>7, <1>10 DEF Counts, A1, B1, U1
<1> QED
  BY <1>8, <1>9, <1>10 DEF Admits

\* A span that starts keeps what holds of every world.
LEMMA StartedKeeps ==
    ASSUME NEW w, WorldInv(w), NEW s \in Span, ~Used(w.span[s]), NEW r, Fresh(w, r, s),
           NEW v, Admits(w, v.tx, r, s), v.span = [w.span EXCEPT ![s] = r],
           v = [tx |-> v.tx, span |-> v.span]
    PROVE  WorldInv(v)
<1>1. /\ w.span \in [Span -> SpanType] /\ w.tx \in TxType
      /\ Identities(w) /\ Fates(w) /\ Caches(w) /\ Composites(w) /\ Statistics(w)
      /\ w.span[s] = Unused
      /\ v.span[s] = r /\ \A x \in Span : x # s => v.span[x] = w.span[x]
  BY WorldParts DEF WorldInv, Identities
<1>2. /\ w.span[s].fate = "none" /\ w.span[s].cache = None /\ w.span[s].into = None
      /\ w.span[s].tx = FALSE /\ w.span[s].duration = 0 /\ ~Used(Unused)
  BY <1>1 DEF Unused, Used
<1>3. /\ r \in SpanType /\ Used(r) /\ r.fate = "none" /\ r.into = None /\ r.cache = None
      /\ r.count = 0 /\ r.duration = 0
  BY DEF Fresh, Begins, Used
<1>4. /\ v.tx \in TxType /\ v.tx.data = w.tx.data /\ v.tx.sampled = w.tx.sampled
      /\ v.tx.cache = w.tx.cache /\ v.tx.stats = w.tx.stats
      /\ r.tx /\ r.id = s => w.tx.sampled
  <2>1. r.tx /\ r.id = s => w.tx.sampled
    BY DEF Admits
  <2> QED
    BY <2>1 DEF Admits
<1>5. v \in World
  BY <1>1, <1>3, <1>4 DEF World
<1>6. None \notin Span /\ w.tx.cache \in Span \cup {None}
      /\ \A x \in Span : w.span[x].cache \in Span \cup {None} /\ v.span[x].cache = w.span[x].cache
                         /\ v.span[x].fate = w.span[x].fate /\ v.span[x].into = w.span[x].into
  BY <1>1, <1>2, <1>3, SpansFinite, SpanLifecycleAssumption DEF TxType, SpanType
<1>7. Identities(v)
  <2> SUFFICES ASSUME NEW x \in Span
               PROVE  LET q == v.span[x] IN
                      /\ ~Used(q) => q = Unused
                      /\ q.enabled => q.id = x
                      /\ q.tx /\ q.tracer => q.id = x
                      /\ q.id \in Span => Used(v.span[q.id])
                      /\ q.tx /\ q.id = x => v.tx.sampled
                      /\ v.tx.data /\ Used(q) => q.tx
                      /\ q.parent # None => q.tx
                      /\ q.exit => q.type \in {y.type : y \in Shapes}
    BY DEF Identities
  <2>1. \A y \in Span : Used(w.span[y]) => Used(v.span[y])
    BY <1>1, <1>3
  <2>2. CASE x = s
    BY <1>1, <1>3, <1>4, <2>1, <2>2 DEF Fresh, Begins
  <2>3. CASE x # s
    BY <1>1, <1>4, <2>1, <2>3 DEF Identities
  <2> QED
    BY <2>2, <2>3
<1>8. Fates(v)
  BY <1>1, <1>6 DEF Fates
<1>9. Caches(v)
  BY <1>1, <1>4, <1>6 DEF Caches
<1>10. Counts(v)
  BY StartedCounts
<1>11. Composites(v)
  <2> SUFFICES ASSUME NEW c \in Span PROVE CompositeOf(v.span, c)
    BY DEF Composites
  <2> DEFINE M == MembersOf(w.span, c)
  <2>1. MembersOf(v.span, c) = M /\ M \subseteq Span /\ s \notin M
    BY <1>2, <1>6 DEF MembersOf
  <2>2. CompositeOf(w.span, c)
    BY <1>1 DEF Composites
  <2>3. SumOf(v.span, M \cup {c}) = SumOf(w.span, M \cup {c})
    <3>1. Durations(v.span) = Durations(w.span)
      BY <1>1, <1>2, <1>3 DEF Durations
    <3> QED
      BY <3>1 DEF SumOf
  <2>4. CASE c = s
    <3>1. M = {}
      BY <1>2, <2>2, <2>4 DEF CompositeOf
    <3> QED
      BY <1>1, <1>3, <2>1, <2>4, <3>1 DEF CompositeOf
  <2>5. CASE c # s
    <3>1. \A m \in M : v.span[m] = w.span[m]
      BY <1>1, <2>1
    <3>2. v.span[c] = w.span[c]
      BY <1>1, <2>5
    <3> HIDE DEF M
    <3> QED
      BY <2>1, <2>2, <2>3, <3>1, <3>2 DEF CompositeOf, M
  <2> QED
    BY <2>4, <2>5
<1>12. Statistics(v)
  <2>1. DroppedOf(v.span) = DroppedOf(w.span)
    BY <1>1, <1>2, <1>3 DEF DroppedOf
  <2>2. CallsOf(v.span) = CallsOf(w.span)
    BY <1>6, <2>1 DEF CallsOf
  <2> QED
    BY <1>1, <1>4, <2>2 DEF Statistics
<1> QED
  BY <1>5, <1>7, <1>8, <1>9, <1>10, <1>11, <1>12 DEF WorldInv

\* What the span r that starts as s names as its parent stays reported.
Named(w, r, s) ==
    /\ \A p \in Span \ {s} : p \in {r.parentID, r.id} =>
           w.span[p].propagated /\ w.span[p].fate \notin {"compressed", "fast"}
    /\ r.parentID # s
    /\ r.parent # None => /\ w.span[r.parent].propagated
                          /\ w.span[r.parent].fate \notin {"cached", "compressed", "discarded"}

\* A span that starts keeps the invariant.
LEMMA StartedStep ==
    ASSUME SpanInv, NEW s \in Span, ~Used(span[s]), NEW r, Fresh(world, r, s),
           ~LateChildren => Named(world, r, s),
           Admits(world, tx', r, s), span' = [span EXCEPT ![s] = r], now' = now
    PROVE  SpanInv'
<1> DEFINE v == [tx |-> tx', span |-> span']
<1>1. /\ now \in 0..MaxTime /\ now \in Nat
      /\ StepInv(world, None, None) /\ WorldInv(world) /\ Phases(span, None)
      /\ world.span = span /\ world.tx = tx
      /\ span \in [Span -> SpanType]
      /\ \A x \in Span : span[x] \in SpanType
      /\ None \notin Span
  BY InvParts
<1>2. v.tx = tx' /\ v.span = span' /\ v = [tx |-> v.tx, span |-> v.span]
  OBVIOUS
<1> HIDE DEF v
<1>3. WorldInv(v)
  <2>1. Admits(world, v.tx, r, s) /\ v.span = [world.span EXCEPT ![s] = r] /\ ~Used(world.span[s])
    BY <1>1, <1>2
  <2> QED
    BY <1>1, <1>2, <2>1, StartedKeeps
<1>4. v.span[s] = r /\ \A x \in Span : x # s => v.span[x] = span[x]
  BY <1>1, <1>2
<1>5. /\ r.phase = "live" /\ r.fate = "none" /\ r.cache = None /\ r.duration = 0
      /\ r.timestamp <= now /\ r.parent \in Span \cup {None}
  BY DEF Fresh, Begins, SpanType
<1>6. /\ span[s].cache = None /\ span[s].fate = "none" /\ ~span[s].propagated
      /\ v.tx.data = tx.data /\ v.tx.cache = tx.cache
  <2>1. span[s] = Unused
    BY <1>1 DEF WorldInv, Identities
  <2> QED
    BY <1>1, <1>2, <2>1 DEF Unused, Admits
<1>7. Phases(v.span, None)
  BY <1>1, <1>4, <1>5 DEF Phases
<1>8. ASSUME ~LateChildren PROVE Parents(v) /\ Held(v, None)
  <2>1. Parents(world) /\ Held(world, None) /\ Named(world, r, s)
    BY <1>1, <1>8 DEF StepInv
  <2>2. \A x \in Span : x # s => /\ span[x].parent # s /\ span[x].parentID # s /\ span[x].id # s
                                 /\ span[x].parent \in Span \cup {None}
    BY <1>1, <1>6, <2>1 DEF Parents, SpanType
  <2>3. r.parent # s
    BY <1>1, <1>6, <2>1 DEF Named
  <2>4. Parents(v)
    <3> SUFFICES ASSUME NEW x \in Span
                 PROVE  LET q == v.span[x] IN
                        /\ \A p \in Span \ {x} : p \in {q.parentID, q.id} =>
                               v.span[p].propagated /\ v.span[p].fate \notin {"compressed", "fast"}
                        /\ q.parentID # x
                        /\ q.parent # None =>
                               /\ v.span[q.parent].propagated
                               /\ v.span[q.parent].fate \notin {"cached", "compressed", "discarded"}
                        /\ q.fate = "discarded" => ~v.tx.data
                        /\ q.fate \in {"fast", "aggregated", "enqueued", "dropped"} => ~q.data
      BY DEF Parents
    <3>1. CASE x = s
      BY <1>1, <1>4, <1>5, <2>1, <2>3, <3>1 DEF Named
    <3>2. CASE x # s
      BY <1>1, <1>4, <1>6, <2>1, <2>2, <3>2 DEF Parents
    <3> QED
      BY <3>1, <3>2
  <2>5. Held(v, None)
    <3> SUFFICES ASSUME NEW y \in Span, y # None, v.span[y].fate = "cached"
                 PROVE  \/ v.tx.data /\ v.tx.cache = y
                        \/ \E g \in Span : /\ v.span[g].cache = y
                                           /\ v.span[g].phase # "ended" \/ Keeps(v.span, v.span[g])
      BY DEF Held
    <3>1. span[y].fate = "cached"
      BY <1>4, <1>5
    <3>2. \/ tx.data /\ tx.cache = y
          \/ \E g \in Span : /\ span[g].cache = y
                             /\ span[g].phase # "ended" \/ Keeps(span, span[g])
      BY <1>1, <2>1, <3>1 DEF Held
    <3>3. \A g \in Span : g # s => (Keeps(v.span, v.span[g]) <=> Keeps(span, span[g]))
      BY <1>4, <2>2 DEF Keeps
    <3>4. \A g \in Span : span[g].cache = y => g # s
      BY <1>1, <1>6
    <3> QED
      BY <1>4, <1>6, <3>2, <3>3, <3>4
  <2> QED
    BY <2>4, <2>5
<1>9. StepInv(v, None, None)
  BY <1>3, <1>7, <1>8 DEF StepInv
<1> QED
  BY <1>1, <1>9, NextStep DEF v

\* Starting a span of the transaction, or one outside of it.
LEMMA StartStep ==
    ASSUME SpanInv, NEW s \in Span, NEW shape \in Shape[s], NEW parent \in Span \cup {None},
           NEW id \in Span \cup {Tx, None}, StartSpanOptions(s, shape, parent, id),
           id \in Span => Used(span[id]),
           ~LateChildren =>
               /\ id \in Span => span[id].propagated /\ span[id].fate \notin {"compressed", "fast"}
               /\ parent # None => /\ span[parent].propagated
                                   /\ span[parent].fate \notin {"cached", "compressed"}
                                   /\ tx.data => span[parent].fate # "discarded"
    PROVE  SpanInv'
<1> DEFINE r == [Started(shape, id) EXCEPT !.tx = TRUE, !.parent = parent]
           refused == [r EXCEPT !.tracer = FALSE]
           let == [r EXCEPT !.id = s, !.enabled = CompressionEnabled]
           outside == [Started(shape, id) EXCEPT !.id = s, !.enabled = CompressionEnabled]
           empty == [Unused EXCEPT !.phase = "live", !.data = TRUE]
<1>1. /\ now \in Nat /\ world.span = span /\ world.tx = tx /\ tx \in TxType
      /\ Tx \notin Span /\ None \notin Span
  BY InvParts
<1>2. span[s].phase = "unused" /\ now' = now
  BY DEF StartSpanOptions, NextSpan
<1>3. ~Used(span[s]) /\ id # s
  BY <1>2 DEF Used
<1>4. shape \in Shapes
  BY DEF Shapes
<1>5. StartedKinds(refused, let, outside, empty, s, parent, id)
  BY <1>1, <1>4, StartedOf, Zenon
<1> HIDE DEF refused, let, outside, empty
<1>6. CASE tx.data
  <2>1. StartInTransaction(s, shape, parent, id)
    BY <1>6 DEF StartSpanOptions
  <2>2. \/ /\ ~tx.sampled
           /\ span' = [span EXCEPT ![s] = refused]
           /\ tx' = tx
        \/ /\ tx.sampled /\ ExceedsMaxSpans
           /\ span' = [span EXCEPT ![s] = refused]
           /\ tx' = [tx EXCEPT !.spansDropped = @ + 1]
        \/ /\ tx.sampled /\ ~ExceedsMaxSpans
           /\ span' = [span EXCEPT ![s] = let]
           /\ tx' = [tx EXCEPT !.spansCreated = @ + 1]
    BY <2>1 DEF StartInTransaction, refused, let
  <2>3. Fresh(world, refused, s) /\ (~LateChildren => Named(world, refused, s))
    BY <1>1, <1>3, <1>5, <1>6 DEF Fresh, Named, StartedKinds
  <2>4. Fresh(world, let, s) /\ (~LateChildren => Named(world, let, s))
    BY <1>1, <1>3, <1>5, <1>6 DEF Fresh, Named, StartedKinds
  <2>5. CASE /\ ~tx.sampled
             /\ span' = [span EXCEPT ![s] = refused]
             /\ tx' = tx
    <3>1. Admits(world, tx', refused, s)
      BY <1>1, <1>3, <1>5, <2>5 DEF Admits, StartedKinds
    <3> QED
      BY <1>2, <1>3, <2>3, <2>5, <3>1, StartedStep
  <2>6. CASE /\ tx.sampled /\ ExceedsMaxSpans
             /\ span' = [span EXCEPT ![s] = refused]
             /\ tx' = [tx EXCEPT !.spansDropped = @ + 1]
    <3>1. Admits(world, tx', refused, s)
      <4> DEFINE t == [tx EXCEPT !.spansDropped = tx.spansDropped + 1]
      <4>1. /\ t \in TxType /\ t.data = tx.data /\ t.sampled = tx.sampled
            /\ t.maxSpans = tx.maxSpans /\ t.cache = tx.cache /\ t.stats = tx.stats
            /\ t.spansCreated = tx.spansCreated /\ t.spansDropped = tx.spansDropped + 1
        BY <1>1 DEF TxType
      <4> HIDE DEF t
      <4>2. tx' = t
        BY <2>6 DEF t
      <4> QED
        BY <1>1, <1>3, <1>5, <4>1, <4>2 DEF Admits, StartedKinds
    <3> QED
      BY <1>2, <1>3, <2>3, <2>6, <3>1, StartedStep
  <2>7. CASE /\ tx.sampled /\ ~ExceedsMaxSpans
             /\ span' = [span EXCEPT ![s] = let]
             /\ tx' = [tx EXCEPT !.spansCreated = @ + 1]
    <3>1. Admits(world, tx', let, s)
      <4> DEFINE t == [tx EXCEPT !.spansCreated = tx.spansCreated + 1]
      <4>1. /\ t \in TxType /\ t.data = tx.data /\ t.sampled = tx.sampled
            /\ t.maxSpans = tx.maxSpans /\ t.cache = tx.cache /\ t.stats = tx.stats
            /\ t.spansDropped = tx.spansDropped /\ t.spansCreated = tx.spansCreated + 1
        BY <1>1 DEF TxType
      <4> HIDE DEF t
      <4>2. tx' = t
        BY <2>7 DEF t
      <4>3. tx.maxSpans >= 0 => tx.spansCreated < tx.maxSpans
        BY <1>1, <2>7, SpanLifecycleAssumption DEF ExceedsMaxSpans, TxType
      <4> QED
        BY <1>1, <1>5, <1>6, <2>7, <4>1, <4>2, <4>3 DEF Admits, StartedKinds
    <3> QED
      BY <1>2, <1>3, <2>4, <2>7, <3>1, StartedStep
  <2> QED
    BY <2>2, <2>5, <2>6, <2>7
<1>7. CASE ~tx.data
  <2>1. StartOutside(s, shape, parent, id)
    BY <1>7 DEF StartSpanOptions
  <2>2. /\ \/ span' = [span EXCEPT ![s] = empty]
           \/ span' = [span EXCEPT ![s] = outside]
        /\ tx' = tx
    BY <2>1 DEF StartOutside, empty, outside
  <2>3. Fresh(world, empty, s) /\ (~LateChildren => Named(world, empty, s))
    BY <1>1, <1>3, <1>5, <1>7 DEF Fresh, Named, StartedKinds
  <2>4. Fresh(world, outside, s) /\ (~LateChildren => Named(world, outside, s))
    BY <1>1, <1>3, <1>5, <1>7 DEF Fresh, Named, StartedKinds
  <2>5. Admits(world, tx', empty, s) /\ Admits(world, tx', outside, s)
    BY <1>1, <1>5, <1>7, <2>2 DEF Admits, StartedKinds
  <2>6. CASE span' = [span EXCEPT ![s] = empty]
    BY <1>2, <1>3, <2>3, <2>5, <2>6, StartedStep
  <2>7. CASE span' = [span EXCEPT ![s] = outside]
    BY <1>2, <1>3, <2>4, <2>5, <2>7, StartedStep
  <2> QED
    BY <2>2, <2>6, <2>7
<1> QED
  BY <1>6, <1>7

\* Starting a span under the transaction keeps the invariant.
LEMMA StartRootStep ==
    ASSUME SpanInv, NEW s \in Span, NEW shape \in Shape[s], StartRootSpan(s, shape)
    PROVE  SpanInv'
<1>1. Tx \notin Span /\ StartSpanOptions(s, shape, None, Tx)
  BY InvParts DEF StartRootSpan
<1>2. None \in Span \cup {None} /\ Tx \in Span \cup {Tx, None}
  OBVIOUS
<1> QED
  BY <1>1, <1>2, StartStep

\* Starting a span under another keeps the invariant.
LEMMA StartChildStep ==
    ASSUME SpanInv, NEW s \in Span, NEW shape \in Shape[s], NEW p \in Span,
           StartChildSpan(s, shape, p)
    PROVE  SpanInv'
<1> DEFINE id == span[p].id
<1>1. /\ StepInv(world, None, None) /\ WorldInv(world) /\ world.span = span /\ world.tx = tx
      /\ span[p] \in SpanType /\ None \notin Span
  BY InvParts
<1>2. id \in Span \cup {Tx, None}
  BY <1>1 DEF SpanType
<1>3. span[p].propagated /\ (LateChildren \/ span[p].fate \notin {"cached", "compressed", "fast"})
  BY DEF StartChildSpan
<1>4. id \in Span => Used(span[id])
  BY <1>1 DEF WorldInv, Identities
<1>5. ~LateChildren =>
          /\ id \in Span => span[id].propagated /\ span[id].fate \notin {"compressed", "fast"}
          /\ tx.data => span[p].fate # "discarded"
  <2> SUFFICES ASSUME ~LateChildren
               PROVE  /\ id \in Span => span[id].propagated
                                        /\ span[id].fate \notin {"compressed", "fast"}
                      /\ tx.data => span[p].fate # "discarded"
    OBVIOUS
  <2>1. Parents(world)
    BY <1>1 DEF StepInv
  <2> QED
    BY <1>1, <1>3, <2>1 DEF Parents
<1> HIDE DEF id
<1>6. CASE StartSpanOptions(s, shape, p, id)
  <2>1. p \in Span \cup {None}
    OBVIOUS
  <2> QED
    BY <1>2, <1>3, <1>4, <1>5, <1>6, <2>1, StartStep
<1>7. CASE StartSpanOptions(s, shape, None, id)
  <2>1. None \in Span \cup {None}
    OBVIOUS
  <2> QED
    BY <1>2, <1>4, <1>5, <1>7, <2>1, StartStep
<1> QED
  BY <1>6, <1>7 DEF StartChildSpan, id

\* The clock keeps the invariant.
LEMMA TickStep ==
    ASSUME SpanInv, Tick
    PROVE  SpanInv'
<1>1. /\ now \in 0..MaxTime /\ now \in Nat /\ StepInv(world, None, None)
      /\ \A x \in Span : span[x] \in SpanType
      /\ world.span = span
  BY InvParts
<1>2. now < MaxTime /\ now' = now + 1 /\ tx' = tx /\ span' = span
  BY DEF Tick
<1>3. now' \in 0..MaxTime
  BY <1>1, <1>2, SpanLifecycleAssumption
<1>4. world' = world
  BY <1>2 DEF world
<1>5. Phases(world.span, None)'
  <2>1. \A x \in Span : span[x].timestamp \in Nat
    BY <1>1 DEF SpanType
  <2>2. Phases(world.span, None)
    BY <1>1 DEF StepInv
  <2> QED
    BY <1>1, <1>2, <1>4, <2>1, <2>2 DEF Phases
<1>6. StepInv(world, None, None)'
  BY <1>1, <1>4, <1>5 DEF StepInv
<1> QED
  BY <1>3, <1>6 DEF SpanInv

\* A transaction that has just started.
LEMMA InitStep == Init => SpanInv
<1> SUFFICES ASSUME Init PROVE SpanInv
  OBVIOUS
<1>1. /\ now = 0 /\ span = [s \in Span |-> Unused] /\ world.span = span /\ world.tx = tx
      /\ world = [tx |-> tx, span |-> span]
  BY DEF Init, world
<1>2. PICK recording \in BOOLEAN, sampled \in BOOLEAN, max \in MaxSpans :
          tx = [data |-> TRUE, recording |-> recording, sampled |-> sampled, maxSpans |-> max,
                spansCreated |-> 0, spansDropped |-> 0, cache |-> None,
                stats |-> [k \in StatsKey |-> 0], sent |-> FALSE]
  BY DEF Init
<1>3. /\ tx \in TxType /\ tx.spansCreated = 0 /\ tx.spansDropped = 0 /\ tx.cache = None
      /\ tx.maxSpans \in Int /\ tx.stats = [k \in StatsKey |-> 0]
  BY <1>2, SpanLifecycleAssumption DEF TxType
<1>4. /\ Unused \in SpanType /\ ~Used(Unused) /\ Unused.phase = "unused" /\ Unused.parent = None
      /\ Unused.parentID = None /\ Unused.id = None /\ Unused.cache = None /\ Unused.into = None
      /\ Unused.fate = "none" /\ Unused.count = 0 /\ Unused.timestamp = 0 /\ Unused.duration = 0
      /\ ~Unused.tx /\ ~Unused.enabled /\ ~Unused.exit
  BY DEF Unused, SpanType, Used
<1>5. \A x \in Span : world.span[x] = Unused
  BY <1>1
<1>6. None \notin Span /\ Tx \notin Span /\ MaxTime \in Nat
  BY SpansFinite, SpanLifecycleAssumption
<1>7. world \in World
  BY <1>1, <1>3, <1>4 DEF World
<1> HIDE DEF world
<1>8. Identities(world) /\ Fates(world) /\ Caches(world)
  BY <1>1, <1>3, <1>4, <1>5, <1>6 DEF Identities, Fates, Caches
<1>9. Counts(world)
  <2>1. Counted(world.span) = {} /\ NotLet(world.span) = {} /\ UnderWay(world.span) = {}
    BY <1>4, <1>5 DEF Counted, NotLet, UnderWay, LetThrough
  <2>2. Cardinality({}) = 0
    BY FS_EmptySet
  <2> QED
    BY <1>1, <1>3, <2>1, <2>2 DEF Counts
<1>10. Composites(world)
  <2> SUFFICES ASSUME NEW c \in Span PROVE CompositeOf(world.span, c)
    BY DEF Composites
  <2>1. MembersOf(world.span, c) = {}
    BY <1>4, <1>5, <1>6 DEF MembersOf
  <2> QED
    BY <1>4, <1>5, <2>1 DEF CompositeOf
<1>11. Statistics(world)
  <2>1. Units(tx.stats, StatsKey) = {}
    <3>1. \A k \in StatsKey : 1..tx.stats[k] = {}
      BY <1>3
    <3> QED
      BY <3>1 DEF Units
  <2>2. KeysOf(tx.stats) = {}
    BY <1>3 DEF KeysOf
  <2>3. DroppedOf(world.span) = {}
    BY <1>4, <1>5 DEF DroppedOf
  <2>4. CallsOf(world.span) = {}
    BY <2>3 DEF CallsOf
  <2>5. Cardinality({}) = 0 /\ IsFiniteSet({})
    BY FS_EmptySet
  <2> QED
    BY <1>1, <2>1, <2>2, <2>4, <2>5 DEF Statistics
<1>12. WorldInv(world)
  BY <1>7, <1>8, <1>9, <1>10, <1>11 DEF WorldInv
<1>13. Phases(world.span, None)
  BY <1>1, <1>4, <1>5 DEF Phases
<1>14. Parents(world) /\ Held(world, None)
  BY <1>4, <1>5, <1>6 DEF Parents, Held
<1> QED
  BY <1>1, <1>6, <1>12, <1>13, <1>14 DEF SpanInv, StepInv

-----------------------------------------------------------------------------
(* What the invariant means *)

\* Every step keeps the invariant.
LEMMA SpanInvKept == SpanInv /\ [Next]_vars => SpanInv'
<1> SUFFICES ASSUME SpanInv, [Next]_vars PROVE SpanInv'
  OBVIOUS
<1>1. ASSUME NEW s \in Span, NEW shape \in Shape[s], StartRootSpan(s, shape) PROVE SpanInv'
  BY <1>1, StartRootStep
<1>2. ASSUME NEW s \in Span, NEW shape \in Shape[s], NEW p \in Span, StartChildSpan(s, shape, p)
      PROVE  SpanInv'
  BY <1>2, StartChildStep
<1>3. ASSUME NEW s \in Span, TraceContext(s) PROVE SpanInv'
  BY <1>3, TraceContextStep
<1>4. ASSUME NEW s \in Span, End(s) PROVE SpanInv'
  BY <1>4, EndStep
<1>5. ASSUME NEW s \in Span, EndMismatched(s) PROVE SpanInv'
  BY <1>5, EndMismatchedStep
<1>6. ASSUME NEW s \in Span, EndLocked(s) PROVE SpanInv'
  BY <1>6, EndLockedStep
<1>7. CASE EndTransaction
  BY <1>7, EndTransactionStep
<1>8. CASE Discard
  BY <1>8, DiscardStep
<1>9. CASE Tick
  BY <1>9, TickStep
<1>10. CASE UNCHANGED vars
  <2>1. now' = now /\ tx' = tx /\ span' = span
    BY <1>10 DEF vars
  <2> QED
    BY <2>1 DEF SpanInv, StepInv, Phases, world
<1> QED
  BY <1>1, <1>2, <1>3, <1>4, <1>5, <1>6, <1>7, <1>8, <1>9, <1>10 DEF Next

\* The invariant holds throughout.
LEMMA SpanInvHolds == Spec => []SpanInv
  BY InitStep, SpanInvKept, PTL DEF Spec

\* Counts: the sets that the properties count are those of the invariant.
LEMMA CountsFollow == SpanInv => CountsExact
<1> SUFFICES ASSUME SpanInv PROVE CountsExact
  OBVIOUS
<1>1. /\ now \in 0..MaxTime /\ WorldInv(world) /\ world.span = span /\ world.tx = tx
      /\ tx \in TxType /\ \A x \in Span : span[x] \in SpanType
  BY InvParts DEF SpanType
<1>2. TypeOK
  BY <1>1 DEF TypeOK, TxType
<1>3. SpanCountExact
  <2>1. Recorded \ With({"compressed", "fast"}) = Counted(span)
    BY DEF Recorded, With, Counted, LetThrough
  <2>2. {s \in Span : span[s].tx /\ span[s].id # s} \cup With({"fast"}) = NotLet(span)
    BY DEF With, NotLet
  <2>3. tx.data /\ tx.sampled => /\ tx.spansCreated = Cardinality(Counted(span))
                                 /\ tx.spansDropped = Cardinality(NotLet(span))
    BY <1>1 DEF WorldInv, Counts
  <2> QED
    BY <2>1, <2>2, <2>3 DEF SpanCountExact
<1>4. MaxSpansRespected
  <2>1. Recorded \cap With({"none", "cached", "enqueued"}) = UnderWay(span)
    BY DEF Recorded, With, UnderWay, LetThrough
  <2>2. tx.maxSpans >= 0 => Cardinality(UnderWay(span)) <= tx.maxSpans
    BY <1>1 DEF WorldInv, Counts
  <2> QED
    BY <2>1, <2>2 DEF MaxSpansRespected
<1>5. DroppedStatsExact
  <2>1. {s \in With({"fast", "aggregated"}) : span[s].tx} = DroppedOf(span)
    BY DEF With, DroppedOf
  <2>2. UNION {{k} \X (1..tx.stats[k]) : k \in StatsKey} = Units(tx.stats, StatsKey)
    BY DEF Units
  <2>3. {k \in StatsKey : tx.stats[k] > 0} = KeysOf(tx.stats)
    BY DEF KeysOf
  <2>4. Statistics(world)
    BY <1>1 DEF WorldInv
  <2>5. DroppedOf(span) \cup {s \in Span : span[s].into \in DroppedOf(span)} = CallsOf(span)
    BY DEF CallsOf
  <2> QED
    BY <1>1, <2>1, <2>2, <2>3, <2>4, <2>5, Zenon DEF DroppedStatsExact, Statistics
<1> QED
  BY <1>2, <1>3, <1>4, <1>5 DEF CountsExact

\* The counts a transaction reports are exact, and the statistics on dropped
\* spans with them, for any number of spans, any limits, and also when children
\* are started under spans that were cached, compressed or dropped: nothing that
\* End, compression, dropping and starting do to spansCreated, spansDropped and
\* droppedSpansStats in any order loses or repeats a span.
THEOREM CountsAreExact == Spec => []CountsExact
  BY SpanInvHolds, CountsFollow, PTL

\* Composites: the sum of the model is the number of units of the invariant.
LEMMA CompositesFollow == SpanInv => CompositeExact
<1> SUFFICES ASSUME SpanInv, NEW c \in Span
             PROVE  LET members == Members(c)
                        r == span[c]
                        max == IF r.strategy = "exact_match" THEN ExactMatchMax ELSE SameKindMax
                    IN  /\ r.count = IF members = {} THEN 0 ELSE Cardinality(members) + 1
                        /\ r.fate = "cached" /\ members # {} =>
                               /\ r.sum = SumSpans(members \cup {c})
                               /\ r.duration <= max
                        /\ \A m \in members :
                               /\ span[m].parentID = r.parentID /\ span[m].type = r.type
                               /\ span[m].exit /\ span[m].ok /\ span[m].duration <= max
                               /\ r.strategy = "exact_match" => span[m].name = r.name
  BY DEF CompositeExact
<1>1. /\ WorldInv(world) /\ Phases(span, None) /\ world.span = span
      /\ \A x \in Span : span[x] \in SpanType
  BY InvParts
<1>2. CompositeOf(span, c)
  BY <1>1 DEF WorldInv, Composites
<1>3. \A x \in Span : span[x].duration \in Nat
  BY <1>1 DEF Phases, SpanType
<1>4. MembersOf(span, c) = Members(c) /\ Members(c) \cup {c} \in SUBSET Span
  BY DEF MembersOf, Members
<1>5. SumSpans(Members(c) \cup {c}) = SumOf(span, Members(c) \cup {c})
  BY <1>3, <1>4, SumSpansIs DEF SumOf
<1> QED
  BY <1>2, <1>4, <1>5 DEF CompositeOf, Belongs, MaxOf

\* A composite is what it says, for any number of spans and any limits: its count
\* and sum are those of the spans compressed into it, whatever was compressed,
\* evicted and propagated in between.
THEOREM CompositesAreExact == Spec => []CompositeExact
  BY SpanInvHolds, CompositesFollow, PTL

\* Parents: none of them is compressed or dropped for being fast.
LEMMA ParentsFollow == ~LateChildren /\ SpanInv => ParentsReported
<1> SUFFICES ASSUME ~LateChildren, SpanInv, NEW s \in Span, span[s].parentID \in Span
             PROVE  span[span[s].parentID].fate \notin {"compressed", "fast"}
  BY DEF ParentsReported
<1>1. StepInv(world, None, None) /\ world.span = span
  BY InvParts
<1>2. Parents(world)
  BY <1>1 DEF StepInv
<1> QED
  BY <1>1, <1>2 DEF Parents

\* No orphans, for any number of spans, as long as no child is started under a
\* span that has been cached, compressed or dropped: handing out a span's context
\* keeps its End from compressing or dropping it, in whatever order the calls
\* come.  With such children the claim is false: StartSpanOptions takes any
\* parent.
THEOREM ParentsAreReported == ~LateChildren => (Spec => []ParentsReported)
<1> SUFFICES ASSUME ~LateChildren PROVE Spec => []ParentsReported
  OBVIOUS
<1>1. SpanInv => ParentsReported
  BY ParentsFollow
<1> QED
  BY <1>1, SpanInvHolds, PTL

\* Caches: a cached span is in one that will be flushed, but for those kept.
LEMMA CachesFollow == ~LateChildren /\ SpanInv => NothingElseStranded
<1> SUFFICES ASSUME ~LateChildren, SpanInv, NEW s \in With({"cached"})
             PROVE  InLiveCache(s) \/ \E h \in Span : span[h].cache = s /\ KeepsCache(span[h])
  BY DEF NothingElseStranded
<1>1. StepInv(world, None, None) /\ world.span = span /\ world.tx = tx /\ None \notin Span
  BY InvParts
<1>2. Held(world, None)
  BY <1>1 DEF StepInv
<1>3. s \in Span /\ span[s].fate = "cached" /\ s # None
  BY <1>1 DEF With
<1>4. \/ tx.data /\ tx.cache = s
      \/ \E h \in Span : /\ span[h].cache = s
                         /\ span[h].phase # "ended" \/ Keeps(span, span[h])
  BY <1>1, <1>2, <1>3 DEF Held
<1> QED
  BY <1>4 DEF InLiveCache, KeepsCache, Keeps, Mismatched

\* No cached span is forgotten, for any number of spans, as long as no child is
\* started under a span that has been cached, compressed or dropped, but for
\* those cached in a span whose End does not flush its cache: a mismatched child
\* of an exit span, or a span that was refused at the start.
THEOREM NothingElseIsStranded == ~LateChildren => (Spec => []NothingElseStranded)
<1> SUFFICES ASSUME ~LateChildren PROVE Spec => []NothingElseStranded
  OBVIOUS
<1>1. SpanInv => NothingElseStranded
  BY CachesFollow
<1> QED
  BY <1>1, SpanInvHolds, PTL
=============================================================================
