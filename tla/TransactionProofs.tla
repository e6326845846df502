-------------------------- MODULE TransactionProofs --------------------------
(***************************************************************************)
(* Theorems about what a transaction gathers while it runs, for every      *)
(* value of the constants: self-times are exact for any tree of spans and  *)
(* breakdown metrics lose nothing for any number of goroutines, keys and   *)
(* hashes (Breakdown); a captured body is the request's own and its limit  *)
(* does not split a character (BodyCapture); errors and transactions that  *)
(* use the same pooled data do not mix (ErrorCapture).                     *)
(***************************************************************************)
EXTENDS Breakdown, BodyCapture, ErrorCapture, FiniteSetTheorems, SequenceTheorems,
        WellFoundedInduction, TLAPS

-----------------------------------------------------------------------------
(* Self-times *)

Timer == [active : Int, start : Int, totalDuration : Int]

\* The children of x that are running.
Running(x) == {s \in Sp : Parent[s] = x /\ state[s] = "running"}

\* The children timer of x says how many children of x are running, and how long
\* x has run with none of them.
Exact(x) ==
    /\ ct[x].active = Cardinality(Running(x))
    /\ busy[x] = (now - began[x]) - FinalDuration(ct[x], now)

\* The inductive invariant behind SelfTimeExact: the timers are exact as long as
\* both they and the transaction run; a span that has not started has no running
\* children, since nothing starts under it.
TimeInv ==
    /\ now \in Nat
    /\ state \in [Node -> {"new", "running", "ended"}] /\ began \in [Node -> Int]
    /\ ct \in [Node -> Timer] /\ self \in [Node -> Int] /\ busy \in [Node -> Int]
    /\ state[TheTx] # "new"
    /\ \A s \in Sp : state[s] # "new" => state[Parent[s]] # "new"
    /\ \A x \in Node :
           /\ state[x] = "new" => busy[x] = 0 /\ ct[x].active = 0 /\ ct[x].totalDuration = 0
           /\ state[x] = "running" /\ state[TheTx] = "running" => Exact(x)
           /\ self[x] # -1 => self[x] = busy[x] /\ state[x] = "ended"

\* There are finitely many of them.
LEMMA RunningFinite ==
    ASSUME NEW S, S \subseteq Sp
    PROVE  IsFiniteSet(S) /\ Cardinality(S) \in Nat /\ (Cardinality(S) = 0 <=> S = {})
  BY BreakdownAssumption, FS_Subset, FS_CardinalityType, FS_EmptySet

\* The transaction starts with no spans.
LEMMA TimeInitial == TimeInit => TimeInv
<1> SUFFICES ASSUME TimeInit PROVE TimeInv
  OBVIOUS
<1>1. /\ \A x \in Node : /\ ct[x] = [active |-> 0, start |-> 0, totalDuration |-> 0]
                         /\ busy[x] = 0 /\ self[x] = -1 /\ began[x] = 0
                         /\ state[x] = (IF x = TheTx THEN "running" ELSE "new")
      /\ now = 0 /\ ct \in [Node -> Timer]
      /\ state \in [Node -> {"new", "running", "ended"}] /\ began \in [Node -> Int]
      /\ self \in [Node -> Int] /\ busy \in [Node -> Int]
  BY DEF TimeInit, Timer
<1>2. TheTx \notin Sp /\ Sp \subseteq Node /\ TheTx \in Node
  BY BreakdownAssumption DEF Node
<1>3. Exact(TheTx)
  <2>1. Running(TheTx) = {}
    BY <1>1, <1>2 DEF Running
  <2>2. Cardinality(Running(TheTx)) = 0
    BY <2>1, FS_EmptySet
  <2> QED
    BY <1>1, <1>2, <2>2 DEF Exact, FinalDuration
<1> QED
  BY <1>1, <1>2, <1>3 DEF TimeInv

\* A child of x that starts or ends.
LEMMA TimerSteps ==
    ASSUME NEW t \in Timer, NEW n \in Int
    PROVE  /\ ChildStarted(t, n) \in Timer /\ ChildEnded(t, n) \in Timer
           /\ ChildStarted(t, n).active = t.active + 1
           /\ ChildEnded(t, n).active = t.active - 1
           /\ t.active >= 0 => FinalDuration(ChildStarted(t, n), n) = FinalDuration(t, n)
           /\ t.active >= 1 => FinalDuration(ChildEnded(t, n), n) = FinalDuration(t, n)
<1> DEFINE a == ChildStarted(t, n)
           b == ChildEnded(t, n)
           u == [t EXCEPT !.active = @ + 1]
           v == [t EXCEPT !.active = @ - 1]
<1>1. t.active \in Int /\ t.start \in Int /\ t.totalDuration \in Int
  BY DEF Timer
<1>2. /\ a.active = t.active + 1 /\ a.totalDuration = t.totalDuration
      /\ a.start = IF t.active = 0 THEN n ELSE t.start
  BY DEF Timer, ChildStarted
<1>3. /\ b.active = t.active - 1 /\ b.start = t.start
      /\ b.totalDuration = IF t.active = 1 THEN t.totalDuration + (n - t.start)
                                           ELSE t.totalDuration
  BY DEF Timer, ChildEnded
<1>4. a \in Timer
  <2>1. u \in Timer /\ u.start = t.start
    BY <1>1 DEF Timer
  <2>2. a = [u EXCEPT !.start = IF t.active = 0 THEN n ELSE @]
    BY DEF ChildStarted, Timer
  <2> HIDE DEF a, u
  <2> QED
    BY <1>1, <2>1, <2>2 DEF Timer
<1>5. b \in Timer
  <2>1. v \in Timer /\ v.totalDuration = t.totalDuration
    BY <1>1 DEF Timer
  <2>2. b = [v EXCEPT !.totalDuration = IF t.active = 1 THEN @ + (n - t.start) ELSE @]
    BY DEF ChildEnded, Timer
  <2> HIDE DEF b, v
  <2> QED
    BY <1>1, <2>1, <2>2 DEF Timer
<1> HIDE DEF a, b
<1>6. t.active >= 0 => FinalDuration(a, n) = FinalDuration(t, n)
  BY <1>1, <1>2 DEF FinalDuration
<1>7. t.active >= 1 => FinalDuration(b, n) = FinalDuration(t, n)
  BY <1>1, <1>3 DEF FinalDuration
<1> QED
  BY <1>2, <1>3, <1>4, <1>5, <1>6, <1>7 DEF a, b

\* Every step keeps the invariant.
LEMMA TimeStep == TimeInv /\ [TimeNext]_timeVars => TimeInv'
<1> SUFFICES ASSUME TimeInv, [TimeNext]_timeVars PROVE TimeInv'
  OBVIOUS
<1>1. /\ now \in Nat /\ now \in Int
      /\ state \in [Node -> {"new", "running", "ended"}] /\ began \in [Node -> Int]
      /\ ct \in [Node -> Timer] /\ self \in [Node -> Int] /\ busy \in [Node -> Int]
      /\ Sp \subseteq Node /\ TheTx \in Node /\ TheTx \notin Sp
      /\ \A s \in Sp : Parent[s] \in Node
  BY BreakdownAssumption DEF TimeInv, Node
<1>2. \A x \in Node : ct[x].active \in Int /\ ct[x].start \in Int /\ ct[x].totalDuration \in Int
  BY <1>1 DEF Timer
<1>3. ASSUME NEW s \in Sp, StartSpan(s) PROVE TimeInv'
  <2> DEFINE p == Parent[s]
  <2>1. /\ state[s] = "new" /\ state[TheTx] = "running" /\ state[p] # "new" /\ p # s
        /\ state' = [state EXCEPT ![s] = "running"]
        /\ began' = [began EXCEPT ![s] = now]
        /\ ct' = IF state[p] = "running" THEN [ct EXCEPT ![p] = ChildStarted(ct[p], now)] ELSE ct
        /\ now' = now /\ self' = self /\ busy' = busy
        /\ p \in Node
    BY <1>1, <1>3 DEF StartSpan
  <2>2. ct' \in [Node -> Timer]
    BY <1>1, <2>1, TimerSteps
  <2>3. \A x \in Node : /\ x # s => state'[x] = state[x] /\ began'[x] = began[x]
                        /\ x # p => ct'[x] = ct[x]
                        /\ x = s => state'[x] = "running" /\ began'[x] = now
    BY <1>1, <2>1
  <2>4. \A y \in Sp : state'[y] # "new" => state'[Parent[y]] # "new"
    BY <1>1, <2>1, <2>3 DEF TimeInv
  <2>5. ASSUME NEW x \in Node, state'[x] = "running", state'[TheTx] = "running"
        PROVE  Exact(x)'
    <3>1. CASE x = s
      <4>1. Running(x)' = {}
        BY <1>1, <2>1, <2>3, <3>1 DEF Running, TimeInv
      <4>2. Cardinality(Running(x)') = 0
        BY <4>1, FS_EmptySet
      <4>3. ct'[x] = ct[x] /\ ct[x].active = 0 /\ ct[x].totalDuration = 0 /\ busy[x] = 0
        BY <2>1, <2>3, <3>1 DEF TimeInv
      <4> QED
        BY <1>1, <2>1, <2>3, <3>1, <4>2, <4>3 DEF Exact, FinalDuration
    <3>2. CASE x = p
      <4>1. state[x] = "running" /\ Exact(x)
        BY <1>1, <2>1, <2>3, <2>5, <3>2 DEF TimeInv
      <4>2. Running(x)' = Running(x) \cup {s} /\ s \notin Running(x)
        BY <1>1, <2>1, <2>3, <3>2 DEF Running
      <4>3. /\ IsFiniteSet(Running(x)) /\ Cardinality(Running(x)) \in Nat
        BY RunningFinite DEF Running
      <4>4. Cardinality(Running(x)') = Cardinality(Running(x)) + 1
        BY <4>2, <4>3, FS_AddElement
      <4>5. ct'[x] = ChildStarted(ct[x], now)
        BY <1>1, <2>1, <3>2, <4>1
      <4>6. /\ ct'[x].active = ct[x].active + 1
            /\ FinalDuration(ct'[x], now) = FinalDuration(ct[x], now)
        <5>1. ct[x] \in Timer /\ ct[x].active \in Nat
          BY <1>1, <4>1, <4>3 DEF Exact
        <5>2. ct[x].active >= 0
          BY <5>1
        <5> QED
          BY <1>1, <4>5, <5>1, <5>2, TimerSteps
      <4> QED
        BY <2>1, <2>3, <3>2, <4>1, <4>4, <4>6 DEF Exact
    <3>3. CASE x \notin {s, p}
      <4>1. state[x] = "running" /\ Exact(x)
        BY <1>1, <2>1, <2>3, <2>5, <3>3 DEF TimeInv
      <4>2. Running(x)' = Running(x)
        BY <1>1, <2>1, <2>3, <3>3 DEF Running
      <4> QED
        BY <2>1, <2>3, <3>3, <4>1, <4>2 DEF Exact
    <3> QED
      BY <3>1, <3>2, <3>3
  <2>6. ASSUME NEW x \in Node, state'[x] = "new"
        PROVE  busy'[x] = 0 /\ ct'[x].active = 0 /\ ct'[x].totalDuration = 0
    BY <2>1, <2>3, <2>6 DEF TimeInv
  <2>7. ASSUME NEW x \in Node, self'[x] # -1 PROVE self'[x] = busy'[x] /\ state'[x] = "ended"
    BY <2>1, <2>3, <2>7 DEF TimeInv
  <2> QED
    BY <1>1, <2>1, <2>2, <2>4, <2>5, <2>6, <2>7 DEF TimeInv
<1>4. ASSUME NEW s \in Sp, EndSpan(s) PROVE TimeInv'
  <2> DEFINE p == Parent[s]
             d == (now - began[s]) - FinalDuration(ct[s], now)
  <2>1. /\ state[s] = "running" /\ state' = [state EXCEPT ![s] = "ended"]
        /\ \/ state[TheTx] = "ended" /\ ct' = ct /\ self' = self
           \/ /\ state[TheTx] # "ended"
              /\ ct' = IF state[p] = "running" THEN [ct EXCEPT ![p] = ChildEnded(ct[p], now)] ELSE ct
              /\ self' = [self EXCEPT ![s] = d]
        /\ now' = now /\ began' = began /\ busy' = busy
        /\ p \in Node /\ state[TheTx] # "new"
    <3>1. state[TheTx] # "new"
      BY <1>1, <1>4 DEF EndSpan, TimeInv
    <3> QED
      BY <1>1, <1>4, <3>1 DEF EndSpan
  <2>2. d \in Int
    BY <1>1, <1>2 DEF FinalDuration
  <2>3. ct' \in [Node -> Timer] /\ self' \in [Node -> Int]
    <3>1. ct[p] \in Timer /\ ChildEnded(ct[p], now) \in Timer
      BY <1>1, <2>1, TimerSteps
    <3>2. ct' \in [Node -> Timer]
      BY <1>1, <2>1, <3>1
    <3>3. self' \in [Node -> Int]
      <4> HIDE DEF d
      <4> QED
        BY <1>1, <2>1, <2>2
    <3> QED
      BY <3>2, <3>3
  <2>4. \A x \in Node : /\ x # s => state'[x] = state[x] /\ self'[x] = self[x]
                        /\ x # p => ct'[x] = ct[x]
                        /\ x = s => state'[x] = "ended"
    BY <1>1, <2>1
  <2>5. \A y \in Sp : state'[y] # "new" => state'[Parent[y]] # "new"
    BY <1>1, <2>1, <2>4 DEF TimeInv
  <2>6. ASSUME NEW x \in Node, state'[x] = "running", state'[TheTx] = "running"
        PROVE  Exact(x)'
    <3>1. x # s /\ state[x] = "running" /\ state[TheTx] = "running" /\ Exact(x)
      BY <1>1, <2>4, <2>6 DEF TimeInv
    <3>2. CASE x = p
      <4>1. s \in Running(x) /\ Running(x)' = Running(x) \ {s}
        BY <1>1, <2>1, <2>4, <3>2 DEF Running
      <4>2. IsFiniteSet(Running(x)) /\ Cardinality(Running(x)) \in Nat /\ Cardinality(Running(x)) # 0
        BY <4>1, RunningFinite DEF Running
      <4>3. Cardinality(Running(x)') = Cardinality(Running(x)) - 1
        BY <4>1, <4>2, FS_RemoveElement
      <4>4. ct'[x] = ChildEnded(ct[x], now)
        BY <1>1, <2>1, <3>1, <3>2
      <4>5. /\ ct'[x].active = ct[x].active - 1
            /\ FinalDuration(ct'[x], now) = FinalDuration(ct[x], now)
        <5>1. ct[x] \in Timer /\ ct[x].active \in Nat \ {0}
          BY <1>1, <3>1, <4>2 DEF Exact
        <5>2. ct[x].active >= 1
          BY <5>1
        <5> QED
          BY <1>1, <4>4, <5>1, <5>2, TimerSteps
      <4> QED
        BY <2>1, <3>1, <4>3, <4>5 DEF Exact
    <3>3. CASE x # p
      <4>1. Running(x)' = Running(x)
        BY <1>1, <2>1, <2>4, <3>3 DEF Running
      <4> QED
        BY <2>1, <2>4, <3>1, <3>3, <4>1 DEF Exact
    <3> QED
      BY <3>2, <3>3
  <2>7. ASSUME NEW x \in Node, state'[x] = "new"
        PROVE  busy'[x] = 0 /\ ct'[x].active = 0 /\ ct'[x].totalDuration = 0
    <3>1. x # p
      BY <1>1, <2>1, <2>4, <2>7 DEF TimeInv
    <3> QED
      BY <2>1, <2>4, <2>7, <3>1 DEF TimeInv
  <2>8. ASSUME NEW x \in Node, self'[x] # -1 PROVE self'[x] = busy'[x] /\ state'[x] = "ended"
    <3>1. CASE x = s /\ state[TheTx] # "ended"
      <4>1. Exact(s)
        BY <1>1, <2>1, <3>1 DEF TimeInv
      <4> QED
        BY <1>1, <2>1, <2>4, <3>1, <4>1 DEF Exact
    <3>2. CASE x # s \/ state[TheTx] = "ended"
      BY <2>1, <2>4, <2>8, <3>2 DEF TimeInv
    <3> QED
      BY <3>1, <3>2
  <2> QED
    BY <1>1, <2>1, <2>3, <2>5, <2>6, <2>7, <2>8 DEF TimeInv
<1>5. CASE EndTx
  <2> DEFINE d == (now - began[TheTx]) - FinalDuration(ct[TheTx], now)
  <2>1. /\ state[TheTx] = "running" /\ state' = [state EXCEPT ![TheTx] = "ended"]
        /\ self' = [self EXCEPT ![TheTx] = d]
        /\ now' = now /\ began' = began /\ ct' = ct /\ busy' = busy
    BY <1>5 DEF EndTx
  <2>2. d \in Int /\ d = busy[TheTx]
    BY <1>1, <1>2, <2>1 DEF FinalDuration, TimeInv, Exact
  <2> HIDE DEF d
  <2>3. /\ self' \in [Node -> Int] /\ state' \in [Node -> {"new", "running", "ended"}]
        /\ \A x \in Node : /\ x # TheTx => state'[x] = state[x] /\ self'[x] = self[x]
                           /\ x = TheTx => state'[x] = "ended" /\ self'[x] = d
    BY <1>1, <2>1, <2>2
  <2> QED
    BY <1>1, <2>1, <2>2, <2>3 DEF TimeInv
<1>6. CASE Tick
  <2>1. /\ now' = now + 1
        /\ busy' = [x \in Node |-> busy[x] +
               (IF /\ state[x] = "running"
                   /\ \A s \in Sp : Parent[s] = x => state[s] # "running" THEN 1 ELSE 0)]
        /\ state' = state /\ began' = began /\ ct' = ct /\ self' = self
    BY <1>6 DEF Tick
  <2>2. /\ busy' \in [Node -> Int]
        /\ \A x \in Node : busy'[x] = busy[x] +
               (IF state[x] = "running" /\ Running(x) = {} THEN 1 ELSE 0)
    BY <1>1, <2>1 DEF Running
  <2>3. ASSUME NEW x \in Node, state[x] = "running", state[TheTx] = "running" PROVE Exact(x)'
    <3>1. Exact(x)
      BY <2>3 DEF TimeInv
    <3>2. Running(x)' = Running(x)
      BY <2>1 DEF Running
    <3>3. Cardinality(Running(x)) \in Nat /\ (Cardinality(Running(x)) = 0 <=> Running(x) = {})
      BY RunningFinite DEF Running
    <3> QED
      BY <1>1, <1>2, <2>1, <2>2, <2>3, <3>1, <3>2, <3>3 DEF Exact, FinalDuration
  <2> QED
    BY <1>1, <2>1, <2>2, <2>3 DEF TimeInv
<1>7. CASE UNCHANGED timeVars
  BY <1>7 DEF timeVars, TimeInv, Exact, Running
<1> QED
  BY <1>3, <1>4, <1>5, <1>6, <1>7 DEF TimeNext

\* The self-time reported for a transaction or a span (childrenTimer, breakdown.go)
\* is the time it ran with no child of it running, for any tree of spans, however
\* they overlap and outlive each other.
THEOREM SelfTimesAreExact == TimeSpec => []SelfTimeExact
<1>1. TimeInv => SelfTimeExact
  BY DEF TimeInv, SelfTimeExact
<1> QED
  BY <1>1, TimeInitial, TimeStep, PTL DEF TimeSpec
-----------------------------------------------------------------------------
(* Breakdown metrics *)

Entry == [key : Key, count : Int]

\* The entries of a chain have its hash, and keys of their own.
ChainOK(c, h) ==
    /\ c \in Seq(Entry)
    /\ \A i \in DOMAIN c : Hash[c[i].key] = h
    /\ \A i, j \in DOMAIN c : c[i].key = c[j].key => i = j

\* d is c with other counts, and maybe more entries.
Grows(c, d) == Len(c) <= Len(d) /\ \A i \in 1..Len(c) : d[i].key = c[i].key

\* What a chain holds for k: the count of the only entry it can have.
LEMMA CountOfIs ==
    ASSUME NEW h, NEW c, ChainOK(c, h), NEW k \in Key
    PROVE  /\ (\A i \in DOMAIN c : c[i].key # k) => CountOf(c, k) = 0
           /\ \A i \in DOMAIN c : c[i].key = k => CountOf(c, k) = c[i].count
           /\ CountOf(c, k) \in Int
<1> DEFINE S == {i \in DOMAIN c : c[i].key = k}
           G(f) == [s \in SUBSET S |-> IF s = {} THEN 0
                       ELSE c[CHOOSE x \in s : TRUE].count + f[s \ {CHOOSE x \in s : TRUE}]]
           f == CHOOSE ff : ff = G(ff)
           g == [s \in SUBSET S |-> IF s = {} THEN 0 ELSE c[CHOOSE x \in s : TRUE].count]
<1>1. CountOf(c, k) = f[S]
  BY DEF CountOf, FoldSet, MapThenFoldSet
<1>2. \A i, j \in S : i = j
  BY DEF ChainOK
<1>3. \A i \in S : c[i].count \in Int
  <2>1. \A i \in DOMAIN c : c[i] \in Entry
    BY DEF ChainOK
  <2> QED
    BY <2>1 DEF Entry
<1>4. g = G(g)
  <2>1. ASSUME NEW s \in SUBSET S PROVE g[s] = G(g)[s]
    <3>1. CASE s = {}
      BY <3>1
    <3>2. CASE s # {}
      <4> DEFINE x == CHOOSE y \in s : TRUE
      <4>1. x \in s
        BY <3>2
      <4>2. s \ {x} = {} /\ s \ {x} \in SUBSET S
        BY <1>2, <4>1
      <4>3. g[s \ {x}] = 0 /\ c[x].count \in Int
        BY <1>3, <4>1, <4>2
      <4> QED
        BY <3>2, <4>3
    <3> QED
      BY <3>1, <3>2
  <2> QED
    BY <2>1
<1>5. f = G(f)
  BY <1>4
<1> HIDE DEF f
<1>6. f[{}] = 0
  BY <1>5
<1>7. ASSUME NEW i \in S PROVE f[S] = c[i].count
  <2> DEFINE x == CHOOSE y \in S : TRUE
  <2>1. x \in S /\ S # {}
    BY <1>7
  <2>2. x = i /\ S \ {x} = {} /\ S \in SUBSET S
    BY <1>2, <2>1
  <2>3. f[S] = c[x].count + f[S \ {x}]
    BY <1>5, <2>1, <2>2
  <2>4. c[x] = c[i] /\ c[i].count \in Int /\ f[S \ {x}] = 0
    BY <1>3, <1>6, <1>7, <2>2
  <2> HIDE DEF S, x
  <2> QED
    BY <2>3, <2>4
<1>8. CASE S = {}
  <2>1. CountOf(c, k) = 0
    BY <1>1, <1>6, <1>8
  <2> QED
    BY <1>8, <2>1
<1>9. CASE S # {}
  <2>1. \A i \in S : CountOf(c, k) = c[i].count /\ c[i].count \in Int
    BY <1>1, <1>3, <1>7, Zenon
  <2> QED
    BY <1>9, <2>1
<1> QED
  BY <1>8, <1>9

\* The count of the entry of k.
LEMMA CountOfEntry ==
    ASSUME NEW h, NEW c, ChainOK(c, h), NEW i \in DOMAIN c, NEW k \in Key, c[i].key = k
    PROVE  CountOf(c, k) = c[i].count
  BY CountOfIs, Zenon

\* A chain without k holds nothing for it.
LEMMA CountOfNone ==
    ASSUME NEW h, NEW c, ChainOK(c, h), NEW k \in Key, \A i \in DOMAIN c : c[i].key # k
    PROVE  CountOf(c, k) = 0
  BY CountOfIs, Zenon

\* d is c with one more of k.
OneMore(c, k, d) ==
    /\ Grows(c, d)
    /\ CountOf(d, k) = CountOf(c, k) + 1
    /\ \A j \in Key \ {k} : CountOf(d, j) = CountOf(c, j)

Increment(c, i) == [c EXCEPT ![i].count = @ + 1]

\* An entry of a chain is accumulated into.
LEMMA Accumulated ==
    ASSUME NEW h, NEW c, ChainOK(c, h), NEW i \in DOMAIN c
    PROVE  ChainOK(Increment(c, i), h) /\ OneMore(c, c[i].key, Increment(c, i))
<1> DEFINE d == Increment(c, i)
<1>1. /\ c \in Seq(Entry) /\ \A j \in DOMAIN c : c[j] \in Entry
      /\ Len(c) \in Nat /\ DOMAIN c = 1..Len(c) /\ c[i].key \in Key
  <2>1. c \in Seq(Entry)
    BY DEF ChainOK
  <2>2. c[i] \in Entry
    BY <2>1
  <2>3. c[i].key \in Key
    BY <2>2 DEF Entry
  <2> QED
    BY <2>1, <2>3
<1> DEFINE e == [c[i] EXCEPT !.count = @ + 1]
<1>2. d = [c EXCEPT ![i] = e]
  BY DEF Increment
<1> HIDE DEF d
<1>3. e \in Entry /\ e.key = c[i].key /\ e.count = c[i].count + 1
  BY <1>1 DEF Entry
<1> HIDE DEF e
<1>4. /\ d \in Seq(Entry) /\ DOMAIN d = DOMAIN c /\ Len(d) = Len(c)
      /\ \A j \in DOMAIN c : d[j].key = c[j].key /\ (j # i => d[j] = c[j])
      /\ d[i] = e
  BY <1>1, <1>2, <1>3
<1>5. ChainOK(d, h) /\ Grows(c, d)
  BY <1>1, <1>4 DEF ChainOK, Grows
<1>6. CountOf(d, c[i].key) = d[i].count /\ CountOf(c, c[i].key) = c[i].count
  <2>1. i \in DOMAIN d /\ d[i].key = c[i].key
    BY <1>3, <1>4
  <2> QED
    BY <1>1, <1>5, <2>1, CountOfEntry, Zenon
<1>7. ASSUME NEW k \in Key \ {c[i].key} PROVE CountOf(d, k) = CountOf(c, k)
  <2>1. CASE \E j \in DOMAIN c : c[j].key = k
    <3> PICK j \in DOMAIN c : c[j].key = k
      BY <2>1
    <3>1. CountOf(c, k) = c[j].count /\ CountOf(d, k) = d[j].count /\ j # i
      <4>1. j # i /\ j \in DOMAIN d /\ d[j].key = k
        BY <1>4, <1>7
      <4>2. CountOf(c, k) = c[j].count
        BY CountOfEntry, Zenon
      <4>3. CountOf(d, k) = d[j].count
        BY <1>5, <4>1, CountOfEntry, Zenon
      <4> QED
        BY <4>1, <4>2, <4>3
    <3> QED
      BY <1>4, <3>1
  <2>2. CASE \A j \in DOMAIN c : c[j].key # k
    <3>1. CountOf(c, k) = 0 /\ CountOf(d, k) = 0
      <4>1. \A j \in DOMAIN d : d[j].key # k
        BY <1>4, <2>2
      <4>2. CountOf(c, k) = 0
        BY <2>2, CountOfNone, Zenon
      <4>3. CountOf(d, k) = 0
        BY <1>5, <4>1, CountOfNone, Zenon
      <4> QED
        BY <4>2, <4>3
    <3> QED
      BY <3>1
  <2> QED
    BY <2>1, <2>2
<1>8. CountOf(d, c[i].key) = CountOf(c, c[i].key) + 1
  BY <1>3, <1>4, <1>6
<1> QED
  BY <1>5, <1>7, <1>8 DEF d, OneMore

Extended(c, k) == Append(c, [key |-> k, count |-> 1])

\* A chain gets an entry of a key it does not have.
LEMMA Appended ==
    ASSUME NEW h, NEW c, ChainOK(c, h), NEW k \in Key, Hash[k] = h,
           \A i \in DOMAIN c : c[i].key # k
    PROVE  ChainOK(Extended(c, k), h) /\ OneMore(c, k, Extended(c, k))
<1> DEFINE e == [key |-> k, count |-> 1]
           d == Extended(c, k)
<1>1. c \in Seq(Entry) /\ Len(c) \in Nat /\ DOMAIN c = 1..Len(c)
  BY DEF ChainOK
<1>2. e \in Entry /\ e.key = k /\ e.count = 1
  BY DEF Entry
<1>3. d = Append(c, e)
  BY DEF Extended
<1> HIDE DEF e, d
<1>4. /\ d \in Seq(Entry) /\ Len(d) = Len(c) + 1 /\ DOMAIN d = 1..Len(c) + 1
      /\ \A i \in DOMAIN c : d[i] = c[i]
      /\ d[Len(c) + 1] = e
  BY <1>1, <1>2, <1>3
<1>5. ChainOK(d, h) /\ Grows(c, d)
  <2>1. \A i \in DOMAIN d : Hash[d[i].key] = h
    BY <1>1, <1>2, <1>4 DEF ChainOK
  <2>2. \A i, j \in DOMAIN d : d[i].key = d[j].key => i = j
    BY <1>1, <1>2, <1>4 DEF ChainOK
  <2> QED
    BY <1>1, <1>4, <2>1, <2>2 DEF ChainOK, Grows
<1>6. CountOf(d, k) = 1 /\ CountOf(c, k) = 0
  <2>1. CountOf(c, k) = 0
    BY <1>1, CountOfIs
  <2>2. Len(c) + 1 \in DOMAIN d
    BY <1>1, <1>4
  <2>3. CountOf(d, k) = d[Len(c) + 1].count
    <3>1. d[Len(c) + 1].key = k
      BY <1>2, <1>4
    <3> QED
      BY <1>5, <2>2, <3>1, CountOfEntry, Zenon
  <2> QED
    BY <1>2, <1>4, <2>1, <2>3
<1>7. ASSUME NEW j \in Key \ {k} PROVE CountOf(d, j) = CountOf(c, j)
  <2>1. CASE \E i \in DOMAIN c : c[i].key = j
    <3> PICK i \in DOMAIN c : c[i].key = j
      BY <2>1
    <3>1. CountOf(c, j) = c[i].count
      BY <1>1, CountOfIs
    <3>2. i \in DOMAIN d /\ d[i] = c[i]
      BY <1>1, <1>4
    <3>3. CountOf(d, j) = d[i].count
      <4>1. d[i].key = j
        BY <3>2
      <4> QED
        BY <1>5, <3>2, <4>1, CountOfEntry, Zenon
    <3> QED
      BY <3>1, <3>2, <3>3
  <2>2. CASE \A i \in DOMAIN c : c[i].key # j
    <3>1. CountOf(c, j) = 0
      BY <1>1, <2>2, CountOfIs
    <3>2. \A i \in DOMAIN d : d[i].key # j
      BY <1>1, <1>2, <1>4, <1>7, <2>2
    <3>3. CountOf(d, j) = 0
      BY <1>4, <1>5, <3>2, CountOfIs
    <3> QED
      BY <3>1, <3>3
  <2> QED
    BY <2>1, <2>2
<1>8. CountOf(d, k) = CountOf(c, k) + 1
  BY <1>6
<1> QED
  BY <1>5, <1>7, <1>8 DEF d, OneMore

\* A nonempty set of natural numbers has a least element.
LEMMA LeastElement ==
    ASSUME NEW T \in SUBSET Nat, T # {}
    PROVE  \E x \in T : \A y \in T : x <= y
<1> DEFINE R == OpToRel(<, Nat)
<1>1. IsWellFoundedOn(R, Nat)
  BY NatLessThanWellFounded
<1>2. \A x, y \in Nat : y < x => <<y, x>> \in R
  BY DEF OpToRel
<1> HIDE DEF R
<1>3. PICK x \in T : \A y \in T : ~(<<y, x>> \in R)
  BY <1>1, WFMin
<1>4. ASSUME NEW y \in T PROVE x <= y
  <2>1. x \in Nat /\ y \in Nat
    OBVIOUS
  <2>2. ~(y < x)
    BY <1>2, <1>3, <2>1, Zenon
  <2> QED
    BY <2>1, <2>2
<1> QED
  BY <1>4

\* Search finds k if it is there.
LEMMA SearchIs ==
    ASSUME NEW c \in Seq(Entry), NEW k \in Key, NEW from \in Nat \ {0}
    PROVE  LET at == Search(c, k, from) IN
           /\ at # 0 => at \in DOMAIN c /\ c[at].key = k
           /\ at = 0 => \A i \in from..Len(c) : c[i].key # k
<1> DEFINE S == {i \in from..Len(c) : c[i].key = k}
<1>1. S \in SUBSET Nat /\ S \subseteq DOMAIN c /\ 0 \notin S
  OBVIOUS
<1>2. CASE S = {}
  BY <1>2 DEF Search
<1>3. CASE S # {}
  <2>1. \E x \in S : \A y \in S : x <= y
    BY <1>1, <1>3, LeastElement
  <2>2. Min(S) \in S
    BY <2>1 DEF Min
  <2>3. Search(c, k, from) = Min(S)
    BY <1>3 DEF Search
  <2> QED
    BY <1>1, <2>2, <2>3
<1> QED
  BY <1>2, <1>3

Pcs == {"idle", "read", "found", "write", "done"}
Recording1 == [pc : Pcs, i : Int, map : {1, 2}, at : Int]

\* What a goroutine knows: the map it records into is the active one; an entry it
\* found stays where it is; and its key was in none of the entries it has seen.
RecOK(g) ==
    /\ rec[g] \in Recording1 /\ rec[g].i \in 1..Len(TxKeys[g])
    /\ Recording(g) => rec[g].map = active
    /\ rec[g].pc = "write" => /\ rec[g].at \in 1..Len(Chain(g)) + 1
                              /\ \A i \in 1..rec[g].at - 1 : Chain(g)[i].key # KeyOf(g)
    /\ rec[g].pc = "found" => /\ rec[g].at \in DOMAIN Chain(g)
                              /\ Chain(g)[rec[g].at].key = KeyOf(g)

ChainsOK ==
    /\ maps \in [{1, 2} -> [Hashes -> Seq(Entry)]]
    /\ \A m \in {1, 2}, h \in Hashes : ChainOK(maps[m][h], h)

\* The inductive invariant behind BreakdownExact.
MapInv ==
    /\ active \in {1, 2} /\ rec \in [Recorder -> Recording1]
    /\ recorded \in [Key -> Int] /\ gathered \in [Key -> Int]
    /\ ChainsOK /\ TimingsConserved /\ WithinSpace
    /\ \A g \in Recorder : RecOK(g)

\* Nothing has been recorded.
LEMMA MapInitial == MapInit => MapInv
<1> SUFFICES ASSUME MapInit PROVE MapInv
  OBVIOUS
<1>1. /\ active = 1 /\ maps = <<EmptyMap, EmptyMap>> /\ overrun = {}
      /\ rec = [g \in Recorder |-> [pc |-> "idle", i |-> 1, map |-> 1, at |-> 1]]
      /\ recorded = [k \in Key |-> 0] /\ gathered = [k \in Key |-> 0]
  BY DEF MapInit
<1>2. /\ maps \in [{1, 2} -> [Hashes -> Seq(Entry)]]
      /\ \A m \in {1, 2}, h \in Hashes : maps[m][h] = <<>>
  <2>1. EmptyMap \in [Hashes -> Seq(Entry)] /\ \A h \in Hashes : EmptyMap[h] = <<>>
    BY DEF EmptyMap
  <2> QED
    BY <1>1, <2>1
<1>3. ChainsOK
  BY <1>2 DEF ChainsOK, ChainOK
<1>4. TimingsConserved
  <2>1. \A k \in Key : CountOf(<<>>, k) = 0
    <3>1. ChainOK(<<>>, 0) /\ DOMAIN <<>> = {}
      BY DEF ChainOK
    <3> QED
      BY <3>1, CountOfIs
  <2>2. \A k \in Key : Hash[k] \in Hashes
    BY BreakdownAssumption DEF Hashes, Range
  <2> QED
    BY <1>1, <1>2, <2>1, <2>2 DEF TimingsConserved
<1>5. ASSUME NEW g \in Recorder PROVE RecOK(g) /\ rec[g] \in Recording1
  <2>1. Len(TxKeys[g]) \in Nat \ {0}
    BY BreakdownAssumption
  <2>2. /\ rec[g].pc = "idle" /\ rec[g].i = 1 /\ rec[g] \in Recording1
    BY <1>1 DEF Recording1, Pcs
  <2> QED
    BY <2>1, <2>2 DEF RecOK, Recording
<1> QED
  BY <1>1, <1>3, <1>4, <1>5 DEF MapInv, WithinSpace

\* The key g records, and the chain it belongs to.
LEMMA KeyOfIs ==
    ASSUME MapInv, NEW g \in Recorder
    PROVE  /\ KeyOf(g) \in Key /\ Hash[KeyOf(g)] \in Hashes /\ rec[g].map \in {1, 2}
           /\ ChainOK(Chain(g), Hash[KeyOf(g)])
           /\ Chain(g) \in Seq(Entry) /\ Len(Chain(g)) \in Nat
           /\ DOMAIN Chain(g) = 1..Len(Chain(g))
<1>1. rec[g].i \in 1..Len(TxKeys[g]) /\ TxKeys[g] \in Seq(Key) /\ rec[g].map \in {1, 2}
  BY BreakdownAssumption DEF MapInv, RecOK, Recording1
<1>2. KeyOf(g) \in Key
  BY <1>1 DEF KeyOf
<1>3. Hash[KeyOf(g)] \in Hashes
  BY <1>2, BreakdownAssumption DEF Hashes, Range
<1>4. ChainOK(Chain(g), Hash[KeyOf(g)])
  BY <1>1, <1>3 DEF MapInv, ChainsOK, Chain
<1> QED
  BY <1>1, <1>2, <1>3, <1>4 DEF ChainOK

\* A step of another goroutine leaves what g knows as it is, as chains only grow.
LEMMA OthersKnow ==
    ASSUME MapInv, NEW g \in Recorder, rec'[g] = rec[g], active' = active,
           \A m \in {1, 2}, h \in Hashes : /\ Grows(maps[m][h], maps'[m][h])
                                           /\ ChainOK(maps'[m][h], h)
    PROVE  RecOK(g)'
<1>1. /\ KeyOf(g)' = KeyOf(g) /\ Recording(g)' = Recording(g) /\ RecOK(g)
      /\ Chain(g)' = maps'[rec[g].map][Hash[KeyOf(g)]]
  BY DEF KeyOf, Recording, Chain, MapInv
<1>2. Grows(Chain(g), Chain(g)') /\ ChainOK(Chain(g)', Hash[KeyOf(g)])
  BY <1>1, KeyOfIs DEF Chain
<1>3. /\ Len(Chain(g)') \in Nat /\ DOMAIN Chain(g)' = 1..Len(Chain(g)')
      /\ Len(Chain(g)) <= Len(Chain(g)')
      /\ \A i \in DOMAIN Chain(g) : i \in DOMAIN Chain(g)' /\ Chain(g)'[i].key = Chain(g)[i].key
      /\ Len(Chain(g)) \in Nat /\ DOMAIN Chain(g) = 1..Len(Chain(g))
  <2>1. Len(Chain(g)') \in Nat /\ DOMAIN Chain(g)' = 1..Len(Chain(g)')
    BY <1>2 DEF ChainOK
  <2> QED
    BY <1>2, <2>1, KeyOfIs DEF Grows
<1>4. /\ rec'[g] \in Recording1 /\ rec'[g].i \in 1..Len(TxKeys[g])
      /\ Recording(g)' => rec'[g].map = active'
  BY <1>1 DEF RecOK
<1>5. ASSUME rec'[g].pc = "write"
      PROVE  /\ rec'[g].at \in 1..Len(Chain(g)') + 1
             /\ \A i \in 1..rec'[g].at - 1 : Chain(g)'[i].key # KeyOf(g)'
  <2>1. /\ rec[g].at \in 1..Len(Chain(g)) + 1
        /\ \A i \in 1..rec[g].at - 1 : Chain(g)[i].key # KeyOf(g)
    BY <1>1, <1>5 DEF RecOK
  <2>2. \A i \in 1..rec[g].at - 1 : i \in DOMAIN Chain(g)
    BY <1>3, <2>1
  <2> QED
    <3>1. rec'[g].at \in 1..Len(Chain(g)') + 1
      BY <1>3, <2>1
    <3>2. ASSUME NEW i \in 1..rec'[g].at - 1 PROVE Chain(g)'[i].key # KeyOf(g)'
      <4>1. i \in 1..rec[g].at - 1
        OBVIOUS
      <4>2. i \in DOMAIN Chain(g) /\ Chain(g)[i].key # KeyOf(g)
        BY <2>1, <2>2, <4>1, Zenon
      <4>3. Chain(g)'[i].key = Chain(g)[i].key
        BY <1>3, <4>2, Zenon
      <4> QED
        BY <1>1, <4>2, <4>3, Zenon
    <3> QED
      BY <3>1, <3>2
<1>6. ASSUME rec'[g].pc = "found"
      PROVE  rec'[g].at \in DOMAIN Chain(g)' /\ Chain(g)'[rec'[g].at].key = KeyOf(g)'
  BY <1>1, <1>3, <1>6 DEF RecOK
<1> QED
  BY <1>4, <1>5, <1>6 DEF RecOK

\* So do steps that leave the maps alone.
LEMMA ChainsAlone ==
    ASSUME MapInv, maps' = maps
    PROVE  \A m \in {1, 2}, h \in Hashes : /\ Grows(maps[m][h], maps'[m][h])
                                           /\ ChainOK(maps'[m][h], h)
  BY DEF Grows, MapInv, ChainsOK, ChainOK

\* After the record of one of its keys, g continues with the next or is done.
LEMMA Continued ==
    ASSUME MapInv, NEW g \in Recorder, NEW ok \in BOOLEAN, Continue(g, ok), Recording(g), active' = active
    PROVE  /\ rec' \in [Recorder -> Recording1] /\ RecOK(g)'
           /\ \A f \in Recorder \ {g} : rec'[f] = rec[f]
<1> DEFINE r == rec[g]
           q == IF ok /\ r.i < Len(TxKeys[g]) THEN [r EXCEPT !.pc = "read", !.i = @ + 1]
                                              ELSE [r EXCEPT !.pc = "done"]
<1>1. /\ rec \in [Recorder -> Recording1] /\ r \in Recording1 /\ r.i \in 1..Len(TxKeys[g])
      /\ r.map = active /\ Len(TxKeys[g]) \in Nat
  BY BreakdownAssumption DEF MapInv, RecOK
<1>2. rec' = [rec EXCEPT ![g] = q]
  BY DEF Continue
<1>3. [r EXCEPT !.pc = "read"] \in Recording1 /\ [r EXCEPT !.pc = "done"] \in Recording1
  BY <1>1 DEF Recording1, Pcs
<1>4. [r EXCEPT !.pc = "read", !.i = @ + 1] \in Recording1
  <2> DEFINE u == [r EXCEPT !.pc = "read"]
  <2>1. [r EXCEPT !.pc = "read", !.i = @ + 1] = [u EXCEPT !.i = @ + 1]
    BY <1>1 DEF Recording1
  <2> HIDE DEF u
  <2>2. u \in Recording1
    BY <1>3 DEF u
  <2>3. u.i \in Int
    BY <2>2 DEF Recording1
  <2>4. [u EXCEPT !.i = @ + 1] \in Recording1
    BY <2>2, <2>3 DEF Recording1
  <2> QED
    BY <2>1, <2>4
<1>5. q \in Recording1 /\ q.pc \in {"read", "done"} /\ q.map = r.map
      /\ q.i \in 1..Len(TxKeys[g])
  <2>1. q.pc \in {"read", "done"} /\ q.map = r.map /\ q.i \in 1..Len(TxKeys[g])
    BY <1>1 DEF Recording1
  <2> QED
    BY <1>3, <1>4, <2>1
<1> HIDE DEF q
<1>6. rec'[g] = q /\ rec' \in [Recorder -> Recording1]
      /\ \A f \in Recorder \ {g} : rec'[f] = rec[f]
  BY <1>1, <1>2, <1>5
<1> QED
  BY <1>1, <1>5, <1>6 DEF RecOK, Recording

\* A chain changes: one of its entries, which is g's, counts one more, or is new.
LEMMA Recorded ==
    ASSUME MapInv, NEW g \in Recorder, NEW d, NEW k, k = KeyOf(g),
           maps' = [maps EXCEPT ![rec[g].map][Hash[k]] = d],
           recorded' = [recorded EXCEPT ![k] = @ + 1], gathered' = gathered,
           ChainOK(d, Hash[k]), OneMore(Chain(g), k, d)
    PROVE  /\ recorded' \in [Key -> Int] /\ ChainsOK' /\ TimingsConserved'
           /\ \A m \in {1, 2}, h \in Hashes : /\ Grows(maps[m][h], maps'[m][h])
                                              /\ ChainOK(maps'[m][h], h)
<1> DEFINE a == rec[g].map
           c == maps[a][Hash[k]]
<1>1. /\ k \in Key /\ Hash[k] \in Hashes /\ a \in {1, 2} /\ c = Chain(g)
      /\ ChainsOK /\ TimingsConserved
      /\ recorded \in [Key -> Int] /\ gathered \in [Key -> Int]
      /\ \A j \in Key : Hash[j] \in Hashes
      /\ Grows(Chain(g), d)
      /\ CountOf(d, k) = CountOf(Chain(g), k) + 1
      /\ \A j \in Key \ {k} : CountOf(d, j) = CountOf(Chain(g), j)
  <2>1. \A j \in Key : Hash[j] \in Hashes
    BY BreakdownAssumption DEF Hashes, Range
  <2> QED
    BY <2>1, KeyOfIs DEF Chain, MapInv, OneMore
<1>2. maps \in [{1, 2} -> [Hashes -> Seq(Entry)]] /\ d \in Seq(Entry)
  BY <1>1 DEF ChainsOK, ChainOK
<1> HIDE DEF a
<1>3. /\ maps' \in [{1, 2} -> [Hashes -> Seq(Entry)]] /\ maps'[a][Hash[k]] = d
      /\ \A m \in {1, 2}, h \in Hashes : m # a \/ h # Hash[k] => maps'[m][h] = maps[m][h]
  <2> DEFINE e == [maps[a] EXCEPT ![Hash[k]] = d]
  <2>1. maps' = [maps EXCEPT ![a] = e]
    BY DEF a
  <2>2. /\ e \in [Hashes -> Seq(Entry)] /\ e[Hash[k]] = d
        /\ \A h \in Hashes : h # Hash[k] => e[h] = maps[a][h]
    BY <1>1, <1>2
  <2> HIDE DEF e
  <2> QED
    <3>1. maps' \in [{1, 2} -> [Hashes -> Seq(Entry)]] /\ maps'[a] = e
      <4> DEFINE T == [Hashes -> Seq(Entry)]
                 D == {1, 2}
      <4>1. maps \in [D -> T] /\ e \in T /\ a \in D
        BY <1>1, <1>2, <2>2
      <4> HIDE DEF T, D
      <4>2. maps' \in [D -> T] /\ maps'[a] = e
        BY <2>1, <4>1
      <4> QED
        BY <4>2 DEF D, T
    <3>2. \A m \in {1, 2} : m # a => maps'[m] = maps[m]
      BY <1>1, <1>2, <2>1
    <3> QED
      BY <2>2, <3>1, <3>2
<1>4. ASSUME NEW m \in {1, 2}, NEW h \in Hashes
      PROVE  Grows(maps[m][h], maps'[m][h]) /\ ChainOK(maps'[m][h], h)
  <2>1. CASE m = a /\ h = Hash[k]
    BY <1>1, <1>3, <2>1
  <2>2. CASE ~(m = a /\ h = Hash[k])
    <3>1. maps'[m][h] = maps[m][h] /\ ChainOK(maps[m][h], h)
      BY <1>1, <1>3, <2>2 DEF ChainsOK
    <3>2. maps[m][h] \in Seq(Entry)
      BY <3>1 DEF ChainOK
    <3> QED
      BY <3>1, <3>2 DEF Grows
  <2> QED
    BY <2>1, <2>2
<1>5. ChainsOK'
  BY <1>3, <1>4 DEF ChainsOK
<1>6. ASSUME NEW j \in Key
      PROVE  recorded'[j] = gathered'[j] + CountOf(maps'[1][Hash[j]], j)
                                         + CountOf(maps'[2][Hash[j]], j)
  <2> DEFINE x == CountOf(maps[1][Hash[j]], j)
             y == CountOf(maps[2][Hash[j]], j)
             xx == CountOf(maps'[1][Hash[j]], j)
             yy == CountOf(maps'[2][Hash[j]], j)
  <2>1. recorded[j] = gathered[j] + x + y
    BY <1>1 DEF TimingsConserved
  <2>2. x \in Int /\ y \in Int
    <3>1. \A m \in {1, 2} : ChainOK(maps[m][Hash[j]], Hash[j])
      BY <1>1 DEF ChainsOK
    <3> QED
      BY <3>1, CountOfIs
  <2>3. recorded'[j] = recorded[j] + IF j = k THEN 1 ELSE 0
    BY <1>1
  <2>4. /\ a = 1 => xx = (x + IF j = k THEN 1 ELSE 0) /\ yy = y
        /\ a = 2 => yy = (y + IF j = k THEN 1 ELSE 0) /\ xx = x
    <3>1. /\ a = 1 => maps'[2][Hash[j]] = maps[2][Hash[j]]
          /\ a = 2 => maps'[1][Hash[j]] = maps[1][Hash[j]]
      BY <1>1, <1>3
    <3>2. CASE j = k
      <4>1. maps'[a][Hash[j]] = d /\ CountOf(d, j) = CountOf(maps[a][Hash[j]], j) + 1
        BY <1>1, <1>3, <3>2
      <4> QED
        BY <3>1, <3>2, <4>1
    <3>3. CASE j # k /\ Hash[j] = Hash[k]
      <4>1. maps'[a][Hash[j]] = d /\ CountOf(d, j) = CountOf(maps[a][Hash[j]], j)
        BY <1>1, <1>3, <3>3
      <4> QED
        BY <2>2, <3>1, <3>3, <4>1
    <3>4. CASE Hash[j] # Hash[k]
      <4>1. maps'[a][Hash[j]] = maps[a][Hash[j]] /\ j # k
        BY <1>1, <1>3, <3>4
      <4> QED
        BY <2>2, <3>1, <4>1
    <3> QED
      BY <3>2, <3>3, <3>4
  <2>5. gathered'[j] = gathered[j] /\ gathered[j] \in Int /\ recorded[j] \in Int /\ a \in {1, 2}
    BY <1>1
  <2> HIDE DEF x, y, xx, yy
  <2>6. recorded'[j] = gathered'[j] + xx + yy
    <3>1. CASE a = 1
      BY <2>1, <2>2, <2>3, <2>4, <2>5, <3>1
    <3>2. CASE a = 2
      BY <2>1, <2>2, <2>3, <2>4, <2>5, <3>2
    <3> QED
      BY <2>5, <3>1, <3>2
  <2> QED
    BY <2>6 DEF xx, yy
<1>7. recorded' \in [Key -> Int]
  BY <1>1
<1> QED
  BY <1>4, <1>5, <1>6, <1>7 DEF TimingsConserved

\* The parts of a step that only concerns what goroutines know.
LEMMA MapsAlone ==
    ASSUME MapInv, maps' = maps, recorded' = recorded, gathered' = gathered
    PROVE  recorded' \in [Key -> Int] /\ gathered' \in [Key -> Int] /\ ChainsOK' /\ TimingsConserved'
  BY DEF MapInv, ChainsOK, TimingsConserved

\* Taking the read lock: the active map is the one recorded into.
LEMMA RecordTransactionKeeps ==
    ASSUME MapInv, NEW g \in Recorder, RecordTransaction(g)
    PROVE  MapInv'
<1> DEFINE r == rec[g]
           u == [r EXCEPT !.pc = "read"]
           q == [u EXCEPT !.map = active]
<1>1. /\ rec \in [Recorder -> Recording1] /\ active \in {1, 2} /\ r \in Recording1
      /\ r.i \in 1..Len(TxKeys[g]) /\ r.pc = "idle"
      /\ maps' = maps /\ active' = active /\ recorded' = recorded /\ gathered' = gathered
      /\ overrun' = overrun
  BY DEF MapInv, RecOK, RecordTransaction
<1>2. rec' = [rec EXCEPT ![g] = q]
  BY <1>1 DEF RecordTransaction, Recording1
<1>3. u \in Recording1 /\ u.i = r.i /\ u.pc = "read"
  BY <1>1 DEF Recording1, Pcs
<1> HIDE DEF u
<1>4. q \in Recording1 /\ q.i = r.i /\ q.pc = "read" /\ q.map = active
  BY <1>1, <1>3 DEF Recording1
<1> HIDE DEF q
<1>5. /\ rec'[g] = q /\ rec' \in [Recorder -> Recording1]
      /\ \A f \in Recorder : f # g => rec'[f] = rec[f]
  BY <1>1, <1>2, <1>4
<1>6. RecOK(g)'
  BY <1>1, <1>4, <1>5 DEF RecOK, Recording
<1>7. ASSUME NEW f \in Recorder PROVE RecOK(f)'
  BY <1>1, <1>5, <1>6, ChainsAlone, OthersKnow
<1> QED
  BY <1>1, <1>5, <1>7, MapsAlone DEF MapInv, WithinSpace

\* The search under the map's read lock.
LEMMA RecordReadKeeps ==
    ASSUME MapInv, NEW g \in Recorder, RecordRead(g)
    PROVE  MapInv'
<1> DEFINE r == rec[g]
           k == KeyOf(g)
           c == Chain(g)
           i == Search(c, k, 1)
           u == [r EXCEPT !.pc = IF i # 0 THEN "found" ELSE "write"]
           q == [u EXCEPT !.at = IF i # 0 THEN i ELSE Len(c) + 1]
<1>1. /\ rec \in [Recorder -> Recording1] /\ active \in {1, 2} /\ r \in Recording1
      /\ r.i \in 1..Len(TxKeys[g]) /\ r.pc = "read" /\ r.map = active
      /\ maps' = maps /\ active' = active /\ recorded' = recorded /\ gathered' = gathered
      /\ overrun' = overrun
  BY DEF MapInv, RecOK, RecordRead, Recording
<1>2. k \in Key /\ c \in Seq(Entry) /\ Len(c) \in Nat /\ DOMAIN c = 1..Len(c)
  BY KeyOfIs
<1>3. rec' = [rec EXCEPT ![g] = q]
  BY <1>1 DEF RecordRead, Recording1
<1>4. /\ i # 0 => i \in DOMAIN c /\ c[i].key = k
      /\ i = 0 => \A j \in 1..Len(c) : c[j].key # k
  <2>1. 1 \in Nat \ {0}
    OBVIOUS
  <2> HIDE DEF c, k
  <2> QED
    BY <1>2, <2>1, SearchIs
<1>5. Chain(g)' = maps[rec'[g].map][Hash[KeyOf(g)']] /\ KeyOf(g)' = TxKeys[g][rec'[g].i]
  BY <1>1 DEF Chain, KeyOf
<1>6. i # 0 => i \in Int
  BY <1>2, <1>4
<1> HIDE DEF i
<1>7. u \in Recording1 /\ u.i = r.i /\ u.map = r.map /\ u.pc = IF i # 0 THEN "found" ELSE "write"
  BY <1>1 DEF Recording1, Pcs
<1> HIDE DEF u
<1>8. /\ q \in Recording1 /\ q.i = r.i /\ q.map = r.map
      /\ q.pc = IF i # 0 THEN "found" ELSE "write"
      /\ q.at = IF i # 0 THEN i ELSE Len(c) + 1
  <2> HIDE DEF c
  <2> QED
    BY <1>2, <1>6, <1>7 DEF Recording1
<1> HIDE DEF q
<1>9. /\ rec'[g] = q /\ rec' \in [Recorder -> Recording1]
      /\ \A f \in Recorder : f # g => rec'[f] = rec[f]
  BY <1>1, <1>3, <1>8
<1>10. KeyOf(g)' = k /\ Chain(g)' = c
  BY <1>5, <1>8, <1>9 DEF KeyOf, Chain
<1>11. RecOK(g)'
  <2> HIDE DEF c, k
  <2>1. i # 0 => /\ rec'[g].pc = "found" /\ rec'[g].at \in DOMAIN Chain(g)'
                 /\ Chain(g)'[rec'[g].at].key = KeyOf(g)'
    BY <1>4, <1>8, <1>9, <1>10
  <2>2. i = 0 => /\ rec'[g].pc = "write" /\ rec'[g].at \in 1..Len(Chain(g)') + 1
                 /\ \A j \in 1..rec'[g].at - 1 : Chain(g)'[j].key # KeyOf(g)'
    BY <1>2, <1>4, <1>8, <1>9, <1>10
  <2> QED
    BY <1>1, <1>8, <1>9, <2>1, <2>2 DEF RecOK
<1>12. ASSUME NEW f \in Recorder PROVE RecOK(f)'
  BY <1>1, <1>9, <1>11, ChainsAlone, OthersKnow
<1> QED
  BY <1>1, <1>9, <1>12, MapsAlone DEF MapInv, WithinSpace

\* The entry found counts one more.
LEMMA AccumulateKeeps ==
    ASSUME MapInv, NEW g \in Recorder, Accumulate(g)
    PROVE  MapInv'
<1> DEFINE r == rec[g]
           k == KeyOf(g)
           c == Chain(g)
           d == Increment(c, r.at)
<1>1. /\ r.pc = "found" /\ Recording(g) /\ r.at \in DOMAIN c /\ c[r.at].key = k
      /\ k \in Key /\ ChainOK(c, Hash[k])
  BY KeyOfIs DEF MapInv, RecOK, Accumulate, Recording
<1>2. /\ maps' = [maps EXCEPT ![r.map][Hash[k]][r.at].count = @ + 1]
      /\ recorded' = [recorded EXCEPT ![k] = @ + 1]
      /\ Continue(g, TRUE)
      /\ active' = active /\ gathered' = gathered /\ overrun' = overrun
  BY <1>1 DEF Accumulate
<1>3. maps' = [maps EXCEPT ![r.map][Hash[k]] = d]
  BY <1>2 DEF Chain, Increment
<1>4. ChainOK(d, Hash[k]) /\ OneMore(c, k, d)
  <2> HIDE DEF c, k
  <2> QED
    BY <1>1, Accumulated
<1> HIDE DEF d
<1>5. /\ recorded' \in [Key -> Int] /\ ChainsOK' /\ TimingsConserved'
      /\ \A m \in {1, 2}, h \in Hashes : /\ Grows(maps[m][h], maps'[m][h])
                                         /\ ChainOK(maps'[m][h], h)
  BY <1>2, <1>3, <1>4, Recorded
<1>6. /\ rec' \in [Recorder -> Recording1] /\ RecOK(g)'
      /\ \A f \in Recorder \ {g} : rec'[f] = rec[f]
  BY <1>1, <1>2, Continued
<1>7. ASSUME NEW f \in Recorder PROVE RecOK(f)'
  BY <1>2, <1>5, <1>6, OthersKnow
<1> QED
  BY <1>2, <1>5, <1>6, <1>7 DEF MapInv, WithinSpace

\* The write lock: with a second search, k gets an entry only if it has none; and the
\* space can only run out in a chain that already has an entry, of another key.
LEMMA RecordWriteKeeps ==
    ASSUME MapInv, NEW g \in Recorder, RecordWrite(g)
    PROVE  MapInv'
<1> DEFINE r == rec[g]
           k == KeyOf(g)
           c == Chain(g)
           m == maps[r.map]
           i == SecondSearch(c, k, r.at)
<1>1. /\ rec \in [Recorder -> Recording1] /\ active \in {1, 2} /\ r \in Recording1
      /\ r.i \in 1..Len(TxKeys[g]) /\ r.pc = "write" /\ r.map = active /\ Recording(g)
      /\ r.at \in 1..Len(c) + 1 /\ \A j \in 1..r.at - 1 : c[j].key # k
      /\ active' = active /\ gathered' = gathered
  BY DEF MapInv, RecOK, RecordWrite, Recording
<1>2. /\ k \in Key /\ c \in Seq(Entry) /\ Len(c) \in Nat /\ DOMAIN c = 1..Len(c)
      /\ ChainOK(c, Hash[k])
  BY KeyOfIs
<1>3. /\ i # 0 => i \in DOMAIN c /\ c[i].key = k
      /\ i = 0 => \A j \in DOMAIN c : c[j].key # k
  <2> HIDE DEF c, k
  <2>1. r.at \in Nat \ {0}
    BY <1>1, <1>2
  <2>2. /\ i # 0 => i \in DOMAIN c /\ c[i].key = k
        /\ i = 0 => \A j \in r.at..Len(c) : c[j].key # k
    BY <1>2, <2>1, SearchIs DEF SecondSearch
  <2>3. \A j \in 1..Len(c) : j \in 1..r.at - 1 \/ j \in r.at..Len(c)
    BY <1>1, <1>2
  <2> QED
    BY <1>1, <1>2, <2>2, <2>3
<1>4. MapInv /\ gathered \in [Key -> Int] /\ WithinSpace
  BY DEF MapInv
<1>5. CASE i # 0 /\ rec' = [rec EXCEPT ![g].pc = "found", ![g].at = i]
           /\ maps' = maps /\ recorded' = recorded /\ overrun' = overrun
  <2> DEFINE u == [r EXCEPT !.pc = "found"]
             q == [u EXCEPT !.at = i]
  <2>1. rec' = [rec EXCEPT ![g] = q]
    BY <1>1, <1>5 DEF Recording1
  <2>2. i \in Int
    BY <1>2, <1>3, <1>5
  <2> HIDE DEF i
  <2>3. u \in Recording1 /\ u.i = r.i /\ u.map = r.map /\ u.pc = "found"
    BY <1>1 DEF Recording1, Pcs
  <2> HIDE DEF u
  <2>4. q \in Recording1 /\ q.i = r.i /\ q.map = r.map /\ q.pc = "found" /\ q.at = i
    BY <2>2, <2>3 DEF Recording1
  <2> HIDE DEF q
  <2>5. /\ rec'[g] = q /\ rec' \in [Recorder -> Recording1]
        /\ \A f \in Recorder : f # g => rec'[f] = rec[f]
    BY <1>1, <2>1, <2>4
  <2>6. KeyOf(g)' = k /\ Chain(g)' = c
    BY <1>5, <2>4, <2>5 DEF KeyOf, Chain
  <2>7. RecOK(g)'
    BY <1>1, <1>3, <1>5, <2>4, <2>5, <2>6 DEF RecOK
  <2>8. ASSUME NEW f \in Recorder PROVE RecOK(f)'
    BY <1>1, <1>5, <2>5, <2>7, ChainsAlone, OthersKnow
  <2> QED
    BY <1>1, <1>5, <2>5, <2>8, MapsAlone DEF MapInv, WithinSpace
<1>6. CASE Continue(g, FALSE) /\ maps' = maps /\ recorded' = recorded /\ overrun' = overrun
  <2>1. /\ rec' \in [Recorder -> Recording1] /\ RecOK(g)'
        /\ \A f \in Recorder \ {g} : rec'[f] = rec[f]
    BY <1>1, <1>6, Continued
  <2>2. ASSUME NEW f \in Recorder PROVE RecOK(f)'
    BY <1>1, <1>6, <2>1, ChainsAlone, OthersKnow
  <2> QED
    BY <1>1, <1>6, <2>1, <2>2, MapsAlone DEF MapInv, WithinSpace
<1>7. CASE /\ i = 0 /\ maps' = [maps EXCEPT ![r.map][Hash[k]] =
                                    Append(@, [key |-> k, count |-> 1])]
           /\ recorded' = [recorded EXCEPT ![k] = @ + 1]
           /\ Continue(g, TRUE) /\ overrun' = overrun
  <2> DEFINE d == Extended(c, k)
  <2>1. maps' = [maps EXCEPT ![r.map][Hash[k]] = d]
    BY <1>7 DEF Chain, Extended
  <2>2. ChainOK(d, Hash[k]) /\ OneMore(c, k, d)
    <3>1. \A j \in DOMAIN c : c[j].key # k
      BY <1>3, <1>7
    <3> HIDE DEF c, k
    <3> QED
      BY <1>2, <3>1, Appended
  <2> HIDE DEF d
  <2>3. /\ recorded' \in [Key -> Int] /\ ChainsOK' /\ TimingsConserved'
        /\ \A n \in {1, 2}, h \in Hashes : /\ Grows(maps[n][h], maps'[n][h])
                                           /\ ChainOK(maps'[n][h], h)
    BY <1>1, <1>7, <2>1, <2>2, Recorded
  <2>4. /\ rec' \in [Recorder -> Recording1] /\ RecOK(g)'
        /\ \A f \in Recorder \ {g} : rec'[f] = rec[f]
    BY <1>1, <1>7, Continued
  <2>5. ASSUME NEW f \in Recorder PROVE RecOK(f)'
    BY <1>1, <2>3, <2>4, OthersKnow
  <2> QED
    BY <1>1, <1>4, <1>7, <2>3, <2>4, <2>5 DEF MapInv, WithinSpace
<1>8. CASE /\ i = 0 /\ ~AtLimit(m, Hash[k]) /\ Entries(m) >= BreakdownMetricsLimit
           /\ overrun' = overrun \cup {k} /\ Continue(g, FALSE)
           /\ maps' = maps /\ recorded' = recorded
  <2>1. /\ rec' \in [Recorder -> Recording1] /\ RecOK(g)'
        /\ \A f \in Recorder \ {g} : rec'[f] = rec[f]
    BY <1>1, <1>8, Continued
  <2>2. ASSUME NEW f \in Recorder PROVE RecOK(f)'
    BY <1>1, <1>8, <2>1, ChainsAlone, OthersKnow
  <2>3. \E j \in Key \ {k} : Hash[j] = Hash[k]
    <3>1. c # <<>>
      BY <1>8 DEF AtLimit, Chain
    <3>2. 1 \in DOMAIN c /\ c[1] \in Entry
      BY <1>2, <3>1
    <3>3. c[1].key \in Key /\ c[1].key # k /\ Hash[c[1].key] = Hash[k]
      BY <1>2, <1>3, <1>8, <3>2 DEF ChainOK, Entry
    <3> QED
      BY <3>3
  <2>4. WithinSpace'
    BY <1>4, <1>8, <2>3 DEF WithinSpace
  <2> QED
    BY <1>1, <1>8, <2>1, <2>2, <2>4, MapsAlone DEF MapInv
<1> QED
  BY <1>5, <1>6, <1>7, <1>8 DEF RecordWrite

\* Gather moves what the active map holds to what was gathered.
LEMMA GatherKeeps ==
    ASSUME MapInv, Gather
    PROVE  MapInv'
<1>1. /\ \A g \in Recorder : ~Recording(g)
      /\ active' = 3 - active
      /\ gathered' = [k \in Key |-> gathered[k] + CountOf(maps[active][Hash[k]], k)]
      /\ maps' = [maps EXCEPT ![active] = EmptyMap]
      /\ rec' = rec /\ recorded' = recorded /\ overrun' = overrun
  BY DEF Gather
<1>2. /\ active \in {1, 2} /\ maps \in [{1, 2} -> [Hashes -> Seq(Entry)]]
      /\ recorded \in [Key -> Int] /\ gathered \in [Key -> Int]
      /\ \A k \in Key : Hash[k] \in Hashes
  <2>1. \A k \in Key : Hash[k] \in Hashes
    BY BreakdownAssumption DEF Hashes, Range
  <2> QED
    BY <2>1 DEF MapInv, ChainsOK
<1>3. /\ EmptyMap \in [Hashes -> Seq(Entry)] /\ \A h \in Hashes : EmptyMap[h] = <<>>
      /\ \A h : ChainOK(<<>>, h)
  BY DEF EmptyMap, ChainOK
<1>4. /\ maps' \in [{1, 2} -> [Hashes -> Seq(Entry)]]
      /\ \A h \in Hashes : maps'[active][h] = <<>> /\ maps'[3 - active] = maps[3 - active]
      /\ active' \in {1, 2}
  BY <1>1, <1>2, <1>3
<1>5. ChainsOK'
  BY <1>2, <1>3, <1>4 DEF ChainsOK, MapInv
<1>6. ASSUME NEW m \in {1, 2}, NEW k \in Key PROVE CountOf(maps[m][Hash[k]], k) \in Int
  BY <1>2, CountOfIs DEF MapInv, ChainsOK
<1>7. \A k \in Key : CountOf(<<>>, k) = 0
  <2>1. DOMAIN <<>> = {}
    OBVIOUS
  <2> QED
    BY <1>3, <2>1, CountOfNone
<1>8. gathered' \in [Key -> Int]
  BY <1>1, <1>2, <1>6
<1>9. TimingsConserved'
  <2>1. ASSUME NEW k \in Key
        PROVE  recorded'[k] = gathered'[k] + CountOf(maps'[1][Hash[k]], k)
                                           + CountOf(maps'[2][Hash[k]], k)
    <3> DEFINE x == CountOf(maps[1][Hash[k]], k)
               y == CountOf(maps[2][Hash[k]], k)
    <3>1. /\ recorded[k] = gathered[k] + x + y /\ x \in Int /\ y \in Int
          /\ gathered[k] \in Int /\ recorded'[k] = recorded[k]
      BY <1>1, <1>2, <1>6 DEF MapInv, TimingsConserved
    <3>2. CASE active = 1
      <4>1. CountOf(maps'[1][Hash[k]], k) = 0 /\ CountOf(maps'[2][Hash[k]], k) = y
        BY <1>2, <1>4, <1>7, <3>2
      <4>2. gathered'[k] = gathered[k] + x
        BY <1>1, <3>2
      <4> HIDE DEF x, y
      <4> QED
        BY <3>1, <4>1, <4>2
    <3>3. CASE active = 2
      <4>1. CountOf(maps'[2][Hash[k]], k) = 0 /\ CountOf(maps'[1][Hash[k]], k) = x
        BY <1>2, <1>4, <1>7, <3>3
      <4>2. gathered'[k] = gathered[k] + y
        BY <1>1, <3>3
      <4> HIDE DEF x, y
      <4> QED
        BY <3>1, <4>1, <4>2
    <3> QED
      BY <1>2, <3>2, <3>3
  <2> QED
    BY <2>1 DEF TimingsConserved
<1>10. ASSUME NEW g \in Recorder PROVE RecOK(g)'
  <2>1. rec[g].pc \notin {"read", "found", "write"} /\ rec'[g] = rec[g] /\ RecOK(g)
    BY <1>1 DEF Recording, MapInv
  <2> QED
    BY <2>1 DEF RecOK, Recording
<1> QED
  BY <1>1, <1>2, <1>4, <1>5, <1>8, <1>9, <1>10 DEF MapInv, WithinSpace

\* Every step keeps the invariant.
LEMMA MapStep == MapInv /\ [MapNext]_mapVars => MapInv'
<1> SUFFICES ASSUME MapInv, [MapNext]_mapVars PROVE MapInv'
  OBVIOUS
<1>1. CASE UNCHANGED mapVars
  <2>1. /\ maps' = maps /\ rec' = rec /\ active' = active /\ recorded' = recorded
        /\ gathered' = gathered /\ overrun' = overrun
    BY <1>1 DEF mapVars
  <2>2. \A g \in Recorder : RecOK(g)'
    BY <2>1, ChainsAlone, OthersKnow
  <2> QED
    BY <2>1, <2>2, MapsAlone DEF MapInv, WithinSpace
<1> QED
  BY <1>1, RecordTransactionKeeps, RecordReadKeeps, RecordWriteKeeps, AccumulateKeeps, GatherKeeps
     DEF MapNext

\* Breakdown metrics (breakdown.go) are exact, for any number of goroutines, keys
\* and colliding hashes: what was recorded has been gathered or is in a map, a key
\* has one entry of a map, and only a key whose hash another one has can be written
\* outside the entries' space.
THEOREM BreakdownIsExact == MapSpec => []BreakdownExact
<1>1. MapInv => BreakdownExact
  <2>1. MapInv => OneEntryPerKey
    BY DEF MapInv, ChainsOK, ChainOK, OneEntryPerKey
  <2> QED
    BY <2>1 DEF MapInv, BreakdownExact
<1> QED
  BY <1>1, MapInitial, MapStep, PTL DEF MapSpec

-----------------------------------------------------------------------------
(* Request bodies *)

Byte == [req : Req, kind : {"one", "first", "second"}]

\* A body of whole characters.
Whole(b) ==
    /\ b \in Seq(Byte)
    /\ \A i \in 1..Len(b) :
        /\ b[i].kind = "second" <=> i > 1 /\ b[i - 1].kind = "first"
        /\ b[i].kind = "first" => i < Len(b)

\* Where characters begin among the first q bytes, and how many do.
Firsts(b, q) == {i \in 1..q : b[i].kind # "second"}
Chars(b, q) == Cardinality(Firsts(b, q))

\* The first q bytes end inside a character.
Inside(b, q) == q < Len(b) /\ b[q + 1].kind = "second"

LEMMA BodiesWhole == \A r \in Req : Whole(Body(r))
<1> SUFFICES ASSUME NEW r \in Req PROVE Whole(Body(r))
  OBVIOUS
<1>1. /\ Kinds[r] \in Seq({"one", "first", "second"}) /\ Len(Kinds[r]) \in Nat
      /\ DOMAIN Kinds[r] = 1..Len(Kinds[r])
      /\ \A i \in 1..Len(Kinds[r]) : Kinds[r][i] \in {"one", "first", "second"}
  BY BodyCaptureAssumption
<1>2. \A i \in 1..Len(Kinds[r]) : [req |-> r, kind |-> Kinds[r][i]] \in Byte
  BY <1>1 DEF Byte
<1>3. /\ Body(r) \in Seq(Byte) /\ Len(Body(r)) = Len(Kinds[r])
      /\ \A i \in 1..Len(Kinds[r]) : Body(r)[i] = [req |-> r, kind |-> Kinds[r][i]]
  BY <1>1, <1>2 DEF Body
<1>4. ASSUME NEW i \in 1..Len(Kinds[r]) PROVE Body(r)[i].kind = Kinds[r][i]
  <2>1. Body(r)[i] = [req |-> r, kind |-> Kinds[r][i]]
    BY <1>3
  <2> QED
    BY <2>1
<1>5. ASSUME NEW i \in 1..Len(Body(r))
      PROVE  /\ Body(r)[i].kind = "second" <=> i > 1 /\ Body(r)[i - 1].kind = "first"
             /\ Body(r)[i].kind = "first" => i < Len(Body(r))
  <2>1. i > 1 => i - 1 \in 1..Len(Kinds[r])
    BY <1>1, <1>3
  <2>2. /\ Kinds[r][i] = "second" <=> i > 1 /\ Kinds[r][i - 1] = "first"
        /\ Kinds[r][i] = "first" => i < Len(Kinds[r])
    BY <1>3, BodyCaptureAssumption
  <2> QED
    BY <1>3, <1>4, <2>1, <2>2
<1> QED
  BY <1>3, <1>5 DEF Whole

\* Counting characters.
LEMMA CharsType ==
    ASSUME NEW b, NEW q \in Nat
    PROVE  /\ IsFiniteSet(Firsts(b, q)) /\ Chars(b, q) \in Nat
           /\ \A p \in 0..q : /\ Firsts(b, p) \subseteq Firsts(b, q)
                              /\ Chars(b, p) \in Nat /\ Chars(b, p) <= Chars(b, q)
<1>1. \A p \in 0..q : IsFiniteSet(Firsts(b, p)) /\ Cardinality(Firsts(b, p)) \in Nat
  <2> SUFFICES ASSUME NEW p \in 0..q
               PROVE IsFiniteSet(Firsts(b, p)) /\ Cardinality(Firsts(b, p)) \in Nat
    OBVIOUS
  <2>1. IsFiniteSet(1..p)
    BY FS_Interval
  <2>2. Firsts(b, p) \in SUBSET (1..p)
    BY DEF Firsts
  <2> QED
    BY <2>1, <2>2, FS_Subset, FS_CardinalityType
<1>2. \A p \in 0..q : Firsts(b, p) \in SUBSET Firsts(b, q)
  BY DEF Firsts
<1>3. q \in 0..q
  OBVIOUS
<1>4. \A p \in 0..q : Cardinality(Firsts(b, p)) <= Cardinality(Firsts(b, q))
  BY <1>1, <1>2, <1>3, FS_Subset
<1> QED
  BY <1>1, <1>2, <1>3, <1>4 DEF Chars

LEMMA NoChars == ASSUME NEW b PROVE Chars(b, 0) = 0
<1>1. Firsts(b, 0) = {}
  BY DEF Firsts
<1> QED
  BY <1>1, FS_EmptySet DEF Chars

\* The next byte begins a character, or it does not.
LEMMA NextChar ==
    ASSUME NEW b, NEW q \in Nat
    PROVE  Chars(b, q + 1) = IF b[q + 1].kind = "second" THEN Chars(b, q) ELSE Chars(b, q) + 1
<1>1. IsFiniteSet(Firsts(b, q)) /\ q + 1 \notin Firsts(b, q)
  <2>1. q + 1 \notin 1..q
    OBVIOUS
  <2> QED
    BY <2>1, CharsType DEF Firsts
<1>2. CASE b[q + 1].kind = "second"
  <2>1. Firsts(b, q + 1) = Firsts(b, q)
    BY <1>2 DEF Firsts
  <2> QED
    BY <1>2, <2>1 DEF Chars
<1>3. CASE b[q + 1].kind # "second"
  <2>1. Firsts(b, q + 1) = Firsts(b, q) \cup {q + 1}
    BY <1>3 DEF Firsts
  <2> QED
    BY <1>1, <1>3, <2>1, FS_AddElement DEF Chars
<1> QED
  BY <1>2, <1>3

\* Characters have two bytes at most: so many bytes, from where a character begins,
\* are of half as many characters, and one more if the last is not whole.
LEMMA CharsOfBytes ==
    ASSUME NEW b, Whole(b), NEW q \in 0..Len(b), NEW p \in 0..q, ~Inside(b, p) \/ p = q
    PROVE  /\ q - p <= 2 * (Chars(b, q) - Chars(b, p))
           /\ Inside(b, q) /\ p < q => q - p + 1 <= 2 * (Chars(b, q) - Chars(b, p))
<1> DEFINE F == Firsts(b, q) \ Firsts(b, p)
           G == {i \in p + 1..q : b[i].kind = "second"}
           f == [i \in G |-> i - 1]
<1>1. Len(b) \in Nat /\ q \in Nat /\ p \in Nat
  BY DEF Whole
<1>2. CASE p = q
  BY <1>1, <1>2, CharsType
<1>3. CASE p # q
  <2>1. p < q /\ p + 1 \in 1..Len(b) /\ b[p + 1].kind # "second"
    BY <1>1, <1>3 DEF Inside
  <2>2. IsFiniteSet(Firsts(b, q)) /\ Firsts(b, p) \subseteq Firsts(b, q) /\ IsFiniteSet(Firsts(b, p))
    BY <1>1, CharsType
  <2>3. F = {i \in p + 1..q : b[i].kind # "second"}
    BY <1>1 DEF Firsts
  <2>4. IsFiniteSet(F) /\ Cardinality(F) = Chars(b, q) - Chars(b, p)
    <3>1. F \cup Firsts(b, p) = Firsts(b, q) /\ F \cap Firsts(b, p) = {}
      BY <2>2
    <3>2. IsFiniteSet(F)
      BY <2>2, FS_Subset
    <3>3. Cardinality(F) \in Nat /\ Chars(b, p) \in Nat
      BY <1>1, <3>2, FS_CardinalityType, CharsType
    <3>4. Cardinality(Firsts(b, q)) = Cardinality(F) + Cardinality(Firsts(b, p)) - Cardinality({})
      BY <2>2, <3>1, <3>2, FS_Union
    <3> QED
      BY <3>2, <3>3, <3>4, FS_EmptySet DEF Chars
  <2>5. IsFiniteSet(G) /\ Cardinality(F) + Cardinality(G) = q - p
    <3>1. IsFiniteSet(p + 1..q) /\ Cardinality(p + 1..q) = q - p
      BY <1>1, <2>1, FS_Interval
    <3>2. F \cup G = p + 1..q /\ F \cap G = {}
      BY <2>3
    <3>3. IsFiniteSet(G)
      BY <3>1, FS_Subset
    <3>4. Cardinality(p + 1..q) = Cardinality(F) + Cardinality(G) - Cardinality({})
      BY <2>4, <3>2, <3>3, FS_Union
    <3>5. Cardinality(F) \in Nat /\ Cardinality(G) \in Nat
      BY <2>4, <3>3, FS_CardinalityType
    <3> QED
      BY <3>1, <3>3, <3>4, <3>5, FS_EmptySet
  <2>6. ASSUME NEW i \in G
        PROVE  i - 1 \in p + 1..q /\ i - 1 # q /\ b[i - 1].kind = "first"
    <3>1. i \in p + 1..q /\ i \in 1..Len(b) /\ b[i].kind = "second"
      BY <1>1
    <3>2. i # p + 1
      BY <2>1, <3>1
    <3>3. b[i - 1].kind = "first"
      BY <3>1 DEF Whole
    <3> QED
      BY <1>1, <3>1, <3>2, <3>3
  <2>7. \A i, j \in G : i - 1 = j - 1 => i = j
    BY <1>1
  <2>8. ASSUME NEW T, G # {} => TRUE, \A i \in G : i - 1 \in T, IsFiniteSet(T)
        PROVE  Cardinality(G) <= Cardinality(T)
    <3>1. f \in [G -> T]
      BY <2>8
    <3>2. \A i, j \in DOMAIN f : f[i] = f[j] => i = j
      BY <2>7
    <3>3. f \in Injection(G, T)
      BY <3>1, <3>2 DEF Injection, IsInjective
    <3> HIDE DEF f, G
    <3> QED
      BY <2>8, <3>3, FS_Injection
  <2>9. \A i \in G : i - 1 \in F
    BY <2>3, <2>6
  <2>10. Cardinality(F) \in Nat /\ Cardinality(G) \in Nat
    BY <2>4, <2>5, FS_CardinalityType
  <2>11. q - p <= 2 * Cardinality(F)
    BY <1>1, <2>4, <2>5, <2>8, <2>9, <2>10
  <2>12. Inside(b, q) => q - p + 1 <= 2 * Cardinality(F)
    <3> SUFFICES ASSUME Inside(b, q) PROVE q - p + 1 <= 2 * Cardinality(F)
      OBVIOUS
    <3>1. q + 1 \in 1..Len(b) /\ b[q + 1].kind = "second" /\ q + 1 - 1 = q
      BY <1>1 DEF Inside
    <3>2. b[q].kind = "first"
      BY <3>1 DEF Whole
    <3>3. q \in F
      BY <1>1, <2>1, <2>3, <3>2
    <3>4. IsFiniteSet(F \ {q}) /\ Cardinality(F \ {q}) = Cardinality(F) - 1
      BY <2>4, <3>3, FS_RemoveElement
    <3>5. \A i \in G : i - 1 \in F \ {q}
      BY <2>6, <2>9
    <3>6. Cardinality(G) <= Cardinality(F \ {q})
      BY <2>8, <3>4, <3>5
    <3> QED
      BY <1>1, <2>5, <2>10, <3>4, <3>6
  <2> QED
    BY <2>1, <2>4, <2>11, <2>12
<1> QED
  BY <1>2, <1>3

\* What is kept of a body are its first bytes.
LEMMA PrefixIs ==
    ASSUME NEW b, Whole(b), NEW m \in 0..Len(b)
    PROVE  /\ SubSeq(b, 1, m) \in Seq(Byte) /\ Len(SubSeq(b, 1, m)) = m
           /\ \A i \in 1..m : SubSeq(b, 1, m)[i] = b[i]
           /\ RuneStarts(SubSeq(b, 1, m)) = Firsts(b, m)
           /\ \A k \in 0..m : SubSeq(SubSeq(b, 1, m), 1, k) = SubSeq(b, 1, k)
<1> DEFINE s == SubSeq(b, 1, m)
<1>1. Len(b) \in Nat /\ m \in Nat /\ b \in Seq(Byte) /\ \A i \in 1..m : b[i] \in Byte
  BY DEF Whole
<1>2. s \in Seq(Byte) /\ Len(s) = m /\ \A i \in 1..m : s[i] = b[i]
  BY <1>1, SubSeqProperties
<1> HIDE DEF s
<1>3. DOMAIN s = 1..m
  BY <1>2
<1>4. ASSUME NEW i \in 1..m PROVE Second(s, i) <=> b[i].kind = "second"
  <2>1. i > 1 => i - 1 \in 1..m
    BY <1>1
  <2>2. b[i].kind = "second" <=> i > 1 /\ b[i - 1].kind = "first"
    BY <1>1 DEF Whole
  <2> QED
    BY <1>2, <2>1, <2>2 DEF Second
<1>5. RuneStarts(s) = Firsts(b, m)
  BY <1>3, <1>4 DEF RuneStarts, Firsts
<1>6. ASSUME NEW k \in 0..m PROVE SubSeq(s, 1, k) = SubSeq(b, 1, k)
  <2>1. k \in Nat /\ \A i \in 1..k : s[i] \in Byte /\ b[i] \in Byte /\ s[i] = b[i]
    BY <1>1, <1>2
  <2>2. /\ SubSeq(s, 1, k) \in Seq(Byte) /\ Len(SubSeq(s, 1, k)) = k
        /\ \A i \in 1..k : SubSeq(s, 1, k)[i] = s[i]
    BY <2>1, SubSeqProperties
  <2>3. /\ SubSeq(b, 1, k) \in Seq(Byte) /\ Len(SubSeq(b, 1, k)) = k
        /\ \A i \in 1..k : SubSeq(b, 1, k)[i] = b[i]
    BY <2>1, SubSeqProperties
  <2> QED
    BY <2>1, <2>2, <2>3, SeqEqual
<1> QED
  BY <1>2, <1>5, <1>6 DEF s

\* Where the character after the first n begins, if it does among the first m bytes.
Nth(b, m, n) == {i \in 1..m : b[i].kind # "second" /\ Chars(b, i - 1) = n}
IsNth(i, b, m, n) == Chars(b, i - 1) = n /\ \A k \in Nat : k >= m => Nth(b, k, n) = {i}

LEMMA NthIs ==
    ASSUME NEW b, NEW m \in Nat, NEW n \in Nat, Chars(b, m) > n
    PROVE  \E i \in 1..m : IsNth(i, b, m, n)
<1> DEFINE T == {i \in 0..m : Chars(b, i) > n}
<1>1. T \in SUBSET Nat /\ m \in T
  OBVIOUS
<1> HIDE DEF T
<1>2. PICK i \in T : \A j \in T : i <= j
  BY <1>1, LeastElement
<1>3. i \in 0..m /\ Chars(b, i) > n
  BY <1>2 DEF T
<1>4. i # 0
  BY <1>3, NoChars
<1>5. i \in 1..m /\ i - 1 \in 0..m /\ i - 1 \in Nat /\ ~(i <= i - 1) /\ (i - 1) + 1 = i
  BY <1>3, <1>4
<1>6. Chars(b, i - 1) \in Nat /\ ~(Chars(b, i - 1) > n)
  BY <1>2, <1>5, CharsType DEF T
<1>7. Chars(b, i) = IF b[i].kind = "second" THEN Chars(b, i - 1) ELSE Chars(b, i - 1) + 1
  BY <1>5, NextChar
<1>8. Chars(b, i - 1) = n /\ b[i].kind # "second" /\ Chars(b, i) = n + 1
  BY <1>3, <1>6, <1>7
<1>9. ASSUME NEW k \in Nat, k >= m PROVE Nth(b, k, n) = {i}
  <2>1. i \in Nth(b, k, n)
    BY <1>5, <1>8, <1>9 DEF Nth
  <2>2. ASSUME NEW j \in Nth(b, k, n) PROVE j = i
    <3>1. j \in 1..k /\ j - 1 \in Nat /\ (j - 1) + 1 = j /\ b[j].kind # "second" /\ Chars(b, j - 1) = n
      BY DEF Nth
    <3>2. Chars(b, j) = n + 1
      BY <3>1, NextChar
    <3>3. CASE j < i
      <4>1. j \in 0..(i - 1)
        BY <1>5, <3>1, <3>3
      <4>2. Chars(b, j) <= Chars(b, i - 1)
        BY <1>5, <4>1, CharsType
      <4> QED
        BY <1>8, <3>2, <4>2
    <3>4. CASE i < j
      <4>1. i \in 0..(j - 1)
        BY <1>5, <3>1, <3>4
      <4>2. Chars(b, i) <= Chars(b, j - 1)
        BY <3>1, <4>1, CharsType
      <4> QED
        BY <1>8, <3>1, <4>2
    <3> QED
      BY <1>5, <3>1, <3>3, <3>4
  <2> QED
    BY <2>1, <2>2
<1> QED
  BY <1>5, <1>8, <1>9 DEF IsNth

LEMMA NthNone ==
    ASSUME NEW b, NEW m \in Nat, NEW n \in Nat, Chars(b, m) <= n
    PROVE  Nth(b, m, n) = {}
<1> SUFFICES ASSUME NEW j \in Nth(b, m, n) PROVE FALSE
  OBVIOUS
<1>1. j \in 0..m /\ j - 1 \in Nat /\ (j - 1) + 1 = j /\ b[j].kind # "second" /\ Chars(b, j - 1) = n
  BY DEF Nth
<1>2. Chars(b, j) = n + 1
  BY <1>1, NextChar
<1>3. Chars(b, j) <= Chars(b, m) /\ Chars(b, m) \in Nat
  BY <1>1, CharsType
<1> QED
  BY <1>2, <1>3

\* The least of one or two numbers.
LEMMA MinIs ==
    ASSUME NEW x \in Int, NEW y \in Int, x <= y
    PROVE  Min({x}) = x /\ Min({x} \cup {y}) = x
BY DEF Min

\* Truncating the first m bytes.
LEMMA TruncateIs ==
    ASSUME NEW b, Whole(b), NEW m \in 0..Len(b), NEW n \in Nat
    PROVE  /\ Chars(b, m) <= n => Truncate(SubSeq(b, 1, m), n) = SubSeq(b, 1, m)
           /\ Chars(b, m) > n =>
                 \E i \in 1..m : /\ Nth(b, Len(b), n) = {i} /\ Chars(b, i - 1) = n
                                 /\ Truncate(SubSeq(b, 1, m), n) = SubSeq(b, 1, i - 1)
<1> DEFINE s == SubSeq(b, 1, m)
           over == {i \in RuneStarts(s) : Cardinality({j \in RuneStarts(s) : j < i}) = n}
<1>1. Len(b) \in Nat /\ m \in Nat
  BY DEF Whole
<1>2. /\ RuneStarts(s) = Firsts(b, m)
      /\ \A k \in 0..m : SubSeq(s, 1, k) = SubSeq(b, 1, k)
  BY PrefixIs
<1>3. Truncate(s, n) = IF over = {} THEN s ELSE SubSeq(s, 1, Min(over) - 1)
  BY DEF Truncate
<1>4. over = Nth(b, m, n)
  <2>1. ASSUME NEW i \in 1..m PROVE {j \in RuneStarts(s) : j < i} = Firsts(b, i - 1)
    BY <1>1, <1>2 DEF Firsts
  <2>2. \A i \in 1..m : Cardinality({j \in RuneStarts(s) : j < i}) = Chars(b, i - 1)
    BY <2>1 DEF Chars
  <2>3. \A i \in RuneStarts(s) : i \in 1..m
    BY <1>2 DEF Firsts
  <2>4. over = {i \in RuneStarts(s) : Chars(b, i - 1) = n}
    BY <2>2, <2>3
  <2> QED
    BY <1>2, <2>4 DEF Nth, Firsts
<1> HIDE DEF s, over
<1>5. ASSUME Chars(b, m) <= n PROVE Truncate(s, n) = s
  BY <1>1, <1>3, <1>4, <1>5, NthNone
<1>6. ASSUME Chars(b, m) > n
      PROVE  \E i \in 1..m : /\ Nth(b, Len(b), n) = {i} /\ Chars(b, i - 1) = n
                             /\ Truncate(s, n) = SubSeq(b, 1, i - 1)
  <2>1. PICK i \in 1..m : IsNth(i, b, m, n)
    BY <1>1, <1>6, NthIs
  <2>2. Chars(b, i - 1) = n /\ Nth(b, m, n) = {i} /\ Nth(b, Len(b), n) = {i}
    BY <1>1, <2>1 DEF IsNth
  <2>3. Min({i}) = i
    BY <2>1, MinIs
  <2>4. Truncate(s, n) = SubSeq(s, 1, i - 1)
    BY <1>3, <1>4, <2>2, <2>3
  <2>5. i - 1 \in 0..m
    BY <1>1, <2>1
  <2> QED
    BY <1>2, <2>1, <2>2, <2>4, <2>5
<1> QED
  BY <1>5, <1>6 DEF s

\* Enough bytes for n characters, the n-th of them whole.
Enough(b, m, n) ==
    \/ Chars(b, m) > n
    \/ Chars(b, m) = n /\ ~Inside(b, m)
    \/ m = Len(b)

LEMMA TruncatesToFirst ==
    ASSUME NEW b, Whole(b), NEW m \in 0..Len(b), NEW n \in Nat, Enough(b, m, n)
    PROVE  Truncate(SubSeq(b, 1, m), n) = FirstChars(b, n)
<1>1. Len(b) \in Nat /\ m \in Nat /\ Chars(b, m) \in Nat
  BY CharsType DEF Whole
<1>2. PICK x : x = Min(Nth(b, Len(b), n) \cup {Len(b) + 1})
  OBVIOUS
<1>3. FirstChars(b, n) = SubSeq(b, 1, x - 1)
  <2>1. {i \in DOMAIN b : /\ b[i].kind # "second"
                          /\ Cardinality({j \in 1..(i - 1) : b[j].kind # "second"}) = n}
        = Nth(b, Len(b), n)
    <3>1. DOMAIN b = 1..Len(b)
      BY DEF Whole
    <3> QED
      BY <3>1 DEF Nth, Chars, Firsts
  <2> QED
    BY <1>2, <2>1 DEF FirstChars
<1>4. CASE Chars(b, m) > n
  <2>1. PICK i \in 1..m : /\ Nth(b, Len(b), n) = {i}
                          /\ Truncate(SubSeq(b, 1, m), n) = SubSeq(b, 1, i - 1)
    BY <1>4, TruncateIs
  <2>2. Min({i} \cup {Len(b) + 1}) = i
    <3>1. i \in Int /\ Len(b) + 1 \in Int /\ i <= Len(b) + 1
      BY <1>1, <2>1
    <3> QED
      BY <3>1, MinIs
  <2>3. x = i
    BY <1>2, <2>1, <2>2
  <2> QED
    BY <1>3, <2>1, <2>3
<1>5. CASE Chars(b, m) <= n
  <2>1. Truncate(SubSeq(b, 1, m), n) = SubSeq(b, 1, m)
    BY <1>5, TruncateIs
  <2>2. CASE m = Len(b)
    <3>1. Nth(b, Len(b), n) = {}
      BY <1>1, <1>5, <2>2, NthNone
    <3>2. Min({} \cup {Len(b) + 1}) = Len(b) + 1
      <4>1. {} \cup {Len(b) + 1} = {Len(b) + 1} /\ Len(b) + 1 \in Int /\ Len(b) + 1 <= Len(b) + 1
        BY <1>1
      <4> QED
        BY <4>1, MinIs, Zenon
    <3>3. x = Len(b) + 1
      BY <1>2, <3>1, <3>2
    <3>4. x - 1 = m
      BY <1>1, <2>2, <3>3
    <3> QED
      BY <1>3, <2>1, <3>4
  <2>3. CASE m # Len(b)
    <3>1. Chars(b, m) = n /\ b[m + 1].kind # "second" /\ m < Len(b)
      <4>1. m < Len(b)
        BY <1>1, <2>3
      <4>2. Chars(b, m) = n /\ ~Inside(b, m)
        BY <1>1, <1>5, <2>3 DEF Enough
      <4> QED
        BY <4>1, <4>2 DEF Inside
    <3>2. Chars(b, m + 1) = n + 1
      BY <1>1, <3>1, NextChar
    <3>3. PICK i \in 1..m + 1 : Nth(b, Len(b), n) = {i}
      <4>1. m + 1 \in Nat /\ Chars(b, m + 1) > n /\ Len(b) >= m + 1
        BY <1>1, <3>1, <3>2
      <4>2. \E i \in 1..m + 1 : IsNth(i, b, m + 1, n)
        BY <4>1, NthIs
      <4> QED
        BY <1>1, <4>1, <4>2 DEF IsNth
    <3>4. m + 1 \in Nth(b, Len(b), n)
      <4>1. m + 1 \in 1..Len(b) /\ m + 1 - 1 = m
        BY <1>1, <3>1
      <4> QED
        BY <3>1, <4>1 DEF Nth
    <3>5. i = m + 1
      BY <3>3, <3>4
    <3>6. Min({m + 1} \cup {Len(b) + 1}) = m + 1
      <4>1. m + 1 \in Int /\ Len(b) + 1 \in Int /\ m + 1 <= Len(b) + 1
        BY <1>1, <3>1
      <4> QED
        BY <4>1, MinIs, Zenon
    <3>7. x = m + 1
      BY <1>2, <3>3, <3>5, <3>6
    <3>8. x - 1 = m
      BY <1>1, <3>7
    <3> QED
      BY <1>3, <2>1, <3>8
  <2> QED
    BY <2>2, <2>3
<1> QED
  BY <1>1, <1>4, <1>5

\* How many characters the truncated bytes count as.
LEMMA RunesOfTruncated ==
    ASSUME NEW b, Whole(b), NEW m \in 0..Len(b), NEW n \in Nat
    PROVE  NumRunes(Truncate(SubSeq(b, 1, m), n)) = IF Chars(b, m) > n THEN n ELSE Chars(b, m)
<1>1. Len(b) \in Nat /\ m \in Nat /\ Chars(b, m) \in Nat
  BY CharsType DEF Whole
<1>2. \A k \in 0..Len(b) : NumRunes(SubSeq(b, 1, k)) = Chars(b, k)
  BY PrefixIs DEF NumRunes, Chars
<1>3. CASE Chars(b, m) > n
  <2>1. PICK i \in 1..m : /\ Chars(b, i - 1) = n
                          /\ Truncate(SubSeq(b, 1, m), n) = SubSeq(b, 1, i - 1)
    BY <1>3, TruncateIs
  <2>2. i - 1 \in 0..Len(b)
    BY <1>1, <2>1
  <2> QED
    BY <1>2, <1>3, <2>1, <2>2
<1>4. CASE ~(Chars(b, m) > n)
  <2>1. Truncate(SubSeq(b, 1, m), n) = SubSeq(b, 1, m)
    BY <1>1, <1>4, TruncateIs
  <2> QED
    BY <1>2, <1>4, <2>1
<1> QED
  BY <1>3, <1>4

\* More bytes are enough, too.
LEMMA MoreIsEnough ==
    ASSUME NEW b, Whole(b), NEW m \in 0..Len(b), NEW l \in m..Len(b), NEW n \in Nat, Enough(b, m, n)
    PROVE  Enough(b, l, n)
<1>1. Len(b) \in Nat /\ m \in Nat /\ l \in Nat /\ m <= l /\ l <= Len(b)
  BY DEF Whole
<1>2. Chars(b, m) \in Nat /\ Chars(b, l) \in Nat /\ Chars(b, m) <= Chars(b, l)
  BY <1>1, CharsType
<1>3. CASE m = l
  BY <1>3
<1>4. CASE m < l /\ Chars(b, m) = n /\ ~Inside(b, m)
  <2>0. b[m + 1].kind # "second"
    BY <1>1, <1>4 DEF Inside
  <2>1. Chars(b, m + 1) = n + 1
    BY <1>1, <1>4, <2>0, NextChar
  <2>2. m + 1 \in 0..l
    BY <1>1, <1>4
  <2>3. Chars(b, m + 1) <= Chars(b, l)
    BY <1>1, <2>2, CharsType
  <2>4. Chars(b, l) > n
    BY <1>2, <2>1, <2>3
  <2> QED
    BY <2>4 DEF Enough
<1>5. CASE Chars(b, m) > n
  <2>1. Chars(b, l) > n
    BY <1>2, <1>5
  <2> QED
    BY <2>1 DEF Enough
<1> QED
  BY <1>1, <1>3, <1>4, <1>5 DEF Enough

\* How many of the first t bytes the buffer keeps.
Kept(t) == IF t > StringLengthLimit * UTFMax THEN StringLengthLimit * UTFMax ELSE t

\* Writing the bytes that follow.
LEMMA BufferWriteIs ==
    ASSUME NEW b, Whole(b), NEW t \in 0..Len(b), NEW k \in 0..Len(b) - t
    PROVE  BufferWrite(SubSeq(b, 1, Kept(t)), SubSeq(b, t + 1, t + k)) = SubSeq(b, 1, Kept(t + k))
<1> DEFINE x == SubSeq(b, 1, Kept(t))
           y == SubSeq(b, t + 1, t + k)
           z == SubSeq(b, 1, Kept(t + k))
           rem == StringLengthLimit * UTFMax - Kept(t)
           w == IF k > rem THEN rem ELSE k
           v == SubSeq(y, 1, w)
<1>1. /\ Len(b) \in Nat /\ b \in Seq(Byte) /\ t \in Nat /\ k \in Nat /\ t + k <= Len(b)
      /\ StringLengthLimit * UTFMax \in Nat
  BY BodyCaptureAssumption DEF Whole, UTFMax
<1>2. /\ Kept(t) \in 0..t /\ Kept(t + k) \in 0..t + k /\ rem \in Nat /\ w \in 0..k
      /\ Kept(t + k) = Kept(t) + w /\ (w > 0 => Kept(t) = t)
  BY <1>1 DEF Kept
<1>3. \A i \in 1..Len(b) : b[i] \in Byte
  BY <1>1
<1>4. /\ x \in Seq(Byte) /\ Len(x) = Kept(t) /\ \A i \in 1..Kept(t) : x[i] = b[i]
      /\ z \in Seq(Byte) /\ Len(z) = Kept(t + k) /\ \A i \in 1..Kept(t + k) : z[i] = b[i]
  <2>1. Kept(t) \in 0..Len(b) /\ Kept(t + k) \in 0..Len(b)
    BY <1>1, <1>2
  <2> QED
    BY <2>1, PrefixIs
<1>5. y \in Seq(Byte) /\ Len(y) = k /\ \A i \in 1..k : y[i] = b[t + i]
  <2>1. PICK p, q \in Nat : p = t + 1 /\ q = t + k
    BY <1>1
  <2>2. \A i \in p..q : b[i] \in Byte
    BY <1>1, <1>3, <2>1
  <2>3. /\ SubSeq(b, p, q) \in Seq(Byte)
        /\ Len(SubSeq(b, p, q)) = IF p <= q THEN q - p + 1 ELSE 0
        /\ \A i \in 1..q - p + 1 : SubSeq(b, p, q)[i] = b[p + i - 1]
    BY <2>2, SubSeqProperties
  <2>4. q - p + 1 = k /\ (p <= q <=> k > 0) /\ \A i \in 1..k : p + i - 1 = t + i
    BY <1>1, <2>1
  <2>5. Len(SubSeq(b, p, q)) = k /\ \A i \in 1..k : SubSeq(b, p, q)[i] = b[t + i]
    BY <1>1, <2>3, <2>4
  <2> QED
    BY <2>1, <2>3, <2>5
<1> HIDE DEF x, y, z, rem
<1>6. v \in Seq(Byte) /\ Len(v) = w /\ \A i \in 1..w : v[i] = b[t + i]
  <2>1. w \in Nat /\ \A i \in 1..w : y[i] \in Byte
    BY <1>1, <1>2, <1>5
  <2>2. v \in Seq(Byte) /\ Len(v) = w /\ \A i \in 1..w : v[i] = y[i]
    BY <2>1, SubSeqProperties
  <2> QED
    BY <1>1, <1>2, <1>5, <2>2
<1>7. BufferWrite(x, y) = x \o v
  BY <1>4, <1>5 DEF BufferWrite, rem
<1> HIDE DEF v, w
<1>8. /\ x \o v \in Seq(Byte) /\ Len(x \o v) = Kept(t) + w
      /\ \A i \in 1..Kept(t) + w : (x \o v)[i] = IF i <= Kept(t) THEN x[i] ELSE v[i - Kept(t)]
  <2>1. /\ x \o v \in Seq(Byte) /\ Len(x \o v) = Len(x) + Len(v)
        /\ \A i \in 1..Len(x) + Len(v) : (x \o v)[i] = IF i <= Len(x) THEN x[i] ELSE v[i - Len(x)]
    BY <1>4, <1>6, ConcatProperties
  <2>2. Len(x) = Kept(t) /\ Len(v) = w
    BY <1>4, <1>6
  <2> QED
    BY <2>1, <2>2, Zenon
<1>9. ASSUME NEW i \in 1..Kept(t) + w PROVE (x \o v)[i] = z[i]
  <2>0. /\ i \in Nat /\ Kept(t) \in Nat /\ i >= 1
        /\ (x \o v)[i] = IF i <= Kept(t) THEN x[i] ELSE v[i - Kept(t)]
        /\ z[i] = b[i]
    BY <1>1, <1>2, <1>4, <1>8
  <2>1. CASE i <= Kept(t)
    <3>1. i \in 1..Kept(t)
      BY <2>0, <2>1
    <3>2. x[i] = b[i]
      BY <1>4, <3>1
    <3> QED
      BY <2>0, <2>1, <3>2
  <2>2. CASE i > Kept(t)
    <3>1. i - Kept(t) \in 1..w /\ Kept(t) = t
      BY <1>1, <1>2, <2>2
    <3>2. v[i - Kept(t)] = b[t + (i - Kept(t))] /\ t + (i - Kept(t)) = i
      BY <1>1, <1>6, <3>1
    <3> QED
      BY <2>0, <2>2, <3>2
  <2> QED
    BY <2>0, <2>1, <2>2
<1>10. x \o v = z
  BY <1>2, <1>4, <1>8, <1>9, SeqEqual
<1> QED
  BY <1>7, <1>10 DEF x, y, z

\* What the buffer keeps is enough once more has been read than it keeps.
LEMMA FullIsEnough ==
    ASSUME NEW b, Whole(b), 2 * StringLengthLimit <= Len(b)
    PROVE  Enough(b, 2 * StringLengthLimit, StringLengthLimit)
<1> DEFINE n == StringLengthLimit
<1>1. Len(b) \in Nat /\ n \in Nat /\ 2 * n \in 0..Len(b) /\ 0 \in 0..2 * n
  BY BodyCaptureAssumption DEF Whole
<1>2. ~Inside(b, 0)
  <2>1. 0 < Len(b) => 0 + 1 \in 1..Len(b) /\ ~(0 + 1 > 1)
    BY <1>1
  <2> QED
    BY <2>1 DEF Inside, Whole
<1>3. /\ 2 * n - 0 <= 2 * (Chars(b, 2 * n) - Chars(b, 0))
      /\ Inside(b, 2 * n) /\ 0 < 2 * n => 2 * n - 0 + 1 <= 2 * (Chars(b, 2 * n) - Chars(b, 0))
  BY <1>1, <1>2, CharsOfBytes
<1>4. Chars(b, 0) = 0 /\ Chars(b, 2 * n) \in Nat
  BY <1>1, NoChars, CharsType
<1> QED
  BY <1>1, <1>2, <1>3, <1>4 DEF Enough

\* What setContext reads on is enough, from where a character ends.
LEMMA ReadsEnough ==
    ASSUME NEW b, Whole(b), NEW t \in 0..Len(b),
           NEW k, k = Min({Remaining(SubSeq(b, 1, Kept(t))), Len(b) - t})
    PROVE  /\ k \in 0..Len(b) - t
           /\ ~Inside(b, t) \/ Enough(b, Kept(t), StringLengthLimit)
              => Enough(b, Kept(t + k), StringLengthLimit)
<1> DEFINE n == StringLengthLimit
           rem == Remaining(SubSeq(b, 1, Kept(t)))
<1>1. /\ Len(b) \in Nat /\ n \in Nat /\ t \in Nat /\ t <= Len(b) /\ UTFMax = 2
      /\ Kept(t) = IF t > 2 * n THEN 2 * n ELSE t
  BY BodyCaptureAssumption DEF Whole, UTFMax, Kept
<1>2. Kept(t) \in 0..Len(b) /\ Kept(t) \in Nat
  BY <1>1
<1>3. Chars(b, Kept(t)) \in Nat
  BY <1>2, CharsType
<1>4. rem = 2 * (n - (IF Chars(b, Kept(t)) > n THEN n ELSE Chars(b, Kept(t)))) /\ rem \in Nat
  <2>1. NumRunes(Truncate(SubSeq(b, 1, Kept(t)), n))
        = IF Chars(b, Kept(t)) > n THEN n ELSE Chars(b, Kept(t))
    BY <1>1, <1>2, RunesOfTruncated
  <2> QED
    BY <1>1, <1>3, <2>1 DEF Remaining
<1> HIDE DEF rem
<1>5. k = IF rem <= Len(b) - t THEN rem ELSE Len(b) - t
  <2>0. rem \in Int /\ Len(b) - t \in Int
    <3>1. Len(b) \in Int /\ t \in Int /\ rem \in Int
      BY <1>1, <1>4
    <3> QED
      BY <3>1
  <2>1. PICK r, l \in Int : r = rem /\ l = Len(b) - t
    BY <2>0, Zenon
  <2>2. k = Min({r, l})
    BY <2>1 DEF rem
  <2>3. CASE r <= l
    <3>1. {r, l} = {r} \cup {l}
      OBVIOUS
    <3>2. Min({r} \cup {l}) = r
      BY <2>3, MinIs
    <3> QED
      BY <2>1, <2>2, <2>3, <3>1, <3>2
  <2>4. CASE ~(r <= l)
    <3>1. {r, l} = {l} \cup {r} /\ l <= r
      BY <2>4
    <3>2. Min({l} \cup {r}) = l
      BY <3>1, MinIs
    <3> QED
      BY <2>1, <2>2, <2>4, <3>1, <3>2
  <2> QED
    BY <2>3, <2>4
<1>6. /\ k \in 0..Len(b) - t /\ t + k \in Nat /\ t + k <= Len(b)
      /\ Kept(t + k) = IF t + k > 2 * n THEN 2 * n ELSE t + k
  BY <1>1, <1>4, <1>5 DEF Kept
<1>7. CASE Enough(b, Kept(t), n)
  <2>1. Kept(t + k) \in Kept(t)..Len(b)
    BY <1>1, <1>6
  <2> QED
    BY <1>1, <1>2, <1>6, <1>7, <2>1, MoreIsEnough
<1>8. CASE t + k > 2 * n
  <2>1. 2 * n <= Len(b)
    BY <1>1, <1>6, <1>8
  <2> QED
    BY <1>6, <1>8, <2>1, FullIsEnough
<1>9. CASE ~Inside(b, t) /\ ~Enough(b, Kept(t), n) /\ ~(t + k > 2 * n)
  <2>1. Kept(t) = t /\ Kept(t + k) = t + k /\ ~Inside(b, t) /\ ~(Chars(b, t) > n)
    BY <1>1, <1>6, <1>9 DEF Enough
  <2>2. CASE k = Len(b) - t
    BY <1>1, <1>6, <2>1, <2>2 DEF Enough
  <2>3. CASE k = rem
    <3>1. PICK q : q = t + k
      OBVIOUS
    <3>0. Len(b) \in Nat /\ t \in Nat /\ k \in Nat /\ q \in Nat /\ q = t + k /\ q <= Len(b)
      <4>1. k \in Nat
        BY <1>1, <1>4, <2>3
      <4>2. q \in Nat /\ q <= Len(b)
        BY <1>6, <3>1, Zenon
      <4> QED
        BY <1>1, <3>1, <4>1, <4>2
    <3>2. q \in 0..Len(b) /\ t \in 0..q
      BY <3>0
    <3>3. /\ q - t <= 2 * (Chars(b, q) - Chars(b, t))
          /\ Inside(b, q) /\ t < q => q - t + 1 <= 2 * (Chars(b, q) - Chars(b, t))
      BY <2>1, <3>2, CharsOfBytes
    <3>4. Chars(b, q) \in Nat /\ Chars(b, t) \in Nat /\ k = 2 * (n - Chars(b, t))
      BY <1>3, <1>4, <2>1, <2>3, <3>2, CharsType
    <3>5. CASE k = 0
      <4>1. Chars(b, t) = n /\ t + k = t
        BY <1>1, <3>4, <3>5
      <4> QED
        BY <1>6, <2>1, <4>1 DEF Enough
    <3>6. CASE k > 0
      <4>1. Chars(b, q) > n \/ (Chars(b, q) = n /\ ~Inside(b, q))
        <5>1. t < q
          BY <3>0, <3>6
        <5>2. q - t = k /\ q - t + 1 = k + 1
          BY <3>0
        <5>3. /\ k <= 2 * (Chars(b, q) - Chars(b, t))
              /\ Inside(b, q) => k + 1 <= 2 * (Chars(b, q) - Chars(b, t))
          BY <3>3, <5>1, <5>2, Zenon
        <5>4. Chars(b, q) \in Nat /\ n \in Nat
          BY <1>1, <3>4
        <5>5. Chars(b, t) \in Nat /\ k = 2 * (n - Chars(b, t))
          BY <3>4
        <5> QED
          BY <5>3, <5>4, <5>5
      <4> QED
        BY <1>6, <2>1, <3>1, <4>1 DEF Enough
    <3> QED
      BY <1>6, <3>5, <3>6
  <2> QED
    BY <1>5, <2>2, <2>3
<1> QED
  BY <1>6, <1>7, <1>8, <1>9

\* What c has kept of the body it is reading: its first bytes, and enough of them
\* unless more can be read from where a character ends.
CapturerExact(c) ==
    LET o == cap[c].originalBody IN
    o # NoReq =>
        /\ taken[o] \in 0..Len(Body(o))
        /\ cap[c].buffer = SubSeq(Body(o), 1, Kept(taken[o]))
        /\ \/ split[o] \/ ~Inside(Body(o), taken[o])
           \/ Enough(Body(o), Kept(taken[o]), StringLengthLimit)

BodyType ==
    /\ pool \in [Capturer -> {0, 1}]
    /\ cap \in [Capturer -> [originalBody : Req \cup {NoReq}, buffer : Seq(Byte)]]
    /\ bc \in [Req -> Capturer \cup {NoCapturer}]
    /\ phase \in [Req -> {"new", "handling", "done"}]
    /\ taken \in [Req -> Nat] /\ split \in [Req -> BOOLEAN]
    /\ DOMAIN raw = Req

\* A capturer of a request being handled is not in the pool and reads its body.
Captures(r) ==
    /\ phase[r] = "new" => /\ bc[r] = NoCapturer /\ taken[r] = 0
                           /\ \A c \in Capturer : cap[c].originalBody # r
    /\ bc[r] # NoCapturer => cap[bc[r]].originalBody # NoReq
    /\ phase[r] = "handling" => /\ bc[r] # NoCapturer /\ pool[bc[r]] = 0
                                /\ cap[bc[r]].originalBody = r

RawExact(r) ==
    raw[r].bytes # <<>> /\ ~raw[r].late /\ ~raw[r].cut =>
        raw[r].bytes = FirstChars(Body(r), StringLengthLimit)

\* The inductive invariant behind BodiesExact: every capturer that reads a body
\* has kept its first bytes, no two read the same, and those of requests being
\* handled are out of the pool and read their bodies.
BodyInv ==
    /\ BodyType
    /\ \A c \in Capturer : CapturerExact(c)
    /\ \A c, d \in Capturer : cap[c].originalBody = cap[d].originalBody
                              => c = d \/ cap[c].originalBody = NoReq
    /\ \A r \in Req : Captures(r) /\ RawExact(r)

LEMMA BodyInvInit == BodyInit => BodyInv
<1> SUFFICES ASSUME BodyInit PROVE BodyInv
  OBVIOUS
<1> USE DEF BodyInit
<1>1. BodyType
  <2>1. [originalBody |-> NoReq, buffer |-> <<>>]
        \in [originalBody : Req \cup {NoReq}, buffer : Seq(Byte)]
    OBVIOUS
  <2> QED
    BY <2>1 DEF BodyType
<1>2. \A c \in Capturer : cap[c].originalBody = NoReq
  OBVIOUS
<1>3. \A c \in Capturer : CapturerExact(c)
  BY <1>2 DEF CapturerExact
<1>4. \A r \in Req : Captures(r) /\ RawExact(r)
  BY <1>2, BodyCaptureAssumption DEF Captures, RawExact
<1> QED
  BY <1>1, <1>2, <1>3, <1>4 DEF BodyInv

\* Where the body of a capturer that bc names is read.
LEMMA ReadsBody ==
    ASSUME BodyInv, NEW r \in Req, bc[r] # NoCapturer
    PROVE  LET o == cap[bc[r]].originalBody IN
           /\ bc[r] \in Capturer /\ o \in Req /\ Whole(Body(o)) /\ phase[o] # "new"
           /\ Len(Body(o)) \in Nat /\ taken[o] \in 0..Len(Body(o))
           /\ cap[bc[r]].buffer = SubSeq(Body(o), 1, Kept(taken[o]))
<1>1. bc[r] \in Capturer /\ cap[bc[r]].originalBody # NoReq
  BY DEF BodyInv, BodyType, Captures
<1>2. cap[bc[r]].originalBody \in Req
  BY <1>1 DEF BodyInv, BodyType
<1>3. PICK o \in Req : o = cap[bc[r]].originalBody
  BY <1>2
<1>4. Whole(Body(o)) /\ Len(Body(o)) \in Nat
  BY BodiesWhole DEF Whole
<1>5. phase[o] # "new"
  BY <1>1, <1>3 DEF BodyInv, Captures
<1>6. taken[o] \in 0..Len(Body(o)) /\ cap[bc[r]].buffer = SubSeq(Body(o), 1, Kept(taken[o]))
  BY <1>1, <1>3, o # NoReq DEF BodyInv, CapturerExact
<1> QED
  BY <1>1, <1>3, <1>4, <1>5, <1>6

\* k more bytes of the body that c captures for r are read.
Reads(r, k) ==
    LET c == bc[r]
        o == cap[c].originalBody IN
    /\ taken' = [taken EXCEPT ![o] = @ + k]
    /\ cap' = [cap EXCEPT ![c].buffer =
                   BufferWrite(cap[c].buffer, SubSeq(Body(o), taken[o] + 1, taken[o] + k))]

LEMMA ReadsStep ==
    ASSUME BodyInv, NEW r \in Req, bc[r] # NoCapturer, NEW k, Reads(r, k),
           k \in 0..Len(Body(cap[bc[r]].originalBody)) - taken[cap[bc[r]].originalBody],
           UNCHANGED <<pool, bc, phase>>, split' \in [Req -> BOOLEAN],
           \A q \in Req : q # cap[bc[r]].originalBody => split'[q] = split[q],
           LET o == cap[bc[r]].originalBody IN
           \/ split'[o] \/ ~Inside(Body(o), taken[o] + k)
           \/ Enough(Body(o), Kept(taken[o] + k), StringLengthLimit),
           DOMAIN raw' = Req, \A q \in Req : RawExact(q)'
    PROVE  BodyInv'
<1>1. PICK c, o : c = bc[r] /\ o = cap[c].originalBody
  OBVIOUS
<1>2. /\ c \in Capturer /\ o \in Req /\ Whole(Body(o)) /\ phase[o] # "new"
      /\ Len(Body(o)) \in Nat /\ taken[o] \in 0..Len(Body(o))
      /\ cap[c].buffer = SubSeq(Body(o), 1, Kept(taken[o]))
  BY <1>1, ReadsBody
<1>3. k \in 0..Len(Body(o)) - taken[o] /\ k \in Nat /\ taken[o] + k \in 0..Len(Body(o))
  <2>1. k \in 0..Len(Body(o)) - taken[o]
    BY <1>1
  <2> QED
    BY <1>2, <2>1
<1>4. BufferWrite(cap[c].buffer, SubSeq(Body(o), taken[o] + 1, taken[o] + k))
      = SubSeq(Body(o), 1, Kept(taken[o] + k))
  BY <1>2, <1>3, BufferWriteIs
<1>5. SubSeq(Body(o), 1, Kept(taken[o] + k)) \in Seq(Byte)
  <2>1. Kept(taken[o] + k) \in 0..Len(Body(o))
    <3>1. StringLengthLimit * UTFMax \in Nat
      BY BodyCaptureAssumption DEF UTFMax
    <3> QED
      BY <1>2, <1>3, <3>1 DEF Kept
  <2> QED
    BY <1>2, <2>1, PrefixIs
<1>6. /\ taken' = [taken EXCEPT ![o] = taken[o] + k]
      /\ cap' = [cap EXCEPT ![c].buffer = SubSeq(Body(o), 1, Kept(taken[o] + k))]
  BY <1>1, <1>4 DEF Reads
<1>7. BodyType
  BY DEF BodyInv
<1>8. /\ taken'[o] = taken[o] + k /\ \A q \in Req : q # o => taken'[q] = taken[q]
      /\ cap'[c].buffer = SubSeq(Body(o), 1, Kept(taken[o] + k))
      /\ \A d \in Capturer : cap'[d].originalBody = cap[d].originalBody
      /\ \A d \in Capturer : d # c => cap'[d].buffer = cap[d].buffer
  BY <1>2, <1>6, <1>7 DEF BodyType
<1>9. BodyType'
  <2>1. taken' \in [Req -> Nat]
    BY <1>2, <1>3, <1>6, <1>7 DEF BodyType
  <2>2. cap' \in [Capturer -> [originalBody : Req \cup {NoReq}, buffer : Seq(Byte)]]
    <3>1. PICK y \in Seq(Byte) : y = SubSeq(Body(o), 1, Kept(taken[o] + k))
      BY <1>5
    <3>2. cap' = [cap EXCEPT ![c].buffer = y]
      BY <1>6, <3>1
    <3>3. cap \in [Capturer -> [originalBody : Req \cup {NoReq}, buffer : Seq(Byte)]]
      BY <1>7 DEF BodyType
    <3> QED
      BY <1>2, <3>2, <3>3
  <2> QED
    BY <1>7, <2>1, <2>2 DEF BodyType
<1>10. ASSUME NEW d \in Capturer PROVE CapturerExact(d)'
  <2>1. CASE d = c
    <3>1. /\ cap'[c].originalBody = o /\ taken'[o] \in 0..Len(Body(o))
          /\ cap'[c].buffer = SubSeq(Body(o), 1, Kept(taken'[o]))
      BY <1>1, <1>2, <1>3, <1>8
    <3>2. \/ split'[o] \/ ~Inside(Body(o), taken'[o])
          \/ Enough(Body(o), Kept(taken'[o]), StringLengthLimit)
      BY <1>1, <1>8
    <3> QED
      BY <2>1, <3>1, <3>2 DEF CapturerExact, Body, Inside, Enough, Kept, Chars, Firsts
  <2>2. CASE d # c
    <3>1. PICK p : p = cap[d].originalBody
      OBVIOUS
    <3>2. CapturerExact(d) /\ (p # NoReq => p # o /\ p \in Req)
      BY <1>1, <1>2, <1>7, <2>2, <3>1 DEF BodyInv, BodyType
    <3>3. p # NoReq => taken'[p] = taken[p] /\ split'[p] = split[p]
      BY <1>1, <1>8, <3>2
    <3>4. cap'[d].originalBody = p /\ cap'[d].buffer = cap[d].buffer
      BY <1>8, <2>2, <3>1
    <3> QED
      BY <3>1, <3>2, <3>3, <3>4 DEF CapturerExact, Body, Inside, Enough, Kept, Chars, Firsts
  <2> QED
    BY <2>1, <2>2
<1>11. ASSUME NEW q \in Req PROVE Captures(q)'
  <2>1. Captures(q)
    BY DEF BodyInv
  <2>2. bc[q] # NoCapturer => bc[q] \in Capturer
    BY <1>7 DEF BodyType
  <2>3. phase[q] = "new" => taken'[q] = taken[q]
    BY <1>2, <1>8
  <2> QED
    BY <1>8, <2>1, <2>2, <2>3 DEF Captures
<1>12. \A d, e \in Capturer : cap'[d].originalBody = cap'[e].originalBody
                              => d = e \/ cap'[d].originalBody = NoReq
  BY <1>8 DEF BodyInv
<1> QED
  BY <1>9, <1>10, <1>11, <1>12 DEF BodyInv

LEMMA CaptureStep ==
    ASSUME BodyInv, NEW r \in Req, CaptureHTTPRequestBody(r) PROVE BodyInv'
<1> USE DEF CaptureHTTPRequestBody
<1>1. PICK c \in Capturer :
          /\ pool[c] > 0
          /\ pool' = [pool EXCEPT ![c] = @ - 1]
          /\ cap' = [cap EXCEPT ![c] = [originalBody |-> r, buffer |-> <<>>]]
          /\ bc' = [bc EXCEPT ![r] = c]
  OBVIOUS
<1>2. /\ phase[r] = "new" /\ phase' = [phase EXCEPT ![r] = "handling"]
      /\ UNCHANGED <<taken, raw, split>>
  OBVIOUS
<1> HIDE DEF CaptureHTTPRequestBody
<1>3. BodyType /\ r # NoReq /\ c # NoCapturer
  BY BodyCaptureAssumption DEF BodyInv
<1>4. pool[c] = 1 /\ pool'[c] = 0 /\ \A d \in Capturer : d # c => pool'[d] = pool[d]
  BY <1>1, <1>3 DEF BodyType
<1>5. /\ cap'[c].originalBody = r /\ cap'[c].buffer = <<>>
      /\ \A d \in Capturer : d # c => cap'[d] = cap[d]
      /\ bc'[r] = c /\ \A q \in Req : q # r => bc'[q] = bc[q]
      /\ phase'[r] = "handling" /\ \A q \in Req : q # r => phase'[q] = phase[q]
  BY <1>1, <1>2, <1>3 DEF BodyType
<1>6. BodyType'
  <2>1. pool' \in [Capturer -> {0, 1}]
    BY <1>1, <1>3, <1>4 DEF BodyType
  <2>2. cap' \in [Capturer -> [originalBody : Req \cup {NoReq}, buffer : Seq(Byte)]]
    <3>1. [originalBody |-> r, buffer |-> <<>>]
          \in [originalBody : Req \cup {NoReq}, buffer : Seq(Byte)]
      OBVIOUS
    <3> QED
      BY <1>1, <1>3, <3>1 DEF BodyType
  <2> QED
    BY <1>1, <1>2, <1>3, <2>1, <2>2 DEF BodyType
<1>7. taken[r] = 0 /\ \A d \in Capturer : cap[d].originalBody # r
  BY <1>2 DEF BodyInv, Captures
<1>8. CapturerExact(c)'
  <2>1. Whole(Body(r)) /\ Len(Body(r)) \in Nat
    BY BodiesWhole DEF Whole
  <2>2. ~Inside(Body(r), 0)
    <3>1. 0 < Len(Body(r)) => 0 + 1 \in 1..Len(Body(r)) /\ ~(0 + 1 > 1)
      BY <2>1
    <3> QED
      BY <2>1, <3>1 DEF Inside, Whole
  <2>3. Kept(0) = 0
    BY BodyCaptureAssumption DEF Kept, UTFMax
  <2>4. SubSeq(Body(r), 1, 0) = <<>>
    BY SubSeqEmpty
  <2>5. taken'[r] = 0 /\ 0 \in 0..Len(Body(r))
    BY <1>2, <1>7, <2>1
  <2>6. /\ cap'[c].originalBody = r /\ taken'[r] \in 0..Len(Body(r))
        /\ cap'[c].buffer = SubSeq(Body(r), 1, Kept(taken'[r]))
        /\ ~Inside(Body(r), taken'[r])
    BY <1>5, <2>2, <2>3, <2>4, <2>5
  <2> QED
    BY <2>6 DEF CapturerExact, Body, Inside, Enough, Kept, Chars, Firsts
<1>9. ASSUME NEW d \in Capturer, d # c PROVE CapturerExact(d)'
  <2>1. CapturerExact(d) /\ cap'[d] = cap[d] /\ taken' = taken /\ split' = split
    BY <1>2, <1>5, <1>9 DEF BodyInv
  <2> QED
    BY <2>1 DEF CapturerExact, Body, Inside, Enough, Kept, Chars, Firsts
<1>10. ASSUME NEW q \in Req PROVE Captures(q)'
  <2>1. CASE q = r
    BY <1>3, <1>4, <1>5, <2>1 DEF Captures
  <2>2. CASE q # r
    <3>1. Captures(q) /\ phase'[q] = phase[q] /\ bc'[q] = bc[q] /\ taken'[q] = taken[q]
      BY <1>2, <1>5, <2>2 DEF BodyInv
    <3>2. \A d \in Capturer : cap[d].originalBody # q => cap'[d].originalBody # q
      BY <1>5, <2>2
    <3>3. bc[q] # NoCapturer => bc[q] \in Capturer
      BY <1>3 DEF BodyType
    <3>4. bc[q] # NoCapturer => cap'[bc[q]].originalBody # NoReq
      BY <1>3, <1>5, <3>1, <3>3 DEF Captures
    <3>5. phase[q] = "handling" => bc[q] # c
      BY <1>4, <3>1 DEF Captures
    <3> QED
      BY <1>4, <1>5, <3>1, <3>2, <3>3, <3>4, <3>5 DEF Captures
  <2> QED
    BY <2>1, <2>2
<1>11. \A q \in Req : RawExact(q)'
  BY <1>2 DEF BodyInv, RawExact, FirstChars, Body
<1>12. \A d, e \in Capturer : cap'[d].originalBody = cap'[e].originalBody
                              => d = e \/ cap'[d].originalBody = NoReq
  BY <1>5, <1>7 DEF BodyInv
<1> QED
  BY <1>6, <1>8, <1>9, <1>10, <1>11, <1>12 DEF BodyInv

LEMMA ReadStep ==
    ASSUME BodyInv, NEW r \in Req, Read(r) PROVE BodyInv'
<1> USE DEF Read
<1>1. PICK c, o : c = bc[r] /\ o = cap[c].originalBody
  OBVIOUS
<1>2. PICK n \in 1..(Len(Body(o)) - taken[o]) :
          /\ taken' = [taken EXCEPT ![o] = @ + n]
          /\ cap' = [cap EXCEPT ![c].buffer =
                         BufferWrite(@, SubSeq(Body(o), taken[o] + 1, taken[o] + n))]
          /\ split' = [split EXCEPT ![o] =
                 taken[o] + n < Len(Body(o)) /\ Second(Body(o), taken[o] + n + 1)]
  BY <1>1
<1>3. bc[r] # NoCapturer /\ UNCHANGED <<pool, bc, phase, raw>>
  OBVIOUS
<1> HIDE DEF Read
<1>4. /\ c \in Capturer /\ o \in Req /\ Whole(Body(o))
      /\ Len(Body(o)) \in Nat /\ taken[o] \in 0..Len(Body(o))
  BY <1>1, <1>3, ReadsBody
<1>5. BodyType
  BY DEF BodyInv
<1>6. Reads(r, n)
  <2>1. cap' = [cap EXCEPT ![c].buffer =
                    BufferWrite(cap[c].buffer, SubSeq(Body(o), taken[o] + 1, taken[o] + n))]
    BY <1>2, <1>4, <1>5 DEF BodyType
  <2> QED
    BY <1>1, <1>2, <2>1 DEF Reads
<1>7. n \in 0..Len(Body(o)) - taken[o] /\ n \in Nat /\ taken[o] \in Nat
  BY <1>2, <1>4
<1>8. Inside(Body(o), taken[o] + n) =>
          taken[o] + n < Len(Body(o)) /\ Second(Body(o), taken[o] + n + 1)
  <2> SUFFICES ASSUME Inside(Body(o), taken[o] + n) PROVE Second(Body(o), taken[o] + n + 1)
    BY DEF Inside
  <2>1. PICK q \in Nat : q = taken[o] + n
    BY <1>7
  <2>2. q < Len(Body(o)) /\ Body(o)[q + 1].kind = "second"
    BY <2>1 DEF Inside
  <2>3. q + 1 \in 1..Len(Body(o))
    BY <1>4, <2>2
  <2>4. q + 1 > 1 /\ Body(o)[q + 1 - 1].kind = "first"
    BY <1>4, <2>2, <2>3 DEF Whole
  <2> QED
    BY <2>1, <2>2, <2>4 DEF Second
<1>9. split' \in [Req -> BOOLEAN] /\ \A q \in Req : q # o => split'[q] = split[q]
  <2>1. PICK s \in BOOLEAN : s = (taken[o] + n < Len(Body(o)) /\ Second(Body(o), taken[o] + n + 1))
    OBVIOUS
  <2>2. split' = [split EXCEPT ![o] = s]
    BY <1>2, <2>1, Zenon
  <2> QED
    BY <1>4, <1>5, <2>2 DEF BodyType
<1>10. split'[o] \/ ~Inside(Body(o), taken[o] + n)
  <2>1. split'[o] = (taken[o] + n < Len(Body(o)) /\ Second(Body(o), taken[o] + n + 1))
    <3>1. o \in DOMAIN split
      BY <1>4, <1>5 DEF BodyType
    <3> QED
      BY <1>2, <3>1, Zenon
  <2> QED
    BY <1>8, <2>1, Zenon
<1>11. DOMAIN raw' = Req /\ \A q \in Req : RawExact(q)'
  BY <1>3, <1>5 DEF BodyInv, BodyType, RawExact, FirstChars, Body
<1> QED
  BY <1>1, <1>3, <1>6, <1>7, <1>9, <1>10, <1>11, ReadsStep

LEMMA SetStep ==
    ASSUME BodyInv, NEW r \in Req, NEW what, SetHTTPRequestBody(r, what) PROVE BodyInv'
<1> USE DEF SetHTTPRequestBody
<1>1. PICK c, o : c = bc[r] /\ o = cap[c].originalBody
  OBVIOUS
<1>2. PICK n : n = Min({Remaining(cap[c].buffer), Len(Body(o)) - taken[o]})
  OBVIOUS
<1>3. PICK buffer : buffer = BufferWrite(cap[c].buffer, SubSeq(Body(o), taken[o] + 1, taken[o] + n))
  OBVIOUS
<1>4. /\ taken' = [taken EXCEPT ![o] = @ + n]
      /\ cap' = [cap EXCEPT ![c].buffer = buffer]
      /\ raw' = [raw EXCEPT ![r] = [bytes |-> Truncate(buffer, StringLengthLimit),
                                    late |-> phase[r] = "done", cut |-> split[o]]]
      /\ phase[r] \in {"handling", "done"} /\ bc[r] # NoCapturer
      /\ UNCHANGED <<pool, bc, phase, split>>
  BY <1>1, <1>2, <1>3
<1> HIDE DEF SetHTTPRequestBody
<1>5. /\ c \in Capturer /\ o \in Req /\ Whole(Body(o))
      /\ Len(Body(o)) \in Nat /\ taken[o] \in 0..Len(Body(o))
      /\ cap[c].buffer = SubSeq(Body(o), 1, Kept(taken[o]))
  BY <1>1, <1>4, ReadsBody
<1>6. BodyType
  BY DEF BodyInv
<1>7. Reads(r, n)
  BY <1>1, <1>3, <1>4 DEF Reads
<1>8. split[o] \/ ~Inside(Body(o), taken[o])
      \/ Enough(Body(o), Kept(taken[o]), StringLengthLimit)
  <2>1. CapturerExact(c) /\ o # NoReq
    BY <1>5, BodyCaptureAssumption DEF BodyInv
  <2> QED
    BY <1>1, <2>1 DEF CapturerExact
<1>9. n \in 0..Len(Body(o)) - taken[o]
      /\ (split[o] \/ Enough(Body(o), Kept(taken[o] + n), StringLengthLimit))
  <2>1. n = Min({Remaining(SubSeq(Body(o), 1, Kept(taken[o]))), Len(Body(o)) - taken[o]})
    BY <1>2, <1>5
  <2> QED
    BY <1>5, <1>8, <2>1, ReadsEnough
<1>10. buffer = SubSeq(Body(o), 1, Kept(taken[o] + n))
  BY <1>3, <1>5, <1>9, BufferWriteIs
<1>11. RawExact(r)'
  <2> SUFFICES ASSUME phase[r] = "handling", ~split[o]
               PROVE  Truncate(buffer, StringLengthLimit) = FirstChars(Body(r), StringLengthLimit)
    <3>1. raw'[r] = [bytes |-> Truncate(buffer, StringLengthLimit),
                     late |-> phase[r] = "done", cut |-> split[o]]
      BY <1>4, <1>6 DEF BodyType
    <3>2. /\ raw'[r].bytes = Truncate(buffer, StringLengthLimit)
          /\ ~raw'[r].late <=> phase[r] # "done"
          /\ raw'[r].cut = split[o]
      <4>1. PICK x, l, t : /\ x = Truncate(buffer, StringLengthLimit)
                           /\ l = (phase[r] = "done") /\ t = split[o]
        OBVIOUS
      <4>2. raw'[r] = [bytes |-> x, late |-> l, cut |-> t]
        BY <3>1, <4>1, Zenon
      <4>3. raw'[r].bytes = x /\ raw'[r].late = l /\ raw'[r].cut = t
        BY <4>2
      <4> QED
        BY <4>1, <4>3
    <3>3. ~raw'[r].late => phase[r] = "handling"
      BY <1>4, <3>2
    <3> QED
      BY <3>2, <3>3 DEF RawExact, FirstChars, Body
  <2>1. o = r
    BY <1>1 DEF BodyInv, Captures
  <2>2. Kept(taken[o] + n) \in 0..Len(Body(o))
    <3>1. StringLengthLimit * UTFMax \in Nat /\ taken[o] + n \in 0..Len(Body(o))
      BY <1>5, <1>9, BodyCaptureAssumption DEF UTFMax
    <3> QED
      BY <1>5, <3>1 DEF Kept
  <2>3. StringLengthLimit \in Nat
    BY BodyCaptureAssumption
  <2> QED
    BY <1>5, <1>9, <1>10, <2>1, <2>2, <2>3, TruncatesToFirst
<1>12. \A q \in Req : RawExact(q)'
  <2> SUFFICES ASSUME NEW q \in Req, q # r PROVE RawExact(q)'
    BY <1>11
  <2>1. raw'[q] = raw[q] /\ RawExact(q)
    BY <1>4, <1>6 DEF BodyType, BodyInv
  <2> QED
    BY <2>1 DEF RawExact, FirstChars, Body
<1>13. DOMAIN raw' = Req /\ split' \in [Req -> BOOLEAN] /\ \A q \in Req : split'[q] = split[q]
  BY <1>4, <1>6 DEF BodyType
<1> QED
  BY <1>1, <1>4, <1>5, <1>7, <1>9, <1>12, <1>13, ReadsStep

LEMMA DiscardStep ==
    ASSUME BodyInv, NEW r \in Req, Discard(r) PROVE BodyInv'
<1>1. /\ phase[r] = "handling" /\ pool' = [pool EXCEPT ![bc[r]] = @ + 1]
      /\ phase' = [phase EXCEPT ![r] = "done"]
      /\ UNCHANGED <<cap, bc, taken, raw, split>>
  BY DEF Discard, Puts
<1>2. BodyType /\ bc[r] # NoCapturer /\ bc[r] \in Capturer /\ pool[bc[r]] = 0
      /\ cap[bc[r]].originalBody = r
  BY <1>1 DEF BodyInv, BodyType, Captures
<1>3. /\ pool'[bc[r]] = 1 /\ \A d \in Capturer : d # bc[r] => pool'[d] = pool[d]
      /\ phase'[r] = "done" /\ \A q \in Req : q # r => phase'[q] = phase[q]
  BY <1>1, <1>2 DEF BodyType
<1>4. BodyType'
  BY <1>1, <1>2 DEF BodyType
<1>5. \A c \in Capturer : CapturerExact(c)'
  BY <1>1 DEF BodyInv, CapturerExact, Body, Inside, Enough, Kept, Chars, Firsts
<1>6. ASSUME NEW q \in Req PROVE Captures(q)'
  <2>1. Captures(q) /\ bc'[q] = bc[q] /\ taken'[q] = taken[q] /\ cap' = cap
    BY <1>1 DEF BodyInv
  <2>2. CASE q = r
    BY <1>2, <1>3, <2>1, <2>2 DEF Captures
  <2>3. CASE q # r
    <3>1. phase[q] = "handling" => bc[q] # bc[r] /\ bc[q] \in Capturer
      BY <1>2, <2>1, <2>3 DEF Captures, BodyType
    <3> QED
      BY <1>3, <2>1, <2>3, <3>1 DEF Captures
  <2> QED
    BY <2>2, <2>3
<1>7. \A q \in Req : RawExact(q)'
  BY <1>1 DEF BodyInv, RawExact, FirstChars, Body
<1> QED
  BY <1>1, <1>4, <1>5, <1>6, <1>7 DEF BodyInv

LEMMA BodyInvImplies == BodyInv => BodiesExact
<1> SUFFICES ASSUME BodyInv PROVE BodiesExact
  OBVIOUS
<1>1. CapturersPrivate
  BY DEF BodyInv, Captures, CapturersPrivate
<1>2. BodyExact
  BY DEF BodyInv, RawExact, BodyExact
<1> QED
  BY <1>1, <1>2 DEF BodiesExact

\* Whatever the limit and the bodies, however the handlers of any number of
\* requests read them through capturers that they share by the pool
\* (capturebody.go), no two requests being handled have the same capturer, and a
\* body is reported as the first characters of the request's own body.
THEOREM CapturedBodiesAreExact == BodySpec => []BodiesExact
<1>1. BodyInv /\ [BodyNext]_bodyVars => BodyInv'
  <2> SUFFICES ASSUME BodyInv, [BodyNext]_bodyVars PROVE BodyInv'
    OBVIOUS
  <2>1. ASSUME NEW r \in Req, CaptureHTTPRequestBody(r) PROVE BodyInv'
    BY <2>1, CaptureStep
  <2>2. ASSUME NEW r \in Req, Read(r) PROVE BodyInv'
    BY <2>2, ReadStep
  <2>3. ASSUME NEW r \in Req, Discard(r) PROVE BodyInv'
    BY <2>3, DiscardStep
  <2>4. ASSUME NEW r \in Req, NEW what, SetHTTPRequestBody(r, what) PROVE BodyInv'
    BY <2>4, SetStep
  <2>5. CASE UNCHANGED bodyVars
    <3>1. UNCHANGED <<pool, cap, bc, phase, taken, raw, split>>
      BY <2>5 DEF bodyVars
    <3>2. BodyType'
      BY <3>1 DEF BodyInv, BodyType
    <3>3. \A c \in Capturer : CapturerExact(c)'
      BY <3>1 DEF BodyInv, CapturerExact, Body, Inside, Enough, Kept, Chars, Firsts
    <3>4. \A r \in Req : Captures(r)' /\ RawExact(r)'
      BY <3>1 DEF BodyInv, Captures, RawExact, FirstChars, Body
    <3> QED
      BY <3>1, <3>2, <3>3, <3>4 DEF BodyInv
  <2> QED
    BY <2>1, <2>2, <2>3, <2>4, <2>5 DEF BodyNext
<1> QED
  BY <1>1, BodyInvInit, BodyInvImplies, PTL DEF BodySpec

-----------------------------------------------------------------------------
(* Errors and transactions that use pooled data *)

\* The custom context of errors, and of transactions.
CustomEntry == [who : {"error", "transaction"}, nr : Nat]
AnyCustom == Seq(CustomEntry)
TxnEntry == [who : {"transaction"}, nr : Nat]
TxnCustom == Seq(TxnEntry)

LEMMA NoCustom ==
    /\ <<>> \in AnyCustom /\ <<>> \in TxnCustom
    /\ Len(<<>>) = 0 /\ DOMAIN <<>> = {}
    /\ \A c \in AnyCustom \cup TxnCustom : Len(c) \in Nat /\ DOMAIN c = 1..Len(c)
BY EmptySeq, LenProperties DEF AnyCustom, TxnCustom

\* A value of the ErrorData: the fields that its life depends on.
ErrFields == {"phase", "nr", "recording", "isLog", "exception", "logStack", "culprit", "custom",
              "parent", "tx", "snapshot", "cause", "graph"}
IsErrData(e) ==
    /\ ErrFields \subseteq DOMAIN e
    /\ e.nr \in Nat /\ e.custom \in AnyCustom /\ e.snapshot \in Nat

\* Custom context of the error itself is at the end, and of error number nr.
OwnLast(custom, nr) ==
    \A i \in DOMAIN custom : custom[i].who = "error" => i = Len(custom) /\ custom[i].nr = nr

\* The ErrorData, with the array that its snapshot is a part of.
ErrDataOk(e, array) ==
    /\ IsErrData(e)
    /\ OwnLast(e.custom, e.nr)
    /\ e.phase = "pooled" => e.custom = <<>>
    /\ e.snapshot <= Len(array)

IsTxnData(t) ==
    /\ {"state", "nr", "len", "array", "captured", "outcome", "linked"} \subseteq DOMAIN t
    /\ t.nr \in Nat /\ t.len \in {0, 1} /\ t.array \in TxnCustom
    /\ t.captured \in BOOLEAN /\ t.linked \in Nat

\* The TransactionData: errorCaptured says whether an error was linked to the
\* transaction that has it now, and its outcome follows it.
TxnDataOk(t) ==
    /\ IsTxnData(t)
    /\ t.len <= Len(t.array) /\ Len(t.array) <= 1
    /\ t.linked <= t.nr
    /\ t.state = "pooled" => ~t.captured
    /\ t.state # "pooled" => (t.captured <=> t.linked = t.nr)
    /\ t.state = "queued" => (t.outcome = "failure" <=> t.captured)

PooledDataInv ==
    /\ ErrDataOk(errData, txnData.array)
    /\ TxnDataOk(txnData)
    /\ CustomPrecedence

\* What a new error is: the data has been in the pool, so it has no custom context.
LEMMA NewErrorData ==
    ASSUME NEW e, NEW f, NEW array, ErrDataOk(e, array), IsErrData(f), e.phase = "pooled",
           f.custom = e.custom, f.snapshot = e.snapshot, f.phase # "pooled"
    PROVE  ErrDataOk(f, array)
<1>1. DOMAIN f.custom = {}
    BY DEF ErrDataOk
<1>2. OwnLast(f.custom, f.nr)
    BY <1>1 DEF OwnLast
<1> QED
    BY <1>2 DEF ErrDataOk

\* A change that leaves the number, the custom context and the snapshot alone.
LEMMA OtherField ==
    ASSUME NEW e, NEW f, NEW array, ErrDataOk(e, array), IsErrData(f),
           f.custom = e.custom, f.snapshot = e.snapshot, f.nr = e.nr, f.phase # "pooled"
    PROVE  ErrDataOk(f, array)
BY DEF ErrDataOk

\* reset leaves nothing of the error but its number.
LEMMA ResetData ==
    ASSUME NEW e, NEW array \in TxnCustom, IsErrData(e)
    PROVE  ErrDataOk(ErrReset(e), array)
<1> DEFINE f == ErrReset(e)
<1>1. e.nr \in Nat
    BY DEF IsErrData, ErrFields
<1>2. /\ f.phase = "pooled" /\ f.nr = e.nr /\ f.custom = <<>> /\ f.snapshot = 0
      /\ IsErrData(f)
    BY <1>1, NoCustom DEF ErrReset, Unset, IsErrData, ErrFields
<1>3. DOMAIN f.custom = {} /\ Len(array) \in Nat
    BY <1>2, NoCustom
<1> HIDE DEF f
<1>4. OwnLast(f.custom, f.nr)
    BY <1>3 DEF OwnLast
<1> QED
    BY <1>2, <1>3, <1>4 DEF ErrDataOk, f

\* SetCustom puts the error's own context at the end.
LEMMA AppendOwn ==
    ASSUME NEW c \in AnyCustom, NEW n \in Nat, OwnLast(c, n),
           \A i \in DOMAIN c : c[i] # Custom("error", n)
    PROVE  /\ Append(c, Custom("error", n)) \in AnyCustom
           /\ OwnLast(Append(c, Custom("error", n)), n)
<1> DEFINE d == Append(c, Custom("error", n))
<1>1. Custom("error", n) \in CustomEntry
    BY DEF Custom, CustomEntry
<1>2. d \in AnyCustom
    BY <1>1 DEF AnyCustom
<1>3. ASSUME NEW i \in DOMAIN c PROVE c[i].who # "error"
    <2>1. c[i] \in CustomEntry
        BY <1>3 DEF AnyCustom
    <2>2. CASE c[i].who = "error"
        <3>1. c[i].nr = n
            BY <1>3, <2>2 DEF OwnLast
        <3>2. c[i] = [who |-> "error", nr |-> n]
            BY <2>1, <2>2, <3>1 DEF CustomEntry
        <3> QED
            BY <1>3, <3>2 DEF Custom
    <2> QED
        BY <2>2
<1>4. ASSUME NEW i \in DOMAIN d, d[i].who = "error" PROVE i = Len(d) /\ d[i].nr = n
    <2>1. i \in DOMAIN c => d[i] = c[i]
        BY DEF AnyCustom
    <2>2. i \notin DOMAIN c
        BY <1>3, <1>4, <2>1
    <2>3. i = Len(d)
        BY <1>4, <2>2 DEF AnyCustom
    <2>4. d[i] = Custom("error", n)
        BY <1>4, <2>2 DEF AnyCustom
    <2> QED
        BY <2>3, <2>4 DEF Custom
<1> QED
    BY <1>2, <1>4 DEF OwnLast

\* setSpanData puts the transaction's context in front.
LEMMA MergeTheirs ==
    ASSUME NEW c \in AnyCustom, NEW n \in Nat, OwnLast(c, n),
           NEW array \in TxnCustom, NEW k \in 0..Len(array)
    PROVE  /\ Merged(c, SubSeq(array, 1, k)) \in AnyCustom
           /\ OwnLast(Merged(c, SubSeq(array, 1, k)), n)
<1> DEFINE s == SubSeq(array, 1, k)
           d == s \o c
<1>1. /\ s \in TxnCustom /\ Len(s) = k
      /\ \A i \in 1..k : s[i] = array[i]
    <2>1. k \in Nat /\ 1..k \subseteq DOMAIN array /\ k - 1 + 1 = k
        BY NoCustom
    <2>2. \A i \in 1..k : array[i] \in TxnEntry
        BY <2>1 DEF TxnCustom
    <2>3. /\ s \in Seq(TxnEntry) /\ Len(s) = IF 1 <= k THEN k - 1 + 1 ELSE 0
          /\ \A i \in 1..(k - 1 + 1) : s[i] = array[1 + i - 1]
        BY <2>1, <2>2, SubSeqProperties
    <2>4. \A i \in 1..k : 1 + i - 1 = i
        BY <2>1
    <2> QED
        BY <2>1, <2>3, <2>4 DEF TxnCustom
<1>2. \A i \in 1..k : s[i].who = "transaction" /\ s[i] \in CustomEntry
    <2>1. \A i \in 1..k : s[i] \in TxnEntry
        BY <1>1 DEF TxnCustom
    <2> QED
        BY <2>1 DEF CustomEntry, TxnEntry
<1>3. s \in AnyCustom
    BY <1>1, <1>2 DEF AnyCustom, TxnCustom
<1> HIDE DEF s
<1>4. /\ d \in AnyCustom /\ Len(d) = k + Len(c)
      /\ \A i \in 1..(k + Len(c)) : d[i] = IF i <= k THEN s[i] ELSE c[i - k]
    <2>1. c \in Seq(CustomEntry) /\ s \in Seq(CustomEntry) /\ Len(s) = k
        BY <1>1, <1>3 DEF AnyCustom
    <2> QED
        BY <2>1, ConcatProperties DEF AnyCustom
<1> HIDE DEF d
<1>5. ASSUME NEW i \in DOMAIN d, d[i].who = "error" PROVE i = Len(d) /\ d[i].nr = n
    <2>1. i \in 1..(k + Len(c)) /\ Len(c) \in Nat /\ k \in Nat
        BY <1>4, <1>5
    <2>2. ~(i <= k)
        BY <1>2, <1>4, <1>5, <2>1
    <2>3. d[i] = c[i - k] /\ i - k \in DOMAIN c
        BY <1>4, <2>1, <2>2
    <2>4. i - k = Len(c) /\ c[i - k].nr = n
        BY <1>5, <2>3 DEF OwnLast
    <2> QED
        BY <1>4, <2>1, <2>3, <2>4
<1> QED
    BY <1>4, <1>5 DEF OwnLast, Merged, d, s

LEMMA PooledDataInit == ErrorInit => PooledDataInv
<1> SUFFICES ASSUME ErrorInit PROVE PooledDataInv
    OBVIOUS
<1>1. IsErrData(errData) /\ errData.custom = <<>> /\ errData.snapshot = 0
    BY NoCustom DEF ErrorInit, Unset, IsErrData, ErrFields
<1>2. IsTxnData(txnData) /\ txnData.array = <<>> /\ TxnDataOk(txnData)
    <2>1. /\ IsTxnData(txnData) /\ txnData.array = <<>> /\ txnData.len = 0 /\ txnData.nr = 0
          /\ txnData.linked = 0 /\ txnData.captured = FALSE /\ txnData.state = "pooled"
        BY NoCustom DEF ErrorInit, IsTxnData
    <2> QED
        BY <2>1, NoCustom DEF TxnDataOk
<1>3. DOMAIN errData.custom = {} /\ Len(txnData.array) = 0
    BY <1>1, <1>2, NoCustom
<1>4. OwnLast(errData.custom, errData.nr)
    BY <1>3 DEF OwnLast
<1>5. DOMAIN reported = {}
    BY NoCustom DEF ErrorInit
<1>6. CustomPrecedence
    BY <1>5 DEF CustomPrecedence
<1> QED
    BY <1>1, <1>2, <1>3, <1>4, <1>6 DEF PooledDataInv, ErrDataOk

\* The steps of the ErrorData that leave the transaction and the report alone.
LEMMA ErrDataStep ==
    ASSUME PooledDataInv, UNCHANGED <<txnData, reported>>, ErrDataOk(errData', txnData.array)
    PROVE  PooledDataInv'
BY DEF PooledDataInv, CustomPrecedence

\* The steps of the TransactionData alone.
LEMMA TxnDataStep ==
    ASSUME PooledDataInv, UNCHANGED <<errData, reported>>, TxnDataOk(txnData'),
           Len(txnData'.array) \in Nat, Len(txnData'.array) >= Len(txnData.array)
    PROVE  PooledDataInv'
<1>1. errData.snapshot \in Nat /\ Len(txnData.array) \in Nat
    BY NoCustom DEF PooledDataInv, ErrDataOk, IsErrData, TxnDataOk, IsTxnData
<1> QED
    BY <1>1 DEF PooledDataInv, ErrDataOk, CustomPrecedence

LEMMA NewErrorStep ==
    ASSUME PooledDataInv, NEW g, NEW n, NewError(g, n) \/ NewErrorLog(g, n)
    PROVE  PooledDataInv'
<1>1. ErrDataOk(errData, txnData.array) /\ IsErrData(errData) /\ errData.phase = "pooled"
      /\ UNCHANGED <<txnData, reported>>
    BY DEF PooledDataInv, ErrDataOk, NewError, NewErrorLog
<1>2. /\ IsErrData(errData') /\ errData'.custom = errData.custom
      /\ errData'.snapshot = errData.snapshot /\ errData'.phase # "pooled"
    <2>1. CASE NewError(g, n)
        <3>1. PICK recording, x, h : errData' = [errData EXCEPT !.phase = "open",
                  !.nr = @ + 1, !.recording = recording, !.cause = n, !.graph = h, !.exception = x]
            BY <2>1 DEF NewError
        <3> QED
            BY <1>1, <3>1 DEF IsErrData, ErrFields
    <2>2. CASE NewErrorLog(g, n)
        <3>1. PICK recording, x, h : errData' = [errData EXCEPT !.phase = "open",
                  !.nr = @ + 1, !.recording = recording, !.cause = n, !.graph = h,
                  !.isLog = recording, !.exception = x]
            BY <2>2 DEF NewErrorLog
        <3> QED
            BY <1>1, <3>1 DEF IsErrData, ErrFields
    <2> QED
        BY <2>1, <2>2
<1>3. ErrDataOk(errData', txnData.array)
    BY <1>1, <1>2, NewErrorData
<1> QED
    BY <1>1, <1>3, ErrDataStep

LEMMA UserStep ==
    ASSUME PooledDataInv, SetStacktrace \/ SetCulprit
    PROVE  PooledDataInv'
<1>1. ErrDataOk(errData, txnData.array) /\ IsErrData(errData) /\ errData.phase = "open"
      /\ UNCHANGED <<txnData, reported>>
    BY DEF PooledDataInv, ErrDataOk, SetStacktrace, SetCulprit
<1>2. /\ IsErrData(errData') /\ errData'.custom = errData.custom /\ errData'.nr = errData.nr
      /\ errData'.snapshot = errData.snapshot /\ errData'.phase # "pooled"
    <2>1. \/ \E x : errData' = [errData EXCEPT !.logStack = x]
          \/ \E x : errData' = [errData EXCEPT !.exception.stack = x]
          \/ \E x : errData' = [errData EXCEPT !.culprit = x]
        BY DEF SetStacktrace, SetCulprit
    <2> QED
        BY <1>1, <2>1 DEF IsErrData, ErrFields
<1>3. ErrDataOk(errData', txnData.array)
    BY <1>1, <1>2, OtherField
<1> QED
    BY <1>1, <1>3, ErrDataStep

LEMMA SetErrorCustomStep ==
    ASSUME PooledDataInv, SetErrorCustom
    PROVE  PooledDataInv'
<1> DEFINE c == errData.custom
           d == Append(c, Custom("error", errData.nr))
<1>1. ErrDataOk(errData, txnData.array) /\ IsErrData(errData) /\ errData.phase = "open"
      /\ UNCHANGED <<txnData, reported>>
    BY DEF PooledDataInv, ErrDataOk, SetErrorCustom
<1>2. c \in AnyCustom /\ errData.nr \in Nat /\ OwnLast(c, errData.nr)
      /\ \A i \in DOMAIN c : c[i] # Custom("error", errData.nr)
    BY <1>1 DEF ErrDataOk, IsErrData, SetErrorCustom
<1>3. d \in AnyCustom /\ OwnLast(d, errData.nr)
    BY <1>2, AppendOwn
<1>4. errData' = [errData EXCEPT !.custom = d]
    BY DEF SetErrorCustom
<1> HIDE DEF d
<1>5. /\ IsErrData(errData') /\ errData'.custom = d /\ errData'.nr = errData.nr
      /\ errData'.snapshot = errData.snapshot /\ errData'.phase = "open"
    BY <1>1, <1>3, <1>4 DEF IsErrData, ErrFields
<1>6. ErrDataOk(errData', txnData.array)
    BY <1>1, <1>3, <1>5 DEF ErrDataOk
<1> QED
    BY <1>1, <1>6, ErrDataStep

LEMMA SetSpanDataStep ==
    ASSUME PooledDataInv, SetSpanData
    PROVE  PooledDataInv'
<1> DEFINE c == errData.custom
           d == Merged(c, SubSeq(txnData.array, 1, errData.snapshot))
<1>1. ErrDataOk(errData, txnData.array) /\ IsErrData(errData) /\ errData.phase = "linking"
      /\ UNCHANGED <<txnData, reported>>
    BY DEF PooledDataInv, ErrDataOk, SetSpanData
<1>2. txnData.array \in TxnCustom
    BY DEF PooledDataInv, TxnDataOk, IsTxnData
<1>3. c \in AnyCustom /\ errData.nr \in Nat /\ OwnLast(c, errData.nr)
      /\ errData.snapshot \in 0..Len(txnData.array)
    BY <1>1, <1>2 DEF ErrDataOk, IsErrData
<1>4. d \in AnyCustom /\ OwnLast(d, errData.nr)
    BY <1>2, <1>3, MergeTheirs
<1>5. errData' = [errData EXCEPT !.phase = "open", !.snapshot = 0, !.custom = d]
    BY DEF SetSpanData
<1> HIDE DEF d
<1>6. /\ IsErrData(errData') /\ errData'.custom = d /\ errData'.nr = errData.nr
      /\ errData'.snapshot = 0 /\ errData'.phase = "open"
    BY <1>1, <1>4, <1>5 DEF IsErrData, ErrFields
<1>7. ErrDataOk(errData', txnData.array)
    BY <1>2, <1>4, <1>6 DEF ErrDataOk
<1> QED
    BY <1>1, <1>7, ErrDataStep

LEMMA SendStep ==
    ASSUME PooledDataInv, Send
    PROVE  PooledDataInv'
<1>1. ErrDataOk(errData, txnData.array) /\ IsErrData(errData) /\ UNCHANGED <<txnData, reported>>
      /\ txnData.array \in TxnCustom
    BY DEF PooledDataInv, ErrDataOk, TxnDataOk, IsTxnData, Send
<1>2. CASE errData' = [errData EXCEPT !.phase = "queued"]
    <2>1. /\ IsErrData(errData') /\ errData'.custom = errData.custom /\ errData'.nr = errData.nr
          /\ errData'.snapshot = errData.snapshot /\ errData'.phase # "pooled"
        BY <1>1, <1>2 DEF IsErrData, ErrFields
    <2> QED
        BY <1>1, <2>1, OtherField, ErrDataStep
<1>3. CASE errData' = ErrReset(errData)
    BY <1>1, <1>3, ResetData, ErrDataStep
<1> QED
    BY <1>2, <1>3 DEF Send

LEMMA WriteErrorStep ==
    ASSUME PooledDataInv, WriteError
    PROVE  PooledDataInv'
<1>1. ErrDataOk(errData, txnData.array) /\ IsErrData(errData) /\ UNCHANGED txnData
      /\ txnData.array \in TxnCustom /\ errData' = ErrReset(errData)
    BY DEF PooledDataInv, ErrDataOk, TxnDataOk, IsTxnData, WriteError
<1>2. ErrDataOk(errData', txnData.array)
    BY <1>1, ResetData
<1>3. PICK m : m = BuildModelError(errData)
    OBVIOUS
<1>4. m.custom = errData.custom /\ m.nr = errData.nr
    BY <1>3 DEF BuildModelError
<1>5. reported' = <<m>>
    BY <1>3 DEF WriteError
<1>6. DOMAIN reported' = {1} /\ reported'[1] = m
    BY <1>5
<1>7. \A i \in DOMAIN m.custom : m.custom[i].who = "error" => i = Len(m.custom) /\ m.custom[i].nr = m.nr
    BY <1>1, <1>4 DEF ErrDataOk, OwnLast
<1>8. CustomPrecedence'
    BY <1>6, <1>7 DEF CustomPrecedence
<1> QED
    BY <1>1, <1>2, <1>8 DEF PooledDataInv

LEMMA ReadTransactionStep ==
    ASSUME PooledDataInv, NEW parent, ReadTransaction(parent)
    PROVE  PooledDataInv'
<1>1. ErrDataOk(errData, txnData.array) /\ IsErrData(errData) /\ UNCHANGED reported
      /\ TxnDataOk(txnData) /\ IsTxnData(txnData) /\ txnData.nr > 0
    BY DEF PooledDataInv, ErrDataOk, TxnDataOk, ReadTransaction
<1>2. PICK k \in {0, txnData.len} : errData' = [errData EXCEPT !.phase = "linking", !.parent = parent,
                                                   !.tx = txnData.nr, !.snapshot = k]
    BY DEF ReadTransaction
<1>3. k \in Nat /\ k <= Len(txnData.array) /\ Len(txnData.array) \in Nat
    <2>1. txnData.array \in TxnCustom /\ txnData.len \in {0, 1} /\ txnData.len <= Len(txnData.array)
        BY <1>1 DEF TxnDataOk, IsTxnData
    <2> QED
        BY <1>2, <2>1, NoCustom
<1>4. /\ IsErrData(errData') /\ errData'.custom = errData.custom /\ errData'.nr = errData.nr
      /\ errData'.snapshot = k /\ errData'.phase = "linking"
    BY <1>1, <1>2, <1>3 DEF IsErrData, ErrFields
<1>5. ErrDataOk(errData', txnData.array)
    BY <1>1, <1>3, <1>4 DEF ErrDataOk
<1>6. txnData'.array = txnData.array /\ TxnDataOk(txnData')
    <2>1. CASE txnData.state = "open"
        <3>1. txnData' = [txnData EXCEPT !.captured = TRUE, !.linked = txnData.nr]
            BY <2>1 DEF ReadTransaction
        <3> QED
            BY <1>1, <2>1, <3>1 DEF TxnDataOk, IsTxnData
    <2>2. CASE txnData.state # "open"
        BY <1>1, <2>2 DEF ReadTransaction
    <2> QED
        BY <2>1, <2>2
<1> QED
    BY <1>1, <1>5, <1>6 DEF PooledDataInv, CustomPrecedence

LEMMA TxnStep ==
    ASSUME PooledDataInv, TxnStart \/ TxnSetCustom \/ TxnEnd \/ TxnWritten
    PROVE  PooledDataInv'
<1> DEFINE t == txnData
<1>1. TxnDataOk(t) /\ IsTxnData(t) /\ UNCHANGED <<errData, reported>>
    BY DEF PooledDataInv, TxnDataOk, TxnStart, TxnSetCustom, TxnEnd, TxnWritten
<1>2. t.array \in TxnCustom /\ Len(t.array) \in Nat
    BY <1>1, NoCustom DEF IsTxnData
<1>3. CASE TxnStart
    <2>1. txnData' = [t EXCEPT !.state = "open", !.nr = @ + 1] /\ t.state = "pooled"
        BY <1>3 DEF TxnStart
    <2>2. TxnDataOk(txnData') /\ txnData'.array = t.array
        BY <1>1, <2>1 DEF TxnDataOk, IsTxnData
    <2> QED
        BY <1>1, <1>2, <2>2, TxnDataStep
<1>4. CASE TxnSetCustom
    <2> DEFINE a == <<Custom("transaction", t.nr)>>
    <2>1. txnData' = [t EXCEPT !.len = 1, !.array = a] /\ t.state = "open"
        BY <1>4 DEF TxnSetCustom
    <2>2. Custom("transaction", t.nr) \in TxnEntry
        BY <1>1 DEF IsTxnData, Custom, TxnEntry
    <2>3. a \in TxnCustom /\ Len(a) = 1
        BY <2>2 DEF TxnCustom
    <2> HIDE DEF a
    <2>4. TxnDataOk(txnData') /\ txnData'.array = a
        BY <1>1, <2>1, <2>3 DEF TxnDataOk, IsTxnData
    <2>5. Len(txnData'.array) \in Nat /\ Len(txnData'.array) >= Len(txnData.array)
        <3>1. Len(t.array) <= 1
            BY <1>1 DEF TxnDataOk
        <3>2. Len(txnData'.array) = 1
            BY <2>3, <2>4
        <3> QED
            BY <1>2, <3>1, <3>2
    <2> QED
        BY <1>1, <2>4, <2>5, TxnDataStep
<1>5. CASE TxnEnd
    <2>1. txnData' = [t EXCEPT !.state = "queued", !.outcome = IF t.captured THEN "failure" ELSE "success"]
          /\ t.state = "open"
        BY <1>5 DEF TxnEnd
    <2>2. TxnDataOk(txnData') /\ txnData'.array = t.array
        BY <1>1, <2>1 DEF TxnDataOk, IsTxnData
    <2> QED
        BY <1>1, <1>2, <2>2, TxnDataStep
<1>6. CASE TxnWritten
    <2>1. txnData' = [t EXCEPT !.state = "pooled", !.len = 0, !.outcome = "", !.captured = FALSE]
        BY <1>6 DEF TxnWritten, TxnReset
    <2>2. TxnDataOk(txnData') /\ txnData'.array = t.array
        BY <1>1, <2>1 DEF TxnDataOk, IsTxnData
    <2> QED
        BY <1>1, <1>2, <2>2, TxnDataStep
<1> QED
    BY <1>3, <1>4, <1>5, <1>6

LEMMA PooledDataNext == PooledDataInv /\ [ErrorNext]_errorVars => PooledDataInv'
<1> SUFFICES ASSUME PooledDataInv, [ErrorNext]_errorVars PROVE PooledDataInv'
    OBVIOUS
<1>1. ASSUME NEW g, NEW n, NewError(g, n) \/ NewErrorLog(g, n) PROVE PooledDataInv'
    BY <1>1, NewErrorStep
<1>2. CASE SetStacktrace \/ SetCulprit
    BY <1>2, UserStep
<1>3. CASE Send \/ WriteError
    BY <1>3, SendStep, WriteErrorStep
<1>4. CASE SetErrorCustom \/ SetSpanData
    BY <1>4, SetErrorCustomStep, SetSpanDataStep
<1>5. ASSUME NEW parent, ReadTransaction(parent) PROVE PooledDataInv'
    BY <1>5, ReadTransactionStep
<1>6. CASE TxnStart \/ TxnSetCustom \/ TxnEnd \/ TxnWritten
    BY <1>6, TxnStep
<1>7. CASE UNCHANGED errorVars
    BY <1>7 DEF PooledDataInv, CustomPrecedence, errorVars
<1> QED
    BY <1>1, <1>2, <1>3, <1>4, <1>5, <1>6, <1>7 DEF ErrorNext, CaptureNext, LinkNext

\* Whatever errors and transactions the program makes and however many share the
\* pooled data, a report's custom context ends with the error's own and has none of
\* another error's, and a transaction is a failure exactly if an error was linked to
\* it before it ended.
THEOREM PooledDataKeptApart == ErrorSpec => []PooledDataSeparate
<1>1. PooledDataInv => PooledDataSeparate
    BY DEF PooledDataInv, PooledDataSeparate, OutcomeOfErrors, TxnDataOk
<1> QED
    BY <1>1, PooledDataInit, PooledDataNext, PTL DEF ErrorSpec
=============================================================================
