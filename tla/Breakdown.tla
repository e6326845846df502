------------------------------ MODULE Breakdown ------------------------------
(***************************************************************************)
(* breakdown.go: the pair of breakdown metrics maps, written by the tracer *)
(* loop and by goroutines whose transaction did not fit into the events    *)
(* channel, and gathered by builtinMetricsGatherer; and the self-times     *)
(* that the children timers of a transaction and its spans report (with    *)
(* Transaction.StartSpanOptions and Span.reportSelfTime of span.go).       *)
(***************************************************************************)
EXTENDS Integers, Sequences, FiniteSets, FiniteSetsExt, Functions

CONSTANTS
    Key,          \* breakdownMetricsKeys
    Hash,         \* Hash[k]: k.hash()
    Recorder,     \* goroutines calling recordTransaction
    TxKeys,       \* TxKeys[g]: the keys g records, its transaction's first
    BreakdownMetricsLimit,
    MaxGatherings,\* bound: calls of gather
    Sp,           \* spans of a transaction
    Parent,       \* Parent[s]: the span or the transaction s is a child of
    TheTx,        \* the transaction
    MaxTicks      \* bound on time

ASSUME BreakdownAssumption ==
    /\ DOMAIN Hash = Key
    /\ \A g \in Recorder : TxKeys[g] \in Seq(Key) /\ TxKeys[g] # <<>>
    /\ BreakdownMetricsLimit \in Nat
    /\ IsFiniteSet(Sp) /\ TheTx \notin Sp /\ Parent \in [Sp -> Sp \cup {TheTx}]

VARIABLES
    maps,         \* the two maps, each the chains of entries by hash; an entry is
                  \* [key, count]
    active,       \* which of them is active
    rec,          \* rec[g]: recordTransaction in goroutine g: its pc, the number of the
                  \* key it records, the map it records into, and an index into the
                  \* chain of the key's hash: offset, or that of the entry it found
    recorded,     \* history: recorded[k]: timings recorded under k
    gathered,     \* gathered[k]: the sum of the counts gathered for k
    overrun,      \* history: keys for which m.space was indexed out of its range, a panic
    gatherings    \* bounded

mapVars == <<maps, active, rec, recorded, gathered, overrun, gatherings>>

Hashes == Range(Hash)
EmptyMap == [h \in Hashes |-> <<>>]

\* m.entries
Entries(m) == FoldFunction(LAMBDA chain, n : Len(chain) + n, 0, m)

\* Where k is in chain from position from on, 0 if it is not.
Search(chain, k, from) ==
    LET at == {i \in from..Len(chain) : chain[i].key = k} IN
    IF at = {} THEN 0 ELSE Min(at)

\* record returned: the next key of the transaction, or recordTransaction ends
\* and the read lock on the pair is released.  A key that cannot be recorded
\* ends it too: the first because of the early return, a later one because
\* `ok && ...` no longer calls record.
Continue(g, ok) ==
    rec' = [rec EXCEPT ![g] =
        IF ok /\ @.i < Len(TxKeys[g]) THEN [@ EXCEPT !.pc = "read", !.i = rec[g].i + 1]
                                      ELSE [@ EXCEPT !.pc = "done"]]

\* recordTransaction takes the read lock.
RecordTransaction(g) ==
    /\ rec[g].pc = "idle"
    /\ rec' = [rec EXCEPT ![g].pc = "read", ![g].map = active]
    /\ UNCHANGED <<maps, active, recorded, gathered, overrun, gatherings>>

KeyOf(g) == TxKeys[g][rec[g].i]
Chain(g) == maps[rec[g].map][Hash[KeyOf(g)]]

\* record searches the chain it read under the read lock of the map.
RecordRead(g) ==
    /\ rec[g].pc = "read"
    /\ LET i == Search(Chain(g), KeyOf(g), 1) IN
       rec' = [rec EXCEPT ![g].pc = IF i # 0 THEN "found" ELSE "write",
                          ![g].at = IF i # 0 THEN i ELSE Len(Chain(g)) + 1]
    /\ UNCHANGED <<maps, active, recorded, gathered, overrun, gatherings>>

\* The entry is accumulated into, atomically and without a lock on the map; if
\* gather had removed it, to no effect.
Accumulate(g) ==
    /\ rec[g].pc = "found"
    /\ maps' = IF rec[g].at \in DOMAIN Chain(g)
               THEN [maps EXCEPT ![rec[g].map][Hash[KeyOf(g)]][rec[g].at].count = @ + 1]
               ELSE maps
    /\ recorded' = [recorded EXCEPT ![KeyOf(g)] = @ + 1]
    /\ Continue(g, TRUE)
    /\ UNCHANGED <<active, gathered, overrun, gatherings>>

\* Mutant: the write lock does not search again.
SecondSearchNot(chain, k, offset) == 0

\* With the write lock, what was appended in the meantime is searched.
SecondSearch(chain, k, offset) == Search(chain, k, offset)

\* Mutant: the limit is not looked at.
AtLimitNever(m, h) == FALSE

\* The limit is only looked at when the hash is a new one.
AtLimit(m, h) == m[h] = <<>> /\ Entries(m) >= BreakdownMetricsLimit

\* record's critical section under the write lock of the map: the key is found
\* after all, or the limit is reached, or the next entry of m.space is taken,
\* which must exist.
RecordWrite(g) ==
    /\ rec[g].pc = "write"
    /\ LET k == KeyOf(g)
           m == maps[rec[g].map]
           i == SecondSearch(Chain(g), k, rec[g].at) IN
       \/ /\ i # 0
          /\ rec' = [rec EXCEPT ![g].pc = "found", ![g].at = i]
          /\ UNCHANGED <<maps, recorded, overrun>>
       \/ /\ i = 0 /\ AtLimit(m, Hash[k])
          /\ Continue(g, FALSE)
          /\ UNCHANGED <<maps, recorded, overrun>>
       \/ /\ i = 0 /\ ~AtLimit(m, Hash[k]) /\ Entries(m) < BreakdownMetricsLimit
          /\ maps' = [maps EXCEPT ![rec[g].map][Hash[k]] =
                         Append(@, [key |-> k, count |-> 1])]
          /\ recorded' = [recorded EXCEPT ![k] = @ + 1]
          /\ Continue(g, TRUE)
          /\ UNCHANGED overrun
       \/ /\ i = 0 /\ ~AtLimit(m, Hash[k]) /\ Entries(m) >= BreakdownMetricsLimit
          /\ overrun' = overrun \cup {k}
          /\ Continue(g, FALSE)
          /\ UNCHANGED <<maps, recorded>>
    /\ UNCHANGED <<active, gathered, gatherings>>

\* Mutant: gather does not wait for those who are recording.
RecordingNever(g) == FALSE

\* g holds the read lock of the pair.
Recording(g) == rec[g].pc \in {"read", "found", "write"}

\* What gather sums up for k.
CountOf(chain, k) ==
    FoldSet(LAMBDA i, n : chain[i].count + n, 0, {i \in DOMAIN chain : chain[i].key = k})

\* gather swaps the maps under the write lock of the pair; nobody else uses the
\* map it then empties.
Gather ==
    /\ gatherings < MaxGatherings
    /\ \A g \in Recorder : ~Recording(g)
    /\ gatherings' = gatherings + 1
    /\ active' = 3 - active
    /\ gathered' = [k \in Key |-> gathered[k] + CountOf(maps[active][Hash[k]], k)]
    /\ maps' = [maps EXCEPT ![active] = EmptyMap]
    /\ UNCHANGED <<rec, recorded, overrun>>

MapInit ==
    /\ maps = <<EmptyMap, EmptyMap>> /\ active = 1
    /\ rec = [g \in Recorder |-> [pc |-> "idle", i |-> 1, map |-> 1, at |-> 1]]
    /\ recorded = [k \in Key |-> 0] /\ gathered = [k \in Key |-> 0]
    /\ overrun = {} /\ gatherings = 0

MapNext ==
    \/ \E g \in Recorder : RecordTransaction(g) \/ RecordRead(g) \/ RecordWrite(g)
                         \/ Accumulate(g)
    \/ Gather

MapSpec == MapInit /\ [][MapNext]_mapVars

-----------------------------------------------------------------------------
(* Self-times *)

VARIABLES
    now,
    state,    \* state[x]: "new", "running" or "ended", of TheTx and the spans
    began,    \* began[x]: x.timestamp
    ct,       \* ct[x]: x.childrenTimer: [active, start, totalDuration]
    self,     \* self[x]: the self-time reported for x, -1 if none was
    busy      \* history: busy[x]: for how long x has run without a running child

timeVars == <<now, state, began, ct, self, busy>>

Node == Sp \cup {TheTx}

\* Mutant: every child that starts sets the time.
ChildStartedLast(t, start) == [t EXCEPT !.active = @ + 1, !.start = start]

ChildStarted(t, start) ==
    [t EXCEPT !.active = @ + 1, !.start = IF t.active = 0 THEN start ELSE @]

ChildEnded(t, end) ==
    [t EXCEPT !.active = @ - 1,
              !.totalDuration = IF t.active = 1 THEN @ + (end - t.start) ELSE @]

FinalDuration(t, end) ==
    IF t.active > 0 THEN t.totalDuration + (end - t.start) ELSE t.totalDuration

\* StartSpanOptions, with breakdown metrics enabled.
StartSpan(s) ==
    /\ state[s] = "new" /\ state[TheTx] = "running" /\ state[Parent[s]] # "new"
    /\ state' = [state EXCEPT ![s] = "running"]
    /\ began' = [began EXCEPT ![s] = now]
    /\ ct' = IF state[Parent[s]] = "running"
             THEN [ct EXCEPT ![Parent[s]] = ChildStarted(@, now)] ELSE ct
    /\ UNCHANGED <<now, self, busy>>

\* End and reportSelfTime, which does nothing once the transaction has ended.
EndSpan(s) ==
    /\ state[s] = "running"
    /\ state' = [state EXCEPT ![s] = "ended"]
    /\ IF state[TheTx] = "ended" THEN UNCHANGED <<ct, self>>
       ELSE /\ ct' = IF state[Parent[s]] = "running"
                     THEN [ct EXCEPT ![Parent[s]] = ChildEnded(@, now)] ELSE ct
            /\ self' = [self EXCEPT ![s] = (now - began[s]) - FinalDuration(ct[s], now)]
    /\ UNCHANGED <<now, began, busy>>

\* Transaction.End, and recordTransaction's transactionSelfTime.
EndTx ==
    /\ state[TheTx] = "running"
    /\ state' = [state EXCEPT ![TheTx] = "ended"]
    /\ self' = [self EXCEPT ![TheTx] = (now - began[TheTx]) - FinalDuration(ct[TheTx], now)]
    /\ UNCHANGED <<now, began, ct, busy>>

Tick ==
    /\ now < MaxTicks /\ now' = now + 1
    /\ busy' = [x \in Node |-> busy[x] +
           (IF /\ state[x] = "running"
               /\ \A s \in Sp : Parent[s] = x => state[s] # "running" THEN 1 ELSE 0)]
    /\ UNCHANGED <<state, began, ct, self>>

TimeInit ==
    /\ now = 0 /\ began = [x \in Node |-> 0] /\ self = [x \in Node |-> -1]
    /\ state = [x \in Node |-> IF x = TheTx THEN "running" ELSE "new"]
    /\ ct = [x \in Node |-> [active |-> 0, start |-> 0, totalDuration |-> 0]]
    /\ busy = [x \in Node |-> 0]

TimeNext == (\E s \in Sp : StartSpan(s) \/ EndSpan(s)) \/ EndTx \/ Tick

TimeSpec == TimeInit /\ [][TimeNext]_timeVars

-----------------------------------------------------------------------------
(* Properties *)

\* No timing is lost or counted twice, whoever records and whenever metrics are
\* gathered: what was recorded has been gathered or is in a map.
TimingsConserved ==
    \A k \in Key : recorded[k] = gathered[k] + CountOf(maps[1][Hash[k]], k)
                                             + CountOf(maps[2][Hash[k]], k)

\* A key has one entry of a map at most, so the server gets one metricset per
\* transaction group and interval.
OneEntryPerKey ==
    \A m \in {1, 2}, h \in Hashes : \A i, j \in DOMAIN maps[m][h] :
        maps[m][h][i].key = maps[m][h][j].key => i = j

\* The entries stay within the space that was allocated for them, unless two
\* keys have the same hash: then the limit is not looked at (breakdown.go:227).
WithinSpace == \A k \in overrun : \E j \in Key \ {k} : Hash[j] = Hash[k]

\* The self-time reported for a transaction or a span is the time it ran with
\* no child of it running, however they overlap and outlive each other.
SelfTimeExact == \A x \in Node : self[x] # -1 => self[x] = busy[x]

\* The breakdown metrics of an interval are exact: nothing is lost, split into
\* two entries or written outside the entries' space.
BreakdownExact == TimingsConserved /\ OneEntryPerKey /\ WithinSpace
=============================================================================
