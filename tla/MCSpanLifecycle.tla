--------------------------- MODULE MCSpanLifecycle ---------------------------
(***************************************************************************)
(* Small instances of SpanLifecycle for TLC: three spans of many shapes,   *)
(* or four with which room is made for a span after one was refused.       *)
(***************************************************************************)
EXTENDS SpanLifecycle

CONSTANTS db, app, query, insert

Exit(n, ok) == [type |-> db, name |-> n, exit |-> TRUE, ok |-> ok]
Plain == [type |-> app, name |-> query, exit |-> FALSE, ok |-> TRUE]

\* Calls of the same kind, one of another name and one failing, and spans of
\* another type.  Any span may end first, so only the third takes every shape.
MCShape == <<{Exit(query, TRUE), Plain},
             {Exit(query, TRUE), Plain},
             {Exit(query, TRUE), Exit(insert, TRUE), Exit(query, FALSE), Plain},
             {Exit(query, TRUE)}>>

VARIABLE part

Three ==
    /\ span[4].phase = "unused" /\ span[3].type # app
    /\ span[2].type = app => span[3].ok /\ span[3].name # insert
Four ==
    /\ now = 0 /\ tx.maxSpans = 2 /\ tx.sampled
    /\ app \notin {span[1].type, span[2].type}
    /\ span[3].type # db
Instance == (part = "three" /\ Three) \/ (part = "four" /\ Four)

MCInit == Init /\ part \in {"three", "four"} /\ Instance
MCNext == Next /\ UNCHANGED part /\ Instance'
MCSpec == MCInit /\ [][MCNext]_<<vars, part>>
=============================================================================
