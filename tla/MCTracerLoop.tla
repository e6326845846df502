---------------------------- MODULE MCTracerLoop ----------------------------
(* Small instances of TracerLoop for TLC. *)
EXTENDS TracerLoop, TLC

CONSTANTS tx, un, sp, er, big, f1, f2, m1, c1

MCKind == [e \in Event |-> CASE e \in {tx, un} -> "transaction"
                             [] e \in {sp, big} -> "span"
                             [] e = er -> "error"]
MCSize == [e \in Event |-> CASE e = sp -> 2 [] e = big -> 4 [] OTHER -> 1]
=============================================================================
