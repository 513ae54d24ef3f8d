--------------------------- MODULE PutOnceTables ---------------------------
(***************************************************************************)
(* What the tables of derived artifacts are to their readers: a row comes  *)
(* into being once, whole, and is never changed or removed.                *)
(***************************************************************************)
CONSTANTS Table, Row(_)     \* tables, and the rows a table may hold

VARIABLE tables             \* table -> id -> row

Init == tables = [t \in Table |-> [i \in {} |-> i]]

PutRow(t, row) ==
    /\ row.id \notin DOMAIN tables[t]
    /\ tables' = [tables EXCEPT ![t] =
                     [i \in DOMAIN @ \cup {row.id} |-> IF i = row.id THEN row ELSE @[i]]]

Next == \E t \in Table : \E row \in Row(t) : PutRow(t, row)

Spec == Init /\ [][Next]_tables
=============================================================================
