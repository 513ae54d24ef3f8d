------------------------- MODULE MCAdmitTaskExample -------------------------
(* The example's Task for TLC: its payload has a title and nothing else. *)
EXTENDS AdmitTaskExample

CONSTANTS d1, k1, t1, s1, personal

Titled == [status |-> "absent", moot |-> FALSE, provenance |-> "absent", authority |-> "absent",
           label |-> NotALabel, fields |-> <<>>, trigger |-> FALSE]
TitledBodies == {Titled}

Example == {[id |-> t1, type |-> "Task", version |-> 1, status |-> "active", label |-> personal,
             stamps |-> TRUE,
             payload |-> [id |-> NotAnId, occurrence |-> NoOccurrence, schema |-> s1, body |-> Titled]]}
None == {}
NoKinds == <<>>
Unseen == {[t \in {t1} |-> Absent]}
=============================================================================
