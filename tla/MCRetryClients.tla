--------------------------- MODULE MCRetryClients ---------------------------
(* A small instance of RetryClients for TLC. *)
EXTENDS RetryClients

CONSTANTS d1, k1, k2, k3, k4, k5, k6, t1, t2, l1, b1, b2, s1, p1, p2, p3

Task(id, body) == [id |-> id, occurrence |-> NoOccurrence, schema |-> s1, body |-> body]
Payloads == {Task(t, b) : t \in {t1, t2}, b \in {b1, b2}}
None == {}

Refs == {Absent} \cup 1..2
Observations == UNION {[D -> Refs] : D \in SUBSET {t1, t2}}

Only(id, ref) == [t \in {id} |-> ref]
PutTask(key, id, ref, body) ==
    [env |-> [key |-> <<d1, key>>, observed |-> Only(id, ref)], table |-> "objects", id |-> id,
     payload |-> Task(id, body)]
AppendLog(key, ref, body) ==
    [env |-> [key |-> <<d1, key>>, observed |-> Only(t1, ref)], table |-> "logs", id |-> l1,
     payload |-> Task(t1, body)]

\* p1 creates a Task with its log and updates it; p2 creates another and updates
\* the first, in one batch; p3 competes for the update.
Create == <<PutTask(k1, t1, Absent, b1), AppendLog(k2, 1, b1)>>
Update == <<PutTask(k3, t1, 1, b2)>>
CreateAndUpdate == <<PutTask(k4, t2, Absent, b1), PutTask(k5, t1, 1, b1)>>
Compete == <<PutTask(k6, t1, 1, b1)>>

Requests == {Create, Update, CreateAndUpdate, Compete}
Workloads == [c \in Conn |-> CASE c = p1 -> {Create, Update}
                               [] c = p2 -> {CreateAndUpdate}
                               [] c = p3 -> {Compete}]
=============================================================================
