------------------------ MODULE MCStoreTransactions ------------------------
(* Small instances of StoreTransactions for TLC. *)
EXTENDS StoreTransactions, TLC

CONSTANTS d1, k1, k2, k3, k4, t1, t2, l1, o1, b1, b2, s1

Task(id, occurrence, body) == [id |-> id, occurrence |-> occurrence, schema |-> s1, body |-> body]

Payloads == {Task(t, o, b) : t \in {t1, t2}, o \in {o1, NoOccurrence}, b \in {b1, b2}}
None == {}

Refs == {Absent} \cup 1..2
Observations == UNION {[D -> Refs] : D \in SUBSET {t1, t2}}

Env(key, observed) == [key |-> <<d1, key>>, observed |-> observed]
PutTask(key, observed, payload) ==
    [env |-> Env(key, observed), table |-> "objects", id |-> payload.id, payload |-> payload]
AppendLog(key, observed, payload) ==
    [env |-> Env(key, observed), table |-> "logs", id |-> l1, payload |-> payload]

Neither == [t \in {t1, t2} |-> Absent]
Only(id, ref) == [t \in {id} |-> ref]

\* Two Tasks, each created by a caller that saw neither, and two updates of the first.
SkewedCreations == {PutTask(k1, Neither, Task(t1, NoOccurrence, b1)),
                    PutTask(k2, Neither, Task(t2, NoOccurrence, b1))}
Updates == {PutTask(k3, Only(t1, 1), Task(t1, NoOccurrence, b2)),
            PutTask(k4, Only(t1, 1), Task(t1, o1, b2))}

SingleRequests == {<<w>> : w \in SkewedCreations \cup Updates}

\* Batches: a creation with its log; another whose second write needs the
\* first's version; one that repeats a key and its payload; a creation that
\* would skew with the first, and an update, alone; and the empty batch.
Batches ==
    {<<PutTask(k1, Neither, Task(t1, o1, b1)), AppendLog(k2, Only(t1, 1), Task(t1, o1, b1))>>,
     <<PutTask(k3, Only(t2, Absent), Task(t2, o1, b1)), PutTask(k4, Only(t2, 1), Task(t2, NoOccurrence, b2))>>,
     <<PutTask(k3, Only(t2, Absent), Task(t2, NoOccurrence, b1)),
       PutTask(k3, Only(t2, Absent), Task(t2, NoOccurrence, b1))>>,
     <<PutTask(k3, Neither, Task(t2, NoOccurrence, b1))>>,
     <<PutTask(k4, Only(t1, 1), Task(t1, NoOccurrence, b2))>>,
     <<>>}

ConnSymmetry == Permutations(Conn)
=============================================================================
