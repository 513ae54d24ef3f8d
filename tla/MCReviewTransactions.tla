------------------------ MODULE MCReviewTransactions ------------------------
(* A small instance of ReviewTransactions for TLC. *)
EXTENDS ReviewTransactions, TLC

CONSTANTS d1, k1, k2, k3, k4, t1, c1, c2, g1, n1, b1, s1

Task == [id |-> t1, occurrence |-> NoOccurrence, schema |-> s1, body |-> b1]
OneTask == {Task}
None == {}

\* The 17 edges of the candidate lifecycle.
LifecycleEdges ==
    ({"proposed", "resurfaced"} \X {"deferred", "admitted", "rejected", "superseded", "archived"})
        \cup ({"deferred"} \X {"resurfaced", "rejected", "superseded", "archived"})
        \cup ({"admitted", "rejected", "superseded"} \X {"archived"})

\* The second candidate comes with the last version there is.
Stored(c, v) == [id |-> c, version |-> v, suppression |-> NoSuppression, content |-> n1]
Submissions == {Stored(c1, 1), Stored(c2, MaxVersion)}
DerivedG1 == [n \in Content |-> g1]

Unborn == [t \in {t1} |-> Absent]
Unobserving == Empty
Observations == {Unborn, Unobserving}

Env(key, observed) == [key |-> <<d1, key>>, observed |-> observed]
StoreC(key, s) == [op |-> "store", env |-> Env(key, Unobserving), submission |-> s]
Move(key, c, v, next) ==
    [op |-> "transition", env |-> Env(key, Unobserving), id |-> c, observed |-> v, next |-> next,
     trigger |-> NoTrigger, context |-> FALSE]
Reject(key, c, v, context) ==
    [op |-> "reject", env |-> Env(key, Unobserving), id |-> c, observed |-> v,
     supplied |-> NoSuppression, context |-> context]
Admit(key, c, v) ==
    [op |-> "admit", env |-> Env(key, Unborn), id |-> c, observed |-> v, payload |-> Task]

\* Two candidates of one content; the first is deferred, rejected or admitted,
\* the second admitted with the first's key or rejected, both past the end.
Requests == {StoreC(k1, Stored(c1, 1)), StoreC(k2, Stored(c2, MaxVersion)),
             Move(k3, c1, 1, "deferred"), Reject(k4, c1, 1, FALSE), Reject(k4, c1, 2, TRUE),
             Admit(k3, c1, 1), Admit(k3, c2, MaxVersion), Reject(k4, c2, MaxVersion, TRUE)}

ConnSymmetry == Permutations(Conn)
=============================================================================
