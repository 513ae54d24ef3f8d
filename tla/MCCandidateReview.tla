------------------------- MODULE MCCandidateReview -------------------------
(* Small instances of CandidateReview for TLC. *)
EXTENDS CandidateReview, TLC

CONSTANTS d1, d2, k1, k2, k3, k4, k5, k6, t1, t2, c1, c2, g1, g2, n1, b1, s1, z1

Task(id) == [id |-> id, occurrence |-> NoOccurrence, schema |-> s1, body |-> b1]

OneTask == {Task(t1)}
None == {}

\* The 17 edges of the candidate lifecycle.
LifecycleEdges ==
    ({"proposed", "resurfaced"} \X {"deferred", "admitted", "rejected", "superseded", "archived"})
        \cup ({"deferred"} \X {"resurfaced", "rejected", "superseded", "archived"})
        \cup ({"admitted", "rejected", "superseded"} \X {"archived"})

Submitted(id, version, suppression) ==
    [id |-> id, version |-> version, suppression |-> suppression, content |-> n1]

\* One candidate, stored at its producer's version.
Aged == {Submitted(c1, v, NoSuppression) : v \in {2, 9}}

\* Two candidates with one content: the second may come with a key of its own.
TwoCandidates == {Submitted(c1, 1, NoSuppression), Submitted(c2, 1, g2), Submitted(c2, 1, NoSuppression)}

DerivedG1 == [n \in Content |-> g1]

NoReads == {Empty}
FirstWrites == {Empty} \cup {[t \in {id} |-> Absent] : id \in TaskId} \cup {[t \in {t1} |-> 1]}

KeySymmetry == Permutations(IdempotencyKey)
DeviceSymmetry == KeySymmetry \cup Permutations(Device)
=============================================================================
