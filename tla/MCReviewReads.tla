---------------------------- MODULE MCReviewReads ----------------------------
(* Small instances of ReviewReads for TLC. *)
EXTENDS ReviewReads, TLC

CONSTANTS d1, d2, k1, k2, t1, c1, c2, g1, n1, n2, b1, s1, z1

OneTask == {[id |-> t1, occurrence |-> NoOccurrence, schema |-> s1, body |-> b1]}
None == {}

\* The 17 edges of the candidate lifecycle.
LifecycleEdges ==
    ({"proposed", "resurfaced"} \X {"deferred", "admitted", "rejected", "superseded", "archived"})
        \cup ({"deferred"} \X {"resurfaced", "rejected", "superseded", "archived"})
        \cup ({"admitted", "rejected", "superseded"} \X {"archived"})

\* Equal in place, or one of them with a review_order.
TwoCandidates ==
    {[id |-> c, version |-> 1, suppression |-> NoSuppression, content |-> n1] : c \in CandidateId}
        \cup {[id |-> c1, version |-> 1, suppression |-> NoSuppression, content |-> n2]}

DerivedG1 == [n \in Content |-> g1]
Places == [n \in Content |-> IF n = n1 THEN [order |-> NoOrder, created |-> 1]
                             ELSE [order |-> 0, created |-> 0]]
C1First == [c \in CandidateId |-> IF c = c1 THEN 1 ELSE 2]

FirstWrite == {[t \in {t1} |-> Absent]}

KeySymmetry == Permutations(IdempotencyKey) \cup Permutations(Device)
=============================================================================
