-------------------------- MODULE MCCanonicalStore --------------------------
(* A small instance of CanonicalStore for TLC. *)
EXTENDS CanonicalStore, TLC

CONSTANTS d1, k1, k2, k3, k4, t1, t2, l1, x1, o1, b1, b2, s1, s2

\* A schema_version no Task payload cares about.
Task(id, occurrence, body) == [id |-> id, occurrence |-> occurrence, schema |-> s1, body |-> body]

\* Two Tasks competing for one occurrence key.
TwoTasks == {Task(t, o, b1) : t \in {t1, t2}, o \in {o1, NoOccurrence}}

NoRequest == {}

\* What envelopes observe: at most two ids, each absent or a version.
Refs == {Absent} \cup 1..MaxVersion
Observing(ids) == UNION {[D -> Refs] : D \in {S \in SUBSET ids : Cardinality(S) <= 2}}
ObservingTasks == Observing({t1, t2})

TaskSymmetry == Permutations(IdempotencyKey) \cup Permutations({t1, t2})
=============================================================================
