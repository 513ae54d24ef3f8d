---------------------------- MODULE ReviewReads ----------------------------
(***************************************************************************)
(* The review reads of src/candidates.rs and the reviewers that go by      *)
(* them.  A reviewer, one per device, decides on what it last read, which  *)
(* others may have decided on since: nothing is locked between a read and  *)
(* the decision, only the version is compared.                             *)
(***************************************************************************)
EXTENDS CandidateReview

CONSTANTS
    NoOrder,        \* an absent review_order
    Placement,      \* the review_order and proposed_at of a candidate, by its content
    IdOrder         \* candidate ids in the order of their texts

ASSUME PlacementShape ==
    Placement \in [Content -> [order : Int \cup {NoOrder}, created : Nat]]

ASSUME IdOrderIsTotal ==
    /\ IdOrder \in [CandidateId -> Nat]
    /\ \A c, d \in CandidateId : IdOrder[c] = IdOrder[d] => c = d

\* Of ubu_core's edges: a candidate is admitted from proposed or resurfaced, the
\* states of State::is_active_queue, and leaves rejected only for the archive
\* (tests/advisory_candidates.rs: deferred_cannot_be_admitted_directly_...).
ASSUME QueueLifecycle ==
    \A state \in State :
        /\ <<state, "admitted">> \in Edges <=> state \in {"proposed", "resurfaced"}
        /\ <<"rejected", state>> \in Edges => state = "archived"

VARIABLE seen       \* device -> what its reviewer last read: candidate id -> row

readVars == <<allVars, seen>>

ReadInit == ReviewInit /\ seen = [d \in Device |-> Empty]

-----------------------------------------------------------------------------
(* The reads.                                                              *)

\* Mutant of ReviewQueue: deferred candidates are listed too.
QueueWithDeferred ==
    {c \in DOMAIN candidates : candidates[c].state \in {"proposed", "resurfaced", "deferred"}}

\* review_queue, by the lifecycle_state column.
ReviewQueue == {c \in DOMAIN candidates : candidates[c].state \in {"proposed", "resurfaced"}}

PlaceOf(c) == Placement[candidates[c].payload.content]

\* SQLite sorts an absent review_order before numbers.
OrderedBefore(a, b) == a # b /\ (a = NoOrder \/ (b # NoOrder /\ a < b))

\* Mutant of QueuedBefore: equal timestamps leave the order open.
QueuedByTime(c, d) ==
    \/ OrderedBefore(PlaceOf(c).order, PlaceOf(d).order)
    \/ PlaceOf(c).order = PlaceOf(d).order /\ PlaceOf(c).created <= PlaceOf(d).created

\* ORDER BY review_order, created_at, advisory_candidate_id.
QueuedBefore(c, d) ==
    LET p == PlaceOf(c)
        q == PlaceOf(d)
    IN  \/ OrderedBefore(p.order, q.order)
        \/ p.order = q.order /\ p.created < q.created
        \/ p.order = q.order /\ p.created = q.created /\ IdOrder[c] < IdOrder[d]

\* The place of a candidate in the queue, from one on.
QueuePlace(c) == 1 + Cardinality({d \in ReviewQueue \ {c} : QueuedBefore(d, c)})

\* list_candidate_decision_events: which events are listed, and in what order.
ListedEvents(c) == {k \in DOMAIN events : events[k].candidate = c}
ListedBefore(j, k) == events[j].observed < events[k].observed

\* find_suppression_record; none is no candidate's.
FindSuppressionRecord(key) == IF key \in DOMAIN suppressions THEN {suppressions[key]} ELSE {}

-----------------------------------------------------------------------------
(* The reviewers.                                                          *)

\* A reviewer reads the queue afresh.
ReadQueue(d) ==
    /\ seen' = [seen EXCEPT ![d] = [c \in ReviewQueue |-> candidates[c]]]
    /\ UNCHANGED allVars

\* get_advisory_candidate, in the queue or not.
ReadCandidate(d, c) ==
    /\ c \in DOMAIN candidates
    /\ seen' = [seen EXCEPT ![d] = [x \in {c} |-> candidates[x]]]
    /\ UNCHANGED allVars

\* A decision on what the reviewer saw; the envelope is of its device.
DecideOnSeen(env, c) ==
    LET d == env.key[1]
    IN  /\ c \in DOMAIN seen[d]
        /\ Decide(env, c, seen[d][c].version)
        /\ UNCHANGED seen

ReadNext ==
    \/ \E d \in Device : ReadQueue(d) \/ \E c \in CandidateId : ReadCandidate(d, c)
    \/ \E env \in Envelope :
          \/ \E s \in Submission : StoreAdvisoryCandidate(env, s) /\ UNCHANGED seen
          \/ \E c \in CandidateId : DecideOnSeen(env, c)

ReadSpec == ReadInit /\ [][ReadNext]_readVars

-----------------------------------------------------------------------------
(* Properties.                                                             *)

\* A decision is on the very candidate its reviewer saw: state, links and keys,
\* though only the version is compared and others decide in between.
DecidedAsSeen ==
    [][\A k \in DOMAIN events' \ DOMAIN events :
           LET c == events'[k].candidate
           IN  c \in DOMAIN seen[k[1]] /\ seen[k[1]][c] = candidates[c]]_readVars

\* The queue, which goes by a column, lists just the candidates whose payload
\* can still be admitted, none that find_suppression_record says was rejected.
QueueIsAdmissible ==
    /\ ReviewQueue = {c \in DOMAIN candidates : <<candidates[c].payload.state, "admitted">> \in Edges}
    /\ \A key \in SuppressionKey : \A record \in FindSuppressionRecord(key) :
          record.candidate \notin ReviewQueue

\* Each place of the queue has one candidate, whatever orders and times are
\* missing or equal, and one that stays queued moves back for no decision:
\* only a candidate newly stored or resurfaced goes before it.
QueuePlacesAreStable ==
    [][/\ {QueuePlace(c) : c \in ReviewQueue} = 1..Cardinality(ReviewQueue)
       /\ \A c \in ReviewQueue \cap ReviewQueue' :
             QueuePlace(c)' > QueuePlace(c) => ReviewQueue' \ ReviewQueue # {}]_readVars

\* Version order is decision order, "even for equal/backdated timestamps": a
\* new event is listed after every earlier one of its candidate.
EventsListedInCommitOrder ==
    [][\A c \in DOMAIN candidates : \A k \in ListedEvents(c)' \ ListedEvents(c) :
           \A j \in ListedEvents(c) : ListedBefore(j, k)']_readVars
=============================================================================
