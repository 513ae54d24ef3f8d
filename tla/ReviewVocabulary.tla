-------------------------- MODULE ReviewVocabulary --------------------------
(***************************************************************************)
(* The vocabulary of candidate review: candidates, their links and rows,   *)
(* decisions, requests, and the pure helpers of src/candidates.rs that     *)
(* make one candidate of another.                                          *)
(***************************************************************************)
EXTENDS StoreTables

CONSTANTS
    SuppressionKey, \* suppression keys
    NoSuppression,  \* a candidate without one
    Content,        \* kind, normalized proposal and target refs of a candidate
    DerivedKey,     \* the suppression key a content's canonical JSON is
    Submission,     \* candidates as their producers submit them
    Trigger,        \* resurface triggers
    NoTrigger,
    Edges,          \* the lifecycle edges of ubu_core::transition
    NoRef           \* an empty link

State == {"proposed", "deferred", "resurfaced", "admitted", "rejected", "superseded", "archived"}
Dedicated == {"admitted", "rejected"}

ASSUME EdgesAreEdges == Edges \subseteq State \X State
ASSUME DerivedKeyShape == DerivedKey \in [Content -> SuppressionKey]
ASSUME SubmissionShape ==
    Submission \subseteq [id : CandidateId, version : Nat \ {0},
                          suppression : SuppressionKey \cup {NoSuppression}, content : Content]

\* What is absent is no value.
ASSUME AbsentValues == NoSuppression \notin SuppressionKey /\ NoRef \notin ObjectId

\* Of ubu_core's edges: a candidate resurfaces from a deferral, leaves admitted
\* only for the archive, and stays there (docs/CANONICAL_WRITER_AUDIT.md,
\* Candidates; tests/advisory_candidates.rs: archived_cannot_transition).
ASSUME Lifecycle ==
    \A from, next \in State : <<from, next>> \in Edges =>
        /\ next = "resurfaced" => from = "deferred"
        /\ from = "admitted" => next = "archived"
        /\ from # "archived"

\* Links name decision events by their mutation key (decision_id is injective)
\* and the admitted object by its id.
NoLinks == [deferral |-> NoRef, priorDeferral |-> NoRef, trigger |-> NoTrigger,
            resurfacing |-> NoRef, admission |-> NoRef, rejection |-> NoRef, archive |-> NoRef]

Links == [deferral : Key \cup {NoRef}, priorDeferral : Key \cup {NoRef},
          trigger : Trigger \cup {NoTrigger}, resurfacing : Key \cup {NoRef},
          admission : ObjectId \cup {NoRef}, rejection : Key \cup {NoRef},
          archive : Key \cup {NoRef}]

\* The AdvisoryCandidate kept in payload_json.
Candidate == [id : CandidateId, state : State, version : 1..MaxVersion,
              suppression : SuppressionKey \cup {NoSuppression}, content : Content, links : Links]

\* A new proposal, as its producer submits it.
Proposed(submission) ==
    [id |-> submission.id, state |-> "proposed", version |-> submission.version,
     suppression |-> submission.suppression, content |-> submission.content, links |-> NoLinks]

\* A row: the columns the queries use beside the whole candidate.
RowOf(c) == [state |-> c.state, version |-> c.version, suppression |-> c.suppression, payload |-> c]

Decision == [candidate : CandidateId, from : State, to : State, trigger : Trigger \cup {NoTrigger},
             observed : 1..MaxVersion, object : ObjectId \cup {NoRef}]

-----------------------------------------------------------------------------
(* ubu_core, as the store uses it.                                         *)

\* transition(from, next, trigger): a legal edge, with a trigger exactly when
\* the candidate resurfaces.
Transition(from, next, trigger) ==
    /\ <<from, next>> \in Edges
    /\ trigger # NoTrigger <=> next = "resurfaced"

\* AdvisoryCandidate::validate: a resurfaced candidate names its prior deferral.
Valid(c) == c.state = "resurfaced" => c.links.priorDeferral # NoRef /\ c.links.trigger # NoTrigger

-----------------------------------------------------------------------------
(* Requests: what a candidate writer compares with the ledger on replay.   *)

StoreRequest(submission) == [operation |-> "store", candidate |-> submission]

TransitionRequest(id, observed, next, trigger, context) ==
    [operation |-> "transition", id |-> id, observed |-> observed, next |-> next,
     trigger |-> trigger, context |-> context]

RejectRequest(id, observed, supplied, context) ==
    [operation |-> "reject", id |-> id, observed |-> observed, supplied |-> supplied,
     context |-> context]

\* Mutant of ResultVersion: candidates and objects share the positive versions.
PositiveResultVersion(version) == version

\* Candidate results are told apart in the ledger by a negated version.
ResultVersion(version) == -version

-----------------------------------------------------------------------------
(* What a decision makes of a candidate.                                   *)

\* Mutant of Linked: the first deferral stays the prior one for ever.
LinkedToFirstDeferral(links, key, next, trigger, object) ==
    CASE next = "deferred" -> [links EXCEPT !.deferral = key]
      [] next = "resurfaced" ->
            [links EXCEPT !.priorDeferral = IF @ = NoRef THEN links.deferral ELSE @,
                          !.trigger = trigger, !.resurfacing = key]
      [] next = "admitted" -> [links EXCEPT !.admission = object]
      [] next = "rejected" -> [links EXCEPT !.rejection = key]
      [] next = "archived" -> [links EXCEPT !.archive = key]
      [] OTHER -> links

\* The links after a decision; a replacement or correction link is not made up.
Linked(links, key, next, trigger, object) ==
    CASE next = "deferred" -> [links EXCEPT !.deferral = key]
      [] next = "resurfaced" ->
            [links EXCEPT !.priorDeferral = links.deferral, !.trigger = trigger,
                          !.resurfacing = key]
      [] next = "admitted" -> [links EXCEPT !.admission = object]
      [] next = "rejected" -> [links EXCEPT !.rejection = key]
      [] next = "archived" -> [links EXCEPT !.archive = key]
      [] OTHER -> links

\* Mutant of Decided: the version is not bumped.
DecidedUnbumped(c, key, next, trigger, object) ==
    [c EXCEPT !.state = next, !.links = Linked(c.links, key, next, trigger, object)]

\* The candidate after a decision.
Decided(c, key, next, trigger, object) ==
    [c EXCEPT !.state = next, !.version = c.version + 1,
              !.links = Linked(c.links, key, next, trigger, object)]

\* The suppression key a rejection uses: the candidate's, else the caller's,
\* else the one derived from what was proposed.
SuppressionFor(c, supplied) ==
    IF c.suppression # NoSuppression THEN c.suppression
    ELSE IF supplied # NoSuppression THEN supplied
    ELSE DerivedKey[c.content]

\* Mutant of Keyed: the candidate is left without the key of its suppression.
UnKeyed(c, supplied) == c

\* The candidate with the suppression key its rejection gives it.
Keyed(c, supplied) == [c EXCEPT !.suppression = SuppressionFor(c, supplied)]
=============================================================================
