-------------------------- MODULE CandidateReview --------------------------
(***************************************************************************)
(* Advisory candidates (src/candidates.rs): proposals under review, the    *)
(* decisions taken on them and the suppressions rejections leave, beside   *)
(* the canonical tables and in the same mutation ledger.  One transaction, *)
(* one action, as in CanonicalStore.                                       *)
(***************************************************************************)
EXTENDS CanonicalStore, ReviewVocabulary

VARIABLES
    candidates,     \* advisory_candidates: id -> [state, version, suppression, payload]
    events,         \* candidate_decision_events: key -> decision
    suppressions    \* suppression_records: suppression key -> [candidate, decision]

reviewVars == <<candidates, events, suppressions>>
allVars == <<vars, reviewVars>>

ReviewInit == Init /\ candidates = Empty /\ events = Empty /\ suppressions = Empty

-----------------------------------------------------------------------------
(* Helpers of the decision writers.                                        *)

\* Mutant of ObservedCandidate: any observed version is taken.
CandidateAtAnyVersion(id, observed) == id \in DOMAIN candidates

\* observed_candidate: the candidate exists at the version the reviewer saw.
ObservedCandidate(id, observed) ==
    id \in DOMAIN candidates /\ candidates[id].version = observed

\* Mutant of Updated: the suppression_key column keeps its old value.
UpdatedButSuppression(c, observed) ==
    IF candidates[c.id].version = observed
    THEN Put(candidates, c.id, [RowOf(c) EXCEPT !.suppression = candidates[c.id].suppression])
    ELSE candidates

\* UPDATE ... WHERE id = ? AND version = ?, which may match no row and whose
\* count of rows is not looked at.
Updated(c, observed) ==
    IF candidates[c.id].version = observed THEN Put(candidates, c.id, RowOf(c)) ELSE candidates

\* write_decision: bump the candidate and insert the event, on one transaction.
WriteDecision(env, c, next, trigger, object) ==
    LET decided == Decided(c, env.key, next, trigger, object)
    IN  /\ Transition(c.state, next, trigger)
        /\ CanAdvance(c.version)
        /\ Valid(decided)
        /\ env.key \notin DOMAIN events
        /\ candidates' = Updated(decided, c.version)
        /\ events' = Put(events, env.key,
                         [candidate |-> c.id, from |-> c.state, to |-> next, trigger |-> trigger,
                          observed |-> c.version, object |-> object])

\* record_mutation with the version of the row read back.
RecordDecision(env, request, id) ==
    Record(env, request, id, ResultVersion(candidates'[id].version))

-----------------------------------------------------------------------------
(* The writers.                                                            *)

\* store_advisory_candidate: a new proposal at the version its producer gave it.
StoreAdvisoryCandidate(env, submission) ==
    /\ Fresh(env)
    /\ submission.version <= MaxVersion
    /\ submission.id \notin DOMAIN candidates
    /\ candidates' = Put(candidates, submission.id, RowOf(Proposed(submission)))
    /\ Record(env, StoreRequest(submission), submission.id, ResultVersion(submission.version))
    /\ UNCHANGED <<objects, logs, xrefs, events, suppressions>>

\* transition_advisory_candidate, with and without a decision context.
TransitionAdvisoryCandidate(env, id, observed, next, trigger, context) ==
    /\ Fresh(env)
    /\ ObservedCandidate(id, observed)
    /\ next \notin Dedicated
    /\ WriteDecision(env, candidates[id].payload, next, trigger, NoRef)
    /\ RecordDecision(env, TransitionRequest(id, observed, next, trigger, context), id)
    /\ UNCHANGED <<objects, logs, xrefs, suppressions>>

\* Mutant of MayRecordSuppression: every rejection replaces the record.
MayAlwaysRecordSuppression(key, context) == TRUE

\* A plain INSERT fails on an existing key; with a context it is an upsert.
MayRecordSuppression(key, context) == context \/ key \notin DOMAIN suppressions

\* reject_advisory_candidate: suppression, decision and receipt.
RejectAdvisoryCandidate(env, id, observed, supplied, context) ==
    /\ Fresh(env)
    /\ ObservedCandidate(id, observed)
    /\ LET c == candidates[id].payload
           key == SuppressionFor(c, supplied)
       IN  /\ supplied \in {NoSuppression, key}
           /\ MayRecordSuppression(key, context)
           /\ suppressions' = Put(suppressions, key, [candidate |-> id, decision |-> env.key])
           /\ WriteDecision(env, Keyed(c, supplied), "rejected", NoTrigger, NoRef)
    /\ RecordDecision(env, RejectRequest(id, observed, supplied, context), id)
    /\ UNCHANGED <<objects, logs, xrefs>>

\* admit_advisory_candidate: the ordinary object write and receipt, and the
\* decision that links them.
AdmitAdvisoryCandidate(env, id, observed, payload) ==
    /\ Fresh(env)
    /\ ObservedCandidate(id, observed)
    /\ WriteObject(env, payload.id, payload, payload)
    /\ WriteDecision(env, candidates[id].payload, "admitted", NoTrigger, payload.id)
    /\ UNCHANGED suppressions

\* A repeated candidate request reads the candidate its key recorded.
ReplayDecision(key, request) ==
    /\ Replays(key, request, "candidates")
    /\ UNCHANGED allVars

\* Mutant of AdmissionReplays: any admission under the key is taken for id's.
AnyAdmissionReplays(key, id, observed) ==
    /\ key \in DOMAIN events
    /\ events[key].to = "admitted"
    /\ events[key].object = ledger[key].id

\* An object receipt proves the admission of a candidate only with the event
\* that says so.
AdmissionReplays(key, id, observed) ==
    /\ key \in DOMAIN events
    /\ events[key].candidate = id
    /\ events[key].observed = observed
    /\ events[key].to = "admitted"
    /\ events[key].object = ledger[key].id

\* A repeated admit_advisory_candidate.
ReplayAdmission(key, id, observed, payload) ==
    /\ Replays(key, payload, "objects")
    /\ AdmissionReplays(key, id, observed)
    /\ UNCHANGED allVars

\* Decisions on candidate id at the version observed.
Decide(env, id, observed) ==
    \/ \E next \in State, trigger \in Trigger \cup {NoTrigger}, context \in BOOLEAN :
          TransitionAdvisoryCandidate(env, id, observed, next, trigger, context)
    \/ \E supplied \in SuppressionKey \cup {NoSuppression}, context \in BOOLEAN :
          RejectAdvisoryCandidate(env, id, observed, supplied, context)
    \/ \E p \in RecordPayload : AdmitAdvisoryCandidate(env, id, observed, p)

ReviewNext ==
    \/ Next /\ UNCHANGED reviewVars
    \/ \E env \in Envelope :
          \/ \E s \in Submission : StoreAdvisoryCandidate(env, s)
          \/ \E id \in CandidateId, observed \in 1..MaxVersion : Decide(env, id, observed)
    \/ \E key \in DOMAIN ledger :
          \/ ReplayDecision(key, ledger[key].payload)
          \/ \E id \in CandidateId, observed \in 1..MaxVersion :
                ReplayAdmission(key, id, observed, ledger[key].payload)

ReviewSpec == ReviewInit /\ [][ReviewNext]_allVars

-----------------------------------------------------------------------------
(* Properties.                                                             *)

\* The review tables hold rows of their types (migrations/0003), and the part
\* of the ledger that is not canonical records candidates.
ReviewTypeOK ==
    /\ DOMAIN candidates \subseteq CandidateId
    /\ \A c \in DOMAIN candidates : candidates[c].payload \in Candidate /\ candidates[c].payload.id = c
    /\ IsTable(events, Key, Decision)
    /\ IsTable(suppressions, SuppressionKey, [candidate : CandidateId, decision : Key])
    /\ \A k \in DOMAIN ledger : k \in Key /\ ledger[k].version \in -MaxVersion..MaxVersion
                             /\ (ledger[k].version < 0 <=> ledger[k].id \in CandidateId)

\* The columns the review queue and the optimistic UPDATE go by are those of
\* the candidate in payload_json, which the decisions go by.
RowMirrorsPayload == \A c \in DOMAIN candidates : candidates[c] = RowOf(candidates[c].payload)

\* The decisions on candidate c at its version v.
DecisionsAt(c, v) == {k \in DOMAIN events : events[k].candidate = c /\ events[k].observed = v}

\* The receipt of candidate c's storage.
StoredBy(k, c) ==
    ledger[k].version < 0 /\ ledger[k].id = c /\ ledger[k].payload.operation = "store"

\* The history of a candidate is complete: from the version it was stored at
\* to the one before the current, each version was left by exactly one
\* decision, each starting in the state the one before it reached, the first
\* in proposed and the last reaching the current state.
DecisionChain ==
    \A c \in DOMAIN candidates : \E s \in DOMAIN ledger :
        LET first == -ledger[s].version
            last == candidates[c].version - 1
            Reached(v, state) == \/ v = first /\ state = "proposed"
                                 \/ \E k \in DecisionsAt(c, v - 1) : events[k].to = state
        IN  /\ StoredBy(s, c)
            /\ \A v \in first..last : \E k \in DOMAIN events : DecisionsAt(c, v) = {k}
            /\ \A k \in DOMAIN events : events[k].candidate = c =>
                   events[k].observed \in first..last /\ Reached(events[k].observed, events[k].from)
            /\ Reached(last + 1, candidates[c].state)

\* k is the last decision that took candidate c to a state.
LastTo(k, c, state) ==
    /\ k \in DOMAIN events
    /\ events[k].candidate = c /\ events[k].to = state
    /\ \A j \in DOMAIN events : events[j].candidate = c /\ events[j].to = state =>
           events[j].observed <= events[k].observed

\* A link is empty while no decision made it, then names the last that did; the
\* prior deferral is the decision right before the resurfacing, however often
\* the candidate was deferred and resurfaced.
LinksNameDecisions ==
    \A c \in DOMAIN candidates :
        LET links == candidates[c].payload.links
            Never(state) == \A k \in DOMAIN events : ~(events[k].candidate = c /\ events[k].to = state)
            Names(link, state) == (link = NoRef /\ Never(state)) \/ LastTo(link, c, state)
        IN  /\ Names(links.deferral, "deferred")
            /\ Names(links.resurfacing, "resurfaced")
            /\ Names(links.rejection, "rejected")
            /\ Names(links.archive, "archived")
            /\ links.resurfacing # NoRef =>
                   LET resurfacing == events[links.resurfacing]
                   IN  /\ links.priorDeferral \in DecisionsAt(c, resurfacing.observed - 1)
                       /\ events[links.priorDeferral].to = "deferred"
                       /\ links.trigger = resurfacing.trigger
            /\ links.admission = NoRef <=> Never("admitted")
            /\ \A k \in DOMAIN events : LastTo(k, c, "admitted") => links.admission = events[k].object

\* Every decision has the receipt of the request for it, taken at the version
\* the reviewer saw, and every candidate receipt its decision or its storage.
DecisionsHaveReceipts ==
    /\ \A k \in DOMAIN events :
          LET event == events[k]
              receipt == ledger[k]
          IN  /\ k \in DOMAIN ledger
              /\ event.to = "admitted" => receipt.version > 0 /\ receipt.id = event.object
              /\ event.to # "admitted" =>
                     /\ receipt.id = event.candidate
                     /\ receipt.version = -(event.observed + 1)
                     /\ receipt.payload.id = event.candidate
                     /\ receipt.payload.observed = event.observed
              /\ event.to = "rejected" => receipt.payload.operation = "reject"
              /\ event.to \notin Dedicated =>
                     /\ receipt.payload.operation = "transition"
                     /\ receipt.payload.next = event.to
                     /\ receipt.payload.trigger = event.trigger
    /\ \A k \in DOMAIN ledger : ledger[k].version < 0 =>
          ledger[k].id \in DOMAIN candidates /\ (k \in DOMAIN events \/ StoredBy(k, ledger[k].id))

\* A rejection is never without its suppression, and a suppression never
\* without the rejection it names: whichever of several candidates with one
\* key was rejected last, both sides carry the same key.
RejectionsSuppress ==
    /\ \A k \in DOMAIN events : events[k].to = "rejected" =>
          candidates[events[k].candidate].suppression \in DOMAIN suppressions
    /\ \A s \in DOMAIN suppressions :
          LET suppression == suppressions[s]
          IN  /\ suppression.decision \in DOMAIN events
              /\ events[suppression.decision].to = "rejected"
              /\ events[suppression.decision].candidate = suppression.candidate
              /\ candidates[suppression.candidate].suppression = s

\* A suppression is never lifted, and only a rejection with a decision context
\* renews it (CONTRACT.md, time-bounded review).
SuppressionsOnlyRenewed ==
    [][\A s \in DOMAIN suppressions :
          /\ s \in DOMAIN suppressions'
          /\ suppressions'[s] # suppressions[s] =>
                 ledger'[suppressions'[s].decision].payload.context]_allVars

\* When admit_advisory_candidate answers a repeated request, the candidate it
\* was asked about really was admitted as that object at that version: an
\* ordinary object receipt under the key is no proof of it.
AdmissionReplayIsProof ==
    \A k \in DOMAIN ledger, id \in CandidateId, observed \in 1..MaxVersion :
        ledger[k].version > 0 /\ AdmissionReplays(k, id, observed) =>
            /\ id \in DOMAIN candidates
            /\ ledger[k].id \in DOMAIN objects
            /\ candidates[id].payload.links.admission = ledger[k].id
            /\ candidates[id].version > observed
            /\ candidates[id].state \in {"admitted", "archived"}

\* get_recorded_mutation: the ledger without the candidates' receipts.
CanonicalLedger ==
    LET canonical == {k \in DOMAIN ledger : ledger[k].version >= 0}
    IN  [k \in canonical |-> ledger[k]]

Canonical == INSTANCE CanonicalStore WITH ledger <- CanonicalLedger

\* Review never touches canonical state but by an ordinary admission: seen
\* through get_recorded_mutation, every step of the store with candidates is a
\* step of the store without them.
ImplementsCanonicalStore == Canonical!Spec

=============================================================================
