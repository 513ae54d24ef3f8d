----------------------- MODULE CandidateReviewProofs -----------------------
(***************************************************************************)
(* The store with candidates, proved for all values of the constants.      *)
(*                                                                         *)
(* First, it implements the store without them, and what that needs: the   *)
(* rows of the review tables and the sign of the candidates' receipts.     *)
(* CanonicalStoreProofs is used twice: its lemmas about this store's own   *)
(* tables, and, instantiated with the ledger get_recorded_mutation shows,  *)
(* its theorems, which the refinement carries over.                        *)
(*                                                                         *)
(* Then, what the tables tell of a candidate's past: its decisions and     *)
(* their receipts, the suppressions of its rejection, the chain of its     *)
(* versions, its links and the proof of its admission.                     *)
(***************************************************************************)
EXTENDS CandidateReview, CanonicalStoreProofs

\* The store as it is seen without candidates.
Seen == INSTANCE CanonicalStoreProofs WITH ledger <- CanonicalLedger

-----------------------------------------------------------------------------
(* The ledger as it is seen without candidates.                            *)

\* A receipt is recorded under a new key.
Adds(key) ==
    /\ key \in Key \ DOMAIN ledger
    /\ DOMAIN ledger' = DOMAIN ledger \cup {key}
    /\ \A k \in DOMAIN ledger : ledger'[k] = ledger[k]

\* record_mutation adds a receipt where Fresh found none.
LEMMA RecordAdds ==
    ASSUME NEW env \in Envelope, NEW payload, NEW id, NEW version,
           env.key \notin DOMAIN ledger, Record(env, payload, id, version)
    PROVE  /\ Adds(env.key)
           /\ ledger'[env.key] = [payload |-> payload, id |-> id, version |-> version,
                                  observed |-> env.observed]
BY DEF Record, Put, Adds, Envelope

\* A canonical receipt is seen, as it was recorded.
LEMMA CanonicalReceiptSeen ==
    ASSUME NEW env \in Envelope, NEW payload, NEW id, NEW version \in Nat,
           env.key \notin DOMAIN ledger, Record(env, payload, id, version)
    PROVE  Canonical!Record(env, payload, id, version)
<1> DEFINE receipt == [payload |-> payload, id |-> id, version |-> version,
                       observed |-> env.observed]
           seen == {k \in DOMAIN ledger : ledger[k].version >= 0}
<1>1. /\ Adds(env.key)
      /\ ledger'[env.key] = receipt
    BY RecordAdds
<1>2. receipt.version >= 0
    OBVIOUS
<1> HIDE DEF receipt
<1>3. {k \in DOMAIN ledger' : ledger'[k].version >= 0} = seen \cup {env.key}
    BY <1>1, <1>2 DEF Adds
<1>4. CanonicalLedger' = [k \in seen \cup {env.key} |-> ledger'[k]]
    BY <1>3 DEF CanonicalLedger
<1>5. \A k \in seen \cup {env.key} :
          ledger'[k] = IF k = env.key THEN receipt ELSE CanonicalLedger[k]
    BY <1>1 DEF Adds, CanonicalLedger
<1>6. DOMAIN CanonicalLedger = seen
    BY DEF CanonicalLedger
<1>7. CanonicalLedger' = Canonical!Put(CanonicalLedger, env.key, receipt)
    BY <1>4, <1>5, <1>6 DEF Canonical!Put
<1>8. QED
    BY <1>7 DEF Canonical!Record, receipt

\* A candidate's receipt is not.
LEMMA CandidateReceiptUnseen ==
    ASSUME NEW key, Adds(key), ~(ledger'[key].version >= 0)
    PROVE  CanonicalLedger' = CanonicalLedger
<1>1. {k \in DOMAIN ledger' : ledger'[k].version >= 0}
          = {k \in DOMAIN ledger : ledger[k].version >= 0}
    BY DEF Adds
<1>2. QED
    BY <1>1 DEF Adds, CanonicalLedger

\* What is fresh in the whole ledger is fresh in the part that is seen.
LEMMA FreshSeen ==
    ASSUME NEW env \in Envelope, Fresh(env)
    PROVE  Canonical!Fresh(env) /\ env.key \notin DOMAIN ledger
BY DEF Fresh, Canonical!Fresh, CanonicalLedger, PreconditionsHold, Canonical!PreconditionsHold,
       CurrentRef, Canonical!CurrentRef, Absent, Canonical!Absent

\* The version an object write produces is positive.
LEMMA NextVersionPositive ==
    ASSUME NEW env \in Envelope, NEW id \in DOMAIN env.observed
    PROVE  NextVersion(env.observed[id]) \in Nat \ {0}
<1>1. env.observed[id] \in VersionRef
    BY ObservedIsRef DEF Envelope
<1>2. QED
    BY <1>1 DEF VersionRef, Absent, NextVersion

\* An object write is seen as the same write.
LEMMA WriteObjectSeen ==
    ASSUME NEW env \in Envelope, NEW id, NEW stored, NEW requested,
           env.key \notin DOMAIN ledger, WriteObject(env, id, stored, requested)
    PROVE  Canonical!WriteObject(env, id, stored, requested)
<1>1. id \in DOMAIN env.observed
    BY DEF WriteObject
<1>2. NextVersion(env.observed[id]) \in Nat
    BY <1>1, NextVersionPositive
<1>3. Canonical!Record(env, requested, id, NextVersion(env.observed[id]))
    BY <1>2, CanonicalReceiptSeen DEF WriteObject
<1>4. QED
    BY <1>3 DEF WriteObject, Canonical!WriteObject, OccurrenceFree, Canonical!OccurrenceFree,
                OccurrenceHeld, Canonical!OccurrenceHeld, CanAdvance, Canonical!CanAdvance,
                NextVersion, Canonical!NextVersion, Absent, Canonical!Absent,
                Put, Canonical!Put

\* A canonical step of this store is a step of the store without candidates.
LEMMA NextSeen ==
    ASSUME Next
    PROVE  [Canonical!Next]_(Canonical!vars)
<1>1. ASSUME NEW env \in Envelope, NEW p \in RecordPayload, AdmitObject(env, p)
      PROVE  Canonical!AdmitObject(env, p)
    BY <1>1, FreshSeen, WriteObjectSeen DEF AdmitObject, Canonical!AdmitObject
<1>2. ASSUME NEW env \in Envelope, NEW q \in StateRequest, PersistUniverseState(env, q)
      PROVE  Canonical!PersistUniverseState(env, q)
    <2>1. Canonical!WriteObject(env, q.state, PersistedPayload(q), q)
        BY <1>2, FreshSeen, WriteObjectSeen DEF PersistUniverseState
    <2>2. QED
        BY <1>2, <2>1, FreshSeen DEF PersistUniverseState, Canonical!PersistUniverseState,
               PersistedPayload, Canonical!PersistedPayload, Absent, Canonical!Absent
<1>3. ASSUME NEW env \in Envelope, NEW id \in LogId, NEW p \in Json, AppendLogEntry(env, id, p)
      PROVE  Canonical!AppendLogEntry(env, id, p)
    <2>1. Canonical!Record(env, p, id, 0)
        BY <1>3, FreshSeen, CanonicalReceiptSeen DEF AppendLogEntry
    <2>2. QED
        BY <1>3, <2>1, FreshSeen DEF AppendLogEntry, Canonical!AppendLogEntry, Put, Canonical!Put
<1>4. ASSUME NEW env \in Envelope, NEW id \in XrefId, NEW p \in Json,
             StoreExternalReference(env, id, p)
      PROVE  Canonical!StoreExternalReference(env, id, p)
    <2>1. Canonical!Record(env, p, id, 0)
        BY <1>4, FreshSeen, CanonicalReceiptSeen DEF StoreExternalReference
    <2>2. QED
        BY <1>4, <2>1, FreshSeen
           DEF StoreExternalReference, Canonical!StoreExternalReference, Put, Canonical!Put
<1>5. ASSUME NEW key \in Key, NEW p \in Json, NEW target, ReplayMutation(key, p, target)
      PROVE  UNCHANGED Canonical!vars
    BY <1>5 DEF ReplayMutation, vars, Canonical!vars, CanonicalLedger
<1>6. Canonical!Envelope = Envelope /\ Canonical!Json = Json
    BY DEF Canonical!Envelope, Envelope, Canonical!Key, Key, Canonical!Json, Json
<1>7. QED
    BY <1>1, <1>2, <1>3, <1>4, <1>5, <1>6 DEF Next, Canonical!Next

-----------------------------------------------------------------------------
(* The shapes of a review step.                                            *)

\* The rows of advisory_candidates: typed, under their own id, and with the
\* columns of their payload.
CandidateRows ==
    /\ DOMAIN candidates \subseteq CandidateId
    /\ \A c \in DOMAIN candidates :
          candidates[c].payload \in Candidate /\ candidates[c].payload.id = c
    /\ RowMirrorsPayload

\* A canonical writer's receipt; no candidate is touched.
CanonicalStep ==
    /\ \E key : Adds(key) /\ ledger'[key].version \in Nat /\ ledger'[key].id \in ObjectId
    /\ UNCHANGED reviewVars

\* A new candidate and its receipt.
StoreStep(key, submission) ==
    /\ Adds(key)
    /\ submission \in Submission
    /\ submission.version \in 1..MaxVersion
    /\ submission.id \notin DOMAIN candidates
    /\ \E c \in Candidate :
          /\ c.id = submission.id
          /\ c.state = "proposed"
          /\ c.version = submission.version
          /\ c.links = NoLinks
          /\ candidates' = Put(candidates, submission.id, RowOf(c))
    /\ ledger'[key].payload = StoreRequest(submission)
    /\ ledger'[key].id = submission.id
    /\ ledger'[key].version = -submission.version
    /\ UNCHANGED <<objects, logs, xrefs, events, suppressions>>

\* What write_decision did to the candidate and its events.
Decides(key, id, next, trigger, object) ==
    LET old == candidates[id].payload
        new == candidates'[id].payload
    IN  /\ id \in DOMAIN candidates
        /\ Transition(old.state, next, trigger)
        /\ new \in Candidate
        /\ new.id = id
        /\ new.state = next
        /\ new.version = old.version + 1
        /\ new.content = old.content
        /\ new.links = Linked(old.links, key, next, trigger, object)
        /\ candidates' = Put(candidates, id, RowOf(new))
        /\ key \notin DOMAIN events
        /\ events' = Put(events, key, [candidate |-> id, from |-> old.state, to |-> next,
                                       trigger |-> trigger, observed |-> old.version,
                                       object |-> object])

\* What each decision leaves in the ledger.
Receipted(key, id, next, trigger, object) ==
    LET receipt == ledger'[key]
        observed == candidates[id].version
    IN  \/ /\ next = "admitted" /\ object \in ObjectId
           /\ receipt.version \in Nat \ {0} /\ receipt.id = object
        \/ /\ next # "admitted" /\ object = NoRef
           /\ receipt.version = -(observed + 1) /\ receipt.id = id
           /\ next = "rejected" =>
                  \E supplied, context :
                      receipt.payload = RejectRequest(id, observed, supplied, context)
           /\ next # "rejected" =>
                  \E context :
                      receipt.payload = TransitionRequest(id, observed, next, trigger, context)

\* A rejection's suppression; no other decision has one.
Suppresses(key, id, next) ==
    LET old == candidates[id].payload.suppression
        new == candidates'[id].payload.suppression
    IN  /\ next # "rejected" => suppressions' = suppressions /\ new = old
        /\ next = "rejected" =>
               /\ new \in SuppressionKey
               /\ old # NoSuppression => new = old
               /\ suppressions' = Put(suppressions, new, [candidate |-> id, decision |-> key])
               /\ new \in DOMAIN suppressions => ledger'[key].payload.context

DecisionStep(key, id, next, trigger, object) ==
    /\ next \in State
    /\ trigger \in Trigger \cup {NoTrigger}
    /\ object \in ObjectId \cup {NoRef}
    /\ Adds(key)
    /\ Decides(key, id, next, trigger, object)
    /\ Receipted(key, id, next, trigger, object)
    /\ Suppresses(key, id, next)

\* The links after a decision are links.
LEMMA LinkedIsLinks ==
    ASSUME NEW links \in Links, NEW key \in Key, NEW next \in State,
           NEW trigger \in Trigger \cup {NoTrigger}, NEW object \in ObjectId \cup {NoRef}
    PROVE  Linked(links, key, next, trigger, object) \in Links
BY DEF Linked, Links

\* A candidate is its row's but for its suppression key.
Rekeyed(c, old) ==
    /\ c \in Candidate
    /\ c.id = old.id /\ c.state = old.state /\ c.version = old.version
    /\ c.content = old.content /\ c.links = old.links

\* write_decision, on a candidate as its row has it but for the suppression key
\* a rejection may have given it.
LEMMA WriteDecisionDecides ==
    ASSUME CandidateRows, NEW env \in Envelope, NEW id \in DOMAIN candidates,
           NEW c, Rekeyed(c, candidates[id].payload),
           NEW next \in State, NEW trigger \in Trigger \cup {NoTrigger},
           NEW object \in ObjectId \cup {NoRef},
           WriteDecision(env, c, next, trigger, object)
    PROVE  /\ Decides(env.key, id, next, trigger, object)
           /\ candidates'[id].payload.suppression = c.suppression
           /\ candidates'[id].version = candidates[id].version + 1
<1> DEFINE old == candidates[id].payload
           new == Decided(c, env.key, next, trigger, object)
<1>1. old \in Candidate /\ old.id = id /\ candidates[id].version = old.version
    BY DEF CandidateRows, RowMirrorsPayload, RowOf
<1>2. /\ c \in Candidate /\ c.id = id /\ c.state = old.state /\ c.version = old.version
      /\ c.content = old.content /\ c.links = old.links
    BY <1>1 DEF Rekeyed
<1>3. /\ Transition(old.state, next, trigger)
      /\ old.version # MaxVersion
      /\ env.key \notin DOMAIN events
      /\ candidates' = Updated(new, old.version)
      /\ events' = Put(events, env.key, [candidate |-> id, from |-> old.state, to |-> next,
                                         trigger |-> trigger, observed |-> old.version,
                                         object |-> object])
    BY <1>2 DEF WriteDecision, CanAdvance
<1>4. old.version \in 1..MaxVersion /\ old.version + 1 \in 1..MaxVersion
    BY <1>1, <1>3, MaxVersionPositive DEF Candidate
<1>5. env.key \in Key /\ c.links \in Links
    BY <1>2 DEF Envelope, Candidate
<1>6. Linked(c.links, env.key, next, trigger, object) \in Links
    BY <1>5, LinkedIsLinks
<1>7. /\ new \in Candidate /\ new.id = id /\ new.state = next
      /\ new.version = old.version + 1 /\ new.suppression = c.suppression
      /\ new.content = old.content
      /\ new.links = Linked(old.links, env.key, next, trigger, object)
    BY <1>2, <1>4, <1>6 DEF Decided, Candidate
<1> HIDE DEF new
<1>8. candidates' = Put(candidates, id, RowOf(new))
    BY <1>1, <1>3, <1>7 DEF Updated
<1>9. candidates'[id].payload = new /\ candidates'[id].version = new.version
    BY <1>8 DEF Put, RowOf
<1>10. QED
    BY <1>1, <1>3, <1>4, <1>7, <1>8, <1>9 DEF Decides

\* The candidate a row holds.
LEMMA PayloadOfRow ==
    ASSUME CandidateRows, NEW id \in DOMAIN candidates
    PROVE  candidates[id].payload \in Candidate
           /\ Rekeyed(candidates[id].payload, candidates[id].payload)
BY DEF CandidateRows, Rekeyed

\* The receipt of a decision that admits nothing.
LEMMA DecisionRecorded ==
    ASSUME CandidateRows, NEW env \in Envelope, NEW id \in DOMAIN candidates, NEW request,
           env.key \notin DOMAIN ledger,
           candidates'[id].version = candidates[id].version + 1,
           RecordDecision(env, request, id)
    PROVE  /\ Adds(env.key)
           /\ ledger'[env.key].payload = request
           /\ ledger'[env.key].id = id
           /\ ledger'[env.key].version = -(candidates[id].version + 1)
BY DEF RecordDecision, ResultVersion, Record, Put, Adds, Envelope

\* A transition is a decision without an object.
LEMMA TransitionDecides ==
    ASSUME CandidateRows, NEW env \in Envelope, NEW id, NEW observed, NEW next \in State,
           NEW trigger \in Trigger \cup {NoTrigger}, NEW context,
           TransitionAdvisoryCandidate(env, id, observed, next, trigger, context)
    PROVE  DecisionStep(env.key, id, next, trigger, NoRef)
           /\ UNCHANGED <<objects, logs, xrefs>>
<1>1. /\ env.key \notin DOMAIN ledger
      /\ id \in DOMAIN candidates /\ candidates[id].version = observed
      /\ next \notin Dedicated
      /\ WriteDecision(env, candidates[id].payload, next, trigger, NoRef)
      /\ RecordDecision(env, TransitionRequest(id, observed, next, trigger, context), id)
      /\ UNCHANGED <<objects, logs, xrefs, suppressions>>
    BY DEF TransitionAdvisoryCandidate, Fresh, ObservedCandidate
<1>2. Rekeyed(candidates[id].payload, candidates[id].payload)
    BY <1>1, PayloadOfRow
<1>3. /\ Decides(env.key, id, next, trigger, NoRef)
      /\ candidates'[id].payload.suppression = candidates[id].payload.suppression
      /\ candidates'[id].version = candidates[id].version + 1
    BY <1>1, <1>2, WriteDecisionDecides
<1>4. /\ Adds(env.key)
      /\ ledger'[env.key].payload = TransitionRequest(id, observed, next, trigger, context)
      /\ ledger'[env.key].id = id
      /\ ledger'[env.key].version = -(candidates[id].version + 1)
    BY <1>1, <1>3, DecisionRecorded
<1>5. Receipted(env.key, id, next, trigger, NoRef)
    BY <1>1, <1>4 DEF Receipted, Dedicated
<1>6. Suppresses(env.key, id, next)
    BY <1>1, <1>3 DEF Suppresses, Dedicated
<1>7. QED
    BY <1>1, <1>3, <1>4, <1>5, <1>6 DEF DecisionStep

\* So is a rejection, which leaves its suppression.
LEMMA RejectDecides ==
    ASSUME CandidateRows, NEW env \in Envelope, NEW id, NEW observed,
           NEW supplied \in SuppressionKey \cup {NoSuppression}, NEW context \in BOOLEAN,
           RejectAdvisoryCandidate(env, id, observed, supplied, context)
    PROVE  DecisionStep(env.key, id, "rejected", NoTrigger, NoRef)
           /\ UNCHANGED <<objects, logs, xrefs>>
<1> DEFINE old == candidates[id].payload
           suppression == SuppressionFor(old, supplied)
<1>1. /\ env.key \notin DOMAIN ledger
      /\ id \in DOMAIN candidates /\ candidates[id].version = observed
      /\ suppressions' = Put(suppressions, suppression,
                             [candidate |-> id, decision |-> env.key])
      /\ WriteDecision(env, Keyed(old, supplied), "rejected", NoTrigger, NoRef)
      /\ RecordDecision(env, RejectRequest(id, observed, supplied, context), id)
      /\ UNCHANGED <<objects, logs, xrefs>>
    BY DEF RejectAdvisoryCandidate, Fresh, ObservedCandidate
<1>2. context \/ suppression \notin DOMAIN suppressions
    BY DEF RejectAdvisoryCandidate, MayRecordSuppression
<1>3. old \in Candidate
    BY <1>1, PayloadOfRow
<1>4. /\ suppression \in SuppressionKey
      /\ old.suppression # NoSuppression => suppression = old.suppression
    BY <1>3, DerivedKeyShape DEF SuppressionFor, Candidate
<1>5. /\ Rekeyed(Keyed(old, supplied), old)
       /\ Keyed(old, supplied).suppression = suppression
    BY <1>3, <1>4 DEF Keyed, Rekeyed, Candidate
<1> HIDE DEF suppression
<1>6. /\ Decides(env.key, id, "rejected", NoTrigger, NoRef)
      /\ candidates'[id].payload.suppression = suppression
      /\ candidates'[id].version = candidates[id].version + 1
    <2>1. "rejected" \in State
        BY DEF State
    <2>2. QED
        BY <1>1, <1>5, <2>1, WriteDecisionDecides
<1>7. /\ Adds(env.key)
      /\ ledger'[env.key].payload = RejectRequest(id, observed, supplied, context)
      /\ ledger'[env.key].id = id
      /\ ledger'[env.key].version = -(candidates[id].version + 1)
    BY <1>1, <1>6, DecisionRecorded
<1>8. Receipted(env.key, id, "rejected", NoTrigger, NoRef)
    BY <1>1, <1>7 DEF Receipted
<1>9. ledger'[env.key].payload.context = context
    BY <1>7 DEF RejectRequest
<1>10. suppression \in DOMAIN suppressions => ledger'[env.key].payload.context
    BY <1>2, <1>9
<1>11. Suppresses(env.key, id, "rejected")
    BY <1>1, <1>4, <1>6, <1>10 DEF Suppresses
<1>12. QED
    BY <1>1, <1>6, <1>7, <1>8, <1>11 DEF DecisionStep, State

\* An admission is a decision and an ordinary admission of its object.
LEMMA AdmitDecides ==
    ASSUME CandidateRows, NEW env \in Envelope, NEW id, NEW observed, NEW p \in RecordPayload,
           AdmitAdvisoryCandidate(env, id, observed, p)
    PROVE  DecisionStep(env.key, id, "admitted", NoTrigger, p.id) /\ AdmitObject(env, p)
<1>1. /\ env.key \notin DOMAIN ledger
      /\ id \in DOMAIN candidates
      /\ WriteObject(env, p.id, p, p)
      /\ WriteDecision(env, candidates[id].payload, "admitted", NoTrigger, p.id)
      /\ UNCHANGED suppressions
      /\ Fresh(env)
    BY DEF AdmitAdvisoryCandidate, Fresh, ObservedCandidate
<1>2. p.id \in ObjectId
    BY RecordPayloadShape DEF ObjectPayload
<1>3. Rekeyed(candidates[id].payload, candidates[id].payload)
    BY <1>1, PayloadOfRow
<1>4. "admitted" \in State
    BY DEF State
<1>5. /\ Decides(env.key, id, "admitted", NoTrigger, p.id)
      /\ candidates'[id].payload.suppression = candidates[id].payload.suppression
    BY <1>1, <1>2, <1>3, <1>4, WriteDecisionDecides
<1>6. /\ p.id \in DOMAIN env.observed
      /\ Record(env, p, p.id, NextVersion(env.observed[p.id]))
    BY <1>1 DEF WriteObject
<1>7. /\ Adds(env.key)
      /\ ledger'[env.key].id = p.id
      /\ ledger'[env.key].version = NextVersion(env.observed[p.id])
    BY <1>1, <1>6 DEF Record, Put, Adds, Envelope
<1>8. NextVersion(env.observed[p.id]) \in Nat \ {0}
    BY <1>6, NextVersionPositive
<1>9. Receipted(env.key, id, "admitted", NoTrigger, p.id)
    BY <1>2, <1>7, <1>8 DEF Receipted
<1>10. Suppresses(env.key, id, "admitted")
    BY <1>1, <1>5 DEF Suppresses
<1>11. QED
    BY <1>1, <1>2, <1>5, <1>7, <1>9, <1>10 DEF DecisionStep, State, AdmitObject

\* A canonical writer leaves one receipt, of an object or of an append.
LEMMA NextIsCanonicalStep ==
    ASSUME Next, UNCHANGED reviewVars
    PROVE  CanonicalStep \/ UNCHANGED allVars
<1>1. ASSUME NEW env \in Envelope, NEW id \in ObjectId, NEW stored, NEW requested,
             Fresh(env), WriteObject(env, id, stored, requested)
      PROVE  CanonicalStep
    <2>1. /\ env.key \notin DOMAIN ledger
          /\ id \in DOMAIN env.observed
          /\ Record(env, requested, id, NextVersion(env.observed[id]))
        BY <1>1 DEF Fresh, WriteObject
    <2>2. NextVersion(env.observed[id]) \in Nat
        BY <2>1, NextVersionPositive
    <2>3. /\ Adds(env.key)
          /\ ledger'[env.key].version \in Nat
          /\ ledger'[env.key].id \in ObjectId
        BY <1>1, <2>1, <2>2 DEF Record, Put, Adds, Envelope
    <2>4. QED
        BY <2>3 DEF CanonicalStep
<1>2. ASSUME NEW env \in Envelope, NEW id \in ObjectId, NEW payload,
             Fresh(env), Record(env, payload, id, 0)
      PROVE  CanonicalStep
    <2>1. /\ Adds(env.key)
          /\ ledger'[env.key].version \in Nat
          /\ ledger'[env.key].id \in ObjectId
        BY <1>2 DEF Fresh, Record, Put, Adds, Envelope
    <2>2. QED
        BY <2>1 DEF CanonicalStep
<1>3. ASSUME NEW env \in Envelope, NEW p \in RecordPayload, AdmitObject(env, p)
      PROVE  CanonicalStep
    BY <1>1, <1>3, RecordPayloadShape DEF AdmitObject, ObjectPayload
<1>4. ASSUME NEW env \in Envelope, NEW q \in StateRequest, PersistUniverseState(env, q)
      PROVE  CanonicalStep
    BY <1>1, <1>4, StateRequestShape DEF PersistUniverseState
<1>5. ASSUME NEW env \in Envelope, NEW id \in LogId, NEW p \in Json, AppendLogEntry(env, id, p)
      PROVE  CanonicalStep
    BY <1>2, <1>5 DEF AppendLogEntry, ObjectId
<1>6. ASSUME NEW env \in Envelope, NEW id \in XrefId, NEW p \in Json,
             StoreExternalReference(env, id, p)
      PROVE  CanonicalStep
    BY <1>2, <1>6 DEF StoreExternalReference, ObjectId
<1>7. ASSUME NEW key \in Key, NEW p \in Json, NEW target, ReplayMutation(key, p, target)
      PROVE  UNCHANGED allVars
    BY <1>7 DEF ReplayMutation, allVars
<1>8. QED
    BY <1>3, <1>4, <1>5, <1>6, <1>7 DEF Next

\* A new proposal starts without links at its producer's version.
LEMMA StoreIsStoreStep ==
    ASSUME NEW env \in Envelope, NEW s \in Submission, StoreAdvisoryCandidate(env, s)
    PROVE  StoreStep(env.key, s)
<1> DEFINE c == Proposed(s)
<1>1. /\ env.key \notin DOMAIN ledger
      /\ s.version <= MaxVersion
      /\ s.id \notin DOMAIN candidates
      /\ candidates' = Put(candidates, s.id, RowOf(c))
      /\ Record(env, StoreRequest(s), s.id, -s.version)
      /\ UNCHANGED <<objects, logs, xrefs, events, suppressions>>
    BY DEF StoreAdvisoryCandidate, Fresh, ResultVersion
<1>2. s.version \in 1..MaxVersion
    BY <1>1, SubmissionShape, MaxVersionPositive
<1>3. NoLinks \in Links /\ "proposed" \in State
    BY DEF NoLinks, Links, State
<1>4. c \in Candidate
    BY <1>2, <1>3, SubmissionShape DEF Proposed, Candidate
<1>5. /\ Adds(env.key)
      /\ ledger'[env.key].payload = StoreRequest(s)
      /\ ledger'[env.key].id = s.id
      /\ ledger'[env.key].version = -s.version
    BY <1>1 DEF Record, Put, Adds, Envelope
<1>6. QED
    BY <1>1, <1>2, <1>4, <1>5 DEF StoreStep, Proposed

\* A step of the store with candidates has one of four shapes.
LEMMA ReviewStepShapes ==
    ASSUME CandidateRows, [ReviewNext]_allVars
    PROVE  \/ CanonicalStep
           \/ \E key, s : StoreStep(key, s)
           \/ \E key, id, next, trigger, object : DecisionStep(key, id, next, trigger, object)
           \/ UNCHANGED allVars
<1>1. ASSUME NEW env \in Envelope, NEW id, NEW observed, Decide(env, id, observed)
      PROVE  \E next, trigger, object : DecisionStep(env.key, id, next, trigger, object)
    BY <1>1, TransitionDecides, RejectDecides, AdmitDecides DEF Decide
<1>2. ASSUME NEW key, ReplayDecision(key, ledger[key].payload)
      PROVE  UNCHANGED allVars
    BY <1>2 DEF ReplayDecision
<1>3. ASSUME NEW key, NEW id, NEW observed,
             ReplayAdmission(key, id, observed, ledger[key].payload)
      PROVE  UNCHANGED allVars
    BY <1>3 DEF ReplayAdmission
<1>4. QED
    BY <1>1, <1>2, <1>3, NextIsCanonicalStep, StoreIsStoreStep DEF ReviewNext

-----------------------------------------------------------------------------
(* Rows.                                                                   *)

\* A candidate put under its own id with the columns it names.
LEMMA PutKeepsRows ==
    ASSUME CandidateRows, NEW c \in Candidate, candidates' = Put(candidates, c.id, RowOf(c))
    PROVE  CandidateRows'
BY DEF CandidateRows, RowMirrorsPayload, Put, RowOf, Candidate

\* Every step keeps the rows of advisory_candidates.
LEMMA StepKeepsRows ==
    ASSUME CandidateRows, [ReviewNext]_allVars
    PROVE  CandidateRows'
<1>1. CASE UNCHANGED candidates
    BY <1>1 DEF CandidateRows, RowMirrorsPayload
<1>2. ASSUME NEW key, NEW s, StoreStep(key, s)
      PROVE  CandidateRows'
    BY <1>2, PutKeepsRows DEF StoreStep
<1>3. ASSUME NEW key, NEW id, NEW next, NEW trigger, NEW object,
             DecisionStep(key, id, next, trigger, object)
      PROVE  CandidateRows'
    BY <1>3, PutKeepsRows DEF DecisionStep, Decides
<1>4. QED
    BY <1>1, <1>2, <1>3, ReviewStepShapes DEF CanonicalStep, allVars, reviewVars

LEMMA RowsInvariant == ReviewSpec => []CandidateRows
<1>1. ReviewInit => CandidateRows
    BY DEF ReviewInit, Empty, CandidateRows, RowMirrorsPayload
<1>2. QED
    BY <1>1, StepKeepsRows, PTL DEF ReviewSpec

\* The columns that the queue and the optimistic UPDATE go by never differ from
\* the candidate the decisions go by, through every writer and rejection.
THEOREM RowsMirrorPayloads == ReviewSpec => []RowMirrorsPayload
<1>1. CandidateRows => RowMirrorsPayload
    BY DEF CandidateRows
<1>2. QED
    BY <1>1, RowsInvariant, PTL

-----------------------------------------------------------------------------
(* The store without candidates.                                           *)

\* A decision that admits nothing records a version that is not seen.
LEMMA DecisionUnseen ==
    ASSUME CandidateRows, NEW key, NEW id, NEW next, NEW trigger, NEW object,
           DecisionStep(key, id, next, trigger, object), next # "admitted"
    PROVE  CanonicalLedger' = CanonicalLedger
<1>1. /\ Adds(key)
      /\ id \in DOMAIN candidates
      /\ ledger'[key].version = -(candidates[id].version + 1)
    BY DEF DecisionStep, Decides, Receipted
<1>2. candidates[id].version \in 1..MaxVersion
    BY <1>1 DEF CandidateRows, RowMirrorsPayload, RowOf, Candidate
<1>3. ~(ledger'[key].version >= 0)
    BY <1>1, <1>2, MaxVersionPositive
<1>4. QED
    BY <1>1, <1>3, CandidateReceiptUnseen

\* Seen without candidates, a review step is a canonical step or none.
LEMMA ReviewStepSeen ==
    ASSUME CandidateRows, [ReviewNext]_allVars
    PROVE  [Canonical!Next]_(Canonical!vars)
<1> DEFINE Unseen == UNCHANGED <<objects, logs, xrefs>> /\ CanonicalLedger' = CanonicalLedger
<1>1. Unseen => UNCHANGED Canonical!vars
    BY DEF Canonical!vars
<1>2. UNCHANGED allVars => Unseen
    BY DEF allVars, vars, CanonicalLedger
<1> HIDE DEF Unseen
<1>3. ASSUME NEW env \in Envelope, NEW s \in Submission, StoreAdvisoryCandidate(env, s)
      PROVE  Unseen
    <2>1. StoreStep(env.key, s)
        BY <1>3, StoreIsStoreStep
    <2>2. ~(ledger'[env.key].version >= 0)
        BY <2>1, MaxVersionPositive DEF StoreStep
    <2>3. QED
        BY <2>1, <2>2, CandidateReceiptUnseen DEF StoreStep, Unseen
<1>4. ASSUME NEW env \in Envelope, NEW id, NEW observed, NEW next \in State,
             NEW trigger \in Trigger \cup {NoTrigger}, NEW context,
             TransitionAdvisoryCandidate(env, id, observed, next, trigger, context)
      PROVE  Unseen
    <2>1. next # "admitted"
        BY <1>4 DEF TransitionAdvisoryCandidate, Dedicated
    <2>2. QED
        BY <1>4, <2>1, TransitionDecides, DecisionUnseen DEF Unseen
<1>5. ASSUME NEW env \in Envelope, NEW id, NEW observed,
             NEW supplied \in SuppressionKey \cup {NoSuppression}, NEW context \in BOOLEAN,
             RejectAdvisoryCandidate(env, id, observed, supplied, context)
      PROVE  Unseen
    BY <1>5, RejectDecides, DecisionUnseen DEF Unseen
<1>6. ASSUME NEW env \in Envelope, NEW id, NEW observed, NEW p \in RecordPayload,
             AdmitAdvisoryCandidate(env, id, observed, p)
      PROVE  Next
    BY <1>6, AdmitDecides DEF Next
<1>7. ASSUME NEW key, ReplayDecision(key, ledger[key].payload)
      PROVE  UNCHANGED allVars
    BY <1>7 DEF ReplayDecision
<1>8. ASSUME NEW key, NEW id, NEW observed,
             ReplayAdmission(key, id, observed, ledger[key].payload)
      PROVE  UNCHANGED allVars
    BY <1>8 DEF ReplayAdmission
<1>9. ASSUME NEW env \in Envelope, NEW id, NEW observed, Decide(env, id, observed)
      PROVE  Unseen \/ Next
    BY <1>4, <1>5, <1>6, <1>9 DEF Decide
<1>10. Unseen \/ Next
    BY <1>2, <1>3, <1>7, <1>8, <1>9 DEF ReviewNext
<1>11. QED
    BY <1>1, <1>10, NextSeen

\* Candidates never touch canonical state but by an ordinary admission: seen
\* through get_recorded_mutation, the store with candidates is a store.
THEOREM CanonicalRefined == ReviewSpec => ImplementsCanonicalStore
<1>1. ReviewInit => Canonical!Init
    <2> SUFFICES ASSUME ReviewInit PROVE Canonical!Init
        OBVIOUS
    <2>1. DOMAIN CanonicalLedger = {}
        BY DEF ReviewInit, Init, Empty, CanonicalLedger
    <2>2. CanonicalLedger = Empty
        BY <2>1 DEF CanonicalLedger, Empty
    <2>3. QED
        BY <2>2 DEF ReviewInit, Init, Canonical!Init, Empty, Canonical!Empty
<1>2. QED
    BY <1>1, ReviewStepSeen, RowsInvariant, PTL
       DEF ReviewSpec, ImplementsCanonicalStore, Canonical!Spec

-----------------------------------------------------------------------------
(* What is proved of the canonical store, carried over.                    *)

\* Both instances of CanonicalStore are the same specification.
LEMMA SeenIsCanonical == Canonical!Spec => Seen!Spec
<1>1. Canonical!Init => Seen!Init
    BY DEF Canonical!Init, Seen!Init, Canonical!Empty, Seen!Empty
<1>2. Canonical!Next => Seen!Next
    BY DEF Canonical!Next, Seen!Next, Canonical!AdmitObject, Seen!AdmitObject,
           Canonical!PersistUniverseState, Seen!PersistUniverseState,
           Canonical!AppendLogEntry, Seen!AppendLogEntry,
           Canonical!StoreExternalReference, Seen!StoreExternalReference,
           Canonical!ReplayMutation, Seen!ReplayMutation, Canonical!Replays, Seen!Replays,
           Canonical!Accepts, Seen!Accepts, Canonical!Fresh, Seen!Fresh,
           Canonical!PreconditionsHold, Seen!PreconditionsHold,
           Canonical!CurrentRef, Seen!CurrentRef, Canonical!Absent, Seen!Absent,
           Canonical!WriteObject, Seen!WriteObject, Canonical!Record, Seen!Record,
           Canonical!Put, Seen!Put, Canonical!NextVersion, Seen!NextVersion,
           Canonical!OccurrenceFree, Seen!OccurrenceFree,
           Canonical!OccurrenceHeld, Seen!OccurrenceHeld,
           Canonical!CanAdvance, Seen!CanAdvance,
           Canonical!PersistedPayload, Seen!PersistedPayload,
           Canonical!Envelope, Seen!Envelope, Canonical!Key, Seen!Key,
           Canonical!Json, Seen!Json, Canonical!vars, Seen!vars
<1>3. Canonical!vars = Seen!vars
    BY DEF Canonical!vars, Seen!vars
<1>4. [Canonical!Next]_(Canonical!vars) => [Seen!Next]_(Seen!vars)
    BY <1>2, <1>3 DEF Canonical!vars, Seen!vars
<1>5. QED
    BY <1>1, <1>4, PTL DEF Canonical!Spec, Seen!Spec

\* The canonical theorems, of the store as it is seen without candidates.
LEMMA SeenInvariant ==
    ReviewSpec => [](/\ Seen!TypeOK
                     /\ Seen!EachVersionWrittenOnce
                     /\ Seen!AppendsHaveReceipts
                     /\ Seen!ReceiptsSerializable
                     /\ Seen!RowFollowsFromReceipts
                     /\ Seen!ReplayFindsItsRow
                     /\ Seen!OccurrenceKeyUnique)
<1> USE IdsDisjoint, MaxVersionPositive, RecordPayloadShape, StateRequestShape, ObservationShape
        DEF Seen!ObjectId, ObjectId, Seen!VersionRef, VersionRef, Seen!Absent, Absent,
            Seen!ObjectPayload, ObjectPayload
<1>1. Seen!Spec => []Seen!TypeOK
    BY Seen!TypeCorrect
<1>2. Seen!Spec => []Seen!EachVersionWrittenOnce
    BY Seen!VersionsWrittenOnce
<1>3. Seen!Spec => []Seen!AppendsHaveReceipts
    BY Seen!AppendsRecorded
<1>4. Seen!Spec => []Seen!ReceiptsSerializable
    BY Seen!Serializable
<1>5. Seen!Spec => []Seen!RowFollowsFromReceipts
    BY Seen!RowsFollow
<1>6. Seen!Spec => []Seen!OccurrenceKeyUnique
    BY Seen!OneTaskPerOccurrence
<1>7. Seen!Spec => []Seen!ReplayFindsItsRow
    BY Seen!ReplayFinds
<1>8. QED
    BY <1>1, <1>2, <1>3, <1>4, <1>5, <1>6, <1>7, CanonicalRefined, SeenIsCanonical, PTL
       DEF ImplementsCanonicalStore

\* And what no step may do to them.
LEMMA SeenAppendOnly == ReviewSpec => Seen!EvidenceAppendOnly
<1> USE IdsDisjoint, MaxVersionPositive, RecordPayloadShape, StateRequestShape, ObservationShape
        DEF Seen!ObjectId, ObjectId, Seen!VersionRef, VersionRef, Seen!Absent, Absent,
            Seen!ObjectPayload, ObjectPayload
<1>1. Seen!Spec => Seen!EvidenceAppendOnly
    BY Seen!AppendOnly
<1>2. QED
    BY <1>1, CanonicalRefined, SeenIsCanonical, PTL DEF ImplementsCanonicalStore

\* With candidates in the store and their receipts in its ledger, the canonical
\* tables still agree with what get_recorded_mutation shows: rows and receipts
\* of their types, each version written once, every append recorded, admitted
\* requests serializable, the rows following from their receipts, a replay
\* finding its row, one Task per occurrence key.
THEOREM CanonicalStateUndisturbed ==
    ReviewSpec => [](/\ Canonical!TypeOK
                     /\ Canonical!EachVersionWrittenOnce
                     /\ Canonical!AppendsHaveReceipts
                     /\ Canonical!ReceiptsSerializable
                     /\ Canonical!RowFollowsFromReceipts
                     /\ Canonical!ReplayFindsItsRow
                     /\ OccurrenceKeyUnique)
<1>1. Seen!EachVersionWrittenOnce <=> Canonical!EachVersionWrittenOnce
    BY DEF Seen!EachVersionWrittenOnce, Seen!VersionsHaveReceipts, Seen!ReceiptsHaveVersions,
           Seen!OneReceiptPerResult, Seen!Wrote, Canonical!EachVersionWrittenOnce,
           Canonical!VersionsHaveReceipts, Canonical!ReceiptsHaveVersions,
           Canonical!OneReceiptPerResult, Canonical!Wrote
<1>2. Seen!AppendsHaveReceipts <=> Canonical!AppendsHaveReceipts
    BY DEF Seen!AppendsHaveReceipts, Canonical!AppendsHaveReceipts
<1>3. Seen!ReceiptsSerializable <=> Canonical!ReceiptsSerializable
    BY DEF Seen!ReceiptsSerializable, Seen!Precedes, Seen!NextVersion, Seen!Absent,
           Canonical!ReceiptsSerializable, Canonical!Precedes, Canonical!NextVersion,
           Canonical!Absent
<1>4. Seen!RowFollowsFromReceipts <=> Canonical!RowFollowsFromReceipts
    BY DEF Seen!RowFollowsFromReceipts, Canonical!RowFollowsFromReceipts
<1>5. Seen!OccurrenceKeyUnique <=> OccurrenceKeyUnique
    BY DEF Seen!OccurrenceKeyUnique, OccurrenceKeyUnique
<1>6. Seen!TypeOK <=> Canonical!TypeOK
    BY DEF Seen!TypeOK, Seen!IsTable, Seen!ObjectId, Seen!ObjectRow, Seen!ObjectPayload,
           Seen!Json, Seen!Key, Seen!Receipt, Seen!VersionRef, Seen!Absent,
           Canonical!TypeOK, Canonical!IsTable, Canonical!ObjectId, Canonical!ObjectRow,
           Canonical!ObjectPayload, Canonical!Json, Canonical!Key, Canonical!Receipt,
           Canonical!VersionRef, Canonical!Absent
<1>7. Seen!ReplayFindsItsRow <=> Canonical!ReplayFindsItsRow
    BY DEF Seen!ReplayFindsItsRow, Seen!Accepts, Canonical!ReplayFindsItsRow, Canonical!Accepts
<1>8. QED
    BY <1>1, <1>2, <1>3, <1>4, <1>5, <1>6, <1>7, SeenInvariant, PTL

\* Nor does a review step change or remove a canonical receipt, a log or a
\* reference, and it replaces an object only by its next version, as the
\* admission of a candidate does.
THEOREM CanonicalEvidenceStays == ReviewSpec => Canonical!EvidenceAppendOnly
<1>1. Seen!EvidenceAppendOnly => Canonical!EvidenceAppendOnly
    BY PTL DEF Seen!EvidenceAppendOnly, Canonical!EvidenceAppendOnly, Seen!vars, Canonical!vars
<1>2. QED
    BY <1>1, SeenAppendOnly, PTL

-----------------------------------------------------------------------------
(* Types.                                                                  *)

\* The part of the ledger that is not canonical records candidates.
CandidateReceipts ==
    \A k \in DOMAIN ledger :
        /\ ledger[k].version \in Int
        /\ ~(ledger[k].version >= 0) =>
               /\ k \in Key
               /\ ledger[k].id \in CandidateId
               /\ ledger[k].version >= -MaxVersion

ReviewTables ==
    /\ CandidateReceipts
    /\ IsTable(events, Key, Decision)
    /\ IsTable(suppressions, SuppressionKey, [candidate : CandidateId, decision : Key])

\* Every step keeps the other review tables and the candidates' receipts.
LEMMA StepKeepsTables ==
    ASSUME CandidateRows, ReviewTables, [ReviewNext]_allVars
    PROVE  ReviewTables'
<1>1. CASE UNCHANGED allVars
    BY <1>1 DEF allVars, vars, reviewVars, ReviewTables, CandidateReceipts
<1>2. CASE CanonicalStep
    BY <1>2 DEF CanonicalStep, Adds, reviewVars, ReviewTables, CandidateReceipts
<1>3. ASSUME NEW key, NEW s, StoreStep(key, s)
      PROVE  ReviewTables'
    <2>1. /\ Adds(key)
          /\ s.id \in CandidateId
          /\ s.version \in 1..MaxVersion
          /\ ledger'[key].id = s.id
          /\ ledger'[key].version = -s.version
          /\ UNCHANGED <<events, suppressions>>
        BY <1>3, SubmissionShape DEF StoreStep
    <2>2. CandidateReceipts'
        BY <2>1, MaxVersionPositive DEF Adds, ReviewTables, CandidateReceipts
    <2>3. QED
        BY <2>1, <2>2 DEF ReviewTables
<1>4. ASSUME NEW key, NEW id, NEW next, NEW trigger, NEW object,
             DecisionStep(key, id, next, trigger, object)
      PROVE  ReviewTables'
    <2> DEFINE old == candidates[id].payload
               new == candidates'[id].payload
               event == [candidate |-> id, from |-> old.state, to |-> next, trigger |-> trigger,
                         observed |-> old.version, object |-> object]
    <2>1. /\ Adds(key)
          /\ key \in Key
          /\ id \in DOMAIN candidates
          /\ new \in Candidate
          /\ new.version = old.version + 1
          /\ events' = Put(events, key, event)
          /\ next \in State /\ trigger \in Trigger \cup {NoTrigger}
          /\ object \in ObjectId \cup {NoRef}
        BY <1>4 DEF DecisionStep, Decides, Adds
    <2>2. /\ id \in CandidateId
          /\ old \in Candidate
          /\ old.version \in 1..MaxVersion /\ old.version + 1 \in 1..MaxVersion
          /\ candidates[id].version = old.version
        BY <2>1 DEF CandidateRows, RowMirrorsPayload, RowOf, Candidate
    <2>3. /\ ledger'[key].version \in Int
          /\ ~(ledger'[key].version >= 0) =>
                 ledger'[key].id = id /\ ledger'[key].version >= -MaxVersion
        BY <1>4, <2>2, MaxVersionPositive DEF DecisionStep, Receipted
    <2>4. CandidateReceipts'
        BY <2>1, <2>2, <2>3 DEF Adds, ReviewTables, CandidateReceipts
    <2>5. event \in Decision
        BY <2>1, <2>2 DEF Decision, Candidate
    <2>6. IsTable(events', Key, Decision)
        BY <2>1, <2>5, PutIsTable DEF ReviewTables
    <2>7. IsTable(suppressions', SuppressionKey, [candidate : CandidateId, decision : Key])
        <3>1. CASE next = "rejected"
            <4>1. /\ new.suppression \in SuppressionKey
                  /\ suppressions' = Put(suppressions, new.suppression,
                                         [candidate |-> id, decision |-> key])
                BY <1>4, <3>1 DEF DecisionStep, Suppresses
            <4>2. [candidate |-> id, decision |-> key] \in [candidate : CandidateId, decision : Key]
                BY <2>1, <2>2
            <4>3. QED
                BY <4>1, <4>2, PutIsTable DEF ReviewTables
        <3>2. CASE next # "rejected"
            BY <1>4, <3>2 DEF ReviewTables, DecisionStep, Suppresses
        <3>3. QED
            BY <3>1, <3>2
    <2>8. QED
        BY <2>4, <2>6, <2>7 DEF ReviewTables
<1>5. QED
    BY <1>1, <1>2, <1>3, <1>4, ReviewStepShapes

LEMMA TablesInvariant == ReviewSpec => []ReviewTables
<1>1. ReviewInit => ReviewTables
    BY DEF ReviewInit, Init, Empty, ReviewTables, CandidateReceipts, IsTable
<1>2. QED
    BY <1>1, StepKeepsTables, RowsInvariant, PTL DEF ReviewSpec

\* The review tables hold rows of their types, and a receipt is a candidate's
\* exactly when its version is negated.
THEOREM ReviewTypeCorrect == ReviewSpec => []ReviewTypeOK
<1>1. CandidateRows /\ ReviewTables /\ Seen!TypeOK => ReviewTypeOK
    <2> SUFFICES ASSUME CandidateRows, ReviewTables, Seen!TypeOK PROVE ReviewTypeOK
        OBVIOUS
    <2>1. IsTable(CanonicalLedger, Key, Receipt)
        BY DEF Seen!TypeOK, Seen!IsTable, IsTable, Seen!Key, Key, Seen!Receipt, Receipt,
               Seen!Json, Json, Seen!ObjectId, ObjectId
    <2>2. \A k \in DOMAIN ledger : ledger[k].version >= 0 =>
              k \in DOMAIN CanonicalLedger /\ CanonicalLedger[k] = ledger[k]
        BY DEF CanonicalLedger
    <2>3. ASSUME NEW k \in DOMAIN ledger, ledger[k].version >= 0
          PROVE  k \in Key /\ ledger[k].version \in 0..MaxVersion /\ ledger[k].id \in ObjectId
        BY <2>1, <2>2, <2>3 DEF IsTable, Receipt
    <2>4. ASSUME NEW k \in DOMAIN ledger
          PROVE  /\ k \in Key
                 /\ ledger[k].version \in -MaxVersion..MaxVersion
                 /\ ledger[k].version < 0 <=> ledger[k].id \in CandidateId
        <3>1. CASE ledger[k].version >= 0
            BY <2>3, <3>1, IdsDisjoint, MaxVersionPositive
        <3>2. CASE ~(ledger[k].version >= 0)
            <4>1. /\ ledger[k].version \in Int
                  /\ k \in Key /\ ledger[k].id \in CandidateId
                  /\ ledger[k].version >= -MaxVersion
                BY <3>2 DEF ReviewTables, CandidateReceipts
            <4>2. QED
                BY <3>2, <4>1, MaxVersionPositive
        <3>3. QED
            BY <3>1, <3>2
    <2>5. QED
        BY <2>4 DEF ReviewTypeOK, CandidateRows, ReviewTables
<1>2. QED
    BY <1>1, RowsInvariant, TablesInvariant, SeenInvariant, PTL

-----------------------------------------------------------------------------
(* What the rest needs of a step, field by field.                          *)

DecisionEffect(key, id, next, trigger, object) ==
    /\ key \notin DOMAIN events
    /\ id \in DOMAIN candidates
    /\ candidates[id].version \in 1..MaxVersion
    /\ DOMAIN candidates' = DOMAIN candidates
    /\ \A c \in DOMAIN candidates : c # id => candidates'[c] = candidates[c]
    /\ candidates'[id].state = next
    /\ candidates'[id].version = candidates[id].version + 1
    /\ candidates'[id].suppression = candidates'[id].payload.suppression
    /\ candidates[id].suppression = candidates[id].payload.suppression
    /\ candidates'[id].payload.content = candidates[id].payload.content
    /\ candidates'[id].payload.links
           = Linked(candidates[id].payload.links, key, next, trigger, object)
    /\ DOMAIN events' = DOMAIN events \cup {key}
    /\ \A k \in DOMAIN events : events'[k] = events[k]
    /\ events'[key].candidate = id
    /\ events'[key].from = candidates[id].state
    /\ events'[key].to = next
    /\ events'[key].trigger = trigger
    /\ events'[key].observed = candidates[id].version
    /\ events'[key].object = object

LEMMA DecisionStepEffect ==
    ASSUME CandidateRows, NEW key, NEW id, NEW next, NEW trigger, NEW object,
           DecisionStep(key, id, next, trigger, object)
    PROVE  DecisionEffect(key, id, next, trigger, object)
<1> DEFINE old == candidates[id].payload
           new == candidates'[id].payload
<1>1. /\ id \in DOMAIN candidates
      /\ new.state = next
      /\ new.version = old.version + 1
      /\ new.content = old.content
      /\ new.links = Linked(old.links, key, next, trigger, object)
      /\ candidates' = Put(candidates, id, RowOf(new))
      /\ key \notin DOMAIN events
      /\ events' = Put(events, key, [candidate |-> id, from |-> old.state, to |-> next,
                                     trigger |-> trigger, observed |-> old.version,
                                     object |-> object])
    BY DEF DecisionStep, Decides
<1>2. /\ old.version \in 1..MaxVersion
      /\ candidates[id].version = old.version
      /\ candidates[id].state = old.state
      /\ candidates[id].suppression = old.suppression
    BY <1>1 DEF CandidateRows, RowMirrorsPayload, RowOf, Candidate
<1> HIDE DEF old, new
<1>3. /\ candidates'[id] = RowOf(new)
      /\ DOMAIN candidates' = DOMAIN candidates
      /\ \A c \in DOMAIN candidates : c # id => candidates'[c] = candidates[c]
    BY <1>1 DEF Put
<1>4. /\ candidates'[id].state = new.state /\ candidates'[id].version = new.version
      /\ candidates'[id].suppression = new.suppression
    BY <1>3 DEF RowOf
<1>5. /\ DOMAIN events' = DOMAIN events \cup {key}
      /\ \A k \in DOMAIN events : events'[k] = events[k]
      /\ events'[key] = [candidate |-> id, from |-> old.state, to |-> next,
                         trigger |-> trigger, observed |-> old.version, object |-> object]
    BY <1>1 DEF Put
<1>6. QED
    BY <1>1, <1>2, <1>3, <1>4, <1>5 DEF DecisionEffect, old, new

StoreEffect(key, submission) ==
    LET id == submission.id
    IN  /\ id \notin DOMAIN candidates
        /\ DOMAIN candidates' = DOMAIN candidates \cup {id}
        /\ \A c \in DOMAIN candidates : candidates'[c] = candidates[c]
        /\ candidates'[id].state = "proposed"
        /\ candidates'[id].version = submission.version
        /\ candidates'[id].payload.links = NoLinks
        /\ submission.version \in 1..MaxVersion
        /\ ledger'[key].id = id
        /\ ledger'[key].version = -submission.version
        /\ ledger'[key].payload.operation = "store"
        /\ UNCHANGED <<objects, logs, xrefs, events, suppressions>>

LEMMA StoreStepEffect ==
    ASSUME NEW key, NEW s, StoreStep(key, s)
    PROVE  StoreEffect(key, s) /\ Adds(key)
<1>1. PICK c \in Candidate : /\ c.state = "proposed" /\ c.version = s.version
                             /\ c.links = NoLinks
                             /\ candidates' = Put(candidates, s.id, RowOf(c))
    BY DEF StoreStep
<1>2. /\ DOMAIN candidates' = DOMAIN candidates \cup {s.id}
      /\ s.id \notin DOMAIN candidates
      /\ \A x \in DOMAIN candidates : candidates'[x] = candidates[x]
      /\ candidates'[s.id] = RowOf(c)
    BY <1>1 DEF Put, StoreStep
<1>3. /\ candidates'[s.id].state = c.state /\ candidates'[s.id].version = c.version
      /\ candidates'[s.id].payload = c
    BY <1>2 DEF RowOf
<1>4. ledger'[key].payload.operation = "store"
    BY DEF StoreStep, StoreRequest
<1>5. QED
    BY <1>1, <1>2, <1>3, <1>4 DEF StoreStep, StoreEffect

-----------------------------------------------------------------------------
(* Receipts.                                                               *)

\* A decision is on a candidate that is there.
DecisionsOnCandidates == \A k \in DOMAIN events : events[k].candidate \in DOMAIN candidates

\* What DecisionsHaveReceipts says of one event and its receipt.
ReceiptOf(event, receipt) ==
    /\ event.to = "admitted" => receipt.version > 0 /\ receipt.id = event.object
    /\ event.to # "admitted" =>
           /\ receipt.id = event.candidate
           /\ receipt.version = -(event.observed + 1)
           /\ receipt.payload.id = event.candidate
           /\ receipt.payload.observed = event.observed
    /\ event.to = "rejected" => receipt.payload.operation = "reject"
    /\ event.to \notin Dedicated =>
           /\ receipt.payload.operation = "transition"
           /\ receipt.payload.next = event.to
           /\ receipt.payload.trigger = event.trigger

ReceiptInv ==
    /\ DecisionsOnCandidates
    /\ \A k \in DOMAIN events : k \in DOMAIN ledger /\ ReceiptOf(events[k], ledger[k])
    /\ \A k \in DOMAIN ledger : ledger[k].version < 0 =>
           ledger[k].id \in DOMAIN candidates /\ (k \in DOMAIN events \/ StoredBy(k, ledger[k].id))

\* The receipt of a decision is recorded with it.
LEMMA DecisionReceipt ==
    ASSUME CandidateRows, NEW key, NEW id, NEW next, NEW trigger, NEW object,
           DecisionStep(key, id, next, trigger, object)
    PROVE  /\ ReceiptOf(events'[key], ledger'[key])
           /\ ledger'[key].version < 0 => ledger'[key].id = id
<1>1. DecisionEffect(key, id, next, trigger, object)
    BY DecisionStepEffect
<1>2. /\ events'[key].candidate = id /\ events'[key].to = next
      /\ events'[key].trigger = trigger /\ events'[key].object = object
      /\ events'[key].observed = candidates[id].version
      /\ candidates[id].version \in 1..MaxVersion
    BY <1>1 DEF DecisionEffect
<1>3. Receipted(key, id, next, trigger, object)
    BY DEF DecisionStep
<1>4. CASE next = "admitted"
    BY <1>2, <1>3, <1>4 DEF Receipted, ReceiptOf, Dedicated
<1>5. CASE next # "admitted"
    <2>1. ledger'[key].version = -(candidates[id].version + 1) /\ ledger'[key].id = id
        BY <1>3, <1>5 DEF Receipted
    <2>2. CASE next = "rejected"
        <3>1. PICK supplied, context :
                  ledger'[key].payload = RejectRequest(id, candidates[id].version, supplied, context)
            BY <1>3, <1>5, <2>2 DEF Receipted
        <3>2. /\ ledger'[key].payload.id = id
              /\ ledger'[key].payload.observed = candidates[id].version
              /\ ledger'[key].payload.operation = "reject"
            BY <3>1 DEF RejectRequest
        <3>3. QED
            BY <1>2, <1>5, <2>1, <2>2, <3>2 DEF ReceiptOf, Dedicated
    <2>3. CASE next # "rejected"
        <3>1. PICK context : ledger'[key].payload
                  = TransitionRequest(id, candidates[id].version, next, trigger, context)
            BY <1>3, <1>5, <2>3 DEF Receipted
        <3>2. /\ ledger'[key].payload.id = id
              /\ ledger'[key].payload.observed = candidates[id].version
              /\ ledger'[key].payload.operation = "transition"
              /\ ledger'[key].payload.next = next
              /\ ledger'[key].payload.trigger = trigger
            BY <3>1 DEF TransitionRequest
        <3>3. QED
            BY <1>2, <1>5, <2>1, <2>3, <3>2 DEF ReceiptOf, Dedicated
    <2>4. QED
        BY <2>2, <2>3
<1>6. QED
    BY <1>4, <1>5

\* Every step keeps receipts and decisions together.
LEMMA StepKeepsReceipts ==
    ASSUME CandidateRows, ReceiptInv, [ReviewNext]_allVars
    PROVE  ReceiptInv'
<1>1. CASE UNCHANGED allVars
    BY <1>1 DEF allVars, vars, reviewVars, ReceiptInv, DecisionsOnCandidates, StoredBy
<1>2. CASE CanonicalStep
    BY <1>2 DEF CanonicalStep, Adds, reviewVars, ReceiptInv, DecisionsOnCandidates, StoredBy
<1>3. ASSUME NEW key, NEW s, StoreStep(key, s)
      PROVE  ReceiptInv'
    <2>1. StoreEffect(key, s) /\ Adds(key)
        BY <1>3, StoreStepEffect
    <2>2. QED
        BY <2>1 DEF StoreEffect, Adds, ReceiptInv, DecisionsOnCandidates, StoredBy
<1>4. ASSUME NEW key, NEW id, NEW next, NEW trigger, NEW object,
             DecisionStep(key, id, next, trigger, object)
      PROVE  ReceiptInv'
    <2>1. DecisionEffect(key, id, next, trigger, object)
        BY <1>4, DecisionStepEffect
    <2>2. /\ Adds(key)
          /\ ReceiptOf(events'[key], ledger'[key])
          /\ ledger'[key].version < 0 => ledger'[key].id = id
        BY <1>4, DecisionReceipt DEF DecisionStep
    <2>3. DecisionsOnCandidates'
        BY <2>1 DEF DecisionEffect, ReceiptInv, DecisionsOnCandidates
    <2>4. \A k \in DOMAIN events' : k \in DOMAIN ledger' /\ ReceiptOf(events'[k], ledger'[k])
        BY <2>1, <2>2 DEF DecisionEffect, Adds, ReceiptInv
    <2>5. ASSUME NEW k \in DOMAIN ledger', ledger'[k].version < 0
          PROVE  /\ ledger'[k].id \in DOMAIN candidates'
                 /\ k \in DOMAIN events' \/ StoredBy(k, ledger[k].id)'
        BY <2>1, <2>2, <2>5 DEF DecisionEffect, Adds, ReceiptInv, StoredBy
    <2>6. QED
        BY <2>3, <2>4, <2>5 DEF ReceiptInv
<1>5. QED
    BY <1>1, <1>2, <1>3, <1>4, ReviewStepShapes

LEMMA ReceiptInvariant == ReviewSpec => []ReceiptInv
<1>1. ReviewInit => ReceiptInv
    BY DEF ReviewInit, Init, Empty, ReceiptInv, DecisionsOnCandidates
<1>2. QED
    BY <1>1, StepKeepsReceipts, RowsInvariant, PTL DEF ReviewSpec

\* No decision without the receipt of the request for it, no candidate receipt
\* without its decision or its storage, for any number of reviewers.
THEOREM DecisionsRecorded == ReviewSpec => []DecisionsHaveReceipts
<1>1. ReceiptInv => DecisionsHaveReceipts
    BY DEF ReceiptInv, ReceiptOf, DecisionsHaveReceipts
<1>2. QED
    BY <1>1, ReceiptInvariant, PTL

-----------------------------------------------------------------------------
(* Suppressions.                                                           *)

\* A rejection keeps both sides of every suppression: the key it uses is the
\* candidate's own for good, so no other record can name that candidate.
LEMMA RejectionKeepsSuppressions ==
    ASSUME ReviewTables, ReceiptInv, RejectionsSuppress,
           NEW key, NEW id, NEW trigger, NEW object,
           DecisionEffect(key, id, "rejected", trigger, object), Suppresses(key, id, "rejected")
    PROVE  RejectionsSuppress'
<1> DEFINE old == candidates[id].suppression
           new == candidates'[id].suppression
<1>1. /\ key \notin DOMAIN events
      /\ id \in DOMAIN candidates
      /\ \A c \in DOMAIN candidates : c # id => candidates'[c] = candidates[c]
      /\ DOMAIN events' = DOMAIN events \cup {key}
      /\ \A k \in DOMAIN events : events'[k] = events[k]
      /\ events'[key].candidate = id
      /\ events'[key].to = "rejected"
    BY DEF DecisionEffect
<1>2. /\ new \in SuppressionKey
      /\ old # NoSuppression => new = old
      /\ suppressions' = Put(suppressions, new, [candidate |-> id, decision |-> key])
    BY DEF DecisionEffect, Suppresses
<1> HIDE DEF old, new
<1>3. /\ DOMAIN suppressions' = DOMAIN suppressions \cup {new}
      /\ suppressions'[new].candidate = id /\ suppressions'[new].decision = key
      /\ \A s \in DOMAIN suppressions : s # new => suppressions'[s] = suppressions[s]
    BY <1>2 DEF Put
<1>4. DOMAIN suppressions \subseteq SuppressionKey
    BY DEF ReviewTables, IsTable
<1>5. ASSUME old \in DOMAIN suppressions
      PROVE  new = old
    BY <1>2, <1>4, <1>5, AbsentValues
<1>6. ASSUME NEW k \in DOMAIN events', events'[k].to = "rejected"
      PROVE  candidates'[events'[k].candidate].suppression \in DOMAIN suppressions'
    <2>1. CASE events'[k].candidate = id
        BY <1>3, <2>1 DEF new
    <2>2. CASE events'[k].candidate # id
        BY <1>1, <1>3, <1>6, <2>2 DEF RejectionsSuppress, ReceiptInv, DecisionsOnCandidates
    <2>3. QED
        BY <2>1, <2>2
<1>7. ASSUME NEW s \in DOMAIN suppressions'
      PROVE  /\ suppressions'[s].decision \in DOMAIN events'
             /\ events'[suppressions'[s].decision].to = "rejected"
             /\ events'[suppressions'[s].decision].candidate = suppressions'[s].candidate
             /\ candidates'[suppressions'[s].candidate].suppression = s
    <2>1. CASE s = new
        BY <1>1, <1>3, <2>1 DEF new
    <2>2. CASE s # new
        <3>1. s \in DOMAIN suppressions /\ suppressions'[s] = suppressions[s]
            BY <1>3, <2>2
        <3>2. /\ suppressions[s].decision \in DOMAIN events
              /\ events[suppressions[s].decision].to = "rejected"
              /\ events[suppressions[s].decision].candidate = suppressions[s].candidate
              /\ candidates[suppressions[s].candidate].suppression = s
            BY <3>1 DEF RejectionsSuppress
        <3>3. suppressions[s].candidate # id
            BY <1>5, <2>2, <3>1, <3>2 DEF old
        <3>4. suppressions[s].candidate \in DOMAIN candidates
            BY <3>2 DEF ReceiptInv, DecisionsOnCandidates
        <3>5. QED
            BY <1>1, <3>1, <3>2, <3>3, <3>4
    <2>3. QED
        BY <2>1, <2>2
<1>8. QED
    BY <1>6, <1>7 DEF RejectionsSuppress

\* Any other decision leaves the suppressions and the candidate's key alone.
LEMMA OthersKeepSuppressions ==
    ASSUME ReceiptInv, RejectionsSuppress,
           NEW key, NEW id, NEW next, NEW trigger, NEW object, next # "rejected",
           DecisionEffect(key, id, next, trigger, object), Suppresses(key, id, next)
    PROVE  RejectionsSuppress'
<1>1. /\ key \notin DOMAIN events
      /\ \A c \in DOMAIN candidates : candidates'[c].suppression = candidates[c].suppression
      /\ DOMAIN events' = DOMAIN events \cup {key}
      /\ \A k \in DOMAIN events : events'[k] = events[k]
      /\ events'[key].to # "rejected"
      /\ suppressions' = suppressions
    BY DEF DecisionEffect, Suppresses
<1>2. QED
    BY <1>1 DEF RejectionsSuppress, ReceiptInv, DecisionsOnCandidates

\* A rejection and its suppression go together, whichever of several candidates
\* with one key was rejected last and whatever happened to it since.
THEOREM RejectionsSuppressed == ReviewSpec => []RejectionsSuppress
<1>1. ReviewInit => RejectionsSuppress
    BY DEF ReviewInit, Empty, RejectionsSuppress
<1>2. CandidateRows /\ ReviewTables /\ ReceiptInv /\ RejectionsSuppress /\ [ReviewNext]_allVars
        => RejectionsSuppress'
    <2> SUFFICES ASSUME CandidateRows, ReviewTables, ReceiptInv, RejectionsSuppress,
                        [ReviewNext]_allVars
                 PROVE  RejectionsSuppress'
        OBVIOUS
    <2>1. CASE UNCHANGED reviewVars
        BY <2>1 DEF reviewVars, RejectionsSuppress
    <2>2. ASSUME NEW key, NEW s, StoreStep(key, s)
          PROVE  RejectionsSuppress'
        <3>1. /\ \A c \in DOMAIN candidates : candidates'[c] = candidates[c]
              /\ UNCHANGED <<events, suppressions>>
            BY <2>2, StoreStepEffect DEF StoreEffect
        <3>2. QED
            BY <3>1 DEF RejectionsSuppress, ReceiptInv, DecisionsOnCandidates
    <2>3. ASSUME NEW key, NEW id, NEW next, NEW trigger, NEW object,
                 DecisionStep(key, id, next, trigger, object)
          PROVE  RejectionsSuppress'
        <3>1. /\ DecisionEffect(key, id, next, trigger, object)
              /\ Suppresses(key, id, next)
            BY <2>3, DecisionStepEffect DEF DecisionStep
        <3>2. QED
            BY <3>1, RejectionKeepsSuppressions, OthersKeepSuppressions
    <2>4. QED
        BY <2>1, <2>2, <2>3, ReviewStepShapes DEF CanonicalStep, allVars
<1>3. QED
    BY <1>1, <1>2, RowsInvariant, TablesInvariant, ReceiptInvariant, PTL DEF ReviewSpec

\* A suppression, once recorded, is only ever renewed, by a rejection whose
\* request carried a decision context.
THEOREM SuppressionsStay == ReviewSpec => SuppressionsOnlyRenewed
<1>1. CandidateRows /\ [ReviewNext]_allVars =>
        [\A s \in DOMAIN suppressions :
            /\ s \in DOMAIN suppressions'
            /\ suppressions'[s] # suppressions[s] =>
                   ledger'[suppressions'[s].decision].payload.context]_allVars
    <2> SUFFICES ASSUME CandidateRows, [ReviewNext]_allVars, NEW s \in DOMAIN suppressions
                 PROVE  /\ s \in DOMAIN suppressions'
                        /\ suppressions'[s] # suppressions[s] =>
                               ledger'[suppressions'[s].decision].payload.context
        OBVIOUS
    <2>1. CASE suppressions' = suppressions
        BY <2>1
    <2>2. ASSUME NEW key, NEW id, NEW next, NEW trigger, NEW object,
                 DecisionStep(key, id, next, trigger, object), next = "rejected"
          PROVE  /\ s \in DOMAIN suppressions'
                 /\ suppressions'[s] # suppressions[s] =>
                        ledger'[suppressions'[s].decision].payload.context
        <3> DEFINE new == candidates'[id].payload.suppression
        <3>1. /\ suppressions' = Put(suppressions, new, [candidate |-> id, decision |-> key])
              /\ new \in DOMAIN suppressions => ledger'[key].payload.context
            BY <2>2 DEF DecisionStep, Suppresses
        <3> HIDE DEF new
        <3>2. /\ s \in DOMAIN suppressions'
              /\ s # new => suppressions'[s] = suppressions[s]
              /\ s = new => suppressions'[s].decision = key
            BY <3>1 DEF Put
        <3>3. s = new => ledger'[suppressions'[s].decision].payload.context
            BY <3>1, <3>2
        <3>4. QED
            BY <3>2, <3>3
    <2>3. ASSUME NEW key, NEW id, NEW next, NEW trigger, NEW object,
                 DecisionStep(key, id, next, trigger, object), next # "rejected"
          PROVE  suppressions' = suppressions
        BY <2>3 DEF DecisionStep, Suppresses
    <2>4. ASSUME NEW key, NEW submission, StoreStep(key, submission)
          PROVE  suppressions' = suppressions
        BY <2>4 DEF StoreStep
    <2>5. CanonicalStep \/ UNCHANGED allVars => suppressions' = suppressions
        BY DEF CanonicalStep, allVars, reviewVars
    <2>6. QED
        BY <2>1, <2>2, <2>3, <2>4, <2>5, ReviewStepShapes
<1>2. QED
    BY <1>1, RowsInvariant, PTL DEF ReviewSpec, SuppressionsOnlyRenewed

-----------------------------------------------------------------------------
(* The chain of decisions.                                                 *)

\* Candidate c, stored at version first, was in a state at its version v.
Reached(c, first, v, state) ==
    \/ v = first /\ state = "proposed"
    \/ \E k \in DecisionsAt(c, v - 1) : events[k].to = state

\* What DecisionChain says of candidate c, stored by s.
ChainFrom(c, s) ==
    LET first == -ledger[s].version
        last == candidates[c].version - 1
    IN  /\ StoredBy(s, c)
        /\ \A v \in first..last : \E k \in DOMAIN events : DecisionsAt(c, v) = {k}
        /\ \A k \in DOMAIN events : events[k].candidate = c =>
               events[k].observed \in first..last
               /\ Reached(c, first, events[k].observed, events[k].from)
        /\ Reached(c, first, last + 1, candidates[c].state)

\* The numbers of a chain are integers.
LEMMA ChainNumbers ==
    ASSUME CandidateRows, ReviewTables
    PROVE  /\ \A s \in DOMAIN ledger : ledger[s].version \in Int
           /\ \A c \in DOMAIN candidates : candidates[c].version \in 1..MaxVersion
           /\ \A k \in DOMAIN events : events[k].observed \in 1..MaxVersion
<1>1. \A s \in DOMAIN ledger : ledger[s].version \in Int
    BY DEF ReviewTables, CandidateReceipts
<1>2. \A c \in DOMAIN candidates : candidates[c].version \in 1..MaxVersion
    BY DEF CandidateRows, RowMirrorsPayload, RowOf, Candidate
<1>3. \A k \in DOMAIN events : events[k].observed \in 1..MaxVersion
    BY DEF ReviewTables, IsTable, Decision
<1>4. QED
    BY <1>1, <1>2, <1>3

\* A step that leaves candidate c, its decisions and its receipt alone.
LEMMA ChainUntouched ==
    ASSUME NEW c, NEW s \in DOMAIN ledger, ChainFrom(c, s),
           s \in DOMAIN ledger', ledger'[s] = ledger[s],
           candidates'[c] = candidates[c],
           DOMAIN events \subseteq DOMAIN events',
           \A k \in DOMAIN events : events'[k] = events[k],
           \A k \in DOMAIN events' \ DOMAIN events : events'[k].candidate # c
    PROVE  ChainFrom(c, s)'
<1>1. ASSUME NEW v PROVE DecisionsAt(c, v)' = DecisionsAt(c, v)
    BY DEF DecisionsAt
<1>2. ASSUME NEW first, NEW v, NEW state
      PROVE  Reached(c, first, v, state) => Reached(c, first, v, state)'
    BY <1>1 DEF Reached, DecisionsAt
<1>3. StoredBy(s, c)'
    BY DEF ChainFrom, StoredBy
<1>4. QED
    BY <1>1, <1>2, <1>3 DEF ChainFrom

\* A decision adds the one link that was missing: the decision on the version
\* the candidate had, in the state it had.
LEMMA ChainGrows ==
    ASSUME CandidateRows, ReviewTables, NEW s \in DOMAIN ledger,
           NEW key, NEW id, NEW next, NEW trigger, NEW object,
           DecisionEffect(key, id, next, trigger, object), Adds(key), ChainFrom(id, s)
    PROVE  ChainFrom(id, s)'
<1>0. PICK first, last : first = -ledger[s].version /\ last = candidates[id].version - 1
    OBVIOUS
<1>1. /\ key \notin DOMAIN events
      /\ id \in DOMAIN candidates
      /\ candidates'[id].state = next
      /\ candidates'[id].version = candidates[id].version + 1
      /\ DOMAIN events' = DOMAIN events \cup {key}
      /\ \A k \in DOMAIN events : events'[k] = events[k]
      /\ events'[key].candidate = id
      /\ events'[key].from = candidates[id].state
      /\ events'[key].to = next
      /\ events'[key].observed = candidates[id].version
    BY DEF DecisionEffect
<1>2. s \in DOMAIN ledger' /\ ledger'[s] = ledger[s] /\ StoredBy(s, id)'
    BY DEF Adds, ChainFrom, StoredBy
<1>3. /\ \A v \in first..last : \E k \in DOMAIN events : DecisionsAt(id, v) = {k}
      /\ \A k \in DOMAIN events : events[k].candidate = id =>
             events[k].observed \in first..last
             /\ Reached(id, first, events[k].observed, events[k].from)
      /\ Reached(id, first, last + 1, candidates[id].state)
    BY <1>0 DEF ChainFrom
<1>4. /\ first \in Int /\ last \in Int
      /\ candidates[id].version = last + 1
      /\ candidates'[id].version - 1 = last + 1
      /\ -ledger'[s].version = first
    BY <1>0, <1>1, <1>2, ChainNumbers, MaxVersionPositive
<1>5. ASSUME NEW v, v # last + 1
      PROVE  DecisionsAt(id, v)' = DecisionsAt(id, v)
    BY <1>1, <1>4, <1>5 DEF DecisionsAt
<1>6. DecisionsAt(id, last + 1)' = {key}
    <2>1. \A k \in DOMAIN events : events[k].candidate = id => events[k].observed # last + 1
        BY <1>3, <1>4
    <2>2. QED
        BY <1>1, <1>4, <2>1 DEF DecisionsAt
<1>7. ASSUME NEW v, NEW state, Reached(id, first, v, state)
      PROVE  Reached(id, first, v, state)'
    BY <1>1, <1>7 DEF Reached, DecisionsAt
<1>8. first <= last + 1
    <2>1. CASE last + 1 = first
        BY <1>4, <2>1
    <2>2. CASE last + 1 # first
        <3>1. PICK k \in DOMAIN events : events[k].candidate = id /\ events[k].observed = last
            BY <1>3, <1>4, <2>2 DEF Reached, DecisionsAt
        <3>2. QED
            BY <1>3, <1>4, <3>1
    <2>3. QED
        BY <2>1, <2>2
<1>9. ASSUME NEW v \in first..(last + 1)
      PROVE  \E k \in DOMAIN events' : DecisionsAt(id, v)' = {k}
    <2>1. CASE v = last + 1
        BY <1>1, <1>6, <2>1
    <2>2. CASE v # last + 1
        BY <1>1, <1>3, <1>4, <1>5, <2>2
    <2>3. QED
        BY <2>1, <2>2
<1>10. ASSUME NEW k \in DOMAIN events', events'[k].candidate = id
       PROVE  /\ events'[k].observed \in first..(last + 1)
              /\ Reached(id, first, events[k].observed, events[k].from)'
    <2>1. PICK observed, from : observed = events'[k].observed /\ from = events'[k].from
        OBVIOUS
    <2>2. observed \in first..(last + 1) /\ Reached(id, first, observed, from)
        <3>1. CASE k = key
            <4>1. observed = last + 1 /\ from = candidates[id].state
                BY <1>1, <1>4, <2>1, <3>1
            <4>2. QED
                BY <1>3, <1>4, <1>8, <4>1
        <3>2. CASE k # key
            <4>1. k \in DOMAIN events /\ events'[k] = events[k]
                BY <1>1, <3>2
            <4>2. QED
                BY <1>3, <1>4, <1>10, <2>1, <4>1
        <3>3. QED
            BY <3>1, <3>2
    <2>3. Reached(id, first, observed, from)'
        BY <1>7, <2>2
    <2>4. QED
        BY <2>1, <2>2, <2>3
<1>11. ASSUME NEW v, v - 1 = last + 1
       PROVE  Reached(id, first, v, next)'
    <2>1. key \in DecisionsAt(id, v - 1)'
        BY <1>6, <1>11
    <2>2. QED
        BY <1>1, <2>1 DEF Reached
<1>12. PICK v : v = last + 1 + 1 /\ v - 1 = last + 1
    BY <1>4
<1>13. Reached(id, first, v, next)'
    BY <1>11, <1>12
<1>14. QED
    BY <1>1, <1>2, <1>4, <1>9, <1>10, <1>12, <1>13 DEF ChainFrom

\* A candidate just stored: no decision yet, in proposed at its first version.
LEMMA ChainStarts ==
    ASSUME DecisionsOnCandidates, NEW key, NEW s, StoreEffect(key, s), Adds(key)
    PROVE  ChainFrom(s.id, key)'
<1>1. PICK first : first = s.version
    OBVIOUS
<1>2. /\ first \in Nat
      /\ candidates'[s.id].version = first
      /\ candidates'[s.id].state = "proposed"
      /\ ledger'[key].version = -first
      /\ ledger'[key].id = s.id
      /\ ledger'[key].payload.operation = "store"
    BY <1>1, MaxVersionPositive DEF StoreEffect
<1>3. \A k \in DOMAIN events' : events'[k].candidate # s.id
    BY DEF StoreEffect, DecisionsOnCandidates
<1>4. StoredBy(key, s.id)'
    <2>1. first # 0
        BY <1>1, MaxVersionPositive DEF StoreEffect
    <2>2. QED
        BY <1>2, <2>1 DEF StoredBy
<1>5. -ledger'[key].version = first /\ candidates'[s.id].version - 1 + 1 = first
    BY <1>2
<1>6. first..(first - 1) = {}
    BY <1>2
<1>7. Reached(s.id, first, first, "proposed")'
    BY DEF Reached
<1>8. QED
    BY <1>2, <1>3, <1>4, <1>5, <1>6, <1>7 DEF ChainFrom

\* Every step keeps the chain of every candidate.
LEMMA StepKeepsChain ==
    ASSUME CandidateRows, ReviewTables, ReceiptInv, DecisionChain, [ReviewNext]_allVars
    PROVE  DecisionChain'
<1>1. \A c \in DOMAIN candidates : \E s \in DOMAIN ledger : ChainFrom(c, s)
    BY DEF DecisionChain, ChainFrom, Reached
<1>2. SUFFICES \A c \in DOMAIN candidates' : \E s \in DOMAIN ledger' : ChainFrom(c, s)'
    BY DEF DecisionChain, ChainFrom, Reached
<1>3. CASE UNCHANGED allVars
    BY <1>1, <1>3, ChainUntouched DEF allVars, vars, reviewVars
<1>4. CASE CanonicalStep
    BY <1>1, <1>4, ChainUntouched DEF CanonicalStep, Adds, reviewVars
<1>5. ASSUME NEW key, NEW submission, StoreStep(key, submission)
      PROVE  \A c \in DOMAIN candidates' : \E s \in DOMAIN ledger' : ChainFrom(c, s)'
    <2>1. StoreEffect(key, submission) /\ Adds(key)
        BY <1>5, StoreStepEffect
    <2>2. ChainFrom(submission.id, key)' /\ key \in DOMAIN ledger'
        BY <2>1, ChainStarts DEF ReceiptInv, Adds
    <2>3. ASSUME NEW c \in DOMAIN candidates
          PROVE  \E s \in DOMAIN ledger' : ChainFrom(c, s)'
        <3>1. PICK s \in DOMAIN ledger : ChainFrom(c, s)
            BY <1>1
        <3>2. s \in DOMAIN ledger' /\ ledger'[s] = ledger[s]
            BY <2>1 DEF Adds
        <3>3. candidates'[c] = candidates[c] /\ events' = events
            BY <2>1 DEF StoreEffect
        <3>4. ChainFrom(c, s)'
            BY <3>1, <3>2, <3>3, ChainUntouched
        <3>5. QED
            BY <3>2, <3>4
    <2>4. QED
        BY <2>1, <2>2, <2>3 DEF StoreEffect
<1>6. ASSUME NEW key, NEW id, NEW next, NEW trigger, NEW object,
             DecisionStep(key, id, next, trigger, object)
      PROVE  \A c \in DOMAIN candidates' : \E s \in DOMAIN ledger' : ChainFrom(c, s)'
    <2>1. DecisionEffect(key, id, next, trigger, object) /\ Adds(key)
        BY <1>6, DecisionStepEffect DEF DecisionStep
    <2>2. ASSUME NEW c \in DOMAIN candidates
          PROVE  \E s \in DOMAIN ledger' : ChainFrom(c, s)'
        <3>1. PICK s \in DOMAIN ledger : ChainFrom(c, s)
            BY <1>1
        <3>2. s \in DOMAIN ledger' /\ ledger'[s] = ledger[s]
            BY <2>1 DEF Adds
        <3>3. CASE c = id
            BY <2>1, <3>1, <3>2, <3>3, ChainGrows
        <3>4. CASE c # id
            <4>1. /\ candidates'[c] = candidates[c]
                  /\ DOMAIN events' = DOMAIN events \cup {key}
                  /\ \A k \in DOMAIN events : events'[k] = events[k]
                  /\ events'[key].candidate # c
                BY <2>1, <3>4 DEF DecisionEffect
            <4>2. ChainFrom(c, s)'
                BY <3>1, <3>2, <4>1, ChainUntouched
            <4>3. QED
                BY <3>2, <4>2
        <3>5. QED
            BY <3>3, <3>4
    <2>3. QED
        BY <2>1, <2>2 DEF DecisionEffect
<1>7. QED
    BY <1>3, <1>4, <1>5, <1>6, ReviewStepShapes

\* The history of every candidate is complete, from the version it was stored
\* at to its current one and state: one decision left each version.
THEOREM HistoryComplete == ReviewSpec => []DecisionChain
<1>1. ReviewInit => DecisionChain
    BY DEF ReviewInit, Empty, DecisionChain
<1>2. QED
    BY <1>1, StepKeepsChain, RowsInvariant, TablesInvariant, ReceiptInvariant, PTL DEF ReviewSpec

-----------------------------------------------------------------------------
(* Links.                                                                  *)

\* No decision took candidate c to the state.
Never(c, state) == \A k \in DOMAIN events : ~(events[k].candidate = c /\ events[k].to = state)

\* A link is empty or names the last decision that took c to the state.
Names(link, c, state) == (link = NoRef /\ Never(c, state)) \/ LastTo(link, c, state)

\* The prior deferral is the decision right before the last resurfacing.
PriorDeferralNamed(c) ==
    LET links == candidates[c].payload.links
        resurfacing == events[links.resurfacing]
    IN  links.resurfacing # NoRef =>
            /\ links.priorDeferral \in DecisionsAt(c, resurfacing.observed - 1)
            /\ events[links.priorDeferral].to = "deferred"
            /\ links.trigger = resurfacing.trigger

AdmissionNamed(c) ==
    LET links == candidates[c].payload.links
    IN  /\ links.admission = NoRef <=> Never(c, "admitted")
        /\ \A k \in DOMAIN events : LastTo(k, c, "admitted") => links.admission = events[k].object

\* What LinksNameDecisions says of candidate c.
Linking(c) ==
    LET links == candidates[c].payload.links
    IN  /\ Names(links.deferral, c, "deferred")
        /\ Names(links.resurfacing, c, "resurfaced")
        /\ Names(links.rejection, c, "rejected")
        /\ Names(links.archive, c, "archived")
        /\ PriorDeferralNamed(c)
        /\ AdmissionNamed(c)

\* A decision sets the link of the state it leads to, and no other.
LEMMA LinkedFields ==
    ASSUME NEW links \in Links, NEW key, NEW next, NEW trigger, NEW object
    PROVE  LET new == Linked(links, key, next, trigger, object)
           IN  /\ new.deferral = IF next = "deferred" THEN key ELSE links.deferral
               /\ new.resurfacing = IF next = "resurfaced" THEN key ELSE links.resurfacing
               /\ new.rejection = IF next = "rejected" THEN key ELSE links.rejection
               /\ new.archive = IF next = "archived" THEN key ELSE links.archive
               /\ new.admission = IF next = "admitted" THEN object ELSE links.admission
               /\ new.priorDeferral = IF next = "resurfaced" THEN links.deferral
                                      ELSE links.priorDeferral
               /\ new.trigger = IF next = "resurfaced" THEN trigger ELSE links.trigger
BY DEF Linked, Links

\* Decisions on others leave what is said of c's decisions as it is.
LEMMA OthersDecisions ==
    ASSUME NEW c, DOMAIN events \subseteq DOMAIN events',
           \A k \in DOMAIN events : events'[k] = events[k],
           \A k \in DOMAIN events' \ DOMAIN events : events'[k].candidate # c
    PROVE  /\ \A state : Never(c, state)' <=> Never(c, state)
           /\ \A k, state : LastTo(k, c, state)' <=> LastTo(k, c, state)
           /\ \A k, v : k \in DecisionsAt(c, v)' <=> k \in DecisionsAt(c, v)
BY DEF Never, LastTo, DecisionsAt

\* So a candidate that a step leaves alone keeps its links' meaning.
LEMMA LinkingUntouched ==
    ASSUME NEW c, Linking(c), candidates'[c] = candidates[c],
           DOMAIN events \subseteq DOMAIN events',
           \A k \in DOMAIN events : events'[k] = events[k],
           \A k \in DOMAIN events' \ DOMAIN events : events'[k].candidate # c
    PROVE  Linking(c)'
<1>1. /\ \A state : Never(c, state)' <=> Never(c, state)
      /\ \A k, state : LastTo(k, c, state)' <=> LastTo(k, c, state)
      /\ \A k, v : k \in DecisionsAt(c, v)' <=> k \in DecisionsAt(c, v)
    BY OthersDecisions
<1>2. ASSUME NEW link, NEW state PROVE Names(link, c, state)' <=> Names(link, c, state)
    BY <1>1 DEF Names
<1> DEFINE links == candidates[c].payload.links
<1>3. PriorDeferralNamed(c)'
    <2>1. CASE links.resurfacing = NoRef
        BY <2>1 DEF PriorDeferralNamed
    <2>2. CASE links.resurfacing # NoRef
        <3>1. links.resurfacing \in DOMAIN events
            BY <2>2 DEF Linking, Names, LastTo
        <3>2. /\ links.priorDeferral \in DOMAIN events
              /\ events[links.priorDeferral].candidate = c
              /\ events[links.priorDeferral].observed = events[links.resurfacing].observed - 1
              /\ events[links.priorDeferral].to = "deferred"
              /\ links.trigger = events[links.resurfacing].trigger
            BY <2>2 DEF Linking, PriorDeferralNamed, DecisionsAt
        <3>3. QED
            BY <3>1, <3>2 DEF PriorDeferralNamed, DecisionsAt
    <2>3. QED
        BY <2>1, <2>2
<1>4. AdmissionNamed(c)'
    <2>1. \A k \in DOMAIN events' : LastTo(k, c, "admitted") => k \in DOMAIN events
        BY DEF LastTo
    <2>2. QED
        BY <1>1, <2>1 DEF Linking, AdmissionNamed
<1>5. QED
    BY <1>2, <1>3, <1>4 DEF Linking

\* A new decision is the last to its state, and changes nothing of the others.
LEMMA NewDecisionIsLast ==
    ASSUME CandidateRows, ReviewTables, DecisionChain,
           NEW key, NEW id, NEW next, NEW trigger, NEW object,
           DecisionEffect(key, id, next, trigger, object)
    PROVE  /\ \A k : LastTo(k, id, next)' <=> k = key
           /\ ~Never(id, next)'
           /\ \A k, state : state # next => (LastTo(k, id, state)' <=> LastTo(k, id, state))
           /\ \A state : state # next => (Never(id, state)' <=> Never(id, state))
<1>1. /\ key \notin DOMAIN events
      /\ id \in DOMAIN candidates
      /\ DOMAIN events' = DOMAIN events \cup {key}
      /\ \A k \in DOMAIN events : events'[k] = events[k]
      /\ events'[key].candidate = id
      /\ events'[key].to = next
      /\ events'[key].observed = candidates[id].version
    BY DEF DecisionEffect
<1>2. \A k \in DOMAIN events : events[k].candidate = id =>
          events[k].observed < candidates[id].version
    <2>1. PICK s \in DOMAIN ledger :
              \A k \in DOMAIN events : events[k].candidate = id =>
                  events[k].observed \in -ledger[s].version..(candidates[id].version - 1)
        BY <1>1 DEF DecisionChain
    <2>2. QED
        BY <1>1, <2>1, ChainNumbers, MaxVersionPositive
<1>3. /\ candidates[id].version \in Int
      /\ \A k \in DOMAIN events : events[k].observed \in Int
    BY <1>1, ChainNumbers, MaxVersionPositive
<1>4. QED
    BY <1>1, <1>2, <1>3 DEF LastTo, Never

\* A candidate that resurfaces was deferred by the decision before.
LEMMA ResurfacesFromDeferral ==
    ASSUME CandidateRows, ReviewTables, DecisionChain, NEW id \in DOMAIN candidates,
           Linking(id), candidates[id].state = "deferred"
    PROVE  /\ candidates[id].payload.links.deferral \in DecisionsAt(id, candidates[id].version - 1)
           /\ events[candidates[id].payload.links.deferral].to = "deferred"
<1> DEFINE link == candidates[id].payload.links.deferral
           last == candidates[id].version - 1
<1>1. PICK s \in DOMAIN ledger : ChainFrom(id, s)
    BY DEF DecisionChain, ChainFrom, Reached
<1>2. /\ last \in Int
      /\ last + 1 - 1 = last
      /\ \A k \in DOMAIN events : events[k].observed \in Int
    BY ChainNumbers, MaxVersionPositive
<1>3. PICK k \in DOMAIN events : /\ events[k].candidate = id
                                 /\ events[k].observed = last
                                 /\ events[k].to = "deferred"
    <2>1. Reached(id, -ledger[s].version, last + 1, "deferred")
        BY <1>1 DEF ChainFrom
    <2>2. QED
        BY <1>2, <2>1 DEF Reached, DecisionsAt
<1>4. \A j \in DOMAIN events : events[j].candidate = id => events[j].observed <= last
    <2>1. \A j \in DOMAIN events : events[j].candidate = id =>
              events[j].observed \in -ledger[s].version..last
        BY <1>1 DEF ChainFrom
    <2>2. QED
        BY <1>2, <2>1, ChainNumbers
<1>5. LastTo(link, id, "deferred")
    BY <1>3 DEF Linking, Names, Never
<1>6. /\ link \in DOMAIN events /\ events[link].candidate = id /\ events[link].to = "deferred"
      /\ events[k].observed <= events[link].observed
    BY <1>3, <1>5 DEF LastTo
<1>7. events[link].observed = last
    BY <1>2, <1>3, <1>4, <1>6
<1>8. QED
    BY <1>6, <1>7 DEF DecisionsAt

\* A decision names itself in the link of its state, and a resurfacing the
\* deferral it came from.
LEMMA DecisionLinks ==
    ASSUME CandidateRows, ReviewTables, DecisionChain,
           NEW key, NEW id, NEW next, NEW trigger, NEW object,
           DecisionStep(key, id, next, trigger, object), Linking(id)
    PROVE  Linking(id)'
<1> DEFINE old == candidates[id].payload.links
           new == candidates'[id].payload.links
<1>1. DecisionEffect(key, id, next, trigger, object)
    BY DecisionStepEffect
<1>2. /\ id \in DOMAIN candidates
      /\ key \notin DOMAIN events
      /\ DOMAIN events' = DOMAIN events \cup {key}
      /\ \A k \in DOMAIN events : events'[k] = events[k]
      /\ events'[key].candidate = id /\ events'[key].to = next
      /\ events'[key].trigger = trigger /\ events'[key].object = object
      /\ events'[key].observed = candidates[id].version
    BY <1>1 DEF DecisionEffect
<1>3. old \in Links /\ candidates[id].state = candidates[id].payload.state
    BY <1>2 DEF CandidateRows, RowMirrorsPayload, RowOf, Candidate
<1>4. new = Linked(old, key, next, trigger, object)
    BY <1>1 DEF DecisionEffect
<1>5. /\ new.deferral = IF next = "deferred" THEN key ELSE old.deferral
      /\ new.resurfacing = IF next = "resurfaced" THEN key ELSE old.resurfacing
      /\ new.rejection = IF next = "rejected" THEN key ELSE old.rejection
      /\ new.archive = IF next = "archived" THEN key ELSE old.archive
      /\ new.admission = IF next = "admitted" THEN object ELSE old.admission
      /\ new.priorDeferral = IF next = "resurfaced" THEN old.deferral ELSE old.priorDeferral
      /\ new.trigger = IF next = "resurfaced" THEN trigger ELSE old.trigger
    BY <1>3, <1>4, LinkedFields
<1>6. /\ \A k : LastTo(k, id, next)' <=> k = key
      /\ ~Never(id, next)'
      /\ \A k, state : state # next => (LastTo(k, id, state)' <=> LastTo(k, id, state))
      /\ \A state : state # next => (Never(id, state)' <=> Never(id, state))
    BY <1>1, NewDecisionIsLast
<1>7. Names(key, id, next)'
    BY <1>6 DEF Names
<1>8. ASSUME NEW link, NEW state, state # next, Names(link, id, state)
      PROVE  Names(link, id, state)'
    BY <1>6, <1>8 DEF Names
<1>9. PICK links : links = new
    OBVIOUS
<1>10. /\ Names(links.deferral, id, "deferred")'
       /\ Names(links.resurfacing, id, "resurfaced")'
       /\ Names(links.rejection, id, "rejected")'
       /\ Names(links.archive, id, "archived")'
    BY <1>5, <1>7, <1>8, <1>9 DEF Linking
<1>11. PriorDeferralNamed(id)'
    <2>1. CASE next = "resurfaced"
        <3>1. candidates[id].state = "deferred"
            <4>1. <<candidates[id].state, next>> \in Edges
                BY <1>2, <1>3 DEF DecisionStep, Decides, Transition
            <4>2. candidates[id].state \in State /\ next \in State
                BY <1>2, <1>3 DEF CandidateRows, Candidate, DecisionStep
            <4>3. QED
                BY <2>1, <4>1, <4>2, Lifecycle
        <3>2. old.deferral \in DecisionsAt(id, candidates[id].version - 1)
              /\ events[old.deferral].to = "deferred"
            BY <1>2, <3>1, ResurfacesFromDeferral
        <3>3. /\ old.deferral \in DOMAIN events
              /\ events[old.deferral].candidate = id
              /\ events[old.deferral].observed = candidates[id].version - 1
            BY <3>2 DEF DecisionsAt
        <3>4. /\ events'[old.deferral] = events[old.deferral]
              /\ old.deferral \in DOMAIN events'
              /\ events'[new.resurfacing].observed = candidates[id].version
              /\ events'[new.resurfacing].trigger = trigger
              /\ new.priorDeferral = old.deferral /\ new.trigger = trigger
            BY <1>2, <1>5, <2>1, <3>3
        <3>5. QED
            BY <3>2, <3>3, <3>4 DEF PriorDeferralNamed, DecisionsAt
    <2>2. CASE next # "resurfaced" /\ old.resurfacing = NoRef
        BY <1>5, <2>2 DEF PriorDeferralNamed
    <2>3. CASE next # "resurfaced" /\ old.resurfacing # NoRef
        <3>1. old.resurfacing \in DOMAIN events
            BY <2>3 DEF Linking, Names, LastTo
        <3>2. /\ old.priorDeferral \in DOMAIN events
              /\ events[old.priorDeferral].candidate = id
              /\ events[old.priorDeferral].observed = events[old.resurfacing].observed - 1
              /\ events[old.priorDeferral].to = "deferred"
              /\ old.trigger = events[old.resurfacing].trigger
            BY <2>3 DEF Linking, PriorDeferralNamed, DecisionsAt
        <3>3. /\ new.resurfacing = old.resurfacing
              /\ new.priorDeferral = old.priorDeferral
              /\ new.trigger = old.trigger
            BY <1>5, <2>3
        <3>4. QED
            BY <1>2, <3>1, <3>2, <3>3 DEF PriorDeferralNamed, DecisionsAt
    <2>4. QED
        BY <2>1, <2>2, <2>3
<1>12. AdmissionNamed(id)'
    <2>1. CASE next = "admitted"
        <3>1. object # NoRef
            BY <2>1, AbsentValues DEF DecisionStep, Receipted
        <3>2. QED
            BY <1>2, <1>5, <1>6, <2>1, <3>1 DEF AdmissionNamed
    <2>2. CASE next # "admitted"
        <3>1. \A k : LastTo(k, id, "admitted") => k \in DOMAIN events
            BY DEF LastTo
        <3>2. QED
            BY <1>2, <1>5, <1>6, <2>2, <3>1 DEF Linking, AdmissionNamed
    <2>3. QED
        BY <2>1, <2>2
<1>13. QED
    BY <1>9, <1>10, <1>11, <1>12 DEF Linking

\* A candidate just stored has no links and no decisions.
LEMMA StoreLinks ==
    ASSUME DecisionsOnCandidates, NEW key, NEW s, StoreEffect(key, s)
    PROVE  Linking(s.id)'
<1>1. PICK links : links = candidates'[s.id].payload.links /\ links = NoLinks
    BY DEF StoreEffect
<1>2. \A k \in DOMAIN events' : events'[k].candidate # s.id
    BY DEF StoreEffect, DecisionsOnCandidates
<1>3. /\ \A state : Never(s.id, state)'
      /\ \A k, state : ~LastTo(k, s.id, state)'
    BY <1>2 DEF Never, LastTo
<1>4. /\ links.deferral = NoRef /\ links.resurfacing = NoRef /\ links.rejection = NoRef
      /\ links.archive = NoRef /\ links.admission = NoRef
    BY <1>1 DEF NoLinks
<1>5. PriorDeferralNamed(s.id)'
    BY <1>1, <1>4 DEF PriorDeferralNamed
<1>6. AdmissionNamed(s.id)'
    BY <1>1, <1>3, <1>4 DEF AdmissionNamed
<1>7. \A state : Names(NoRef, s.id, state)'
    BY <1>3 DEF Names
<1>8. QED
    BY <1>1, <1>4, <1>5, <1>6, <1>7 DEF Linking

\* Every step keeps the meaning of every link.
LEMMA StepKeepsLinks ==
    ASSUME CandidateRows, ReviewTables, DecisionsOnCandidates, DecisionChain,
           \A c \in DOMAIN candidates : Linking(c),
           [ReviewNext]_allVars
    PROVE  \A c \in DOMAIN candidates' : Linking(c)'
<1>1. CASE UNCHANGED reviewVars
    BY <1>1, LinkingUntouched DEF reviewVars
<1>2. ASSUME NEW key, NEW s, StoreStep(key, s)
      PROVE  \A c \in DOMAIN candidates' : Linking(c)'
    <2>1. StoreEffect(key, s)
        BY <1>2, StoreStepEffect
    <2>2. Linking(s.id)'
        BY <2>1, StoreLinks
    <2>3. ASSUME NEW c \in DOMAIN candidates
          PROVE  Linking(c)'
        BY <2>1, LinkingUntouched DEF StoreEffect
    <2>4. QED
        BY <2>1, <2>2, <2>3 DEF StoreEffect
<1>3. ASSUME NEW key, NEW id, NEW next, NEW trigger, NEW object,
             DecisionStep(key, id, next, trigger, object)
      PROVE  \A c \in DOMAIN candidates' : Linking(c)'
    <2>1. DecisionEffect(key, id, next, trigger, object)
        BY <1>3, DecisionStepEffect
    <2>2. Linking(id)'
        BY <1>3, <2>1, DecisionLinks DEF DecisionEffect
    <2>3. ASSUME NEW c \in DOMAIN candidates, c # id
          PROVE  Linking(c)'
        <3>1. /\ candidates'[c] = candidates[c]
              /\ DOMAIN events' = DOMAIN events \cup {key}
              /\ \A k \in DOMAIN events : events'[k] = events[k]
              /\ events'[key].candidate # c
            BY <2>1, <2>3 DEF DecisionEffect
        <3>2. QED
            BY <3>1, LinkingUntouched
    <2>4. QED
        BY <2>1, <2>2, <2>3 DEF DecisionEffect
<1>4. QED
    BY <1>1, <1>2, <1>3, ReviewStepShapes DEF CanonicalStep, allVars

LinkInv == \A c \in DOMAIN candidates : Linking(c)

\* Each link names the last decision of its kind, and a resurfacing the
\* deferral right before it, however often the candidate went round.
THEOREM LinksFollow == ReviewSpec => []LinksNameDecisions
<1>1. LinkInv => LinksNameDecisions
    BY DEF LinkInv, LinksNameDecisions, Linking, Names, Never, PriorDeferralNamed, AdmissionNamed
<1>2. ReviewInit => LinkInv
    BY DEF ReviewInit, Empty, LinkInv
<1>3. CandidateRows /\ ReviewTables /\ ReceiptInv /\ DecisionChain /\ LinkInv
        /\ [ReviewNext]_allVars => LinkInv'
    BY StepKeepsLinks DEF ReceiptInv, LinkInv
<1>4. QED
    BY <1>1, <1>2, <1>3, RowsInvariant, TablesInvariant, ReceiptInvariant, HistoryComplete, PTL
       DEF ReviewSpec

-----------------------------------------------------------------------------
(* Admissions.                                                             *)

\* An admission is for good: the candidate is admitted or archived since, and
\* its link is the object's.
AdmissionsStand ==
    \A k \in DOMAIN events : events[k].to = "admitted" =>
        /\ candidates[events[k].candidate].state \in {"admitted", "archived"}
        /\ candidates[events[k].candidate].payload.links.admission = events[k].object

\* A decision leaves an admission standing: admitted only goes to the archive.
LEMMA DecisionKeepsAdmissions ==
    ASSUME CandidateRows, DecisionsOnCandidates, AdmissionsStand,
           NEW key, NEW id, NEW next, NEW trigger, NEW object,
           DecisionStep(key, id, next, trigger, object)
    PROVE  AdmissionsStand'
<1> DEFINE old == candidates[id].payload.links
           new == candidates'[id].payload.links
<1>1. DecisionEffect(key, id, next, trigger, object)
    BY DecisionStepEffect
<1>2. /\ id \in DOMAIN candidates
      /\ \A c \in DOMAIN candidates : c # id => candidates'[c] = candidates[c]
      /\ candidates'[id].state = next
      /\ new = Linked(old, key, next, trigger, object)
      /\ DOMAIN events' = DOMAIN events \cup {key}
      /\ \A k \in DOMAIN events : events'[k] = events[k]
      /\ events'[key].candidate = id /\ events'[key].to = next
      /\ events'[key].object = object
    BY <1>1 DEF DecisionEffect
<1>3. old \in Links /\ candidates[id].state = candidates[id].payload.state
    BY <1>2 DEF CandidateRows, RowMirrorsPayload, RowOf, Candidate
<1>4. new.admission = IF next = "admitted" THEN object ELSE old.admission
    BY <1>2, <1>3, LinkedFields
<1>5. candidates[id].state \in {"admitted", "archived"}
          => candidates[id].state = "admitted" /\ next = "archived"
    <2>1. <<candidates[id].state, next>> \in Edges
        BY <1>2, <1>3 DEF DecisionStep, Decides, Transition
    <2>2. candidates[id].state \in State /\ next \in State
        BY <1>2, <1>3 DEF CandidateRows, Candidate, DecisionStep
    <2>3. QED
        BY <2>1, <2>2, Lifecycle
<1>6. SUFFICES ASSUME NEW k \in DOMAIN events', events'[k].to = "admitted"
               PROVE  /\ candidates'[events'[k].candidate].state \in {"admitted", "archived"}
                      /\ candidates'[events'[k].candidate].payload.links.admission
                             = events'[k].object
    BY DEF AdmissionsStand
<1>7. CASE k = key
    BY <1>2, <1>4, <1>6, <1>7
<1>8. CASE k \in DOMAIN events
    <2>1. /\ events'[k] = events[k]
          /\ events[k].candidate \in DOMAIN candidates
          /\ candidates[events[k].candidate].state \in {"admitted", "archived"}
          /\ candidates[events[k].candidate].payload.links.admission = events[k].object
        BY <1>2, <1>6, <1>8 DEF AdmissionsStand, DecisionsOnCandidates
    <2>2. CASE events[k].candidate = id
        BY <1>2, <1>4, <1>5, <2>1, <2>2
    <2>3. CASE events[k].candidate # id
        BY <1>2, <2>1, <2>3
    <2>4. QED
        BY <2>2, <2>3
<1>9. QED
    BY <1>2, <1>7, <1>8

LEMMA AdmissionsInvariant == ReviewSpec => []AdmissionsStand
<1>1. ReviewInit => AdmissionsStand
    BY DEF ReviewInit, Empty, AdmissionsStand
<1>2. CandidateRows /\ ReceiptInv /\ AdmissionsStand /\ [ReviewNext]_allVars => AdmissionsStand'
    <2> SUFFICES ASSUME CandidateRows, DecisionsOnCandidates, AdmissionsStand, [ReviewNext]_allVars
                 PROVE  AdmissionsStand'
        BY DEF ReceiptInv
    <2>1. CASE UNCHANGED reviewVars
        BY <2>1 DEF reviewVars, AdmissionsStand
    <2>2. ASSUME NEW key, NEW s, StoreStep(key, s)
          PROVE  AdmissionsStand'
        <3>1. /\ \A c \in DOMAIN candidates : candidates'[c] = candidates[c]
              /\ events' = events
            BY <2>2, StoreStepEffect DEF StoreEffect
        <3>2. QED
            BY <3>1 DEF AdmissionsStand, DecisionsOnCandidates
    <2>3. QED
        BY <2>1, <2>2, DecisionKeepsAdmissions, ReviewStepShapes DEF CanonicalStep, allVars
<1>3. QED
    BY <1>1, <1>2, RowsInvariant, ReceiptInvariant, PTL DEF ReviewSpec

\* A repeated admit_advisory_candidate is answered only where the candidate was
\* admitted, as the object under the key and at the version the request names.
THEOREM AdmissionReplayProved == ReviewSpec => []AdmissionReplayIsProof
<1>1. ReviewSpec => []Seen!ReceiptsHaveVersions
    <2>1. Seen!EachVersionWrittenOnce => Seen!ReceiptsHaveVersions
        BY DEF Seen!EachVersionWrittenOnce
    <2>2. QED
        BY <2>1, SeenInvariant, PTL
<1>2. /\ CandidateRows /\ ReviewTables /\ ReceiptInv /\ DecisionChain /\ AdmissionsStand
      /\ Seen!ReceiptsHaveVersions
      => AdmissionReplayIsProof
    <2> SUFFICES ASSUME CandidateRows, ReviewTables, ReceiptInv, DecisionChain, AdmissionsStand,
                        Seen!ReceiptsHaveVersions,
                        NEW k \in DOMAIN ledger, NEW id \in CandidateId,
                        NEW observed \in 1..MaxVersion,
                        ledger[k].version > 0, AdmissionReplays(k, id, observed)
                 PROVE  /\ id \in DOMAIN candidates
                        /\ ledger[k].id \in DOMAIN objects
                        /\ candidates[id].payload.links.admission = ledger[k].id
                        /\ candidates[id].version > observed
                        /\ candidates[id].state \in {"admitted", "archived"}
        BY DEF AdmissionReplayIsProof
    <2>1. /\ k \in DOMAIN events
          /\ events[k].candidate = id /\ events[k].observed = observed
          /\ events[k].to = "admitted" /\ events[k].object = ledger[k].id
        BY DEF AdmissionReplays
    <2>2. id \in DOMAIN candidates
        BY <2>1 DEF ReceiptInv, DecisionsOnCandidates
    <2>3. ledger[k].id \in DOMAIN objects
        <3>1. ledger[k].version >= 0
            BY DEF ReviewTables, CandidateReceipts
        <3>2. k \in DOMAIN CanonicalLedger /\ CanonicalLedger[k] = ledger[k]
            BY <3>1 DEF CanonicalLedger
        <3>3. QED
            BY <3>2 DEF Seen!ReceiptsHaveVersions
    <2>4. candidates[id].version > observed
        <3>1. PICK s \in DOMAIN ledger : ChainFrom(id, s)
            BY <2>2 DEF DecisionChain, ChainFrom, Reached
        <3>2. observed \in -ledger[s].version..(candidates[id].version - 1)
            BY <2>1, <3>1 DEF ChainFrom
        <3>3. QED
            BY <2>2, <3>2, ChainNumbers, MaxVersionPositive
    <2>5. QED
        BY <2>1, <2>2, <2>3, <2>4 DEF AdmissionsStand
<1>3. QED
    BY <1>1, <1>2, RowsInvariant, TablesInvariant, ReceiptInvariant, HistoryComplete,
       AdmissionsInvariant, PTL
=============================================================================
