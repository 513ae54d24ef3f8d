------------------------- MODULE ReviewTransactions -------------------------
(***************************************************************************)
(* The candidate writers one SQL statement at a time, on connections of    *)
(* several processes.  A decision is up to four writes; the last of them   *)
(* may still be refused when the first are done, and an admission has its  *)
(* object and receipt before its decision is checked in full.              *)
(***************************************************************************)
EXTENDS ReviewVocabulary, Sequences

CONSTANTS
    Conn,       \* connections
    Request     \* calls of the candidate writers

\* The arguments of the four writers, their context given or not.
StoreCalls == [op : {"store"}, env : Envelope, submission : Submission]
TransitionCalls == [op : {"transition"}, env : Envelope, id : CandidateId, observed : Nat,
                    next : State, trigger : Trigger \cup {NoTrigger}, context : BOOLEAN]
RejectCalls == [op : {"reject"}, env : Envelope, id : CandidateId, observed : Nat,
                supplied : SuppressionKey \cup {NoSuppression}, context : BOOLEAN]
AdmitCalls == [op : {"admit"}, env : Envelope, id : CandidateId, observed : Nat,
               payload : RecordPayload]

ASSUME RequestShape == Request \subseteq StoreCalls \cup TransitionCalls \cup RejectCalls \cup AdmitCalls

VARIABLES
    db,             \* the committed tables
    tx              \* connection -> its transaction and its caller's last answer

txVars == <<db, tx>>

NoTables == [objects |-> Empty, ledger |-> Empty, candidates |-> Empty, events |-> Empty,
             suppressions |-> Empty]

NoRequest == [op |-> "none"]

Idle(request, answer) ==
    [open |-> FALSE, request |-> request, prepared |-> FALSE, done |-> 0, locked |-> FALSE,
     base |-> NoTables, work |-> NoTables, answer |-> answer]

TxInit == db = NoTables /\ tx = [c \in Conn |-> Idle(NoRequest, "none")]

\* The helpers of the writers, on the tables connection c sees.
Seen(c) == INSTANCE CandidateReview
    WITH objects <- tx[c].work.objects, logs <- Empty, xrefs <- Empty,
         ledger <- tx[c].work.ledger, candidates <- tx[c].work.candidates,
         events <- tx[c].work.events, suppressions <- tx[c].work.suppressions

-----------------------------------------------------------------------------
(* Requests.                                                               *)

\* The payload of the request's receipt.
Requested(r) ==
    CASE r.op = "store" -> StoreRequest(r.submission)
      [] r.op = "transition" -> TransitionRequest(r.id, r.observed, r.next, r.trigger, r.context)
      [] r.op = "reject" -> RejectRequest(r.id, r.observed, r.supplied, r.context)
      [] r.op = "admit" -> r.payload

NextState(r) ==
    CASE r.op = "transition" -> r.next [] r.op = "reject" -> "rejected" [] r.op = "admit" -> "admitted"

TriggerOf(r) == IF r.op = "transition" THEN r.trigger ELSE NoTrigger
ObjectOf(r) == IF r.op = "admit" THEN r.payload.id ELSE NoRef

\* The writes of each writer, in order.
Statements == [store      |-> <<"candidate", "receipt">>,
               transition |-> <<"candidate", "event", "receipt">>,
               reject     |-> <<"suppression", "candidate", "event", "receipt">>,
               admit      |-> <<"object", "receipt", "candidate", "event">>]

Pending(c) == Statements[tx[c].request.op]
Current(c) == Pending(c)[tx[c].done + 1]

\* The candidate the writer read, with the suppression key a rejection gives it.
CandidateRead(c) ==
    LET r == tx[c].request
        read == tx[c].base.candidates[r.id].payload
    IN  IF r.op = "reject" THEN Keyed(read, r.supplied) ELSE read

DecidedBy(c) ==
    LET r == tx[c].request
    IN  Decided(CandidateRead(c), r.env.key, NextState(r), TriggerOf(r), ObjectOf(r))

-----------------------------------------------------------------------------
(* Transactions.                                                           *)

\* Mutant of Finish: a failed request is committed as far as it got.
FinishByCommit(c, answer) ==
    /\ db' = IF tx[c].locked THEN tx[c].work ELSE db
    /\ tx' = [tx EXCEPT ![c] = Idle(@.request, answer)]

\* finish_mutation: commit what succeeded, roll back everything else.
Finish(c, answer) ==
    /\ db' = IF answer = "ok" /\ tx[c].locked THEN tx[c].work ELSE db
    /\ tx' = [tx EXCEPT ![c] = Idle(@.request, answer)]

\* BEGIN and the first read, which fixes the snapshot.
Begin(c, request) ==
    /\ ~tx[c].open
    /\ tx' = [tx EXCEPT ![c] = [Idle(request, "none") EXCEPT !.open = TRUE, !.base = db, !.work = db]]
    /\ UNCHANGED db

\* What every decision checks before it writes.
MayDecide(c) ==
    LET r == tx[c].request
    IN  /\ Seen(c)!ObservedCandidate(r.id, r.observed)
        /\ Transition(tx[c].work.candidates[r.id].state, NextState(r), TriggerOf(r))
        /\ r.op = "transition" => r.next \notin {"admitted", "rejected"}
        /\ r.op = "reject" =>
               r.supplied \in {NoSuppression, SuppressionFor(CandidateRead(c), r.supplied)}

Prepared(c) ==
    LET r == tx[c].request
    IN  /\ Seen(c)!Fresh(r.env)
        /\ IF r.op = "store" THEN r.submission.version <= MaxVersion ELSE MayDecide(c)

Prepare(c) ==
    /\ tx[c].open /\ ~tx[c].prepared
    /\ Prepared(c)
    /\ tx' = [tx EXCEPT ![c].prepared = TRUE]
    /\ UNCHANGED db

\* Mutant of Answerable: the candidate must still be as it was observed.
AnswerableIfObserved(c) ==
    LET r == tx[c].request
    IN  /\ r.op # "store" => Seen(c)!ObservedCandidate(r.id, r.observed)
        /\ Seen(c)!Replays(r.env.key, Requested(r), IF r.op = "admit" THEN "objects" ELSE "candidates")

\* The ledger answers; of an admission, with the event that proves it.
Answerable(c) ==
    LET r == tx[c].request
    IN  /\ Seen(c)!Replays(r.env.key, Requested(r), IF r.op = "admit" THEN "objects" ELSE "candidates")
        /\ r.op = "admit" => Seen(c)!AdmissionReplays(r.env.key, r.id, r.observed)

PrepareReplay(c) ==
    /\ tx[c].open /\ ~tx[c].prepared
    /\ Answerable(c)
    /\ Finish(c, "ok")

PrepareRefused(c) ==
    /\ tx[c].open /\ ~tx[c].prepared
    /\ ~Prepared(c) /\ ~Answerable(c)
    /\ Finish(c, "refused")

\* The write lock, and a snapshot that is still the last commit.
MayWrite(c) ==
    tx[c].locked \/ ((\A other \in Conn \ {c} : ~tx[other].locked) /\ db = tx[c].base)

\* What the current write is refused for: checks of the code and primary keys.
Allowed(c) ==
    LET r == tx[c].request
        work == tx[c].work
    IN  CASE Current(c) = "object" ->
                /\ r.payload.id \in DOMAIN r.env.observed
                /\ Seen(c)!OccurrenceFree(r.env, r.payload.id, r.payload)
                /\ CanAdvance(r.env.observed[r.payload.id])
          [] Current(c) = "suppression" ->
                Seen(c)!MayRecordSuppression(CandidateRead(c).suppression, r.context)
          [] Current(c) = "candidate" ->
                IF r.op = "store" THEN r.submission.id \notin DOMAIN work.candidates
                ELSE CanAdvance(CandidateRead(c).version) /\ Valid(DecidedBy(c))
          [] Current(c) = "event" -> r.env.key \notin DOMAIN work.events
          [] Current(c) = "receipt" -> TRUE

\* The receipt: of the object an admission wrote, else of the candidate.
ReceiptOf(c) ==
    LET r == tx[c].request
        id == IF r.op = "admit" THEN r.payload.id ELSE IF r.op = "store" THEN r.submission.id ELSE r.id
    IN  [payload |-> Requested(r), id |-> id, observed |-> r.env.observed,
         version |-> IF r.op = "admit" THEN tx[c].work.objects[id].version
                     ELSE ResultVersion(tx[c].work.candidates[id].version)]

\* The connection's tables after the current write.
Written(c) ==
    LET r == tx[c].request
        read == CandidateRead(c)
    IN  CASE Current(c) = "object" ->
                [tx[c].work EXCEPT !.objects =
                    Put(@, r.payload.id, [payload |-> r.payload,
                                          version |-> NextVersion(r.env.observed[r.payload.id])])]
          [] Current(c) = "suppression" ->
                [tx[c].work EXCEPT !.suppressions =
                    Put(@, read.suppression, [candidate |-> r.id, decision |-> r.env.key])]
          [] Current(c) = "candidate" ->
                [tx[c].work EXCEPT !.candidates =
                    IF r.op = "store" THEN Put(@, r.submission.id, RowOf(Proposed(r.submission)))
                    ELSE Seen(c)!Updated(DecidedBy(c), read.version)]
          [] Current(c) = "event" ->
                [tx[c].work EXCEPT !.events =
                    Put(@, r.env.key, [candidate |-> r.id, from |-> read.state, to |-> NextState(r),
                                       trigger |-> TriggerOf(r), observed |-> read.version,
                                       object |-> ObjectOf(r)])]
          [] Current(c) = "receipt" -> [tx[c].work EXCEPT !.ledger = Put(@, r.env.key, ReceiptOf(c))]

AtWrite(c) == tx[c].open /\ tx[c].prepared /\ tx[c].done < Len(Pending(c))

Write(c) ==
    /\ AtWrite(c)
    /\ Allowed(c)
    /\ MayWrite(c)
    /\ tx' = [tx EXCEPT ![c].work = Written(c), ![c].locked = TRUE, ![c].done = @ + 1]
    /\ UNCHANGED db

WriteRefused(c) ==
    /\ AtWrite(c)
    /\ ~Allowed(c)
    /\ Finish(c, "refused")

Commit(c) ==
    /\ tx[c].open /\ tx[c].prepared /\ tx[c].done = Len(Pending(c))
    /\ Finish(c, "ok")

\* A statement fails, the call is dropped, or its process stops.
Abort(c) ==
    /\ tx[c].open
    /\ Finish(c, "failed")

TxNext ==
    \E c \in Conn :
        \/ \E r \in Request : Begin(c, r)
        \/ Prepare(c) \/ PrepareReplay(c) \/ PrepareRefused(c)
        \/ Write(c) \/ WriteRefused(c)
        \/ Commit(c) \/ Abort(c)

TxSpec == TxInit /\ [][TxNext]_txVars

-----------------------------------------------------------------------------
(* Properties.                                                             *)

Committed == INSTANCE CandidateReview
    WITH objects <- db.objects, logs <- Empty, xrefs <- Empty, ledger <- db.ledger,
         candidates <- db.candidates, events <- db.events, suppressions <- db.suppressions

\* However the statements of decisions interleave, are refused half way, fail
\* or are cut off, each commit is one step of the review of CandidateReview:
\* an object admitted is never without its decision, a suppression never
\* without its rejection, an event never without its effect.
CommitsImplementReview == Committed!ReviewSpec

\* A decision on record is never refused to the caller that asks again, though
\* it has moved the candidate past the version observed.
RecordedDecisionsAreAnswered ==
    [][\A c \in Conn :
          LET r == tx[c].request
          IN  tx[c].open /\ tx'[c].answer = "refused" /\ r.op # "store" =>
                 ~\E k \in DOMAIN tx[c].base.events :
                     /\ k = r.env.key
                     /\ tx[c].base.events[k].candidate = r.id
                     /\ tx[c].base.events[k].observed = r.observed
                     /\ tx[c].base.ledger[k].payload = Requested(r)]_txVars
=============================================================================
