# ubu-store in TLA+

`ubu-store` is the canonical local state of UbU: one SQLite database in which
objects, logs and external references are written under *mutation envelopes*
(who, from which device, under which idempotency key, having seen which object
versions), beside the proposals a user reviews (*advisory candidates*) and
derived artifacts. This directory models the writers of that store, the callers
that retry and review, its connections and its set-up, checks the models on
small instances with TLC, and proves with TLAPS, for every instance, nearly all
of the safety properties those runs check.

    tlc -workers 2 -config canonical_tasks.cfg MCCanonicalStore    # one run
    tlapm CanonicalStoreProofs.tla                                 # the proofs

`PROJECT.json` lists the components, runs, mutants and hazards, and maps each
definition to the lines it stands for.

## The system

| component | code | state | operations |
| --- | --- | --- | --- |
| mutation ledger | `queries.rs` 50-212 | `mutation_envelopes`: (device, key) -> payload, result id, result version, envelope | `prepare_mutation` (replay or preconditions), `record_mutation` |
| canonical writers | `queries.rs` 225-416, 571-724 | `objects`, `logs`, `external_references` | `admit_object`, `persist_universe_state`, `append_log_entry`, `store_external_reference` |
| batch | `queries.rs` 418-508 | as above | `admit_batch` |
| transactions | `transactions.rs`, `finish_mutation` | a connection's snapshot and uncommitted writes | begin, commit, rollback |
| candidate review | `candidates.rs` | `advisory_candidates`, `candidate_decision_events`, `suppression_records` | store, transition, reject, admit (and `_with_context`) |
| review reads | `candidates.rs` 409-460 | - | queue, events, suppression lookup |
| admission checks | `admission.rs`, the two gates | - | pure validation of a record |
| derived writers | `queries.rs` 748-900 | `plans`, `calendars`, `worker_submissions`, `projection_*` | INSERT, then SELECT, without envelope |
| reads | `queries.rs` 510-553, 638-659, 726-746, 803-811, `replay.rs`, `recalculation.rs` | - | current state, history, triggers, audit view |
| set-up | `db.rs`, `migrations.rs`, `api/store.rs` | pool of one connection | open, migrate |

How they interact: every envelope-carrying writer opens one transaction, calls
`prepare_mutation`, and either answers from the row the ledger names (a
*replay*) or checks that **every** version the envelope observed is current,
writes its rows and its receipt, and commits. Keys are global per device: an
object write, a log append and a candidate decision share one key space, and
only the sign of the recorded version and the prefix of the recorded id tell
them apart. Candidate admission composes the object writer with the candidate's
transition and its event. A pool has one connection, so concurrency is between
processes (or pools) on one database file, with SQLite's WAL snapshots and
write lock, between the callers of one pool, who take turns on its connection
and may be dropped at any await, and between the callers that retry.

What is hard about it, and what correctness means per component:

- *Ledger and tables must agree.* Two tables per write, several writers, and a
  retry after an answer that was lost (`EachVersionWrittenOnce`,
  `AppendsHaveReceipts`, `ExactlyOnce`, `AnswersAreDurable`).
- *Preconditions make the store serializable.* `BEGIN` is deferred, so the
  preconditions are read before the write lock is held
  (`ReceiptsSerializable`, `CommittedAgrees`, `CommitsImplementStore`).
- *One key space for four kinds of result.* A key used again elsewhere must not
  be answered from the wrong table (`ReplayFindsItsRow`,
  `AdmissionReplayIsProof`).
- *Occurrence keys are given up and taken again* by updates of other Tasks
  (`OccurrenceKeyUnique`).
- *Review must leave canonical state alone*, except through one ordinary
  admission (`ImplementsCanonicalStore`), and must keep its own history whole:
  the update of a candidate may match no row, decisions share the versions a
  producer chose, links are overwritten, suppressions of equal content collide
  (`DecisionChain`, `LinksNameDecisions`, `DecisionsHaveReceipts`,
  `RejectionsSuppress`, `SuppressionsOnlyRenewed`, `RowMirrorsPayload`); an
  admission is refused for its decision only after its object is written
  (`CommitsImplementReview`).
- *A batch is all or nothing*, with later writes reading earlier ones
  (`CommitsWholeRequests`).
- *A caller without an answer asks again*, past busy writers and failures, until
  it has one (`ExactlyOnce`, `EveryRequestAnswered`,
  `RecordedDecisionsAreAnswered`).
- *One connection for all callers of a process*: whoever fails or is dropped
  must leave nothing on it, and nobody may wait for it while holding it
  (`CommitsOnlyTheHolders`, `AnsweredIsOnDisk`, `EveryCallEnds`); a COMMIT sent by
  a caller that is then dropped is carried out all the same; the exempt writers
  take it twice (`DerivedPutOnce`).
- *Status, type and label are kept twice*, in columns and in the payload, and the
  reads go by the columns (`ActiveTasksAreActive`, `TaskStatusIsEvidenced`,
  `RowsKeepTheContract`, `TriggersCanBeRead`).
- *Reviewers decide on what they read before* (`DecidedAsSeen`), from a queue
  with places (`QueueIsAdmissible`, `QueuePlacesAreStable`), and read events in
  the order of decisions (`EventsListedInCommitOrder`).
- *Several processes set one database up at once*, and stop half way
  (`OpenStoresAreMigrated`, `EveryoneOpens`).

## The modules

`StoreTables` is the vocabulary: ids by kind, payloads, versions, envelopes,
tables as partial functions, and the pure helpers of `queries.rs`
(`PreconditionsHold`, `CanAdvance`, `OccurrenceHeld`, `Accepts`).

`CanonicalStore` is the canonical core after commit: variables `objects`,
`logs`, `xrefs`, `ledger`, one action per writer, and the replay that only
reads. It is at once the detailed model of the four writers and the abstract
specification that `CandidateReview` and `StoreTransactions` implement. A refused request (stale
precondition, missing target, conflict, duplicate key, exhausted version, a
constraint) rolls everything back and is a stuttering step.

`ReviewVocabulary` is the same for the review: candidates, links, rows,
decisions, requests, and the pure helpers of `candidates.rs` that make one
candidate of another (`Decided`, `Linked`, `Keyed`, `SuppressionFor`).

`CandidateReview` extends `CanonicalStore` with the review tables. `WriteDecision` is the
private helper all decisions go through; `Updated` keeps the code's unchecked
`UPDATE ... WHERE version = ?`. Receipts of candidates carry the negated
version. `Canonical` is `CanonicalStore` with the ledger as
`get_recorded_mutation` shows it, which is the refinement mapping.

`StoreTransactions` is the canonical writers one SQL statement at a time. `db`
is what is committed; `tx[c]` is connection `c`'s snapshot (`base`), the tables
as it sees them (`work`), whether it holds the write lock, where in its request
it is, and what its caller was last told. A request is a sequence of writes, as
`admit_batch` takes them; a single write is a sequence of one. Any statement
may fail and any process may stop (`Abort`), and an answer may be lost after
COMMIT (`LoseAnswer`); the caller may then submit the same request again.

`RetryClients` puts callers on top of those statements: each process has its
requests, submits one (`Submit`), runs its statements, fails where SQLite
returns busy (`Busy`), takes the answer (`Receive`), and asks again with the same
keys when there is none; `Fault` is a process that stops or an answer that is
lost. `RequestService` is what such callers are promised, and `ExactlyOnce` the
refinement.

`ReviewTransactions` does for the candidate writers what `StoreTransactions`
does for the canonical ones: a decision is up to four writes in the order of the
code (`Statements`), and each may be refused when the ones before are done. It
shares `ReviewVocabulary` with `CandidateReview`, which its commits refine.

`ReviewReads` adds the reads of `candidates.rs` and reviewers who act on them:
`seen` is what each last read, and a decision is always on `seen`. It EXTENDS
`CandidateReview`, whose actions it takes as they are.

`ObjectAdmission` is `validate_object_record` and its parts, the two gates and
the checks of logs, as predicates over records whose fields are absent, valid or
malformed to their parsers. `AdmittedRecords` puts it in front of the writers of
`CanonicalStore` and adds the columns kept beside the payload, with the reads
that go by them. `AdmitTaskExample` is the program of `examples/admit_task.rs`.

`StorePool` is one process: callers, the pool's queue and its single connection,
envelope writers that keep it for a transaction and the five exempt writers that
take it for an INSERT and again for a SELECT. The five differ in their table and
in the ids they ask for (`StorePlan` to `StoreProjectionResult`); their statements
are the same two, `Insert` and `Select`, which the map gives to `store_plan` for
all of them. A caller may be dropped at any await. sqlx-sqlite hands each
statement to a worker of the connection, which carries out what it was sent: a
caller dropped as it awaits its COMMIT has it rolled back (`Drop`) or, when it was
sent, carried out with nobody told (`LoseAnswer`). `PutOnceTables` is what the
tables of derived artifacts promise.

`StoreSetup` is `api/store.rs`: connect, list, run the missing migrations one
transaction each, hand out the store; by several processes at once.

| model | code |
| --- | --- |
| `Fresh`, `Replays`, `Record` | `prepare_mutation`, `record_mutation` |
| `WriteObject` | `target_precondition`, `write_object_row`, `record_mutation` |
| `AdmitObject`, `PersistUniverseState`, `AppendLogEntry`, `StoreExternalReference` | the writers of those names |
| `WriteDecision`, `Decided`, `Linked`, `Updated` | `write_decision` |
| `StoreAdvisoryCandidate`, `TransitionAdvisoryCandidate`, `RejectAdvisoryCandidate`, `AdmitAdvisoryCandidate` | the writers of those names, with and without a context |
| `ReplayMutation`, `ReplayDecision`, `ReplayAdmission` | the early returns on `prepared.replay` |
| `Begin`, `Prepare*`, `WriteRow`, `RowRefused`, `WriteReceipt`, `Commit`, `Abort`, `LoseAnswer` | `transactions::begin`, the statements of `admit_batch`, `finish_mutation` |
| `Write`, `WriteRefused`, `Pending` in `ReviewTransactions` | the statements of the candidate writers and of `write_decision` |
| `AdmitRecord`, `PersistRecord`, `AppendRecord` | the writers again, from the record the caller submits |
| `ReviewQueue`, `QueuedBefore`, `ListedEvents`, `FindSuppressionRecord` | `review_queue`, `list_candidate_decision_events`, `find_suppression_record` |
| `QueryActiveTasks`, `QueryRecalculationTriggers` | the queries of those names, `recalculation_triggers` |
| `StorePlan`, ... `StoreProjectionResult`; `CallDerived`, `Insert`, `Select` | `store_plan`, `store_calendar`, `store_worker_submission`, `store_projection_preview`, `store_projection_result` |
| `Begin`, `WriteMutation`, `Commit`, `LoseAnswer`, `Fail` in `StorePool` | `transactions::begin`, an envelope writer's statements, `finish_mutation` and the drop at it |
| `Acquire`, `TimeOut`, `Drop`, `CarryOutCommit`, `Reconnect` | the pool of `db.rs` and its connection's worker (sqlx, external) |
| `Next`, `Decide`, `ReviewNext`, `RecordNext` | the writers `api/admission.rs` offers |
| `Connect`, `List`, `Apply`, `ApplyRefused`, `Open` | `connect`, `run_migrations`, `init` |

What is abstracted, everywhere:

- A payload is the fields the writers read (`id`, `occurrence.key`,
  `schema_version`) and a `body` for all the rest; two requests are the same
  exactly when their payloads are equal, which is what comparing canonical
  bytes decides. `schema` includes the absence of a `schema_version`.
- Except in `AdmittedRecords`, records are those that pass `admission.rs`, and
  the columns beside the payload are left out. In `ObjectAdmission`, what
  `ubu_core` checks inside a field is one of absent, valid and malformed.
- Ids are members of one set per kind; the kinds without rules of their own are
  `OtherId`. Timestamps are left out, but for the order of the review queue.
- `ReviewTransactions` and `StoreTransactions` have the writers whose statements
  differ; `persist_universe_state` and `store_external_reference` have the same
  statements as an object write and an append and are in `CanonicalStore` only.
- In `StorePool` a canonical mutation is one write and one COMMIT, and a caller
  remembers only what it was told ok of.
- `MaxVersion` stands for `i64::MAX`. An overflow is a refusal, as
  `checked_add` makes it.
- `observed` is kept in the ledger because the stored `envelope_json` holds it;
  no writer reads it back.
- The unique index of migration 0004 adds nothing to the check in
  `write_object_row` on one transaction, so the model has the check only.
- `decision_id` is injective, so an event is named by its mutation key.
- Candidate lifecycle edges, `AdvisoryCandidate::validate` and the shapes of
  envelopes are `ubu_core`'s, which is not part of this repository: they are
  constants (`Edges`) or marked external, modelled as the writers and tests
  here use them. Proposals are stored with empty links.
- SQLite is external: a WAL read transaction sees one snapshot; a first write
  needs the write lock and a snapshot that is still current
  (`SQLITE_BUSY_SNAPSHOT`); a commit is atomic and durable.

## The runs

| run | instance | shows |
| --- | --- | --- |
| `canonical_tasks` | 1 device, 4 keys, 2 Tasks, 1 occurrence key, 1 log, 1 reference, 3 versions | type, ledger/table agreement, serializability, replay, occurrence keys |
| `records` | 4 keys; a Task, a UniverseState under 2 schema versions, a Compartment, a Preference, a Setting, a LogEntry object and a log of its id, well formed and not | rows follow from receipts and keep the contract, one status, readable triggers, append-only evidence |
| `review_chain` | 1 candidate, 6 keys, 7 versions, stored at version 2 or past the end | unbroken decision chain, links through repeated deferral |
| `review_store` | 2 candidates with equal content, 1 Task, 4 keys, 3 versions | receipts, suppressions, replay of admissions, refinement of `CanonicalStore` |
| `review_reads` | 2 reviewers, 2 candidates of equal or different place, 4 keys | decisions are on the candidate as seen; queue and events in order |
| `tx_single` | 3 connections, 4 single writes | each commit is a step of `CanonicalStore` |
| `tx_batch` | 2 connections, 6 batches of up to two writes | all or nothing, durable answers, no skew, lock discipline |
| `tx_review` | 2 connections, 8 requests on 2 candidates, one at the last version | each commit is a step of `CandidateReview`; decisions are answered again |
| `retry` | 3 processes, 4 requests that compete, 2 faults | exactly once; every request is answered |
| `pool` | 3 callers, 2 plans and a projection result of one id, a calendar of no plan, a submission and a preview that are refused, 1 mutation | true answers, nothing committed but what was sent a COMMIT for, put-once rows, every call ends |
| `setup` | 3 processes, a database with 0 to 4 migrations, with or without old duplicates, 2 stops | no store before its schema; everyone opens it |
| `example` | the record of `examples/admit_task.rs` | it is refused (expected violation) |

Why these bounds are enough. Each receipt uses a key up, so four keys are four
mutations that took effect, as many as the longest hazard of the first modules
needs: a write skew over existing objects is two creations and two
updates that each read what the other replaces; a reclaimed occurrence key is a
creation, an update that gives it up, another Task that takes it, and the
attempt to take it back; a suppression is renewed by the second of two
rejections, after two stores. A device only ever scopes keys, so the runs split
the keys over one or two devices as suits their size. `review_chain` has a key
and a version for each of five decisions: deferred and resurfaced twice over,
then settled. `MaxVersion` is reached in every run of the canonical and review
modules, so exhaustion happens, and in `review_chain` one submission is beyond
it. Three connections allow a reader's snapshot to go stale under two writers
that succeed each other. In `pool` three callers are a holder, one that waits
and one that comes between the two turns of an exempt writer; two faults in
`retry` are an answer lost and a second failure when the request is asked again;
in `setup` two stops leave a database half migrated twice while a third process
goes on. `records` has no two requests that must be ordered, but for updates of
one row, so its envelopes observe their target only. Elsewhere envelopes observe at most two objects: that is what a
cycle of two needs, and longer cycles are covered by the proof. Devices, keys,
connections, and the two Tasks where they are interchangeable, are declared
symmetric; the properties of those runs are invariants and step properties, for
which symmetry is sound.

`CHECK_DEADLOCK FALSE` is set wherever keys, requests or stops are used up: there
is nothing more to do then, and an idle store is no fault. `pool` is checked for
deadlock: nobody may be stuck in it.

Fairness is assumed in three specifications, only of what goes on by itself.
`RetrySpec`: each process, taken for itself, goes on (weak fairness of its next
submission, statement, busy failure or answer, together); none of faults and
none between processes, so who loses a race is open. `EveryRequestAnswered` holds
because a writer is thrown back only when another commits, and workloads are
finite; under an endless stream of competing writers one caller may starve, and
the code promises nothing else. `PoolSpec`: the pool serves its waiters (sqlx
queues them in order), and each statement that was sent ends, well or badly;
that anyone times out or is dropped, before a COMMIT or at it, is not relied on. `SetupSpec`: each process
goes on and calls again after an error.

Each property of each run has a mutant: a bug such as a dropped check of the
observed versions, a rejection that leaves no suppression key, a commit of a
failed batch; TLC finds the property violated under it. The mutant operators
stand beside the definitions they replace.

One disagreement was found. `examples/admit_task.rs` admits a Task whose payload
is `{"title": ...}` and expects it to succeed, but `validate_object_record`
wants the id, the lifecycle status and provenance in the payload of a Task and
refuses it: `ExampleIsAdmitted` is violated in run `example`.

## The proofs

Each module with a state of its own has its theorems in a module named after it.
They hold for all devices, keys, ids, payloads, requests, connections, callers
and processes, and every `MaxVersion > 0`.

| module | theorems | of |
| --- | --- | --- |
| `CanonicalStoreProofs` | `TypeCorrect`, `VersionsWrittenOnce`, `AppendsRecorded`, `ReplayFinds`, `Serializable`, `OneTaskPerOccurrence`, `RowsFollow`, `AppendOnly` | `TypeOK`, `EachVersionWrittenOnce`, `AppendsHaveReceipts`, `ReplayFindsItsRow`, `ReceiptsSerializable`, `OccurrenceKeyUnique`, `RowFollowsFromReceipts`, `EvidenceAppendOnly` |
| `CandidateReviewProofs` | `RowsMirrorPayloads`, `CanonicalRefined`, `CanonicalStateUndisturbed`, `CanonicalEvidenceStays`, `ReviewTypeCorrect` | `RowMirrorsPayload`, `ImplementsCanonicalStore`, every invariant of `CanonicalStore` in the first row, its `EvidenceAppendOnly`, `ReviewTypeOK` |
| the same, on what the tables tell of the past | `DecisionsRecorded`, `RejectionsSuppressed`, `SuppressionsStay`, `HistoryComplete`, `LinksFollow`, `AdmissionReplayProved` | `DecisionsHaveReceipts`, `RejectionsSuppress`, `SuppressionsOnlyRenewed`, `DecisionChain`, `LinksNameDecisions`, `AdmissionReplayIsProof` |
| `ReviewReadsProofs` | `DecisionsAsSeen`, `EventsInOrder`, `QueueAdmissible`, `QueuePlacesHold` | `DecidedAsSeen`, `EventsListedInCommitOrder`, `QueueIsAdmissible`, `QueuePlacesAreStable` |
| `StoreTransactionsProofs` | `TxTypeCorrect`, `AnswersDurable`, `WholeRequests`, `CommitsAgree`, `SingleWritesAreAtomic`, `RetriesAreExactlyOnce` | `TxTypeOK`, `AnswersAreDurable`, `CommitsWholeRequests`, `CommittedAgrees`, `CommitsImplementStore`, `ExactlyOnce` |
| `ReviewTransactionsProofs` | `CommitsAreReviewSteps`, `RepeatedDecisionsAnswered` | `CommitsImplementReview`, `RecordedDecisionsAreAnswered` |
| `AdmittedRecordsProofs` | `RecordsRefineStore`, `ContractKept`, `ActiveTasksProved`, `StatusEvidenced`, `TriggersReadable` | `CanonicalStore!Spec`, `RowsKeepTheContract`, `ActiveTasksAreActive`, `TaskStatusIsEvidenced`, `TriggersCanBeRead` |
| `StorePoolProofs` | `AnsweredOnDisk`, `CommitsAreTheHolders`, `DerivedTablesPutOnce` | `AnsweredIsOnDisk`, `CommitsOnlyTheHolders`, `DerivedPutOnce` |
| `StoreSetupProofs` | `OpenedMigrated`, `DuplicatesStayClosed` | `OpenStoresAreMigrated`, and that a database with old duplicates is never opened |

### Assumptions

All are named, TLC evaluates each in every run of its module, and the proofs use
no others:

- `StoreTables`: kinds of ids are disjoint (a prefix each), `MaxVersion` is
  positive, and the shapes of payloads, state requests and observations.
- `ReviewVocabulary`: the shapes of submissions, edges and derived keys;
  `AbsentValues` (an absent key or link is no value); and, of `ubu_core`'s
  lifecycle, what this repository's documents and tests rely on (`Lifecycle`): a
  candidate resurfaces from a deferral only, leaves `admitted` only for the
  archive, and stays there.
- `ReviewReads`: ids are totally ordered, as SQLite orders text, a candidate has
  one place, and `QueueLifecycle`: what the queue lists (proposed or resurfaced)
  may be admitted, which `tests/advisory_candidates.rs` does with either.
- `StoreTransactions`: a write of a request is one of the two variants of
  `BatchWrite`, an object under its payload's id or a log (`RequestShape`).
- `RetryClients`: every request is one connection's (`WorkloadShape`), has at least
  one write, and uses keys no other request uses (`WorkloadKeys`). The first is how
  the model divides work among processes. The last is what an idempotency key is
  for: a caller who gives two requests one key is refused or answered with the
  other's record (`PrepareRefused`, `PrepareReplay`), and nothing is promised. An
  empty batch writes nothing, so there is nothing of it to happen once.
- `ReviewTransactions`: a request is a call of one of the four writers, with
  arguments of their types (`RequestShape`).
- `AdmittedRecords`, `ObjectAdmission`: shapes of records and payload bodies.
- `StorePool`: shapes of derived records, which are no mutations; no caller is
  `NoCaller`.
- `SingleWritesAreAtomic` has a hypothesis of its own, `OneWriteRequests`: each
  request is one write. It is what `admit_object` and `append_log_entry` submit;
  a longer batch is several steps of `CanonicalStore` at once.

### The canonical store

`StepShapes` reduces a step to two shapes, an object write and an append (or a
stutter), so that each invariant is proved twice and not once per writer;
`ObjectEffect` and `AppendEffect` say what each shape does to the tables. The
inductive invariant is `LedgerInv == TypeOK /\ EachVersionWrittenOnce /\
AppendsHaveReceipts`. None of the last two is inductive alone: that a new
version has no earlier receipt follows from `ReceiptsHaveVersions` (no receipt
speaks of a version not yet reached) and the precondition that the observed
version is current; that a new log has none follows from the primary key and the
log's own receipt. `ReplayFindsItsRow` then follows from it in one state.

`Serializable` needs a second invariant, `ObservedPast`: nothing a receipt
observed lies in the future, i.e. beyond the present version of that object.
Then the newest receipt of a step precedes no older one
(`NothingFollowsTheLast`), so a set that contains it loses it, and any other set
is one of the state before: the order of commits explains all observations.
This is where "every observed id is checked, not just the target" is used.
`OneTaskPerOccurrence` and `RowsFollow` are inductive with `LedgerInv`;
`AppendOnly` follows from a step's shape and `LedgerInv`. `StoreInv`, with
`StoreStarts` and `StoreKept`, is what other modules cite of all this.

### Review

`ReviewStepShapes` reduces the four decision writers to one shape,
`DecisionStep`, beside the storing of a proposal and the steps of the canonical
store. `NextSeen` and `ReviewStepSeen` map each to a step of `CanonicalStore` on
the ledger `get_recorded_mutation` shows: a candidate's receipt is not seen
(`CandidateReceiptUnseen`), an admission's is the object write's. That is
`CanonicalRefined`, and through the instance `Seen` every invariant of the
canonical store comes with it (`CanonicalStateUndisturbed`, and for its steps
`CanonicalEvidenceStays`). The inductive
invariants are `CandidateRows`, the columns equal the payload, without which the
`UPDATE ... WHERE version = ?` might match no row; and `ReviewTables`, the types
and the sign of a candidate's receipt, which keeps the two kinds of receipt
under one key space apart.

The second half of `CandidateReviewProofs` adds, each on top of those before: `ReceiptInv`
(decisions and receipts are each other's evidence); `RejectionsSuppress` with
it, because a rejection that renews another candidate's suppression must carry
the same key; `DecisionChain`, where a decision closes the chain at the version
it observed and opens the next (`ChainGrows`); `LinkInv`, which says of each
state a candidate is in which of its links is the last decision, because a
resurfacing takes its prior deferral from the link and not from the events; and
`AdmissionsStand`, where `Lifecycle` is used: what was admitted only goes to the
archive, so its link stays.

`ReviewReadsProofs` first shows that a reader takes only steps of the store
(`ReadsAreReview`), so that all of this holds there. `SeenInv` says what an old
read is worth: a row seen is the present one or of an earlier version, so a
decision that names its version is on the row as seen. The queue is sorted by a
lexicographic order that is total (`LexTotal`), a place is a rank in it, and a
rank is a number because there are finitely many candidates
(`FinitelyManyCandidates`); whoever stays in the queue loses those before it and
gains only newcomers (`StayersMoveUp`).

### Statements and transactions

`TxInv` is inductive over the statements: the stages of a transaction, that at
most one connection has the write lock and then works on the last commit, that
what it added to its snapshot is exactly the receipts of the writes it is done
with, under different keys, and that a snapshot is of the past. `TxTypeCorrect`,
`AnswersDurable` and `WholeRequests` follow from it.

`CommitsAgree` cannot go by the committed tables alone, as a batch commits
several writes at once. The proof looks at `Live`: the tables of the connection
with the lock, with the receipt its row still lacks; of the last commit when
nobody has the lock. There each row written is one step of `CanonicalStore`
(`RowIsStep`: `MayWrite` makes the snapshot the last commit, so preconditions read
before the lock still hold under it), all other statements change nothing, a
commit makes `Live` the committed tables, a rollback the reverse (`LiveMoves`).
Both tables therefore keep `StoreInv`. For requests of one write `Live` is never
more than one step ahead of what is committed (`OneWriteInv`), so each commit is
a step of `CanonicalStore`: `SingleWritesAreAtomic`.

`RetriesAreExactlyOnce` maps the database to the set of requests recorded in it.
`ClientInv` says that a wanted request is either `Settled` (all its writes are
recorded, under keys of their own, with receipts `MutationTarget::accepts` lets
answer them) or `Untouched` (none of its keys is recorded), never recorded in part; that
only its own connection changes this, since a commit records keys of its request
alone; and that of a request with a row written, or refused, nothing is
recorded. So a commit that wrote something applies a request for the first time
(`CommitIsApply`). That a refused request was not applied is the harder half
(`RefusedIsUntouched`): were it settled, the retry's snapshot would hold its
receipts, as no one else records its keys in between, and the ledger would have
answered each write before any precondition was looked at.

The candidate writers are proved the other way about. A decision has up to four
statements over five tables, none of which is a step of `CandidateReview` by
itself, so `ReviewTransactionsProofs` says what a transaction has written as a
function of its snapshot, its request and the number of statements done
(`WorkMade`: `ObjectsBy`, `SuppressionsBy`, `CandidatesBy`, `EventsBy`,
`LedgerBy`), and that each statement's check passed on the snapshot itself, since
no earlier statement touches its table (`Checked`, `NotYet`). With the discipline
of the lock (a transaction that wrote is on the last commit) that is its `TxInv`.
A commit then finds all statements done, so `db'` is what the whole request makes
of `db` (`CommitIsWhole`), and `WholeStore`, `WholeTransition`, `WholeReject` and
`WholeAdmission` recognise the writer. The step needs `Rows`, which commits keep:
a decision reads the payload and its `UPDATE` goes by the column.
`RepeatedDecisionsAnswered` needs of every snapshot, not only of the committed
tables, that an event's receipt is of the kind its request asks for (`Evidence`);
a request and a payload of the other kind differ by the kind of id they name.

### Records, pool, set-up

A step of the writers with their checks is a step of `CanonicalStore`
(`RecordsRefineStore`), whose invariants so hold of it; `RowsInv` says of every
row that it was last written from a record that passed the checks, over a row
whose type it kept, and agrees with its columns.

`PoolInv` says who waits, that the only open transaction is of the caller with
the connection and sees what is committed plus that caller's own mutation, and
that a derived row whose INSERT was done is on disk and of one caller until it
is told. `CommitsAreTheHolders` and the refinement of `PutOnceTables` are read
off its steps: only an INSERT and a COMMIT write to the disk, and a COMMIT, told
or not (`CommitTold`), is of the caller with the connection at the end of its
transaction.

A process may list the migrations long before it runs one, so `SetupInv` needs
what its reading is worth: never more than the database has.

### What stays with TLC

Liveness and ENABLED, which are out of the prover's reach: `EveryRequestAnswered`,
`EveryCallEnds`, `EveryoneOpens`. Every safety property of a passing run has its
theorem.

## Not modelled

- `get_object_history`, `query_external_references` and the order of logs and
  triggers by the text of a timestamp: one SELECT each, and no document promises
  an order. `replay_state` and `get_current_state` read back what the writers
  answer with.
- In-memory databases, which live as long as the pool's connection: when a pool
  closes an idle connection is a default of sqlx, and no document promises
  anything of it. `Reconnect` is for databases in files.
- Compartment label and status of objects other than Tasks are not in the
  payload, so the ledger cannot tell them; only `TaskStatusIsEvidenced` is
  claimed.
- Starvation of one writer by an endless stream of others: it can happen, and
  nothing in the code or its documents excludes it.
- `errors.rs`, `lib.rs`, `api/` but for `api/store.rs`: wording, re-exports.

## Plan

Done: all modules listed above, and the proofs of all their safety properties.

Next: the callers of the candidate writers, who may repeat a decision as those of
`RetryClients` repeat a batch.
