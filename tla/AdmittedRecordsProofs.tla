----------------------- MODULE AdmittedRecordsProofs -----------------------
(***************************************************************************)
(* Invariants of AdmittedRecords, proved for every set of records and      *)
(* payloads submitted, of labels and of ids.                               *)
(*                                                                         *)
(* A step of the writers with their checks is a step of CanonicalStore, so *)
(* the theorems about the ledger carry over.  What is new is what the      *)
(* columns say: every row was last written from a record that passed       *)
(* ObjectRecordOK, over a row whose type it had to keep.                   *)
(***************************************************************************)
EXTENDS AdmittedRecords, CanonicalStoreProofs

-----------------------------------------------------------------------------
(* Steps.                                                                  *)

\* A record, as submitted or as persist_universe_state builds it, is admitted
\* for a request.
RecordStep(env, record, requested) ==
    /\ ObjectStep(env, record.id, record.payload, requested)
    /\ ObjectRecordOK(record)
    /\ WriteColumns(record)

\* A log is appended with its event type.
LogStep(env, log) ==
    /\ AppendStep(env, log.id, log.payload)
    /\ log.id \in LogId
    /\ LogRecordOK(log)
    /\ logs' = Put(logs, log.id, log.payload)
    /\ logEvents' = Put(logEvents, log.id, log.event)
    /\ UNCHANGED columns

\* The kinds tell the ids of Tasks and of logs apart from all others.
LEMMA KindOfId ==
    ASSUME NEW id
    PROVE  /\ Kind(id) = "Task" => id \in TaskId
           /\ id \in TaskId => Kind(id) = "Task"
           /\ Kind(id) = "LogEntry" => id \in LogId
BY OtherKindShape, IdsDisjoint DEF Kind, ObjectType

\* admit_object of a record that passes the checks: its payload has an id, for
\* a version of that id is observed.
LEMMA AdmitIsRecordStep ==
    ASSUME NEW env \in Envelope, NEW record \in ObjectRecord, AdmitRecord(env, record)
    PROVE  RecordStep(env, record, record.payload) /\ AdmitObject(env, record.payload)
                                                   /\ record.payload \in RecordPayload
<1>1. ObjectRecordOK(record) /\ AdmitObject(env, record.payload) /\ WriteColumns(record)
    BY DEF AdmitRecord
<1>2. record.payload.id = record.id
    BY <1>1 DEF ObjectRecordOK
<1>3. record.payload.id \in ObjectId
    <2>1. record.payload.id \in DOMAIN env.observed /\ env.observed \in Observation
        BY <1>1 DEF AdmitObject, WriteObject, Envelope
    <2>2. QED
        BY <2>1, ObservedIsRef
<1>4. record.payload \in RecordPayload
    BY <1>3, NotAnIdIsNone, RecordsHavePayloads
<1>5. ObjectStep(env, record.id, record.payload, record.payload)
    BY <1>1, <1>2, <1>3, <1>4, RecordPayloadShape DEF AdmitObject, ObjectStep, ObjectPayload, Json
<1>6. QED
    BY <1>1, <1>4, <1>5 DEF RecordStep

\* persist_universe_state writes the record it builds.
LEMMA PersistIsRecordStep ==
    ASSUME TypeOK, NEW env \in Envelope, NEW request \in StateRequest, PersistRecord(env, request)
    PROVE  RecordStep(env, Persisted(request), request)
<1>1. /\ PersistUniverseState(env, request)
      /\ ObjectRecordOK(Persisted(request)) /\ WriteColumns(Persisted(request))
    BY DEF PersistRecord
<1>2. Persisted(request).id = request.state /\ Persisted(request).payload = PersistedPayload(request)
    BY DEF Persisted
<1>3. request.state \in DOMAIN objects
    BY <1>1 DEF PersistUniverseState, Fresh, PreconditionsHold, CurrentRef
<1>4. PersistedPayload(request) \in ObjectPayload /\ request.state \in ObjectId
    <2>1. objects[request.state].payload \in ObjectPayload
        BY <1>3 DEF TypeOK, IsTable, ObjectRow
    <2>2. request.state \in ObjectId /\ request.body \in Body
        BY StateRequestShape
    <2>3. QED
        BY <2>1, <2>2 DEF PersistedPayload, ObjectPayload
<1>5. /\ PersistedPayload(request).body = request.body
      /\ PersistedPayload(request).schema = objects[request.state].payload.schema
    BY DEF PersistedPayload
<1>6. request \notin RecordPayload
    BY RecordPayloadShape, StateRequestShape DEF ObjectPayload
<1>7. ObjectStep(env, request.state, PersistedPayload(request), request)
    BY <1>1, <1>4, <1>5, <1>6 DEF PersistUniverseState, ObjectStep, Json
<1>8. QED
    BY <1>1, <1>2, <1>7 DEF RecordStep

\* append_log_entry of a log that passes the checks.
LEMMA AppendIsLogStep ==
    ASSUME NEW env \in Envelope, NEW log \in LogRecord, AppendRecord(env, log)
    PROVE  /\ LogStep(env, log)
           /\ log.id \in LogId /\ log.payload \in Json /\ AppendLogEntry(env, log.id, log.payload)
<1>1. log.id \in LogId
    BY KindOfId DEF AppendRecord
<1>2. log.payload \in Json
    BY RecordsHavePayloads DEF Json
<1>3. QED
    BY <1>1, <1>2 DEF AppendRecord, LogStep, AppendStep, AppendLogEntry

\* Every step is one of the two, or changes nothing.
LEMMA RecordStepShapes ==
    ASSUME TypeOK, [RecordNext]_recordVars
    PROVE  \/ \E env, record, requested : RecordStep(env, record, requested)
           \/ \E env, log : LogStep(env, log)
           \/ UNCHANGED recordVars
<1>1. ASSUME NEW env \in Envelope, NEW r \in ObjectRecord, AdmitRecord(env, r)
      PROVE  \E e, record, requested : RecordStep(e, record, requested)
    BY <1>1, AdmitIsRecordStep
<1>2. ASSUME NEW env \in Envelope, NEW q \in StateRequest, PersistRecord(env, q)
      PROVE  \E e, record, requested : RecordStep(e, record, requested)
    BY <1>2, PersistIsRecordStep
<1>3. ASSUME NEW env \in Envelope, NEW l \in LogRecord, AppendRecord(env, l)
      PROVE  \E e, log : LogStep(e, log)
    BY <1>3, AppendIsLogStep
<1>4. ASSUME NEW key, NEW p, NEW target, ReplayRecord(key, p, target)
      PROVE  UNCHANGED recordVars
    BY <1>4 DEF ReplayRecord, ReplayMutation, recordVars
<1>5. QED
    BY <1>1, <1>2, <1>3, <1>4 DEF RecordNext

-----------------------------------------------------------------------------
(* The canonical store underneath.                                         *)

\* The writers with their checks do nothing the canonical writers do not: what
\* holds of CanonicalStore holds whatever records are submitted.
THEOREM RecordsRefineStore == RecordSpec => Spec
<1>1. RecordInit => Init
    BY DEF RecordInit
<1>2. [RecordNext]_recordVars => [Next]_vars
    <2>1. ASSUME NEW env \in Envelope, NEW r \in ObjectRecord, AdmitRecord(env, r)
          PROVE  Next
        BY <2>1, AdmitIsRecordStep DEF Next
    <2>2. ASSUME NEW env \in Envelope, NEW q \in StateRequest, PersistRecord(env, q)
          PROVE  Next
        BY <2>2 DEF Next, PersistRecord
    <2>3. ASSUME NEW env \in Envelope, NEW l \in LogRecord, AppendRecord(env, l)
          PROVE  Next
        BY <2>3, AppendIsLogStep DEF Next
    <2>4. ASSUME NEW key, NEW p, NEW target, ReplayRecord(key, p, target)
          PROVE  UNCHANGED vars
        BY <2>4 DEF ReplayRecord, ReplayMutation
    <2>5. CASE UNCHANGED recordVars
        BY <2>5 DEF recordVars
    <2>6. QED
        BY <2>1, <2>2, <2>3, <2>4, <2>5 DEF RecordNext
<1>3. QED
    BY <1>1, <1>2, PTL DEF RecordSpec, Spec

-----------------------------------------------------------------------------
(* Rows and their columns.                                                 *)

\* What a row and its payload tell of an object: the contract for its kind, and
\* of a Task the same status twice.
RowOK(id, row, payload) ==
    /\ row.type = Kind(id) /\ payload.id = id
    /\ row.label \in Label
    /\ row.type \in NeedsProvenance => payload.body.provenance = "valid"
    /\ row.type \in {"LogEntry", "Setting"} => payload.body.authority = "valid"
    /\ row.type = "Compartment" => payload.body.label \in Label
    /\ id \in TaskId =>
           /\ row.status \in TaskStatus
           /\ payload.body.moot <=> row.status = "moot"
           /\ payload.body.status = row.status

\* What a log's event type tells of its payload.
LogOK(event, payload) == event = Recalculation => payload.body.trigger

\* The inductive invariant.  Of a Task it says more than the properties do: not
\* only do column and payload agree on what is active, they agree.
RowsInv ==
    /\ DOMAIN columns = DOMAIN objects
    /\ \A id \in DOMAIN objects : RowOK(id, columns[id], objects[id].payload)
    /\ DOMAIN logEvents = DOMAIN logs
    /\ \A l \in DOMAIN logs : LogOK(logEvents[l], logs[l])

\* The row a record makes, over none or over one that has the type of its id.
LEMMA CheckedRowOK ==
    ASSUME NEW record, ObjectRecordOK(record), record.payload.body \in Body,
           record.id \in DOMAIN columns => columns[record.id].type = Kind(record.id)
    PROVE  RowOK(record.id, ColumnsOf(record), record.payload)
<1>1. /\ ColumnsOf(record).type = Kind(record.id) /\ record.type = Kind(record.id)
      /\ ColumnsOf(record).label = record.label /\ ColumnsOf(record).status = record.status
    BY DEF ColumnsOf, ObjectRecordOK, IdIsOfType
<1>2. record.payload.id = record.id /\ record.label \in Label
    BY DEF ObjectRecordOK
<1>3. record.payload.body.provenance \in {"absent", "valid", "malformed"}
    BY Bodies DEF IsBody, Field
<1>4. record.type \in NeedsProvenance => record.payload.body.provenance = "valid"
    BY <1>3 DEF ObjectRecordOK, ProvenanceOK
<1>5. /\ record.type \in {"LogEntry", "Setting"} => record.payload.body.authority = "valid"
      /\ record.type = "Compartment" => record.payload.body.label \in Label
    BY DEF ObjectRecordOK, AuthorityOK, CompartmentOK
<1>6. record.type = "Task" =>
          /\ record.status \in TaskStatus
          /\ record.status = "moot" <=> record.payload.body.moot
          /\ record.payload.body.status = record.status
    BY DEF ObjectRecordOK, LifecycleStatusOK, PayloadStatusOK
<1>7. record.id \in TaskId => record.type = "Task"
    BY <1>1, KindOfId
<1>8. QED
    BY <1>1, <1>2, <1>4, <1>5, <1>6, <1>7 DEF RowOK

\* An admitted record leaves every other row alone.
LEMMA RecordStepKeepsRows ==
    ASSUME TypeOK, RowsInv, NEW env, NEW record, NEW requested,
           RecordStep(env, record, requested)
    PROVE  RowsInv'
<1>1. /\ DOMAIN objects' = DOMAIN objects \cup {record.id}
      /\ \A o \in DOMAIN objects : o # record.id => objects'[o] = objects[o]
      /\ objects'[record.id].payload = record.payload
      /\ UNCHANGED logs
    <2>1. ObjectEffect(env, record.id, record.payload, requested)
        BY ObjectStepEffect DEF RecordStep
    <2>2. QED
        BY <2>1 DEF ObjectEffect
<1>2. /\ DOMAIN columns' = DOMAIN columns \cup {record.id}
      /\ \A o \in DOMAIN columns : o # record.id => columns'[o] = columns[o]
      /\ columns'[record.id] = ColumnsOf(record)
      /\ UNCHANGED logEvents
    BY DEF RecordStep, WriteColumns, Put
<1>3. RowOK(record.id, ColumnsOf(record), record.payload)
    <2>1. ObjectRecordOK(record) /\ record.payload.body \in Body
        BY DEF RecordStep, ObjectStep, ObjectPayload
    <2>2. record.id \in DOMAIN columns => columns[record.id].type = Kind(record.id)
        BY DEF RowsInv, RowOK
    <2>3. QED
        BY <2>1, <2>2, CheckedRowOK
<1>4. ASSUME NEW id \in DOMAIN objects' PROVE RowOK(id, columns'[id], objects'[id].payload)
    <2>1. CASE id = record.id
        BY <2>1, <1>1, <1>2, <1>3
    <2>2. CASE id # record.id
        BY <2>2, <1>1, <1>2 DEF RowsInv
    <2>3. QED
        BY <2>1, <2>2
<1>5. QED
    BY <1>1, <1>2, <1>4 DEF RowsInv

\* An appended log is a new one, and a trigger if its event type says so.
LEMMA LogStepKeepsRows ==
    ASSUME TypeOK, RowsInv, NEW env, NEW log, LogStep(env, log)
    PROVE  RowsInv'
<1>1. objects' = objects /\ columns' = columns
    <2>1. AppendEffect(env, log.id, log.payload)
        BY AppendStepEffect DEF LogStep
    <2>2. QED
        BY <2>1 DEF AppendEffect, LogStep
<1>2. /\ DOMAIN logs' = DOMAIN logs \cup {log.id} /\ DOMAIN logEvents' = DOMAIN logEvents \cup {log.id}
      /\ \A l \in DOMAIN logs : l # log.id => logs'[l] = logs[l]
      /\ \A l \in DOMAIN logEvents : l # log.id => logEvents'[l] = logEvents[l]
      /\ logs'[log.id] = log.payload /\ logEvents'[log.id] = log.event
    BY DEF LogStep, Put
<1>3. LogOK(log.event, log.payload)
    BY DEF LogStep, LogRecordOK, LogOK
<1>4. ASSUME NEW l \in DOMAIN logs' PROVE LogOK(logEvents'[l], logs'[l])
    <2>1. CASE l = log.id
        BY <2>1, <1>2, <1>3
    <2>2. CASE l # log.id
        BY <2>2, <1>2 DEF RowsInv
    <2>3. QED
        BY <2>1, <2>2
<1>5. QED
    BY <1>1, <1>2, <1>4 DEF RowsInv

\* RowsInv holds in every reachable state.
LEMMA RowsInvariant == RecordSpec => [](LedgerInv /\ RowFollowsFromReceipts /\ RowsInv)
<1>1. RecordInit => RowsInv
    BY DEF RecordInit, Init, Empty, RowsInv
<1>2. LedgerInv /\ RowsInv /\ [RecordNext]_recordVars => RowsInv'
    <2> SUFFICES ASSUME LedgerInv, RowsInv, [RecordNext]_recordVars PROVE RowsInv'
        OBVIOUS
    <2>1. TypeOK
        BY DEF LedgerInv
    <2>2. CASE UNCHANGED recordVars
        BY <2>2 DEF recordVars, vars, columnVars, RowsInv
    <2>3. QED
        BY <2>1, <2>2, RecordStepShapes, RecordStepKeepsRows, LogStepKeepsRows
<1>3. QED
    BY <1>1, <1>2, RecordsRefineStore, LedgerInvariant, RowsFollow, PTL DEF RecordSpec

-----------------------------------------------------------------------------
(* The theorems.                                                           *)

\* Every stored object keeps what the contract asks of its kind, through every
\* writer and every row written over: validate_object_record is called by all.
THEOREM ContractKept == RecordSpec => []RowsKeepTheContract
<1>1. RowsInv => RowsKeepTheContract
    BY DEF RowsInv, RowOK, RowsKeepTheContract
<1>2. QED
    BY <1>1, RowsInvariant, PTL

\* The Tasks query_active_tasks lists are those whose payload says active, and
\* row and payload tell one canonical status, moot with its reason.
THEOREM ActiveTasksProved == RecordSpec => []ActiveTasksAreActive
<1>1. RowsInv => ActiveTasksAreActive
    <2> SUFFICES ASSUME RowsInv PROVE ActiveTasksAreActive
        OBVIOUS
    <2>1. ASSUME NEW id \in DOMAIN objects
          PROVE  /\ columns[id].type = "Task" <=> id \in TaskId
                 /\ id \in TaskId => RowOK(id, columns[id], objects[id].payload)
        BY KindOfId DEF RowsInv, RowOK
    <2>2. QED
        BY <2>1 DEF RowsInv, RowOK, ActiveTasksAreActive, QueryActiveTasks
<1>2. QED
    BY <1>1, RowsInvariant, PTL

\* A Task's status column is what the receipt of its current version requested,
\* although the ledger keeps no columns.
THEOREM StatusEvidenced == RecordSpec => []TaskStatusIsEvidenced
<1>1. LedgerInv /\ RowFollowsFromReceipts /\ RowsInv => TaskStatusIsEvidenced
    <2> SUFFICES ASSUME LedgerInv, RowFollowsFromReceipts, RowsInv,
                        NEW k \in DOMAIN ledger, ledger[k].id \in TaskId,
                        ledger[k].version = objects[ledger[k].id].version
                 PROVE  columns[ledger[k].id].status = ledger[k].payload.body.status
        BY DEF TaskStatusIsEvidenced
    <2>1. ledger[k].version # 0
        BY IdsDisjoint DEF LedgerInv, AppendsHaveReceipts, TypeOK, IsTable
    <2>2. ledger[k].version > 0
        BY <2>1 DEF LedgerInv, TypeOK, IsTable, Receipt
    <2>3. ledger[k].id \in DOMAIN objects
        BY <2>2 DEF LedgerInv, EachVersionWrittenOnce, ReceiptsHaveVersions
    <2>4. objects[ledger[k].id].payload.body = ledger[k].payload.body
        BY <2>2 DEF RowFollowsFromReceipts
    <2>5. QED
        BY <2>3, <2>4 DEF RowsInv, RowOK
<1>2. QED
    BY <1>1, RowsInvariant, PTL

\* recalculation_triggers never fails on a log it finds, and each such log was
\* asked for by one recorded request.
THEOREM TriggersReadable == RecordSpec => []TriggersCanBeRead
<1>1. LedgerInv /\ RowsInv => TriggersCanBeRead
    <2> SUFFICES ASSUME LedgerInv, RowsInv PROVE TriggersCanBeRead
        OBVIOUS
    <2>1. RecalculationTriggersAnswer
        BY DEF RowsInv, LogOK, RecalculationTriggersAnswer, QueryRecalculationTriggers
    <2>2. ASSUME NEW l \in QueryRecalculationTriggers
          PROVE  \E k \in DOMAIN ledger : \A j \in DOMAIN ledger :
                     ledger[j].id = l /\ ledger[j].version = 0 <=> j = k
        <3>1. PICK k \in DOMAIN ledger : ledger[k].id = l /\ ledger[k].version = 0
            BY DEF RowsInv, QueryRecalculationTriggers, LedgerInv, AppendsHaveReceipts
        <3>2. \A j \in DOMAIN ledger : ledger[j].id = l /\ ledger[j].version = 0 => j = k
            BY <3>1 DEF LedgerInv, EachVersionWrittenOnce, OneReceiptPerResult
        <3>3. QED
            BY <3>1, <3>2
    <2>3. QED
        BY <2>1, <2>2 DEF TriggersCanBeRead
<1>2. QED
    BY <1>1, RowsInvariant, PTL
=============================================================================
