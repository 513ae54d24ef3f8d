-------------------------- MODULE AdmittedRecords --------------------------
(***************************************************************************)
(* The canonical writers with the records callers submit: the checks of    *)
(* ObjectAdmission, the columns kept beside the payload, and the reads     *)
(* that go by the columns.  Payloads, versions and receipts are those of   *)
(* CanonicalStore.                                                         *)
(***************************************************************************)
EXTENDS CanonicalStore, ObjectAdmission

CONSTANTS
    ObjectRecord,   \* object records submitted
    LogRecord       \* log records submitted

VARIABLES
    columns,        \* objects: id -> [type, status, label]
    logEvents       \* logs: id -> the event_type column

columnVars == <<columns, logEvents>>
recordVars == <<vars, columnVars>>

ASSUME RecordsHavePayloads ==
    /\ \A r \in ObjectRecord : r.payload.id # NotAnId => r.payload \in RecordPayload
    /\ \A l \in LogRecord : l.payload \in RecordPayload

RecordInit == Init /\ columns = Empty /\ logEvents = Empty

-----------------------------------------------------------------------------
(* Writers.                                                                *)

\* Mutant of ColumnsOf: an update leaves the status as well as the type.
ColumnsButStatus(record) ==
    IF record.id \in DOMAIN columns THEN [columns[record.id] EXCEPT !.label = record.label]
    ELSE [type |-> record.type, status |-> record.status, label |-> record.label]

\* INSERT sets every column, UPDATE all but the type and created_at.
ColumnsOf(record) ==
    [type |-> IF record.id \in DOMAIN columns THEN columns[record.id].type ELSE record.type,
     status |-> record.status, label |-> record.label]

WriteColumns(record) ==
    /\ columns' = Put(columns, record.id, ColumnsOf(record))
    /\ UNCHANGED logEvents

\* admit_object.
AdmitRecord(env, record) ==
    /\ ObjectRecordOK(record)
    /\ AdmitObject(env, record.payload)
    /\ WriteColumns(record)

\* The record persist_universe_state builds on the current row.
Persisted(request) ==
    [id |-> request.state, type |-> "UniverseState", version |-> objects[request.state].version,
     status |-> columns[request.state].status, label |-> columns[request.state].label,
     stamps |-> TRUE, payload |-> PersistedPayload(request)]

\* persist_universe_state, which checks that record as any other.
PersistRecord(env, request) ==
    /\ PersistUniverseState(env, request)
    /\ ObjectRecordOK(Persisted(request))
    /\ WriteColumns(Persisted(request))

\* append_log_entry.
AppendRecord(env, log) ==
    /\ Kind(log.id) = "LogEntry"
    /\ LogRecordOK(log)
    /\ AppendLogEntry(env, log.id, log.payload)
    /\ logEvents' = Put(logEvents, log.id, log.event)
    /\ UNCHANGED columns

\* A repeated request is answered before its record is checked.
ReplayRecord(key, payload, target) ==
    ReplayMutation(key, payload, target) /\ UNCHANGED columnVars

RecordNext ==
    \/ \E env \in Envelope :
          \/ \E r \in ObjectRecord : AdmitRecord(env, r)
          \/ \E q \in StateRequest : PersistRecord(env, q)
          \/ \E l \in LogRecord : AppendRecord(env, l)
    \/ \E key \in Key, p \in Json, target \in {"objects", "logs"} : ReplayRecord(key, p, target)

RecordSpec == RecordInit /\ [][RecordNext]_recordVars

-----------------------------------------------------------------------------
(* Reads.                                                                  *)

\* query_active_tasks.
QueryActiveTasks == {id \in DOMAIN columns : columns[id].type = "Task" /\ columns[id].status = "active"}

\* query_recalculation_triggers.
QueryRecalculationTriggers == {l \in DOMAIN logEvents : logEvents[l] = Recalculation}

\* recalculation_triggers answers only if every payload it reads is a trigger.
RecalculationTriggersAnswer == \A l \in QueryRecalculationTriggers : logs[l].body.trigger

-----------------------------------------------------------------------------
(* Properties.                                                             *)

\* Every stored object keeps what CONTRACT.md (Admission) and
\* docs/PHASE1_STORE_CONTRACT.md (provenance, compartment metadata) ask of it,
\* whichever writer wrote it last and whatever row it wrote over: its type is
\* its id's, its labels parse, and who says so is recorded.
RowsKeepTheContract ==
    /\ DOMAIN columns = DOMAIN objects /\ DOMAIN logEvents = DOMAIN logs
    /\ \A id \in DOMAIN objects :
          LET body == objects[id].payload.body
              row == columns[id]
          IN  /\ row.type = Kind(id) /\ objects[id].payload.id = id
              /\ row.label \in Label
              /\ row.type \in NeedsProvenance => body.provenance = "valid"
              /\ row.type \in {"LogEntry", "Setting"} => body.authority = "valid"
              /\ row.type = "Compartment" => body.label \in Label

\* Whatever updates a Task went through, its row and its payload tell one
\* canonical status, moot with its reason and only then; so the Tasks
\* query_active_tasks lists by column are those whose payload, which is all its
\* callers read, says active.
ActiveTasksAreActive ==
    /\ \A id \in DOMAIN objects \cap TaskId :
          /\ columns[id].status \in TaskStatus
          /\ objects[id].payload.body.moot <=> columns[id].status = "moot"
    /\ QueryActiveTasks =
          {id \in DOMAIN objects \cap TaskId : objects[id].payload.body.status = "active"}

\* A Task's status can be told from append-only evidence
\* (docs/PHASE1_STORE_CONTRACT.md): it is that of the request whose receipt
\* names the current version, though the ledger keeps payloads and no columns.
TaskStatusIsEvidenced ==
    \A k \in DOMAIN ledger :
        /\ ledger[k].id \in TaskId
        /\ ledger[k].version = objects[ledger[k].id].version
        => columns[ledger[k].id].status = ledger[k].payload.body.status

\* One log whose payload is no trigger would fail recalculation_triggers for
\* all: none comes to that event type unchecked, by a retry or under the key and
\* payload of another kind of record, and each was asked for by one request.
TriggersCanBeRead ==
    /\ RecalculationTriggersAnswer
    /\ \A l \in QueryRecalculationTriggers :
          \E k \in DOMAIN ledger : \A j \in DOMAIN ledger :
              ledger[j].id = l /\ ledger[j].version = 0 <=> j = k
=============================================================================
