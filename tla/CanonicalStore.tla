--------------------------- MODULE CanonicalStore ---------------------------
(***************************************************************************)
(* The canonical writers of src/queries.rs over their three tables and the *)
(* mutation ledger.  A writer is one SQLite transaction, so one action:    *)
(* module by module, this is the store as its callers see it after commit. *)
(* A refused request rolls back and is a stuttering step.                  *)
(***************************************************************************)
EXTENDS StoreTables

VARIABLES
    objects,    \* objects: id -> [payload, version]
    logs,       \* logs: id -> payload
    xrefs,      \* external_references: id -> payload
    ledger      \* mutation_envelopes: key -> [payload, id, version, observed]

vars == <<objects, logs, xrefs, ledger>>

Receipt == [payload : Json, id : ObjectId, version : 0..MaxVersion, observed : Observation]

ObjectRow == [payload : ObjectPayload, version : 1..MaxVersion]

Init == /\ objects = Empty
        /\ logs = Empty
        /\ xrefs = Empty
        /\ ledger = Empty

-----------------------------------------------------------------------------
(* prepare_mutation.                                                       *)

\* Mutant of Fresh: the ledger is not consulted.
FreshWithoutLookup(env) == PreconditionsHold(objects, env.observed)

\* The key is new and every observed version is current.
Fresh(env) == /\ env.key \notin DOMAIN ledger
              /\ PreconditionsHold(objects, env.observed)

\* The key is recorded with the same payload for the same table.
Replays(key, payload, target) ==
    /\ key \in DOMAIN ledger
    /\ ledger[key].payload = payload
    /\ Accepts(target, ledger[key])

\* record_mutation: the envelope, its payload and its result, once per key.
Record(env, payload, id, version) ==
    ledger' = Put(ledger, env.key, [payload |-> payload, id |-> id, version |-> version,
                                    observed |-> env.observed])

-----------------------------------------------------------------------------
(* The writers.                                                            *)

\* Mutant of OccurrenceFree: only a new Task is checked.
OccurrenceFreeOnInsert(env, id, stored) ==
    env.observed[id] = Absent /\ id \in TaskId /\ stored.occurrence # NoOccurrence =>
        ~OccurrenceHeld(objects, id, stored.occurrence)

\* A Task's occurrence key, if it has one, is its own.
OccurrenceFree(env, id, stored) ==
    id \in TaskId /\ stored.occurrence # NoOccurrence =>
        ~OccurrenceHeld(objects, id, stored.occurrence)

\* write_object_row and record_mutation: the target's version must be observed,
\* the occurrence key free and the next version representable.
WriteObject(env, id, stored, requested) ==
    /\ id \in DOMAIN env.observed
    /\ OccurrenceFree(env, id, stored)
    /\ CanAdvance(env.observed[id])
    /\ LET version == NextVersion(env.observed[id])
       IN  /\ objects' = Put(objects, id, [payload |-> stored, version |-> version])
           /\ Record(env, requested, id, version)
    /\ UNCHANGED <<logs, xrefs>>

\* admit_object: the payload's own id is the record's.
AdmitObject(env, payload) ==
    /\ Fresh(env)
    /\ WriteObject(env, payload.id, payload, payload)

\* Mutant of PersistedPayload: a schema_version of the writer's own.
PersistedUnderDefaultSchema(request) ==
    [id |-> request.state, occurrence |-> NoOccurrence,
     schema |-> CHOOSE s \in Schema : TRUE, body |-> request.body]

\* The stored UniverseState: the caller's state under the schema_version the
\* current row already has.
PersistedPayload(request) ==
    [id |-> request.state, occurrence |-> NoOccurrence,
     schema |-> objects[request.state].payload.schema, body |-> request.body]

\* persist_universe_state: only ever a new version of an existing state.
PersistUniverseState(env, request) ==
    /\ Fresh(env)
    /\ request.state \in UniverseId \cap DOMAIN env.observed
    /\ env.observed[request.state] # Absent
    /\ WriteObject(env, request.state, PersistedPayload(request), request)

\* Mutant of AppendLogEntry: INSERT OR REPLACE.
ReplaceLogEntry(env, id, payload) ==
    /\ Fresh(env)
    /\ logs' = Put(logs, id, payload)
    /\ Record(env, payload, id, 0)
    /\ UNCHANGED <<objects, xrefs>>

\* append_log_entry: the primary key refuses a second row with the same id.
AppendLogEntry(env, id, payload) ==
    /\ Fresh(env)
    /\ id \notin DOMAIN logs
    /\ logs' = Put(logs, id, payload)
    /\ Record(env, payload, id, 0)
    /\ UNCHANGED <<objects, xrefs>>

\* store_external_reference.
StoreExternalReference(env, id, payload) ==
    /\ Fresh(env)
    /\ id \notin DOMAIN xrefs
    /\ xrefs' = Put(xrefs, id, payload)
    /\ Record(env, payload, id, 0)
    /\ UNCHANGED <<objects, logs>>

\* A repeated request only reads: the answer is the current row of the
\* recorded result, whatever the rest of the envelope and the record say.
ReplayMutation(key, payload, target) ==
    /\ Replays(key, payload, target)
    /\ UNCHANGED vars

Next ==
    \/ \E env \in Envelope :
          \/ \E p \in RecordPayload : AdmitObject(env, p)
          \/ \E q \in StateRequest : PersistUniverseState(env, q)
          \/ \E id \in LogId, p \in Json : AppendLogEntry(env, id, p)
          \/ \E id \in XrefId, p \in Json : StoreExternalReference(env, id, p)
    \/ \E key \in Key, p \in Json, target \in {"objects", "logs", "xrefs"} :
          ReplayMutation(key, p, target)

Spec == Init /\ [][Next]_vars

-----------------------------------------------------------------------------
(* Properties.                                                             *)

\* The tables hold rows of their types (migrations/0001 and 0002).
TypeOK ==
    /\ IsTable(objects, ObjectId, ObjectRow)
    /\ IsTable(logs, LogId, Json)
    /\ IsTable(xrefs, XrefId, Json)
    /\ IsTable(ledger, Key, Receipt)

\* Key k records that version v of object o was written.
Wrote(k, o, v) == v > 0 /\ ledger[k].id = o /\ ledger[k].version = v

\* No version of an object was written without a receipt.
VersionsHaveReceipts ==
    \A o \in DOMAIN objects : \A v \in 1..objects[o].version :
        \E k \in DOMAIN ledger : Wrote(k, o, v)

\* No receipt speaks of a version the object has not reached.
ReceiptsHaveVersions ==
    \A k \in DOMAIN ledger : ledger[k].version > 0 =>
        /\ ledger[k].id \in DOMAIN objects
        /\ ledger[k].version <= objects[ledger[k].id].version

\* One request wrote each version, and one each log or reference row.
OneReceiptPerResult ==
    \A j, k \in DOMAIN ledger :
        ledger[j].id = ledger[k].id /\ ledger[j].version = ledger[k].version => j = k

\* However requests from several devices interleave and retry, the ledger and
\* the objects table agree: each version 1..n of an object of version n was
\* written by exactly one recorded request, and no other is recorded
\* (admit_prepared_object and persist_universe_state write both or neither).
EachVersionWrittenOnce ==
    VersionsHaveReceipts /\ ReceiptsHaveVersions /\ OneReceiptPerResult

\* The row is what its evidence says it is: the body of the receipt that wrote
\* the current version, under the schema_version of the last admitted payload
\* (persist_universe_state keeps the schema_version, admit_object replaces it).
RowFollowsFromReceipts ==
    \A k \in DOMAIN ledger : ledger[k].version > 0 =>
        LET receipt == ledger[k]
            row == objects[receipt.id]
            superseded == \E j \in DOMAIN ledger :
                              /\ ledger[j].id = receipt.id
                              /\ ledger[j].version > receipt.version
                              /\ ledger[j].payload \in RecordPayload
        IN  /\ receipt.version = row.version => row.payload.body = receipt.payload.body
            /\ receipt.payload \in RecordPayload /\ ~superseded =>
                   row.payload.schema = receipt.payload.schema

\* Every log and external reference has the receipt that appended it, with the
\* same payload, and every receipt of version zero has its row.
AppendsHaveReceipts ==
    /\ \A l \in DOMAIN logs : \E k \in DOMAIN ledger :
           ledger[k].id = l /\ ledger[k].version = 0
    /\ \A x \in DOMAIN xrefs : \E k \in DOMAIN ledger :
           ledger[k].id = x /\ ledger[k].version = 0
    /\ \A k \in DOMAIN ledger : ledger[k].version = 0 =>
           \/ ledger[k].id \in DOMAIN logs /\ logs[ledger[k].id] = ledger[k].payload
           \/ ledger[k].id \in DOMAIN xrefs /\ xrefs[ledger[k].id] = ledger[k].payload

\* The request of k must come before that of j in any order that explains
\* what they observed: k wrote a version j observed, or k observed the
\* version (or the absence) that j replaced.
Precedes(k, j) ==
    \/ /\ ledger[k].id \in DOMAIN ledger[j].observed
       /\ ledger[k].version > 0
       /\ ledger[j].observed[ledger[k].id] = ledger[k].version
    \/ /\ ledger[j].id \in DOMAIN ledger[k].observed
       /\ ledger[j].version > 0
       /\ NextVersion(ledger[k].observed[ledger[j].id]) = ledger[j].version

\* The admitted requests are serializable: no set of them waits on itself, so
\* some order explains everything they claim to have observed (a request that
\* read a stale row beside its target would close a cycle; check_preconditions
\* covers every observed id, not only the target).
ReceiptsSerializable ==
    \A S \in (SUBSET DOMAIN ledger) \ {{}} :
        \E k \in S : \A j \in S \ {k} : ~Precedes(j, k)

\* A recorded key answers a repeated request only where its row is: the writer
\* for the table Accepts names finds the row it reads back
\* (RecordedMutationObjectMissing and RowNotFound are never returned).
ReplayFindsItsRow ==
    \A k \in DOMAIN ledger :
        /\ Accepts("objects", ledger[k]) => ledger[k].id \in DOMAIN objects
        /\ Accepts("logs", ledger[k]) => ledger[k].id \in DOMAIN logs
        /\ Accepts("xrefs", ledger[k]) => ledger[k].id \in DOMAIN xrefs

\* At most one Task holds an occurrence key, through every update that moves,
\* drops or reclaims a key (write_object_row and the unique index of 0004).
OccurrenceKeyUnique ==
    \A s, t \in DOMAIN objects \cap TaskId :
        /\ objects[s].payload.occurrence # NoOccurrence
        /\ objects[s].payload.occurrence = objects[t].payload.occurrence
        => s = t

\* Evidence is append-only: no step changes or removes a receipt, a log or a
\* reference, and an object is replaced only by its next version (CONTRACT.md).
EvidenceAppendOnly ==
    [][/\ \A k \in DOMAIN ledger : k \in DOMAIN ledger' /\ ledger'[k] = ledger[k]
       /\ \A l \in DOMAIN logs : l \in DOMAIN logs' /\ logs'[l] = logs[l]
       /\ \A x \in DOMAIN xrefs : x \in DOMAIN xrefs' /\ xrefs'[x] = xrefs[x]
       /\ \A o \in DOMAIN objects :
             /\ o \in DOMAIN objects'
             /\ \/ objects'[o] = objects[o]
                \/ objects'[o].version = objects[o].version + 1]_vars

=============================================================================
