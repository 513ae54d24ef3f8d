---------------------------- MODULE StoreTables ----------------------------
(***************************************************************************)
(* The vocabulary shared by the modules of the store: identities, JSON     *)
(* payloads, versions, mutation envelopes and the SQLite tables, with the  *)
(* pure helpers of src/queries.rs that read them.                          *)
(*                                                                         *)
(* A table is a partial function from its primary key to its row.  A       *)
(* payload is a record of the few fields the writers look at; everything   *)
(* else a payload holds is its "body".                                     *)
(***************************************************************************)
EXTENDS Integers, FiniteSets

CONSTANTS
    Device,         \* devices that originate mutations
    IdempotencyKey, \* idempotency keys a device may use
    TaskId,         \* ids with the prefix of a Task
    UniverseId,     \* ids with the prefix of a UniverseState
    LogId,          \* ids with the prefix of a LogEntry
    XrefId,         \* ids with the prefix of an ExternalReference
    OtherId,        \* ids with any other prefix of the registry
    CandidateId,    \* AdvisoryCandidateIds, outside the registry of object ids
    Occurrence,     \* values of /occurrence/key
    NoOccurrence,   \* an absent /occurrence/key
    Schema,         \* values of /schema_version, an absent one included
    Body,           \* everything else a payload holds
    RecordPayload,  \* JSON payloads submitted in object, log and xref records
    StateRequest,   \* JSON payloads {"state", "authority_source"} of persisted states
    Observation,    \* the observed_versions maps envelopes carry
    MaxVersion      \* stands for i64::MAX, the largest version SQLite stores

ObjectId == TaskId \cup UniverseId \cup LogId \cup XrefId \cup OtherId

\* An id is of one kind, told by its prefix.
ASSUME IdsDisjoint ==
    /\ TaskId \cap (UniverseId \cup LogId \cup XrefId \cup OtherId) = {}
    /\ UniverseId \cap (LogId \cup XrefId \cup OtherId) = {}
    /\ LogId \cap (XrefId \cup OtherId) = {}
    /\ XrefId \cap OtherId = {}
    /\ CandidateId \cap ObjectId = {}

ASSUME MaxVersionPositive == MaxVersion \in Nat \ {0}

\* The mutation key: unique per device, whatever writer it is used with.
Key == Device \X IdempotencyKey

\* VersionRef::Absent; VersionRef::Version(v) is the natural v.
Absent == -1
VersionRef == Nat \cup {Absent}

\* A record payload names its id and may carry an occurrence key and a
\* schema_version.
ObjectPayload == [id : ObjectId, occurrence : Occurrence \cup {NoOccurrence},
                  schema : Schema, body : Body]

ASSUME RecordPayloadShape == RecordPayload \subseteq ObjectPayload

\* The request payload of persist_universe_state wraps the state; its body is
\* every field of the state and the authority source.
ASSUME StateRequestShape == StateRequest \subseteq [state : ObjectId, body : Body]

\* observed_versions is a map from ids to what the caller saw of them.
ASSUME ObservationShape ==
    \A obs \in Observation : \E seen \in SUBSET ObjectId : obs \in [seen -> VersionRef]

Envelope == [key : Key, observed : Observation]

Json == RecordPayload \cup StateRequest

-----------------------------------------------------------------------------
(* Tables.                                                                 *)

Empty == [x \in {} |-> x]

\* INSERT a new row, or UPDATE the row under an existing key.
Put(table, key, row) ==
    [x \in DOMAIN table \cup {key} |-> IF x = key THEN row ELSE table[x]]

IsTable(table, keys, rows) ==
    /\ DOMAIN table \subseteq keys
    /\ \A x \in DOMAIN table : table[x] \in rows

-----------------------------------------------------------------------------
(* Reads of the objects table.                                             *)

\* The version of an id as check_preconditions reads it.
CurrentRef(objects, id) ==
    IF id \in DOMAIN objects THEN objects[id].version ELSE Absent

\* Mutants of PreconditionsHold: versions not compared; Absent matches anything.
PreconditionsOfExistence(objects, observed) ==
    \A o \in DOMAIN observed : observed[o] = Absent <=> o \notin DOMAIN objects
PreconditionsOfVersions(objects, observed) ==
    \A o \in DOMAIN observed : observed[o] \in {Absent, CurrentRef(objects, o)}

\* check_preconditions: every observed version is still the current one.
PreconditionsHold(objects, observed) ==
    \A o \in DOMAIN observed : observed[o] = CurrentRef(objects, o)

\* The version a write on top of the observed one produces.
NextVersion(ref) == IF ref = Absent THEN 1 ELSE ref + 1

\* Mutant of CanAdvance: the last version is taken for the last but one.
CanAdvancePastEnd(ref) == ref <= MaxVersion

\* checked_add: the next version still fits.
CanAdvance(ref) == ref # MaxVersion

\* A Task other than id already holds the occurrence key.
OccurrenceHeld(objects, id, occurrence) ==
    \E t \in (DOMAIN objects \cap TaskId) \ {id} :
        objects[t].payload.occurrence = occurrence

-----------------------------------------------------------------------------
(* Which recorded mutation may answer a repeated request.                  *)

\* Mutant of Accepts: the kind of the recorded id is not looked at.
AcceptsAnyAppend(target, receipt) ==
    CASE target = "objects" -> receipt.version > 0
      [] target \in {"logs", "xrefs"} -> receipt.version = 0

\* MutationTarget::accepts: a positive version is an object's, zero an append's,
\* whose id tells its table, and a negative one a candidate's.
Accepts(target, receipt) ==
    CASE target = "objects" -> receipt.version > 0
      [] target = "logs"    -> receipt.version = 0 /\ receipt.id \in LogId
      [] target = "xrefs"   -> receipt.version = 0 /\ receipt.id \in XrefId
      [] target = "candidates" -> receipt.version < 0 /\ receipt.id \in CandidateId
=============================================================================
