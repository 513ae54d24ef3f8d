-------------------------- MODULE ObjectAdmission --------------------------
(***************************************************************************)
(* The checks a record passes before a row is written: src/admission.rs,   *)
(* the compartment and provenance gates, and the checks of logs in         *)
(* src/queries.rs and src/recalculation.rs.  A text or a JSON value is     *)
(* what its parser says of it; what ubu_core checks inside a structured    *)
(* field is whether the field is "valid".                                  *)
(***************************************************************************)
EXTENDS StoreTables

CONSTANTS
    OtherKind,      \* the kinds of the ids in OtherId
    Label,          \* compartment labels that parse
    NotALabel,
    NotAnId         \* the id of a payload that has none

ObjectType == {"Task", "Objective", "Plan", "LogEntry", "ExternalReference", "Compartment", "Snapshot",
               "AutomationWorker", "ProjectionPreview", "Calendar", "Preference", "Container",
               "UniverseState", "Identity", "Relationship", "ExternalEvent", "Setting"}

ASSUME NotAnIdIsNone == NotAnId \notin ObjectId

ASSUME OtherKindShape ==
    OtherKind \in [OtherId -> ObjectType \ {"Task", "UniverseState", "LogEntry", "ExternalReference"}]

\* The object type of an id, by its prefix; a text that is not an id has none.
Kind(id) == CASE id \in TaskId     -> "Task"
              [] id \in UniverseId -> "UniverseState"
              [] id \in LogId      -> "LogEntry"
              [] id \in XrefId     -> "ExternalReference"
              [] id \in OtherId    -> OtherKind[id]
              [] OTHER             -> "none"

\* A field is absent, or there and valid or not to its parser.
Field == {"absent", "valid", "malformed"}

TaskStatus == {"active", "completed", "failed", "moot"}
DerivedStatus == {"canceled", "ready", "in_progress", "proposed", "blocked"}

TaskField == {"occurrence", "duration_estimate", "correlation_groups", "category_tag",
              "occupies_capacity", "allowed_time_range", "static_window"}
ObjectiveField == {"mode", "recurrence", "routine_instance_template", "routine"}
PreferenceField == {"preference"}

\* What a payload holds beside its id, occurrence key and schema_version, and
\* whether it reads as a recalculation trigger.
IsBody(b) ==
    /\ DOMAIN b = {"status", "moot", "provenance", "authority", "label", "fields", "trigger"}
    /\ b.moot \in BOOLEAN /\ b.trigger \in BOOLEAN
    /\ {b.provenance, b.authority} \subseteq Field
    /\ b.label \in Label \cup {NotALabel}
    /\ DOMAIN b.fields \subseteq TaskField \cup ObjectiveField \cup PreferenceField
    /\ \A f \in DOMAIN b.fields : b.fields[f] \in {"valid", "malformed"}

ASSUME Bodies == \A b \in Body : IsBody(b)

\* persist_universe_state makes the provenance from its authority source.
ASSUME StatesHaveProvenance ==
    \A q \in StateRequest : q.body.provenance = "valid" /\ Kind(q.state) = "UniverseState"

-----------------------------------------------------------------------------
(* validate_object_record, part by part.                                   *)

\* validate_object_id_for_type: a known type, and the one of the id's prefix.
IdIsOfType(id, type) == type \in ObjectType /\ Kind(id) = type

\* validate_task_lifecycle_status: a canonical status, moot with a reason code
\* and no other with one; the code's key alone counts, whatever its value.
LifecycleStatusOK(record) ==
    record.type = "Task" =>
        /\ record.status \notin DerivedStatus
        /\ record.status \in TaskStatus
        /\ record.status = "moot" <=> record.payload.body.moot

\* Mutant of PayloadStatusOK: the payload's status is not compared.
PayloadStatusAny(record) == TRUE

\* validate_payload_lifecycle_status: the payload says the same.
PayloadStatusOK(record) == record.type = "Task" => record.payload.body.status = record.status

\* validate_task_fields, validate_objective_fields and Preference: what is there
\* is well formed, and a Task is either at a time or within one.
FieldsOK(record) ==
    LET fields == record.payload.body.fields
        Valid(names) == \A f \in DOMAIN fields \cap names : fields[f] = "valid"
    IN  /\ record.type = "Task" =>
               Valid(TaskField) /\ ~({"static_window", "allowed_time_range"} \subseteq DOMAIN fields)
        /\ record.type = "Objective" => Valid(ObjectiveField)
        /\ record.type = "Preference" =>
               "preference" \in DOMAIN fields /\ fields["preference"] = "valid"

NeedsProvenance == {"Task", "Objective", "ExternalReference", "UniverseState", "Preference"}

\* Mutant of ProvenanceOK: one that is absent is not missed.
ProvenanceIfThere(record) == record.payload.body.provenance # "malformed"

\* validate_payload_provenance: there where it must be, well formed where it is.
ProvenanceOK(record) ==
    /\ record.payload.body.provenance # "malformed"
    /\ record.type \in NeedsProvenance => record.payload.body.provenance # "absent"

\* validate_payload_authority_source.
AuthorityOK(record) ==
    record.type \in {"LogEntry", "Setting"} => record.payload.body.authority = "valid"

\* validate_payload_compartment_metadata.
CompartmentOK(record) == record.type = "Compartment" => record.payload.body.label \in Label

\* validate_object_record: a record is [id, type, version, status, label,
\* stamps, payload]; stamps says whether both of its timestamps parse.
ObjectRecordOK(record) ==
    /\ IdIsOfType(record.id, record.type)
    /\ record.label \in Label
    /\ record.stamps
    /\ record.version > 0
    /\ LifecycleStatusOK(record)
    /\ record.payload.id = record.id
    /\ PayloadStatusOK(record)
    /\ FieldsOK(record)
    /\ ProvenanceOK(record)
    /\ AuthorityOK(record)
    /\ CompartmentOK(record)

-----------------------------------------------------------------------------
(* append_prepared_log.                                                    *)

Recalculation == "recalculation_requested"

\* Mutant of LogRecordOK: the trigger is left to its readers.
LogRecordButTrigger(log) == log.provenance = "valid" /\ log.stamps

\* A log is [id, event, provenance, stamps, payload]; a request for
\* recalculation holds a trigger.
LogRecordOK(log) ==
    /\ log.provenance = "valid"
    /\ log.event = Recalculation => log.payload.body.trigger
    /\ log.stamps
=============================================================================
