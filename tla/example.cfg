\* The record of examples/admit_task.rs, and no other.
CONSTANTS
    d1 = d1  k1 = k1  t1 = t1  s1 = s1  personal = personal
    NoOccurrence = NoOccurrence  NotALabel = NotALabel  NotAnId = NotAnId
    Device = {d1}
    IdempotencyKey = {k1}
    TaskId = {t1}
    UniverseId = {}
    LogId = {}
    XrefId = {}
    OtherId = {}
    CandidateId = {}
    Occurrence = {}
    Schema = {s1}
    Body <- TitledBodies
    Label = {personal}
    OtherKind <- NoKinds
    RecordPayload <- None
    ObjectRecord <- Example
    LogRecord <- None
    StateRequest <- None
    Observation <- Unseen
    MaxVersion = 1
SPECIFICATION ExampleSpec
INVARIANT ExampleIsAdmitted
CHECK_DEADLOCK FALSE
