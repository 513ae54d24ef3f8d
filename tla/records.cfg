\* Objects of six kinds and a log, well formed and not, under four mutation
\* keys; a UniverseState under two schema versions, persisted and re-admitted; a
\* LogEntry object, and a log with the same id.
CONSTANTS
    d1 = d1  k1 = k1  k2 = k2  k3 = k3  k4 = k4  t1 = t1  u1 = u1  l1 = l1
    c1 = c1  p1 = p1  e1 = e1  s1 = s1  s2 = s2  personal = personal
    NoOccurrence = NoOccurrence  NotALabel = NotALabel  NotAnId = NotAnId
    Device = {d1}
    IdempotencyKey = {k1, k2, k3, k4}
    TaskId = {t1}
    UniverseId = {u1}
    LogId = {l1}
    XrefId = {}
    OtherId = {c1, p1, e1}
    CandidateId = {}
    Occurrence = {}
    Schema = {s1, s2}
    Body <- Bodied
    Label = {personal}
    OtherKind <- Kinds
    RecordPayload <- AllPayloads
    ObjectRecord <- Objects
    LogRecord <- Logs
    StateRequest <- States
    Observation <- Observing
    MaxVersion = 3
SPECIFICATION RecordSpec
SYMMETRY KeySymmetry
INVARIANTS RowFollowsFromReceipts ActiveTasksAreActive TaskStatusIsEvidenced RowsKeepTheContract TriggersCanBeRead
PROPERTY EvidenceAppendOnly
CHECK_DEADLOCK FALSE
