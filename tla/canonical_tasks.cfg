\* Two Tasks with one occurrence key between them, a log and an external
\* reference, four mutation keys.
CONSTANTS
    d1 = d1  k1 = k1  k2 = k2  k3 = k3  k4 = k4
    t1 = t1  t2 = t2  l1 = l1  x1 = x1
    o1 = o1  b1 = b1  b2 = b2  s1 = s1  s2 = s2
    NoOccurrence = NoOccurrence
    Device = {d1}
    IdempotencyKey = {k1, k2, k3, k4}
    TaskId = {t1, t2}
    UniverseId = {}
    LogId = {l1}
    XrefId = {x1}
    OtherId = {}
    CandidateId = {}
    Occurrence = {o1}
    Schema = {s1, s2}
    Body = {b1, b2}
    RecordPayload <- TwoTasks
    StateRequest <- NoRequest
    Observation <- ObservingTasks
    MaxVersion = 3
SPECIFICATION Spec
SYMMETRY TaskSymmetry
INVARIANTS TypeOK EachVersionWrittenOnce AppendsHaveReceipts ReceiptsSerializable ReplayFindsItsRow OccurrenceKeyUnique
CHECK_DEADLOCK FALSE
