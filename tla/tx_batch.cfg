\* Two connections and batches of two: one that must see its own first write, one
\* that repeats a key, two that compete for an occurrence key.
CONSTANTS
    d1 = d1  k1 = k1  k2 = k2  k3 = k3  k4 = k4
    t1 = t1  t2 = t2  l1 = l1  o1 = o1  b1 = b1  b2 = b2  s1 = s1
    NoOccurrence = NoOccurrence
    Device = {d1}
    IdempotencyKey = {k1, k2, k3, k4}
    TaskId = {t1, t2}
    UniverseId = {}
    LogId = {l1}
    XrefId = {}
    OtherId = {}
    CandidateId = {}
    Occurrence = {o1}
    Schema = {s1}
    Body = {b1, b2}
    RecordPayload <- Payloads
    StateRequest <- None
    Observation <- Observations
    MaxVersion = 3
    Conn = {p1, p2}
    Request <- Batches
SPECIFICATION TxSpec
SYMMETRY ConnSymmetry
INVARIANTS TxTypeOK CommittedAgrees AnswersAreDurable
PROPERTY CommitsWholeRequests
CHECK_DEADLOCK FALSE
