\* Three processes, four requests that compete for two Tasks, faults and lost answers.
CONSTANTS
    d1 = d1  k1 = k1  k2 = k2  k3 = k3  k4 = k4  k5 = k5  k6 = k6
    t1 = t1  t2 = t2  l1 = l1  b1 = b1  b2 = b2  s1 = s1
    p1 = p1  p2 = p2  p3 = p3
    NoOccurrence = NoOccurrence
    Device = {d1}
    IdempotencyKey = {k1, k2, k3, k4, k5, k6}
    TaskId = {t1, t2}
    UniverseId = {}
    LogId = {l1}
    XrefId = {}
    OtherId = {}
    CandidateId = {}
    Occurrence = {}
    Schema = {s1}
    Body = {b1, b2}
    RecordPayload <- Payloads
    StateRequest <- None
    Observation <- Observations
    MaxVersion = 3
    Conn = {p1, p2, p3}
    Request <- Requests
    Workload <- Workloads
    MaxFaults = 2
SPECIFICATION RetrySpec
PROPERTIES ExactlyOnce EveryRequestAnswered
CHECK_DEADLOCK FALSE
