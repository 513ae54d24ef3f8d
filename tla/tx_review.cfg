\* Two connections interleave the statements of storing, deferring, rejecting
\* and admitting two candidates.
CONSTANTS
    d1 = d1  k1 = k1  k2 = k2  k3 = k3  k4 = k4
    t1 = t1  c1 = c1  c2 = c2  g1 = g1  n1 = n1  b1 = b1  s1 = s1
    NoOccurrence = NoOccurrence
    NoSuppression = NoSuppression
    NoTrigger = NoTrigger
    NoRef = NoRef
    Device = {d1}
    IdempotencyKey = {k1, k2, k3, k4}
    TaskId = {t1}
    UniverseId = {}
    LogId = {}
    XrefId = {}
    OtherId = {}
    CandidateId = {c1, c2}
    Occurrence = {}
    Schema = {s1}
    Body = {b1}
    RecordPayload <- OneTask
    StateRequest <- None
    Observation <- Observations
    MaxVersion = 3
    SuppressionKey = {g1}
    Content = {n1}
    DerivedKey <- DerivedG1
    Submission <- Submissions
    Trigger = {}
    Edges <- LifecycleEdges
    Conn = {p1, p2}
    Request <- Requests
SPECIFICATION TxSpec
SYMMETRY ConnSymmetry
PROPERTIES CommitsImplementReview RecordedDecisionsAreAnswered
CHECK_DEADLOCK FALSE
