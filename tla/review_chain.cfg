\* One candidate through up to five decisions, no canonical state: deferred
\* and resurfaced twice over, then settled.
CONSTANTS
    d1 = d1  d2 = d2  k1 = k1  k2 = k2  k3 = k3  k4 = k4  k5 = k5  k6 = k6
    t1 = t1  t2 = t2  c1 = c1  c2 = c2  g1 = g1  g2 = g2  n1 = n1  b1 = b1  s1 = s1  z1 = z1
    NoOccurrence = NoOccurrence
    NoSuppression = NoSuppression
    NoTrigger = NoTrigger
    NoRef = NoRef
    Device = {d1}
    IdempotencyKey = {k1, k2, k3, k4, k5, k6}
    TaskId = {}
    UniverseId = {}
    LogId = {}
    XrefId = {}
    OtherId = {}
    CandidateId = {c1}
    Occurrence = {}
    Schema = {s1}
    Body = {b1}
    RecordPayload <- None
    StateRequest <- None
    Observation <- NoReads
    MaxVersion = 7
    SuppressionKey = {g1}
    Content = {n1}
    DerivedKey <- DerivedG1
    Submission <- Aged
    Trigger = {z1}
    Edges <- LifecycleEdges
SPECIFICATION ReviewSpec
SYMMETRY KeySymmetry
INVARIANTS DecisionChain LinksNameDecisions
CHECK_DEADLOCK FALSE
