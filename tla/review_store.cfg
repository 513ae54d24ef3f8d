\* Two candidates with one content, a Task they may be admitted as, four keys
\* of two devices.
CONSTANTS
    d1 = d1  d2 = d2  k1 = k1  k2 = k2  k3 = k3  k4 = k4  k5 = k5  k6 = k6
    t1 = t1  t2 = t2  c1 = c1  c2 = c2  g1 = g1  g2 = g2  n1 = n1  b1 = b1  s1 = s1  z1 = z1
    NoOccurrence = NoOccurrence
    NoSuppression = NoSuppression
    NoTrigger = NoTrigger
    NoRef = NoRef
    Device = {d1, d2}
    IdempotencyKey = {k1, k2}
    TaskId = {t1}
    UniverseId = {}
    LogId = {}
    XrefId = {}
    OtherId = {}
    CandidateId = {c1, c2}
    Occurrence = {}
    Schema = {s1}
    Body = {b1}
    RecordPayload <- OneTask
    StateRequest <- None
    Observation <- FirstWrites
    MaxVersion = 3
    SuppressionKey = {g1, g2}
    Content = {n1}
    DerivedKey <- DerivedG1
    Submission <- TwoCandidates
    Trigger = {z1}
    Edges <- LifecycleEdges
SPECIFICATION ReviewSpec
SYMMETRY DeviceSymmetry
INVARIANTS ReviewTypeOK RowMirrorsPayload DecisionsHaveReceipts RejectionsSuppress AdmissionReplayIsProof
PROPERTIES SuppressionsOnlyRenewed ImplementsCanonicalStore
CHECK_DEADLOCK FALSE
