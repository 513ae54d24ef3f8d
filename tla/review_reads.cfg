\* Two reviewers, two candidates of one place or two, four mutation keys.
CONSTANTS
    d1 = d1  d2 = d2  k1 = k1  k2 = k2  t1 = t1  c1 = c1  c2 = c2
    g1 = g1  n1 = n1  n2 = n2  b1 = b1  s1 = s1  z1 = z1
    NoOccurrence = NoOccurrence
    NoSuppression = NoSuppression
    NoTrigger = NoTrigger
    NoRef = NoRef
    NoOrder = NoOrder
    Device = {d1, d2}
    IdempotencyKey = {k1, k2}
    TaskId = {t1}
    UniverseId = {}
    LogId = {}
    XrefId = {}
    OtherId = {}
    CandidateId = {c1, c2}
    Occurrence = {}
    Schema = {s1}
    Body = {b1}
    RecordPayload <- OneTask
    StateRequest <- None
    Observation <- FirstWrite
    MaxVersion = 4
    SuppressionKey = {g1}
    Content = {n1, n2}
    DerivedKey <- DerivedG1
    Submission <- TwoCandidates
    Trigger = {z1}
    Edges <- LifecycleEdges
    Placement <- Places
    IdOrder <- C1First
SPECIFICATION ReadSpec
SYMMETRY KeySymmetry
INVARIANT QueueIsAdmissible
PROPERTIES DecidedAsSeen QueuePlacesAreStable EventsListedInCommitOrder
CHECK_DEADLOCK FALSE
